----------------------------- MODULE IngestPromise -----------------------------
(***************************************************************************)
(* What fetching promises (store/src/ingest.rs:1-2, 276-279, 429-431):     *)
(* files are stored whole and for good, and the time the next differential *)
(* fetch starts after moves forward only over files that are stored.       *)
(*                                                                         *)
(* It need not move on from where it is: a backfill with a later --from    *)
(* sets it over everything before the start of that backfill's window.     *)
(***************************************************************************)
EXTENDS Integers

CONSTANTS
    Specs,      \* the dataspecs
    Files,      \* dataspec -> times of its files
    Starts      \* dataspec -> starts of its windows

VARIABLES
    stored,     \* dataspec -> files that are stored with all their records
    frontier    \* dataspec -> time the next differential fetch starts after

vars == <<stored, frontier>>

Init ==
    /\ stored = [d \in Specs |-> {}]
    /\ frontier = [d \in Specs |-> -1]      \* nothing to start from

StoreFile(d, f) ==
    /\ f \in Files[d] \ stored[d]
    /\ stored' = [stored EXCEPT ![d] = @ \union {f}]
    /\ UNCHANGED frontier

\* No file is missing from where the fetch began to the new frontier.
MoveOn(d, base) ==
    /\ frontier[d] < frontier'[d] /\ base <= frontier'[d]
    /\ frontier' = [frontier EXCEPT ![d] = frontier'[d]]
    /\ \A f \in Files[d] : base < f /\ f <= frontier'[d] => f \in stored[d]
    /\ UNCHANGED stored

Next ==
    \E d \in Specs :
        \/ \E f \in Files[d] : StoreFile(d, f)
        \/ \E base \in Starts[d] \union {frontier[d]} : MoveOn(d, base)

Spec == Init /\ [][Next]_vars
=============================================================================
