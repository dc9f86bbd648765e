------------------------------ MODULE LatestTable ------------------------------
(***************************************************************************)
(* What the jv.* tables promise their readers (normalize.rs:1-9): the log  *)
(* of raw records only grows, and an entity only moves forward in it: it   *)
(* shows one record of the log, or its deletion, and is replaced by later  *)
(* records only.  Several entities may move in one step, since a batch is  *)
(* one transaction.                                                        *)
(***************************************************************************)
EXTENDS Naturals, Sequences

CONSTANT Keys   \* the entities

VARIABLES
    log,        \* the raw records in id order: [key, rows], no rows for a deletion
    version,    \* entity -> id of the record it reflects, 0 for none
    shown       \* entity -> the rows a reader sees

vars == <<log, version, shown>>

Init ==
    /\ log = <<>>
    /\ version = [k \in Keys |-> 0]
    /\ shown = [k \in Keys |-> {}]

Grow ==
    /\ Len(log') = Len(log) + 1
    /\ \A i \in 1 .. Len(log) : log'[i] = log[i]
    /\ UNCHANGED <<version, shown>>

\* The ids entity k may be moved to.
Later(k) == {i \in 1 .. Len(log) : i > version[k] /\ log[i].key = k}

Advance ==
    /\ \E K \in SUBSET Keys : \E pick \in [K -> 1 .. Len(log)] :
          /\ \A k \in K : pick[k] \in Later(k)
          /\ version' = [k \in Keys |-> IF k \in K THEN pick[k] ELSE version[k]]
          /\ shown' = [k \in Keys |-> IF k \in K THEN log[pick[k]].rows ELSE shown[k]]
    /\ UNCHANGED log

Next == Grow \/ Advance

Spec == Init /\ [][Next]_vars
=============================================================================
