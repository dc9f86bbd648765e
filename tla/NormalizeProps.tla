---------------------------- MODULE NormalizeProps ----------------------------
(***************************************************************************)
(* What the normalisation of Normalize guarantees.                         *)
(***************************************************************************)
EXTENDS Normalize, Descent

\* The tables, for the raw records with ids in S.
DbType(S) ==
    [state : [S -> 0 .. 3],
     table : [Keys -> SUBSET [row : Combos, raw : Nat \ {0}, parser : Parsers]],
     tomb : [Keys -> Nat],
     errors : SUBSET S,
     counts : [RunIds -> Nat]]

\* Type invariant; the parse states cover exactly the stored records.
TypeOK ==
    /\ log \in Seq([payload : Payloads, run : RunIds])
    /\ parser \in Parsers
    /\ db \in DbType(Ids)
    /\ IF pc = "batch" THEN work \in DbType(Ids) ELSE work = EmptyDb
    /\ todo \subseteq Ids
    /\ pc \in {"idle", "select", "batch"}
    /\ cmd \in {"none", "normalize", "reparse", "reparse --all"}

\* The record an entity reflects: its rows' or its deletion's, 0 for neither.
Version(d, k) ==
    IF d.table[k] = {} THEN d.tomb[k] ELSE (CHOOSE x \in d.table[k] : TRUE).raw

OfKey(i, k) == log[i].payload.key = k

(***************************************************************************)
(* Latest wins.                                                            *)
(***************************************************************************)
\* An entity shows exactly the rows of one stored upsert, never a mixture of
\* two, and that upsert is later than the entity's last deletion
\* (normalize.rs:228-261, 361-372, 544-583).
ShowsOneRecord(d) ==
    \A k \in Keys :
        /\ d.tomb[k] # 0 =>
              d.tomb[k] \in Ids /\ OfKey(d.tomb[k], k) /\ log[d.tomb[k]].payload.op = "delete"
        /\ \A x \in d.table[k] :
              /\ x.raw \in Ids /\ OfKey(x.raw, k)
              /\ log[x.raw].payload.op = "upsert"
              /\ d.tomb[k] < x.raw
              /\ {y.row : y \in d.table[k]} = log[x.raw].payload.rows
              /\ \A y \in d.table[k] : y.raw = x.raw

EntityShowsOneRecord == ShowsOneRecord(db)

\* A normalised record is applied or superseded: nothing a reader sees is
\* older than a record of the entity already normalised, in whatever order
\* commands, reparses and crashes came (normalize.rs:3-9).
LatestIn(d) ==
    \A k \in Keys : \A i \in DOMAIN d.state :
        OfKey(i, k) /\ d.state[i] = 1 => i <= Version(d, k)

LatestWins == LatestIn(db)

\* No step takes an entity back to an older record, reparses included
\* (normalize.rs:5-7).
VersionNeverRegresses ==
    [][\A k \in Keys : Version(db, k) <= Version(db, k)']_vars

(***************************************************************************)
(* Failures.                                                               *)
(***************************************************************************)
\* Every failed record has its parse_errors row, and a run's parse_errors
\* counts its rows, however often a record failed (normalize.rs:172-207).
FailuresCounted(d) ==
    /\ \A i \in DOMAIN d.state : d.state[i] = 2 => i \in d.errors
    /\ \A r \in RunIds : d.counts[r] = Cardinality(ErrorsOf(r, d.errors))

CounterIsExact == FailuresCounted(db)

(***************************************************************************)
(* Steps.                                                                  *)
(***************************************************************************)
\* How far normalisation is from its end: still running, the records it would
\* still select, whether it is about to, and the rest of the batch.
Distance ==
    <<IF pc = "idle" THEN 0 ELSE 1, Cardinality(Unparsed),
      IF pc = "select" THEN 1 ELSE 0, Cardinality(todo)>>

\* Each batch that commits leaves fewer records pending, those that failed
\* included, and each statement brings the batch nearer to its commit: the loop,
\* which ends only when nothing is pending, cannot run for ever, whatever fails
\* (normalize.rs:41-54).
NormalizeApproachesItsEnd == [][pc # "idle" => Nearer(Distance', Distance)]_vars

(***************************************************************************)
(* Liveness, under FairSpec.                                               *)
(***************************************************************************)
\* normalize_pending returns: its loop selects by parse_state = 0, so every
\* record of a committed batch must have left that state (normalize.rs:41-54).
NormalizeReturns == pc # "idle" ~> pc = "idle"

\* A record that cannot be applied does not hold up those behind it
\* (normalize.rs:8-9, 86-102).
BadRecordDoesNotBlock ==
    \A i \in 1 .. MaxRaw :
        (pc = "select" /\ i \in Ids) ~> (i \in Ids /\ db.state[i] # 0)

(***************************************************************************)
(* The promise to readers of jv.*.                                         *)
(***************************************************************************)
Promise == INSTANCE LatestTable WITH
    log <- [i \in Ids |-> [key |-> log[i].payload.key, rows |-> log[i].payload.rows]],
    version <- [k \in Keys |-> Version(db, k)],
    shown <- [k \in Keys |-> {x.row : x \in db.table[k]}]

\* The committed tables implement the abstract table: the log grows, entities
\* only move forward to records of their own, and show what those records hold.
KeepsPromise == Promise!Spec
=============================================================================
