---------------------------- MODULE NormalizeProofs ----------------------------
(***************************************************************************)
(* Proofs about the normalisation, for every log of raw records, every     *)
(* outcome of parsing and every combination of faults.                     *)
(***************************************************************************)
EXTENDS NormalizeProps, FiniteSetTheorems, SequenceTheorems, DescentProofs, TLAPS

Rows == [row : Combos, raw : Nat \ {0}, parser : Parsers]

LEMMA RecordFacts ==
    ASSUME TypeOK, NEW i \in Ids
    PROVE  /\ i \in Nat \ {0} /\ Len(log) \in Nat
           /\ log[i].run \in RunIds
           /\ log[i].payload \in Payloads
           /\ log[i].payload.key \in Keys \union {NoKey}
           /\ log[i].payload.op \in {"upsert", "delete"}
           /\ log[i].payload.rows \subseteq Combos
           /\ log[i].payload.op = "delete" => log[i].payload.rows = {}
<1> DEFINE Entries == [payload : Payloads, run : RunIds]
<1>a. log \in Seq(Entries)
  BY DEF TypeOK
<1>b. Len(log) \in Nat
  BY <1>a, LenProperties
<1>c. log[i] \in Entries
  <2> HIDE DEF Entries
  <2> QED BY <1>a, ElementOfSeq DEF Ids
<1>1. i \in Nat \ {0} /\ Len(log) \in Nat /\ log[i] \in [payload : Payloads, run : RunIds]
  BY <1>b, <1>c DEF Ids
<1>2. log[i].payload \in PayloadType
  BY <1>1, NormalizeConstants
<1> QED BY <1>1, <1>2, NormalizeConstants DEF PayloadType

(***************************************************************************)
(* What one record makes of the tables.                                    *)
(***************************************************************************)
\* Apply touches the rows and the tombstone of the record's entity only.
LEMMA ApplyFacts ==
    ASSUME TypeOK, NEW d \in DbType(Ids), NEW i \in Ids
    PROVE  LET e == Apply(d, i)
               p == log[i].payload
           IN
           /\ e \in DbType(Ids)
           /\ e.state = d.state /\ e.errors = d.errors /\ e.counts = d.counts
           /\ \A k \in Keys : k # p.key => e.table[k] = d.table[k] /\ e.tomb[k] = d.tomb[k]
           /\ p.key \in Keys =>
                 \/ d.tomb[p.key] >= i /\ e = d
                 \/ /\ d.tomb[p.key] < i /\ p.op = "upsert"
                    /\ e.table[p.key] = Upsert(d.table[p.key], i, p.rows)
                    /\ e.tomb[p.key] = d.tomb[p.key]
                 \/ /\ d.tomb[p.key] < i /\ p.op = "delete"
                    /\ e.table[p.key] = {x \in d.table[p.key] : x.raw >= i}
                    /\ e.tomb[p.key] = i
<1> DEFINE e == Apply(d, i)
           p == log[i].payload
<1>1. /\ i \in Nat \ {0} /\ p.key \in Keys \union {NoKey} /\ p.op \in {"upsert", "delete"}
      /\ p.rows \subseteq Combos /\ parser \in Parsers
      /\ d.tomb \in [Keys -> Nat] /\ d.table \in [Keys -> SUBSET Rows]
  BY RecordFacts DEF TypeOK, DbType, Rows
<1>2. CASE p.key = NoKey \/ (p.key \in Keys /\ d.tomb[p.key] >= i)
  <2>1. e = d
    BY <1>2 DEF Apply
  <2> QED BY <1>2, <2>1, NormalizeConstants
<1>3. CASE p.key \in Keys /\ ~(d.tomb[p.key] >= i) /\ p.op = "upsert"
  <2> DEFINE new == Upsert(d.table[p.key], i, p.rows)
  <2>1. e = [d EXCEPT !.table = [d.table EXCEPT ![p.key] = new]]
    BY <1>3, NormalizeConstants DEF Apply, DbType
  <2>2. new \in SUBSET Rows
    BY <1>1, <1>3 DEF Upsert, NewRows, Rows
  <2> HIDE DEF new
  <2>3. [d.table EXCEPT ![p.key] = new] \in [Keys -> SUBSET Rows]
    BY <1>1, <2>2
  <2>4. e \in DbType(Ids)
    BY <2>1, <2>3 DEF DbType, Rows
  <2>5. e.state = d.state /\ e.errors = d.errors /\ e.counts = d.counts /\ e.tomb = d.tomb
    BY <2>1 DEF DbType
  <2>6. e.table = [d.table EXCEPT ![p.key] = new]
    BY <2>1 DEF DbType
  <2>7. e.table[p.key] = new /\ \A k \in Keys : k # p.key => e.table[k] = d.table[k]
    BY <1>1, <1>3, <2>6
  <2> QED BY <1>1, <1>3, <2>4, <2>5, <2>7 DEF new
<1>4. CASE p.key \in Keys /\ ~(d.tomb[p.key] >= i) /\ p.op = "delete"
  <2> DEFINE new == {x \in d.table[p.key] : x.raw >= i}
  <2>1. e = [d EXCEPT !.table = [d.table EXCEPT ![p.key] = new],
                      !.tomb = [d.tomb EXCEPT ![p.key] = i]]
    BY <1>3, <1>4, NormalizeConstants DEF Apply, DbType
  <2>2. new \in SUBSET Rows
    BY <1>1, <1>4
  <2> HIDE DEF new
  <2>3. /\ [d.table EXCEPT ![p.key] = new] \in [Keys -> SUBSET Rows]
        /\ [d.tomb EXCEPT ![p.key] = i] \in [Keys -> Nat]
    BY <1>1, <2>2
  <2>4. e \in DbType(Ids)
    BY <2>1, <2>3 DEF DbType, Rows
  <2>5. e.state = d.state /\ e.errors = d.errors /\ e.counts = d.counts
    BY <2>1 DEF DbType
  <2>6. /\ e.table = [d.table EXCEPT ![p.key] = new]
        /\ e.tomb = [d.tomb EXCEPT ![p.key] = i]
    BY <2>1 DEF DbType
  <2>7. /\ e.table[p.key] = new /\ e.tomb[p.key] = i
        /\ \A k \in Keys : k # p.key => e.table[k] = d.table[k] /\ e.tomb[k] = d.tomb[k]
    BY <1>1, <1>4, <2>6
  <2> QED BY <1>1, <1>4, <2>4, <2>5, <2>7 DEF new
<1> QED BY <1>1, <1>2, <1>3, <1>4

LEMMA SetStateFacts ==
    ASSUME NEW S, NEW d \in DbType(S), NEW i \in S, NEW s \in 0 .. 3
    PROVE  LET e == SetState(d, i, s) IN
           /\ e \in DbType(S)
           /\ e.table = d.table /\ e.tomb = d.tomb
           /\ e.errors = d.errors /\ e.counts = d.counts
           /\ e.state[i] = s /\ \A j \in S : j # i => e.state[j] = d.state[j]
<1> DEFINE e == SetState(d, i, s)
<1>1. e = [d EXCEPT !.state = [d.state EXCEPT ![i] = s]]
  BY DEF SetState, DbType
<1> HIDE DEF e
<1>2. d.state \in [S -> 0 .. 3] /\ [d.state EXCEPT ![i] = s] \in [S -> 0 .. 3]
  BY DEF DbType
<1>3. e \in DbType(S)
  BY <1>1, <1>2 DEF DbType
<1>4. /\ e.table = d.table /\ e.tomb = d.tomb /\ e.errors = d.errors /\ e.counts = d.counts
      /\ e.state = [d.state EXCEPT ![i] = s]
  BY <1>1 DEF DbType
<1> QED BY <1>2, <1>3, <1>4 DEF e

LEMMA ErrorsFinite ==
    ASSUME TypeOK, NEW r, NEW E \in SUBSET Ids
    PROVE  Cardinality(ErrorsOf(r, E)) \in Nat
<1>1. IsFiniteSet(Ids)
  <2>1. log \in Seq([payload : Payloads, run : RunIds])
    BY DEF TypeOK
  <2>2. Len(log) \in Int /\ 1 \in Int
    BY <2>1, LenProperties
  <2> QED BY <2>2, FS_Interval DEF Ids
<1>2. IsFiniteSet(ErrorsOf(r, E))
  BY <1>1, FS_Subset DEF ErrorsOf
<1> QED BY <1>2, FS_CardinalityType

LEMMA RecordFailureFacts ==
    ASSUME TypeOK, NEW d \in DbType(Ids), NEW i \in Ids
    PROVE  LET e == RecordFailure(d, i) IN
           /\ e \in DbType(Ids)
           /\ e.table = d.table /\ e.tomb = d.tomb
           /\ e.state[i] = 2 /\ \A j \in Ids : j # i => e.state[j] = d.state[j]
           /\ e.errors = d.errors \union {i}
           /\ e.counts = [d.counts EXCEPT
                 ![log[i].run] = Cardinality(ErrorsOf(log[i].run, d.errors \union {i}))]
<1> DEFINE e == RecordFailure(d, i)
           t == SetState(d, i, 2)
           n == Cardinality(ErrorsOf(log[i].run, d.errors \union {i}))
<1>1. /\ t \in DbType(Ids)
      /\ t.table = d.table /\ t.tomb = d.tomb
      /\ t.errors = d.errors /\ t.counts = d.counts
      /\ t.state[i] = 2 /\ \A j \in Ids : j # i => t.state[j] = d.state[j]
  BY SetStateFacts
<1>2. e = [t EXCEPT !.errors = d.errors \union {i}, !.counts[log[i].run] = n]
  BY DEF RecordFailure
<1> HIDE DEF t, e
<1>3. e = [t EXCEPT !.errors = d.errors \union {i},
                    !.counts = [t.counts EXCEPT ![log[i].run] = n]]
  BY <1>1, <1>2 DEF DbType
<1>4. d.errors \union {i} \in SUBSET Ids
  BY DEF DbType
<1>5. n \in Nat
  BY <1>4, ErrorsFinite
<1> HIDE DEF n
<1>6. [t.counts EXCEPT ![log[i].run] = n] \in [RunIds -> Nat]
  BY <1>1, <1>5 DEF DbType
<1>7. e \in DbType(Ids)
  BY <1>1, <1>3, <1>4, <1>6 DEF DbType
<1>8. /\ e.table = t.table /\ e.tomb = t.tomb /\ e.state = t.state
      /\ e.errors = d.errors \union {i}
      /\ e.counts = [t.counts EXCEPT ![log[i].run] = n]
  BY <1>1, <1>3 DEF DbType
<1> QED BY <1>1, <1>7, <1>8 DEF e, n

(***************************************************************************)
(* Types.                                                                  *)
(***************************************************************************)
\* A record that arrives is pending and changes nothing about the others.
LEMMA ArriveFacts ==
    ASSUME TypeOK, NEW p \in Payloads, NEW r \in RunIds, Arrive(p, r)
    PROVE  /\ Len(log) \in Nat /\ Ids' = 1 .. Len(log) + 1 /\ Ids \subseteq Ids'
           /\ log' \in Seq([payload : Payloads, run : RunIds])
           /\ Len(log') = Len(log) + 1
           /\ \A i \in Ids : log'[i] = log[i] /\ db'.state[i] = db.state[i]
           /\ log'[Len(log) + 1].payload = p
           /\ db'.state[Len(log) + 1] = 0
           /\ db' \in DbType(Ids')
           /\ db'.table = db.table /\ db'.tomb = db.tomb
           /\ db'.errors = db.errors /\ db'.counts = db.counts
<1> DEFINE entry == [payload |-> p, run |-> r]
<1>1. log \in Seq([payload : Payloads, run : RunIds]) /\ log' = Append(log, entry)
  BY DEF TypeOK, Arrive
<1>2. entry \in [payload : Payloads, run : RunIds]
  OBVIOUS
<1>3. /\ Len(log) \in Nat /\ Len(log') = Len(log) + 1
      /\ log' \in Seq([payload : Payloads, run : RunIds])
      /\ \A i \in Ids : log'[i] = log[i]
      /\ log'[Len(log) + 1] = entry
  BY <1>1, <1>2, LenProperties, AppendProperties DEF Ids
<1>4. Ids' = 1 .. Len(log) + 1 /\ Ids \subseteq Ids'
  BY <1>3 DEF Ids
<1>5. db.state \in [1 .. Len(log) -> 0 .. 3]
  BY DEF TypeOK, DbType, Ids
<1>6. db.state \in Seq(0 .. 3)
  BY <1>3, <1>5, SeqDef
<1>7. Len(db.state) = Len(log)
  BY <1>3, <1>5, <1>6, LenProperties
<1>8. db' = [db EXCEPT !.state = Append(db.state, 0)]
  BY DEF Arrive
<1>9. /\ db'.state = Append(db.state, 0)
      /\ db'.table = db.table /\ db'.tomb = db.tomb
      /\ db'.errors = db.errors /\ db'.counts = db.counts
  BY <1>8 DEF TypeOK, DbType
<1>10. /\ Append(db.state, 0) \in Seq(0 .. 3)
       /\ Len(Append(db.state, 0)) = Len(log) + 1
       /\ \A i \in Ids : Append(db.state, 0)[i] = db.state[i]
       /\ Append(db.state, 0)[Len(log) + 1] = 0
  BY <1>6, <1>7, 0 \in 0 .. 3, AppendProperties DEF Ids
<1>11. db'.state \in [Ids' -> 0 .. 3]
  BY <1>4, <1>9, <1>10, LenProperties
<1>12. db' \in DbType(Ids')
  <2> DEFINE s == Append(db.state, 0)
  <2>1. db' = [db EXCEPT !.state = s] /\ s \in [Ids' -> 0 .. 3]
    BY <1>8, <1>9, <1>11
  <2>2. db \in DbType(Ids)
    BY DEF TypeOK
  <2> HIDE DEF s
  <2> QED BY <1>4, <2>1, <2>2 DEF DbType
<1> QED BY <1>3, <1>4, <1>9, <1>10, <1>12

\* reparse puts records back to pending and touches nothing else.
LEMMA ReparseFacts ==
    ASSUME TypeOK, NEW c, NEW out, Reparse(c, out)
    PROVE  /\ db' \in DbType(Ids)
           /\ db'.table = db.table /\ db'.tomb = db.tomb
           /\ db'.errors = db.errors /\ db'.counts = db.counts
           /\ \A i \in Ids : db'.state[i] \in {0, db.state[i]}
<1> DEFINE s == [i \in Ids |-> IF db.state[i] \in ResetStates(c) THEN 0 ELSE db.state[i]]
<1>1. db \in DbType(Ids)
  BY DEF TypeOK
<1>2. db' = db \/ db' = [db EXCEPT !.state = s]
  BY DEF Reparse
<1>3. s \in [Ids -> 0 .. 3] /\ \A i \in Ids : s[i] \in {0, db.state[i]}
  BY <1>1 DEF DbType
<1> HIDE DEF s
<1>4. CASE db' = db
  BY <1>1, <1>4
<1>5. CASE db' = [db EXCEPT !.state = s]
  BY <1>1, <1>3, <1>5 DEF DbType
<1> QED BY <1>2, <1>4, <1>5

\* What a step of the batch makes of the tables of the transaction.
Stepped(d, i) ==
    {SetState(Apply(d, i), i, 1), SetState(d, i, 3), RecordFailure(d, i)}

LEMMA SteppedType ==
    ASSUME TypeOK, NEW d \in DbType(Ids), NEW i \in Ids, NEW e \in Stepped(d, i)
    PROVE  e \in DbType(Ids)
<1>1. Apply(d, i) \in DbType(Ids)
  BY ApplyFacts
<1>2. SetState(Apply(d, i), i, 1) \in DbType(Ids) /\ SetState(d, i, 3) \in DbType(Ids)
  BY <1>1, SetStateFacts, 1 \in 0 .. 3, 3 \in 0 .. 3
<1>3. RecordFailure(d, i) \in DbType(Ids)
  BY RecordFailureFacts
<1> QED BY <1>2, <1>3 DEF Stepped

\* The steps of Next, grouped by what they do to the tables.
Replaced == \E i \in todo : \E d \in Stepped(work, i) : Processed(i, d)

Installed == /\ pc = "batch" /\ db' = work
             /\ \/ pc' = "idle" /\ work' = EmptyDb /\ todo' = {}
                \/ pc' = "select" /\ work' = EmptyDb /\ UNCHANGED todo
             /\ cmd' \in {cmd, "none"} /\ UNCHANGED <<log, parser>>

Opened == /\ work' = db /\ pc' = "batch" /\ todo' \subseteq Ids
          /\ UNCHANGED <<log, parser, db, cmd>>

\* The tables stay and no transaction is open afterwards.
Closed == /\ work' = EmptyDb /\ pc' \in {"idle", "select"} /\ todo' \subseteq Ids
          /\ cmd' \in {cmd, "none", "normalize"} /\ parser' \in Parsers
          /\ UNCHANGED <<log, db>>

LEMMA StepKinds ==
    ASSUME TypeOK, Next
    PROVE  \/ \E p \in Payloads, r \in RunIds : Arrive(p, r)
           \/ \E c \in {"reparse", "reparse --all"}, out \in Outcomes : Reparse(c, out)
           \/ Replaced \/ Installed \/ Opened \/ Closed
<1>1. CASE Upgrade
  <2>1. parser' \in Parsers
    <3>1. parser \in Parsers /\ parser < MaxParser /\ parser' = parser + 1
      BY <1>1 DEF Upgrade, TypeOK
    <3>2. MaxParser \in Nat
      BY NormalizeConstants
    <3> QED BY <3>1, <3>2 DEF Parsers
  <2>2. work = EmptyDb
    BY <1>1 DEF Upgrade, TypeOK
  <2> QED BY <1>1, <2>1, <2>2 DEF Upgrade, Closed, TypeOK
<1>2. CASE StartNormalize
  BY <1>2 DEF StartNormalize, Closed, TypeOK
<1>3. CASE BatchError \/ Kill
  BY <1>3 DEF BatchError, Kill, Exit, Closed, TypeOK
<1>4. ASSUME NEW out, SelectBatch(out)
      PROVE  Opened \/ Closed
  BY <1>4 DEF SelectBatch, Exit, Opened, Closed, TypeOK, Unparsed
<1>5. ASSUME NEW out, Commit(out)
      PROVE  Installed \/ Closed
  BY <1>5 DEF Commit, Exit, Installed, Closed, TypeOK
<1>6. ASSUME NEW i \in todo, ApplyRecord(i) \/ SkipRecord(i) \/ ParseError(i) \/ ApplyError(i)
      PROVE  Replaced
  BY <1>6 DEF ApplyRecord, SkipRecord, ParseError, ApplyError, Replaced, Stepped
<1> QED BY <1>1, <1>2, <1>3, <1>4, <1>5, <1>6 DEF Next, ProcessStep

LEMMA EmptyDbType == EmptyDb \in DbType({}) /\ EmptyDb.state = <<>>
<1>1. <<>> \in [{} -> 0 .. 3]
  BY EmptySeq, LenProperties
<1> QED BY <1>1 DEF EmptyDb, DbType

LEMMA TypeInit == Init => TypeOK
<1> SUFFICES ASSUME Init PROVE TypeOK
  OBVIOUS
<1>1. log \in Seq([payload : Payloads, run : RunIds]) /\ Ids = {}
  BY EmptySeq DEF Init, Ids
<1>2. parser \in Parsers
  BY NormalizeConstants DEF Init, Parsers
<1> QED BY <1>1, <1>2, EmptyDbType DEF Init, TypeOK

LEMMA TypeNext == TypeOK /\ [Next]_vars => TypeOK'
<1> SUFFICES ASSUME TypeOK, [Next]_vars PROVE TypeOK'
  OBVIOUS
<1>1. ASSUME NEW p \in Payloads, NEW r \in RunIds, Arrive(p, r)
      PROVE  TypeOK'
  <2>1. UNCHANGED <<parser, work, todo, pc, cmd>> /\ pc = "idle"
    BY <1>1 DEF Arrive
  <2>2. log' \in Seq([payload : Payloads, run : RunIds]) /\ Ids \subseteq Ids' /\ db' \in DbType(Ids')
    BY <1>1, ArriveFacts
  <2> QED BY <2>1, <2>2 DEF TypeOK
<1>2. ASSUME NEW c \in {"reparse", "reparse --all"}, NEW out, Reparse(c, out)
      PROVE  TypeOK'
  <2>1. db' \in DbType(Ids)
    BY <1>2, ReparseFacts
  <2>2. /\ UNCHANGED <<log, parser>> /\ pc = "idle"
        /\ \/ pc' = "select" /\ cmd' = c /\ UNCHANGED <<work, todo>>
           \/ pc' = "idle" /\ cmd' = "none" /\ work' = EmptyDb /\ todo' = {}
    BY <1>2 DEF Reparse, Exit
  <2>3. Ids' = Ids
    BY <2>2 DEF Ids
  <2> QED BY <2>1, <2>2, <2>3 DEF TypeOK
<1>3. CASE Replaced
  <2>1. PICK i \in todo : \E d \in Stepped(work, i) : Processed(i, d)
    BY <1>3 DEF Replaced
  <2>5. PICK d \in Stepped(work, i) : Processed(i, d)
    BY <2>1
  <2>2. pc = "batch" /\ work' = d /\ todo' = todo \ {i} /\ UNCHANGED <<log, parser, db, pc, cmd>>
    BY <2>5 DEF Processed
  <2>3. d \in DbType(Ids)
    BY <2>2, <2>5, SteppedType DEF TypeOK
  <2>4. Ids' = Ids
    BY <2>2 DEF Ids
  <2> QED BY <2>2, <2>3, <2>4 DEF TypeOK
<1>4. CASE Installed
  BY <1>4 DEF Installed, TypeOK, Ids
<1>5. CASE Opened
  BY <1>5 DEF Opened, TypeOK, Ids
<1>6. CASE Closed
  BY <1>6 DEF Closed, TypeOK, Ids
<1>7. CASE UNCHANGED vars
  BY <1>7 DEF vars, TypeOK, Ids
<1> QED BY <1>1, <1>2, <1>3, <1>4, <1>5, <1>6, <1>7, StepKinds

\* The parse states cover exactly the stored records and every row keeps its
\* shape, whatever arrives, fails or is parsed again.
THEOREM NormalizeTypes == Spec => []TypeOK
  BY TypeInit, TypeNext, PTL DEF Spec

(***************************************************************************)
(* One record per entity.                                                  *)
(***************************************************************************)
\* What ShowsOneRecord says of one entity with rows t and tombstone v.
OneRecord(k, t, v) ==
    /\ v # 0 => v \in Ids /\ OfKey(v, k) /\ log[v].payload.op = "delete"
    /\ \A x \in t :
          /\ x.raw \in Ids /\ OfKey(x.raw, k)
          /\ log[x.raw].payload.op = "upsert"
          /\ v < x.raw
          /\ {y.row : y \in t} = log[x.raw].payload.rows
          /\ \A y \in t : y.raw = x.raw

LEMMA ShowsPerEntity ==
    ASSUME NEW d
    PROVE  ShowsOneRecord(d) <=> \A k \in Keys : OneRecord(k, d.table[k], d.tomb[k])
  BY DEF ShowsOneRecord, OneRecord

\* A record replaces what is older as a whole or changes nothing.
LEMMA ApplyShows ==
    ASSUME TypeOK, NEW d \in DbType(Ids), ShowsOneRecord(d), NEW i \in Ids
    PROVE  ShowsOneRecord(Apply(d, i))
<1> DEFINE e == Apply(d, i)
           p == log[i].payload
<1>1. /\ \A k \in Keys : k # p.key => e.table[k] = d.table[k] /\ e.tomb[k] = d.tomb[k]
      /\ p.key \in Keys =>
           \/ d.tomb[p.key] >= i /\ e = d
           \/ /\ d.tomb[p.key] < i /\ p.op = "upsert"
              /\ e.table[p.key] = Upsert(d.table[p.key], i, p.rows)
              /\ e.tomb[p.key] = d.tomb[p.key]
           \/ /\ d.tomb[p.key] < i /\ p.op = "delete"
              /\ e.table[p.key] = {x \in d.table[p.key] : x.raw >= i}
              /\ e.tomb[p.key] = i
  BY ApplyFacts
<1> HIDE DEF e
<1> SUFFICES ASSUME NEW k \in Keys
             PROVE  OneRecord(k, e.table[k], e.tomb[k])
  BY ShowsPerEntity DEF e
<1>2. OneRecord(k, d.table[k], d.tomb[k])
  BY ShowsPerEntity
<1>3. CASE k # p.key \/ e = d
  BY <1>1, <1>2, <1>3
<1>4. CASE /\ k = p.key /\ p.op = "upsert" /\ d.tomb[k] < i
           /\ e.table[k] = Upsert(d.table[k], i, p.rows) /\ e.tomb[k] = d.tomb[k]
  <2>1. CASE \E x \in d.table[k] : x.raw >= i
    BY <1>2, <1>4, <2>1 DEF Upsert
  <2>2. CASE ~ \E x \in d.table[k] : x.raw >= i
    <3>1. e.table[k] = {[row |-> c, raw |-> i, parser |-> parser] : c \in p.rows}
      BY <1>4, <2>2 DEF Upsert, NewRows
    <3>2. \A x \in e.table[k] : x.raw = i
      BY <3>1
    <3>3. {y.row : y \in e.table[k]} = p.rows
      <4> DEFINE rec(c) == [row |-> c, raw |-> i, parser |-> parser]
      <4>1. \A c : rec(c).row = c
        OBVIOUS
      <4>2. e.table[k] = {rec(c) : c \in p.rows}
        BY <3>1
      <4> HIDE DEF rec
      <4> QED BY <4>1, <4>2
    <3>4. OfKey(i, k)
      BY <1>4 DEF OfKey
    <3>5. ASSUME NEW x \in e.table[k]
          PROVE  /\ x.raw \in Ids /\ OfKey(x.raw, k)
                 /\ log[x.raw].payload.op = "upsert"
                 /\ d.tomb[k] < x.raw
                 /\ {y.row : y \in e.table[k]} = log[x.raw].payload.rows
                 /\ \A y \in e.table[k] : y.raw = x.raw
      BY <1>4, <3>2, <3>3, <3>4
    <3> QED BY <1>2, <1>4, <3>5 DEF OneRecord
  <2> QED BY <2>1, <2>2
<1>5. CASE /\ k = p.key /\ p.op = "delete" /\ d.tomb[k] < i
           /\ e.table[k] = {x \in d.table[k] : x.raw >= i} /\ e.tomb[k] = i
  <2>1. \A x \in d.table[k], y \in d.table[k] : x.raw = y.raw
    BY <1>2 DEF OneRecord
  <2>2. e.table[k] = {} \/ e.table[k] = d.table[k]
    BY <1>5, <2>1
  <2>3. OfKey(i, k) /\ i \in Ids /\ log[i].payload.op = "delete"
    BY <1>5 DEF OfKey
  <2>4. CASE e.table[k] = {}
    BY <1>5, <2>3, <2>4 DEF OneRecord
  <2>5. CASE e.table[k] = d.table[k]
    <3>1. \A x \in d.table[k] : x.raw \in Ids /\ x.raw >= i /\ x.raw # i
      BY <1>2, <1>5, <2>3, <2>5 DEF OneRecord
    <3>2. \A x \in d.table[k] : i < x.raw
      BY <3>1, RecordFacts
    <3> QED BY <1>2, <1>5, <2>3, <2>5, <3>2 DEF OneRecord
  <2> QED BY <2>2, <2>4, <2>5
<1> QED BY <1>1, <1>3, <1>4, <1>5

LEMMA SteppedShows ==
    ASSUME TypeOK, NEW d \in DbType(Ids), ShowsOneRecord(d), NEW i \in Ids, NEW e \in Stepped(d, i)
    PROVE  ShowsOneRecord(e)
<1>1. Apply(d, i) \in DbType(Ids) /\ ShowsOneRecord(Apply(d, i))
  BY ApplyFacts, ApplyShows
<1>2. \/ e.table = d.table /\ e.tomb = d.tomb
      \/ e.table = Apply(d, i).table /\ e.tomb = Apply(d, i).tomb
  <2>1. SetState(Apply(d, i), i, 1).table = Apply(d, i).table
        /\ SetState(Apply(d, i), i, 1).tomb = Apply(d, i).tomb
    BY <1>1, SetStateFacts, 1 \in 0 .. 3
  <2>2. SetState(d, i, 3).table = d.table /\ SetState(d, i, 3).tomb = d.tomb
    BY SetStateFacts, 3 \in 0 .. 3
  <2>3. RecordFailure(d, i).table = d.table /\ RecordFailure(d, i).tomb = d.tomb
    BY RecordFailureFacts
  <2> QED BY <2>1, <2>2, <2>3 DEF Stepped
<1> QED BY <1>1, <1>2, ShowsPerEntity

(***************************************************************************)
(* Counters of failures.                                                   *)
(***************************************************************************)
LEMMA SteppedCounts ==
    ASSUME TypeOK, NEW d \in DbType(Ids), FailuresCounted(d), NEW i \in Ids, NEW e \in Stepped(d, i)
    PROVE  FailuresCounted(e)
<1>a. DOMAIN d.state = Ids /\ \A x \in DbType(Ids) : DOMAIN x.state = Ids
  BY DEF DbType
<1>b. e \in DbType(Ids)
  BY SteppedType
<1>1. ASSUME NEW c \in DbType(Ids), c.state = d.state, c.errors = d.errors, c.counts = d.counts,
             e = SetState(c, i, 1) \/ e = SetState(c, i, 3)
      PROVE  FailuresCounted(e)
  <2>1. /\ SetState(c, i, 1).errors = c.errors /\ SetState(c, i, 1).counts = c.counts
        /\ SetState(c, i, 1).state[i] = 1
        /\ \A j \in Ids : j # i => SetState(c, i, 1).state[j] = c.state[j]
    BY SetStateFacts, 1 \in 0 .. 3
  <2>2. /\ SetState(c, i, 3).errors = c.errors /\ SetState(c, i, 3).counts = c.counts
        /\ SetState(c, i, 3).state[i] = 3
        /\ \A j \in Ids : j # i => SetState(c, i, 3).state[j] = c.state[j]
    BY SetStateFacts, 3 \in 0 .. 3
  <2>3. /\ e.errors = d.errors /\ e.counts = d.counts
        /\ e.state[i] # 2 /\ \A j \in Ids : j # i => e.state[j] = d.state[j]
    BY <1>1, <2>1, <2>2
  <2> QED BY <1>a, <1>b, <2>3 DEF FailuresCounted
<1>2. CASE e = RecordFailure(d, i)
  <2> DEFINE E == d.errors \union {i}
  <2>1. /\ e.errors = E
        /\ e.counts = [d.counts EXCEPT ![log[i].run] = Cardinality(ErrorsOf(log[i].run, E))]
        /\ e.state[i] = 2 /\ \A j \in Ids : j # i => e.state[j] = d.state[j]
    BY <1>2, RecordFailureFacts
  <2>2. \A j \in Ids : e.state[j] = 2 => j \in E
    BY <1>a, <2>1 DEF FailuresCounted
  <2>3. \A r \in RunIds : r # log[i].run => ErrorsOf(r, E) = ErrorsOf(r, d.errors)
    BY DEF ErrorsOf
  <2>4. d.counts \in [RunIds -> Nat]
    BY DEF DbType
  <2>5. \A r \in RunIds : e.counts[r] = Cardinality(ErrorsOf(r, E))
    BY <2>1, <2>3, <2>4 DEF FailuresCounted
  <2> QED BY <1>a, <1>b, <2>1, <2>2, <2>5 DEF FailuresCounted
<1>3. CASE e = SetState(Apply(d, i), i, 1)
  BY <1>1, <1>3, ApplyFacts
<1>4. CASE e = SetState(d, i, 3)
  BY <1>1, <1>4
<1> QED BY <1>2, <1>3, <1>4 DEF Stepped

(***************************************************************************)
(* Both, as an invariant of the committed tables and of the transaction.   *)
(***************************************************************************)
Sound(d) == ShowsOneRecord(d) /\ FailuresCounted(d)

SoundInv == TypeOK /\ Sound(db) /\ (pc = "batch" => Sound(work))

LEMMA SoundInit == Init => SoundInv
<1> SUFFICES ASSUME Init PROVE SoundInv
  OBVIOUS
<1>1. TypeOK
  BY TypeInit
<1>2. ShowsOneRecord(db)
  BY DEF Init, EmptyDb, ShowsOneRecord
<1>3. DOMAIN db.state = {}
  <2>1. Ids = {}
    BY DEF Init, Ids
  <2> QED BY <1>1, <2>1 DEF TypeOK, DbType
<1>4. \A r : ErrorsOf(r, db.errors) = {}
  BY DEF Init, EmptyDb, ErrorsOf
<1>5. FailuresCounted(db)
  BY <1>3, <1>4, FS_EmptySet DEF Init, EmptyDb, FailuresCounted
<1> QED BY <1>1, <1>2, <1>5 DEF Init, SoundInv, Sound

LEMMA SoundNext == SoundInv /\ [Next]_vars => SoundInv'
<1> SUFFICES ASSUME SoundInv, [Next]_vars PROVE SoundInv'
  OBVIOUS
<1>a. TypeOK /\ TypeOK' /\ Sound(db) /\ (pc = "batch" => Sound(work))
  BY TypeNext DEF SoundInv
<1>b. DOMAIN db.state = Ids
  BY <1>a DEF TypeOK, DbType
<1>1. ASSUME NEW p \in Payloads, NEW r \in RunIds, Arrive(p, r)
      PROVE  SoundInv'
  <2>1. /\ Ids' = Ids \union {Len(log) + 1}
        /\ \A i \in Ids : log'[i] = log[i] /\ db'.state[i] = db.state[i]
        /\ db'.state[Len(log) + 1] = 0
        /\ db'.table = db.table /\ db'.tomb = db.tomb
        /\ db'.errors = db.errors /\ db'.counts = db.counts
        /\ db' \in DbType(Ids')
    BY <1>a, <1>1, ArriveFacts DEF Ids
  <2>2. pc' # "batch"
    BY <1>1 DEF Arrive
  <2>3. ShowsOneRecord(db)'
    BY <1>a, <2>1 DEF Sound, ShowsOneRecord, OfKey
  <2>4. db.errors \subseteq Ids
    BY <1>a DEF TypeOK, DbType
  <2>5. \A q : ErrorsOf(q, db.errors)' = ErrorsOf(q, db.errors)
    BY <2>1, <2>4 DEF ErrorsOf
  <2>6. DOMAIN db'.state = Ids'
    BY <2>1 DEF DbType
  <2>7. FailuresCounted(db)'
    BY <1>a, <1>b, <2>1, <2>5, <2>6 DEF Sound, FailuresCounted
  <2> QED BY <1>a, <2>2, <2>3, <2>7 DEF SoundInv, Sound
<1>2. ASSUME NEW c, NEW out, Reparse(c, out)
      PROVE  SoundInv'
  <2>1. /\ db'.table = db.table /\ db'.tomb = db.tomb
        /\ db'.errors = db.errors /\ db'.counts = db.counts
        /\ \A i \in Ids : db'.state[i] \in {0, db.state[i]}
        /\ db' \in DbType(Ids)
    BY <1>a, <1>2, ReparseFacts
  <2>2. UNCHANGED log /\ pc' # "batch"
    BY <1>2 DEF Reparse, Exit
  <2>3. ShowsOneRecord(db)'
    BY <1>a, <2>1, <2>2 DEF Sound, ShowsOneRecord, OfKey, Ids
  <2>4. DOMAIN db'.state = Ids
    BY <2>1 DEF DbType
  <2>5. \A q : ErrorsOf(q, db.errors)' = ErrorsOf(q, db.errors)
    BY <2>1, <2>2 DEF ErrorsOf
  <2>6. FailuresCounted(db)'
    BY <1>a, <1>b, <2>1, <2>4, <2>5 DEF Sound, FailuresCounted
  <2> QED BY <1>a, <2>2, <2>3, <2>6 DEF SoundInv, Sound
<1>3. CASE Replaced
  <2>1. PICK i \in todo : \E d \in Stepped(work, i) : Processed(i, d)
    BY <1>3 DEF Replaced
  <2>2. PICK d \in Stepped(work, i) : Processed(i, d)
    BY <2>1
  <2>3. pc = "batch" /\ work' = d /\ UNCHANGED <<log, db>>
    BY <2>2 DEF Processed
  <2>4. work \in DbType(Ids) /\ i \in Ids
    BY <1>a, <2>3 DEF TypeOK
  <2>5. ShowsOneRecord(d) /\ FailuresCounted(d)
    BY <1>a, <2>2, <2>3, <2>4, SteppedShows, SteppedCounts DEF Sound
  <2> QED
    BY <1>a, <2>3, <2>5 DEF SoundInv, Sound, ShowsOneRecord, FailuresCounted, OfKey, ErrorsOf, Ids
<1>4. CASE Installed
  BY <1>a, <1>4
  DEF Installed, SoundInv, Sound, ShowsOneRecord, FailuresCounted, OfKey, ErrorsOf, Ids
<1>5. CASE Opened
  BY <1>a, <1>5
  DEF Opened, SoundInv, Sound, ShowsOneRecord, FailuresCounted, OfKey, ErrorsOf, Ids
<1>6. CASE Closed
  BY <1>a, <1>6
  DEF Closed, SoundInv, Sound, ShowsOneRecord, FailuresCounted, OfKey, ErrorsOf, Ids
<1>7. CASE UNCHANGED vars
  BY <1>a, <1>7
  DEF vars, SoundInv, Sound, ShowsOneRecord, FailuresCounted, OfKey, ErrorsOf, Ids
<1> QED BY <1>a, <1>1, <1>2, <1>3, <1>4, <1>5, <1>6, <1>7, StepKinds

\* Every entity shows exactly one stored record, later than its last deletion,
\* whatever was corrected, deleted, parsed again or cut short
\* (normalize.rs:228-261, 361-372, 544-583).
THEOREM OneRecordShown == Spec => []EntityShowsOneRecord
<1>1. SoundInv => EntityShowsOneRecord
  BY DEF SoundInv, Sound, EntityShowsOneRecord
<1> QED BY <1>1, SoundInit, SoundNext, PTL DEF Spec

\* A run's parse_errors is the number of its records in parse_errors and every
\* failed record has its row there (normalize.rs:172-207).
THEOREM ExactCounter == Spec => []CounterIsExact
<1>1. SoundInv => CounterIsExact
  BY DEF SoundInv, Sound, CounterIsExact
<1> QED BY <1>1, SoundInit, SoundNext, PTL DEF Spec

(***************************************************************************)
(* Versions.                                                               *)
(***************************************************************************)
\* An upsert without rows leaves an entity that nothing shows was normalised:
\* the results below are for payloads that have none.
NonEmptyUpserts == \A p \in Payloads : p.op = "upsert" => p.rows # {}

LEMMA VersionFacts ==
    ASSUME TypeOK, NEW d \in DbType(Ids), ShowsOneRecord(d), NEW k \in Keys
    PROVE  /\ Version(d, k) \in Nat /\ d.tomb[k] \in Nat /\ d.tomb[k] <= Version(d, k)
           /\ d.table[k] = {} => Version(d, k) = d.tomb[k]
           /\ \A x \in d.table[k] : Version(d, k) = x.raw
           /\ Version(d, k) # 0 => Version(d, k) \in Ids /\ OfKey(Version(d, k), k)
           /\ {x.row : x \in d.table[k]} =
                 IF Version(d, k) = 0 THEN {} ELSE log[Version(d, k)].payload.rows
<1>1. OneRecord(k, d.table[k], d.tomb[k]) /\ d.tomb[k] \in Nat
  BY ShowsPerEntity DEF DbType
<1>2. CASE d.table[k] = {}
  <2>1. Version(d, k) = d.tomb[k]
    BY <1>2 DEF Version
  <2>2. {x.row : x \in d.table[k]} = {}
    BY <1>2
  <2>3. CASE d.tomb[k] = 0
    BY <1>1, <1>2, <2>1, <2>2, <2>3
  <2>4. CASE d.tomb[k] # 0
    <3>1. d.tomb[k] \in Ids /\ OfKey(d.tomb[k], k) /\ log[d.tomb[k]].payload.op = "delete"
      BY <1>1, <2>4 DEF OneRecord
    <3>2. log[d.tomb[k]].payload.rows = {}
      BY <3>1, RecordFacts
    <3> QED BY <1>1, <1>2, <2>1, <2>2, <2>4, <3>1, <3>2
  <2> QED BY <2>3, <2>4
<1>3. CASE d.table[k] # {}
  <2>1. PICK x \in d.table[k] : Version(d, k) = x.raw
    BY <1>3 DEF Version
  <2>2. /\ x.raw \in Ids /\ OfKey(x.raw, k) /\ d.tomb[k] < x.raw
        /\ {y.row : y \in d.table[k]} = log[x.raw].payload.rows
        /\ \A y \in d.table[k] : y.raw = x.raw
    BY <1>1, <2>1 DEF OneRecord
  <2>3. x.raw \in Nat \ {0}
    BY <2>2, RecordFacts
  <2> QED BY <1>1, <1>3, <2>1, <2>2, <2>3
<1> QED BY <1>2, <1>3

\* Applying a record never takes an entity back, and takes its own at least to
\* the record.
LEMMA ApplyAdvances ==
    ASSUME NonEmptyUpserts, TypeOK, NEW d \in DbType(Ids), ShowsOneRecord(d), NEW i \in Ids,
           NEW k \in Keys
    PROVE  /\ Version(d, k) <= Version(Apply(d, i), k)
           /\ OfKey(i, k) => i <= Version(Apply(d, i), k)
<1> DEFINE e == Apply(d, i)
           p == log[i].payload
<1>1. /\ e \in DbType(Ids)
      /\ k # p.key => e.table[k] = d.table[k] /\ e.tomb[k] = d.tomb[k]
      /\ k = p.key =>
           \/ d.tomb[k] >= i /\ e = d
           \/ /\ d.tomb[k] < i /\ p.op = "upsert"
              /\ e.table[k] = Upsert(d.table[k], i, p.rows)
              /\ e.tomb[k] = d.tomb[k]
           \/ /\ d.tomb[k] < i /\ p.op = "delete"
              /\ e.table[k] = {x \in d.table[k] : x.raw >= i}
              /\ e.tomb[k] = i
  <2>2. e \in DbType(Ids)
    BY ApplyFacts
  <2>1. /\ \A q \in Keys : q # p.key => e.table[q] = d.table[q] /\ e.tomb[q] = d.tomb[q]
        /\ p.key \in Keys =>
             \/ d.tomb[p.key] >= i /\ e = d
             \/ /\ d.tomb[p.key] < i /\ p.op = "upsert"
                /\ e.table[p.key] = Upsert(d.table[p.key], i, p.rows)
                /\ e.tomb[p.key] = d.tomb[p.key]
             \/ /\ d.tomb[p.key] < i /\ p.op = "delete"
                /\ e.table[p.key] = {x \in d.table[p.key] : x.raw >= i}
                /\ e.tomb[p.key] = i
    BY ApplyFacts
  <2> HIDE DEF e, p
  <2> QED BY <2>1, <2>2
<1>2. ShowsOneRecord(e)
  BY ApplyShows
<1>3. i \in Nat \ {0} /\ (p.op = "upsert" => p.rows # {})
  BY RecordFacts DEF NonEmptyUpserts
<1> HIDE DEF e
<1>4. /\ Version(d, k) \in Nat /\ d.tomb[k] \in Nat /\ d.tomb[k] <= Version(d, k)
      /\ d.table[k] = {} => Version(d, k) = d.tomb[k]
      /\ \A x \in d.table[k] : Version(d, k) = x.raw
  BY VersionFacts
<1>5. /\ Version(e, k) \in Nat /\ e.tomb[k] \in Nat /\ e.tomb[k] <= Version(e, k)
      /\ e.table[k] = {} => Version(e, k) = e.tomb[k]
      /\ \A x \in e.table[k] : Version(e, k) = x.raw
  BY <1>1, <1>2, VersionFacts
<1>6. Version(d, k) <= Version(e, k) /\ (OfKey(i, k) => i <= Version(e, k))
  <2>1. CASE k # p.key
    BY <1>1, <1>4, <2>1 DEF Version, OfKey
  <2>2. CASE k = p.key /\ d.tomb[k] >= i /\ e = d
    BY <1>3, <1>4, <2>2
  <2>3. CASE d.tomb[k] < i /\ e.table[k] = Upsert(d.table[k], i, p.rows)
             /\ e.tomb[k] = d.tomb[k] /\ p.rows # {}
    <3>1. CASE \E x \in d.table[k] : x.raw >= i
      BY <1>3, <1>4, <1>5, <2>3, <3>1 DEF Upsert
    <3>2. CASE ~ \E x \in d.table[k] : x.raw >= i
      <4>1. e.table[k] = NewRows(i, p.rows)
        BY <2>3, <3>2 DEF Upsert
      <4>2. \E x \in e.table[k] : x.raw = i
        <5> DEFINE rec(c) == [row |-> c, raw |-> i, parser |-> parser]
        <5>1. \A c : rec(c).raw = i
          OBVIOUS
        <5>2. e.table[k] = {rec(c) : c \in p.rows}
          BY <4>1 DEF NewRows
        <5> HIDE DEF rec
        <5> QED BY <2>3, <5>1, <5>2
      <4>3. Version(e, k) = i
        BY <1>5, <4>2
      <4>4. Version(d, k) <= i
        <5>1. CASE d.table[k] = {}
          BY <1>3, <1>4, <2>3, <5>1
        <5>2. CASE d.table[k] # {}
          BY <1>3, <1>4, <3>2, <5>2
        <5> QED BY <5>1, <5>2
      <4> QED BY <1>3, <4>3, <4>4
    <3> QED BY <3>1, <3>2
  <2>4. CASE d.tomb[k] < i /\ e.table[k] = {x \in d.table[k] : x.raw >= i} /\ e.tomb[k] = i
    <3>1. CASE e.table[k] = {}
      <4>1. \A x \in d.table[k] : ~(x.raw >= i)
        BY <2>4, <3>1
      <4>2. Version(e, k) = i
        BY <1>5, <2>4, <3>1
      <4>3. CASE d.table[k] = {}
        BY <1>3, <1>4, <2>4, <4>2, <4>3
      <4>4. CASE d.table[k] # {}
        BY <1>3, <1>4, <4>1, <4>2, <4>4
      <4> QED BY <4>3, <4>4
    <3>2. CASE e.table[k] # {}
      BY <1>3, <1>4, <1>5, <2>4, <3>2
    <3> QED BY <3>1, <3>2
  <2> QED BY <1>1, <1>3, <2>1, <2>2, <2>3, <2>4
<1> QED BY <1>6 DEF e

\* A processed record takes no entity back and is not newer than what its own
\* entity shows once it counts as normalised.
LEMMA SteppedAdvances ==
    ASSUME NonEmptyUpserts, TypeOK, NEW d \in DbType(Ids), ShowsOneRecord(d), LatestIn(d),
           NEW i \in Ids, NEW e \in Stepped(d, i)
    PROVE  LatestIn(e) /\ \A k \in Keys : Version(d, k) <= Version(e, k)
<1>a. DOMAIN d.state = Ids /\ e \in DbType(Ids) /\ DOMAIN e.state = Ids /\ Ids \subseteq Nat
  <2>1. e \in DbType(Ids)
    BY SteppedType
  <2> QED BY <2>1 DEF DbType, Ids
<1>b. \A k \in Keys : Version(d, k) \in Nat
  BY VersionFacts
<1>1. CASE e = SetState(Apply(d, i), i, 1)
  <2> DEFINE a == Apply(d, i)
  <2>1. a \in DbType(Ids) /\ a.state = d.state
    BY ApplyFacts
  <2>2. ShowsOneRecord(a)
    BY ApplyShows
  <2>3. \A k \in Keys : /\ Version(d, k) <= Version(a, k)
                        /\ OfKey(i, k) => i <= Version(a, k)
    BY ApplyAdvances
  <2> HIDE DEF a
  <2>4. \A k \in Keys : Version(a, k) \in Nat
    BY <2>1, <2>2, VersionFacts
  <2>5. /\ e.table = a.table /\ e.tomb = a.tomb
        /\ \A j \in Ids : j # i => e.state[j] = d.state[j]
    <3>1. e = SetState(a, i, 1)
      BY <1>1 DEF a
    <3>2. /\ SetState(a, i, 1).table = a.table /\ SetState(a, i, 1).tomb = a.tomb
          /\ \A j \in Ids : j # i => SetState(a, i, 1).state[j] = a.state[j]
      <4>1. PICK c \in DbType(Ids) : c = a
        BY <2>1
      <4>2. /\ SetState(c, i, 1).table = c.table /\ SetState(c, i, 1).tomb = c.tomb
            /\ \A j \in Ids : j # i => SetState(c, i, 1).state[j] = c.state[j]
        BY SetStateFacts, 1 \in 0 .. 3
      <4> QED BY <4>1, <4>2
    <3> QED BY <2>1, <3>1, <3>2
  <2>6. \A k \in Keys : Version(e, k) = Version(a, k)
    BY <2>5 DEF Version
  <2>7. ASSUME NEW k \in Keys, NEW j \in Ids, OfKey(j, k), e.state[j] = 1
        PROVE  j <= Version(e, k)
    <3>1. CASE j = i
      BY <2>3, <2>6, <2>7, <3>1
    <3>2. CASE j # i
      <4>1. j <= Version(d, k)
        BY <1>a, <2>5, <2>7, <3>2 DEF LatestIn
      <4> QED BY <1>a, <1>b, <2>3, <2>4, <2>6, <4>1
    <3> QED BY <3>1, <3>2
  <2> QED BY <1>a, <2>3, <2>6, <2>7 DEF LatestIn
<1>2. CASE e \in {SetState(d, i, 3), RecordFailure(d, i)}
  <2>1. /\ e.table = d.table /\ e.tomb = d.tomb
        /\ e.state[i] # 1 /\ \A j \in Ids : j # i => e.state[j] = d.state[j]
    <3>1. CASE e = SetState(d, i, 3)
      <4>1. /\ SetState(d, i, 3).table = d.table /\ SetState(d, i, 3).tomb = d.tomb
            /\ SetState(d, i, 3).state[i] = 3
            /\ \A j \in Ids : j # i => SetState(d, i, 3).state[j] = d.state[j]
        BY SetStateFacts, 3 \in 0 .. 3
      <4> QED BY <3>1, <4>1
    <3>2. CASE e = RecordFailure(d, i)
      <4>1. /\ RecordFailure(d, i).table = d.table /\ RecordFailure(d, i).tomb = d.tomb
            /\ RecordFailure(d, i).state[i] = 2
            /\ \A j \in Ids : j # i => RecordFailure(d, i).state[j] = d.state[j]
        BY RecordFailureFacts
      <4> QED BY <3>2, <4>1
    <3> QED BY <1>2, <3>1, <3>2
  <2>2. \A k \in Keys : Version(e, k) = Version(d, k)
    BY <2>1 DEF Version
  <2>3. ASSUME NEW k \in Keys, NEW j \in Ids, OfKey(j, k), e.state[j] = 1
        PROVE  j <= Version(e, k)
    <3>1. d.state[j] = 1
      BY <2>1, <2>3
    <3> QED BY <1>a, <2>2, <2>3, <3>1 DEF LatestIn
  <2>4. \A k \in Keys : Version(d, k) <= Version(e, k)
    BY <1>b, <2>2
  <2> QED BY <1>a, <2>3, <2>4 DEF LatestIn
<1> QED BY <1>1, <1>2 DEF Stepped

\* The transaction is never behind the committed tables.
LatestInv ==
    /\ SoundInv
    /\ LatestIn(db)
    /\ pc = "batch" => LatestIn(work) /\ \A k \in Keys : Version(db, k) <= Version(work, k)

LEMMA LatestInit == Init => LatestInv
<1> SUFFICES ASSUME Init PROVE LatestInv
  OBVIOUS
<1>1. SoundInv
  BY SoundInit
<1>2. DOMAIN db.state = {}
  <2>1. Ids = {}
    BY DEF Init, Ids
  <2> QED BY <1>1, <2>1 DEF SoundInv, TypeOK, DbType
<1> QED BY <1>1, <1>2 DEF Init, LatestInv, LatestIn

\* What a step does to the committed tables: nothing but a new log entry or new
\* parse states, or the tables of the transaction take their place.
LEMMA LatestStep ==
    ASSUME NonEmptyUpserts, LatestInv, [Next]_vars
    PROVE  /\ LatestInv'
           /\ \A k \in Keys : Version(db, k) <= Version(db, k)'
           /\ \/ \E p \in Payloads, r \in RunIds : Arrive(p, r)
              \/ db'.table = db.table /\ db'.tomb = db.tomb /\ UNCHANGED log
              \/ db' = work /\ pc = "batch" /\ UNCHANGED log
<1>a. /\ TypeOK /\ SoundInv /\ SoundInv' /\ Sound(db) /\ (pc = "batch" => Sound(work))
      /\ LatestIn(db)
      /\ pc = "batch" => LatestIn(work) /\ \A k \in Keys : Version(db, k) <= Version(work, k)
  BY SoundNext DEF LatestInv, SoundInv
<1>b. /\ \A k \in Keys : Version(db, k) \in Nat
      /\ DOMAIN db.state = Ids
  BY <1>a, VersionFacts DEF TypeOK, Sound, DbType
<1>1. ASSUME NEW p \in Payloads, NEW r \in RunIds, Arrive(p, r)
      PROVE  LatestInv' /\ \A k \in Keys : Version(db, k) <= Version(db, k)'
  <2>1. /\ Ids' = Ids \union {Len(log) + 1}
        /\ \A i \in Ids : log'[i] = log[i] /\ db'.state[i] = db.state[i]
        /\ db'.state[Len(log) + 1] = 0
        /\ db'.table = db.table /\ db'.tomb = db.tomb
        /\ db' \in DbType(Ids')
    BY <1>a, <1>1, ArriveFacts DEF Ids
  <2>2. \A k \in Keys : Version(db, k)' = Version(db, k)
    BY <2>1 DEF Version
  <2>3. DOMAIN db'.state = Ids'
    BY <2>1 DEF DbType
  <2>4. LatestIn(db)'
    BY <1>a, <1>b, <2>1, <2>2, <2>3 DEF LatestIn, OfKey
  <2>5. pc' # "batch"
    BY <1>1 DEF Arrive
  <2> QED BY <1>a, <1>b, <2>2, <2>4, <2>5 DEF LatestInv
<1>2. ASSUME NEW c, NEW out, Reparse(c, out)
      PROVE  /\ LatestInv' /\ \A k \in Keys : Version(db, k) <= Version(db, k)'
             /\ db'.table = db.table /\ db'.tomb = db.tomb /\ UNCHANGED log
  <2>1. /\ db'.table = db.table /\ db'.tomb = db.tomb
        /\ \A i \in Ids : db'.state[i] \in {0, db.state[i]}
        /\ db' \in DbType(Ids)
    BY <1>a, <1>2, ReparseFacts
  <2>2. UNCHANGED log /\ pc' # "batch"
    BY <1>2 DEF Reparse, Exit
  <2>3. \A k \in Keys : Version(db, k)' = Version(db, k)
    BY <2>1 DEF Version
  <2>4. DOMAIN db'.state = Ids
    BY <2>1 DEF DbType
  <2>5. \A i \in Ids : db'.state[i] = 1 => db.state[i] = 1
    BY <2>1
  <2>6. LatestIn(db)'
    BY <1>a, <1>b, <2>2, <2>3, <2>4, <2>5 DEF LatestIn, OfKey
  <2> QED BY <1>a, <1>b, <2>1, <2>2, <2>3, <2>6 DEF LatestInv
<1>3. CASE Replaced
  <2>1. PICK i \in todo : \E d \in Stepped(work, i) : Processed(i, d)
    BY <1>3 DEF Replaced
  <2>2. PICK d \in Stepped(work, i) : Processed(i, d)
    BY <2>1
  <2>3. pc = "batch" /\ work' = d /\ UNCHANGED <<log, db>>
    BY <2>2 DEF Processed
  <2>4. work \in DbType(Ids) /\ i \in Ids /\ ShowsOneRecord(work) /\ LatestIn(work)
    BY <1>a, <2>3 DEF TypeOK, Sound
  <2>5. LatestIn(d) /\ \A k \in Keys : Version(work, k) <= Version(d, k)
    BY <1>a, <2>2, <2>4, SteppedAdvances
  <2>6. /\ \A k \in Keys : Version(work, k) \in Nat
        /\ d \in DbType(Ids) /\ ShowsOneRecord(d)
    BY <1>a, <2>2, <2>4, VersionFacts, SteppedType, SteppedShows
  <2>7. \A k \in Keys : Version(d, k) \in Nat
    BY <1>a, <2>6, VersionFacts
  <2>8. \A k \in Keys : Version(db, k) <= Version(d, k)
    BY <1>a, <1>b, <2>3, <2>5, <2>6, <2>7
  <2>9. LatestInv'
    BY <1>a, <2>3, <2>5, <2>8 DEF LatestInv, LatestIn, Version, OfKey
  <2>10. \A k \in Keys : Version(db, k)' = Version(db, k)
    BY <2>3 DEF Version
  <2> QED BY <1>b, <2>3, <2>9, <2>10
<1>4. CASE Installed
  <2>1. LatestInv'
    BY <1>a, <1>4 DEF Installed, LatestInv, LatestIn, OfKey, Version
  <2>2. \A k \in Keys : Version(db, k)' = Version(work, k)
    BY <1>4 DEF Installed, Version
  <2> QED BY <1>a, <1>4, <2>1, <2>2 DEF Installed
<1>5. CASE Opened
  <2>1. \A k \in Keys : Version(db, k)' = Version(db, k) /\ Version(work, k)' = Version(db, k)
    BY <1>5 DEF Opened, Version
  <2>2. LatestIn(db)' /\ LatestIn(work)'
    BY <1>a, <1>5 DEF Opened, LatestIn, OfKey, Version
  <2>3. \A k \in Keys : Version(db, k) <= Version(db, k)' /\ Version(db, k)' <= Version(work, k)'
    BY <1>b, <2>1
  <2> QED BY <1>a, <1>5, <2>2, <2>3 DEF Opened, LatestInv
<1>6. CASE Closed \/ UNCHANGED vars
  <2>1. UNCHANGED <<log, db>> /\ (pc' = "batch" => pc = "batch" /\ UNCHANGED work)
    BY <1>6 DEF Closed, vars
  <2>2. LatestInv'
    BY <1>a, <2>1 DEF LatestInv, LatestIn, OfKey, Version
  <2>3. \A k \in Keys : Version(db, k)' = Version(db, k)
    BY <2>1 DEF Version
  <2> QED BY <1>b, <2>1, <2>2, <2>3
<1>7. CASE Next
  BY <1>a, <1>1, <1>2, <1>3, <1>4, <1>5, <1>6, <1>7, StepKinds DEF Replaced, Processed, Installed, Opened
<1> QED BY <1>6, <1>7

\* Nothing a reader sees is older than a record of its entity that was already
\* normalised, in whatever order records, commands and failures came
\* (normalize.rs:3-9).
THEOREM NormalizedIsLatest ==
    ASSUME NonEmptyUpserts
    PROVE  Spec => []LatestWins
<1>1. LatestInv => LatestWins
  BY DEF LatestInv, LatestWins
<1>2. LatestInv /\ [Next]_vars => LatestInv'
  BY LatestStep
<1> QED BY <1>1, <1>2, LatestInit, PTL DEF Spec

\* No step takes an entity back to an older record, reparses and replayed
\* batches included (normalize.rs:5-7).
THEOREM NoRegress ==
    ASSUME NonEmptyUpserts
    PROVE  Spec => VersionNeverRegresses
<1>1. LatestInv /\ [Next]_vars
      => LatestInv' /\ \A k \in Keys : Version(db, k) <= Version(db, k)'
  BY LatestStep
<1> QED BY <1>1, LatestInit, PTL DEF Spec, VersionNeverRegresses

(***************************************************************************)
(* The tables keep the promise of LatestTable.                             *)
(***************************************************************************)
AbsLog == [i \in Ids |-> [key |-> log[i].payload.key, rows |-> log[i].payload.rows]]
AbsVersion == [k \in Keys |-> Version(db, k)]
AbsShown == [k \in Keys |-> {x.row : x \in db.table[k]}]

LEMMA FunctionAsSeq ==
    ASSUME NEW n \in Nat, NEW S, NEW f \in [1 .. n -> S]
    PROVE  f \in Seq(S) /\ Len(f) = n
<1>1. f \in Seq(S)
  BY SeqDef
<1> QED BY <1>1, LenProperties

LEMMA AbsLogFacts ==
    ASSUME TypeOK
    PROVE  /\ AbsLog \in Seq([key : Keys \union {NoKey}, rows : SUBSET Combos])
           /\ Len(AbsLog) = Len(log)
           /\ \A i \in Ids : AbsLog[i] = [key |-> log[i].payload.key, rows |-> log[i].payload.rows]
<1> DEFINE A == [key : Keys \union {NoKey}, rows : SUBSET Combos]
<1>1. \A i \in Ids : [key |-> log[i].payload.key, rows |-> log[i].payload.rows] \in A
  BY RecordFacts
<1>2. Len(log) \in Nat
  BY LenProperties DEF TypeOK
<1>3. AbsLog \in [1 .. Len(log) -> A]
  BY <1>1 DEF AbsLog, Ids
<1> HIDE DEF A
<1>4. AbsLog \in Seq(A) /\ Len(AbsLog) = Len(log)
  BY <1>2, <1>3, FunctionAsSeq
<1> QED BY <1>4 DEF A, AbsLog

LEMMA PromiseInit == Init => Promise!Init
<1> SUFFICES ASSUME Init PROVE Promise!Init
  OBVIOUS
<1>1. AbsLog = <<>>
  <2>1. Len(AbsLog) = 0 /\ AbsLog \in Seq([key : Keys \union {NoKey}, rows : SUBSET Combos])
    BY AbsLogFacts, TypeInit, EmptySeq DEF Init
  <2> QED BY <2>1, EmptySeq
<1>2. AbsVersion = [k \in Keys |-> 0] /\ AbsShown = [k \in Keys |-> {}]
  BY DEF Init, EmptyDb, AbsVersion, AbsShown, Version
<1> QED BY <1>1, <1>2 DEF Promise!Init, AbsLog, AbsVersion, AbsShown

\* An arriving record lengthens the log.
LEMMA PromiseGrows ==
    ASSUME TypeOK, TypeOK', NEW p \in Payloads, NEW r \in RunIds, Arrive(p, r)
    PROVE  Promise!Grow
<1>1. /\ Len(log) \in Nat /\ Len(log') = Len(log) + 1 /\ Ids \subseteq Ids'
      /\ \A i \in Ids : log'[i] = log[i]
      /\ db'.table = db.table /\ db'.tomb = db.tomb
  BY ArriveFacts
<1>2. Len(AbsLog) = Len(log) /\ Len(AbsLog') = Len(log')
  <2>1. AbsLog' \in [1 .. Len(log') -> {AbsLog'[i] : i \in 1 .. Len(log')}]
    BY DEF AbsLog, Ids
  <2>2. Len(log') \in Nat
    BY <1>1
  <2> HIDE DEF AbsLog
  <2> QED BY <2>1, <2>2, FunctionAsSeq, AbsLogFacts
<1>3. \A i \in Ids : AbsLog'[i] = AbsLog[i]
  BY <1>1 DEF AbsLog
<1>4. AbsVersion' = AbsVersion /\ AbsShown' = AbsShown
  BY <1>1 DEF AbsVersion, AbsShown, Version
<1>5. \A i \in 1 .. Len(AbsLog) : AbsLog'[i] = AbsLog[i]
  BY <1>2, <1>3 DEF Ids
<1> HIDE DEF AbsLog
<1> QED BY <1>1, <1>2, <1>4, <1>5 DEF Promise!Grow, AbsLog, AbsVersion, AbsShown

\* A commit moves entities to later records of their own, and the rows it
\* leaves are those of the records it moves them to.
LEMMA PromiseAdvances ==
    ASSUME TypeOK, Sound(db), Sound(work), pc = "batch", db' = work, UNCHANGED log,
           \A k \in Keys : Version(db, k) <= Version(work, k)
    PROVE  Promise!Advance
<1> DEFINE K == {k \in Keys : Version(db, k) # Version(work, k)}
           pick == [k \in K |-> Version(work, k)]
<1>1. \A k \in Keys :
         /\ Version(db, k) \in Nat /\ Version(work, k) \in Nat
         /\ Version(work, k) # 0 => Version(work, k) \in Ids /\ OfKey(Version(work, k), k)
         /\ {x.row : x \in db.table[k]} =
               IF Version(db, k) = 0 THEN {} ELSE log[Version(db, k)].payload.rows
         /\ {x.row : x \in work.table[k]} =
               IF Version(work, k) = 0 THEN {} ELSE log[Version(work, k)].payload.rows
  BY VersionFacts DEF TypeOK, Sound
<1>2. \A k \in K : /\ Version(work, k) \in Ids /\ OfKey(Version(work, k), k)
                   /\ Version(db, k) < Version(work, k)
  BY <1>1
<1>3. /\ Len(AbsLog) = Len(log)
      /\ \A i \in Ids : AbsLog[i] = [key |-> log[i].payload.key, rows |-> log[i].payload.rows]
  BY AbsLogFacts
<1>4. K \in SUBSET Keys /\ pick \in [K -> 1 .. Len(AbsLog)]
  BY <1>2, <1>3 DEF Ids
<1>5. ASSUME NEW k \in K
      PROVE  /\ pick[k] \in 1 .. Len(AbsLog) /\ pick[k] > AbsVersion[k]
             /\ AbsLog[pick[k]].key = k
             /\ AbsLog[pick[k]].rows = {x.row : x \in work.table[k]}
  <2>1. pick[k] = Version(work, k) /\ AbsVersion[k] = Version(db, k)
    BY DEF AbsVersion
  <2>2. Version(work, k) \in Ids /\ OfKey(Version(work, k), k) /\ Version(db, k) < Version(work, k)
    BY <1>2
  <2>3. Version(work, k) # 0
    BY <2>2, RecordFacts
  <2>4. Version(db, k) \in Nat /\ Version(work, k) \in Nat
    BY <1>1
  <2>a. AbsLog[pick[k]] = [key |-> log[Version(work, k)].payload.key,
                           rows |-> log[Version(work, k)].payload.rows]
    BY <1>3, <2>1, <2>2
  <2>5. AbsLog[pick[k]].key = k
    BY <2>2, <2>a DEF OfKey
  <2>6. AbsLog[pick[k]].rows = {x.row : x \in work.table[k]}
    BY <1>1, <2>3, <2>a
  <2>7. pick[k] \in 1 .. Len(AbsLog) /\ pick[k] > AbsVersion[k]
    BY <1>3, <2>1, <2>2, <2>4 DEF Ids
  <2> QED BY <2>5, <2>6, <2>7
<1>6. AbsVersion' = [k \in Keys |-> IF k \in K THEN pick[k] ELSE AbsVersion[k]]
  <2>1. \A k \in Keys : Version(db, k)' = Version(work, k)
    BY DEF Version
  <2> QED BY <2>1 DEF AbsVersion
<1>7. AbsShown' = [k \in Keys |-> IF k \in K THEN AbsLog[pick[k]].rows ELSE AbsShown[k]]
  <2>1. \A k \in Keys : {x.row : x \in db.table[k]}' = {x.row : x \in work.table[k]}
    OBVIOUS
  <2>2. \A k \in Keys \ K : {x.row : x \in work.table[k]} = {x.row : x \in db.table[k]}
    BY <1>1
  <2> HIDE DEF pick
  <2> QED BY <1>5, <2>1, <2>2 DEF AbsShown
<1>8. AbsLog' = AbsLog
  BY DEF AbsLog, Ids
<1>9. \A k \in K : pick[k] \in Promise!Later(k)
  BY <1>5 DEF Promise!Later, AbsLog, AbsVersion
<1> HIDE DEF K, pick
<1> QED BY <1>4, <1>6, <1>7, <1>8, <1>9 DEF Promise!Advance, AbsLog, AbsVersion, AbsShown

\* The committed tables implement the abstract table: whatever the batches,
\* reparses and failures, a reader sees entities move forward through their own
\* records and nothing else (normalize.rs:1-9).
THEOREM Refinement ==
    ASSUME NonEmptyUpserts
    PROVE  Spec => KeepsPromise
<1>1. LatestInv /\ [Next]_vars => LatestInv' /\ [Promise!Next]_(Promise!vars)
  <2> SUFFICES ASSUME LatestInv, [Next]_vars PROVE LatestInv' /\ [Promise!Next]_(Promise!vars)
    OBVIOUS
  <2>1. /\ TypeOK /\ Sound(db) /\ (pc = "batch" => Sound(work))
        /\ pc = "batch" => \A k \in Keys : Version(db, k) <= Version(work, k)
    BY DEF LatestInv, SoundInv
  <2>2. LatestInv' /\ TypeOK'
    BY LatestStep DEF LatestInv, SoundInv
  <2>3. ASSUME NEW p \in Payloads, NEW r \in RunIds, Arrive(p, r)
        PROVE  Promise!Next
    BY <2>1, <2>2, <2>3, PromiseGrows DEF Promise!Next
  <2>4. CASE db'.table = db.table /\ db'.tomb = db.tomb /\ UNCHANGED log
    <3>1. AbsLog' = AbsLog /\ AbsVersion' = AbsVersion /\ AbsShown' = AbsShown
      BY <2>4 DEF AbsLog, AbsVersion, AbsShown, Ids, Version
    <3>2. UNCHANGED Promise!vars
      BY <3>1 DEF Promise!vars, AbsLog, AbsVersion, AbsShown
    <3> QED BY <2>2, <3>2
  <2>5. CASE db' = work /\ pc = "batch" /\ UNCHANGED log
    <3>1. Promise!Advance
      BY <2>1, <2>5, PromiseAdvances
    <3> QED BY <2>2, <3>1 DEF Promise!Next
  <2> QED BY <2>2, <2>3, <2>4, <2>5, LatestStep
<1>2. Init => Promise!Init
  BY PromiseInit
<1> QED BY <1>1, <1>2, LatestInit, PTL DEF Spec, KeepsPromise, Promise!Spec

(***************************************************************************)
(* Normalisation approaches its end.                                       *)
(***************************************************************************)
\* What the open batch has processed has left the pending state, and what was not
\* pending still is not; unless something of it is left to process, something was.
BatchInv ==
    pc = "batch" =>
        /\ \A i \in Ids : work.state[i] = 0 => db.state[i] = 0
        /\ \E i \in Unparsed : i \in todo \/ work.state[i] # 0

EndInv == TypeOK /\ BatchInv

LEMMA SteppedState ==
    ASSUME TypeOK, NEW d \in DbType(Ids), NEW i \in Ids, NEW e \in Stepped(d, i)
    PROVE  e.state[i] # 0 /\ \A j \in Ids : j # i => e.state[j] = d.state[j]
<1>1. PICK a \in DbType(Ids) : a = Apply(d, i) /\ a.state = d.state
  BY ApplyFacts
<1>2. SetState(a, i, 1).state[i] = 1 /\ \A j \in Ids : j # i => SetState(a, i, 1).state[j] = a.state[j]
  BY SetStateFacts, 1 \in 0 .. 3
<1>3. SetState(d, i, 3).state[i] = 3 /\ \A j \in Ids : j # i => SetState(d, i, 3).state[j] = d.state[j]
  BY SetStateFacts, 3 \in 0 .. 3
<1>4. RecordFailure(d, i).state[i] = 2
      /\ \A j \in Ids : j # i => RecordFailure(d, i).state[j] = d.state[j]
  BY RecordFailureFacts
<1> QED BY <1>1, <1>2, <1>3, <1>4 DEF Stepped

\* A batch is never empty while something is pending: the first pending record
\* is in it, whatever the size of a batch.
LEMMA FirstPendingSelected ==
    ASSUME TypeOK, NEW out, SelectBatch(out), pc' = "batch"
    PROVE  /\ work' = db /\ UNCHANGED <<log, db>>
           /\ \E i \in Unparsed : i \in todo'
<1>1. /\ Unparsed # {} /\ work' = db /\ UNCHANGED <<log, db>>
      /\ todo' = {i \in Unparsed : Cardinality({j \in Unparsed : j < i}) < Batch}
  BY DEF SelectBatch, Exit
<1>2. Unparsed \in SUBSET Nat
  BY RecordFacts DEF Unparsed
<1>3. PICK m \in Unparsed : \A k \in Unparsed : m <= k
  BY <1>1, <1>2, LeastNumber
<1>4. {j \in Unparsed : j < m} = {}
  <2>1. \A j \in Unparsed : j \in Nat /\ m \in Nat /\ m <= j
    BY <1>2, <1>3
  <2> QED BY <2>1
<1>5. Cardinality({j \in Unparsed : j < m}) < Batch
  BY <1>4, FS_EmptySet, NormalizeConstants
<1> QED BY <1>1, <1>3, <1>5

LEMMA EndNext == EndInv /\ [Next]_vars => EndInv'
<1> SUFFICES ASSUME EndInv, [Next]_vars PROVE BatchInv'
  BY TypeNext DEF EndInv
<1>1. CASE pc' # "batch"
  BY <1>1 DEF BatchInv
<1>2. CASE UNCHANGED vars
  BY <1>2 DEF EndInv, BatchInv, Unparsed, Ids, vars
<1>3. ASSUME NEW out, SelectBatch(out), pc' = "batch"
      PROVE  BatchInv'
  <2>1. work' = db /\ UNCHANGED <<log, db>> /\ \E i \in Unparsed : i \in todo'
    BY <1>3, FirstPendingSelected DEF EndInv
  <2>2. Unparsed' = Unparsed /\ Ids' = Ids
    BY <2>1 DEF Unparsed, Ids
  <2> QED BY <2>1, <2>2 DEF BatchInv
<1>4. ASSUME NEW i \in todo,
             ApplyRecord(i) \/ SkipRecord(i) \/ ParseError(i) \/ ApplyError(i)
      PROVE  BatchInv'
  <2>1. PICK d \in Stepped(work, i) : Processed(i, d)
    BY <1>4 DEF ApplyRecord, SkipRecord, ParseError, ApplyError, Stepped
  <2>2. /\ pc = "batch" /\ work' = d /\ todo' = todo \ {i}
        /\ UNCHANGED <<log, db>> /\ i \in Ids /\ work \in DbType(Ids)
    BY <2>1 DEF Processed, EndInv, TypeOK
  <2>3. d.state[i] # 0 /\ \A j \in Ids : j # i => d.state[j] = work.state[j]
    BY <2>1, <2>2, SteppedState DEF EndInv
  <2>4. Ids' = Ids /\ Unparsed' = Unparsed /\ Unparsed \subseteq Ids
    BY <2>2 DEF Ids, Unparsed
  <2> QED BY <2>2, <2>3, <2>4 DEF EndInv, BatchInv
<1>5. pc' = "batch" =>
         \/ UNCHANGED vars \/ \E out : SelectBatch(out)
         \/ \E i \in todo : ApplyRecord(i) \/ SkipRecord(i) \/ ParseError(i) \/ ApplyError(i)
  BY DEF Next, ProcessStep, Arrive, Upgrade, StartNormalize, Reparse, Exit, BatchError, Commit,
         Kill
<1> QED BY <1>1, <1>2, <1>3, <1>4, <1>5

LEMMA PendingFinite ==
    ASSUME TypeOK
    PROVE  /\ IsFiniteSet(Unparsed) /\ Cardinality(Unparsed) \in Nat
           /\ IsFiniteSet(todo) /\ Cardinality(todo) \in Nat
<1>1. Len(log) \in Int /\ 1 \in Int
  <2>1. log \in Seq([payload : Payloads, run : RunIds])
    BY DEF TypeOK
  <2> QED BY <2>1, LenProperties
<1>2. IsFiniteSet(Ids)
  BY <1>1, FS_Interval DEF Ids
<1>3. IsFiniteSet(Unparsed) /\ IsFiniteSet(todo)
  BY <1>2, FS_Subset DEF Unparsed, TypeOK
<1> QED BY <1>3, FS_CardinalityType

LEMMA NormalizeNearer ==
    ASSUME EndInv, Next, pc # "idle"
    PROVE  Nearer(Distance', Distance)
<1>0. TypeOK /\ pc \in {"select", "batch"}
  BY DEF EndInv, TypeOK
<1>1. CASE pc' = "idle"
  BY <1>0, <1>1 DEF Nearer, Distance
<1>2. ASSUME NEW out, SelectBatch(out), pc' = "batch"
      PROVE  Nearer(Distance', Distance)
  <2>1. Unparsed' = Unparsed /\ pc = "select"
    BY <1>0, <1>2, FirstPendingSelected DEF Unparsed, Ids, SelectBatch
  <2> QED BY <1>2, <2>1 DEF Nearer, Distance
<1>3. ASSUME NEW i \in todo,
             ApplyRecord(i) \/ SkipRecord(i) \/ ParseError(i) \/ ApplyError(i)
      PROVE  Nearer(Distance', Distance)
  <2>1. todo' = todo \ {i} /\ UNCHANGED <<log, db, pc>>
    BY <1>3 DEF ApplyRecord, SkipRecord, ParseError, ApplyError, Processed
  <2>2. Unparsed' = Unparsed
    BY <2>1 DEF Unparsed, Ids
  <2>3. Cardinality(todo') = Cardinality(todo) - 1 /\ Cardinality(todo) \in Nat
    BY <1>0, <2>1, PendingFinite, FS_RemoveElement
  <2> QED BY <2>1, <2>2, <2>3 DEF Nearer, Distance
<1>4. ASSUME NEW out, Commit(out), pc' = "select"
      PROVE  Nearer(Distance', Distance)
  <2>1. pc = "batch" /\ todo = {} /\ db' = work /\ UNCHANGED log /\ Ids' = Ids
    BY <1>4 DEF Commit, Exit, Ids
  <2>2. Unparsed' \subseteq Unparsed /\ \E i \in Unparsed : i \notin Unparsed'
    BY <2>1 DEF EndInv, BatchInv, Unparsed
  <2>3. Cardinality(Unparsed') < Cardinality(Unparsed)
    <3>1. IsFiniteSet(Unparsed) /\ Cardinality(Unparsed) \in Nat
      BY <1>0, PendingFinite
    <3>2. /\ Cardinality(Unparsed') <= Cardinality(Unparsed)
          /\ Cardinality(Unparsed') # Cardinality(Unparsed)
      BY <2>2, <3>1, FS_Subset
    <3>3. Cardinality(Unparsed') \in Nat
      BY <2>2, <3>1, FS_Subset, FS_CardinalityType
    <3> QED BY <3>1, <3>2, <3>3
  <2> QED BY <1>4, <2>1, <2>3 DEF Nearer, Distance
<1>5. \/ pc' = "idle"
      \/ \E out : SelectBatch(out) /\ pc' = "batch"
      \/ \E i \in todo : ApplyRecord(i) \/ SkipRecord(i) \/ ParseError(i) \/ ApplyError(i)
      \/ \E out : Commit(out) /\ pc' = "select"
  BY DEF Next, ProcessStep, Arrive, Upgrade, StartNormalize, Reparse, SelectBatch, Exit,
         BatchError, Commit, Kill
<1> QED BY <1>1, <1>2, <1>3, <1>4, <1>5

\* No normalisation goes on for ever, whatever fails in it: each commit leaves
\* fewer records pending, and each statement brings the batch nearer to its commit,
\* in an order without infinite descent (normalize.rs:41-54).
THEOREM NormalizeEnds ==
    /\ Spec => NormalizeApproachesItsEnd
    /\ Spec => [](Distance \in Distances(4))
    /\ IsWellFoundedOn(NearerPairs(4), Distances(4))
<1>1. Init => EndInv
  BY TypeInit DEF Init, EndInv, BatchInv
<1>2. EndInv /\ [Next]_vars => [pc # "idle" => Nearer(Distance', Distance)]_vars
  BY NormalizeNearer
<1>3. EndInv => Distance \in Distances(4)
  BY PendingFinite DEF EndInv, Distance, Distances
<1>4. Spec => NormalizeApproachesItsEnd
  BY <1>1, <1>2, EndNext, PTL DEF Spec, NormalizeApproachesItsEnd
<1>5. Spec => [](Distance \in Distances(4))
  BY <1>1, <1>3, EndNext, PTL DEF Spec
<1> QED BY <1>4, <1>5, NearerEnds
=============================================================================
