----------------------------- MODULE BridgeProofs -----------------------------
(***************************************************************************)
(* Proofs about one fetch.                                                 *)
(***************************************************************************)
EXTENDS BridgeHistory, SequenceTheorems, DescentProofs, TLAPS

(***************************************************************************)
(* Types and bounds.                                                       *)
(***************************************************************************)
\* Every frame is a frame.
LEMMA FrameTypes ==
    /\ {Nothing, Open, Progress, Done, Error} \subseteq AnyFrame
    /\ \A f \in Nat : Begin(f) \in AnyFrame /\ End(f) \in AnyFrame
    /\ \A f \in Nat, i \in Nat : Rec(f, i) \in AnyFrame
BY DEF AnyFrame, FrameKinds, Frame, Nothing, Open, Progress, Done, Error, Begin, End, Rec

\* The position JV-Link reads next lies in the range.
LEMMA NextPosition ==
    ASSUME BridgeTypeOK, PlaceInv, ~AtEnd
    PROVE  /\ NextFile \in 1 .. MaxFiles /\ NextFile <= req.files
           /\ NextRec \in 1 .. RecCount
           /\ jv.file < NextFile <=> jv.rec = RecCount
           /\ jv.file <= NextFile
<1>1. /\ jv.file \in Nat /\ jv.rec \in 0 .. RecCount /\ jv.file <= req.files
      /\ req.files \in 0 .. MaxFiles
      /\ jv.file = 0 => jv.rec = RecCount
  BY DEF BridgeTypeOK, PlaceInv, JvType, Requests
<1>2. CASE jv.rec < RecCount
  BY <1>1, <1>2, BridgeConstants DEF NextFile, NextRec, AtEnd
<1>3. CASE jv.rec = RecCount
  BY <1>1, <1>3, BridgeConstants DEF NextFile, NextRec, AtEnd
<1> QED  BY <1>1, <1>2, <1>3, BridgeConstants

\* A stall counter that has not reached its limit passes it by one at most.
LEMMA TickBounds ==
    ASSUME NEW s \in StallType, s.quiet <= Limit,
           NEW p \in 0 .. MaxFiles
    PROVE  /\ Tick(s, p) \in StallType
           /\ ~Stalled(Tick(s, p)) => Tick(s, p).quiet <= Limit
BY BridgeConstants DEF Tick, Stalled, StallType

\* JV-Link's position moves inside its type.
LEMMA JvTypes ==
    ASSUME NEW j \in JvType
    PROVE  /\ LET k == [j EXCEPT !.edge = TRUE]
              IN  k \in JvType /\ k.got = j.got /\ k.file = j.file /\ k.rec = j.rec
           /\ j.got < MaxFiles =>
                  LET k == [j EXCEPT !.got = @ + 1]
                  IN  k \in JvType /\ k.got = j.got + 1 /\ k.file = j.file /\ k.rec = j.rec
           /\ j.got \in 0 .. MaxFiles /\ j.file \in 0 .. MaxFiles /\ j.rec \in 0 .. RecCount
<1>2. LET k == [j EXCEPT !.edge = TRUE]
      IN  k \in JvType /\ k.got = j.got /\ k.file = j.file /\ k.rec = j.rec
  BY DEF JvType
<1>3. j.got < MaxFiles =>
          LET k == [j EXCEPT !.got = @ + 1]
          IN  k \in JvType /\ k.got = j.got + 1 /\ k.file = j.file /\ k.rec = j.rec
  <2>1. j.got \in 0 .. MaxFiles /\ (j.got < MaxFiles => j.got + 1 \in 0 .. MaxFiles)
    BY BridgeConstants DEF JvType
  <2>2. ASSUME NEW g \in 0 .. MaxFiles
        PROVE  LET k == [j EXCEPT !.got = g]
               IN  k \in JvType /\ k.got = g /\ k.file = j.file /\ k.rec = j.rec
    BY DEF JvType
  <2> QED  BY <2>1, <2>2
<1>4. j.got \in 0 .. MaxFiles /\ j.file \in 0 .. MaxFiles /\ j.rec \in 0 .. RecCount
  BY DEF JvType
<1> QED  BY <1>2, <1>3, <1>4

\* A request names at most MaxFiles files.
LEMMA RequestTypes ==
    ASSUME NEW r \in Requests
    PROVE  r.files \in 0 .. MaxFiles /\ r.need \in 0 .. MaxFiles /\ r.counted \in 0 .. MaxFiles
           /\ r.target \in {Null} \union 1 .. MaxFiles + 1
           /\ r.kind \in {"process", "fixture"}
BY DEF Requests

\* Emitting frames keeps the types.
LEMMA SeqTypes ==
    /\ \A a \in AnyFrame : <<a>> \in Seq(AnyFrame)
    /\ \A a, b \in AnyFrame : <<a, b>> \in Seq(AnyFrame)
    /\ \A a, b, c \in AnyFrame : <<a, b, c>> \in Seq(AnyFrame)
    /\ <<>> \in Seq(AnyFrame)
OBVIOUS

TypeInv == BridgeTypeOK /\ PlaceInv

\* JVOpen, JVStatus and the end of the range.
LEMMA OpenTypes ==
    ASSUME TypeInv, JvOpen \/ WaitDownload \/ SkipEnd \/ ReadEnd \/ PollDownload \/ JvFails
    PROVE  TypeInv'
<1> USE FrameTypes, SeqTypes DEF TypeInv, Running, Emit, OthersThanBridge
<1>1. CASE JvOpen
  BY <1>1 DEF JvOpen, BridgeTypeOK, PlaceInv, AfterOpen
<1>2. CASE WaitDownload
  <2>1. stall \in StallType /\ stall.quiet <= Limit
        /\ jv.got \in 0 .. MaxFiles
    BY <1>2 DEF WaitDownload, BridgeTypeOK, PlaceInv, JvType
  <2>2. Tick(stall, jv.got) \in StallType
        /\ (~Stalled(Tick(stall, jv.got)) => Tick(stall, jv.got).quiet <= Limit)
    BY <2>1, TickBounds
  <2>3. CASE jv.got >= req.counted
    BY <1>2, <2>3 DEF WaitDownload, BridgeTypeOK, PlaceInv, AfterOpen
  <2>4. CASE ~(jv.got >= req.counted)
    <3>1. /\ stall' = Tick(stall, jv.got) /\ host' = host /\ chan' = chan /\ jv' = jv
          /\ UNCHANGED <<req, cur, pipe>>
          /\ (at' = "exit0" /\ out' = <<Progress, Error>>)
                \/ (at' = "wait" /\ out' = <<Progress>> /\ ~Stalled(stall'))
      BY <1>2, <2>4 DEF WaitDownload
    <3>2. at = "wait"
      BY <1>2 DEF WaitDownload
    <3>3. BridgeTypeOK'
      BY <1>2, <2>2, <3>1 DEF WaitDownload, BridgeTypeOK
    <3> QED  BY <2>2, <3>1, <3>2, <3>3 DEF PlaceInv
  <2> QED  BY <2>3, <2>4
<1>3. CASE SkipEnd
  BY <1>3 DEF SkipEnd, BridgeTypeOK, PlaceInv
<1>4. CASE ReadEnd
  BY <1>4 DEF ReadEnd, BridgeTypeOK, PlaceInv
<1>5. CASE PollDownload
  <2>1. stall \in StallType /\ stall.quiet <= Limit
        /\ jv.got \in 0 .. MaxFiles
    BY <1>5 DEF PollDownload, BridgeTypeOK, PlaceInv, JvType
  <2>2. Tick(stall, jv.got) \in StallType
        /\ (~Stalled(Tick(stall, jv.got)) => Tick(stall, jv.got).quiet <= Limit)
    BY <2>1, TickBounds
  <2> QED  BY <1>5, <2>2 DEF PollDownload, BridgeTypeOK, PlaceInv
<1>6. CASE JvFails
  BY <1>6 DEF JvFails, BridgeTypeOK, PlaceInv
<1> QED  BY <1>1, <1>2, <1>3, <1>4, <1>5, <1>6

\* JVGets returned a record or the end of a file.
LEMMA ReadTypes ==
    ASSUME TypeInv, SkipRecord \/ SkipEdge \/ ReadRecord \/ ReadEdge
    PROVE  TypeInv'
<1>1. ASSUME ReturnsRecord, ReadOn
      PROVE  /\ jv' \in JvType
             /\ jv'.file <= req.files /\ jv'.file >= 1
  <2>1. /\ NextFile \in 1 .. MaxFiles /\ NextFile <= req.files /\ NextRec \in 1 .. RecCount
    BY <1>1, NextPosition DEF ReturnsRecord, TypeInv
  <2>2. jv \in JvType
    BY DEF TypeInv, BridgeTypeOK
  <2>3. /\ RecCount \in Nat /\ NextFile \in 0 .. MaxFiles /\ NextRec \in 0 .. RecCount
    BY <2>1, BridgeConstants
  <2>4. LET k == [jv EXCEPT !.file = NextFile, !.rec = NextRec, !.edge = FALSE]
        IN  k \in JvType /\ k.got = jv.got /\ k.file = NextFile /\ k.rec = NextRec
    <3>1. ASSUME NEW f \in 0 .. MaxFiles, NEW i \in 0 .. RecCount
          PROVE  LET k == [jv EXCEPT !.file = f, !.rec = i, !.edge = FALSE]
                 IN  k \in JvType /\ k.got = jv.got /\ k.file = f /\ k.rec = i
      BY <2>2 DEF JvType
    <3> QED  BY <2>3, <3>1
  <2> QED  BY <1>1, <2>1, <2>4 DEF ReadOn
<1>2. ASSUME ReturnsRecord,
             jv' = [jv EXCEPT !.file = NextFile, !.rec = RecCount, !.edge = FALSE]
      PROVE  /\ jv' \in JvType
             /\ jv'.file <= req.files /\ jv'.file >= 1
  <2>1. /\ NextFile \in 1 .. MaxFiles /\ NextFile <= req.files
    BY <1>2, NextPosition DEF ReturnsRecord, TypeInv
  <2>2. jv \in JvType
    BY DEF TypeInv, BridgeTypeOK
  <2>3. NextFile \in 0 .. MaxFiles /\ RecCount \in 0 .. RecCount
    BY <2>1, BridgeConstants
  <2>4. LET k == [jv EXCEPT !.file = NextFile, !.rec = RecCount, !.edge = FALSE]
        IN  k \in JvType /\ k.got = jv.got /\ k.file = NextFile /\ k.rec = RecCount
    <3>1. ASSUME NEW f \in 0 .. MaxFiles, NEW i \in 0 .. RecCount
          PROVE  LET k == [jv EXCEPT !.file = f, !.rec = i, !.edge = FALSE]
                 IN  k \in JvType /\ k.got = jv.got /\ k.file = f /\ k.rec = i
      BY <2>2 DEF JvType
    <3> QED  BY <2>3, <3>1
  <2> QED  BY <1>2, <2>1, <2>4
<1> USE FrameTypes, SeqTypes, BridgeConstants DEF TypeInv, Running, Emit, OthersThanBridge
<1>3. ASSUME ReturnsRecord
      PROVE  NextFile \in 1 .. MaxFiles /\ NextFile \in Nat /\ NextRec \in Nat
  BY <1>3, NextPosition DEF ReturnsRecord
<1>4. CASE SkipRecord
  <2>1. CASE NextFile = req.target
    <3>1. /\ ReturnsRecord /\ ReadOn /\ cur' = NextFile
          /\ out' = <<Begin(NextFile), Rec(NextFile, NextRec)>> /\ at' = "read" /\ at = "skip"
          /\ UNCHANGED <<req, last, code, stall, pipe, host, chan, cons>>
      BY <1>4, <2>1 DEF SkipRecord
    <3>2. out' \in Seq(AnyFrame) /\ cur' \in 0 .. MaxFiles
      BY <1>3, <3>1
    <3> QED  BY <1>1, <3>1, <3>2 DEF BridgeTypeOK, PlaceInv
  <2>2. CASE NextFile # req.target
    BY <1>1, <1>2, <1>4, <2>2 DEF SkipRecord, BridgeTypeOK, PlaceInv
  <2> QED  BY <2>1, <2>2
<1>5. CASE SkipEdge
  <2>1. jv' \in JvType /\ jv'.file = jv.file /\ jv'.rec = jv.rec
    BY <1>5, JvTypes DEF SkipEdge, BridgeTypeOK
  <2> QED  BY <1>5, <2>1 DEF SkipEdge, BridgeTypeOK, PlaceInv
<1>6. CASE ReadRecord
  <2>1. cur \in Nat
    BY DEF BridgeTypeOK
  <2>2. out' \in Seq(AnyFrame)
    <3>1. CASE NextFile = cur
      BY <1>3, <1>6, <3>1 DEF ReadRecord
    <3>2. CASE NextFile # cur /\ cur = 0
      BY <1>3, <1>6, <3>2 DEF ReadRecord
    <3>3. CASE NextFile # cur /\ cur # 0
      BY <1>3, <1>6, <2>1, <3>3 DEF ReadRecord
    <3> QED  BY <3>1, <3>2, <3>3
  <2>3. /\ ReturnsRecord /\ ReadOn /\ cur' = NextFile /\ at' = "read" /\ at = "read"
        /\ UNCHANGED <<req, last, code, stall, pipe, host, chan, cons>>
    BY <1>6 DEF ReadRecord
  <2>4. /\ jv' \in JvType /\ jv'.file <= req'.files /\ jv'.file >= 1 /\ cur' \in 0 .. MaxFiles
    BY <1>1, <1>3, <2>3
  <2>5. BridgeTypeOK'
    BY <2>2, <2>3, <2>4 DEF BridgeTypeOK
  <2>6. PlaceInv'
    BY <2>3, <2>4 DEF PlaceInv
  <2> QED  BY <2>5, <2>6
<1>7. CASE ReadEdge
  <2>1. jv' \in JvType /\ jv'.file = jv.file /\ jv'.rec = jv.rec
    BY <1>7, JvTypes DEF ReadEdge, BridgeTypeOK
  <2>2. cur \in Nat /\ End(cur) \in AnyFrame
    BY DEF BridgeTypeOK
  <2> QED  BY <1>7, <2>1, <2>2 DEF ReadEdge, BridgeTypeOK, PlaceInv
<1> QED  BY <1>4, <1>5, <1>6, <1>7

\* The bridge writes, exits, is killed or dies; JV-Link downloads.
LEMMA ProcessTypes ==
    ASSUME TypeInv, WriteFrame \/ Exit \/ Crash \/ Download
    PROVE  TypeInv'
<1> USE DEF TypeInv
<1>1. CASE WriteFrame
  <2>1. out # <<>> => Head(out) \in AnyFrame /\ Tail(out) \in Seq(AnyFrame)
    BY HeadTailProperties DEF BridgeTypeOK
  <2>2. out # <<>> => /\ Append(pipe, Head(out)) \in Seq(AnyFrame)
                      /\ Len(Append(pipe, Head(out))) = Len(pipe) + 1
    BY <2>1, AppendProperties DEF BridgeTypeOK
  <2>3. CASE ReadEndOpen
    <3>1. out # <<>> /\ Len(pipe) < PipeCap /\ pipe' = Append(pipe, Head(out)) /\ out' = Tail(out)
          /\ UNCHANGED <<req, last, at, code, cur, stall, jv, host, chan, cons>>
      BY <1>1, <2>3 DEF WriteFrame
    <3>2. Len(pipe') <= PipeCap /\ pipe' \in Seq(AnyFrame)
      BY <2>2, <3>1, LenProperties, BridgeConstants DEF BridgeTypeOK
    <3> QED  BY <2>1, <3>1, <3>2 DEF BridgeTypeOK, PlaceInv
  <2>4. CASE ~ReadEndOpen
    BY <1>1, <2>4, SeqTypes DEF WriteFrame, Alive, BridgeTypeOK, PlaceInv
  <2> QED  BY <2>3, <2>4
<1>2. CASE Exit
  BY <1>2 DEF Exit, Running, BridgeTypeOK, PlaceInv
<1>3. CASE Crash
  BY <1>3, SeqTypes DEF Crash, Alive, BridgeTypeOK, PlaceInv
<1>4. CASE Download
  <2>1. jv' \in JvType /\ jv'.file = jv.file /\ jv'.rec = jv.rec
    <3>1. jv \in JvType /\ req \in Requests
      BY DEF BridgeTypeOK
    <3>2. jv.got < MaxFiles /\ jv' = [jv EXCEPT !.got = @ + 1]
      <4>1. jv.got < req.need /\ jv' = [jv EXCEPT !.got = @ + 1]
        BY <1>4 DEF Download
      <4>2. jv.got \in 0 .. MaxFiles /\ req.need \in 0 .. MaxFiles
        BY <3>1, JvTypes, RequestTypes
      <4> QED  BY <4>1, <4>2, BridgeConstants
    <3> QED  BY <3>1, <3>2, JvTypes
  <2> QED  BY <1>4, <2>1 DEF Download, BridgeTypeOK, PlaceInv
<1> QED  BY <1>1, <1>2, <1>3, <1>4

\* What reading task and channel do with one item.
LEMMA SendTypes ==
    ASSUME TypeInv, NEW item \in AnyFrame, host = "reading", Send(item),
           UNCHANGED <<req, last, cur, stall, jv, cons>>,
           pipe' \in Seq(AnyFrame), Len(pipe') <= PipeCap
    PROVE  TypeInv'
<1>1. Append(chan, item) \in Seq(AnyFrame) /\ Len(Append(chan, item)) = Len(chan) + 1
      /\ Len(chan) \in Nat
  BY AppendProperties, LenProperties DEF TypeInv, BridgeTypeOK
<1>2. CASE ReceiverOpen
  <2>1. /\ Len(chan) < ChanCap /\ chan' = Append(chan, item) /\ host' \in {"waiting", "reading"}
        /\ UNCHANGED <<at, out, code>>
    BY <1>2 DEF Send
  <2>2. chan' \in Seq(AnyFrame) /\ Len(chan') <= ChanCap
    BY <1>1, <2>1, BridgeConstants
  <2> QED  BY <2>1, <2>2 DEF TypeInv, BridgeTypeOK, PlaceInv
<1>3. CASE ~ReceiverOpen
  BY <1>3, SeqTypes DEF Send, KillChild, Alive, TypeInv, BridgeTypeOK, PlaceInv
<1> QED  BY <1>2, <1>3

\* The reading task.
LEMMA ReaderTypes ==
    ASSUME TypeInv,
           Spawn \/ SpawnFails \/ Forward \/ Eof \/ ChildExited \/ ExitTimeout
    PROVE  TypeInv'
<1>1. Error \in AnyFrame
  BY FrameTypes
<1>2. /\ Append(chan, Error) \in Seq(AnyFrame) /\ Len(Append(chan, Error)) = Len(chan) + 1
      /\ Len(chan) \in Nat
  BY <1>1, AppendProperties, LenProperties DEF TypeInv, BridgeTypeOK
<1>3. CASE Spawn
  <2>1. stall.quiet <= Limit
    BY <1>3 DEF Spawn, TypeInv, PlaceInv
  <2> QED  BY <1>3, <2>1 DEF Spawn, TypeInv, BridgeTypeOK, PlaceInv
<1>4. CASE SpawnFails
  BY <1>2, <1>4, BridgeConstants DEF SpawnFails, bridgeVars, TypeInv, BridgeTypeOK, PlaceInv
<1>5. CASE Forward
  <2>1. Head(pipe) \in AnyFrame /\ Tail(pipe) \in Seq(AnyFrame) /\ Len(Tail(pipe)) <= PipeCap
    BY <1>5, HeadTailProperties, LenProperties, BridgeConstants DEF Forward, TypeInv, BridgeTypeOK
  <2>2. PICK item \in {Head(pipe), Error} : Send(item)
    BY <1>5 DEF Forward
  <2> QED  BY <1>1, <1>5, <2>1, <2>2, SendTypes DEF Forward
<1>6. CASE Eof
  BY <1>1, <1>6, SendTypes DEF Eof, TypeInv, BridgeTypeOK
<1>7. CASE ChildExited
  <2>1. /\ chan' = chan \/ (Len(chan) < ChanCap /\ chan' = Append(chan, Error))
        /\ host' = "gone"
        /\ UNCHANGED <<req, last, bridgeVars, pipe, cons>>
    BY <1>7 DEF ChildExited
  <2>2. chan \in Seq(AnyFrame) /\ Len(chan) <= ChanCap
    BY DEF TypeInv, BridgeTypeOK
  <2>3. chan' \in Seq(AnyFrame) /\ Len(chan') <= ChanCap
    BY <1>2, <2>1, <2>2, BridgeConstants
  <2> QED  BY <2>1, <2>3 DEF bridgeVars, TypeInv, BridgeTypeOK, PlaceInv
<1>8. CASE ExitTimeout
  BY <1>8, SeqTypes DEF ExitTimeout, KillChild, Alive, TypeInv, BridgeTypeOK, PlaceInv
<1> QED  BY <1>3, <1>4, <1>5, <1>6, <1>7, <1>8

\* The frames of one file of a fixture.
LEMMA FileFrameFacts ==
    ASSUME NEW f \in Nat, NEW r
    PROVE  /\ FileFrames(f) \in Seq(AnyFrame)
           /\ FileFrames(f) # <<>> /\ Len(FileFrames(f)) = RecCount + 2
           /\ FileFrames(f)[1] = Begin(f)
           /\ FileFrames(f)[RecCount + 2] = End(f)
           /\ Chained(r, FileFrames(f))
<1> DEFINE rs == [i \in 1 .. RecCount |-> Rec(f, i)]
<1> DEFINE s == <<Begin(f)>> \o rs
<1> RecCount \in Nat \ {0}
  BY BridgeConstants
<1>1. Begin(f) \in AnyFrame /\ End(f) \in AnyFrame /\ <<Begin(f)>> \in Seq(AnyFrame)
      /\ <<End(f)>> \in Seq(AnyFrame)
  BY FrameTypes
<1>2. rs \in Seq(AnyFrame) /\ Len(rs) = RecCount /\ \A i \in 1 .. RecCount : rs[i] = Rec(f, i)
  <2>1. rs \in [1 .. RecCount -> AnyFrame]
    BY FrameTypes
  <2>2. rs \in Seq(AnyFrame)
    BY <2>1, SeqDef
  <2> QED  BY <2>1, <2>2
<1> HIDE DEF rs
<1>3. /\ s \in Seq(AnyFrame) /\ Len(s) = RecCount + 1 /\ s[1] = Begin(f)
      /\ \A i \in 2 .. RecCount + 1 : s[i] = Rec(f, i - 1)
  <2>1. Len(<<Begin(f)>>) = 1 /\ <<Begin(f)>>[1] = Begin(f)
    OBVIOUS
  <2>2. /\ s \in Seq(AnyFrame) /\ Len(s) = 1 + RecCount
        /\ \A i \in 1 .. 1 + RecCount : s[i] = IF i <= 1 THEN <<Begin(f)>>[i] ELSE rs[i - 1]
    BY <1>1, <1>2, <2>1, ConcatProperties
  <2> HIDE DEF s
  <2> QED  BY <1>2, <2>1, <2>2
<1>4. FileFrames(f) = s \o <<End(f)>>
  BY DEF FileFrames, rs
<1> HIDE DEF s
<1>5. /\ FileFrames(f) \in Seq(AnyFrame) /\ Len(FileFrames(f)) = RecCount + 2
      /\ \A i \in 1 .. RecCount + 1 : FileFrames(f)[i] = s[i]
      /\ FileFrames(f)[RecCount + 2] = End(f)
  <2>1. Len(<<End(f)>>) = 1 /\ <<End(f)>>[1] = End(f)
    OBVIOUS
  <2>2. /\ s \o <<End(f)>> \in Seq(AnyFrame) /\ Len(s \o <<End(f)>>) = (RecCount + 1) + 1
        /\ \A i \in 1 .. (RecCount + 1) + 1 : (s \o <<End(f)>>)[i] =
              IF i <= RecCount + 1 THEN s[i] ELSE <<End(f)>>[i - (RecCount + 1)]
    BY <1>1, <1>3, <2>1, ConcatProperties
  <2> QED  BY <1>4, <2>1, <2>2
<1>6. Chained(r, FileFrames(f))
  <2> SUFFICES ASSUME NEW i \in 1 .. RecCount + 1
               PROVE  Follows(r, FileFrames(f)[i], FileFrames(f)[i + 1])
    BY <1>5 DEF Chained
  <2>1. CASE i = 1
    <3>1. FileFrames(f)[1] = Begin(f) /\ FileFrames(f)[2] = Rec(f, 1)
      BY <1>3, <1>5
    <3> QED  BY <2>1, <3>1 DEF Follows, Begin, Rec, Frame
  <2>2. CASE i \in 2 .. RecCount
    <3>1. FileFrames(f)[i] = Rec(f, i - 1) /\ FileFrames(f)[i + 1] = Rec(f, i)
      BY <1>3, <1>5, <2>2
    <3> QED  BY <2>2, <3>1 DEF Follows, Rec, Frame
  <2>3. CASE i = RecCount + 1
    <3>1. FileFrames(f)[i] = Rec(f, RecCount) /\ FileFrames(f)[i + 1] = End(f)
      BY <1>3, <1>5, <2>3
    <3> QED  BY <3>1 DEF Follows, Rec, End, Frame
  <2> QED  BY <2>1, <2>2, <2>3
<1> QED  BY <1>3, <1>5, <1>6

\* The fixture task.
LEMMA FixtureTypes ==
    ASSUME TypeInv, FixtureOpen \/ FixtureFile \/ FixtureSend \/ FixtureEnd
    PROVE  TypeInv'
<1> USE DEF TypeInv
<1>1. /\ req \in Requests /\ cur \in 0 .. MaxFiles /\ req.files \in 0 .. MaxFiles
      /\ req.target \in {Null} \union 1 .. MaxFiles + 1 /\ MaxFiles \in Nat
  BY RequestTypes, BridgeConstants DEF BridgeTypeOK
<1>2. CASE FixtureOpen
  <2>1. cur' \in 0 .. MaxFiles
    BY <1>1, <1>2 DEF FixtureOpen, First
  <2>2. out' \in Seq(AnyFrame)
    BY <1>2, FrameTypes, SeqTypes DEF FixtureOpen
  <2> QED  BY <1>2, <2>1, <2>2 DEF FixtureOpen, BridgeTypeOK, PlaceInv
<1>3. CASE FixtureFile
  <2>1. cur' \in 0 .. MaxFiles
    BY <1>1, <1>3 DEF FixtureFile
  <2>2. out' \in Seq(AnyFrame)
    <3>1. cur + 1 \in Nat /\ FileFrames(cur + 1) \in Seq(AnyFrame)
      BY <1>1, FileFrameFacts
    <3> QED  BY <1>3, <3>1, FrameTypes, SeqTypes DEF FixtureFile
  <2> QED  BY <1>3, <2>1, <2>2 DEF FixtureFile, BridgeTypeOK, PlaceInv
<1>4. CASE FixtureSend
  <2>1. Head(out) \in AnyFrame /\ Tail(out) \in Seq(AnyFrame) /\ chan \in Seq(AnyFrame)
        /\ Len(chan) <= ChanCap
    BY <1>4, HeadTailProperties DEF FixtureSend, BridgeTypeOK
  <2>2. /\ Append(chan, Head(out)) \in Seq(AnyFrame)
        /\ Len(Append(chan, Head(out))) = Len(chan) + 1 /\ Len(chan) \in Nat
    BY <2>1, AppendProperties, LenProperties
  <2>3. chan' = chan \/ (Len(chan) < ChanCap /\ chan' = Append(chan, Head(out)))
    BY <1>4 DEF FixtureSend
  <2>4. chan' \in Seq(AnyFrame) /\ Len(chan') <= ChanCap
    BY <2>1, <2>2, <2>3, BridgeConstants
  <2> QED  BY <1>4, <2>1, <2>4 DEF FixtureSend, BridgeTypeOK, PlaceInv
<1>5. CASE FixtureEnd
  BY <1>5 DEF FixtureEnd, bridgeVars, BridgeTypeOK, PlaceInv
<1> QED  BY <1>2, <1>3, <1>4, <1>5

\* The consumer, and the death of the importer.
LEMMA ConsumerTypes ==
    ASSUME TypeInv, Consume \/ Leave \/ HostKilled
    PROVE  TypeInv'
<1> USE DEF TypeInv
<1>1. <<>> \in Seq(AnyFrame) /\ Len(<<>>) <= ChanCap /\ Len(<<>>) <= PipeCap
  BY SeqTypes, BridgeConstants
<1>2. CASE Consume
  <2>1. Head(chan) \in AnyFrame /\ Tail(chan) \in Seq(AnyFrame) /\ Len(Tail(chan)) <= ChanCap
    BY <1>2, HeadTailProperties, LenProperties, BridgeConstants DEF Consume, BridgeTypeOK
  <2> QED  BY <1>1, <1>2, <2>1 DEF Consume, bridgeVars, BridgeTypeOK, PlaceInv
<1>3. CASE Leave
  BY <1>1, <1>3 DEF Leave, bridgeVars, BridgeTypeOK, PlaceInv
<1>4. CASE HostKilled
  BY <1>1, <1>4 DEF HostKilled, bridgeVars, BridgeTypeOK, PlaceInv
<1> QED  BY <1>2, <1>3, <1>4

LEMMA InitTypes == Init => TypeInv
BY FrameTypes, SeqTypes, BridgeConstants
   DEF Init, TypeInv, BridgeTypeOK, PlaceInv, JvType, StallType, Requests

LEMMA TypeNext == TypeInv /\ [Next]_vars => TypeInv'
<1> SUFFICES ASSUME TypeInv, [Next]_vars  PROVE TypeInv'
  OBVIOUS
<1>1. CASE UNCHANGED vars
  BY <1>1 DEF vars, bridgeVars, TypeInv, BridgeTypeOK, PlaceInv
<1>2. CASE Next
  BY <1>2, OpenTypes, ReadTypes, ProcessTypes, ReaderTypes, FixtureTypes, ConsumerTypes
     DEF Next, BridgeStep, HostStep
<1> QED  BY <1>1, <1>2

\* The buffers keep to their capacity, and every process is where it can be.
THEOREM BridgeTypes == Spec => []BridgeTypeOK
<1>1. TypeInv => BridgeTypeOK
  BY DEF TypeInv
<1> QED  BY <1>1, InitTypes, TypeNext, PTL DEF Spec

(***************************************************************************)
(* Sequences of frames.                                                    *)
(***************************************************************************)
\* Handing over the head of one queue to the next keeps what both hold together.
LEMMA HandOver ==
    ASSUME NEW q \in Seq(AnyFrame), NEW s \in Seq(AnyFrame), s # <<>>
    PROVE  Append(q, Head(s)) \o Tail(s) = q \o s
<1>1. /\ Head(s) \in AnyFrame /\ Head(s) = s[1] /\ Tail(s) \in Seq(AnyFrame)
      /\ Len(s) \in Nat \ {0} /\ Len(Tail(s)) = Len(s) - 1
      /\ \A i \in 1 .. Len(s) - 1 : Tail(s)[i] = s[i + 1]
  BY HeadTailProperties, LenProperties, EmptySeq
<1>2. /\ Append(q, Head(s)) \in Seq(AnyFrame) /\ Len(Append(q, Head(s))) = Len(q) + 1
      /\ \A i \in 1 .. Len(q) : Append(q, Head(s))[i] = q[i]
      /\ Append(q, Head(s))[Len(q) + 1] = Head(s) /\ Len(q) \in Nat
  BY <1>1, AppendProperties, LenProperties
<1> DEFINE u == Append(q, Head(s)) \o Tail(s)
<1> DEFINE v == q \o s
<1>3. /\ u \in Seq(AnyFrame) /\ Len(u) = (Len(q) + 1) + (Len(s) - 1)
      /\ \A i \in 1 .. (Len(q) + 1) + (Len(s) - 1) :
            u[i] = IF i <= Len(q) + 1 THEN Append(q, Head(s))[i] ELSE Tail(s)[i - (Len(q) + 1)]
  BY <1>1, <1>2, ConcatProperties
<1>4. /\ v \in Seq(AnyFrame) /\ Len(v) = Len(q) + Len(s)
      /\ \A i \in 1 .. Len(q) + Len(s) : v[i] = IF i <= Len(q) THEN q[i] ELSE s[i - Len(q)]
  BY ConcatProperties
<1> HIDE DEF u, v
<1>5. ASSUME NEW i \in 1 .. Len(u)  PROVE u[i] = v[i]
  <2> i \in Int /\ 1 <= i /\ i <= Len(q) + Len(s)
    BY <1>1, <1>2, <1>3
  <2>0. /\ i \in 1 .. (Len(q) + 1) + (Len(s) - 1) /\ i \in 1 .. Len(q) + Len(s)
        /\ Len(q) \in Nat /\ Len(s) \in Nat
    BY <1>1, <1>2, <1>3
  <2>1. CASE i <= Len(q)
    <3>1. u[i] = Append(q, Head(s))[i]
      BY <1>3, <2>0, <2>1
    <3>2. Append(q, Head(s))[i] = q[i]
      BY <1>2, <2>0, <2>1
    <3>3. v[i] = q[i]
      BY <1>4, <2>0, <2>1
    <3> QED  BY <3>1, <3>2, <3>3
  <2>2. CASE i = Len(q) + 1
    <3>1. u[i] = Head(s)
      BY <1>2, <1>3, <2>0, <2>2
    <3>2. v[i] = s[1]
      BY <1>4, <2>0, <2>2
    <3> QED  BY <1>1, <3>1, <3>2
  <2>3. CASE i > Len(q) + 1
    <3>1. /\ i - (Len(q) + 1) \in 1 .. Len(s) - 1
          /\ (i - (Len(q) + 1)) + 1 = i - Len(q)
      BY <2>0, <2>3
    <3>2. u[i] = Tail(s)[i - (Len(q) + 1)]
      BY <1>3, <2>0, <2>3
    <3>3. v[i] = s[i - Len(q)]
      BY <1>4, <2>0, <2>3
    <3> QED  BY <1>1, <3>1, <3>2, <3>3
  <2> QED  BY <2>0, <2>1, <2>2, <2>3
<1>6. u = v
  <2>1. Len(u) = Len(v)
    BY <1>1, <1>2, <1>3, <1>4
  <2> QED  BY <1>3, <1>4, <1>5, <2>1, SeqEqual
<1> QED  BY <1>6 DEF u, v

\* Concatenation of queues is associative.
LEMMA Assoc == \A s, t, u \in Seq(AnyFrame) : (s \o t) \o u = s \o (t \o u)
<1> SUFFICES ASSUME NEW s \in Seq(AnyFrame), NEW t \in Seq(AnyFrame), NEW u \in Seq(AnyFrame)
             PROVE  (s \o t) \o u = s \o (t \o u)
  OBVIOUS
<1> QED  BY ConcatAssociative

\* The same when frames are in front and behind.
Joined(a, q, s, o) == (a \o q) \o (s \o o)

LEMMA HandOverBetween ==
    ASSUME NEW a \in Seq(AnyFrame), NEW q \in Seq(AnyFrame), NEW s \in Seq(AnyFrame), s # <<>>,
           NEW o \in Seq(AnyFrame)
    PROVE  Joined(a, Append(q, Head(s)), Tail(s), o) = Joined(a, q, s, o)
<1>1. Append(q, Head(s)) \in Seq(AnyFrame) /\ Tail(s) \in Seq(AnyFrame)
  BY HeadTailProperties, AppendProperties
<1>2. ASSUME NEW x \in Seq(AnyFrame), NEW y \in Seq(AnyFrame)
      PROVE  (a \o x) \o (y \o o) = a \o ((x \o y) \o o)
  <2>1. PICK z \in Seq(AnyFrame) : z = y \o o
    BY ConcatProperties
  <2>2. (a \o x) \o z = a \o (x \o z)
    BY Assoc, SMTT(30)
  <2>3. (x \o y) \o o = x \o (y \o o)
    BY Assoc, SMTT(30)
  <2> QED  BY <2>1, <2>2, <2>3
<1>3. (a \o Append(q, Head(s))) \o (Tail(s) \o o) = a \o ((Append(q, Head(s)) \o Tail(s)) \o o)
  BY <1>1, <1>2
<1>4. (a \o q) \o (s \o o) = a \o ((q \o s) \o o)
  BY <1>2
<1> QED  BY <1>3, <1>4, HandOver DEF Joined

\* A queue is its head and its tail.
LEMMA HeadFirst ==
    ASSUME NEW s \in Seq(AnyFrame), s # <<>>, NEW o \in Seq(AnyFrame), NEW a \in AnyFrame
    PROVE  (<<a>> \o s) \o o = <<a>> \o ((<<Head(s)>> \o Tail(s)) \o o)
<1>1. Head(s) \in AnyFrame /\ Tail(s) \in Seq(AnyFrame)
  BY HeadTailProperties
<1>2. Append(<<>>, Head(s)) = <<Head(s)>> /\ <<>> \in Seq(AnyFrame) /\ <<>> \o s = s
  BY <1>1, ConcatEmptySeq
<1>3. <<Head(s)>> \o Tail(s) = s
  BY <1>2, HandOver
<1> QED  BY <1>3, ConcatAssociative

\* Two chains that fit make one chain.
LEMMA ChainConcat ==
    ASSUME NEW r, NEW s \in Seq(AnyFrame), NEW t \in Seq(AnyFrame), s # <<>>, t # <<>>,
           Chained(r, s), Chained(r, t),
           IsFinal(s[Len(s)]) \/ Follows(r, s[Len(s)], t[1])
    PROVE  /\ Chained(r, s \o t)
           /\ (s \o t)[Len(s \o t)] = t[Len(t)]
<1>1. /\ Len(s) \in Nat \ {0} /\ Len(t) \in Nat \ {0}
      /\ s \o t \in Seq(AnyFrame) /\ Len(s \o t) = Len(s) + Len(t)
      /\ \A i \in 1 .. Len(s) + Len(t) :
            (s \o t)[i] = IF i <= Len(s) THEN s[i] ELSE t[i - Len(s)]
  BY ConcatProperties, EmptySeq
<1> DEFINE u == s \o t
<1> HIDE DEF u
<1>2. /\ Len(u) = Len(s) + Len(t)
      /\ \A i \in 1 .. Len(s) + Len(t) : u[i] = IF i <= Len(s) THEN s[i] ELSE t[i - Len(s)]
  BY <1>1 DEF u
<1>3. ASSUME NEW i \in 1 .. Len(u) - 1
      PROVE  IsFinal(u[i]) \/ Follows(r, u[i], u[i + 1])
  <2>1. CASE i < Len(s)
    BY <1>1, <1>2, <2>1 DEF Chained
  <2>2. CASE i = Len(s)
    BY <1>1, <1>2, <2>2
  <2>3. CASE i > Len(s)
    <3>1. i - Len(s) \in 1 .. Len(t) - 1 /\ u[i] = t[i - Len(s)]
          /\ u[i + 1] = t[(i - Len(s)) + 1]
      BY <1>1, <1>2, <2>3
    <3> QED  BY <3>1 DEF Chained
  <2> QED  BY <1>1, <2>1, <2>2, <2>3
<1>4. u[Len(u)] = t[Len(t)]
  BY <1>1, <1>2
<1> QED  BY <1>3, <1>4 DEF Chained, u

\* The front and the tail of a chain are chains.
LEMMA ChainFront ==
    ASSUME NEW r, NEW s \in Seq(AnyFrame), NEW t \in Seq(AnyFrame), Chained(r, s \o t)
    PROVE  Chained(r, s)
<1>1. /\ Len(s) \in Nat /\ Len(t) \in Nat /\ Len(s \o t) = Len(s) + Len(t)
      /\ \A i \in 1 .. Len(s) : (s \o t)[i] = s[i]
  BY ConcatProperties, LenProperties
<1> SUFFICES ASSUME NEW i \in 1 .. Len(s) - 1
             PROVE  IsFinal(s[i]) \/ Follows(r, s[i], s[i + 1])
  BY DEF Chained
<1>2. i \in 1 .. Len(s \o t) - 1 /\ (s \o t)[i] = s[i] /\ (s \o t)[i + 1] = s[i + 1]
  BY <1>1
<1> QED  BY <1>2 DEF Chained

LEMMA ChainBack ==
    ASSUME NEW r, NEW a \in AnyFrame, NEW t \in Seq(AnyFrame), t # <<>>,
           Chained(r, <<a>> \o t)
    PROVE  /\ Chained(r, t)
           /\ IsFinal(a) \/ Follows(r, a, t[1])
           /\ (<<a>> \o t)[Len(<<a>> \o t)] = t[Len(t)]
<1>1. Len(<<a>>) = 1 /\ <<a>>[1] = a /\ <<a>> \in Seq(AnyFrame) /\ Len(t) \in Nat \ {0}
  BY EmptySeq
<1>2. /\ Len(<<a>> \o t) = 1 + Len(t)
      /\ \A i \in 1 .. 1 + Len(t) : (<<a>> \o t)[i] = IF i <= 1 THEN <<a>>[i] ELSE t[i - 1]
  BY <1>1, ConcatProperties
<1> DEFINE u == <<a>> \o t
<1> HIDE DEF u
<1>3. Len(u) = 1 + Len(t) /\ u[1] = a /\ \A i \in 1 .. Len(t) : u[i + 1] = t[i]
  BY <1>1, <1>2 DEF u
<1>4. ASSUME NEW i \in 1 .. Len(t) - 1
      PROVE  IsFinal(t[i]) \/ Follows(r, t[i], t[i + 1])
  <2>1. i + 1 \in 1 .. Len(u) - 1 /\ u[i + 1] = t[i] /\ u[(i + 1) + 1] = t[i + 1]
    BY <1>1, <1>3
  <2> QED  BY <2>1 DEF Chained, u
<1>5. IsFinal(a) \/ Follows(r, a, t[1])
  <2>1. 1 \in 1 .. Len(u) - 1 /\ u[1 + 1] = t[1]
    BY <1>1, <1>3
  <2> QED  BY <1>3, <2>1 DEF Chained, u
<1> QED  BY <1>1, <1>3, <1>4, <1>5 DEF Chained, u

\* An error may end any chain.
LEMMA ChainError ==
    ASSUME NEW r, NEW s \in Seq(AnyFrame), s # <<>>, Chained(r, s)
    PROVE  Chained(r, s \o <<Error>>)
<1>1. <<Error>> \in Seq(AnyFrame) /\ <<Error>> # <<>> /\ Chained(r, <<Error>>)
      /\ <<Error>>[1] = Error
  BY FrameTypes DEF Chained
<1>2. IsFinal(s[Len(s)]) \/ Follows(r, s[Len(s)], Error)
  BY DEF Follows
<1> QED  BY <1>1, <1>2, ChainConcat

(***************************************************************************)
(* The stream.                                                             *)
(***************************************************************************)
\* The stream is a sequence of frames that starts with the one received last.
LEMMA StreamFacts ==
    ASSUME BridgeTypeOK
    PROVE  /\ InFlight \in Seq(AnyFrame) /\ chan \in Seq(AnyFrame) /\ last \in AnyFrame
           /\ pipe \in Seq(AnyFrame) /\ out \in Seq(AnyFrame)
           /\ <<last>> \o chan \in Seq(AnyFrame) /\ <<last>> \o chan # <<>>
           /\ Stream \in Seq(AnyFrame) /\ Stream # <<>>
           /\ Len(Stream) = 1 + Len(chan) + Len(InFlight)
           /\ Stream[1] = last
           /\ Stream = <<last>> \o (chan \o InFlight)
<1>1. /\ chan \in Seq(AnyFrame) /\ last \in AnyFrame /\ pipe \in Seq(AnyFrame)
      /\ out \in Seq(AnyFrame) /\ <<last>> \in Seq(AnyFrame)
      /\ Len(<<last>>) = 1 /\ <<last>>[1] = last /\ Len(chan) \in Nat
  BY LenProperties DEF BridgeTypeOK
<1>2. InFlight \in Seq(AnyFrame) /\ Len(InFlight) \in Nat
  <2>1. InFlight \in Seq(AnyFrame)
    BY <1>1, ConcatProperties, EmptySeq DEF InFlight
  <2> QED  BY <2>1, LenProperties
<1> DEFINE a == <<last>> \o chan
<1>3. a \in Seq(AnyFrame) /\ Len(a) = 1 + Len(chan) /\ a[1] = last
  BY <1>1, ConcatProperties
<1> HIDE DEF a
<1>4. /\ a \o InFlight \in Seq(AnyFrame) /\ Len(a \o InFlight) = Len(a) + Len(InFlight)
      /\ (a \o InFlight)[1] = a[1]
  <2>1. /\ a \o InFlight \in Seq(AnyFrame) /\ Len(a \o InFlight) = Len(a) + Len(InFlight)
        /\ \A i \in 1 .. Len(a) + Len(InFlight) :
              (a \o InFlight)[i] = IF i <= Len(a) THEN a[i] ELSE InFlight[i - Len(a)]
    BY <1>2, <1>3, ConcatProperties
  <2>2. 1 \in 1 .. Len(a) + Len(InFlight) /\ 1 <= Len(a)
    BY <1>1, <1>2, <1>3
  <2> QED  BY <2>1, <2>2
<1>5. Stream = a \o InFlight
  BY DEF Stream, a
<1>6. a # <<>> /\ Stream # <<>>
  BY <1>1, <1>2, <1>3, <1>4, <1>5
<1>7. Stream = <<last>> \o (chan \o InFlight)
  BY <1>1, <1>2, Assoc DEF Stream
<1> QED  BY <1>1, <1>2, <1>3, <1>4, <1>5, <1>6, <1>7 DEF a

\* Frames that the bridge or the fixture task decides on extend the stream.
LEMMA Emits ==
    ASSUME BridgeTypeOK, Chained(req, Stream),
           out = <<>>, out' \in Seq(AnyFrame), out' # <<>>, Chained(req, out'),
           IsFinal(Tip) \/ Follows(req, Tip, out'[1]),
           host \in {"reading", "files"}, host' \in {host, "closing"},
           host = "reading" => host' = "reading",
           UNCHANGED <<req, last, pipe, chan>>
    PROVE  /\ Chained(req', Stream')
           /\ Tip' = out'[Len(out')]
<1>1. /\ Stream \in Seq(AnyFrame) /\ Stream # <<>> /\ pipe \in Seq(AnyFrame)
      /\ <<last>> \o chan \in Seq(AnyFrame)
  BY StreamFacts
<1>2. Stream' = Stream \o out'
  <2>1. CASE host = "reading"
    <3>1. InFlight = pipe /\ InFlight' = pipe \o out'
      BY <1>1, <2>1, ConcatEmptySeq DEF InFlight
    <3>2. Stream' = (<<last>> \o chan) \o (pipe \o out')
      BY <3>1 DEF Stream
    <3>3. ((<<last>> \o chan) \o pipe) \o out' = (<<last>> \o chan) \o (pipe \o out')
      BY <1>1, Assoc, SMTT(30)
    <3> QED  BY <3>1, <3>2, <3>3 DEF Stream
  <2>2. CASE host = "files"
    <3>1. InFlight = <<>> /\ InFlight' = out'
      BY <2>2 DEF InFlight
    <3>2. Stream = <<last>> \o chan
      BY <1>1, <3>1, ConcatEmptySeq DEF Stream
    <3> QED  BY <3>1, <3>2 DEF Stream
  <2> QED  BY <2>1, <2>2
<1>3. /\ Chained(req, Stream \o out')
      /\ (Stream \o out')[Len(Stream \o out')] = out'[Len(out')]
  BY <1>1, ChainConcat DEF Tip
<1> QED  BY <1>2, <1>3 DEF Tip

\* Frames put together.
LEMMA Literals ==
    /\ \A a \in AnyFrame : <<>> \o <<a>> = <<a>>
    /\ \A a, b \in AnyFrame : <<a>> \o <<b>> = <<a, b>>
    /\ \A a, b, c \in AnyFrame : <<a, b>> \o <<c>> = <<a, b, c>>
<1>1. ASSUME NEW a \in AnyFrame
      PROVE  <<>> \o <<a>> = <<a>>
  BY ConcatEmptySeq
<1>2. ASSUME NEW a \in AnyFrame, NEW b \in AnyFrame
      PROVE  <<a>> \o <<b>> = <<a, b>>
  <2>1. /\ <<a>> \in Seq(AnyFrame) /\ <<b>> \in Seq(AnyFrame) /\ <<a, b>> \in Seq(AnyFrame)
        /\ Len(<<a>>) = 1 /\ Len(<<b>>) = 1 /\ Len(<<a, b>>) = 2
    BY SeqTypes
  <2>2. /\ <<a>> \o <<b>> \in Seq(AnyFrame) /\ Len(<<a>> \o <<b>>) = 2
        /\ \A i \in 1 .. 2 : (<<a>> \o <<b>>)[i] = IF i <= 1 THEN <<a>>[i] ELSE <<b>>[i - 1]
    BY <2>1, ConcatProperties
  <2>3. (<<a>> \o <<b>>)[1] = a /\ (<<a>> \o <<b>>)[2] = b
    BY <2>2
  <2>4. \A i \in 1 .. 2 : (<<a>> \o <<b>>)[i] = <<a, b>>[i]
    BY <2>3
  <2> QED  BY <2>1, <2>2, <2>4, SeqEqual
<1>3. ASSUME NEW a \in AnyFrame, NEW b \in AnyFrame, NEW c \in AnyFrame
      PROVE  <<a, b>> \o <<c>> = <<a, b, c>>
  <2>1. /\ <<a, b>> \in Seq(AnyFrame) /\ <<c>> \in Seq(AnyFrame) /\ <<a, b, c>> \in Seq(AnyFrame)
        /\ Len(<<a, b>>) = 2 /\ Len(<<c>>) = 1 /\ Len(<<a, b, c>>) = 3
    BY SeqTypes
  <2>2. /\ <<a, b>> \o <<c>> \in Seq(AnyFrame) /\ Len(<<a, b>> \o <<c>>) = 3
        /\ \A i \in 1 .. 3 : (<<a, b>> \o <<c>>)[i] = IF i <= 2 THEN <<a, b>>[i] ELSE <<c>>[i - 2]
    BY <2>1, ConcatProperties
  <2>3. (<<a, b>> \o <<c>>)[1] = a /\ (<<a, b>> \o <<c>>)[2] = b /\ (<<a, b>> \o <<c>>)[3] = c
    BY <2>2
  <2>4. \A i \in 1 .. 3 : (<<a, b>> \o <<c>>)[i] = <<a, b, c>>[i]
    BY <2>3
  <2> QED  BY <2>1, <2>2, <2>4, SeqEqual
<1> QED  BY <1>1, <1>2, <1>3

\* Chains of up to three frames.
LEMMA ShortChains ==
    ASSUME NEW r
    PROVE  /\ \A a \in AnyFrame : /\ Chained(r, <<a>>) /\ <<a>> # <<>>
                                  /\ <<a>>[1] = a /\ <<a>>[Len(<<a>>)] = a
           /\ \A a, b \in AnyFrame :
                 /\ Follows(r, a, b) => Chained(r, <<a, b>>)
                 /\ <<a, b>> # <<>> /\ <<a, b>>[1] = a /\ <<a, b>>[Len(<<a, b>>)] = b
           /\ \A a, b, c \in AnyFrame :
                 /\ Follows(r, a, b) /\ Follows(r, b, c) => Chained(r, <<a, b, c>>)
                 /\ <<a, b, c>> # <<>> /\ <<a, b, c>>[1] = a
                 /\ <<a, b, c>>[Len(<<a, b, c>>)] = c
<1>1. ASSUME NEW a \in AnyFrame
      PROVE  Chained(r, <<a>>)
  BY DEF Chained
<1>2. ASSUME NEW a \in AnyFrame, NEW b \in AnyFrame, Follows(r, a, b)
      PROVE  Chained(r, <<a, b>>)
  <2> SUFFICES ASSUME NEW i \in 1 .. Len(<<a, b>>) - 1
               PROVE  Follows(r, <<a, b>>[i], <<a, b>>[i + 1])
    BY DEF Chained
  <2>1. i = 1
    OBVIOUS
  <2> QED  BY <1>2, <2>1
<1>3. ASSUME NEW a \in AnyFrame, NEW b \in AnyFrame, NEW c \in AnyFrame,
             Follows(r, a, b), Follows(r, b, c)
      PROVE  Chained(r, <<a, b, c>>)
  <2> SUFFICES ASSUME NEW i \in 1 .. Len(<<a, b, c>>) - 1
               PROVE  Follows(r, <<a, b, c>>[i], <<a, b, c>>[i + 1])
    BY DEF Chained
  <2>1. i = 1 \/ i = 2
    OBVIOUS
  <2> QED  BY <1>3, <2>1
<1> QED  BY <1>1, <1>2, <1>3

StreamType == TypeInv /\ StreamInv

\* Where the stream does not depend on the bridge, its steps do not matter.
LEMMA BridgeElsewhere ==
    ASSUME StreamType, UNCHANGED <<req, last, host, chan, cons>>, at # "none",
           ~(host = "reading" /\ cons = "receiving")
    PROVE  StreamInv'
<1>1. CASE cons # "receiving"
  BY <1>1 DEF StreamInv
<1>2. CASE cons = "receiving"
  <2>1. host \in {"waiting", "gone"}
    BY <1>2 DEF StreamType, TypeInv, BridgeTypeOK, PlaceInv
  <2>2. Stream' = Stream
    BY <2>1 DEF Stream, InFlight
  <2> QED  BY <1>2, <2>1, <2>2 DEF StreamType, StreamInv, TipAgrees
<1> QED  BY <1>1, <1>2

\* Where the bridge's place and the stream stay, so does what they tell.
LEMMA SameStream ==
    ASSUME StreamType, Stream' = Stream,
           UNCHANGED <<req, last, at, cur, host, cons>>,
           jv'.file = jv.file /\ jv'.rec = jv.rec,
           host \in {"waiting", "gone"} => chan' = chan
    PROVE  StreamInv'
<1>1. Tip' = Tip
  BY DEF Tip
<1> QED  BY <1>1 DEF StreamType, StreamInv, TipAgrees, BridgeAgrees, FixtureAgrees

\* The bridge at work: every frame it decides on follows the ones before, and
\* tells where it goes on.
LEMMA OpenStream ==
    ASSUME StreamType, TypeInv', host = "reading", cons = "receiving",
           JvOpen \/ WaitDownload \/ JvFails \/ PollDownload
    PROVE  StreamInv'
<1> DEFINE same == UNCHANGED <<req, last, pipe, host, chan, cons>>
<1>1. /\ BridgeTypeOK /\ ~IsFinal(last) /\ Chained(req, Stream) /\ BridgeAgrees /\ out' \in Seq(AnyFrame)
      /\ req \in Requests /\ req.files \in 0 .. MaxFiles
      /\ req.target \in {Null} \union 1 .. MaxFiles + 1 /\ MaxFiles \in Nat
      /\ (at \in {"open", "wait"} => jv.file = 0 /\ cur = 0)
  BY RequestTypes, BridgeConstants DEF StreamType, PlaceInv, StreamInv, TypeInv, TipAgrees, BridgeTypeOK
<1>2. ASSUME same, out = <<>>, out' # <<>>, Chained(req, out'),
             IsFinal(Tip) \/ Follows(req, Tip, out'[1])
      PROVE  same /\ Chained(req', Stream') /\ Tip' = out'[Len(out')]
  BY <1>1, <1>2, Emits
<1>3. ASSUME same, Chained(req', Stream'), BridgeAgrees'
      PROVE  StreamInv'
  BY <1>1, <1>3 DEF StreamInv, TipAgrees
<1>4. Follows(req, Tip, Error) \/ IsFinal(Tip)
  BY DEF Follows
<1> USE FrameTypes, ShortChains
<1>5. CASE JvOpen
  <2>1. at = "open" /\ out = <<>> /\ same
    BY <1>5 DEF JvOpen, Running, OthersThanBridge
  <2>2. Tip = Nothing
    BY <1>1, <2>1 DEF BridgeAgrees, Tip
  <2>3. CASE req.files = 0 /\ Emit(<<Done>>, "exit0")
    <3>1. Follows(req, Tip, Done)
      BY <2>2, <2>3 DEF Follows
    <3>2. Chained(req', Stream') /\ Tip' = Done /\ at' = "exit0"
      BY <1>2, <2>1, <2>3, <3>1 DEF Emit
    <3> QED  BY <1>3, <2>1, <3>2 DEF BridgeAgrees, IsFinal, Done, Frame
  <2>4. CASE \E x \in {"exit0", "exit1"} : Emit(<<Error>>, x)
    <3>1. Chained(req', Stream') /\ Tip' = Error /\ at' \in {"exit0", "exit1"}
      BY <1>2, <1>4, <2>1, <2>4 DEF Emit
    <3> QED  BY <1>3, <2>1, <3>1 DEF BridgeAgrees, IsFinal, Error, Frame
  <2>5. CASE Emit(<<Open>>, IF req.counted > 0 THEN "wait" ELSE AfterOpen)
    <3>1. Follows(req, Tip, Open)
      BY <2>2 DEF Follows, IsFinal, Nothing, Frame
    <3>2. Chained(req', Stream') /\ Tip' = Open
      BY <1>2, <2>1, <2>5, <3>1 DEF Emit
    <3>3. UNCHANGED <<req, cur, jv>> /\ at' \in {"wait", AfterOpen}
      BY <1>5, <2>5 DEF JvOpen, OthersThanBridge, Emit
    <3>4. BridgeAgrees'
      BY <1>1, <2>1, <3>2, <3>3 DEF BridgeAgrees, AfterOpen, BeforeFiles, IsFinal, Null
    <3> QED  BY <1>3, <2>1, <3>2, <3>4
  <2> QED  BY <1>5, <2>3, <2>4, <2>5 DEF JvOpen
<1>6. CASE WaitDownload
  <2>1. at = "wait" /\ out = <<>> /\ same /\ UNCHANGED <<cur, jv>>
    BY <1>6 DEF WaitDownload, Running, OthersThanBridge
  <2>2. Tip \in BeforeFiles
    BY <1>1, <2>1 DEF BridgeAgrees
  <2>3. Follows(req, Tip, Progress) /\ Follows(req, Progress, Error)
    BY <2>2 DEF Follows, BeforeFiles, IsFinal, Progress, Frame
  <2>4. CASE out' = <<Progress>> /\ at' \in {"wait", AfterOpen}
    <3>1. Chained(req', Stream') /\ Tip' = Progress
      BY <1>2, <2>1, <2>3, <2>4
    <3>2. BridgeAgrees'
      BY <1>1, <2>1, <2>4, <3>1 DEF BridgeAgrees, AfterOpen, BeforeFiles, Null
    <3> QED  BY <1>3, <2>1, <3>1, <3>2
  <2>5. CASE out' = <<Progress, Error>> /\ at' = "exit0"
    <3>1. Chained(req', Stream') /\ Tip' = Error
      BY <1>2, <2>1, <2>3, <2>5
    <3>2. BridgeAgrees'
      BY <2>5, <3>1 DEF BridgeAgrees, IsFinal, Error, Frame
    <3> QED  BY <1>3, <2>1, <3>1, <3>2
  <2> QED  BY <1>6, <2>4, <2>5 DEF WaitDownload, Emit
<1>7. ASSUME same, out = <<>>, out' = <<Error>>, at' \in {"exit0", "exit1"}
      PROVE  StreamInv'
  <2>1. Chained(req', Stream') /\ Tip' = Error
    BY <1>2, <1>4, <1>7
  <2>2. BridgeAgrees'
    BY <1>7, <2>1 DEF BridgeAgrees, IsFinal, Error, Frame
  <2> QED  BY <1>3, <1>7, <2>1, <2>2
<1>8. CASE JvFails
  BY <1>7, <1>8 DEF JvFails, Emit, Running, OthersThanBridge
<1>9. CASE PollDownload
  <2>1. CASE Emit(<<Error>>, "exit0")
    BY <1>7, <1>9, <2>1 DEF PollDownload, Emit, Running, OthersThanBridge
  <2>2. CASE UNCHANGED <<at, out>>
    <3>1. Stream' = Stream /\ UNCHANGED <<req, last, at, cur, host, cons, jv, chan>>
      BY <1>9, <2>2 DEF PollDownload, OthersThanBridge, Stream, InFlight
    <3> QED  BY <3>1, SameStream
  <2> QED  BY <1>9, <2>1, <2>2 DEF PollDownload
<1> QED  BY <1>5, <1>6, <1>8, <1>9

\* Reading on, in JVSkip's loop and after it.
LEMMA ReadStream ==
    ASSUME StreamType, TypeInv', host = "reading", cons = "receiving",
           SkipRecord \/ SkipEdge \/ SkipEnd \/ ReadRecord \/ ReadEdge \/ ReadEnd
    PROVE  StreamInv'
<1> DEFINE same == UNCHANGED <<req, last, pipe, host, chan, cons>>
<1>1. /\ BridgeTypeOK /\ ~IsFinal(last) /\ Chained(req, Stream) /\ BridgeAgrees /\ out' \in Seq(AnyFrame)
      /\ req \in Requests /\ req.files \in 0 .. MaxFiles
      /\ req.target \in {Null} \union 1 .. MaxFiles + 1
      /\ jv.file \in 0 .. MaxFiles /\ jv.rec \in 0 .. RecCount /\ MaxFiles \in Nat
      /\ RecCount \in Nat \ {0} /\ jv.file <= req.files /\ (jv.file = 0 => jv.rec = RecCount)
      /\ cur \in Nat
  <2>1. BridgeTypeOK /\ PlaceInv /\ out' \in Seq(AnyFrame)
    BY DEF StreamType, TypeInv, BridgeTypeOK
  <2>2. ~IsFinal(last) /\ Chained(req, Stream) /\ BridgeAgrees
    BY DEF StreamType, StreamInv, TipAgrees
  <2>3. req \in Requests /\ jv \in JvType /\ cur \in Nat
    BY <2>1 DEF BridgeTypeOK
  <2>4. /\ jv.file \in 0 .. MaxFiles /\ jv.rec \in 0 .. RecCount /\ req.files \in 0 .. MaxFiles
        /\ req.target \in {Null} \union 1 .. MaxFiles + 1
    BY <2>3, JvTypes, RequestTypes
  <2> QED  BY <2>1, <2>2, <2>3, <2>4, BridgeConstants DEF PlaceInv
<1>2. ASSUME same, out = <<>>, out' # <<>>, Chained(req, out'),
             IsFinal(Tip) \/ Follows(req, Tip, out'[1])
      PROVE  same /\ Chained(req', Stream') /\ Tip' = out'[Len(out')]
  BY <1>1, <1>2, Emits
<1>3. ASSUME same, Chained(req', Stream'), BridgeAgrees'
      PROVE  StreamInv'
  BY <1>1, <1>3 DEF StreamInv, TipAgrees
<1>4. ASSUME same, UNCHANGED out
      PROVE  Stream' = Stream /\ Tip' = Tip
  BY <1>4 DEF Stream, InFlight, Tip
<1>5. ASSUME ReturnsRecord
      PROVE  /\ NextFile \in 1 .. req.files /\ NextRec \in 1 .. RecCount
             /\ NextFile \in Nat /\ NextRec \in Nat
             /\ jv.rec < RecCount => NextFile = jv.file /\ NextRec = jv.rec + 1
             /\ jv.rec = RecCount => NextFile = jv.file + 1 /\ NextRec = 1
  <2>1. /\ NextFile \in 1 .. MaxFiles /\ NextFile <= req.files /\ NextRec \in 1 .. RecCount
    BY <1>1, <1>5, NextPosition DEF ReturnsRecord, StreamType, TypeInv
  <2>2. /\ jv.rec < RecCount => NextFile = jv.file /\ NextRec = jv.rec + 1
        /\ jv.rec = RecCount => NextFile = jv.file + 1 /\ NextRec = 1
    BY <1>1 DEF NextFile, NextRec
  <2> QED  BY <1>1, <2>1, <2>2
<1>6. ASSUME ReturnsRecord, ReadOn
      PROVE  jv'.file = NextFile /\ jv'.rec = NextRec
  BY <1>1, <1>6 DEF ReadOn, BridgeTypeOK, JvType
<1>7. CASE SkipRecord
  <2>1. at = "skip" /\ out = <<>> /\ same /\ ReturnsRecord
    BY <1>7 DEF SkipRecord, Running, OthersThanBridge
  <2>2. Tip \in BeforeFiles /\ req.target # Null /\ jv.file < req.target
    BY <1>1, <2>1 DEF BridgeAgrees
  <2>3. CASE NextFile = req.target
    <3>1. NextFile = First(req) /\ NextRec = 1 /\ First(req) \in 1 .. req.files
      BY <1>1, <1>5, <2>1, <2>2, <2>3 DEF First
    <3>2. Follows(req, Tip, Begin(NextFile)) /\ Follows(req, Begin(NextFile), Rec(NextFile, NextRec))
      BY <2>2, <3>1 DEF Follows, Begin, Rec, Frame
    <3>3. /\ out' = <<Begin(NextFile), Rec(NextFile, NextRec)>> /\ at' = "read"
          /\ cur' = NextFile /\ jv'.file = NextFile /\ jv'.rec = NextRec
      BY <1>6, <1>7, <2>1, <2>3 DEF SkipRecord, Emit
    <3>4. Chained(req', Stream') /\ Tip' = Rec(NextFile, NextRec)
      BY <1>2, <1>5, <2>1, <3>2, <3>3, FrameTypes, ShortChains
    <3>5. BridgeAgrees'
      BY <1>5, <2>1, <3>3, <3>4 DEF BridgeAgrees
    <3> QED  BY <1>3, <2>1, <3>4, <3>5
  <2>4. CASE NextFile # req.target
    <3>1. at' = "skip" /\ out' = <<>> /\ jv'.file = NextFile
      <4>1. CASE ReadOn
        BY <1>6, <1>7, <2>1, <2>4, <4>1 DEF SkipRecord, Emit
      <4>2. CASE jv' = [jv EXCEPT !.file = NextFile, !.rec = RecCount, !.edge = FALSE]
        BY <1>1, <1>7, <2>4, <4>2 DEF SkipRecord, Emit, BridgeTypeOK, JvType
      <4> QED  BY <1>7, <2>4, <4>1, <4>2 DEF SkipRecord
    <3>2. NextFile < req.target
      BY <1>1, <1>5, <2>1, <2>2, <2>4
    <3>3. Stream' = Stream /\ Tip' = Tip
      BY <1>4, <2>1, <3>1
    <3>4. BridgeAgrees'
      BY <2>1, <2>2, <3>1, <3>2, <3>3 DEF BridgeAgrees
    <3> QED  BY <1>1, <1>3, <2>1, <3>3, <3>4
  <2> QED  BY <2>3, <2>4
<1>8. CASE SkipEdge
  <2>1. jv'.file = jv.file /\ jv'.rec = jv.rec
    BY <1>1, <1>8, JvTypes DEF SkipEdge, BridgeTypeOK
  <2> QED  BY <1>4, <1>8, <2>1, SameStream DEF SkipEdge, OthersThanBridge
<1>9. CASE SkipEnd
  <2>1. out = <<>> /\ out' = <<Error>> /\ at' = "exit0" /\ same
    BY <1>9 DEF SkipEnd, Running, Emit, OthersThanBridge
  <2>2. IsFinal(Tip) \/ Follows(req, Tip, Error)
    BY DEF Follows
  <2>3. Chained(req', Stream') /\ Tip' = Error
    BY <1>2, <2>1, <2>2, FrameTypes, ShortChains
  <2>4. BridgeAgrees'
    BY <2>1, <2>3 DEF BridgeAgrees, IsFinal, Error, Frame
  <2> QED  BY <1>3, <2>1, <2>3, <2>4
<1>10. CASE ReadRecord
  <2>1. at = "read" /\ out = <<>> /\ same /\ ReturnsRecord /\ at' = "read" /\ cur' = NextFile
        /\ jv'.file = NextFile /\ jv'.rec = NextRec
    BY <1>6, <1>10 DEF ReadRecord, Running, Emit, OthersThanBridge
  <2>2. ASSUME Chained(req', Stream'), Tip' = Rec(NextFile, NextRec)
        PROVE  StreamInv'
    <3>1. BridgeAgrees'
      BY <1>5, <2>1, <2>2 DEF BridgeAgrees
    <3> QED  BY <1>3, <2>1, <2>2, <3>1
  <2>3. /\ Begin(NextFile) \in AnyFrame /\ Rec(NextFile, NextRec) \in AnyFrame
        /\ End(cur) \in AnyFrame
    BY <1>1, <1>5, <2>1, FrameTypes
  <2>4. CASE cur = 0
    <3>1. NextFile # cur /\ NextRec = 1
      BY <1>1, <1>5, <2>1, <2>4 DEF BridgeAgrees
    <3>2. out' = <<Begin(NextFile), Rec(NextFile, NextRec)>>
      BY <1>10, <2>3, <2>4, <3>1, Literals DEF ReadRecord, Emit
    <3>3. Follows(req, Tip, Begin(NextFile))
      <4>1. CASE Tip \in BeforeFiles /\ req.target = Null /\ jv.file = 0
        BY <1>1, <1>5, <2>1, <4>1 DEF Follows, First
      <4>2. CASE Tip = End(jv.file) /\ jv.file >= 1 /\ jv.rec = RecCount
        BY <1>1, <1>5, <2>1, <4>2 DEF Follows, End, Frame
      <4> QED  BY <1>1, <2>1, <2>4, <4>1, <4>2 DEF BridgeAgrees
    <3>4. Follows(req, Begin(NextFile), Rec(NextFile, NextRec))
      BY <3>1 DEF Follows, Begin, Rec, Frame
    <3> QED  BY <1>2, <2>1, <2>2, <2>3, <3>2, <3>3, <3>4, ShortChains
  <2>5. CASE cur # 0
    <3>1. cur = jv.file /\ jv.file >= 1 /\ Tip = Rec(jv.file, jv.rec) /\ jv.rec >= 1
      BY <1>1, <2>1, <2>5 DEF BridgeAgrees
    <3>2. CASE jv.rec < RecCount
      <4>1. out' = <<Rec(NextFile, NextRec)>>
        BY <1>5, <1>10, <2>1, <2>3, <3>1, <3>2, Literals DEF ReadRecord, Emit
      <4>2. Follows(req, Tip, Rec(NextFile, NextRec))
        BY <1>5, <2>1, <3>1, <3>2 DEF Follows, Rec, Frame
      <4> QED  BY <1>2, <2>1, <2>2, <2>3, <4>1, <4>2, ShortChains
    <3>3. CASE jv.rec = RecCount
      <4>1. NextFile # cur /\ NextFile = cur + 1 /\ NextRec = 1
        BY <1>1, <1>5, <2>1, <3>1, <3>3
      <4>2. out' = <<End(cur), Begin(NextFile), Rec(NextFile, NextRec)>>
        BY <1>10, <2>3, <2>5, <4>1, Literals DEF ReadRecord, Emit
      <4>3. Follows(req, Tip, End(cur))
        BY <3>1, <3>3 DEF Follows, Rec, End, Frame
      <4>4. Follows(req, End(cur), Begin(NextFile))
        BY <1>1, <1>5, <2>1, <4>1 DEF Follows, End, Begin, Frame
      <4>5. Follows(req, Begin(NextFile), Rec(NextFile, NextRec))
        BY <4>1 DEF Follows, Begin, Rec, Frame
      <4> QED  BY <1>2, <2>1, <2>2, <2>3, <4>2, <4>3, <4>4, <4>5, ShortChains
    <3> QED  BY <1>1, <3>2, <3>3
  <2> QED  BY <2>4, <2>5
<1>11. CASE ReadEdge
  <2>1. at = "read" /\ out = <<>> /\ same /\ at' = "read" /\ cur' = 0
        /\ jv'.file = jv.file /\ jv'.rec = jv.rec /\ jv.rec = RecCount
    BY <1>1, <1>11, JvTypes
       DEF ReadEdge, ReturnsEdge, Running, Emit, OthersThanBridge, BridgeTypeOK
  <2>2. CASE cur = 0
    <3>1. out' = out
      BY <1>11, <2>1, <2>2 DEF ReadEdge, Emit
    <3> QED  BY <1>4, <2>1, <2>2, <3>1, SameStream
  <2>3. CASE cur # 0
    <3>1. cur = jv.file /\ jv.file >= 1 /\ Tip = Rec(jv.file, jv.rec)
      BY <1>1, <2>1, <2>3 DEF BridgeAgrees
    <3>2. out' = <<End(cur)>> /\ End(cur) \in AnyFrame
      BY <1>1, <1>11, <2>3, FrameTypes DEF ReadEdge, Emit
    <3>3. Follows(req, Tip, End(cur))
      BY <2>1, <3>1 DEF Follows, Rec, End, Frame
    <3>4. Chained(req', Stream') /\ Tip' = End(cur)
      BY <1>2, <2>1, <3>2, <3>3, ShortChains
    <3>5. BridgeAgrees'
      BY <2>1, <3>1, <3>4 DEF BridgeAgrees
    <3> QED  BY <1>3, <2>1, <3>4, <3>5
  <2> QED  BY <2>2, <2>3
<1>12. CASE ReadEnd
  <2>1. at = "read" /\ out = <<>> /\ out' = <<Done>> /\ at' = "exit0" /\ same
        /\ jv.file = req.files /\ jv.rec = RecCount
    BY <1>12 DEF ReadEnd, Running, Emit, OthersThanBridge, AtEnd
  <2>2. Follows(req, Tip, Done)
    <3>1. CASE Tip \in BeforeFiles /\ req.target = Null /\ jv.file = 0
      BY <2>1, <3>1 DEF Follows
    <3>2. CASE Tip = End(jv.file)
      BY <2>1, <3>2 DEF Follows, End, Frame
    <3>3. CASE Tip = Rec(jv.file, jv.rec)
      BY <2>1, <3>3 DEF Follows, Rec, Frame
    <3> QED  BY <1>1, <2>1, <3>1, <3>2, <3>3 DEF BridgeAgrees
  <2>3. Chained(req', Stream') /\ Tip' = Done
    BY <1>2, <2>1, <2>2, FrameTypes, ShortChains
  <2>4. BridgeAgrees'
    BY <2>1, <2>3 DEF BridgeAgrees, IsFinal, Done, Frame
  <2> QED  BY <1>3, <2>1, <2>3, <2>4
<1> QED  BY <1>7, <1>8, <1>9, <1>10, <1>11, <1>12

\* Writing, exiting, dying and downloading.
LEMMA ProcessStream ==
    ASSUME StreamType, TypeInv', WriteFrame \/ Exit \/ Crash \/ Download
    PROVE  StreamInv'
<1>1. BridgeTypeOK /\ PlaceInv
  BY DEF StreamType, TypeInv
<1>2. CASE Download
  <2>1. jv'.file = jv.file /\ jv'.rec = jv.rec
    BY <1>1, <1>2 DEF Download, BridgeTypeOK, JvType
  <2> QED  BY <1>2, <2>1, SameStream DEF Download, Stream, InFlight
<1>3. CASE (WriteFrame \/ Exit \/ Crash) /\ ~(host = "reading" /\ cons = "receiving")
  BY <1>3, BridgeElsewhere DEF WriteFrame, Exit, Crash, Alive, Running
<1>4. ASSUME host = "reading", cons = "receiving"
      PROVE  Stream = (<<last>> \o chan) \o (pipe \o out)
  BY <1>4 DEF Stream, InFlight
<1>5. /\ <<last>> \o chan \in Seq(AnyFrame) /\ pipe \in Seq(AnyFrame) /\ out \in Seq(AnyFrame)
  BY <1>1, StreamFacts
<1>6. CASE WriteFrame /\ host = "reading" /\ cons = "receiving"
  <2>1. /\ out # <<>> /\ pipe' = Append(pipe, Head(out)) /\ out' = Tail(out)
        /\ UNCHANGED <<req, last, at, cur, jv, host, chan, cons>>
    BY <1>6 DEF WriteFrame, ReadEndOpen
  <2>2. pipe' \o out' = pipe \o out
    BY <1>5, <2>1, HandOver
  <2>3. Stream' = Stream
    BY <1>6, <2>1, <2>2 DEF Stream, InFlight
  <2> QED  BY <1>6, <2>1, <2>3, SameStream
<1>7. CASE Exit /\ host = "reading" /\ cons = "receiving"
  <2>1. Stream' = Stream /\ at' = "dead" /\ UNCHANGED <<req, last, host, cons>>
    BY <1>7 DEF Exit, Stream, InFlight
  <2> QED  BY <1>7, <2>1 DEF StreamType, StreamInv, TipAgrees, BridgeAgrees
<1>8. CASE Crash /\ host = "reading" /\ cons = "receiving"
  <2>1. /\ out' = <<>> /\ at' = "dead" /\ UNCHANGED <<req, last, pipe, host, chan, cons>>
    BY <1>8 DEF Crash
  <2>2. Stream' = (<<last>> \o chan) \o pipe
    BY <1>5, <1>8, <2>1, ConcatEmptySeq DEF Stream, InFlight
  <2>3. PICK f \in Seq(AnyFrame) : f = (<<last>> \o chan) \o pipe
    BY <1>5, ConcatProperties
  <2>4. Stream = f \o out
    <3>1. ((<<last>> \o chan) \o pipe) \o out = (<<last>> \o chan) \o (pipe \o out)
      BY <1>5, Assoc, SMTT(30)
    <3> QED  BY <1>4, <1>8, <2>3, <3>1
  <2>5. Chained(req, f)
    BY <1>5, <1>8, <2>4, ChainFront DEF StreamType, StreamInv
  <2>6. Chained(req', Stream')
    BY <2>1, <2>2, <2>3, <2>5
  <2> QED  BY <1>8, <2>1, <2>6 DEF StreamType, StreamInv, TipAgrees, BridgeAgrees
<1> QED  BY <1>2, <1>3, <1>6, <1>7, <1>8

\* An error takes the place of all that would follow in the stream.
LEMMA ErrorComes ==
    ASSUME StreamType, cons = "receiving", chan' = Append(chan, Error),
           host' \in {"waiting", "gone"}, UNCHANGED <<req, last, cons>>
    PROVE  StreamInv'
<1>1. BridgeTypeOK
  BY DEF StreamType, TypeInv
<1>2. /\ <<last>> \o chan \in Seq(AnyFrame) /\ <<last>> \o chan # <<>>
      /\ chan \in Seq(AnyFrame) /\ InFlight \in Seq(AnyFrame) /\ <<last>> \in Seq(AnyFrame)
      /\ <<Error>> \in Seq(AnyFrame) /\ Error \in AnyFrame
  BY <1>1, StreamFacts, FrameTypes
<1>3. Chained(req, <<last>> \o chan)
  BY <1>2, ChainFront DEF StreamType, StreamInv, Stream
<1>4. Chained(req, (<<last>> \o chan) \o <<Error>>)
  BY <1>2, <1>3, ChainError
<1>5. Append(chan, Error) = chan \o <<Error>>
  BY <1>2, AppendIsConcat
<1>6. (<<last>> \o chan) \o <<Error>> = <<last>> \o (chan \o <<Error>>)
  BY <1>2, Assoc, SMTT(30)
<1>7. <<last>> \o Append(chan, Error) \in Seq(AnyFrame)
  BY <1>2, AppendProperties, ConcatProperties
<1>8. Stream' = <<last>> \o Append(chan, Error)
  BY <1>7, ConcatEmptySeq DEF Stream, InFlight
<1>9. Chained(req', Stream')
  BY <1>4, <1>5, <1>6, <1>8
<1>10. \E i \in 1 .. Len(chan') : IsFinal(chan'[i])
  <2>1. /\ Len(Append(chan, Error)) = Len(chan) + 1 /\ Len(chan) \in Nat
        /\ Append(chan, Error)[Len(chan) + 1] = Error
    BY <1>2, AppendProperties, LenProperties
  <2>2. IsFinal(Error)
    BY DEF IsFinal, Error, Frame
  <2> QED  BY <2>1, <2>2
<1> QED  BY <1>9, <1>10 DEF StreamType, StreamInv, TipAgrees

\* So it is when the reading task sends one.
LEMMA SendFinal ==
    ASSUME StreamType, host = "reading", Send(Error), UNCHANGED <<req, last, cons>>
    PROVE  StreamInv'
<1>1. CASE cons # "receiving"
  BY <1>1 DEF StreamInv
<1>2. CASE cons = "receiving"
  <2>1. chan' = Append(chan, Error) /\ host' = "waiting"
    BY <1>2 DEF Send, ReceiverOpen, IsFinal, Error, Frame
  <2> QED  BY <1>2, <2>1, ErrorComes
<1> QED  BY <1>1, <1>2

\* A frame that is passed on.
LEMMA SendFrame ==
    ASSUME StreamType, host = "reading", pipe # <<>>, Send(Head(pipe)), pipe' = Tail(pipe),
           UNCHANGED <<req, last, cur, stall, jv, cons>>
    PROVE  StreamInv'
<1>1. BridgeTypeOK
  BY DEF StreamType, TypeInv
<1>2. CASE cons # "receiving"
  BY <1>2 DEF StreamInv
<1>3. CASE cons = "receiving"
  <2>1. /\ chan' = Append(chan, Head(pipe)) /\ UNCHANGED <<at, out>>
        /\ host' = IF IsFinal(Head(pipe)) THEN "waiting" ELSE "reading"
    BY <1>3 DEF Send, ReceiverOpen
  <2>2. /\ chan \in Seq(AnyFrame) /\ pipe \in Seq(AnyFrame) /\ out \in Seq(AnyFrame)
        /\ <<last>> \in Seq(AnyFrame) /\ Head(pipe) \in AnyFrame /\ Tail(pipe) \in Seq(AnyFrame)
    BY <1>1, StreamFacts, HeadTailProperties
  <2>3. (<<last>> \o Append(chan, Head(pipe))) \o (Tail(pipe) \o out)
           = (<<last>> \o chan) \o (pipe \o out)
    <3>1. PICK a \in Seq(AnyFrame) : a = <<last>>
      BY <2>2
    <3>2. /\ chan \in Seq(AnyFrame) /\ pipe \in Seq(AnyFrame) /\ out \in Seq(AnyFrame)
          /\ pipe # <<>>
      BY <2>2
    <3>3. Joined(a, Append(chan, Head(pipe)), Tail(pipe), out) = Joined(a, chan, pipe, out)
      BY <3>2, HandOverBetween
    <3> QED  BY <3>1, <3>3 DEF Joined
  <2>4. Stream = (<<last>> \o chan) \o (pipe \o out)
    BY DEF Stream, InFlight
  <2>5. CASE ~IsFinal(Head(pipe))
    <3>1. Stream' = Stream /\ host' = host
      BY <2>1, <2>3, <2>4, <2>5 DEF Stream, InFlight
    <3> QED  BY <2>1, <3>1, SameStream
  <2>6. CASE IsFinal(Head(pipe))
    <3>1. PICK f \in Seq(AnyFrame) : f = <<last>> \o Append(chan, Head(pipe))
      BY <2>2, AppendProperties, ConcatProperties
    <3>2. PICK g \in Seq(AnyFrame) : g = Tail(pipe) \o out
      BY <2>2, ConcatProperties
    <3>3. Chained(req, f)
      BY <1>3, <2>3, <2>4, <3>1, <3>2, ChainFront DEF StreamType, StreamInv
    <3>4. Stream' = f
      BY <2>1, <2>6, <3>1, ConcatEmptySeq DEF Stream, InFlight
    <3>5. \E i \in 1 .. Len(chan') : IsFinal(chan'[i])
      <4>1. /\ Len(Append(chan, Head(pipe))) = Len(chan) + 1 /\ Len(chan) \in Nat
            /\ Append(chan, Head(pipe))[Len(chan) + 1] = Head(pipe)
        BY <2>2, AppendProperties, LenProperties
      <4> QED  BY <2>1, <2>6, <4>1
    <3> QED  BY <1>3, <2>1, <2>6, <3>3, <3>4, <3>5 DEF StreamType, StreamInv, TipAgrees
  <2> QED  BY <2>5, <2>6
<1> QED  BY <1>2, <1>3

\* Once the end of the stream is in the channel, only the consumer matters.
LEMMA EndIsQueued ==
    ASSUME StreamType, host \in {"waiting", "gone"}, host' \in {"waiting", "gone"},
           UNCHANGED <<req, last, chan, cons>>
    PROVE  StreamInv'
<1>1. Stream' = Stream
  BY DEF Stream, InFlight
<1> QED  BY <1>1 DEF StreamType, StreamInv, TipAgrees

\* Before the fetch starts the stream is empty.
LEMMA EmptyStream ==
    ASSUME StreamType, host = "start", cons = "receiving"
    PROVE  /\ last = Nothing /\ chan = <<>> /\ pipe = <<>> /\ out = <<>>
           /\ <<last>> \o chan = <<Nothing>>
           /\ \A s \in Seq(AnyFrame) : <<>> \o s = s
<1>1. last = Nothing /\ chan = <<>> /\ pipe = <<>> /\ out = <<>>
  BY DEF StreamType, TypeInv, PlaceInv, StreamInv, TipAgrees
<1>2. <<Nothing>> \in Seq(AnyFrame)
  BY FrameTypes
<1>3. <<Nothing>> \o <<>> = <<Nothing>>
  BY <1>2, ConcatEmptySeq
<1>4. ASSUME NEW s \in Seq(AnyFrame)  PROVE <<>> \o s = s
  BY ConcatEmptySeq
<1> QED  BY <1>1, <1>3, <1>4

\* The reading task.
LEMMA ReaderStream ==
    ASSUME StreamType, TypeInv',
           Spawn \/ SpawnFails \/ Forward \/ Eof \/ ChildExited \/ ExitTimeout
    PROVE  StreamInv'
<1>1. CASE cons # "receiving"
  BY <1>1 DEF StreamInv, Spawn, SpawnFails, Forward, Eof, ChildExited, ExitTimeout
<1>2. CASE Spawn /\ cons = "receiving"
  <2>1. /\ host = "start" /\ host' = "reading" /\ at' = "open"
        /\ UNCHANGED <<req, last, out, pipe, chan, cons>>
    BY <1>2 DEF Spawn
  <2>2. last = Nothing /\ pipe = <<>> /\ out = <<>> /\ <<last>> \o chan = <<Nothing>>
    BY <1>2, <2>1, EmptyStream
  <2>3. <<>> \in Seq(AnyFrame) /\ <<Nothing>> \in Seq(AnyFrame) /\ Nothing \in AnyFrame
    BY FrameTypes, SeqTypes
  <2>4. Stream' = <<Nothing>>
    BY <2>1, <2>2, <2>3, ConcatEmptySeq DEF Stream, InFlight
  <2>5. Chained(req', Stream') /\ ~IsFinal(last')
    BY <2>1, <2>2, <2>3, <2>4, ShortChains DEF IsFinal, Nothing, Frame
  <2>6. BridgeAgrees'
    BY <2>1, <2>4 DEF BridgeAgrees
  <2> QED  BY <2>1, <2>5, <2>6 DEF StreamInv, TipAgrees
<1>3. CASE SpawnFails /\ cons = "receiving"
  BY <1>3, ErrorComes DEF SpawnFails, ReceiverOpen
<1>4. CASE Forward /\ cons = "receiving"
  <2>1. /\ host = "reading" /\ pipe # <<>> /\ pipe' = Tail(pipe)
        /\ UNCHANGED <<req, last, cur, stall, jv, cons>>
        /\ Send(Head(pipe)) \/ Send(Error)
    BY <1>4 DEF Forward
  <2> QED  BY <2>1, SendFrame, SendFinal
<1>5. CASE Eof /\ cons = "receiving"
  BY <1>5, SendFinal DEF Eof
<1>6. CASE ChildExited /\ cons = "receiving"
  <2>1. /\ host = "waiting" /\ host' = "gone" /\ UNCHANGED <<req, last, cons>>
        /\ chan' = Append(chan, Error) \/ chan' = chan
    BY <1>6 DEF ChildExited
  <2> QED  BY <1>6, <2>1, ErrorComes, EndIsQueued
<1>7. CASE ExitTimeout /\ cons = "receiving"
  BY <1>7, EndIsQueued DEF ExitTimeout
<1> QED  BY <1>1, <1>2, <1>3, <1>4, <1>5, <1>6, <1>7

\* The fixture task hands over a frame.
LEMMA FixtureHandsOver ==
    ASSUME StreamType, cons = "receiving", FixtureSend
    PROVE  StreamInv'
<1>1. BridgeTypeOK
  BY DEF StreamType, TypeInv
<1>2. /\ host \in {"files", "closing"} /\ out # <<>> /\ out' = Tail(out)
      /\ chan' = Append(chan, Head(out))
      /\ UNCHANGED <<req, last, at, cur, jv, host, cons>>
  BY DEF FixtureSend, ReceiverOpen
<1>3. /\ chan \in Seq(AnyFrame) /\ out \in Seq(AnyFrame) /\ <<last>> \in Seq(AnyFrame)
      /\ Tail(out) \in Seq(AnyFrame) /\ <<>> \in Seq(AnyFrame)
  BY <1>1, <1>2, StreamFacts, HeadTailProperties, SeqTypes
<1>4. PICK a \in Seq(AnyFrame) : a = <<last>>
  BY <1>3
<1>5. /\ chan \in Seq(AnyFrame) /\ out \in Seq(AnyFrame) /\ out # <<>> /\ <<>> \in Seq(AnyFrame)
  BY <1>2, <1>3
<1>6. Joined(a, Append(chan, Head(out)), Tail(out), <<>>) = Joined(a, chan, out, <<>>)
  BY <1>5, HandOverBetween
<1>7. out \o <<>> = out /\ Tail(out) \o <<>> = Tail(out)
  BY <1>3, ConcatEmptySeq
<1>8. (<<last>> \o Append(chan, Head(out))) \o Tail(out) = (<<last>> \o chan) \o out
  BY <1>4, <1>6, <1>7 DEF Joined
<1>9. Stream' = Stream
  BY <1>2, <1>8 DEF Stream, InFlight
<1> QED  BY <1>2, <1>9, SameStream

\* The fixture task.
LEMMA FixtureStream ==
    ASSUME StreamType, TypeInv', cons = "receiving",
           FixtureOpen \/ FixtureFile \/ FixtureSend \/ FixtureEnd
    PROVE  StreamInv'
<1>1. /\ BridgeTypeOK /\ ~IsFinal(last) /\ Chained(req, Stream) /\ out' \in Seq(AnyFrame)
      /\ req \in Requests /\ req.files \in 0 .. MaxFiles /\ cur \in 0 .. MaxFiles
      /\ req.target \in {Null} \union 1 .. MaxFiles + 1 /\ MaxFiles \in Nat
      /\ req.target <= req.files + 1
  BY RequestTypes, BridgeConstants DEF StreamType, PlaceInv, StreamInv, TypeInv, BridgeTypeOK
<1>2. CASE FixtureOpen
  <2>1. /\ host = "start" /\ UNCHANGED <<req, last, chan, cons>>
        /\ \/ out' = <<Error>> /\ host' = "closing"
           \/ /\ req.target # req.files + 1 /\ out' = <<Open>> /\ host' = "files"
              /\ cur' = First(req) - 1
    BY <1>2 DEF FixtureOpen
  <2>2. last = Nothing /\ <<last>> \o chan = <<Nothing>>
    BY <2>1, EmptyStream
  <2>3. Nothing \in AnyFrame /\ Open \in AnyFrame /\ Error \in AnyFrame
    BY FrameTypes
  <2>4. Follows(req, Nothing, Open) /\ Follows(req, Nothing, Error)
    BY DEF Follows, IsFinal, Nothing, Frame
  <2>5. ASSUME NEW a \in AnyFrame, out' = <<a>>, host' \in {"files", "closing"},
               Follows(req, Nothing, a)
        PROVE  Chained(req', Stream') /\ Tip' = a
    <3>1. Stream' = <<Nothing>> \o <<a>>
      BY <2>1, <2>2, <2>5 DEF Stream, InFlight
    <3>2. Stream' = <<Nothing, a>>
      BY <2>3, <3>1, Literals
    <3> QED  BY <2>1, <2>3, <2>5, <3>2, ShortChains DEF Tip
  <2>6. CASE out' = <<Error>> /\ host' = "closing"
    <3>1. Chained(req', Stream') /\ Tip' = Error
      BY <2>3, <2>4, <2>5, <2>6
    <3> QED  BY <1>1, <2>1, <2>6, <3>1 DEF StreamInv, TipAgrees, IsFinal, Error, Frame
  <2>7. CASE /\ req.target # req.files + 1 /\ out' = <<Open>> /\ host' = "files"
             /\ cur' = First(req) - 1
    <3>1. Chained(req', Stream') /\ Tip' = Open
      BY <2>3, <2>4, <2>5, <2>7
    <3>2. cur' <= req'.files
      BY <1>1, <2>1, <2>7 DEF First
    <3>3. FixtureAgrees'
      BY <2>1, <2>7, <3>1, <3>2 DEF FixtureAgrees, First
    <3> QED  BY <1>1, <2>1, <2>7, <3>1, <3>3 DEF StreamInv, TipAgrees
  <2> QED  BY <2>1, <2>6, <2>7
<1>3. CASE FixtureFile
  <2>1. host = "files" /\ out = <<>> /\ UNCHANGED <<req, last, pipe, chan, cons>>
    BY <1>3 DEF FixtureFile
  <2>2. FixtureAgrees
    BY <2>1 DEF StreamType, StreamInv, TipAgrees
  <2>3. ASSUME host' \in {"files", "closing"}, out' # <<>>, Chained(req, out'),
               Follows(req, Tip, out'[1])
        PROVE  Chained(req', Stream') /\ Tip' = out'[Len(out')]
    BY <1>1, <2>1, <2>3, Emits
  <2>4. CASE cur < req.files /\ out' = FileFrames(cur + 1) /\ cur' = cur + 1 /\ UNCHANGED host
    <3>1. cur + 1 \in Nat /\ RecCount \in Nat
      BY <1>1, BridgeConstants
    <3>2. Follows(req, Tip, Begin(cur + 1))
      <4>1. CASE Tip = Open /\ cur = First(req) - 1
        <5>1. First(req) = cur + 1 /\ First(req) \in 1 .. req.files
          BY <1>1, <2>4, <4>1 DEF First
        <5> QED  BY <4>1, <5>1 DEF Follows, BeforeFiles
      <4>2. CASE Tip = End(cur)
        BY <2>4, <4>2 DEF Follows, End, Frame
      <4> QED  BY <2>2, <4>1, <4>2 DEF FixtureAgrees
    <3>3. /\ out' # <<>> /\ out'[1] = Begin(cur + 1) /\ Len(out') = RecCount + 2
          /\ out'[RecCount + 2] = End(cur + 1) /\ Chained(req, out')
      BY <2>4, <3>1, FileFrameFacts
    <3>4. Chained(req', Stream') /\ Tip' = End(cur')
      BY <2>1, <2>3, <2>4, <3>2, <3>3
    <3>5. FixtureAgrees'
      BY <1>1, <2>1, <2>2, <2>4, <3>4 DEF FixtureAgrees
    <3> QED  BY <1>1, <2>1, <2>4, <3>4, <3>5 DEF StreamInv, TipAgrees
  <2>5. ASSUME NEW a \in {Error, Done}, out' = <<a>>, host' = "closing", Follows(req, Tip, a)
        PROVE  StreamInv'
    <3>1. a \in AnyFrame /\ IsFinal(a)
      BY FrameTypes DEF IsFinal, Error, Done, Frame
    <3>2. Chained(req', Stream') /\ Tip' = a
      BY <2>3, <2>5, <3>1, ShortChains
    <3> QED  BY <1>1, <2>1, <2>5, <3>1, <3>2 DEF StreamInv, TipAgrees
  <2>6. CASE out' = <<Error>> /\ host' = "closing"
    <3>1. Follows(req, Tip, Error)
      BY <2>2 DEF FixtureAgrees, Follows, IsFinal, Open, End, Frame
    <3> QED  BY <2>5, <2>6, <3>1
  <2>7. CASE cur = req.files /\ out' = <<Done>> /\ host' = "closing"
    <3>1. Follows(req, Tip, Done)
      <4>1. CASE Tip = Open /\ cur = First(req) - 1
        <5>1. req.files = 0 /\ req.target = Null
          BY <1>1, <2>2, <2>7, <4>1 DEF First, FixtureAgrees
        <5> QED  BY <4>1, <5>1 DEF Follows, BeforeFiles
      <4>2. CASE Tip = End(cur)
        BY <2>7, <4>2 DEF Follows, End, Frame
      <4> QED  BY <2>2, <4>1, <4>2 DEF FixtureAgrees
    <3> QED  BY <2>5, <2>7, <3>1
  <2> QED  BY <1>3, <2>4, <2>6, <2>7 DEF FixtureFile
<1>4. CASE FixtureSend
  BY <1>4, FixtureHandsOver
<1>5. CASE FixtureEnd
  <2>1. /\ host = "closing" /\ out = <<>> /\ host' = "gone"
        /\ UNCHANGED <<req, last, chan, cons>>
    BY <1>5 DEF FixtureEnd
  <2>2. /\ <<last>> \o chan \in Seq(AnyFrame) /\ chan \in Seq(AnyFrame) /\ last \in AnyFrame
    BY <1>1, StreamFacts
  <2>3. Stream' = Stream /\ Stream = <<last>> \o chan
    BY <2>1, <2>2, ConcatEmptySeq DEF Stream, InFlight
  <2>4. IsFinal(Tip) /\ Tip' = Tip
    BY <2>1, <2>3 DEF StreamType, StreamInv, TipAgrees, Tip
  <2>5. /\ Stream[1] = last /\ Len(Stream) = 1 + Len(chan) /\ Len(chan) \in Nat
        /\ \A i \in 2 .. 1 + Len(chan) : Stream[i] = chan[i - 1]
    <3>1. Len(<<last>>) = 1 /\ <<last>>[1] = last /\ <<last>> \in Seq(AnyFrame)
      BY <2>2
    <3>2. /\ Len(Stream) = 1 + Len(chan) /\ Len(chan) \in Nat
          /\ \A i \in 1 .. 1 + Len(chan) : Stream[i] = IF i <= 1 THEN <<last>>[i] ELSE chan[i - 1]
      BY <2>2, <2>3, <3>1, ConcatProperties, LenProperties
    <3> QED  BY <3>1, <3>2
  <2>6. Len(chan) # 0
    BY <1>1, <2>4, <2>5 DEF Tip
  <2>7. IsFinal(chan[Len(chan)])
    BY <2>4, <2>5, <2>6 DEF Tip
  <2>8. \E i \in 1 .. Len(chan') : IsFinal(chan'[i])
    BY <2>1, <2>5, <2>6, <2>7
  <2> QED  BY <1>1, <2>1, <2>3, <2>8 DEF StreamInv, TipAgrees
<1> QED  BY <1>2, <1>3, <1>4, <1>5

\* What the consumer takes is the next frame of the stream.
LEMMA NextFrame ==
    ASSUME BridgeTypeOK, chan # <<>>, Chained(req, Stream)
    PROVE  LET rest == (<<Head(chan)>> \o Tail(chan)) \o InFlight
           IN  /\ rest \in Seq(AnyFrame) /\ rest # <<>>
               /\ Chained(req, rest)
               /\ IsFinal(last) \/ Follows(req, last, Head(chan))
               /\ Tip = rest[Len(rest)]
               /\ Len(Stream) = 1 + Len(rest)
<1>1. /\ chan \in Seq(AnyFrame) /\ InFlight \in Seq(AnyFrame) /\ last \in AnyFrame
      /\ Len(Stream) = 1 + Len(chan) + Len(InFlight)
  BY StreamFacts
<1>2. /\ Head(chan) \in AnyFrame /\ Head(chan) = chan[1] /\ Tail(chan) \in Seq(AnyFrame)
      /\ <<Head(chan)>> \in Seq(AnyFrame) /\ Len(<<Head(chan)>>) = 1
      /\ <<Head(chan)>>[1] = Head(chan)
      /\ Len(chan) \in Nat \ {0} /\ Len(Tail(chan)) = Len(chan) - 1
      /\ Len(InFlight) \in Nat
  BY <1>1, HeadTailProperties, LenProperties, EmptySeq
<1>3. PICK front \in Seq(AnyFrame) :
         /\ front = <<Head(chan)>> \o Tail(chan)
         /\ Len(front) = Len(chan) /\ front[1] = Head(chan)
  <2>1. /\ <<Head(chan)>> \o Tail(chan) \in Seq(AnyFrame)
        /\ Len(<<Head(chan)>> \o Tail(chan)) = 1 + (Len(chan) - 1)
        /\ \A i \in 1 .. 1 + (Len(chan) - 1) :
              (<<Head(chan)>> \o Tail(chan))[i] =
                 IF i <= 1 THEN <<Head(chan)>>[i] ELSE Tail(chan)[i - 1]
    BY <1>2, ConcatProperties
  <2>2. (<<Head(chan)>> \o Tail(chan))[1] = Head(chan)
    BY <1>2, <2>1
  <2>3. 1 + (Len(chan) - 1) = Len(chan)
    BY <1>2
  <2> QED  BY <2>1, <2>2, <2>3
<1>4. PICK rest \in Seq(AnyFrame) :
         /\ rest = front \o InFlight
         /\ Len(rest) = Len(chan) + Len(InFlight) /\ rest[1] = Head(chan)
  <2>1. /\ front \o InFlight \in Seq(AnyFrame)
        /\ Len(front \o InFlight) = Len(front) + Len(InFlight)
        /\ \A i \in 1 .. Len(front) + Len(InFlight) :
              (front \o InFlight)[i] = IF i <= Len(front) THEN front[i] ELSE InFlight[i - Len(front)]
    BY <1>1, <1>3, ConcatProperties
  <2>2. (front \o InFlight)[1] = front[1]
    BY <1>2, <1>3, <2>1
  <2> QED  BY <1>3, <2>1, <2>2
<1>5. rest # <<>>
  BY <1>2, <1>4, EmptySeq
<1>6. Stream = <<last>> \o rest
  BY <1>1, <1>3, <1>4, HeadFirst DEF Stream
<1>7. /\ Chained(req, rest)
      /\ IsFinal(last) \/ Follows(req, last, rest[1])
      /\ (<<last>> \o rest)[Len(<<last>> \o rest)] = rest[Len(rest)]
  BY <1>1, <1>5, <1>6, ChainBack
<1>8. Tip = rest[Len(rest)] /\ Len(Stream) = 1 + Len(rest)
  BY <1>1, <1>2, <1>4, <1>6, <1>7 DEF Tip
<1>9. rest = (<<Head(chan)>> \o Tail(chan)) \o InFlight
  BY <1>3, <1>4
<1>10. IsFinal(last) \/ Follows(req, last, Head(chan))
  BY <1>4, <1>7
<1>11. Chained(req, rest)
  BY <1>7
<1> QED  BY <1>5, <1>8, <1>9, <1>10, <1>11

\* The consumer, and the death of the importer.
LEMMA ConsumerStream ==
    ASSUME StreamType, Consume \/ Leave \/ HostKilled
    PROVE  StreamInv'
<1>1. CASE Leave \/ HostKilled
  BY <1>1 DEF Leave, HostKilled, ReceiverOpen, StreamInv
<1>2. CASE Consume /\ IsFinal(Head(chan))
  BY <1>2 DEF Consume, StreamInv
<1>3. CASE Consume /\ ~IsFinal(Head(chan))
  <2>1. /\ cons = "receiving" /\ cons' = cons /\ chan # <<>> /\ last' = Head(chan)
        /\ chan' = Tail(chan) /\ UNCHANGED <<req, at, out, cur, jv, pipe, host>>
    BY <1>3 DEF Consume, ReceiverOpen, bridgeVars
  <2>2. BridgeTypeOK /\ ~IsFinal(last) /\ Chained(req, Stream) /\ TipAgrees
    BY <2>1 DEF StreamType, TypeInv, StreamInv
  <2>3. Stream' = (<<Head(chan)>> \o Tail(chan)) \o InFlight
    BY <2>1 DEF Stream, InFlight
  <2>4. /\ Stream' \in Seq(AnyFrame) /\ Stream' # <<>> /\ Chained(req, Stream')
        /\ Tip = Stream'[Len(Stream')] /\ Len(Stream) = 1 + Len(Stream')
    BY <2>1, <2>2, <2>3, NextFrame
  <2>5. Tip' = Tip
    BY <2>4 DEF Tip
  <2>6. Len(Stream) # 1
    BY <2>4, LenProperties, EmptySeq
  <2>7. at = "open" /\ host = "reading" => FALSE
    BY <2>2, <2>6 DEF TipAgrees, BridgeAgrees
  <2>8. host # "start"
    BY <2>1 DEF StreamType, TypeInv, PlaceInv
  <2>9. host \in {"waiting", "gone"} => \E i \in 1 .. Len(chan') : IsFinal(chan'[i])
    <3>1. SUFFICES ASSUME host \in {"waiting", "gone"}
                   PROVE  \E i \in 1 .. Len(chan') : IsFinal(chan'[i])
      OBVIOUS
    <3>2. PICK i \in 1 .. Len(chan) : IsFinal(chan[i])
      BY <2>2, <3>1 DEF TipAgrees
    <3>3. /\ chan \in Seq(AnyFrame) /\ Head(chan) = chan[1] /\ Len(chan) \in Nat
          /\ Len(Tail(chan)) = Len(chan) - 1
          /\ \A k \in 1 .. Len(chan) - 1 : Tail(chan)[k] = chan[k + 1]
      BY <2>1, <2>2, HeadTailProperties, LenProperties DEF BridgeTypeOK
    <3>4. i # 1
      BY <1>3, <3>2, <3>3
    <3>5. i - 1 \in 1 .. Len(chan) - 1 /\ (i - 1) + 1 = i
      BY <3>3, <3>4
    <3>6. IsFinal(Tail(chan)[i - 1])
      BY <3>2, <3>3, <3>5
    <3> QED  BY <2>1, <3>3, <3>5, <3>6
  <2>10. TipAgrees'
    BY <2>1, <2>2, <2>5, <2>7, <2>8, <2>9 DEF TipAgrees, BridgeAgrees, FixtureAgrees
  <2> QED  BY <1>3, <2>1, <2>4, <2>10 DEF StreamInv
<1> QED  BY <1>1, <1>2, <1>3

(***************************************************************************)
(* The theorems.                                                           *)
(***************************************************************************)
LEMMA StreamInit == Init => StreamType
<1> SUFFICES ASSUME Init  PROVE StreamInv
  BY InitTypes DEF StreamType
<1>1. <<>> \in Seq(AnyFrame) /\ <<Nothing>> \in Seq(AnyFrame) /\ Nothing \in AnyFrame
  BY FrameTypes, SeqTypes
<1>2. Stream = <<Nothing>>
  BY <1>1, ConcatEmptySeq DEF Init, Stream, InFlight
<1> QED  BY <1>1, <1>2, ShortChains DEF Init, StreamInv, TipAgrees, IsFinal, Nothing, Frame

LEMMA StreamNext == StreamType /\ [Next]_vars => StreamType'
<1> SUFFICES ASSUME StreamType, [Next]_vars  PROVE StreamInv'
  BY TypeNext DEF StreamType
<1>1. TypeInv'
  BY TypeNext DEF StreamType
<1>2. CASE UNCHANGED vars
  BY <1>2 DEF vars, bridgeVars, StreamType, StreamInv, Stream, InFlight, Tip, TipAgrees,
              BridgeAgrees, FixtureAgrees
<1>3. CASE BridgeStep \/ Download \/ Crash
  <2>1. CASE WriteFrame \/ Exit \/ Crash \/ Download
    BY <1>1, <2>1, ProcessStream
  <2>2. CASE JvOpen \/ WaitDownload \/ JvFails \/ PollDownload
    <3>1. UNCHANGED <<req, last, host, chan, cons>> /\ at # "none"
      BY <2>2 DEF JvOpen, WaitDownload, JvFails, PollDownload, OthersThanBridge, Running
    <3> QED  BY <1>1, <2>2, <3>1, OpenStream, BridgeElsewhere
  <2>3. CASE SkipRecord \/ SkipEdge \/ SkipEnd \/ ReadRecord \/ ReadEdge \/ ReadEnd
    <3>1. UNCHANGED <<req, last, host, chan, cons>> /\ at # "none"
      BY <2>3 DEF SkipRecord, SkipEdge, SkipEnd, ReadRecord, ReadEdge, ReadEnd,
                  OthersThanBridge, Running
    <3> QED  BY <1>1, <2>3, <3>1, ReadStream, BridgeElsewhere
  <2> QED  BY <1>3, <2>1, <2>2, <2>3 DEF BridgeStep
<1>4. CASE HostStep
  <2>1. CASE Spawn \/ SpawnFails \/ Forward \/ Eof \/ ChildExited \/ ExitTimeout
    BY <1>1, <2>1, ReaderStream
  <2>2. CASE FixtureOpen \/ FixtureFile \/ FixtureSend \/ FixtureEnd
    <3>1. cons' = cons
      BY <2>2 DEF FixtureOpen, FixtureFile, FixtureSend, FixtureEnd
    <3> QED  BY <1>1, <2>2, <3>1, FixtureStream DEF StreamInv
  <2> QED  BY <1>4, <2>1, <2>2 DEF HostStep
<1>5. CASE Consume \/ Leave \/ HostKilled
  BY <1>5, ConsumerStream
<1> QED  BY <1>2, <1>3, <1>4, <1>5 DEF Next

\* The invariant the two theorems below rest on: the frames received, queued, piped
\* and decided on form one stream, which tells where the bridge is in the files.
THEOREM BridgeInvariant == Spec => []IInv
<1>1. StreamType => IInv
  BY DEF StreamType, TypeInv, IInv
<1> QED  BY <1>1, StreamInit, StreamNext, PTL DEF Spec

\* A consumer that still waits when the task is gone finds Done or an error in the
\* channel: next() never returns None to it (source.rs:55-64).
THEOREM NeverSilent == Spec => []NeverEndsSilently
<1>1. StreamType => NeverEndsSilently
  BY DEF StreamType, StreamInv, TipAgrees, NeverEndsSilently
<1> QED  BY <1>1, StreamInit, StreamNext, PTL DEF Spec

\* The abstract stream's order of frames is this module's.
LEMMA SameFollows == \A r, a, b : Follows(r, a, b) => FS!Follows(r, a, b)
BY DEF Follows, FS!Follows, First, FS!First, BeforeFiles, FS!BeforeFiles, IsFinal, FS!IsFinal,
       Null, FS!Null, Nothing, FS!Nothing, Open, FS!Open, Progress, FS!Progress, Done, FS!Done,
       Error, FS!Error, Begin, FS!Begin, Rec, FS!Rec, End, FS!End, Frame, FS!Frame

\* The two processes implement the stream source.rs:66-70 promises, whatever fails:
\* the consumer receives the files in order and whole, and Done only after the last.
THEOREM InOrder == Spec => StreamInOrder
<1>1. Init => FS!Init
  BY DEF Init, FS!Init, FS!Nothing, FS!Frame, Nothing, Frame
<1>2. StreamType /\ [Next]_vars => [FS!Receive]_<<req, last>>
  <2> SUFFICES ASSUME StreamType, Next
               PROVE  FS!Receive \/ UNCHANGED <<req, last>>
    BY DEF vars
  <2>1. CASE Consume
    <3>1. /\ cons = "receiving" /\ chan # <<>> /\ last' = Head(chan) /\ req' = req
      BY <2>1 DEF Consume, ReceiverOpen
    <3>2. BridgeTypeOK /\ ~IsFinal(last) /\ Chained(req, Stream)
      BY <3>1 DEF StreamType, TypeInv, StreamInv
    <3>3. Follows(req, last, last')
      BY <3>1, <3>2, NextFrame
    <3>4. FS!Follows(req, last, last')
      BY <3>3, SameFollows
    <3> QED  BY <3>1, <3>4 DEF FS!Receive
  <2>2. CASE BridgeStep
    BY <2>2 DEF BridgeStep, JvOpen, WaitDownload, SkipRecord, SkipEdge, SkipEnd, ReadRecord,
                ReadEdge, ReadEnd, PollDownload, JvFails, WriteFrame, Exit, OthersThanBridge
  <2>3. CASE HostStep
    BY <2>3 DEF HostStep, Spawn, SpawnFails, Forward, Eof, ChildExited, ExitTimeout,
                FixtureOpen, FixtureFile, FixtureSend, FixtureEnd
  <2>4. CASE Download \/ Crash \/ Leave \/ HostKilled
    BY <2>4 DEF Download, Crash, Leave, HostKilled
  <2> QED  BY <2>1, <2>2, <2>3, <2>4 DEF Next
<1> QED  BY <1>1, <1>2, StreamInit, StreamNext, PTL DEF Spec, StreamInOrder, FS!Spec

(***************************************************************************)
(* A fetch approaches its end.                                             *)
(***************************************************************************)
\* JV-Link downloads no more than it has to, and the fixture task stays inside its
\* directory.
WithinRange ==
    /\ jv.got <= req.need
    /\ host = "files" => cur <= req.files

EndInv == TypeInv /\ WithinRange

\* Which steps touch what the distance is made of.
LEMMA JvSteps ==
    ASSUME TypeInv, ReadOn \/ jv' = [jv EXCEPT !.edge = TRUE]
                    \/ jv' = [jv EXCEPT !.file = NextFile, !.rec = RecCount, !.edge = FALSE]
    PROVE  jv'.got = jv.got
  BY DEF TypeInv, BridgeTypeOK, JvType, ReadOn

LEMMA WithinRangeNext ==
    ASSUME EndInv, [Next]_vars
    PROVE  WithinRange'
<1>0. /\ jv.got \in Nat /\ req.need \in Nat /\ req.files \in Nat /\ cur \in Nat
      /\ req.target \in {Null} \union 1 .. req.files + 1
      /\ host = "files" => at = "none"
  <2>1. /\ jv.got \in 0 .. MaxFiles /\ req.need \in 0 .. MaxFiles /\ req.files \in 0 .. MaxFiles
        /\ req.target \in {Null} \union 1 .. MaxFiles + 1 /\ cur \in 0 .. MaxFiles
    BY JvTypes, RequestTypes DEF EndInv, TypeInv, BridgeTypeOK
  <2> QED  BY <2>1, BridgeConstants DEF EndInv, TypeInv, PlaceInv
<1> USE DEF EndInv, WithinRange
<1>1. CASE Download
  <2>1. jv'.got = jv.got + 1 /\ jv.got < req.need /\ UNCHANGED <<req, host, cur>>
    BY <1>1 DEF Download, TypeInv, BridgeTypeOK, JvType
  <2> QED  BY <1>0, <2>1
<1>2. CASE SkipRecord \/ SkipEdge \/ ReadRecord \/ ReadEdge
  <2>1. jv'.got = jv.got
    BY <1>2, JvSteps DEF SkipRecord, SkipEdge, ReadRecord, ReadEdge
  <2>2. UNCHANGED <<req, host>> /\ host # "files"
    BY <1>0, <1>2 DEF SkipRecord, SkipEdge, ReadRecord, ReadEdge, Running, OthersThanBridge
  <2> QED  BY <2>1, <2>2
<1>3. CASE FixtureOpen \/ FixtureFile
  <2>1. UNCHANGED <<req, jv>> /\ (host' = "files" => cur' <= req.files)
    BY <1>0, <1>3 DEF FixtureOpen, FixtureFile, First
  <2> QED  BY <2>1
<1>4. CASE JvOpen \/ WaitDownload \/ SkipEnd \/ ReadEnd \/ PollDownload \/ JvFails
           \/ WriteFrame \/ Exit \/ Crash \/ FixtureSend \/ FixtureEnd
           \/ Consume \/ Leave \/ HostKilled \/ Spawn \/ SpawnFails \/ ChildExited \/ ExitTimeout
  BY <1>4 DEF JvOpen, WaitDownload, SkipEnd, ReadEnd, PollDownload, JvFails, WriteFrame, Exit,
              Crash, FixtureSend, FixtureEnd, Consume, Leave, HostKilled, Spawn, SpawnFails,
              ChildExited, ExitTimeout, OthersThanBridge, bridgeVars
<1>5. CASE Forward \/ Eof
  BY <1>5 DEF Forward, Eof, Send
<1>6. CASE UNCHANGED vars
  BY <1>6 DEF vars, bridgeVars
<1> QED  BY <1>1, <1>2, <1>3, <1>4, <1>5, <1>6 DEF Next, BridgeStep, HostStep

LEMMA DistanceType ==
    ASSUME EndInv
    PROVE  /\ DownloadsLeft \in Nat /\ PlacesLeft \in Nat /\ FilesLeft \in Nat
           /\ RecordsLeft \in Nat /\ PollsLeft \in Nat /\ FramesLeft \in Nat
<1>1. /\ jv.got \in 0 .. MaxFiles /\ jv.file \in 0 .. MaxFiles /\ jv.rec \in 0 .. RecCount
      /\ req.need \in 0 .. MaxFiles /\ req.files \in 0 .. MaxFiles /\ cur \in 0 .. MaxFiles
      /\ stall.quiet \in 0 .. Limit + 1
      /\ jv.file <= req.files /\ jv.got <= req.need /\ (host = "files" => cur <= req.files)
  BY JvTypes, RequestTypes DEF EndInv, TypeInv, BridgeTypeOK, PlaceInv, WithinRange, StallType
<1>2. Len(out) \in Nat /\ Len(pipe) \in Nat /\ Len(chan) \in Nat
  BY LenProperties DEF EndInv, TypeInv, BridgeTypeOK
<1>3. DownloadsLeft \in Nat /\ FilesLeft \in Nat /\ RecordsLeft \in Nat /\ PollsLeft \in Nat
  BY <1>1, BridgeConstants DEF DownloadsLeft, FilesLeft, RecordsLeft, PollsLeft
<1>4. PlacesLeft \in Nat
  BY DEF PlacesLeft, BridgeLeft, HostLeft
<1> QED  BY <1>2, <1>3, <1>4 DEF FramesLeft

LEMMA NearerCases ==
    ASSUME \/ DownloadsLeft' < DownloadsLeft
           \/ /\ DownloadsLeft' = DownloadsLeft
              /\ \/ PlacesLeft' < PlacesLeft
                 \/ /\ PlacesLeft' = PlacesLeft
                    /\ \/ FilesLeft' < FilesLeft
                       \/ /\ FilesLeft' = FilesLeft
                          /\ \/ RecordsLeft' < RecordsLeft
                             \/ /\ RecordsLeft' = RecordsLeft
                                /\ \/ PollsLeft' < PollsLeft
                                   \/ PollsLeft' = PollsLeft /\ FramesLeft' < FramesLeft
    PROVE  Nearer(Distance', Distance)
<1>1. CASE DownloadsLeft' < DownloadsLeft
  BY <1>1 DEF Nearer, Distance
<1>2. CASE DownloadsLeft' = DownloadsLeft /\ PlacesLeft' < PlacesLeft
  BY <1>2 DEF Nearer, Distance
<1>3. CASE /\ DownloadsLeft' = DownloadsLeft /\ PlacesLeft' = PlacesLeft
           /\ FilesLeft' < FilesLeft
  BY <1>3 DEF Nearer, Distance
<1>4. CASE /\ DownloadsLeft' = DownloadsLeft /\ PlacesLeft' = PlacesLeft
           /\ FilesLeft' = FilesLeft /\ RecordsLeft' < RecordsLeft
  BY <1>4 DEF Nearer, Distance
<1>5. CASE /\ DownloadsLeft' = DownloadsLeft /\ PlacesLeft' = PlacesLeft
           /\ FilesLeft' = FilesLeft /\ RecordsLeft' = RecordsLeft /\ PollsLeft' < PollsLeft
  BY <1>5 DEF Nearer, Distance
<1>6. CASE /\ DownloadsLeft' = DownloadsLeft /\ PlacesLeft' = PlacesLeft
           /\ FilesLeft' = FilesLeft /\ RecordsLeft' = RecordsLeft /\ PollsLeft' = PollsLeft
           /\ FramesLeft' < FramesLeft
  BY <1>6 DEF Nearer, Distance
<1> QED  BY <1>1, <1>2, <1>3, <1>4, <1>5, <1>6

\* A party that passes a place is enough, since none goes back.
LEMMA PlacesSum ==
    ASSUME BridgeLeft' <= BridgeLeft, HostLeft' <= HostLeft,
           BridgeLeft' < BridgeLeft \/ HostLeft' < HostLeft,
           cons' = cons \/ cons' # "receiving"
    PROVE  PlacesLeft' < PlacesLeft
<1>1. /\ BridgeLeft \in Nat /\ BridgeLeft' \in Nat
      /\ HostLeft \in Nat /\ HostLeft' \in Nat
  BY DEF BridgeLeft, HostLeft
<1>2. \E c \in {0, 1}, d \in {0, 1} :
         c <= d /\ PlacesLeft' = BridgeLeft' + HostLeft' + c /\ PlacesLeft = BridgeLeft + HostLeft + d
  <2>1. CASE ReceiverOpen
    <3>1. PlacesLeft = BridgeLeft + HostLeft + 1
      BY <2>1 DEF PlacesLeft
    <3>2. \E c \in {0, 1} : PlacesLeft' = BridgeLeft' + HostLeft' + c
      BY DEF PlacesLeft
    <3> QED  BY <3>1, <3>2
  <2>2. CASE ~ReceiverOpen
    <3>1. PlacesLeft = BridgeLeft + HostLeft + 0
      BY <2>2 DEF PlacesLeft
    <3>2. PlacesLeft' = BridgeLeft' + HostLeft' + 0
      BY <2>2 DEF PlacesLeft, ReceiverOpen
    <3> QED  BY <3>1, <3>2
  <2> QED  BY <2>1, <2>2
<1>3. ASSUME NEW b \in Nat, NEW bb \in Nat, NEW h \in Nat, NEW hh \in Nat,
             NEW c \in {0, 1}, NEW d \in {0, 1},
             bb <= b, hh <= h, bb < b \/ hh < h, c <= d
      PROVE  bb + hh + c < b + h + d
  BY <1>3
<1>4. PICK c \in {0, 1}, d \in {0, 1} :
         c <= d /\ PlacesLeft' = BridgeLeft' + HostLeft' + c /\ PlacesLeft = BridgeLeft + HostLeft + d
  BY <1>2
<1>5. BridgeLeft' + HostLeft' + c < BridgeLeft + HostLeft + d
  BY <1>1, <1>3, <1>4
<1> QED  BY <1>4, <1>5

\* A party passes a place: whatever it emits on the way counts less.
LEMMA PlacePassed ==
    ASSUME UNCHANGED <<req, jv>>, PlacesLeft' < PlacesLeft
    PROVE  Nearer(Distance', Distance)
<1>1. DownloadsLeft' = DownloadsLeft
  BY DEF DownloadsLeft
<1> QED  BY <1>1, NearerCases

\* Frames move on, while every party stays where it is.
LEMMA FramesMoved ==
    ASSUME UNCHANGED <<req, jv, stall, at, host, cur>>,
           \/ cons' = cons /\ FramesLeft' < FramesLeft
           \/ cons = "receiving" /\ cons' # "receiving"
    PROVE  Nearer(Distance', Distance)
<1>1. /\ DownloadsLeft' = DownloadsLeft /\ FilesLeft' = FilesLeft
      /\ RecordsLeft' = RecordsLeft /\ PollsLeft' = PollsLeft
      /\ BridgeLeft' = BridgeLeft /\ HostLeft' = HostLeft
      /\ BridgeLeft \in Nat /\ HostLeft \in Nat
  BY DEF DownloadsLeft, FilesLeft, RecordsLeft, PollsLeft, BridgeLeft, HostLeft
<1>2. CASE cons' = cons /\ FramesLeft' < FramesLeft
  <2>1. PlacesLeft' = PlacesLeft
    BY <1>1, <1>2 DEF PlacesLeft, ReceiverOpen
  <2> QED  BY <1>1, <1>2, <2>1, NearerCases
<1>3. CASE cons = "receiving" /\ cons' # "receiving"
  <2>1. PlacesLeft' < PlacesLeft
    BY <1>1, <1>3 DEF PlacesLeft, ReceiverOpen
  <2> QED  BY <2>1, PlacePassed
<1> QED  BY <1>2, <1>3

\* JVGets returned a record or the end of a file.
LEMMA ReadNearer ==
    ASSUME EndInv, SkipRecord \/ SkipEdge \/ ReadRecord \/ ReadEdge
    PROVE  Nearer(Distance', Distance)
<1>1. /\ UNCHANGED <<req, stall, host, cons>> /\ at \in {"skip", "read"}
      /\ at' = at \/ (at = "skip" /\ at' = "read")
  BY DEF SkipRecord, SkipEdge, ReadRecord, ReadEdge, Running, Emit, OthersThanBridge
<1>2. host # "files" /\ HostLeft' = HostLeft /\ HostLeft \in Nat
  BY <1>1 DEF EndInv, TypeInv, PlaceInv, HostLeft
<1>3. PlacesLeft' = PlacesLeft \/ PlacesLeft' < PlacesLeft
  BY <1>1, <1>2 DEF PlacesLeft, BridgeLeft, ReceiverOpen
<1>4. /\ jv.file \in Nat /\ jv.rec \in 0 .. RecCount /\ RecCount \in Nat \ {0}
      /\ req.files \in Nat /\ jv \in JvType
  <2>1. jv \in JvType /\ req \in Requests
    BY DEF EndInv, TypeInv, BridgeTypeOK
  <2>2. jv.file \in 0 .. MaxFiles /\ jv.rec \in 0 .. RecCount /\ req.files \in 0 .. MaxFiles
    BY <2>1, JvTypes, RequestTypes
  <2> QED  BY <2>1, <2>2, BridgeConstants
<1>5. DownloadsLeft' = DownloadsLeft
  <2>1. jv'.got = jv.got
    BY JvSteps DEF EndInv, SkipRecord, SkipEdge, ReadRecord, ReadEdge
  <2> QED  BY <1>1, <2>1 DEF DownloadsLeft
<1>6. CASE ReturnsEdge /\ jv' = [jv EXCEPT !.edge = TRUE]
  <2>1. jv'.file = jv.file /\ jv'.rec = jv.rec /\ jv'.edge /\ ~jv.edge
    BY <1>4, <1>6 DEF ReturnsEdge, JvType
  <2>2. FilesLeft' = FilesLeft /\ RecordsLeft' < RecordsLeft
    BY <1>1, <1>2, <1>4, <2>1 DEF FilesLeft, RecordsLeft
  <2> QED  BY <1>3, <1>5, <2>2, NearerCases
<1>7. CASE ReturnsRecord /\ \E i \in {NextRec, RecCount} :
              jv' = [jv EXCEPT !.file = NextFile, !.rec = i, !.edge = FALSE]
  <2>1. PICK i \in {NextRec, RecCount} :
            jv' = [jv EXCEPT !.file = NextFile, !.rec = i, !.edge = FALSE]
    BY <1>7
  <2>2. jv'.file = NextFile /\ jv'.rec = i
    BY <1>4, <2>1 DEF JvType
  <2>3. \/ NextFile = jv.file + 1
        \/ NextFile = jv.file /\ jv.rec < RecCount /\ i > jv.rec /\ i \in Nat
    BY <1>4, <2>1 DEF NextFile, NextRec
  <2>4. FilesLeft = req.files - jv.file /\ FilesLeft' = req.files - NextFile
    BY <1>1, <1>2, <2>2 DEF FilesLeft
  <2>5. CASE NextFile = jv.file + 1
    <3>1. FilesLeft' < FilesLeft
      BY <1>4, <2>4, <2>5
    <3> QED  BY <1>3, <1>5, <3>1, NearerCases
  <2>6. CASE NextFile = jv.file /\ jv.rec < RecCount /\ i > jv.rec /\ i \in Nat
    <3>1. FilesLeft' = FilesLeft /\ RecordsLeft' < RecordsLeft
      BY <1>4, <2>2, <2>4, <2>6 DEF RecordsLeft
    <3> QED  BY <1>3, <1>5, <3>1, NearerCases
  <2> QED  BY <2>3, <2>5, <2>6
<1> QED  BY <1>6, <1>7 DEF SkipRecord, SkipEdge, ReadRecord, ReadEdge, ReadOn

\* One more poll, while the download has not stalled.
LEMMA PollNearer ==
    ASSUME EndInv, UNCHANGED <<req, jv, at, host, cons, cur>>,
           stall.quiet <= Limit, stall' = Tick(stall, jv.got)
    PROVE  Nearer(Distance', Distance)
<1>1. /\ DownloadsLeft' = DownloadsLeft /\ PlacesLeft' = PlacesLeft
      /\ FilesLeft' = FilesLeft /\ RecordsLeft' = RecordsLeft
  BY DEF DownloadsLeft, PlacesLeft, BridgeLeft, HostLeft, ReceiverOpen, FilesLeft, RecordsLeft
<1>2. Limit \in Nat /\ stall.quiet \in Nat
  BY BridgeConstants DEF EndInv, TypeInv, BridgeTypeOK, StallType
<1>3. PollsLeft' < PollsLeft
  BY <1>2 DEF PollsLeft, Tick
<1> QED  BY <1>1, <1>3, NearerCases

LEMMA BridgeNearer ==
    ASSUME EndInv, BridgeStep \/ Crash
    PROVE  Nearer(Distance', Distance)
<1>0. HostLeft \in Nat /\ BridgeLeft \in Nat
  BY DEF HostLeft, BridgeLeft
<1>1. ASSUME UNCHANGED <<req, jv, host, cons>>, BridgeLeft' < BridgeLeft
      PROVE  Nearer(Distance', Distance)
  <2>1. HostLeft' = HostLeft /\ BridgeLeft' \in Nat
    BY <1>1 DEF HostLeft, BridgeLeft
  <2>2. PlacesLeft' < PlacesLeft
    BY <1>0, <1>1, <2>1, PlacesSum
  <2> QED  BY <1>1, <2>2, PlacePassed
<1>2. CASE JvOpen \/ SkipEnd \/ ReadEnd \/ JvFails
  <2>1. UNCHANGED <<req, jv, host, cons>> /\ BridgeLeft' < BridgeLeft
    BY <1>2 DEF JvOpen, SkipEnd, ReadEnd, JvFails, Running, Emit, AfterOpen, OthersThanBridge,
                BridgeLeft
  <2> QED  BY <1>1, <2>1
<1>3. CASE Exit \/ Crash
  <2>1. UNCHANGED <<req, jv, host, cons>> /\ at' = "dead" /\ at \notin {"none", "dead"}
    BY <1>3 DEF Exit, Crash, Running, Alive
  <2>2. BridgeLeft' < BridgeLeft
    BY <2>1 DEF BridgeLeft, EndInv, TypeInv, BridgeTypeOK
  <2> QED  BY <1>1, <2>1, <2>2
<1>4. CASE WriteFrame /\ ReadEndOpen
  <2>1. /\ UNCHANGED <<req, jv, stall, at, host, cur, cons, chan>> /\ out # <<>>
        /\ pipe' = Append(pipe, Head(out)) /\ out' = Tail(out)
    BY <1>4 DEF WriteFrame
  <2>2. /\ out \in Seq(AnyFrame) /\ pipe \in Seq(AnyFrame) /\ Len(chan) \in Nat
    BY LenProperties DEF EndInv, TypeInv, BridgeTypeOK
  <2>3. Head(out) \in AnyFrame
    BY <2>1, <2>2, HeadTailProperties
  <2>4. /\ Len(pipe') = Len(pipe) + 1 /\ Len(out') = Len(out) - 1
        /\ Len(pipe) \in Nat /\ Len(out) \in Nat
    BY <2>1, <2>2, <2>3, AppendProperties, HeadTailProperties, LenProperties
  <2>5. FramesLeft' < FramesLeft
    BY <2>1, <2>2, <2>4 DEF FramesLeft
  <2> QED  BY <2>1, <2>5, FramesMoved
<1>5. CASE WriteFrame /\ ~ReadEndOpen
  <2>1. UNCHANGED <<req, jv, host, cons>> /\ at' = "dead" /\ at \notin {"none", "dead"}
    BY <1>5 DEF WriteFrame, Alive
  <2>2. BridgeLeft' < BridgeLeft
    BY <2>1 DEF BridgeLeft, EndInv, TypeInv, BridgeTypeOK
  <2> QED  BY <1>1, <2>1, <2>2
<1>6. CASE WaitDownload \/ PollDownload
  <2>1. UNCHANGED <<req, jv, host, cons, cur>> /\ stall.quiet <= Limit
    BY <1>6 DEF WaitDownload, PollDownload, Running, OthersThanBridge, EndInv, TypeInv, PlaceInv
  <2>2. \/ BridgeLeft' < BridgeLeft
        \/ at' = at /\ stall' = Tick(stall, jv.got)
    BY <1>6 DEF WaitDownload, PollDownload, Running, Emit, AfterOpen, BridgeLeft
  <2> QED  BY <1>1, <2>1, <2>2, PollNearer
<1> QED  BY <1>2, <1>3, <1>4, <1>5, <1>6, ReadNearer DEF BridgeStep

\* The child is killed, or only the docker client in front of it.
LEMMA KillPasses ==
    ASSUME KillChild
    PROVE  BridgeLeft' <= BridgeLeft /\ BridgeLeft' \in Nat /\ BridgeLeft \in Nat
  BY DEF KillChild, BridgeLeft

\* What a step of the task makes of its place.
LEMMA HostPasses ==
    ASSUME UNCHANGED <<req, jv, cons>>, HostLeft' < HostLeft,
           UNCHANGED at \/ KillChild \/ (at = "none" /\ at' = "open")
    PROVE  Nearer(Distance', Distance)
<1>1. BridgeLeft' <= BridgeLeft /\ BridgeLeft' \in Nat /\ BridgeLeft \in Nat
  BY KillPasses DEF BridgeLeft
<1>2. HostLeft' \in Nat /\ HostLeft \in Nat
  BY DEF HostLeft
<1>3. PlacesLeft' < PlacesLeft
  BY <1>1, <1>2, PlacesSum
<1> QED  BY <1>3, PlacePassed

LEMMA SendNearer ==
    ASSUME EndInv, NEW item, host = "reading", Send(item),
           UNCHANGED <<req, cur, stall, jv, cons>>,
           item \in AnyFrame, IsFinal(item) \/ (pipe # <<>> /\ pipe' = Tail(pipe))
    PROVE  Nearer(Distance', Distance)
<1>1. CASE ReceiverOpen /\ ~IsFinal(item)
  <2>1. UNCHANGED <<at, out, host>> /\ chan' = Append(chan, item)
    BY <1>1 DEF Send
  <2>2. chan \in Seq(AnyFrame) /\ pipe \in Seq(AnyFrame) /\ Len(out) \in Nat
    BY LenProperties DEF EndInv, TypeInv, BridgeTypeOK
  <2>3. /\ Len(chan') = Len(chan) + 1 /\ Len(chan) \in Nat
        /\ Len(pipe') = Len(pipe) - 1 /\ Len(pipe) \in Nat
    BY <1>1, <2>1, <2>2, AppendProperties, HeadTailProperties, LenProperties
  <2>4. FramesLeft' < FramesLeft
    BY <1>1, <2>1, <2>2, <2>3 DEF FramesLeft
  <2> QED  BY <2>1, <2>4, FramesMoved
<1>2. CASE ReceiverOpen /\ IsFinal(item)
  <2>1. UNCHANGED at /\ host' = "waiting"
    BY <1>2 DEF Send
  <2>2. HostLeft' < HostLeft
    BY <2>1 DEF HostLeft
  <2> QED  BY <2>1, <2>2, HostPasses
<1>3. CASE ~ReceiverOpen
  <2>1. host' = "gone" /\ KillChild
    BY <1>3 DEF Send
  <2>2. HostLeft' < HostLeft
    BY <2>1 DEF HostLeft
  <2> QED  BY <2>1, <2>2, HostPasses
<1> QED  BY <1>1, <1>2, <1>3

LEMMA HostNearer ==
    ASSUME EndInv, HostStep
    PROVE  Nearer(Distance', Distance)
<1>0. IsFinal(Error) /\ Error \in AnyFrame
  BY FrameTypes DEF IsFinal, Error, Frame
<1>1. CASE Spawn \/ SpawnFails \/ ChildExited \/ ExitTimeout
  <2>1. /\ UNCHANGED <<req, jv, cons>>
        /\ UNCHANGED at \/ KillChild \/ (at = "none" /\ at' = "open")
        /\ \/ host = "start" /\ host' \in {"reading", "gone"}
           \/ host = "waiting" /\ host' = "gone"
    <3>1. host = "start" => at = "none"
      BY DEF EndInv, TypeInv, PlaceInv
    <3> QED  BY <1>1, <3>1 DEF Spawn, SpawnFails, ChildExited, ExitTimeout, bridgeVars
  <2>2. HostLeft' < HostLeft
    BY <2>1 DEF HostLeft
  <2> QED  BY <2>1, <2>2, HostPasses
<1>2. CASE Forward
  <2>1. PICK item \in {Head(pipe), Error} : Send(item)
    BY <1>2 DEF Forward
  <2>2. /\ host = "reading" /\ pipe # <<>> /\ pipe' = Tail(pipe)
        /\ UNCHANGED <<req, cur, stall, jv, cons>> /\ pipe \in Seq(AnyFrame)
    BY <1>2 DEF Forward, EndInv, TypeInv, BridgeTypeOK
  <2>3. Head(pipe) \in AnyFrame
    BY <2>2, HeadTailProperties
  <2> QED  BY <1>0, <2>1, <2>2, <2>3, SendNearer
<1>3. CASE Eof
  BY <1>0, <1>3, SendNearer DEF Eof
<1>4. CASE FixtureOpen \/ FixtureEnd
  <2>1. /\ UNCHANGED <<req, jv, cons, at>>
        /\ \/ host = "start" /\ host' \in {"closing", "files"}
           \/ host = "closing" /\ host' = "gone"
    BY <1>4 DEF FixtureOpen, FixtureEnd, bridgeVars
  <2>2. HostLeft' < HostLeft
    BY <2>1 DEF HostLeft
  <2> QED  BY <2>1, <2>2, HostPasses
<1>5. CASE FixtureFile
  <2>1. UNCHANGED <<req, jv, cons, at>> /\ host = "files"
    BY <1>5 DEF FixtureFile
  <2>2. CASE host' = "closing"
    <3>1. HostLeft' < HostLeft
      BY <2>1, <2>2 DEF HostLeft
    <3> QED  BY <2>1, <3>1, HostPasses
  <2>3. CASE host' = host /\ cur' = cur + 1
    <3>1. cur \in Int /\ req.files \in Int
      BY RequestTypes, BridgeConstants DEF EndInv, TypeInv, BridgeTypeOK
    <3>2. DownloadsLeft' = DownloadsLeft /\ PlacesLeft' = PlacesLeft /\ FilesLeft' < FilesLeft
      BY <2>1, <2>3, <3>1 DEF DownloadsLeft, PlacesLeft, BridgeLeft, HostLeft, ReceiverOpen,
                              FilesLeft
    <3> QED  BY <3>2, NearerCases
  <2> QED  BY <1>5, <2>2, <2>3 DEF FixtureFile
<1>6. CASE FixtureSend
  <2>1. /\ UNCHANGED <<req, jv, stall, at, host, cur, cons, pipe>> /\ out # <<>>
        /\ out' = Tail(out) /\ chan' \in {chan, Append(chan, Head(out))}
    BY <1>6 DEF FixtureSend
  <2>2. out \in Seq(AnyFrame) /\ chan \in Seq(AnyFrame) /\ Len(pipe) \in Nat
    BY LenProperties DEF EndInv, TypeInv, BridgeTypeOK
  <2>3. Head(out) \in AnyFrame
    BY <2>1, <2>2, HeadTailProperties
  <2>4. /\ Len(chan') \in {Len(chan), Len(chan) + 1} /\ Len(out') = Len(out) - 1
        /\ Len(chan) \in Nat /\ Len(out) \in Nat
    BY <2>1, <2>2, <2>3, AppendProperties, HeadTailProperties, LenProperties
  <2>5. FramesLeft' < FramesLeft
    BY <2>1, <2>2, <2>4 DEF FramesLeft
  <2> QED  BY <2>1, <2>5, FramesMoved
<1> QED  BY <1>1, <1>2, <1>3, <1>4, <1>5, <1>6 DEF HostStep

LEMMA ConsumerNearer ==
    ASSUME EndInv, Consume \/ Leave \/ HostKilled
    PROVE  Nearer(Distance', Distance)
<1>1. CASE Consume
  <2>1. /\ UNCHANGED <<req, jv, stall, at, host, cur, out, pipe>> /\ chan # <<>>
        /\ ReceiverOpen
        /\ cons' = "ended" \/ (cons' = cons /\ chan' = Tail(chan))
    BY <1>1 DEF Consume, bridgeVars
  <2>2. chan \in Seq(AnyFrame) /\ Len(out) \in Nat /\ Len(pipe) \in Nat
    BY LenProperties DEF EndInv, TypeInv, BridgeTypeOK
  <2>3. Len(Tail(chan)) = Len(chan) - 1 /\ Len(chan) \in Nat
    BY <2>1, <2>2, HeadTailProperties, LenProperties
  <2>4. chan' = Tail(chan) => FramesLeft' < FramesLeft
    BY <2>1, <2>2, <2>3 DEF FramesLeft
  <2> QED  BY <2>1, <2>4, FramesMoved DEF ReceiverOpen
<1>2. CASE Leave
  BY <1>2, FramesMoved DEF Leave, bridgeVars, ReceiverOpen
<1>3. CASE HostKilled
  <2>1. /\ UNCHANGED <<req, jv, at>> /\ host # "gone" /\ host' = "gone"
        /\ cons' = cons \/ cons' = "left"
    BY <1>3 DEF HostKilled, bridgeVars
  <2>2. /\ HostLeft' < HostLeft /\ HostLeft \in Nat /\ HostLeft' \in Nat
        /\ BridgeLeft' = BridgeLeft /\ BridgeLeft \in Nat
    BY <2>1 DEF HostLeft, BridgeLeft, EndInv, TypeInv, BridgeTypeOK
  <2>3. PlacesLeft' < PlacesLeft
    BY <2>1, <2>2, PlacesSum
  <2> QED  BY <2>1, <2>3, PlacePassed
<1> QED  BY <1>1, <1>2, <1>3

LEMMA FetchNearer == EndInv /\ Next => Nearer(Distance', Distance)
<1> SUFFICES ASSUME EndInv, Next  PROVE Nearer(Distance', Distance)
  OBVIOUS
<1>1. CASE Download
  <2>1. jv'.got = jv.got + 1 /\ UNCHANGED req /\ jv.got \in Int /\ req.need \in Int
    BY <1>1, JvTypes, RequestTypes, BridgeConstants
       DEF Download, EndInv, TypeInv, BridgeTypeOK, JvType
  <2>2. DownloadsLeft' < DownloadsLeft
    BY <2>1 DEF DownloadsLeft
  <2> QED  BY <2>2, NearerCases
<1> QED  BY <1>1, BridgeNearer, HostNearer, ConsumerNearer DEF Next

\* Every fetch stops after finitely many steps, for any stall limit and with any
\* fault: a stalled download is given up, no poll, retry or wait repeats for ever
\* (jvlink-bridge.rs:439-570, source.rs:164-215).
THEOREM FetchStops ==
    /\ Spec => FetchApproachesItsEnd
    /\ Spec => [](Distance \in Distances(6))
    /\ IsWellFoundedOn(NearerPairs(6), Distances(6))
<1>1. Init => EndInv
  BY InitTypes DEF Init, EndInv, WithinRange, Requests
<1>2. EndInv /\ [Next]_vars => EndInv'
  BY TypeNext, WithinRangeNext DEF EndInv
<1>3. EndInv /\ [Next]_vars => [Nearer(Distance', Distance)]_vars
  BY FetchNearer
<1>4. EndInv => Distance \in Distances(6)
  BY DistanceType DEF Distance, Distances
<1>5. Spec => FetchApproachesItsEnd
  BY <1>1, <1>2, <1>3, PTL DEF Spec, FetchApproachesItsEnd
<1>6. Spec => [](Distance \in Distances(6))
  BY <1>1, <1>2, <1>4, PTL DEF Spec
<1> QED  BY <1>5, <1>6, NearerEnds

(***************************************************************************)
(* Downloads that are given up.                                            *)
(***************************************************************************)
\* The stall counter follows the answers, but for the poll that ends the wait for
\* the download, which it does not see: the answer then heard is a new one.
Counted ==
    \/ answers.count = -1 /\ stall.last = -1
    \/ /\ stall.last = answers.count
       /\ stall.quiet <= answers.times - 1 /\ answers.times - 1 <= stall.quiet + 1
    \/ stall.last < answers.count /\ answers.times = 1

AnswersInv ==
    /\ answers \in [count : -1 .. MaxFiles, times : Nat]
    /\ answers.count <= jv.got
    /\ at \in {"none", "open"} => answers.count = -1
    /\ at = "wait" => answers.count < req.counted
    /\ Counted

\* A download only goes on, and what the counter has seen only changes at a poll.
LEMMA BetweenPolls ==
    ASSUME TypeInv, Next, ~Poll
    PROVE  /\ jv'.got >= jv.got /\ UNCHANGED <<stall, req>>
           /\ at' \in {"none", "open"} => at \in {"none", "open"}
           /\ at' = "wait" => at = "wait" \/ (at = "open" /\ req.counted > 0)
<1>0. jv.got \in Nat
  <2>1. jv.got \in 0 .. MaxFiles
    BY JvTypes DEF TypeInv, BridgeTypeOK
  <2> QED  BY <2>1, BridgeConstants
<1>1. CASE Download
  <2>1. jv'.got = jv.got + 1 /\ UNCHANGED <<stall, req, at>>
    BY <1>1 DEF Download, TypeInv, BridgeTypeOK, JvType
  <2> QED  BY <1>0, <2>1
<1>2. CASE SkipRecord \/ SkipEdge \/ ReadRecord \/ ReadEdge
  <2>1. jv'.got = jv.got
    BY <1>2, JvSteps DEF SkipRecord, SkipEdge, ReadRecord, ReadEdge
  <2>2. UNCHANGED <<stall, req>> /\ at' \in {"skip", "read"}
    BY <1>2 DEF SkipRecord, SkipEdge, ReadRecord, ReadEdge, Running, Emit, OthersThanBridge
  <2> QED  BY <1>0, <2>1, <2>2
<1>3. CASE JvOpen
  BY <1>0, <1>3 DEF JvOpen, Running, Emit, AfterOpen, OthersThanBridge
<1>4. CASE SkipEnd \/ ReadEnd \/ JvFails \/ Exit \/ Crash
  BY <1>0, <1>4 DEF SkipEnd, ReadEnd, JvFails, Exit, Crash, Emit, OthersThanBridge
<1>5. CASE WriteFrame \/ Forward \/ Eof \/ ExitTimeout
  BY <1>0, <1>5 DEF WriteFrame, Forward, Eof, ExitTimeout, Send, KillChild
<1>6. CASE Spawn
  BY <1>0, <1>6 DEF Spawn, TypeInv, PlaceInv
<1>7. CASE FixtureOpen \/ FixtureFile \/ FixtureSend \/ FixtureEnd \/ Consume \/ Leave
           \/ HostKilled \/ SpawnFails \/ ChildExited
  BY <1>0, <1>7 DEF FixtureOpen, FixtureFile, FixtureSend, FixtureEnd, Consume, Leave, HostKilled,
                    SpawnFails, ChildExited, bridgeVars
<1> QED  BY <1>1, <1>2, <1>3, <1>4, <1>5, <1>6, <1>7 DEF Next, BridgeStep, HostStep, Poll

\* A poll that gives up has heard one answer long enough, and one that goes on
\* not for too long.
StillOrNot ==
    IF at' = "exit0" THEN answers'.times - 1 > Limit ELSE answers'.times - 1 <= Limit + 1

LEMMA PollAnswers ==
    ASSUME TypeInv, AnswersInv, Poll, answers' = Heard
    PROVE  AnswersInv' /\ StillOrNot
<1>1. /\ jv.got \in 0 .. MaxFiles /\ req.counted \in 0 .. MaxFiles /\ MaxFiles \in Nat /\ Limit \in Nat
      /\ stall.last \in -1 .. MaxFiles /\ stall.quiet \in 0 .. Limit + 1
      /\ answers.count \in -1 .. MaxFiles /\ answers.times \in Nat
  BY JvTypes, RequestTypes, BridgeConstants DEF TypeInv, BridgeTypeOK, StallType, AnswersInv
<1>2. /\ answers' \in [count : -1 .. MaxFiles, times : Nat]
      /\ answers'.count = jv.got
      /\ answers'.times = IF jv.got # answers.count THEN 1
                          ELSE IF answers.times < MaxTimes THEN answers.times + 1 ELSE MaxTimes
  BY <1>1 DEF Heard, MaxTimes
<1>3. UNCHANGED <<jv, req>>
  BY DEF Poll, WaitDownload, PollDownload, OthersThanBridge
<1>4. CASE at = "wait" /\ jv.got >= req.counted
  <2>1. UNCHANGED stall /\ at' \in {"skip", "read"}
    BY <1>4 DEF Poll, WaitDownload, PollDownload, Running, Emit, AfterOpen
  <2>2. answers.count < jv.got /\ stall.last < jv.got
    BY <1>1, <1>4 DEF AnswersInv, Counted
  <2> QED  BY <1>1, <1>2, <1>3, <2>1, <2>2 DEF AnswersInv, Counted, StillOrNot
<1>5. CASE ~(at = "wait" /\ jv.got >= req.counted)
  <2>1. /\ stall' = Tick(stall, jv.got)
        /\ at \in {"wait", "skip", "read"}
        /\ at' = IF Stalled(stall') THEN "exit0" ELSE at
    BY <1>5 DEF Poll, WaitDownload, PollDownload, Running, Emit
  <2>2. /\ stall'.last = jv.got
        /\ stall'.quiet = IF jv.got = stall.last THEN stall.quiet + 1 ELSE 0
    BY <2>1 DEF Tick
  <2>3. stall'.quiet <= answers'.times - 1 /\ answers'.times - 1 <= stall'.quiet + 1
    BY <1>1, <1>2, <2>2 DEF AnswersInv, Counted, MaxTimes
  <2>4. AnswersInv'
    BY <1>1, <1>2, <1>3, <1>5, <2>1, <2>2, <2>3 DEF AnswersInv, Counted
  <2>5. Stalled(stall') <=> stall'.quiet > Limit
    BY DEF Stalled
  <2>6. StillOrNot
    BY <1>1, <1>2, <2>1, <2>2, <2>3, <2>5 DEF StillOrNot
  <2> QED  BY <2>4, <2>6
<1> QED  BY <1>4, <1>5

LEMMA AnswersNext ==
    ASSUME TypeInv, AnswersInv, [HistoryNext]_historyVars
    PROVE  AnswersInv' /\ [Poll => StillOrNot]_historyVars
<1>1. CASE UNCHANGED historyVars
  BY <1>1 DEF historyVars, vars, bridgeVars, AnswersInv, Counted
<1>2. CASE HistoryNext /\ Poll
  BY <1>2, PollAnswers DEF HistoryNext
<1>3. CASE HistoryNext /\ ~Poll
  <2>1. UNCHANGED answers
    BY <1>3 DEF HistoryNext
  <2>2. /\ jv.got \in Nat /\ jv'.got \in Nat /\ req.counted \in Nat
        /\ answers.count \in Int
    <3>1. TypeInv'
      BY <1>3, TypeNext DEF HistoryNext
    <3>2. /\ jv.got \in 0 .. MaxFiles /\ req.counted \in 0 .. MaxFiles
          /\ answers.count \in -1 .. MaxFiles
      BY JvTypes, RequestTypes DEF TypeInv, BridgeTypeOK, AnswersInv
    <3>3. jv'.got \in 0 .. MaxFiles
      BY <3>1 DEF TypeInv, BridgeTypeOK, JvType
    <3> QED  BY <3>2, <3>3, BridgeConstants
  <2> QED  BY <1>3, <2>1, <2>2, BetweenPolls DEF HistoryNext, AnswersInv, Counted
<1> QED  BY <1>1, <1>2, <1>3

\* Whatever the order of downloads, polls, faults and loops, and for every limit,
\* a fetch gives up on a download that stands still and on no other
\* (jvlink-bridge.rs:382-415).
THEOREM GivesUpRightly == HistorySpec => OnlyStillDownloadsAreGivenUp
<1>1. HistoryInit => TypeInv /\ AnswersInv
  <2>1. HistoryInit => TypeInv
    BY InitTypes DEF HistoryInit
  <2>2. HistoryInit => AnswersInv
    BY BridgeConstants DEF HistoryInit, Init, AnswersInv, Counted, Requests
  <2> QED  BY <2>1, <2>2
<1>2. [HistoryNext]_historyVars => [Next]_vars
  BY DEF HistoryNext, historyVars
<1>3. TypeInv /\ AnswersInv /\ [HistoryNext]_historyVars
      => TypeInv' /\ AnswersInv' /\ [Poll => StillOrNot]_historyVars
  BY <1>2, TypeNext, AnswersNext
<1> QED  BY <1>1, <1>3, PTL DEF HistorySpec, OnlyStillDownloadsAreGivenUp, StillOrNot
=============================================================================
