----------------------------- MODULE BridgeProps -----------------------------
(***************************************************************************)
(* What a fetch promises to the importer.                                  *)
(***************************************************************************)
EXTENDS BridgeFetch, Descent

FrameKinds == {"nothing", "open", "progress", "begin", "record", "end", "done", "error"}
StallType == [last : -1 .. MaxFiles, quiet : 0 .. Limit + 1]
JvType == [got : 0 .. MaxFiles, file : 0 .. MaxFiles, rec : 0 .. RecCount, edge : BOOLEAN]
AnyFrame == [kind : FrameKinds, file : Nat, rec : Nat]

\* The values of the two processes, their buffers and the consumer; whoever sends,
\* the exit status of the bridge included, neither buffer exceeds its capacity.
BridgeTypeOK ==
    /\ req \in Requests
    /\ last \in AnyFrame
    /\ at \in {"none", "open", "wait", "skip", "read", "exit0", "exit1", "dead"}
    /\ code \in {0, 1}
    /\ out \in Seq(AnyFrame)
    /\ cur \in 0 .. MaxFiles
    /\ stall \in StallType
    /\ jv \in JvType
    /\ pipe \in Seq(AnyFrame) /\ Len(pipe) <= PipeCap
    /\ host \in {"start", "reading", "waiting", "files", "closing", "gone"}
    /\ chan \in Seq(AnyFrame) /\ Len(chan) <= ChanCap
    /\ cons \in {"receiving", "ended", "left"}

\* The stream the consumer sees is the one source.rs:66-70 promises, whatever
\* dies, is killed or is garbled on the way: Done comes only when every record
\* from the file to resume from to the last file has come, in order.
FS == INSTANCE FrameStream
StreamInOrder == FS!Spec

\* next() never returns None to a consumer that still waits: the stream ends
\* with Done or with an error (source.rs:55-64).
NeverEndsSilently ==
    host = "gone" /\ cons = "receiving" => \E i \in 1 .. Len(chan) : IsFinal(chan[i])

\* A consumer does not wait forever, even when JV-Link's download stops for good
\* and nothing but the polls of JVStatus happens (jvlink-bridge.rs:382-415).
FetchEnds == cons = "receiving" ~> cons # "receiving"

\* No bridge is left behind when the consumer has what it wants, gives up or is
\* killed (source.rs:150-152, 208-213): it exits, is killed, or finds its pipe closed.
BridgeEnds == cons # "receiving" ~> at \in {"none", "dead"}

(***************************************************************************)
(* Steps.                                                                  *)
(***************************************************************************)
\* How far a fetch is from the point where nothing moves any more: files JV-Link
\* may still download, the places the three parties have yet to pass, files and
\* records to read, quiet polls allowed, frames on their way.
DownloadsLeft == req.need - jv.got

BridgeLeft ==
    CASE at = "none" -> 6
      [] at = "open" -> 5
      [] at = "wait" -> 4
      [] at = "skip" -> 3
      [] at = "read" -> 2
      [] at \in {"exit0", "exit1"} -> 1
      [] OTHER -> 0

HostLeft ==
    CASE host = "start" -> 3
      [] host \in {"reading", "files"} -> 2
      [] host \in {"waiting", "closing"} -> 1
      [] OTHER -> 0

PlacesLeft == BridgeLeft + HostLeft + (IF ReceiverOpen THEN 1 ELSE 0)

FilesLeft == req.files - (IF host = "files" THEN cur ELSE jv.file)
RecordsLeft == 2 * (RecCount - jv.rec) + (IF jv.edge THEN 0 ELSE 1)
PollsLeft == Limit + 1 - stall.quiet + (IF stall.last = jv.got THEN 0 ELSE Limit + 2)
FramesLeft == 3 * Len(out) + 2 * Len(pipe) + Len(chan)

Distance == <<DownloadsLeft, PlacesLeft, FilesLeft, RecordsLeft, PollsLeft, FramesLeft>>

\* Nothing in a fetch goes round in circles: each step of the bridge, of the task and
\* of the consumer, the polls of a stalled download included, brings the fetch
\* nearer to its end, in whatever order and with whatever fault they come
\* (jvlink-bridge.rs:439-570, source.rs:164-215).
FetchApproachesItsEnd == [][Nearer(Distance', Distance)]_vars

(***************************************************************************)
(* The inductive invariant, which BridgeProofs.tla proves.                 *)
(***************************************************************************)
\* What JV-Link hands out stays inside the range, a bridge that polls has not
\* stalled yet, and no frame is there before the fetch starts.
PlaceInv ==
    /\ req.target <= req.files + 1
    /\ jv.file <= req.files
    /\ jv.file = 0 => jv.rec = RecCount
    /\ at \in {"none", "open", "wait"} => jv.file = 0
    /\ at \in {"none", "open", "wait", "skip", "read"} => stall.quiet <= Limit
    /\ host \in {"start", "files", "closing"} => at = "none"
    /\ at \in {"open", "wait"} => cur = 0
    /\ host = "start" => chan = <<>> /\ pipe = <<>> /\ out = <<>> /\ cur = 0

\* The stream from the last frame received to the last frame decided on.
InFlight ==
    IF host = "reading" THEN pipe \o out
    ELSE IF host \in {"files", "closing"} THEN out ELSE <<>>
Stream == (<<last>> \o chan) \o InFlight
Tip == Stream[Len(Stream)]

Chained(r, s) ==
    \A i \in 1 .. Len(s) - 1 : IsFinal(s[i]) \/ Follows(r, s[i], s[i + 1])

\* The frame decided on last tells where the bridge is in the files, as its
\* cur_file and JV-Link's position do ...
BridgeAgrees ==
    /\ at = "open" => Stream = <<Nothing>>
    /\ at = "wait" => Tip \in BeforeFiles
    /\ at = "skip" => Tip \in BeforeFiles /\ req.target # Null /\ jv.file < req.target
    /\ at = "read" =>
          \/ /\ cur = 0 /\ Tip \in BeforeFiles
             /\ req.target = Null /\ jv.file = 0
          \/ cur = 0 /\ Tip = End(jv.file) /\ jv.file >= 1 /\ jv.rec = RecCount
          \/ cur = jv.file /\ jv.file >= 1 /\ Tip = Rec(jv.file, jv.rec) /\ jv.rec >= 1
    /\ at \in {"exit0", "exit1"} => IsFinal(Tip)

\* ... or where the fixture task is.
FixtureAgrees ==
    /\ req.target # req.files + 1
    /\ cur <= req.files
    /\ (Tip = Open /\ cur = First(req) - 1) \/ Tip = End(cur)

TipAgrees ==
    /\ host = "start" => last = Nothing
    /\ host = "reading" => BridgeAgrees
    /\ host = "files" => FixtureAgrees
    /\ host = "closing" => IsFinal(Tip)
    /\ host \in {"waiting", "gone"} => \E i \in 1 .. Len(chan) : IsFinal(chan[i])

StreamInv ==
    cons = "receiving" => ~IsFinal(last) /\ Chained(req, Stream) /\ TipAgrees

IInv == BridgeTypeOK /\ PlaceInv /\ StreamInv
=============================================================================
