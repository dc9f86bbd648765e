----------------------------- MODULE BridgeFetch -----------------------------
(***************************************************************************)
(* One fetch: the bridge process (bin/jvlink-bridge.rs), the task that     *)
(* reads its stdout (bridge/src/source.rs) and the loop that consumes the  *)
(* FetchStream (importer-cli/src/ingest.rs); or FixtureSource in place of  *)
(* the first two.                                                          *)
(*                                                                         *)
(*   bridge --pipe--> reading task --channel--> consumer                   *)
(*                                                                         *)
(* Pipe and channel are bounded: whoever writes waits while they are full. *)
(* JV-Link is external: it downloads `need` of the files in the background *)
(* (or stops doing so), of which JVOpen counts `counted` as its            *)
(* download_count: JVGets may return -3 for a file that is not counted.    *)
(* It hands out records in file order, reports the end of a file with -1   *)
(* (or not), and may return an error from any call.  A call of JV-Link     *)
(* returns; sleeping takes no step.                                        *)
(***************************************************************************)
EXTENDS Frames, Sequences

CONSTANTS
    MaxFiles,   \* bound: files of the opened range
    Limit,      \* Stall::limit, 2 or more (1200 by default)
    PipeCap,    \* frames the pipe holds
    ChanCap,    \* frames the channel holds (1024)
    Faults      \* which of the faults below can happen

ASSUME BridgeConstants ==
    /\ RecCount \in Nat \ {0}
    /\ MaxFiles \in Nat
    /\ Limit \in Nat /\ Limit >= 2
    /\ PipeCap \in Nat \ {0} /\ ChanCap \in Nat \ {0}
    /\ Faults \subseteq {"jv",      \* a JV-Link call fails
                         "crash",   \* the bridge dies
                         "spawn",   \* the bridge cannot be started
                         "garbled", \* stdout carries something that is no frame
                         "orphan",  \* kill reaches the docker client only
                         "leave",   \* the consumer stops early (a store error)
                         "kill",    \* the importer is killed
                         "io"}      \* a fixture file cannot be read

VARIABLES
    req,        \* the request: kind of source, files, file to resume from, downloads
    last,       \* the last frame the consumer received
    at,         \* where the bridge is: "none" before it is spawned
    code,       \* its exit code
    out,        \* frames it has decided to write and has not written
    cur,        \* cur_file, 0 for the empty name
    stall,      \* Stall: last progress and number of quiet polls
    jv,         \* JV-Link: files downloaded, file and record last read, end reported
    pipe,
    host,       \* where the reading task (or the fixture task) is
    chan,
    cons        \* the consumer: "receiving", "ended" or "left"

bridgeVars == <<at, code, out, cur, stall, jv>>
vars == <<req, last, bridgeVars, pipe, host, chan, cons>>

Requests ==
    [kind : {"process", "fixture"}, files : 0 .. MaxFiles,
     target : {Null} \union 1 .. MaxFiles + 1, need : 0 .. MaxFiles,
     counted : 0 .. MaxFiles]

Init ==
    /\ req \in {r \in Requests : /\ r.counted <= r.need
                                 /\ r.need <= r.files
                                 /\ r.target <= r.files + 1
                                 /\ r.kind = "fixture" => r.need = 0}
    /\ last = Nothing
    /\ at = "none" /\ code = 0 /\ out = <<>> /\ cur = 0
    /\ stall = [last |-> -1, quiet |-> 0]
    /\ jv = [got |-> 0, file |-> 0, rec |-> RecCount, edge |-> TRUE]
    /\ pipe = <<>> /\ host = "start" /\ chan = <<>> /\ cons = "receiving"

(***************************************************************************)
(* JV-Link, as JVGets shows it.                                            *)
(***************************************************************************)
AtEnd == jv.file = req.files /\ jv.rec = RecCount
NextFile == IF jv.rec < RecCount THEN jv.file ELSE jv.file + 1
NextRec == IF jv.rec < RecCount THEN jv.rec + 1 ELSE 1
Downloaded(f) == f <= req.files - req.need + jv.got

ReturnsRecord == ~AtEnd /\ Downloaded(NextFile)      \* > 0
ReturnsEdge == jv.rec = RecCount /\ ~jv.edge         \* -1
ReturnsWait == ~AtEnd /\ ~Downloaded(NextFile)       \* -3

ReadOn == jv' = [jv EXCEPT !.file = NextFile, !.rec = NextRec, !.edge = FALSE]

Download ==
    /\ jv.got < req.need
    /\ jv' = [jv EXCEPT !.got = @ + 1]
    /\ UNCHANGED <<req, last, at, code, out, cur, stall, pipe, host, chan, cons>>

(***************************************************************************)
(* The bridge process.  It computes the next frames only when the ones     *)
(* before are written and flushed.                                         *)
(***************************************************************************)
Running(here) == at = here /\ out = <<>>

\* emit the frames, then go on at the given place.
Emit(frames, there) == out' = frames /\ at' = there

OthersThanBridge == UNCHANGED <<req, last, code, pipe, host, chan, cons>>

AfterOpen == IF req.target # Null THEN "skip" ELSE "read"

\* JVInit and JVOpen: an error code is reported with exit code 0, a COM failure
\* with 1; -1 (no data) is Done without OpenOk.
JvOpen ==
    /\ Running("open")
    /\ \/ req.files = 0 /\ Emit(<<Done>>, "exit0")
       \/ "jv" \in Faults /\ \E x \in {"exit0", "exit1"} : Emit(<<Error>>, x)
       \/ Emit(<<Open>>, IF req.counted > 0 THEN "wait" ELSE AfterOpen)
    /\ UNCHANGED <<cur, stall, jv>> /\ OthersThanBridge

\* Mutant: the quiet polls start over at every poll.
TickForgets(s, progress) == [last |-> progress, quiet |-> 0]

\* Mutant: progress is noted and the quiet polls before it still count.
TickNeverResets(s, progress) ==
    IF progress # s.last THEN [s EXCEPT !.last = progress] ELSE [s EXCEPT !.quiet = @ + 1]

Tick(s, progress) ==
    IF progress # s.last THEN [last |-> progress, quiet |-> 0]
                         ELSE [last |-> s.last, quiet |-> s.quiet + 1]
Stalled(s) == s.quiet > Limit

\* One poll of JVStatus while the download is awaited.
WaitDownload ==
    /\ Running("wait")
    /\ IF jv.got >= req.counted
       THEN Emit(<<Progress>>, AfterOpen) /\ UNCHANGED stall
       ELSE /\ stall' = Tick(stall, jv.got)
            /\ IF Stalled(stall') THEN Emit(<<Progress, Error>>, "exit0")
                                  ELSE Emit(<<Progress>>, "wait")
    /\ UNCHANGED <<cur, jv>> /\ OthersThanBridge

\* Mutant: the file to resume from is skipped as well.
SkipRecordPast ==
    /\ Running("skip") /\ ReturnsRecord
    /\ jv' = [jv EXCEPT !.file = NextFile, !.rec = RecCount, !.edge = FALSE]
    /\ Emit(<<>>, IF NextFile = req.target THEN "read" ELSE "skip")
    /\ UNCHANGED <<cur, stall>> /\ OthersThanBridge

\* A record during JVSkip: the file to resume from is emitted from its first
\* record on, any other is skipped; a JVSkip that fails goes unnoticed.
SkipRecord ==
    /\ Running("skip") /\ ReturnsRecord
    /\ IF NextFile = req.target
       THEN /\ ReadOn
            /\ Emit(<<Begin(NextFile), Rec(NextFile, NextRec)>>, "read")
            /\ cur' = NextFile
       ELSE /\ \/ jv' = [jv EXCEPT !.file = NextFile, !.rec = RecCount, !.edge = FALSE]
               \/ "jv" \in Faults /\ ReadOn
            /\ Emit(<<>>, "skip")
            /\ UNCHANGED cur
    /\ UNCHANGED stall /\ OthersThanBridge

SkipEdge ==
    /\ Running("skip") /\ ReturnsEdge
    /\ jv' = [jv EXCEPT !.edge = TRUE]
    /\ UNCHANGED <<at, out, cur, stall>> /\ OthersThanBridge

\* The end without the file to resume from is an error (-9901).
SkipEnd ==
    /\ Running("skip") /\ AtEnd
    /\ Emit(<<Error>>, "exit0")
    /\ UNCHANGED <<cur, stall, jv>> /\ OthersThanBridge

\* A new file name ends the file before, whose -1 was missing.
ReadRecord ==
    /\ Running("read") /\ ReturnsRecord
    /\ ReadOn
    /\ Emit((IF NextFile = cur THEN <<>>
             ELSE IF cur = 0 THEN <<Begin(NextFile)>>
             ELSE <<End(cur), Begin(NextFile)>>) \o <<Rec(NextFile, NextRec)>>, "read")
    /\ cur' = NextFile
    /\ UNCHANGED stall /\ OthersThanBridge

ReadEdge ==
    /\ Running("read") /\ ReturnsEdge
    /\ jv' = [jv EXCEPT !.edge = TRUE]
    /\ Emit(IF cur = 0 THEN <<>> ELSE <<End(cur)>>, "read")
    /\ cur' = 0
    /\ UNCHANGED stall /\ OthersThanBridge

ReadEnd ==
    /\ Running("read") /\ AtEnd
    /\ Emit(<<Done>>, "exit0")
    /\ UNCHANGED <<cur, stall, jv>> /\ OthersThanBridge

\* JVGets returned -3 in either loop: sleep, then poll JVStatus.
PollDownload ==
    /\ Running("skip") \/ Running("read")
    /\ ReturnsWait
    /\ stall' = Tick(stall, jv.got)
    /\ IF Stalled(stall') THEN Emit(<<Error>>, "exit0") ELSE UNCHANGED <<at, out>>
    /\ UNCHANGED <<cur, jv>> /\ OthersThanBridge

\* JVStatus or JVGets returned an error code, or the COM call failed.
JvFails ==
    /\ "jv" \in Faults
    /\ Running("wait") \/ Running("skip") \/ Running("read")
    /\ \E x \in {"exit0", "exit1"} : Emit(<<Error>>, x)
    /\ UNCHANGED <<cur, stall, jv>> /\ OthersThanBridge

Alive == at \notin {"none", "dead"}
ReadEndOpen == host \in {"reading", "waiting"}

\* write and flush of one frame; a closed pipe is an error, and the Error frame
\* for it goes nowhere.
WriteFrame ==
    /\ Alive /\ out # <<>>
    /\ IF ReadEndOpen
       THEN /\ Len(pipe) < PipeCap
            /\ pipe' = Append(pipe, Head(out))
            /\ out' = Tail(out)
            /\ UNCHANGED <<at, code>>
       ELSE at' = "dead" /\ code' = 1 /\ out' = <<>> /\ UNCHANGED pipe
    /\ UNCHANGED <<req, last, cur, stall, jv, host, chan, cons>>

Exit ==
    /\ Running("exit0") \/ Running("exit1")
    /\ at' = "dead"
    /\ code' = IF at = "exit1" THEN 1 ELSE 0
    /\ UNCHANGED <<req, last, out, cur, stall, jv, pipe, host, chan, cons>>

\* The bridge dies; the wrapper script hides its exit code.
Crash ==
    /\ "crash" \in Faults
    /\ Alive
    /\ at' = "dead" /\ out' = <<>> /\ code' \in {0, 1}
    /\ UNCHANGED <<req, last, cur, stall, jv, pipe, host, chan, cons>>

(***************************************************************************)
(* The reading task of ProcessSource::fetch.                               *)
(***************************************************************************)
ReceiverOpen == cons = "receiving"

\* The child is killed, or only the docker client in front of the bridge is.
KillChild ==
    \/ Alive /\ at' = "dead" /\ out' = <<>> /\ UNCHANGED code
    \/ ~Alive /\ UNCHANGED <<at, out, code>>
    \/ Alive /\ "orphan" \in Faults /\ UNCHANGED <<at, out, code>>

Spawn ==
    /\ host = "start" /\ req.kind = "process"
    /\ host' = "reading" /\ at' = "open"
    /\ UNCHANGED <<req, last, code, out, cur, stall, jv, pipe, chan, cons>>

SpawnFails ==
    /\ "spawn" \in Faults
    /\ host = "start" /\ req.kind = "process"
    /\ host' = "gone"
    /\ chan' = IF ReceiverOpen THEN Append(chan, Error) ELSE chan
    /\ UNCHANGED <<req, last, bridgeVars, pipe, cons>>

\* Mutant: the channel is unbounded.
SendUnbounded(item) ==
    IF ReceiverOpen
    THEN /\ chan' = Append(chan, item)
         /\ host' = IF IsFinal(item) THEN "waiting" ELSE "reading"
         /\ UNCHANGED <<at, out, code>>
    ELSE /\ host' = "gone"
         /\ KillChild
         /\ UNCHANGED chan

\* send: a dropped receiver ends the task, and the child with it.
Send(item) ==
    IF ReceiverOpen
    THEN /\ Len(chan) < ChanCap
         /\ chan' = Append(chan, item)
         /\ host' = IF IsFinal(item) THEN "waiting" ELSE "reading"
         /\ UNCHANGED <<at, out, code>>
    ELSE /\ host' = "gone"
         /\ KillChild
         /\ UNCHANGED chan

\* A frame, or bytes that read_frame rejects.
Forward ==
    /\ host = "reading" /\ pipe # <<>>
    /\ \/ Send(Head(pipe))
       \/ "garbled" \in Faults /\ Send(Error)
    /\ pipe' = Tail(pipe)
    /\ UNCHANGED <<req, last, cur, stall, jv, cons>>

\* Mutant: the task returns at the end of stdout.
EofIsSilent ==
    /\ host = "reading" /\ pipe = <<>> /\ at = "dead"
    /\ host' = "gone"
    /\ UNCHANGED <<req, last, bridgeVars, pipe, chan, cons>>

\* stdout ended without Done, be it inside a frame: UnexpectedEof or Io.
Eof ==
    /\ host = "reading" /\ pipe = <<>> /\ at = "dead"
    /\ Send(Error)
    /\ UNCHANGED <<req, last, cur, stall, jv, pipe, cons>>

\* The exit status comes after the last frame; a consumer that has seen that
\* frame is gone by then.
ChildExited ==
    /\ host = "waiting" /\ at = "dead"
    /\ IF code # 0 /\ ReceiverOpen
       THEN Len(chan) < ChanCap /\ chan' = Append(chan, Error)
       ELSE UNCHANGED chan
    /\ host' = "gone"
    /\ UNCHANGED <<req, last, bridgeVars, pipe, cons>>

\* Mutant: the task waits for the exit without a limit.
ExitAwaited ==
    /\ host = "waiting" /\ at = "dead"
    /\ UNCHANGED vars

\* BRIDGE_EXIT_TIMEOUT after the last frame.
ExitTimeout ==
    /\ host = "waiting" /\ at # "dead"
    /\ KillChild
    /\ host' = "gone"
    /\ UNCHANGED <<req, last, cur, stall, jv, pipe, chan, cons>>

(***************************************************************************)
(* FixtureSource::fetch: the files of a directory from the resume file on. *)
(* Its sends ignore a dropped receiver.                                    *)
(***************************************************************************)
FixtureOpen ==
    /\ host = "start" /\ req.kind = "fixture"
    /\ \/ /\ "io" \in Faults \/ req.target = req.files + 1
          /\ out' = <<Error>> /\ host' = "closing"
          /\ UNCHANGED cur
       \/ /\ req.target # req.files + 1
          /\ out' = <<Open>> /\ host' = "files"
          /\ cur' = First(req) - 1
    /\ UNCHANGED <<req, last, at, code, stall, jv, pipe, chan, cons>>

FileFrames(f) == <<Begin(f)>> \o [i \in 1 .. RecCount |-> Rec(f, i)] \o <<End(f)>>

FixtureFile ==
    /\ host = "files" /\ out = <<>>
    /\ \/ /\ cur < req.files
          /\ out' = FileFrames(cur + 1) /\ cur' = cur + 1
          /\ UNCHANGED host
       \/ /\ cur < req.files /\ "io" \in Faults
          /\ out' = <<Error>> /\ host' = "closing"
          /\ UNCHANGED cur
       \/ /\ cur = req.files
          /\ out' = <<Done>> /\ host' = "closing"
          /\ UNCHANGED cur
    /\ UNCHANGED <<req, last, at, code, stall, jv, pipe, chan, cons>>

FixtureSend ==
    /\ host \in {"files", "closing"} /\ out # <<>>
    /\ IF ReceiverOpen THEN Len(chan) < ChanCap /\ chan' = Append(chan, Head(out))
                       ELSE UNCHANGED chan
    /\ out' = Tail(out)
    /\ UNCHANGED <<req, last, at, code, cur, stall, jv, pipe, host, cons>>

FixtureEnd ==
    /\ host = "closing" /\ out = <<>>
    /\ host' = "gone"
    /\ UNCHANGED <<req, last, bridgeVars, pipe, chan, cons>>

(***************************************************************************)
(* The consumer.                                                           *)
(***************************************************************************)
\* Done or an error ends the loop, which drops the stream.
Consume ==
    /\ ReceiverOpen /\ chan # <<>>
    /\ last' = Head(chan)
    /\ IF IsFinal(Head(chan)) THEN chan' = <<>> /\ cons' = "ended"
                              ELSE chan' = Tail(chan) /\ UNCHANGED cons
    /\ UNCHANGED <<req, bridgeVars, pipe, host>>

\* A store error leaves the loop between two frames.
Leave ==
    /\ "leave" \in Faults
    /\ ReceiverOpen
    /\ cons' = "left" /\ chan' = <<>>
    /\ UNCHANGED <<req, last, bridgeVars, pipe, host>>

\* The importer is killed: nothing is dropped, so nothing kills the child.
HostKilled ==
    /\ "kill" \in Faults
    /\ host # "gone"
    /\ host' = "gone" /\ pipe' = <<>>
    /\ cons' = IF ReceiverOpen THEN "left" ELSE cons
    /\ chan' = <<>>
    /\ UNCHANGED <<req, last, bridgeVars>>

BridgeStep ==
    \/ JvOpen \/ WaitDownload
    \/ SkipRecord \/ SkipEdge \/ SkipEnd
    \/ ReadRecord \/ ReadEdge \/ ReadEnd
    \/ PollDownload \/ JvFails
    \/ WriteFrame \/ Exit

HostStep ==
    \/ Spawn \/ SpawnFails \/ Forward \/ Eof \/ ChildExited \/ ExitTimeout
    \/ FixtureOpen \/ FixtureFile \/ FixtureSend \/ FixtureEnd

Next ==
    \/ BridgeStep \/ HostStep \/ Consume
    \/ Download \/ Crash \/ Leave \/ HostKilled

Spec == Init /\ [][Next]_vars

\* The processes run; neither JV-Link's downloads nor any fault has to happen.
FairSpec ==
    Spec /\ WF_vars(BridgeStep) /\ WF_vars(HostStep) /\ WF_vars(Consume)
=============================================================================
