-------------------------------- MODULE Frames --------------------------------
(***************************************************************************)
(* The frames of bridge/src/protocol.rs, and which of them may follow      *)
(* which: OpenOk, for each file FileBegin, its records and FileEnd, then   *)
(* Done; an error may end the stream at any point.                         *)
(*                                                                         *)
(* A frame is its kind, its file (files are numbered in stream order) and  *)
(* for a record its position in the file: a record stands for its bytes.   *)
(***************************************************************************)
EXTENDS Integers

CONSTANT RecCount       \* records per file

Null == -1              \* skip_to_file: None

Frame(k, f, i) == [kind |-> k, file |-> f, rec |-> i]
Nothing == Frame("nothing", 0, 0)       \* no frame received yet
Open == Frame("open", 0, 0)
Progress == Frame("progress", 0, 0)
Begin(f) == Frame("begin", f, 0)
Rec(f, i) == Frame("record", f, i)
End(f) == Frame("end", f, 0)
Done == Frame("done", 0, 0)
Error == Frame("error", 0, 0)           \* Frame::Error or any SourceError

IsFinal(a) == a.kind \in {"done", "error"}
BeforeFiles == {Open, Progress}

\* The first file of the stream of request r.
First(r) == IF r.target = Null THEN 1 ELSE r.target

\* In the stream of request r, frame b may come directly after frame a.
Follows(r, a, b) ==
    \/ ~IsFinal(a) /\ b = Error
    \/ a = Nothing /\ b = Open
    \/ a = Nothing /\ r.files = 0 /\ b = Done
    \/ a \in BeforeFiles /\ b = Progress
    \/ a \in BeforeFiles /\ First(r) \in 1 .. r.files /\ b = Begin(First(r))
    \/ a \in BeforeFiles /\ r.files = 0 /\ r.target = Null /\ b = Done
    \/ a.kind = "begin" /\ b = Rec(a.file, 1)
    \/ a.kind = "record" /\ a.rec < RecCount /\ b = Rec(a.file, a.rec + 1)
    \/ a.kind = "record" /\ a.rec = RecCount /\ b = End(a.file)
    \/ a.kind = "record" /\ a.rec = RecCount /\ a.file = r.files /\ b = Done
    \/ a.kind = "end" /\ a.file < r.files /\ b = Begin(a.file + 1)
    \/ a.kind = "end" /\ a.file = r.files /\ b = Done
=============================================================================
