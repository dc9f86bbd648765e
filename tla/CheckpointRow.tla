---------------------------- MODULE CheckpointRow ----------------------------
(***************************************************************************)
(* One row of ingest.checkpoints and what seed_window makes of it          *)
(* (store/src/ingest.rs:45-83), shared by the modules that keep such rows. *)
(***************************************************************************)
EXTENDS Integers

Null == -1          \* SQL null / Option::None of a file, time or run
NoEnd == -2         \* window_end null: the open-ended final window

WindowStates == {"absent", "pending", "running", "done", "failed", "abandoned"}
Settled == {"done", "failed", "abandoned"}
Pending == {"pending", "running", "failed"}

AbsentCheckpoint ==
    [state |-> "absent", end |-> NoEnd, files_done |-> 0, last_file |-> Null,
     stored |-> 0, last_ts |-> Null, last_run |-> Null]

\* Mutant: a settled window keeps its state when its range changes.
SeededRowKeepsState(c, e) ==
    IF c.state = "absent" THEN [c EXCEPT !.end = e, !.state = "pending"]
                          ELSE [c EXCEPT !.end = e]

\* Mutant: on conflict do nothing.
SeededRowKeepsEnd(c, e) ==
    IF c.state = "absent" THEN [c EXCEPT !.end = e, !.state = "pending"] ELSE c

\* The row seed_window leaves for a window planned with end e: a new row, or
\* for a settled window whose range changed one that starts over; any other
\* keeps its progress.
SeededRow(c, e) ==
    CASE c.state = "absent" -> [c EXCEPT !.end = e, !.state = "pending"]
      [] c.state # "absent" /\ c.end = e -> c
      [] c.state \in Settled /\ c.end # e ->
            [c EXCEPT !.end = e, !.state = "pending", !.files_done = 0, !.last_file = Null]
      [] OTHER -> [c EXCEPT !.end = e]
=============================================================================
