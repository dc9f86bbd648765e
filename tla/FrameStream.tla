----------------------------- MODULE FrameStream -----------------------------
(***************************************************************************)
(* What a Source promises to the loop that consumes its FetchStream        *)
(* (bridge/src/source.rs:66-70): the frames arrive in order, from the file *)
(* to resume from on, and Done only after the last record of the last      *)
(* file.  The loops of Importer.tla consume such a stream.                 *)
(***************************************************************************)
EXTENDS Frames

VARIABLES
    req,        \* the request: files of the opened range, file to resume from
    last        \* the last frame the consumer received

Init == last = Nothing

Receive ==
    /\ Follows(req, last, last')
    /\ UNCHANGED req

Spec == Init /\ [][Receive]_<<req, last>>
=============================================================================
