------------------------------ MODULE MCImporter ------------------------------
(***************************************************************************)
(* Small instances of the importer for TLC, and the property that is       *)
(* stated against the documentation.                                       *)
(***************************************************************************)
EXTENDS ImporterProps, TLC

CONSTANTS race, hoyu

\* One dataspec with end times, and one window.
OneSpec == {race}
OneYear == {<<race, 0>>}
TwoFiles == (race :> {1, 3})
ThreeFiles == (race :> {1, 2, 3})

\* Two dataspecs and three windows; hoyu takes no end time.
TwoSpecs == {race, hoyu}
ThreeWindows == {<<race, 0>>, <<race, 1>>, <<hoyu, 1>>}
SparseFiles == (race :> {1, 2}) @@ (hoyu :> {2})

\* Names in provision order, and the reverse.
SortedNames == [d \in DOMAIN FileTimes |-> [f \in FileTimes[d] |-> f]]
ReversedNames == [d \in DOMAIN FileTimes |-> [f \in FileTimes[d] |-> 9 - f]]

(***************************************************************************)
(* Statements of the repository that the code does not keep.               *)
(***************************************************************************)
\* The comment of seed_window (store/src/ingest.rs:46-53): a window whose range
\* changed is read from the start, so that JVSkip is never sent looking for a
\* last_file of the old range.
ResumeFileIsInStream ==
    pc = "fetch" /\ stream.opened => ~SkipMissing
=============================================================================
