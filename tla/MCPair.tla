-------------------------------- MODULE MCPair --------------------------------
(***************************************************************************)
(* A small instance of two processes for TLC: one dataspec, one window.    *)
(***************************************************************************)
EXTENDS IngestPair, TLC

CONSTANT race

OneSpec == {race}
OneYear == {<<race, 0>>}
TwoFiles == (race :> {1, 2})

\* Names in provision order, and the reverse.
SortedNames == [d \in DOMAIN FileTimes |-> [f \in FileTimes[d] |-> f]]
ReversedNames == [d \in DOMAIN FileTimes |-> [f \in FileTimes[d] |-> 9 - f]]
=============================================================================
