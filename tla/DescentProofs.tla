----------------------------- MODULE DescentProofs -----------------------------
(***************************************************************************)
(* Nobody can come nearer for ever.                                        *)
(***************************************************************************)
EXTENDS Descent, WellFoundedInduction, TLAPS

\* Every set of numbers has a least one.  It stands in for induction: of the numbers
\* for which a statement fails there would be a smallest.
LEMMA LeastNumber ==
    ASSUME NEW S \in SUBSET Nat, S # {}
    PROVE  \E m \in S : \A k \in S : m <= k
<1> DEFINE R == {ss \in Nat \X Nat : ss[1] < ss[2]}
<1>1. IsWellFoundedOn(R, Nat)
  BY NatLessThanWellFounded DEF OpToRel
<1>2. \E m \in S : \A k \in S : <<k, m>> \notin R
  <2> HIDE DEF R
  <2> QED BY <1>1, WFMin
<1>3. \A m \in S, k \in S : <<k, m>> \notin R => m <= k
  OBVIOUS
<1> QED BY <1>2, <1>3

\* The distances of n places.
Distances(n) == [1 .. n -> Nat]
NearerPairs(n) == {dd \in Distances(n) \X Distances(n) : Nearer(dd[1], dd[2])}

\* The order of n numbers one after the other has no infinite descent.
LEMMA NearerEnds ==
    ASSUME NEW n \in Nat
    PROVE  IsWellFoundedOn(NearerPairs(n), Distances(n))
<1> DEFINE R == {ss \in Nat \X Nat : ss[1] < ss[2]}
<1>1. IsWellFoundedOn(R, Nat)
  BY NatLessThanWellFounded DEF OpToRel
<1>2. NearerPairs(n) = LexProductOrdering(R, Nat, n)
  <2>1. ASSUME NEW d \in Distances(n), NEW e \in Distances(n), NEW i \in 1 .. n
        PROVE  d[i] < e[i] <=> <<d[i], e[i]>> \in R
    BY DEF Distances
  <2>2. ASSUME NEW d \in Distances(n), NEW e \in Distances(n)
        PROVE  Nearer(d, e) <=> \E i \in 1 .. n : /\ \A j \in 1 .. (i - 1) : d[j] = e[j]
                                                  /\ <<d[i], e[i]>> \in R
    <3>1. DOMAIN e = 1 .. n
      BY DEF Distances
    <3> HIDE DEF R
    <3> QED BY <2>1, <3>1 DEF Nearer
  <2> HIDE DEF R
  <2> QED BY <2>2, Zenon DEF NearerPairs, Distances, LexProductOrdering
<1> HIDE DEF R
<1> QED BY <1>1, <1>2, WFLexProductOrdering DEF Distances
=============================================================================
