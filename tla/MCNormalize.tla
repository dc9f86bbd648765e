------------------------------ MODULE MCNormalize ------------------------------
(***************************************************************************)
(* Small instances of the normalisation for TLC, and the statements of the *)
(* repository that the code does not keep.                                 *)
(***************************************************************************)
EXTENDS NormalizeProps

CONSTANTS horse, race, none, self, win, place

Always(result) == [v \in Parsers |-> result]
\* What an older parser rejects or does not know, a newer one may decode.
FixedBy(v, before) == [u \in Parsers |-> IF u < v THEN before ELSE "ok"]

Up(k, rows, parse) == [key |-> k, op |-> "upsert", rows |-> rows, parse |-> parse]
Del(k) == [key |-> k, op |-> "delete", rows |-> {}, parse |-> Always("ok")]

\* A race's payouts: two combinations, a correction that drops one, deletion.
PayoutPayloads ==
    {Up(race, {win, place}, Always("ok")), Up(race, {win}, FixedBy(2, "fail")), Del(race)}

\* Two entities, and records that touch none.
MixedPayloads ==
    {Up(horse, {self}, FixedBy(2, "fail")), Up(race, {win}, Always("ok")),
     Up(none, {self}, FixedBy(2, "unsupported"))}

\* A correction that leaves a race without payouts.
EmptyPayouts == {Up(race, {win}, FixedBy(2, "fail")), Up(race, {}, Always("ok"))}

\* normalize.rs:5-7: a reparse of an older record never rolls back what a newer
\* one applied, so no row shown is older than a normalised record of its entity.
NewerStateIsKept ==
    \A k \in Keys : \A x \in db.table[k] : \A i \in Ids :
        OfKey(i, k) /\ db.state[i] = 1 => i <= x.raw

\* README.md:149-150 and normalize.rs:110-113: after the parser was corrected,
\* reparse --all decodes every record again.
AllDecodedAgain ==
    [][cmd = "reparse --all" /\ pc = "select" /\ pc' = "idle" /\ Unparsed = {}
        => \A k \in Keys : \A x \in db.table[k] : x.parser = parser]_vars
=============================================================================
