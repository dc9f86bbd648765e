------------------------------- MODULE Descent -------------------------------
(***************************************************************************)
(* The order in which a program that must end comes nearer to its end: a   *)
(* distance is a sequence of numbers, the one that matters most first.     *)
(***************************************************************************)
EXTENDS Integers

\* d is smaller than e in the first place where they differ.
Nearer(d, e) == \E i \in DOMAIN e : d[i] < e[i] /\ \A j \in 1 .. i - 1 : d[j] = e[j]
=============================================================================
