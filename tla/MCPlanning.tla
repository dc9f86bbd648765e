------------------------------ MODULE MCPlanning ------------------------------
(***************************************************************************)
(* Small instances of Planning for TLC: years of two days, from the middle *)
(* of a year into the third one.                                           *)
(***************************************************************************)
EXTENDS Planning

CONSTANTS race, hoyu
=============================================================================
