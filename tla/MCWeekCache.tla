---------------------------- MODULE MCWeekCache ----------------------------
(***************************************************************************)
(* Small instances of WeekCache for TLC: one week, from Monday to Saturday. *)
(***************************************************************************)
EXTENDS WeekCache, TLC

CONSTANT week1

Symmetry == Permutations(Writer) \cup Permutations(Reader)
=============================================================================
