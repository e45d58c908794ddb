------------------------------- MODULE Values -------------------------------
(***************************************************************************)
(* The value that stands for NULL in a column, a nil pointer in a body and *)
(* the row that a query does not find.  It is shared by the modules that   *)
(* are composed for model checking.                                        *)
(***************************************************************************)
CONSTANT None
=============================================================================
