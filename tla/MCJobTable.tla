----------------------------- MODULE MCJobTable -----------------------------
(* JobTable for TLC.  The run checks a liveness property, so it declares no *)
(* symmetry.                                                               *)
EXTENDS JobTableProps
=============================================================================
