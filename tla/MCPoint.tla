------------------------------ MODULE MCPoint ------------------------------
(* PointService for TLC.  Seed credits are interchangeable with each       *)
(* other, and so are the calls not in Seed.                                *)
EXTENDS PointServiceProps, TLC

CallSymmetry == Permutations(Requests \ Seed) \cup Permutations(Seed)
=============================================================================
