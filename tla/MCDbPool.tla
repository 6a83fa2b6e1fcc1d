------------------------------ MODULE MCDbPool ------------------------------
(* DbPool for TLC: two calls, and pools of 2 (PLATFORM=lambda) to 5.       *)
EXTENDS DbPoolProps

PoolsOfTwoToFive == {1 .. n : n \in 2 .. 5}
=============================================================================
