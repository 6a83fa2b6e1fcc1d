--------------------------- MODULE MCSourceQueue ---------------------------
(* SourceQueue for TLC: two messages that bring one key and go to one      *)
(* group, in two groups of the source queue; behind the first of them one  *)
(* that is malformed and goes to the group named after the source queue.   *)
EXTENDS SourceQueueProps, TLC

CONSTANT aKey    \* a key

SomeKeys  == <<aKey, aKey, NoKey>>
TwoGroups == <<"g", "h", "g">>
Targets   == <<"g", "g", "crypto.fifo">>

BridgeSymmetry == Permutations(Pollers)
=============================================================================
