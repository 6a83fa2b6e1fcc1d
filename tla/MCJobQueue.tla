----------------------------- MODULE MCJobQueue -----------------------------
(* JobQueue for TLC: one message group; whatever a bridge or EventBridge   *)
(* hands over has used one of its two retries.                             *)
EXTENDS JobQueueProps, TLC

OneGroup   == [m \in Messages |-> "rest-api"]
OneBrought == [m \in Messages |-> 1]

QueueSymmetry ==
  Permutations(Messages) \cup Permutations(Pollers) \cup Permutations(Jobs)
=============================================================================
