----------------------------- MODULE MC_Pruning -----------------------------
(* Multi-main with the stepdown listener run before or after the follower *)
(* flag is set, an instance that starts as leader or follower, and up to  *)
(* two hard-deletion chains and two soft-deletion cycles at once.         *)
EXTENDS Pruning

MC_StartAsLeader == BOOLEAN
MC_MaxChains == 2
=============================================================================
