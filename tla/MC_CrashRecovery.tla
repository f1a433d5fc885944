-------------------------- MODULE MC_CrashRecovery --------------------------
(* A manual trigger followed by two nodes; a straight run and a run in   *)
(* which node "a" is executed a second time (a loop back to it).          *)
EXTENDS CrashRecovery

MC_NodeList == <<"start", "a", "b">>
MC_ManualNodes == {"start"}
MC_Straight == <<"start", "a", "b">>
MC_Loop == <<"start", "a", "b", "a">>
MC_MaxRecoveries == 2
=============================================================================
