--------------------------- MODULE MC_WaitTracker ---------------------------
(* One execution, a clock of four ticks of 30 s, the 70 s window as two   *)
(* ticks, and up to two overlapping resumptions of it.  Executions share *)
(* only the poll, which treats each row alike, and every property is per *)
(* execution, so a second execution only multiplies the interleavings.    *)
EXTENDS WaitTracker

CONSTANTS e1

MC_Executions == {e1}
MC_MaxTime == 3
MC_Lookahead == 2
MC_MaxRuns == 2
=============================================================================
