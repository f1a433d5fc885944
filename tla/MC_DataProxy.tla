---------------------------- MODULE MC_DataProxy ----------------------------
(* Three nodes A -> B -> C: A has one output, B two (an IF node), and B's *)
(* second output feeds C.  The runner executes A and B up to twice each;  *)
(* C, the node expressions are evaluated in, never finishes a run.        *)
(* Up to two items per output.                                            *)
EXTENDS DataProxy

MC_Nodes == {"A", "B", "C"}
MC_Executable == {"A", "B"}
MC_Conns == {[from |-> "A", out |-> 0, to |-> "B"],
             [from |-> "B", out |-> 1, to |-> "C"]}
MC_NumOutputs == [n \in MC_Nodes |-> IF n = "B" THEN 2 ELSE 1]
=============================================================================
