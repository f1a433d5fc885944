---------------------------- MODULE MC_PairedItem ----------------------------
(* A trigger A, a node B fed by A, and a merge node C whose input 0 is B *)
(* and input 1 is A.  Up to two items per node, so references may point  *)
(* past a node's output; references may name input 1 of B, which has no *)
(* source.  This covers a chain, a merge of two branches, a merge of two *)
(* items of one node, and every missing or dangling annotation.          *)
EXTENDS PairedItem

MC_NodeOrder == <<"A", "B", "C">>
MC_Conn == [n \in {"A", "B", "C"} |->
              CASE n = "A" -> <<>>
                [] n = "B" -> <<"A">>
                [] n = "C" -> <<"B", "A">>]
MC_MaxItems == 2
MC_MaxInputs == 2
=============================================================================
