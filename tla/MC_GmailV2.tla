---------------------------- MODULE MC_GmailV2 ----------------------------
(* Two input items, so that one item's branch runs after another's; list  *)
(* requests return up to two records and the limit is 1, so a limit cuts  *)
(* a list; one non-default format besides ids and one search filter.      *)
EXTENDS GmailV2

CONSTANTS f1

MC_Limits == {1}
MC_Formats == {"full", "ids"}
MC_Filters == {f1}
=============================================================================
