------------------------ MODULE MC_RoutingPagination ------------------------
(* Page size 2, up to 5 items, maxResults unset or 1..5: totals below,   *)
(* at and across page boundaries, caps below, at and above them.         *)
EXTENDS RoutingPagination

MC_PageSize == 2
MC_MaxTotal == 5
MC_MaxResultsSet == 0..5
=============================================================================
