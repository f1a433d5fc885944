--------------------------- MODULE MC_RoutingNode ---------------------------
(* A node type with one field of each kind:                               *)
(*   resource  options: "byId" sends qs.id, "all" sets paginate          *)
(*   filters   collection (with displayOptions): "status" sends           *)
(*             qs.status = $value with a preSend and a set hook; "max"    *)
(*             sets paginate false, maxResults 2 and a rootProperty hook  *)
(*   extra     fixed collection with its own routing.request.qs object;  *)
(*             its group repeats "tag", which sends qs.tag = $value       *)
(* The request defaults carry a qs object and offset pagination.  Two     *)
(* Up to two items per call, page size 1, up to two records.            *)
EXTENDS RoutingNode

CONSTANT v1

MC_Props == {"resource", "byId", "all", "fn", "filters", "status", "max",
             "extra", "grp", "tag"}

NoRouting ==
    [kind |-> "scalar", children |-> <<>>, routing |-> FALSE, request |-> {},
     sendKey |-> "none", sendLoc |-> "qs", sendValue |-> "$value",
     paginate |-> Unset, preSend |-> "none", postReceive |-> "none",
     maxResults |-> 0, operations |-> "none"]

Field(kind, kids) == [NoRouting EXCEPT !.kind = kind, !.children = kids]

MC_Schema ==
    [p \in MC_Props |->
        CASE p = "resource" -> Field("options", <<"byId", "all", "fn">>)
          [] p = "byId" -> [Field("option", <<>>) EXCEPT !.routing = TRUE,
                              !.sendKey = "id", !.sendValue = v1]
          [] p = "all" -> [Field("option", <<>>) EXCEPT !.routing = TRUE,
                              !.paginate = TRUE]
          [] p = "fn" -> [Field("option", <<>>) EXCEPT !.routing = TRUE,
                              !.paginate = TRUE, !.operations = "function"]
          [] p = "filters" -> Field("collection", <<"status", "max">>)
          [] p = "status" -> [Field("scalar", <<>>) EXCEPT !.routing = TRUE,
                              !.sendKey = "status", !.preSend = "h1",
                              !.postReceive = "h3"]
          [] p = "max" -> [Field("scalar", <<>>) EXCEPT !.routing = TRUE,
                              !.paginate = FALSE, !.maxResults = 2,
                              !.postReceive = "h2"]
          [] p = "extra" -> [Field("fixedCollection", <<"grp">>) EXCEPT
                              !.routing = TRUE, !.request = {"qs"}]
          [] p = "grp" -> Field("group", <<"tag">>)
          [] p = "tag" -> [Field("scalar", <<>>) EXCEPT !.routing = TRUE,
                              !.sendKey = "tag"]]

MC_TopProps == <<"resource", "filters", "extra">>
MC_Keys == {"id", "status", "tag", "limit", "offset"}
MC_Locs == {"qs"}
MC_Vals == {v1}
MC_Hooks == {"h1", "h2", "h3"}
MC_HookKind == [h \in MC_Hooks |->
                   CASE h = "h2" -> "rootProperty" [] OTHER -> "set"]

MC_Declared ==
    [p \in MC_Props |->
        [l \in MC_Locs |-> [k \in MC_Keys |->
            IF p = "extra" /\ k = "id" THEN v1 ELSE Absent]]]

MC_Defaults ==
    [request |-> {"qs"},
     obj |-> [l \in MC_Locs |-> [k \in MC_Keys |-> Absent]],
     operations |-> "offset"]

MC_Hideable == {"filters"}
MC_MaxReps == 1
MC_PageSize == 1
MC_MaxTotal == 2
MC_MaxResultsSet == {0, 2}
MC_MaxItems == 2
=============================================================================
