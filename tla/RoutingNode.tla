---------------------------- MODULE RoutingNode ----------------------------
(***************************************************************************)
(* RoutingNode.runNode (packages/workflow/src/RoutingNode.ts): successive *)
(* calls of a declarative node type, each over its input items one after  *)
(* another.  Per item: the request is composed (RoutingOptions), the      *)
(* preSend hooks run, and makeRoutingRequest either runs the offset       *)
(* pagination loop (the actions of RoutingPagination, instantiated on     *)
(* this module's variables), calls the custom pagination function, or    *)
(* issues one request whose body goes through the postReceive pipeline.  *)
(* The result is trimmed to maxResults and pushed; a failure becomes an   *)
(* error item under continueOnFail and aborts the call otherwise.         *)
(*                                                                         *)
(* The node type description, and with it the objects in desc, is one    *)
(* object shared by every call of the node type.                          *)
(***************************************************************************)
EXTENDS RoutingOptions

CONSTANTS
    PageSize,       \* the offset pagination's pageSize
    MaxTotal,       \* bound: items an API holds, or a body carries
    MaxResultsSet,  \* the maxResults values the schema can produce (0: unset)
    HookKind,       \* HookKind[h]: a postReceive hook's type
    LimitKey,       \* the pagination's limitParameter
    OffsetKey,      \* the pagination's offsetParameter
    MaxItems,       \* bound: input items of one call
    MaxRuns         \* bound: calls of the node type

VARIABLES
    desc,           \* the description objects, shared by all calls
    runs,           \* runNode calls started
    prm,            \* the node parameters of the current call
    cof,            \* node.continueOnFail
    items,          \* input items of the current call
    item,           \* the item being processed (from 0)
    req,            \* requestData of the item
    paged,          \* the item runs the offset pagination loop
    returnData,     \* per processed item: its item count, or an error item
    outcome,        \* "none", "returned" or "threw"
    rnPc,           \* "idle", "build", "send", "page", "failed"
    \* makeRoutingRequest's loop and runNode's trim (RoutingPagination):
    total, honorsLimit, maxResults, offset, limit, responseData, pages,
    output, pc

pgVars == <<total, honorsLimit, maxResults, offset, limit, responseData,
            pages, output, pc>>
rnVars == <<desc, runs, prm, cof, items, item, req, paged, returnData,
            outcome, rnPc>>
vars == <<rnVars, pgVars>>

Pg == INSTANCE RoutingPagination

\* A response body: an array of n records, an object whose property holds
\* an array of n records, or an object without it.
Bodies ==
    {[array |-> TRUE, n |-> k, hasProp |-> FALSE] : k \in 0..MaxTotal}
    \cup {[array |-> FALSE, n |-> k, hasProp |-> TRUE] : k \in 0..MaxTotal}
    \cup {[array |-> FALSE, n |-> 0, hasProp |-> FALSE]}

Value == Vals \cup {Undef, Absent} \cup Nat

TypeOK ==
    /\ desc \in [Owners -> [Locs -> [Keys -> Value]]]
    /\ runs \in 0..MaxRuns
    /\ prm \in ValidParams
    /\ cof \in BOOLEAN
    /\ items \in 1..MaxItems /\ item \in 0..(items - 1)
    /\ req \in {NoOpts} \cup [obj: [Locs -> [Keys -> Value]],
                              paginate: BOOLEAN \cup {Unset}, maxResults: Nat,
                              preSend: Seq(Hooks), postReceive: Seq(Hooks),
                              ops: OpsKinds]
    /\ paged \in BOOLEAN
    /\ returnData \in Seq([item: 0..(MaxItems - 1), ok: BOOLEAN, n: Nat])
    /\ outcome \in {"none", "returned", "threw"}
    /\ rnPc \in {"idle", "build", "send", "page", "failed"}
    /\ Pg!TypeOK

\* makeRoutingRequest's locals before a call.
PgIdle ==
    /\ total = 0 /\ honorsLimit = TRUE /\ maxResults = 0 /\ offset = 0
    /\ limit = PageSize /\ responseData = 0 /\ pages = 0 /\ output = 0
    /\ pc = "done"

PgReset ==
    /\ total' = 0 /\ honorsLimit' = TRUE /\ maxResults' = 0 /\ offset' = 0
    /\ limit' = PageSize /\ responseData' = 0 /\ pages' = 0 /\ output' = 0
    /\ pc' = "done"

Init ==
    /\ desc = InitDesc
    /\ runs = 0
    /\ prm = CHOOSE p \in ValidParams : TRUE
    /\ cof = FALSE /\ items = 1 /\ item = 0
    /\ req = NoOpts /\ paged = FALSE
    /\ returnData = <<>> /\ outcome = "none" /\ rnPc = "idle"
    /\ PgIdle

-----------------------------------------------------------------------------
\* One postReceive hook applied to the items so far (L259-319): a
\* rootProperty hook takes the records under the property and throws when
\* they are not an array; set and binaryData write into returnData[0].
Fails == [ok |-> FALSE, n |-> 0]
Yields(n) == [ok |-> TRUE, n |-> n]

PostStep(res, h, body) ==
    IF ~res.ok THEN Fails
    ELSE CASE HookKind[h] = "rootProperty" ->
                IF body.array THEN IF body.n = 0 THEN Yields(0) ELSE Fails
                ELSE IF body.hasProp THEN Yields(body.n) ELSE Fails
         []   OTHER -> IF res.n = 0 THEN Fails ELSE res

\* rawRoutingRequest's items for a body (L236-335): one empty item to start,
\* then the hooks; with no hook an array body gives one item per record.
rawRoutingRequest(hooks, body) ==
    IF hooks = <<>> THEN Yields(IF body.array THEN body.n ELSE 1)
    ELSE FoldLeft(LAMBDA c, h : PostStep(c, h, body), Yields(1), hooks)

\* Fault variant: the loop test is off by one.
NextItem_offByOne ==
    IF item < items
    THEN item' = item + 1 /\ rnPc' = "build" /\ UNCHANGED outcome
    ELSE item' = item /\ rnPc' = "idle" /\ outcome' = "returned"

\* After the last item runNode returns; otherwise the next item starts.
NextItem ==
    IF item + 1 < items
    THEN item' = item + 1 /\ rnPc' = "build" /\ UNCHANGED outcome
    ELSE item' = item /\ rnPc' = "idle" /\ outcome' = "returned"

\* The pagination loop wrote limitParameter and offsetParameter into
\* requestData.options.qs, which is requestDefaults.qs when that is set.
PagingWrites(d) ==
    IF paged /\ "qs" \in Aliased("defaults")
    THEN [d EXCEPT !["defaults"]["qs"][LimitKey] = limit,
                   !["defaults"]["qs"][OffsetKey] = offset]
    ELSE d

-----------------------------------------------------------------------------
(* runNode *)

\* runNode is called for a node of this type with some parameters.
StartRun ==
    /\ rnPc = "idle" /\ runs < MaxRuns
    /\ \E p \in ValidParams, n \in 1..MaxItems, c \in BOOLEAN :
          prm' = p /\ items' = n /\ cof' = c
    /\ runs' = runs + 1
    /\ item' = 0 /\ returnData' = <<>> /\ outcome' = "none"
    /\ rnPc' = "build"
    /\ req' = NoOpts /\ paged' = FALSE /\ PgReset
    /\ UNCHANGED desc

\* The item's requestData (L121-176).
Build ==
    /\ rnPc = "build"
    /\ LET b == BuildRequest(prm, desc)
       IN  req' = b.o /\ desc' = b.d
    /\ paged' = FALSE /\ PgReset
    /\ rnPc' = "send"
    /\ UNCHANGED <<runs, prm, cof, items, item, returnData, outcome>>

\* makeRoutingRequest with offset pagination: limit and offset set, then
\* the do ... while loop (L387-395).
SendPaginated ==
    /\ rnPc = "send"
    /\ req.paginate = TRUE /\ req.ops = "offset"
    /\ \E t \in 0..MaxTotal, h \in BOOLEAN : total' = t /\ honorsLimit' = h
    /\ maxResults' = req.maxResults
    /\ offset' = 0 /\ limit' = PageSize /\ responseData' = 0
    /\ pages' = 0 /\ output' = 0 /\ pc' = "loop"
    /\ paged' = TRUE /\ rnPc' = "page"
    /\ UNCHANGED <<desc, runs, prm, cof, items, item, req, returnData, outcome>>

\* Pagination by function: the node's function collects the items
\* (L372-377).
SendCustom ==
    /\ rnPc = "send"
    /\ req.paginate = TRUE /\ req.ops = "function"
    /\ \E n \in 0..MaxTotal : responseData' = n
    /\ maxResults' = req.maxResults /\ output' = 0 /\ pc' = "trim"
    /\ rnPc' = "page"
    /\ UNCHANGED <<desc, runs, prm, cof, items, item, req, paged, returnData,
                   outcome, total, honorsLimit, offset, limit, pages>>

\* No pagination: one rawRoutingRequest (L436-446).
SendSingle ==
    /\ rnPc = "send"
    /\ ~(req.paginate = TRUE /\ req.ops # "none")
    /\ \E body \in Bodies :
          LET r == rawRoutingRequest(req.postReceive, body)
          IN  IF ~r.ok
              THEN rnPc' = "failed" /\ UNCHANGED <<responseData, pc>>
              ELSE rnPc' = "page" /\ responseData' = r.n /\ pc' = "trim"
    /\ maxResults' = req.maxResults /\ output' = 0
    /\ UNCHANGED <<desc, runs, prm, cof, items, item, req, paged, returnData,
                   outcome, total, honorsLimit, offset, limit, pages>>

\* A preSend hook or the HTTP request throws.
RequestFails ==
    /\ rnPc = "send" \/ (rnPc = "page" /\ pc = "loop" /\ paged)
    /\ rnPc' = "failed"
    /\ UNCHANGED <<desc, runs, prm, cof, items, item, req, paged, returnData,
                   outcome, pgVars>>

\* A step of the pagination loop or runNode's splice.
Page ==
    /\ rnPc = "page"
    /\ \/ Pg!PaginateDone \/ Pg!PaginateRequest \/ Pg!TrimToMaxResults
    /\ UNCHANGED rnVars

\* returnData.push(...responseData) and the next item (L193).
ItemDone ==
    /\ rnPc = "page" /\ pc = "done"
    /\ returnData' = Append(returnData, [item |-> item, ok |-> TRUE, n |-> output])
    /\ desc' = PagingWrites(desc)
    /\ NextItem
    /\ UNCHANGED <<runs, prm, cof, items, req, paged, pgVars>>

\* Fault variant: the catch pushes the error item and returns.
ItemFail_noContinue ==
    /\ rnPc = "failed"
    /\ desc' = PagingWrites(desc)
    /\ IF cof
       THEN /\ returnData' = Append(returnData, [item |-> item, ok |-> FALSE, n |-> 0])
            /\ rnPc' = "idle" /\ outcome' = "returned" /\ UNCHANGED item
       ELSE rnPc' = "idle" /\ outcome' = "threw" /\ UNCHANGED <<returnData, item>>
    /\ UNCHANGED <<runs, prm, cof, items, req, paged, pgVars>>

\* The catch (L194-199): under continueOnFail an error item, and the loop
\* goes on; otherwise the error leaves runNode.
ItemFail ==
    /\ rnPc = "failed"
    /\ desc' = PagingWrites(desc)
    /\ IF cof
       THEN /\ returnData' = Append(returnData, [item |-> item, ok |-> FALSE, n |-> 0])
            /\ NextItem
       ELSE rnPc' = "idle" /\ outcome' = "threw" /\ UNCHANGED <<returnData, item>>
    /\ UNCHANGED <<runs, prm, cof, items, req, paged, pgVars>>

Next ==
    \/ StartRun \/ Build \/ SendPaginated \/ SendCustom \/ SendSingle
    \/ RequestFails \/ Page \/ ItemDone \/ ItemFail

Spec == Init /\ [][Next]_vars

-----------------------------------------------------------------------------
(* Properties *)

\* The composed request follows the field schema in depth-first order
\* (spec 4.2 step 3): the first paginate flag set wins, the last truthy
\* maxResults wins, hooks are concatenated in walk order, and the last
\* requestOperations set wins.  This checks the recursion of
\* getRequestOptionsFromParameters and mergeOptions against the flat order.
WalkFollowsPreorder ==
    rnPc = "send" =>
        /\ req.paginate = RefPaginate(prm)
        /\ req.maxResults = RefMaxResults(prm)
        /\ req.preSend = RefHooks(prm, "pre")
        /\ req.postReceive = RefHooks(prm, "post")
        /\ req.ops = RefOps(prm)

\* runNode implements the node execution contract (spec 4.2, error/edge
\* policy): under the mapping below, every call is an invocation of
\* NodeExecution whose items are handled in order, each adding one entry
\* (its items, or the error item under continueOnFail) to the end of
\* returnData; a failure without continueOnFail throws, and the call
\* returns after its last item.  The steps inside an item (build, send,
\* pages, trim) are stuttering steps of the contract.
NE == INSTANCE NodeExecution
        WITH MaxEntries <- 1, OkKinds <- {"ok"},
             status <- IF outcome # "none" THEN outcome
                       ELSE IF rnPc = "idle" THEN "idle" ELSE "running",
             count <- items, continueOnFail <- cof, next <- Len(returnData),
             out <- [j \in 1..Len(returnData) |->
                       [item |-> returnData[j].item,
                        kind |-> IF returnData[j].ok THEN "ok" ELSE "error"]]

ImplementsNodeExecution == NE!Spec

\* Spec 4.2 and its example: the query and body sent for an item are the
\* request defaults merged with what this item's visited fields write, and
\* nothing from fields not visited (an unselected option, an absent
\* collection key) or from an earlier item or call.  The pagination
\* parameters are rewritten by the loop before they are sent.  An undefined
\* value is dropped when the request is serialised, so it counts as absent.
Sent(v) == IF v = Undef THEN Absent ELSE v

RequestReflectsParameters ==
    rnPc = "send" =>
        \A l \in Locs, k \in Keys :
            ~(l = "qs" /\ k \in {LimitKey, OffsetKey}
              /\ req.paginate = TRUE /\ req.ops = "offset")
            => Sent(req.obj[l][k]) = Sent(RefObj(l, prm)[k])

=============================================================================
