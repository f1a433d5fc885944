-------------------------- MODULE MicrosoftOutlook --------------------------
(***************************************************************************)
(* The execute method of the Microsoft Outlook node                       *)
(* (nodes-base/nodes/Microsoft/Outlook/MicrosoftOutlook.node.ts,          *)
(* L122-916).                                                              *)
(*                                                                         *)
(* resource and operation are read from item 0; each operation has its    *)
(* own loop over the items.  There is no try/catch: the first call that   *)
(* throws ends execute.  The query object qs is declared once, before the *)
(* loops, and the branches that read $select, $filter and $top write into *)
(* it; what one item leaves there is sent with the next item's request.   *)
(* getMime and download replace the input item by a copy with the file    *)
(* attached and return the items.                                         *)
(*                                                                         *)
(* A call of microsoftApiRequest (or of the upload request) is recorded   *)
(* with its item, its method, its endpoint (a tag) and its query object. *)
(***************************************************************************)
EXTENDS Naturals, Sequences, FiniteSets

CONSTANTS
    NumItems,     \* the number of input items
    MaxResults,   \* bound: records a list request returns
    Limits,       \* values of the limit parameter
    Fields,       \* values of additionalFields.fields
    FilterVals,   \* values of additionalFields.filter
    Unset,        \* an additional field that is not set
    Absent        \* a query key that is not present

VARIABLES
    resource,     \* getNodeParameter('resource', 0) (L129)
    operation,    \* getNodeParameter('operation', 0) (L130)
    prm,          \* prm[k]: the parameters of item k
    i,            \* the item the running loop is on
    qs,           \* the query object declared before the loops (L126)
    returnData,   \* the entries pushed so far, with their item
    attached,     \* the items replaced by a copy with a file (getMime, download)
    pc,           \* "loop", "returned" or "threw"
    output,       \* what execute returns: "items", "json" or "raw"
    requests      \* history: every request sent, with its item

vars == <<resource, operation, prm, i, qs, returnData, attached, pc, output,
          requests>>

Ops ==
    [message |-> {"create", "createReply", "delete", "get", "getMime", "getAll",
                  "move", "update", "send", "sendDraft"},
     messageAttachment |-> {"add", "download", "get", "getAll"},
     folder |-> {"create", "delete", "get", "getAll", "getChildren", "update"},
     folderMessage |-> {"getAll"}]

Resources == DOMAIN Ops

\* $select's default in the attachment operations (L653, L676).
DefaultSelect == "attachmentFields"

Qs == [select: Fields \cup {DefaultSelect, "id,name,contentType", Absent},
       filter: FilterVals \cup {Absent}, top: Limits \cup {Absent}]
EmptyQs == [select |-> Absent, filter |-> Absent, top |-> Absent]

Request == [method: {"GET", "POST", "PATCH", "PUT", "DELETE"}, ep: STRING, qs: Qs]
Logged == [item: Nat, req: Request]

\* The parameters of an item, as far as the branches tell them apart.
Params ==
    [fields: Fields \cup {Unset}, filter: FilterVals \cup {Unset},
     returnAll: BOOLEAN, limit: Limits, prefix: BOOLEAN, replyAll: BOOLEAN,
     attachments: BOOLEAN, binaryOk: BOOLEAN, big: BOOLEAN]

Entry == [item: Nat, kind: {"obj", "exec"}]

TypeOK ==
    /\ resource \in Resources /\ operation \in Ops[resource]
    /\ prm \in [0..(NumItems - 1) -> Params]
    /\ i \in 0..NumItems
    /\ qs \in Qs
    /\ returnData \in Seq(Entry)
    /\ attached \subseteq 0..(NumItems - 1)
    /\ pc \in {"loop", "returned", "threw"}
    /\ output \in {"none", "items", "json", "raw"}
    /\ requests \in Seq(Logged)

-----------------------------------------------------------------------------
(* The branches.  A branch run is its calls, each with the query object  *)
(* as it stands when the call is made, the query object at the end, the   *)
(* entries it pushes, whether it returns from execute at once, and        *)
(* whether it throws after its calls (a missing binary, no upload URL).   *)

Call(q, m, ep, rq) == [pre |-> q, req |-> [method |-> m, ep |-> ep, qs |-> rq]]
Run(calls, q, out, ret, err) ==
    [calls |-> calls, fin |-> q, out |-> out, ret |-> ret, err |-> err]
Many(k, n) == [j \in 1..n |-> k]
MinOf(a, b) == IF a < b THEN a ELSE b

\* if (additionalFields.fields) qs['$select'] = ...; likewise $filter.
SetFields(q, p) == IF p.fields = Unset THEN q ELSE [q EXCEPT !.select = p.fields]
SetFilter(q, p) == IF p.filter = Unset THEN q ELSE [q EXCEPT !.filter = p.filter]

\* The attachments of createMessage and their binary checks, which throw
\* when the item has no such binary property.
NoBinary(p) == p.attachments /\ ~p.binaryOk

\* A list: microsoftApiRequestAllItems when returnAll, otherwise one
\* request with $top = limit, which the API honours.  asBody: the call
\* passes qs in the position of the body, and no query.
ListRun(q, p, ep, n, asBody, out) ==
    IF p.returnAll
    THEN Run(<<IF asBody THEN Call(q, "GET", ep, EmptyQs)
               ELSE Call(q, "GET", ep, q)>>, q, Many(out, n), FALSE, FALSE)
    ELSE LET q1 == [q EXCEPT !.top = p.limit]
         IN  Run(<<Call(q1, "GET", ep, q1)>>, q1,
                 Many(out, MinOf(n, p.limit)), FALSE, FALSE)

One(q, m, ep, rq) == Run(<<Call(q, m, ep, rq)>>, q, <<"obj">>, FALSE, FALSE)

\* message.move, update, send and sendDraft (L389-511).
MessageSendRun(o, p, q) ==
    CASE o \in {"move", "update"} ->
           One(q, IF o = "move" THEN "POST" ELSE "PATCH", "message", EmptyQs)
      [] o = "send" ->
           IF NoBinary(p) THEN Run(<<>>, q, <<>>, FALSE, TRUE)
           ELSE One(q, "POST", "sendMail", EmptyQs)
      [] o = "sendDraft" ->
           \* split(',') never gives an empty array, so the PATCH always runs
           Run(<<Call(q, "PATCH", "message", EmptyQs),
                 Call(q, "POST", "send", EmptyQs)>>, q, <<"obj">>, FALSE, FALSE)

\* resource 'message' (L132-512).
MessageRun(o, p, q, n) ==
    CASE o = "create" ->
           IF NoBinary(p) THEN Run(<<>>, q, <<>>, FALSE, TRUE)
           ELSE One(q, "POST", "messages", EmptyQs)
      [] o = "createReply" ->
           \* the reply is created first; the binary checks of its
           \* attachments run after it, then one upload per attachment
           LET reply == Call(q, "POST", IF p.replyAll THEN "createReplyAll" ELSE "createReply",
                             EmptyQs)
               upload == Call(q, "POST", "attachments", EmptyQs)
           IN  Run(<<reply>> \o (IF p.attachments /\ p.binaryOk THEN <<upload>> ELSE <<>>),
                   q, <<"obj">>, FALSE, NoBinary(p))
      [] o = "delete" -> One(q, "DELETE", "message", EmptyQs)
      [] o = "get" ->
           \* with an attachment prefix, the attachments are downloaded
           LET q1 == SetFilter(SetFields(q, p), p)
           IN  IF p.prefix
               THEN Run(<<Call(q1, "GET", "message", q1),
                          Call(q1, "GET", "attachments", EmptyQs)>>,
                        q1, <<"exec">>, TRUE, FALSE)
               ELSE Run(<<Call(q1, "GET", "message", q1)>>, q1, <<"obj">>, FALSE, FALSE)
      [] o = "getMime" ->
           Run(<<Call(q, "GET", "mime", EmptyQs)>>, q, <<>>, FALSE, FALSE)
      [] o = "getAll" ->
           LET l == ListRun(SetFilter(SetFields(q, p), p), p, "messages", n, FALSE,
                            IF p.prefix THEN "exec" ELSE "obj")
           IN  IF p.prefix
               THEN [l EXCEPT !.calls = @ \o <<Call(l.fin, "GET", "attachments", EmptyQs)>>]
               ELSE l
      [] OTHER -> MessageSendRun(o, p, q)

\* resource 'messageAttachment' (L514-708).
AttachmentRun(o, p, q, n) ==
    CASE o = "add" ->
           \* over 3 MB: an upload session and the chunks; otherwise one POST
           IF ~p.binaryOk THEN Run(<<>>, q, <<>>, FALSE, TRUE)
           ELSE IF p.big
           THEN Run(<<Call(q, "POST", "uploadSession", EmptyQs),
                      Call(q, "PUT", "uploadUrl", EmptyQs)>>, q, <<"obj">>, FALSE, FALSE)
           ELSE One(q, "POST", "attachments", EmptyQs)
      [] o = "download" ->
           Run(<<Call(q, "GET", "attachment",
                      [EmptyQs EXCEPT !.select = "id,name,contentType"]),
                 Call(q, "GET", "attachmentValue", EmptyQs)>>,
               q, <<>>, FALSE, FALSE)
      [] o = "get" ->
           LET q1 == SetFields([q EXCEPT !.select = DefaultSelect], p)
           IN  One(q1, "GET", "attachment", q1)
      [] o = "getAll" ->
           ListRun(SetFilter(SetFields([q EXCEPT !.select = DefaultSelect], p), p), p,
                   "attachments", n, FALSE, "obj")

\* resources 'folder' and 'folderMessage' (L710-908).
FolderRun(r, o, p, q, n) ==
    CASE r = "folderMessage" ->
           ListRun(SetFields(q, p), p, "folderMessages", n, TRUE, "obj")
      [] o \in {"create", "update"} ->
           One(q, IF o = "create" THEN "POST" ELSE "PATCH", "folder", EmptyQs)
      [] o = "delete" -> One(q, "DELETE", "folder", EmptyQs)
      [] o = "get" ->
           LET q1 == SetFilter(SetFields(q, p), p)
           IN  One(q1, "GET", "folder", q1)
      [] o \in {"getAll", "getChildren"} ->
           ListRun(SetFilter(SetFields(q, p), p), p, o, n, o = "getChildren", "obj")

BranchRun(r, o, p, q, n) ==
    CASE r = "message" -> MessageRun(o, p, q, n)
      [] r = "messageAttachment" -> AttachmentRun(o, p, q, n)
      [] OTHER -> FolderRun(r, o, p, q, n)

\* The parameters branch o of resource r reads; the others keep their default.
Reads(r, o) ==
    CASE o \in {"create", "send"} -> {"attachments", "binaryOk"}
      [] o = "createReply" -> {"replyAll", "attachments", "binaryOk"}
      [] o = "add" -> {"binaryOk", "big"}
      [] r = "folderMessage" -> {"fields", "returnAll", "limit"}
      [] r = "message" /\ o = "get" -> {"fields", "filter", "prefix"}
      [] r = "message" /\ o = "getAll" -> {"fields", "filter", "returnAll", "limit", "prefix"}
      [] o = "get" /\ r = "messageAttachment" -> {"fields"}
      [] o = "get" -> {"fields", "filter"}
      [] o \in {"getAll", "getChildren"} -> {"fields", "filter", "returnAll", "limit"}
      [] OTHER -> {}

DefaultParams ==
    [fields |-> Unset, filter |-> Unset, returnAll |-> FALSE,
     limit |-> CHOOSE l \in Limits : \A m \in Limits : l <= m, prefix |-> FALSE,
     replyAll |-> FALSE, attachments |-> FALSE, binaryOk |-> TRUE, big |-> FALSE]

ParamsFor(r, o) ==
    {p \in Params : \A f \in DOMAIN p : f \notin Reads(r, o) => p[f] = DefaultParams[f]}

Init ==
    /\ resource \in Resources /\ operation \in Ops[resource]
    /\ prm \in [0..(NumItems - 1) -> ParamsFor(resource, operation)]
    /\ i = 0 /\ qs = EmptyQs
    /\ returnData = <<>> /\ attached = {}
    /\ pc = "loop" /\ output = "none" /\ requests = <<>>

Tag(calls) == [j \in 1..Len(calls) |-> [item |-> i, req |-> calls[j].req]]

\* One turn of the running operation's loop for item i: the branch either
\* throws at one of its calls (call 0: before the first request) or after
\* them, which ends execute; or it pushes its entries, and getMime and
\* download replace the item (L315-334, L627-642).  message.get with an
\* attachment prefix returns from inside the loop (L292-294).
ExecuteItem ==
    /\ pc = "loop" /\ i < NumItems
    /\ \E n \in 0..MaxResults, fails \in BOOLEAN :
         LET run == BranchRun(resource, operation, prm[i], qs, n)
         IN  \E f \in IF fails THEN 0..Len(run.calls) ELSE {Len(run.calls)} :
               /\ requests' = requests \o Tag(SubSeq(run.calls, 1, f))
               /\ IF fails \/ run.err
                  THEN /\ pc' = "threw"
                       /\ qs' = IF f = 0 THEN qs ELSE run.calls[f].pre
                       /\ UNCHANGED <<i, returnData, attached, output>>
                  ELSE /\ qs' = run.fin
                       /\ returnData' = returnData \o
                             [j \in 1..Len(run.out) |-> [item |-> i, kind |-> run.out[j]]]
                       /\ attached' = IF operation \in {"getMime", "download"}
                                      THEN attached \cup {i} ELSE attached
                       /\ i' = i + 1
                       /\ IF run.ret THEN pc' = "returned" /\ output' = "raw"
                          ELSE UNCHANGED <<pc, output>>
    /\ UNCHANGED <<resource, operation, prm>>

\* The loop is over.  message.getAll returns the entries as they are when
\* the last item's additionalFields has an attachment prefix (L384-386);
\* getMime and download return the items; the others wrap every entry
\* with returnJsonArray (L910-915).
Finish ==
    /\ pc = "loop" /\ i = NumItems
    /\ pc' = "returned"
    /\ output' = CASE operation \in {"getMime", "download"} -> "items"
                   [] resource = "message" /\ operation = "getAll"
                      /\ prm[NumItems - 1].prefix -> "raw"
                   [] OTHER -> "json"
    /\ UNCHANGED <<resource, operation, prm, i, qs, returnData, attached, requests>>

Next == ExecuteItem \/ Finish

Spec == Init /\ [][Next]_vars

-----------------------------------------------------------------------------
(* Properties *)

\* Every input item is handled: when execute returns, each item's branch
\* ran and sent its requests (every branch sends at least one).
EveryItemProcessed ==
    pc = "returned" =>
        \A k \in 0..(NumItems - 1) : \E j \in 1..Len(requests) : requests[j].item = k

=============================================================================
