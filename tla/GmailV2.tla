------------------------------ MODULE GmailV2 ------------------------------
(***************************************************************************)
(* The execute method of the Gmail v2 node                                *)
(* (nodes-base/nodes/Google/Gmail/v2/GmailV2.node.ts, L202-1017).         *)
(*                                                                         *)
(* The node reads resource and operation once, from item 0, and then runs *)
(* one branch per input item inside a try/catch.  The locals method, body *)
(* and qs are declared once, before the loop, and every branch assigns     *)
(* some of them and reads others: what one item leaves in them is what    *)
(* the next item starts from.  endpoint and responseData are assigned     *)
(* before every use and are not state.                                     *)
(*                                                                         *)
(* A call of googleApiRequest is recorded as a request: its method, its   *)
(* endpoint (a tag), its body (a tag naming what the body holds) and its  *)
(* query object.  A request, or the work right after it (parsing the      *)
(* reply, reading its headers), may throw; so may getNodeParameter before *)
(* any request.  A list request returns some number of records.           *)
(***************************************************************************)
EXTENDS Naturals, Sequences, FiniteSets

CONSTANTS
    NumItems,     \* the number of input items
    MaxResults,   \* bound: records a list request returns
    Limits,       \* values of the limit parameter
    Formats,      \* values of options.format when it is set
    Filters,      \* search options, as buildQuery turns them into q
    Unset,        \* an option that is not set
    Absent        \* a query key that is not present

VARIABLES
    resource,     \* getNodeParameter('resource', 0) (L205)
    operation,    \* getNodeParameter('operation', 0) (L206)
    cof,          \* continueOnFail()
    prm,          \* prm[k]: the parameters of item k
    i,            \* the loop index
    method,       \* the locals declared before the loop (L208-210)
    body,
    qs,
    returnData,   \* the entries pushed so far, with the item they came from
    pc,           \* "loop", "returned" or "threw"
    requests,     \* history: every request sent, with its item
    failed        \* history: the items whose branch threw

vars == <<resource, operation, cof, prm, i, method, body, qs, returnData,
          pc, requests, failed>>

Ops ==
    [label   |-> {"create", "delete", "get", "getAll", "addLabels", "removeLabels"},
     message |-> {"send", "reply", "get", "getAll", "delete", "markAsRead",
                  "markAsUnread"},
     draft   |-> {"create", "get", "delete", "getAll"},
     thread  |-> {"delete", "get", "getAll", "reply", "trash", "untrash"}]

Resources == DOMAIN Ops

QsKeys == {"format", "maxResults", "userId", "uploadType", "q"}
Qs ==
    [format: Formats \cup {"raw", "metadata", "minimal", "resolved", Absent},
     maxResults: Limits \cup {Absent}, userId: {"me", Absent},
     uploadType: {"media", Absent}, q: Filters \cup {Absent}]
EmptyQs == [k \in QsKeys |-> Absent]

\* qs = { userId: 'me', uploadType: 'media' } when attachments are sent.
AttachQs == [EmptyQs EXCEPT !.userId = "me", !.uploadType = "media"]

Bodies == {"empty", "label", "addLabelIds", "removeLabelIds", "raw",
           "rawThread", "draft", "addUnread", "removeUnread"}
Methods == {"", "GET", "POST", "DELETE"}

Request == [method: Methods, ep: STRING, body: Bodies, qs: Qs]
Logged == [item: Nat, req: Request]

\* The parameters an item's branch reads; the others keep their default.
Params ==
    [returnAll: BOOLEAN, limit: Limits, format: Formats \cup {Unset},
     filter: Filters \cup {Unset}, attach: BOOLEAN, sender: BOOLEAN,
     onlyMessages: BOOLEAN]

Locals == [method: Methods, body: Bodies, qs: Qs]

Entry == [item: Nat, kind: {"obj", "exec", "error"}]

TypeOK ==
    /\ resource \in Resources /\ operation \in Ops[resource]
    /\ cof \in BOOLEAN
    /\ prm \in [0..(NumItems - 1) -> Params]
    /\ i \in 0..NumItems
    /\ [method |-> method, body |-> body, qs |-> qs] \in Locals
    /\ returnData \in Seq(Entry)
    /\ pc \in {"loop", "returned", "threw"}
    /\ requests \in Seq(Logged)
    /\ failed \subseteq 0..(NumItems - 1)

-----------------------------------------------------------------------------
(* The branches.  A branch run is the sequence of its calls, each with    *)
(* the locals as they stand when the call is made, the locals at the end  *)
(* and the entries it pushes (L999-1003).                                  *)

Call(L, m, ep, b, q) == [pre |-> L, req |-> [method |-> m, ep |-> ep, body |-> b, qs |-> q]]
Run(calls, L, out) == [calls |-> calls, fin |-> L, out |-> out]
Many(k, n) == [j \in 1..n |-> k]
MinOf(a, b) == IF a < b THEN a ELSE b

\* options.format || 'resolved', and the format put in the query for it.
MsgFormat(p) == IF p.format = Unset THEN "resolved" ELSE p.format
QsFormat(f) == IF f = "resolved" THEN "raw" ELSE f

\* Object.assign(qs, buildQuery(options)): the search options become q.
buildQuery(q, p) == IF p.filter = Unset THEN q ELSE [q EXCEPT !.q = p.filter]

\* The profile lookup for options.senderName (L336-342, L444-450).
Profile(L, p) ==
    IF p.sender THEN <<Call(L, "GET", "profile", "empty", EmptyQs)>> ELSE <<>>

\* A fetched list: returnAll pages through everything, otherwise one
\* request with maxResults = limit, which the API honours.
ListCall(L, p, ep) ==
    IF p.returnAll THEN Call(L, "GET", ep \o "All", "empty", L.qs)
    ELSE Call(L, "GET", ep, "empty", L.qs)
ListQs(L, p) ==
    IF p.returnAll THEN L.qs ELSE [L.qs EXCEPT !.maxResults = p.limit]
Listed(p, n) == IF p.returnAll THEN n ELSE MinOf(n, p.limit)

\* resource 'label' (L216-300).
LabelRun(o, p, L, n) ==
    CASE o = "create" ->
           LET L1 == [L EXCEPT !.method = "POST", !.body = "label"]
           IN  Run(<<Call(L1, "POST", "labels", "label", L1.qs)>>, L1, <<"obj">>)
      [] o \in {"delete", "get"} ->
           LET m == IF o = "get" THEN "GET" ELSE "DELETE"
               L1 == [L EXCEPT !.method = m]
           IN  Run(<<Call(L1, m, "label", L.body, L.qs)>>, L1, <<"obj">>)
      [] o = "getAll" ->
           Run(<<Call(L, "GET", "labels", "empty", L.qs)>>, L,
               Many("obj", Listed(p, n)))
      [] o \in {"addLabels", "removeLabels"} ->
           LET b == IF o = "addLabels" THEN "addLabelIds" ELSE "removeLabelIds"
               L1 == [L EXCEPT !.method = "POST", !.body = b]
           IN  Run(<<Call(L1, "POST", "modify", b, L1.qs)>>, L1, <<"obj">>)

\* message.reply and thread.reply (L365-472, L869-977): the message is
\* fetched with the method left in the local, then the reply is sent.
ReplyRun(p, L) ==
    LET L1 == IF p.attach THEN [L EXCEPT !.qs = AttachQs] ELSE L
        L2 == [L1 EXCEPT !.qs.format = "metadata"]
        L3 == [L2 EXCEPT !.method = "POST", !.body = "rawThread"]
    IN  Run(<<Call(L2, L2.method, "message", L2.body, L2.qs)>>
              \o Profile(L2, p)
              \o <<Call(L3, "POST", "send", "rawThread", L3.qs)>>,
            L3, <<"obj">>)

\* Fault variant: options.format is put in the query without its default.
GetRun_noDefault(p, L, ep) ==
    LET L1 == [L EXCEPT !.method = "GET", !.qs.format = p.format]
    IN  Run(<<Call(L1, "GET", ep, L.body, L1.qs)>>, L1, <<"exec">>)

\* message.get and draft.get (L473-509, L680-722).
GetRun(p, L, ep) ==
    LET L1 == [L EXCEPT !.method = "GET", !.qs.format = QsFormat(MsgFormat(p))]
    IN  Run(<<Call(L1, "GET", ep, L.body, L1.qs)>>, L1, <<"exec">>)

\* message.getAll and draft.getAll (L510-574, L734-802): list, then fetch
\* every listed record unless only ids are asked for.
GetAllRun(p, L, n, ep, L0) ==
    LET L1 == [L0 EXCEPT !.qs = ListQs(L0, p)]
        k == Listed(p, n)
        f == MsgFormat(p)
        L2 == IF f = "ids" THEN L1 ELSE [L1 EXCEPT !.qs.format = QsFormat(f)]
    IN  Run(<<ListCall(L1, p, ep \o "s")>>
              \o Many(Call(L2, "GET", ep, L.body, L2.qs), IF f = "ids" THEN 0 ELSE k),
            L2, Many("exec", k))

\* message.send (L302-364).
SendRun(p, L) ==
    LET L1 == IF p.attach THEN [L EXCEPT !.qs = AttachQs] ELSE L
        L2 == [L1 EXCEPT !.method = "POST", !.body = "raw"]
    IN  Run(Profile(L1, p) \o <<Call(L2, "POST", "send", "raw", L2.qs)>>,
            L2, <<"obj">>)

\* message.delete, markAsRead and markAsUnread (L575-613); the latter two
\* use a block-scoped body and pass no query object.
ModifyRun(o, L) ==
    IF o = "delete"
    THEN LET L1 == [L EXCEPT !.method = "DELETE"]
         IN  Run(<<Call(L1, "DELETE", "message", L.body, L.qs)>>, L1, <<"obj">>)
    ELSE LET b == IF o = "markAsRead" THEN "removeUnread" ELSE "addUnread"
             L1 == [L EXCEPT !.method = "POST"]
         IN  Run(<<Call(L1, "POST", "modify", b, EmptyQs)>>, L1, <<"obj">>)

\* resource 'message' (L301-613).
MessageRun(o, p, L, n) ==
    CASE o = "send" -> SendRun(p, L)
      [] o = "reply" -> ReplyRun(p, L)
      [] o = "get" -> GetRun(p, L, "message")
      [] o = "getAll" -> GetAllRun(p, L, n, "message", [L EXCEPT !.qs = buildQuery(L.qs, p)])
      [] OTHER -> ModifyRun(o, L)

\* draft.getAll's Object.assign(qs, options) copies the format and the
\* search options into the query (L737).
AssignOptions(q, p) ==
    [q EXCEPT !.format = IF p.format = Unset THEN @ ELSE p.format,
              !.q = IF p.filter = Unset THEN @ ELSE p.filter]

\* resource 'draft' (L614-803).
DraftRun(o, p, L, n) ==
    CASE o = "create" ->
           LET L1 == IF p.attach THEN [L EXCEPT !.qs = AttachQs] ELSE L
               L2 == [L1 EXCEPT !.method = "POST", !.body = "draft"]
           IN  Run(<<Call(L2, "POST", "drafts", "draft", L2.qs)>>, L2, <<"obj">>)
      [] o = "get" -> GetRun(p, L, "draft")
      [] o = "delete" ->
           LET L1 == [L EXCEPT !.method = "DELETE"]
           IN  Run(<<Call(L1, "DELETE", "draft", L.body, L.qs)>>, L1, <<"obj">>)
      [] o = "getAll" -> GetAllRun(p, L, n, "draft", [L EXCEPT !.qs = AssignOptions(L.qs, p)])

\* resource 'thread' (L804-999).
ThreadRun(o, p, L, n) ==
    CASE o = "delete" ->
           LET L1 == [L EXCEPT !.method = "DELETE"]
           IN  Run(<<Call(L1, "DELETE", "thread", L.body, L.qs)>>, L1, <<"obj">>)
      [] o = "get" ->
           LET L1 == [L EXCEPT !.method = "GET",
                               !.qs.format = IF p.format = Unset THEN "minimal" ELSE p.format]
           IN  Run(<<Call(L1, "GET", "thread", L.body, L1.qs)>>, L1,
                   IF p.onlyMessages THEN Many("obj", n) ELSE <<"obj">>)
      [] o = "getAll" ->
           LET L1 == [L EXCEPT !.qs = ListQs([L EXCEPT !.qs = buildQuery(L.qs, p)], p)]
           IN  Run(<<ListCall(L1, p, "threads")>>, L1, Many("obj", Listed(p, n)))
      [] o = "reply" -> ReplyRun(p, L)
      [] o \in {"trash", "untrash"} ->
           LET L1 == [L EXCEPT !.method = "POST"]
           IN  Run(<<Call(L1, "POST", o, "empty", L.qs)>>, L1, <<"obj">>)

BranchRun(r, o, p, L, n) ==
    CASE r = "label" -> LabelRun(o, p, L, n)
      [] r = "message" -> MessageRun(o, p, L, n)
      [] r = "draft" -> DraftRun(o, p, L, n)
      [] r = "thread" -> ThreadRun(o, p, L, n)

\* The parameters branch o of resource r reads (getNodeParameter(..., i)).
Reads(r, o) ==
    CASE o = "getAll" /\ r = "thread" -> {"returnAll", "limit", "filter"}
      [] o = "getAll" /\ r = "label" -> {"returnAll", "limit"}
      [] o = "getAll" -> {"returnAll", "limit", "format", "filter"}
      [] o = "get" /\ r = "thread" -> {"format", "onlyMessages"}
      [] o = "get" /\ r # "label" -> {"format"}
      [] o \in {"send", "reply"} -> {"attach", "sender"}
      [] o = "create" /\ r = "draft" -> {"attach"}
      [] OTHER -> {}

DefaultParams ==
    [returnAll |-> FALSE, limit |-> CHOOSE l \in Limits : \A m \in Limits : l <= m,
     format |-> Unset, filter |-> Unset, attach |-> FALSE, sender |-> FALSE,
     onlyMessages |-> FALSE]

ParamsFor(r, o) ==
    {p \in Params : \A f \in DOMAIN p : f \notin Reads(r, o) => p[f] = DefaultParams[f]}

Init ==
    /\ resource \in Resources /\ operation \in Ops[resource]
    /\ cof \in BOOLEAN
    /\ prm \in [0..(NumItems - 1) -> ParamsFor(resource, operation)]
    /\ i = 0
    /\ method = "" /\ body = "empty" /\ qs = EmptyQs
    /\ returnData = <<>> /\ pc = "loop"
    /\ requests = <<>> /\ failed = {}

Tag(calls) == [j \in 1..Len(calls) |-> [item |-> i, req |-> calls[j].req]]

\* Array.isArray(responseData) ? push each : push one (L999-1003).
Push(out) ==
    /\ returnData' = returnData \o [j \in 1..Len(out) |-> [item |-> i, kind |-> out[j]]]
    /\ i' = i + 1

\* Fault variant: the catch drops the error when continueOnFail is off.
catchError_swallow ==
    /\ failed' = failed \cup {i}
    /\ IF cof THEN returnData' = Append(returnData, [item |-> i, kind |-> "error"])
       ELSE UNCHANGED returnData
    /\ i' = i + 1
    /\ UNCHANGED pc

\* Fault variant: the continue after the error entry is missing, so the
\* catch pushes the entry and still rethrows.
catchError_noContinue ==
    /\ failed' = failed \cup {i}
    /\ IF cof THEN returnData' = Append(returnData, [item |-> i, kind |-> "error"])
       ELSE UNCHANGED returnData
    /\ pc' = "threw"
    /\ UNCHANGED i

\* The catch (L1004-1010): under continueOnFail an { error } entry and the
\* next item; otherwise the error leaves execute.
catchError ==
    /\ failed' = failed \cup {i}
    /\ IF cof
       THEN /\ returnData' = Append(returnData, [item |-> i, kind |-> "error"])
            /\ i' = i + 1
            /\ UNCHANGED pc
       ELSE /\ pc' = "threw"
            /\ UNCHANGED <<returnData, i>>

\* One turn of the loop (L214-1011) for item i: the branch runs with the
\* locals as the previous items left them, and either completes and its
\* entries are pushed, or throws at one of its calls (call 0: before the
\* first request).  The locals keep what was assigned before the throw.
ExecuteItem ==
    /\ pc = "loop" /\ i < NumItems
    /\ \E n \in 0..MaxResults, fails \in BOOLEAN :
         LET L == [method |-> method, body |-> body, qs |-> qs]
             run == BranchRun(resource, operation, prm[i], L, n)
         IN  \E f \in IF fails THEN 0..Len(run.calls) ELSE {Len(run.calls)} :
               LET Lend == IF ~fails THEN run.fin
                           ELSE IF f = 0 THEN L ELSE run.calls[f].pre
               IN  /\ requests' = requests \o Tag(SubSeq(run.calls, 1, f))
                   /\ method' = Lend.method /\ body' = Lend.body /\ qs' = Lend.qs
                   /\ IF fails THEN catchError
                      ELSE Push(run.out) /\ UNCHANGED <<pc, failed>>
    /\ UNCHANGED <<resource, operation, cof, prm>>

\* The loop is over and execute returns (L1012-1016).
Finish ==
    /\ pc = "loop" /\ i = NumItems
    /\ pc' = "returned"
    /\ UNCHANGED <<resource, operation, cof, prm, i, method, body, qs,
                   returnData, requests, failed>>

Next == ExecuteItem \/ Finish

Spec == Init /\ [][Next]_vars

-----------------------------------------------------------------------------
(* Properties *)

\* The entries of item k, in the order they were pushed.
EntriesOf(k) == SelectSeq(returnData, LAMBDA e : e.item = k)

\* The continueOnFail contract of a node's execute: when execute throws,
\* continueOnFail is off, the item it was on is the only one that failed
\* and no later item sent a request; when it returns, the entries come in
\* item order, every failed item has exactly one error entry and nothing
\* else, and no other item has an error entry.
FailureOutcome ==
    /\ pc = "threw" =>
          /\ ~cof /\ failed = {i}
          /\ \A j \in 1..Len(requests) : requests[j].item <= i
    /\ pc = "returned" =>
          /\ failed # {} => cof
          /\ \A a, b \in 1..Len(returnData) :
                a < b => returnData[a].item <= returnData[b].item
          /\ \A k \in 0..(NumItems - 1) :
                IF k \in failed THEN EntriesOf(k) = <<[item |-> k, kind |-> "error"]>>
                ELSE \A j \in 1..Len(EntriesOf(k)) : EntriesOf(k)[j].kind # "error"

\* GmailV2.execute implements the node execution contract: under the
\* mapping below every turn of the loop is one handled, recovered or
\* aborting item of NodeExecution, and returnData is only ever extended by
\* entries of the item the loop is on.
NE == INSTANCE NodeExecution
        WITH MaxItems <- NumItems, MaxEntries <- MaxResults,
             OkKinds <- {"obj", "exec"},
             status <- IF pc = "threw" THEN "threw"
                       ELSE IF i = NumItems THEN "returned" ELSE "running",
             count <- NumItems, continueOnFail <- cof, next <- i,
             out <- returnData

ImplementsNodeExecution == NE!Spec

=============================================================================
