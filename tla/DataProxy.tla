------------------------------ MODULE DataProxy ------------------------------
(***************************************************************************)
(* The data accessors of packages/workflow/src/WorkflowDataProxy.ts that   *)
(* an expression uses to read recorded node output: getNodeExecutionData, *)
(* $node[name] (nodeDataGetter), getNodeOutput, $(name).item / first /    *)
(* last / all, $items, $input and $item.                                  *)
(*                                                                         *)
(* The run data grows as the runner executes nodes; every state is a run  *)
(* in progress, and the properties quantify over every accessor call an   *)
(* expression evaluated in that state can make.  A task records whether   *)
(* it has data (the reconstructor of recoverEvents.ts writes crashed and  *)
(* unknown tasks without any) and its main outputs: each is a number of   *)
(* items or Null.  An item is named by its coordinates                    *)
(* <<node, run, output, index>>; an input item by <<"input", index>>.     *)
(*                                                                         *)
(* JavaScript outcomes are kept apart: a list of items, an item,          *)
(* undefined, null, an ExpressionError (with a tag for its message), a    *)
(* plain Error, and a TypeError from reading a property of undefined or   *)
(* null.                                                                   *)
(***************************************************************************)
EXTENDS Integers, Sequences, FiniteSets, Relation, Folds, Functions

CONSTANTS
    Nodes,       \* the nodes of the workflow
    Executable,  \* the nodes the runner may execute (the others never run)
    Conns,       \* connections: [from, out, to]
    NumOutputs,  \* NumOutputs[n]: output slots of node n
    MaxRuns,     \* bound: runs of one node
    MaxItems,    \* bound: items on one output
    MaxTasks,    \* bound: tasks recorded in all
    Unknown,     \* model value: a name no node has
    Undef,       \* model value: an argument left out (undefined)
    Null,        \* model value: an output slot holding null
    NoConn       \* model value: no connection found

ASSUME Executable \subseteq Nodes /\ Unknown \notin Nodes

VARIABLES runData   \* runData[n]: the tasks of n, one per run, in order

vars == <<runData>>

Output == {Null} \cup 0..MaxItems
Task(n) == [data: BOOLEAN, main: {<<>>} \cup [1..NumOutputs[n] -> Output]]

TypeOK == \A n \in Nodes : runData[n] \in Seq(Task(n)) /\ Len(runData[n]) <= MaxRuns

\* The context a proxy is built for: the active node, its run and item
\* index, the number of items it received, defaultReturnRunIndex, and
\* whether the workflow has run data at all.
Ctx == [active: Nodes, runIndex: 0..MaxRuns - 1, item: 0..MaxItems - 1,
        input: 0..MaxItems, defaultRun: {-1} \cup 0..MaxRuns - 1,
        hasRun: BOOLEAN]

-----------------------------------------------------------------------------
(* Outcomes *)
Items(s) == [k |-> "items", v |-> s]
ItemRes(x) == [k |-> "item", v |-> x]
UndefRes == [k |-> "undefined", v |-> <<>>]
NullRes == [k |-> "null", v |-> <<>>]
ExprErr(tag) == [k |-> "exprError", v |-> tag]
PlainErr == [k |-> "error", v |-> <<>>]
TypeErr == [k |-> "typeError", v |-> <<>>]
IsList(r) == r.k = "items"
Thrown(r) == r.k \in {"exprError", "error", "typeError"}

OutputItems(n, r, o, cnt) == [i \in 1..cnt |-> <<n, r, o, i - 1>>]
InputItems(ctx) == [i \in 1..ctx.input |-> <<"input", i - 1>>]

\* Workflow.getNodeConnectionIndexes(active, name): the output slot of a
\* connection leaving name towards the active node or one of its parents.
Parent == [p \in Nodes \X Nodes |-> \E e \in Conns : e.from = p[1] /\ e.to = p[2]]
Upstream == ReflexiveTransitiveClosure(Parent, Nodes)
ConnIndex(active, name) ==
    LET out == {e.out : e \in {c \in Conns : c.from = name /\ Upstream[c.to, active]}}
    IN  IF out = {} THEN NoConn ELSE CHOOSE o \in out : TRUE

-----------------------------------------------------------------------------
(* getNodeExecutionData (L237-340).  runIdx and outIdx are Undef when the *)
(* caller leaves them out.                                                 *)
\* Fault variant: -1 is not mapped to the last run.
getNodeExecutionData_noLast(ctx, name, short, outIdx, runIdx) ==
    IF short THEN Items(InputItems(ctx))
    ELSE IF ~ctx.hasRun THEN ExprErr("noRunData")
    ELSE IF name \notin Nodes THEN ExprErr("unknownNode")
    ELSE IF runData[name] = <<>> THEN ExprErr("notExecuted")
    ELSE LET r0 == IF runIdx = Undef THEN ctx.defaultRun ELSE runIdx
             r == r0
         IN  IF Len(runData[name]) <= r THEN ExprErr("noRun")
             \* runData[name][r] is undefined below 0, and data may be absent
             ELSE IF r < 0 \/ ~runData[name][r + 1].data THEN TypeErr
             ELSE LET t == runData[name][r + 1]
                      o == IF outIdx = Undef THEN ConnIndex(ctx.active, name) ELSE outIdx
                  IN  IF t.main = <<>> \/ t.main[1] = Null THEN ExprErr("noMain")
                      ELSE IF o = NoConn THEN ExprErr("notConnected")
                      ELSE IF Len(t.main) <= o THEN ExprErr("noBranch")
                      ELSE IF t.main[o + 1] = Null THEN NullRes
                      ELSE Items(OutputItems(name, r, o, t.main[o + 1]))

getNodeExecutionData(ctx, name, short, outIdx, runIdx) ==
    IF short THEN Items(InputItems(ctx))
    ELSE IF ~ctx.hasRun THEN ExprErr("noRunData")
    ELSE IF name \notin Nodes THEN ExprErr("unknownNode")
    ELSE IF runData[name] = <<>> THEN ExprErr("notExecuted")
    ELSE LET r0 == IF runIdx = Undef THEN ctx.defaultRun ELSE runIdx
             r == IF r0 = -1 THEN Len(runData[name]) - 1 ELSE r0
         IN  IF Len(runData[name]) <= r THEN ExprErr("noRun")
             \* runData[name][r] is undefined below 0, and data may be absent
             ELSE IF r < 0 \/ ~runData[name][r + 1].data THEN TypeErr
             ELSE LET t == runData[name][r + 1]
                      o == IF outIdx = Undef THEN ConnIndex(ctx.active, name) ELSE outIdx
                  IN  IF t.main = <<>> \/ t.main[1] = Null THEN ExprErr("noMain")
                      ELSE IF o = NoConn THEN ExprErr("notConnected")
                      ELSE IF Len(t.main) <= o THEN ExprErr("noBranch")
                      ELSE IF t.main[o + 1] = Null THEN NullRes
                      ELSE Items(OutputItems(name, r, o, t.main[o + 1]))

\* $node[name].json and $json (nodeDataGetter, L351-400): the item at the
\* proxy's item index of the connected output of the default run.
nodeDataGetter(ctx, name, short) ==
    IF ~short /\ name \notin Nodes THEN TypeErr   \* the proxy is undefined
    ELSE LET d == getNodeExecutionData(ctx, name, short, Undef, Undef)
         IN  IF Thrown(d) THEN d
             ELSE IF d = NullRes THEN TypeErr
             ELSE IF Len(d.v) <= ctx.item THEN ExprErr("noItem")
             ELSE ItemRes(d.v[ctx.item + 1])

\* $json and $data (L882-886): nodeDataGetter of the active node in short
\* syntax, the json of the proxy's item of the node's input.
DollarJson(ctx) == nodeDataGetter(ctx, ctx.active, TRUE)

\* $thisItem and $input.thisItem (L764-766, L809): connectionInputData at
\* the proxy's item index, undefined past its end.
ThisItem(ctx) == IF ctx.item < ctx.input THEN ItemRes(<<"input", ctx.item>>) ELSE UndefRes

\* getNodeOutput (L512-525): branch || 0, run defaults to -1 (the last).
getNodeOutput(ctx, name, branch, run) ==
    IF name = Undef THEN Items(InputItems(ctx))
    ELSE getNodeExecutionData(ctx, name, FALSE,
                              IF branch = Undef THEN 0 ELSE branch,
                              IF run = Undef THEN -1 ELSE run)

\* $(name).item(itemIndex?, branchIndex?, runIndex?) (L670-715): without
\* an index, the proxy's item, branch 0 and the proxy's own runIndex.
\* Fault variant: the run index argument is not passed on.
NodeProxyItem_dropRun(ctx, name, idx, branch, run) ==
    LET i == IF idx = Undef THEN ctx.item ELSE idx
        d == IF idx = Undef THEN getNodeOutput(ctx, name, 0, ctx.runIndex)
             ELSE getNodeOutput(ctx, name, branch, Undef)
    IN  IF Thrown(d) THEN d
        ELSE IF d = NullRes THEN TypeErr
        ELSE IF i < Len(d.v) THEN ItemRes(d.v[i + 1])
        ELSE PlainErr

NodeProxyItem(ctx, name, idx, branch, run) ==
    LET i == IF idx = Undef THEN ctx.item ELSE idx
        d == IF idx = Undef THEN getNodeOutput(ctx, name, 0, ctx.runIndex)
             ELSE getNodeOutput(ctx, name, branch, run)
    IN  IF Thrown(d) THEN d
        ELSE IF d = NullRes THEN TypeErr
        ELSE IF i < Len(d.v) THEN ItemRes(d.v[i + 1])
        ELSE PlainErr

\* $(name).first() and .last() (L716-737).
NodeProxyFirst(ctx, name, branch, run) ==
    LET d == getNodeOutput(ctx, name, branch, run)
    IN  IF Thrown(d) THEN d ELSE IF d = NullRes THEN TypeErr
        ELSE IF d.v # <<>> THEN ItemRes(d.v[1]) ELSE UndefRes

NodeProxyLast(ctx, name, branch, run) ==
    LET d == getNodeOutput(ctx, name, branch, run)
    IN  IF Thrown(d) THEN d ELSE IF d = NullRes THEN TypeErr
        ELSE IF d.v # <<>> THEN ItemRes(d.v[Len(d.v)]) ELSE UndefRes

\* $(name).all() (L738-741) and $items(name?, output?, run?) (L846-858).
NodeProxyAll(ctx, name, branch, run) == getNodeOutput(ctx, name, branch, run)

DollarItems(ctx, name, out, run) ==
    IF name = Undef THEN Items(InputItems(ctx))
    ELSE getNodeExecutionData(ctx, name, FALSE, IF out = Undef THEN 0 ELSE out,
                              IF run = Undef THEN -1 ELSE run)

\* $input.item(i?) / first() / last() (L760-807).
InputItem(ctx, idx) ==
    LET i == IF idx = Undef THEN ctx.item ELSE idx
    IN  IF i < ctx.input THEN ItemRes(<<"input", i>>) ELSE UndefRes
InputFirst(ctx) == IF ctx.input > 0 THEN ItemRes(<<"input", 0>>) ELSE UndefRes
InputLast(ctx) == IF ctx.input > 0 THEN ItemRes(<<"input", ctx.input - 1>>) ELSE UndefRes

\* $item(itemIndex, runIndex?) (L828-845): a proxy for another item whose
\* defaultReturnRunIndex is runIndex, or -1.
DollarItem(ctx, idx, run) ==
    [ctx EXCEPT !.item = idx, !.defaultRun = IF run = Undef THEN -1 ELSE run]

-----------------------------------------------------------------------------
(* The runner executes a node and records its task. *)
Init == runData = [n \in Nodes |-> <<>>]

\* The runner records the task of a node run (WorkflowExecute, not part of
\* this repository; spec 4.1's run data).
ExecuteNode(n, t) ==
    /\ Len(runData[n]) < MaxRuns
    /\ FoldFunction(LAMBDA s, acc : Len(s) + acc, 0, runData) < MaxTasks
    /\ runData' = [runData EXCEPT ![n] = Append(@, t)]

Next == \E n \in Executable : \E t \in Task(n) : ExecuteNode(n, t)

Spec == Init /\ [][Next]_vars

-----------------------------------------------------------------------------
(* Reference: spec 4.1 getNodeOutput.  Unknown and unexecuted nodes fail  *)
(* with distinct ExpressionErrors; the run defaults to the most recent   *)
(* (-1 spells the default); an out-of-range run fails; the output slot   *)
(* defaults to the one connecting to the active node, and fails when     *)
(* there is none.  A slot holding null has no items.                     *)
SpecNodeOutput(ctx, name, slot, run) ==
    IF ~ctx.hasRun THEN ExprErr("noRunData")
    ELSE IF name \notin Nodes THEN ExprErr("unknownNode")
    ELSE IF runData[name] = <<>> THEN ExprErr("notExecuted")
    ELSE LET r == IF run \in {Undef, -1} THEN Len(runData[name]) - 1 ELSE run
         IN  IF r < 0 \/ r >= Len(runData[name]) THEN ExprErr("noRun")
             ELSE LET t == runData[name][r + 1]
                      o == IF slot = Undef THEN ConnIndex(ctx.active, name) ELSE slot
                  IN  IF o = NoConn THEN ExprErr("notConnected")
                      ELSE IF ~t.data \/ o >= Len(t.main) THEN ExprErr("noBranch")
                      ELSE IF t.main[o + 1] = Null THEN Items(<<>>)
                      ELSE Items(OutputItems(name, r, o, t.main[o + 1]))

\* A result agrees with the reference when both are the same items, or
\* both are ExpressionErrors, with the same message for the two the spec
\* tells apart.
Agree(c, s) ==
    \/ c = s
    \/ /\ c.k = "exprError" /\ s.k = "exprError"
       /\ s.v \in {"unknownNode", "notExecuted"} => c.v = s.v

MaxOut == CHOOSE m \in {NumOutputs[n] : n \in Nodes} : \A n \in Nodes : NumOutputs[n] <= m
Names == Nodes \cup {Unknown}
Runs == {Undef, -1} \cup 0..MaxRuns
Contexts == {c \in Ctx : c.runIndex = 0 /\ c.item = 0 /\ c.input = 0 /\ c.defaultRun = -1}

\* The task a call addresses, if it exists, has data and holds a list on
\* every output slot: the spec's run data has no other tasks.
Addressed(name, run) ==
    LET r == IF run \in {Undef, -1} THEN Len(runData[name]) - 1 ELSE run
    IN  name \in Nodes /\ r \in 0..Len(runData[name]) - 1 =>
            /\ runData[name][r + 1].data
            /\ \A o \in 1..Len(runData[name][r + 1].main) : runData[name][r + 1].main[o] # Null

-----------------------------------------------------------------------------
(* Properties *)

\* Spec 4.1: $(name).all(slot, run) and $items(name, slot, run) with a
\* slot given, and $item(0, run).$node[name].json (whose slot is inferred
\* from the connection to the active node), read the output the spec's
\* getNodeOutput names: the most recent run when the run is omitted or -1,
\* a bounds error past the last run, and ExpressionErrors that tell an
\* unknown node from one not yet executed.  Checked for every call whose
\* addressed task has data.
NodeOutputMatchesSpec ==
    \A ctx \in Contexts, name \in Names, r \in Runs :
        Addressed(name, r) =>
            /\ \A b \in 0..MaxOut :
                  /\ Agree(NodeProxyAll(ctx, name, b, r), SpecNodeOutput(ctx, name, b, r))
                  /\ Agree(DollarItems(ctx, name, b, r), SpecNodeOutput(ctx, name, b, r))
            /\ LET s == SpecNodeOutput(ctx, name, Undef, r)
                   j == nodeDataGetter(DollarItem(ctx, 0, r), name, FALSE)
               IN  name \in Nodes =>
                   IF IsList(s) /\ s.v # <<>> THEN j = ItemRes(s.v[1])
                   ELSE j.k = "exprError"

\* $(name).item(i, slot, run), .first(slot, run) and .last(slot, run)
\* return the i-th, first and last item of .all(slot, run) (undefined for
\* first and last of an empty output), fail as .all does, and item fails
\* with an Error past the end; $input.item(i), .first() and .last() do the
\* same over the node's input.  Every accessor reads the same list.
ItemAccessorsAgree ==
    \A ctx \in Contexts, name \in Names, r \in Runs, b \in 0..MaxOut :
        Addressed(name, r) =>
        LET all == NodeProxyAll(ctx, name, b, r)
            n == IF IsList(all) THEN Len(all.v) ELSE 0
        IN  /\ NodeProxyFirst(ctx, name, b, r) =
                  IF ~IsList(all) THEN all ELSE IF n > 0 THEN ItemRes(all.v[1]) ELSE UndefRes
            /\ NodeProxyLast(ctx, name, b, r) =
                  IF ~IsList(all) THEN all ELSE IF n > 0 THEN ItemRes(all.v[n]) ELSE UndefRes
            /\ \A i \in 0..MaxItems :
                  NodeProxyItem(ctx, name, i, b, r) =
                      IF ~IsList(all) THEN all ELSE IF i < n THEN ItemRes(all.v[i + 1]) ELSE PlainErr
            /\ \A i \in 0..MaxItems :
                  LET in == [ctx EXCEPT !.input = i]
                  IN  /\ InputItem(in, Undef) =
                            IF ctx.item < i THEN ItemRes(InputItems(in)[ctx.item + 1]) ELSE UndefRes
                      /\ InputFirst(in) = IF i > 0 THEN ItemRes(InputItems(in)[1]) ELSE UndefRes
                      /\ InputLast(in) = IF i > 0 THEN ItemRes(InputItems(in)[i]) ELSE UndefRes
                      /\ ThisItem(in) = InputItem(in, Undef)
                      /\ DollarJson(in) =
                            IF ctx.item < i THEN InputItem(in, Undef) ELSE ExprErr("noItem")

=============================================================================
