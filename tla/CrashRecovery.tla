--------------------------- MODULE CrashRecovery ---------------------------
(***************************************************************************)
(* recoverExecutionDataFromEventLogMessages of                           *)
(* packages/cli/src/eventbus/MessageEventBus/recoverEvents.ts, composed   *)
(* with the producer of its two inputs: the run that writes lifecycle     *)
(* events to the event log and task data to the execution row, and that *)
(* dies at an arbitrary point.                                             *)
(*                                                                         *)
(* The producer (WorkflowRunner, event bus and execution hooks) is not in *)
(* the sources and is modelled from spec 3 and 4.4: it runs the nodes of *)
(* Schedule in order and logs node.started before each.  When a node     *)
(* returns, its task is pushed to the in-memory run data and two hooks    *)
(* run with no order between them: one logs node.finished, the other     *)
(* saves the run data to the row when progress saving is on.  The        *)
(* process may die at any step before the final save.                     *)
(*                                                                         *)
(* The reconstruction is a fold over the declared node list, one step per *)
(* node, exactly as the for loop of the code; it is applied by Recover,   *)
(* which may run again on the row it wrote (spec 8, idempotence).         *)
(*                                                                         *)
(* An event's timestamp is its position in the log (the log is strictly  *)
(* timestamp-ordered); 0 stands for "no timestamp".                       *)
(***************************************************************************)
EXTENDS Naturals, Sequences, SequencesExt

CONSTANTS
    NodeList,     \* workflowData.nodes, by name, in declaration order
    ManualNodes,  \* nodes of type n8n-nodes-base.start or .manualTrigger
    Schedule,     \* the order the runner executes nodes (a node may repeat)
    MaxRecoveries,\* bound: times recovery is run on the same execution
    NoNode        \* model value: an event with no nodeName

Nodes == {NodeList[i] : i \in 1..Len(NodeList)}

ASSUME /\ ManualNodes \subseteq Nodes
       /\ \A i \in 1..Len(Schedule) : Schedule[i] \in Nodes

EventNames == {"node.started", "node.finished", "workflow.started",
               "workflow.success", "workflow.failed", "workflow.crashed"}
Event == [eventName: EventNames, nodeName: Nodes \cup {NoNode}]

\* ITaskData, reduced to what recovery reads or writes.
Task == [executionStatus: {"success", "crashed", "unknown"},
         hasData: BOOLEAN,   \* data.main is defined
         hasError: BOOLEAN,  \* error is set
         startTime: Nat]

\* The execution row: data.resultData and the columns recovery updates.
ExecRow == [runData: [Nodes -> Seq(Task)],  \* <<>>: the node has no entry
            lastNodeExecuted: Nodes \cup {NoNode},
            error: BOOLEAN,
            status: {"running", "success", "crashed"},
            stoppedAt: Nat]

VARIABLES
    log,        \* the event log of this execution
    row,        \* the persisted execution row
    memRunData, \* the run data the live process holds in memory
    step,       \* index into Schedule of the node being or to be run
    phase,      \* where the producer is
    pending,    \* hooks of the returned node not yet run: "log", "save"
    saveProgress, \* the workflow's saveExecutionProgress setting
    crashNode,  \* the node that was executing when the process died
    recoveries  \* times recovery has been applied

vars == <<log, row, memRunData, step, phase, pending, saveProgress,
          crashNode, recoveries>>

TypeOK ==
    /\ log \in Seq(Event)
    /\ row \in ExecRow
    /\ memRunData \in [Nodes -> Seq(Task)]
    /\ step \in 1..Len(Schedule) + 1
    /\ phase \in {"init", "idle", "inNode", "hooks", "ended", "saved", "crashed"}
    /\ pending \in SUBSET {"log", "save"}
    /\ saveProgress \in BOOLEAN
    /\ crashNode \in Nodes \cup {NoNode}
    /\ recoveries \in 0..MaxRecoveries

NoRunData == [n \in Nodes |-> <<>>]

Init ==
    /\ log = <<>>
    /\ row = [runData |-> NoRunData, lastNodeExecuted |-> NoNode,
              error |-> FALSE, status |-> "running", stoppedAt |-> 0]
    /\ memRunData = NoRunData
    /\ step = 1
    /\ phase = "init"
    /\ pending = {}
    /\ saveProgress \in BOOLEAN
    /\ crashNode = NoNode
    /\ recoveries = 0

Ev(name, n) == [eventName |-> name, nodeName |-> n]

(* ---------------------------------------------------------------------- *)
(* The producer (spec_modelled)                                           *)
(* ---------------------------------------------------------------------- *)
WorkflowStarted ==
    /\ phase = "init"
    /\ log' = Append(log, Ev("workflow.started", NoNode))
    /\ phase' = "idle"
    /\ UNCHANGED <<row, memRunData, step, pending, saveProgress, crashNode,
                   recoveries>>

NodeStarted ==
    /\ phase = "idle"
    /\ step <= Len(Schedule)
    /\ log' = Append(log, Ev("node.started", Schedule[step]))
    /\ phase' = "inNode"
    /\ UNCHANGED <<row, memRunData, step, pending, saveProgress, crashNode,
                   recoveries>>

\* The node returns; its task (started at its node.started event) is kept
\* in memory and the nodeExecuteAfter hooks are due.
NodeReturned ==
    LET n == Schedule[step]
        task == [executionStatus |-> "success", hasData |-> TRUE,
                 hasError |-> FALSE, startTime |-> Len(log)]
    IN  /\ phase = "inNode"
        /\ memRunData' = [memRunData EXCEPT ![n] = Append(@, task)]
        /\ pending' = IF saveProgress THEN {"log", "save"} ELSE {"log"}
        /\ phase' = "hooks"
        /\ UNCHANGED <<log, row, step, saveProgress, crashNode, recoveries>>

\* One hook ends; when none is left the runner moves to the next node.
HookDone(h) ==
    /\ phase = "hooks"
    /\ pending' = pending \ {h}
    /\ IF pending' = {} THEN step' = step + 1 /\ phase' = "idle"
                         ELSE UNCHANGED <<step, phase>>

LogFinished ==
    /\ "log" \in pending
    /\ HookDone("log")
    /\ log' = Append(log, Ev("node.finished", Schedule[step]))
    /\ UNCHANGED <<row, memRunData, saveProgress, crashNode, recoveries>>

SaveNodeProgress ==
    /\ "save" \in pending
    /\ HookDone("save")
    /\ row' = [row EXCEPT !.runData = memRunData,
                          !.lastNodeExecuted = Schedule[step]]
    /\ UNCHANGED <<log, memRunData, saveProgress, crashNode, recoveries>>

WorkflowEnded ==
    /\ phase = "idle"
    /\ step > Len(Schedule)
    /\ log' = Append(log, Ev("workflow.success", NoNode))
    /\ phase' = "ended"
    /\ UNCHANGED <<row, memRunData, step, pending, saveProgress, crashNode,
                   recoveries>>

FinalSave ==
    /\ phase = "ended"
    /\ row' = [row EXCEPT !.runData = memRunData, !.status = "success",
                          !.stoppedAt = Len(log),
                          !.lastNodeExecuted = Schedule[Len(Schedule)]]
    /\ phase' = "saved"
    /\ UNCHANGED <<log, memRunData, step, pending, saveProgress, crashNode,
                   recoveries>>

\* The process dies before the row reached a terminal state.
Crash ==
    /\ phase \in {"init", "idle", "inNode", "hooks", "ended"}
    /\ crashNode' = IF phase \in {"inNode", "hooks"} THEN Schedule[step]
                                                    ELSE NoNode
    /\ phase' = "crashed"
    /\ UNCHANGED <<log, row, memRunData, step, pending, saveProgress,
                   recoveries>>

(* ---------------------------------------------------------------------- *)
(* The reconstruction                                                     *)
(* ---------------------------------------------------------------------- *)

\* messages.find(...): position of the first matching event, 0 if none.
FirstEvent(msgs, name, n) ==
    SelectInSeq(msgs, LAMBDA m : m.eventName = name /\ m.nodeName = n)

\* Fault variant: a fresh task replaces the saved one.
RecoverNode_freshTask(msgs, st, n) ==
    LET started  == FirstEvent(msgs, "node.started", n)
        finished == FirstEvent(msgs, "node.finished", n)
        task0 == [executionStatus |-> "unknown", hasData |-> FALSE,
                  hasError |-> FALSE, startTime |-> started]
        crashed == started > 0 /\ finished = 0
        task == CASE crashed ->
                        [task0 EXCEPT !.hasError = TRUE,
                                      !.executionStatus = "crashed"]
                  [] started > 0 /\ finished > 0 ->
                        [task0 EXCEPT !.executionStatus = "success",
                                      !.hasData = TRUE]
                  [] OTHER -> task0
    IN  IF n \in ManualNodes THEN st
        ELSE [st EXCEPT
                !.runData[n] = <<task>>,
                !.lastNode = IF crashed THEN n ELSE @,
                !.lastTs = IF crashed THEN started ELSE @,
                !.wfError = crashed \/ @]

\* Fault variant: the task is pushed even when the node had an entry.
RecoverNode_alwaysPush(msgs, st, n) ==
    LET started  == FirstEvent(msgs, "node.started", n)
        finished == FirstEvent(msgs, "node.finished", n)
        existing == Len(st.runData[n]) > 0
        \* the existing runData[n][0], or a fresh 'unknown' task
        task0 == IF existing THEN st.runData[n][1]
                 ELSE [executionStatus |-> "unknown", hasData |-> FALSE,
                       hasError |-> FALSE, startTime |-> started]
        crashed == started > 0 /\ finished = 0
        task == CASE crashed ->
                        [task0 EXCEPT !.hasError = TRUE,
                                      !.executionStatus = "crashed"]
                  [] started > 0 /\ finished > 0 ->
                        \* the placeholder item when data is undefined
                        [task0 EXCEPT !.executionStatus = "success",
                                      !.hasData = TRUE]
                  [] OTHER -> task0
    IN  IF n \in ManualNodes THEN st
        ELSE [st EXCEPT
                !.runData[n] = Append(@, task),
                !.lastNode = IF crashed THEN n ELSE @,
                !.lastTs = IF crashed THEN started ELSE @,
                !.wfError = crashed \/ @]

\* State threaded through the for loop over nodeNames.
\* runData is executionData.resultData.runData, lastNode its
\* lastNodeExecuted, lastTs the variable lastNodeRunTimestamp, wfError
\* whether workflowError was assigned.
RecoverNode(msgs, st, n) ==
    LET started  == FirstEvent(msgs, "node.started", n)
        finished == FirstEvent(msgs, "node.finished", n)
        existing == Len(st.runData[n]) > 0
        \* the existing runData[n][0], or a fresh 'unknown' task
        task0 == IF existing THEN st.runData[n][1]
                 ELSE [executionStatus |-> "unknown", hasData |-> FALSE,
                       hasError |-> FALSE, startTime |-> started]
        crashed == started > 0 /\ finished = 0
        task == CASE crashed ->
                        [task0 EXCEPT !.hasError = TRUE,
                                      !.executionStatus = "crashed"]
                  [] started > 0 /\ finished > 0 ->
                        \* the placeholder item when data is undefined
                        [task0 EXCEPT !.executionStatus = "success",
                                      !.hasData = TRUE]
                  [] OTHER -> task0
    IN  IF n \in ManualNodes THEN st
        ELSE [st EXCEPT
                \* taskData aliases runData[n][0] when it existed
                !.runData[n] = IF existing THEN [@ EXCEPT ![1] = task]
                               ELSE <<task>>,
                !.lastNode = IF crashed THEN n ELSE @,
                !.lastTs = IF crashed THEN started ELSE @,
                !.wfError = crashed \/ @]

\* Fallback stop time: the first workflow-level end event, else the
\* workflow.started event.
WorkflowEndTs(msgs) ==
    LET ended == SelectInSeq(msgs, LAMBDA m :
                    m.eventName \in {"workflow.success", "workflow.crashed",
                                     "workflow.failed"})
    IN  IF ended > 0 THEN ended
        ELSE SelectInSeq(msgs, LAMBDA m : m.eventName = "workflow.started")

\* Fault variant: the recovered run is marked failed instead of crashed.
recover_statusFailed(r, msgs) ==
    LET st0 == [runData |-> r.runData, lastNode |-> r.lastNodeExecuted,
                lastTs |-> 0, wfError |-> FALSE]
        st == FoldLeft(LAMBDA acc, n : RecoverNode(msgs, acc, n), st0, NodeList)
        stop == IF st.lastTs > 0 THEN st.lastTs ELSE WorkflowEndTs(msgs)
    IN  [runData |-> st.runData, lastNodeExecuted |-> st.lastNode,
         error |-> r.error \/ st.wfError, status |-> "failed",
         stoppedAt |-> IF stop > 0 THEN stop ELSE r.stoppedAt]

\* Fault variant: the workflow-level events take precedence over the
\* crashed node's start time.
recover_workflowTsFirst(r, msgs) ==
    LET st0 == [runData |-> r.runData, lastNode |-> r.lastNodeExecuted,
                lastTs |-> 0, wfError |-> FALSE]
        st == FoldLeft(LAMBDA acc, n : RecoverNode(msgs, acc, n), st0, NodeList)
        stop == IF WorkflowEndTs(msgs) > 0 THEN WorkflowEndTs(msgs) ELSE st.lastTs
    IN  [runData |-> st.runData, lastNodeExecuted |-> st.lastNode,
         error |-> r.error \/ st.wfError, status |-> "crashed",
         stoppedAt |-> IF stop > 0 THEN stop ELSE r.stoppedAt]

recoverExecutionDataFromEventLogMessages(r, msgs) ==
    LET st0 == [runData |-> r.runData, lastNode |-> r.lastNodeExecuted,
                lastTs |-> 0, wfError |-> FALSE]
        st == FoldLeft(LAMBDA acc, n : RecoverNode(msgs, acc, n), st0, NodeList)
        stop == IF st.lastTs > 0 THEN st.lastTs ELSE WorkflowEndTs(msgs)
    IN  [runData |-> st.runData,
         lastNodeExecuted |-> st.lastNode,
         error |-> r.error \/ st.wfError,
         status |-> "crashed",
         \* an undefined stoppedAt is left out of the update
         stoppedAt |-> IF stop > 0 THEN stop ELSE r.stoppedAt]

\* Recovery at the next start-up, with applyToDb; the delayed push
\* notification changes no state of the execution.
Recover ==
    /\ phase = "crashed"
    /\ recoveries < MaxRecoveries
    /\ row' = recoverExecutionDataFromEventLogMessages(row, log)
    /\ recoveries' = recoveries + 1
    /\ UNCHANGED <<log, memRunData, step, phase, pending, saveProgress,
                   crashNode>>

Next ==
    \/ WorkflowStarted
    \/ NodeStarted
    \/ NodeReturned
    \/ LogFinished
    \/ SaveNodeProgress
    \/ WorkflowEnded
    \/ FinalSave
    \/ Crash
    \/ Recover

Spec == Init /\ [][Next]_vars

-----------------------------------------------------------------------------
(* Properties *)

\* Spec 8: running the reconstruction again on the row it produced, with
\* the same log, writes the same row (statuses, error, stop time).
RecoveryIdempotent ==
    [][recoveries > 0 /\ recoveries' > recoveries => row' = row]_vars

\* Spec 4.4: task data the progress save wrote before the crash is kept.
\* The save and the node.finished entry are written by independent hooks,
\* so a crash between them leaves a node with saved output but no finished
\* event; recovery takes runData[n][0] by reference and rewrites its
\* status, and must neither replace the saved task, lose its output or
\* start time, nor add tasks beside it.
SavedTasksKept ==
    [][recoveries' > recoveries =>
        \A n \in Nodes :
            Len(row.runData[n]) > 0 =>
                /\ Len(row'.runData[n]) = Len(row.runData[n])
                /\ \A i \in 1..Len(row.runData[n]) :
                      /\ row'.runData[n][i].hasData = row.runData[n][i].hasData
                      /\ row'.runData[n][i].startTime = row.runData[n][i].startTime]_vars

\* Spec 4.4 and 8: when the process died while node n was executing and
\* its node.started event is in the log, the recovered row shows n as
\* crashed with an error, names it lastNodeExecuted, and stops the run at
\* the time n started.
CrashedNodeReported ==
    LET n == crashNode
        lastStart == CHOOSE i \in 1..Len(log) :
                        /\ log[i] = Ev("node.started", n)
                        /\ \A j \in i + 1..Len(log) : log[j] # log[i]
    IN  (recoveries > 0 /\ n # NoNode /\ n \notin ManualNodes
           /\ Len(log) > 0 /\ Last(log) = Ev("node.started", n))
        => /\ \E t \in 1..Len(row.runData[n]) :
                 row.runData[n][t].executionStatus = "crashed"
           /\ row.lastNodeExecuted = n
           /\ row.stoppedAt = lastStart

=============================================================================
