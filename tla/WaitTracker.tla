---------------------------- MODULE WaitTracker ----------------------------
(***************************************************************************)
(* The deferred-execution scheduler of packages/cli/src/WaitTracker.ts.   *)
(*                                                                         *)
(* One WaitTrackerClass instance polls the execution table for rows whose *)
(* waitTill falls inside a lookahead window, arms one setTimeout per      *)
(* execution id in its waitingExecutions map, and, when a timer fires,    *)
(* deletes the map entry and starts an async task that reloads the row,   *)
(* rejects it if it is finished, and hands it to the WorkflowRunner.      *)
(* stopExecution clears the local timer, then reads the row and writes it *)
(* back with the cancel error and no waitTill.                             *)
(*                                                                         *)
(* Every await of the code is a step boundary here, so the poll, the      *)
(* timer callbacks, the resumption tasks, the cancel requests and the     *)
(* resumed runs interleave as the event loop lets them.                    *)
(*                                                                         *)
(* The durable row keeps only what the code reads or writes: waitTill,    *)
(* finished, and whether the cancel error was written into resultData.    *)
(* Time is discrete: one tick stands for a fixed number of seconds and    *)
(* Lookahead is the 70 s query window in ticks.                            *)
(***************************************************************************)
EXTENDS Naturals, FiniteSets

CONSTANTS
    Executions,   \* execution ids
    MaxTime,      \* last instant of the modelled clock
    Lookahead,    \* the query window "now + 70000 ms", in ticks
    MaxRuns,      \* bound: resumptions of one execution in flight at once
    NoTime,       \* model value: waitTill is NULL in the row
    NoTimer,      \* model value: no entry in waitingExecutions
    NoPoll        \* model value: no poll query outstanding

ASSUME MaxTime \in Nat /\ Lookahead \in Nat /\ MaxRuns \in Nat \ {0}

Times == 0..MaxTime

\* The durable execution row, as far as this component reads or writes it.
Row == [waitTill: Times \cup {NoTime}, finished: BOOLEAN, canceled: BOOLEAN]

\* What stopTasks[e].row holds while no stopExecution is between its awaits.
NoRow == [waitTill |-> NoTime, finished |-> FALSE, canceled |-> FALSE]

VARIABLES
    now,               \* the wall clock
    db,                \* db[e]: the execution_entity row of e
    waitingExecutions, \* waitingExecutions[e]: due time of the timer the entry holds
    timers,            \* timers[e][t]: setTimeout callbacks for e pending at t
    pollResult,        \* rows returned by the outstanding find(), or NoPoll
    fired,             \* fired[e]: resumption tasks about to findOne
    loaded,            \* loaded[e]: resumption tasks past the finished check
    activeRuns,        \* activeRuns[e]: WorkflowRunner runs of e in progress
    stopTasks          \* stopTasks[e]: phase of stopExecution and the row its findOne read

vars == <<now, db, waitingExecutions, timers, pollResult, fired, loaded,
          activeRuns, stopTasks>>

TypeOK ==
    /\ now \in Times
    /\ db \in [Executions -> Row]
    /\ waitingExecutions \in [Executions -> Times \cup {NoTimer}]
    /\ timers \in [Executions -> [Times -> Nat]]
    /\ pollResult \in (SUBSET (Executions \X Times)) \cup {NoPoll}
    /\ fired \in [Executions -> Nat]
    /\ loaded \in [Executions -> Nat]
    /\ activeRuns \in [Executions -> Nat]
    /\ stopTasks \in [Executions -> [phase: {"idle", "reading", "writing"}, row: Row]]

\* Every execution starts parked with some wake time; the constructor's
\* first getwaitingExecutions() has not returned yet.
Init ==
    /\ now = 0
    /\ db \in [Executions -> [waitTill: Times, finished: {FALSE}, canceled: {FALSE}]]
    /\ waitingExecutions = [e \in Executions |-> NoTimer]
    /\ timers = [e \in Executions |-> [t \in Times |-> 0]]
    /\ pollResult = NoPoll
    /\ fired = [e \in Executions |-> 0]
    /\ loaded = [e \in Executions |-> 0]
    /\ activeRuns = [e \in Executions |-> 0]
    /\ stopTasks = [e \in Executions |-> [phase |-> "idle", row |-> NoRow]]

\* Resumptions of e that have left the timer and not yet ended.
InFlight(e) == fired[e] + loaded[e] + activeRuns[e]

Tick ==
    /\ now < MaxTime
    /\ now' = now + 1
    /\ UNCHANGED <<db, waitingExecutions, timers, pollResult, fired, loaded,
                   activeRuns, stopTasks>>

(***************************************************************************)
(* getwaitingExecutions, first half: the interval (or the constructor)    *)
(* runs the query "waitTill <= now + 70 s".  A NULL waitTill never        *)
(* matches.                                                                *)
(***************************************************************************)
Due(e) == db[e].waitTill # NoTime /\ db[e].waitTill <= now + Lookahead

PollQuery ==
    /\ pollResult = NoPoll
    /\ pollResult' = {<<e, db[e].waitTill>> : e \in {x \in Executions : Due(x)}}
    /\ UNCHANGED <<now, db, waitingExecutions, timers, fired, loaded,
                   activeRuns, stopTasks>>

(***************************************************************************)
(* getwaitingExecutions, second half: after the await, arm a timer for   *)
(* each returned id that has no entry.  setTimeout(waitTill - Date.now()) *)
(* fires at waitTill, or at once when that is already past.               *)
(***************************************************************************)
\* Fault variant: arms every returned id, entry or not.
ArmTimers_noEntryCheck(res) ==
    LET dueOf(e) == CHOOSE t \in Times : <<e, t>> \in res
        arm == {e \in Executions : \E t \in Times : <<e, t>> \in res}
    IN  /\ waitingExecutions' = [e \in Executions |->
                IF e \in arm THEN dueOf(e) ELSE waitingExecutions[e]]
        /\ timers' = [e \in Executions |->
                IF e \in arm THEN [timers[e] EXCEPT ![dueOf(e)] = @ + 1]
                             ELSE timers[e]]

ArmTimers(res) ==
    LET arm == {e \in Executions : \E t \in Times :
                    <<e, t>> \in res /\ waitingExecutions[e] = NoTimer}
        dueOf(e) == CHOOSE t \in Times : <<e, t>> \in res
    IN  /\ waitingExecutions' = [e \in Executions |->
                IF e \in arm THEN dueOf(e) ELSE waitingExecutions[e]]
        /\ timers' = [e \in Executions |->
                IF e \in arm THEN [timers[e] EXCEPT ![dueOf(e)] = @ + 1]
                             ELSE timers[e]]

PollArm ==
    /\ pollResult # NoPoll
    /\ ArmTimers(pollResult)
    /\ pollResult' = NoPoll
    /\ UNCHANGED <<now, db, fired, loaded, activeRuns, stopTasks>>

(***************************************************************************)
(* A timer callback runs startExecution: the entry is deleted at once and *)
(* the async body is started, not awaited.                                 *)
(***************************************************************************)
startExecution(e, t) ==
    /\ waitingExecutions' = [waitingExecutions EXCEPT ![e] = NoTimer]
    /\ timers' = [timers EXCEPT ![e][t] = @ - 1]
    /\ fired' = [fired EXCEPT ![e] = @ + 1]

\* Fault variant: a callback runs for a timer that is no longer pending.
Fire_noPendingCheck(e, t) ==
    /\ t <= now
    /\ InFlight(e) < MaxRuns
    /\ startExecution(e, t)
    /\ UNCHANGED <<now, db, pollResult, loaded, activeRuns, stopTasks>>

Fire(e, t) ==
    /\ timers[e][t] > 0
    /\ t <= now
    /\ InFlight(e) < MaxRuns
    /\ startExecution(e, t)
    /\ UNCHANGED <<now, db, pollResult, loaded, activeRuns, stopTasks>>

Load(e) ==
    /\ fired[e] > 0
    /\ fired' = [fired EXCEPT ![e] = @ - 1]
    /\ loaded' = IF db[e].finished THEN loaded
                 ELSE [loaded EXCEPT ![e] = @ + 1]
    /\ UNCHANGED <<now, db, waitingExecutions, timers, pollResult,
                   activeRuns, stopTasks>>

\* After await WorkflowCredentials(...), workflowRunner.run(...) starts.
Run(e) ==
    /\ loaded[e] > 0
    /\ loaded' = [loaded EXCEPT ![e] = @ - 1]
    /\ activeRuns' = [activeRuns EXCEPT ![e] = @ + 1]
    /\ UNCHANGED <<now, db, waitingExecutions, timers, pollResult, fired,
                   stopTasks>>

(***************************************************************************)
(* stopExecution.  The synchronous prefix clears the local timer; the    *)
(* findOne and the update are two awaits, and the update writes back the *)
(* whole row read by findOne with the error set and waitTill removed.     *)
(***************************************************************************)
StopBegin(e) ==
    /\ stopTasks[e].phase = "idle"
    /\ waitingExecutions' = [waitingExecutions EXCEPT ![e] = NoTimer]
    /\ timers' = IF waitingExecutions[e] = NoTimer THEN timers
                 ELSE [timers EXCEPT ![e][waitingExecutions[e]] = @ - 1]
    /\ stopTasks' = [stopTasks EXCEPT ![e].phase = "reading"]
    /\ UNCHANGED <<now, db, pollResult, fired, loaded, activeRuns>>

\* "could not be found" is thrown when the row has no waitTill.
StopRead(e) ==
    /\ stopTasks[e].phase = "reading"
    /\ stopTasks' = [stopTasks EXCEPT ![e] =
                        IF db[e].waitTill = NoTime
                        THEN [phase |-> "idle", row |-> NoRow]
                        ELSE [phase |-> "writing", row |-> db[e]]]
    /\ UNCHANGED <<now, db, waitingExecutions, timers, pollResult, fired,
                   loaded, activeRuns>>

StopWrite(e) ==
    /\ stopTasks[e].phase = "writing"
    /\ db' = [db EXCEPT ![e] = [stopTasks[e].row EXCEPT !.waitTill = NoTime,
                                                        !.canceled = TRUE]]
    /\ stopTasks' = [stopTasks EXCEPT ![e] = [phase |-> "idle", row |-> NoRow]]
    /\ UNCHANGED <<now, waitingExecutions, timers, pollResult, fired, loaded,
                   activeRuns>>

(***************************************************************************)
(* The WorkflowRunner (outside this component) ends a resumed run either  *)
(* by finishing it or by parking it again at a later wake time; its save  *)
(* updates waitTill and finished only.                                     *)
(***************************************************************************)
RunnerFinish(e) ==
    /\ activeRuns[e] > 0
    /\ activeRuns' = [activeRuns EXCEPT ![e] = @ - 1]
    /\ db' = [db EXCEPT ![e].finished = TRUE, ![e].waitTill = NoTime]
    /\ UNCHANGED <<now, waitingExecutions, timers, pollResult, fired, loaded,
                   stopTasks>>

RunnerWaitAgain(e, t) ==
    /\ activeRuns[e] > 0
    /\ t > now
    /\ activeRuns' = [activeRuns EXCEPT ![e] = @ - 1]
    /\ db' = [db EXCEPT ![e].finished = FALSE, ![e].waitTill = t]
    /\ UNCHANGED <<now, waitingExecutions, timers, pollResult, fired, loaded,
                   stopTasks>>

Tracker ==
    \/ PollQuery
    \/ PollArm
    \/ \E e \in Executions :
        \/ \E t \in Times : Fire(e, t)
        \/ Load(e)
        \/ Run(e)

Next ==
    \/ Tick
    \/ Tracker
    \/ \E e \in Executions :
        \/ StopBegin(e)
        \/ StopRead(e)
        \/ StopWrite(e)
        \/ RunnerFinish(e)
        \/ \E t \in Times : RunnerWaitAgain(e, t)

\* The interval, the timers and the async continuations all run on the
\* event loop, which takes any of them that stays ready; the clock moves.
Fairness ==
    /\ WF_vars(Tick)
    /\ WF_vars(PollQuery)
    /\ WF_vars(PollArm)
    /\ \A e \in Executions :
        /\ WF_vars(\E t \in Times : Fire(e, t))
        /\ WF_vars(Load(e))
        /\ WF_vars(Run(e))

Spec == Init /\ [][Next]_vars /\ Fairness

-----------------------------------------------------------------------------
(* Properties *)

\* The map entry of an execution and its pending setTimeout go together:
\* an entry always holds a timer that will still fire, and a pending timer
\* is always reachable through the entry (so stopExecution can clear it);
\* in particular no execution ever has two pending timers (spec 8).
\* A lost delete in startExecution or a lost clearTimeout breaks this and
\* leaves an execution that the poll never re-arms.
MapMatchesTimers ==
    \A e \in Executions :
        \A t \in Times :
            timers[e][t] = IF waitingExecutions[e] = t THEN 1 ELSE 0

AtMostOneActiveRun ==
    \A e \in Executions : activeRuns[e] <= 1

\* Spec 6: updates must not clobber concurrent fields: a row the runner
\* has marked finished stays finished.
FinishedIsStable ==
    [][\A e \in Executions : db[e].finished => db'[e].finished]_vars

=============================================================================
