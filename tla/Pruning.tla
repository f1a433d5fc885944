------------------------------ MODULE Pruning ------------------------------
(***************************************************************************)
(* The timers of packages/cli/src/services/pruning.service.ts.            *)
(*                                                                         *)
(* PruningService keeps one field for its soft-deletion interval and one  *)
(* for its hard-deletion timeout.  startPruning overwrites both fields    *)
(* with new timers; stopPruning clears the timers the fields refer to;   *)
(* both return at once unless isEnabled() (leader and not shutting down). *)
(* A hard-deletion timeout runs an async cycle whose .then (or .catch)   *)
(* schedules the next timeout, so the hard deletions form a chain.        *)
(*                                                                         *)
(* A timer is counted, and for each kind a flag says whether the timer    *)
(* the field refers to is still pending: clearing a fired or cleared     *)
(* timer does nothing.  The other conditions of isEnabled (pruneData,     *)
(* instance type main, not in test) are taken as true.                    *)
(*                                                                         *)
(* Leadership changes come from the multi-main setup, outside these       *)
(* sources: it marks the instance leader or follower and emits            *)
(* leader-takeover or leader-stepdown, whose listeners run synchronously  *)
(* within the same step.  StepdownOrders holds the orders the stepdown  *)
(* listener may run in: before or after isLeader is cleared.  That order *)
(* is fixed outside these sources, so both are explored.                  *)
(***************************************************************************)
EXTENDS Naturals

CONSTANTS
    MultiMain,      \* orchestrationService.isMultiMainSetupEnabled
    StartAsLeader,  \* the values isLeader may have at start-up
    StepdownOrders, \* subset of {"eventFirst", "flagFirst"}
    MaxChains       \* bound: hard-deletion chains, and soft-deletion cycles, at once

ASSUME /\ MultiMain \in BOOLEAN
       /\ StartAsLeader \subseteq BOOLEAN
       /\ StepdownOrders \subseteq {"eventFirst", "flagFirst"}
       /\ MaxChains \in Nat \ {0}

VARIABLES
    booted,         \* init() has run
    isLeader,       \* instanceSettings.isLeader
    isShuttingDown, \* this.isShuttingDown
    softActive,     \* soft-deletion intervals alive
    softField,      \* the interval this.softDeletionInterval refers to is alive
    hardPending,    \* hard-deletion timeouts pending
    hardField,      \* the timeout this.hardDeletionTimeout refers to is pending
    hardInFlight,   \* hard-deletion cycles awaiting the database
    softInFlight    \* soft-deletion cycles awaiting the database

vars == <<booted, isLeader, isShuttingDown, softActive, softField,
          hardPending, hardField, hardInFlight, softInFlight>>

TypeOK ==
    /\ booted \in BOOLEAN /\ isLeader \in BOOLEAN /\ isShuttingDown \in BOOLEAN
    /\ softActive \in Nat /\ softField \in BOOLEAN
    /\ hardPending \in Nat /\ hardField \in BOOLEAN
    /\ hardInFlight \in Nat /\ softInFlight \in Nat

Init ==
    /\ booted = FALSE
    /\ isLeader \in StartAsLeader
    /\ isShuttingDown = FALSE
    /\ softActive = 0 /\ softField = FALSE
    /\ hardPending = 0 /\ hardField = FALSE
    /\ hardInFlight = 0 /\ softInFlight = 0

\* isEnabled(), for the given values of isLeader and isShuttingDown.
isEnabled(leader, shuttingDown) == leader /\ ~shuttingDown

Chains == hardPending + hardInFlight

(***************************************************************************)
(* startPruning and stopPruning, as state transformers taking the values  *)
(* of isLeader and isShuttingDown that isEnabled reads.                    *)
(***************************************************************************)
\* setSoftDeletionInterval and scheduleHardDeletion overwrite the fields.
startPruning(leader, shuttingDown) ==
    IF isEnabled(leader, shuttingDown)
    THEN /\ softActive' = softActive + 1 /\ softField' = TRUE
         /\ hardPending' = hardPending + 1 /\ hardField' = TRUE
    ELSE UNCHANGED <<softActive, softField, hardPending, hardField>>

\* Fault variant: the interval is not cleared.
stopPruning_keepInterval(leader, shuttingDown) ==
    IF isEnabled(leader, shuttingDown)
    THEN /\ UNCHANGED <<softActive, softField>>
         /\ hardPending' = IF hardField THEN hardPending - 1 ELSE hardPending
         /\ hardField' = FALSE
    ELSE UNCHANGED <<softActive, softField, hardPending, hardField>>

\* clearInterval and clearTimeout of the handles the fields hold.
stopPruning(leader, shuttingDown) ==
    IF isEnabled(leader, shuttingDown)
    THEN /\ softActive' = IF softField THEN softActive - 1 ELSE softActive
         /\ softField' = FALSE
         /\ hardPending' = IF hardField THEN hardPending - 1 ELSE hardPending
         /\ hardField' = FALSE
    ELSE UNCHANGED <<softActive, softField, hardPending, hardField>>

(***************************************************************************)
(* Operations                                                              *)
(***************************************************************************)
\* init(): start when leader; the listeners exist in multi-main only.
Boot ==
    /\ ~booted
    /\ booted' = TRUE
    /\ IF isLeader THEN startPruning(isLeader, isShuttingDown)
                   ELSE UNCHANGED <<softActive, softField, hardPending, hardField>>
    /\ UNCHANGED <<isLeader, isShuttingDown, hardInFlight, softInFlight>>

\* The instance becomes leader; the leader-takeover listener runs.
Takeover ==
    /\ MultiMain /\ booted /\ ~isLeader
    /\ Chains < MaxChains
    /\ isLeader' = TRUE
    /\ startPruning(TRUE, isShuttingDown)
    /\ UNCHANGED <<booted, isShuttingDown, hardInFlight, softInFlight>>

\* The instance loses leadership; the leader-stepdown listener runs.
Stepdown ==
    /\ MultiMain /\ booted /\ isLeader
    /\ isLeader' = FALSE
    /\ \E order \in StepdownOrders :
          stopPruning(order = "eventFirst", isShuttingDown)
    /\ UNCHANGED <<booted, isShuttingDown, hardInFlight, softInFlight>>

\* @OnShutdown shutdown(): the flag is set, then stopPruning runs.
Shutdown ==
    /\ booted /\ ~isShuttingDown
    /\ isShuttingDown' = TRUE
    /\ stopPruning(isLeader, TRUE)
    /\ UNCHANGED <<booted, isLeader, hardInFlight, softInFlight>>

\* A hard-deletion timeout fires, either the one the field refers to or an
\* older one, and its cycle starts awaiting the database.
HardFire ==
    /\ hardPending > 0
    /\ \/ hardField /\ hardField' = FALSE
       \/ hardPending > (IF hardField THEN 1 ELSE 0) /\ UNCHANGED hardField
    /\ hardPending' = hardPending - 1
    /\ hardInFlight' = hardInFlight + 1
    /\ UNCHANGED <<booted, isLeader, isShuttingDown, softActive, softField,
                   softInFlight>>

\* Fault variant: the .catch path logs the error and does not reschedule.
HardCycleDone_noRetry ==
    /\ hardInFlight > 0
    /\ hardInFlight' = hardInFlight - 1
    /\ \/ /\ hardPending' = hardPending + 1 /\ hardField' = TRUE
       \/ UNCHANGED <<hardPending, hardField>>
    /\ UNCHANGED <<booted, isLeader, isShuttingDown, softActive, softField,
                   softInFlight>>

\* The cycle settles: .then(rate) and .catch(1 s) both call
\* scheduleHardDeletion, which overwrites the field, whatever happened
\* to the service meanwhile.
HardCycleDone ==
    /\ hardInFlight > 0
    /\ hardInFlight' = hardInFlight - 1
    /\ hardPending' = hardPending + 1
    /\ hardField' = TRUE
    /\ UNCHANGED <<booted, isLeader, isShuttingDown, softActive, softField,
                   softInFlight>>

\* A soft-deletion interval fires: softDeleteOnPruningCycle starts and
\* awaits softDeletePrunableExecutions.  Nothing stops a tick while an
\* earlier cycle is still waiting.
SoftTick ==
    /\ softActive > 0
    /\ softInFlight < MaxChains
    /\ softInFlight' = softInFlight + 1
    /\ UNCHANGED <<booted, isLeader, isShuttingDown, softActive, softField,
                   hardPending, hardField, hardInFlight>>

\* The soft-deletion query settles; the cycle only logs the count.
SoftCycleDone ==
    /\ softInFlight > 0
    /\ softInFlight' = softInFlight - 1
    /\ UNCHANGED <<booted, isLeader, isShuttingDown, softActive, softField,
                   hardPending, hardField, hardInFlight>>

Next ==
    \/ Boot \/ Takeover \/ Stepdown \/ Shutdown
    \/ HardFire \/ HardCycleDone
    \/ SoftTick \/ SoftCycleDone

\* Timers fire and awaited database calls settle.  Leadership changes and
\* shutdown come from outside and are not forced.
Spec == Init /\ [][Next]_vars /\ WF_vars(Boot) /\ WF_vars(HardFire)
            /\ WF_vars(HardCycleDone) /\ WF_vars(SoftCycleDone)

-----------------------------------------------------------------------------
(* Properties *)

\* The leader never runs two soft-deletion intervals: each takeover after
\* a stepdown should replace the interval the stepdown cleared.  When the
\* stepdown listener runs after isLeader is cleared, stopPruning returns at
\* its isEnabled check and the next takeover adds a second interval; TLC
\* violates this with StepdownOrders containing "flagFirst".
SoftIntervalUnique == softActive <= 1

\* While the instance is leader and not shutting down, hard deletion keeps
\* running: the chain of self-rescheduling timeouts is never lost.
HardDeletionKeepsRunning ==
    (booted /\ isEnabled(isLeader, isShuttingDown))
        ~> (hardInFlight > 0 \/ ~isEnabled(isLeader, isShuttingDown))

=============================================================================
