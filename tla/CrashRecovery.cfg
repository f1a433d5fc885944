CONSTANTS
    NodeList <- MC_NodeList
    ManualNodes <- MC_ManualNodes
    Schedule <- MC_Straight
    MaxRecoveries <- MC_MaxRecoveries
    NoNode = NoNode

SPECIFICATION Spec
CHECK_DEADLOCK FALSE

INVARIANT TypeOK
INVARIANT CrashedNodeReported
PROPERTY RecoveryIdempotent
PROPERTY SavedTasksKept
