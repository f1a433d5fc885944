CONSTANTS
    MultiMain = TRUE
    StartAsLeader <- MC_StartAsLeader
    StepdownOrders = {"eventFirst", "flagFirst"}
    MaxChains <- MC_MaxChains

SPECIFICATION Spec
CHECK_DEADLOCK FALSE

PROPERTY HardDeletionKeepsRunning
