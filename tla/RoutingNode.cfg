CONSTANTS
    Props <- MC_Props
    Schema <- MC_Schema
    TopProps <- MC_TopProps
    Keys <- MC_Keys
    Locs <- MC_Locs
    Vals <- MC_Vals
    Hooks <- MC_Hooks
    HookKind <- MC_HookKind
    MaxReps <- MC_MaxReps
    Declared <- MC_Declared
    Defaults <- MC_Defaults
    Hideable <- MC_Hideable
    PageSize <- MC_PageSize
    MaxTotal <- MC_MaxTotal
    MaxResultsSet <- MC_MaxResultsSet
    MaxItems <- MC_MaxItems
    MaxRuns = 1
    LimitKey = "limit"
    OffsetKey = "offset"
    Undef = Undef
    Absent = Absent
    Unset = Unset
    NoSel = NoSel
    NoOpts = NoOpts
    v1 = v1

SPECIFICATION Spec
CHECK_DEADLOCK FALSE

INVARIANT TypeOK
INVARIANT WalkFollowsPreorder
PROPERTY ImplementsNodeExecution
