CONSTANTS
    NumItems = 2
    MaxResults = 2
    Limits <- MC_Limits
    Formats <- MC_Formats
    Filters <- MC_Filters
    f1 = f1
    Unset = Unset
    Absent = Absent

SPECIFICATION Spec
CHECK_DEADLOCK FALSE

INVARIANT TypeOK
INVARIANT FailureOutcome
PROPERTY ImplementsNodeExecution
