CONSTANTS
    Nodes <- MC_Nodes
    Executable <- MC_Executable
    Conns <- MC_Conns
    NumOutputs <- MC_NumOutputs
    MaxRuns = 2
    MaxItems = 1
    MaxTasks = 3
    Unknown = Unknown
    Undef = Undef
    Null = Null
    NoConn = NoConn

SPECIFICATION Spec
CHECK_DEADLOCK FALSE

INVARIANT NodeOutputMatchesSpec
INVARIANT ItemAccessorsAgree
