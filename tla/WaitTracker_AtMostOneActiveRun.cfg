CONSTANTS
    e1 = e1
    Executions <- MC_Executions
    MaxTime <- MC_MaxTime
    Lookahead <- MC_Lookahead
    MaxRuns <- MC_MaxRuns
    NoTime = NoTime
    NoTimer = NoTimer
    NoPoll = NoPoll

SPECIFICATION Spec

INVARIANT AtMostOneActiveRun
