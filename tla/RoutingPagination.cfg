CONSTANTS
    PageSize <- MC_PageSize
    MaxTotal <- MC_MaxTotal
    MaxResultsSet <- MC_MaxResultsSet

SPECIFICATION Spec
CONSTRAINT StateBound
CHECK_DEADLOCK FALSE

INVARIANT TypeOK
INVARIANT ItemCountIsCapped
INVARIANT PageCount
PROPERTY PaginationTerminates
