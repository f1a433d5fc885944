CONSTANTS
    NodeOrder <- MC_NodeOrder
    Conn <- MC_Conn
    MaxItems <- MC_MaxItems
    MaxInputs <- MC_MaxInputs
    NoNode = NoNode

SPECIFICATION Spec
CHECK_DEADLOCK FALSE

INVARIANT TypeOK
INVARIANT UniqueLineageResolved
INVARIANT ResultIsAncestor
