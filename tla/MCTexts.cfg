SPECIFICATION ConditionSpec
CONSTANTS
    Roots <- MCRoots
    Nodes <- MCNodes
    Height <- MCHeight
    Recordable <- MCRecordable
    MaxConditionDepth = 2
    MaxArgs = 2
    MaxObservations = 2
    MaxInteger = 3
    MaxDecimal = 4
    MaxTimestamp = 3
    MaxText = 2
    CodePoints <- MCCodePoints
    CodeUnits <- MCCodeUnits
INVARIANTS
    SameRejectionBoundaries
CHECK_DEADLOCK FALSE
