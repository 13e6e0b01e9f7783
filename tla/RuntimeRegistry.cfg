CONSTANTS
    p1 = p1
    p2 = p2
    n1 = n1
    n2 = n2
    None = None
    Peers <- MCPeers
    Names <- MCNames
    InitialName = n1
    Settings <- MCSettings
SPECIFICATION Spec
INVARIANTS
    Exclusion
    OwnersRecord
PROPERTIES
    OnlyExaminedRecordsGo
    CallsReturn
CHECK_DEADLOCK FALSE
