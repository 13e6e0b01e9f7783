CONSTANTS
    Requests = {r1}
    MaxSends = 2
    MaxTracked = 1
    Settings <- Routers
SPECIFICATION FairSpec
CHECK_DEADLOCK FALSE
INVARIANTS
    Truthful
PROPERTIES
    ResultsStand
    AdmissionSettles
