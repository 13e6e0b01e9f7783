CONSTANTS
    Requests = {r1}
    MaxSends = 2
    MaxTracked = 1
    Settings <- Once
SPECIFICATION FairSpec
CHECK_DEADLOCK FALSE
PROPERTIES
    CompletionSettles
