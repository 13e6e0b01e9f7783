CONSTANTS
    Missing = Missing
    Malformed = Malformed
    Asker = asker
    Answerer = answerer
    Stranger = stranger
    Room = room
    AskerIds = {i1, i2}
    FirstId = i1
    ReplyId = i3
    Ids <- AllIds
    Runtimes <- Everyone
    MaxRequestTtl = 3
    MaxControlTtl = 2
    MaxSkew = 1
    Settings <- Settings3
    MaxSent = 2
    LastBuild = 0
    Keys <- Keys2
    Prints <- Prints2
    Callers = {c1, c2}
    Results <- Results2
    Expiry <- Expiry2
    Grace = 1
    MaxNow = 5
SPECIFICATION OperationsSpec
CHECK_DEADLOCK FALSE
INVARIANTS
    TypeOK
    OneExecution
    AnsweredIsKnown
    OursAreUnderstood
    AnswersAreUnderstood
    OnlyTheRequesterStops
PROPERTIES
    EverythingForgotten
