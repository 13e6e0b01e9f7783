CONSTANTS
    r1 = r1
    r2 = r2
    r3 = r3
    Requests = {r1, r2}
    Settings <- Unanswered
SPECIFICATION FairSpec
CHECK_DEADLOCK FALSE
PROPERTIES
    SlotsComeBack
