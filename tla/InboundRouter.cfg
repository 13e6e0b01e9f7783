CONSTANTS
    r1 = r1
    r2 = r2
    r3 = r3
    Requests = {r1, r2, r3}
    Settings <- Routers
SPECIFICATION FairSpec
CHECK_DEADLOCK FALSE
INVARIANTS
    TypeOK
    BooksAgree
    SlotsWellUsed
PROPERTIES
    StartsInOrder
    NeverStartsLate
    QuietAfterClose
    ImplementsContract
    EveryRequestDecided
