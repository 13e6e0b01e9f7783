CONSTANTS
    Runtimes = {1, 2}
    Handlers = {"handler"}
    None = None
    Fields = {"displayName", "state"}
    Values = {0, 1}
    InitialValue = 0
    NoCard = NoCard
    MaxRenewals = 1
    MaxPublications = 2
SPECIFICATION FairSpec
CHECK_DEADLOCK FALSE
INVARIANTS
    Sound
PROPERTIES
    OnlyUpdatesChangeCards
    NothingAfterShutdown
    EverythingGoesOn
