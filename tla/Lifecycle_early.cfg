CONSTANTS
    Runtimes = {1, 2}
    Handlers = {"handler"}
    None = None
    Fields = {"displayName", "state"}
    Values = {0, 1}
    InitialValue = 0
    NoCard = NoCard
    MaxRenewals = 1
    MaxPublications = 1
SPECIFICATION Spec
CHECK_DEADLOCK FALSE
INVARIANT
    PublishedIsReady
