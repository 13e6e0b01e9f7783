CONSTANTS
    Owners = {owner}
    Cleaners = {cleaner1, cleaner2}
    MaxMishaps = 2
SPECIFICATION FairSpec
CHECK_DEADLOCK FALSE
INVARIANTS
    Exclusion
PROPERTIES
    RenewedCardsStay
    DeadLocksGo
