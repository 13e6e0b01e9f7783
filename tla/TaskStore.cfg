CONSTANTS
    Tasks = {t1, t2}
    MaxWall = 2
    FiniteRetention = TRUE
SPECIFICATION FairSpec
INVARIANTS
    Sound
PROPERTIES
    RecordsOnlyMoveOn
    TasksComeToAnEnd
