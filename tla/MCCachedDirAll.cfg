CONSTANTS
    Handler = "cached"
    Letters = 26
    MaxFiles = 6
    MaxPage = 4
    Buffer = 2
    MaxTaken = 20
SPECIFICATION FairSpec
INVARIANTS ListsEveryRow
CHECK_DEADLOCK FALSE
