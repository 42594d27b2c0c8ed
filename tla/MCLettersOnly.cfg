CONSTANTS
    Handler = "letters"
    Letters = 26
    MaxFiles = 0
    MaxPage = 28
    Buffer = 1
    MaxTaken = 40
SPECIFICATION FairSpec
INVARIANTS ListsLettersOnly
CHECK_DEADLOCK FALSE
