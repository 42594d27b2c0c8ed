\* A cached directory of up to six rows, listed by pages of up to four entries;
\* texts in pieces for the parser; documents through files.
CONSTANTS
    Handler = "cached"
    Letters = 26
    MaxFiles = 6
    MaxPage = 4
    Buffer = 1
    MaxTaken = 20
SPECIFICATION PiecesSpec
INVARIANTS
    TypeOK
    
    LosesAtMostTwo
    
    
    LoadsWhatWasWritten
    TornIsRejected
PROPERTY ListingEnds
CONSTRAINT ShortTokens
CHECK_DEADLOCK FALSE
