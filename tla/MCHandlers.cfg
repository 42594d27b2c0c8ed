\* A letter under two spellings, the listing of the letters, one thread call by
\* call, two open files, all paths of up to eight characters.
CONSTANTS
    Letters = {"A"}
    Spellings = {"A", "a"}
    Terms = {}
    Games = {"Ant_0000001", "Aye_0000002"}
    Files = {"ant.tap", "ant.pok", "aye.scr"}
    Others = {"x"}
    Upper <- MCUpper
    LetterGames <- MCLetterGames
    SearchGames <- MCSearchGames
    Releases <- MCReleases
    Pokes <- MCPokes
    Screens <- MCScreens
    Requests <- MCRequests
    DirtyMemory = FALSE
    Misread <- MCMisread
    Handles = {h1, h2}
    Page = 2
    Sizes <- MCSizes
    MaxAllocs = 3
    IdLen = 2
    MaxLen = 8
SPECIFICATION HandlersSpec
INVARIANTS
    LetterListed
    LetterGameShowsGame
    
    FindsDeepestGame
    PartsMakePath
PROPERTIES
    GoodLetterFileIsKept
    DeliversLetters
    OneAtATime
    RequestsEnd
    OpensEnd
CHECK_DEADLOCK FALSE
