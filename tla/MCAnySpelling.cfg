CONSTANTS
    Letters = {"A"}
    Spellings = {"A", "a"}
    Terms = {}
    Games = {"Ant_0000001", "Aye_0000002"}
    Files = {"ant.tap", "ant.pok", "aye.scr"}
    Others = {"x"}
    Upper <- MCUpper
    LetterGames <- MCLetterGames
    SearchGames <- MCSearchGames
    Releases <- MCReleases
    Pokes <- MCPokes
    Screens <- MCScreens
    Requests <- MCRequests
    DirtyMemory = FALSE
    Misread <- MCMisread
SPECIFICATION WalkSpec
INVARIANTS AnySpellingListed
