\* Two threads: is what FSCache_get returns a copy?
SPECIFICATION Spec
CONSTANTS
    Threads = {t1, t2}
    Terms = {"ant"}
    Games <- MCGames
    Files = {"ant.tap", "ant.pok"}
    SearchGames <- MCSearchGames
    Releases <- MCReleases
    Pokes <- NoPokes
    Screens <- NoPokes
    Requests <- MCRequests
    Answers = {"down", "bad", "good"}
    MaxObjects = 9
INVARIANT GetReturnsCopy
