\* Two threads of the daemon; two opens of a status file, and one.
CONSTANTS
    Threads = {t1, t2}
    Terms = {"ant"}
    Games <- MCGames
    Files = {"ant.tap", "ant.pok"}
    SearchGames <- MCSearchGames
    Releases <- NoFiles
    Pokes <- NoPokes
    Screens <- NoPokes
    Requests <- GameRequests
    Answers = {"good"}
    MaxObjects = 5
    Openers = {o1, o2}
    MaxRuns = 3
SPECIFICATION ThreadsSpec
INVARIANTS
    
    ReadsFresh
SYMMETRY Symmetry
VIEW Seen
CHECK_DEADLOCK FALSE
