------------------------------ MODULE MCWorkers ------------------------------
(***************************************************************************)
(* One search that finds one game, with a file and a POK.                   *)
(***************************************************************************)
EXTENDS Workers, TLC

ThreadSymmetry == Permutations(Threads)

\* What the handlers read: settled and reply only record what they did.
Memory == <<cache, table, obj, urlcache, th>>

OneGame == "Ant_0000001"
MCGames == {OneGame}
MCSearchGames == [t \in Terms |-> <<OneGame>>]
MCReleases == [g \in MCGames |-> <<"ant.tap">>]
MCPokes == [g \in MCGames |-> <<"ant.pok">>]
NoPokes == [g \in MCGames |-> << >>]

MCRequests ==
    {<<"search">>, <<"search", "ant">>, <<"search", "ant", OneGame>>,
     <<"search", "ant", OneGame, "ant.tap">>}

\* A game without files, and the paths that lead to it.
NoFiles == [g \in MCGames |-> << >>]
GameRequests == {<<"search", "ant">>, <<"search", "ant", OneGame>>}

=============================================================================
