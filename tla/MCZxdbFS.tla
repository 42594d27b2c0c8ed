------------------------------ MODULE MCZxdbFS -------------------------------
(***************************************************************************)
(* Small instances of ZxdbFS.                                               *)
(***************************************************************************)
EXTENDS ZxdbFS, TLC

MCUpper == [s \in Spellings |-> IF s = "a" THEN "A" ELSE s]

MCLetterGames == [l \in Letters |-> IF l = "A" THEN <<"Ant_0000001", "Aye_0000002">> ELSE << >>]
MCSearchGames == [t \in Terms |-> IF t = "ant" THEN <<"Ant_0000001">> ELSE << >>]
MCReleases    == [g \in Games |-> IF g = "Ant_0000001" THEN <<"ant.tap">> ELSE << >>]
MCPokes       == [g \in Games |-> IF g = "Ant_0000001" THEN <<"ant.pok">> ELSE << >>]
MCScreens     == [g \in Games |-> IF g = "Ant_0000001" THEN << >> ELSE <<"aye.scr">>]

LetterPaths(s) ==
    {<<"by-letter">>, <<"by-letter", s>>, <<"by-letter", s, "Ant_0000001">>,
     <<"by-letter", s, "x">>,
     <<"by-letter", s, "Ant_0000001", "ant.tap">>,
     <<"by-letter", s, "Ant_0000001", "POKES">>,
     <<"by-letter", s, "Ant_0000001", "POKES", "ant.pok">>}

SearchPaths(t) ==
    {<<"search">>, <<"search", t>>, <<"search", t, "Ant_0000001">>,
     <<"search", t, "Ant_0000001", "ant.tap">>}

\* A torn file that ends within its second game.
MCMisread == {<<"Ant_0000001">>}

MCRequests == UNION {LetterPaths(s) : s \in Spellings} \cup UNION {SearchPaths(t) : t \in Terms}
=============================================================================
