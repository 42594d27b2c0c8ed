------------------------------- MODULE ZxdbFS --------------------------------
(***************************************************************************)
(* The daemon of src/zxdbfsd.c over its three stores: the filesystem cache, *)
(* the URL cache, and the by-letter files kept on disk between runs.        *)
(*                                                                          *)
(* The kernel may ask for the attributes or the listing of any path at any  *)
(* time and in any order (it caches attributes for an hour, a process may   *)
(* sit in a directory, a listing hands out attributes without a getattr),   *)
(* so every request is an action of its own.  A request runs to its end     *)
(* before the next one starts, which is the daemon run with -s.             *)
(***************************************************************************)
EXTENDS FSCache

CONSTANTS
    Letters,      \* the letters, folded to upper case
    Spellings,    \* the one-character names under /by-letter
    Upper,        \* toupper, as a function on Spellings
    Terms,        \* search terms
    Games,        \* names of the form title_1234567
    Files,        \* names of files
    Others,       \* any other name a user may type
    LetterGames,  \* the games ZXDB lists for a letter
    SearchGames,  \* the games a search returns, after filtering
    Releases,     \* for a game, the file names of its releases
    Pokes,        \* for a game, its POK files
    Screens,      \* for a game, its screenshots
    Requests,     \* the paths the kernel asks for
    DirtyMemory,  \* may the memory behind a by-letter file, which is allocated
                  \* and read but not initialised, hold anything but NULs?
    Misread       \* the games a torn file may list with what is behind it

Name == {"by-letter", "search", "POKES", "SCRSHOT"} \cup
            Spellings \cup Letters \cup Terms \cup Games \cup Files \cup Others
Path == Seq(Name) \ {<< >>}

ASSUME NamesAssumption ==
    /\ Upper \in [Spellings -> Letters]
    /\ Letters \subseteq Spellings
    /\ \A l \in Letters : Upper[l] = l
    /\ LetterGames \in [Letters -> Seq(Games)]
    /\ SearchGames \in [Terms -> Seq(Games)]
    /\ Releases \in [Games -> Seq(Files)]
    /\ Pokes \in [Games -> Seq(Files)]
    /\ Screens \in [Games -> Seq(Files)]
    /\ Requests \subseteq {p \in Path : p[1] \in {"by-letter", "search"}}
    /\ \A p \in Requests : p[1] = "search" /\ Len(p) > 1 => p[2] \in Terms
    /\ DirtyMemory \in BOOLEAN
    /\ Misread \subseteq Seq(Games)

\* A name says what it names: a segment of a path is not both a game, a
\* letter and a file.
ASSUME DisjointAssumption ==
    /\ Files \cap (Games \cup Letters) = {}
    /\ Files \cap {"by-letter", "search", "POKES", "SCRSHOT"} = {}
    /\ Games \cap (Spellings \cup {"by-letter", "search", "POKES", "SCRSHOT"}) = {}

VARIABLES
    fscache,     \* path -> entry
    urlcache,    \* URL -> "good" or "bad": a document it holds
    letterFile,  \* what <cacherootdir>/by-letter-<L>.json holds
    reply        \* the answer to the latest request

vars == <<fscache, urlcache, letterFile, reply>>

-----------------------------------------------------------------------------
(***************************************************************************)
(* Paths and the trees ZXDB documents are turned into.                      *)
(***************************************************************************)

SearchDir == <<"search">>

\* The keys the handlers build: the letter is folded to upper case, a search
\* is known by its term.
LetterKey(path) == <<"by-letter", Upper[path[2]]>>
SearchKey(path) == <<"search", path[2]>>

IsLetterDir(path) == Len(path) = 2 /\ path[1] = "by-letter" /\ path[2] \in Spellings

\* Directories whose attributes are known without looking anything up.
IsFixedDir(path) == Len(path) = 1 \/ IsLetterDir(path)

\* getTitleAndIDFromPath scans back from the end of the path: the segment it
\* finds is the last one that ends in a seven-digit id.
IsGameSegment(path, i) ==
    path[i] \in Games /\ \A j \in i + 1 .. Len(path) : path[j] \notin Games

HasGame(path) == \E i \in 1 .. Len(path) : IsGameSegment(path, i)
GameSegment(path) == CHOOSE i \in 1 .. Len(path) : IsGameSegment(path, i)
GameRoot(path) == SubSeq(path, 1, GameSegment(path))
GameOf(path) == path[GameSegment(path)]

\* FSCacheEntry_createFromGame: the files of all releases, then a POKES and a
\* SCRSHOT directory unless empty.
Section(g, name) == IF name = "POKES" THEN Pokes[g] ELSE Screens[g]
Sections(g) == (IF Pokes[g] = << >> THEN << >> ELSE <<"POKES">>) \o
               (IF Screens[g] = << >> THEN << >> ELSE <<"SCRSHOT">>)
GameNames(g) == Releases[g] \o Sections(g)

GameDirs(root, g) == {root} \cup {Append(root, Sections(g)[i]) : i \in DOMAIN Sections(g)}
NamesIn(root, g, dir) == IF dir = root THEN GameNames(g) ELSE Section(g, BaseName(dir))

RowsIn(dir, names) ==
    [i \in DOMAIN names |->
        Row(Append(dir, names[i]), IF names[i] \in Files THEN "file" ELSE "dir")]

Children(dir, names) == {Append(dir, names[i]) : i \in DOMAIN names}

GameFiles(root, g) ==
    (UNION {Children(d, NamesIn(root, g, d)) : d \in GameDirs(root, g)}) \ GameDirs(root, g)

GameTree(root, g) ==
    [p \in GameDirs(root, g) \cup GameFiles(root, g) |->
        IF p \in GameDirs(root, g) THEN DirEntry(RowsIn(p, NamesIn(root, g, p)))
                                   ELSE FileEntry]

-----------------------------------------------------------------------------
(***************************************************************************)
(* The URL cache (getURL).  A fetch yields no document when the transfer    *)
(* fails or the body is not JSON; any JSON is a document, kept until the    *)
(* URL cache is flushed.  A "bad" one lacks what the builders need (an      *)
(* error reply of the API is one); a "good" one has it.                     *)
(***************************************************************************)

Docs == {"down", "bad", "good"}
Urls == ({"letter"} \X Letters) \cup ({"search"} \X Terms) \cup ({"game"} \X Games)

GetURL(url, doc) ==
    /\ url \in DOMAIN urlcache => doc = urlcache[url]
    /\ urlcache' = IF doc = "down" THEN urlcache ELSE Add(urlcache, url, doc)

\* What readdir of path shows when the cache is c: the base name of every row,
\* nothing for a path that is not cached.
Listing(c, path) ==
    IF path \in DOMAIN c
      THEN [i \in DOMAIN c[path].files |-> BaseName(c[path].files[i].fname)]
      ELSE << >>

\* Mutants of KindIn: the type of a stub is not folded into that of a
\* directory; every entry is taken for a directory.
KindIn_rawType(c, path) == IF path \notin DOMAIN c THEN "none" ELSE c[path].type
KindIn_alwaysDir(c, path) == IF path \notin DOMAIN c THEN "none" ELSE "dir"

\* _getattrFromFSCache: a path the cache does not hold leaves the mode at 0.
KindIn(c, path) ==
    IF path \notin DOMAIN c THEN "none"
    ELSE IF c[path].type = "file" THEN "file" ELSE "dir"

Answer(op, path, kind, names) ==
    reply' = [op |-> op, path |-> path, kind |-> kind, names |-> names]

-----------------------------------------------------------------------------
Init ==
    /\ fscache = EmptyCache
    /\ urlcache = [u \in {} |-> "good"]
    /\ letterFile = [l \in Letters |-> "absent"]
    /\ reply = [op |-> "none", path |-> << >>, kind |-> "none", names |-> << >>]

(***************************************************************************)
(* zxdb_fuse_getattr                                                        *)
(***************************************************************************)

GetattrFixed(path) ==
    /\ IsFixedDir(path)
    /\ Answer("getattr", path, "dir", << >>)
    /\ UNCHANGED <<fscache, urlcache, letterFile>>

GetattrHit(path) ==
    /\ ~IsFixedDir(path)
    /\ path \in DOMAIN fscache
    /\ Answer("getattr", path, KindIn(fscache, path), << >>)
    /\ UNCHANGED <<fscache, urlcache, letterFile>>

\* A path below /search whose term is not among the cached searches.
IsNewSearch(path) == path[1] = "search" /\ SearchKey(path) \notin DOMAIN fscache

\* _getAndCreateGame on a path with no game in it: no document to fetch, and
\* the failure is answered with a directory.
GetattrUnknown(path) ==
    /\ ~IsFixedDir(path) /\ path \notin DOMAIN fscache
    /\ ~IsNewSearch(path) /\ ~HasGame(path)
    /\ Answer("getattr", path, "dir", << >>)
    /\ UNCHANGED <<fscache, urlcache, letterFile>>

\* _getAndCreateGame: the whole tree of the game is cached, then the path is
\* looked up again.  Without a good document the answer is a directory.
GetattrGame(path, doc) ==
    /\ ~IsFixedDir(path) /\ path \notin DOMAIN fscache
    /\ ~IsNewSearch(path) /\ HasGame(path)
    /\ GetURL(<<"game", GameOf(path)>>, doc)
    /\ IF doc = "good"
         THEN /\ fscache' = AddAll(fscache, GameTree(GameRoot(path), GameOf(path)))
              /\ Answer("getattr", path, KindIn(fscache', path), << >>)
         ELSE /\ Answer("getattr", path, "dir", << >>)
              /\ UNCHANGED fscache
    /\ UNCHANGED letterFile

\* Mutant of GetattrSearch: a newly created /search entry is never added.
GetattrSearch_noAdd(path, doc) ==
    /\ ~IsFixedDir(path) /\ path \notin DOMAIN fscache
    /\ IsNewSearch(path)
    /\ GetURL(<<"search", path[2]>>, doc)
    /\ fscache' = IF doc = "good"
                    THEN AddAll(fscache, StubTree(path, path, SearchGames[path[2]]))
                    ELSE fscache
    /\ Answer("getattr", path, "dir", << >>)
    /\ UNCHANGED letterFile

\* A new search: the results go under the whole path that was asked for, and
\* a row for the term is appended to the entry of /search, created if need be.
\* The path is then found in the cache, as a directory.
GetattrSearch(path, doc) ==
    /\ ~IsFixedDir(path) /\ path \notin DOMAIN fscache
    /\ IsNewSearch(path)
    /\ GetURL(<<"search", path[2]>>, doc)
    /\ IF doc = "good"
         THEN LET found == AddAll(fscache, StubTree(path, path, SearchGames[path[2]]))
                  searches == IF SearchDir \in DOMAIN found THEN found[SearchDir]
                                                            ELSE DirEntry(<< >>)
              IN  fscache' = Add(found, SearchDir,
                                 AddFile(searches, Row(SearchKey(path), "dir")))
         ELSE UNCHANGED fscache
    /\ Answer("getattr", path, "dir", << >>)
    /\ UNCHANGED letterFile

(***************************************************************************)
(* zxdb_fuse_readdir of the directories that are not constant               *)
(***************************************************************************)

\* _readdirByLetterAZ, the letter being cached.
ReaddirLetterHit(path) ==
    /\ IsLetterDir(path) /\ LetterKey(path) \in DOMAIN fscache
    /\ Answer("readdir", path, "dir", Listing(fscache, path))
    /\ UNCHANGED <<fscache, urlcache, letterFile>>

\* Mutant of ReaddirLetterPreload: the entry is not looked up again once the
\* file has been loaded.
ReaddirLetterPreload_stale(path) ==
    /\ IsLetterDir(path) /\ LetterKey(path) \notin DOMAIN fscache
    /\ letterFile[Upper[path[2]]] = "good"
    /\ fscache' = AddAll(fscache, StubTree(LetterKey(path), LetterKey(path),
                                           LetterGames[Upper[path[2]]]))
    /\ Answer("readdir", path, "dir", Listing(fscache, path))
    /\ UNCHANGED <<urlcache, letterFile>>

\* _preloadByLetterCache succeeds: the file is parsed and holds a good document.
ReaddirLetterPreload(path) ==
    /\ IsLetterDir(path) /\ LetterKey(path) \notin DOMAIN fscache
    /\ letterFile[Upper[path[2]]] = "good"
    /\ fscache' = AddAll(fscache, StubTree(LetterKey(path), LetterKey(path),
                                           LetterGames[Upper[path[2]]]))
    /\ Answer("readdir", path, "dir", Listing(fscache', path))
    /\ UNCHANGED <<urlcache, letterFile>>

\* It succeeds with a torn file, which what lies behind it completes.
ReaddirLetterMisread(path, games) ==
    /\ DirtyMemory
    /\ IsLetterDir(path) /\ LetterKey(path) \notin DOMAIN fscache
    /\ letterFile[Upper[path[2]]] = "torn"
    /\ fscache' = AddAll(fscache, StubTree(LetterKey(path), LetterKey(path), games))
    /\ Answer("readdir", path, "dir", Listing(fscache', path))
    /\ UNCHANGED <<urlcache, letterFile>>

\* It fails, or the file is no use to the builder; a good one is rejected if what
\* lies behind it starts a comment.
MayFailToPreload(l) == letterFile[l] # "good" \/ DirtyMemory

\* Mutant of ReaddirLetterFetch: the file is not tried before the fetch.
ReaddirLetterFetch_noPreload(path, doc, written) ==
    /\ IsLetterDir(path) /\ LetterKey(path) \notin DOMAIN fscache
    /\ GetURL(<<"letter", Upper[path[2]]>>, doc)
    /\ doc # "down"
    /\ written \in {letterFile[Upper[path[2]]], doc, "torn"}
    /\ letterFile' = [letterFile EXCEPT ![Upper[path[2]]] = written]
    /\ Answer("readdir", path, "dir", Listing(fscache, path))
    /\ UNCHANGED fscache

\* No usable file: fetch, write the document back whatever it is, then build.
\* The file keeps its content if it cannot be opened and is torn if the write
\* falls short, which nothing checks.
ReaddirLetterFetch(path, doc, written) ==
    /\ IsLetterDir(path) /\ LetterKey(path) \notin DOMAIN fscache
    /\ MayFailToPreload(Upper[path[2]])
    /\ GetURL(<<"letter", Upper[path[2]]>>, doc)
    /\ IF doc = "down"
         THEN /\ Answer("readdir", path, "enodev", << >>)
              /\ UNCHANGED <<fscache, letterFile>>
         ELSE /\ written \in {letterFile[Upper[path[2]]], doc, "torn"}
              /\ letterFile' = [letterFile EXCEPT ![Upper[path[2]]] = written]
              /\ fscache' = IF doc = "good"
                              THEN AddAll(fscache, StubTree(LetterKey(path), path,
                                                            LetterGames[Upper[path[2]]]))
                              ELSE fscache
              /\ Answer("readdir", path, "dir", Listing(fscache', path))

IsStub(path) == path \in DOMAIN fscache /\ fscache[path].type = "dirstub"

\* _readdirFSCache of a path that needs no unstubbing.
ReaddirCached(path) ==
    /\ ~IsLetterDir(path) /\ ~IsStub(path)
    /\ path # <<"by-letter">>
    /\ Answer("readdir", path, "dir", Listing(fscache, path))
    /\ UNCHANGED <<fscache, urlcache, letterFile>>

\* Mutants of ReaddirStub: FSCache_add in place of FSCache_addAll; the stub is
\* deleted before the fetch.
ReaddirStub_rootOnly(path, doc) ==
    /\ IsStub(path)
    /\ GetURL(<<"game", GameOf(path)>>, doc)
    /\ fscache' = IF doc = "good"
                    THEN Add(fscache, path, GameTree(path, GameOf(path))[path])
                    ELSE fscache
    /\ Answer("readdir", path, "dir", Listing(fscache', path))
    /\ UNCHANGED letterFile
ReaddirStub_deleteFirst(path, doc) ==
    /\ IsStub(path)
    /\ GetURL(<<"game", GameOf(path)>>, doc)
    /\ fscache' = IF doc = "good"
                    THEN AddAll(fscache, GameTree(path, GameOf(path)))
                    ELSE Delete(fscache, path)
    /\ Answer("readdir", path, "dir", Listing(fscache', path))
    /\ UNCHANGED letterFile

\* _readdirFSCache of a stub: _unstub fetches the game first and only then
\* replaces the stub; on failure the listing is empty and the stub stays.
ReaddirStub(path, doc) ==
    /\ IsStub(path)
    /\ GetURL(<<"game", GameOf(path)>>, doc)
    /\ fscache' = IF doc = "good"
                    THEN AddAll(Delete(fscache, path),
                                GameTree(GameRoot(path), GameOf(path)))
                    ELSE fscache
    /\ Answer("readdir", path, "dir", Listing(fscache', path))
    /\ UNCHANGED letterFile

(***************************************************************************)
(* The magic /cache paths, and the end of the daemon                        *)
(***************************************************************************)

FlushFSCache ==
    /\ fscache' = EmptyCache
    /\ Answer("flush", <<"fscache">>, "dir", << >>)
    /\ UNCHANGED <<urlcache, letterFile>>

FlushURLCache ==
    /\ urlcache' = [u \in {} |-> "good"]
    /\ Answer("flush", <<"urlcache">>, "dir", << >>)
    /\ UNCHANGED <<fscache, letterFile>>

\* The daemon stops, or dies, and is mounted again: the disk alone survives.
Restart ==
    /\ fscache' = EmptyCache
    /\ urlcache' = [u \in {} |-> "good"]
    /\ Answer("restart", << >>, "none", << >>)
    /\ UNCHANGED letterFile

\* It dies while it writes a by-letter file back: fopen has truncated the file.
CrashInWriteback(path) ==
    /\ IsLetterDir(path) /\ LetterKey(path) \notin DOMAIN fscache
    /\ MayFailToPreload(Upper[path[2]])
    /\ letterFile' = [letterFile EXCEPT ![Upper[path[2]]] = "torn"]
    /\ fscache' = EmptyCache
    /\ urlcache' = [u \in {} |-> "good"]
    /\ Answer("restart", << >>, "none", << >>)

Next ==
    \/ \E path \in Requests :
        \/ GetattrFixed(path)
        \/ GetattrHit(path)
        \/ GetattrUnknown(path)
        \/ ReaddirLetterHit(path)
        \/ ReaddirLetterPreload(path)
        \/ \E games \in Misread : ReaddirLetterMisread(path, games)
        \/ ReaddirCached(path)
        \/ CrashInWriteback(path)
        \/ \E doc \in Docs :
            \/ GetattrGame(path, doc)
            \/ GetattrSearch(path, doc)
            \/ ReaddirStub(path, doc)
            \/ \E written \in {"absent", "torn", "bad", "good"} :
                    ReaddirLetterFetch(path, doc, written)
    \/ FlushFSCache
    \/ FlushURLCache
    \/ Restart

Spec == Init /\ [][Next]_vars

-----------------------------------------------------------------------------
(***************************************************************************)
(* Properties                                                               *)
(***************************************************************************)

Entry == [type : Kinds, files : Seq([fname : Path, type : Kinds])]

\* Type invariant: the caches map paths to entries and URLs to documents.
TypeOK ==
    /\ DOMAIN fscache \subseteq Path /\ fscache \in [DOMAIN fscache -> Entry]
    /\ DOMAIN urlcache \subseteq Urls /\ urlcache \in [DOMAIN urlcache -> {"bad", "good"}]
    /\ letterFile \in [Letters -> {"absent", "torn", "bad", "good"}]
    /\ reply \in [op : {"none", "getattr", "readdir", "flush", "restart"},
                  path : Path \cup {<< >>, <<"fscache">>, <<"urlcache">>},
                  kind : {"none", "dir", "file", "enodev"},
                  names : Seq(Name)]

IsFileType(type) == type = "file"

\* Whatever a cached directory lists is itself cached, as the kind the listing
\* gives it: readdir and open never load anything on a miss, so a row without
\* its entry would be a directory that lists empty or a file that cannot be
\* opened.  The entry of /search is apart: its rows are the terms searched for.
ListedIsCached ==
    \A d \in DOMAIN fscache \ {SearchDir} : \A i \in DOMAIN fscache[d].files :
        LET row == fscache[d].files[i]
        IN  /\ row.fname \in DOMAIN fscache
            /\ IsFileType(row.type) <=> IsFileType(fscache[row.fname].type)

\* The attributes getattr answers agree with those a listing of the parent
\* hands out (readdirplus), which the kernel caches in their place.
StatAgreesWithListing ==
    \A d \in DOMAIN fscache : \A i \in DOMAIN fscache[d].files :
        LET row == fscache[d].files[i]
        IN  reply.op = "getattr" /\ reply.path = row.fname
                => reply.kind = IF IsFileType(row.type) THEN "file" ELSE "dir"

\* The daemon has the programs of a letter: cached, or in the file on disk.
HasLetter(path) ==
    LetterKey(path) \in DOMAIN fscache \/ letterFile[Upper[path[2]]] = "good"

ShowsLetter == reply.names = LetterGames[Upper[reply.path[2]]]

\* Listing /by-letter/<A-Z> shows the programs of the letter whenever the daemon
\* has them, also after a restart with ZXDB out of reach, and whichever
\* spelling of the letter they were first fetched through.  README.md:110-112 has
\* it, and dirty memory breaks it.
LetterListed ==
    reply.op = "readdir" /\ IsLetterDir(reply.path) /\ reply.path[2] \in Letters
        /\ HasLetter(reply.path)
    => ShowsLetter

ShowsGame(path) ==
    fscache[path].type = "dir" =>
        fscache[path].files = RowsIn(path, GameNames(BaseName(path)))

IsGamePath(path) == BaseName(path) \in Games

\* A loaded game directory under /by-letter lists the files of its game.
LetterGameShowsGame ==
    \A p \in DOMAIN fscache : IsGamePath(p) /\ p[1] = "by-letter" => ShowsGame(p)

SearchRows == IF SearchDir \in DOMAIN fscache THEN fscache[SearchDir].files ELSE << >>
IsListedSearch(t) == \E i \in DOMAIN SearchRows : SearchRows[i].fname = <<"search", t>>

\* A search whose results are cached is listed in /search.
SearchesAreListed ==
    \A t \in Terms : <<"search", t>> \in DOMAIN fscache => IsListedSearch(t)

\* Between two flushes no path is forgotten and no file turns into a directory:
\* what was listed, or open, stays reachable while other requests rebuild the
\* trees around it.
FilesStayFiles ==
    [][ \/ fscache' = EmptyCache
        \/ \A p \in DOMAIN fscache :
              /\ p \in DOMAIN fscache'
              /\ IsFileType(fscache[p].type) => IsFileType(fscache'[p].type) ]_vars

\* A good by-letter file is never replaced, torn or lost again, whatever the
\* API answers and whenever the daemon dies, unless dirty memory makes the
\* daemon reject it.
GoodLetterFileIsKept ==
    [][\A l \in Letters : letterFile[l] = "good" => letterFile'[l] = "good"]_vars

(***************************************************************************)
(* What the documentation says and the code does not do                     *)
(***************************************************************************)

\* README.md:110-112: traversing to a sub-directory of /by-letter lists the
\* programs starting with its name; the code folds the letter to upper case.
AnySpellingListed ==
    reply.op = "readdir" /\ IsLetterDir(reply.path) /\ HasLetter(reply.path) => ShowsLetter

\* README.md:113-114: each directory listed for a letter is that of a program:
\* it has an entry, without which it would list empty.
LetterGamesAreCached ==
    reply.op = "readdir" /\ IsLetterDir(reply.path) =>
        \A i \in DOMAIN reply.names : Append(reply.path, reply.names[i]) \in DOMAIN fscache

\* README.md:122-126: the results of a search are under /search/<term>, and
\* /search lists the searches that have occurred: a listed search has results.
ListedSearchHasResults ==
    \A t \in Terms : IsListedSearch(t) => <<"search", t>> \in DOMAIN fscache

\* README.md:113-114: each title_id directory corresponds to a program.
GameDirShowsGame ==
    \A p \in DOMAIN fscache : IsGamePath(p) => ShowsGame(p)

=============================================================================
