------------------------------- MODULE Workers -------------------------------
(***************************************************************************)
(* The handlers of src/zxdbfsd.c in several threads, as fuse_main runs them *)
(* without -s.  No lock guards the filesystem cache, so a handler is the    *)
(* sequence of its calls: each call on the cache, each look at an entry and *)
(* each fetch is a step of its own, and the steps of the threads mix.       *)
(*                                                                          *)
(* The cache owns its entries: it frees one that it replaces or deletes     *)
(* (json_object_object_add, json_object_object_del), and all of them in a   *)
(* flush.  FSCache_get hands out a pointer and takes no reference.  A step  *)
(* that follows a pointer to what has been freed is undefined: its thread   *)
(* goes nowhere from there.                                                 *)
(*                                                                          *)
(* Requests are those below /search, and the flush of the cache; ZxdbFS has *)
(* the others, whose calls on the cache are the same.  A fetch is one step. *)
(***************************************************************************)
EXTENDS FSCache

CONSTANTS
    Threads,      \* the worker threads; one of them is the daemon run with -s
    Terms, Games, Files, SearchGames, Releases, Pokes, Screens,  \* as in ZxdbFS
    Requests,     \* the paths the kernel asks for
    Answers,      \* what a fetch may yield: among "down", "bad", "good", as in ZxdbFS
    MaxObjects    \* bound on the entries that exist at a time

ASSUME WorkersAssumption ==
    /\ Games \subseteq STRING /\ Files \subseteq STRING
    /\ SearchGames \in [Terms -> Seq(Games)]
    /\ {Releases, Pokes, Screens} \subseteq [Games -> Seq(Files)]
    /\ Requests \subseteq {p \in Seq(STRING) : p # << >> /\ p[1] = "search"}
    /\ \A p \in Requests : Len(p) > 1 => p[2] \in Terms
    /\ Answers \subseteq {"down", "bad", "good"}
    /\ MaxObjects \in Nat \ {0}

VARIABLES
    cache,      \* path -> the entry it points to
    table,      \* "live", or "freed" between the two halves of a flush
    obj,        \* the entries that are allocated, with what they hold
    urlcache,   \* as in ZxdbFS
    th,         \* what each thread is about to do, with its locals
    settled,    \* the two caches as the latest completed request left them
    reply       \* the latest answer

vars == <<cache, table, obj, urlcache, th, settled, reply>>

Daemon == INSTANCE ZxdbFS WITH
    Letters <- {}, Spellings <- {}, Upper <- << >>, Others <- {}, LetterGames <- << >>,
    DirtyMemory <- FALSE, Misread <- {},
    letterFile <- << >>, fscache <- settled.fscache, urlcache <- settled.urlcache

-----------------------------------------------------------------------------
Ids == 1 .. MaxObjects
Null == 0

\* An entry in memory: the tree below it comes with it, since a row is a full
\* copy of the child.
Object(root, tree) == [root |-> root, tree |-> tree]
Held(o) == o.tree[o.root]
Rows(o) == Held(o).files

Idle == [pc |-> "idle", path |-> << >>, ptr |-> Null, new |-> Null, fresh |-> FALSE,
         next |-> "idle", stack |-> << >>, nfiles |-> 0, names |-> << >>]

Pointers(t) == {th[t].ptr, th[t].new} \cup {th[t].stack[i].id : i \in DOMAIN th[t].stack}

\* malloc: memory that nothing points to.
Unused == Ids \ (DOMAIN obj \cup UNION {Pointers(t) : t \in Threads})
Fresh == CHOOSE id \in Unused : TRUE

Step(t, locals) == th' = [th EXCEPT ![t] = Overlay(@, locals)]

Contents(c, o) ==
    [p \in {q \in DOMAIN c : c[q] \in DOMAIN o} |-> Held(o[c[p]])]

\* The handler returns.
Finish(t, op, path, kind, names) ==
    /\ th' = [th EXCEPT ![t] = Idle]
    /\ reply' = [op |-> op, path |-> path, kind |-> kind, names |-> names]
    /\ settled' = [fscache |-> Contents(cache', obj'), urlcache |-> urlcache']

InHandler == UNCHANGED <<settled, reply>>

\* json_object_object_add on the cache: what the key held is freed.
Store(key, id, o) ==
    /\ cache' = Add(cache, key, id)
    /\ obj' = Without(o, IF key \in DOMAIN cache THEN {cache[key]} \ {id} ELSE {})

\* FSCache_get: the entry itself.
Found(path) == IF path \in DOMAIN cache THEN cache[path] ELSE Null

-----------------------------------------------------------------------------
(***************************************************************************)
(* Undefined steps                                                          *)
(***************************************************************************)

CallsTable == {"lookup", "term", "addroot", "addchild", "searchget", "searchadd",
               "refetch", "gamelookup", "list", "delete", "relist", "flush"}
ReadsEntry == {"read", "unstub", "dump", "searchrow", "retype", "row"}

IsDangling(t) ==
    \/ th[t].pc \in CallsTable /\ table = "freed"
    \/ th[t].pc \in ReadsEntry /\ th[t].ptr \notin DOMAIN obj \cup {Null}
    \/ th[t].pc = "addchild" /\ th[t].stack[Len(th[t].stack)].id \notin DOMAIN obj

Undefined(t) ==
    /\ IsDangling(t)
    /\ Step(t, [pc |-> "undefined"])
    /\ UNCHANGED <<cache, table, obj, urlcache, settled, reply>>

At(t, pc) == th[t].pc = pc /\ ~IsDangling(t)

-----------------------------------------------------------------------------
Init ==
    /\ cache = [p \in {} |-> Null]
    /\ table = "live"
    /\ obj = [i \in {} |-> Object(<< >>, EmptyCache)]
    /\ urlcache = [u \in {} |-> "good"]
    /\ th = [t \in Threads |-> Idle]
    /\ settled = [fscache |-> EmptyCache, urlcache |-> urlcache]
    /\ reply = [op |-> "none", path |-> << >>, kind |-> "none", names |-> << >>]

Start(t, pc, path) ==
    /\ th[t].pc = "idle"
    /\ Step(t, [pc |-> pc, path |-> path])
    /\ UNCHANGED <<cache, table, obj, urlcache, settled, reply>>

Request(t) ==
    \/ \E path \in Requests : Len(path) > 1 /\ Start(t, "lookup", path)
    \/ \E path \in Requests : Start(t, "list", path)
    \/ Start(t, "flush", << >>)

(***************************************************************************)
(* FSCache_addAll                                                           *)
(***************************************************************************)

\* The new entry goes to the cache, which owns it from now on.
AddRoot(t) ==
    /\ At(t, "addroot")
    /\ Store(obj[th[t].new].root, th[t].new, obj)
    /\ Step(t, [pc |-> "addchild", new |-> Null, stack |-> <<[id |-> th[t].new, i |-> 1]>>])
    /\ InHandler /\ UNCHANGED <<table, urlcache>>

Top(t) == th[t].stack[Len(th[t].stack)]
Advance(stack) == [stack EXCEPT ![Len(stack)].i = @ + 1]

\* One turn of the loop over the rows: a copy of the row is stored under its
\* fname, and its own rows come next.  The rows are read from the entry in
\* the cache.
AddChild(t) ==
    /\ At(t, "addchild")
    /\ LET parent == obj[Top(t).id]
       IN  IF Top(t).i <= Len(Rows(parent))
             THEN LET fname == Rows(parent)[Top(t).i].fname
                  IN  /\ Unused # {}
                      /\ Store(fname, Fresh, Add(obj, Fresh, Object(fname, parent.tree)))
                      /\ Step(t, [stack |-> Append(Advance(th[t].stack),
                                                   [id |-> Fresh, i |-> 1])])
             ELSE LET rest == SubSeq(th[t].stack, 1, Len(th[t].stack) - 1)
                  IN  /\ Step(t, [pc |-> IF rest = << >> THEN th[t].next ELSE "addchild",
                                  stack |-> rest])
                      /\ UNCHANGED <<cache, obj>>
    /\ InHandler /\ UNCHANGED <<table, urlcache>>

(***************************************************************************)
(* Fetches.  "good" is the document of the URL, anything else no entry.     *)
(***************************************************************************)

GetURL(url, doc) ==
    /\ url \in DOMAIN urlcache => doc = urlcache[url]
    /\ urlcache' = IF doc = "down" THEN urlcache ELSE Add(urlcache, url, doc)

\* A builder has made an entry, which the handler hands to FSCache_addAll
\* after whatever pc is.
Built(t, pc, root, tree, next) ==
    /\ Unused # {}
    /\ obj' = Add(obj, Fresh, Object(root, tree))
    /\ Step(t, [pc |-> pc, new |-> Fresh, next |-> next])
    /\ InHandler /\ UNCHANGED <<cache, table>>

Failed(t, op) ==
    /\ UNCHANGED <<cache, table, obj>>
    /\ Finish(t, op, th[t].path, "dir", << >>)

(***************************************************************************)
(* zxdb_fuse_getattr below /search                                          *)
(***************************************************************************)

Lookup(t) ==
    /\ At(t, "lookup")
    /\ Step(t, [pc |-> IF Found(th[t].path) = Null THEN "term" ELSE "read",
                ptr |-> Found(th[t].path)])
    /\ InHandler /\ UNCHANGED <<cache, table, obj, urlcache>>

\* The term of the path has been searched for, or is new.
Term(t) ==
    LET found == Found(Daemon!SearchKey(th[t].path))
    IN  /\ At(t, "term")
        /\ Step(t, [pc |-> IF found = Null THEN "fetchsearch"
                           ELSE IF Len(th[t].path) = 2 THEN "read" ELSE "gamelookup",
                    ptr |-> found])
        /\ InHandler /\ UNCHANGED <<cache, table, obj, urlcache>>

FetchSearch(t, doc) ==
    LET path == th[t].path
    IN  /\ At(t, "fetchsearch")
        /\ GetURL(<<"search", path[2]>>, doc)
        /\ IF doc = "good"
             THEN Built(t, "addroot", path, StubTree(path, path, SearchGames[path[2]]),
                        "searchget")
             ELSE Failed(t, "getattr")

\* The entry of /search, created if there is none.
SearchGet(t) ==
    /\ At(t, "searchget")
    /\ IF Found(Daemon!SearchDir) # Null
         THEN /\ Step(t, [pc |-> "searchrow", fresh |-> FALSE, ptr |-> Found(Daemon!SearchDir)])
              /\ UNCHANGED obj
         ELSE /\ Unused # {}
              /\ obj' = Add(obj, Fresh, Object(Daemon!SearchDir,
                                  [p \in {Daemon!SearchDir} |-> DirEntry(<< >>)]))
              /\ Step(t, [pc |-> "searchrow", fresh |-> TRUE, ptr |-> Fresh])
    /\ InHandler /\ UNCHANGED <<cache, table, urlcache>>

\* FSCacheEntry_addFile
SearchRow(t) ==
    /\ At(t, "searchrow")
    /\ obj' = [obj EXCEPT ![th[t].ptr].tree[Daemon!SearchDir] =
                   AddFile(@, Row(Daemon!SearchKey(th[t].path), "dir"))]
    /\ Step(t, [pc |-> IF th[t].fresh THEN "searchadd" ELSE "refetch"])
    /\ InHandler /\ UNCHANGED <<cache, table, urlcache>>

SearchAdd(t) ==
    /\ At(t, "searchadd")
    /\ Store(Daemon!SearchDir, th[t].ptr, obj)
    /\ Step(t, [pc |-> "refetch", fresh |-> FALSE])
    /\ InHandler /\ UNCHANGED <<table, urlcache>>

\* The entry is looked up again; a path below the term is then a game's.
Refetch(t) ==
    /\ At(t, "refetch")
    /\ Step(t, [pc |-> IF th[t].next = "searchget" /\ Len(th[t].path) > 2
                         THEN "gamelookup" ELSE "read",
                ptr |-> Found(th[t].path)])
    /\ InHandler /\ UNCHANGED <<cache, table, obj, urlcache>>

GameLookup(t) ==
    /\ At(t, "gamelookup")
    /\ Step(t, [pc |-> IF Found(th[t].path) = Null THEN "fetchgame" ELSE "read",
                ptr |-> Found(th[t].path)])
    /\ InHandler /\ UNCHANGED <<cache, table, obj, urlcache>>

\* _getAndCreateGame on a miss.
FetchGame(t, doc) ==
    LET path == th[t].path
    IN  /\ At(t, "fetchgame")
        /\ IF Daemon!HasGame(path) THEN GetURL(<<"game", Daemon!GameOf(path)>>, doc)
                                   ELSE doc = "down" /\ UNCHANGED urlcache
        /\ IF doc = "good"
             THEN Built(t, "addroot", Daemon!GameRoot(path),
                        Daemon!GameTree(Daemon!GameRoot(path), Daemon!GameOf(path)), "refetch")
             ELSE Failed(t, "getattr")

\* _getattrFromFSCache
Read(t) ==
    /\ At(t, "read")
    /\ UNCHANGED <<cache, table, obj, urlcache>>
    /\ Finish(t, "getattr", th[t].path,
              IF th[t].ptr = Null THEN "none"
              ELSE IF Held(obj[th[t].ptr]).type = "file" THEN "file" ELSE "dir",
              << >>)

(***************************************************************************)
(* _readdirFSCache and _unstub                                              *)
(***************************************************************************)

List(t) ==
    /\ At(t, "list")
    /\ UNCHANGED <<cache, table, obj, urlcache>>
    /\ IF Found(th[t].path) = Null
         THEN Finish(t, "readdir", th[t].path, "dir", << >>)
         ELSE Step(t, [pc |-> "unstub", ptr |-> Found(th[t].path)]) /\ InHandler

Unstub(t) ==
    /\ At(t, "unstub")
    /\ Step(t, [pc |-> IF Held(obj[th[t].ptr]).type = "dirstub" THEN "fetchstub" ELSE "row",
                nfiles |-> Len(Rows(obj[th[t].ptr]))])
    /\ InHandler /\ UNCHANGED <<cache, table, obj, urlcache>>

FetchStub(t, doc) ==
    LET path == th[t].path
    IN  /\ At(t, "fetchstub")
        /\ GetURL(<<"game", Daemon!GameOf(path)>>, doc)
        /\ IF doc = "good"
             THEN Built(t, "dump", path, Daemon!GameTree(path, Daemon!GameOf(path)), "relist")
             ELSE Failed(t, "readdir")

\* dumpJSON walks the stub once more.
Dump(t) ==
    /\ At(t, "dump")
    /\ Step(t, [pc |-> "delete"])
    /\ InHandler /\ UNCHANGED <<cache, table, obj, urlcache>>

\* Mutant of DeleteStub: the key is removed and the entry is not freed.
DeleteStub_keep(t) ==
    /\ At(t, "delete")
    /\ cache' = [p \in DOMAIN cache \ {th[t].path} |-> cache[p]]
    /\ Step(t, [pc |-> "addroot"])
    /\ InHandler /\ UNCHANGED <<table, obj, urlcache>>

\* FSCache_delete
DeleteStub(t) ==
    /\ At(t, "delete")
    /\ cache' = [p \in DOMAIN cache \ {th[t].path} |-> cache[p]]
    /\ obj' = Without(obj, {Found(th[t].path)})
    /\ Step(t, [pc |-> "addroot"])
    /\ InHandler /\ UNCHANGED <<table, urlcache>>

Relist(t) ==
    /\ At(t, "relist")
    /\ Step(t, [pc |-> "retype", ptr |-> Found(th[t].path)])
    /\ InHandler /\ UNCHANGED <<cache, table, obj, urlcache>>

Retype(t) ==
    /\ At(t, "retype")
    /\ UNCHANGED <<cache, table, obj, urlcache>>
    /\ IF th[t].ptr # Null /\ Held(obj[th[t].ptr]).type = "dir"
         THEN /\ Step(t, [pc |-> "row", nfiles |-> Len(Rows(obj[th[t].ptr]))])
              /\ InHandler
         ELSE Finish(t, "readdir", th[t].path, "dir", << >>)

\* Mutants of FillRow: the index is not advanced; the row before is filled.
FillRow_stuck(t) ==
    /\ At(t, "row")
    /\ UNCHANGED <<cache, table, obj, urlcache>>
    /\ IF Len(th[t].names) < th[t].nfiles
         THEN Step(t, [names |-> th[t].names]) /\ InHandler
         ELSE Finish(t, "readdir", th[t].path, "dir", th[t].names)
FillRow_first(t) ==
    /\ At(t, "row")
    /\ UNCHANGED <<cache, table, obj, urlcache>>
    /\ IF Len(th[t].names) < th[t].nfiles
         THEN /\ Step(t, [names |-> Append(th[t].names, BaseName(Rows(obj[th[t].ptr])[1].fname))])
              /\ InHandler
         ELSE Finish(t, "readdir", th[t].path, "dir", th[t].names)

\* One turn of the loop that fills the listing.
FillRow(t) ==
    /\ At(t, "row")
    /\ UNCHANGED <<cache, table, obj, urlcache>>
    /\ IF Len(th[t].names) < th[t].nfiles
         THEN /\ Step(t, [names |-> Append(th[t].names,
                    BaseName(Rows(obj[th[t].ptr])[Len(th[t].names) + 1].fname))])
              /\ InHandler
         ELSE Finish(t, "readdir", th[t].path, "dir", th[t].names)

(***************************************************************************)
(* FSCache_flush: the entries and their table go, then a new table comes    *)
(***************************************************************************)

Flush(t) ==
    /\ At(t, "flush")
    /\ obj' = Without(obj, {cache[p] : p \in DOMAIN cache})
    /\ table' = "freed"
    /\ Step(t, [pc |-> "newtable"])
    /\ InHandler /\ UNCHANGED <<cache, urlcache>>

NewTable(t) ==
    /\ At(t, "newtable")
    /\ cache' = [p \in {} |-> Null]
    /\ table' = "live"
    /\ UNCHANGED <<obj, urlcache>>
    /\ Finish(t, "flush", <<"fscache">>, "dir", << >>)

-----------------------------------------------------------------------------
Handle(t) ==
    \/ Lookup(t) \/ Term(t) \/ SearchGet(t) \/ SearchRow(t) \/ SearchAdd(t)
    \/ Refetch(t) \/ GameLookup(t) \/ Read(t)
    \/ List(t) \/ Unstub(t) \/ Dump(t) \/ DeleteStub(t) \/ Relist(t) \/ Retype(t) \/ FillRow(t)
    \/ AddRoot(t) \/ AddChild(t)
    \/ Flush(t) \/ NewTable(t)
    \/ \E doc \in Answers :
            FetchSearch(t, doc) \/ FetchGame(t, doc) \/ FetchStub(t, doc)

Next == \E t \in Threads : Request(t) \/ Handle(t) \/ Undefined(t)

Spec == Init /\ [][Next]_vars

\* A handler that was called runs on; nobody has to call one.
FairSpec == Spec /\ \A t \in Threads : WF_vars(Handle(t) \/ Undefined(t))

-----------------------------------------------------------------------------
(***************************************************************************)
(* Properties                                                               *)
(***************************************************************************)

\* With one thread, a request is as good as a single step: the handlers, call
\* by call, implement the actions of ZxdbFS, whatever is fetched or flushed
\* between two requests.
OneAtATime == Daemon!Spec

Owned(t) == ({th[t].new} \cup (IF th[t].fresh THEN {th[t].ptr} ELSE {})) \ {Null}

\* Every entry has one owner: the key of the cache it is stored under, or the
\* handler that has yet to store it.  So none leaks and none is freed twice,
\* also when threads overwrite each other's trees.
OneOwner ==
    /\ \A i \in DOMAIN obj : (\E p \in DOMAIN cache : cache[p] = i) \/ (\E t \in Threads : i \in Owned(t))
    /\ \A p, q \in DOMAIN cache : cache[p] = cache[q] => p = q
    /\ \A p \in DOMAIN cache, t \in Threads : table = "live" => cache[p] \notin Owned(t)

\* With one thread, a request that was started is answered: no call follows a
\* pointer to what an earlier one has freed (that would be undefined), and the
\* loops of addAll and readdir end.
RequestsEnd == \A t \in Threads : th[t].pc # "idle" ~> th[t].pc = "idle"

(***************************************************************************)
(* What the documentation says and several threads do not keep              *)
(***************************************************************************)

\* lib/zxdbfs_fscache.c:176: FSCache_get returns a copy of the cached object.
\* A copy lives for as long as the handler that got it reads it.
GetReturnsCopy ==
    \A t \in Threads : th[t].pc \in ReadsEntry /\ ~th[t].fresh =>
        th[t].ptr \in DOMAIN obj \cup {Null}

\* README.md:125-126: /search lists the searches that have occurred.
OccurredSearchesListed ==
    (\A t \in Threads : th[t].pc = "idle") => Daemon!SearchesAreListed

\* src/zxdbfsd.c:200: a listing may assume that the cache is populated.  What
\* a completed request has left in the cache is found by the next listing.
ListingIsPopulated ==
    \A t \in Threads : th[t].pc = "list" /\ th[t].path \in DOMAIN settled.fscache
        => th[t].path \in DOMAIN cache

=============================================================================
