------------------------------ MODULE UrlCache -------------------------------
(***************************************************************************)
(* getURL of lib/zxdbfs_http.c: the URL cache, its documents and their      *)
(* reference counts, used by several threads and flushed by any of them.    *)
(*                                                                          *)
(* json_tokener_parse makes a document with one reference, which goes to    *)
(* the caller; the cache gets one of its own, and a hit hands out another.  *)
(* The callers (FSCacheEntry_getAndCreateGame, ..Search, _readdirByLetterAZ) *)
(* build an entry from the document and keep their reference for ever.      *)
(*                                                                          *)
(* They pass the table by its address: a call goes on with the table it was *)
(* given, though a flush has made another one in the meantime.              *)
(***************************************************************************)
EXTENDS Integers, FiniteSets, Maps

CONSTANTS
    Threads,
    URLs,
    NoURL,     \* the URL of a thread that asks for none
    MaxDocs,   \* bound on the documents ever parsed
    MaxGiven   \* bound on the references a document hands out

ASSUME UrlAssumption == Threads # {} /\ MaxDocs \in Nat /\ NoURL \notin URLs

VARIABLES
    cache,   \* URL -> the document it points to
    table,   \* "live", or "freed" from the first to the last step of a flush
    docs,    \* the documents in memory: their URL, what they hold, their references
    th,      \* what each thread is about to do
    given,   \* for a document, how many references callers were given (history)
    last     \* for a URL, the latest answer since a flush (history)

urlVars == <<cache, table, docs, th, given, last>>

Ids == 1 .. MaxDocs
NoDoc == 0
\* The locals of a call: count is the counter of the document `of` as it was
\* loaded, stale is that the table the call was given has been freed.
Locals(pc, url, ptr, stale) ==
    [pc |-> pc, url |-> url, ptr |-> ptr, of |-> NoDoc, count |-> 0, stale |-> stale]
Idle == Locals("idle", NoURL, NoDoc, FALSE)

Cached(u) == IF u \in DOMAIN cache THEN cache[u] ELSE NoDoc

Go(t, pc, url, ptr) == th' = [th EXCEPT ![t] = Locals(pc, url, ptr, @.stale)]
\* The first half of ++_ref_count or --_ref_count: the counter is loaded.
Load(t, pc, url, d) ==
    th' = [th EXCEPT ![t] = [pc |-> pc, url |-> url, ptr |-> @.ptr,
                             of |-> d, count |-> docs[d].refs, stale |-> @.stale]]
\* The other half: it is stored, and a document nobody refers to is freed.
Stored(d, n) == IF n = 0 THEN Without(docs, {d}) ELSE [docs EXCEPT ![d].refs = n]

UrlInit ==
    /\ cache = [u \in {} |-> NoDoc]
    /\ table = "live"
    /\ docs = [d \in {} |-> NoDoc]
    /\ th = [t \in Threads |-> Idle]
    /\ given = [d \in Ids |-> 0]
    /\ last = [u \in URLs |-> "none"]

\* A handler is called, and calls getURL with the table there is.
Request(t) ==
    /\ th[t].pc = "idle"
    /\ \/ \E u \in URLs :
              th' = [th EXCEPT ![t] = Locals("probe", u, NoDoc, table = "freed")]
       \/ Go(t, "flush", NoURL, NoDoc)
    /\ UNCHANGED <<cache, table, docs, given, last>>

\* A step that follows a pointer to a document, or a table, that was freed.
IsDangling(t) ==
    \/ th[t].pc \in {"probe", "store", "replace", "set"} /\ th[t].stale
    \/ th[t].pc = "flush" /\ table = "freed"
    \/ th[t].pc \in {"take", "taken", "store", "set", "build"} /\ th[t].ptr \notin DOMAIN docs
    \/ th[t].pc = "store" /\ Cached(th[t].url) \notin DOMAIN docs \cup {NoDoc}
    \/ th[t].pc \in {"replace", "put"} /\ th[t].of \notin DOMAIN docs

Undefined(t) ==
    /\ IsDangling(t)
    /\ Go(t, "undefined", NoURL, NoDoc)
    /\ UNCHANGED <<cache, table, docs, given, last>>

AtStep(t, pc) == th[t].pc = pc /\ ~IsDangling(t)

\* Mutant of Probe: a document that is an error is not used from the cache.
Probe_onlyGood(t) ==
    /\ AtStep(t, "probe")
    /\ IF Cached(th[t].url) \in DOMAIN docs /\ docs[Cached(th[t].url)].holds = "good"
         THEN Go(t, "take", th[t].url, Cached(th[t].url))
         ELSE Go(t, "fetch", th[t].url, NoDoc)
    /\ UNCHANGED <<cache, table, docs, given, last>>

\* json_object_object_get on the cache: a pointer, without a reference yet.
Probe(t) ==
    /\ AtStep(t, "probe")
    /\ IF Cached(th[t].url) # NoDoc THEN Go(t, "take", th[t].url, Cached(th[t].url))
                                   ELSE Go(t, "fetch", th[t].url, NoDoc)
    /\ UNCHANGED <<cache, table, docs, given, last>>

\* return json_object_get( jsonObject ): ++_ref_count of a document that other
\* threads may count at the same time (json-c is built without threading).
Take(t) ==
    /\ AtStep(t, "take")
    /\ Load(t, "taken", th[t].url, th[t].ptr)
    /\ UNCHANGED <<cache, table, docs, given, last>>

\* Mutant of Taken: the cached document is returned without a reference.
Taken_borrow(t) ==
    /\ AtStep(t, "taken")
    /\ given[th[t].ptr] < MaxGiven
    /\ given' = [given EXCEPT ![th[t].ptr] = @ + 1]
    /\ Go(t, "build", th[t].url, th[t].ptr)
    /\ UNCHANGED <<cache, table, docs, last>>

Taken(t) ==
    /\ AtStep(t, "taken")
    /\ given[th[t].ptr] < MaxGiven
    /\ docs' = Stored(th[t].of, th[t].count + 1)
    /\ given' = [given EXCEPT ![th[t].ptr] = @ + 1]
    /\ Go(t, "build", th[t].url, th[t].ptr)
    /\ UNCHANGED <<cache, table, last>>

\* The transfer fails or brings no JSON: NULL.
FetchFails(t) ==
    /\ AtStep(t, "fetch")
    /\ th' = [th EXCEPT ![t] = Idle]
    /\ UNCHANGED <<cache, table, docs, given, last>>

\* Any JSON is a document: "good", or an error of the API.
Fetch(t, holds) ==
    /\ AtStep(t, "fetch")
    /\ Cardinality(DOMAIN docs) < MaxDocs
    /\ LET d == CHOOSE i \in Ids \ DOMAIN docs : TRUE
       IN  /\ docs' = Updated(docs, d, [url |-> th[t].url, holds |-> holds, refs |-> 1])
           /\ given' = [given EXCEPT ![d] = 1]
           /\ Go(t, "store", th[t].url, d)
    /\ UNCHANGED <<cache, table, last>>

\* json_object_object_add( urlcache, cachekey, json_object_get( jsonObject ) ):
\* a document another thread stored in the meantime is put first.
Store(t) ==
    LET old == Cached(th[t].url)
    IN  /\ AtStep(t, "store")
        /\ docs' = [docs EXCEPT ![th[t].ptr].refs = @ + 1]
        /\ IF old = NoDoc THEN Go(t, "set", th[t].url, th[t].ptr)
                         ELSE Load(t, "replace", th[t].url, old)
        /\ UNCHANGED <<cache, table, given, last>>

\* The document another thread stored is put ...
Replace(t) ==
    /\ AtStep(t, "replace")
    /\ docs' = Stored(th[t].of, th[t].count - 1)
    /\ Go(t, "set", th[t].url, th[t].ptr)
    /\ UNCHANGED <<cache, table, given, last>>

\* ... and the entry of the table points to the new one.
SetEntry(t) ==
    /\ AtStep(t, "set")
    /\ cache' = Updated(cache, th[t].url, th[t].ptr)
    /\ Go(t, "build", th[t].url, th[t].ptr)
    /\ UNCHANGED <<table, docs, given, last>>

\* Mutant of Build: the caller puts the document it is through with.
Build_put(t) ==
    /\ AtStep(t, "build")
    /\ last' = [last EXCEPT ![th[t].url] = docs[th[t].ptr].holds]
    /\ docs' = Stored(th[t].ptr, docs[th[t].ptr].refs - 1)
    /\ th' = [th EXCEPT ![t] = Idle]
    /\ UNCHANGED <<cache, table, given>>

\* The caller builds an entry from the document, and keeps the reference.
Build(t) ==
    /\ AtStep(t, "build")
    /\ last' = [last EXCEPT ![th[t].url] = docs[th[t].ptr].holds]
    /\ th' = [th EXCEPT ![t] = Idle]
    /\ UNCHANGED <<cache, table, docs, given>>

\* getattr of /cache/urlcache/flush: json_object_put( urlcache ) frees the
\* table, which other threads may be working on, and puts its documents one by
\* one, ...
Flush(t) ==
    /\ AtStep(t, "flush")
    /\ table' = "freed"
    /\ th' = [s \in DOMAIN th |->
                IF s = t THEN Locals("puts", NoURL, NoDoc, FALSE)
                ELSE IF th[s].pc \in {"probe", "fetch", "store", "replace", "set"}
                THEN [th[s] EXCEPT !.stale = TRUE] ELSE th[s]]
    /\ UNCHANGED <<cache, docs, given, last>>

PutLoad(t) ==
    /\ AtStep(t, "puts")
    /\ \E u \in DOMAIN cache :
           IF cache[u] \in DOMAIN docs THEN Load(t, "put", u, cache[u])
                                       ELSE Go(t, "undefined", NoURL, NoDoc)
    /\ UNCHANGED <<cache, table, docs, given, last>>

PutStore(t) ==
    /\ AtStep(t, "put")
    /\ docs' = Stored(th[t].of, th[t].count - 1)
    /\ cache' = Without(cache, {th[t].url})
    /\ Go(t, "puts", NoURL, NoDoc)
    /\ UNCHANGED <<table, given, last>>

\* ... and urlcache = json_object_new_object().
NewTable(t) ==
    /\ AtStep(t, "puts") /\ cache = [u \in {} |-> NoDoc]
    /\ table' = "live"
    /\ th' = [th EXCEPT ![t] = Idle]
    /\ last' = [u \in URLs |-> "none"]
    /\ UNCHANGED <<cache, docs, given>>

UrlNext ==
    \E t \in Threads :
        \/ Request(t) \/ Probe(t) \/ Take(t) \/ Taken(t) \/ FetchFails(t)
        \/ Store(t) \/ Replace(t) \/ SetEntry(t) \/ Build(t)
        \/ Flush(t) \/ PutLoad(t) \/ PutStore(t) \/ NewTable(t) \/ Undefined(t)
        \/ \E holds \in {"good", "bad"} : Fetch(t, holds)

UrlSpec == UrlInit /\ [][UrlNext]_urlVars

-----------------------------------------------------------------------------
(***************************************************************************)
(* Properties                                                               *)
(***************************************************************************)

\* Type invariant: what the cache points to is a document of that URL.
UrlTypeOK ==
    /\ DOMAIN docs \subseteq Ids
    /\ \A d \in DOMAIN docs : docs[d].refs \in Nat \ {0} /\ docs[d].holds \in {"good", "bad"}
    /\ \A u \in DOMAIN cache : cache[u] \in DOMAIN docs => docs[cache[u]].url = u
    /\ \A t \in DOMAIN th : th[t].ptr \in Ids \cup {NoDoc}

IsAlone == \A s, t \in DOMAIN th : s = t

\* With at most two threads a handler never holds a document that was freed,
\* although a hit takes its reference only after the lookup and a flush may come
\* between.  It rests on the references that are never given back: a caller that
\* did put its document would make that window real.  (With three it is: one has
\* the document, one has put it to store its own, and one flushes.)
UsedDocIsLive ==
    \A t \in DOMAIN th : th[t].pc \in {"take", "taken", "store", "replace", "set", "build"}
        => th[t].ptr \in DOMAIN docs

\* What refers to a document: the callers it was given to, and the cache.  The
\* one that is about to store it has counted it for the cache already.
Uses(d) ==
    given[d] + (IF \E u \in DOMAIN cache : cache[u] = d THEN 1 ELSE 0)
             + Cardinality({t \in DOMAIN th : th[t].pc \in {"set", "replace"} /\ th[t].ptr = d})

\* With one thread the references of a document are those of the callers it was
\* given to and that of the cache (or the one about to go there): one more with
\* every request it answers, none less but for a flush.  No flush frees a
\* document that was ever used, and nothing that was freed is followed.
CountsEveryUse ==
    IsAlone =>
        /\ UrlTypeOK /\ UsedDocIsLive
        /\ \A d \in DOMAIN docs : docs[d].refs = Uses(d)
        /\ \A t \in DOMAIN th : th[t].pc # "undefined"

\* As long as a document is cached, the answer to its URL does not change: an
\* error that was cached is the answer until a flush, whatever ZXDB has by now.
\* (With one thread: of two that miss at once, the second overrules the first.)
AnswersStick ==
    [][ IsAlone => \A u \in DOMAIN last :
            u \in DOMAIN cache /\ u \in DOMAIN cache' /\ last[u] # "none"
                => last'[u] = last[u] ]_urlVars

=============================================================================
