--------------------------- MODULE UrlCache_proofs ---------------------------
(****************************************************************************)
(* The references of cached documents, and the answers.  First with one     *)
(* thread, which asks for any URLs and flushes the cache now and then: the  *)
(* count of a document is that of its uses (Counted), which needs that the  *)
(* pointer a thread carries from one step to the next is still that of the  *)
(* table (PlaceOK); what a URL was answered is what its document holds as   *)
(* long as that is cached (LastOK).                                         *)
(*                                                                          *)
(* Then with two: counts may be lost, but a document that is used is there. *)
(* Each thread is InPlace, the two are Apart, and a cached document that    *)
(* counts less than two was put by one of them (PutBy), which leaves the    *)
(* other no step that uses it.  With three threads there is one: the first  *)
(* has the document, the second puts it to replace it, the third flushes.   *)
(****************************************************************************)
EXTENDS UrlCache, FiniteSetTheorems, TLAPS

Places == {"idle", "probe", "fetch", "take", "taken", "store", "set", "build",
           "flush", "puts", "put"}

DocsOK ==
    /\ DOMAIN docs \subseteq Ids /\ DOMAIN given = Ids
    /\ \A d \in DOMAIN docs :
           /\ DOMAIN docs[d] = {"url", "holds", "refs"}
           /\ docs[d].holds \in {"good", "bad"} /\ docs[d].refs \in Nat
           /\ given[d] \in Nat \ {0}

CacheOK ==
    /\ DOMAIN cache \subseteq URLs
    /\ \A u \in DOMAIN cache : cache[u] \in DOMAIN docs /\ docs[cache[u]].url = u

\* What a thread has in hand is what the table says.
PlaceOK(l) ==
    /\ l.pc \in Places
    /\ l.pc \notin {"idle", "flush", "puts"} => l.url \in URLs
    /\ l.ptr \in Ids \cup {NoDoc}
    /\ table = IF l.pc \in {"puts", "put"} THEN "freed" ELSE "live"
    /\ l.pc \in {"fetch", "store", "set"} => l.url \notin DOMAIN cache
    /\ l.pc \in {"take", "taken", "build"} => l.url \in DOMAIN cache /\ cache[l.url] = l.ptr
    /\ l.pc \in {"store", "set"} => l.ptr \in DOMAIN docs /\ docs[l.ptr].url = l.url
    /\ l.pc = "taken" => l.of = l.ptr /\ l.count = docs[l.ptr].refs
    /\ l.pc = "put" => /\ l.url \in DOMAIN cache /\ l.of = cache[l.url]
                       /\ l.count = docs[l.of].refs
    /\ l.stale = FALSE

\* Uses, with one thread
InCache(d) == IF \E u \in DOMAIN cache : cache[u] = d THEN 1 ELSE 0
InHand(l, d) == IF l.pc = "set" /\ l.ptr = d THEN 1 ELSE 0
Counted(l) == \A d \in DOMAIN docs : docs[d].refs = given[d] + InCache(d) + InHand(l, d)

LastOK ==
    /\ DOMAIN last = URLs
    /\ \A u \in URLs : last[u] # "none" =>
           IF u \in DOMAIN cache THEN last[u] = docs[cache[u]].holds ELSE table = "freed"

Record(m) == DOMAIN m = {"pc", "url", "ptr", "of", "count", "stale"}

ThreadsOK == th = [t \in Threads |-> th[t]] /\ \A t \in Threads : Record(th[t])

Alone == \A s, t \in Threads : s = t

Holds(l) == DocsOK /\ CacheOK /\ LastOK /\ PlaceOK(l) /\ Counted(l)

UrlInv ==
    /\ ThreadsOK
    /\ Alone => \A t \in Threads : Holds(th[t])

-----------------------------------------------------------------------------
(***************************************************************************)
(* Helpers                                                                  *)
(***************************************************************************)

\* t comes to m, and all is well there.
Reaches(t, m) == th' = [th EXCEPT ![t] = m] /\ Record(m)

LEMMA Goes ==
    ASSUME ThreadsOK, NEW t \in Threads, NEW pc, NEW url, NEW ptr, Go(t, pc, url, ptr)
    PROVE  Reaches(t, [pc |-> pc, url |-> url, ptr |-> ptr,
                       of |-> NoDoc, count |-> 0, stale |-> th[t].stale])
  BY DEF Go, Locals, Reaches, Record, ThreadsOK

LEMMA Loads ==
    ASSUME ThreadsOK, NEW t \in Threads, NEW pc, NEW url, NEW d, Load(t, pc, url, d)
    PROVE  Reaches(t, [pc |-> pc, url |-> url, ptr |-> th[t].ptr,
                       of |-> d, count |-> docs[d].refs, stale |-> th[t].stale])
  BY DEF Load, Reaches, Record, ThreadsOK

\* The document d counts n references, the others are as before.
CountsNow(d, n) ==
    /\ DOMAIN docs' = DOMAIN docs
    /\ \A e \in DOMAIN docs :
           /\ DOMAIN docs'[e] = {"url", "holds", "refs"}
           /\ docs'[e].url = docs[e].url /\ docs'[e].holds = docs[e].holds
           /\ e # d => docs'[e].refs = docs[e].refs
    /\ docs'[d].refs = n

LEMMA CountIsSet ==
    ASSUME DocsOK, NEW d \in DOMAIN docs, NEW n, docs' = [docs EXCEPT ![d].refs = n]
    PROVE  CountsNow(d, n)
  BY DEF DocsOK, CountsNow

\* A URL has one document in the table, and a document is that of one URL.
LEMMA OneUrl ==
    ASSUME CacheOK, NEW u \in DOMAIN cache
    PROVE  /\ InCache(cache[u]) = 1
           /\ \A v \in DOMAIN cache : cache[v] = cache[u] => v = u
  BY DEF CacheOK, InCache

LEMMA NothingDangles ==
    ASSUME NEW t, Holds(th[t])
    PROVE  ~IsDangling(t)
<1>1. PICK l : l = th[t]
  OBVIOUS
<1>2. PlaceOK(l) /\ CacheOK
  BY <1>1 DEF Holds
<1>3. ~(l.pc = "replace") /\ l.stale = FALSE
  BY <1>2 DEF PlaceOK, Places
<1>4. ~(l.pc = "flush" /\ table = "freed")
  BY <1>2 DEF PlaceOK
<1>5. l.pc \in {"take", "taken", "store", "set", "build"} => l.ptr \in DOMAIN docs
  BY <1>2 DEF PlaceOK, CacheOK
<1>6. Cached(l.url) \in DOMAIN docs \cup {NoDoc}
  BY <1>2 DEF CacheOK, Cached
<1>7. l.pc = "put" => l.of \in DOMAIN docs
  BY <1>2 DEF PlaceOK, CacheOK
<1> QED BY <1>1, <1>3, <1>4, <1>5, <1>6, <1>7 DEF IsDangling

\* A step that counts nothing and changes nothing in the table.
LEMMA QuietStep ==
    ASSUME NEW l, Holds(l), NEW m, UNCHANGED <<cache, docs, given, last>>,
           l.pc # "set", m.pc # "set", table' = table \/ table' = "freed", PlaceOK(m)'
    PROVE  Holds(m)'
<1>1. DocsOK' /\ CacheOK'
  BY DEF Holds, DocsOK, CacheOK
<1>2. Counted(m)'
  BY DEF Holds, Counted, InCache, InHand
<1>3. LastOK'
  BY DEF Holds, LastOK
<1> QED BY <1>1, <1>2, <1>3 DEF Holds

-----------------------------------------------------------------------------
(***************************************************************************)
(* The steps of one thread                                                  *)
(***************************************************************************)

LEMMA QuietSteps ==
    ASSUME ThreadsOK, Alone, NEW t \in Threads, Holds(th[t]),
           Request(t) \/ Probe(t) \/ Take(t) \/ FetchFails(t) \/ Flush(t) \/ PutLoad(t)
    PROVE  \E m : Reaches(t, m) /\ Holds(m)'
<1>1. PICK l : l = th[t]
  OBVIOUS
<1>2. Holds(l) /\ PlaceOK(l) /\ CacheOK
  BY <1>1 DEF Holds
<1>3. CASE Request(t)
  <2>1. CASE \E u \in URLs : th' = [th EXCEPT ![t] = Locals("probe", u, NoDoc, table = "freed")]
    <3>1. PICK u \in URLs : th' = [th EXCEPT ![t] = Locals("probe", u, NoDoc, table = "freed")]
      BY <2>1
    <3>2. PICK m : m = [pc |-> "probe", url |-> u, ptr |-> NoDoc,
                        of |-> NoDoc, count |-> 0, stale |-> FALSE]
      OBVIOUS
    <3>3. l.pc = "idle" /\ table = "live" /\ UNCHANGED <<cache, table, docs, given, last>>
      BY <1>1, <1>2, <1>3 DEF Request, PlaceOK
    <3>4. Locals("probe", u, NoDoc, table = "freed") = m
      <4>1. (table = "freed") = FALSE
        BY <3>3
      <4> QED BY <3>2, <4>1 DEF Locals
    <3>5. PlaceOK(m)'
      BY <1>1, <1>2, <3>2, <3>3 DEF PlaceOK, Places
    <3>6. Reaches(t, m)
      <4>1. Record(m)
        BY <3>2 DEF Record
      <4> QED BY ONLY <3>1, <3>4, <4>1 DEF Reaches
    <3>7. l.pc # "set" /\ m.pc # "set"
      BY <3>2, <3>3
    <3> QED BY ONLY <1>2, <3>3, <3>5, <3>6, <3>7, QuietStep
  <2>2. CASE Go(t, "flush", NoURL, NoDoc)
    <3>1. PICK m : m = [pc |-> "flush", url |-> NoURL, ptr |-> NoDoc,
                        of |-> NoDoc, count |-> 0, stale |-> l.stale]
      OBVIOUS
    <3>2. PlaceOK(m)'
      BY <1>1, <1>2, <1>3, <3>1 DEF Request, PlaceOK, Places
    <3> QED BY <1>1, <1>2, <1>3, <2>2, <3>1, <3>2, Goes, QuietStep DEF Request
  <2> QED BY <1>3, <2>1, <2>2 DEF Request
<1>4. CASE Probe(t)
  <2>1. CASE Cached(l.url) # NoDoc
    <3>1. PICK m : m = [pc |-> "take", url |-> l.url, ptr |-> cache[l.url],
                        of |-> NoDoc, count |-> 0, stale |-> l.stale]
      OBVIOUS
    <3>2. Go(t, "take", l.url, cache[l.url]) /\ l.url \in DOMAIN cache
      BY <1>1, <1>4, <2>1 DEF Probe, Cached
    <3>3. PlaceOK(m)'
      BY <1>1, <1>2, <1>4, <3>1, <3>2 DEF Probe, AtStep, PlaceOK, Places, CacheOK, Holds, DocsOK
    <3> QED BY <1>1, <1>2, <1>4, <3>1, <3>2, <3>3, Goes, QuietStep DEF Probe, AtStep
  <2>2. CASE Cached(l.url) = NoDoc
    <3>1. PICK m : m = [pc |-> "fetch", url |-> l.url, ptr |-> NoDoc,
                        of |-> NoDoc, count |-> 0, stale |-> l.stale]
      OBVIOUS
    <3>2. Go(t, "fetch", l.url, NoDoc) /\ l.url \notin DOMAIN cache
      BY <1>1, <1>2, <1>4, <2>2 DEF Probe, Cached, CacheOK, Holds, DocsOK, NoDoc, Ids
    <3>3. PlaceOK(m)'
      BY <1>1, <1>2, <1>4, <3>1, <3>2 DEF Probe, AtStep, PlaceOK, Places
    <3> QED BY <1>1, <1>2, <1>4, <3>1, <3>2, <3>3, Goes, QuietStep DEF Probe, AtStep
  <2> QED BY <2>1, <2>2
<1>5. CASE Take(t)
  <2>1. PICK m : m = [pc |-> "taken", url |-> l.url, ptr |-> l.ptr,
                      of |-> l.ptr, count |-> docs[l.ptr].refs, stale |-> l.stale]
    OBVIOUS
  <2>2. PlaceOK(m)'
    BY <1>1, <1>2, <1>5, <2>1 DEF Take, AtStep, PlaceOK, Places
  <2>3. Reaches(t, m)
    BY <1>1, <1>5, <2>1, Loads DEF Take
  <2> QED BY <1>1, <1>2, <1>5, <2>1, <2>2, <2>3, QuietStep DEF Take, AtStep
<1>6. CASE FetchFails(t)
  <2>1. PlaceOK(Idle)' /\ Reaches(t, Idle) /\ Idle.pc = "idle"
    BY <1>1, <1>2, <1>6 DEF FetchFails, AtStep, PlaceOK, Places, Idle, Locals, Reaches, Record
  <2> QED BY <1>1, <1>2, <1>6, <2>1, QuietStep DEF FetchFails, AtStep
<1>7. CASE Flush(t)
  <2>1. PICK m : m = [pc |-> "puts", url |-> NoURL, ptr |-> NoDoc,
                      of |-> NoDoc, count |-> 0, stale |-> FALSE]
    OBVIOUS
  <2>2. l.pc = "flush" /\ table' = "freed" /\ UNCHANGED <<cache, docs, given, last>>
    BY <1>1, <1>7 DEF Flush, AtStep
  <2>3. PlaceOK(m)'
    BY <1>1, <1>2, <2>1, <2>2 DEF PlaceOK, Places
  <2>4. Reaches(t, m)
    <3>1. DOMAIN th = {t}
      BY DEF ThreadsOK, Alone
    <3>2. th' = [s \in {t} |-> Locals("puts", NoURL, NoDoc, FALSE)]
      BY <1>7, <3>1 DEF Flush
    <3>3. th' = [th EXCEPT ![t] = Locals("puts", NoURL, NoDoc, FALSE)]
      <4>1. th = [s \in {t} |-> th[s]]
        BY <3>1 DEF ThreadsOK
      <4> QED BY ONLY <3>2, <4>1
    <3>4. Record(m) /\ m = Locals("puts", NoURL, NoDoc, FALSE)
      BY <2>1 DEF Record, Locals
    <3> QED BY ONLY <3>3, <3>4 DEF Reaches
  <2>5. l.pc # "set" /\ m.pc # "set"
    BY <2>1, <2>2
  <2> QED BY ONLY <1>2, <2>2, <2>3, <2>4, <2>5, QuietStep
<1>8. CASE PutLoad(t)
  <2>1. PICK u \in DOMAIN cache : Load(t, "put", u, cache[u])
    BY <1>2, <1>8 DEF PutLoad, CacheOK
  <2>2. PICK m : m = [pc |-> "put", url |-> u, ptr |-> l.ptr,
                      of |-> cache[u], count |-> docs[cache[u]].refs, stale |-> l.stale]
    OBVIOUS
  <2>3. PlaceOK(m)'
    BY <1>1, <1>2, <1>8, <2>1, <2>2 DEF PutLoad, AtStep, PlaceOK, Places, CacheOK
  <2>4. Reaches(t, m)
    BY <1>1, <2>1, <2>2, Loads
  <2> QED BY <1>1, <1>2, <1>8, <2>2, <2>3, <2>4, QuietStep DEF PutLoad, AtStep
<1> QED BY <1>3, <1>4, <1>5, <1>6, <1>7, <1>8

LEMMA TakenStep ==
    ASSUME ThreadsOK, NEW t \in Threads, Holds(th[t]), Taken(t)
    PROVE  \E m : Reaches(t, m) /\ Holds(m)'
<1>1. PICK l : l = th[t]
  OBVIOUS
<1>2. PICK d : d = l.ptr
  OBVIOUS
<1>3. PICK m : m = [pc |-> "build", url |-> l.url, ptr |-> d,
                    of |-> NoDoc, count |-> 0, stale |-> l.stale]
  OBVIOUS
<1>4. /\ Reaches(t, m) /\ UNCHANGED <<cache, table, last>> /\ l.pc = "taken"
      /\ given' = [given EXCEPT ![d] = @ + 1] /\ docs' = Stored(d, l.count + 1)
  <2>1. Go(t, "build", l.url, d) /\ l.pc = "taken" /\ docs' = Stored(l.of, l.count + 1)
        /\ given' = [given EXCEPT ![d] = @ + 1] /\ UNCHANGED <<cache, table, last>>
    BY <1>1, <1>2 DEF Taken, AtStep
  <2>2. l.of = d
    BY <1>1, <1>2, <2>1 DEF Holds, PlaceOK
  <2>3. Reaches(t, m)
    BY <1>1, <1>3, <2>1, Goes
  <2> QED BY ONLY <2>1, <2>2, <2>3
<1>5. Holds(l)
  BY <1>1
<1>6. /\ DocsOK /\ CacheOK /\ Counted(l) /\ LastOK /\ d \in DOMAIN docs /\ d \in Ids
      /\ l.url \in DOMAIN cache /\ cache[l.url] = d /\ l.count = docs[d].refs /\ l.count \in Nat
  BY <1>2, <1>4, <1>5 DEF Holds, PlaceOK, CacheOK, DocsOK
<1>7. CountsNow(d, l.count + 1)
  <2>1. l.count + 1 # 0
    BY <1>6
  <2> QED BY <1>4, <1>6, <2>1, CountIsSet DEF Stored
<1>8. /\ DOMAIN given' = DOMAIN given /\ given'[d] = given[d] + 1
      /\ \A e \in Ids : e # d => given'[e] = given[e]
  BY <1>4, <1>6 DEF DocsOK
<1>9. DocsOK'
  BY <1>6, <1>7, <1>8 DEF DocsOK, CountsNow
<1>10. CacheOK'
  BY <1>4, <1>6, <1>7 DEF CacheOK, CountsNow
<1>11. LastOK'
  BY <1>4, <1>6, <1>7 DEF LastOK, CountsNow, CacheOK
<1>12. PlaceOK(m)'
  BY <1>2, <1>3, <1>4, <1>5 DEF Holds, PlaceOK, Places
<1>13. Counted(m)'
  <2> SUFFICES ASSUME NEW e \in DOMAIN docs
               PROVE  docs'[e].refs = given'[e] + InCache(e)' + InHand(m, e)
    BY <1>7 DEF Counted, CountsNow, InHand
  <2>1. InCache(e)' = InCache(e) /\ InHand(m, e) = 0 /\ InHand(l, e) = 0 /\ InCache(e) \in {0, 1}
    BY <1>3, <1>4 DEF InCache, InHand
  <2>2. docs[e].refs = given[e] + InCache(e) + InHand(l, e) /\ given[e] \in Nat /\ e \in Ids
    BY <1>6 DEF Counted, DocsOK
  <2>3. CASE e = d
    BY <1>6, <1>7, <1>8, <2>1, <2>2, <2>3 DEF CountsNow
  <2>4. CASE e # d
    BY <1>7, <1>8, <2>1, <2>2, <2>4 DEF CountsNow
  <2> QED BY <2>3, <2>4
<1> QED BY <1>4, <1>9, <1>10, <1>11, <1>12, <1>13 DEF Holds

\* There is a place for one more document.
LEMMA FreePlace ==
    ASSUME DOMAIN docs \subseteq Ids, Cardinality(DOMAIN docs) < MaxDocs
    PROVE  Ids \ DOMAIN docs # {}
<1> SUFFICES ASSUME DOMAIN docs = Ids PROVE FALSE
  OBVIOUS
<1>1. MaxDocs \in Nat
  BY UrlAssumption
<1>2. Cardinality(1 .. MaxDocs) = MaxDocs
  BY <1>1, FS_Interval
<1> QED BY <1>1, <1>2 DEF Ids

LEMMA FetchStep ==
    ASSUME ThreadsOK, NEW t \in Threads, Holds(th[t]), NEW holds \in {"good", "bad"}, Fetch(t, holds)
    PROVE  \E m : Reaches(t, m) /\ Holds(m)'
<1>1. PICK l : l = th[t]
  OBVIOUS
<1>2. PICK d : d = (CHOOSE i \in Ids \ DOMAIN docs : TRUE)
  OBVIOUS
<1>3. PICK m : m = [pc |-> "store", url |-> l.url, ptr |-> d,
                    of |-> NoDoc, count |-> 0, stale |-> l.stale]
  OBVIOUS
<1>4. PICK doc : doc = [url |-> l.url, holds |-> holds, refs |-> 1]
  OBVIOUS
<1>5. /\ Reaches(t, m) /\ UNCHANGED <<cache, table, last>> /\ l.pc = "fetch"
      /\ given' = [given EXCEPT ![d] = 1] /\ docs' = Updated(docs, d, doc)
      /\ Cardinality(DOMAIN docs) < MaxDocs
  <2>1. Go(t, "store", l.url, d)
    BY <1>1, <1>2 DEF Fetch
  <2> QED BY <1>1, <1>2, <1>3, <1>4, <2>1, Goes DEF Fetch, AtStep
<1>6. Holds(l)
  BY <1>1
<1>7. /\ DocsOK /\ CacheOK /\ Counted(l) /\ LastOK /\ l.url \in URLs /\ l.url \notin DOMAIN cache
  BY <1>5, <1>6 DEF Holds, PlaceOK
<1>8. d \in Ids \ DOMAIN docs
  BY <1>2, <1>5, <1>7, FreePlace DEF DocsOK
<1>9. /\ DOMAIN docs' = DOMAIN docs \cup {d} /\ docs'[d] = doc
      /\ \A e \in DOMAIN docs : docs'[e] = docs[e]
  <2>1. DOMAIN docs' = DOMAIN docs \cup {d}
    BY <1>5 DEF Updated, Overlay
  <2>2. docs'[d] = doc
    BY <1>5 DEF Updated, Overlay
  <2>3. \A e \in DOMAIN docs : docs'[e] = docs[e]
    BY <1>5, <1>8 DEF Updated, Overlay
  <2> QED BY <2>1, <2>2, <2>3
<1>10. /\ DOMAIN given' = DOMAIN given /\ given'[d] = 1
       /\ \A e \in DOMAIN docs : given'[e] = given[e]
  BY <1>5, <1>7, <1>8 DEF DocsOK
<1>11. DocsOK'
  <2>1. DOMAIN doc = {"url", "holds", "refs"} /\ doc.holds \in {"good", "bad"} /\ doc.refs \in Nat
    BY <1>4
  <2> QED BY <1>7, <1>8, <1>9, <1>10, <2>1 DEF DocsOK
<1>12. CacheOK' /\ LastOK'
  BY <1>5, <1>7, <1>9 DEF CacheOK, LastOK
<1>13. PlaceOK(m)'
  BY <1>3, <1>4, <1>5, <1>6, <1>8, <1>9 DEF Holds, PlaceOK, Places
<1>14. Counted(m)'
  <2> SUFFICES ASSUME NEW e \in DOMAIN docs'
               PROVE  docs'[e].refs = given'[e] + InCache(e)' + InHand(m, e)
    BY DEF Counted, InHand
  <2>1. InCache(e)' = InCache(e) /\ InHand(m, e) = 0 /\ InHand(l, e) = 0
    BY <1>3, <1>5 DEF InCache, InHand
  <2>2. CASE e = d
    <3>1. InCache(d) = 0
      BY <1>7, <1>8 DEF InCache, CacheOK
    <3> QED BY <1>4, <1>9, <1>10, <2>1, <2>2, <3>1
  <2>3. CASE e # d
    BY <1>7, <1>9, <1>10, <2>1, <2>3 DEF Counted
  <2> QED BY <2>2, <2>3
<1> QED BY <1>5, <1>11, <1>12, <1>13, <1>14 DEF Holds

\* The reference of the cache, counted before the document is in it
LEMMA StoreStep ==
    ASSUME ThreadsOK, NEW t \in Threads, Holds(th[t]), Store(t)
    PROVE  \E m : Reaches(t, m) /\ Holds(m)'
<1>1. PICK l : l = th[t]
  OBVIOUS
<1>2. PICK d : d = l.ptr
  OBVIOUS
<1>3. PICK m : m = [pc |-> "set", url |-> l.url, ptr |-> d,
                    of |-> NoDoc, count |-> 0, stale |-> l.stale]
  OBVIOUS
<1>4. Holds(l) /\ l.pc = "store"
  BY <1>1 DEF Store, AtStep
<1>5. /\ DocsOK /\ CacheOK /\ Counted(l) /\ LastOK /\ d \in DOMAIN docs
      /\ l.url \notin DOMAIN cache /\ docs[d].url = l.url
  BY <1>2, <1>4 DEF Holds, PlaceOK
<1>6. Cached(l.url) = NoDoc
  BY <1>5 DEF Cached
<1>7. PICK n : n = docs[d].refs + 1
  OBVIOUS
<1>8. /\ Reaches(t, m) /\ UNCHANGED <<cache, table, given, last>>
      /\ docs' = [docs EXCEPT ![d].refs = n]
  <2>1. Go(t, "set", l.url, d)
    BY <1>1, <1>2, <1>6 DEF Store
  <2>2. docs' = [docs EXCEPT ![d].refs = n] /\ UNCHANGED <<cache, table, given, last>>
    BY <1>1, <1>2, <1>5, <1>7 DEF Store, DocsOK
  <2>3. Reaches(t, m)
    BY <1>1, <1>3, <2>1, Goes
  <2> QED BY ONLY <2>2, <2>3
<1>9. CountsNow(d, n)
  BY <1>5, <1>8, CountIsSet
<1>10. DocsOK'
  BY <1>5, <1>7, <1>8, <1>9 DEF DocsOK, CountsNow
<1>11. CacheOK' /\ LastOK'
  BY <1>5, <1>8, <1>9 DEF CacheOK, LastOK, CountsNow
<1>12. PlaceOK(m)'
  BY <1>2, <1>3, <1>4, <1>5, <1>8, <1>9 DEF Holds, PlaceOK, Places, CountsNow
<1>13. Counted(m)'
  <2> SUFFICES ASSUME NEW e \in DOMAIN docs
               PROVE  docs'[e].refs = given'[e] + InCache(e)' + InHand(m, e)
    BY <1>9 DEF Counted, CountsNow, InHand
  <2>1. InCache(e)' = InCache(e) /\ InCache(e) \in {0, 1} /\ InHand(l, e) = 0
    BY <1>4, <1>8 DEF InCache, InHand
  <2>2. docs[e].refs = given[e] + InCache(e) /\ given[e] \in Nat
    BY <1>5, <2>1 DEF Counted, DocsOK
  <2>3. CASE e = d
    BY <1>3, <1>7, <1>8, <1>9, <2>1, <2>2, <2>3 DEF CountsNow, InHand
  <2>4. CASE e # d
    BY <1>3, <1>8, <1>9, <2>1, <2>2, <2>4 DEF CountsNow, InHand
  <2> QED BY <2>3, <2>4
<1> QED BY <1>8, <1>10, <1>11, <1>12, <1>13 DEF Holds

LEMMA SetStep ==
    ASSUME ThreadsOK, NEW t \in Threads, Holds(th[t]), SetEntry(t)
    PROVE  \E m : Reaches(t, m) /\ Holds(m)'
<1>1. PICK l : l = th[t]
  OBVIOUS
<1>2. PICK d, u : d = l.ptr /\ u = l.url
  OBVIOUS
<1>3. PICK m : m = [pc |-> "build", url |-> u, ptr |-> d,
                    of |-> NoDoc, count |-> 0, stale |-> l.stale]
  OBVIOUS
<1>4. /\ Reaches(t, m) /\ UNCHANGED <<table, docs, given, last>> /\ l.pc = "set" /\ Holds(l)
      /\ cache' = Updated(cache, u, d)
  BY <1>1, <1>2, <1>3, Goes DEF SetEntry, AtStep
<1>5. /\ DocsOK /\ CacheOK /\ Counted(l) /\ LastOK /\ d \in DOMAIN docs /\ d \in Ids
      /\ u \in URLs /\ u \notin DOMAIN cache /\ docs[d].url = u /\ table = "live"
  BY <1>2, <1>4 DEF Holds, PlaceOK, DocsOK
<1>6. /\ DOMAIN cache' = DOMAIN cache \cup {u} /\ cache'[u] = d
      /\ \A v \in DOMAIN cache : cache'[v] = cache[v]
  <2>1. DOMAIN cache' = DOMAIN cache \cup {u}
    BY <1>4 DEF Updated, Overlay
  <2>2. cache'[u] = d
    BY <1>4 DEF Updated, Overlay
  <2>3. \A v \in DOMAIN cache : cache'[v] = cache[v]
    BY <1>4, <1>5 DEF Updated, Overlay
  <2> QED BY <2>1, <2>2, <2>3
<1>7. DocsOK' /\ CacheOK'
  BY <1>4, <1>5, <1>6 DEF DocsOK, CacheOK
<1>8. LastOK'
  BY <1>4, <1>5, <1>6 DEF LastOK
<1>9. PlaceOK(m)'
  <2>1. l.stale = FALSE
    BY <1>4 DEF Holds, PlaceOK
  <2> QED BY <1>3, <1>4, <1>5, <1>6, <2>1 DEF PlaceOK, Places
<1>10. Counted(m)'
  <2> SUFFICES ASSUME NEW e \in DOMAIN docs
               PROVE  docs[e].refs = given[e] + InCache(e)' + InHand(m, e)
    BY <1>4 DEF Counted, InHand
  <2>1. docs[e].refs = given[e] + InCache(e) + InHand(l, e) /\ given[e] \in Nat /\ InHand(m, e) = 0
    BY <1>3, <1>5 DEF Counted, InHand, DocsOK
  <2>2. CASE e = d
    <3>1. InCache(e) = 0
      BY <1>5, <2>2 DEF InCache, CacheOK
    <3>2. InCache(e)' = 1 /\ InHand(l, e) = 1
      BY <1>2, <1>4, <1>6, <2>2 DEF InCache, InHand
    <3> QED BY <2>1, <3>1, <3>2
  <2>3. CASE e # d
    <3>1. InCache(e)' = InCache(e) /\ InHand(l, e) = 0
      BY <1>2, <1>6, <2>3 DEF InCache, InHand
    <3>2. InCache(e) \in {0, 1}
      BY DEF InCache
    <3> QED BY <2>1, <3>1, <3>2
  <2> QED BY <2>2, <2>3
<1> QED BY <1>4, <1>7, <1>8, <1>9, <1>10 DEF Holds

LEMMA BuildStep ==
    ASSUME ThreadsOK, NEW t \in Threads, Holds(th[t]), Build(t)
    PROVE  /\ \E m : Reaches(t, m) /\ Holds(m)'
           /\ \A u \in URLs : u \in DOMAIN cache /\ last[u] # "none" => last'[u] = last[u]
<1>1. PICK l : l = th[t]
  OBVIOUS
<1>2. /\ Reaches(t, Idle) /\ UNCHANGED <<cache, table, docs, given>> /\ l.pc = "build" /\ Holds(l)
      /\ last' = [last EXCEPT ![l.url] = docs[l.ptr].holds]
  BY <1>1 DEF Build, AtStep, Reaches, Record, Idle, Locals
<1>3. /\ DocsOK /\ CacheOK /\ Counted(l) /\ LastOK /\ l.url \in DOMAIN cache /\ cache[l.url] = l.ptr
      /\ table = "live"
  BY <1>2 DEF Holds, PlaceOK
<1>4. DocsOK' /\ CacheOK' /\ PlaceOK(Idle)'
  BY <1>2, <1>3 DEF DocsOK, CacheOK, PlaceOK, Places, Idle, Locals
<1>5. Counted(Idle)'
  BY <1>2, <1>3 DEF Counted, InCache, InHand, Idle, Locals
<1>6. LastOK'
  BY <1>2, <1>3 DEF LastOK
<1>7. \A u \in URLs : u \in DOMAIN cache /\ last[u] # "none" => last'[u] = last[u]
  BY <1>2, <1>3 DEF LastOK
<1> QED BY <1>2, <1>4, <1>5, <1>6, <1>7 DEF Holds

LEMMA PutStoreStep ==
    ASSUME ThreadsOK, NEW t \in Threads, Holds(th[t]), PutStore(t)
    PROVE  \E m : Reaches(t, m) /\ Holds(m)'
<1>1. PICK l : l = th[t]
  OBVIOUS
<1>2. PICK u : u = l.url
  OBVIOUS
<1>3. PICK d : d = cache[u]
  OBVIOUS
<1>4. PICK m : m = [pc |-> "puts", url |-> NoURL, ptr |-> NoDoc,
                    of |-> NoDoc, count |-> 0, stale |-> l.stale]
  OBVIOUS
<1>5. /\ Reaches(t, m) /\ UNCHANGED <<table, given, last>> /\ l.pc = "put" /\ Holds(l)
      /\ docs' = Stored(d, l.count - 1) /\ cache' = Without(cache, {u})
  <2>1. Go(t, "puts", NoURL, NoDoc) /\ l.pc = "put" /\ docs' = Stored(l.of, l.count - 1)
        /\ cache' = Without(cache, {u}) /\ UNCHANGED <<table, given, last>>
    BY <1>1, <1>2 DEF PutStore, AtStep
  <2>2. l.of = d /\ Holds(l)
    BY <1>1, <1>2, <1>3, <2>1 DEF Holds, PlaceOK
  <2>3. Reaches(t, m)
    BY <1>1, <1>4, <2>1, Goes
  <2> QED BY ONLY <2>1, <2>2, <2>3
<1>6. /\ DocsOK /\ CacheOK /\ Counted(l) /\ LastOK /\ u \in DOMAIN cache /\ d \in DOMAIN docs
      /\ l.count = docs[d].refs /\ table = "freed"
  BY <1>2, <1>3, <1>5 DEF Holds, PlaceOK, CacheOK
<1>7. /\ InCache(d) = 1 /\ \A v \in DOMAIN cache : cache[v] = d => v = u
  BY <1>3, <1>6, OneUrl
<1>8. l.count = given[d] + 1 /\ given[d] \in Nat \ {0}
  BY <1>5, <1>6, <1>7 DEF Counted, InHand, DocsOK
<1>9. CountsNow(d, given[d])
  <2>1. l.count - 1 = given[d] /\ given[d] # 0
    BY <1>8
  <2> QED BY <1>5, <1>6, <2>1, CountIsSet DEF Stored
<1>10. /\ DOMAIN cache' = DOMAIN cache \ {u}
       /\ \A v \in DOMAIN cache \ {u} : cache'[v] = cache[v]
  BY <1>5 DEF Without
<1>11. DocsOK'
  BY <1>5, <1>6, <1>8, <1>9 DEF DocsOK, CountsNow
<1>12. CacheOK'
  BY <1>6, <1>9, <1>10 DEF CacheOK, CountsNow
<1>13. LastOK'
  <2>1. \A v \in DOMAIN cache' : docs'[cache'[v]].holds = docs[cache[v]].holds
    BY <1>6, <1>9, <1>10 DEF CacheOK, CountsNow
  <2> QED BY <1>5, <1>6, <1>10, <2>1 DEF LastOK
<1>14. PlaceOK(m)'
  <2>1. l.stale = FALSE
    BY <1>5 DEF Holds, PlaceOK
  <2> QED BY <1>4, <1>5, <1>6, <2>1 DEF PlaceOK, Places
<1>15. Counted(m)'
  <2> SUFFICES ASSUME NEW e \in DOMAIN docs
               PROVE  docs'[e].refs = given'[e] + InCache(e)' + InHand(m, e)
    BY <1>9 DEF Counted, CountsNow, InHand
  <2>1. InHand(m, e) = 0 /\ InHand(l, e) = 0 /\ given[e] \in Nat
    BY <1>4, <1>5, <1>6 DEF InHand, DocsOK
  <2>2. CASE e = d
    <3>1. InCache(e)' = 0
      BY <1>7, <1>10, <2>2 DEF InCache
    <3> QED BY <1>5, <1>9, <2>1, <2>2, <3>1 DEF CountsNow
  <2>3. CASE e # d
    <3>1. InCache(e)' = InCache(e) /\ InCache(e) \in {0, 1}
      BY <1>3, <1>10, <2>3 DEF InCache
    <3> QED BY <1>5, <1>6, <1>9, <2>1, <2>3, <3>1 DEF CountsNow, Counted
  <2> QED BY <2>2, <2>3
<1> QED BY <1>5, <1>11, <1>12, <1>13, <1>14, <1>15 DEF Holds

LEMMA NewTableStep ==
    ASSUME ThreadsOK, NEW t \in Threads, Holds(th[t]), NewTable(t)
    PROVE  \E m : Reaches(t, m) /\ Holds(m)'
<1>1. PICK l : l = th[t]
  OBVIOUS
<1>2. /\ Reaches(t, Idle) /\ UNCHANGED <<cache, docs, given>> /\ l.pc = "puts" /\ Holds(l)
      /\ last' = [u \in URLs |-> "none"] /\ table' = "live" /\ DOMAIN cache = {}
  BY <1>1 DEF NewTable, AtStep, Reaches, Record, Idle, Locals
<1>3. DocsOK' /\ CacheOK' /\ PlaceOK(Idle)' /\ LastOK'
  BY <1>2 DEF Holds, DocsOK, CacheOK, PlaceOK, Places, Idle, Locals, LastOK
<1>4. Counted(Idle)'
  BY <1>2 DEF Holds, Counted, InCache, InHand, Idle, Locals
<1> QED BY <1>2, <1>3, <1>4 DEF Holds

-----------------------------------------------------------------------------
(***************************************************************************)
(* Theorems                                                                 *)
(***************************************************************************)

\* One thread, and no pointer of it is to what was freed or replaced.
LEMMA EveryStep ==
    ASSUME ThreadsOK, Alone, NEW t \in Threads, Holds(th[t]),
           \/ Request(t) \/ Probe(t) \/ Take(t) \/ Taken(t) \/ FetchFails(t)
           \/ Store(t) \/ Replace(t) \/ SetEntry(t) \/ Build(t)
           \/ Flush(t) \/ PutLoad(t) \/ PutStore(t) \/ NewTable(t) \/ Undefined(t)
           \/ \E holds \in {"good", "bad"} : Fetch(t, holds)
    PROVE  \E m : Reaches(t, m) /\ Holds(m)'
<1>1. ~Replace(t)
  BY DEF Replace, AtStep, Holds, PlaceOK, Places
<1>2. ~Undefined(t)
  BY NothingDangles DEF Undefined
<1> QED BY <1>1, <1>2, QuietSteps, TakenStep, FetchStep, StoreStep, SetStep, BuildStep,
          PutStoreStep, NewTableStep

LEMMA UrlInductive == UrlInv /\ [UrlNext]_urlVars => UrlInv'
<1> SUFFICES ASSUME UrlInv, [UrlNext]_urlVars PROVE UrlInv'
  OBVIOUS
<1>1. CASE UNCHANGED urlVars
  BY <1>1 DEF urlVars, UrlInv, ThreadsOK, Holds, DocsOK, CacheOK, PlaceOK, Counted, InCache,
      InHand, LastOK, Alone
<1>2. ASSUME UrlNext PROVE ThreadsOK'
  <2>1. ThreadsOK /\ Record(Idle) /\ \A pc, url, ptr, stale : Record(Locals(pc, url, ptr, stale))
    BY DEF UrlInv, Record, Idle, Locals
  <2>2. PICK t \in Threads : Flush(t) \/ \E m : Reaches(t, m)
    <3>1. \A t \in Threads : \A pc, url, ptr : Go(t, pc, url, ptr) => \E m : Reaches(t, m)
      BY <2>1, Goes
    <3>2. \A t \in Threads : \A pc, url, d : Load(t, pc, url, d) => \E m : Reaches(t, m)
      BY <2>1, Loads
    <3>3. \A t, m : th' = [th EXCEPT ![t] = m] /\ Record(m) => Reaches(t, m)
      BY DEF Reaches
    <3>4. \A t \in Threads : Request(t) => \E m : Reaches(t, m)
      <4> SUFFICES ASSUME NEW t \in Threads, Request(t) PROVE \E m : Reaches(t, m)
        OBVIOUS
      <4>1. PICK b : b = (table = "freed")
        OBVIOUS
      <4>2. \/ \E u \in URLs : th' = [th EXCEPT ![t] = Locals("probe", u, NoDoc, b)]
            \/ Go(t, "flush", NoURL, NoDoc)
        BY ONLY <4>1, Request(t) DEF Request
      <4> QED BY ONLY <4>2, <2>1, <3>1, <3>3
    <3>5. \A t \in Threads : Probe(t) \/ Taken(t) \/ Replace(t) \/ SetEntry(t) \/ PutStore(t)
                              \/ Undefined(t) => \E m : Reaches(t, m)
      BY ONLY <3>1 DEF Probe, Taken, Replace, SetEntry, PutStore, Undefined
    <3>6. \A t \in Threads, holds \in {"good", "bad"} : Fetch(t, holds) => \E m : Reaches(t, m)
      BY ONLY <3>1 DEF Fetch
    <3>7. \A t \in Threads : Take(t) \/ Store(t) \/ PutLoad(t) => \E m : Reaches(t, m)
      BY ONLY <3>1, <3>2 DEF Take, Store, PutLoad
    <3>8. \A t \in Threads : FetchFails(t) \/ Build(t) \/ NewTable(t) => \E m : Reaches(t, m)
      BY ONLY <2>1, <3>3 DEF FetchFails, Build, NewTable
    <3> QED BY ONLY <1>2, <3>4, <3>5, <3>6, <3>7, <3>8 DEF UrlNext
  <2>3. CASE Flush(t)
    <3>1. \A s \in Threads : Record([th[s] EXCEPT !.stale = TRUE])
      BY <2>1 DEF ThreadsOK, Record
    <3>2. DOMAIN th = Threads
      BY <2>1 DEF ThreadsOK
    <3>3. th' = [s \in Threads |-> th'[s]]
      BY ONLY <2>3, <3>2 DEF Flush
    <3>4. \A s \in Threads : \/ th'[s] = Locals("puts", NoURL, NoDoc, FALSE)
                             \/ th'[s] = [th[s] EXCEPT !.stale = TRUE]
                             \/ th'[s] = th[s]
      BY ONLY <2>3, <3>2 DEF Flush
    <3>5. ASSUME NEW s \in Threads PROVE Record(th'[s])
      <4>1. CASE th'[s] = Locals("puts", NoURL, NoDoc, FALSE)
        BY ONLY <2>1, <4>1
      <4>2. CASE th'[s] = [th[s] EXCEPT !.stale = TRUE]
        BY ONLY <3>1, <4>2
      <4>3. CASE th'[s] = th[s]
        BY ONLY <2>1, <4>3 DEF ThreadsOK
      <4> QED BY ONLY <3>4, <4>1, <4>2, <4>3
    <3> QED BY ONLY <3>3, <3>5 DEF ThreadsOK, Record
  <2>4. CASE \E m : Reaches(t, m)
    BY <2>1, <2>4 DEF ThreadsOK, Reaches
  <2> QED BY <2>2, <2>3, <2>4
<1>3. ASSUME UrlNext, Alone, NEW s \in Threads PROVE Holds(th[s])'
  <2>1. PICK t \in Threads : \/ Request(t) \/ Probe(t) \/ Take(t) \/ Taken(t) \/ FetchFails(t)
                             \/ Store(t) \/ Replace(t) \/ SetEntry(t) \/ Build(t)
                             \/ Flush(t) \/ PutLoad(t) \/ PutStore(t) \/ NewTable(t) \/ Undefined(t)
                             \/ \E holds \in {"good", "bad"} : Fetch(t, holds)
    BY <1>3 DEF UrlNext
  <2>2. ThreadsOK /\ Holds(th[t])
    BY <1>3 DEF UrlInv
  <2>3. PICK m : Reaches(t, m) /\ Holds(m)'
    BY <1>3, <2>1, <2>2, EveryStep
  <2>4. th'[s] = m
    BY <1>3, <2>2, <2>3 DEF Reaches, Alone, ThreadsOK
  <2> QED BY <2>3, <2>4 DEF Holds, PlaceOK, Counted, InHand
<1> QED BY <1>1, <1>2, <1>3 DEF UrlInv, Alone

LEMMA UrlBegins == UrlInit => UrlInv
<1>1. Record(Idle) /\ Idle.pc = "idle" /\ Idle.ptr = NoDoc /\ Idle.stale = FALSE
  BY DEF Idle, Locals, Record
<1>2. UrlInit => ThreadsOK
  BY <1>1 DEF UrlInit, ThreadsOK
<1>3. UrlInit => Holds(Idle)
  BY <1>1 DEF UrlInit, Holds, DocsOK, CacheOK, PlaceOK, Places, Counted, LastOK
<1> QED BY <1>2, <1>3 DEF UrlInit, UrlInv

\* What refers to a document, with one thread
LEMMA UsesAlone ==
    ASSUME NEW t, DOMAIN th = {t}, NEW d, th[t].pc # "replace"
    PROVE  Uses(d) = given[d] + InCache(d) + InHand(th[t], d)
<1> DEFINE S == {s \in DOMAIN th : th[s].pc \in {"set", "replace"} /\ th[s].ptr = d}
<1>1. CASE th[t].pc = "set" /\ th[t].ptr = d
  <2>1. S = {t}
    BY <1>1
  <2>2. Cardinality(S) = 1
    BY <2>1, FS_Singleton
  <2> QED BY <1>1, <2>2 DEF Uses, InCache, InHand
<1>2. CASE ~(th[t].pc = "set" /\ th[t].ptr = d)
  <2>1. S = {}
    BY <1>2
  <2>2. Cardinality(S) = 0
    BY <2>1, FS_EmptySet
  <2>3. InHand(th[t], d) = 0
    BY <1>2 DEF InHand
  <2> QED BY <2>2, <2>3 DEF Uses, InCache
<1> QED BY <1>1, <1>2

\* With one thread and any URLs, a document counts the callers it was given to and
\* the cache, whatever is flushed in between, and no pointer outlives its document.
THEOREM CountsEveryUseHolds == UrlSpec => []CountsEveryUse
<1>1. UrlInv => CountsEveryUse
  <2> SUFFICES ASSUME UrlInv, IsAlone
               PROVE  /\ UrlTypeOK /\ UsedDocIsLive
                      /\ \A d \in DOMAIN docs : docs[d].refs = Uses(d)
                      /\ \A t \in DOMAIN th : th[t].pc # "undefined"
    BY DEF CountsEveryUse
  <2>1. DOMAIN th = Threads /\ \A t \in Threads : Holds(th[t]) /\ Threads = {t}
    BY DEF UrlInv, ThreadsOK, IsAlone, Alone
  <2>2. UsedDocIsLive /\ \A t \in DOMAIN th : th[t].pc # "undefined"
    BY <2>1 DEF Holds, PlaceOK, Places, CacheOK, UsedDocIsLive
  <2>3. ASSUME NEW t \in Threads PROVE UrlTypeOK /\ \A d \in DOMAIN docs : docs[d].refs = Uses(d)
    <3>1. \A d \in DOMAIN docs : docs[d].refs = given[d] + InCache(d) + InHand(th[t], d)
      BY <2>1 DEF Holds, Counted
    <3>2. \A d \in DOMAIN docs : docs[d].refs = Uses(d)
      BY <2>1, <3>1, UsesAlone DEF Holds, PlaceOK, Places
    <3>3. \A d \in DOMAIN docs : docs[d].refs \in Nat \ {0}
      BY <2>1, <3>1 DEF Holds, DocsOK, InCache, InHand
    <3> QED BY <2>1, <3>2, <3>3 DEF Holds, DocsOK, CacheOK, PlaceOK, UrlTypeOK
  <2> QED BY <2>2, <2>3, UrlAssumption
<1> QED BY <1>1, UrlBegins, UrlInductive, PTL DEF UrlSpec

\* With one thread the answer to a URL stays what it was while its document is
\* cached, an error of ZXDB included.
THEOREM AnswersStickHolds == UrlSpec => AnswersStick
<1>1. UrlInv /\ [UrlNext]_urlVars =>
        [ IsAlone => \A u \in DOMAIN last :
            u \in DOMAIN cache /\ u \in DOMAIN cache' /\ last[u] # "none"
                => last'[u] = last[u] ]_urlVars
  <2> SUFFICES ASSUME UrlInv, UrlNext, IsAlone,
                      NEW u \in DOMAIN last, u \in DOMAIN cache, u \in DOMAIN cache', last[u] # "none"
               PROVE  last'[u] = last[u]
    OBVIOUS
  <2>1. PICK t \in Threads : \/ Request(t) \/ Probe(t) \/ Take(t) \/ Taken(t) \/ FetchFails(t)
                             \/ Store(t) \/ Replace(t) \/ SetEntry(t) \/ Build(t)
                             \/ Flush(t) \/ PutLoad(t) \/ PutStore(t) \/ NewTable(t) \/ Undefined(t)
                             \/ \E holds \in {"good", "bad"} : Fetch(t, holds)
    BY DEF UrlNext
  <2>2. ThreadsOK /\ Holds(th[t]) /\ DOMAIN last = URLs
    BY DEF UrlInv, ThreadsOK, IsAlone, Alone, Holds, LastOK
  <2>3. CASE Build(t)
    BY <2>2, <2>3, BuildStep
  <2>4. CASE ~Build(t) /\ ~NewTable(t)
    BY <2>1, <2>4 DEF Request, Probe, Take, Taken, FetchFails, Store, Replace, SetEntry, Flush,
        PutLoad, PutStore, Undefined, Fetch
  <2>5. ~NewTable(t)
    BY DEF NewTable
  <2> QED BY <2>3, <2>4, <2>5
<1> QED BY <1>1, UrlBegins, UrlInductive, PTL DEF UrlSpec, AnswersStick

-----------------------------------------------------------------------------
(***************************************************************************)
(* Two threads                                                              *)
(***************************************************************************)

IsStale(l) == l.stale = TRUE

\* A thread that found nothing under a URL, and works on a table that is there.
Late(l, u) == l.pc \in {"fetch", "store", "replace", "set"} /\ ~IsStale(l) /\ l.url = u
Using(l) == l.pc \in {"take", "taken", "store", "replace", "set", "build"}
\* A document that no other thread has seen yet
Owns(l) == l.pc \in {"store", "replace", "set"}

Memory(c, d) ==
    /\ DOMAIN c \subseteq URLs /\ DOMAIN d \subseteq Ids
    /\ \A e \in DOMAIN d :
           DOMAIN d[e] = {"url", "holds", "refs"} /\ d[e].refs \in Nat \ {0}
    /\ \A u \in DOMAIN c : c[u] \in DOMAIN d /\ d[c[u]].url = u

\* What a thread has in hand: what it has counted for itself is not less than
\* two, the reference it was given and the one it counted for the cache.
InPlace(c, tb, d, l) ==
    /\ l.pc \in Places \cup {"replace", "undefined"}
    /\ l.pc \notin {"idle", "flush", "puts", "undefined"} => l.url \in URLs
    /\ Using(l) => l.ptr \in DOMAIN d
    /\ l.pc = "taken" => l.of = l.ptr /\ l.count \in Nat \ {0}
    /\ Owns(l) => d[l.ptr].url = l.url /\ \A u \in DOMAIN c : c[u] # l.ptr
    /\ l.pc \in {"replace", "set"} => d[l.ptr].refs >= 2
    /\ l.pc = "replace" => /\ l.count \in Nat /\ l.count >= 2
                           /\ ~IsStale(l) => l.url \in DOMAIN c /\ c[l.url] = l.of
    /\ l.pc = "put" => l.url \in DOMAIN c /\ c[l.url] = l.of /\ l.count \in Nat \ {0}
    /\ l.pc \in {"puts", "put"} => tb = "freed"
    /\ tb = "freed" => ~\E u \in URLs : Late(l, u)
    /\ tb = "freed" /\ l.pc = "probe" => IsStale(l)

\* What one thread is about to do to the other: a flush frees a document only
\* when the other has put it already, and waits to replace it.
Apart(c, l, m) ==
    /\ l.pc \in {"puts", "put"} => m.pc \notin {"puts", "put"}
    /\ Owns(l) /\ Using(m) => l.ptr # m.ptr
    /\ \A u \in DOMAIN c : ~(Late(l, u) /\ Late(m, u))
    /\ l.pc = "put" /\ l.count = 1 => m.pc \in {"set", "undefined"}

\* Why a cached document may count less than two: it was put to be replaced.
PutBy(tb, l, u) ==
    \/ l.pc = "set" /\ l.url = u /\ (~IsStale(l) \/ tb = "freed")
    \/ l.pc = "undefined" /\ tb = "freed"

Pair(c, tb, d, l, m) ==
    /\ Memory(c, d)
    /\ InPlace(c, tb, d, l) /\ InPlace(c, tb, d, m)
    /\ Apart(c, l, m) /\ Apart(c, m, l)
    /\ \A u \in DOMAIN c : d[c[u]].refs >= 2 \/ PutBy(tb, l, u) \/ PutBy(tb, m, u)

Both(s, t) == Pair(cache, table, docs, th[s], th[t])

BothNext(s, t) == Pair(cache', table', docs', th'[s], th'[t])

\* One of two threads is t, the other is s; l and m are their locals.
Two(t, s, l, m) ==
    /\ t \in Threads /\ s \in Threads /\ s # t /\ ThreadsOK
    /\ l = th[t] /\ m = th[s]
    /\ Pair(cache, table, docs, l, m)

Comes(t, n) == th' = [th EXCEPT ![t] = n]
Leaves(t, s, n, m) == th'[t] = n /\ th'[s] = m

LEMMA OtherStays ==
    ASSUME NEW t, NEW s, NEW l, NEW m, Two(t, s, l, m), NEW n, Comes(t, n)
    PROVE  Leaves(t, s, n, m)
  BY DEF Two, ThreadsOK, Comes, Leaves

LEMMA GoesBeside ==
    ASSUME NEW t, NEW s, NEW l, NEW m, Two(t, s, l, m),
           NEW pc, NEW url, NEW ptr, Go(t, pc, url, ptr)
    PROVE  Leaves(t, s, Locals(pc, url, ptr, l.stale), m)
<1>1. l = th[t]
  BY DEF Two
<1>2. Comes(t, Locals(pc, url, ptr, l.stale))
  BY ONLY <1>1, Go(t, pc, url, ptr) DEF Go, Comes
<1> QED BY ONLY <1>2, Two(t, s, l, m), OtherStays

LEMMA LoadsBeside ==
    ASSUME NEW t, NEW s, NEW l, NEW m, Two(t, s, l, m), NEW pc, NEW url, NEW d, Load(t, pc, url, d)
    PROVE  Leaves(t, s, [pc |-> pc, url |-> url, ptr |-> l.ptr,
                         of |-> d, count |-> docs[d].refs, stale |-> l.stale], m)
<1> DEFINE n == [pc |-> pc, url |-> url, ptr |-> l.ptr,
                 of |-> d, count |-> docs[d].refs, stale |-> l.stale]
<1>1. l = th[t]
  BY DEF Two
<1>2. Comes(t, n)
  BY ONLY <1>1, Load(t, pc, url, d) DEF Load, Comes
<1> HIDE DEF n
<1>3. Leaves(t, s, n, m)
  BY ONLY <1>2, Two(t, s, l, m), OtherStays
<1> QED BY ONLY <1>3 DEF n

LEMMA PairIsMutual ==
    ASSUME NEW c, NEW tb, NEW d, NEW l, NEW m, Pair(c, tb, d, l, m)
    PROVE  Pair(c, tb, d, m, l)
  BY DEF Pair

\* A step that leaves the memory as it is
LEMMA QuietPair ==
    ASSUME NEW c, NEW tb, NEW d, NEW l, NEW m, NEW n, Pair(c, tb, d, l, m),
           InPlace(c, tb, d, n), Apart(c, n, m), Apart(c, m, n),
           \A u \in DOMAIN c : PutBy(tb, l, u) => PutBy(tb, n, u)
    PROVE  Pair(c, tb, d, n, m)
  BY DEF Pair

Asks(n) ==
    /\ n.pc \in {"probe", "flush"}
    /\ n.pc = "probe" => n.url \in URLs
    /\ n.pc = "probe" /\ table = "freed" => IsStale(n)

LEMMA RequestBeside ==
    ASSUME NEW t, NEW s, NEW l, NEW m, Two(t, s, l, m), Request(t)
    PROVE  BothNext(t, s)
<1>1. l.pc = "idle" /\ UNCHANGED <<cache, table, docs>>
  BY DEF Request, Two
<1>2. Pair(cache, table, docs, l, m)
  BY DEF Two
<1>3. \A u \in DOMAIN cache : ~PutBy(table, l, u)
  BY <1>1 DEF PutBy
<1>4. ASSUME NEW n, Asks(n)
      PROVE  Pair(cache, table, docs, n, m)
  <2>1. InPlace(cache, table, docs, n)
    <3>1. CASE n.pc = "probe"
      BY ONLY <1>4, <3>1 DEF Asks, InPlace, Places, Late, Using, Owns
    <3>2. CASE n.pc = "flush"
      BY ONLY <1>4, <3>2 DEF Asks, InPlace, Places, Late, Using, Owns
    <3> QED BY <1>4, <3>1, <3>2 DEF Asks
  <2>2. Apart(cache, l, m) /\ Apart(cache, m, l)
    BY ONLY <1>2 DEF Pair
  <2>3. Apart(cache, n, m)
    BY ONLY <1>4, <2>2 DEF Asks, Apart, Late, Using, Owns
  <2>4. Apart(cache, m, n)
    BY ONLY <1>1, <1>4, <2>2 DEF Asks, Apart, Late, Using, Owns
  <2> QED BY ONLY <1>2, <1>3, <2>1, <2>3, <2>4, QuietPair
<1>5. CASE \E u \in URLs : th' = [th EXCEPT ![t] = Locals("probe", u, NoDoc, table = "freed")]
  <2>1. PICK b : b = (table = "freed")
    OBVIOUS
  <2>2. PICK u \in URLs : th' = [th EXCEPT ![t] = Locals("probe", u, NoDoc, b)]
    BY <1>5, <2>1
  <2>3. PICK n : n = Locals("probe", u, NoDoc, b)
    OBVIOUS
  <2>4. n.pc = "probe" /\ n.url \in URLs /\ n.stale = b
    BY <2>3 DEF Locals
  <2>5. Asks(n)
    <3>1. table = "freed" => b = TRUE
      BY <2>1
    <3> QED BY ONLY <2>4, <3>1 DEF Asks, IsStale
  <2>6. Leaves(t, s, n, m)
    BY ONLY <2>2, <2>3, Two(t, s, l, m), OtherStays DEF Comes
  <2> QED BY ONLY <1>1, <1>4, <2>5, <2>6 DEF BothNext, Leaves
<1>6. CASE Go(t, "flush", NoURL, NoDoc)
  <2>1. PICK n : n = Locals("flush", NoURL, NoDoc, l.stale)
    OBVIOUS
  <2>2. Asks(n)
    BY <2>1 DEF Locals, Asks
  <2>3. Leaves(t, s, n, m)
    BY <1>6, <2>1, GoesBeside
  <2> QED BY ONLY <1>1, <1>4, <2>2, <2>3 DEF BothNext, Leaves
<1> QED BY <1>5, <1>6 DEF Request


\* A step is not on a table that was freed.
LEMMA OnLiveTable ==
    ASSUME NEW t, NEW s, NEW l, NEW m, Two(t, s, l, m), NEW pc, AtStep(t, pc)
    PROVE  /\ l.pc = pc
           /\ pc \in {"probe", "store", "replace", "set"} => ~IsStale(l) /\ table # "freed"
           /\ pc = "flush" => table # "freed"
<1>1. l = th[t] /\ InPlace(cache, table, docs, l)
  BY DEF Two, Pair
<1>2. l.pc = pc
  BY <1>1 DEF AtStep
<1>3. pc = "flush" => table # "freed"
  BY <1>1 DEF AtStep, IsDangling
<1>4. pc \in {"probe", "store", "replace", "set"} => ~IsStale(l)
  BY <1>1 DEF AtStep, IsDangling, IsStale
<1>5. pc \in {"probe", "store", "replace", "set"} /\ table = "freed" => IsStale(l)
  BY <1>1, <1>2 DEF InPlace, Places, Late
<1> QED BY <1>2, <1>3, <1>4, <1>5

LEMMA ProbeBeside ==
    ASSUME NEW t, NEW s, NEW l, NEW m, Two(t, s, l, m), Probe(t)
    PROVE  BothNext(t, s)
<1>1. l.pc = "probe" /\ ~IsStale(l) /\ table # "freed" /\ UNCHANGED <<cache, table, docs>>
  BY OnLiveTable DEF Probe
<1>2. /\ Pair(cache, table, docs, l, m) /\ Memory(cache, docs)
      /\ InPlace(cache, table, docs, l) /\ InPlace(cache, table, docs, m)
      /\ Apart(cache, l, m) /\ Apart(cache, m, l) /\ l = th[t]
  BY DEF Two, Pair
<1>3. \A u \in DOMAIN cache : ~PutBy(table, l, u)
  BY <1>1 DEF PutBy
<1>4. l.url \in URLs
  BY <1>1, <1>2 DEF InPlace
<1>5. m.pc \notin {"puts", "put"}
  BY <1>1, <1>2 DEF InPlace
<1>6. CASE l.url \in DOMAIN cache
  <2>1. PICK n : n = Locals("take", l.url, cache[l.url], l.stale)
    OBVIOUS
  <2>2. n.pc = "take" /\ n.url = l.url /\ n.ptr = cache[l.url]
    BY <2>1 DEF Locals
  <2>3. cache[l.url] \in DOMAIN docs /\ cache[l.url] # NoDoc
    BY <1>2, <1>6 DEF Memory, NoDoc, Ids
  <2>4. Leaves(t, s, n, m)
    BY <1>2, <1>6, <2>1, <2>3, GoesBeside DEF Probe, Cached
  <2>5. InPlace(cache, table, docs, n)
    BY ONLY <1>1, <1>4, <2>2, <2>3 DEF InPlace, Places, Late, Using, Owns
  <2>6. Apart(cache, n, m)
    BY ONLY <2>2 DEF Apart, Late, Owns
  <2>7. Apart(cache, m, n)
    BY ONLY <1>2, <1>5, <1>6, <2>2 DEF Apart, InPlace, Late
  <2>8. Pair(cache, table, docs, n, m)
    BY ONLY <1>2, <1>3, <2>5, <2>6, <2>7, QuietPair
  <2> QED BY ONLY <1>1, <2>4, <2>8 DEF BothNext, Leaves
<1>7. CASE l.url \notin DOMAIN cache
  <2>1. PICK n : n = Locals("fetch", l.url, NoDoc, l.stale)
    OBVIOUS
  <2>2. n.pc = "fetch" /\ n.url = l.url
    BY <2>1 DEF Locals
  <2>3. Leaves(t, s, n, m)
    BY <1>2, <1>7, <2>1, GoesBeside DEF Probe, Cached
  <2>4. InPlace(cache, table, docs, n)
    BY ONLY <1>1, <1>4, <2>2 DEF InPlace, Places, Using, Owns
  <2>5. Apart(cache, n, m)
    BY ONLY <1>7, <2>2 DEF Apart, Late, Owns
  <2>6. Apart(cache, m, n)
    BY ONLY <1>5, <1>7, <2>2 DEF Apart, Late, Using
  <2>7. Pair(cache, table, docs, n, m)
    BY ONLY <1>2, <1>3, <2>4, <2>5, <2>6, QuietPair
  <2> QED BY ONLY <1>1, <2>3, <2>7 DEF BothNext, Leaves
<1> QED BY <1>6, <1>7

LEMMA TakeBeside ==
    ASSUME NEW t, NEW s, NEW l, NEW m, Two(t, s, l, m), Take(t)
    PROVE  BothNext(t, s)
<1>1. l.pc = "take" /\ UNCHANGED <<cache, table, docs>>
  BY OnLiveTable DEF Take
<1>2. /\ Pair(cache, table, docs, l, m) /\ Memory(cache, docs)
      /\ InPlace(cache, table, docs, l) /\ InPlace(cache, table, docs, m)
      /\ Apart(cache, l, m) /\ Apart(cache, m, l) /\ l = th[t]
  BY DEF Two, Pair
<1>3. PICK n : n = [pc |-> "taken", url |-> l.url, ptr |-> l.ptr,
                    of |-> l.ptr, count |-> docs[l.ptr].refs, stale |-> l.stale]
  OBVIOUS
<1>4. n.pc = "taken" /\ n.url = l.url /\ n.ptr = l.ptr /\ n.of = l.ptr /\ n.count = docs[l.ptr].refs
  BY <1>3
<1>5. Leaves(t, s, n, m)
  BY <1>2, <1>3, LoadsBeside DEF Take
<1>6. InPlace(cache, table, docs, n)
  <2>1. l.ptr \in DOMAIN docs /\ l.url \in URLs
    BY <1>1, <1>2 DEF InPlace, Using
  <2> QED BY ONLY <1>2, <1>4, <2>1 DEF Memory, InPlace, Places, Late, Using, Owns
<1>7. Apart(cache, n, m)
  BY ONLY <1>4 DEF Apart, Late, Owns
<1>8. Apart(cache, m, n)
  BY ONLY <1>1, <1>2, <1>4 DEF Apart, Late, Using
<1>9. \A u \in DOMAIN cache : ~PutBy(table, l, u)
  BY <1>1 DEF PutBy
<1>10. Pair(cache, table, docs, n, m)
  BY ONLY <1>2, <1>6, <1>7, <1>8, <1>9, QuietPair
<1> QED BY ONLY <1>1, <1>5, <1>10 DEF BothNext, Leaves

\* The thread is through with the call.
LEMMA IdleBeside ==
    ASSUME NEW t, NEW s, NEW l, NEW m, Two(t, s, l, m), FetchFails(t) \/ Build(t)
    PROVE  BothNext(t, s)
<1>1. l.pc \in {"fetch", "build"} /\ Comes(t, Idle) /\ UNCHANGED <<cache, table, docs>>
  BY DEF FetchFails, Build, AtStep, Comes, Two
<1>2. /\ Pair(cache, table, docs, l, m)
      /\ Apart(cache, l, m) /\ Apart(cache, m, l)
  BY DEF Two, Pair
<1>3. Idle.pc = "idle"
  BY DEF Idle, Locals
<1>4. Leaves(t, s, Idle, m)
  BY <1>1, OtherStays
<1>5. InPlace(cache, table, docs, Idle)
  BY ONLY <1>3 DEF InPlace, Places, Late, Using, Owns
<1>6. Apart(cache, Idle, m)
  BY ONLY <1>3 DEF Apart, Late, Owns
<1>7. Apart(cache, m, Idle)
  BY ONLY <1>1, <1>2, <1>3 DEF Apart, Late, Using
<1>8. \A u \in DOMAIN cache : ~PutBy(table, l, u)
  BY <1>1 DEF PutBy
<1>9. Pair(cache, table, docs, Idle, m)
  BY ONLY <1>2, <1>5, <1>6, <1>7, <1>8, QuietPair
<1> QED BY ONLY <1>1, <1>4, <1>9 DEF BothNext, Leaves


\* The documents of the table are there for the flush that puts them.
LEMMA PutLoadBeside ==
    ASSUME NEW t, NEW s, NEW l, NEW m, Two(t, s, l, m), PutLoad(t)
    PROVE  BothNext(t, s)
<1>1. l.pc = "puts" /\ UNCHANGED <<cache, table, docs>>
  BY OnLiveTable DEF PutLoad
<1>2. /\ Pair(cache, table, docs, l, m) /\ Memory(cache, docs)
      /\ InPlace(cache, table, docs, l) /\ InPlace(cache, table, docs, m)
      /\ Apart(cache, l, m) /\ Apart(cache, m, l)
  BY DEF Two, Pair
<1>3. PICK u \in DOMAIN cache : Load(t, "put", u, cache[u])
  BY <1>2 DEF PutLoad, Memory
<1>4. PICK n : n = [pc |-> "put", url |-> u, ptr |-> l.ptr,
                    of |-> cache[u], count |-> docs[cache[u]].refs, stale |-> l.stale]
  OBVIOUS
<1>5. n.pc = "put" /\ n.url = u /\ n.of = cache[u] /\ n.count = docs[cache[u]].refs
  BY <1>4
<1>6. Leaves(t, s, n, m)
  BY <1>3, <1>4, LoadsBeside
<1>7. table = "freed" /\ u \in URLs /\ n.count \in Nat \ {0}
  BY ONLY <1>1, <1>2, <1>5 DEF InPlace, Memory
<1>8. InPlace(cache, table, docs, n)
  BY ONLY <1>5, <1>7 DEF InPlace, Places, Late, Using, Owns
<1>9. Apart(cache, n, m)
  <2>1. n.count = 1 => PutBy(table, m, u)
    <3>1. docs[cache[u]].refs >= 2 \/ PutBy(table, l, u) \/ PutBy(table, m, u)
      BY ONLY <1>2 DEF Pair
    <3>2. ~PutBy(table, l, u)
      BY ONLY <1>1 DEF PutBy
    <3> QED BY ONLY <1>5, <3>1, <3>2
  <2>2. n.count = 1 => m.pc \in {"set", "undefined"}
    BY ONLY <2>1 DEF PutBy
  <2>3. m.pc \notin {"puts", "put"}
    BY ONLY <1>1, <1>2 DEF Apart
  <2> QED BY ONLY <1>5, <2>2, <2>3 DEF Apart, Late, Owns
<1>10. Apart(cache, m, n)
  BY ONLY <1>1, <1>2, <1>5 DEF Apart, Late, Using
<1>11. \A v \in DOMAIN cache : ~PutBy(table, l, v)
  BY <1>1 DEF PutBy
<1>12. Pair(cache, table, docs, n, m)
  BY ONLY <1>2, <1>8, <1>9, <1>10, <1>11, QuietPair
<1> QED BY ONLY <1>1, <1>6, <1>12 DEF BothNext, Leaves

\* What a thread dangles on is a table: a document it uses is there.
LEMMA UndefinedBeside ==
    ASSUME NEW t, NEW s, NEW l, NEW m, Two(t, s, l, m), Undefined(t)
    PROVE  BothNext(t, s)
<1>1. UNCHANGED <<cache, table, docs>> /\ Go(t, "undefined", NoURL, NoDoc)
  BY DEF Undefined
<1>2. /\ Pair(cache, table, docs, l, m) /\ Memory(cache, docs)
      /\ InPlace(cache, table, docs, l) /\ InPlace(cache, table, docs, m)
      /\ Apart(cache, l, m) /\ Apart(cache, m, l) /\ l = th[t]
  BY DEF Two, Pair
<1>3. l.pc = "set" => IsStale(l)
  <2> SUFFICES ASSUME l.pc = "set", ~IsStale(l) PROVE ~IsDangling(t)
    BY DEF Undefined
  <2>1. l.ptr \in DOMAIN docs
    BY <1>2 DEF InPlace, Using
  <2> QED BY <1>2, <2>1 DEF IsDangling, IsStale
<1>4. PICK n : n = Locals("undefined", NoURL, NoDoc, l.stale)
  OBVIOUS
<1>5. n.pc = "undefined"
  BY <1>4 DEF Locals
<1>6. Leaves(t, s, n, m)
  BY <1>1, <1>4, GoesBeside
<1>7. InPlace(cache, table, docs, n)
  BY ONLY <1>5 DEF InPlace, Places, Late, Using, Owns
<1>8. Apart(cache, n, m)
  BY ONLY <1>5 DEF Apart, Late, Owns
<1>9. Apart(cache, m, n)
  BY ONLY <1>2, <1>5 DEF Apart, Late, Using
<1>10. \A u \in DOMAIN cache : PutBy(table, l, u) => PutBy(table, n, u)
  BY ONLY <1>3, <1>5 DEF PutBy
<1>11. Pair(cache, table, docs, n, m)
  BY ONLY <1>2, <1>7, <1>8, <1>9, <1>10, QuietPair
<1> QED BY ONLY <1>1, <1>6, <1>11 DEF BothNext, Leaves

\* A count is stored: nothing else of the documents changes.
Counts(d, e, k, d2) ==
    /\ DOMAIN d2 = DOMAIN d
    /\ \A f \in DOMAIN d :
           DOMAIN d2[f] = DOMAIN d[f] /\ d2[f].url = d[f].url /\ (f # e => d2[f].refs = d[f].refs)
    /\ d2[e].refs = k

LEMMA StoresCount ==
    ASSUME NEW c, NEW d, Memory(c, d), NEW e \in DOMAIN d, NEW k,
           NEW d2, d2 = [d EXCEPT ![e].refs = k]
    PROVE  Counts(d, e, k, d2)
<1>1. DOMAIN d[e] = {"url", "holds", "refs"}
  BY DEF Memory
<1> QED BY ONLY <1>1, d2 = [d EXCEPT ![e].refs = k], e \in DOMAIN d DEF Counts

\* A count of at least two, or that of a cached document, changes no place.
LEMMA CountKeeps ==
    ASSUME NEW c, NEW tb, NEW d, NEW e \in DOMAIN d, NEW k \in Nat \ {0}, NEW d2,
           Counts(d, e, k, d2), Memory(c, d), k >= 2 \/ \E u \in DOMAIN c : c[u] = e
    PROVE  /\ Memory(c, d2)
           /\ \A l : InPlace(c, tb, d, l) => InPlace(c, tb, d2, l)
<1>1. Memory(c, d2)
  BY DEF Memory, Counts
<1>2. ASSUME NEW l, InPlace(c, tb, d, l) PROVE InPlace(c, tb, d2, l)
  <2>1. l.ptr \in DOMAIN d => d2[l.ptr].url = d[l.ptr].url
    BY DEF Counts
  <2>2. l.ptr \in DOMAIN d /\ d[l.ptr].refs >= 2 /\ Owns(l) => d2[l.ptr].refs >= 2
    <3>1. Owns(l) /\ ~(k >= 2) => l.ptr # e
      BY ONLY <1>2, k >= 2 \/ \E u \in DOMAIN c : c[u] = e DEF InPlace
    <3> QED BY <3>1 DEF Counts
  <2>3. Owns(l) => Using(l)
    BY DEF Owns, Using
  <2>4. l.pc \in {"replace", "set"} => Owns(l)
    BY DEF Owns
  <2>5. DOMAIN d2 = DOMAIN d
    BY DEF Counts
  <2> QED BY ONLY <1>2, <2>1, <2>2, <2>3, <2>4, <2>5 DEF InPlace
<1> QED BY <1>1, <1>2

LEMMA CountPair ==
    ASSUME NEW c, NEW tb, NEW d, NEW l, NEW m, NEW n, Pair(c, tb, d, l, m),
           NEW e \in DOMAIN d, NEW k \in Nat \ {0}, NEW d2, Counts(d, e, k, d2),
           k >= 2 \/ \E u \in DOMAIN c : c[u] = e /\ PutBy(tb, n, u),
           InPlace(c, tb, d2, n), Apart(c, n, m), Apart(c, m, n),
           \A u \in DOMAIN c : PutBy(tb, l, u) => PutBy(tb, n, u)
    PROVE  Pair(c, tb, d2, n, m)
<1>1. Memory(c, d) /\ InPlace(c, tb, d, m)
  BY DEF Pair
<1>2. Memory(c, d2) /\ InPlace(c, tb, d2, m)
  BY <1>1, CountKeeps
<1>3. ASSUME NEW u \in DOMAIN c
      PROVE  d2[c[u]].refs >= 2 \/ PutBy(tb, n, u) \/ PutBy(tb, m, u)
  <2>1. d[c[u]].refs >= 2 \/ PutBy(tb, l, u) \/ PutBy(tb, m, u)
    BY DEF Pair
  <2>2. CASE c[u] # e
    <3>1. d2[c[u]].refs = d[c[u]].refs
      BY <1>1, <2>2 DEF Counts, Memory
    <3> QED BY <2>1, <3>1
  <2>3. CASE c[u] = e
    <3>1. CASE k >= 2
      BY <2>3, <3>1 DEF Counts
    <3>2. ASSUME NEW v \in DOMAIN c, c[v] = e, PutBy(tb, n, v) PROVE PutBy(tb, n, u)
      <4>1. u = v
        BY ONLY <1>1, <2>3, <3>2 DEF Memory
      <4> QED BY <3>2, <4>1
    <3> QED BY <3>1, <3>2
  <2> QED BY <2>2, <2>3
<1> QED BY ONLY <1>2, <1>3, InPlace(c, tb, d2, n), Apart(c, n, m), Apart(c, m, n) DEF Pair


LEMMA TakenBeside ==
    ASSUME NEW t, NEW s, NEW l, NEW m, Two(t, s, l, m), Taken(t)
    PROVE  BothNext(t, s)
<1>1. l.pc = "taken" /\ UNCHANGED <<cache, table>>
  BY OnLiveTable DEF Taken
<1>2. /\ Pair(cache, table, docs, l, m) /\ Memory(cache, docs)
      /\ InPlace(cache, table, docs, l)
      /\ Apart(cache, l, m) /\ Apart(cache, m, l) /\ l = th[t]
  BY DEF Two, Pair
<1>3. PICK k : k = l.count + 1
  OBVIOUS
<1>4. PICK e : e = l.ptr
  OBVIOUS
<1>5. e = l.of /\ e \in DOMAIN docs /\ k \in Nat \ {0} /\ k >= 2 /\ l.url \in URLs
  BY ONLY <1>1, <1>2, <1>3, <1>4 DEF InPlace, Using, Places
<1>6. Counts(docs, e, k, docs')
  <2>1. docs' = Stored(l.of, l.count + 1)
    BY <1>2 DEF Taken
  <2>2. docs' = [docs EXCEPT ![e].refs = k]
    BY ONLY <1>3, <1>5, <2>1 DEF Stored
  <2> QED BY ONLY <1>2, <1>5, <2>2, StoresCount
<1>7. PICK n : n = Locals("build", l.url, e, l.stale)
  OBVIOUS
<1>8. n.pc = "build" /\ n.url = l.url /\ n.ptr = e
  BY <1>7 DEF Locals
<1>9. Leaves(t, s, n, m)
  BY <1>2, <1>4, <1>7, GoesBeside DEF Taken
<1>10. InPlace(cache, table, docs', n)
  <2>1. e \in DOMAIN docs'
    BY ONLY <1>5, <1>6 DEF Counts
  <2> QED BY ONLY <1>5, <1>8, <2>1 DEF InPlace, Places, Late, Owns
<1>11. Apart(cache, n, m)
  BY ONLY <1>8 DEF Apart, Late, Owns
<1>12. Apart(cache, m, n)
  BY ONLY <1>1, <1>2, <1>4, <1>8 DEF Apart, Late, Using
<1>13. \A u \in DOMAIN cache : ~PutBy(table, l, u)
  BY ONLY <1>1 DEF PutBy
<1>14. Pair(cache, table, docs', n, m)
  BY ONLY <1>2, <1>5, <1>6, <1>10, <1>11, <1>12, <1>13, CountPair
<1> QED BY ONLY <1>1, <1>9, <1>14 DEF BothNext, Leaves

\* The document of the cache that is to be put counts at least two: the other
\* thread cannot have put it, since two do not store under one URL.
LEMMA OldIsCounted ==
    ASSUME NEW l, NEW m, Pair(cache, table, docs, l, m),
           l.pc = "store", ~IsStale(l), table # "freed", l.url \in DOMAIN cache
    PROVE  docs[cache[l.url]].refs \in Nat /\ docs[cache[l.url]].refs >= 2
<1>1. Memory(cache, docs) /\ Apart(cache, l, m)
  BY DEF Pair
<1>2. docs[cache[l.url]].refs >= 2 \/ PutBy(table, l, l.url) \/ PutBy(table, m, l.url)
  BY DEF Pair
<1>3. ~PutBy(table, l, l.url)
  BY DEF PutBy
<1>4. ~PutBy(table, m, l.url)
  BY ONLY <1>1, l.pc = "store", ~IsStale(l), table # "freed", l.url \in DOMAIN cache
     DEF PutBy, Apart, Late
<1>5. docs[cache[l.url]].refs \in Nat
  BY ONLY <1>1, l.url \in DOMAIN cache DEF Memory
<1> QED BY ONLY <1>2, <1>3, <1>4, <1>5

\* The document is counted for the cache, and goes there next.
LEMMA StoreBeside ==
    ASSUME NEW t, NEW s, NEW l, NEW m, Two(t, s, l, m), Store(t)
    PROVE  BothNext(t, s)
<1>1. l.pc = "store" /\ ~IsStale(l) /\ table # "freed" /\ UNCHANGED <<cache, table>>
  BY OnLiveTable DEF Store
<1>2. /\ Pair(cache, table, docs, l, m) /\ Memory(cache, docs)
      /\ InPlace(cache, table, docs, l) /\ InPlace(cache, table, docs, m)
      /\ Apart(cache, l, m) /\ Apart(cache, m, l) /\ l = th[t]
  BY DEF Two, Pair
<1>3. PICK e : e = l.ptr
  OBVIOUS
<1>4. PICK k : k = docs[e].refs + 1
  OBVIOUS
<1>5. /\ e \in DOMAIN docs /\ l.url \in URLs /\ docs[e].url = l.url
      /\ \A u \in DOMAIN cache : cache[u] # e
  BY ONLY <1>1, <1>2, <1>3 DEF InPlace, Using, Owns, Places
<1>6. k \in Nat \ {0} /\ k >= 2
  BY ONLY <1>2, <1>4, <1>5 DEF Memory
<1>7. Counts(docs, e, k, docs')
  <2>1. docs' = [docs EXCEPT ![e].refs = k]
    BY <1>2, <1>3, <1>4 DEF Store
  <2> QED BY ONLY <1>2, <1>5, <2>1, StoresCount
<1>8. e \in DOMAIN docs' /\ docs'[e].url = l.url /\ docs'[e].refs >= 2
  BY ONLY <1>5, <1>6, <1>7 DEF Counts
<1>9. m.pc \notin {"puts", "put"}
  BY ONLY <1>1, <1>2 DEF InPlace
<1>10. \A u \in DOMAIN cache : ~PutBy(table, l, u)
  BY ONLY <1>1 DEF PutBy
<1>11. ASSUME NEW n, n.pc \in {"set", "replace"}, n.url = l.url, n.ptr = e, n.stale = l.stale,
              InPlace(cache, table, docs', n)
       PROVE  Pair(cache, table, docs', n, m)
  <2>1. Apart(cache, n, m)
    BY ONLY <1>1, <1>2, <1>3, <1>11 DEF Apart, Late, Owns, IsStale
  <2>2. Apart(cache, m, n)
    BY ONLY <1>1, <1>2, <1>3, <1>9, <1>11 DEF Apart, Late, Using, IsStale
  <2> QED BY ONLY <1>2, <1>5, <1>6, <1>7, <1>10, <1>11, <2>1, <2>2, CountPair
<1>12. CASE l.url \notin DOMAIN cache
  <2>1. PICK n : n = Locals("set", l.url, e, l.stale)
    OBVIOUS
  <2>2. n.pc = "set" /\ n.url = l.url /\ n.ptr = e /\ n.stale = l.stale
    BY <2>1 DEF Locals
  <2>3. Leaves(t, s, n, m)
    BY <1>2, <1>3, <1>12, <2>1, GoesBeside DEF Store, Cached
  <2>4. InPlace(cache, table, docs', n)
    BY ONLY <1>1, <1>5, <1>8, <2>2 DEF InPlace, Places
  <2> QED BY ONLY <1>1, <1>11, <2>2, <2>3, <2>4 DEF BothNext, Leaves
<1>13. CASE l.url \in DOMAIN cache
  <2>1. PICK n : n = [pc |-> "replace", url |-> l.url, ptr |-> l.ptr, of |-> cache[l.url],
                      count |-> docs[cache[l.url]].refs, stale |-> l.stale]
    OBVIOUS
  <2>2. n.pc = "replace" /\ n.url = l.url /\ n.ptr = e /\ n.stale = l.stale
        /\ n.of = cache[l.url] /\ n.count = docs[cache[l.url]].refs
    BY <1>3, <2>1
  <2>3. Leaves(t, s, n, m)
    <3>1. cache[l.url] # NoDoc
      BY <1>2, <1>13 DEF Memory, Ids, NoDoc
    <3> QED BY <1>2, <1>13, <2>1, <3>1, LoadsBeside DEF Store, Cached
  <2>4. n.count \in Nat /\ n.count >= 2
    BY ONLY <1>1, <1>2, <1>13, <2>2, OldIsCounted
  <2>5. InPlace(cache, table, docs', n)
    BY ONLY <1>1, <1>5, <1>8, <1>13, <2>2, <2>4 DEF InPlace, Places
  <2> QED BY ONLY <1>1, <1>11, <2>2, <2>3, <2>5 DEF BothNext, Leaves
<1> QED BY <1>12, <1>13

\* The count that is stored is that of the document in the cache: it leaves one
\* or more, and the thread that put it replaces it next.
LEMMA ReplaceBeside ==
    ASSUME NEW t, NEW s, NEW l, NEW m, Two(t, s, l, m), Replace(t)
    PROVE  BothNext(t, s)
<1>1. l.pc = "replace" /\ ~IsStale(l) /\ table # "freed" /\ UNCHANGED <<cache, table>>
  BY OnLiveTable DEF Replace
<1>2. /\ Pair(cache, table, docs, l, m) /\ Memory(cache, docs)
      /\ InPlace(cache, table, docs, l) /\ InPlace(cache, table, docs, m)
      /\ Apart(cache, l, m) /\ Apart(cache, m, l) /\ l = th[t]
  BY DEF Two, Pair
<1>3. PICK k : k = l.count - 1
  OBVIOUS
<1>4. PICK e : e = l.of
  OBVIOUS
<1>5. /\ l.url \in DOMAIN cache /\ cache[l.url] = e /\ k \in Nat \ {0} /\ l.url \in URLs
      /\ l.ptr \in DOMAIN docs /\ docs[l.ptr].url = l.url /\ docs[l.ptr].refs >= 2
      /\ \A u \in DOMAIN cache : cache[u] # l.ptr
  BY ONLY <1>1, <1>2, <1>3, <1>4 DEF InPlace, Using, Owns, Places
<1>6. e \in DOMAIN docs /\ e # l.ptr
  BY ONLY <1>2, <1>5 DEF Memory
<1>7. Counts(docs, e, k, docs')
  <2>1. docs' = Stored(l.of, l.count - 1)
    BY <1>2 DEF Replace
  <2>2. docs' = [docs EXCEPT ![e].refs = k]
    BY ONLY <1>3, <1>4, <1>5, <2>1 DEF Stored
  <2> QED BY ONLY <1>2, <1>6, <2>2, StoresCount
<1>8. PICK n : n = Locals("set", l.url, l.ptr, l.stale)
  OBVIOUS
<1>9. n.pc = "set" /\ n.url = l.url /\ n.ptr = l.ptr /\ n.stale = l.stale
  BY <1>8 DEF Locals
<1>10. Leaves(t, s, n, m)
  BY <1>2, <1>8, GoesBeside DEF Replace
<1>11. InPlace(cache, table, docs', n)
  <2>1. l.ptr \in DOMAIN docs' /\ docs'[l.ptr].url = l.url /\ docs'[l.ptr].refs >= 2
    BY ONLY <1>5, <1>6, <1>7 DEF Counts
  <2> QED BY ONLY <1>1, <1>5, <1>9, <2>1 DEF InPlace, Places
<1>12. Apart(cache, n, m)
  BY ONLY <1>1, <1>2, <1>9 DEF Apart, Late, Owns, IsStale
<1>13. Apart(cache, m, n)
  <2>1. m.pc \notin {"puts", "put"}
    BY ONLY <1>1, <1>2 DEF InPlace
  <2> QED BY ONLY <1>1, <1>2, <1>9, <2>1 DEF Apart, Late, Using, IsStale
<1>14. PutBy(table, n, l.url)
  BY ONLY <1>1, <1>9 DEF PutBy, IsStale
<1>15. \A u \in DOMAIN cache : ~PutBy(table, l, u)
  BY ONLY <1>1 DEF PutBy
<1>16. \E u \in DOMAIN cache : cache[u] = e /\ PutBy(table, n, u)
  BY ONLY <1>5, <1>14
<1>17. Pair(cache, table, docs', n, m)
  BY ONLY <1>2, <1>5, <1>6, <1>7, <1>11, <1>12, <1>13, <1>15, <1>16, CountPair
<1> QED BY ONLY <1>1, <1>10, <1>17 DEF BothNext, Leaves


\* The entry that is replaced is not one the other thread is about to replace.
LEMMA SetBeside ==
    ASSUME NEW t, NEW s, NEW l, NEW m, Two(t, s, l, m), SetEntry(t)
    PROVE  BothNext(t, s)
<1>1. l.pc = "set" /\ ~IsStale(l) /\ table # "freed" /\ UNCHANGED <<table, docs>>
  BY OnLiveTable DEF SetEntry
<1>2. /\ Pair(cache, table, docs, l, m) /\ Memory(cache, docs)
      /\ InPlace(cache, table, docs, l) /\ InPlace(cache, table, docs, m)
      /\ Apart(cache, l, m) /\ Apart(cache, m, l) /\ l = th[t]
  BY DEF Two, Pair
<1>3. /\ l.url \in URLs /\ l.ptr \in DOMAIN docs /\ docs[l.ptr].url = l.url
      /\ docs[l.ptr].refs >= 2
  BY ONLY <1>1, <1>2 DEF InPlace, Using, Owns, Places
<1>4. PICK c : c = Updated(cache, l.url, l.ptr)
  OBVIOUS
<1>5. /\ DOMAIN c = DOMAIN cache \cup {l.url} /\ c[l.url] = l.ptr
      /\ \A u \in DOMAIN cache : u # l.url => c[u] = cache[u]
  <2>1. DOMAIN c = DOMAIN cache \cup {l.url}
    BY <1>4 DEF Updated, Overlay
  <2>2. c[l.url] = l.ptr
    BY <1>4 DEF Updated, Overlay
  <2>3. \A u \in DOMAIN cache : u # l.url => c[u] = cache[u]
    BY <1>4 DEF Updated, Overlay
  <2> QED BY <2>1, <2>2, <2>3
<1>6. PICK n : n = Locals("build", l.url, l.ptr, l.stale)
  OBVIOUS
<1>7. n.pc = "build" /\ n.url = l.url /\ n.ptr = l.ptr
  BY <1>6 DEF Locals
<1>8. Leaves(t, s, n, m) /\ cache' = c
  <2>1. Go(t, "build", l.url, l.ptr) /\ cache' = c
    BY <1>2, <1>4 DEF SetEntry
  <2> QED BY ONLY <2>1, <1>6, Two(t, s, l, m), GoesBeside
<1>9. Memory(c, docs)
  BY ONLY <1>2, <1>3, <1>5 DEF Memory
<1>10. InPlace(c, table, docs, n)
  BY ONLY <1>1, <1>3, <1>7 DEF InPlace, Places, Late, Using, Owns
<1>11. InPlace(c, table, docs, m)
  <2>1. ASSUME Owns(m), NEW u \in DOMAIN c PROVE c[u] # m.ptr
    <3>1. m.ptr # l.ptr
      BY ONLY <1>1, <1>2, <2>1 DEF Apart, Using
    <3>2. u # l.url => cache[u] # m.ptr
      BY ONLY <1>2, <1>5, <2>1 DEF InPlace
    <3> QED BY ONLY <1>5, <2>1, <3>1, <3>2
  <2>2. m.pc = "replace" /\ ~IsStale(m) => m.url \in DOMAIN c /\ c[m.url] = m.of
    <3> SUFFICES ASSUME m.pc = "replace", ~IsStale(m) PROVE m.url \in DOMAIN c /\ c[m.url] = m.of
      OBVIOUS
    <3>1. m.url \in DOMAIN cache /\ cache[m.url] = m.of
      BY ONLY <1>2, m.pc = "replace", ~IsStale(m) DEF InPlace
    <3>2. m.url # l.url
      BY ONLY <1>1, <1>2, <3>1, m.pc = "replace", ~IsStale(m) DEF Apart, Late
    <3> QED BY ONLY <1>5, <3>1, <3>2
  <2>3. m.pc \notin {"puts", "put"}
    BY ONLY <1>1, <1>2 DEF InPlace
  <2> QED BY ONLY <1>1, <1>2, <2>1, <2>2, <2>3 DEF InPlace
<1>12. Apart(c, n, m)
  BY ONLY <1>7 DEF Apart, Late, Owns
<1>13. Apart(c, m, n)
  <2>1. m.pc \notin {"puts", "put"}
    BY ONLY <1>1, <1>2 DEF InPlace
  <2> QED BY ONLY <1>1, <1>2, <1>7, <2>1 DEF Apart, Late, Using
<1>14. ASSUME NEW u \in DOMAIN c
       PROVE  docs[c[u]].refs >= 2 \/ PutBy(table, n, u) \/ PutBy(table, m, u)
  <2>1. u # l.url => ~PutBy(table, l, u)
    BY ONLY <1>1 DEF PutBy
  <2>2. u # l.url => docs[cache[u]].refs >= 2 \/ PutBy(table, l, u) \/ PutBy(table, m, u)
    BY ONLY <1>2, <1>5, <1>14 DEF Pair
  <2> QED BY ONLY <1>3, <1>5, <1>14, <2>1, <2>2
<1>15. Pair(c, table, docs, n, m)
  BY ONLY <1>9, <1>10, <1>11, <1>12, <1>13, <1>14 DEF Pair
<1> QED BY ONLY <1>1, <1>8, <1>15 DEF BothNext, Leaves

\* A new document is in no place and no table.
LEMMA FetchBeside ==
    ASSUME NEW t, NEW s, NEW l, NEW m, Two(t, s, l, m), NEW holds, Fetch(t, holds)
    PROVE  BothNext(t, s)
<1>1. l.pc = "fetch" /\ UNCHANGED <<cache, table>>
  BY OnLiveTable DEF Fetch
<1>2. /\ Pair(cache, table, docs, l, m) /\ Memory(cache, docs)
      /\ InPlace(cache, table, docs, l) /\ InPlace(cache, table, docs, m)
      /\ Apart(cache, l, m) /\ Apart(cache, m, l) /\ l = th[t]
  BY DEF Two, Pair
<1>3. PICK e : e = (CHOOSE i \in Ids \ DOMAIN docs : TRUE)
  OBVIOUS
<1>4. PICK doc : doc = [url |-> l.url, holds |-> holds, refs |-> 1]
  OBVIOUS
<1>5. e \in Ids /\ e \notin DOMAIN docs
  <2>1. Cardinality(DOMAIN docs) < MaxDocs /\ DOMAIN docs \subseteq Ids
    BY <1>2 DEF Fetch, Memory
  <2> QED BY ONLY <1>3, <2>1, FreePlace
<1>6. Leaves(t, s, Locals("store", l.url, e, l.stale), m) /\ docs' = Updated(docs, e, doc)
  BY <1>2, <1>3, <1>4, GoesBeside DEF Fetch
<1>7. PICK n : n = Locals("store", l.url, e, l.stale)
  OBVIOUS
<1>8. n.pc = "store" /\ n.url = l.url /\ n.ptr = e /\ n.stale = l.stale
  BY <1>7 DEF Locals
<1>9. /\ DOMAIN docs' = DOMAIN docs \cup {e} /\ docs'[e] = doc
      /\ \A f \in DOMAIN docs : docs'[f] = docs[f]
  <2>1. DOMAIN docs' = DOMAIN docs \cup {e}
    BY <1>6 DEF Updated, Overlay
  <2>2. docs'[e] = doc
    BY <1>6 DEF Updated, Overlay
  <2>3. \A f \in DOMAIN docs : docs'[f] = docs[f]
    BY <1>5, <1>6 DEF Updated, Overlay
  <2> QED BY <2>1, <2>2, <2>3
<1>10. DOMAIN doc = {"url", "holds", "refs"} /\ doc.url = l.url /\ doc.refs = 1
  BY <1>4
<1>11. Memory(cache, docs')
  BY ONLY <1>2, <1>5, <1>9, <1>10 DEF Memory
<1>12. InPlace(cache, table, docs', n)
  <2>1. e \in DOMAIN docs' /\ docs'[e].url = l.url
    BY ONLY <1>9, <1>10
  <2>2. \A u \in DOMAIN cache : cache[u] # e
    BY ONLY <1>2, <1>5 DEF Memory
  <2>3. l.url \in URLs
    BY ONLY <1>1, <1>2 DEF InPlace
  <2>4. table = "freed" => IsStale(n)
    BY ONLY <1>1, <1>2, <1>8, <2>3 DEF InPlace, Late, IsStale
  <2> QED BY ONLY <1>8, <2>1, <2>2, <2>3, <2>4 DEF InPlace, Places, Late, Owns
<1>13. InPlace(cache, table, docs', m)
  <2>1. Using(m) => m.ptr \in DOMAIN docs /\ docs'[m.ptr] = docs[m.ptr]
    BY ONLY <1>2, <1>9 DEF InPlace
  <2>2. Owns(m) => Using(m)
    BY DEF Owns, Using
  <2>3. m.pc \in {"replace", "set"} => Owns(m)
    BY DEF Owns
  <2> QED BY ONLY <1>2, <1>9, <2>1, <2>2, <2>3 DEF InPlace
<1>14. Apart(cache, n, m)
  <2>1. Using(m) => m.ptr # e
    BY ONLY <1>2, <1>5 DEF InPlace
  <2> QED BY ONLY <1>1, <1>2, <1>8, <2>1 DEF Apart, Late, IsStale
<1>15. Apart(cache, m, n)
  <2>1. Owns(m) => m.ptr # e
    BY ONLY <1>2, <1>5 DEF InPlace, Owns, Using
  <2> QED BY ONLY <1>1, <1>2, <1>8, <2>1 DEF Apart, Late, IsStale
<1>16. ASSUME NEW u \in DOMAIN cache
       PROVE  docs'[cache[u]].refs >= 2 \/ PutBy(table, n, u) \/ PutBy(table, m, u)
  <2>1. docs'[cache[u]] = docs[cache[u]]
    BY ONLY <1>2, <1>9 DEF Memory
  <2>2. ~PutBy(table, l, u)
    BY ONLY <1>1 DEF PutBy
  <2> QED BY ONLY <1>2, <2>1, <2>2 DEF Pair
<1>17. Pair(cache, table, docs', n, m)
  BY ONLY <1>11, <1>12, <1>13, <1>14, <1>15, <1>16 DEF Pair
<1> QED BY ONLY <1>1, <1>6, <1>7, <1>17 DEF BothNext, Leaves


\* Where the other thread is while a table that was freed loses an entry
LEMMA LosesEntry ==
    ASSUME NEW c, NEW d, NEW m, InPlace(c, "freed", d, m), m.pc # "put",
           NEW u, NEW c2, c2 = Without(c, {u})
    PROVE  InPlace(c2, "freed", d, m)
<1>1. DOMAIN c2 = DOMAIN c \ {u} /\ \A v \in DOMAIN c2 : c2[v] = c[v]
  BY DEF Without
<1>2. m.pc = "replace" => IsStale(m)
  <2>1. m.pc = "replace" => m.url \in URLs
    BY DEF InPlace
  <2> QED BY ONLY <2>1, InPlace(c, "freed", d, m) DEF InPlace, Late
<1> QED BY ONLY <1>1, <1>2, InPlace(c, "freed", d, m), m.pc # "put" DEF InPlace

\* A document is freed that the other thread has put and not replaced yet.
LEMMA PutStoreBeside ==
    ASSUME NEW t, NEW s, NEW l, NEW m, Two(t, s, l, m), PutStore(t)
    PROVE  BothNext(t, s)
<1>1. l.pc = "put" /\ UNCHANGED table
  BY OnLiveTable DEF PutStore
<1>2. /\ Pair(cache, table, docs, l, m) /\ Memory(cache, docs)
      /\ InPlace(cache, table, docs, l) /\ InPlace(cache, table, docs, m)
      /\ Apart(cache, l, m) /\ Apart(cache, m, l) /\ l = th[t]
  BY DEF Two, Pair
<1>3. PICK k : k = l.count - 1
  OBVIOUS
<1>4. PICK e : e = l.of
  OBVIOUS
<1>5. PICK u : u = l.url
  OBVIOUS
<1>6. u \in DOMAIN cache /\ cache[u] = e /\ l.count \in Nat \ {0} /\ table = "freed" /\ e \in DOMAIN docs
  BY ONLY <1>1, <1>2, <1>4, <1>5 DEF InPlace, Memory
<1>7. PICK c : c = Without(cache, {u})
  OBVIOUS
<1>8. DOMAIN c = DOMAIN cache \ {u} /\ \A v \in DOMAIN c : c[v] = cache[v] /\ cache[v] # e
  <2>1. DOMAIN c = DOMAIN cache \ {u} /\ \A v \in DOMAIN c : c[v] = cache[v]
    BY <1>7 DEF Without
  <2> QED BY ONLY <1>2, <1>6, <2>1 DEF Memory
<1>9. PICK n : n = Locals("puts", NoURL, NoDoc, l.stale)
  OBVIOUS
<1>10. n.pc = "puts"
  BY <1>9 DEF Locals
<1>11. Leaves(t, s, n, m) /\ cache' = c /\ docs' = Stored(e, k)
  <2>1. Go(t, "puts", NoURL, NoDoc) /\ cache' = c /\ docs' = Stored(e, k)
    BY <1>2, <1>3, <1>4, <1>5, <1>7 DEF PutStore
  <2> QED BY ONLY <2>1, <1>9, Two(t, s, l, m), GoesBeside
<1>12. InPlace(c, table, docs', n)
  BY ONLY <1>6, <1>10 DEF InPlace, Places, Late, Using, Owns
<1>13. m.pc \notin {"puts", "put"}
  BY ONLY <1>1, <1>2 DEF Apart
<1>14. Apart(c, n, m)
  BY ONLY <1>10, <1>13 DEF Apart, Late, Owns
<1>15. Apart(c, m, n)
  BY ONLY <1>10, <1>13 DEF Apart, Late, Using
<1>16. \A v : ~PutBy(table, l, v)
  BY ONLY <1>1 DEF PutBy
<1>17. CASE k = 0
  <2>1. docs' = Without(docs, {e})
    BY ONLY <1>11, <1>17 DEF Stored
  <2>2. DOMAIN docs' = DOMAIN docs \ {e} /\ \A f \in DOMAIN docs' : docs'[f] = docs[f]
    BY <2>1 DEF Without
  <2>3. Memory(c, docs')
    BY ONLY <1>2, <1>8, <2>2 DEF Memory
  <2>4. m.pc \in {"set", "undefined"}
    BY ONLY <1>1, <1>2, <1>3, <1>6, <1>17 DEF Apart
  <2>5. Owns(m) => m.ptr # e
    BY ONLY <1>2, <1>6 DEF InPlace
  <2>6. InPlace(cache, table, docs', m)
    <3>1. CASE m.pc = "undefined"
      BY ONLY <1>6, <3>1 DEF InPlace, Places, Late, Using, Owns
    <3>2. CASE m.pc = "set"
      <4>1. m.ptr \in DOMAIN docs' /\ docs'[m.ptr] = docs[m.ptr]
        BY ONLY <1>2, <2>2, <2>5, <3>2 DEF InPlace, Using, Owns
      <4> QED BY ONLY <1>2, <3>2, <4>1 DEF InPlace, Using, Owns
    <3> QED BY ONLY <2>4, <3>1, <3>2
  <2>7. InPlace(c, table, docs', m)
    BY ONLY <1>6, <1>7, <1>13, <2>6, LosesEntry
  <2>8. ASSUME NEW v \in DOMAIN c
        PROVE  docs'[c[v]].refs >= 2 \/ PutBy(table, n, v) \/ PutBy(table, m, v)
    <3>1. docs'[c[v]] = docs[cache[v]]
      BY ONLY <1>2, <1>8, <2>2, <2>8 DEF Memory
    <3> QED BY ONLY <1>2, <1>8, <1>16, <2>8, <3>1 DEF Pair
  <2> QED BY ONLY <1>1, <1>11, <1>12, <1>14, <1>15, <2>3, <2>7, <2>8 DEF Pair, BothNext, Leaves
<1>18. CASE k # 0
  <2>1. k \in Nat \ {0}
    BY ONLY <1>3, <1>6, <1>18
  <2>2. Counts(docs, e, k, docs')
    <3>1. docs' = [docs EXCEPT ![e].refs = k]
      BY ONLY <1>11, <1>18 DEF Stored
    <3> QED BY ONLY <1>2, <1>6, <3>1, StoresCount
  <2>3. Memory(cache, docs') /\ InPlace(cache, table, docs', m)
    BY ONLY <1>2, <1>6, <2>1, <2>2, CountKeeps
  <2>4. Memory(c, docs')
    BY ONLY <1>8, <2>3 DEF Memory
  <2>5. InPlace(c, table, docs', m)
    BY ONLY <1>6, <1>7, <1>13, <2>3, LosesEntry
  <2>6. ASSUME NEW v \in DOMAIN c
        PROVE  docs'[c[v]].refs >= 2 \/ PutBy(table, n, v) \/ PutBy(table, m, v)
    <3>1. docs'[c[v]].refs = docs[cache[v]].refs
      BY ONLY <1>2, <1>8, <2>2, <2>6 DEF Memory, Counts
    <3> QED BY ONLY <1>2, <1>8, <1>16, <2>6, <3>1 DEF Pair
  <2> QED BY ONLY <1>1, <1>11, <1>12, <1>14, <1>15, <2>4, <2>5, <2>6 DEF Pair, BothNext, Leaves
<1> QED BY <1>17, <1>18

\* The new table is empty, and the other thread is stale or has none yet.
LEMMA NewTableBeside ==
    ASSUME NEW t, NEW s, NEW l, NEW m, Two(t, s, l, m), NewTable(t)
    PROVE  BothNext(t, s)
<1>1. l.pc = "puts" /\ UNCHANGED <<cache, docs>> /\ DOMAIN cache = {} /\ table' = "live"
      /\ Comes(t, Idle)
  BY OnLiveTable DEF NewTable, Comes
<1>2. /\ Memory(cache, docs)
      /\ InPlace(cache, table, docs, l) /\ InPlace(cache, table, docs, m)
      /\ Apart(cache, l, m) /\ Apart(cache, m, l)
  BY DEF Two, Pair
<1>3. Idle.pc = "idle"
  BY DEF Idle, Locals
<1>4. Leaves(t, s, Idle, m)
  BY <1>1, OtherStays
<1>5. table = "freed" /\ m.pc \notin {"puts", "put"}
  BY ONLY <1>1, <1>2 DEF InPlace, Apart
<1>6. m.pc = "replace" => IsStale(m)
  <2>1. m.pc = "replace" => m.url \in URLs
    BY ONLY <1>2 DEF InPlace
  <2> QED BY ONLY <1>2, <1>5, <2>1 DEF InPlace, Late
<1>7. InPlace(cache, "live", docs, Idle)
  BY ONLY <1>3 DEF InPlace, Places, Using, Owns
<1>8. InPlace(cache, "live", docs, m)
  BY ONLY <1>2, <1>5, <1>6 DEF InPlace
<1>9. Apart(cache, Idle, m)
  BY ONLY <1>3 DEF Apart, Late, Owns
<1>10. Apart(cache, m, Idle)
  BY ONLY <1>3, <1>5 DEF Apart, Late, Using
<1>11. Pair(cache, "live", docs, Idle, m)
  BY ONLY <1>1, <1>2, <1>7, <1>8, <1>9, <1>10 DEF Pair
<1> QED BY ONLY <1>1, <1>4, <1>11 DEF BothNext, Leaves

\* The other thread is where it was, on a table that was freed.
Strands(m, m2) ==
    /\ m2.pc = m.pc /\ m2.url = m.url /\ m2.ptr = m.ptr /\ m2.of = m.of /\ m2.count = m.count
    /\ m.pc \in {"probe", "fetch", "store", "replace", "set"} => IsStale(m2)

LEMMA FlushStrands ==
    ASSUME NEW t, NEW s, NEW l, NEW m, Two(t, s, l, m), Flush(t)
    PROVE  \E n, m2 : Leaves(t, s, n, m2) /\ n.pc = "puts" /\ Strands(m, m2)
<1>1. DOMAIN th = Threads /\ Record(m) /\ m = th[s] /\ s \in Threads /\ t \in Threads /\ s # t
  BY DEF Two, ThreadsOK
<1>2. PICK n : n = Locals("puts", NoURL, NoDoc, FALSE)
  OBVIOUS
<1>3. n.pc = "puts"
  BY <1>2 DEF Locals
<1>4. th'[t] = n
  BY ONLY <1>1, <1>2, Flush(t) DEF Flush
<1>5. CASE m.pc \in {"probe", "fetch", "store", "replace", "set"}
  <2>1. th'[s] = [m EXCEPT !.stale = TRUE]
    BY ONLY <1>1, <1>5, Flush(t) DEF Flush
  <2>2. PICK m2 : m2 = [m EXCEPT !.stale = TRUE]
    OBVIOUS
  <2>3. Strands(m, m2)
    BY ONLY <1>1, <2>2 DEF Strands, IsStale, Record
  <2> QED BY ONLY <1>3, <1>4, <2>1, <2>2, <2>3 DEF Leaves
<1>6. CASE m.pc \notin {"probe", "fetch", "store", "replace", "set"}
  <2>1. th'[s] = m
    BY ONLY <1>1, <1>6, Flush(t) DEF Flush
  <2>2. Strands(m, m)
    BY ONLY <1>6 DEF Strands
  <2> QED BY ONLY <1>3, <1>4, <2>1, <2>2 DEF Leaves
<1> QED BY <1>5, <1>6

LEMMA FlushBeside ==
    ASSUME NEW t, NEW s, NEW l, NEW m, Two(t, s, l, m), Flush(t)
    PROVE  BothNext(t, s)
<1>1. l.pc = "flush" /\ table # "freed" /\ UNCHANGED <<cache, docs>> /\ table' = "freed"
  BY OnLiveTable DEF Flush
<1>2. /\ Pair(cache, table, docs, l, m) /\ Memory(cache, docs)
      /\ InPlace(cache, table, docs, l) /\ InPlace(cache, table, docs, m)
      /\ Apart(cache, l, m) /\ Apart(cache, m, l)
  BY DEF Two, Pair
<1>3. PICK n, m2 : Leaves(t, s, n, m2) /\ n.pc = "puts" /\ Strands(m, m2)
  BY FlushStrands
<1>4. m.pc \notin {"puts", "put"}
  BY ONLY <1>1, <1>2 DEF InPlace
<1>5. InPlace(cache, "freed", docs, n)
  BY ONLY <1>3 DEF InPlace, Places, Late, Using, Owns
<1>6. InPlace(cache, "freed", docs, m2)
  <2>1. ~\E u \in URLs : Late(m2, u)
    BY ONLY <1>3 DEF Strands, Late
  <2>2. (Using(m2) <=> Using(m)) /\ (Owns(m2) <=> Owns(m))
    BY ONLY <1>3 DEF Strands, Using, Owns
  <2> QED BY ONLY <1>2, <1>3, <1>4, <2>1, <2>2 DEF InPlace, Strands
<1>7. Apart(cache, n, m2)
  BY ONLY <1>3, <1>4 DEF Apart, Strands, Late, Owns
<1>8. Apart(cache, m2, n)
  BY ONLY <1>3, <1>4 DEF Apart, Strands, Late, Using
<1>9. \A u \in DOMAIN cache : ~PutBy(table, l, u) /\ (PutBy(table, m, u) => PutBy("freed", m2, u))
  BY ONLY <1>1, <1>3 DEF PutBy, Strands
<1>10. Pair(cache, "freed", docs, n, m2)
  BY ONLY <1>2, <1>5, <1>6, <1>7, <1>8, <1>9 DEF Pair
<1> QED BY ONLY <1>1, <1>3, <1>10 DEF BothNext, Leaves


LEMMA EachStepBeside ==
    ASSUME ThreadsOK, NEW t \in Threads, NEW s \in Threads, s # t, Both(t, s),
           \/ Request(t) \/ Probe(t) \/ Take(t) \/ Taken(t) \/ FetchFails(t)
           \/ Store(t) \/ Replace(t) \/ SetEntry(t) \/ Build(t)
           \/ Flush(t) \/ PutLoad(t) \/ PutStore(t) \/ NewTable(t) \/ Undefined(t)
           \/ \E holds \in {"good", "bad"} : Fetch(t, holds)
    PROVE  BothNext(t, s)
<1>1. PICK l, m : l = th[t] /\ m = th[s]
  OBVIOUS
<1>2. Two(t, s, l, m)
  BY <1>1 DEF Two, Both
<1>3. Request(t) \/ Probe(t) \/ Take(t) \/ Taken(t) => BothNext(t, s)
  BY ONLY <1>2, RequestBeside, ProbeBeside, TakeBeside, TakenBeside
<1>4. FetchFails(t) \/ Build(t) \/ (\E holds \in {"good", "bad"} : Fetch(t, holds)) => BothNext(t, s)
  BY ONLY <1>2, IdleBeside, FetchBeside
<1>5. Store(t) \/ Replace(t) \/ SetEntry(t) => BothNext(t, s)
  BY ONLY <1>2, StoreBeside, ReplaceBeside, SetBeside
<1>6. Flush(t) \/ PutLoad(t) \/ PutStore(t) \/ NewTable(t) \/ Undefined(t) => BothNext(t, s)
  BY ONLY <1>2, FlushBeside, PutLoadBeside, PutStoreBeside, NewTableBeside, UndefinedBeside
<1> QED BY <1>3, <1>4, <1>5, <1>6

LEMMA PairInductive ==
    ASSUME NEW a \in Threads, NEW b \in Threads, Threads = {a, b}, a # b
    PROVE  UrlInv /\ Both(a, b) /\ [UrlNext]_urlVars => Both(a, b)'
<1> SUFFICES ASSUME UrlInv, Both(a, b), [UrlNext]_urlVars PROVE Both(a, b)'
  OBVIOUS
<1>1. CASE UNCHANGED urlVars
  <2>1. cache' = cache /\ table' = table /\ docs' = docs /\ th' = th
    BY ONLY <1>1 DEF urlVars
  <2> QED BY ONLY <2>1, Both(a, b) DEF Both
<1>2. CASE UrlNext
  <2>1. PICK t \in Threads : \/ Request(t) \/ Probe(t) \/ Take(t) \/ Taken(t) \/ FetchFails(t)
                             \/ Store(t) \/ Replace(t) \/ SetEntry(t) \/ Build(t)
                             \/ Flush(t) \/ PutLoad(t) \/ PutStore(t) \/ NewTable(t) \/ Undefined(t)
                             \/ \E holds \in {"good", "bad"} : Fetch(t, holds)
    BY ONLY <1>2 DEF UrlNext
  <2>2. ThreadsOK
    BY DEF UrlInv
  <2>3. CASE t = a
    <3>1. BothNext(a, b)
      BY <2>1, <2>2, <2>3, EachStepBeside
    <3> QED BY ONLY <3>1 DEF BothNext, Both
  <2>4. CASE t = b
    <3>1. Both(b, a)
      BY ONLY Both(a, b), PairIsMutual DEF Both
    <3>2. BothNext(b, a)
      BY <2>1, <2>2, <2>4, <3>1, EachStepBeside
    <3>3. BothNext(a, b)
      BY ONLY <3>2, PairIsMutual DEF BothNext
    <3> QED BY ONLY <3>3 DEF BothNext, Both
  <2> QED BY <2>3, <2>4
<1> QED BY <1>1, <1>2

LEMMA PairBegins ==
    ASSUME NEW a \in Threads, NEW b \in Threads, UrlInit
    PROVE  Both(a, b)
<1>1. Idle.pc = "idle"
  BY DEF Idle, Locals
<1>2. DOMAIN cache = {} /\ DOMAIN docs = {} /\ table = "live" /\ th[a] = Idle /\ th[b] = Idle
  BY DEF UrlInit
<1>3. InPlace(cache, table, docs, Idle) /\ Apart(cache, Idle, Idle)
  BY ONLY <1>1, <1>2 DEF InPlace, Apart, Places, Late, Using, Owns
<1> QED BY ONLY <1>2, <1>3 DEF Both, Pair, Memory

\* With two threads a handler never holds a document that was freed, though the
\* steps of a hit, of a request that stores an answer and of a flush mix: the one
\* document a flush may free is one the other thread has put to replace it.
THEOREM UsedDocIsLiveHolds ==
    ASSUME \E a, b : Threads = {a, b}
    PROVE  UrlSpec => []UsedDocIsLive
<1>1. PICK a, b : Threads = {a, b}
  OBVIOUS
<1>2. CASE a = b
  <2>1. UrlInv => IsAlone
    BY <1>1, <1>2 DEF UrlInv, ThreadsOK, IsAlone
  <2>2. UrlInv /\ CountsEveryUse => UsedDocIsLive
    BY <2>1 DEF CountsEveryUse
  <2>3. UrlSpec => []UrlInv
    BY UrlBegins, UrlInductive, PTL DEF UrlSpec
  <2> QED BY <2>2, <2>3, CountsEveryUseHolds, PTL
<1>3. CASE a # b
  <2>1. a \in Threads /\ b \in Threads
    BY <1>1
  <2>2. UrlInit => Both(a, b)
    BY <2>1, PairBegins
  <2>3. UrlInv /\ Both(a, b) /\ [UrlNext]_urlVars => Both(a, b)'
    BY <1>1, <1>3, <2>1, PairInductive
  <2>4. UrlInv /\ Both(a, b) => UsedDocIsLive
    <3> SUFFICES ASSUME UrlInv, Both(a, b), NEW t \in DOMAIN th,
                        th[t].pc \in {"take", "taken", "store", "replace", "set", "build"}
                 PROVE  th[t].ptr \in DOMAIN docs
      BY DEF UsedDocIsLive
    <3>1. t = a \/ t = b
      BY <1>1 DEF UrlInv, ThreadsOK
    <3>2. InPlace(cache, table, docs, th[a]) /\ InPlace(cache, table, docs, th[b])
      BY DEF Both, Pair
    <3>3. Using(th[t])
      BY DEF Using
    <3> QED BY ONLY <3>1, <3>2, <3>3 DEF InPlace
  <2> QED BY <2>2, <2>3, <2>4, UrlBegins, UrlInductive, PTL DEF UrlSpec
<1> QED BY <1>2, <1>3

=============================================================================
