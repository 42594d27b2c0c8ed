---------------------------- MODULE Workers_proofs ----------------------------
(***************************************************************************)
(* What is proved of the threads of the daemon.                             *)
(*                                                                          *)
(* Every entry of the filesystem cache has one owner, for any number of     *)
(* threads.  OneOwner alone does not survive a step: that a handler still   *)
(* has the entry it is to store, that no other handler has it, and that it  *)
(* drops none on its way have to be known as well.  IInv says where in its  *)
(* code a thread holds an entry of its own, and who owns what exists while  *)
(* the table is live and while a flush is between its two halves.           *)
(*                                                                          *)
(* One thread, call by call, does what ZxdbFS says of whole requests: the   *)
(* second half of the module.  Alone says, for each place in the code, how  *)
(* much of the request is done: what the memory holds, against the caches   *)
(* as the last request left them.  Each step keeps it; a step that returns  *)
(* is a request of ZxdbFS, the others leave its caches as they are.         *)
(***************************************************************************)
EXTENDS Workers, SequenceTheorems, TLAPS

\* What the locals of a thread are at each place: an entry that was built is
\* held until it is stored, the new entry of /search while its row is added.
PlaceOK(l) ==
    /\ DOMAIN l = DOMAIN Idle
    /\ l.next \in {"idle", "searchget", "refetch", "relist"}
    /\ l.fresh \in BOOLEAN
    /\ l.pc \in {"addroot", "dump", "delete"} => l.new # Null
    /\ l.pc \notin {"addroot", "dump", "delete", "undefined"} => l.new = Null
    /\ l.fresh => l.pc \in {"searchrow", "searchadd", "undefined"} /\ l.ptr # Null
    /\ l.pc = "searchadd" => l.fresh

ThreadsOK == th = [t \in Threads |-> th[t]] /\ \A t \in Threads : PlaceOK(th[t])

\* One flush at a time is between its two halves.
FlushOK ==
    /\ table \in {"live", "freed"}
    /\ \A t \in Threads : th[t].pc = "newtable" =>
          table = "freed" /\ \A u \in Threads : th[u].pc = "newtable" => u = t

\* What the cache points to exists as long as its table does.
CacheOK ==
    /\ \A p, q \in DOMAIN cache : cache[p] = cache[q] => p = q
    /\ table = "live" => \A p \in DOMAIN cache :
          cache[p] \in DOMAIN obj /\ \A t \in Threads : cache[p] \notin Owned(t)

\* A handler's own entry exists and is no other handler's.
HandlersOwn ==
    /\ DOMAIN obj \subseteq Ids
    /\ \A t \in Threads : Owned(t) \subseteq DOMAIN obj
    /\ \A t, u \in Threads : t # u => Owned(t) \cap Owned(u) = {}

AllOwned ==
    \A i \in DOMAIN obj : \/ \E t \in Threads : i \in Owned(t)
                          \/ table = "live" /\ \E p \in DOMAIN cache : cache[p] = i

IInv == ThreadsOK /\ FlushOK /\ CacheOK /\ HandlersOwn /\ AllOwned

-----------------------------------------------------------------------------
(***************************************************************************)
(* Steps of one thread                                                      *)
(***************************************************************************)

\* Only t moves, to a place that is in order, and does not begin a flush.
MovesTo(t, l) ==
    /\ th' = [u \in Threads |-> th'[u]]
    /\ th'[t] = l
    /\ \A u \in Threads \ {t} : th'[u] = th[u]

LEMMA StepMoves ==
    ASSUME ThreadsOK, NEW t \in Threads, NEW locals, Step(t, locals)
    PROVE  MovesTo(t, Overlay(th[t], locals))
  BY DEF ThreadsOK, Step, MovesTo

LEMMA FinishMoves ==
    ASSUME ThreadsOK, NEW t \in Threads, NEW op, NEW path, NEW kind, NEW names,
           Finish(t, op, path, kind, names)
    PROVE  MovesTo(t, Idle)
  BY DEF ThreadsOK, Finish, MovesTo

LEMMA IdlePlace == PlaceOK(Idle)
  BY DEF PlaceOK, Idle

LEMMA OthersOwn ==
    ASSUME NEW t \in Threads, NEW l, MovesTo(t, l)
    PROVE  \A u \in Threads \ {t} : Owned(u)' = Owned(u)
  BY DEF MovesTo, Owned

\* The cache, what is allocated and what the thread owns stay as they are.
LEMMA KeepsOwners ==
    ASSUME IInv, NEW t \in Threads, NEW l, MovesTo(t, l), PlaceOK(l), l.pc # "newtable",
           cache' = cache, table' = table, DOMAIN obj' = DOMAIN obj,
           Owned(t)' = Owned(t)
    PROVE  IInv'
<1>1. \A u \in Threads : Owned(u)' = Owned(u)
  BY OthersOwn
<1>2. ThreadsOK' /\ FlushOK'
  BY DEF IInv, ThreadsOK, FlushOK, MovesTo
<1>3. CacheOK' /\ HandlersOwn' /\ AllOwned'
  BY <1>1 DEF IInv, CacheOK, HandlersOwn, AllOwned
<1> QED BY <1>2, <1>3 DEF IInv

\* The thread makes an entry, which it owns.
LEMMA MakesOne ==
    ASSUME IInv, NEW t \in Threads, NEW l, MovesTo(t, l), PlaceOK(l), l.pc # "newtable",
           Unused # {}, NEW o, obj' = Add(obj, Fresh, o), cache' = cache, table' = table,
           Owned(t)' = Owned(t) \cup {Fresh}
    PROVE  IInv'
<1>1. Fresh \in Ids /\ Fresh \notin DOMAIN obj
  BY DEF Unused, Fresh
<1>2. \A u \in Threads : u # t => Owned(u)' = Owned(u)
  BY OthersOwn
<1>3. DOMAIN obj' = DOMAIN obj \cup {Fresh}
  BY DEF Add, Overlay
<1>4. ThreadsOK' /\ FlushOK'
  BY DEF IInv, ThreadsOK, FlushOK, MovesTo
<1>5. \A u \in Threads : Fresh \notin Owned(u)
  BY <1>1 DEF IInv, HandlersOwn
<1>6. CacheOK'
  BY <1>1, <1>2, <1>3 DEF IInv, CacheOK
<1>7. HandlersOwn'
  BY <1>1, <1>2, <1>3, <1>5 DEF IInv, HandlersOwn
<1>8. AllOwned'
  BY <1>2, <1>3 DEF IInv, AllOwned
<1> QED BY <1>4, <1>6, <1>7, <1>8 DEF IInv

\* The thread stores an entry that is its own, or that nobody has yet; what
\* the key held is freed.
LEMMA StoresOne ==
    ASSUME IInv, NEW t \in Threads, NEW l, MovesTo(t, l), PlaceOK(l), l.pc # "newtable",
           table = "live", table' = table, NEW key, NEW id \in Ids, NEW o,
           DOMAIN o = DOMAIN obj \cup {id}, Store(key, id, o),
           id \in Owned(t) \/ id \notin DOMAIN obj,
           Owned(t)' = Owned(t) \ {id}
    PROVE  IInv'
<1> DEFINE gone == IF key \in DOMAIN cache THEN {cache[key]} \ {id} ELSE {}
<1>1. DOMAIN obj' = (DOMAIN obj \cup {id}) \ gone
  BY DEF Store, Without
<1>2. /\ DOMAIN cache' = DOMAIN cache \cup {key} /\ cache'[key] = id
      /\ \A p \in DOMAIN cache : p # key => cache'[p] = cache[p]
  BY DEF Store, Add, Overlay
<1>3. \A u \in Threads : u # t => Owned(u)' = Owned(u)
  BY OthersOwn
<1>4. ThreadsOK' /\ FlushOK'
  BY DEF IInv, ThreadsOK, FlushOK, MovesTo
<1>5. /\ \A p \in DOMAIN cache : cache[p] # id
      /\ \A u \in Threads : u # t => id \notin Owned(u)
  BY DEF IInv, CacheOK, HandlersOwn
<1>6. \A u \in Threads : Owned(u) \cap gone = {}
  BY DEF IInv, CacheOK
<1>7. \A p \in DOMAIN cache : p # key => cache[p] \notin gone
  BY DEF IInv, CacheOK
<1> HIDE DEF gone
<1>8. id \notin gone
  BY DEF gone
<1>9. \A u \in Threads : Owned(u)' \subseteq Owned(u) /\ id \notin Owned(u)'
  BY <1>3, <1>5
<1>10. CacheOK'
  <2>1. ASSUME NEW p \in DOMAIN cache' PROVE cache'[p] \in DOMAIN obj'
    BY <1>1, <1>2, <1>7, <1>8 DEF IInv, CacheOK
  <2>2. ASSUME NEW p \in DOMAIN cache', NEW u \in Threads PROVE cache'[p] \notin Owned(u)'
    BY <1>2, <1>9 DEF IInv, CacheOK
  <2>3. ASSUME NEW p \in DOMAIN cache', NEW q \in DOMAIN cache', cache'[p] = cache'[q]
        PROVE  p = q
    BY <2>3, <1>2, <1>5 DEF IInv, CacheOK
  <2> QED BY <2>1, <2>2, <2>3 DEF CacheOK
<1>11. HandlersOwn'
  <2>1. DOMAIN obj' \subseteq Ids
    BY <1>1 DEF IInv, HandlersOwn
  <2>2. \A u \in Threads : Owned(u)' \subseteq DOMAIN obj'
    BY <1>1, <1>6, <1>9 DEF IInv, HandlersOwn
  <2>3. \A u, v \in Threads : u # v => Owned(u)' \cap Owned(v)' = {}
    BY <1>9 DEF IInv, HandlersOwn
  <2> QED BY <2>1, <2>2, <2>3 DEF HandlersOwn
<1>12. AllOwned'
  <2> SUFFICES ASSUME NEW i \in DOMAIN obj'
               PROVE  \/ \E u \in Threads : i \in Owned(u)'
                      \/ table' = "live" /\ \E p \in DOMAIN cache' : cache'[p] = i
    BY DEF AllOwned
  <2>1. CASE i = id
    BY <2>1, <1>2
  <2>2. CASE i # id /\ \E u \in Threads : i \in Owned(u)
    BY <2>2, <1>3
  <2>3. CASE i # id /\ \E p \in DOMAIN cache : cache[p] = i
    BY <2>3, <1>1, <1>2 DEF gone
  <2> QED BY <1>1, <2>1, <2>2, <2>3 DEF IInv, AllOwned
<1> QED BY <1>4, <1>10, <1>11, <1>12 DEF IInv

\* The thread goes on and keeps what it has.
LEMMA GoesOn ==
    ASSUME IInv, NEW t \in Threads, NEW l, MovesTo(t, l), PlaceOK(l), l.pc # "newtable",
           l.new = th[t].new, l.fresh = th[t].fresh, l.fresh => l.ptr = th[t].ptr,
           cache' = cache, table' = table, DOMAIN obj' = DOMAIN obj
    PROVE  IInv'
<1>1. Owned(t)' = Owned(t)
  BY DEF MovesTo, Owned
<1> QED BY <1>1, KeepsOwners

\* The thread returns, from a place where it has nothing to store.
LEMMA Returns ==
    ASSUME IInv, NEW t \in Threads, NEW op, NEW path, NEW kind, NEW names,
           Finish(t, op, path, kind, names),
           th[t].pc \notin {"addroot", "dump", "delete", "searchrow", "searchadd", "undefined"},
           cache' = cache, table' = table, obj' = obj
    PROVE  IInv'
<1>1. MovesTo(t, Idle)
  BY FinishMoves DEF IInv
<1>2. /\ th[t].new = Null /\ ~th[t].fresh
      /\ Idle.new = Null /\ ~Idle.fresh /\ Idle.fresh = FALSE /\ Idle.pc # "newtable"
  BY DEF IInv, ThreadsOK, PlaceOK, Idle
<1>3. th[t].fresh = FALSE
  BY <1>2 DEF IInv, ThreadsOK, PlaceOK
<1> QED BY <1>1, <1>2, <1>3, IdlePlace, GoesOn

-----------------------------------------------------------------------------
(***************************************************************************)
(* The steps                                                                *)
(***************************************************************************)

LEMMA RequestStep ==
    ASSUME IInv, NEW t \in Threads, Request(t) \/ Undefined(t)
    PROVE  IInv'
<1>1. ASSUME NEW pc \in {"lookup", "list", "flush"}, NEW path, Start(t, pc, path)
      PROVE  IInv'
  <2> DEFINE l == Overlay(th[t], [pc |-> pc, path |-> path])
  <2>1. MovesTo(t, l) /\ PlaceOK(th[t]) /\ th[t].pc = "idle"
    BY <1>1, StepMoves DEF Start, IInv, ThreadsOK
  <2>2. /\ PlaceOK(l) /\ l.pc # "newtable"
        /\ l.new = th[t].new /\ l.fresh = th[t].fresh /\ l.ptr = th[t].ptr
    BY <2>1 DEF PlaceOK, Overlay, Idle
  <2> HIDE DEF l
  <2> QED BY <1>1, <2>1, <2>2, GoesOn DEF Start
<1>2. ASSUME Undefined(t) PROVE IInv'
  <2> DEFINE l == Overlay(th[t], [pc |-> "undefined"])
  <2>1. MovesTo(t, l) /\ PlaceOK(th[t])
    BY <1>2, StepMoves DEF Undefined, IInv, ThreadsOK
  <2>2. /\ PlaceOK(l) /\ l.pc # "newtable"
        /\ l.new = th[t].new /\ l.fresh = th[t].fresh /\ l.ptr = th[t].ptr
    BY <2>1 DEF PlaceOK, Overlay, Idle
  <2> HIDE DEF l
  <2> QED BY <1>2, <2>1, <2>2, GoesOn DEF Undefined
<1> QED BY <1>1, <1>2 DEF Request

\* Lookups and looks at entries: the thread takes a pointer, or a decision.
LEMMA LookStep ==
    ASSUME IInv, NEW t \in Threads,
           \/ Lookup(t) \/ Term(t) \/ Refetch(t) \/ GameLookup(t) \/ List(t) \/ Unstub(t)
           \/ Dump(t) \/ Relist(t) \/ Retype(t) \/ FillRow(t) \/ Read(t)
    PROVE  IInv'
<1> USE DEF At
<1>1. PlaceOK(th[t])
  BY DEF IInv, ThreadsOK
<1>2. ASSUME NEW pc \in {"term", "read", "fetchsearch", "gamelookup", "fetchgame"}, NEW ptr,
             th[t].pc \in {"lookup", "term", "refetch", "gamelookup"},
             Step(t, [pc |-> pc, ptr |-> ptr]), UNCHANGED <<cache, table, obj>>
      PROVE  IInv'
  <2> DEFINE l == Overlay(th[t], [pc |-> pc, ptr |-> ptr])
  <2>1. MovesTo(t, l)
    BY <1>2, StepMoves DEF IInv
  <2>2. /\ PlaceOK(l) /\ l.pc # "newtable" /\ ~l.fresh
        /\ l.new = th[t].new /\ l.fresh = th[t].fresh
    BY <1>1, <1>2 DEF PlaceOK, Overlay, Idle
  <2> HIDE DEF l
  <2> QED BY <1>2, <2>1, <2>2, GoesOn
<1>3. CASE Lookup(t)
  BY <1>2, <1>3 DEF Lookup
<1>4. CASE Term(t)
  BY <1>2, <1>4 DEF Term
<1>5. CASE Refetch(t)
  BY <1>2, <1>5 DEF Refetch
<1>6. CASE GameLookup(t)
  BY <1>2, <1>6 DEF GameLookup
<1>7. CASE List(t)
  <2>1. CASE Found(th[t].path) = Null
    BY <1>7, <2>1, Returns DEF List
  <2>2. CASE Found(th[t].path) # Null
    <3> DEFINE l == Overlay(th[t], [pc |-> "unstub", ptr |-> Found(th[t].path)])
    <3>1. MovesTo(t, l)
      BY <1>7, <2>2, StepMoves DEF List, IInv
    <3>2. /\ PlaceOK(l) /\ l.pc # "newtable" /\ ~l.fresh
          /\ l.new = th[t].new /\ l.fresh = th[t].fresh
      BY <1>1, <1>7 DEF PlaceOK, Overlay, Idle, List
    <3> HIDE DEF l
    <3> QED BY <1>7, <3>1, <3>2, GoesOn DEF List
  <2> QED BY <2>1, <2>2
<1>8. CASE Unstub(t)
  <2> DEFINE l == Overlay(th[t], [pc |-> IF Held(obj[th[t].ptr]).type = "dirstub"
                                           THEN "fetchstub" ELSE "row",
                                  nfiles |-> Len(Rows(obj[th[t].ptr]))])
  <2>1. MovesTo(t, l)
    BY <1>8, StepMoves DEF Unstub, IInv
  <2>2. /\ PlaceOK(l) /\ l.pc # "newtable"
        /\ l.new = th[t].new /\ l.fresh = th[t].fresh /\ l.ptr = th[t].ptr
    BY <1>1, <1>8 DEF PlaceOK, Overlay, Idle, Unstub
  <2> HIDE DEF l
  <2> QED BY <1>8, <2>1, <2>2, GoesOn DEF Unstub
<1>9. CASE Dump(t)
  <2> DEFINE l == Overlay(th[t], [pc |-> "delete"])
  <2>1. MovesTo(t, l)
    BY <1>9, StepMoves DEF Dump, IInv
  <2>2. /\ PlaceOK(l) /\ l.pc # "newtable"
        /\ l.new = th[t].new /\ l.fresh = th[t].fresh /\ l.ptr = th[t].ptr
    BY <1>1, <1>9 DEF PlaceOK, Overlay, Idle, Dump
  <2> HIDE DEF l
  <2> QED BY <1>9, <2>1, <2>2, GoesOn DEF Dump
<1>10. CASE Relist(t)
  <2> DEFINE l == Overlay(th[t], [pc |-> "retype", ptr |-> Found(th[t].path)])
  <2>1. MovesTo(t, l)
    BY <1>10, StepMoves DEF Relist, IInv
  <2>2. /\ PlaceOK(l) /\ l.pc # "newtable" /\ ~l.fresh
        /\ l.new = th[t].new /\ l.fresh = th[t].fresh
    BY <1>1, <1>10 DEF PlaceOK, Overlay, Idle, Relist
  <2> HIDE DEF l
  <2> QED BY <1>10, <2>1, <2>2, GoesOn DEF Relist
<1>11. CASE Retype(t)
  <2>1. CASE th[t].ptr # Null /\ Held(obj[th[t].ptr]).type = "dir"
    <3> DEFINE l == Overlay(th[t], [pc |-> "row", nfiles |-> Len(Rows(obj[th[t].ptr]))])
    <3>1. MovesTo(t, l)
      BY <1>11, <2>1, StepMoves DEF Retype, IInv
    <3>2. /\ PlaceOK(l) /\ l.pc # "newtable"
          /\ l.new = th[t].new /\ l.fresh = th[t].fresh /\ l.ptr = th[t].ptr
      BY <1>1, <1>11 DEF PlaceOK, Overlay, Idle, Retype
    <3> HIDE DEF l
    <3> QED BY <1>11, <3>1, <3>2, GoesOn DEF Retype
  <2>2. CASE ~(th[t].ptr # Null /\ Held(obj[th[t].ptr]).type = "dir")
    BY <1>11, <2>2, Returns DEF Retype
  <2> QED BY <2>1, <2>2
<1>12. CASE FillRow(t)
  <2>1. CASE Len(th[t].names) < th[t].nfiles
    <3> DEFINE names == Append(th[t].names,
                               BaseName(Rows(obj[th[t].ptr])[Len(th[t].names) + 1].fname))
               l == Overlay(th[t], [names |-> names])
    <3>1. MovesTo(t, l)
      BY <1>12, <2>1, StepMoves DEF FillRow, IInv
    <3> HIDE DEF names
    <3>2. /\ PlaceOK(l) /\ l.pc # "newtable"
          /\ l.new = th[t].new /\ l.fresh = th[t].fresh /\ l.ptr = th[t].ptr
      BY <1>1, <1>12 DEF PlaceOK, Overlay, Idle, FillRow
    <3> HIDE DEF l
    <3> QED BY <1>12, <3>1, <3>2, GoesOn DEF FillRow
  <2>2. CASE ~(Len(th[t].names) < th[t].nfiles)
    BY <1>12, <2>2, Returns DEF FillRow
  <2> QED BY <2>1, <2>2
<1>13. CASE Read(t)
  BY <1>13, Returns DEF Read
<1> QED BY <1>3, <1>4, <1>5, <1>6, <1>7, <1>8, <1>9, <1>10, <1>11, <1>12, <1>13

\* FSCache_addAll: the root is the handler's own, a child is new.
LEMMA AddAllStep ==
    ASSUME IInv, NEW t \in Threads, AddRoot(t) \/ AddChild(t)
    PROVE  IInv'
<1>1. PlaceOK(th[t]) /\ table = "live"
  BY DEF IInv, ThreadsOK, FlushOK, AddRoot, AddChild, At, IsDangling, CallsTable
<1>2. CASE AddRoot(t)
  <2> DEFINE id == th[t].new
             l == Overlay(th[t], [pc |-> "addchild", new |-> Null,
                                  stack |-> <<[id |-> id, i |-> 1]>>])
  <2>1. MovesTo(t, l)
    BY <1>2, StepMoves DEF AddRoot, IInv
  <2>2. id # Null /\ th[t].pc = "addroot" /\ ~th[t].fresh
    BY <1>1, <1>2 DEF AddRoot, At, PlaceOK
  <2>3. /\ PlaceOK(l) /\ l.pc # "newtable"
        /\ l.new = Null /\ l.fresh = th[t].fresh
    BY <1>1, <2>2 DEF PlaceOK, Overlay, Idle
  <2> HIDE DEF l
  <2>4. Owned(t) = {id} /\ Owned(t)' = {}
    BY <2>1, <2>2, <2>3 DEF Owned, MovesTo
  <2>5. id \in DOMAIN obj /\ id \in Ids
    BY <2>4 DEF IInv, HandlersOwn
  <2>6. Store(obj[id].root, id, obj) /\ table' = table
    BY <1>2 DEF AddRoot
  <2> HIDE DEF id
  <2>7. DOMAIN obj = DOMAIN obj \cup {id} /\ id \in Owned(t) /\ Owned(t)' = Owned(t) \ {id}
    BY <2>4, <2>5
  <2> QED BY <1>1, <2>1, <2>3, <2>5, <2>6, <2>7, StoresOne
<1>3. CASE AddChild(t) /\ Top(t).i <= Len(Rows(obj[Top(t).id]))
  <2> DEFINE fname == Rows(obj[Top(t).id])[Top(t).i].fname
             o == Add(obj, Fresh, Object(fname, obj[Top(t).id].tree))
             stack == Append(Advance(th[t].stack), [id |-> Fresh, i |-> 1])
             l == Overlay(th[t], [stack |-> stack])
  <2>1. /\ Unused # {} /\ Store(fname, Fresh, o) /\ Step(t, [stack |-> stack])
        /\ th[t].pc = "addchild" /\ table' = table
    BY <1>3 DEF AddChild, At
  <2>2. DOMAIN o = DOMAIN obj \cup {Fresh}
    BY DEF Add, Overlay
  <2> HIDE DEF fname, o, stack
  <2>3. MovesTo(t, l)
    BY <2>1, StepMoves DEF IInv
  <2>4. /\ PlaceOK(l) /\ l.pc # "newtable"
        /\ l.new = th[t].new /\ l.fresh = th[t].fresh /\ l.ptr = th[t].ptr
    BY <1>1, <2>1 DEF PlaceOK, Overlay, Idle
  <2> HIDE DEF l
  <2>5. Owned(t)' = Owned(t)
    BY <2>3, <2>4 DEF Owned, MovesTo
  <2>6. Fresh \in Ids /\ Fresh \notin DOMAIN obj
    BY <2>1 DEF Unused, Fresh
  <2>7. Owned(t)' = Owned(t) \ {Fresh}
    BY <2>5, <2>6 DEF IInv, HandlersOwn
  <2> QED BY <1>1, <2>1, <2>2, <2>3, <2>4, <2>6, <2>7, StoresOne
<1>4. CASE AddChild(t) /\ ~(Top(t).i <= Len(Rows(obj[Top(t).id])))
  <2> DEFINE rest == SubSeq(th[t].stack, 1, Len(th[t].stack) - 1)
             l == Overlay(th[t], [pc |-> IF rest = << >> THEN th[t].next ELSE "addchild",
                                  stack |-> rest])
  <2>1. /\ Step(t, [pc |-> IF rest = << >> THEN th[t].next ELSE "addchild", stack |-> rest])
        /\ th[t].pc = "addchild" /\ UNCHANGED <<cache, table, obj>>
    BY <1>4 DEF AddChild, At
  <2> HIDE DEF rest
  <2>2. MovesTo(t, l)
    BY <2>1, StepMoves DEF IInv
  <2>3. /\ PlaceOK(l) /\ l.pc # "newtable"
        /\ l.new = th[t].new /\ l.fresh = th[t].fresh /\ l.ptr = th[t].ptr
    BY <1>1, <2>1 DEF PlaceOK, Overlay, Idle
  <2> HIDE DEF l
  <2> QED BY <2>1, <2>2, <2>3, GoesOn
<1> QED BY <1>2, <1>3, <1>4

\* A fetch brings nothing, or the handler makes an entry of what it brings.
LEMMA FetchStep ==
    ASSUME IInv, NEW t \in Threads, NEW doc,
           FetchSearch(t, doc) \/ FetchGame(t, doc) \/ FetchStub(t, doc)
    PROVE  IInv'
<1>1. PlaceOK(th[t]) /\ th[t].pc \in {"fetchsearch", "fetchgame", "fetchstub"}
  BY DEF IInv, ThreadsOK, FetchSearch, FetchGame, FetchStub, At
<1>2. ASSUME NEW op, Failed(t, op) PROVE IInv'
  BY <1>1, <1>2, Returns DEF Failed
<1>3. ASSUME NEW pc \in {"addroot", "dump"}, NEW root, NEW tree,
             NEW next \in {"searchget", "refetch", "relist"}, Built(t, pc, root, tree, next)
      PROVE  IInv'
  <2> DEFINE l == Overlay(th[t], [pc |-> pc, new |-> Fresh, next |-> next])
  <2>1. MovesTo(t, l)
    BY <1>3, StepMoves DEF Built, IInv
  <2>2. Fresh \in Ids /\ Fresh # Null
    BY <1>3, WorkersAssumption DEF Built, Unused, Fresh, Ids, Null
  <2>3. th[t].new = Null /\ ~th[t].fresh
    BY <1>1 DEF PlaceOK
  <2>4. /\ PlaceOK(l) /\ l.pc # "newtable"
        /\ l.new = Fresh /\ l.fresh = th[t].fresh
    BY <1>1, <2>2, <2>3 DEF PlaceOK, Overlay, Idle
  <2> HIDE DEF l
  <2>5. Owned(t)' = Owned(t) \cup {Fresh}
    BY <2>1, <2>2, <2>3, <2>4 DEF Owned, MovesTo
  <2> QED BY <1>3, <2>1, <2>4, <2>5, MakesOne DEF Built
<1> QED BY <1>2, <1>3 DEF FetchSearch, FetchGame, FetchStub

\* The entry of /search: found or made, given its row, and stored if it is new.
LEMMA SearchStep ==
    ASSUME IInv, NEW t \in Threads, SearchGet(t) \/ SearchRow(t) \/ SearchAdd(t)
    PROVE  IInv'
<1>1. PlaceOK(th[t])
  BY DEF IInv, ThreadsOK
<1>2. CASE SearchGet(t) /\ Found(Daemon!SearchDir) # Null
  <2> DEFINE ptr == Found(Daemon!SearchDir)
             l == Overlay(th[t], [pc |-> "searchrow", fresh |-> FALSE, ptr |-> ptr])
  <2>1. /\ Step(t, [pc |-> "searchrow", fresh |-> FALSE, ptr |-> ptr])
        /\ th[t].pc = "searchget" /\ UNCHANGED <<cache, table, obj>>
    BY <1>2 DEF SearchGet, At
  <2> HIDE DEF ptr
  <2>2. MovesTo(t, l)
    BY <2>1, StepMoves DEF IInv
  <2>3. th[t].fresh = FALSE
    BY <1>1, <2>1 DEF PlaceOK
  <2>4. /\ PlaceOK(l) /\ l.pc # "newtable"
        /\ l.new = th[t].new /\ l.fresh = th[t].fresh /\ ~l.fresh
    BY <1>1, <2>1, <2>3 DEF PlaceOK, Overlay, Idle
  <2> HIDE DEF l
  <2> QED BY <2>1, <2>2, <2>4, GoesOn
<1>3. CASE SearchGet(t) /\ ~(Found(Daemon!SearchDir) # Null)
  <2> DEFINE o == Object(Daemon!SearchDir, [p \in {Daemon!SearchDir} |-> DirEntry(<< >>)])
             l == Overlay(th[t], [pc |-> "searchrow", fresh |-> TRUE, ptr |-> Fresh])
  <2>1. /\ Step(t, [pc |-> "searchrow", fresh |-> TRUE, ptr |-> Fresh])
        /\ Unused # {} /\ obj' = Add(obj, Fresh, o)
        /\ th[t].pc = "searchget" /\ UNCHANGED <<cache, table>>
    BY <1>3 DEF SearchGet, At
  <2> HIDE DEF o
  <2>2. MovesTo(t, l)
    BY <2>1, StepMoves DEF IInv
  <2>3. Fresh # Null
    BY <2>1, WorkersAssumption DEF Unused, Fresh, Ids, Null
  <2>4. th[t].new = Null /\ ~th[t].fresh
    BY <1>1, <2>1 DEF PlaceOK
  <2>5. /\ PlaceOK(l) /\ l.pc # "newtable"
        /\ l.new = Null /\ l.fresh /\ l.ptr = Fresh
    BY <1>1, <2>1, <2>3, <2>4 DEF PlaceOK, Overlay, Idle
  <2> HIDE DEF l
  <2>6. Owned(t)' = Owned(t) \cup {Fresh}
    BY <2>2, <2>3, <2>4, <2>5 DEF Owned, MovesTo
  <2> QED BY <2>1, <2>2, <2>5, <2>6, MakesOne
<1>4. CASE SearchRow(t)
  <2> DEFINE l == Overlay(th[t], [pc |-> IF th[t].fresh THEN "searchadd" ELSE "refetch"])
  <2>1. MovesTo(t, l)
    BY <1>4, StepMoves DEF SearchRow, IInv
  <2>2. /\ PlaceOK(l) /\ l.pc # "newtable"
        /\ l.new = th[t].new /\ l.fresh = th[t].fresh /\ l.ptr = th[t].ptr
    BY <1>1, <1>4 DEF PlaceOK, Overlay, Idle, SearchRow, At
  <2> HIDE DEF l
  <2>3. DOMAIN obj' = DOMAIN obj
    BY <1>4 DEF SearchRow
  <2> QED BY <1>4, <2>1, <2>2, <2>3, GoesOn DEF SearchRow
<1>5. CASE SearchAdd(t)
  <2> DEFINE id == th[t].ptr
             l == Overlay(th[t], [pc |-> "refetch", fresh |-> FALSE])
  <2>1. MovesTo(t, l)
    BY <1>5, StepMoves DEF SearchAdd, IInv
  <2>2. th[t].pc = "searchadd" /\ table = "live"
    BY <1>5 DEF SearchAdd, At, IsDangling, CallsTable, IInv, FlushOK
  <2>3. th[t].fresh /\ id # Null /\ th[t].new = Null
    BY <1>1, <2>2 DEF PlaceOK
  <2>4. /\ PlaceOK(l) /\ l.pc # "newtable"
        /\ l.new = Null /\ ~l.fresh
    BY <1>1, <2>2, <2>3 DEF PlaceOK, Overlay, Idle
  <2> HIDE DEF l
  <2>5. Owned(t) = {id} /\ Owned(t)' = {}
    BY <2>1, <2>3, <2>4 DEF Owned, MovesTo
  <2>6. id \in DOMAIN obj /\ id \in Ids
    BY <2>5 DEF IInv, HandlersOwn
  <2>7. Store(Daemon!SearchDir, id, obj) /\ table' = table
    BY <1>5 DEF SearchAdd
  <2> HIDE DEF id
  <2>8. DOMAIN obj = DOMAIN obj \cup {id} /\ id \in Owned(t) /\ Owned(t)' = Owned(t) \ {id}
    BY <2>5, <2>6
  <2> QED BY <2>1, <2>2, <2>4, <2>6, <2>7, <2>8, StoresOne
<1> QED BY <1>2, <1>3, <1>4, <1>5

\* FSCache_delete: the stub goes, and what the handler built stays its own.
LEMMA DeleteStep ==
    ASSUME IInv, NEW t \in Threads, DeleteStub(t)
    PROVE  IInv'
<1> DEFINE key == th[t].path
           l == Overlay(th[t], [pc |-> "addroot"])
<1>1. MovesTo(t, l)
  BY StepMoves DEF DeleteStub, IInv
<1>2. PlaceOK(th[t]) /\ th[t].pc = "delete" /\ table = "live" /\ table' = table
  BY DEF IInv, ThreadsOK, FlushOK, DeleteStub, At, IsDangling, CallsTable
<1>3. /\ PlaceOK(l) /\ l.pc # "newtable"
      /\ l.new = th[t].new /\ l.fresh = th[t].fresh /\ l.ptr = th[t].ptr
  BY <1>2 DEF PlaceOK, Overlay, Idle
<1> HIDE DEF l
<1>4. \A u \in Threads : Owned(u)' = Owned(u)
  <2>1. Owned(t)' = Owned(t)
    BY <1>1, <1>3 DEF Owned, MovesTo
  <2> QED BY <1>1, <2>1, OthersOwn
<1>5. ThreadsOK' /\ FlushOK'
  BY <1>1, <1>2, <1>3 DEF IInv, ThreadsOK, FlushOK, MovesTo
<1>6. /\ DOMAIN cache' = DOMAIN cache \ {key}
      /\ \A p \in DOMAIN cache' : cache'[p] = cache[p]
      /\ DOMAIN obj' = DOMAIN obj \ {Found(key)}
  BY DEF DeleteStub, Without
<1> HIDE DEF key
<1>7. \A i \in DOMAIN obj : i # Null
  BY WorkersAssumption DEF IInv, HandlersOwn, Ids, Null
<1>8. CacheOK'
  BY <1>2, <1>4, <1>6, <1>7 DEF IInv, CacheOK, Found
<1>9. HandlersOwn'
  BY <1>2, <1>4, <1>6, <1>7 DEF IInv, HandlersOwn, CacheOK, Found
<1>10. AllOwned'
  BY <1>2, <1>4, <1>6, <1>7 DEF IInv, AllOwned, Found
<1> QED BY <1>5, <1>8, <1>9, <1>10 DEF IInv

\* The first half of a flush leaves what the handlers own, and nothing else.
LEMMA FlushStep ==
    ASSUME IInv, NEW t \in Threads, Flush(t)
    PROVE  IInv'
<1> DEFINE l == Overlay(th[t], [pc |-> "newtable"])
<1>1. MovesTo(t, l)
  BY StepMoves DEF Flush, IInv
<1>2. PlaceOK(th[t]) /\ th[t].pc = "flush" /\ table = "live" /\ table' = "freed"
  BY DEF IInv, ThreadsOK, FlushOK, Flush, At, IsDangling, CallsTable
<1>3. /\ PlaceOK(l) /\ l.pc = "newtable"
      /\ l.new = th[t].new /\ l.fresh = th[t].fresh /\ l.ptr = th[t].ptr
  BY <1>2 DEF PlaceOK, Overlay, Idle
<1> HIDE DEF l
<1>4. \A u \in Threads : Owned(u)' = Owned(u)
  <2>1. Owned(t)' = Owned(t)
    BY <1>1, <1>3 DEF Owned, MovesTo
  <2> QED BY <1>1, <2>1, OthersOwn
<1>5. ThreadsOK' /\ FlushOK'
  BY <1>1, <1>2, <1>3 DEF IInv, ThreadsOK, FlushOK, MovesTo
<1>6. DOMAIN obj' = DOMAIN obj \ {cache[p] : p \in DOMAIN cache} /\ cache' = cache
  BY DEF Flush, Without
<1>7. CacheOK'
  BY <1>2, <1>6 DEF IInv, CacheOK
<1>8. HandlersOwn'
  BY <1>2, <1>4, <1>6 DEF IInv, HandlersOwn, CacheOK
<1>9. AllOwned'
  BY <1>4, <1>6 DEF IInv, AllOwned
<1> QED BY <1>5, <1>7, <1>8, <1>9 DEF IInv

\* The second half: an empty table, while the handlers own all that there is.
LEMMA NewTableStep ==
    ASSUME IInv, NEW t \in Threads, NewTable(t)
    PROVE  IInv'
<1>1. MovesTo(t, Idle)
  BY FinishMoves DEF NewTable, IInv
<1>2. PlaceOK(th[t]) /\ th[t].pc = "newtable" /\ table = "freed" /\ table' = "live"
  BY DEF IInv, ThreadsOK, FlushOK, NewTable, At
<1>3. \A u \in Threads : Owned(u)' = Owned(u)
  <2>1. Owned(t)' = Owned(t)
    BY <1>1, <1>2 DEF Owned, MovesTo, PlaceOK, Idle
  <2> QED BY <1>1, <2>1, OthersOwn
<1>4. ThreadsOK' /\ FlushOK'
  <2>1. Idle.pc # "newtable"
    BY DEF Idle
  <2> QED BY <1>1, <1>2, <2>1, IdlePlace DEF IInv, ThreadsOK, FlushOK, MovesTo
<1>5. DOMAIN cache' = {} /\ obj' = obj
  BY DEF NewTable
<1>6. CacheOK' /\ HandlersOwn'
  BY <1>3, <1>5 DEF IInv, CacheOK, HandlersOwn
<1>7. AllOwned'
  BY <1>2, <1>3, <1>5 DEF IInv, AllOwned
<1> QED BY <1>4, <1>6, <1>7 DEF IInv

-----------------------------------------------------------------------------
(***************************************************************************)
(* Theorem                                                                  *)
(***************************************************************************)

LEMMA Inductive == IInv /\ [Next]_vars => IInv'
<1> SUFFICES ASSUME IInv, [Next]_vars PROVE IInv'
  OBVIOUS
<1>1. ASSUME NEW t \in Threads, Handle(t) PROVE IInv'
  BY <1>1, LookStep, AddAllStep, FetchStep, SearchStep, DeleteStep, FlushStep, NewTableStep
     DEF Handle
<1>2. ASSUME NEW t \in Threads, Request(t) \/ Undefined(t) PROVE IInv'
  BY <1>2, RequestStep
<1>3. CASE UNCHANGED vars
  BY <1>3 DEF vars, IInv, ThreadsOK, FlushOK, CacheOK, HandlersOwn, AllOwned, Owned
<1> QED BY <1>1, <1>2, <1>3 DEF Next

LEMMA InitOwned == Init => IInv
<1> SUFFICES ASSUME Init PROVE IInv
  OBVIOUS
<1>1. \A t \in Threads : th[t] = Idle /\ Owned(t) = {}
  BY DEF Init, Owned, Idle, Null
<1>2. ThreadsOK /\ FlushOK
  <2>1. Idle.pc # "newtable"
    BY DEF Idle
  <2> QED BY <1>1, <2>1, IdlePlace DEF Init, ThreadsOK, FlushOK
<1> QED BY <1>1, <1>2 DEF Init, IInv, CacheOK, HandlersOwn, AllOwned

\* Every entry of the cache has one owner, whatever the threads do to each
\* other's trees and whenever one of them flushes: a key of the cache, or the
\* handler that has yet to store it.  None leaks and none is freed twice.
THEOREM OneOwnerHolds == Spec => []OneOwner
<1>1. IInv => OneOwner
  BY DEF IInv, CacheOK, AllOwned, OneOwner
<1> QED BY <1>1, InitOwned, Inductive, PTL DEF Spec

-----------------------------------------------------------------------------
(***************************************************************************)
(* Trees, and how addAll walks them                                         *)
(***************************************************************************)

\* The segments of a path.  (The provers do not know that a literal is a string.)
Name == STRING \cup {"POKES", "SCRSHOT"}
Path == Seq(Name) \ {<< >>}
CacheEntry == [type : Kinds, files : Seq([fname : Path, type : Kinds])]

\* The path q is p or lies below it.
Below(p, q) == Len(p) <= Len(q) /\ \A i \in 1 .. Len(p) : q[i] = p[i]

RowName(tree, p, i) == tree[p].files[i].fname

\* The walk of addAll over the rows, from the root, comes by the whole tree.
Walkable(tree, root) ==
    /\ root \in DOMAIN tree /\ DOMAIN tree \subseteq Path
    /\ \A p \in DOMAIN tree :
         /\ tree[p] \in CacheEntry
         /\ Below(root, p)
         /\ \A i \in 1 .. Len(tree[p].files) :
              RowName(tree, p, i) \in DOMAIN tree /\ Len(RowName(tree, p, i)) = Len(p) + 1
    /\ \A p, q \in DOMAIN tree : Below(p, q) /\ q # p =>
         \E i \in 1 .. Len(tree[p].files) : Below(RowName(tree, p, i), q)

\* Every key of the cache c points to an entry of its own, which exists in o.
IsEntryOf(p, e) == e = Object(p, e.tree) /\ e.root = p /\ p \in DOMAIN e.tree
Rooted(c, o) == \A p \in DOMAIN c : c[p] \in DOMAIN o /\ IsEntryOf(p, o[c[p]])

\* The tree is in the cache from p downwards.
Added(kept, tree, p) ==
    \A q \in DOMAIN tree : Below(p, q) => q \in DOMAIN kept /\ kept[q] = tree[q]

\* A turn of the recursion: the entry it is at is that of the tree, in the
\* cache; the rows before the current one are done with, save the one that the
\* next turn is at.
FrameOK(c, o, tree, frame, isTop) ==
    LET root == o[frame.id].root
    IN  /\ frame.id \in DOMAIN o /\ o[frame.id].tree = tree
        /\ root \in DOMAIN tree /\ root \in DOMAIN c /\ c[root] = frame.id
        /\ frame.i \in 1 .. Len(tree[root].files) + 1
        /\ \A i \in 1 .. frame.i - 1 :
             isTop \/ i < frame.i - 1 => Added(Contents(c, o), tree, RowName(tree, root, i))

Adds(c, o, tree, root, base, stack) ==
    LET kept == Contents(c, o)
        top == Len(stack)
    IN  /\ DOMAIN base \subseteq DOMAIN kept /\ DOMAIN kept \subseteq DOMAIN base \cup DOMAIN tree
        /\ \A p \in DOMAIN base \ DOMAIN tree : kept[p] = base[p]
        /\ stack \in Seq([id : Ids, i : Nat]) /\ stack # << >>
        /\ o[stack[1].id].root = root
        /\ \A k \in 1 .. top :
             /\ FrameOK(c, o, tree, stack[k], k = top)
             /\ Len(o[stack[k].id].root) = Len(root) + k - 1
        /\ \A k \in 1 .. top - 1 :
             /\ stack[k].i > 1
             /\ RowName(tree, o[stack[k].id].root, stack[k].i - 1) = o[stack[k + 1].id].root

LEMMA FrameSeq ==
    ASSUME NEW S, NEW s \in Seq(S), NEW i \in 1 .. Len(s), NEW e \in S
    PROVE  [s EXCEPT ![i] = e] \in Seq(S) /\ Len([s EXCEPT ![i] = e]) = Len(s)
  OBVIOUS

LEMMA ContentsOf ==
    ASSUME NEW c, NEW o, Rooted(c, o)
    PROVE  Contents(c, o) = [p \in DOMAIN c |-> o[c[p]].tree[p]]
<1>1. {q \in DOMAIN c : c[q] \in DOMAIN o} = DOMAIN c
  BY DEF Rooted
<1>2. \A p \in DOMAIN c : Held(o[c[p]]) = o[c[p]].tree[p]
  BY DEF Rooted, Held, IsEntryOf
<1> QED BY <1>1, <1>2 DEF Contents

LEMMA AddIs ==
    ASSUME NEW c, NEW key, NEW e
    PROVE  Add(c, key, e) = [p \in DOMAIN c \cup {key} |-> IF p = key THEN e ELSE c[p]]
  BY DEF Add, Overlay

\* Store: the key holds the entry, and what it held is gone.
Stores(c, o, key, id, c2, o2) ==
    /\ c2 = Add(c, key, id)
    /\ o2 = Without(o, IF key \in DOMAIN c THEN {c[key]} \ {id} ELSE {})

Holds(c, o, key, id, c2, o2) ==
    /\ Rooted(c2, o2)
    /\ Contents(c2, o2) = Add(Contents(c, o), key, o[id].tree[key])
    /\ DOMAIN c2 = DOMAIN c \cup {key} /\ c2[key] = id
    /\ \A p \in DOMAIN c : p # key => c2[p] = c[p]
    /\ DOMAIN o2 \subseteq DOMAIN o /\ id \in DOMAIN o2
    /\ \A i \in DOMAIN o : o[i].root # key => i \in DOMAIN o2
    /\ \A i \in DOMAIN o2 : o2[i] = o[i]

LEMMA StoreHolds ==
    ASSUME NEW c, NEW o, Rooted(c, o), NEW key, NEW id, id \in DOMAIN o, IsEntryOf(key, o[id]),
           \A p \in DOMAIN c : c[p] # id,
           NEW c2, NEW o2, Stores(c, o, key, id, c2, o2)
    PROVE  Holds(c, o, key, id, c2, o2)
<1>1. /\ DOMAIN c2 = DOMAIN c \cup {key} /\ c2[key] = id
      /\ \A p \in DOMAIN c : p # key => c2[p] = c[p]
  BY DEF Stores, Add, Overlay
<1>2. /\ DOMAIN o2 \subseteq DOMAIN o /\ id \in DOMAIN o2
      /\ \A i \in DOMAIN o : o[i].root # key => i \in DOMAIN o2
      /\ \A i \in DOMAIN o2 : o2[i] = o[i]
  BY DEF Stores, Without, Rooted, IsEntryOf
<1>3. ASSUME NEW p \in DOMAIN c2
      PROVE  /\ c2[p] \in DOMAIN o2 /\ IsEntryOf(p, o2[c2[p]])
             /\ o2[c2[p]].tree[p] = IF p = key THEN o[id].tree[key] ELSE o[c[p]].tree[p]
  <2>1. CASE p = key
    <3>1. c2[p] = id /\ o2[id] = o[id]
      BY <2>1, <1>1, <1>2
    <3> QED BY ONLY <2>1, <3>1, <1>2, IsEntryOf(key, o[id])
  <2>2. CASE p # key
    <3>1. p \in DOMAIN c /\ c2[p] = c[p]
      BY <2>2, <1>1
    <3>2. c[p] \in DOMAIN o /\ IsEntryOf(p, o[c[p]])
      BY <3>1 DEF Rooted
    <3>3. c[p] \in DOMAIN o2 /\ o2[c[p]] = o[c[p]]
      BY <3>2, <2>2, <1>2 DEF IsEntryOf
    <3> QED BY ONLY <2>2, <3>1, <3>2, <3>3
  <2> QED BY <2>1, <2>2
<1>4. Rooted(c2, o2)
  BY <1>3 DEF Rooted
<1>5. Contents(c2, o2) = Add(Contents(c, o), key, o[id].tree[key])
  <2>1. Contents(c2, o2) = [p \in DOMAIN c2 |-> o2[c2[p]].tree[p]]
    BY ONLY <1>4, ContentsOf
  <2>2. Contents(c, o) = [p \in DOMAIN c |-> o[c[p]].tree[p]]
    BY ONLY Rooted(c, o), ContentsOf
  <2>3. /\ DOMAIN Contents(c, o) = DOMAIN c
        /\ \A p \in DOMAIN c : Contents(c, o)[p] = o[c[p]].tree[p]
    BY ONLY <2>2
  <2>4. Add(Contents(c, o), key, o[id].tree[key])
          = [p \in DOMAIN c2 |-> IF p = key THEN o[id].tree[key] ELSE Contents(c, o)[p]]
    <3>1. DOMAIN c2 = DOMAIN Contents(c, o) \cup {key}
      BY <2>3, <1>1
    <3> QED BY ONLY <3>1, AddIs
  <2>5. \A p \in DOMAIN c2 : o2[c2[p]].tree[p]
          = IF p = key THEN o[id].tree[key] ELSE Contents(c, o)[p]
    BY ONLY <2>3, <1>1, <1>3
  <2> QED BY ONLY <2>1, <2>4, <2>5
<1> QED BY ONLY <1>1, <1>2, <1>4, <1>5 DEF Holds

LEMMA FrameStays ==
    ASSUME NEW c, NEW o, NEW c2, NEW o2, NEW tree, NEW frame, NEW isTop \in BOOLEAN,
           FrameOK(c, o, tree, frame, isTop), NEW root, root = o[frame.id].root,
           frame.id \in DOMAIN o2, o2[frame.id] = o[frame.id],
           root \in DOMAIN c2, c2[root] = c[root],
           \A p : Added(Contents(c, o), tree, p) => Added(Contents(c2, o2), tree, p)
    PROVE  FrameOK(c2, o2, tree, frame, isTop)
  BY DEF FrameOK

\* A turn that has rows left: a copy of the row goes into the cache, and the
\* next turn is at it.
LEMMA Descends ==
    ASSUME NEW c, NEW o, NEW tree, NEW root, NEW base, NEW stack,
           Rooted(c, o), Walkable(tree, root), Adds(c, o, tree, root, base, stack),
           NEW top, top = stack[Len(stack)], top.i <= Len(tree[o[top.id].root].files),
           NEW key, key = RowName(tree, o[top.id].root, top.i),
           NEW id \in Ids, id \notin DOMAIN o,
           NEW o1, o1 = Add(o, id, Object(key, tree)),
           NEW c2, c2 = Add(c, key, id),
           NEW o2, o2 = Without(o1, IF key \in DOMAIN c THEN {c[key]} \ {id} ELSE {})
    PROVE  /\ Rooted(c2, o2)
           /\ Adds(c2, o2, tree, root, base, Append(Advance(stack), [id |-> id, i |-> 1]))
<1> DEFINE n == Len(stack)
           r(k) == o[stack[k].id].root
           K == Contents(c, o)
           K2 == Contents(c2, o2)
           stack2 == Append(Advance(stack), [id |-> id, i |-> 1])
<1>1. /\ DOMAIN o1 = DOMAIN o \cup {id} /\ o1[id] = Object(key, tree)
      /\ \A i \in DOMAIN o : o1[i] = o[i]
  BY DEF Add, Overlay
<1>2. Rooted(c, o1) /\ Contents(c, o1) = K
  <2>1. Rooted(c, o1)
    BY <1>1 DEF Rooted
  <2>2. Contents(c, o1) = [p \in DOMAIN c |-> o1[c[p]].tree[p]]
    BY ONLY <2>1, ContentsOf
  <2>3. Contents(c, o) = [p \in DOMAIN c |-> o[c[p]].tree[p]]
    BY ONLY Rooted(c, o), ContentsOf
  <2>4. \A p \in DOMAIN c : o1[c[p]] = o[c[p]]
    BY <1>1 DEF Rooted
  <2> QED BY ONLY <2>1, <2>2, <2>3, <2>4
<1>3. \A p \in DOMAIN c : c[p] # id
  BY DEF Rooted
<1>4. /\ stack \in Seq([id : Ids, i : Nat]) /\ stack # << >>
      /\ o[stack[1].id].root = root
      /\ \A k \in 1 .. Len(stack) : /\ FrameOK(c, o, tree, stack[k], k = Len(stack))
                                  /\ Len(o[stack[k].id].root) = Len(root) + k - 1
      /\ \A k \in 1 .. Len(stack) - 1 :
           /\ stack[k].i > 1
           /\ RowName(tree, o[stack[k].id].root, stack[k].i - 1) = o[stack[k + 1].id].root
  BY DEF Adds
<1>5. n \in Nat /\ n > 0 /\ DOMAIN stack = 1 .. n
  BY ONLY <1>4, EmptySeq, LenProperties
<1>6. \A k \in 1 .. n : stack[k] \in [id : Ids, i : Nat]
  BY ONLY <1>4, <1>5, ElementOfSeq
<1>7. r(1) = root
  BY <1>4
<1>8. \A k \in 1 .. n : FrameOK(c, o, tree, stack[k], k = n) /\ Len(r(k)) = Len(root) + k - 1
  BY <1>4
<1>9. \A k \in 1 .. n - 1 : stack[k].i > 1 /\ RowName(tree, r(k), stack[k].i - 1) = r(k + 1)
  BY <1>4
<1>10. top = stack[n]
  BY DEF n
<1> HIDE DEF n, K, K2, r, stack2
<1>11. FrameOK(c, o, tree, top, TRUE) /\ top \in [id : Ids, i : Nat]
  <2>1. n \in 1 .. n /\ (n = n) = TRUE
    BY ONLY <1>5
  <2> QED BY ONLY <2>1, <1>6, <1>8, <1>10
<1>12. /\ r(n) \in DOMAIN tree /\ r(n) = o[top.id].root
       /\ top.i \in 1 .. Len(tree[r(n)].files) + 1
  BY ONLY <1>10, <1>11 DEF FrameOK, r
<1>13. Len(tree[r(n)].files) \in Nat /\ top.i \in 1 .. Len(tree[r(n)].files)
  <2>1. Len(tree[r(n)].files) \in Nat
    BY <1>12, LenProperties DEF Walkable, CacheEntry
  <2>2. top.i <= Len(tree[r(n)].files)
    BY <1>12
  <2> QED BY ONLY <2>1, <2>2, <1>12
<1>14. key \in DOMAIN tree /\ Len(root) \in Nat /\ Len(key) = Len(root) + n
  <2>1. key = RowName(tree, r(n), top.i)
    BY <1>12
  <2>2. key \in DOMAIN tree /\ Len(key) = Len(r(n)) + 1
    BY ONLY <2>1, <1>12, <1>13, Walkable(tree, root) DEF Walkable
  <2>3. Len(root) \in Nat
    BY ONLY Walkable(tree, root), LenProperties DEF Walkable, Path
  <2>4. Len(r(n)) = Len(root) + n - 1
    BY ONLY <1>5, <1>8
  <2> QED BY ONLY <2>2, <2>3, <2>4, <1>5
<1>15. o1[id].root = key /\ o1[id].tree = tree /\ IsEntryOf(key, o1[id])
  <2>1. o1[id] = Object(key, tree) /\ key \in DOMAIN tree
    BY ONLY <1>1, <1>14
  <2>2. o1[id].root = key /\ o1[id].tree = tree
    BY ONLY <2>1 DEF Object
  <2> QED BY ONLY <2>1, <2>2 DEF IsEntryOf
<1>16. /\ Rooted(c2, o2)
       /\ K2 = Add(K, key, tree[key])
       /\ DOMAIN c2 = DOMAIN c \cup {key} /\ c2[key] = id
       /\ \A p \in DOMAIN c : p # key => c2[p] = c[p]
       /\ DOMAIN o2 \subseteq DOMAIN o1 /\ id \in DOMAIN o2
       /\ \A i \in DOMAIN o1 : o1[i].root # key => i \in DOMAIN o2
       /\ \A i \in DOMAIN o2 : o2[i] = o1[i]
  <2>1. id \in DOMAIN o1
    BY <1>1
  <2>2. Stores(c, o1, key, id, c2, o2)
    BY DEF Stores
  <2>3. Holds(c, o1, key, id, c2, o2)
    BY ONLY <2>1, <2>2, <1>2, <1>3, <1>15, StoreHolds
  <2> QED BY ONLY <2>3, <1>2, <1>15 DEF Holds, K, K2
<1>17. /\ DOMAIN K2 = DOMAIN K \cup {key} /\ K2[key] = tree[key]
       /\ \A p \in DOMAIN K : p # key => K2[p] = K[p]
  BY ONLY <1>16 DEF Add, Overlay
<1>18. \A p : Added(K, tree, p) => Added(K2, tree, p)
  BY <1>17 DEF Added
<1>19. ASSUME NEW k \in 1 .. n
       PROVE  /\ stack[k].id \in DOMAIN o2 /\ o2[stack[k].id] = o[stack[k].id]
              /\ r(k) \in DOMAIN c2 /\ c2[r(k)] = c[r(k)]
              /\ FrameOK(c2, o2, tree, stack[k], k = n)
  <2>1. FrameOK(c, o, tree, stack[k], k = n) /\ Len(r(k)) = Len(root) + k - 1
    BY ONLY <1>8
  <2>2. r(k) # key
    BY ONLY <2>1, <1>5, <1>14
  <2>3. stack[k].id \in DOMAIN o /\ r(k) = o[stack[k].id].root /\ r(k) \in DOMAIN c
    BY ONLY <2>1 DEF FrameOK, r
  <2>4. stack[k].id \in DOMAIN o2 /\ o2[stack[k].id] = o[stack[k].id]
    BY ONLY <2>2, <2>3, <1>1, <1>16
  <2>5. r(k) \in DOMAIN c2 /\ c2[r(k)] = c[r(k)]
    BY ONLY <2>2, <2>3, <1>16
  <2>6. FrameOK(c2, o2, tree, stack[k], k = n)
    BY ONLY <2>1, <2>3, <2>4, <2>5, <1>18, FrameStays, (k = n) \in BOOLEAN DEF K, K2
  <2> QED BY <2>4, <2>5, <2>6
<1>20. /\ stack2 \in Seq([id : Ids, i : Nat]) /\ stack2 # << >>
       /\ Len(stack2) = n + 1
       /\ \A k \in 1 .. n - 1 : stack2[k] = stack[k]
       /\ stack2[n] = [top EXCEPT !.i = @ + 1]
       /\ stack2[n + 1] = [id |-> id, i |-> 1]
  <2> DEFINE a == [stack EXCEPT ![n].i = @ + 1]
             T == [id : Ids, i : Nat]
  <2>1. a \in Seq(T) /\ Len(a) = n
    <3>1. stack[n] \in T /\ [stack[n] EXCEPT !.i = @ + 1] \in T
      BY ONLY <1>5, <1>6
    <3>2. a = [stack EXCEPT ![n] = [stack[n] EXCEPT !.i = @ + 1]]
      BY ONLY <1>5
    <3> HIDE DEF T, a
    <3>3. n \in 1 .. Len(stack)
      BY ONLY <1>5 DEF n
    <3> QED BY ONLY <1>4, <3>1, <3>2, <3>3, FrameSeq DEF n, T
  <2>2. a[n] = [top EXCEPT !.i = @ + 1] /\ \A k \in 1 .. n - 1 : a[k] = stack[k]
    BY ONLY <1>5, <1>10
  <2>3. [id |-> id, i |-> 1] \in T
    OBVIOUS
  <2>4. stack2 = Append(a, [id |-> id, i |-> 1])
    BY DEF stack2, Advance, n
  <2> HIDE DEF a
  <2>5. /\ stack2 \in Seq(T)
        /\ Len(stack2) = n + 1
        /\ \A k \in 1 .. n : stack2[k] = a[k]
        /\ stack2[n + 1] = [id |-> id, i |-> 1]
    BY ONLY <2>1, <2>3, <2>4, AppendProperties
  <2>6. stack2 # << >>
    <3>1. Len(stack2) # 0
      BY ONLY <2>5, <1>5
    <3> QED BY ONLY <3>1, EmptySeq
  <2>7. \A k \in 1 .. n - 1 : k \in 1 .. n
    BY ONLY <1>5
  <2>8. n \in 1 .. n
    BY ONLY <1>5
  <2> QED BY ONLY <2>2, <2>5, <2>6, <2>7, <2>8
<1>21. FrameOK(c2, o2, tree, stack2[n], FALSE) /\ o2[stack2[n].id].root = r(n)
  <2>1. FrameOK(c2, o2, tree, top, TRUE) /\ o2[top.id] = o[top.id]
    <3>1. n \in 1 .. n /\ (n = n) = TRUE
      BY ONLY <1>5
    <3> QED BY ONLY <3>1, <1>10, <1>19
  <2>2. stack2[n].id = top.id /\ stack2[n].i = top.i + 1
    BY ONLY <1>11, <1>20
  <2>3. o2[stack2[n].id].root = r(n)
    BY ONLY <2>1, <2>2, <1>12
  <2>4. stack2[n].i \in 1 .. Len(tree[r(n)].files) + 1
    BY ONLY <2>2, <1>13
  <2>5. \A i \in 1 .. stack2[n].i - 1 : i < stack2[n].i - 1 => i \in 1 .. top.i - 1
    BY ONLY <2>2, <1>13
  <2>6. o2[top.id].root = r(n)
    BY ONLY <2>1, <1>12
  <2>7. \A i \in 1 .. top.i - 1 : Added(Contents(c2, o2), tree, RowName(tree, r(n), i))
    BY ONLY <2>1, <2>6 DEF FrameOK
  <2>8. /\ top.id \in DOMAIN o2 /\ o2[top.id].tree = tree
        /\ r(n) \in DOMAIN tree /\ r(n) \in DOMAIN c2 /\ c2[r(n)] = top.id
    BY ONLY <2>1, <2>6 DEF FrameOK
  <2> QED BY ONLY <2>2, <2>3, <2>4, <2>5, <2>7, <2>8 DEF FrameOK
<1>22. FrameOK(c2, o2, tree, stack2[n + 1], TRUE) /\ o2[stack2[n + 1].id].root = key
  <2>1. stack2[n + 1].id = id /\ stack2[n + 1].i = 1
    BY <1>20
  <2>2. o2[id].root = key /\ o2[id].tree = tree
    BY <1>15, <1>16
  <2>3. 1 \in 1 .. Len(tree[key].files) + 1
    BY <1>14, LenProperties DEF Walkable, CacheEntry
  <2>4. 1 .. 1 - 1 = {}
    OBVIOUS
  <2> QED BY <2>1, <2>2, <2>3, <2>4, <1>16, <1>14 DEF FrameOK
<1>23. \A k \in 1 .. n - 1 : k \in 1 .. n /\ k # n /\ k # n + 1 /\ k + 1 \in 1 .. n
                           /\ k \in 1 .. n + 1 /\ k + 1 \in 1 .. n + 1 /\ k + 1 # n + 1
  BY ONLY <1>5
<1>24. ASSUME NEW k \in 1 .. n + 1
       PROVE  /\ FrameOK(c2, o2, tree, stack2[k], k = n + 1)
              /\ o2[stack2[k].id].root = IF k = n + 1 THEN key ELSE r(k)
  <2>1. CASE k = n + 1
    BY ONLY <2>1, <1>22
  <2>2. CASE k = n
    <3>1. n # n + 1
      BY ONLY <1>5
    <3> QED BY ONLY <2>2, <3>1, <1>21
  <2>3. CASE k \in 1 .. n - 1
    <3>1. stack2[k] = stack[k] /\ k \in 1 .. n /\ k # n /\ k # n + 1
      BY ONLY <2>3, <1>20, <1>23
    <3>2. FrameOK(c2, o2, tree, stack[k], k = n) /\ o2[stack[k].id] = o[stack[k].id]
      BY ONLY <3>1, <1>19
    <3>3. r(k) = o2[stack[k].id].root
      BY ONLY <3>2 DEF r
    <3>4. (k = n) = FALSE /\ (k = n + 1) = FALSE
      BY ONLY <3>1
    <3> QED BY ONLY <3>1, <3>2, <3>3, <3>4
  <2> QED BY ONLY <2>1, <2>2, <2>3, <1>5
<1>25. ASSUME NEW k \in 1 .. n + 1
       PROVE  Len(o2[stack2[k].id].root) = Len(root) + k - 1
  <2>1. CASE k = n + 1
    BY ONLY <2>1, <1>5, <1>14, <1>24
  <2>2. CASE k # n + 1
    <3>1. k \in 1 .. n
      BY ONLY <2>2, <1>5
    <3> QED BY ONLY <2>2, <3>1, <1>8, <1>24
  <2> QED BY ONLY <2>1, <2>2
<1>26. ASSUME NEW k \in 1 .. n
       PROVE  /\ stack2[k].i > 1
              /\ RowName(tree, o2[stack2[k].id].root, stack2[k].i - 1)
                   = o2[stack2[k + 1].id].root
  <2>1. CASE k = n
    <3>1. stack2[n].i = top.i + 1
      BY ONLY <1>11, <1>20
    <3>2. stack2[n].i > 1 /\ stack2[n].i - 1 = top.i
      BY ONLY <3>1, <1>13
    <3>3. key = RowName(tree, r(n), top.i)
      BY <1>12
    <3> QED BY ONLY <2>1, <3>2, <3>3, <1>21, <1>22
  <2>2. CASE k \in 1 .. n - 1
    <3>1. stack2[k] = stack[k]
      BY ONLY <2>2, <1>20
    <3>2. o2[stack2[k].id].root = r(k) /\ o2[stack2[k + 1].id].root = r(k + 1)
      BY ONLY <2>2, <1>23, <1>24
    <3> QED BY ONLY <2>2, <3>1, <3>2, <1>9
  <2> QED BY ONLY <2>1, <2>2, <1>5
<1>27. /\ DOMAIN base \subseteq DOMAIN K2 /\ DOMAIN K2 \subseteq DOMAIN base \cup DOMAIN tree
       /\ \A p \in DOMAIN base \ DOMAIN tree : K2[p] = base[p]
  <2>1. /\ DOMAIN base \subseteq DOMAIN K /\ DOMAIN K \subseteq DOMAIN base \cup DOMAIN tree
        /\ \A p \in DOMAIN base \ DOMAIN tree : K[p] = base[p]
    BY DEF Adds, K
  <2> QED BY ONLY <2>1, <1>17, <1>14
<1>28. o2[stack2[1].id].root = root
  <2>1. 1 \in 1 .. n + 1 /\ 1 # n + 1
    BY ONLY <1>5
  <2> QED BY ONLY <2>1, <1>7, <1>24
<1>29. n + 1 - 1 = n
  BY ONLY <1>5
<1>30. Adds(c2, o2, tree, root, base, stack2)
  <2>1. \A k \in 1 .. Len(stack2) :
             /\ FrameOK(c2, o2, tree, stack2[k], k = Len(stack2))
             /\ Len(o2[stack2[k].id].root) = Len(root) + k - 1
    BY ONLY <1>20, <1>24, <1>25
  <2>2. \A k \in 1 .. Len(stack2) - 1 :
             /\ stack2[k].i > 1
             /\ RowName(tree, o2[stack2[k].id].root, stack2[k].i - 1)
                  = o2[stack2[k + 1].id].root
    <3>1. Len(stack2) = n + 1
      BY ONLY <1>20
    <3>2. Len(stack2) - 1 = n
      BY ONLY <3>1, <1>5
    <3> QED BY ONLY <3>2, <1>26
  <2> QED BY ONLY <2>1, <2>2, <1>20, <1>27, <1>28 DEF Adds, K2
<1> QED BY <1>16, <1>30 DEF stack2

Pushes(c, o, tree, stack, id, c2, o2) ==
    LET top == stack[Len(stack)]
        key == RowName(tree, o[top.id].root, top.i)
    IN  /\ top.i <= Len(tree[o[top.id].root].files)
        /\ Stores(c, Add(o, id, Object(key, tree)), key, id, c2, o2)

LEMMA DescendsTo ==
    ASSUME NEW c, NEW o, NEW tree, NEW root, NEW base, NEW stack,
           Rooted(c, o), Walkable(tree, root), Adds(c, o, tree, root, base, stack),
           NEW id \in Ids, id \notin DOMAIN o, NEW c2, NEW o2,
           Pushes(c, o, tree, stack, id, c2, o2)
    PROVE  /\ Rooted(c2, o2)
           /\ Adds(c2, o2, tree, root, base, Append(Advance(stack), [id |-> id, i |-> 1]))
<1>1. PICK top : top = stack[Len(stack)]
  OBVIOUS
<1>2. PICK key : key = RowName(tree, o[top.id].root, top.i)
  OBVIOUS
<1>3. PICK o1 : o1 = Add(o, id, Object(key, tree))
  OBVIOUS
<1>4. top.i <= Len(tree[o[top.id].root].files) /\ Stores(c, o1, key, id, c2, o2)
  BY ONLY <1>1, <1>2, <1>3, Pushes(c, o, tree, stack, id, c2, o2) DEF Pushes
<1>5. /\ c2 = Add(c, key, id)
      /\ o2 = Without(o1, IF key \in DOMAIN c THEN {c[key]} \ {id} ELSE {})
  BY ONLY <1>4 DEF Stores
<1> QED BY ONLY <1>1, <1>2, <1>3, <1>4, <1>5, Descends, Rooted(c, o), Walkable(tree, root),
                Adds(c, o, tree, root, base, stack), id \in Ids, id \notin DOMAIN o

\* A turn that has no rows left: the tree is there from its entry downwards,
\* which is all of it if the turn was the first.
LEMMA Ascends ==
    ASSUME NEW c, NEW o, NEW tree, NEW root, NEW base, NEW stack,
           Rooted(c, o), Walkable(tree, root), Adds(c, o, tree, root, base, stack),
           NEW top, top = stack[Len(stack)], ~(top.i <= Len(tree[o[top.id].root].files)),
           NEW rest, rest = SubSeq(stack, 1, Len(stack) - 1)
    PROVE  IF rest = << >> THEN Contents(c, o) = AddAll(base, tree)
                           ELSE Adds(c, o, tree, root, base, rest)
<1> DEFINE n == Len(stack)
           r(k) == o[stack[k].id].root
           K == Contents(c, o)
<1>1. /\ stack \in Seq([id : Ids, i : Nat]) /\ stack # << >>
      /\ o[stack[1].id].root = root
      /\ \A k \in 1 .. Len(stack) : /\ FrameOK(c, o, tree, stack[k], k = Len(stack))
                                  /\ Len(o[stack[k].id].root) = Len(root) + k - 1
      /\ \A k \in 1 .. Len(stack) - 1 :
           /\ stack[k].i > 1
           /\ RowName(tree, o[stack[k].id].root, stack[k].i - 1) = o[stack[k + 1].id].root
  BY DEF Adds
<1>2. n \in Nat /\ n > 0 /\ DOMAIN stack = 1 .. n
  BY ONLY <1>1, EmptySeq, LenProperties
<1>3. \A k \in 1 .. n : stack[k] \in [id : Ids, i : Nat]
  BY ONLY <1>1, <1>2, ElementOfSeq
<1>4. r(1) = root
  BY <1>1
<1>5. \A k \in 1 .. n : FrameOK(c, o, tree, stack[k], k = n) /\ Len(r(k)) = Len(root) + k - 1
  BY <1>1
<1>6. \A k \in 1 .. n - 1 : stack[k].i > 1 /\ RowName(tree, r(k), stack[k].i - 1) = r(k + 1)
  BY <1>1
<1>7. top = stack[n] /\ rest = SubSeq(stack, 1, n - 1)
  BY DEF n
<1>8. /\ DOMAIN base \subseteq DOMAIN K /\ DOMAIN K \subseteq DOMAIN base \cup DOMAIN tree
      /\ \A p \in DOMAIN base \ DOMAIN tree : K[p] = base[p]
  BY DEF Adds, K
<1>9. K = [p \in DOMAIN c |-> o[c[p]].tree[p]]
  BY ONLY Rooted(c, o), ContentsOf DEF K
<1> HIDE DEF n, K, r
<1>10. FrameOK(c, o, tree, top, TRUE) /\ r(n) = o[top.id].root /\ top = stack[n]
  <2>1. n \in 1 .. n /\ (n = n) = TRUE
    BY ONLY <1>2
  <2> QED BY ONLY <2>1, <1>5, <1>7 DEF r
<1>11. Added(K, tree, r(n))
  <2> SUFFICES ASSUME NEW q \in DOMAIN tree, Below(r(n), q)
               PROVE  q \in DOMAIN K /\ K[q] = tree[q]
    BY DEF Added
  <2>1. /\ top.id \in DOMAIN o /\ o[top.id].tree = tree
        /\ r(n) \in DOMAIN tree /\ r(n) \in DOMAIN c /\ c[r(n)] = top.id
        /\ top.i \in 1 .. Len(tree[r(n)].files) + 1
        /\ \A i \in 1 .. top.i - 1 : Added(K, tree, RowName(tree, r(n), i))
    BY <1>10 DEF FrameOK, K
  <2>2. CASE q = r(n)
    BY <2>1, <2>2, <1>9
  <2>3. CASE q # r(n)
    <3>1. PICK i \in 1 .. Len(tree[r(n)].files) : Below(RowName(tree, r(n), i), q)
      BY <2>1, <2>3 DEF Walkable
    <3>2. Len(tree[r(n)].files) \in Nat
      BY <2>1, LenProperties DEF Walkable, CacheEntry
    <3>3. i \in 1 .. top.i - 1
      BY <2>1, <3>2, <1>10
    <3> QED BY <2>1, <3>1, <3>3 DEF Added
  <2> QED BY <2>2, <2>3
<1>12. CASE n = 1
  <2>1. rest = << >>
    <3>1. rest = SubSeq(stack, 1, 0)
      <4>1. n - 1 = 0
        BY ONLY <1>12
      <4> QED BY ONLY <4>1, <1>7
    <3>2. SubSeq(stack, 1, 0) \in Seq([id : Ids, i : Nat]) /\ Len(SubSeq(stack, 1, 0)) = 0
      BY ONLY <1>1, SubSeqProperties
    <3> QED BY ONLY <3>1, <3>2, EmptySeq
  <2>2. \A q \in DOMAIN tree : q \in DOMAIN K /\ K[q] = tree[q]
    BY <1>4, <1>11, <1>12 DEF Added, Walkable
  <2>3. DOMAIN K = DOMAIN base \cup DOMAIN tree
    BY <2>2, <1>8
  <2>4. \A q \in DOMAIN K : K[q] = IF q \in DOMAIN tree THEN tree[q] ELSE base[q]
    BY <2>2, <2>3, <1>8
  <2>5. K = [q \in DOMAIN K |-> K[q]]
    BY <1>9
  <2>6. K = AddAll(base, tree)
    BY ONLY <2>3, <2>4, <2>5 DEF AddAll, Overlay
  <2> QED BY <2>1, <2>6 DEF K
<1>13. CASE n > 1
  <2>1. /\ rest \in Seq([id : Ids, i : Nat]) /\ Len(rest) = n - 1
        /\ \A k \in 1 .. n - 1 : rest[k] = stack[k]
    <3>1. n - 1 \in 1 .. n /\ n - 1 - 1 + 1 = n - 1 /\ 1 <= n - 1
      BY ONLY <1>2, <1>13
    <3>2. \A k \in 1 .. n - 1 : k \in 1 .. n /\ 1 + k - 1 = k
      BY ONLY <1>2
    <3>3. /\ rest \in Seq([id : Ids, i : Nat])
          /\ Len(rest) = IF 1 <= n - 1 THEN n - 1 - 1 + 1 ELSE 0
          /\ \A k \in 1 .. n - 1 - 1 + 1 : rest[k] = stack[1 + k - 1]
      <4>1. 1 \in Int /\ n - 1 \in Int /\ \A k \in 1 .. n - 1 : stack[k] \in [id : Ids, i : Nat]
        BY ONLY <1>2, <1>3, <3>2
      <4> QED BY ONLY <4>1, <1>1, <1>7, SubSeqProperties
    <3> QED BY ONLY <3>1, <3>2, <3>3
  <2>2. rest # << >>
    <3>1. Len(rest) # 0
      BY ONLY <2>1, <1>2, <1>13
    <3> QED BY ONLY <3>1, EmptySeq
  <2>3. n - 1 \in 1 .. n /\ n - 1 \in 1 .. n - 1 /\ (n - 1 = n) = FALSE /\ n - 1 + 1 = n
    BY ONLY <1>2, <1>13
  <2> DEFINE below == stack[n - 1]
  <2>4. /\ FrameOK(c, o, tree, below, FALSE) /\ below.i > 1 /\ below.i \in Nat
        /\ RowName(tree, r(n - 1), below.i - 1) = r(n)
        /\ r(n - 1) = o[below.id].root
    BY ONLY <2>3, <1>3, <1>5, <1>6 DEF r
  <2> HIDE DEF below
  <2>5. FrameOK(c, o, tree, below, TRUE)
    <3>1. ASSUME NEW i \in 1 .. below.i - 1 PROVE Added(K, tree, RowName(tree, r(n - 1), i))
      <4>1. CASE i < below.i - 1
        BY ONLY <2>4, <4>1 DEF FrameOK, K
      <4>2. CASE i = below.i - 1
        BY ONLY <2>4, <4>2, <1>11
      <4> QED BY ONLY <2>4, <4>1, <4>2
    <3> QED BY ONLY <2>4, <3>1 DEF FrameOK, K
  <2>6. ASSUME NEW k \in 1 .. n - 1
        PROVE  /\ FrameOK(c, o, tree, rest[k], k = n - 1)
               /\ Len(o[rest[k].id].root) = Len(root) + k - 1
    <3>1. rest[k] = stack[k]
      BY ONLY <2>1
    <3>2. k \in 1 .. n /\ (k = n) = FALSE
      BY ONLY <1>2
    <3>3. FrameOK(c, o, tree, stack[k], FALSE) /\ Len(o[stack[k].id].root) = Len(root) + k - 1
      BY ONLY <3>2, <1>5 DEF r
    <3>4. CASE k = n - 1
      BY ONLY <3>1, <3>3, <3>4, <2>5 DEF below
    <3>5. CASE k # n - 1
      BY ONLY <3>1, <3>3, <3>5
    <3> QED BY ONLY <3>4, <3>5
  <2>7. ASSUME NEW k \in 1 .. n - 1 - 1
        PROVE  /\ rest[k].i > 1
               /\ RowName(tree, o[rest[k].id].root, rest[k].i - 1) = o[rest[k + 1].id].root
    <3>1. k \in 1 .. n - 1 /\ k + 1 \in 1 .. n - 1
      BY ONLY <1>2
    <3> QED BY ONLY <3>1, <2>1, <1>6 DEF r
  <2>8. o[rest[1].id].root = root
    <3>1. 1 \in 1 .. n - 1
      BY ONLY <1>2, <1>13
    <3> QED BY ONLY <3>1, <2>1, <1>4 DEF r
  <2>9. Adds(c, o, tree, root, base, rest)
    BY ONLY <2>1, <2>2, <2>6, <2>7, <2>8, <1>8 DEF Adds, K
  <2> QED BY <2>2, <2>9
<1>14. n = 1 \/ n > 1
  BY ONLY <1>2
<1> QED BY ONLY <1>12, <1>13, <1>14
-----------------------------------------------------------------------------
(***************************************************************************)
(* The trees that the builders make                                         *)
(***************************************************************************)

LEMMA PathAppend ==
    ASSUME NEW p \in Path, NEW n \in Name
    PROVE  /\ Append(p, n) \in Path
           /\ BaseName(Append(p, n)) = n
           /\ Len(Append(p, n)) = Len(p) + 1
           /\ Len(p) \in Nat \ {0}
           /\ \A i \in 1 .. Len(p) : Append(p, n)[i] = p[i]
<1>1. p \in Seq(Name) /\ p # << >>
  BY DEF Path
<1>2. /\ Append(p, n) \in Seq(Name)
      /\ Len(Append(p, n)) = Len(p) + 1
      /\ \A i \in 1 .. Len(p) : Append(p, n)[i] = p[i]
      /\ Append(p, n)[Len(p) + 1] = n
  BY <1>1, AppendProperties
<1>3. Len(p) \in Nat \ {0}
  BY ONLY <1>1, EmptySeq, LenProperties
<1>4. Append(p, n) # << >>
  <2>1. Len(Append(p, n)) # 0
    BY ONLY <1>2, <1>3
  <2> QED BY ONLY <2>1, EmptySeq
<1> QED BY ONLY <1>2, <1>3, <1>4 DEF Path, BaseName

LEMMA BelowSelf ==
    ASSUME NEW p \in Path
    PROVE  Below(p, p)
<1>1. Len(p) \in Nat
  BY LenProperties DEF Path
<1> QED BY <1>1 DEF Below

LEMMA BelowAppend ==
    ASSUME NEW p \in Path, NEW n \in Name, NEW q \in Path, Below(q, p)
    PROVE  Below(q, Append(p, n))
<1>1. /\ Len(Append(p, n)) = Len(p) + 1 /\ Len(p) \in Nat
      /\ \A i \in 1 .. Len(p) : Append(p, n)[i] = p[i]
  BY PathAppend
<1>2. Len(q) \in Nat
  BY LenProperties DEF Path
<1> QED BY ONLY <1>1, <1>2, Below(q, p) DEF Below

LEMMA BelowSame ==
    ASSUME NEW p \in Path, NEW q \in Path, Below(p, q), Len(q) <= Len(p)
    PROVE  p = q
<1>1. Len(p) \in Nat /\ Len(q) \in Nat /\ p \in Seq(Name) /\ q \in Seq(Name)
  BY LenProperties DEF Path
<1>2. Len(p) = Len(q)
  BY <1>1 DEF Below
<1> QED BY ONLY <1>1, <1>2, Below(p, q), SeqEqual DEF Below

LEMMA FunIsSeq ==
    ASSUME NEW S, NEW n \in Nat, NEW f, f = [i \in 1 .. n |-> f[i]],
           \A i \in 1 .. n : f[i] \in S
    PROVE  f \in Seq(S)
  BY SeqDef

AreRows(rows, dir, names) ==
    /\ rows = [i \in DOMAIN names |-> rows[i]]
    /\ \A i \in DOMAIN names :
         \E type \in Kinds : rows[i] = [fname |-> Append(dir, names[i]), type |-> type]

LEMMA RowsAreSeq ==
    ASSUME NEW names \in Seq(Name), NEW dir \in Path, NEW rows, AreRows(rows, dir, names)
    PROVE  rows \in Seq([fname : Path, type : Kinds]) /\ Len(rows) = Len(names)
<1>1. DOMAIN names = 1 .. Len(names) /\ Len(names) \in Nat
  BY LenProperties
<1>2. \A i \in 1 .. Len(names) : names[i] \in Name
  BY ONLY names \in Seq(Name), ElementOfSeq
<1>3. ASSUME NEW i \in 1 .. Len(names) PROVE rows[i] \in [fname : Path, type : Kinds]
  <2>1. Append(dir, names[i]) \in Path
    BY <1>2, PathAppend
  <2>2. PICK type \in Kinds : rows[i] = [fname |-> Append(dir, names[i]), type |-> type]
    BY <1>1 DEF AreRows
  <2> QED BY ONLY <2>1, <2>2
<1>4. rows = [i \in 1 .. Len(names) |-> rows[i]] /\ DOMAIN rows = 1 .. Len(names)
  BY <1>1 DEF AreRows
<1>5. rows \in Seq([fname : Path, type : Kinds])
  BY ONLY <1>1, <1>3, <1>4, FunIsSeq
<1>6. DOMAIN rows = 1 .. Len(rows) /\ Len(rows) \in Nat
  BY ONLY <1>5, LenProperties
<1>7. Len(rows) = Len(names)
  BY ONLY <1>1, <1>4, <1>6
<1> QED BY <1>5, <1>7

\* No stub but that of a game, in a cache or a tree; it has no rows.
IsStubOfGame(p, e) ==
    p \in Path /\ BaseName(p) \in Games /\ p # Daemon!SearchDir /\ e.files = << >>
StubsAreGames(c) ==
    \A p \in DOMAIN c : c[p] \in CacheEntry /\ (c[p].type = "dirstub" => IsStubOfGame(p, c[p]))

LEMMA StubTreeWalk ==
    ASSUME NEW path \in Path, NEW games \in Seq(Games)
    PROVE  LET t == StubTree(path, path, games)
           IN  Walkable(t, path) /\ StubsAreGames(t) /\ t[path].type = "dir"
<1> DEFINE t == StubTree(path, path, games)
           rows == StubRows(path, games)
<1> HIDE DEF t, rows
<1>1. /\ games \in Seq(Name) /\ DOMAIN games = 1 .. Len(games) /\ Len(games) \in Nat
      /\ \A i \in DOMAIN games : games[i] \in Games /\ games[i] \in Name
  <2>1. Games \subseteq Name
    BY WorkersAssumption DEF Name
  <2>2. DOMAIN games = 1 .. Len(games) /\ Len(games) \in Nat
    BY LenProperties
  <2>3. \A i \in 1 .. Len(games) : games[i] \in Games
    BY ElementOfSeq
  <2>4. games \in Seq(Name)
    BY ONLY <2>1, games \in Seq(Games), SeqMonotonic
  <2> QED BY ONLY <2>1, <2>2, <2>3, <2>4
<1>2. \A i \in DOMAIN games :
        /\ Append(path, games[i]) \in Path /\ BaseName(Append(path, games[i])) \in Games
        /\ Len(Append(path, games[i])) = Len(path) + 1
        /\ Below(path, Append(path, games[i]))
  BY <1>1, PathAppend, BelowAppend, BelowSelf
<1>3. /\ DOMAIN rows = DOMAIN games /\ rows = [i \in DOMAIN games |-> rows[i]]
      /\ \A i \in DOMAIN games : rows[i] = Row(Append(path, games[i]), "dirstub")
  BY DEF StubRows, rows
<1>4. rows \in Seq([fname : Path, type : Kinds]) /\ Len(rows) = Len(games)
  <2>1. AreRows(rows, path, games)
    BY <1>3 DEF AreRows, Row, Kinds
  <2> QED BY <2>1, <1>1, RowsAreSeq
<1>5. /\ \A k \in DOMAIN t : k = path \/ \E i \in DOMAIN games : k = Append(path, games[i])
      /\ path \in DOMAIN t
      /\ \A i \in DOMAIN games : Append(path, games[i]) \in DOMAIN t
      /\ t[path] = DirEntry(rows)
      /\ \A k \in DOMAIN t \ {path} : t[k] = StubEntry
  BY DEF StubTree, t, rows
<1>6. /\ t[path].files = rows /\ t[path].type = "dir"
      /\ \A k \in DOMAIN t \ {path} : t[k].files = << >>
  BY <1>5 DEF DirEntry, StubEntry
<1>7. \A k \in DOMAIN t : t[k] \in CacheEntry
  <2>1. StubEntry \in CacheEntry
    BY EmptySeq DEF StubEntry, CacheEntry, Kinds
  <2>2. DirEntry(rows) \in CacheEntry
    BY <1>4 DEF DirEntry, CacheEntry, Kinds
  <2> QED BY <1>5, <2>1, <2>2
<1>8. \A k \in DOMAIN t : /\ k \in Path /\ Below(path, k)
                          /\ k # path => Len(k) = Len(path) + 1
  BY <1>2, <1>5, BelowSelf
<1>9. ASSUME NEW k \in DOMAIN t, NEW i \in 1 .. Len(t[k].files)
      PROVE  RowName(t, k, i) \in DOMAIN t /\ Len(RowName(t, k, i)) = Len(k) + 1
  <2>1. k = path
    <3>1. Len(<< >>) = 0 /\ 1 .. 0 = {}
      OBVIOUS
    <3> QED BY <3>1, <1>6
  <2>2. i \in DOMAIN games
    BY <2>1, <1>1, <1>4, <1>6
  <2>3. RowName(t, k, i) = Append(path, games[i])
    BY <2>1, <2>2, <1>3, <1>6 DEF RowName, Row
  <2> QED BY <2>1, <2>2, <2>3, <1>2, <1>5
<1>10. ASSUME NEW k \in DOMAIN t, NEW q \in DOMAIN t, Below(k, q), q # k
       PROVE  \E i \in 1 .. Len(t[k].files) : Below(RowName(t, k, i), q)
  <2>1. k = path
    <3>1. CASE q = path /\ k # path
      <4>1. Len(q) <= Len(k)
        BY <3>1, <1>8, PathAppend, LenProperties DEF Path
      <4> QED BY <4>1, <1>8, <1>10, BelowSame
    <3>2. CASE q # path /\ k # path
      <4>1. Len(q) <= Len(k)
        BY <3>2, <1>8, LenProperties DEF Path
      <4> QED BY <4>1, <1>8, <1>10, BelowSame
    <3> QED BY <3>1, <3>2
  <2>2. PICK i \in DOMAIN games : q = Append(path, games[i])
    BY <2>1, <1>5, <1>10
  <2>3. RowName(t, k, i) = q /\ i \in 1 .. Len(t[k].files)
    BY <2>1, <2>2, <1>1, <1>3, <1>4, <1>6 DEF RowName, Row
  <2> QED BY <2>3, <1>8, BelowSelf
<1>11. Walkable(t, path)
  BY <1>5, <1>7, <1>8, <1>9, <1>10 DEF Walkable
<1>12. StubsAreGames(t)
  <2>1. ASSUME NEW k \in DOMAIN t, t[k].type = "dirstub"
        PROVE  IsStubOfGame(k, t[k])
    <3>1. k # path
      BY <2>1, <1>6
    <3>2. k \in Path /\ BaseName(k) \in Games /\ t[k].files = << >>
      BY <3>1, <1>2, <1>5, <1>6, <1>8
    <3>3. Len(k) = Len(path) + 1 /\ Len(path) \in Nat \ {0}
      BY <3>1, <1>8, EmptySeq, LenProperties DEF Path
    <3>4. k # Daemon!SearchDir
      <4>1. Len(Daemon!SearchDir) = 1
        BY DEF Daemon!SearchDir
      <4>2. Len(k) # 1
        BY ONLY <3>3
      <4> QED BY ONLY <4>1, <4>2
    <3> QED BY <3>2, <3>4 DEF IsStubOfGame
  <2> QED BY <2>1, <1>7 DEF StubsAreGames
<1> QED BY <1>6, <1>11, <1>12 DEF t

LEMMA GameNamesFacts ==
    ASSUME NEW g \in Games
    PROVE  /\ Daemon!Sections(g) \in Seq(Name)
           /\ Daemon!GameNames(g) \in Seq(Name)
           /\ \A j \in DOMAIN Daemon!Sections(g) :
                \E i \in DOMAIN Daemon!GameNames(g) :
                    Daemon!GameNames(g)[i] = Daemon!Sections(g)[j]
           /\ \A n : Daemon!Section(g, n) \in Seq(Name)
<1> DEFINE pokes == IF Pokes[g] = << >> THEN << >> ELSE <<"POKES">>
           screens == IF Screens[g] = << >> THEN << >> ELSE <<"SCRSHOT">>
           secs == Daemon!Sections(g)
           names == Daemon!GameNames(g)
           files == Releases[g]
<1>1. pokes \in Seq(Name) /\ screens \in Seq(Name)
  <2>1. << >> \in Seq(Name)
    BY EmptySeq
  <2>2. "POKES" \in Name /\ "SCRSHOT" \in Name
    BY DEF Name
  <2>3. <<"POKES">> \in Seq(Name) /\ <<"SCRSHOT">> \in Seq(Name)
    BY <2>2
  <2> QED BY <2>1, <2>3
<1>2. secs = pokes \o screens /\ names = files \o secs
  BY DEF Daemon!Sections, Daemon!GameNames
<1>3. files \in Seq(Name) /\ Pokes[g] \in Seq(Name) /\ Screens[g] \in Seq(Name)
  <2>1. files \in Seq(Files) /\ Pokes[g] \in Seq(Files) /\ Screens[g] \in Seq(Files)
    BY WorkersAssumption
  <2>2. Files \subseteq Name
    BY WorkersAssumption DEF Name
  <2> QED BY <2>1, <2>2, SeqMonotonic
<1> HIDE DEF pokes, screens, secs, names, files
<1>4. secs \in Seq(Name)
  BY <1>1, <1>2, ConcatProperties
<1>5. /\ names \in Seq(Name)
      /\ Len(names) = Len(files) + Len(secs)
      /\ \A i \in 1 .. Len(files) + Len(secs) : names[i] =
            IF i <= Len(files) THEN files[i] ELSE secs[i - Len(files)]
  BY <1>2, <1>3, <1>4, ConcatProperties
<1>6. /\ DOMAIN names = 1 .. Len(files) + Len(secs) /\ DOMAIN secs = 1 .. Len(secs)
      /\ Len(files) \in Nat /\ Len(secs) \in Nat
  BY <1>3, <1>4, <1>5, LenProperties
<1>7. ASSUME NEW j \in DOMAIN secs
      PROVE  \E i \in DOMAIN names : names[i] = secs[j]
  <2>1. /\ Len(files) + j \in DOMAIN names /\ ~(Len(files) + j <= Len(files))
        /\ Len(files) + j - Len(files) = j
    BY ONLY <1>6
  <2>2. names[Len(files) + j] = secs[j]
    BY ONLY <1>5, <1>6, <2>1
  <2> QED BY <2>1, <2>2
<1>8. \A n : Daemon!Section(g, n) \in Seq(Name)
  BY <1>3 DEF Daemon!Section
<1> QED BY <1>4, <1>5, <1>7, <1>8 DEF secs, names

LEMMA GameTreeWalk ==
    ASSUME NEW root \in Path, NEW g \in Games
    PROVE  LET t == Daemon!GameTree(root, g)
           IN  Walkable(t, root) /\ StubsAreGames(t) /\ t[root].type = "dir"
<1> DEFINE t == Daemon!GameTree(root, g)
           dirs == Daemon!GameDirs(root, g)
           names(d) == Daemon!NamesIn(root, g, d)
           secs == Daemon!Sections(g)
           rows(d) == Daemon!RowsIn(d, names(d))
<1>1. /\ secs \in Seq(Name) /\ \A d : names(d) \in Seq(Name)
      /\ \A j \in DOMAIN secs : \E i \in DOMAIN names(root) : names(root)[i] = secs[j]
  <2>1. names(root) = Daemon!GameNames(g)
    BY DEF Daemon!NamesIn
  <2>2. \A d : names(d) \in Seq(Name)
    BY GameNamesFacts DEF Daemon!NamesIn
  <2> HIDE DEF names
  <2> QED BY <2>1, <2>2, GameNamesFacts
<1>2. /\ root \in dirs /\ \A j \in DOMAIN secs : Append(root, secs[j]) \in dirs
      /\ \A d \in dirs : d = root \/ \E j \in DOMAIN secs : d = Append(root, secs[j])
  BY DEF Daemon!GameDirs
<1>3. /\ dirs \subseteq DOMAIN t
      /\ \A d \in dirs : \A i \in DOMAIN names(d) : Append(d, names(d)[i]) \in DOMAIN t
      /\ \A p \in DOMAIN t : p \in dirs \/ \E d \in dirs : \E i \in DOMAIN names(d) :
                                                p = Append(d, names(d)[i])
  BY DEF Daemon!GameTree, Daemon!GameFiles, Daemon!Children
<1>4. /\ \A d \in dirs : t[d] = DirEntry(rows(d))
      /\ \A p \in DOMAIN t \ dirs : t[p] = FileEntry
  <2> DEFINE dom == dirs \cup Daemon!GameFiles(root, g)
  <2>1. t = [p \in dom |-> IF p \in dirs THEN DirEntry(rows(p)) ELSE FileEntry]
    BY DEF Daemon!GameTree, Daemon!DirEntry, Daemon!FileEntry, DirEntry, FileEntry
  <2> HIDE DEF t, dirs, rows
  <2>2. dirs \subseteq dom
    OBVIOUS
  <2> HIDE DEF dom
  <2> QED BY <2>1, <2>2
<1>5. ASSUME NEW d PROVE AreRows(rows(d), d, names(d))
  <2> DEFINE type(i) == IF names(d)[i] \in Files THEN "file" ELSE "dir"
  <2>1. rows(d) = [i \in DOMAIN names(d) |->
                      [fname |-> Append(d, names(d)[i]), type |-> type(i)]]
    BY DEF Daemon!RowsIn, Daemon!Row
  <2>2. \A i : type(i) \in Kinds
    BY DEF Kinds
  <2> HIDE DEF type, rows, names
  <2> QED BY <2>1, <2>2 DEF AreRows
<1> HIDE DEF t, dirs, names, secs, rows
<1>6. /\ \A d : DOMAIN names(d) = 1 .. Len(names(d)) /\ Len(names(d)) \in Nat
      /\ \A d : \A i \in DOMAIN names(d) : names(d)[i] \in Name
      /\ \A j \in DOMAIN secs : secs[j] \in Name
  BY <1>1, LenProperties, ElementOfSeq
<1>7. Len(root) \in Nat /\ Below(root, root)
  BY BelowSelf, PathAppend, LenProperties DEF Path
<1>8. ASSUME NEW d \in dirs
      PROVE  d \in Path /\ Below(root, d) /\ (d # root => Len(d) = Len(root) + 1)
  <2>1. CASE d = root
    BY <2>1, <1>7
  <2>2. ASSUME NEW j \in DOMAIN secs, d = Append(root, secs[j])
        PROVE  d \in Path /\ Below(root, d) /\ Len(d) = Len(root) + 1
    BY <2>2, <1>6, <1>7, PathAppend, BelowAppend
  <2> QED BY <2>1, <2>2, <1>2
<1>9. ASSUME NEW d \in dirs, NEW i \in DOMAIN names(d)
      PROVE  /\ Append(d, names(d)[i]) \in Path /\ Below(root, Append(d, names(d)[i]))
             /\ Len(Append(d, names(d)[i])) = Len(d) + 1
             /\ Below(d, Append(d, names(d)[i]))
  BY <1>6, <1>8, PathAppend, BelowAppend, BelowSelf
<1>10. ASSUME NEW d \in dirs
       PROVE  /\ t[d] \in CacheEntry /\ t[d].type = "dir" /\ Len(t[d].files) = Len(names(d))
              /\ \A i \in 1 .. Len(t[d].files) :
                    i \in DOMAIN names(d) /\ RowName(t, d, i) = Append(d, names(d)[i])
  <2>1. rows(d) \in Seq([fname : Path, type : Kinds]) /\ Len(rows(d)) = Len(names(d))
    BY ONLY <1>1, <1>5, <1>8, RowsAreSeq
  <2>2. t[d] = DirEntry(rows(d))
    BY <1>4
  <2>3. t[d].files = rows(d) /\ t[d].type = "dir" /\ t[d] \in CacheEntry
    BY ONLY <2>1, <2>2 DEF DirEntry, CacheEntry, Kinds
  <2>4. AreRows(rows(d), d, names(d))
    BY <1>5
  <2>5. \A i \in DOMAIN names(d) : rows(d)[i].fname = Append(d, names(d)[i])
    BY ONLY <2>4 DEF AreRows
  <2> QED BY ONLY <2>1, <2>3, <2>5, <1>6 DEF RowName
<1>11. ASSUME NEW p \in DOMAIN t \ dirs
       PROVE  /\ t[p] \in CacheEntry /\ t[p].type = "file" /\ 1 .. Len(t[p].files) = {}
  <2>1. t[p] = FileEntry /\ Len(<< >>) = 0 /\ 1 .. 0 = {}
    BY <1>4
  <2> QED BY <2>1, EmptySeq DEF FileEntry, CacheEntry, Kinds
<1>12. \A p \in DOMAIN t : p \in Path /\ Below(root, p) /\ t[p] \in CacheEntry
  <2> SUFFICES ASSUME NEW p \in DOMAIN t
               PROVE  p \in Path /\ Below(root, p) /\ t[p] \in CacheEntry
    OBVIOUS
  <2>1. p \in Path /\ Below(root, p)
    BY ONLY <1>3, <1>8, <1>9
  <2>2. t[p] \in CacheEntry
    BY ONLY <1>10, <1>11
  <2> QED BY <2>1, <2>2
<1>13. ASSUME NEW p \in DOMAIN t, NEW i \in 1 .. Len(t[p].files)
       PROVE  RowName(t, p, i) \in DOMAIN t /\ Len(RowName(t, p, i)) = Len(p) + 1
  <2>1. p \in dirs
    BY <1>11
  <2>2. i \in DOMAIN names(p) /\ RowName(t, p, i) = Append(p, names(p)[i])
    BY ONLY <2>1, <1>10
  <2> QED BY ONLY <2>1, <2>2, <1>3, <1>9

\* What lies below a path of the tree, and is not that path.
<1>14. ASSUME NEW p \in DOMAIN t, NEW q \in DOMAIN t, Below(p, q), q # p
       PROVE  Len(p) < Len(q) /\ Len(p) \in Nat /\ Len(q) \in Nat
  <2>1. Len(p) \in Nat /\ Len(q) \in Nat
    BY <1>12, LenProperties DEF Path
  <2>2. ~(Len(q) <= Len(p))
    BY <1>12, <1>14, BelowSame
  <2> QED BY ONLY <2>1, <2>2
<1>15. ASSUME NEW p \in DOMAIN t, Below(p, root) PROVE p = root
  <2>1. root \in DOMAIN t /\ root \in Path /\ p \in Path
    BY <1>2, <1>3, <1>12
  <2>2. Len(p) \in Nat /\ Len(root) \in Nat /\ Below(root, p)
    BY <2>1, <1>12, LenProperties DEF Path
  <2>3. Len(p) <= Len(root)
    BY <1>15 DEF Below
  <2> QED BY <2>1, <2>2, <2>3, BelowSame
<1>16. ASSUME NEW p \in DOMAIN t, NEW d \in dirs, NEW i \in DOMAIN names(d),
              Below(p, Append(d, names(d)[i])), p # Append(d, names(d)[i])
       PROVE  Below(p, d)
  <2> DEFINE q == Append(d, names(d)[i])
  <2>1. q \in DOMAIN t /\ Len(q) = Len(d) + 1 /\ Len(d) \in Nat
        /\ \A k \in 1 .. Len(d) : q[k] = d[k]
    BY <1>3, <1>6, <1>8, <1>9, PathAppend, LenProperties DEF Path
  <2>2. Len(p) < Len(q) /\ Len(p) \in Nat /\ \A k \in 1 .. Len(p) : q[k] = p[k]
    BY <2>1, <1>14, <1>16 DEF Below
  <2> HIDE DEF q
  <2> QED BY ONLY <2>1, <2>2 DEF Below
<1>17. ASSUME NEW p \in DOMAIN t, NEW d \in dirs, Below(p, d) PROVE p = root \/ p = d
  <2>1. CASE d = root
    BY <2>1, <1>15, <1>17
  <2>2. CASE d # root /\ p # d
    <3>1. PICK j \in DOMAIN secs : d = Append(root, secs[j])
      BY <2>2, <1>2
    <3>2. PICK i \in DOMAIN names(root) : names(root)[i] = secs[j]
      BY <1>1 DEF secs, names
    <3>3. Below(p, root)
      BY <3>1, <3>2, <2>2, <1>2, <1>16, <1>17
    <3> QED BY <3>3, <1>15
  <2> QED BY <2>1, <2>2
<1>18. ASSUME NEW d \in dirs, NEW i \in DOMAIN names(d)
       PROVE  \E k \in 1 .. Len(t[d].files) : Below(RowName(t, d, k), Append(d, names(d)[i]))
  <2>1. i \in 1 .. Len(t[d].files)
    BY <1>6, <1>10
  <2> QED BY <2>1, <1>9, <1>10, BelowSelf
<1>19. ASSUME NEW d \in dirs, d # root
       PROVE  \E i \in 1 .. Len(t[root].files) : RowName(t, root, i) = d
  <2>1. PICK j \in DOMAIN secs : d = Append(root, secs[j])
    BY <1>2, <1>19
  <2>2. PICK i \in DOMAIN names(root) : names(root)[i] = secs[j]
    BY <1>1 DEF secs, names
  <2>3. i \in 1 .. Len(t[root].files)
    BY <1>2, <1>6, <1>10
  <2> QED BY <2>1, <2>2, <2>3, <1>2, <1>10
<1>20. ASSUME NEW p \in DOMAIN t, NEW q \in DOMAIN t, Below(p, q), q # p
       PROVE  \E i \in 1 .. Len(t[p].files) : Below(RowName(t, p, i), q)
  <2>1. CASE q \in dirs
    <3>1. p = root /\ q # root
      BY <2>1, <1>15, <1>17, <1>20
    <3>2. PICK i \in 1 .. Len(t[root].files) : RowName(t, root, i) = q
      BY <2>1, <3>1, <1>19
    <3> QED BY <3>1, <3>2, <1>12, BelowSelf
  <2>2. ASSUME NEW d \in dirs, NEW i \in DOMAIN names(d), q = Append(d, names(d)[i])
        PROVE  \E k \in 1 .. Len(t[p].files) : Below(RowName(t, p, k), q)
    <3>1. Below(p, d)
      BY <2>2, <1>16, <1>20
    <3>2. CASE p = d
      BY <2>2, <3>2, <1>18
    <3>3. CASE p # d
      <4>1. p = root /\ d # root
        BY <3>1, <3>3, <1>15, <1>17
      <4>2. PICK k \in 1 .. Len(t[root].files) : RowName(t, root, k) = d
        BY <4>1, <1>19
      <4>3. Below(d, q)
        BY <2>2, <1>9
      <4> QED BY <4>1, <4>2, <4>3
    <3> QED BY <3>2, <3>3
  <2> QED BY <2>1, <2>2, <1>3
<1>21. Walkable(t, root)
  BY <1>2, <1>3, <1>12, <1>13, <1>20 DEF Walkable
<1>22. StubsAreGames(t)
  BY <1>10, <1>11, <1>12 DEF StubsAreGames
<1> QED BY <1>2, <1>10, <1>21, <1>22 DEF t

\* The game a request is in, and where its directory is.
LEMMA GameRootFacts ==
    ASSUME NEW path \in Path
    PROVE  /\ Daemon!HasGame(path) =>
                 Daemon!GameOf(path) \in Games /\ Daemon!GameRoot(path) \in Path
           /\ BaseName(path) \in Games =>
                 Daemon!HasGame(path) /\ Daemon!GameRoot(path) = path
<1> DEFINE n == Len(path)
<1>1. path \in Seq(Name) /\ n \in Nat /\ n > 0 /\ \A k \in 1 .. n : path[k] \in Name
  BY EmptySeq, LenProperties, ElementOfSeq DEF Path
<1> HIDE DEF n
<1>2. ASSUME NEW i \in 1 .. n
      PROVE  /\ SubSeq(path, 1, i) \in Seq(Name) /\ Len(SubSeq(path, 1, i)) = i
             /\ \A k \in 1 .. i : SubSeq(path, 1, i)[k] = path[k]
  <2>1. 1 <= i /\ i - 1 + 1 = i /\ i \in Int /\ 1 \in Int
        /\ \A k \in 1 .. i : k \in 1 .. n /\ 1 + k - 1 = k
    BY ONLY <1>1
  <2>2. \A k \in 1 .. i : path[k] \in Name
    BY ONLY <2>1, <1>1
  <2>3. /\ SubSeq(path, 1, i) \in Seq(Name)
        /\ Len(SubSeq(path, 1, i)) = IF 1 <= i THEN i - 1 + 1 ELSE 0
        /\ \A k \in 1 .. i - 1 + 1 : SubSeq(path, 1, i)[k] = path[1 + k - 1]
    BY ONLY <1>1, <2>1, <2>2, SubSeqProperties
  <2> QED BY ONLY <2>1, <2>3
<1>3. ASSUME Daemon!HasGame(path)
      PROVE  /\ Daemon!GameSegment(path) \in 1 .. n
             /\ Daemon!IsGameSegment(path, Daemon!GameSegment(path))
  BY <1>3 DEF Daemon!HasGame, Daemon!GameSegment, n
<1>4. ASSUME Daemon!HasGame(path)
      PROVE  Daemon!GameOf(path) \in Games /\ Daemon!GameRoot(path) \in Path
  <2>1. Daemon!GameOf(path) \in Games
    BY <1>3, <1>4 DEF Daemon!GameOf, Daemon!IsGameSegment
  <2>2. PICK i \in 1 .. n : Daemon!GameRoot(path) = SubSeq(path, 1, i)
    BY <1>3, <1>4 DEF Daemon!GameRoot
  <2>3. Len(SubSeq(path, 1, i)) # 0
    BY ONLY <1>1, <1>2
  <2> QED BY <2>1, <2>2, <2>3, <1>2, EmptySeq DEF Path
<1>5. ASSUME BaseName(path) \in Games
      PROVE  Daemon!HasGame(path) /\ Daemon!GameRoot(path) = path
  <2>1. n \in 1 .. n /\ path[n] \in Games /\ n + 1 .. n = {}
    BY <1>1, <1>5 DEF BaseName, n
  <2>2. Daemon!HasGame(path)
    BY <2>1 DEF Daemon!HasGame, Daemon!IsGameSegment, n
  <2>3. Daemon!GameSegment(path) = n
    <3> DEFINE i == Daemon!GameSegment(path)
    <3>1. i \in 1 .. n /\ \A j \in i + 1 .. n : path[j] \notin Games
      BY <2>2, <1>3 DEF Daemon!IsGameSegment, n
    <3> HIDE DEF i
    <3>2. n \notin i + 1 .. n
      BY ONLY <2>1, <3>1
    <3>3. i = n
      BY ONLY <3>1, <3>2, <1>1
    <3> QED BY <3>3 DEF i
  <2>4. Daemon!GameRoot(path) = SubSeq(path, 1, n)
    BY <2>3 DEF Daemon!GameRoot
  <2>5. SubSeq(path, 1, n) = path
    BY ONLY <2>1, <1>1, <1>2, SeqEqual DEF n
  <2> QED BY <2>2, <2>4, <2>5
<1> QED BY <1>4, <1>5
-----------------------------------------------------------------------------
(***************************************************************************)
(* One thread: what a request has done so far                               *)
(***************************************************************************)

\* The two caches s as the latest request left them, and what a request that
\* has made a tree adds to them.
Root(l) == IF l.next = "searchget" THEN l.path ELSE Daemon!GameRoot(l.path)
Tree(l) == IF l.next = "searchget"
             THEN StubTree(l.path, l.path, SearchGames[l.path[2]])
             ELSE Daemon!GameTree(Daemon!GameRoot(l.path), Daemon!GameOf(l.path))
Url(l) == IF l.next = "searchget" THEN <<"search", l.path[2]>>
                                  ELSE <<"game", Daemon!GameOf(l.path)>>

Base(s, l) == IF l.next = "relist" THEN Delete(s.fscache, l.path) ELSE s.fscache
Whole(s, l) == AddAll(Base(s, l), Tree(l))

Searches(c) == IF Daemon!SearchDir \in DOMAIN c THEN c[Daemon!SearchDir] ELSE DirEntry(<< >>)
TermRow(l) == Row(Daemon!SearchKey(l.path), "dir")
WithTerm(c, l) == Add(c, Daemon!SearchDir, AddFile(Searches(c), TermRow(l)))

Result(s, l) == IF l.next = "searchget" THEN WithTerm(Whole(s, l), l) ELSE Whole(s, l)

Has(s, path) == path \in DOMAIN s.fscache
HasTerm(s, path) == Has(s, Daemon!SearchKey(path))
HasStub(s, path) == Has(s, path) /\ s.fscache[path].type = "dirstub"

Points(c, path) == IF path \in DOMAIN c THEN c[path] ELSE Null

\* Up to its fetch a request only looks; the rest of its way starts with next
\* still "idle".
Asks(c, o, u, s, l) ==
    /\ l.pc \in {"idle", "lookup", "term", "fetchsearch", "gamelookup", "fetchgame", "read",
                 "list", "unstub", "fetchstub", "row", "flush"}
    /\ Contents(c, o) = s.fscache /\ u = s.urlcache
    /\ l.pc \notin {"idle", "flush"} => l.path \in Requests
    /\ l.pc \in {"lookup", "read", "term", "fetchsearch", "gamelookup", "fetchgame"} =>
         Len(l.path) > 1
    /\ l.pc \in {"term", "fetchsearch", "gamelookup", "fetchgame"} => ~Has(s, l.path)
    /\ l.pc = "fetchsearch" => ~HasTerm(s, l.path)
    /\ l.pc \in {"gamelookup", "fetchgame"} => HasTerm(s, l.path)
    /\ l.pc \in {"read", "unstub", "row"} => Has(s, l.path) /\ l.ptr = Points(c, l.path)
    /\ l.pc = "fetchstub" => HasStub(s, l.path)
    /\ l.pc = "row" => ~HasStub(s, l.path)

\* Why a tree was made, and from which document.
Wanted(u, s, l) ==
    /\ l.path \in Requests
    /\ l.next = "relist" => /\ HasStub(s, l.path) /\ Daemon!HasGame(l.path)
                            /\ Daemon!GameRoot(l.path) = l.path
    /\ l.next # "relist" => Len(l.path) > 1 /\ ~Has(s, l.path)
    /\ l.next = "searchget" => ~HasTerm(s, l.path)
    /\ l.next = "refetch" => HasTerm(s, l.path) /\ Daemon!HasGame(l.path)
    /\ Url(l) \in DOMAIN s.urlcache => s.urlcache[Url(l)] = "good"
    /\ u = Add(s.urlcache, Url(l), "good")

\* The entry of /search, new or found, whose row comes next.
NewSearches(rows) == Object(Daemon!SearchDir, [p \in {Daemon!SearchDir} |-> DirEntry(rows)])

\* The tree is made, goes into the cache, and is there.
Builds(c, o, u, s, l) ==
    /\ l.pc \in {"dump", "delete", "addroot", "addchild", "searchget", "searchrow", "searchadd",
                 "refetch", "gamelookup", "read", "relist", "retype", "row"}
    /\ l.pc \in {"searchget", "searchrow", "searchadd", "gamelookup"} => l.next = "searchget"
    /\ l.pc \in {"refetch", "read"} => l.next \in {"searchget", "refetch"}
    /\ l.pc \in {"dump", "delete", "relist", "retype", "row"} => l.next = "relist"
    /\ Wanted(u, s, l)
    /\ l.pc \in {"dump", "delete", "addroot"} => o[l.new] = Object(Root(l), Tree(l))
    /\ l.pc \in {"dump", "delete"} => Contents(c, o) = s.fscache
    /\ l.pc = "addroot" => Contents(c, o) = Base(s, l)
    /\ l.pc = "addchild" => Adds(c, o, Tree(l), Root(l), Base(s, l), l.stack)
    /\ l.pc \in {"searchget", "searchrow", "searchadd"} => Contents(c, o) = Whole(s, l)
    /\ l.pc = "searchrow" /\ ~l.fresh =>
         Daemon!SearchDir \in DOMAIN c /\ l.ptr = c[Daemon!SearchDir]
    /\ l.pc = "searchrow" /\ l.fresh =>
         Daemon!SearchDir \notin DOMAIN c /\ o[l.ptr] = NewSearches(<< >>)
    /\ l.pc = "searchadd" =>
         Daemon!SearchDir \notin DOMAIN c /\ o[l.ptr] = NewSearches(<<TermRow(l)>>)
    /\ l.pc \in {"refetch", "gamelookup", "read", "relist", "retype", "row"} =>
         Contents(c, o) = Result(s, l)
    /\ l.pc \in {"read", "retype", "row"} => l.ptr = Points(c, l.path)

\* The listing so far is that of the entry the thread points to.
Lists(o, l) ==
    /\ l.names \in Seq(Name)
    /\ l.pc # "row" => l.names = << >>
    /\ l.pc = "row" =>
         /\ l.ptr # Null /\ Held(o[l.ptr]) \in CacheEntry
         /\ l.nfiles = Len(Rows(o[l.ptr])) /\ Len(l.names) <= l.nfiles
         /\ \A i \in 1 .. Len(l.names) : l.names[i] = BaseName(Rows(o[l.ptr])[i].fname)

Serves(c, o, u, s, l) ==
    l.pc \notin {"newtable", "undefined"} =>
        /\ IF l.next = "idle" THEN Asks(c, o, u, s, l) ELSE Builds(c, o, u, s, l)
        /\ Lists(o, l)

AloneAt(c, tb, o, u, s, l) ==
    /\ tb = "live" => Rooted(c, o)
    /\ tb = "freed" => l.pc = "newtable"
    /\ l.pc = "newtable" => u = s.urlcache
    /\ Serves(c, o, u, s, l)
    /\ StubsAreGames(s.fscache)

Alone == \A t \in Threads : AloneAt(cache, table, obj, urlcache, settled, th[t])
-----------------------------------------------------------------------------
(***************************************************************************)
(* What the steps of a request rest on                                      *)
(***************************************************************************)

\* ZxdbFS has the same operators on caches.
LEMMA DaemonOps ==
    /\ \A c, t : Daemon!AddAll(c, t) = AddAll(c, t)
    /\ \A c, k, e : Daemon!Add(c, k, e) = Add(c, k, e)
    /\ \A c, k : Daemon!Delete(c, k) = Delete(c, k)
    /\ \A e, r : Daemon!AddFile(e, r) = AddFile(e, r)
    /\ \A r : Daemon!DirEntry(r) = DirEntry(r)
    /\ \A f, k : Daemon!Row(f, k) = Row(f, k)
    /\ \A p : Daemon!BaseName(p) = BaseName(p)
    /\ \A k, p, g : Daemon!StubTree(k, p, g) = StubTree(k, p, g)
    /\ Daemon!EmptyCache = EmptyCache
  BY DEF Daemon!AddAll, AddAll, Daemon!Add, Add, Daemon!Overlay, Overlay, Daemon!Delete, Delete,
         Daemon!AddFile, AddFile, Daemon!DirEntry, DirEntry, Daemon!Row, Row,
         Daemon!BaseName, BaseName, Daemon!StubTree, StubTree, Daemon!StubRows, StubRows,
         Daemon!StubEntry, StubEntry, Daemon!FileEntry, FileEntry,
         Daemon!EmptyCache, EmptyCache

LEMMA RequestPath ==
    ASSUME NEW path \in Requests
    PROVE  /\ path \in Path /\ path[1] = "search" /\ Len(path) \in Nat
           /\ "search" \in Name /\ Daemon!SearchDir \in Path
           /\ Len(path) > 1 =>
                /\ path[2] \in Terms /\ Daemon!SearchKey(path) \in Path
                /\ path # Daemon!SearchDir
                /\ Daemon!SearchKey(path) # Daemon!SearchDir
                /\ Len(path) = 2 => path = Daemon!SearchKey(path)
<1>1. path \in Seq(STRING) /\ path # << >> /\ path[1] = "search"
  BY WorkersAssumption
<1>2. Len(path) \in Nat /\ Len(path) > 0
  BY ONLY <1>1, EmptySeq, LenProperties
<1>3. \A i \in 1 .. Len(path) : path[i] \in Name
  BY ONLY <1>1, ElementOfSeq DEF Name
<1>4. path \in Path
  <2>1. STRING \subseteq Name
    BY DEF Name
  <2> QED BY <1>1, <2>1, SeqMonotonic DEF Path
<1>5. "search" \in Name
  <2>1. 1 \in 1 .. Len(path)
    BY ONLY <1>2
  <2> QED BY ONLY <1>1, <1>3, <2>1
<1>6. Daemon!SearchDir \in Path /\ Len(Daemon!SearchDir) = 1
  BY <1>5, EmptySeq DEF Daemon!SearchDir, Path
<1>7. ASSUME Len(path) > 1
      PROVE  /\ path[2] \in Terms /\ Daemon!SearchKey(path) \in Path
             /\ path # Daemon!SearchDir
             /\ Daemon!SearchKey(path) # Daemon!SearchDir
             /\ Len(path) = 2 => path = Daemon!SearchKey(path)
  <2>1. path[2] \in Terms
    BY <1>7, WorkersAssumption
  <2>2. path[2] \in Name
    <3>1. 2 \in 1 .. Len(path)
      BY ONLY <1>2, <1>7
    <3> QED BY ONLY <1>3, <3>1
  <2>3. Daemon!SearchKey(path) \in Path /\ Len(Daemon!SearchKey(path)) = 2
    BY <1>5, <2>2, EmptySeq DEF Daemon!SearchKey, Path
  <2>4. path # Daemon!SearchDir /\ Daemon!SearchKey(path) # Daemon!SearchDir
    BY ONLY <1>6, <1>7, <2>3
  <2>5. ASSUME Len(path) = 2 PROVE path = Daemon!SearchKey(path)
    <3>1. path \in Seq(Name) /\ Daemon!SearchKey(path) \in Seq(Name)
      BY <1>4, <2>3 DEF Path
    <3>2. \A i \in 1 .. Len(path) : path[i] = Daemon!SearchKey(path)[i]
      BY <1>1, <2>5 DEF Daemon!SearchKey
    <3> QED BY ONLY <2>3, <2>5, <3>1, <3>2, SeqEqual
  <2> QED BY <2>1, <2>3, <2>4, <2>5
<1> QED BY <1>1, <1>2, <1>4, <1>5, <1>6, <1>7

\* What the cache points to is what it holds.
LEMMA Pointing ==
    ASSUME NEW c, NEW o, Rooted(c, o), DOMAIN o \subseteq Ids
    PROVE  /\ DOMAIN Contents(c, o) = DOMAIN c
           /\ \A p \in DOMAIN c :
                /\ Points(c, p) = c[p] /\ c[p] \in DOMAIN o /\ c[p] # Null
                /\ Held(o[c[p]]) = Contents(c, o)[p]
           /\ \A p : p \notin DOMAIN c <=> Points(c, p) = Null
<1>1. Contents(c, o) = [p \in DOMAIN c |-> o[c[p]].tree[p]]
  BY ONLY Rooted(c, o), ContentsOf
<1>2. \A p \in DOMAIN c : c[p] \in DOMAIN o /\ IsEntryOf(p, o[c[p]])
  BY DEF Rooted
<1>3. \A i \in DOMAIN o : i # Null
  BY WorkersAssumption DEF Ids, Null
<1>4. \A p \in DOMAIN c : /\ c[p] \in DOMAIN o /\ c[p] # Null
                          /\ Held(o[c[p]]) = Contents(c, o)[p]
  BY ONLY <1>1, <1>2, <1>3 DEF Held, IsEntryOf
<1>5. \A p : p \notin DOMAIN c <=> Points(c, p) = Null
  BY ONLY <1>4 DEF Points
<1> QED BY ONLY <1>1, <1>4, <1>5 DEF Points

LEMMA StubsKept ==
    ASSUME NEW c, NEW d, StubsAreGames(c), StubsAreGames(d)
    PROVE  /\ StubsAreGames(AddAll(c, d))
           /\ \A k : StubsAreGames(Delete(c, k))
  BY DEF StubsAreGames, AddAll, Overlay, Delete

LEMMA SearchesKept ==
    ASSUME NEW c, StubsAreGames(c), NEW l, l.path \in Requests, Len(l.path) > 1
    PROVE  StubsAreGames(WithTerm(c, l))
<1> DEFINE e == AddFile(Searches(c), TermRow(l))
           dir == Daemon!SearchDir
<1>1. Searches(c) \in CacheEntry /\ Searches(c).type # "dirstub"
  BY EmptySeq DEF Searches, StubsAreGames, IsStubOfGame, DirEntry, CacheEntry, Kinds
<1>2. TermRow(l) \in [fname : Path, type : Kinds]
  BY RequestPath DEF TermRow, Row, Daemon!Row, Kinds
<1>3. e \in CacheEntry /\ e.type = Searches(c).type
  BY ONLY <1>1, <1>2, AppendProperties DEF AddFile, CacheEntry
<1> HIDE DEF e, dir
<1>4. WithTerm(c, l) = [p \in DOMAIN c \cup {dir} |-> IF p = dir THEN e ELSE c[p]]
  BY AddIs DEF WithTerm, e, dir
<1> QED BY <1>1, <1>3, <1>4 DEF StubsAreGames

\* The tree that a request made, and the cache that it makes of it.
LEMMA WholeFacts ==
    ASSUME NEW s, NEW u, NEW l, StubsAreGames(s.fscache), Wanted(u, s, l),
           l.next \in {"searchget", "refetch", "relist"}
    PROVE  /\ Root(l) \in Path /\ Walkable(Tree(l), Root(l))
           /\ l.next \in {"searchget", "relist"} => Root(l) = l.path
           /\ DOMAIN Whole(s, l) = DOMAIN Base(s, l) \cup DOMAIN Tree(l)
           /\ StubsAreGames(Result(s, l))
           /\ l.next \in {"searchget", "relist"} =>
                l.path \in DOMAIN Result(s, l) /\ Result(s, l)[l.path].type = "dir"
<1>1. /\ l.path \in Path /\ l.path \in Requests
      /\ l.next = "relist" => Daemon!HasGame(l.path) /\ Daemon!GameRoot(l.path) = l.path
      /\ l.next # "relist" => Len(l.path) > 1
      /\ l.next = "refetch" => Daemon!HasGame(l.path)
  BY RequestPath DEF Wanted
<1>2. /\ Root(l) \in Path /\ Walkable(Tree(l), Root(l)) /\ StubsAreGames(Tree(l))
      /\ Tree(l)[Root(l)].type = "dir"
  <2>1. CASE l.next = "searchget"
    <3>1. SearchGames[l.path[2]] \in Seq(Games)
      BY <1>1, <2>1, RequestPath, WorkersAssumption
    <3>2. Root(l) = l.path /\ Tree(l) = StubTree(l.path, l.path, SearchGames[l.path[2]])
      BY <2>1 DEF Root, Tree
    <3> QED BY ONLY <1>1, <3>1, <3>2, StubTreeWalk
  <2>2. CASE l.next # "searchget"
    <3>1. Daemon!GameOf(l.path) \in Games /\ Daemon!GameRoot(l.path) \in Path
      BY <1>1, <2>2, GameRootFacts
    <3>2. /\ Root(l) = Daemon!GameRoot(l.path)
          /\ Tree(l) = Daemon!GameTree(Daemon!GameRoot(l.path), Daemon!GameOf(l.path))
      BY <2>2 DEF Root, Tree
    <3> QED BY ONLY <3>1, <3>2, GameTreeWalk
  <2> QED BY <2>1, <2>2
<1>3. l.next \in {"searchget", "relist"} => Root(l) = l.path
  BY <1>1 DEF Root
<1>4. /\ DOMAIN Whole(s, l) = DOMAIN Base(s, l) \cup DOMAIN Tree(l)
      /\ \A p \in DOMAIN Tree(l) : Whole(s, l)[p] = Tree(l)[p]
  BY DEF Whole, AddAll, Overlay
<1>5. StubsAreGames(Whole(s, l))
  <2>1. StubsAreGames(Base(s, l))
    BY StubsKept DEF Base
  <2> QED BY ONLY <1>2, <2>1, StubsKept DEF Whole
<1>6. StubsAreGames(Result(s, l))
  BY <1>1, <1>5, SearchesKept DEF Result
<1>7. ASSUME l.next \in {"searchget", "relist"}
      PROVE  l.path \in DOMAIN Result(s, l) /\ Result(s, l)[l.path].type = "dir"
  <2>1. l.path \in DOMAIN Whole(s, l) /\ Whole(s, l)[l.path].type = "dir"
    <3>1. Root(l) \in DOMAIN Tree(l)
      BY ONLY <1>2 DEF Walkable
    <3> QED BY ONLY <3>1, <1>2, <1>3, <1>4, <1>7
  <2>2. CASE l.next = "searchget"
    <3>1. Daemon!SearchDir # l.path
      BY <2>2, <1>1, RequestPath
    <3>2. Result(s, l) = Add(Whole(s, l), Daemon!SearchDir,
                             AddFile(Searches(Whole(s, l)), TermRow(l)))
      BY <2>2 DEF Result, WithTerm
    <3> QED BY ONLY <2>1, <3>1, <3>2, AddIs
  <2>3. CASE l.next # "searchget"
    BY <2>1, <2>3 DEF Result
  <2> QED BY <2>2, <2>3
<1> QED BY ONLY <1>2, <1>3, <1>4, <1>6, <1>7
-----------------------------------------------------------------------------
(***************************************************************************)
(* The steps of a thread that is alone: its own invariant, and a step of    *)
(* ZxdbFS or none                                                           *)
(***************************************************************************)

Lone(t) == AloneAt(cache, table, obj, urlcache, settled, th[t])
LoneNext(t) == AloneAt(cache', table', obj', urlcache', settled', th'[t])
Implements == [Daemon!Next]_(Daemon!vars)

LEMMA Alive ==
    ASSUME IInv, NEW t \in Threads, Lone(t), th[t].pc # "newtable"
    PROVE  /\ table = "live" /\ Rooted(cache, obj) /\ DOMAIN obj \subseteq Ids
           /\ StubsAreGames(settled.fscache) /\ PlaceOK(th[t])
  BY DEF Lone, AloneAt, IInv, FlushOK, HandlersOwn, ThreadsOK

\* The thread goes on, and has not answered.
LEMMA GoesOnAlone ==
    ASSUME NEW t \in Threads, table' = "live", Rooted(cache', obj'), InHandler,
           StubsAreGames(settled.fscache),
           NEW l, MovesTo(t, l), l.pc # "newtable", Serves(cache', obj', urlcache', settled, l)
    PROVE  LoneNext(t) /\ Implements
<1>1. Implements
  BY DEF InHandler, Implements, Daemon!vars
<1>2. settled' = settled /\ th'[t] = l
  BY DEF InHandler, MovesTo
<1>3. LoneNext(t)
  BY <1>2 DEF LoneNext, AloneAt
<1> QED BY <1>1, <1>3

LEMMA LooksAlone ==
    ASSUME IInv, NEW t \in Threads, Lone(t), th[t].pc # "newtable",
           UNCHANGED <<cache, table, obj, urlcache, settled, reply>>,
           NEW l, MovesTo(t, l), l.pc # "newtable", Serves(cache, obj, urlcache, settled, l)
    PROVE  LoneNext(t) /\ Implements
<1>1. table' = "live" /\ Rooted(cache', obj') /\ StubsAreGames(settled.fscache)
  BY Alive
<1>2. Serves(cache', obj', urlcache', settled, l) /\ InHandler
  BY DEF InHandler
<1> QED BY <1>1, <1>2, GoesOnAlone

LEMMA RequestAlone ==
    ASSUME IInv, NEW t \in Threads, Lone(t), Request(t) \/ Undefined(t)
    PROVE  LoneNext(t) /\ Implements
<1>1. ASSUME NEW pc \in {"lookup", "list", "flush"}, NEW path, Start(t, pc, path),
             pc # "flush" => path \in Requests, pc = "lookup" => Len(path) > 1
      PROVE  LoneNext(t) /\ Implements
  <2> DEFINE l == Overlay(th[t], [pc |-> pc, path |-> path])
  <2>1. MovesTo(t, l) /\ PlaceOK(th[t]) /\ th[t].pc = "idle"
    BY <1>1, StepMoves DEF Start, IInv, ThreadsOK
  <2>2. /\ l.pc = pc /\ l.path = path /\ l.next = th[t].next /\ l.names = th[t].names
    BY <2>1 DEF PlaceOK, Overlay, Idle
  <2> HIDE DEF l
  <2>3. Serves(cache, obj, urlcache, settled, th[t])
    BY DEF Lone, AloneAt
  <2>4. /\ th[t].next = "idle" /\ Asks(cache, obj, urlcache, settled, th[t])
        /\ Lists(obj, th[t])
    BY <2>1, <2>3 DEF Serves, Builds
  <2>5. Asks(cache, obj, urlcache, settled, l)
    BY <1>1, <2>2, <2>4 DEF Asks
  <2>6. Lists(obj, l)
    BY <2>1, <2>2, <2>4 DEF Lists
  <2>7. Serves(cache, obj, urlcache, settled, l)
    BY <2>2, <2>4, <2>5, <2>6 DEF Serves
  <2> QED BY <1>1, <2>1, <2>2, <2>7, LooksAlone DEF Start
<1>2. ASSUME Undefined(t) PROVE LoneNext(t) /\ Implements
  <2> DEFINE l == Overlay(th[t], [pc |-> "undefined"])
  <2>1. MovesTo(t, l) /\ PlaceOK(th[t])
    BY <1>2, StepMoves DEF Undefined, IInv, ThreadsOK
  <2>2. l.pc = "undefined"
    BY <2>1 DEF PlaceOK, Overlay, Idle
  <2> HIDE DEF l
  <2>3. Serves(cache, obj, urlcache, settled, l)
    BY <2>2 DEF Serves
  <2>4. th[t].pc # "newtable"
    BY <1>2 DEF Undefined, IsDangling, CallsTable, ReadsEntry
  <2> QED BY <1>2, <2>1, <2>2, <2>3, <2>4, LooksAlone DEF Undefined
<1>3. ASSUME NEW path \in Requests, Len(path) > 1, Start(t, "lookup", path)
      PROVE  LoneNext(t) /\ Implements
  BY <1>1, <1>3
<1>4. ASSUME NEW path \in Requests, Start(t, "list", path) PROVE LoneNext(t) /\ Implements
  BY <1>1, <1>4
<1>5. ASSUME Start(t, "flush", << >>) PROVE LoneNext(t) /\ Implements
  BY <1>1, <1>5
<1> QED BY <1>2, <1>3, <1>4, <1>5 DEF Request

\* The attributes of a path: up to the fetch, and after it.
LEMMA FindAlone ==
    ASSUME IInv, NEW t \in Threads, Lone(t),
           Lookup(t) \/ Term(t) \/ GameLookup(t) \/ Refetch(t)
    PROVE  LoneNext(t) /\ Implements
<1> USE DEF At
<1>1. /\ table = "live" /\ Rooted(cache, obj) /\ DOMAIN obj \subseteq Ids
      /\ StubsAreGames(settled.fscache) /\ PlaceOK(th[t])
  BY Alive DEF Lookup, Term, GameLookup, Refetch
<1>2. /\ DOMAIN Contents(cache, obj) = DOMAIN cache
      /\ \A p : p \notin DOMAIN cache <=> Points(cache, p) = Null
  BY ONLY <1>1, Pointing
<1>3. \A p : Found(p) = Points(cache, p)
  BY DEF Found, Points
<1>4. /\ IF th[t].next = "idle" THEN Asks(cache, obj, urlcache, settled, th[t])
                                ELSE Builds(cache, obj, urlcache, settled, th[t])
      /\ Lists(obj, th[t])
  BY DEF Lone, AloneAt, Serves, Lookup, Term, GameLookup, Refetch
<1>5. ASSUME NEW pc, NEW ptr, Step(t, [pc |-> pc, ptr |-> ptr]), InHandler,
             UNCHANGED <<cache, table, obj, urlcache>>,
             th[t].pc \in {"lookup", "term", "gamelookup", "refetch"}, 
             pc \in {"term", "read", "fetchsearch", "gamelookup", "fetchgame"},
             \A l : /\ l.pc = pc /\ l.ptr = ptr /\ l.path = th[t].path
                    /\ l.next = th[t].next /\ l.names = th[t].names
                    => IF th[t].next = "idle" THEN Asks(cache, obj, urlcache, settled, l)
                                              ELSE Builds(cache, obj, urlcache, settled, l)
      PROVE  LoneNext(t) /\ Implements
  <2> DEFINE l == Overlay(th[t], [pc |-> pc, ptr |-> ptr])
  <2>1. MovesTo(t, l)
    BY <1>5, StepMoves DEF IInv
  <2>2. /\ l.pc = pc /\ l.ptr = ptr /\ l.path = th[t].path
        /\ l.next = th[t].next /\ l.names = th[t].names
    BY <1>1 DEF PlaceOK, Overlay, Idle
  <2> HIDE DEF l
  <2>3. Lists(obj, l)
    BY <1>4, <1>5, <2>2 DEF Lists
  <2>4. Serves(cache, obj, urlcache, settled, l)
    BY <1>5, <2>2, <2>3 DEF Serves
  <2> QED BY <1>5, <2>1, <2>2, <2>4, LooksAlone DEF InHandler
<1>6. CASE Lookup(t)
  <2> DEFINE path == th[t].path
  <2>1. th[t].next = "idle" /\ Asks(cache, obj, urlcache, settled, th[t])
    BY <1>4, <1>6 DEF Builds, Lookup
  <2>2. path \in Requests /\ Len(path) > 1 /\ Contents(cache, obj) = settled.fscache
        /\ urlcache = settled.urlcache
    BY <1>6, <2>1 DEF Asks, Lookup
  <2>3. Has(settled, path) <=> Points(cache, path) # Null
    BY ONLY <1>2, <2>2 DEF Has
  <2> HIDE DEF path
  <2>4. ASSUME NEW l, l.path = path,
               \/ l.pc = "term" /\ Points(cache, path) = Null
               \/ l.pc = "read" /\ Points(cache, path) # Null /\ l.ptr = Points(cache, path)
        PROVE  Asks(cache, obj, urlcache, settled, l)
    BY ONLY <2>2, <2>3, <2>4 DEF Asks
  <2> QED BY <1>3, <1>5, <1>6, <2>1, <2>4 DEF Lookup, path
<1>7. CASE Term(t)
  <2> DEFINE path == th[t].path
             key == Daemon!SearchKey(path)
  <2>1. th[t].next = "idle" /\ Asks(cache, obj, urlcache, settled, th[t])
    BY <1>4, <1>7 DEF Builds, Term
  <2>2. path \in Requests /\ Len(path) > 1 /\ Contents(cache, obj) = settled.fscache
        /\ urlcache = settled.urlcache /\ ~Has(settled, path)
    BY <1>7, <2>1 DEF Asks, Term
  <2>3. Has(settled, key) <=> Points(cache, key) # Null
    BY ONLY <1>2, <2>2 DEF Has
  <2>4. Len(path) = 2 => path = key
    BY <2>2, RequestPath
  <2> HIDE DEF path, key
  <2>5. ASSUME NEW l, l.path = path,
               \/ l.pc = "fetchsearch" /\ Points(cache, key) = Null
               \/ l.pc = "gamelookup" /\ Points(cache, key) # Null
        PROVE  Asks(cache, obj, urlcache, settled, l)
    BY ONLY <2>2, <2>3, <2>5 DEF Asks, HasTerm, key
  <2>6. Len(path) = 2 => Points(cache, key) = Null
    BY ONLY <2>2, <2>3, <2>4
  <2> QED BY <1>3, <1>5, <1>7, <2>1, <2>5, <2>6 DEF Term, path, key
<1>8. CASE GameLookup(t) /\ th[t].next = "idle"
  <2> DEFINE path == th[t].path
  <2>1. Asks(cache, obj, urlcache, settled, th[t])
    BY <1>4, <1>8
  <2>2. /\ path \in Requests /\ Len(path) > 1 /\ Contents(cache, obj) = settled.fscache
        /\ urlcache = settled.urlcache /\ ~Has(settled, path) /\ HasTerm(settled, path)
    BY <1>8, <2>1 DEF Asks, GameLookup
  <2>3. Points(cache, path) = Null
    BY ONLY <1>2, <2>2 DEF Has
  <2> HIDE DEF path
  <2>4. ASSUME NEW l, l.path = path, l.pc = "fetchgame"
        PROVE  Asks(cache, obj, urlcache, settled, l)
    BY ONLY <2>2, <2>4 DEF Asks
  <2> QED BY <1>3, <1>5, <1>8, <2>3, <2>4 DEF GameLookup, path
<1>9. CASE \/ GameLookup(t) /\ th[t].next # "idle"
          \/ Refetch(t)
  <2> DEFINE path == th[t].path
  <2>1. Builds(cache, obj, urlcache, settled, th[t]) /\ th[t].next # "idle"
    <3>1. th[t].next = "idle" => ~Refetch(t)
      BY <1>4 DEF Refetch, Asks
    <3> QED BY <1>4, <1>9, <3>1
  <2>2. /\ th[t].next \in {"searchget", "refetch"} /\ Wanted(urlcache, settled, th[t])
        /\ Contents(cache, obj) = Result(settled, th[t])
        /\ GameLookup(t) => th[t].next = "searchget"
    BY <1>9, <2>1 DEF Builds, GameLookup, Refetch
  <2>3. ASSUME NEW l, l.path = th[t].path, l.next = th[t].next,
               \/ l.pc = "gamelookup" /\ l.next = "searchget"
               \/ l.pc = "read" /\ l.ptr = Points(cache, th[t].path)
        PROVE  Builds(cache, obj, urlcache, settled, l)
    <3>1. Result(settled, l) = Result(settled, th[t])
      BY <2>3 DEF Result, Whole, Base, Tree, WithTerm, TermRow
    <3>2. Wanted(urlcache, settled, l)
      BY <2>2, <2>3 DEF Wanted, Url
    <3> QED BY ONLY <2>2, <2>3, <3>1, <3>2 DEF Builds
  <2>4. ASSUME GameLookup(t) PROVE Points(cache, th[t].path) # Null
    <3>1. th[t].path \in DOMAIN Result(settled, th[t])
      BY ONLY <1>1, <2>2, <2>4, WholeFacts
    <3> QED BY ONLY <1>2, <2>2, <3>1
  <2>5. CASE GameLookup(t)
    BY <1>3, <1>5, <2>1, <2>3, <2>4, <2>5 DEF GameLookup
  <2>6. CASE Refetch(t)
    BY <1>3, <1>5, <2>1, <2>3, <2>6 DEF Refetch
  <2> QED BY <1>9, <2>5, <2>6
<1> QED BY <1>6, <1>7, <1>8, <1>9

\* The entry that the thread points to is that of its path.
LEMMA PointsAtPath ==
    ASSUME NEW c, NEW o, Rooted(c, o), DOMAIN o \subseteq Ids, NEW path, NEW ptr,
           ptr = Points(c, path), NEW kept, kept = Contents(c, o), path \in DOMAIN kept
    PROVE  ptr # Null /\ Held(o[ptr]) = kept[path] /\ Rows(o[ptr]) = kept[path].files
  BY Pointing DEF Rows

\* A listing, from the look at the entry to its last row.
LEMMA ListAlone ==
    ASSUME IInv, NEW t \in Threads, Lone(t),
           \/ List(t) /\ Found(th[t].path) # Null
           \/ Unstub(t) \/ Dump(t) \/ Relist(t)
    PROVE  LoneNext(t) /\ Implements
<1> USE DEF At
<1>1. /\ table = "live" /\ Rooted(cache, obj) /\ DOMAIN obj \subseteq Ids
      /\ StubsAreGames(settled.fscache) /\ PlaceOK(th[t])
  BY Alive DEF List, Unstub, Dump, Relist
<1>2. /\ DOMAIN Contents(cache, obj) = DOMAIN cache
      /\ \A p : p \notin DOMAIN cache <=> Points(cache, p) = Null
  BY ONLY <1>1, Pointing
<1>3. \A p : Found(p) = Points(cache, p)
  BY DEF Found, Points
<1>4. /\ IF th[t].next = "idle" THEN Asks(cache, obj, urlcache, settled, th[t])
                                ELSE Builds(cache, obj, urlcache, settled, th[t])
      /\ Lists(obj, th[t])
  BY DEF Lone, AloneAt, Serves, List, Unstub, Dump, Relist
<1>5. CASE List(t) /\ Found(th[t].path) # Null
  <2> DEFINE l == Overlay(th[t], [pc |-> "unstub", ptr |-> Found(th[t].path)])
  <2>1. MovesTo(t, l)
    BY <1>5, StepMoves DEF List, IInv
  <2>2. /\ l.pc = "unstub" /\ l.ptr = Found(th[t].path) /\ l.path = th[t].path
        /\ l.next = th[t].next /\ l.names = th[t].names
    BY <1>1 DEF PlaceOK, Overlay, Idle
  <2> HIDE DEF l
  <2>3. th[t].next = "idle" /\ Asks(cache, obj, urlcache, settled, th[t])
    BY <1>4, <1>5 DEF Builds, List
  <2>4. Asks(cache, obj, urlcache, settled, l)
    <3>1. /\ th[t].path \in Requests /\ Contents(cache, obj) = settled.fscache
          /\ urlcache = settled.urlcache
      BY <1>5, <2>3 DEF Asks, List
    <3>2. Has(settled, th[t].path)
      BY <1>2, <1>3, <1>5, <3>1 DEF Has
    <3> QED BY ONLY <2>2, <3>1, <3>2, <1>3 DEF Asks
  <2>5. Lists(obj, l)
    BY <1>4, <1>5, <2>2 DEF Lists, List
  <2>6. Serves(cache, obj, urlcache, settled, l)
    BY <2>2, <2>3, <2>4, <2>5 DEF Serves
  <2> QED BY <1>5, <2>1, <2>2, <2>6, LooksAlone DEF List, InHandler
<1>6. CASE Unstub(t)
  <2> DEFINE pc == IF Held(obj[th[t].ptr]).type = "dirstub" THEN "fetchstub" ELSE "row"
             l == Overlay(th[t], [pc |-> pc, nfiles |-> Len(Rows(obj[th[t].ptr]))])
  <2>1. MovesTo(t, l)
    BY <1>6, StepMoves DEF Unstub, IInv
  <2>2. /\ l.pc = pc /\ l.ptr = th[t].ptr /\ l.path = th[t].path
        /\ l.nfiles = Len(Rows(obj[th[t].ptr]))
        /\ l.next = th[t].next /\ l.names = th[t].names
    BY <1>1 DEF PlaceOK, Overlay, Idle
  <2> HIDE DEF l
  <2>3. th[t].next = "idle" /\ Asks(cache, obj, urlcache, settled, th[t])
    BY <1>4, <1>6 DEF Builds, Unstub
  <2>4. /\ th[t].path \in Requests /\ Contents(cache, obj) = settled.fscache
        /\ urlcache = settled.urlcache /\ Has(settled, th[t].path)
        /\ th[t].ptr = Points(cache, th[t].path)
    BY <1>6, <2>3 DEF Asks, Unstub
  <2>5. /\ th[t].ptr # Null /\ Held(obj[th[t].ptr]) = settled.fscache[th[t].path]
        /\ Rows(obj[th[t].ptr]) = settled.fscache[th[t].path].files
    BY ONLY <1>1, <2>4, PointsAtPath DEF Has
  <2>6. Asks(cache, obj, urlcache, settled, l)
    BY ONLY <2>2, <2>4, <2>5 DEF Asks, HasStub
  <2>7. settled.fscache[th[t].path] \in CacheEntry
    BY <1>1, <2>4 DEF StubsAreGames, Has
  <2>8. Lists(obj, l)
    <3>1. th[t].names = << >> /\ th[t].names \in Seq(Name)
      BY <1>4, <1>6 DEF Lists, Unstub
    <3>2. Len(<< >>) = 0 /\ 1 .. 0 = {} /\ Len(Rows(obj[th[t].ptr])) \in Nat
      BY <2>5, <2>7, LenProperties DEF CacheEntry
    <3> QED BY ONLY <2>2, <2>5, <2>7, <3>1, <3>2 DEF Lists
  <2>9. Serves(cache, obj, urlcache, settled, l)
    BY <2>2, <2>3, <2>6, <2>8 DEF Serves
  <2>10. l.pc # "newtable"
    BY <2>2
  <2> QED BY <1>6, <2>1, <2>9, <2>10, LooksAlone DEF Unstub, InHandler
<1>7. CASE Dump(t)
  <2> DEFINE l == Overlay(th[t], [pc |-> "delete"])
  <2>1. MovesTo(t, l)
    BY <1>7, StepMoves DEF Dump, IInv
  <2>2. /\ l.pc = "delete" /\ l.path = th[t].path /\ l.new = th[t].new
        /\ l.next = th[t].next /\ l.names = th[t].names
    BY <1>1 DEF PlaceOK, Overlay, Idle
  <2> HIDE DEF l
  <2>3. th[t].next # "idle" /\ Builds(cache, obj, urlcache, settled, th[t])
    BY <1>4, <1>7 DEF Asks, Dump
  <2>4. Builds(cache, obj, urlcache, settled, l)
    <3>1. /\ th[t].next = "relist" /\ Wanted(urlcache, settled, th[t])
          /\ obj[th[t].new] = Object(Root(th[t]), Tree(th[t]))
          /\ Contents(cache, obj) = settled.fscache
      BY <1>7, <2>3 DEF Builds, Dump
    <3>2. Wanted(urlcache, settled, l) /\ Root(l) = Root(th[t]) /\ Tree(l) = Tree(th[t])
      BY <2>2, <3>1 DEF Wanted, Url, Root, Tree
    <3> QED BY ONLY <2>2, <3>1, <3>2 DEF Builds
  <2>5. Lists(obj, l)
    BY <1>4, <1>7, <2>2 DEF Lists, Dump
  <2>6. Serves(cache, obj, urlcache, settled, l)
    BY <2>2, <2>3, <2>4, <2>5 DEF Serves
  <2> QED BY <1>7, <2>1, <2>2, <2>6, LooksAlone DEF Dump, InHandler
<1>8. CASE Relist(t)
  <2> DEFINE l == Overlay(th[t], [pc |-> "retype", ptr |-> Found(th[t].path)])
  <2>1. MovesTo(t, l)
    BY <1>8, StepMoves DEF Relist, IInv
  <2>2. /\ l.pc = "retype" /\ l.path = th[t].path /\ l.ptr = Found(th[t].path)
        /\ l.next = th[t].next /\ l.names = th[t].names
    BY <1>1 DEF PlaceOK, Overlay, Idle
  <2> HIDE DEF l
  <2>3. th[t].next # "idle" /\ Builds(cache, obj, urlcache, settled, th[t])
    BY <1>4, <1>8 DEF Asks, Relist
  <2>4. Builds(cache, obj, urlcache, settled, l)
    <3>1. /\ th[t].next = "relist" /\ Wanted(urlcache, settled, th[t])
          /\ Contents(cache, obj) = Result(settled, th[t])
      BY <1>8, <2>3 DEF Builds, Relist
    <3>2. Wanted(urlcache, settled, l) /\ Result(settled, l) = Result(settled, th[t])
      BY <2>2, <3>1 DEF Wanted, Url, Result, Whole, Base, Tree, WithTerm, TermRow
    <3> QED BY ONLY <2>2, <3>1, <3>2, <1>3 DEF Builds
  <2>5. Lists(obj, l)
    BY <1>4, <1>8, <2>2 DEF Lists, Relist
  <2>6. Serves(cache, obj, urlcache, settled, l)
    BY <2>2, <2>3, <2>4, <2>5 DEF Serves
  <2> QED BY <1>8, <2>1, <2>2, <2>6, LooksAlone DEF Relist, InHandler
<1> QED BY <1>5, <1>6, <1>7, <1>8

LEMMA RetypeAlone ==
    ASSUME IInv, NEW t \in Threads, Lone(t), Retype(t)
    PROVE  LoneNext(t) /\ Implements
<1> USE DEF At
<1>1. /\ table = "live" /\ Rooted(cache, obj) /\ DOMAIN obj \subseteq Ids
      /\ StubsAreGames(settled.fscache) /\ PlaceOK(th[t])
  BY Alive DEF Retype
<1>2. /\ IF th[t].next = "idle" THEN Asks(cache, obj, urlcache, settled, th[t])
                                ELSE Builds(cache, obj, urlcache, settled, th[t])
      /\ Lists(obj, th[t])
  BY DEF Lone, AloneAt, Serves, Retype
<1>3. th[t].next # "idle" /\ Builds(cache, obj, urlcache, settled, th[t])
  BY <1>2 DEF Asks, Retype
<1>4. /\ th[t].next = "relist" /\ Wanted(urlcache, settled, th[t])
      /\ Contents(cache, obj) = Result(settled, th[t])
      /\ th[t].ptr = Points(cache, th[t].path)
  BY <1>3 DEF Builds, Retype
<1>5. /\ StubsAreGames(Result(settled, th[t]))
      /\ th[t].path \in DOMAIN Result(settled, th[t])
      /\ Result(settled, th[t])[th[t].path].type = "dir"
  BY ONLY <1>1, <1>4, WholeFacts
<1>6. /\ th[t].ptr # Null
      /\ Held(obj[th[t].ptr]) = Result(settled, th[t])[th[t].path]
      /\ Rows(obj[th[t].ptr]) = Result(settled, th[t])[th[t].path].files
  BY ONLY <1>1, <1>4, <1>5, PointsAtPath
<1>7. /\ Step(t, [pc |-> "row", nfiles |-> Len(Rows(obj[th[t].ptr]))]) /\ InHandler
      /\ UNCHANGED <<cache, table, obj, urlcache>>
  BY <1>5, <1>6 DEF Retype
<1> DEFINE l == Overlay(th[t], [pc |-> "row", nfiles |-> Len(Rows(obj[th[t].ptr]))])
<1>8. MovesTo(t, l)
  BY <1>7, StepMoves DEF IInv
<1>9. /\ l.pc = "row" /\ l.path = th[t].path /\ l.ptr = th[t].ptr
      /\ l.nfiles = Len(Rows(obj[th[t].ptr]))
      /\ l.next = th[t].next /\ l.names = th[t].names
  BY <1>1 DEF PlaceOK, Overlay, Idle
<1> HIDE DEF l
<1>10. Builds(cache, obj, urlcache, settled, l)
  <2>1. Wanted(urlcache, settled, l) /\ Result(settled, l) = Result(settled, th[t])
    BY <1>4, <1>9 DEF Wanted, Url, Result, Whole, Base, Tree, WithTerm, TermRow
  <2> QED BY ONLY <1>4, <1>9, <2>1 DEF Builds
<1>11. Lists(obj, l)
  <2>1. th[t].names = << >> /\ th[t].names \in Seq(Name)
    BY <1>2 DEF Lists, Retype
  <2>2. Result(settled, th[t])[th[t].path] \in CacheEntry
    BY ONLY <1>5 DEF StubsAreGames
  <2>3. Len(<< >>) = 0 /\ 1 .. 0 = {} /\ Len(Rows(obj[th[t].ptr])) \in Nat
    BY <1>6, <2>2, LenProperties DEF CacheEntry
  <2> QED BY ONLY <1>6, <1>9, <2>1, <2>2, <2>3 DEF Lists
<1>12. Serves(cache, obj, urlcache, settled, l)
  BY <1>3, <1>9, <1>10, <1>11 DEF Serves
<1>13. l.pc # "newtable" /\ th[t].pc # "newtable"
  BY <1>9 DEF Retype
<1> QED BY <1>7, <1>8, <1>12, <1>13, LooksAlone DEF InHandler

\* The thread answers: the request is a step of ZxdbFS.
LEMMA AnswersAlone ==
    ASSUME IInv, NEW t \in Threads, table' = "live", Rooted(cache', obj'),
           NEW op, NEW path, NEW kind, NEW names, Finish(t, op, path, kind, names),
           StubsAreGames(Contents(cache', obj'))
    PROVE  /\ LoneNext(t)
           /\ settled'.fscache = Contents(cache', obj') /\ settled'.urlcache = urlcache'
           /\ reply' = [op |-> op, path |-> path, kind |-> kind, names |-> names]
<1>1. th'[t] = Idle
  BY FinishMoves DEF MovesTo, IInv
<1>2. settled' = [fscache |-> Contents(cache', obj'), urlcache |-> urlcache']
  BY DEF Finish
<1> DEFINE s2 == [fscache |-> Contents(cache', obj'), urlcache |-> urlcache']
<1>3. s2.fscache = Contents(cache', obj') /\ s2.urlcache = urlcache'
  OBVIOUS
<1> HIDE DEF s2
<1>4. Asks(cache', obj', urlcache', s2, Idle)
  BY <1>3 DEF Asks, Idle
<1>5. Lists(obj', Idle)
  <2>1. << >> \in Seq(Name)
    BY EmptySeq
  <2> QED BY <2>1 DEF Lists, Idle
<1>6. Serves(cache', obj', urlcache', s2, Idle)
  <2>1. Idle.next = "idle"
    BY DEF Idle
  <2> QED BY <2>1, <1>4, <1>5 DEF Serves
<1>7. AloneAt(cache', "live", obj', urlcache', s2, Idle)
  BY <1>3, <1>6 DEF AloneAt
<1>8. LoneNext(t)
  BY <1>1, <1>2, <1>7 DEF LoneNext, s2
<1> QED BY <1>2, <1>8 DEF Finish

\* The answer is what ZxdbFS says of the cache that the request leaves.
LEMMA ListingIs ==
    ASSUME NEW names \in Seq(Name), NEW files, DOMAIN files = 1 .. Len(names),
           \A i \in 1 .. Len(names) : names[i] = BaseName(files[i].fname)
    PROVE  names = [i \in DOMAIN files |-> BaseName(files[i].fname)]
  OBVIOUS

LEMMA NotFixed ==
    ASSUME NEW path \in Requests
    PROVE  ~Daemon!IsLetterDir(path) /\ (Len(path) > 1 => ~Daemon!IsFixedDir(path))
           /\ path # <<"by-letter">>
<1>1. path[1] = "search" /\ Len(path) \in Nat
  BY RequestPath
<1> QED BY <1>1 DEF Daemon!IsLetterDir, Daemon!IsFixedDir

LEMMA ReadAlone ==
    ASSUME IInv, NEW t \in Threads, Lone(t), Read(t)
    PROVE  LoneNext(t) /\ Implements
<1> USE DEF At
<1> DEFINE path == th[t].path
           kept == Contents(cache, obj)
           kind == IF th[t].ptr = Null THEN "none"
                   ELSE IF Held(obj[th[t].ptr]).type = "file" THEN "file" ELSE "dir"
<1>1. /\ table = "live" /\ Rooted(cache, obj) /\ DOMAIN obj \subseteq Ids
      /\ StubsAreGames(settled.fscache) /\ PlaceOK(th[t])
  BY Alive DEF Read
<1>2. /\ IF th[t].next = "idle" THEN Asks(cache, obj, urlcache, settled, th[t])
                                ELSE Builds(cache, obj, urlcache, settled, th[t])
  BY DEF Lone, AloneAt, Serves, Read
<1>3. /\ UNCHANGED <<cache, table, obj, urlcache>>
      /\ Finish(t, "getattr", path, kind, << >>)
  BY DEF Read
<1>4. kind = Daemon!KindIn(kept, path)
  <2>1. th[t].ptr = Points(cache, path)
    BY <1>2 DEF Asks, Builds, Read
  <2>2. DOMAIN kept = DOMAIN cache
    BY ONLY <1>1, Pointing
  <2>3. CASE path \in DOMAIN kept
    BY <1>1, <2>1, <2>3, PointsAtPath DEF Daemon!KindIn
  <2>4. CASE path \notin DOMAIN kept
    BY <1>1, <2>1, <2>2, <2>4, Pointing DEF Daemon!KindIn
  <2> QED BY <2>3, <2>4
<1> HIDE DEF kind, path, kept
<1>5. ASSUME StubsAreGames(kept)
      PROVE  /\ LoneNext(t) /\ settled'.fscache = kept /\ settled'.urlcache = urlcache
             /\ reply' = [op |-> "getattr", path |-> path, kind |-> kind, names |-> << >>]
  BY <1>1, <1>3, <1>5, AnswersAlone DEF kept
<1>6. CASE th[t].next = "idle"
  <2>1. /\ path \in Requests /\ Len(path) > 1 /\ kept = settled.fscache
        /\ urlcache = settled.urlcache /\ Has(settled, path)
    BY <1>2, <1>6 DEF Asks, Read, kept, path
  <2>2. Daemon!GetattrHit(path)
    BY <1>1, <1>4, <1>5, <2>1, NotFixed DEF Daemon!GetattrHit, Daemon!Answer, Has
  <2>3. Daemon!Next
    BY <2>1, <2>2 DEF Daemon!Next
  <2> QED BY <1>1, <1>5, <2>1, <2>3 DEF Implements
<1>7. CASE th[t].next # "idle"
  <2>1. /\ th[t].next \in {"searchget", "refetch"} /\ Wanted(urlcache, settled, th[t])
        /\ kept = Result(settled, th[t])
    BY <1>2, <1>7 DEF Builds, Read, kept
  <2>2. StubsAreGames(kept)
    BY ONLY <1>1, <2>1, WholeFacts
  <2>3. /\ path \in Requests /\ Len(path) > 1 /\ ~Has(settled, path)
        /\ path[1] = "search"
    BY <2>1, RequestPath DEF Wanted, path
  <2>4. CASE th[t].next = "searchget"
    <3> DEFINE url == <<"search", path[2]>>
               whole == AddAll(settled.fscache, StubTree(path, path, SearchGames[path[2]]))
    <3>1. /\ ~HasTerm(settled, path) /\ Url(th[t]) = url
          /\ url \in DOMAIN settled.urlcache => settled.urlcache[url] = "good"
          /\ urlcache = Add(settled.urlcache, url, "good")
      BY <2>1, <2>4 DEF Wanted, Url, path
    <3>2. kind = "dir"
      <4>1. path \in DOMAIN kept /\ kept[path].type = "dir"
        BY <1>1, <2>1, <2>4, WholeFacts DEF path
      <4> QED BY <1>4, <4>1 DEF Daemon!KindIn
    <3>3. Daemon!GetURL(url, "good")
      BY <1>5, <2>2, <3>1, DaemonOps DEF Daemon!GetURL
    <3>4. kept = Add(whole, Daemon!SearchDir,
                     AddFile(Searches(whole), Row(Daemon!SearchKey(path), "dir")))
      BY <2>1, <2>4 DEF Result, WithTerm, Whole, Base, Tree, TermRow, path
    <3>5. Daemon!GetattrSearch(path, "good")
      <4>1. Daemon!IsNewSearch(path) /\ ~Daemon!IsFixedDir(path)
            /\ path \notin DOMAIN settled.fscache
        BY <2>3, <3>1, NotFixed DEF Daemon!IsNewSearch, HasTerm, Has
      <4>2. whole = Daemon!AddAll(settled.fscache,
                                  Daemon!StubTree(path, path, SearchGames[path[2]]))
        BY DaemonOps
      <4> HIDE DEF whole
      <4>3. settled'.fscache = kept /\ Daemon!Answer("getattr", path, "dir", << >>)
        BY <1>5, <2>2, <3>2 DEF Daemon!Answer
      <4>4. settled'.fscache =
               Daemon!Add(whole, Daemon!SearchDir,
                          Daemon!AddFile(IF Daemon!SearchDir \in DOMAIN whole
                                           THEN whole[Daemon!SearchDir]
                                           ELSE Daemon!DirEntry(<< >>),
                                         Daemon!Row(Daemon!SearchKey(path), "dir")))
        BY <3>4, <4>3, DaemonOps DEF Searches
      <4> QED BY <3>3, <4>1, <4>2, <4>3, <4>4 DEF Daemon!GetattrSearch
    <3>6. Daemon!Next
      BY <2>3, <3>5 DEF Daemon!Next, Daemon!Docs
    <3> QED BY <1>5, <2>2, <3>6 DEF Implements
  <2>5. CASE th[t].next = "refetch"
    <3> DEFINE url == <<"game", Daemon!GameOf(path)>>
    <3>1. /\ HasTerm(settled, path) /\ Daemon!HasGame(path) /\ Url(th[t]) = url
          /\ url \in DOMAIN settled.urlcache => settled.urlcache[url] = "good"
          /\ urlcache = Add(settled.urlcache, url, "good")
      BY <2>1, <2>5 DEF Wanted, Url, path
    <3>2. Daemon!GetURL(url, "good")
      BY <1>5, <2>2, <3>1, DaemonOps DEF Daemon!GetURL
    <3>3. kept = AddAll(settled.fscache,
                        Daemon!GameTree(Daemon!GameRoot(path), Daemon!GameOf(path)))
      BY <2>1, <2>5 DEF Result, Whole, Base, Tree, path
    <3>4. Daemon!GetattrGame(path, "good")
      <4>1. ~Daemon!IsNewSearch(path) /\ ~Daemon!IsFixedDir(path)
            /\ path \notin DOMAIN settled.fscache
        BY <2>3, <3>1, NotFixed DEF Daemon!IsNewSearch, HasTerm, Has
      <4>2. /\ settled'.fscache = kept
            /\ Daemon!Answer("getattr", path, Daemon!KindIn(settled'.fscache, path), << >>)
        BY <1>4, <1>5, <2>2 DEF Daemon!Answer
      <4>3. settled'.fscache = Daemon!AddAll(settled.fscache,
                        Daemon!GameTree(Daemon!GameRoot(path), Daemon!GameOf(path)))
        BY <3>3, <4>2, DaemonOps
      <4> QED BY <3>1, <3>2, <4>1, <4>2, <4>3 DEF Daemon!GetattrGame
    <3>5. Daemon!Next
      BY <2>3, <3>4 DEF Daemon!Next, Daemon!Docs
    <3> QED BY <1>5, <2>2, <3>5 DEF Implements
  <2> QED BY <2>1, <2>4, <2>5
<1> QED BY <1>6, <1>7

LEMMA FillRowAlone ==
    ASSUME IInv, NEW t \in Threads, Lone(t), FillRow(t)
    PROVE  LoneNext(t) /\ Implements
<1> USE DEF At
<1> DEFINE path == th[t].path
           kept == Contents(cache, obj)
           names == th[t].names
           rows == Rows(obj[th[t].ptr])
<1>1. /\ table = "live" /\ Rooted(cache, obj) /\ DOMAIN obj \subseteq Ids
      /\ StubsAreGames(settled.fscache) /\ PlaceOK(th[t])
  BY Alive DEF FillRow
<1>2. /\ IF th[t].next = "idle" THEN Asks(cache, obj, urlcache, settled, th[t])
                                ELSE Builds(cache, obj, urlcache, settled, th[t])
      /\ Lists(obj, th[t])
  BY DEF Lone, AloneAt, Serves, FillRow
<1>3. /\ names \in Seq(Name) /\ Held(obj[th[t].ptr]) \in CacheEntry /\ th[t].ptr # Null
      /\ th[t].nfiles = Len(rows) /\ Len(names) <= th[t].nfiles
      /\ \A i \in 1 .. Len(names) : names[i] = BaseName(rows[i].fname)
      /\ th[t].pc = "row" /\ UNCHANGED <<cache, table, obj, urlcache>>
  BY <1>2 DEF Lists, FillRow
<1>4. /\ rows \in Seq([fname : Path, type : Kinds]) /\ Len(rows) \in Nat /\ Len(names) \in Nat
      /\ DOMAIN rows = 1 .. Len(rows)
  BY <1>3, LenProperties DEF Rows, CacheEntry
<1>5. CASE Len(names) < th[t].nfiles
  <2> DEFINE name == BaseName(rows[Len(names) + 1].fname)
             l == Overlay(th[t], [names |-> Append(names, name)])
  <2>1. Step(t, [names |-> Append(names, name)]) /\ InHandler
    BY <1>5 DEF FillRow
  <2>2. name \in Name
    <3>1. Len(names) + 1 \in 1 .. Len(rows)
      BY ONLY <1>3, <1>4, <1>5
    <3>2. rows[Len(names) + 1] \in [fname : Path, type : Kinds]
      BY ONLY <1>4, <3>1, ElementOfSeq
    <3>3. ASSUME NEW p \in Path PROVE BaseName(p) \in Name
      <4>1. p \in Seq(Name) /\ Len(p) \in 1 .. Len(p)
        BY EmptySeq, LenProperties DEF Path
      <4> QED BY ONLY <4>1, ElementOfSeq DEF BaseName
    <3> QED BY <3>2, <3>3
  <2> HIDE DEF name, names, rows
  <2>3. MovesTo(t, l)
    BY <2>1, StepMoves DEF IInv
  <2>4. /\ l.pc = th[t].pc /\ l.path = th[t].path /\ l.ptr = th[t].ptr /\ l.next = th[t].next
        /\ l.nfiles = th[t].nfiles /\ l.names = Append(names, name)
        /\ l.new = th[t].new /\ l.fresh = th[t].fresh /\ l.stack = th[t].stack
    BY <1>1 DEF PlaceOK, Overlay, Idle
  <2> HIDE DEF l
  <2>5. IF l.next = "idle" THEN Asks(cache, obj, urlcache, settled, l)
                           ELSE Builds(cache, obj, urlcache, settled, l)
    <3>1. CASE l.next = "idle"
      BY <1>2, <1>3, <2>4, <3>1 DEF Asks
    <3>2. CASE l.next # "idle"
      <4>1. /\ th[t].next = "relist" /\ Wanted(urlcache, settled, th[t])
            /\ Contents(cache, obj) = Result(settled, th[t])
            /\ th[t].ptr = Points(cache, th[t].path)
        BY <1>2, <1>3, <2>4, <3>2 DEF Builds
      <4>2. Wanted(urlcache, settled, l) /\ Result(settled, l) = Result(settled, th[t])
        BY <2>4, <4>1 DEF Wanted, Url, Result, Whole, Base, Tree, WithTerm, TermRow
      <4> QED BY ONLY <1>3, <2>4, <3>2, <4>1, <4>2 DEF Builds
    <3> QED BY <3>1, <3>2
  <2>6. Lists(obj, l)
    <3>1. /\ l.names \in Seq(Name) /\ Len(l.names) = Len(names) + 1
          /\ \A i \in 1 .. Len(names) : l.names[i] = names[i]
          /\ l.names[Len(names) + 1] = name
      BY ONLY <1>3, <2>2, <2>4, AppendProperties
    <3>2. ASSUME NEW i \in 1 .. Len(l.names)
          PROVE  l.names[i] = BaseName(rows[i].fname)
      <4>1. i \in 1 .. Len(names) \/ i = Len(names) + 1
        BY ONLY <3>1, <1>4
      <4> QED BY ONLY <4>1, <3>1, <1>3 DEF name
    <3>3. Len(l.names) <= l.nfiles
      BY ONLY <3>1, <2>4, <1>3, <1>4, <1>5
    <3> QED BY <1>3, <2>4, <3>1, <3>2, <3>3 DEF Lists, rows
  <2>7. Serves(cache, obj, urlcache, settled, l)
    BY <2>5, <2>6 DEF Serves
  <2>8. l.pc # "newtable" /\ th[t].pc # "newtable"
    BY <2>4, <1>3
  <2> QED BY <1>3, <2>1, <2>3, <2>7, <2>8, LooksAlone DEF InHandler
<1>6. CASE ~(Len(names) < th[t].nfiles)
  <2>1. Finish(t, "readdir", path, "dir", names)
    BY <1>6 DEF FillRow
  <2>2. ASSUME path \in DOMAIN kept, Rows(obj[th[t].ptr]) = kept[path].files
        PROVE  names = Daemon!Listing(kept, path)
    <3>1. Len(names) = Len(rows)
      BY ONLY <1>3, <1>4, <1>6
    <3> HIDE DEF rows, names, kept, path
    <3>2. names = [i \in DOMAIN rows |-> BaseName(rows[i].fname)]
      BY ONLY <1>3, <1>4, <3>1, ListingIs
    <3>3. rows = kept[path].files
      BY <2>2 DEF rows
    <3> QED BY ONLY <2>2, <3>2, <3>3, DaemonOps DEF Daemon!Listing
  <2> HIDE DEF path, kept, names, rows
  <2>3. ASSUME StubsAreGames(kept)
        PROVE  /\ LoneNext(t) /\ settled'.fscache = kept /\ settled'.urlcache = urlcache
               /\ reply' = [op |-> "readdir", path |-> path, kind |-> "dir", names |-> names]
    BY <1>1, <1>3, <2>1, <2>3, AnswersAlone DEF kept
  <2>4. CASE th[t].next = "idle"
    <3>1. /\ path \in Requests /\ kept = settled.fscache /\ urlcache = settled.urlcache
          /\ Has(settled, path) /\ ~HasStub(settled, path)
          /\ th[t].ptr = Points(cache, path)
      BY <1>2, <1>3, <2>4 DEF Asks, kept, path
    <3>2. names = Daemon!Listing(kept, path)
      BY <1>1, <2>2, <3>1, PointsAtPath DEF Has, kept
    <3>3. Daemon!ReaddirCached(path)
      BY <1>1, <2>3, <3>1, <3>2, NotFixed
         DEF Daemon!ReaddirCached, Daemon!IsStub, Daemon!Answer, HasStub, Has
    <3>4. Daemon!Next
      BY <3>1, <3>3 DEF Daemon!Next
    <3> QED BY <1>1, <2>3, <3>1, <3>4 DEF Implements
  <2>5. CASE th[t].next # "idle"
    <3> DEFINE url == <<"game", Daemon!GameOf(path)>>
    <3>1. /\ th[t].next = "relist" /\ Wanted(urlcache, settled, th[t])
          /\ kept = Result(settled, th[t]) /\ th[t].ptr = Points(cache, path)
      BY <1>2, <1>3, <2>5 DEF Builds, kept, path
    <3>2. StubsAreGames(kept) /\ path \in DOMAIN kept
      BY <1>1, <3>1, WholeFacts DEF path
    <3>3. /\ path \in Requests /\ HasStub(settled, path) /\ Url(th[t]) = url
          /\ url \in DOMAIN settled.urlcache => settled.urlcache[url] = "good"
          /\ urlcache = Add(settled.urlcache, url, "good")
      BY <3>1 DEF Wanted, Url, path
    <3>4. names = Daemon!Listing(kept, path)
      BY <1>1, <2>2, <3>1, <3>2, PointsAtPath DEF kept
    <3>5. Daemon!GetURL(url, "good")
      BY <2>3, <3>2, <3>3, DaemonOps DEF Daemon!GetURL
    <3>6. kept = AddAll(Delete(settled.fscache, path),
                        Daemon!GameTree(Daemon!GameRoot(path), Daemon!GameOf(path)))
      BY <3>1 DEF Result, Whole, Base, Tree, path
    <3>7. Daemon!ReaddirStub(path, "good")
      BY <2>3, <3>2, <3>3, <3>4, <3>5, <3>6, DaemonOps
         DEF Daemon!ReaddirStub, Daemon!IsStub, Daemon!Answer, HasStub, Has
    <3>8. Daemon!Next
      BY <3>3, <3>7 DEF Daemon!Next, Daemon!Docs
    <3> QED BY <2>3, <3>2, <3>8 DEF Implements
  <2> QED BY <2>4, <2>5
<1> QED BY <1>5, <1>6

\* A path that is not cached lists empty.
LEMMA ListMissAlone ==
    ASSUME IInv, NEW t \in Threads, Lone(t), List(t), Found(th[t].path) = Null
    PROVE  LoneNext(t) /\ Implements
<1> USE DEF At
<1> DEFINE path == th[t].path
           kept == Contents(cache, obj)
<1>1. /\ table = "live" /\ Rooted(cache, obj) /\ DOMAIN obj \subseteq Ids
      /\ StubsAreGames(settled.fscache) /\ th[t].pc = "list"
      /\ UNCHANGED <<cache, table, obj, urlcache>>
      /\ Finish(t, "readdir", path, "dir", << >>)
  BY Alive DEF List
<1>2. Asks(cache, obj, urlcache, settled, th[t])
  BY <1>1 DEF Lone, AloneAt, Serves, Builds
<1>3. path \in Requests /\ kept = settled.fscache /\ urlcache = settled.urlcache
  BY <1>1, <1>2 DEF Asks
<1>4. path \notin DOMAIN settled.fscache
  <2>1. Points(cache, path) = Null
    BY DEF Found, Points
  <2> HIDE DEF path
  <2> QED BY <1>1, <1>3, <2>1, Pointing
<1> HIDE DEF path, kept
<1>5. /\ LoneNext(t) /\ settled'.fscache = kept /\ settled'.urlcache = urlcache
      /\ reply' = [op |-> "readdir", path |-> path, kind |-> "dir", names |-> << >>]
  BY <1>1, <1>3, AnswersAlone DEF kept
<1>6. Daemon!ReaddirCached(path)
  BY <1>3, <1>4, <1>5, NotFixed
     DEF Daemon!ReaddirCached, Daemon!IsStub, Daemon!Answer, Daemon!Listing
<1>7. Daemon!Next
  BY <1>3, <1>6 DEF Daemon!Next
<1> QED BY <1>5, <1>7 DEF Implements

\* An entry that was just made is not in the cache.
LEMMA NewStays ==
    ASSUME NEW c, NEW o, Rooted(c, o), NEW id, id \notin DOMAIN o, NEW e, NEW o2,
           o2 = Add(o, id, e)
    PROVE  Rooted(c, o2) /\ Contents(c, o2) = Contents(c, o) /\ o2[id] = e
<1>1. /\ DOMAIN o2 = DOMAIN o \cup {id} /\ o2[id] = e
      /\ \A i \in DOMAIN o : o2[i] = o[i]
  BY DEF Add, Overlay
<1>2. \A p \in DOMAIN c : c[p] \in DOMAIN o2 /\ o2[c[p]] = o[c[p]]
  BY <1>1 DEF Rooted
<1>3. Rooted(c, o2)
  BY <1>2 DEF Rooted
<1>4. Contents(c, o2) = [p \in DOMAIN c |-> o2[c[p]].tree[p]]
  BY ONLY <1>3, ContentsOf
<1>5. Contents(c, o) = [p \in DOMAIN c |-> o[c[p]].tree[p]]
  BY ONLY Rooted(c, o), ContentsOf
<1> QED BY ONLY <1>1, <1>2, <1>3, <1>4, <1>5

\* A good document: the tree is made, and not in the cache yet.
LEMMA BuiltAlone ==
    ASSUME IInv, NEW t \in Threads, Lone(t), NEW pc \in {"addroot", "dump"},
           NEW root, NEW tree, NEW next \in {"searchget", "refetch", "relist"},
           Built(t, pc, root, tree, next), pc = "dump" => next = "relist",
           pc = "addroot" => next # "relist",
           th[t].pc \in {"fetchsearch", "fetchgame", "fetchstub"},
           Asks(cache, obj, urlcache, settled, th[t]),
           \A l : l.path = th[t].path /\ l.next = next =>
                /\ Root(l) = root /\ Tree(l) = tree /\ Wanted(urlcache', settled, l)
    PROVE  LoneNext(t) /\ Implements
<1> DEFINE l == Overlay(th[t], [pc |-> pc, new |-> Fresh, next |-> next])
<1>1. /\ table = "live" /\ Rooted(cache, obj) /\ DOMAIN obj \subseteq Ids
      /\ StubsAreGames(settled.fscache) /\ PlaceOK(th[t])
  BY Alive
<1>2. MovesTo(t, l)
  BY StepMoves DEF Built, IInv
<1>3. /\ l.pc = pc /\ l.path = th[t].path /\ l.new = Fresh /\ l.next = next
      /\ l.names = th[t].names
  BY <1>1 DEF PlaceOK, Overlay, Idle
<1> HIDE DEF l
<1>4. /\ UNCHANGED <<cache, table>> /\ InHandler
      /\ obj' = Add(obj, Fresh, Object(root, tree)) /\ Fresh \notin DOMAIN obj
  BY DEF Built, Unused, Fresh
<1>5. /\ Rooted(cache', obj') /\ Contents(cache', obj') = settled.fscache
      /\ obj'[Fresh] = Object(root, tree)
  <2>1. Contents(cache, obj) = settled.fscache
    BY DEF Asks
  <2>2. PICK o : o = Object(root, tree)
    OBVIOUS
  <2>3. /\ Rooted(cache, obj') /\ Contents(cache, obj') = Contents(cache, obj)
        /\ obj'[Fresh] = o
    BY ONLY <1>1, <1>4, <2>2, NewStays
  <2>4. cache' = cache
    BY <1>4
  <2> QED BY ONLY <2>1, <2>2, <2>3, <2>4
<1>6. Root(l) = root /\ Tree(l) = tree /\ Wanted(urlcache', settled, l)
  BY <1>3
<1>7. next # "relist" => Base(settled, l) = settled.fscache
  BY <1>3 DEF Base
<1>8. Builds(cache', obj', urlcache', settled, l)
  BY ONLY <1>3, <1>5, <1>6, <1>7, pc \in {"addroot", "dump"}, pc = "dump" => next = "relist",
          pc = "addroot" => next # "relist", next \in {"searchget", "refetch", "relist"}
     DEF Builds
<1>9. Lists(obj', l)
  <2>1. Lists(obj, th[t])
    BY DEF Lone, AloneAt, Serves
  <2> QED BY <1>3, <2>1 DEF Lists
<1>10. Serves(cache', obj', urlcache', settled, l)
  BY <1>3, <1>8, <1>9 DEF Serves
<1> QED BY <1>1, <1>2, <1>3, <1>4, <1>5, <1>10, GoesOnAlone

\* None: the request ends, and the filesystem cache is as it was.
LEMMA FailedAlone ==
    ASSUME IInv, NEW t \in Threads, Lone(t), NEW op, Failed(t, op),
           th[t].pc \in {"fetchsearch", "fetchgame", "fetchstub"},
           Asks(cache, obj, urlcache, settled, th[t])
    PROVE  /\ LoneNext(t)
           /\ settled'.fscache = settled.fscache /\ settled'.urlcache = urlcache'
           /\ reply' = [op |-> op, path |-> th[t].path, kind |-> "dir", names |-> << >>]
<1>1. /\ table = "live" /\ Rooted(cache, obj) /\ StubsAreGames(settled.fscache)
      /\ Contents(cache, obj) = settled.fscache
  BY Alive DEF Asks
<1>2. UNCHANGED <<cache, table, obj>> /\ Finish(t, op, th[t].path, "dir", << >>)
  BY DEF Failed
<1>3. /\ table' = "live" /\ Rooted(cache', obj') /\ StubsAreGames(Contents(cache', obj'))
      /\ Contents(cache', obj') = settled.fscache
  BY <1>1, <1>2
<1> QED BY <1>2, <1>3, AnswersAlone

LEMMA FetchSearchAlone ==
    ASSUME IInv, NEW t \in Threads, Lone(t), NEW doc \in Answers, FetchSearch(t, doc)
    PROVE  LoneNext(t) /\ Implements
<1> USE DEF At
<1> DEFINE path == th[t].path
           url == <<"search", path[2]>>
<1>1. /\ th[t].pc = "fetchsearch" /\ Asks(cache, obj, urlcache, settled, th[t])
      /\ th[t].next = "idle"
  BY DEF Lone, AloneAt, Serves, Builds, FetchSearch
<1>2. /\ path \in Requests /\ Len(path) > 1 /\ urlcache = settled.urlcache
      /\ ~Has(settled, path) /\ ~HasTerm(settled, path) /\ path[1] = "search"
  BY <1>1, RequestPath DEF Asks
<1>3. GetURL(url, doc) /\ doc \in Daemon!Docs
  BY WorkersAssumption DEF FetchSearch, Daemon!Docs
<1>4. CASE doc = "good"
  <2>1. Built(t, "addroot", path, StubTree(path, path, SearchGames[path[2]]), "searchget")
    BY <1>4 DEF FetchSearch
  <2> HIDE DEF path
  <2>2. /\ url \in DOMAIN settled.urlcache => settled.urlcache[url] = "good"
        /\ urlcache' = Add(settled.urlcache, url, "good")
    BY <1>2, <1>3, <1>4 DEF GetURL
  <2>3. ASSUME NEW l, l.path = path, l.next = "searchget"
        PROVE  /\ Root(l) = path /\ Tree(l) = StubTree(path, path, SearchGames[path[2]])
               /\ Wanted(urlcache', settled, l)
    BY <1>2, <2>2, <2>3 DEF Root, Tree, Wanted, Url
  <2> QED BY <1>1, <2>1, <2>3, BuiltAlone DEF path
<1>5. CASE doc # "good"
  <2>1. Failed(t, "getattr")
    BY <1>5 DEF FetchSearch
  <2>2. /\ LoneNext(t)
        /\ settled'.fscache = settled.fscache /\ settled'.urlcache = urlcache'
        /\ reply' = [op |-> "getattr", path |-> path, kind |-> "dir", names |-> << >>]
    BY <1>1, <2>1, FailedAlone
  <2> HIDE DEF path
  <2>3. Daemon!GetURL(url, doc)
    BY <1>2, <1>3, <2>2, DaemonOps DEF Daemon!GetURL, GetURL
  <2>4. Daemon!GetattrSearch(path, doc)
    BY <1>2, <1>5, <2>2, <2>3, NotFixed
       DEF Daemon!GetattrSearch, Daemon!IsNewSearch, Daemon!Answer, HasTerm, Has
  <2>5. Daemon!Next
    BY <1>2, <1>3, <2>4 DEF Daemon!Next
  <2> QED BY <2>2, <2>5 DEF Implements
<1> QED BY <1>4, <1>5

LEMMA FetchGameAlone ==
    ASSUME IInv, NEW t \in Threads, Lone(t), NEW doc \in Answers, FetchGame(t, doc)
    PROVE  LoneNext(t) /\ Implements
<1> USE DEF At
<1> DEFINE path == th[t].path
           url == <<"game", Daemon!GameOf(path)>>
           tree == Daemon!GameTree(Daemon!GameRoot(path), Daemon!GameOf(path))
<1>1. /\ th[t].pc = "fetchgame" /\ Asks(cache, obj, urlcache, settled, th[t])
      /\ th[t].next = "idle"
  BY DEF Lone, AloneAt, Serves, Builds, FetchGame
<1>2. /\ path \in Requests /\ Len(path) > 1 /\ urlcache = settled.urlcache
      /\ ~Has(settled, path) /\ HasTerm(settled, path)
  BY <1>1 DEF Asks
<1>3. doc \in Daemon!Docs
  BY WorkersAssumption DEF Daemon!Docs
<1>4. CASE doc = "good"
  <2>1. /\ Built(t, "addroot", Daemon!GameRoot(path), tree, "refetch")
        /\ Daemon!HasGame(path) /\ GetURL(url, doc)
    BY <1>4 DEF FetchGame
  <2> HIDE DEF path
  <2>2. /\ url \in DOMAIN settled.urlcache => settled.urlcache[url] = "good"
        /\ urlcache' = Add(settled.urlcache, url, "good")
    BY <1>2, <2>1, <1>4 DEF GetURL
  <2>3. ASSUME NEW l, l.path = path, l.next = "refetch"
        PROVE  /\ Root(l) = Daemon!GameRoot(path) /\ Tree(l) = tree
               /\ Wanted(urlcache', settled, l)
    BY <1>2, <2>1, <2>2, <2>3 DEF Root, Tree, Wanted, Url
  <2> HIDE DEF tree
  <2> QED BY <1>1, <2>1, <2>3, BuiltAlone DEF path
<1>5. CASE doc # "good"
  <2>1. /\ Failed(t, "getattr")
        /\ Daemon!HasGame(path) => GetURL(url, doc)
        /\ ~Daemon!HasGame(path) => urlcache' = urlcache
    BY <1>5 DEF FetchGame
  <2>2. /\ LoneNext(t)
        /\ settled'.fscache = settled.fscache /\ settled'.urlcache = urlcache'
        /\ reply' = [op |-> "getattr", path |-> path, kind |-> "dir", names |-> << >>]
    BY <1>1, <2>1, FailedAlone
  <2> HIDE DEF path
  <2>3. /\ ~Daemon!IsFixedDir(path) /\ ~Daemon!IsNewSearch(path)
        /\ path \notin DOMAIN settled.fscache
    BY <1>2, NotFixed DEF Daemon!IsNewSearch, HasTerm, Has
  <2>4. ASSUME Daemon!HasGame(path) PROVE Daemon!GetattrGame(path, doc)
    <3>1. Daemon!GetURL(url, doc)
      BY <1>2, <2>1, <2>2, <2>4, DaemonOps DEF Daemon!GetURL, GetURL
    <3> QED BY <1>5, <2>2, <2>3, <2>4, <3>1 DEF Daemon!GetattrGame, Daemon!Answer
  <2>5. ASSUME ~Daemon!HasGame(path) PROVE Daemon!GetattrUnknown(path)
    BY <1>2, <2>1, <2>2, <2>3, <2>5 DEF Daemon!GetattrUnknown, Daemon!Answer
  <2>6. Daemon!Next
    BY <1>2, <1>3, <2>4, <2>5 DEF Daemon!Next
  <2> QED BY <2>2, <2>6 DEF Implements
<1> QED BY <1>4, <1>5

LEMMA FetchStubAlone ==
    ASSUME IInv, NEW t \in Threads, Lone(t), NEW doc \in Answers, FetchStub(t, doc)
    PROVE  LoneNext(t) /\ Implements
<1> USE DEF At
<1> DEFINE path == th[t].path
           url == <<"game", Daemon!GameOf(path)>>
           tree == Daemon!GameTree(path, Daemon!GameOf(path))
<1>1. /\ th[t].pc = "fetchstub" /\ Asks(cache, obj, urlcache, settled, th[t])
      /\ th[t].next = "idle"
  BY DEF Lone, AloneAt, Serves, Builds, FetchStub
<1>2. /\ path \in Requests /\ urlcache = settled.urlcache /\ HasStub(settled, path)
  BY <1>1 DEF Asks
<1>3. doc \in Daemon!Docs /\ GetURL(url, doc)
  BY WorkersAssumption DEF Daemon!Docs, FetchStub
<1>4. IsStubOfGame(path, settled.fscache[path])
  BY <1>2, <1>1, Alive DEF StubsAreGames, HasStub, Has
<1>5. Daemon!HasGame(path) /\ Daemon!GameRoot(path) = path
  BY <1>4, GameRootFacts DEF IsStubOfGame
<1>6. CASE doc = "good"
  <2>1. Built(t, "dump", path, tree, "relist")
    BY <1>6 DEF FetchStub
  <2> HIDE DEF path
  <2>2. /\ url \in DOMAIN settled.urlcache => settled.urlcache[url] = "good"
        /\ urlcache' = Add(settled.urlcache, url, "good")
    BY <1>2, <1>3, <1>6 DEF GetURL
  <2>3. ASSUME NEW l, l.path = path, l.next = "relist"
        PROVE  Root(l) = path /\ Tree(l) = tree /\ Wanted(urlcache', settled, l)
    BY <1>2, <1>5, <2>2, <2>3 DEF Root, Tree, Wanted, Url
  <2> HIDE DEF tree
  <2> QED BY <1>1, <2>1, <2>3, BuiltAlone DEF path
<1>7. CASE doc # "good"
  <2>1. Failed(t, "readdir")
    BY <1>7 DEF FetchStub
  <2>2. /\ LoneNext(t)
        /\ settled'.fscache = settled.fscache /\ settled'.urlcache = urlcache'
        /\ reply' = [op |-> "readdir", path |-> path, kind |-> "dir", names |-> << >>]
    BY <1>1, <2>1, FailedAlone
  <2> HIDE DEF path
  <2>3. Daemon!Listing(settled.fscache, path) = << >>
    <3>1. path \in DOMAIN settled.fscache /\ settled.fscache[path].files = << >>
      BY <1>2, <1>4 DEF HasStub, Has, IsStubOfGame
    <3> QED BY <3>1 DEF Daemon!Listing
  <2>4. Daemon!GetURL(url, doc)
    BY <1>2, <1>3, <2>2, DaemonOps DEF Daemon!GetURL, GetURL
  <2>5. Daemon!ReaddirStub(path, doc)
    BY <1>2, <1>7, <2>2, <2>3, <2>4
       DEF Daemon!ReaddirStub, Daemon!IsStub, Daemon!Answer, HasStub, Has
  <2>6. Daemon!Next
    BY <1>2, <1>3, <2>5 DEF Daemon!Next
  <2> QED BY <2>2, <2>6 DEF Implements
<1> QED BY <1>6, <1>7

\* A request that has made its tree, at one of the places in pcs.
LEMMA Building ==
    ASSUME IInv, NEW t \in Threads, Lone(t),
           th[t].pc \in {"addroot", "addchild", "searchget", "searchrow", "searchadd", "delete"}
    PROVE  /\ table = "live" /\ Rooted(cache, obj) /\ DOMAIN obj \subseteq Ids
           /\ StubsAreGames(settled.fscache) /\ PlaceOK(th[t])
           /\ Builds(cache, obj, urlcache, settled, th[t])
           /\ th[t].next \in {"searchget", "refetch", "relist"}
           /\ Wanted(urlcache, settled, th[t])
           /\ Lists(obj, th[t]) /\ th[t].names = << >>
<1>1. /\ IF th[t].next = "idle" THEN Asks(cache, obj, urlcache, settled, th[t])
                                ELSE Builds(cache, obj, urlcache, settled, th[t])
      /\ Lists(obj, th[t])
  BY DEF Lone, AloneAt, Serves
<1>2. /\ table = "live" /\ Rooted(cache, obj) /\ DOMAIN obj \subseteq Ids
      /\ StubsAreGames(settled.fscache) /\ PlaceOK(th[t])
  BY Alive
<1>3. th[t].next # "idle" /\ Builds(cache, obj, urlcache, settled, th[t])
  BY <1>1 DEF Asks
<1>4. th[t].next \in {"searchget", "refetch", "relist"}
  BY <1>2, <1>3 DEF PlaceOK
<1> QED BY <1>1, <1>2, <1>3, <1>4 DEF Builds, Lists

\* It does not change what it wants.
LEMMA SameRequest ==
    ASSUME NEW u, NEW s, NEW l, NEW l2, l2.path = l.path, l2.next = l.next
    PROVE  /\ Root(l2) = Root(l) /\ Tree(l2) = Tree(l) /\ Url(l2) = Url(l)
           /\ Base(s, l2) = Base(s, l) /\ Whole(s, l2) = Whole(s, l)
           /\ TermRow(l2) = TermRow(l) /\ Result(s, l2) = Result(s, l)
           /\ Wanted(u, s, l) => Wanted(u, s, l2)
  BY DEF Root, Tree, Url, Base, Whole, TermRow, WithTerm, Result, Wanted

\* FSCache_addAll: the root.
LEMMA AddRootAlone ==
    ASSUME IInv, NEW t \in Threads, Lone(t), AddRoot(t)
    PROVE  LoneNext(t) /\ Implements
<1> USE DEF At
<1> DEFINE id == th[t].new
           tree == Tree(th[t])
           root == Root(th[t])
           base == Base(settled, th[t])
           frame == [id |-> id, i |-> 1]
           l == Overlay(th[t], [pc |-> "addchild", new |-> Null, stack |-> <<frame>>])
<1>1. /\ table = "live" /\ Rooted(cache, obj) /\ DOMAIN obj \subseteq Ids
      /\ StubsAreGames(settled.fscache) /\ PlaceOK(th[t])
      /\ Builds(cache, obj, urlcache, settled, th[t])
      /\ th[t].next \in {"searchget", "refetch", "relist"}
      /\ Wanted(urlcache, settled, th[t])
      /\ Lists(obj, th[t]) /\ th[t].names = << >>
  BY Building DEF AddRoot
<1>2. obj[id] = Object(root, tree) /\ Contents(cache, obj) = base
  BY <1>1 DEF Builds, AddRoot
<1>3. root \in Path /\ Walkable(tree, root)
  BY <1>1, WholeFacts
<1>4. id \in DOMAIN obj /\ id \in Ids /\ \A p \in DOMAIN cache : cache[p] # id
  <2>1. id \in Owned(t)
    BY <1>1 DEF PlaceOK, AddRoot, Owned
  <2> QED BY <1>1, <2>1 DEF IInv, HandlersOwn, CacheOK
<1>5. MovesTo(t, l)
  BY StepMoves DEF AddRoot, IInv
<1>6. /\ l.pc = "addchild" /\ l.path = th[t].path /\ l.next = th[t].next
      /\ l.names = th[t].names /\ l.stack = <<frame>>
  BY <1>1 DEF PlaceOK, Overlay, Idle
<1> HIDE DEF l
<1>7. Store(obj[id].root, id, obj) /\ InHandler /\ UNCHANGED <<table, urlcache>>
  BY DEF AddRoot
<1> HIDE DEF id, tree, root, base
<1>8. IsEntryOf(root, obj[id]) /\ obj[id].root = root /\ obj[id].tree = tree
  BY <1>2, <1>3 DEF IsEntryOf, Object, Walkable
<1>9. Holds(cache, obj, root, id, cache', obj')
  <2>1. Stores(cache, obj, root, id, cache', obj')
    BY <1>7, <1>8 DEF Store, Stores
  <2> QED BY ONLY <1>1, <1>4, <1>8, <2>1, StoreHolds
<1>10. /\ Rooted(cache', obj') /\ Contents(cache', obj') = Add(base, root, tree[root])
       /\ root \in DOMAIN cache' /\ cache'[root] = id /\ id \in DOMAIN obj'
       /\ obj'[id] = obj[id]
  BY ONLY <1>2, <1>8, <1>9 DEF Holds
<1>11. Adds(cache', obj', tree, root, base, <<frame>>)
  <2>1. /\ DOMAIN Contents(cache', obj') = DOMAIN base \cup {root}
        /\ \A p \in DOMAIN base : p # root => Contents(cache', obj')[p] = base[p]
    BY ONLY <1>10 DEF Add, Overlay
  <2>2. root \in DOMAIN tree /\ tree[root] \in CacheEntry
    BY ONLY <1>3 DEF Walkable
  <2>3. frame \in [id : Ids, i : Nat] /\ frame.id = id /\ frame.i = 1
    BY <1>4
  <2>4. FrameOK(cache', obj', tree, frame, TRUE)
    <3>1. Len(tree[root].files) \in Nat
      BY <2>2, LenProperties DEF CacheEntry
    <3>2. 1 \in 1 .. Len(tree[root].files) + 1 /\ 1 .. 1 - 1 = {}
      BY ONLY <3>1
    <3> QED BY ONLY <1>8, <1>10, <2>2, <2>3, <3>2 DEF FrameOK
  <2> HIDE DEF frame
  <2>5. /\ <<frame>> \in Seq([id : Ids, i : Nat]) /\ <<frame>> # << >> /\ Len(<<frame>>) = 1
        /\ <<frame>>[1] = frame
    BY ONLY <2>3, EmptySeq
  <2>6. Len(root) \in Nat
    BY <1>3, LenProperties DEF Path
  <2>7. obj'[frame.id].root = root
    BY <1>8, <1>10, <2>3
  <2>8. \A k \in 1 .. Len(<<frame>>) :
           /\ FrameOK(cache', obj', tree, <<frame>>[k], k = Len(<<frame>>))
           /\ Len(obj'[<<frame>>[k].id].root) = Len(root) + k - 1
    <3> SUFFICES ASSUME NEW k \in 1 .. Len(<<frame>>)
                 PROVE  /\ FrameOK(cache', obj', tree, <<frame>>[k], k = Len(<<frame>>))
                        /\ Len(obj'[<<frame>>[k].id].root) = Len(root) + k - 1
      OBVIOUS
    <3>1. k = 1 /\ (k = Len(<<frame>>)) = TRUE /\ <<frame>>[k] = frame
      BY ONLY <2>5, k \in 1 .. Len(<<frame>>)
    <3>2. Len(root) + k - 1 = Len(root)
      BY ONLY <2>6, <3>1
    <3> QED BY ONLY <2>4, <2>7, <3>1, <3>2
  <2>9. 1 .. Len(<<frame>>) - 1 = {}
    BY ONLY <2>5
  <2> QED BY ONLY <2>1, <2>2, <2>5, <2>7, <2>8, <2>9 DEF Adds
<1>12. Builds(cache', obj', urlcache', settled, l)
  <2>1. /\ Tree(l) = tree /\ Root(l) = root /\ Base(settled, l) = base
        /\ Wanted(urlcache, settled, l)
    BY ONLY <1>1, <1>6, SameRequest DEF tree, root, base
  <2>2. urlcache' = urlcache
    BY <1>7
  <2> QED BY ONLY <1>1, <1>6, <1>11, <2>1, <2>2 DEF Builds
<1>13. Lists(obj', l)
  BY <1>1, <1>6 DEF Lists
<1>14. Serves(cache', obj', urlcache', settled, l)
  BY <1>1, <1>6, <1>12, <1>13 DEF Serves
<1> QED BY <1>1, <1>5, <1>6, <1>7, <1>10, <1>14, GoesOnAlone

\* FSCache_addAll: a turn over the rows.
LEMMA AddChildAlone ==
    ASSUME IInv, NEW t \in Threads, Lone(t), AddChild(t)
    PROVE  LoneNext(t) /\ Implements
<1> USE DEF At
<1> DEFINE stack == th[t].stack
           top == stack[Len(stack)]
           tree == Tree(th[t])
           root == Root(th[t])
           base == Base(settled, th[t])
           rows == tree[obj[top.id].root].files
<1>1. /\ table = "live" /\ Rooted(cache, obj) /\ DOMAIN obj \subseteq Ids
      /\ StubsAreGames(settled.fscache) /\ PlaceOK(th[t])
      /\ Builds(cache, obj, urlcache, settled, th[t])
      /\ th[t].next \in {"searchget", "refetch", "relist"}
      /\ Wanted(urlcache, settled, th[t])
      /\ Lists(obj, th[t]) /\ th[t].names = << >>
  BY Building DEF AddChild
<1>2. Adds(cache, obj, tree, root, base, stack) /\ th[t].pc = "addchild"
  BY <1>1 DEF Builds, AddChild
<1>3. root \in Path /\ Walkable(tree, root)
  BY <1>1, WholeFacts
<1>4. InHandler /\ UNCHANGED <<table, urlcache>>
  BY DEF AddChild
<1> HIDE DEF tree, root, base
<1>5. obj[top.id].tree = tree /\ Rows(obj[top.id]) = rows /\ Top(t) = top
  <2>1. Len(stack) \in 1 .. Len(stack)
    <3>1. stack # << >> /\ stack \in Seq([id : Ids, i : Nat])
      BY ONLY <1>2 DEF Adds
    <3>2. Len(stack) \in Nat /\ Len(stack) > 0
      BY ONLY <3>1, EmptySeq, LenProperties
    <3> QED BY ONLY <3>2
  <2>2. \A k \in 1 .. Len(stack) : FrameOK(cache, obj, tree, stack[k], k = Len(stack))
    BY <1>2 DEF Adds
  <2>3. obj[top.id].tree = tree
    BY <2>1, <2>2 DEF FrameOK
  <2> QED BY <2>3 DEF Rows, Held, Top
<1>6. ASSUME NEW l, l.path = th[t].path, l.next = th[t].next, l.pc = "addchild",
             Adds(cache', obj', tree, root, base, l.stack)
      PROVE  Builds(cache', obj', urlcache', settled, l)
  <2>1. /\ Tree(l) = tree /\ Root(l) = root /\ Base(settled, l) = base
        /\ Wanted(urlcache, settled, l)
    BY ONLY <1>1, <1>6, SameRequest DEF tree, root, base
  <2>2. urlcache' = urlcache
    BY <1>4
  <2> QED BY ONLY <1>1, <1>6, <2>1, <2>2 DEF Builds
<1>7. CASE top.i <= Len(rows)
  <2> DEFINE key == rows[top.i].fname
             o1 == Add(obj, Fresh, Object(key, tree))
             stack2 == Append(Advance(stack), [id |-> Fresh, i |-> 1])
             l == Overlay(th[t], [stack |-> stack2])
  <2>1. Unused # {} /\ Store(key, Fresh, o1) /\ Step(t, [stack |-> stack2])
    BY <1>5, <1>7 DEF AddChild
  <2> HIDE DEF rows, stack2
  <2>2. MovesTo(t, l)
    BY <2>1, StepMoves DEF IInv
  <2>3. /\ l.pc = "addchild" /\ l.path = th[t].path /\ l.next = th[t].next
        /\ l.names = th[t].names /\ l.stack = stack2
    BY <1>1, <1>2 DEF PlaceOK, Overlay, Idle
  <2> HIDE DEF l
  <2>4. Fresh \in Ids /\ Fresh \notin DOMAIN obj
    BY <2>1 DEF Unused, Fresh
  <2>5. key = RowName(tree, obj[top.id].root, top.i)
    BY DEF rows, RowName
  <2>6. Rooted(cache', obj') /\ Adds(cache', obj', tree, root, base, stack2)
    <3>1. /\ cache' = Add(cache, key, Fresh)
          /\ obj' = Without(o1, IF key \in DOMAIN cache THEN {cache[key]} \ {Fresh} ELSE {})
      BY <2>1 DEF Store
    <3>2. top.i <= Len(tree[obj[top.id].root].files)
      BY <1>7 DEF rows
    <3>3. PICK id \in Ids : id = Fresh /\ id \notin DOMAIN obj
      BY <2>4
    <3>4. Pushes(cache, obj, tree, stack, id, cache', obj')
      BY <2>5, <3>1, <3>2, <3>3 DEF Pushes, Stores
    <3> HIDE DEF stack
    <3>5. /\ Rooted(cache', obj')
          /\ Adds(cache', obj', tree, root, base, Append(Advance(stack), [id |-> id, i |-> 1]))
      BY ONLY <1>1, <1>2, <1>3, <3>3, <3>4, DescendsTo
    <3> QED BY <3>3, <3>5 DEF stack2
  <2>7. Builds(cache', obj', urlcache', settled, l)
    BY <1>6, <2>3, <2>6
  <2>8. Lists(obj', l)
    BY <1>1, <2>3 DEF Lists
  <2>9. Serves(cache', obj', urlcache', settled, l)
    BY <1>1, <2>3, <2>7, <2>8 DEF Serves
  <2> QED BY <1>1, <1>4, <2>2, <2>3, <2>6, <2>9, GoesOnAlone
<1>8. CASE ~(top.i <= Len(rows))
  <2> DEFINE rest == SubSeq(stack, 1, Len(stack) - 1)
             pc == IF rest = << >> THEN th[t].next ELSE "addchild"
             l == Overlay(th[t], [pc |-> pc, stack |-> rest])
  <2>1. Step(t, [pc |-> pc, stack |-> rest]) /\ UNCHANGED <<cache, obj>>
    BY <1>5, <1>8 DEF AddChild
  <2> HIDE DEF rows, rest
  <2>2. MovesTo(t, l)
    BY <2>1, StepMoves DEF IInv
  <2>3. /\ l.pc = pc /\ l.path = th[t].path /\ l.next = th[t].next
        /\ l.names = th[t].names /\ l.stack = rest
    BY <1>1 DEF PlaceOK, Overlay, Idle
  <2> HIDE DEF l
  <2>4. IF rest = << >> THEN Contents(cache, obj) = AddAll(base, tree)
                        ELSE Adds(cache, obj, tree, root, base, rest)
    <3>1. ~(top.i <= Len(tree[obj[top.id].root].files))
      BY <1>8 DEF rows
    <3>2. top = stack[Len(stack)] /\ rest = SubSeq(stack, 1, Len(stack) - 1)
      BY DEF rest
    <3> HIDE DEF stack, top
    <3> QED BY ONLY <1>1, <1>2, <1>3, <3>1, <3>2, Ascends
  <2>5. CASE rest = << >>
    <3>1. l.pc = l.next /\ l.pc \in {"searchget", "refetch", "relist"}
      BY <1>1, <2>3, <2>5
    <3>2. Whole(settled, l) = Contents(cache', obj') /\ Wanted(urlcache', settled, l)
      <4>1. Whole(settled, l) = AddAll(base, tree) /\ Wanted(urlcache, settled, l)
        BY <1>1, <2>3, SameRequest DEF base, tree, Whole
      <4> QED BY <1>4, <2>1, <2>4, <2>5, <4>1
    <3>3. Result(settled, l) = IF l.next = "searchget" THEN WithTerm(Whole(settled, l), l)
                                                       ELSE Whole(settled, l)
      BY DEF Result
    <3>4. Builds(cache', obj', urlcache', settled, l)
      BY ONLY <3>1, <3>2, <3>3 DEF Builds
    <3>5. Lists(obj', l)
      BY <1>1, <2>3, <3>1 DEF Lists
    <3>6. Serves(cache', obj', urlcache', settled, l)
      BY <3>1, <3>4, <3>5 DEF Serves
    <3>7. Rooted(cache', obj') /\ table' = "live"
      BY <1>1, <1>4, <2>1
    <3>8. l.pc # "newtable"
      BY <3>1
    <3> QED BY ONLY <1>1, <1>4, <2>2, <3>6, <3>7, <3>8, GoesOnAlone, t \in Threads
  <2>6. CASE rest # << >>
    <3>1. l.pc = "addchild"
      BY <2>3, <2>6
    <3>2. Adds(cache', obj', tree, root, base, l.stack)
      BY <2>1, <2>3, <2>4, <2>6
    <3>3. Builds(cache', obj', urlcache', settled, l)
      BY <1>6, <2>3, <3>1, <3>2
    <3>4. Lists(obj', l)
      BY <1>1, <2>3, <3>1 DEF Lists
    <3>5. Serves(cache', obj', urlcache', settled, l)
      BY <1>1, <2>3, <3>1, <3>3, <3>4 DEF Serves
    <3>6. Rooted(cache', obj') /\ table' = "live"
      BY <1>1, <1>4, <2>1
    <3>7. l.pc # "newtable"
      BY <3>1
    <3> QED BY ONLY <1>1, <1>4, <2>2, <3>5, <3>6, <3>7, GoesOnAlone, t \in Threads
  <2> QED BY <2>5, <2>6
<1> QED BY <1>7, <1>8

\* The row of the term goes to the entry of /search, which is found or made.
LEMMA SearchGetAlone ==
    ASSUME IInv, NEW t \in Threads, Lone(t), SearchGet(t)
    PROVE  LoneNext(t) /\ Implements
<1> USE DEF At
<1> DEFINE dir == Daemon!SearchDir
           whole == Whole(settled, th[t])
<1>1. /\ table = "live" /\ Rooted(cache, obj) /\ DOMAIN obj \subseteq Ids
      /\ StubsAreGames(settled.fscache) /\ PlaceOK(th[t])
      /\ Builds(cache, obj, urlcache, settled, th[t])
      /\ Wanted(urlcache, settled, th[t])
      /\ Lists(obj, th[t]) /\ th[t].names = << >>
  BY Building DEF SearchGet
<1>2. th[t].next = "searchget" /\ Contents(cache, obj) = whole
  BY <1>1 DEF Builds, SearchGet
<1>3. InHandler /\ UNCHANGED <<cache, table, urlcache>>
  BY DEF SearchGet
<1>4. Found(dir) = Points(cache, dir)
  BY DEF Found, Points
<1> HIDE DEF dir, whole
<1>5. ASSUME NEW fresh \in BOOLEAN, NEW ptr,
             Step(t, [pc |-> "searchrow", fresh |-> fresh, ptr |-> ptr]),
             Rooted(cache, obj'), Contents(cache, obj') = whole,
             fresh => dir \notin DOMAIN cache /\ obj'[ptr] = NewSearches(<< >>),
             ~fresh => dir \in DOMAIN cache /\ ptr = cache[dir]
      PROVE  LoneNext(t) /\ Implements
  <2> DEFINE l == Overlay(th[t], [pc |-> "searchrow", fresh |-> fresh, ptr |-> ptr])
  <2>1. MovesTo(t, l)
    BY <1>5, StepMoves DEF IInv
  <2>2. /\ l.pc = "searchrow" /\ l.fresh = fresh /\ l.ptr = ptr /\ l.path = th[t].path
        /\ l.next = th[t].next /\ l.names = th[t].names
    BY <1>1 DEF PlaceOK, Overlay, Idle
  <2> HIDE DEF l
  <2>3. Wanted(urlcache, settled, l) /\ Whole(settled, l) = whole
    BY ONLY <1>1, <2>2, SameRequest DEF whole
  <2>4. cache' = cache /\ urlcache' = urlcache
    BY <1>3
  <2>5. Builds(cache', obj', urlcache', settled, l)
    BY ONLY <1>2, <1>5, <2>2, <2>3, <2>4 DEF Builds, dir
  <2>6. Lists(obj', l)
    BY <1>1, <2>2 DEF Lists
  <2>7. Serves(cache', obj', urlcache', settled, l)
    BY <1>2, <2>2, <2>5, <2>6 DEF Serves
  <2> QED BY <1>1, <1>3, <1>5, <2>1, <2>2, <2>4, <2>7, GoesOnAlone
<1>6. CASE Found(dir) # Null
  <2>1. Step(t, [pc |-> "searchrow", fresh |-> FALSE, ptr |-> Found(dir)]) /\ obj' = obj
    BY <1>6 DEF SearchGet, dir
  <2>2. dir \in DOMAIN cache /\ Found(dir) = cache[dir]
    BY <1>6 DEF Found
  <2> QED BY <1>1, <1>2, <1>5, <2>1, <2>2
<1>7. CASE Found(dir) = Null
  <2>1. /\ Step(t, [pc |-> "searchrow", fresh |-> TRUE, ptr |-> Fresh])
        /\ Unused # {} /\ obj' = Add(obj, Fresh, NewSearches(<< >>))
    BY <1>7 DEF SearchGet, NewSearches, dir
  <2>2. Fresh \notin DOMAIN obj
    BY <2>1 DEF Unused, Fresh
  <2>3. dir \notin DOMAIN cache
    BY ONLY <1>1, <1>4, <1>7, Pointing
  <2>4. PICK e : e = NewSearches(<< >>)
    OBVIOUS
  <2>5. /\ Rooted(cache, obj') /\ Contents(cache, obj') = whole
        /\ obj'[Fresh] = NewSearches(<< >>)
    <3>1. obj' = Add(obj, Fresh, e)
      BY ONLY <2>1, <2>4
    <3>2. /\ Rooted(cache, obj') /\ Contents(cache, obj') = Contents(cache, obj)
          /\ obj'[Fresh] = e
      BY ONLY <1>1, <2>2, <3>1, NewStays
    <3> QED BY ONLY <1>2, <2>4, <3>2
  <2> QED BY <1>5, <2>1, <2>3, <2>5
<1> QED BY <1>6, <1>7

\* The entry has the row of the term.
AddsRow(o, ptr, dir, row, o2) == o2 = [o EXCEPT ![ptr].tree[dir] = AddFile(@, row)]

LEMMA RowAdded ==
    ASSUME NEW o, NEW ptr, ptr \in DOMAIN o, NEW dir, IsEntryOf(dir, o[ptr]), NEW row,
           NEW o2, AddsRow(o, ptr, dir, row, o2), NEW e, e = AddFile(o[ptr].tree[dir], row)
    PROVE  /\ DOMAIN o2 = DOMAIN o /\ \A i \in DOMAIN o : i # ptr => o2[i] = o[i]
           /\ IsEntryOf(dir, o2[ptr])
           /\ o2[ptr].tree = [o[ptr].tree EXCEPT ![dir] = e]
           /\ o2[ptr].tree[dir] = e
<1>1. PICK tree : tree = o[ptr].tree
  OBVIOUS
<1>2. o[ptr] = [root |-> dir, tree |-> tree] /\ dir \in DOMAIN tree
  BY <1>1 DEF IsEntryOf, Object
<1>3. PICK tree2 : tree2 = [tree EXCEPT ![dir] = e]
  OBVIOUS
<1>4. o2 = [o EXCEPT ![ptr] = [root |-> dir, tree |-> tree2]]
  <2>1. o2 = [o EXCEPT ![ptr] = [o[ptr] EXCEPT !.tree =
                                  [o[ptr].tree EXCEPT ![dir] = AddFile(@, row)]]]
    BY DEF AddsRow
  <2>2. [o[ptr].tree EXCEPT ![dir] = AddFile(@, row)] = tree2
    BY ONLY <1>1, <1>3, e = AddFile(o[ptr].tree[dir], row)
  <2>3. [o[ptr] EXCEPT !.tree = tree2] = [root |-> dir, tree |-> tree2]
    BY ONLY <1>2
  <2> QED BY ONLY <2>1, <2>2, <2>3
<1>5. DOMAIN tree2 = DOMAIN tree /\ tree2[dir] = e
  BY <1>2, <1>3
<1>6. /\ DOMAIN o2 = DOMAIN o /\ \A i \in DOMAIN o : i # ptr => o2[i] = o[i]
      /\ o2[ptr] = [root |-> dir, tree |-> tree2]
  BY ONLY <1>4, ptr \in DOMAIN o
<1>7. IsEntryOf(dir, o2[ptr]) /\ o2[ptr].tree = tree2
  BY ONLY <1>2, <1>5, <1>6 DEF IsEntryOf, Object
<1>8. tree2 = [o[ptr].tree EXCEPT ![dir] = e]
  BY <1>1, <1>3
<1> QED BY ONLY <1>5, <1>6, <1>7, <1>8

LEMMA FirstRow ==
    ASSUME NEW row
    PROVE  AddFile(DirEntry(<< >>), row) = DirEntry(<<row>>)
<1>1. Append(<< >>, row) = <<row>>
  OBVIOUS
<1> QED BY <1>1 DEF AddFile, DirEntry

LEMMA SearchRowAlone ==
    ASSUME IInv, NEW t \in Threads, Lone(t), SearchRow(t)
    PROVE  LoneNext(t) /\ Implements
<1> USE DEF At
<1> DEFINE dir == Daemon!SearchDir
           ptr == th[t].ptr
           row == TermRow(th[t])
           whole == Whole(settled, th[t])
           pc == IF th[t].fresh THEN "searchadd" ELSE "refetch"
           l == Overlay(th[t], [pc |-> pc])
<1>1. /\ table = "live" /\ Rooted(cache, obj) /\ DOMAIN obj \subseteq Ids
      /\ StubsAreGames(settled.fscache) /\ PlaceOK(th[t])
      /\ Builds(cache, obj, urlcache, settled, th[t])
      /\ Wanted(urlcache, settled, th[t])
      /\ Lists(obj, th[t]) /\ th[t].names = << >>
  BY Building DEF SearchRow
<1>2. /\ th[t].next = "searchget" /\ Contents(cache, obj) = whole
      /\ ~th[t].fresh => dir \in DOMAIN cache /\ ptr = cache[dir]
      /\ th[t].fresh => dir \notin DOMAIN cache /\ obj[ptr] = NewSearches(<< >>)
  BY <1>1 DEF Builds, SearchRow
<1>3. /\ obj' = [obj EXCEPT ![ptr].tree[dir] = AddFile(@, row)]
      /\ InHandler /\ UNCHANGED <<cache, table, urlcache>> /\ th[t].pc = "searchrow"
  BY DEF SearchRow, TermRow
<1>4. MovesTo(t, l)
  BY StepMoves DEF SearchRow, IInv
<1>5. /\ l.pc = pc /\ l.fresh = th[t].fresh /\ l.ptr = ptr /\ l.path = th[t].path
      /\ l.next = th[t].next /\ l.names = th[t].names
  BY <1>1 DEF PlaceOK, Overlay, Idle
<1>6. th[t].fresh => ptr \in Owned(t)
  BY <1>1 DEF PlaceOK, Owned
<1> HIDE DEF dir, ptr, row, whole, l
<1>7. ptr \in DOMAIN obj /\ IsEntryOf(dir, obj[ptr])
  <2>1. CASE th[t].fresh
    <3>1. ptr \in DOMAIN obj
      BY <1>6, <2>1 DEF IInv, HandlersOwn
    <3> QED BY <1>2, <2>1, <3>1 DEF NewSearches, Object, IsEntryOf, dir
  <2>2. CASE ~th[t].fresh
    BY <1>1, <1>2, <2>2 DEF Rooted
  <2> QED BY <2>1, <2>2
<1>8. PICK e : e = AddFile(obj[ptr].tree[dir], row)
  OBVIOUS
<1>9. /\ DOMAIN obj' = DOMAIN obj /\ \A i \in DOMAIN obj : i # ptr => obj'[i] = obj[i]
      /\ IsEntryOf(dir, obj'[ptr])
      /\ obj'[ptr].tree = [obj[ptr].tree EXCEPT ![dir] = e]
      /\ obj'[ptr].tree[dir] = e
  <2>1. AddsRow(obj, ptr, dir, row, obj')
    BY <1>3 DEF AddsRow
  <2> QED BY ONLY <2>1, <1>7, <1>8, RowAdded
<1>10. ASSUME NEW p \in DOMAIN cache
       PROVE  /\ cache[p] \in DOMAIN obj' /\ IsEntryOf(p, obj'[cache[p]])
              /\ obj'[cache[p]].tree[p] =
                    IF p = dir /\ ~th[t].fresh THEN e ELSE obj[cache[p]].tree[p]
  <2>1. cache[p] \in DOMAIN obj /\ IsEntryOf(p, obj[cache[p]])
    BY <1>1 DEF Rooted
  <2>2. CASE th[t].fresh
    <3>1. cache[p] # ptr
      BY <1>1, <1>6, <2>2 DEF IInv, CacheOK
    <3> QED BY ONLY <1>9, <2>1, <2>2, <3>1
  <2>3. CASE ~th[t].fresh /\ p = dir
    BY <1>2, <1>9, <2>1, <2>3
  <2>4. CASE ~th[t].fresh /\ p # dir
    <3>1. cache[p] # ptr
      BY <1>7, <2>1, <2>4 DEF IsEntryOf
    <3> QED BY ONLY <1>9, <2>1, <2>4, <3>1
  <2> QED BY <2>2, <2>3, <2>4
<1>11. Rooted(cache, obj')
  BY <1>10 DEF Rooted
<1>12. Contents(cache, obj') = [p \in DOMAIN cache |-> obj'[cache[p]].tree[p]]
  BY ONLY <1>11, ContentsOf
<1>13. whole = [p \in DOMAIN cache |-> obj[cache[p]].tree[p]]
  BY ONLY <1>1, <1>2, ContentsOf
<1>14. cache' = cache /\ urlcache' = urlcache
  BY <1>3
<1>15. Wanted(urlcache, settled, l) /\ Whole(settled, l) = whole
       /\ TermRow(l) = row /\ Result(settled, l) = WithTerm(whole, l)
  <2>1. /\ Wanted(urlcache, settled, l) /\ Whole(settled, l) = whole /\ TermRow(l) = row
    BY ONLY <1>1, <1>5, SameRequest DEF whole, row
  <2> QED BY ONLY <1>2, <1>5, <2>1 DEF Result
<1>16. CASE th[t].fresh
  <2>1. Contents(cache, obj') = whole
    BY ONLY <1>10, <1>12, <1>13, <1>16
  <2>2. e = DirEntry(<<row>>)
    <3>1. obj[ptr].tree[dir] = DirEntry(<< >>)
      BY <1>2, <1>16 DEF NewSearches, Object, dir
    <3> QED BY <1>8, <3>1, FirstRow
  <2>3. obj'[ptr] = NewSearches(<<row>>)
    <3>1. obj[ptr].tree = [p \in {dir} |-> DirEntry(<< >>)]
      BY <1>2, <1>16 DEF NewSearches, Object, dir
    <3>2. obj'[ptr].tree = [p \in {dir} |-> e]
      BY ONLY <1>9, <3>1
    <3> QED BY <1>9, <2>2, <3>2 DEF IsEntryOf, NewSearches, dir
  <2>4. Builds(cache', obj', urlcache', settled, l)
    BY ONLY <1>2, <1>5, <1>14, <1>15, <1>16, <2>1, <2>3 DEF Builds, dir
  <2>5. Lists(obj', l) /\ l.pc # "newtable"
    BY <1>1, <1>5, <1>16 DEF Lists
  <2>6. Serves(cache', obj', urlcache', settled, l)
    BY <1>2, <1>5, <2>4, <2>5 DEF Serves
  <2> QED BY <1>1, <1>3, <1>4, <1>11, <1>14, <2>5, <2>6, GoesOnAlone
<1>17. CASE ~th[t].fresh
  <2>1. Contents(cache, obj') = WithTerm(whole, l)
    <3>1. dir \in DOMAIN cache /\ DOMAIN whole = DOMAIN cache
      BY <1>2, <1>13, <1>17
    <3>2. whole[dir] = obj[ptr].tree[dir]
      BY <1>2, <1>13, <1>17, <3>1
    <3>3. Searches(whole) = whole[dir]
      BY <3>1 DEF Searches, dir
    <3>4. WithTerm(whole, l) = [p \in DOMAIN whole \cup {dir} |-> IF p = dir THEN e ELSE whole[p]]
      <4>1. WithTerm(whole, l) = Add(whole, dir, e)
        BY <1>8, <1>15, <3>2, <3>3 DEF WithTerm, dir
      <4> QED BY ONLY <4>1, AddIs
    <3>5. DOMAIN whole \cup {dir} = DOMAIN cache
      BY ONLY <3>1
    <3>6. \A p \in DOMAIN cache : obj'[cache[p]].tree[p] = IF p = dir THEN e ELSE whole[p]
      BY ONLY <1>10, <1>13, <1>17
    <3> QED BY ONLY <1>12, <3>4, <3>5, <3>6
  <2>2. Builds(cache', obj', urlcache', settled, l)
    BY ONLY <1>2, <1>5, <1>14, <1>15, <1>17, <2>1 DEF Builds
  <2>3. Lists(obj', l) /\ l.pc # "newtable"
    BY <1>1, <1>5, <1>17 DEF Lists
  <2>4. Serves(cache', obj', urlcache', settled, l)
    BY <1>2, <1>5, <2>2, <2>3 DEF Serves
  <2> QED BY <1>1, <1>3, <1>4, <1>11, <1>14, <2>3, <2>4, GoesOnAlone
<1> QED BY <1>16, <1>17

LEMMA SearchAddAlone ==
    ASSUME IInv, NEW t \in Threads, Lone(t), SearchAdd(t)
    PROVE  LoneNext(t) /\ Implements
<1> USE DEF At
<1> DEFINE dir == Daemon!SearchDir
           id == th[t].ptr
           row == TermRow(th[t])
           whole == Whole(settled, th[t])
           l == Overlay(th[t], [pc |-> "refetch", fresh |-> FALSE])
<1>1. /\ table = "live" /\ Rooted(cache, obj) /\ DOMAIN obj \subseteq Ids
      /\ StubsAreGames(settled.fscache) /\ PlaceOK(th[t])
      /\ Builds(cache, obj, urlcache, settled, th[t])
      /\ Wanted(urlcache, settled, th[t])
      /\ Lists(obj, th[t]) /\ th[t].names = << >>
  BY Building DEF SearchAdd
<1>2. /\ th[t].next = "searchget" /\ Contents(cache, obj) = whole
      /\ dir \notin DOMAIN cache /\ obj[id] = NewSearches(<<row>>)
  BY <1>1 DEF Builds, SearchAdd
<1>3. /\ Store(dir, id, obj) /\ InHandler /\ UNCHANGED <<table, urlcache>>
  BY DEF SearchAdd
<1>4. MovesTo(t, l)
  BY StepMoves DEF SearchAdd, IInv
<1>5. /\ l.pc = "refetch" /\ l.path = th[t].path
      /\ l.next = th[t].next /\ l.names = th[t].names
  BY <1>1 DEF PlaceOK, Overlay, Idle
<1>6. id \in DOMAIN obj /\ \A p \in DOMAIN cache : cache[p] # id
  <2>1. id \in Owned(t)
    BY <1>1 DEF PlaceOK, Owned, SearchAdd
  <2> QED BY <1>1, <2>1 DEF IInv, HandlersOwn, CacheOK
<1> HIDE DEF dir, id, row, whole, l
<1>7. IsEntryOf(dir, obj[id]) /\ obj[id].tree[dir] = DirEntry(<<row>>)
  BY <1>2 DEF NewSearches, Object, IsEntryOf, dir
<1>8. Holds(cache, obj, dir, id, cache', obj')
  <2>1. Stores(cache, obj, dir, id, cache', obj')
    BY <1>3 DEF Store, Stores
  <2> QED BY ONLY <1>1, <1>6, <1>7, <2>1, StoreHolds
<1>9. Rooted(cache', obj') /\ Contents(cache', obj') = Add(whole, dir, DirEntry(<<row>>))
  BY ONLY <1>2, <1>7, <1>8 DEF Holds
<1>10. /\ Wanted(urlcache, settled, l) /\ Whole(settled, l) = whole
       /\ TermRow(l) = row /\ Result(settled, l) = WithTerm(whole, l)
  <2>1. /\ Wanted(urlcache, settled, l) /\ Whole(settled, l) = whole /\ TermRow(l) = row
    BY ONLY <1>1, <1>5, SameRequest DEF whole, row
  <2> QED BY ONLY <1>2, <1>5, <2>1 DEF Result
<1>11. Contents(cache', obj') = WithTerm(whole, l)
  <2>1. dir \notin DOMAIN whole
    BY ONLY <1>1, <1>2, Pointing
  <2>2. Searches(whole) = DirEntry(<< >>)
    BY <2>1 DEF Searches, dir
  <2>3. WithTerm(whole, l) = Add(whole, dir, AddFile(DirEntry(<< >>), row))
    BY <1>10, <2>2 DEF WithTerm, dir
  <2> QED BY <1>9, <2>3, FirstRow
<1>12. urlcache' = urlcache /\ table' = "live"
  BY <1>1, <1>3
<1>13. Builds(cache', obj', urlcache', settled, l)
  BY ONLY <1>2, <1>5, <1>10, <1>11, <1>12 DEF Builds
<1>14. Lists(obj', l) /\ l.pc # "newtable"
  BY <1>1, <1>5 DEF Lists
<1>15. Serves(cache', obj', urlcache', settled, l)
  BY <1>2, <1>5, <1>13, <1>14 DEF Serves
<1> QED BY <1>1, <1>3, <1>4, <1>9, <1>12, <1>14, <1>15, GoesOnAlone

\* FSCache_delete: the cache without the stub is what the tree goes into.
LEMMA DeleteAlone ==
    ASSUME IInv, NEW t \in Threads, Lone(t), DeleteStub(t)
    PROVE  LoneNext(t) /\ Implements
<1> USE DEF At
<1> DEFINE path == th[t].path
           id == th[t].new
           l == Overlay(th[t], [pc |-> "addroot"])
<1>1. /\ table = "live" /\ Rooted(cache, obj) /\ DOMAIN obj \subseteq Ids
      /\ StubsAreGames(settled.fscache) /\ PlaceOK(th[t])
      /\ Builds(cache, obj, urlcache, settled, th[t])
      /\ Wanted(urlcache, settled, th[t])
      /\ Lists(obj, th[t]) /\ th[t].names = << >>
  BY Building DEF DeleteStub
<1>2. /\ th[t].next = "relist" /\ Contents(cache, obj) = settled.fscache
      /\ obj[id] = Object(Root(th[t]), Tree(th[t])) /\ Has(settled, path)
  BY <1>1 DEF Builds, DeleteStub, Wanted, HasStub
<1>3. /\ cache' = [p \in DOMAIN cache \ {path} |-> cache[p]]
      /\ obj' = Without(obj, {Found(path)})
      /\ InHandler /\ UNCHANGED <<table, urlcache>>
  BY DEF DeleteStub
<1>4. MovesTo(t, l)
  BY StepMoves DEF DeleteStub, IInv
<1>5. /\ l.pc = "addroot" /\ l.path = path /\ l.new = id
      /\ l.next = th[t].next /\ l.names = th[t].names
  BY <1>1 DEF PlaceOK, Overlay, Idle
<1>6. id \in DOMAIN obj /\ \A p \in DOMAIN cache : cache[p] # id
  <2>1. id \in Owned(t)
    BY <1>1 DEF PlaceOK, Owned, DeleteStub
  <2> QED BY <1>1, <2>1 DEF IInv, HandlersOwn, CacheOK
<1> HIDE DEF path, id, l
<1>7. DOMAIN settled.fscache = DOMAIN cache /\ path \in DOMAIN cache /\ Found(path) = cache[path]
  <2>1. DOMAIN settled.fscache = DOMAIN cache
    BY ONLY <1>1, <1>2, Pointing
  <2> QED BY <1>2, <2>1 DEF Has, Found
<1>8. /\ DOMAIN obj' = DOMAIN obj \ {cache[path]}
      /\ \A i \in DOMAIN obj' : obj'[i] = obj[i]
  BY <1>3, <1>7 DEF Without
<1>9. /\ DOMAIN cache' = DOMAIN cache \ {path}
      /\ \A p \in DOMAIN cache' : cache'[p] = cache[p]
  BY ONLY <1>3
<1>10. \A p \in DOMAIN cache' : cache'[p] \in DOMAIN obj' /\ IsEntryOf(p, obj'[cache'[p]])
  <2> SUFFICES ASSUME NEW p \in DOMAIN cache'
               PROVE  cache'[p] \in DOMAIN obj' /\ IsEntryOf(p, obj'[cache'[p]])
    OBVIOUS
  <2>1. p \in DOMAIN cache /\ p # path /\ cache'[p] = cache[p]
    BY ONLY <1>9, p \in DOMAIN cache'
  <2>2. cache[p] \in DOMAIN obj /\ IsEntryOf(p, obj[cache[p]])
        /\ IsEntryOf(path, obj[cache[path]])
    BY <1>1, <1>7, <2>1 DEF Rooted
  <2>3. cache[p] # cache[path]
    BY ONLY <2>1, <2>2 DEF IsEntryOf
  <2>4. cache[p] \in DOMAIN obj' /\ obj'[cache[p]] = obj[cache[p]]
    BY ONLY <1>8, <2>2, <2>3
  <2> QED BY ONLY <2>1, <2>2, <2>4
<1>11. Rooted(cache', obj')
  BY <1>10 DEF Rooted
<1>12. Contents(cache', obj') = Delete(settled.fscache, path)
  <2>1. Contents(cache', obj') = [p \in DOMAIN cache' |-> obj'[cache'[p]].tree[p]]
    BY ONLY <1>11, ContentsOf
  <2>2. settled.fscache = [p \in DOMAIN cache |-> obj[cache[p]].tree[p]]
    BY ONLY <1>1, <1>2, ContentsOf
  <2>3. \A p \in DOMAIN cache' : obj'[cache'[p]].tree[p] = settled.fscache[p]
    BY ONLY <1>8, <1>9, <1>10, <2>2
  <2>4. DOMAIN cache' = DOMAIN settled.fscache \ {path}
    BY ONLY <1>7, <1>9
  <2> QED BY ONLY <2>1, <2>3, <2>4 DEF Delete
<1>13. obj'[id] = obj[id]
  BY <1>6, <1>7, <1>8
<1>14. urlcache' = urlcache /\ table' = "live"
  BY <1>1, <1>3
<1>15. /\ Wanted(urlcache, settled, l) /\ Root(l) = Root(th[t]) /\ Tree(l) = Tree(th[t])
       /\ Base(settled, l) = Delete(settled.fscache, path)
  <2>1. /\ Wanted(urlcache, settled, l) /\ Root(l) = Root(th[t]) /\ Tree(l) = Tree(th[t])
    BY ONLY <1>1, <1>5, SameRequest DEF path
  <2> QED BY <1>2, <1>5, <2>1 DEF Base
<1>16. Builds(cache', obj', urlcache', settled, l)
  BY ONLY <1>2, <1>5, <1>12, <1>13, <1>14, <1>15 DEF Builds
<1>17. Lists(obj', l) /\ l.pc # "newtable"
  BY <1>1, <1>5 DEF Lists
<1>18. Serves(cache', obj', urlcache', settled, l)
  BY <1>2, <1>5, <1>16, <1>17 DEF Serves
<1> QED BY <1>1, <1>3, <1>4, <1>11, <1>14, <1>17, <1>18, GoesOnAlone

\* FSCache_flush: nothing is looked at between its halves.
LEMMA FlushAlone ==
    ASSUME IInv, NEW t \in Threads, Lone(t), Flush(t)
    PROVE  LoneNext(t) /\ Implements
<1> USE DEF At
<1> DEFINE l == Overlay(th[t], [pc |-> "newtable"])
<1>1. StubsAreGames(settled.fscache) /\ PlaceOK(th[t]) /\ th[t].pc = "flush"
  BY Alive DEF Flush
<1>2. urlcache = settled.urlcache
  BY <1>1 DEF Lone, AloneAt, Serves, Asks, Builds
<1>3. MovesTo(t, l)
  BY StepMoves DEF Flush, IInv
<1>4. l.pc = "newtable"
  BY <1>1 DEF PlaceOK, Overlay, Idle
<1> HIDE DEF l
<1>5. table' = "freed" /\ urlcache' = urlcache /\ settled' = settled /\ reply' = reply
  BY DEF Flush, InHandler
<1>6. th'[t] = l
  BY <1>3 DEF MovesTo
<1>7. LoneNext(t)
  BY <1>1, <1>2, <1>4, <1>5, <1>6 DEF LoneNext, AloneAt, Serves
<1>8. Implements
  BY <1>5 DEF Implements, Daemon!vars
<1> QED BY <1>7, <1>8

LEMMA NewTableAlone ==
    ASSUME IInv, NEW t \in Threads, Lone(t), NewTable(t)
    PROVE  LoneNext(t) /\ Implements
<1> USE DEF At
<1>1. urlcache = settled.urlcache
  BY DEF Lone, AloneAt, NewTable
<1>2. /\ cache' = [p \in {} |-> Null] /\ table' = "live" /\ urlcache' = urlcache
      /\ Finish(t, "flush", <<"fscache">>, "dir", << >>)
  BY DEF NewTable
<1>3. Rooted(cache', obj') /\ Contents(cache', obj') = EmptyCache
  BY <1>2 DEF Rooted, Contents, EmptyCache
<1>4. StubsAreGames(Contents(cache', obj'))
  BY <1>3 DEF StubsAreGames, EmptyCache
<1>5. /\ LoneNext(t)
      /\ settled'.fscache = Contents(cache', obj') /\ settled'.urlcache = urlcache'
      /\ reply' = [op |-> "flush", path |-> <<"fscache">>, kind |-> "dir", names |-> << >>]
  BY <1>2, <1>3, <1>4, AnswersAlone
<1>6. Daemon!FlushFSCache
  BY <1>1, <1>2, <1>3, <1>5, DaemonOps DEF Daemon!FlushFSCache, Daemon!Answer
<1>7. Daemon!Next
  BY <1>6 DEF Daemon!Next
<1> QED BY <1>5, <1>7 DEF Implements

-----------------------------------------------------------------------------

LEMMA StepAlone ==
    ASSUME IInv, NEW t, Threads = {t}, Alone, [Next]_vars
    PROVE  Alone' /\ Implements
<1>1. t \in Threads /\ Lone(t)
  BY DEF Alone, Lone
<1>2. ASSUME Handle(t) PROVE LoneNext(t) /\ Implements
  <2>1. ASSUME NEW doc \in Answers, FetchSearch(t, doc) \/ FetchGame(t, doc) \/ FetchStub(t, doc)
        PROVE  LoneNext(t) /\ Implements
    BY <1>1, <2>1, FetchSearchAlone, FetchGameAlone, FetchStubAlone
  <2>2. ASSUME \/ Lookup(t) \/ Term(t) \/ SearchGet(t) \/ SearchRow(t) \/ SearchAdd(t)
               \/ Refetch(t) \/ GameLookup(t) \/ Read(t)
        PROVE  LoneNext(t) /\ Implements
    BY <1>1, <2>2, FindAlone, SearchGetAlone, SearchRowAlone, SearchAddAlone, ReadAlone
  <2>3. ASSUME \/ List(t) \/ Unstub(t) \/ Dump(t) \/ DeleteStub(t) \/ Relist(t)
               \/ Retype(t) \/ FillRow(t)
        PROVE  LoneNext(t) /\ Implements
    BY <1>1, <2>3, ListAlone, ListMissAlone, DeleteAlone, RetypeAlone, FillRowAlone
  <2>4. ASSUME AddRoot(t) \/ AddChild(t) \/ Flush(t) \/ NewTable(t)
        PROVE  LoneNext(t) /\ Implements
    BY <1>1, <2>4, AddRootAlone, AddChildAlone, FlushAlone, NewTableAlone
  <2> QED BY <1>2, <2>1, <2>2, <2>3, <2>4 DEF Handle
<1>3. ASSUME Next PROVE LoneNext(t) /\ Implements
  BY <1>1, <1>2, <1>3, RequestAlone DEF Next
<1>4. ASSUME UNCHANGED vars PROVE LoneNext(t) /\ Implements
  BY <1>1, <1>4 DEF vars, Lone, LoneNext, Implements, Daemon!vars
<1>5. LoneNext(t) /\ Implements
  BY <1>3, <1>4
<1> QED BY <1>5 DEF Alone, LoneNext

\* With one thread, whatever the requests, the documents and the flushes between
\* them, the handlers that run call by call do what ZxdbFS has them do in a single
\* step: the caches that a request leaves and its answer are the same.
THEOREM OneThreadIsZxdbFS == ASSUME \E t : Threads = {t} PROVE Spec => OneAtATime
<1>1. PICK t : Threads = {t}
  OBVIOUS
<1>2. Init => Daemon!Init
  BY DEF Init, Daemon!Init, EmptyCache, Daemon!EmptyCache, FileEntry, Daemon!FileEntry
<1>3. Init => Alone
  <2> SUFFICES ASSUME Init PROVE AloneAt(cache, table, obj, urlcache, settled, th[t])
    BY <1>1 DEF Alone
  <2>1. th[t] = Idle /\ DOMAIN cache = {} /\ table = "live" /\ settled.urlcache = urlcache
        /\ settled.fscache = EmptyCache
    BY <1>1 DEF Init
  <2>2. Rooted(cache, obj) /\ Contents(cache, obj) = EmptyCache
    BY <2>1 DEF Rooted, Contents, EmptyCache
  <2>3. StubsAreGames(settled.fscache)
    BY <2>1 DEF StubsAreGames, EmptyCache
  <2>4. Asks(cache, obj, urlcache, settled, Idle)
    BY <2>1, <2>2 DEF Asks, Idle
  <2>5. Lists(obj, Idle)
    <3>1. << >> \in Seq(Name)
      BY EmptySeq
    <3> QED BY <3>1 DEF Lists, Idle
  <2>6. Serves(cache, obj, urlcache, settled, Idle)
    <3>1. Idle.next = "idle"
      BY DEF Idle
    <3> QED BY <3>1, <2>4, <2>5 DEF Serves
  <2> QED BY <2>1, <2>2, <2>3, <2>6 DEF AloneAt
<1>4. Init => IInv
  BY InitOwned
<1>5. IInv /\ Alone /\ [Next]_vars => IInv' /\ Alone' /\ Implements
  BY <1>1, Inductive, StepAlone
<1> QED BY <1>2, <1>3, <1>4, <1>5, PTL DEF Spec, OneAtATime, Daemon!Spec, Implements
=============================================================================
