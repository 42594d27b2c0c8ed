---------------------------- MODULE Handlers_proofs ---------------------------
(***************************************************************************)
(* What a read returns, for any number of open files, any pages, sizes and  *)
(* ways of cutting a download into pieces; and what the parts of a path are, *)
(* for any path.                                                            *)
(*                                                                          *)
(* A page is right because the buffer it is copied from is the beginning of *)
(* the file (Prefix), and no other handle writes to it or frees it: a       *)
(* struct and its buffer are numbered alike and belong to the one handle    *)
(* that has their number (Apart).  A short page is the end because a handle *)
(* that serves reads has all of the file (WholeWhenOpen).                   *)
(*                                                                          *)
(* The parts of a path are right because countSeparators gives the positions *)
(* of all slashes in order (SeparatorsCounted), so that the bounds computed  *)
(* from two slots next to each other are those of a segment, and every       *)
(* segment has its slot (SlashBegins, BeginsAtSlash).                        *)
(***************************************************************************)
EXTENDS OpenFile, Paths, SequenceTheorems, WellFoundedInduction, TLAPS


Busy == {"transfer", "stalled"}

MetaOK == meta \in Nat /\ isize \in 0 .. meta /\ \E s \in Sizes : s[1] = meta

\* What a handle is, on its own.
HandleOK(r) ==
    /\ DOMAIN r = DOMAIN Closed
    /\ r.pc \in {"closed", "open"} \cup Busy
    /\ r.pc = "closed" => r = Closed
    /\ r.pc \in Busy => r.ptr # Null /\ DOMAIN r.pages = {}
    /\ r.ptr # Null => <<meta, r.remote>> \in Sizes
    /\ \A offset \in DOMAIN r.pages : HoldsItsBytes(r.pages[offset], offset, r.remote)

HandlesOK == fh = [h \in Handles |-> fh[h]] /\ \A h \in Handles : HandleOK(fh[h])

\* The struct n and the buffer n are of one download.
ChunkOK(n) ==
    /\ chunks[n].memory = n /\ n \in DOMAIN buffers
    /\ DOMAIN chunks[n] = {"memory", "size"}

Prefix(n) ==
    /\ chunks[n].size \in Nat
    /\ buffers[n] \in Seq(Int) /\ Len(buffers[n]) = chunks[n].size
    /\ \A i \in 1 .. chunks[n].size : buffers[n][i] = i

MemoryOK ==
    /\ allocs \in Nat
    /\ DOMAIN chunks \subseteq 1 .. allocs /\ DOMAIN buffers \subseteq 1 .. allocs
    /\ chunks = [n \in DOMAIN chunks |-> chunks[n]]
    /\ buffers = [n \in DOMAIN buffers |-> buffers[n]]
    /\ \A n \in DOMAIN chunks : ChunkOK(n) /\ Prefix(n)

Apart ==
    \A h \in Handles : fh[h].ptr # Null =>
        /\ fh[h].ptr \in DOMAIN chunks
        /\ \A g \in Handles \ {h} : fh[g].ptr # fh[h].ptr

WholeWhenOpen ==
    \A h \in Handles : fh[h].ptr # Null =>
        /\ Size(h) <= fh[h].remote
        /\ fh[h].pc = "open" => Size(h) = fh[h].remote

IInv == MetaOK /\ HandlesOK /\ MemoryOK /\ Apart /\ WholeWhenOpen /\ NoOverrun

-----------------------------------------------------------------------------
(***************************************************************************)
(* What a read copies                                                       *)
(***************************************************************************)

\* A page starts within the size the metadata have.
LEMMA OffsetFacts ==
    ASSUME MetaOK, NEW offset \in Offsets
    PROVE  /\ offset \in Nat /\ offset < meta
           /\ EndsInLastPage => \A s \in Sizes : s[1] = meta => offset <= s[2]
<1>1. Page \in Nat /\ Page > 0 /\ isize \in Nat /\ meta \in Nat /\ isize <= meta
  BY FileAssumption DEF MetaOK
<1>2. PICK k \in 0 .. (IF isize = 0 THEN -1 ELSE (isize - 1) \div Page) : offset = k * Page
  BY DEF Offsets
<1>3. isize > 0 /\ k \in Nat /\ k <= (isize - 1) \div Page
  BY <1>1, <1>2
<1>4. k * Page <= isize - 1
  <2>1. (isize - 1) \div Page \in Nat /\ ((isize - 1) \div Page) * Page <= isize - 1
    BY <1>1, <1>3
  <2>2. k * Page <= ((isize - 1) \div Page) * Page
    BY <1>1, <1>3, <2>1
  <2>3. k * Page \in Nat /\ ((isize - 1) \div Page) * Page \in Nat
    BY <1>1, <1>3, <2>1
  <2> QED BY <1>1, <2>1, <2>2, <2>3
<1>5. k <= k * Page /\ k * Page \in Nat
  BY <1>1, <1>3
<1>6. offset \in Nat /\ offset < meta /\ k \in 0 .. meta
  BY <1>1, <1>2, <1>3, <1>4, <1>5
<1> QED BY <1>2, <1>6 DEF EndsInLastPage

\* A page copied from the beginning of a file holds its bytes.
LEMMA PageOfPrefix ==
    ASSUME NEW s \in Seq(Int), NEW size \in Nat, Len(s) = size,
           \A i \in 1 .. size : s[i] = i,
           NEW offset \in Nat, NEW n \in Nat, offset + n <= size,
           n < Page => offset + n = size
    PROVE  HoldsItsBytes(SubSeq(s, offset + 1, offset + n), offset, size)
<1> DEFINE page == SubSeq(s, offset + 1, offset + n)
<1>1. /\ Len(page) = n /\ DOMAIN page = 1 .. n
      /\ \A i \in 1 .. n : page[i] = s[offset + i]
  OBVIOUS
<1>2. \A i \in 1 .. n : offset + i \in 1 .. size
  OBVIOUS
<1> QED BY <1>1, <1>2 DEF HoldsItsBytes

-----------------------------------------------------------------------------
(***************************************************************************)
(* Steps of one handle                                                      *)
(***************************************************************************)

\* Only h moves, to what l says.
MovesTo(h, l) ==
    /\ fh' = [g \in Handles |-> fh'[g]]
    /\ fh'[h] = l
    /\ \A g \in Handles \ {h} : fh'[g] = fh[g]

LEMMA StepMoves ==
    ASSUME HandlesOK, NEW h \in Handles, NEW r, Step(h, r)
    PROVE  MovesTo(h, Overlay(fh[h], r))
  BY DEF HandlesOK, Step, MovesTo

LEMMA HandlesStep ==
    ASSUME HandlesOK, meta' = meta, NEW h \in Handles, NEW l, MovesTo(h, l), HandleOK(l)
    PROVE  HandlesOK'
<1>1. \A r : HandleOK(r)' <=> HandleOK(r)
  BY DEF HandleOK
<1>2. \A g \in Handles : HandleOK(fh'[g])
  BY DEF HandlesOK, MovesTo
<1>3. \A g \in Handles : HandleOK(fh[g])'
  BY <1>2 DEF HandleOK
<1> QED BY <1>3 DEF HandlesOK, MovesTo

\* A handle without a struct changes, and no memory does.
LEMMA NoMemoryTouched ==
    ASSUME IInv, NEW h \in Handles, NEW l, MovesTo(h, l), HandleOK(l),
           l.ptr = fh[h].ptr, l.remote = fh[h].remote,
           l.ptr # Null /\ l.pc = "open" => Size(h) = fh[h].remote,
           isize' \in 0 .. meta, meta' = meta, chunks' = chunks, buffers' = buffers,
           allocs' = allocs, bad' = bad
    PROVE  IInv'
<1>1. HandlesOK'
  BY HandlesStep DEF IInv
<1>2. MetaOK' /\ NoOverrun' /\ MemoryOK'
  BY DEF IInv, MetaOK, NoOverrun, EndsInLastPage, MemoryOK, ChunkOK, Prefix
<1>3. Apart'
  BY DEF IInv, Apart, MovesTo
<1>4. WholeWhenOpen'
  BY DEF IInv, WholeWhenOpen, MovesTo, Size
<1> QED BY <1>1, <1>2, <1>3, <1>4 DEF IInv

\* A handle gives up its struct, and the buffers in B with it; what remains has
\* its buffer still.
LEMMA GivesUp ==
    ASSUME IInv, NEW h \in Handles, NEW l, MovesTo(h, l), HandleOK(l), l.ptr = Null,
           NEW B \in SUBSET {fh[h].ptr},
           chunks' = Without(chunks, {fh[h].ptr}), buffers' = Without(buffers, B),
           UNCHANGED <<meta, isize, allocs, bad>>
    PROVE  IInv'
<1>1. HandlesOK'
  BY HandlesStep DEF IInv
<1>2. MetaOK' /\ NoOverrun'
  BY DEF IInv, MetaOK, NoOverrun, EndsInLastPage
<1>3. /\ DOMAIN chunks' = DOMAIN chunks \ {fh[h].ptr}
      /\ \A n \in DOMAIN chunks' : chunks'[n] = chunks[n]
      /\ DOMAIN buffers' = DOMAIN buffers \ B
      /\ \A n \in DOMAIN buffers' : buffers'[n] = buffers[n]
      /\ chunks' = [n \in DOMAIN chunks' |-> chunks'[n]]
      /\ buffers' = [n \in DOMAIN buffers' |-> buffers'[n]]
  BY DEF Without
<1>4. MemoryOK'
  <2>1. ASSUME NEW n \in DOMAIN chunks' PROVE ChunkOK(n)' /\ Prefix(n)'
    <3>1. /\ n \in DOMAIN chunks /\ n # fh[h].ptr /\ chunks'[n] = chunks[n]
          /\ ChunkOK(n) /\ Prefix(n)
      BY <1>3 DEF IInv, MemoryOK
    <3>2. n \in DOMAIN buffers' /\ buffers'[n] = buffers[n]
      BY <1>3, <3>1 DEF ChunkOK
    <3> QED BY <3>1, <3>2 DEF ChunkOK, Prefix
  <2>2. DOMAIN chunks' \subseteq 1 .. allocs' /\ DOMAIN buffers' \subseteq 1 .. allocs' /\ allocs' \in Nat
    BY <1>3 DEF IInv, MemoryOK
  <2> QED BY ONLY <1>3, <2>1, <2>2 DEF MemoryOK
<1>5. Apart'
  BY <1>3 DEF IInv, Apart, MovesTo
<1>6. WholeWhenOpen'
  <2>1. \A g \in Handles \ {h} : fh[g].ptr # Null => fh'[g] = fh[g] /\ fh[g].ptr \in DOMAIN chunks'
    BY <1>3 DEF IInv, Apart, MovesTo
  <2>2. \A g \in Handles \ {h} : fh[g].ptr # Null => Size(g)' = Size(g)
    BY <1>3, <2>1 DEF Size
  <2> QED BY <2>1, <2>2 DEF IInv, WholeWhenOpen, MovesTo
<1> QED BY <1>1, <1>2, <1>4, <1>5, <1>6 DEF IInv

LEMMA OpenStep ==
    ASSUME IInv, NEW h \in Handles, Open(h) \/ OpenNothing(h)
    PROVE  IInv'
<1>1. fh[h] = Closed /\ HandlesOK /\ DOMAIN Closed.pages = {} /\ Closed.ptr = Null
  <2>1. fh[h] = Closed /\ HandlesOK
    BY DEF IInv, HandlesOK, HandleOK, Open, OpenNothing
  <2> QED BY <2>1 DEF Closed
<1>2. CASE OpenNothing(h)
  <2> DEFINE l == Overlay(fh[h], [pc |-> "open"])
  <2>1. MovesTo(h, l)
    BY <1>1, <1>2, StepMoves DEF OpenNothing
  <2>2. HandleOK(l) /\ l.ptr = Null /\ l.ptr = fh[h].ptr /\ l.remote = fh[h].remote
    BY <1>1 DEF HandleOK, Overlay, Closed, Busy, Null
  <2> HIDE DEF l
  <2> QED BY <1>2, <2>1, <2>2, NoMemoryTouched DEF OpenNothing, IInv, MetaOK
<1>3. CASE Open(h)
  <2>1. PICK n : n = allocs + 1
    OBVIOUS
  <2>2. PICK s \in Sizes :
            /\ s[1] = meta /\ allocs' = n
            /\ chunks' = Updated(chunks, n, [memory |-> n, size |-> 0])
            /\ buffers' = Updated(buffers, n, << >>)
            /\ Step(h, [pc |-> "transfer", ptr |-> n, remote |-> s[2]])
    BY <1>3, <2>1 DEF Open
  <2> DEFINE l == Overlay(fh[h], [pc |-> "transfer", ptr |-> n, remote |-> s[2]])
  <2>3. MovesTo(h, l)
    BY <1>1, <2>2, StepMoves
  <2>4. n \in Nat /\ n # Null /\ n \notin 1 .. allocs /\ 1 .. n = (1 .. allocs) \cup {n}
    BY <2>1 DEF IInv, MemoryOK, Null
  <2>5. s = <<meta, s[2]>> /\ s[2] \in Nat
    BY <2>2, FileAssumption
  <2>6. /\ HandleOK(l) /\ l.ptr = n /\ l.pc = "transfer" /\ l.remote = s[2]
    BY <1>1, <2>4, <2>5 DEF HandleOK, Overlay, Closed, Busy
  <2> HIDE DEF l
  <2>7. /\ DOMAIN chunks' = DOMAIN chunks \cup {n} /\ DOMAIN buffers' = DOMAIN buffers \cup {n}
        /\ chunks'[n] = [memory |-> n, size |-> 0] /\ buffers'[n] = << >>
        /\ \A k \in DOMAIN chunks : k # n => chunks'[k] = chunks[k]
        /\ \A k \in DOMAIN buffers : k # n => buffers'[k] = buffers[k]
        /\ chunks' = [k \in DOMAIN chunks' |-> chunks'[k]]
        /\ buffers' = [k \in DOMAIN buffers' |-> buffers'[k]]
    BY <2>2 DEF Updated, Overlay
  <2>8. n \notin DOMAIN chunks /\ n \notin DOMAIN buffers
    BY <2>4 DEF IInv, MemoryOK
  <2>9. MemoryOK'
    <3>1. ChunkOK(n)'
      BY <2>7 DEF ChunkOK
    <3>2. chunks'[n].size = 0 /\ << >> \in Seq(Int) /\ Len(<< >>) = 0
      BY <2>7
    <3>3. Prefix(n)'
      BY <2>7, <3>2 DEF Prefix
    <3>4. \A k \in DOMAIN chunks : ChunkOK(k)' /\ Prefix(k)'
      BY <2>7, <2>8 DEF IInv, MemoryOK, ChunkOK, Prefix
    <3>5. DOMAIN chunks' \subseteq 1 .. allocs' /\ DOMAIN buffers' \subseteq 1 .. allocs' /\ allocs' \in Nat
      BY <2>2, <2>4, <2>7 DEF IInv, MemoryOK
    <3>6. \A k \in DOMAIN chunks' : ChunkOK(k)' /\ Prefix(k)'
      BY <2>7, <3>1, <3>3, <3>4
    <3> QED BY ONLY <2>7, <3>5, <3>6 DEF MemoryOK
  <2>10. Apart'
    BY <2>3, <2>6, <2>7, <2>8 DEF IInv, Apart, MovesTo
  <2>11. WholeWhenOpen'
    <3>1. Size(h)' = 0
      BY <2>3, <2>6, <2>7 DEF Size, MovesTo
    <3>2. \A g \in Handles \ {h} : fh[g].ptr # Null => Size(g)' = Size(g)
      BY <2>3, <2>7, <2>8 DEF IInv, Apart, MovesTo, Size
    <3> QED BY <2>3, <2>5, <2>6, <3>1, <3>2 DEF IInv, WholeWhenOpen, MovesTo
  <2>12. HandlesOK' /\ MetaOK' /\ NoOverrun'
    BY <1>3, <2>3, <2>6, HandlesStep DEF Open, IInv, MetaOK, NoOverrun, EndsInLastPage
  <2> QED BY <2>9, <2>10, <2>11, <2>12 DEF IInv
<1> QED BY <1>2, <1>3

\* The next bytes of a file behind its beginning.
LEMMA PrefixGrows ==
    ASSUME NEW b \in Seq(Int), NEW size \in Nat, Len(b) = size, \A i \in 1 .. size : b[i] = i,
           NEW n \in Nat, NEW piece \in Seq(Int), Len(piece) = n,
           \A i \in 1 .. n : piece[i] = size + i
    PROVE  /\ b \o piece \in Seq(Int) /\ Len(b \o piece) = size + n
           /\ \A i \in 1 .. size + n : (b \o piece)[i] = i
<1>1. b \o piece \in Seq(Int) /\ Len(b \o piece) = Len(b) + Len(piece)
  BY ConcatProperties
<1>2. ASSUME NEW i \in 1 .. size + n PROVE (b \o piece)[i] = i
  <2>1. CASE i <= size
    BY <2>1
  <2>2. CASE i > size
    <3>1. i - size \in 1 .. n /\ (b \o piece)[i] = piece[i - size]
      BY <2>2
    <3> QED BY <3>1
  <2> QED BY <2>1, <2>2
<1> QED BY <1>1, <1>2

\* write_data: the buffer stays the beginning of the file.
LEMMA PieceStep ==
    ASSUME IInv, NEW h \in Handles, NEW n, Piece(h, n)
    PROVE  IInv'
<1>1. PICK p : p = fh[h].ptr
  OBVIOUS
<1> DEFINE size == chunks[p].size
           piece == [i \in 1 .. n |-> size + i]
<1>2. /\ p # Null /\ p \in DOMAIN chunks /\ chunks[p].memory = p /\ p \in DOMAIN buffers
      /\ size \in Nat /\ buffers[p] \in Seq(Int) /\ Len(buffers[p]) = size
      /\ \A i \in 1 .. size : buffers[p][i] = i
      /\ DOMAIN chunks[p] = {"memory", "size"}
      /\ fh[h].pc = "transfer" /\ <<meta, fh[h].remote>> \in Sizes
  BY <1>1 DEF Piece, IInv, HandlesOK, HandleOK, Busy, Apart, MemoryOK, ChunkOK, Prefix
<1>3. fh[h].remote \in Nat
  BY <1>2, FileAssumption
<1>4. n \in Nat /\ size + n <= fh[h].remote
  BY <1>1, <1>2, <1>3 DEF Piece, Size
<1>5. /\ chunks' = [chunks EXCEPT ![p].size = @ + n]
      /\ buffers' = [buffers EXCEPT ![p] = @ \o piece]
      /\ UNCHANGED <<meta, isize, allocs, fh, bad>>
  BY <1>1, <1>2 DEF Piece
<1>6. /\ DOMAIN chunks' = DOMAIN chunks /\ DOMAIN buffers' = DOMAIN buffers
      /\ chunks'[p].size = size + n /\ chunks'[p].memory = p
      /\ DOMAIN chunks'[p] = {"memory", "size"}
      /\ \A k \in DOMAIN chunks : k # p => chunks'[k] = chunks[k]
      /\ \A k \in DOMAIN buffers : k # p => buffers'[k] = buffers[k]
      /\ buffers'[p] = buffers[p] \o piece
      /\ chunks' = [k \in DOMAIN chunks' |-> chunks'[k]]
      /\ buffers' = [k \in DOMAIN buffers' |-> buffers'[k]]
  BY <1>2, <1>5 DEF IInv, MemoryOK
<1>7. Prefix(p)'
  <2> DEFINE b == buffers[p]
  <2> HIDE DEF size
  <2>1. piece \in Seq(Int) /\ Len(piece) = n /\ \A i \in 1 .. n : piece[i] = size + i
    BY <1>2, <1>4
  <2> HIDE DEF b, piece
  <2>2. b \in Seq(Int) /\ Len(b) = size /\ \A i \in 1 .. size : b[i] = i
    BY <1>2 DEF b
  <2>3. /\ b \o piece \in Seq(Int) /\ Len(b \o piece) = size + n
        /\ \A i \in 1 .. size + n : (b \o piece)[i] = i
    <3>1. size \in Nat /\ n \in Nat
      BY <1>2, <1>4
    <3> QED BY ONLY <2>1, <2>2, <3>1, PrefixGrows
  <2>4. chunks'[p].size = size + n /\ buffers'[p] = b \o piece
    BY <1>6 DEF b
  <2> QED BY ONLY <1>2, <1>4, <2>3, <2>4 DEF Prefix
<1>8. MemoryOK'
  <2> HIDE DEF size, piece
  <2>1. ChunkOK(p)'
    BY <1>2, <1>6 DEF ChunkOK
  <2>2. \A k \in DOMAIN chunks \ {p} : ChunkOK(k)' /\ Prefix(k)'
    BY <1>6 DEF IInv, MemoryOK, ChunkOK, Prefix
  <2>3. DOMAIN chunks' \subseteq 1 .. allocs' /\ DOMAIN buffers' \subseteq 1 .. allocs' /\ allocs' \in Nat
    BY <1>5, <1>6 DEF IInv, MemoryOK
  <2>4. \A k \in DOMAIN chunks' : ChunkOK(k)' /\ Prefix(k)'
    BY <1>6, <1>7, <2>1, <2>2
  <2> QED BY ONLY <1>6, <2>3, <2>4 DEF MemoryOK
<1>9. Apart'
  BY <1>5, <1>6 DEF IInv, Apart
<1>10. WholeWhenOpen'
  <2>1. Size(h)' = size + n /\ fh[h].pc # "open"
    BY <1>1, <1>2, <1>5, <1>6 DEF Size
  <2>2. \A g \in Handles \ {h} : fh[g].ptr # Null => Size(g)' = Size(g)
    BY <1>1, <1>5, <1>6 DEF IInv, Apart, Size
  <2>3. Size(h)' <= fh[h].remote
    BY <1>4, <2>1
  <2> QED BY ONLY IInv, <1>5, <2>1, <2>2, <2>3 DEF IInv, WholeWhenOpen, Apart
<1>11. MetaOK' /\ HandlesOK' /\ NoOverrun'
  <2>1. \A r : HandleOK(r)' <=> HandleOK(r)
    BY <1>5 DEF HandleOK
  <2> QED BY <1>5, <2>1 DEF IInv, MetaOK, HandlesOK, HandleOK, NoOverrun, EndsInLastPage
<1> QED BY <1>8, <1>9, <1>10, <1>11 DEF IInv

\* The transfer is over, stalls, or is given up.
LEMMA TransferStep ==
    ASSUME IInv, NEW h \in Handles, Done(h) \/ Stall(h) \/ Fails(h) \/ NoMemory(h)
    PROVE  IInv'
<1>1. /\ HandleOK(fh[h]) /\ fh[h].pc \in Busy /\ fh[h].ptr # Null
      /\ chunks[fh[h].ptr].memory = fh[h].ptr /\ HandlesOK /\ isize \in 0 .. meta
  BY DEF IInv, MetaOK, HandlesOK, HandleOK, Busy, Apart, MemoryOK, ChunkOK,
      Done, Stall, Fails, NoMemory
<1>2. CASE Done(h)
  <2> DEFINE l == Overlay(fh[h], [pc |-> "open"])
  <2>1. MovesTo(h, l)
    BY <1>1, <1>2, StepMoves DEF Done
  <2>2. HandleOK(l) /\ l.ptr = fh[h].ptr /\ l.remote = fh[h].remote
    BY <1>1 DEF HandleOK, Overlay, Closed, Busy
  <2> HIDE DEF l
  <2> QED BY <1>1, <1>2, <2>1, <2>2, NoMemoryTouched DEF Done
<1>3. CASE Stall(h)
  <2> DEFINE l == Overlay(fh[h], [pc |-> "stalled"])
  <2>1. MovesTo(h, l)
    BY <1>1, <1>3, StepMoves DEF Stall
  <2>2. HandleOK(l) /\ l.ptr = fh[h].ptr /\ l.remote = fh[h].remote /\ l.pc # "open"
    BY <1>1 DEF HandleOK, Overlay, Closed, Busy
  <2> HIDE DEF l
  <2> QED BY <1>1, <1>3, <2>1, <2>2, NoMemoryTouched DEF Stall
<1>4. CASE Fails(h) \/ NoMemory(h)
  <2> DEFINE l == Overlay(fh[h], [pc |-> "open", ptr |-> Null])
             B == IF Fails(h) THEN {fh[h].ptr} ELSE {}
  <2>1. MovesTo(h, l)
    BY <1>1, <1>4, StepMoves DEF Fails, NoMemory
  <2>2. HandleOK(l) /\ l.ptr = Null
    BY <1>1 DEF HandleOK, Overlay, Closed, Busy
  <2>3. /\ chunks' = Without(chunks, {fh[h].ptr})
        /\ UNCHANGED <<meta, isize, allocs, bad>>
    BY <1>4 DEF Fails, NoMemory
  <2>4. buffers' = Without(buffers, B)
    <3>1. CASE Fails(h)
      BY <1>1, <3>1 DEF Fails
    <3>2. CASE ~Fails(h)
      BY <1>4, <3>2 DEF NoMemory, IInv, MemoryOK, Without
    <3> QED BY <3>1, <3>2
  <2>5. B \in SUBSET {fh[h].ptr}
    OBVIOUS
  <2> HIDE DEF l, B
  <2> QED BY <2>1, <2>2, <2>3, <2>4, <2>5, GivesUp
<1> QED BY <1>2, <1>3, <1>4

LEMMA ReleaseStep ==
    ASSUME IInv, NEW h \in Handles, Release(h)
    PROVE  IInv'
<1>1. MovesTo(h, Closed)
  BY DEF Release, IInv, HandlesOK, MovesTo
<1>2. HandleOK(Closed) /\ Closed.ptr = Null
  BY DEF HandleOK, Closed, Busy
<1>3. buffers' = Without(buffers, {}) /\ {} \in SUBSET {fh[h].ptr}
  BY DEF Release, IInv, MemoryOK, Without
<1> QED BY <1>1, <1>2, <1>3, GivesUp DEF Release

\* A page is copied from within the buffer, and is that of the file.
LEMMA ReadStep ==
    ASSUME IInv, NEW h \in Handles, NEW offset \in Offsets, Read(h, offset)
    PROVE  IInv'
<1> DEFINE n == NToCopy(h, offset)
           size == Size(h)
           remote == fh[h].remote
<1>1. /\ HandleOK(fh[h]) /\ fh[h].pc = "open" /\ fh[h].ptr # Null
      /\ <<meta, remote>> \in Sizes /\ size = remote /\ HandlesOK /\ MetaOK
      /\ fh[h].ptr \in DOMAIN chunks /\ ChunkOK(fh[h].ptr) /\ Prefix(fh[h].ptr)
  BY DEF Read, IInv, HandlesOK, HandleOK, Apart, MemoryOK, WholeWhenOpen
<1>2. /\ size \in Nat /\ Bytes(h) \in Seq(Int) /\ Len(Bytes(h)) = size
      /\ \A i \in 1 .. size : Bytes(h)[i] = i
  BY <1>1 DEF ChunkOK, Prefix, Size, Bytes
<1>3. /\ offset \in Nat /\ offset < meta /\ Page \in Nat /\ Page > 0
      /\ EndsInLastPage => offset <= remote
  <2>1. <<meta, remote>>[1] = meta /\ <<meta, remote>>[2] = remote
    OBVIOUS
  <2> QED BY <1>1, <2>1, OffsetFacts, FileAssumption
<1>4. UNCHANGED <<meta, chunks, buffers, allocs>>
  BY DEF Read
<1> HIDE DEF size, remote
<1>5. CASE n < 0 \/ offset + n > size
  <2>1. ~EndsInLastPage
    <3>1. n = IF offset + Page > size THEN size - offset ELSE Page
      BY DEF NToCopy, size
    <3> HIDE DEF n
    <3>2. ~(offset <= remote)
      BY <1>1, <1>2, <1>3, <1>5, <3>1
    <3> QED BY <1>3, <3>2
  <2>2. UNCHANGED <<fh, isize>>
    BY <1>5 DEF Read, size
  <2>3. NoOverrun'
    BY <2>1 DEF NoOverrun, EndsInLastPage
  <2>4. HandlesOK'
    BY <1>4, <2>2 DEF IInv, HandlesOK, HandleOK
  <2>5. MetaOK' /\ MemoryOK' /\ Apart' /\ WholeWhenOpen'
    BY <1>4, <2>2 DEF IInv, MetaOK, MemoryOK, ChunkOK, Prefix, Apart, WholeWhenOpen, Size
  <2> QED BY <2>3, <2>4, <2>5 DEF IInv
<1>6. CASE ~(n < 0 \/ offset + n > size)
  <2> DEFINE page == SubSeq(Bytes(h), offset + 1, offset + n)
             pages == Updated(fh[h].pages, offset, page)
             l == Overlay(fh[h], [pages |-> pages])
  <2>1. /\ Step(h, [pages |-> pages]) /\ bad' = bad
        /\ isize' = IF n < Page /\ offset + n < isize THEN offset + n ELSE isize
    BY <1>6 DEF Read, size
  <2>2. n \in Nat /\ offset + n <= size /\ (n < Page => offset + n = size)
    <3>1. n = IF offset + Page > size THEN size - offset ELSE Page
      BY DEF NToCopy, size
    <3> HIDE DEF n
    <3> QED BY <1>2, <1>3, <1>6, <3>1
  <2>3. isize' \in 0 .. meta
    BY <1>1, <1>3, <2>1, <2>2 DEF MetaOK
  <2> HIDE DEF n
  <2>4. HoldsItsBytes(page, offset, remote)
    BY <1>1, <1>2, <1>3, <2>2, PageOfPrefix
  <2> HIDE DEF page
  <2>5. \A o \in DOMAIN pages : HoldsItsBytes(pages[o], o, remote)
    BY <1>1, <2>4 DEF HandleOK, Updated, Overlay, remote
  <2> HIDE DEF pages
  <2>6. MovesTo(h, l)
    BY <1>1, <2>1, StepMoves
  <2>7. HandleOK(l) /\ l.ptr = fh[h].ptr /\ l.remote = fh[h].remote
    BY <1>1, <2>5 DEF HandleOK, Overlay, Closed, Busy, remote
  <2> HIDE DEF l
  <2> QED BY <1>1, <1>4, <2>1, <2>3, <2>6, <2>7, NoMemoryTouched DEF size, remote
<1> QED BY <1>5, <1>6

-----------------------------------------------------------------------------
(***************************************************************************)
(* Theorem                                                                  *)
(***************************************************************************)

LEMMA Inductive == IInv /\ [FileNext]_fileVars => IInv'
<1> SUFFICES ASSUME IInv, [FileNext]_fileVars PROVE IInv'
  OBVIOUS
<1>1. CASE Getattr
  <2>1. HandlesOK'
    BY <1>1 DEF Getattr, IInv, HandlesOK, HandleOK
  <2> QED BY <1>1, <2>1 DEF Getattr, IInv, MetaOK, MemoryOK, ChunkOK, Prefix, Apart,
              WholeWhenOpen, Size, NoOverrun, EndsInLastPage
<1>2. ASSUME UNCHANGED fileVars PROVE IInv'
  <2>1. HandlesOK'
    BY <1>2 DEF fileVars, IInv, HandlesOK, HandleOK
  <2> QED BY <1>2, <2>1 DEF fileVars, IInv, MetaOK, MemoryOK, ChunkOK, Prefix, Apart,
              WholeWhenOpen, Size, NoOverrun, EndsInLastPage
<1>3. ASSUME NEW h \in Handles, ReadNothing(h) PROVE IInv'
  BY <1>2, <1>3 DEF ReadNothing
<1>4. ASSUME NEW h \in Handles, Transfer(h) PROVE IInv'
  BY <1>4, PieceStep, TransferStep DEF Transfer
<1> QED BY <1>1, <1>2, <1>3, <1>4, OpenStep, TransferStep, ReadStep, ReleaseStep DEF FileNext

\* Every page that was read holds the bytes of the file that belong there, from a
\* buffer that no other open file has; no read leaves the buffer as long as the
\* downloads end where the metadata say, or behind.
THEOREM PagesAreTheFileHolds == FileSpec => []PagesAreTheFile
<1>1. FileInit => IInv
  <2> SUFFICES ASSUME FileInit PROVE IInv
    OBVIOUS
  <2>1. HandleOK(Closed) /\ Closed.ptr = Null
    BY DEF HandleOK, Closed, Busy
  <2>2. DOMAIN chunks = {} /\ DOMAIN buffers = {} /\ chunks = [n \in {} |-> n] /\ buffers = [n \in {} |-> n]
    BY DEF FileInit
  <2> QED BY <2>1, <2>2, FileAssumption DEF FileInit, IInv, MetaOK, HandlesOK, MemoryOK, Apart,
              WholeWhenOpen, NoOverrun
<1>2. IInv => PagesAreTheFile
  BY DEF IInv, MetaOK, HandlesOK, HandleOK, MemoryOK, ChunkOK, Prefix, Apart, PagesAreTheFile,
      FileTypeOK, Bytes, Size
<1> QED BY <1>1, <1>2, Inductive, PTL DEF FileSpec

-----------------------------------------------------------------------------
(***************************************************************************)
(* Numbers                                                                  *)
(***************************************************************************)

\* A set of numbers has a least one.
LEMMA LeastOf ==
    ASSUME NEW T \in SUBSET Nat, T # {}
    PROVE  \E n \in T : \A m \in T : n <= m
<1> DEFINE R == OpToRel(<, Nat)
<1>1. IsWellFoundedOn(R, Nat)
  BY NatLessThanWellFounded
<1>2. \A x, y \in Nat : x < y => <<x, y>> \in R
  BY ZenonT(20) DEF OpToRel
<1> HIDE DEF R
<1>3. PICK n \in T : \A m \in T : ~(<<m, n>> \in R)
  BY ONLY <1>1, WFMin, T \in SUBSET Nat, T # {}
<1>4. \A m \in T : ~(m < n)
  BY <1>2, <1>3
<1> QED BY <1>4

\* Induction, said of the set of numbers that a fact holds of.
LEMMA InductionOn ==
    ASSUME NEW T, 0 \in T, \A n \in Nat : n \in T => n + 1 \in T
    PROVE  Nat \subseteq T
<1> SUFFICES ASSUME Nat \ T # {} PROVE FALSE
  OBVIOUS
<1>1. PICK n \in Nat \ T : \A m \in Nat \ T : n <= m
  BY LeastOf
<1>2. n - 1 \in Nat /\ n - 1 \in T
  BY <1>1
<1> QED BY <1>1, <1>2

\* A set of integers below a bound has a largest one.
LEMMA MaxOf ==
    ASSUME NEW T \in SUBSET Int, T # {}, NEW b \in Int, \A m \in T : m <= b
    PROVE  Max(T) \in T /\ \A m \in T : m <= Max(T)
<1> DEFINE D == {n \in Nat : b - n \in T}
<1>1. D # {}
  <2>1. PICK m \in T : TRUE
    OBVIOUS
  <2>2. b - m \in Nat /\ b - (b - m) = m
    OBVIOUS
  <2> QED BY <2>1, <2>2
<1>2. PICK n \in D : \A k \in D : n <= k
  BY <1>1, LeastOf
<1>3. b - n \in T /\ \A m \in T : m <= b - n
  <2> SUFFICES ASSUME NEW m \in T PROVE m <= b - n
    BY <1>2
  <2>1. b - m \in D
    <3>1. b - m \in Nat /\ b - (b - m) = m
      OBVIOUS
    <3> QED BY <3>1
  <2>2. n \in Int /\ m \in Int
    OBVIOUS
  <2> HIDE DEF D
  <2>3. n <= b - m
    BY ONLY <1>2, <2>1
  <2> QED BY ONLY <2>2, <2>3, b \in Int
<1> QED BY <1>3 DEF Max

-----------------------------------------------------------------------------
(***************************************************************************)
(* countSeparators                                                          *)
(***************************************************************************)

\* s has the positions of c among the first n characters, in order.
Positions(c, p, n, s) ==
    /\ s \in Seq(Nat)
    /\ \A k \in 1 .. Len(s) : s[k] \in 0 .. n - 1 /\ p[s[k] + 1] = c
    /\ \A j, k \in 1 .. Len(s) : j < k => s[j] < s[k]
    /\ \A i \in 1 .. n : p[i] = c => \E k \in 1 .. Len(s) : s[k] = i - 1

LEMMA PositionsGrow ==
    ASSUME NEW c, NEW p, NEW n \in Nat, NEW s, Positions(c, p, n, s)
    PROVE  Positions(c, p, n + 1, IF p[n + 1] = c THEN Append(s, n) ELSE s)
<1>1. CASE p[n + 1] # c
  BY <1>1 DEF Positions
<1>2. CASE p[n + 1] = c
  <2> DEFINE s2 == Append(s, n)
  <2>1. s2 \in Seq(Nat) /\ Len(s2) = Len(s) + 1 /\ s2[Len(s) + 1] = n /\ Len(s) \in Nat
        /\ \A k \in 1 .. Len(s) : s2[k] = s[k] /\ s[k] \in Nat
    BY DEF Positions
  <2> HIDE DEF s2
  <2>2. \A k \in 1 .. Len(s2) : s2[k] \in 0 .. n /\ p[s2[k] + 1] = c
    <3> SUFFICES ASSUME NEW k \in 1 .. Len(s2) PROVE s2[k] \in 0 .. n /\ p[s2[k] + 1] = c
      OBVIOUS
    <3>1. CASE k = Len(s) + 1
      BY <1>2, <2>1, <3>1
    <3>2. CASE k \in 1 .. Len(s)
      <4>1. s[k] \in 0 .. n - 1 /\ p[s[k] + 1] = c
        BY <3>2 DEF Positions
      <4> QED BY <2>1, <3>2, <4>1
    <3> QED BY <2>1, <3>1, <3>2
  <2>3. \A j, k \in 1 .. Len(s2) : j < k => s2[j] < s2[k]
    <3> SUFFICES ASSUME NEW j \in 1 .. Len(s2), NEW k \in 1 .. Len(s2), j < k PROVE s2[j] < s2[k]
      OBVIOUS
    <3>1. j \in 1 .. Len(s) /\ s[j] \in 0 .. n - 1
      <4>1. j \in 1 .. Len(s)
        BY <2>1
      <4> QED BY <4>1 DEF Positions
    <3>2. CASE k = Len(s) + 1
      BY <2>1, <3>1, <3>2
    <3>3. CASE k \in 1 .. Len(s)
      BY <2>1, <3>1, <3>3 DEF Positions
    <3> QED BY <2>1, <3>2, <3>3
  <2>4. \A i \in 1 .. n + 1 : p[i] = c => \E k \in 1 .. Len(s2) : s2[k] = i - 1
    <3> SUFFICES ASSUME NEW i \in 1 .. n + 1, p[i] = c
                 PROVE  \E k \in 1 .. Len(s2) : s2[k] = i - 1
      OBVIOUS
    <3>1. CASE i = n + 1
      BY <2>1, <3>1
    <3>2. CASE i # n + 1
      <4>1. PICK k \in 1 .. Len(s) : s[k] = i - 1
        BY <3>2 DEF Positions
      <4> QED BY <2>1, <4>1
    <3> QED BY <3>1, <3>2
  <2>5. Positions(c, p, n + 1, s2)
    BY <2>1, <2>2, <2>3, <2>4 DEF Positions
  <2> QED BY <1>2, <2>5 DEF s2
<1> QED BY <1>1, <1>2

\* A function that counts as countSeparators does, up to n
Counting(c, p, n, f) ==
    f = [k \in 0 .. n |-> IF k = 0 THEN << >>
                          ELSE IF p[k] = c THEN Append(f[k - 1], k - 1) ELSE f[k - 1]]

LEMMA CountingExists ==
    ASSUME NEW c, NEW p, NEW n \in Nat
    PROVE  \E f : Counting(c, p, n, f)
<1> DEFINE T == {m \in Nat : \E f : Counting(c, p, m, f)}
<1>1. 0 \in T
  <2> DEFINE f == [k \in 0 .. 0 |-> << >>]
  <2>1. f = [k \in 0 .. 0 |-> IF k = 0 THEN << >>
                              ELSE IF p[k] = c THEN Append(f[k - 1], k - 1) ELSE f[k - 1]]
    OBVIOUS
  <2> HIDE DEF f
  <2>2. Counting(c, p, 0, f)
    BY ONLY <2>1 DEF Counting
  <2> QED BY <2>2
<1>2. ASSUME NEW m \in Nat, m \in T PROVE m + 1 \in T
  <2>1. PICK f : Counting(c, p, m, f)
    BY <1>2
  <2> DEFINE g == [k \in 0 .. m + 1 |-> IF k <= m THEN f[k]
                       ELSE IF p[k] = c THEN Append(f[k - 1], k - 1) ELSE f[k - 1]]
  <2>2. \A k \in 0 .. m : f[k] = IF k = 0 THEN << >>
                                 ELSE IF p[k] = c THEN Append(f[k - 1], k - 1) ELSE f[k - 1]
    <3>1. f = [k \in 0 .. m |-> IF k = 0 THEN << >>
                                ELSE IF p[k] = c THEN Append(f[k - 1], k - 1) ELSE f[k - 1]]
      BY ONLY <2>1 DEF Counting
    <3> QED BY ONLY <3>1
  <2>3. \A k \in 0 .. m : g[k] = f[k]
    OBVIOUS
  <2>4. g[m + 1] = IF p[m + 1] = c THEN Append(f[m], m) ELSE f[m]
    OBVIOUS
  <2>5. g = [k \in 0 .. m + 1 |-> g[k]]
    OBVIOUS
  <2> HIDE DEF g
  <2>6. \A k \in 0 .. m + 1 : g[k] = IF k = 0 THEN << >>
                                     ELSE IF p[k] = c THEN Append(g[k - 1], k - 1) ELSE g[k - 1]
    <3> SUFFICES ASSUME NEW k \in 0 .. m + 1
                 PROVE  g[k] = IF k = 0 THEN << >>
                               ELSE IF p[k] = c THEN Append(g[k - 1], k - 1) ELSE g[k - 1]
      OBVIOUS
    <3>1. CASE k = m + 1
      <4>1. k # 0 /\ k - 1 = m /\ m \in 0 .. m
        BY <3>1
      <4> QED BY <2>3, <2>4, <3>1, <4>1
    <3>2. CASE k = 0
      <4>1. 0 \in 0 .. m
        OBVIOUS
      <4> QED BY <2>2, <2>3, <3>2, <4>1
    <3>3. CASE k # 0 /\ k # m + 1
      <4>1. k \in 0 .. m /\ k - 1 \in 0 .. m
        BY <3>3
      <4> QED BY <2>2, <2>3, <3>3, <4>1
    <3> QED BY <3>1, <3>2, <3>3
  <2>7. Counting(c, p, m + 1, g)
    BY ONLY <2>5, <2>6 DEF Counting
  <2> QED BY <2>7
<1> HIDE DEF T
<1>3. Nat \subseteq T
  BY <1>1, <1>2, InductionOn
<1> QED BY <1>3 DEF T

LEMMA SeparatorsCounted ==
    ASSUME NEW c, NEW p, Len(p) \in Nat
    PROVE  Positions(c, p, Len(p), CountSeparators(c, p))
<1> DEFINE f == CHOOSE g : Counting(c, p, Len(p), g)
<1>1. CountSeparators(c, p) = f[Len(p)]
  BY DEF CountSeparators, Counting
<1>2. Counting(c, p, Len(p), f)
  BY CountingExists
<1> HIDE DEF f
<1>3. \A k \in 0 .. Len(p) : f[k] = IF k = 0 THEN << >>
                               ELSE IF p[k] = c THEN Append(f[k - 1], k - 1) ELSE f[k - 1]
  <2>1. f = [k \in 0 .. Len(p) |-> IF k = 0 THEN << >>
                              ELSE IF p[k] = c THEN Append(f[k - 1], k - 1) ELSE f[k - 1]]
    BY ONLY <1>2 DEF Counting
  <2> QED BY ONLY <2>1
<1> DEFINE T == {k \in Nat : k <= Len(p) => Positions(c, p, k, f[k])}
<1>4. 0 \in T
  <2>1. f[0] = << >>
    BY <1>3
  <2>2. Positions(c, p, 0, << >>)
    BY DEF Positions
  <2> QED BY <2>1, <2>2
<1>5. ASSUME NEW k \in Nat, k \in T PROVE k + 1 \in T
  <2> SUFFICES ASSUME k + 1 <= Len(p) PROVE Positions(c, p, k + 1, f[k + 1])
    OBVIOUS
  <2>1. Positions(c, p, k, f[k])
    BY <1>5
  <2>2. f[k + 1] = IF p[k + 1] = c THEN Append(f[k], k) ELSE f[k]
    <3>1. k + 1 \in 0 .. Len(p) /\ k + 1 # 0 /\ (k + 1) - 1 = k
      OBVIOUS
    <3> QED BY <1>3, <3>1
  <2> QED BY <2>1, <2>2, PositionsGrow
<1> HIDE DEF T
<1>6. Nat \subseteq T
  BY <1>4, <1>5, InductionOn
<1>7. Positions(c, p, Len(p), f[Len(p)])
  BY <1>6 DEF T
<1> QED BY <1>1, <1>7

-----------------------------------------------------------------------------
(***************************************************************************)
(* The bounds that are computed are those of the segments.                  *)
(***************************************************************************)

PathOK(p) ==
    /\ p \in Seq(Chars) /\ Len(p) >= 1 /\ p[1] = Slash
    /\ \A i \in 1 .. Len(p) - 1 : p[i] = Slash => p[i + 1] # Slash

\* A segment has one end.
LEMMA OneEnd ==
    ASSUME NEW p, Len(p) \in Nat, NEW i, NEW j, NEW k, IsSegment(p, i, j), IsSegment(p, i, k)
    PROVE  j = k
<1>1. i \in 1 .. Len(p) /\ j \in i + 1 .. Len(p) + 1 /\ k \in i + 1 .. Len(p) + 1
  BY DEF IsSegment
<1>2. ~(j < k)
  <2> SUFFICES ASSUME j < k PROVE FALSE
    OBVIOUS
  <2>1. j \in i + 1 .. k - 1 /\ j # Len(p) + 1
    BY <1>1
  <2> QED BY <2>1 DEF IsSegment
<1>3. ~(k < j)
  <2> SUFFICES ASSUME k < j PROVE FALSE
    OBVIOUS
  <2>1. k \in i + 1 .. j - 1 /\ k # Len(p) + 1
    BY <1>1
  <2> QED BY <2>1 DEF IsSegment
<1> QED BY <1>1, <1>2, <1>3

\* Where the segment that follows slash k ends
LEMMA EndOfSegment ==
    ASSUME NEW p, PathOK(p), p[Len(p)] # Slash, NEW s, s = CountSeparators(Slash, p),
           NEW k \in 0 .. Len(s) - 1
    PROVE  /\ SIndex(p, k) = s[k + 1] + 1
           /\ EIndex(p, k) = IF k + 1 < Len(s) THEN s[k + 2] ELSE Len(p)
<1>1. Len(p) \in Nat /\ Positions(Slash, p, Len(p), s)
  BY SeparatorsCounted DEF PathOK
<1>2. Len(s) \in Nat /\ k + 1 \in 1 .. Len(s) /\ s[k + 1] \in 0 .. Len(p) - 1
  BY <1>1 DEF Positions
<1>3. SIndex(p, k) = s[k + 1] + 1
  BY <1>2 DEF SIndex, Pos
<1>4. CASE k + 1 < Len(s)
  <2>1. k + 2 \in 1 .. Len(s)
    BY <1>2, <1>4
  <2>2. s[k + 1] < s[k + 2] /\ s[k + 2] \in 0 .. Len(p) - 1 /\ p[s[k + 2] + 1] = Slash
    BY <1>1, <1>2, <2>1 DEF Positions
  <2>3. Pos(s, k + 1) = s[k + 2]
    <3>1. (k + 1) + 1 = k + 2
      OBVIOUS
    <3> QED BY <1>4, <3>1 DEF Pos
  <2>4. ~(s[k + 2] + 1 < SIndex(p, k))
    BY <1>2, <1>3, <2>2
  <2>5. CharAt(p, (s[k + 2] + 1) - 1) = Slash
    <3>1. (s[k + 2] + 1) - 1 = s[k + 2]
      BY <2>2
    <3> QED BY <2>2, <3>1 DEF CharAt
  <2>6. EIndex(p, k) = (s[k + 2] + 1) - 1
    BY <2>3, <2>4, <2>5 DEF EIndex
  <2>7. EIndex(p, k) = s[k + 2]
    BY ONLY <2>2, <2>6
  <2> QED BY <1>3, <1>4, <2>7
<1>5. CASE ~(k + 1 < Len(s))
  <2>1. Pos(s, k + 1) = -1
    BY <1>5 DEF Pos
  <2>2. -1 + 1 < SIndex(p, k)
    BY <1>2, <1>3
  <2>3. CharAt(p, Len(p) - 1) # Slash
    <3>1. Len(p) - 1 \in 0 .. Len(p) - 1 /\ (Len(p) - 1) + 1 = Len(p)
      BY <1>1 DEF PathOK
    <3> QED BY <3>1 DEF CharAt
  <2>4. EIndex(p, k) = Len(p)
    BY <2>1, <2>2, <2>3 DEF EIndex
  <2> QED BY <1>3, <1>5, <2>4
<1> QED BY <1>4, <1>5

\* What follows slash k is a segment.
LEMMA SlashBegins ==
    ASSUME NEW p, PathOK(p), p[Len(p)] # Slash, NEW s, s = CountSeparators(Slash, p),
           NEW k \in 0 .. Len(s) - 1, NEW i, i = s[k + 1] + 1, NEW j, j = EIndex(p, k) + 1
    PROVE  IsSegment(p, i, j) /\ SegmentAt(p, k) = Segment(p, i, j) /\ EIndex(p, k) \in Nat
<1>1. Len(p) \in Nat /\ Positions(Slash, p, Len(p), s)
  BY SeparatorsCounted DEF PathOK
<1>2. /\ Len(s) \in Nat /\ k + 1 \in 1 .. Len(s) /\ s[k + 1] \in 0 .. Len(p) - 1
      /\ p[i] = Slash /\ i \in 1 .. Len(p)
  <2>1. Len(s) \in Nat
    BY <1>1 DEF Positions
  <2>2. k + 1 \in 1 .. Len(s)
    BY <2>1
  <2>3. s[k + 1] \in 0 .. Len(p) - 1 /\ p[s[k + 1] + 1] = Slash
    BY ONLY <1>1, <2>2 DEF Positions
  <2>4. s[k + 1] + 1 \in 1 .. Len(p)
    BY ONLY <1>1, <2>3
  <2> QED BY ONLY <2>1, <2>2, <2>3, <2>4, i = s[k + 1] + 1
<1>3. SIndex(p, k) = i /\ EIndex(p, k) = IF k + 1 < Len(s) THEN s[k + 2] ELSE Len(p)
  BY EndOfSegment
<1>4. /\ j \in i + 1 .. Len(p) + 1 /\ (j = Len(p) + 1 \/ p[j] = Slash)
      /\ EIndex(p, k) \in Nat
  <2>1. CASE k + 1 < Len(s)
    <3>1. k + 2 \in 1 .. Len(s) /\ k + 1 < k + 2
      BY <1>2, <2>1
    <3>2. s[k + 1] < s[k + 2] /\ s[k + 2] \in 0 .. Len(p) - 1 /\ p[s[k + 2] + 1] = Slash
      BY <1>1, <1>2, <3>1 DEF Positions
    <3>3. j = s[k + 2] + 1 /\ EIndex(p, k) = s[k + 2]
      BY <1>3, <2>1
    <3>4. /\ s[k + 1] \in Nat /\ s[k + 2] \in Nat /\ Len(p) \in Nat
          /\ s[k + 2] + 1 \in s[k + 1] + 1 + 1 .. Len(p) + 1
      BY ONLY <1>1, <1>2, <3>2
    <3> QED BY ONLY <3>2, <3>3, <3>4, i = s[k + 1] + 1
  <2>2. CASE ~(k + 1 < Len(s))
    <3>1. j = Len(p) + 1 /\ EIndex(p, k) = Len(p)
      BY <1>3, <2>2
    <3> QED BY ONLY <1>1, <1>2, <3>1
  <2> QED BY <2>1, <2>2
<1>5. ASSUME NEW q \in i + 1 .. j - 1 PROVE p[q] # Slash
  <2> SUFFICES ASSUME p[q] = Slash PROVE FALSE
    OBVIOUS
  <2>1. q \in 1 .. Len(p) /\ s[k + 1] < q - 1 /\ q < j /\ k \in Nat
    <3>1. i \in Nat /\ j \in Nat /\ i >= 1 /\ j <= Len(p) + 1 /\ s[k + 1] \in Nat /\ k \in Nat
      <4>1. i \in Nat /\ i >= 1 /\ s[k + 1] \in Nat
        BY ONLY <1>1, <1>2
      <4>2. j \in Nat /\ j <= Len(p) + 1
        BY ONLY <1>1, <1>4, <4>1
      <4>3. k \in Nat
        BY ONLY <1>2, k \in 0 .. Len(s) - 1
      <4> QED BY ONLY <4>1, <4>2, <4>3
    <3>2. q \in Nat /\ i + 1 <= q /\ q <= j - 1
      BY ONLY <3>1, q \in i + 1 .. j - 1
    <3> QED BY ONLY <1>1, <3>1, <3>2, i = s[k + 1] + 1
  <2>2. PICK m \in 1 .. Len(s) : s[m] = q - 1
    BY <1>1, <2>1 DEF Positions
  <2>3. \A a, b \in 1 .. Len(s) : a < b => s[a] < s[b]
    BY ONLY <1>1 DEF Positions
  <2>4. m \in Nat /\ s[m] \in Nat
    BY ONLY <1>2, <2>1, <2>2
  <2>5. ~(m <= k + 1)
    <3>1. ~(m < k + 1)
      BY ONLY <1>2, <2>1, <2>2, <2>3, <2>4
    <3>2. m # k + 1
      BY ONLY <1>2, <2>1, <2>2
    <3> QED BY ONLY <2>1, <2>4, <3>1, <3>2
  <2>6. k + 1 < Len(s) /\ k + 2 \in 1 .. Len(s) /\ (m = k + 2 \/ k + 2 < m)
    BY ONLY <1>2, <2>1, <2>4, <2>5, m \in 1 .. Len(s)
  <2>7. s[k + 2] \in Nat
    BY ONLY <1>1, <2>6 DEF Positions
  <2>8. s[k + 2] <= s[m]
    BY ONLY <2>3, <2>4, <2>6, <2>7
  <2>9. j = s[k + 2] + 1
    BY <1>3, <2>6
  <2> QED BY ONLY <2>1, <2>2, <2>4, <2>7, <2>8, <2>9
<1>6. IsSegment(p, i, j)
  BY <1>2, <1>4, <1>5 DEF IsSegment
<1>7. SegmentAt(p, k) = Segment(p, i, j)
  <2>1. i + (EIndex(p, k) - i) = EIndex(p, k) /\ j - 1 = EIndex(p, k)
    <3>1. i \in Nat /\ EIndex(p, k) \in Nat
      BY <1>2, <1>4
    <3> QED BY ONLY <3>1, j = EIndex(p, k) + 1
  <2> QED BY <1>3, <2>1 DEF SegmentAt, Segment, Copy
<1> QED BY <1>2, <1>4, <1>6, <1>7

\* Every segment follows a slash.
LEMMA BeginsAtSlash ==
    ASSUME NEW p, PathOK(p), p[Len(p)] # Slash, NEW s, s = CountSeparators(Slash, p),
           NEW i, NEW j, IsSegment(p, i, j)
    PROVE  \E k \in 0 .. Len(s) - 1 : i = s[k + 1] + 1 /\ j = EIndex(p, k) + 1
<1>1. Len(p) \in Nat /\ Positions(Slash, p, Len(p), s)
  BY SeparatorsCounted DEF PathOK
<1>2. i \in 1 .. Len(p) /\ p[i] = Slash
  BY DEF IsSegment
<1>3. PICK m \in 1 .. Len(s) : s[m] = i - 1
  BY <1>1, <1>2 DEF Positions
<1>4. PICK k : k = m - 1
  OBVIOUS
<1>5. Len(s) \in Nat
  BY <1>1 DEF Positions
<1>6. k \in 0 .. Len(s) - 1 /\ k + 1 = m /\ i = s[k + 1] + 1
  BY <1>2, <1>3, <1>4, <1>5
<1>7. IsSegment(p, i, EIndex(p, k) + 1)
  BY <1>6, SlashBegins
<1> QED BY <1>1, <1>6, <1>7, OneEnd

\* The slot behind the last slash has no segment.
LEMMA NothingBehind ==
    ASSUME NEW p, PathOK(p), NEW s, s = CountSeparators(Slash, p)
    PROVE  SegmentAt(p, Len(s)) = << >>
<1>1. Len(p) \in Nat /\ Positions(Slash, p, Len(p), s)
  BY SeparatorsCounted DEF PathOK
<1>2. Len(s) \in Nat
  BY <1>1 DEF Positions
<1>3. SIndex(p, Len(s)) = 0
  BY <1>2 DEF SIndex, Pos
<1>4. Pos(s, Len(s) + 1) + 1 = 0
  BY <1>2 DEF Pos
<1>5. EIndex(p, Len(s)) = 0
  <2>1. CharAt(p, 0 - 1) # Slash
    BY <1>1 DEF CharAt, Slash
  <2> QED BY <1>3, <1>4, <2>1 DEF EIndex
<1>6. SegmentAt(p, Len(s)) = SubSeq(p, 0 + 1, 0 + (0 - 0))
  BY <1>3, <1>5 DEF SegmentAt, Copy
<1> QED BY <1>6, SubSeqEmpty

-----------------------------------------------------------------------------
(***************************************************************************)
(* A title and an ID                                                        *)
(***************************************************************************)

\* A sequence is what is before a position, what is there, and what is behind.
LEMMA CutAt ==
    ASSUME NEW S, NEW q \in Seq(S), NEW n \in 1 .. Len(q)
    PROVE  q = SubSeq(q, 1, n - 1) \o <<q[n]>> \o SubSeq(q, n + 1, Len(q))
<1>1. SubSeq(q, 1, n) = SubSeq(q, 1, n - 1) \o <<q[n]>>
  <2>1. 1 \in 1 .. Len(q) /\ n \in 1 .. Len(q)
    OBVIOUS
  <2> QED BY <2>1, SubSeqRecursiveSecond
<1>2. SubSeq(q, 1, n) \o SubSeq(q, n + 1, Len(q)) = SubSeq(q, 1, Len(q))
  <2>1. /\ 1 \in 1 .. Len(q) + 1 /\ n \in 1 - 1 .. Len(q)
        /\ Len(q) \in n .. Len(q)
    OBVIOUS
  <2> QED BY <2>1, ConcatAdjacentSubSeq
<1> QED BY <1>1, <1>2, SubSeqFull

\* Nothing but digits, as many as an ID has
IsID(id) == Len(id) = IdLen /\ \A i \in DOMAIN id : id[i] = Digit

LEMMA IsIDIsDigits ==
    ASSUME NEW id \in Seq(Chars)
    PROVE  IsID(id) <=> Len(id) = IdLen /\ IsAllDigits(id)
  BY PathsAssumption DEF IsID, IsAllDigits

\* Where the last underscore is
LEMMA IdStartIs ==
    ASSUME NEW seg \in Seq(Chars), CountSeparators(Underscore, seg) # << >>
    PROVE  /\ IdStart(seg) \in 1 .. Len(seg) /\ seg[IdStart(seg)] = Underscore
           /\ \A i \in 1 .. Len(seg) : seg[i] = Underscore => i <= IdStart(seg)
<1>1. PICK u : u = CountSeparators(Underscore, seg)
  OBVIOUS
<1>2. Positions(Underscore, seg, Len(seg), u)
  BY <1>1, SeparatorsCounted
<1>3. Len(u) \in Nat \ {0} /\ IdStart(seg) = u[Len(u)] + 1
  BY <1>1, <1>2 DEF Positions, IdStart, Last
<1>4. u[Len(u)] \in 0 .. Len(seg) - 1 /\ seg[u[Len(u)] + 1] = Underscore
  BY ONLY <1>2, <1>3 DEF Positions
<1>5. ASSUME NEW i \in 1 .. Len(seg), seg[i] = Underscore PROVE i - 1 <= u[Len(u)]
  <2>1. PICK k \in 1 .. Len(u) : u[k] = i - 1
    BY ONLY <1>2, <1>5 DEF Positions
  <2>2. k = Len(u) \/ u[k] < u[Len(u)]
    BY ONLY <1>2, <1>3, k \in 1 .. Len(u) DEF Positions
  <2>3. u[k] \in Nat
    BY ONLY <1>2, <1>3, k \in 1 .. Len(u) DEF Positions
  <2> QED BY ONLY <1>4, <2>1, <2>2, <2>3
<1> QED BY <1>3, <1>4, <1>5

LEMMA PartsOfSegment ==
    ASSUME NEW seg \in Seq(Chars), NEW n \in 1 .. Len(seg)
    PROVE  /\ Copy(seg, 0, n - 1) = SubSeq(seg, 1, n - 1)
           /\ Copy(seg, n, Len(seg) - n) = SubSeq(seg, n + 1, Len(seg))
           /\ SubSeq(seg, n + 1, Len(seg)) \in Seq(Chars)
           /\ Len(SubSeq(seg, n + 1, Len(seg))) = Len(seg) - n
           /\ \A i \in 1 .. Len(seg) - n : SubSeq(seg, n + 1, Len(seg))[i] = seg[n + i]
<1>1. 0 + 1 = 1 /\ 0 + (n - 1) = n - 1 /\ n + (Len(seg) - n) = Len(seg)
  OBVIOUS
<1>2. /\ Copy(seg, 0, n - 1) = SubSeq(seg, 1, n - 1)
      /\ Copy(seg, n, Len(seg) - n) = SubSeq(seg, n + 1, Len(seg))
  BY <1>1 DEF Copy
<1> QED BY <1>2

\* A segment that looks like a title and an ID is one, cut at its last
\* underscore.
LEMMA IdishIsGame ==
    ASSUME NEW seg \in Seq(Chars), LooksIdish(seg), NEW n, n = IdStart(seg)
    PROVE  /\ n \in 1 .. Len(seg)
           /\ IsTitleAndID(seg, Copy(seg, 0, n - 1), Copy(seg, n, Len(seg) - n))
           /\ GetGameURLPath(Copy(seg, n, Len(seg) - n)) = Copy(seg, n, Len(seg) - n)
<1>1. n \in 1 .. Len(seg) /\ seg[n] = Underscore
  BY IdStartIs DEF LooksIdish
<1>2. PICK id : id = Copy(seg, n, Len(seg) - n)
  OBVIOUS
<1>3. id \in Seq(Chars) /\ id = SubSeq(seg, n + 1, Len(seg))
  BY <1>1, <1>2, PartsOfSegment
<1>4. Len(id) = IdLen /\ IsAllDigits(id)
  BY <1>2 DEF LooksIdish
<1>5. seg = SubSeq(seg, 1, n - 1) \o <<Underscore>> \o id
  BY <1>1, <1>3, CutAt
<1>6. Copy(seg, 0, n - 1) = SubSeq(seg, 1, n - 1)
  BY <1>1, PartsOfSegment
<1>7. IsTitleAndID(seg, Copy(seg, 0, n - 1), id)
  BY ONLY <1>3, <1>4, <1>5, <1>6, IsIDIsDigits DEF IsTitleAndID, IsID
<1>8. GetGameURLPath(id) = id
  BY <1>4 DEF GetGameURLPath
<1> QED BY <1>1, <1>2, <1>7, <1>8

\* A title and an ID look like them: the digits have no underscore.
LEMMA GameIsIdish ==
    ASSUME NEW seg \in Seq(Chars), HasTitleAndID(seg)
    PROVE  LooksIdish(seg)
<1>1. PICK n \in 1 .. Len(seg) :
          IsTitleAndID(seg, SubSeq(seg, 1, n - 1), SubSeq(seg, n + 1, Len(seg)))
  BY DEF HasTitleAndID
<1>2. PICK id : id = SubSeq(seg, n + 1, Len(seg))
  OBVIOUS
<1>3. id \in Seq(Chars) /\ Len(id) = Len(seg) - n /\ \A i \in 1 .. Len(seg) - n : id[i] = seg[n + i]
  BY <1>2, PartsOfSegment
<1>4. IsID(id)
  BY <1>1, <1>2 DEF IsTitleAndID, IsID
<1>5. seg[n] = Underscore
  <2>1. PICK a : a = SubSeq(seg, 1, n - 1)
    OBVIOUS
  <2>2. a \in Seq(Chars) /\ Len(a) = n - 1
    BY <2>1
  <2>3. seg = a \o <<Underscore>> \o id
    BY <1>1, <1>2, <2>1 DEF IsTitleAndID
  <2>4. Underscore \in Chars
    BY DEF Chars
  <2>5. (a \o <<Underscore>> \o id)[n] = Underscore
    BY ONLY <1>3, <2>2, <2>4, n \in 1 .. Len(seg), seg \in Seq(Chars)
  <2> QED BY <2>3, <2>5
<1>6. \A i \in n + 1 .. Len(seg) : seg[i] # Underscore
  <2> SUFFICES ASSUME NEW i \in n + 1 .. Len(seg) PROVE seg[i] # Underscore
    OBVIOUS
  <2>1. i - n \in 1 .. Len(seg) - n /\ n + (i - n) = i
    OBVIOUS
  <2>2. id[i - n] = seg[i]
    BY ONLY <1>3, <2>1
  <2>3. id[i - n] = Digit
    BY ONLY <1>3, <1>4, <2>1 DEF IsID
  <2> QED BY <2>2, <2>3 DEF Digit, Underscore
<1>7. CountSeparators(Underscore, seg) # << >>
  <2>1. Positions(Underscore, seg, Len(seg), CountSeparators(Underscore, seg))
    BY SeparatorsCounted
  <2>2. \E k \in 1 .. Len(CountSeparators(Underscore, seg)) : TRUE
    BY <1>5, <2>1 DEF Positions
  <2> QED BY <2>2
<1>8. IdStart(seg) = n
  <2>1. /\ IdStart(seg) \in 1 .. Len(seg) /\ seg[IdStart(seg)] = Underscore
        /\ n <= IdStart(seg)
    BY <1>5, <1>7, IdStartIs
  <2>2. ~(IdStart(seg) \in n + 1 .. Len(seg))
    BY <1>6, <2>1
  <2> QED BY <2>1, <2>2
<1>9. Copy(seg, n, Len(seg) - n) = id
  BY <1>2, PartsOfSegment
<1>10. Len(seg) >= IdLen
  BY <1>3, <1>4, PathsAssumption DEF IsID
<1>11. Len(id) = IdLen /\ IsAllDigits(id)
  BY <1>3, <1>4, IsIDIsDigits
<1> QED BY <1>7, <1>8, <1>9, <1>10, <1>11 DEF LooksIdish

-----------------------------------------------------------------------------
(***************************************************************************)
(* The deepest game                                                         *)
(***************************************************************************)

\* The slashes whose segment looks like a title and an ID
Hits(p) == {k \in 0 .. Len(CountSeparators(Slash, p)) : LooksIdish(SegmentAt(p, k))}

\* They number from 0, and the slot behind the last slash is none of them.
LEMMA HitsAreSlashes ==
    ASSUME NEW p, PathOK(p), NEW s, s = CountSeparators(Slash, p)
    PROVE  Len(s) \in Nat /\ \A k \in Hits(p) : k \in 0 .. Len(s) - 1
<1>1. Len(p) \in Nat /\ Positions(Slash, p, Len(p), s)
  BY SeparatorsCounted DEF PathOK
<1>2. Len(s) \in Nat
  BY <1>1 DEF Positions
<1>3. ~LooksIdish(SegmentAt(p, Len(s)))
  BY NothingBehind, PathsAssumption DEF LooksIdish
<1> QED BY <1>2, <1>3 DEF Hits

\* A segment is a sequence of characters.
LEMMA SegmentOK ==
    ASSUME NEW p, PathOK(p), NEW i, NEW j, IsSegment(p, i, j)
    PROVE  Segment(p, i, j) \in Seq(Chars) /\ i \in Nat /\ j \in Nat /\ i < j /\ j <= Len(p) + 1
<1>1. /\ Len(p) \in Nat /\ i \in 1 .. Len(p) /\ j \in i + 1 .. Len(p) + 1
      /\ \A q \in 1 .. Len(p) : p[q] \in Chars
  BY DEF PathOK, IsSegment
<1>2. i \in Nat /\ j \in Nat /\ i < j /\ j <= Len(p) + 1
  BY <1>1
<1>3. \A q \in i + 1 .. j - 1 : p[q] \in Chars
  BY ONLY <1>1, <1>2
<1>4. i + 1 \in Int /\ j - 1 \in Int
  BY <1>2
<1>5. SubSeq(p, i + 1, j - 1) \in Seq(Chars)
  BY ONLY <1>3, <1>4, SubSeqProperties
<1> QED BY <1>2, <1>5 DEF Segment

\* A segment with a game is one of the hits.
LEMMA GameIsHit ==
    ASSUME NEW p, PathOK(p), p[Len(p)] # Slash, NEW s, s = CountSeparators(Slash, p),
           NEW i, NEW j, IsSegment(p, i, j), HasTitleAndID(Segment(p, i, j))
    PROVE  \E k \in Hits(p) : i = s[k + 1] + 1
<1>1. PICK k \in 0 .. Len(s) - 1 : i = s[k + 1] + 1 /\ j = EIndex(p, k) + 1
  BY BeginsAtSlash
<1>2. SegmentAt(p, k) = Segment(p, i, j)
  BY <1>1, SlashBegins
<1>3. LooksIdish(SegmentAt(p, k))
  BY <1>2, SegmentOK, GameIsIdish
<1>4. k \in 0 .. Len(s)
  BY <1>1, HitsAreSlashes
<1> QED BY <1>1, <1>3, <1>4 DEF Hits

LEMMA DeepestGameFound ==
    ASSUME PathOK(typed)
    PROVE  FindsDeepestGame
<1> SUFFICES ASSUME IsComplete PROVE FindsDeepestGame
  BY DEF FindsDeepestGame
<1> DEFINE p == typed
           s == CountSeparators(Slash, p)
           game == GetTitleAndIDFromPath(p)
           HasGameFrom(n) == \E i, j \in Cuts(p) :
               n <= i /\ IsSegment(p, i, j) /\ HasTitleAndID(Segment(p, i, j))
<1>1. p[Len(p)] # Slash
  BY DEF IsComplete, Last
<1>2. Len(s) \in Nat /\ \A k \in Hits(p) : k \in 0 .. Len(s) - 1
  BY HitsAreSlashes
<1>3. CASE Hits(p) = {}
  <2>1. ~game.found
    BY <1>3 DEF GetTitleAndIDFromPath, Hits, NoGame
  <2>2. ~HasGameFrom(1)
    BY <1>1, <1>3, GameIsHit
  <2> QED BY <2>1, <2>2 DEF FindsDeepestGame
<1>4. CASE Hits(p) # {}
  <2> DEFINE k == Max(Hits(p))
             seg == SegmentAt(p, k)
             n == IdStart(seg)
             i == s[k + 1] + 1
             j == EIndex(p, k) + 1
  <2>1. k \in Hits(p) /\ \A m \in Hits(p) : m <= k
    <3>1. Hits(p) \in SUBSET Int /\ Len(s) \in Int /\ \A m \in Hits(p) : m <= Len(s)
      BY <1>2
    <3> QED BY <1>4, <3>1, MaxOf
  <2>2. k \in 0 .. Len(s) - 1 /\ LooksIdish(seg)
    BY <1>2, <2>1 DEF Hits
  <2>3. /\ game.found /\ game.title = Copy(seg, 0, n - 1)
        /\ game.id = Copy(seg, n, Len(seg) - n) /\ game.root = Copy(p, 0, EIndex(p, k))
    BY <1>4 DEF GetTitleAndIDFromPath, Hits
  <2> HIDE DEF game, seg, n, k, s
  <2>4. IsSegment(p, i, j) /\ seg = Segment(p, i, j)
    BY <1>1, <2>2, SlashBegins DEF seg, s
  <2> HIDE DEF i, j
  <2>5. seg \in Seq(Chars) /\ i \in Nat /\ j \in Nat /\ i < j /\ j <= Len(p) + 1
    BY <2>4, SegmentOK
  <2>6. /\ IsTitleAndID(Segment(p, i, j), game.title, game.id)
        /\ GetGameURLPath(game.id) = game.id
    BY <2>2, <2>3, <2>4, <2>5, IdishIsGame DEF n
  <2>7. game.root = SubSeq(p, 1, j - 1)
    <3>1. EIndex(p, k) + 1 = j
      BY DEF j
    <3>2. IsSegment(p, i, EIndex(p, k) + 1)
      BY <2>4, <3>1
    <3>3. EIndex(p, k) \in Int
      BY <1>1, <2>2, SlashBegins DEF s
    <3>4. 0 + 1 = 1 /\ 0 + EIndex(p, k) = j - 1
      BY <3>1, <3>3
    <3> QED BY <2>3, <3>4 DEF Copy
  <2>8. ~HasGameFrom(j)
    <3> SUFFICES ASSUME NEW a \in Cuts(p), NEW b \in Cuts(p), j <= a, IsSegment(p, a, b),
                        HasTitleAndID(Segment(p, a, b))
                 PROVE  FALSE
      OBVIOUS
    <3>1. PICK m \in Hits(p) : a = s[m + 1] + 1
      BY <1>1, GameIsHit DEF s
    <3>2. m <= k /\ m \in 0 .. Len(s) - 1
      BY <1>2, <2>1 DEF s
    <3>3. Positions(Slash, p, Len(p), s)
      BY SeparatorsCounted DEF s, PathOK
    <3>4. /\ m + 1 \in 1 .. Len(s) /\ k + 1 \in 1 .. Len(s)
          /\ m + 1 = k + 1 \/ m + 1 < k + 1
      BY <1>2, <2>2, <3>2 DEF s
    <3>5. s[m + 1] \in Nat /\ s[k + 1] \in Nat /\ s[m + 1] <= s[k + 1]
      BY ONLY <3>3, <3>4 DEF Positions
    <3>6. a <= i
      BY <3>1, <3>5 DEF i
    <3>7. a \in Nat
      BY <3>1, <3>5
    <3> QED BY <2>5, <3>6, <3>7
  <2>9. i \in Cuts(p) /\ j \in Cuts(p)
    <3>1. Len(p) \in Nat /\ i >= 1
      BY <2>4, <2>5 DEF IsSegment, PathOK
    <3> QED BY <2>5, <3>1 DEF Cuts
  <2> HIDE DEF p
  <2>10. /\ \E c, d \in Cuts(p) :
               /\ IsSegment(p, c, d)
               /\ IsTitleAndID(Segment(p, c, d), game.title, game.id)
               /\ game.root = SubSeq(p, 1, d - 1)
               /\ ~HasGameFrom(d)
         /\ GetGameURLPath(game.id) = game.id
    <3> HIDE DEF HasGameFrom
    <3> QED BY ONLY <2>4, <2>6, <2>7, <2>8, <2>9
  <2> QED BY <2>3, <2>10 DEF FindsDeepestGame, p, game
<1> QED BY <1>3, <1>4

-----------------------------------------------------------------------------
(***************************************************************************)
(* The parts of a path make it up again.                                    *)
(***************************************************************************)

\* The first slash is the first character.
LEMMA FirstSlash ==
    ASSUME NEW p, PathOK(p), NEW s, s = CountSeparators(Slash, p)
    PROVE  /\ Positions(Slash, p, Len(p), s) /\ Len(s) \in Nat \ {0} /\ s[1] = 0
<1>1. Len(p) \in Nat /\ Positions(Slash, p, Len(p), s)
  BY SeparatorsCounted DEF PathOK
<1>2. PICK m \in 1 .. Len(s) : s[m] = 0
  <2>1. 1 \in 1 .. Len(p) /\ p[1] = Slash /\ 1 - 1 = 0
    BY <1>1 DEF PathOK
  <2> QED BY <1>1, <2>1 DEF Positions
<1>3. Len(s) \in Nat /\ m \in Nat /\ 1 <= m /\ m <= Len(s)
  BY <1>1, <1>2 DEF Positions
<1>4. 1 \in 1 .. Len(s) /\ s[1] \in Nat /\ (m = 1 \/ s[1] < s[m])
  <2>1. 1 \in 1 .. Len(s) /\ (m = 1 \/ 1 < m)
    BY ONLY <1>3
  <2> QED BY <1>1, <1>2, <2>1 DEF Positions
<1> QED BY <1>1, <1>2, <1>3, <1>4

LEMMA PrefixOK ==
    /\ SearchPrefix \in Seq(Chars) /\ Len(SearchPrefix) = 2
    /\ SearchPrefix[1] = Slash /\ SearchPrefix[2] = "s"
  BY DEF SearchPrefix, Chars

LEMMA TermAndRoot ==
    ASSUME PathOK(typed)
    PROVE  TermAndRootMakePath
<1> DEFINE p == typed
           s == CountSeparators(Slash, p)
           found == GetSearchTermFromPath(p)
<1> SUFFICES ASSUME IsComplete, NEW j \in Cuts(p), IsSegment(p, 1, j),
                    Segment(p, 1, j) = Tail(SearchPrefix)
             PROVE  /\ found.found = (j <= Len(p))
                    /\ found.found =>
                           /\ \E k \in Cuts(p) : IsSegment(p, j, k) /\ found.term = Segment(p, j, k)
                           /\ SearchPrefix \o <<Slash>> \o found.term \o found.root = p
  BY DEF TermAndRootMakePath
<1>1. p[Len(p)] # Slash /\ p \in Seq(Chars) /\ Len(p) \in Nat /\ p[1] = Slash
  BY DEF IsComplete, Last, PathOK
<1>2. Positions(Slash, p, Len(p), s) /\ Len(s) \in Nat \ {0} /\ s[1] = 0
  BY FirstSlash
<1> HIDE DEF s
<1>3. j = EIndex(p, 0) + 1 /\ EIndex(p, 0) = IF 1 < Len(s) THEN s[2] ELSE Len(p)
  <2>1. 0 \in 0 .. Len(s) - 1
    BY <1>2
  <2>2. 0 + 1 = 1 /\ 0 + 2 = 2 /\ 1 = s[0 + 1] + 1
    BY <1>2
  <2>3. IsSegment(p, 1, EIndex(p, 0) + 1)
    BY <1>1, <2>1, <2>2, SlashBegins DEF s
  <2>4. EIndex(p, 0) = IF 0 + 1 < Len(s) THEN s[0 + 2] ELSE Len(p)
    BY <1>1, <2>1, EndOfSegment DEF s
  <2>5. j = EIndex(p, 0) + 1
    BY <1>1, <2>3, OneEnd
  <2> QED BY <2>2, <2>4, <2>5
<1>4. j = 3 /\ Len(p) >= 2 /\ SubSeq(p, 1, 2) = SearchPrefix
  <2>1. j \in Nat /\ 1 < j /\ j <= Len(p) + 1
    BY <1>1 DEF IsSegment
  <2>2. \A q \in 2 .. j - 1 : p[q] \in Chars
    BY <1>1, <2>1
  <2>3. Len(SubSeq(p, 2, j - 1)) = j - 2 /\ \A q \in 1 .. j - 2 : SubSeq(p, 2, j - 1)[q] = p[q + 1]
    <3>1. 2 \in Int /\ j - 1 \in Int /\ (j - 1) - 2 + 1 = j - 2
      BY <2>1
    <3>2. Len(SubSeq(p, 2, j - 1)) = IF 2 <= j - 1 THEN (j - 1) - 2 + 1 ELSE 0
      BY ONLY <2>2, <3>1, SubSeqProperties
    <3>3. \A q \in 1 .. (j - 1) - 2 + 1 : SubSeq(p, 2, j - 1)[q] = p[2 + q - 1]
      BY ONLY <2>2, <3>1, SubSeqProperties
    <3> QED BY ONLY <2>1, <3>1, <3>2, <3>3
  <2>4. Tail(SearchPrefix) = <<"s">>
    BY DEF SearchPrefix
  <2>5. SubSeq(p, 2, j - 1) = <<"s">>
    <3>1. 1 + 1 = 2
      OBVIOUS
    <3> QED BY <2>4, <3>1 DEF Segment
  <2>6. j = 3 /\ p[2] = "s"
    <3>1. Len(<<"s">>) = 1 /\ <<"s">>[1] = "s"
      OBVIOUS
    <3>2. Len(SubSeq(p, 2, j - 1)) = 1 /\ SubSeq(p, 2, j - 1)[1] = "s"
      BY ONLY <2>5, <3>1
    <3>3. j = 3
      BY ONLY <2>1, <2>3, <3>2
    <3>4. 1 \in 1 .. j - 2 /\ 1 + 1 = 2
      BY ONLY <3>3
    <3> QED BY ONLY <2>3, <3>2, <3>3, <3>4
  <2>7. Len(p) >= 2
    BY <1>1, <2>1, <2>6
  <2>8. SubSeq(p, 1, 2) = SearchPrefix
    <3>1. \A q \in 1 .. 2 : p[q] \in Chars
      BY <1>1, <2>7
    <3>2. 1 \in Int /\ 2 \in Int /\ 2 - 1 + 1 = 2 /\ 1 <= 2
      OBVIOUS
    <3>3. /\ SubSeq(p, 1, 2) \in Seq(Chars)
          /\ Len(SubSeq(p, 1, 2)) = IF 1 <= 2 THEN 2 - 1 + 1 ELSE 0
          /\ \A q \in 1 .. 2 - 1 + 1 : SubSeq(p, 1, 2)[q] = p[1 + q - 1]
      BY ONLY <3>1, <3>2, SubSeqProperties
    <3>4. Len(SubSeq(p, 1, 2)) = 2
      BY ONLY <3>2, <3>3
    <3>5. SubSeq(p, 1, 2)[1] = p[1] /\ SubSeq(p, 1, 2)[2] = p[2]
      <4>1. 1 \in 1 .. 2 - 1 + 1 /\ 2 \in 1 .. 2 - 1 + 1 /\ 1 + 1 - 1 = 1 /\ 1 + 2 - 1 = 2
        OBVIOUS
      <4> QED BY ONLY <3>3, <4>1
    <3>6. /\ SearchPrefix \in Seq(Chars) /\ Len(SearchPrefix) = 2
          /\ SearchPrefix[1] = Slash /\ SearchPrefix[2] = "s"
      BY PrefixOK
    <3>7. \A q \in 1 .. Len(SubSeq(p, 1, 2)) : SubSeq(p, 1, 2)[q] = SearchPrefix[q]
      BY <1>1, <2>6, <3>4, <3>5, <3>6
    <3> QED BY ONLY <3>3, <3>4, <3>6, <3>7, SeqEqual
  <2> QED BY <2>6, <2>7, <2>8
<1>5. IsPrefix(SearchPrefix, p)
  <2>1. Len(SearchPrefix) = 2 /\ SubSeq(SearchPrefix, 1, 2) = SearchPrefix
    BY PrefixOK, SubSeqFull
  <2> QED BY <1>1, <1>4, <2>1 DEF IsPrefix
<1>6. CASE Len(s) < 2
  <2>1. found.found = FALSE
    BY <1>6 DEF GetSearchTermFromPath, NoTerm, s
  <2>2. (j <= Len(p)) = FALSE
    <3>1. ~(1 < Len(s))
      BY <1>2, <1>6
    <3>2. j = Len(p) + 1
      BY ONLY <1>3, <3>1
    <3> QED BY ONLY <1>1, <3>2
  <2> HIDE DEF found
  <2> QED BY ONLY <2>1, <2>2
<1>7. CASE ~(Len(s) < 2)
  <2>1. /\ 2 \in 1 .. Len(s) /\ s[2] = 2 /\ p[3] = Slash /\ 3 \in 1 .. Len(p)
    <3>1. 2 \in 1 .. Len(s) /\ 1 < Len(s)
      BY <1>2, <1>7
    <3>2. s[2] \in 0 .. Len(p) - 1 /\ p[s[2] + 1] = Slash
      BY <1>2, <3>1 DEF Positions
    <3>3. s[2] = 2
      BY <1>3, <1>4, <3>1, <3>2
    <3> QED BY <1>1, <3>1, <3>2, <3>3
  <2> DEFINE e == EIndex(p, 1)
  <2>2. /\ IsSegment(p, 3, e + 1) /\ e \in Nat
        /\ e = IF 2 < Len(s) THEN s[3] ELSE Len(p)
    <3>1. 1 \in 0 .. Len(s) - 1 /\ 1 + 1 = 2 /\ 1 + 2 = 3 /\ 3 = s[1 + 1] + 1
      BY <1>2, <2>1
    <3>2. EIndex(p, 1) = IF 1 + 1 < Len(s) THEN s[1 + 2] ELSE Len(p)
      BY <1>1, <3>1, EndOfSegment DEF s
    <3>3. IsSegment(p, 3, EIndex(p, 1) + 1) /\ EIndex(p, 1) \in Nat
      BY <1>1, <3>1, SlashBegins DEF s
    <3> QED BY <3>1, <3>2, <3>3
  <2> HIDE DEF e
  <2>3. e \in 3 .. Len(p)
    BY <1>1, <2>2 DEF IsSegment
  <2>4. SearchPrefix \o <<Slash>> = SubSeq(p, 1, 3)
    <3>1. 1 \in 1 .. Len(p) /\ 3 \in 1 .. Len(p) /\ 3 - 1 = 2
      BY <2>1
    <3>2. SubSeq(p, 1, 3) = SubSeq(p, 1, 3 - 1) \o <<p[3]>>
      BY <1>1, <3>1, SubSeqRecursiveSecond
    <3> QED BY <1>4, <2>1, <3>1, <3>2
  <2> HIDE DEF found
  <2>5. /\ found.found /\ found.term = SubSeq(p, 4, e)
        /\ found.root = SubSeq(p, e + 1, Len(p))
    <3>1. CASE 2 < Len(s)
      <4>1. 3 \in 1 .. Len(s) /\ s[3] = e
        BY <1>2, <2>2, <3>1
      <4>2. Pos(s, 2) = e /\ e # -1
        <5>1. 2 + 1 = 3
          OBVIOUS
        <5> QED BY <2>3, <3>1, <4>1, <5>1 DEF Pos
      <4>3. found = [found |-> TRUE, term |-> Copy(p, s[2] + 1, s[3] - s[2] - 1),
                     root |-> Copy(p, s[3], Len(p) - s[3])]
        BY <1>5, <1>7, <4>2 DEF GetSearchTermFromPath, s, found
      <4>4. /\ Copy(p, s[2] + 1, s[3] - s[2] - 1) = SubSeq(p, 4, e)
            /\ Copy(p, s[3], Len(p) - s[3]) = SubSeq(p, e + 1, Len(p))
        <5>1. /\ (s[2] + 1) + 1 = 4 /\ (s[2] + 1) + (s[3] - s[2] - 1) = e
              /\ s[3] + (Len(p) - s[3]) = Len(p)
          BY <1>1, <2>1, <2>3, <4>1
        <5> QED BY <4>1, <5>1 DEF Copy
      <4> QED BY <4>3, <4>4
    <3>2. CASE ~(2 < Len(s))
      <4>1. Pos(s, 2) = -1 /\ e = Len(p)
        BY <2>2, <3>2 DEF Pos
      <4>2. found = [found |-> TRUE, term |-> Copy(p, s[2] + 1, Len(p) - s[2] - 1), root |-> << >>]
        BY <1>5, <1>7, <4>1 DEF GetSearchTermFromPath, s, found
      <4>3. Copy(p, s[2] + 1, Len(p) - s[2] - 1) = SubSeq(p, 4, e)
        <5>1. (s[2] + 1) + 1 = 4 /\ (s[2] + 1) + (Len(p) - s[2] - 1) = Len(p)
          BY <1>1, <2>1
        <5> QED BY <4>1, <5>1 DEF Copy
      <4>4. SubSeq(p, e + 1, Len(p)) = << >>
        <5>1. e + 1 \in Int /\ Len(p) \in Int /\ Len(p) < e + 1
          BY <1>1, <4>1
        <5> QED BY <5>1, SubSeqEmpty
      <4> QED BY <4>2, <4>3, <4>4
    <3> QED BY <3>1, <3>2
  <2>6. found.term = Segment(p, 3, e + 1)
    <3>1. 3 + 1 = 4 /\ (e + 1) - 1 = e
      BY <2>3
    <3> QED BY <2>5, <3>1 DEF Segment
  <2>7. SearchPrefix \o <<Slash>> \o found.term \o found.root = p
    <3>1. SubSeq(p, 1, 3) \o SubSeq(p, 3 + 1, e) = SubSeq(p, 1, e)
      <4>1. 1 \in 1 .. Len(p) + 1 /\ 3 \in 1 - 1 .. Len(p) /\ e \in 3 .. Len(p)
        BY <2>1, <2>3
      <4> QED BY <1>1, <4>1, ConcatAdjacentSubSeq
    <3>2. SubSeq(p, 1, e) \o SubSeq(p, e + 1, Len(p)) = SubSeq(p, 1, Len(p))
      <4>1. 1 \in 1 .. Len(p) + 1 /\ e \in 1 - 1 .. Len(p) /\ Len(p) \in e .. Len(p)
        BY <1>1, <2>3
      <4> QED BY <1>1, <4>1, ConcatAdjacentSubSeq
    <3>3. SubSeq(p, 1, Len(p)) = p /\ 3 + 1 = 4
      BY <1>1, SubSeqFull
    <3> QED BY <2>4, <2>5, <3>1, <3>2, <3>3
  <2>8. e + 1 \in Cuts(p) /\ j <= Len(p)
    BY <1>1, <1>4, <2>1, <2>3 DEF Cuts
  <2> QED BY <1>4, <2>2, <2>5, <2>6, <2>7, <2>8
<1> QED BY <1>6, <1>7

LEMMA DirAndBase ==
    ASSUME PathOK(typed)
    PROVE  DirAndBaseMakePath
<1> DEFINE p == typed
           s == CountSeparators(Slash, p)
           m == Len(s)
           i == s[m] + 1
<1> SUFFICES ASSUME IsComplete PROVE DirAndBaseMakePath
  BY DEF DirAndBaseMakePath
<1>1. p[Len(p)] # Slash /\ p \in Seq(Chars) /\ Len(p) \in Nat /\ p[1] = Slash
  BY DEF IsComplete, Last, PathOK
<1>2. Positions(Slash, p, Len(p), s) /\ m \in Nat \ {0} /\ s[1] = 0
  BY FirstSlash
<1>3. m - 1 \in 0 .. m - 1 /\ (m - 1) + 1 = m /\ ~(m < m) /\ m \in 1 .. m
  BY <1>2
<1>4. s[m] \in 0 .. Len(p) - 1 /\ p[i] = Slash /\ i \in 1 .. Len(p) /\ i \in Nat
  <2>1. s[m] \in 0 .. Len(p) - 1 /\ p[s[m] + 1] = Slash
    BY <1>2, <1>3 DEF Positions
  <2> QED BY <1>1, <2>1
<1>5. IsSegment(p, i, Len(p) + 1)
  <2>1. EIndex(p, m - 1) = Len(p)
    BY <1>1, <1>3, EndOfSegment
  <2>2. IsSegment(p, i, EIndex(p, m - 1) + 1)
    BY <1>1, <1>3, SlashBegins
  <2> QED BY <2>1, <2>2
<1> HIDE DEF s
<1>6. GetDirname(p) = IF i = 1 THEN <<Slash>> ELSE SubSeq(p, 1, i - 1)
  <2>1. m = 1 <=> i = 1
    <3>1. m = 1 \/ 1 < m
      <4>1. m \in Nat /\ m # 0
        BY <1>2
      <4> HIDE DEF m
      <4> QED BY ONLY <4>1
    <3>2. CASE 1 < m
      <4>1. 1 \in 1 .. m /\ m \in 1 .. m
        BY <1>2
      <4>2. s[1] < s[m]
        BY <1>2, <3>2, <4>1 DEF Positions
      <4> QED BY <1>2, <1>4, <3>2, <4>2
    <3> QED BY <1>2, <3>1, <3>2
  <2>2. Last(s) = s[m]
    BY DEF Last
  <2>3. 0 + 1 = 1 /\ 0 + s[m] = i - 1
    BY <1>4
  <2>4. Copy(p, 0, Last(s)) = SubSeq(p, 1, i - 1)
    BY <2>2, <2>3 DEF Copy
  <2> QED BY <2>1, <2>4 DEF GetDirname, s
<1>7. GetBasename(p) = SubSeq(p, i + 1, Len(p))
  <2> DEFINE T == {-1} \cup {q \in 0 .. Len(p) - 1 : CharAt(p, q) = Slash}
  <2>1. T \in SUBSET Int /\ T # {} /\ Len(p) \in Int /\ \A q \in T : q <= Len(p)
    BY <1>1
  <2>2. Max(T) \in T /\ \A q \in T : q <= Max(T)
    BY <2>1, MaxOf
  <2>3. s[m] \in T
    BY <1>4 DEF CharAt
  <2>4. \A q \in T : q <= s[m]
    <3> SUFFICES ASSUME NEW q \in T PROVE q <= s[m]
      OBVIOUS
    <3>1. CASE q = -1
      BY <1>4, <3>1
    <3>2. CASE q # -1
      <4>1. q \in 0 .. Len(p) - 1 /\ p[q + 1] = Slash
        BY <3>2 DEF CharAt
      <4>2. q + 1 \in 1 .. Len(p) /\ q \in Nat /\ i \in Nat /\ Len(p) \in Nat
        BY <1>1, <1>4, <4>1
      <4>3. ~(q + 1 \in i + 1 .. Len(p))
        <5>1. \A a \in i + 1 .. (Len(p) + 1) - 1 : p[a] # Slash
          BY <1>5 DEF IsSegment
        <5>2. (Len(p) + 1) - 1 = Len(p)
          BY <4>2
        <5> QED BY <4>1, <5>1, <5>2
      <4> QED BY <1>4, <4>2, <4>3
    <3> QED BY <3>1, <3>2
  <2>5. Max(T) = s[m]
    <3>1. Max(T) \in Int /\ s[m] \in Int
      BY <2>1, <2>2, <2>3
    <3>2. Max(T) <= s[m] /\ s[m] <= Max(T)
      BY <2>2, <2>3, <2>4
    <3> QED BY ONLY <3>1, <3>2
  <2>6. p # <<Slash>>
    BY <1>1
  <2>7. GetBasename(p) = Copy(p, s[m] + 1, Len(p) - (s[m] + 1))
    BY <2>5, <2>6 DEF GetBasename
  <2>8. (s[m] + 1) + (Len(p) - (s[m] + 1)) = Len(p)
    BY <1>1, <1>4
  <2> QED BY <2>7, <2>8 DEF Copy
<1> HIDE DEF i
<1>8. GetBasename(p) = Segment(p, i, Len(p) + 1) /\ i \in Cuts(p)
  <2>1. (Len(p) + 1) - 1 = Len(p)
    BY <1>1
  <2>2. i \in Cuts(p)
    BY <1>1, <1>4 DEF Cuts
  <2> QED BY <1>7, <2>1, <2>2 DEF Segment
<1>9. <<Slash>> \o SubSeq(p, 1 + 1, Len(p)) = p
  <2>1. 1 \in 1 .. Len(p) /\ Len(p) \in 1 .. Len(p)
    BY <1>1, <1>4
  <2>2. SubSeq(p, 1, Len(p)) = <<p[1]>> \o SubSeq(p, 1 + 1, Len(p))
    BY <1>1, <2>1, SubSeqRecursiveFirst
  <2> QED BY <1>1, <2>2, SubSeqFull
<1>10. SubSeq(p, 1, i - 1) \o <<Slash>> \o SubSeq(p, i + 1, Len(p)) = p
  BY <1>1, <1>4, CutAt
<1>11. i # 1 => SubSeq(p, 1, i - 1) # <<Slash>>
  <2> SUFFICES ASSUME i # 1, SubSeq(p, 1, i - 1) = <<Slash>> PROVE FALSE
    OBVIOUS
  <2>1. \A q \in 1 .. i - 1 : p[q] \in Chars
    BY <1>1, <1>4
  <2>2. i - 1 = 1
    <3>1. 1 \in Int /\ i - 1 \in Int /\ 1 <= i - 1
      BY <1>4
    <3>2. Len(SubSeq(p, 1, i - 1)) = IF 1 <= i - 1 THEN (i - 1) - 1 + 1 ELSE 0
      BY ONLY <2>1, <3>1, SubSeqProperties
    <3>3. Len(<<Slash>>) = 1
      OBVIOUS
    <3>4. (i - 1) - 1 + 1 = 1
      BY ONLY <3>1, <3>2, <3>3, SubSeq(p, 1, i - 1) = <<Slash>>
    <3> QED BY ONLY <1>4, <3>4
  <2>3. 1 \in 1 .. Len(p) - 1 /\ p[1] = Slash /\ p[1 + 1] = Slash
    BY <1>1, <1>4, <2>2
  <2> QED BY <2>3 DEF PathOK
<1>12. (IF GetDirname(p) = <<Slash>> THEN GetDirname(p) \o GetBasename(p)
        ELSE GetDirname(p) \o <<Slash>> \o GetBasename(p)) = p
  BY <1>6, <1>7, <1>9, <1>10, <1>11
<1> HIDE DEF p
<1> QED BY <1>5, <1>8, <1>12 DEF DirAndBaseMakePath, p

-----------------------------------------------------------------------------
(***************************************************************************)
(* The theorems                                                             *)
(***************************************************************************)

\* The paths are absolute, and have no empty segments.
LEMMA PathsOK == PathSpec => []PathOK(typed)
<1>1. PathInit => PathOK(typed)
  <2> SUFFICES ASSUME PathInit PROVE PathOK(typed)
    OBVIOUS
  <2>1. typed \in Seq(Chars) /\ Len(typed) = 1 /\ typed[1] = Slash
    BY DEF PathInit, Chars
  <2> QED BY <2>1 DEF PathOK
<1>2. PathOK(typed) /\ [PathNext]_typed => PathOK(typed)'
  <2> SUFFICES ASSUME PathOK(typed), [PathNext]_typed PROVE PathOK(typed')
    BY DEF PathOK
  <2>1. CASE UNCHANGED typed
    BY <2>1
  <2>2. CASE Extend
    <3>1. PICK c \in Chars : (c = Slash => Last(typed) # Slash) /\ typed' = Append(typed, c)
      BY <2>2 DEF Extend
    <3>2. PICK q : q = typed'
      OBVIOUS
    <3>3. PICK n : n = Len(typed)
      OBVIOUS
    <3>4. n \in Nat /\ n >= 1 /\ typed \in Seq(Chars)
      BY <3>3 DEF PathOK
    <3>5. /\ q \in Seq(Chars) /\ Len(q) = n + 1
          /\ \A i \in 1 .. n : q[i] = typed[i] /\ q[n + 1] = c
      BY ONLY <3>1, <3>2, <3>3, <3>4, AppendProperties, c \in Chars
    <3>6. ASSUME NEW i \in 1 .. Len(q) - 1, q[i] = Slash PROVE q[i + 1] # Slash
      <4>1. CASE i = n
        <5>1. q[i] = Last(typed) /\ q[i + 1] = c
          BY <3>3, <3>4, <3>5, <4>1 DEF Last
        <5> QED BY <3>1, <3>6, <5>1
      <4>2. CASE i # n
        <5>1. i \in 1 .. n - 1 /\ i \in 1 .. n /\ i + 1 \in 1 .. n
          BY <3>4, <3>5, <4>2
        <5>2. q[i] = typed[i] /\ q[i + 1] = typed[i + 1]
          BY <3>5, <5>1
        <5> QED BY <3>3, <3>6, <5>1, <5>2 DEF PathOK
      <4> QED BY <4>1, <4>2
    <3>7. q[1] = Slash
      BY <3>3, <3>4, <3>5 DEF PathOK
    <3>8. PathOK(q)
      BY <3>4, <3>5, <3>6, <3>7 DEF PathOK
    <3> QED BY <3>2, <3>8
  <2> QED BY <2>1, <2>2 DEF PathNext
<1> QED BY <1>1, <1>2, PTL DEF PathSpec

\* The search for a game from the end of a path, with its slots of slashes and
\* its -1 behind them (getTitleAndIDFromPath), finds the deepest segment that
\* is a title and an ID, and the ID is good for a URL.
THEOREM FindsDeepestGameHolds == PathSpec => []FindsDeepestGame
<1>1. PathOK(typed) => FindsDeepestGame
  BY DeepestGameFound
<1> QED BY <1>1, PathsOK, PTL

\* What getSearchTermFromPath, getDirname and getBasename cut a path into is
\* the path.
THEOREM PartsMakePathHolds == PathSpec => []PartsMakePath
<1>1. PathOK(typed) => PartsMakePath
  BY TermAndRoot, DirAndBase DEF PartsMakePath
<1> QED BY <1>1, PathsOK, PTL

=============================================================================
