--------------------------- MODULE ReadDir_proofs ----------------------------
(***************************************************************************)
(* Theorems about ReadDir, for every number of rows and letters, size of    *)
(* page and buffer.                                                         *)
(*                                                                          *)
(* NameAt is the closed form of what a page holds: the j-th entry after an  *)
(* offset.  The order of a listing follows from its growing with j and from *)
(* an offset being beyond every name taken before it; the refinement of     *)
(* DirStream from the offset being the number of entries taken.             *)
(***************************************************************************)
EXTENDS ReadDir, SequenceTheorems, FiniteSetTheorems, TLAPS

\* A function on 1..n into S is a sequence over S of length n.
LEMMA FunIsSeq ==
    ASSUME NEW S, NEW n \in Nat, NEW f \in [1 .. n -> S]
    PROVE  f \in Seq(S) /\ Len(f) = n
<1>1. f \in Seq(S)
  BY SeqDef
<1>2. Len(f) \in Nat /\ 1 .. Len(f) = 1 .. n
  BY <1>1, LenProperties
<1>3. \A a, b \in Nat : 1 .. a = 1 .. b => a = b
  OBVIOUS
<1> QED BY <1>1, <1>2, <1>3

\* The first name at or after an offset, and the j-th.
FirstName(off) == IF off = 0 THEN Dot ELSE FirstIndex(off)
NameAt(off, j) ==
    IF off = 0 THEN IF j < 3 THEN j - 4 ELSE j - 3 ELSE FirstIndex(off) + j - 1

EntryAt(off, j) == [name |-> NameAt(off, j), off |-> off + j]

LEMMA NameAtFacts ==
    ASSUME NEW off \in Nat, NEW j \in Nat \ {0}
    PROVE  /\ NameAt(off, j) \in Int
           /\ FirstName(off) \in Int
           /\ FirstName(off) <= NameAt(off, j)
           /\ NameAt(off, j) < FirstName(off + j)
           /\ \A k \in Nat \ {0} : k < j => NameAt(off, k) < NameAt(off, j)
  BY DEF NameAt, FirstName, FirstIndex, Dot

\* How many entries there are from an offset on.
Rest(off, n) ==
    (IF off = 0 THEN 2 ELSE 0) + (IF FirstIndex(off) < n THEN n - FirstIndex(off) ELSE 0)

LEMMA NamesFromFacts ==
    ASSUME NEW off \in Nat, NEW n \in Nat
    PROVE  /\ NamesFrom(off, n) \in Seq(Int)
           /\ Len(NamesFrom(off, n)) = Rest(off, n)
           /\ \A j \in 1 .. Rest(off, n) : NamesFrom(off, n)[j] = NameAt(off, j)
<1> DEFINE m == IF FirstIndex(off) < n THEN n - FirstIndex(off) ELSE 0
           tail == [j \in 1 .. m |-> FirstIndex(off) + j - 1]
<1>1. m \in Nat /\ FirstIndex(off) \in Int
  BY DEF FirstIndex
<1>2. NamesFrom(off, n) = Dots(off) \o tail
  BY DEF NamesFrom
<1>3. Rest(off, n) = (IF off = 0 THEN 2 ELSE 0) + m
  BY DEF Rest
<1> HIDE DEF m
<1>4. tail \in Seq(Int) /\ Len(tail) = m /\ \A j \in 1 .. m : tail[j] = FirstIndex(off) + j - 1
  BY <1>1
<1> HIDE DEF tail
<1>5. CASE off = 0
  <2>1. /\ Dots(off) = <<Dot, DotDot>>
        /\ Dots(off) \in Seq(Int) /\ Len(Dots(off)) = 2
        /\ Dots(off)[1] = -3 /\ Dots(off)[2] = -2
    BY <1>5 DEF Dots, Dot, DotDot
  <2>2. FirstIndex(off) = 0
    BY <1>5 DEF FirstIndex
  <2>3. /\ NamesFrom(off, n) \in Seq(Int)
        /\ Len(NamesFrom(off, n)) = 2 + m
        /\ \A j \in 1 .. 2 + m :
              NamesFrom(off, n)[j] = IF j <= 2 THEN Dots(off)[j] ELSE tail[j - 2]
    BY <1>2, <1>4, <2>1, ConcatProperties
  <2>4. \A j \in 1 .. 2 + m : NamesFrom(off, n)[j] = NameAt(off, j)
    <3> SUFFICES ASSUME NEW j \in 1 .. 2 + m PROVE NamesFrom(off, n)[j] = NameAt(off, j)
      OBVIOUS
    <3>1. CASE j = 1
      BY <1>5, <2>1, <2>3, <3>1 DEF NameAt
    <3>2. CASE j = 2
      BY <1>5, <2>1, <2>3, <3>2 DEF NameAt
    <3>3. CASE j > 2
      BY <1>1, <1>4, <1>5, <2>2, <2>3, <3>3 DEF NameAt
    <3> QED BY <1>1, <3>1, <3>2, <3>3
  <2> QED BY <1>3, <1>5, <2>3, <2>4
<1>6. CASE off # 0
  <2>1. NamesFrom(off, n) = tail
    BY <1>2, <1>4, <1>6, ConcatEmptySeq DEF Dots
  <2> QED BY <1>1, <1>3, <1>4, <1>6, <2>1 DEF NameAt
<1> QED BY <1>5, <1>6

\* What readdir fills: as many entries as there are, up to the size of the page.
LEMMA PageFacts ==
    ASSUME NEW off \in Nat, NEW n \in Nat, NEW size \in Nat
    PROVE  /\ PageFrom(off, n, size) \in Seq([name : Int, off : Nat \ {0}])
           /\ Len(PageFrom(off, n, size)) = IF Rest(off, n) < size THEN Rest(off, n) ELSE size
           /\ \A j \in 1 .. Len(PageFrom(off, n, size)) :
                    PageFrom(off, n, size)[j] = EntryAt(off, j)
<1> DEFINE names == NamesFrom(off, n)
           len == PageLen(names, size)
           p == PageFrom(off, n, size)
<1> HIDE DEF names, len, p
<1>1. Rest(off, n) \in Nat
  BY DEF Rest, FirstIndex
<1>2. /\ Len(names) = Rest(off, n)
      /\ \A j \in 1 .. Rest(off, n) : names[j] = NameAt(off, j)
  BY NamesFromFacts DEF names
<1>3. len = IF Rest(off, n) < size THEN Rest(off, n) ELSE size
  BY <1>2 DEF len, PageLen
<1>4. p = [j \in 1 .. len |-> [name |-> names[j], off |-> off + j]]
  BY DEF p, PageFrom, names, len
<1>5. len \in Nat /\ \A j \in 1 .. len : j \in 1 .. Rest(off, n) /\ j \in Nat \ {0}
  BY <1>1, <1>3
<1>6. \A j \in 1 .. len : p[j] = EntryAt(off, j)
  BY <1>2, <1>4, <1>5 DEF EntryAt
<1>7. \A j \in 1 .. len : EntryAt(off, j) \in [name : Int, off : Nat \ {0}]
  BY <1>5, NameAtFacts DEF EntryAt
<1>8. p \in Seq([name : Int, off : Nat \ {0}]) /\ Len(p) = len
  <2>1. p \in [1 .. len -> [name : Int, off : Nat \ {0}]]
    BY <1>4, <1>6, <1>7
  <2> QED BY <1>5, <2>1, FunIsSeq
<1> QED BY <1>3, <1>6, <1>8 DEF p

-----------------------------------------------------------------------------
\* A page holds the entries from the process's offset on, the names taken grow,
\* and all of them lie before the offset.
InOrder ==
    /\ \A j \in 1 .. Len(page) : page[j] = EntryAt(offset, j)
    /\ \A i \in 1 .. Len(got) : got[i] < FirstName(offset)
    /\ EachOnceInOrder

OInv == TypeOK /\ InOrder

LEMMA OInit == Init => OInv
<1> SUFFICES ASSUME Init PROVE OInv
  OBVIOUS
<1>1. TypeOK
  <2>1. nfiles \in Nat
    BY ReadDirAssumption DEF Init
  <2>2. /\ page \in Seq([name : Int, off : Nat \ {0}]) /\ Len(page) <= MaxPage
        /\ got \in Seq(Int)
    BY ReadDirAssumption, EmptySeq DEF Init
  <2> QED BY <2>1, <2>2 DEF Init, TypeOK
<1>2. InOrder
  BY DEF Init, InOrder, EachOnceInOrder
<1> QED BY <1>1, <1>2 DEF OInv

LEMMA OReaddir ==
    ASSUME OInv, NEW size \in 1 .. MaxPage, Readdir(size)
    PROVE  OInv'
<1>1. /\ page' = PageFrom(offset, nfiles, size)
      /\ offset \in Nat /\ nfiles \in Nat /\ size \in Nat /\ size <= MaxPage
      /\ eof' = (page' = << >>)
      /\ UNCHANGED <<nfiles, offset, got, opened, flushed>>
  BY ReadDirAssumption DEF OInv, TypeOK, Readdir
<1>2. /\ page' \in Seq([name : Int, off : Nat \ {0}])
      /\ Len(page') <= MaxPage
      /\ \A j \in 1 .. Len(page') : page'[j] = EntryAt(offset, j)
  <2>1. Rest(offset, nfiles) \in Nat
    BY <1>1 DEF Rest, FirstIndex
  <2>2. /\ page' \in Seq([name : Int, off : Nat \ {0}])
        /\ Len(page') = IF Rest(offset, nfiles) < size THEN Rest(offset, nfiles) ELSE size
        /\ \A j \in 1 .. Len(page') : page'[j] = EntryAt(offset, j)
    BY <1>1, PageFacts
  <2>3. \A a \in Nat : (IF a < size THEN a ELSE size) <= MaxPage
    BY <1>1, ReadDirAssumption
  <2> QED BY <2>1, <2>2, <2>3
<1>3. TypeOK'
  BY <1>1, <1>2 DEF OInv, TypeOK
<1>4. InOrder'
  BY <1>1, <1>2 DEF OInv, InOrder, EachOnceInOrder, FirstName, FirstIndex, EntryAt, NameAt
<1> QED BY <1>3, <1>4 DEF OInv

\* What Take appends to the names taken.
LEMMA TakeFacts ==
    ASSUME OInv, NEW n \in 1 .. MaxPage, Take(n)
    PROVE  /\ n \in 1 .. Len(page) /\ n \in Nat \ {0}
           /\ offset' = offset + n
           /\ page' = << >>
           /\ got' \in Seq(Int)
           /\ Len(got) \in Nat
           /\ Len(got') = Len(got) + n
           /\ \A i \in 1 .. Len(got) : got'[i] = got[i]
           /\ \A j \in 1 .. n : got'[Len(got) + j] = NameAt(offset, j)
<1> DEFINE taken == [j \in 1 .. n |-> page[j].name]
<1>1. /\ n \in 1 .. Len(page)
      /\ offset' = page[n].off /\ page' = << >>
      /\ got' = got \o taken
      /\ got \in Seq(Int) /\ Len(got) \in Nat /\ Len(page) \in Nat /\ offset \in Nat
  BY DEF Take, OInv, TypeOK
<1>2. n \in Nat \ {0} /\ \A j \in 1 .. n : j \in 1 .. Len(page) /\ j \in Nat \ {0}
  BY <1>1
<1>3. \A j \in 1 .. Len(page) : page[j] = EntryAt(offset, j)
  BY DEF OInv, InOrder
<1>4. offset' = offset + n
  <2>1. page[n] = EntryAt(offset, n)
    BY <1>1, <1>3
  <2> QED BY <1>1, <2>1 DEF EntryAt
<1>5. \A j \in 1 .. n : taken[j] = NameAt(offset, j) /\ NameAt(offset, j) \in Int
  <2> SUFFICES ASSUME NEW j \in 1 .. n
               PROVE  taken[j] = NameAt(offset, j) /\ NameAt(offset, j) \in Int
    OBVIOUS
  <2>1. page[j] = EntryAt(offset, j) /\ j \in Nat \ {0}
    BY <1>2, <1>3
  <2>2. NameAt(offset, j) \in Int
    BY <1>1, <2>1, NameAtFacts
  <2> QED BY <2>1, <2>2 DEF EntryAt
<1>6. taken \in Seq(Int) /\ Len(taken) = n
  <2>1. taken \in [1 .. n -> Int]
    BY <1>5
  <2> QED BY <1>2, <2>1
<1> HIDE DEF taken
<1>7. /\ got' \in Seq(Int)
      /\ Len(got') = Len(got) + n
      /\ \A i \in 1 .. Len(got) + n :
            got'[i] = IF i <= Len(got) THEN got[i] ELSE taken[i - Len(got)]
  BY <1>1, <1>6, ConcatProperties
<1>8. \A i \in 1 .. Len(got) : got'[i] = got[i]
  BY <1>1, <1>2, <1>7
<1>9. \A j \in 1 .. n : got'[Len(got) + j] = NameAt(offset, j)
  <2> SUFFICES ASSUME NEW j \in 1 .. n PROVE got'[Len(got) + j] = NameAt(offset, j)
    OBVIOUS
  <2>1. /\ Len(got) + j \in 1 .. Len(got) + n
        /\ ~(Len(got) + j <= Len(got))
        /\ Len(got) + j - Len(got) = j
    BY <1>1, <1>2
  <2>2. PICK i : i = Len(got) + j
    OBVIOUS
  <2>3. got'[i] = taken[i - Len(got)]
    BY <1>7, <2>1, <2>2
  <2> QED BY <1>5, <2>1, <2>2, <2>3
<1> QED BY <1>1, <1>2, <1>4, <1>7, <1>8, <1>9

LEMMA OTake ==
    ASSUME OInv, NEW n \in 1 .. MaxPage, Take(n)
    PROVE  OInv'
<1> DEFINE g == Len(got)
<1> HIDE DEF g
<1>1. /\ n \in Nat \ {0}
      /\ offset' = offset + n /\ page' = << >> /\ got' \in Seq(Int)
      /\ g \in Nat /\ Len(got') = g + n
      /\ \A i \in 1 .. g : got'[i] = got[i]
      /\ \A j \in 1 .. n : got'[g + j] = NameAt(offset, j)
  BY TakeFacts DEF g
<1>2. /\ offset \in Nat
      /\ \A i \in 1 .. g : got[i] \in Int /\ got[i] < FirstName(offset)
      /\ \A i, j \in 1 .. g : i < j => got[i] < got[j]
  BY DEF OInv, TypeOK, InOrder, EachOnceInOrder, g
<1>3. TypeOK'
  BY <1>1, <1>2, ReadDirAssumption DEF OInv, TypeOK, Take
<1>4. \A i \in 1 .. g + n : i \in 1 .. g \/ \E j \in 1 .. n : i = g + j
  <2> SUFFICES ASSUME NEW i \in 1 .. g + n, i \notin 1 .. g
               PROVE  i - g \in 1 .. n /\ i = g + (i - g)
    OBVIOUS
  <2> QED BY <1>1
<1>5. /\ FirstName(offset) \in Int /\ FirstName(offset + n) \in Int
      /\ \A j \in 1 .. n :
            /\ NameAt(offset, j) \in Int
            /\ FirstName(offset) <= NameAt(offset, j)
            /\ NameAt(offset, j) < FirstName(offset + n)
            /\ \A k \in 1 .. n : k < j => NameAt(offset, k) < NameAt(offset, j)
  <2>1. offset + n \in Nat /\ \A j \in 1 .. n : j \in Nat \ {0}
    BY <1>1, <1>2
  <2>2. FirstName(offset) \in Int /\ FirstName(offset + n) \in Int
    BY <2>1, <1>1, <1>2, NameAtFacts
  <2> SUFFICES ASSUME NEW j \in 1 .. n
               PROVE  /\ NameAt(offset, j) \in Int
                      /\ FirstName(offset) <= NameAt(offset, j)
                      /\ NameAt(offset, j) < FirstName(offset + n)
                      /\ \A k \in 1 .. n : k < j => NameAt(offset, k) < NameAt(offset, j)
    BY <2>2
  <2>3. /\ NameAt(offset, j) \in Int
        /\ FirstName(offset) <= NameAt(offset, j)
        /\ \A k \in 1 .. n : k < j => NameAt(offset, k) < NameAt(offset, j)
    BY <2>1, <1>2, NameAtFacts
  <2>4. NameAt(offset, n) \in Int /\ NameAt(offset, n) < FirstName(offset + n)
    BY <1>1, <1>2, NameAtFacts
  <2>5. j = n \/ NameAt(offset, j) < NameAt(offset, n)
    <3>1. j = n \/ j < n
      BY <1>1
    <3> QED BY <3>1, <2>1, <1>1, <1>2, NameAtFacts
  <2> QED BY <2>2, <2>3, <2>4, <2>5
<1>6. \A i \in 1 .. g + n : got'[i] < FirstName(offset + n)
  <2> SUFFICES ASSUME NEW i \in 1 .. g + n PROVE got'[i] < FirstName(offset + n)
    OBVIOUS
  <2>1. CASE i \in 1 .. g
    <3>1. 1 \in 1 .. n
      BY <1>1
    <3>2. FirstName(offset) < FirstName(offset + n)
      BY <3>1, <1>5
    <3>3. got'[i] = got[i] /\ got[i] \in Int /\ got[i] < FirstName(offset)
      BY <2>1, <1>1, <1>2
    <3> QED BY <3>2, <3>3, <1>5
  <2>2. ASSUME NEW j \in 1 .. n, i = g + j PROVE got'[i] < FirstName(offset + n)
    BY <2>2, <1>1, <1>5
  <2> QED BY <2>1, <2>2, <1>4
<1>7. \A i, j \in 1 .. g + n : i < j => got'[i] < got'[j]
  <2> SUFFICES ASSUME NEW i \in 1 .. g + n, NEW j \in 1 .. g + n, i < j
               PROVE  got'[i] < got'[j]
    OBVIOUS
  <2>1. CASE j \in 1 .. g
    <3>1. i \in 1 .. g
      BY <2>1, <1>1
    <3> QED BY <2>1, <3>1, <1>1, <1>2
  <2>2. ASSUME NEW b \in 1 .. n, j = g + b PROVE got'[i] < got'[j]
    <3>1. CASE i \in 1 .. g
      <4>1. got'[i] = got[i] /\ got[i] \in Int /\ got[i] < FirstName(offset)
        BY <3>1, <1>1, <1>2
      <4>2. got'[j] = NameAt(offset, b)
        BY <2>2, <1>1
      <4> QED BY <4>1, <4>2, <1>5
    <3>2. ASSUME NEW a \in 1 .. n, i = g + a PROVE got'[i] < got'[j]
      <4>1. a < b
        BY <2>2, <3>2, <1>1
      <4> QED BY <2>2, <3>2, <4>1, <1>1, <1>5
    <3> QED BY <3>1, <3>2, <1>4
  <2> QED BY <2>1, <2>2, <1>4
<1>8. InOrder'
  BY <1>1, <1>6, <1>7 DEF InOrder, EachOnceInOrder
<1> QED BY <1>3, <1>8 DEF OInv

LEMMA ONext == OInv /\ [Next]_vars => OInv'
<1> SUFFICES ASSUME OInv, [Next]_vars PROVE OInv'
  OBVIOUS
<1>1. ASSUME NEW size \in 1 .. MaxPage, Readdir(size) PROVE OInv'
  BY <1>1, OReaddir
<1>2. ASSUME NEW n \in 1 .. MaxPage, Take(n) PROVE OInv'
  BY <1>2, OTake
<1>3. ASSUME AddFile \/ Flush \/ UNCHANGED vars PROVE OInv'
  <2>1. UNCHANGED <<offset, page, got, eof, opened>>
    BY <1>3 DEF AddFile, Flush, vars
  <2>2. TypeOK'
    <3>1. nfiles' \in Nat /\ flushed' \in BOOLEAN
      <4>1. nfiles \in Nat /\ flushed \in BOOLEAN
        BY DEF OInv, TypeOK
      <4>2. CASE AddFile
        BY <4>1, <4>2 DEF AddFile
      <4>3. CASE Flush
        BY <4>3 DEF Flush
      <4>4. CASE UNCHANGED vars
        BY <4>1, <4>4 DEF vars
      <4> QED BY <1>3, <4>2, <4>3, <4>4
    <3> QED BY <2>1, <3>1 DEF OInv, TypeOK
  <2>3. InOrder'
    BY <2>1 DEF OInv, InOrder, EachOnceInOrder, FirstName, FirstIndex, EntryAt, NameAt
  <2> QED BY <2>2, <2>3 DEF OInv
<1> QED BY <1>1, <1>2, <1>3 DEF Next, Read

\* Neither handler lists an entry twice or out of order, for any sizes of the
\* pages, any places where the process stops taking, and whatever is searched
\* or flushed between two pages.
THEOREM ListedInOrder == Spec => []EachOnceInOrder
<1>1. OInv => EachOnceInOrder
  BY DEF OInv, InOrder
<1> QED BY <1>1, OInit, ONext, PTL DEF Spec

\* Offsets and pages stay within their types (type correctness).
THEOREM TypeCorrect == Spec => []TypeOK
<1>1. OInv => TypeOK
  BY DEF OInv
<1> QED BY <1>1, OInit, ONext, PTL DEF Spec

-----------------------------------------------------------------------------
(***************************************************************************)
(* What a listing may lose                                                  *)
(***************************************************************************)

\* Rows before the loop's next one were taken, but for two at the most in front of
\* the place c where the first page was left.
TakenBut(c) ==
    \A r \in Nat : r < FirstIndex(offset) => r \in (c - 2) .. (c - 1) \/ r \in Taken

GapInv ==
    /\ eof => page = << >>
    /\ ~flushed => opened <= nfiles
    /\ eof /\ ~flushed => opened <= FirstIndex(offset)
    /\ \E c \in Nat : TakenBut(c)

LEMMA GapInit == Init => GapInv
<1> SUFFICES ASSUME Init PROVE GapInv
  OBVIOUS
<1>1. nfiles \in Nat /\ opened = nfiles /\ offset = 0 /\ eof = FALSE
  BY ReadDirAssumption DEF Init
<1>2. TakenBut(0)
  BY <1>1 DEF TakenBut, FirstIndex
<1> QED BY <1>1, <1>2 DEF GapInv

LEMMA GapReaddir ==
    ASSUME OInv, GapInv, NEW size \in 1 .. MaxPage, Readdir(size)
    PROVE  GapInv'
<1>1. /\ page' = PageFrom(offset, nfiles, size)
      /\ offset \in Nat /\ nfiles \in Nat /\ opened \in Nat /\ size \in Nat \ {0}
      /\ eof' = (page' = << >>)
      /\ UNCHANGED <<nfiles, offset, got, opened, flushed>>
  BY ReadDirAssumption DEF OInv, TypeOK, Readdir
<1>2. ASSUME eof' PROVE nfiles <= FirstIndex(offset)
  <2>1. Len(page') = 0
    BY <1>1, <1>2, EmptySeq
  <2>2. Len(page') = IF Rest(offset, nfiles) < size THEN Rest(offset, nfiles) ELSE size
    BY <1>1, PageFacts
  <2>3. Rest(offset, nfiles) = 0
    BY <1>1, <2>1, <2>2
  <2> QED BY <1>1, <2>3 DEF Rest, FirstIndex
<1>3. eof' /\ ~flushed' => opened' <= FirstIndex(offset')
  BY <1>1, <1>2 DEF GapInv, FirstIndex
<1>4. PICK c \in Nat : TakenBut(c)
  BY DEF GapInv
<1>5. TakenBut(c)'
  BY <1>1, <1>4 DEF TakenBut, Taken, FirstIndex
<1> QED BY <1>1, <1>3, <1>5 DEF GapInv

LEMMA GapTake ==
    ASSUME OInv, GapInv, NEW n \in 1 .. MaxPage, Take(n)
    PROVE  GapInv'
<1>1. /\ n \in 1 .. Len(page) /\ n \in Nat \ {0}
      /\ offset' = offset + n /\ page' = << >>
      /\ Len(got) \in Nat /\ Len(got') = Len(got) + n
      /\ \A i \in 1 .. Len(got) : got'[i] = got[i]
      /\ \A j \in 1 .. n : got'[Len(got) + j] = NameAt(offset, j)
  BY TakeFacts
<1>2. offset \in Nat /\ UNCHANGED <<nfiles, eof, opened, flushed>>
  BY DEF OInv, TypeOK, Take
<1>3. ~eof
  BY <1>1, EmptySeq DEF GapInv
<1>4. Taken \subseteq Taken' /\ \A j \in 1 .. n : NameAt(offset, j) \in Taken'
  <2>1. \A i \in 1 .. Len(got) : i \in 1 .. Len(got')
    BY <1>1
  <2>2. Taken \subseteq Taken'
    BY <1>1, <2>1 DEF Taken
  <2>3. ASSUME NEW j \in 1 .. n PROVE NameAt(offset, j) \in Taken'
    <3>1. Len(got) + j \in 1 .. Len(got')
      BY <1>1
    <3> QED BY <1>1, <3>1 DEF Taken
  <2> QED BY <2>2, <2>3
<1>5. CASE offset = 0
  <2>1. ASSUME NEW r \in Nat, r < FirstIndex(offset + n), r \notin (n - 2) .. (n - 1)
        PROVE  r + 3 \in 1 .. n /\ NameAt(offset, r + 3) = r
    BY <1>1, <1>5, <2>1 DEF FirstIndex, NameAt
  <2>2. TakenBut(n)'
    <3> SUFFICES ASSUME NEW r \in Nat, r < FirstIndex(offset'), r \notin (n - 2) .. (n - 1)
                 PROVE  r \in Taken'
      BY DEF TakenBut, FirstIndex
    <3> QED BY <1>1, <1>4, <2>1
  <2> QED BY <1>1, <1>2, <1>3, <2>2 DEF GapInv
<1>6. CASE offset # 0
  <2>1. PICK c \in Nat : TakenBut(c)
    BY DEF GapInv
  <2>2. ASSUME NEW r \in Nat, r < FirstIndex(offset + n), ~(r < FirstIndex(offset))
        PROVE  /\ r - FirstIndex(offset) + 1 \in 1 .. n
               /\ NameAt(offset, r - FirstIndex(offset) + 1) = r
    BY <1>1, <1>2, <1>6, <2>2 DEF FirstIndex, NameAt
  <2>3. TakenBut(c)'
    <3> SUFFICES ASSUME NEW r \in Nat, r < FirstIndex(offset'), r \notin (c - 2) .. (c - 1)
                 PROVE  r \in Taken'
      BY DEF TakenBut, FirstIndex
    <3>1. CASE r < FirstIndex(offset)
      BY <1>4, <2>1, <3>1 DEF TakenBut
    <3>2. CASE ~(r < FirstIndex(offset))
      BY <1>1, <1>4, <2>2, <3>2
    <3> QED BY <3>1, <3>2
  <2> QED BY <1>1, <1>2, <1>3, <2>3 DEF GapInv
<1> QED BY <1>5, <1>6

LEMMA GapNext == OInv /\ GapInv /\ [Next]_vars => GapInv'
<1> SUFFICES ASSUME OInv, GapInv, [Next]_vars PROVE GapInv'
  OBVIOUS
<1>1. ASSUME NEW size \in 1 .. MaxPage, Readdir(size) PROVE GapInv'
  BY <1>1, GapReaddir
<1>2. ASSUME NEW n \in 1 .. MaxPage, Take(n) PROVE GapInv'
  BY <1>2, GapTake
<1>3. ASSUME AddFile \/ Flush \/ UNCHANGED vars PROVE GapInv'
  <2>1. UNCHANGED <<offset, page, got, eof, opened>>
    BY <1>3 DEF AddFile, Flush, vars
  <2>2. ~flushed' => ~flushed /\ nfiles' >= nfiles
    BY <1>3 DEF AddFile, Flush, vars, OInv, TypeOK
  <2>3. PICK c \in Nat : TakenBut(c)
    BY DEF GapInv
  <2>4. TakenBut(c)'
    BY <2>1, <2>3 DEF TakenBut, Taken, FirstIndex
  <2>5. nfiles' \in Nat /\ nfiles \in Nat /\ opened \in Nat
    BY ONext DEF OInv, TypeOK
  <2>6. ~flushed' => opened' <= nfiles'
    BY <2>1, <2>2, <2>5 DEF GapInv
  <2>7. eof' /\ ~flushed' => opened' <= FirstIndex(offset')
    BY <2>1, <2>2 DEF GapInv, FirstIndex
  <2> QED BY <2>1, <2>4, <2>6, <2>7 DEF GapInv
<1> QED BY <1>1, <1>2, <1>3 DEF Next, Read

\* A listing that has ended lacks two of the rows that were there at its start
\* at the most, and these follow one another, for any number of rows and however
\* they fall into pages: only the resumption after the first page, whose offsets
\* count the dots, jumps over any.
THEOREM GapIsTwo == Spec => []LosesAtMostTwo
<1>1. ASSUME OInv, GapInv PROVE LosesAtMostTwo
  <2> SUFFICES ASSUME eof, ~flushed
               PROVE  LET lost == 0 .. opened - 1 \ Rows
                      IN  Cardinality(lost) <= 2 /\ \A i, j \in lost : i - j <= 1
    BY DEF LosesAtMostTwo
  <2> DEFINE lost == 0 .. opened - 1 \ Rows
  <2>1. opened \in Nat /\ opened <= FirstIndex(offset) /\ offset \in Nat
    BY <1>1 DEF GapInv, OInv, TypeOK
  <2>2. PICK c \in Nat : TakenBut(c)
    BY <1>1 DEF GapInv
  <2>3. lost \subseteq (c - 2) .. (c - 1)
    <3> SUFFICES ASSUME NEW r \in 0 .. opened - 1, r \notin Rows
                 PROVE  r \in (c - 2) .. (c - 1)
      OBVIOUS
    <3>1. r \in Nat /\ r < FirstIndex(offset) /\ r \notin Taken
      BY <2>1 DEF Rows, FirstIndex
    <3> QED BY <2>2, <3>1 DEF TakenBut
  <2>4. IsFiniteSet((c - 2) .. (c - 1)) /\ Cardinality((c - 2) .. (c - 1)) = 2
    <3>1. c - 2 \in Int /\ c - 1 \in Int /\ (c - 1) - (c - 2) + 1 = 2 /\ ~(c - 2 > c - 1)
      OBVIOUS
    <3> QED BY <3>1, FS_Interval
  <2>5. Cardinality(lost) <= 2
    BY <2>3, <2>4, FS_Subset
  <2>6. \A i, j \in lost : i - j <= 1
    BY <2>3
  <2> QED BY <2>5, <2>6
<1> QED BY <1>1, OInit, ONext, GapInit, GapNext, PTL DEF Spec

-----------------------------------------------------------------------------
(***************************************************************************)
(* The letters: a listing of /by-letter is a DirStream.                     *)
(***************************************************************************)

\* A process that takes . also takes .., its buffer being large enough: without
\* that, offset 1 is where '@' comes from (ListsLettersOnly).
TakesBothDots == Handler = "letters" /\ Buffer > 1

Total == Letters + 2

\* The offset counts the entries taken, and is never 1.
AtOffset ==
    /\ nfiles = Letters
    /\ Len(got) = offset
    /\ offset # 1 /\ offset <= Total
    /\ Len(page) <= Total - offset
    /\ offset = 0 => Len(page) # 1
    /\ eof => offset = Total
    /\ \A i \in 1 .. Len(got) : got[i] = LettersListing[i]

LInv == OInv /\ AtOffset

LEMMA ListingFacts ==
    /\ Total \in Nat
    /\ LettersListing \in Seq(Int)
    /\ Len(LettersListing) = Total
    /\ \A i \in 1 .. Total : LettersListing[i] = IF i < 3 THEN i - 4 ELSE i - 3
<1> DEFINE tail == [i \in 1 .. Letters |-> i - 1]
<1>1. tail \in Seq(Int) /\ Len(tail) = Letters /\ Letters \in Nat
  <2>1. tail \in [1 .. Letters -> Int] /\ Letters \in Nat
    BY ReadDirAssumption
  <2> QED BY <2>1, FunIsSeq
<1>2. /\ <<Dot, DotDot>> \in Seq(Int) /\ Len(<<Dot, DotDot>>) = 2
      /\ <<Dot, DotDot>>[1] = -3 /\ <<Dot, DotDot>>[2] = -2
  BY DEF Dot, DotDot
<1>3. \A i \in 1 .. Letters : tail[i] = i - 1
  OBVIOUS
<1>4. LettersListing = <<Dot, DotDot>> \o tail
  BY DEF LettersListing
<1> HIDE DEF tail
<1>5. /\ LettersListing \in Seq(Int) /\ Len(LettersListing) = 2 + Letters
      /\ \A i \in 1 .. 2 + Letters :
            LettersListing[i] = IF i <= 2 THEN <<Dot, DotDot>>[i] ELSE tail[i - 2]
  BY <1>1, <1>2, <1>4, ConcatProperties
<1>6. \A i \in 1 .. Total : LettersListing[i] = IF i < 3 THEN i - 4 ELSE i - 3
  <2> SUFFICES ASSUME NEW i \in 1 .. Total
               PROVE  LettersListing[i] = IF i < 3 THEN i - 4 ELSE i - 3
    OBVIOUS
  <2>1. CASE i = 1
    BY <2>1, <1>1, <1>2, <1>5
  <2>2. CASE i = 2
    BY <2>2, <1>1, <1>2, <1>5
  <2>3. CASE i > 2
    <3>1. i - 2 \in 1 .. Letters /\ i \in 1 .. 2 + Letters /\ ~(i <= 2)
      BY <2>3, <1>1 DEF Total
    <3>2. LettersListing[i] = i - 2 - 1
      BY <3>1, <1>3, <1>5
    <3> QED BY <2>3, <3>1, <3>2, <1>1
  <2> QED BY <2>1, <2>2, <2>3, <1>1 DEF Total
<1> QED BY <1>1, <1>5, <1>6 DEF Total

LEMMA RestOfLetters ==
    ASSUME TakesBothDots, NEW off \in Nat, off # 1, off <= Total
    PROVE  /\ Rest(off, Letters) = Total - off
           /\ \A j \in 1 .. Total - off : NameAt(off, j) = LettersListing[off + j]
<1>1. Letters \in Nat
  BY ReadDirAssumption
<1>2. Rest(off, Letters) = Total - off
  BY <1>1 DEF Rest, FirstIndex, TakesBothDots, Total
<1>3. ASSUME NEW j \in 1 .. Total - off
      PROVE  NameAt(off, j) = LettersListing[off + j]
  <2>1. off + j \in 1 .. Total
    BY <1>1 DEF Total
  <2>2. LettersListing[off + j] = IF off + j < 3 THEN off + j - 4 ELSE off + j - 3
    BY <2>1, ListingFacts
  <2>3. off = 0 \/ ~(off + j < 3)
    BY <1>1 DEF Total
  <2> QED BY <2>2, <2>3, <1>1 DEF NameAt, FirstIndex, TakesBothDots, Total
<1> QED BY <1>2, <1>3

LEMMA LInit == TakesBothDots /\ Init => LInv
<1> SUFFICES ASSUME TakesBothDots, Init PROVE LInv
  OBVIOUS
<1>1. AtOffset
  BY ReadDirAssumption, EmptySeq DEF Init, AtOffset, TakesBothDots, Total
<1> QED BY <1>1, OInit DEF LInv

\* What is taken is the beginning of the listing, as long as the offset says.
LEMMA Prefix ==
    ASSUME NEW s \in Seq(Int), NEW n \in Nat, Len(s) = n, n <= Total,
           \A i \in 1 .. n : s[i] = LettersListing[i]
    PROVE  s = SubSeq(LettersListing, 1, n)
<1>1. \A i \in 1 .. n : i \in 1 .. Total /\ LettersListing[i] \in Int
  BY ListingFacts, ElementOfSeq
<1>2. /\ SubSeq(LettersListing, 1, n) \in Seq(Int)
      /\ Len(SubSeq(LettersListing, 1, n)) = n
      /\ \A i \in 1 .. n : SubSeq(LettersListing, 1, n)[i] = LettersListing[i]
  BY <1>1, SubSeqProperties
<1> QED BY <1>2, SeqEqual

LEMMA LReaddir ==
    ASSUME TakesBothDots, LInv, NEW size \in 1 .. MaxPage, Readdir(size)
    PROVE  AtOffset' /\ (Stream!Next \/ UNCHANGED Stream!vars)
<1> DEFINE len == Len(page')
<1> HIDE DEF len
<1>1. /\ page' = PageFrom(offset, nfiles, size)
      /\ offset \in Nat /\ offset # 1 /\ offset <= Total /\ size \in Nat \ {0}
      /\ offset = 0 => size > 1
      /\ eof' = (page' = << >>) /\ ~eof
      /\ UNCHANGED <<nfiles, offset, got, opened, flushed>>
      /\ nfiles = Letters /\ Letters \in Nat
  BY ReadDirAssumption DEF LInv, OInv, AtOffset, TypeOK, Readdir
<1>2. Rest(offset, nfiles) = Total - offset /\ Total \in Nat
  BY <1>1, RestOfLetters, ListingFacts
<1>3. /\ page' \in Seq([name : Int, off : Nat \ {0}])
      /\ len = IF Total - offset < size THEN Total - offset ELSE size
  <2>1. /\ page' \in Seq([name : Int, off : Nat \ {0}])
        /\ Len(page') = IF Rest(offset, nfiles) < size THEN Rest(offset, nfiles) ELSE size
    <3>1. nfiles \in Nat /\ size \in Nat
      BY <1>1
    <3> QED BY <1>1, <3>1, PageFacts
  <2> QED BY <1>2, <2>1 DEF len
<1>4. /\ len <= Total - offset
      /\ len = 0 => offset = Total
      /\ offset = 0 => len # 1
  BY <1>1, <1>2, <1>3 DEF Total
<1>5. page' = << >> => len = 0
  BY EmptySeq DEF len
<1>6. AtOffset'
  BY <1>1, <1>4, <1>5 DEF LInv, AtOffset, len
<1>7. CASE page' = << >>
  <2>1. got = SubSeq(LettersListing, 1, Total)
    BY <1>2, <1>4, <1>5, <1>7, Prefix DEF LInv, OInv, TypeOK, AtOffset
  <2>2. got = LettersListing
    BY <2>1, ListingFacts, SubSeqFull
  <2> QED BY <1>1, <1>6, <1>7, <2>2 DEF Stream!Next, Stream!Finish
<1>8. CASE page' # << >>
  <2>1. ~eof'
    BY <1>1, <1>8
  <2>2. eof = FALSE /\ eof' = FALSE
    BY <1>1, <2>1 DEF LInv, OInv, TypeOK
  <2> QED BY <1>1, <1>6, <2>2 DEF Stream!vars
<1> QED BY <1>7, <1>8

LEMMA LTake ==
    ASSUME TakesBothDots, LInv, NEW n \in 1 .. MaxPage, Take(n)
    PROVE  AtOffset' /\ Stream!Deliver
<1>1. /\ n \in 1 .. Len(page) /\ n \in Nat \ {0}
      /\ offset' = offset + n /\ page' = << >>
      /\ got' \in Seq(Int) /\ Len(got') = Len(got) + n
      /\ \A i \in 1 .. Len(got) : got'[i] = got[i]
      /\ \A j \in 1 .. n : got'[Len(got) + j] = NameAt(offset, j)
  BY TakeFacts DEF LInv
<1>2. /\ offset \in Nat /\ Len(got) = offset /\ Len(page) \in Nat
      /\ offset # 1 /\ offset <= Total /\ Total \in Nat
      /\ Len(page) <= Total - offset
      /\ offset = 0 => Len(page) # 1
      /\ n >= Buffer \/ n = Len(page)
      /\ UNCHANGED <<nfiles, eof>>
  BY ListingFacts DEF LInv, OInv, TypeOK, AtOffset, Take
<1>3. offset + n # 1 /\ offset + n <= Total /\ offset + n \in Nat
  <2>1. \A len \in Nat : n \in 1 .. len /\ len <= Total - offset => offset + n <= Total
    BY <1>1, <1>2
  <2>2. offset + n <= Total /\ offset + n \in Nat
    BY <1>1, <1>2, <2>1
  <2>3. ASSUME offset = 0, n = 1 PROVE FALSE
    <3>1. ~(1 >= Buffer)
      BY ReadDirAssumption DEF TakesBothDots
    <3>2. n = Len(page)
      BY <1>2, <2>3, <3>1
    <3> QED BY <1>2, <2>3, <3>2
  <2> QED BY <1>1, <1>2, <2>2, <2>3
<1>4. \A i \in 1 .. offset + n : got'[i] = LettersListing[i]
  <2> SUFFICES ASSUME NEW i \in 1 .. offset + n PROVE got'[i] = LettersListing[i]
    OBVIOUS
  <2>1. CASE i <= offset
    <3>1. i \in 1 .. Len(got)
      BY <2>1, <1>2
    <3> QED BY <3>1, <1>1 DEF LInv, AtOffset
  <2>2. CASE i > offset
    <3> DEFINE j == i - offset
    <3>1. j \in 1 .. n /\ j \in 1 .. Total - offset /\ offset + j = i
      BY <2>2, <1>1, <1>2, <1>3
    <3> HIDE DEF j
    <3>2. NameAt(offset, j) = LettersListing[offset + j]
      BY <3>1, <1>2, RestOfLetters
    <3>3. got'[offset + j] = NameAt(offset, j)
      BY <3>1, <1>1, <1>2
    <3> QED BY <3>1, <3>2, <3>3
  <2> QED BY <2>1, <2>2, <1>2
<1>5. Len(got') = offset + n
  BY <1>1, <1>2
<1>6. AtOffset'
  <2>1. eof' => offset = Total
    BY <1>2 DEF LInv, AtOffset
  <2>2. ~eof'
    BY <1>1, <1>2, <2>1
  <2>3. Len(page') = 0 /\ nfiles' = Letters
    BY <1>1, <1>2, EmptySeq DEF LInv, AtOffset
  <2>4. Len(page') <= Total - offset' /\ Len(page') # 1
    BY <1>1, <1>2, <1>3, <2>3
  <2> QED BY <1>1, <1>3, <1>4, <1>5, <2>2, <2>3, <2>4 DEF AtOffset
<1>7. got' = SubSeq(LettersListing, 1, offset + n)
  BY <1>1, <1>3, <1>4, <1>5, Prefix
<1>8. offset + n \in Len(got) + 1 .. Len(LettersListing)
  BY <1>1, <1>2, <1>3, ListingFacts
<1> QED BY <1>2, <1>6, <1>7, <1>8 DEF Stream!Deliver

LEMMA LNext ==
    ASSUME TakesBothDots, LInv, [Next]_vars
    PROVE  LInv' /\ [Stream!Next]_(Stream!vars)
<1>1. ASSUME NEW size \in 1 .. MaxPage, Readdir(size)
      PROVE  AtOffset' /\ [Stream!Next]_(Stream!vars)
  BY <1>1, LReaddir
<1>2. ASSUME NEW n \in 1 .. MaxPage, Take(n)
      PROVE  AtOffset' /\ [Stream!Next]_(Stream!vars)
  BY <1>2, LTake DEF Stream!Next
<1>3. ~AddFile /\ ~Flush
  BY DEF AddFile, Flush, TakesBothDots
<1>4. CASE UNCHANGED vars
  <2>1. UNCHANGED <<nfiles, offset, page, got, eof>>
    BY <1>4 DEF vars
  <2>2. AtOffset'
    BY <2>1 DEF LInv, AtOffset
  <2> QED BY <2>1, <2>2, ONext DEF LInv, Stream!vars
<1> QED BY <1>1, <1>2, <1>3, <1>4, ONext DEF LInv, Next, Read

\* A process that lists /by-letter is handed ., .. and all the letters, each
\* once and in order, and is told of the end only after the last, for any number
\* of letters and however they fall into pages: the handler implements
\* DirStream (its safety part).
THEOREM LettersImplementStream == TakesBothDots /\ Spec => Stream!Spec
<1>1. TakesBothDots /\ Init => Stream!Init
  BY DEF Init, Stream!Init
<1>2. TakesBothDots /\ LInv /\ [Next]_vars => LInv' /\ [Stream!Next]_(Stream!vars)
  BY LNext
<1>3. TakesBothDots => [](TakesBothDots)
  OBVIOUS
<1> QED BY <1>1, <1>2, <1>3, LInit, PTL DEF Spec, Stream!Spec

=============================================================================
