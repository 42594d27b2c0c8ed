------------------------------ MODULE ReadDir --------------------------------
(***************************************************************************)
(* One process lists one directory, page by page: zxdb_fuse_readdir and the *)
(* two handlers of it that resume from an offset.                           *)
(*                                                                          *)
(* The kernel asks for the entries from an offset on.  The handler hands    *)
(* them to filler, each with the offset to resume from after it, until      *)
(* filler says that the page is full.  The process takes some of the page;  *)
(* the kernel drops the rest and asks again from the offset of the last     *)
(* entry taken.  An empty page is the end of the directory.  Between two    *)
(* pages other processes may search, or flush the filesystem cache.         *)
(*                                                                          *)
(* The handler is "letters", the loop over A-Z for /by-letter, or "cached", *)
(* _readdirFSCache for the directories of the filesystem cache.             *)
(***************************************************************************)
EXTENDS Integers, Sequences, FiniteSets

CONSTANTS
    Handler,    \* "letters" or "cached"
    Letters,    \* the number of letters, 26 in the code
    MaxFiles,   \* the rows a cached directory may have
    MaxPage,    \* the entries a page may hold
    Buffer,     \* the process takes at least so many of a page, or all of it
    MaxTaken    \* bounds the entries a process takes; no listing comes near it

ASSUME ReadDirAssumption ==
    /\ Handler \in {"letters", "cached"}
    /\ Letters \in Nat /\ MaxFiles \in Nat /\ MaxTaken \in Nat
    /\ MaxPage \in Nat /\ MaxPage > 1
    /\ Buffer \in Nat \ {0}

VARIABLES
    nfiles,     \* how many entries the directory has, dots apart
    offset,     \* where the process is in the directory
    page,       \* entries filled and not yet taken: [name, off]
    got,        \* the names taken so far
    eof,        \* an empty page was read
    opened,     \* how many entries there were at the start
    flushed     \* the cache was flushed since

vars == <<nfiles, offset, page, got, eof, opened, flushed>>

\* The i-th row or letter, from 0, is named i.  A letter is the character
\* 'A' + i: -1 is '@'.
Dot == -3
DotDot == -2
At == -1

-----------------------------------------------------------------------------
\* Where the handler's loop starts: "Subtract . and .." of the letters, the
\* bare offset of the cached rows.
FirstIndex_bare(off) == off
FirstIndex(off) == IF Handler = "letters" /\ off > 0 THEN off - 2 ELSE off

Dots(off) == IF off = 0 THEN <<Dot, DotDot>> ELSE << >>

\* All the names from an offset on.
NamesFrom(off, n) ==
    Dots(off) \o [j \in 1 .. IF FirstIndex(off) < n THEN n - FirstIndex(off) ELSE 0
                    |-> FirstIndex(off) + j - 1]

PageLen(names, size) == IF Len(names) < size THEN Len(names) ELSE size

\* nfileinfo starts at offset + 1 and counts every entry filled.
\* Mutants: it starts at offset, the "nfileinfo++" being left out; at offset + 2;
\* at 1 on every page.
PageFrom_atOffset(off, n, size) ==
    LET names == NamesFrom(off, n)
    IN  [j \in 1 .. PageLen(names, size) |-> [name |-> names[j], off |-> off + j - 1]]
PageFrom_atTwo(off, n, size) ==
    LET names == NamesFrom(off, n)
    IN  [j \in 1 .. PageLen(names, size) |-> [name |-> names[j], off |-> off + j + 1]]
PageFrom_atOne(off, n, size) ==
    LET names == NamesFrom(off, n)
    IN  [j \in 1 .. PageLen(names, size) |-> [name |-> names[j], off |-> j]]
PageFrom(off, n, size) ==
    LET names == NamesFrom(off, n)
    IN  [j \in 1 .. PageLen(names, size) |-> [name |-> names[j], off |-> off + j]]

-----------------------------------------------------------------------------
Init ==
    /\ nfiles \in IF Handler = "letters" THEN {Letters} ELSE 0 .. MaxFiles
    /\ offset = 0
    /\ page = << >>
    /\ got = << >>
    /\ eof = FALSE
    /\ opened = nfiles
    /\ flushed = FALSE

\* zxdb_fuse_readdir; the dots always fit a page.
Readdir(size) ==
    /\ ~eof /\ page = << >>
    /\ offset = 0 => size > 1
    /\ page' = PageFrom(offset, nfiles, size)
    /\ eof' = (page' = << >>)
    /\ UNCHANGED <<nfiles, offset, got, opened, flushed>>

Take(n) ==
    /\ n \in 1 .. Len(page)
    /\ n >= Buffer \/ n = Len(page)
    /\ Len(got) + n <= MaxTaken
    /\ got' = got \o [j \in 1 .. n |-> page[j].name]
    /\ offset' = page[n].off
    /\ page' = << >>
    /\ UNCHANGED <<nfiles, eof, opened, flushed>>

\* A search elsewhere appends a row to the entry of /search.
AddFile ==
    /\ Handler = "cached"
    /\ nfiles < MaxFiles
    /\ nfiles' = nfiles + 1
    /\ UNCHANGED <<offset, page, got, eof, opened, flushed>>

\* /cache/fscache/flush: the directory is not cached any more.
Flush ==
    /\ Handler = "cached"
    /\ nfiles' = 0
    /\ flushed' = TRUE
    /\ UNCHANGED <<offset, page, got, eof, opened>>

Read == \/ \E size \in 1 .. MaxPage : Readdir(size)
        \/ \E n \in 1 .. MaxPage : Take(n)

Next == Read \/ AddFile \/ Flush

Spec == Init /\ [][Next]_vars

\* The process reads on until the end of the directory.
FairSpec == Spec /\ WF_vars(Read)

-----------------------------------------------------------------------------
(***************************************************************************)
(* Properties                                                               *)
(***************************************************************************)

\* Type invariant: offsets, pages and names are what the handlers can produce.
TypeOK ==
    /\ nfiles \in Nat /\ opened \in Nat
    /\ offset \in Nat
    /\ page \in Seq([name : Int, off : Nat \ {0}]) /\ Len(page) <= MaxPage
    /\ got \in Seq(Int)
    /\ eof \in BOOLEAN /\ flushed \in BOOLEAN

Taken == {got[i] : i \in 1 .. Len(got)}
Rows == {name \in Taken : name >= 0}

\* No entry comes twice and rows come in their order, wherever the pages end
\* and however the directory changes between them.
EachOnceInOrder ==
    \A i, j \in 1 .. Len(got) : i < j => got[i] < got[j]

\* The rows that are not listed are at most two, and they follow one another:
\* the two that the resumption after the first page, which the dots are part
\* of, jumps over.
LosesAtMostTwo ==
    eof /\ ~flushed =>
        LET lost == 0 .. opened - 1 \ Rows
        IN  Cardinality(lost) <= 2 /\ \A i, j \in lost : i - j <= 1

\* A process that reads on reaches the end of the directory, whatever is
\* searched or flushed meanwhile: an offset is never handed out again.
ReachesEnd == <>eof

\* /by-letter delivers ., .. and the letters, each once and in order, however
\* they are split into pages.
LettersListing == <<Dot, DotDot>> \o [i \in 1 .. Letters |-> i - 1]
Stream == INSTANCE DirStream WITH Listing <- LettersListing
DeliversLetters == Stream!FairSpec

(***************************************************************************)
(* What the documentation says and the code does not do                     *)
(***************************************************************************)

\* README.md:113-126: programs and searches are listed by their directories;
\* a listing that has ended has had every row that was there at its start.
ListsEveryRow == eof /\ ~flushed => 0 .. opened - 1 \subseteq Rows

\* README.md:110-111: the sub-directories of /by-letter are single letters.
ListsLettersOnly == At \notin Taken
=============================================================================
