-------------------------------- MODULE Paths --------------------------------
(***************************************************************************)
(* The path functions of lib/zxdbfs_paths.c, with the indexes they compute, *)
(* against what they promise in terms of segments.                          *)
(*                                                                          *)
(* A path is a sequence of characters that grows by one at a time, so that   *)
(* every absolute path without empty segments is reached: those are the      *)
(* paths FUSE hands over.  Positions count from 0, as in C.                  *)
(***************************************************************************)
EXTENDS Integers, Sequences, SequencesExt, FiniteSetsExt

CONSTANTS
    IdLen,    \* 7 digits in the code
    MaxLen    \* bound on the length of a path

VARIABLE typed   \* the path that is asked for

ASSUME PathsAssumption == IdLen \in Nat \ {0} /\ MaxLen \in Nat

Slash == "/"
Underscore == "_"
Digit == "1"
Chars == {Slash, Underscore, Digit, "s"}
SearchPrefix == <<Slash, "s">>   \* "/search"

-----------------------------------------------------------------------------
(***************************************************************************)
(* The code                                                                 *)
(***************************************************************************)

\* countSeparators: the positions of c, in order.
CountSeparators(c, p) ==
    LET separatorpos[n \in 0 .. Len(p)] ==
            IF n = 0 THEN << >>
            ELSE IF p[n] = c THEN Append(separatorpos[n - 1], n - 1)
            ELSE separatorpos[n - 1]
    IN  separatorpos[Len(p)]

\* separatorpos[k]: the slots behind the last position hold -1.
Pos(seps, k) == IF k < Len(seps) THEN seps[k + 1] ELSE -1

\* strncpy( to, &p[first], n )
Copy(p, first, n) == SubSeq(p, first + 1, first + n)
CharAt(p, i) == IF i \in 0 .. Len(p) - 1 THEN p[i + 1] ELSE "none"

IsAllDigits(s) == s # <<>> /\ \A i \in DOMAIN s : s[i] = Digit

\* The bounds of the segment that follows slash k; the last slot has none.
\* path[-1], read for the slot behind the last slash, is no slash: it is the
\* header of the block FUSE allocated the path in.
SIndex(p, k) == Pos(CountSeparators(Slash, p), k) + 1
EIndex(p, k) ==
    LET next == Pos(CountSeparators(Slash, p), k + 1) + 1
        end == IF next < SIndex(p, k) THEN Len(p) ELSE next
    IN  IF CharAt(p, end - 1) = Slash THEN end - 1 ELSE end

\* Where the ID of a segment starts: behind its last underscore.
IdStart(seg) == Last(CountSeparators(Underscore, seg)) + 1

LooksIdish(seg) ==
    /\ Len(seg) >= IdLen
    /\ CountSeparators(Underscore, seg) # <<>>
    /\ LET id == Copy(seg, IdStart(seg), Len(seg) - IdStart(seg))
       IN  Len(id) = IdLen /\ IsAllDigits(id)

SegmentAt(p, k) == Copy(p, SIndex(p, k), EIndex(p, k) - SIndex(p, k))

NoGame == [found |-> FALSE]

\* Mutant of GetTitleAndIDFromPath: the scan goes forwards.
GetTitleAndIDFromPath_forward(p) ==
    LET hits == {k \in 0 .. Len(CountSeparators(Slash, p)) : LooksIdish(SegmentAt(p, k))}
        k == Min(hits)
        seg == SegmentAt(p, k)
    IN  IF hits = {} THEN NoGame
        ELSE [found |-> TRUE, title |-> Copy(seg, 0, IdStart(seg) - 1),
              id |-> Copy(seg, IdStart(seg), Len(seg) - IdStart(seg)),
              root |-> Copy(p, 0, EIndex(p, k))]

\* The scan goes backwards from the slot behind the last slash, and stops at
\* the first segment that looks like a title and an ID.
GetTitleAndIDFromPath(p) ==
    LET hits == {k \in 0 .. Len(CountSeparators(Slash, p)) : LooksIdish(SegmentAt(p, k))}
        k == Max(hits)
        seg == SegmentAt(p, k)
    IN  IF hits = {} THEN NoGame
        ELSE [found |-> TRUE, title |-> Copy(seg, 0, IdStart(seg) - 1),
              id |-> Copy(seg, IdStart(seg), Len(seg) - IdStart(seg)),
              root |-> Copy(p, 0, EIndex(p, k))]

\* NULL, or the game the URL asks for.
GetGameURLPath(id) == IF Len(id) = IdLen /\ IsAllDigits(id) THEN id ELSE <<>>

\* The last slash is the end of the directory, unless it is the only one.
GetDirname(p) ==
    LET seps == CountSeparators(Slash, p)
    IN  IF Len(seps) = 1 THEN <<Slash>> ELSE Copy(p, 0, Last(seps))

\* Scan back from the last character to a slash.
GetBasename(p) ==
    IF p = <<Slash>> THEN p
    ELSE LET sindex == Max({-1} \cup {i \in 0 .. Len(p) - 1 : CharAt(p, i) = Slash}) + 1
         IN  Copy(p, sindex, Len(p) - sindex)

NoTerm == [found |-> FALSE]

\* Mutant of GetSearchTermFromPath: the slash in front of the root is skipped.
GetSearchTermFromPath_after(p) ==
    LET seps == CountSeparators(Slash, p)
    IN  IF ~IsPrefix(SearchPrefix, p) \/ Len(seps) < 2 THEN NoTerm
        ELSE IF Pos(seps, 2) = -1
          THEN [found |-> TRUE, term |-> Copy(p, seps[2] + 1, Len(p) - seps[2] - 1), root |-> <<>>]
          ELSE [found |-> TRUE, term |-> Copy(p, seps[2] + 1, seps[3] - seps[2] - 1),
                root |-> Copy(p, seps[3] + 1, Len(p) - seps[3] - 1)]

\* Only the first characters are compared with "/search".
GetSearchTermFromPath(p) ==
    LET seps == CountSeparators(Slash, p)
    IN  IF ~IsPrefix(SearchPrefix, p) \/ Len(seps) < 2 THEN NoTerm
        ELSE IF Pos(seps, 2) = -1
          THEN [found |-> TRUE, term |-> Copy(p, seps[2] + 1, Len(p) - seps[2] - 1), root |-> <<>>]
          ELSE [found |-> TRUE, term |-> Copy(p, seps[2] + 1, seps[3] - seps[2] - 1),
                root |-> Copy(p, seps[3], Len(p) - seps[3])]

-----------------------------------------------------------------------------
\* The paths

PathInit == typed = <<Slash>>

Extend ==
    /\ Len(typed) < MaxLen
    /\ \E c \in Chars : (c = Slash => Last(typed) # Slash) /\ typed' = Append(typed, c)

PathNext == Extend

PathSpec == PathInit /\ [][PathNext]_typed

-----------------------------------------------------------------------------
(***************************************************************************)
(* Properties, in terms of segments                                         *)
(***************************************************************************)

\* From a slash to the next one, or to the end, with no slash between
IsSegment(p, i, j) ==
    /\ i \in 1 .. Len(p) /\ p[i] = Slash
    /\ j \in i + 1 .. Len(p) + 1 /\ (j = Len(p) + 1 \/ p[j] = Slash)
    /\ \A k \in i + 1 .. j - 1 : p[k] # Slash
Segment(p, i, j) == SubSeq(p, i + 1, j - 1)
Cuts(p) == 1 .. Len(p) + 1

IsComplete == Last(typed) # Slash

\* title_id: any title, an underscore and an ID.
IsTitleAndID(seg, title, id) ==
    /\ seg = title \o <<Underscore>> \o id
    /\ Len(id) = IdLen /\ \A i \in DOMAIN id : id[i] = Digit
HasTitleAndID(seg) ==
    \E n \in DOMAIN seg : IsTitleAndID(seg, SubSeq(seg, 1, n - 1), SubSeq(seg, n + 1, Len(seg)))

\* The game of a path is that of its deepest title_id segment, and the root of
\* the game is the path down to that segment; a path without one has no game.
\* An ID taken from a path is always good for a URL.
FindsDeepestGame ==
    LET game == GetTitleAndIDFromPath(typed)
        HasGameFrom(n) == \E i, j \in Cuts(typed) :
            n <= i /\ IsSegment(typed, i, j) /\ HasTitleAndID(Segment(typed, i, j))
    IN  IsComplete =>
            IF game.found
              THEN /\ \E i, j \in Cuts(typed) :
                          /\ IsSegment(typed, i, j)
                          /\ IsTitleAndID(Segment(typed, i, j), game.title, game.id)
                          /\ game.root = SubSeq(typed, 1, j - 1)
                          /\ ~HasGameFrom(j)
                   /\ GetGameURLPath(game.id) = game.id
              ELSE ~HasGameFrom(1)

\* The search term of a path below /search is its second segment, and with
\* what is behind it and in front of it it makes up the path again.
TermAndRootMakePath ==
    LET found == GetSearchTermFromPath(typed)
    IN  IsComplete => \A j \in Cuts(typed) :
            IsSegment(typed, 1, j) /\ Segment(typed, 1, j) = Tail(SearchPrefix) =>
                /\ found.found = (j <= Len(typed))
                /\ found.found =>
                       /\ \E k \in Cuts(typed) :
                              IsSegment(typed, j, k) /\ found.term = Segment(typed, j, k)
                       /\ SearchPrefix \o <<Slash>> \o found.term \o found.root = typed

\* Directory and base name make up the path again, the base name being the
\* last segment.
DirAndBaseMakePath ==
    LET dir == GetDirname(typed)
        base == GetBasename(typed)
    IN  IsComplete =>
            /\ \E i \in Cuts(typed) :
                   IsSegment(typed, i, Len(typed) + 1) /\ base = Segment(typed, i, Len(typed) + 1)
            /\ (IF dir = <<Slash>> THEN dir \o base ELSE dir \o <<Slash>> \o base) = typed

\* The parts a path is cut into make it up again.
PartsMakePath == TermAndRootMakePath /\ DirAndBaseMakePath

=============================================================================
