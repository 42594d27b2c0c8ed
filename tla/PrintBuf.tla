------------------------------ MODULE PrintBuf -------------------------------
(***************************************************************************)
(* The growing buffer json-c prints into (json-c/printbuf.c): its sizes are  *)
(* ints, every sum of which must stay below INT_MAX, and the text in it ends  *)
(* with a NUL only after the calls that write one.                           *)
(***************************************************************************)
EXTENDS Integers

CONSTANTS
    IntMax,    \* INT_MAX
    FirstSize  \* 32 in the code

ASSUME IntMaxAssumption == IntMax \in Nat /\ IntMax > 16
ASSUME FirstSizeAssumption == FirstSize \in 1 .. IntMax

VARIABLES
    size,     \* bytes allocated
    bpos,     \* bytes used
    highest,  \* one more than the highest byte ever written
    ended,    \* whether buf[bpos] is known to be a NUL
    overflow  \* whether an int has left its range

vars == <<size, bpos, highest, ended, overflow>>

Lengths == 0 .. IntMax
Larger(a, b) == IF a > b THEN a ELSE b

\* printbuf_new
Init ==
    /\ size = FirstSize /\ bpos = 0
    /\ highest = 1 /\ ended = TRUE
    /\ overflow = FALSE

\* printbuf_extend: what it allocates for `minSize`.
NewSize(minSize) ==
    IF size > IntMax \div 2 THEN minSize + 8 ELSE Larger(2 * size, minSize + 8)

\* It has the room, or makes it; -1 when that would be too much for an int.
Extended(minSize) == size >= minSize \/ minSize <= IntMax - 8
SizeFor(minSize) == IF size >= minSize THEN size ELSE NewSize(minSize)

\* printbuf_memappend, with its refusals: nothing changes then.
MemAppend(n) ==
    /\ n <= IntMax - bpos - 1
    /\ size <= bpos + n + 1 => Extended(bpos + n + 1)
    /\ size' = IF size <= bpos + n + 1 THEN SizeFor(bpos + n + 1) ELSE size
    /\ bpos' = bpos + n
    /\ highest' = Larger(highest, bpos' + 1)
    /\ ended' = TRUE
    /\ overflow' = (overflow \/ size' > IntMax)

\* printbuf_memappend_fast of no more than fits.
MemAppendFast(n) ==
    /\ size - bpos > n
    /\ bpos' = bpos + n
    /\ highest' = Larger(highest, bpos' + 1)
    /\ ended' = TRUE
    /\ UNCHANGED <<size, overflow>>

\* Mutant of MemSet: the room is reckoned from the end, the bytes go to `offset`.
MemSet_fromEnd(offset, n) ==
    LET first == IF offset = -1 THEN bpos ELSE offset
        needed == first + n
    IN  /\ n <= IntMax - first
        /\ size < bpos + n => Extended(bpos + n)
        /\ size' = IF size < bpos + n THEN SizeFor(bpos + n) ELSE size
        /\ bpos' = Larger(bpos, needed)
        /\ highest' = Larger(highest, needed)
        /\ ended' = (ended /\ needed <= bpos)
        /\ overflow' = (overflow \/ size' > IntMax)

\* printbuf_memset, at the end for offset -1: no NUL, and perhaps no room for one.
MemSet(offset, n) ==
    LET first == IF offset = -1 THEN bpos ELSE offset
        needed == first + n
    IN  /\ n <= IntMax - first
        /\ size < needed => Extended(needed)
        /\ size' = IF size < needed THEN SizeFor(needed) ELSE size
        /\ bpos' = Larger(bpos, needed)
        /\ highest' = Larger(highest, needed)
        /\ ended' = (ended /\ needed <= bpos)
        /\ overflow' = (overflow \/ size' > IntMax)

\* printbuf_reset
Reset ==
    /\ bpos' = 0 /\ ended' = TRUE
    /\ UNCHANGED <<size, highest, overflow>>

Next ==
    \/ \E n \in Lengths : MemAppend(n) \/ MemAppendFast(n) \/ \E offset \in Lengths \cup {-1} : MemSet(offset, n)
    \/ Reset

Spec == Init /\ [][Next]_vars

-----------------------------------------------------------------------------
(***************************************************************************)
(* Properties                                                               *)
(***************************************************************************)

\* Type invariant.
TypeOK ==
    /\ size \in Int /\ bpos \in Nat /\ highest \in Nat
    /\ ended \in BOOLEAN /\ overflow \in BOOLEAN

\* No byte was ever written outside the buffer, the NUL included.
WritesWithinBuffer == highest <= size /\ bpos <= size

\* No sum of sizes leaves the range of an int, however large the buffer grows.
NoOverflow == ~overflow

\* Where the text was ended by a NUL there is a byte for it; a fill may leave
\* none, and the text has no end until the next append or reset.
EndsWithinBuffer == ended => bpos < size

=============================================================================
