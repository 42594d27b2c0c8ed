----------------------------- MODULE DirStream -------------------------------
(***************************************************************************)
(* What a reader of a directory is promised: the entries of Listing, each   *)
(* once, in order, and the end of the directory once it has had them all.   *)
(***************************************************************************)
EXTENDS Integers, Sequences

CONSTANT Listing

VARIABLES
    got,    \* the entries handed to the reader so far
    eof     \* the reader has been told that there are no more

vars == <<got, eof>>

Init == got = << >> /\ eof = FALSE

\* A prefix of the entries still to come.
Deliver ==
    /\ \E n \in Len(got) + 1 .. Len(Listing) : got' = SubSeq(Listing, 1, n)
    /\ UNCHANGED eof

Finish ==
    /\ ~eof /\ got = Listing
    /\ eof' = TRUE
    /\ UNCHANGED got

Next == Deliver \/ Finish

Spec == Init /\ [][Next]_vars

\* A reader that keeps reading reaches the end.
FairSpec == Spec /\ WF_vars(Next)
=============================================================================
