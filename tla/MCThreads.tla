------------------------------ MODULE MCThreads ------------------------------
(***************************************************************************)
(* Small instances of what goes on at the same time, side by side: `part`   *)
(* is the one that moves in a behaviour, the other stays as it is           *)
(* initialised.  They are the modules Workers and StatusFile themselves,    *)
(* which the theorems are about.                                            *)
(***************************************************************************)
EXTENDS MCWorkers, StatusFile

VARIABLE part

threadVars == <<part, vars, statusVars>>

-----------------------------------------------------------------------------
\* The openers of StatusFile are two; here is one that has the file to itself.
OneOpen == INSTANCE StatusFile WITH Openers <- {"alone"}

ThreadsInit ==
    /\ part \in {"workers", "one open", "status"}
    /\ Init
    /\ IF part = "one open" THEN OneOpen!StatusInit ELSE StatusInit

Moves(p) ==
    /\ part = p
    /\ UNCHANGED part
    /\ IF p = "workers" THEN TRUE ELSE UNCHANGED vars
    /\ IF p \in {"one open", "status"} THEN TRUE ELSE UNCHANGED statusVars

WorkersStep == Moves("workers") /\ Next
OneOpenStep == Moves("one open") /\ OneOpen!StatusNext
StatusStep == Moves("status") /\ StatusNext

ThreadsNext == WorkersStep \/ OneOpenStep \/ StatusStep

ThreadsSpec == ThreadsInit /\ [][ThreadsNext]_threadVars

\* What the handlers read: settled and reply only record what they did.
Seen == <<part, Memory, statusVars>>

\* Nothing names a thread, or an opener.
Symmetry == ThreadSymmetry \cup Permutations(Openers)

=============================================================================
