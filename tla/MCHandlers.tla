----------------------------- MODULE MCHandlers ------------------------------
(***************************************************************************)
(* Small instances of what serves one request after the other, side by      *)
(* side: `part` is the one that moves in a behaviour, the others stay as    *)
(* they are initialised.  The daemon's requests and the open files are the  *)
(* modules ZxdbFS, OpenFile and Paths themselves, which theorems are about. *)
(***************************************************************************)
EXTENDS MCZxdbFS, OpenFile, Paths

VARIABLES
    part,
    nfiles, offset, page, got, eof, opened, flushed,       \* ReadDir
    entries, table, obj, documents, th, settled, answer    \* Workers

listingVars == <<nfiles, offset, page, got, eof, opened, flushed>>
workerVars == <<entries, table, obj, documents, th, settled, answer>>
handlerVars == <<part, vars, listingVars, workerVars, fileVars, typed>>

-----------------------------------------------------------------------------
(***************************************************************************)
(* The instances; the letter A under two spellings is that of ZxdbFS        *)
(***************************************************************************)

\* /by-letter, to a process that takes at least two entries at a time.
Letter == INSTANCE ReadDir WITH
    Handler <- "letters", Letters <- 26, MaxFiles <- 0, MaxPage <- 28, Buffer <- 2, MaxTaken <- 40

\* One thread; one search that finds one game, with a file and a POK.
OneGame == "Ant_0000001"
OneThread == INSTANCE Workers WITH
    Threads <- {"t"}, Terms <- {"ant"}, Games <- {OneGame}, Files <- {"ant.tap", "ant.pok"},
    SearchGames <- [t \in {"ant"} |-> <<OneGame>>], Releases <- [g \in {OneGame} |-> <<"ant.tap">>],
    Pokes <- [g \in {OneGame} |-> <<"ant.pok">>], Screens <- [g \in {OneGame} |-> << >>],
    Requests <- {<<"search">>, <<"search", "ant">>, <<"search", "ant", OneGame>>,
                 <<"search", "ant", OneGame, "ant.tap">>},
    Answers <- {"down", "bad", "good"}, MaxObjects <- 9,
    cache <- entries, urlcache <- documents, reply <- answer

\* What is downloaded is as long as the metadata say, longer, or ends within
\* the same page: a file of no page, of one, of two and a bit.
MCSizes == {<<0, 1>>, <<2, 1>>, <<4, 3>>, <<3, 4>>}

-----------------------------------------------------------------------------
HandlersInit ==
    /\ part \in {"letters", "listing", "worker", "file", "path"}
    /\ Init
    /\ Letter!Init
    /\ OneThread!Init
    /\ FileInit /\ (part # "file" => meta = 0)
    /\ PathInit

Moves(p) ==
    /\ part = p
    /\ UNCHANGED part
    /\ IF p = "letters" THEN TRUE ELSE UNCHANGED vars
    /\ IF p = "listing" THEN TRUE ELSE UNCHANGED listingVars
    /\ IF p = "worker" THEN TRUE ELSE UNCHANGED workerVars
    /\ IF p = "file" THEN TRUE ELSE UNCHANGED fileVars
    /\ IF p = "path" THEN TRUE ELSE UNCHANGED typed

LettersStep == Moves("letters") /\ Next
ListingStep == Moves("listing") /\ Letter!Next
WorkerStep == Moves("worker") /\ OneThread!Next
FileStep == Moves("file") /\ FileNext
PathStep == Moves("path") /\ PathNext

HandlersNext == LettersStep \/ ListingStep \/ WorkerStep \/ FileStep \/ PathStep

\* The fairness of the parts: the process reads on, a handler that was called
\* runs on, a transfer makes progress or runs into its time limit.
HandlersSpec ==
    /\ HandlersInit /\ [][HandlersNext]_handlerVars
    /\ WF_handlerVars(Moves("listing") /\ Letter!Read)
    /\ WF_handlerVars(Moves("worker") /\ (OneThread!Handle("t") \/ OneThread!Undefined("t")))
    /\ \A h \in Handles : WF_handlerVars(Moves("file") /\ bad = "none" /\ Transfer(h))

-----------------------------------------------------------------------------
(***************************************************************************)
(* Properties, with those of ZxdbFS, OpenFile and Paths                     *)
(***************************************************************************)

\* /by-letter delivers ., .. and the letters, each once and in order, however
\* they are split into pages, and then its end.
DeliversLetters ==
    /\ Letter!Stream!Spec
    /\ part = "listing" => WF_<<got, eof>>(Letter!Stream!Next)

\* The handlers, call by call, implement the actions of ZxdbFS: a request in one
\* thread is as good as a single step.
OneAtATime == OneThread!OneAtATime

\* A request that was started is answered; nothing follows a freed pointer.
RequestsEnd == OneThread!RequestsEnd
=============================================================================
