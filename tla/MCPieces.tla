------------------------------ MODULE MCPieces -------------------------------
(***************************************************************************)
(* Small instances of what arrives in pieces, side by side: `part` is the   *)
(* one that moves in a behaviour, the others stay as they are initialised.  *)
(* A directory that is listed page by page is the module ReadDir itself, so *)
(* that what is checked here is what ReadDir_proofs is about.               *)
(***************************************************************************)
EXTENDS ReadDir, TLC

VARIABLES
    part,
    tok, text, result,               \* Tokener
    document, flags, file, loaded    \* JsonFile

tokenerVars == <<tok, text, result>>
fileVars == <<document, flags, file, loaded>>
piecesVars == <<part, vars, tokenerVars, fileVars>>

-----------------------------------------------------------------------------
(***************************************************************************)
(* The instances                                                            *)
(***************************************************************************)

\* A strict parser of brackets and their like, and the daemon's parser of
\* escapes, of words and numbers, and of comments, in pieces of up to two.
Structure == INSTANCE Tokener WITH
    Chars <- {"[", "]", "{", "}", ",", ":", "\"", "1"}, MaxText <- 7, MaxPiece <- 2,
    MaxDepth <- 3, Strict <- TRUE, MayReset <- FALSE, MayRunOut <- FALSE
Lenient == INSTANCE Tokener WITH
    Chars <- {}, MaxText <- 10, MaxPiece <- 2,
    MaxDepth <- 3, Strict <- FALSE, MayReset <- TRUE, MayRunOut <- FALSE

PiecesOf(chars) == {<<c>> : c \in chars} \cup (chars \X chars)
EscapePieces == PiecesOf({"\"", "\\", "u", "d", "8"})
WordPieces == PiecesOf({"n", "u", "l", "1", "e", "+"})
CommentPieces == PiecesOf({"/", "*", "nl", "1"})

Feed(pieces, max) ==
    \E piece \in pieces : Len(Lenient!Before) + Len(piece) <= max /\ Lenient!Feed(piece)

\* Strings and numbers are not extended beyond this.
ShortTokens ==
    /\ part = "structure" => Len(tok.pb) <= 1
    /\ part = "escapes" => Len(tok.pb) <= 2

Strings == {<<"string", s>> : s \in {<< >>, <<"/", "\"">>, <<"\\", "nl">>, <<"\\">>, <<"ctl", "a">>}}
Scalars == Strings \cup {<<"null">>, <<"int", <<"-", "1">>>>, <<"word", <<"t", "r", "u", "e">>>>}
Small == {<<"array", << >>>>, <<"object", << >>>>, <<"array", <<<<"string", <<"tab">>>>>>>>,
          <<"object", <<<<<<"\"">>, <<"array", << >>>>>>>>>>}
Documents ==
    {<<"array", <<v>>>> : v \in Scalars \cup Small}
    \cup {<<"array", <<v, <<"int", <<"1", "0">>>>>>>> : v \in Scalars}
    \cup {<<"object", <<<<<<"a">>, v>>>>>> : v \in Scalars \cup Small}
    \cup {<<"object", <<<<<<"\\">>, v>>, <<<<"a", "/">>, <<"int", <<"1">>>>>>>>>> : v \in Strings}
    \cup {<<"array", << >>>>, <<"object", << >>>>}
\* NULs, the ends of other documents, and a comment.
File == INSTANCE JsonFile WITH
    Documents <- Documents, Flags <- {"pretty", "spaced", "noslashescape"},
    Behind <- {<< >>, <<"]">>, <<"\"", "}">>, <<"1">>, <<"/", "a">>}, MaxDepth <- 3

-----------------------------------------------------------------------------
PiecesInit ==
    /\ part \in {"listing", "structure", "escapes", "words", "comments", "file"}
    /\ Init /\ (part # "listing" => nfiles = 0)
    /\ Structure!Init
    /\ File!Init /\ (part # "file" => document = <<"array", << >>>> /\ flags = {})

Moves(p) ==
    /\ part = p
    /\ UNCHANGED part
    /\ IF p = "listing" THEN TRUE ELSE UNCHANGED vars
    /\ IF p \in {"structure", "escapes", "words", "comments"} THEN TRUE ELSE UNCHANGED tokenerVars
    /\ IF p = "file" THEN TRUE ELSE UNCHANGED fileVars

ListingStep == Moves("listing") /\ Next
StructureStep == Moves("structure") /\ Structure!Next
EscapeStep == Moves("escapes") /\ Feed(EscapePieces, 10)
WordStep == Moves("words") /\ (Lenient!Reset \/ Feed(WordPieces, 5))
CommentStep == Moves("comments") /\ (Lenient!Reset \/ Feed(CommentPieces, 6))
FileStep == Moves("file") /\ File!Next

PiecesNext ==
    \/ ListingStep \/ StructureStep \/ EscapeStep \/ WordStep
    \/ CommentStep \/ FileStep

\* The process that lists the directory reads on until its end.
PiecesSpec ==
    /\ PiecesInit /\ [][PiecesNext]_piecesVars
    /\ WF_piecesVars(Moves("listing") /\ Read)

-----------------------------------------------------------------------------
(***************************************************************************)
(* Properties, with those of ReadDir                                        *)
(***************************************************************************)

\* A process that reads on reaches the end of the directory, whatever is
\* searched or flushed meanwhile.
ListingEnds == part = "listing" => ReachesEnd

\* A document that is fed in pieces is parsed like the whole of it.
PiecesAreTheWhole ==
    /\ part = "structure" => Structure!PiecesAreTheWhole
    /\ part \in {"escapes", "words", "comments"} => Lenient!PiecesAreTheWhole

\* A strict parser invents and drops nothing, and takes nothing that was cut off.
NothingIsLost ==
    part = "structure" => Structure!NothingIsLost /\ Structure!CutOffIsAnError

\* What is read back from a by-letter file is what was written.
LoadsWhatWasWritten == part = "file" => File!LoadsWhatWasWritten

\* A by-letter file that is torn is not taken for a document.
TornIsRejected == part = "file" => File!TornIsRejected
=============================================================================
