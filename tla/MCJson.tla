------------------------------- MODULE MCJson --------------------------------
(***************************************************************************)
(* Small instances of json-c's parts, side by side: `part` is the one that  *)
(* moves in a behaviour, the others stay as they are initialised.  Those    *)
(* that a theorem is about are the modules themselves.                      *)
(***************************************************************************)
EXTENDS PrintBuf, JsonNumber, LinkHash, ArrayList, JsonObject, JsonString, UrlCache, StatusScript, TLC

CONSTANTS
    k1, k2, k3, k4,      \* keys of a table
    o1, o2, o3,          \* where values can be allocated
    c1, c2, c3, c4, c5, c6, c7,
    u2                   \* another URL

VARIABLE part

jsonVars == <<part, vars, numberVars, tableVars, listVars, objectVars, stringVars, urlVars, scriptVars>>

-----------------------------------------------------------------------------
(***************************************************************************)
(* The instances                                                            *)
(***************************************************************************)

\* Three keys that collide in a table of two slots and of four, and one that
\* does not.
MCKeys == {k1, k2, k3, k4}
MCHash == (k1 :> 0) @@ (k2 :> 4) @@ (k3 :> 3) @@ (k4 :> 8)

\* Trees of three values, and room for copies in which those at the bottom are
\* no longer shared.
MCObjs == {o1, o2, o3}
MCSpare == {c1, c2, c3, c4, c5, c6, c7}
MCCString == [d \in {"text"} |-> d]

PlaceSymmetry == Permutations({o1, o2, o3})

\* The lengths of strings that objects are made with, and are set to: not to the
\* empty one, and up to what is too long for an int.
MCNewLengths == 0 .. 4
MCSetLengths == 1 .. 6

\* Two threads use the documents of one URL, and here is one that uses two.
OneCaller == INSTANCE UrlCache WITH
    Threads <- {"alone"}, URLs <- URLs \cup {u2}, MaxGiven <- 3

-----------------------------------------------------------------------------
JsonInit ==
    /\ part \in {"buffer", "number", "table", "list", "values", "string",
                 "caller", "callers", "script"}
    /\ Init
    /\ NumberInit /\ (part # "number" => number = Number("int64", 0))
    /\ TableInit
    /\ ListInit /\ (part # "list" => array = << >>)
    /\ ObjectInit
    /\ StringInit /\ (part # "string" => said = Empty)
    /\ IF part = "callers" THEN UrlInit ELSE OneCaller!UrlInit
    /\ ScriptInit /\ (part # "script" => wpa = "none" /\ up = {})

Moves(p) ==
    /\ part = p
    /\ UNCHANGED part
    /\ IF p = "buffer" THEN TRUE ELSE UNCHANGED vars
    /\ IF p = "number" THEN TRUE ELSE UNCHANGED numberVars
    /\ IF p = "table" THEN TRUE ELSE UNCHANGED tableVars
    /\ IF p = "list" THEN TRUE ELSE UNCHANGED listVars
    /\ IF p = "values" THEN TRUE ELSE UNCHANGED objectVars
    /\ IF p = "string" THEN TRUE ELSE UNCHANGED stringVars
    /\ IF p \in {"caller", "callers"} THEN TRUE ELSE UNCHANGED urlVars
    /\ IF p = "script" THEN TRUE ELSE UNCHANGED scriptVars

BufferStep == Moves("buffer") /\ Next
NumberStep == Moves("number") /\ NumberNext
TableStep == Moves("table") /\ TableNext
ListStep == Moves("list") /\ ListNext
ValueStep == Moves("values") /\ ObjectNext
StringStep == Moves("string") /\ StringNext
CallerStep == Moves("caller") /\ OneCaller!UrlNext
CallersStep == Moves("callers") /\ UrlNext
ScriptStep == Moves("script") /\ ScriptNext

JsonNext ==
    \/ BufferStep \/ NumberStep \/ TableStep \/ ListStep \/ ValueStep \/ StringStep
    \/ CallerStep \/ CallersStep \/ ScriptStep

JsonSpec == JsonInit /\ [][JsonNext]_jsonVars

=============================================================================
