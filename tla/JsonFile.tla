------------------------------ MODULE JsonFile -------------------------------
(***************************************************************************)
(* A document on its way through a by-letter file: the writers of            *)
(* json-c/json_object.c make a text of it, the daemon writes the text to a    *)
(* file, perhaps not to its end, reads the file into memory it has allocated  *)
(* and not cleared, and hands that to the parser (Tokener), which stops at     *)
(* the first NUL.                                                            *)
(*                                                                          *)
(* Documents are values of Tokener: an int is its digits, a string its        *)
(* characters, an object its members in their order.  A tab of the layout is   *)
(* written as a space.                                                       *)
(***************************************************************************)
EXTENDS Integers, Sequences, SequencesExt

CONSTANTS
    Documents,  \* the documents ZXDB sends: objects and arrays
    Flags,      \* JSON_C_TO_STRING_...; the daemon uses "pretty"
    Behind,     \* what may lie in memory behind the text, up to a NUL
    MaxDepth    \* JSON_TOKENER_DEFAULT_DEPTH

VARIABLES
    document,  \* what was fetched
    flags,     \* how it was written
    file,      \* the file
    loaded     \* what the parser made of it: [text, behind, err, value], or NotLoaded

vars == <<document, flags, file, loaded>>

Parser == INSTANCE Tokener WITH
    Chars <- {}, MaxText <- 0, MaxPiece <- 0, Strict <- FALSE, MayReset <- FALSE,
    MayRunOut <- FALSE, tok <- << >>, text <- << >>, result <- << >>

-----------------------------------------------------------------------------
(***************************************************************************)
(* The writers                                                              *)
(***************************************************************************)

EscapeOf == [bs |-> "b", nl |-> "n", cr |-> "r", tab |-> "t", ff |-> "f"]

\* Mutant of Escape: a backslash is written as it is.
Escape_backslash(c, how) ==
    CASE c = "\"" \/ (c = "/" /\ "noslashescape" \notin how) -> <<"\\", c>>
      [] c \in DOMAIN EscapeOf -> <<"\\", EscapeOf[c]>>
      [] c = "ctl" -> <<"\\", "u", "0", "0">>
      [] OTHER -> <<c>>

\* json_escape_str, for one character
Escape(c, how) ==
    CASE c \in {"\"", "\\"} \/ (c = "/" /\ "noslashescape" \notin how) -> <<"\\", c>>
      [] c \in DOMAIN EscapeOf -> <<"\\", EscapeOf[c]>>
      [] c = "ctl" -> <<"\\", "u", "0", "0">>
      [] OTHER -> <<c>>

Quoted(s, how) == <<"\"">> \o FlattenSeq([i \in DOMAIN s |-> Escape(s[i], how)]) \o <<"\"">>

If(flag, how, text) == IF flag \in how THEN text ELSE << >>
NewLine(how) == If("pretty", how, <<"nl">>)
Gap(how) == IF "pretty" \in how THEN << >> ELSE If("spaced", how, <<" ">>)
Indent(level, how) ==
    IF "pretty" \notin how THEN << >>
    ELSE [i \in 1 .. (IF "tab" \in how THEN level ELSE 2 * level) |-> " "]

\* The items of an object or an array, each on its line
Between(items, level, how) ==
    FlattenSeq([i \in DOMAIN items |->
        (IF i = 1 THEN << >> ELSE <<",">> \o NewLine(how))
            \o Gap(how) \o Indent(level + 1, how) \o items[i]])

\* json_object_object_to_json_string, json_object_array_to_json_string
Bracketed(open, items, close, level, how) ==
    <<open>> \o NewLine(how) \o Between(items, level, how)
        \o (IF items = << >> THEN << >> ELSE NewLine(how)) \o Indent(level, how)
        \o Gap(how) \o <<close>>

RECURSIVE TextOf(_, _, _)
TextOf(v, level, how) ==
    CASE v = Parser!Null -> <<"n", "u", "l", "l">>
      [] v[1] = "string" -> Quoted(v[2], how)
      [] v[1] = "array" ->
            Bracketed("[", [i \in DOMAIN v[2] |-> TextOf(v[2][i], level + 1, how)], "]", level, how)
      [] v[1] = "object" ->
            Bracketed("{", [i \in DOMAIN v[2] |->
                Quoted(v[2][i][1], how) \o <<":">> \o If("spaced", how, <<" ">>)
                    \o TextOf(v[2][i][2], level + 1, how)], "}", level, how)
      [] OTHER -> v[2]

Written(d, how) == TextOf(d, 0, how) \o <<"nl">>

-----------------------------------------------------------------------------
(***************************************************************************)
(* The file                                                                 *)
(***************************************************************************)

NotLoaded == [text |-> << >>, behind |-> << >>, err |-> "none", value |-> Parser!Null]

Init ==
    /\ document \in Documents /\ flags \in SUBSET Flags
    /\ file = << >> /\ loaded = NotLoaded

\* fprintf writes all of it, or as much as there is room on the disk for, or as
\* much as the daemon lives for.
WriteBack ==
    /\ file = << >>
    /\ \E n \in 0 .. Len(Written(document, flags)) : file' = SubSeq(Written(document, flags), 1, n)
    /\ UNCHANGED <<document, flags, loaded>>

\* _preloadByLetterCache: json_tokener_parse of the file and what is behind it
Preload(behind) ==
    LET r == Parser!ParseEx(Parser!Fresh, file \o behind \o <<"NUL">>, Parser!Unlimited)
    IN  /\ loaded = NotLoaded
        /\ loaded' = [text |-> file, behind |-> behind, err |-> r.err, value |-> r.value]
        /\ UNCHANGED <<document, flags, file>>

Next == WriteBack \/ (\E behind \in Behind : Preload(behind))

Spec == Init /\ [][Next]_vars

-----------------------------------------------------------------------------
(***************************************************************************)
(* Properties                                                               *)
(***************************************************************************)

Loaded == loaded # NotLoaded
IsWhole == Len(loaded.text) >= Len(TextOf(document, 0, flags))

\* What is read back is what was written, in whichever layout, and whatever lies
\* behind it in memory that does not begin a comment.
LoadsWhatWasWritten ==
    Loaded /\ IsWhole /\ (loaded.behind = << >> \/ loaded.behind[1] # "/") =>
        loaded.err = "success" /\ loaded.value = document

\* A file that was not written to its end is not taken for a document, if the
\* memory behind it is clean.
TornIsRejected ==
    Loaded /\ ~IsWhole /\ loaded.behind = << >> => loaded.err # "success"

=============================================================================
