------------------------------- MODULE Tokener -------------------------------
(***************************************************************************)
(* The JSON parser the daemon hands every reply and every by-letter file to  *)
(* (json-c/json_tokener.c): a stack of levels, each with a state and the      *)
(* state to go on with after white space, and a state machine that reads one  *)
(* character after the other and may be fed a document in pieces.             *)
(*                                                                          *)
(* The parser is a value, and json_tokener_parse_ex an operator on it.  A      *)
(* character is a string of length one, or the name of a control character;    *)
(* "ctl" stands for those without an escape of one letter.  Of the four        *)
(* digits of an escape the first two tell surrogates from other characters,    *)
(* and only they are read; 00 is a control character.  "inf" stands for        *)
(* Infinity; letters are lower case.                                          *)
(***************************************************************************)
EXTENDS Integers, Sequences, SequencesExt, FiniteSetsExt

CONSTANTS
    Chars,      \* what documents are made of
    MaxText,    \* bound on the length of a document
    MaxPiece,   \* bound on the length of a piece
    MaxDepth,   \* JSON_TOKENER_DEFAULT_DEPTH, 32
    Strict,     \* JSON_TOKENER_STRICT; not set by the daemon
    MayReset,   \* whether the program uses json_tokener_reset
    MayRunOut   \* whether memory may run out

VARIABLES
    tok,       \* the parser
    text,      \* what it was fed since it was new, reset or done
    result     \* of the last call: error, value, characters it took

vars == <<tok, text, result>>

Null == <<"null">>       \* NULL, which also stands for the JSON null
Space == {" ", "nl"}
Digits == {"0", "1", "8"}
HexDigits == Digits \cup {"c", "d"}
Quotes == {"\"", "'"}
NoField == <<"none">>
NoSurrogate == <<>>
HexLen == 2
Unlimited == -1

Level == [state |-> "eatws", saved |-> "start", current |-> Null, field |-> NoField]
\* The locals of the number state when it starts with nothing read.
NoNumber == [exp |-> FALSE, neg |-> TRUE, pos |-> FALSE, len |-> 0]

\* json_tokener_new
Fresh ==
    [stack |-> <<Level>>, pb |-> <<>>, quote |-> "NUL", pos |-> 0, ucs |-> <<>>,
     high |-> NoSurrogate, double |-> FALSE, num |-> NoNumber, obj |-> Null,
     err |-> "success", mem |-> Unlimited]

Depth(t) == Len(t.stack) - 1
Top(t) == t.stack[Len(t.stack)]
SetTop(t, level) == [t EXCEPT !.stack[Len(t.stack)] = level]
Go(t, state) == SetTop(t, [Top(t) EXCEPT !.state = state])
\* state = eatws, saved_state = saved
Await(t, saved) == SetTop(t, [Top(t) EXCEPT !.state = "eatws", !.saved = saved])
Resume(t) == Go(t, Top(t).saved)
Append1(t, c) == [t EXCEPT !.pb = Append(@, c)]

\* How the handling of a character ends: with the next one, with the same one
\* in another state, or with goto out.
Advance(t) == [t |-> t, then |-> "next"]
Redo(t) == [t |-> t, then |-> "redo"]
Out(t, err) == [t |-> [t EXCEPT !.err = err], then |-> "out"]

\* An allocation of a value: without memory, goto out with no error set.
Allocated(t, r) ==
    IF t.mem = 0 THEN Out(t, t.err)
    ELSE [r EXCEPT !.t.mem = IF t.mem = Unlimited THEN Unlimited ELSE t.mem - 1]
WithCurrent(t, value) == SetTop(t, [Top(t) EXCEPT !.current = value])
Finished(t, value) == Await(WithCurrent(t, value), "finish")

Push(t, state) == LET s == Go(t, state) IN [s EXCEPT !.stack = Append(@, Level)]

-----------------------------------------------------------------------------
(***************************************************************************)
(* The states                                                               *)
(***************************************************************************)

EatWs(t, c) ==
    IF c \in Space THEN Advance(t)
    ELSE IF c = "/" /\ ~Strict THEN Advance(Go([t EXCEPT !.pb = <<>>], "comment_start"))
    ELSE Redo(Resume(t))

Start(t, c) ==
    LET clean == [t EXCEPT !.pb = <<>>, !.pos = 0]
    IN  CASE c = "{" -> Allocated(t, Advance(WithCurrent(Await(t, "object_field_start"), <<"object", <<>>>>)))
          [] c = "[" -> Allocated(t, Advance(WithCurrent(Await(t, "array"), <<"array", <<>>>>)))
          [] c = "i" -> Redo(Go(clean, "inf"))
          [] c = "n" -> Redo(Go(clean, "null"))
          [] c \in {"t", "f"} -> Redo(Go(clean, "boolean"))
          [] c \in Quotes /\ ~(c = "'" /\ Strict) ->
                Advance(Go([t EXCEPT !.pb = <<>>, !.quote = c], "string"))
          [] c \in Digits \cup {"-"} ->
                Redo(Go([t EXCEPT !.pb = <<>>, !.double = FALSE, !.num = NoNumber], "number"))
          [] OTHER -> Out(t, "unexpected")

\* The value is handed to the level above, and this level reset.
Finish(t, c) ==
    IF Depth(t) = 0 THEN Out(t, t.err)
    ELSE Redo([t EXCEPT !.obj = Top(t).current, !.stack = Front(@)])

Infinity == <<"i", "n", "f">>
Inf(t, c) ==
    IF t.pos = Len(Infinity)
      THEN Allocated(t, Redo(Finished(t, <<"inf", t.pb # <<>> /\ t.pb[1] = "-">>)))
      ELSE IF c = Infinity[t.pos + 1] THEN Advance([t EXCEPT !.pos = @ + 1])
      ELSE Out(t, "unexpected")

\* null, NaN, true, false: done when one more character is there.
Word(t, c, words, err) ==
    LET matching == {w \in words : LET n == Min({t.pos + 1, Len(w)})
                                   IN  SubSeq(Append(t.pb, c), 1, n) = SubSeq(w, 1, n)}
        done == {w \in matching : t.pos = Len(w)}
    IN  IF matching = {} THEN Out(t, err)
        ELSE IF done = {} THEN Advance([Append1(t, c) EXCEPT !.pos = @ + 1])
        ELSE LET w == CHOOSE w \in done : TRUE
             IN  IF w = <<"n", "u", "l", "l">> THEN Redo(Finished(t, Null))
                 ELSE Allocated(t, Redo(Finished(t, <<"word", w>>)))
NullWord(t, c) == Word(t, c, {<<"n", "u", "l", "l">>, <<"n", "a", "n">>}, "null")
Boolean(t, c) == Word(t, c, {<<"t", "r", "u", "e">>, <<"f", "a", "l", "s", "e">>}, "boolean")

CommentStart(t, c) ==
    CASE c = "*" -> Advance(Go(t, "comment"))
      [] c = "/" -> Advance(Go(t, "comment_eol"))
      [] OTHER -> Out(t, "comment")
Comment(t, c) == Advance(IF c = "*" THEN Go(t, "comment_end") ELSE t)
CommentEol(t, c) == Advance(IF c = "nl" THEN Go(t, "eatws") ELSE t)
CommentEnd(t, c) == Advance(Go(t, IF c = "/" THEN "eatws" ELSE "comment"))

Escaped(t, from) == Advance(Go(SetTop(t, [Top(t) EXCEPT !.saved = from]), "string_escape"))

String(t, c) ==
    CASE c = t.quote -> Allocated(t, Advance(Finished(t, <<"string", t.pb>>)))
      [] c = "\\" -> Escaped(t, "string")
      [] OTHER -> Advance(Append1(t, c))

ControlOf == [b |-> "bs", n |-> "nl", r |-> "cr", t |-> "tab", f |-> "ff"]
StringEscape(t, c) ==
    CASE c \in {"\"", "\\", "/"} -> Advance(Resume(Append1(t, c)))
      [] c \in DOMAIN ControlOf -> Advance(Resume(Append1(t, ControlOf[c])))
      [] c = "u" -> Advance(Go([t EXCEPT !.ucs = <<>>, !.pos = 0], "escape_unicode"))
      [] OTHER -> Out(t, "string")

Replacement == <<"replacement">>    \* U+FFFD
Unit(ucs) == IF ucs = <<"0", "0">> THEN "ctl" ELSE <<"unit", ucs>>
\* D8 to DB, DC to DF
IsHigh(ucs) == ucs = <<"d", "8">>
IsLow(ucs) == ucs \in {<<"d", "c">>, <<"d", "d">>}

EscapeUnicode(t, c) ==
    LET ucs == Append(t.ucs, c)
        read == [t EXCEPT !.ucs = ucs, !.pos = 0, !.high = NoSurrogate]
        lone == IF t.high = NoSurrogate THEN read ELSE Append1(read, Replacement)
    IN  IF c \notin HexDigits THEN Out(t, "string")
        ELSE IF t.pos + 1 < HexLen THEN Advance([t EXCEPT !.ucs = ucs, !.pos = @ + 1])
        ELSE IF t.high # NoSurrogate /\ IsLow(ucs)
          THEN Advance(Resume(Append1(read, <<"pair", t.high, ucs>>)))
        ELSE IF IsHigh(ucs)
          THEN Advance(Go([lone EXCEPT !.high = ucs, !.ucs = <<>>], "escape_unicode_need_escape"))
        ELSE Advance(Resume(Append1(lone, IF IsLow(ucs) THEN Replacement ELSE Unit(ucs))))

\* A high surrogate that nothing follows is replaced.
Abandoned(t) == Append1([t EXCEPT !.high = NoSurrogate, !.ucs = <<>>, !.pos = 0], Replacement)
NeedEscape(t, c) ==
    IF c = "\\" THEN Advance(Go(t, "escape_unicode_need_u")) ELSE Redo(Resume(Abandoned(t)))
NeedU(t, c) ==
    IF c = "u" THEN Advance(Go(t, "escape_unicode")) ELSE Redo(Go(Abandoned(t), "string_escape"))

\* strtoll and strtoull stop at the first character that is no digit.
LeadingInt(pb) ==
    LET first == IF pb[1] = "-" THEN 2 ELSE 1
        ends == {i \in first .. Len(pb) : pb[i] \notin Digits} \cup {Len(pb) + 1}
    IN  SubSeq(pb, 1, Min(ends) - 1)
IsInt(pb) == LET int == LeadingInt(pb) IN int # <<>> /\ int # <<"-">>
\* strtod takes all of it: digits around a point, and after an e perhaps a sign.
AllDigits(s) == \A i \in DOMAIN s : s[i] \in Digits
IsDouble(pb) ==
    LET mantissaEnd == Min({i \in DOMAIN pb : pb[i] = "e"} \cup {Len(pb) + 1})
        unsigned == SubSeq(pb, IF pb[1] = "-" THEN 2 ELSE 1, mantissaEnd - 1)
        exponent == SubSeq(pb, mantissaEnd + 1, Len(pb))
    IN  /\ \E i \in DOMAIN unsigned : unsigned[i] \in Digits
        /\ AllDigits(SelectSeq(unsigned, LAMBDA d : d # "."))
        /\ mantissaEnd <= Len(pb) =>
             LET digits == IF exponent # <<>> /\ exponent[1] \in {"+", "-"} THEN Tail(exponent) ELSE exponent
             IN  digits # <<>> /\ AllDigits(digits)

RECURSIVE Trimmed(_)
Trimmed(pb) == IF Len(pb) > 1 /\ Last(pb) \in {"e", "+", "-"} THEN Trimmed(Front(pb)) ELSE pb

TakesInNumber(t, c) ==
    \/ c \in Digits
    \/ c = "e" /\ ~t.num.exp
    \/ c = "-" /\ t.num.neg
    \/ c = "+" /\ t.num.pos
    \/ c = "." /\ ~t.double
MayFollowNumber == {",", "]", "}", "/", "i"} \cup Space

Number(t, c) ==
    LET pb == IF t.double /\ ~Strict THEN Trimmed(t.pb) ELSE t.pb
        signs == c \in {".", "e"}
    IN  IF TakesInNumber(t, c)
          THEN Advance([Append1(t, c) EXCEPT
                   !.num = [exp |-> @.exp \/ c = "e", neg |-> signs, pos |-> signs, len |-> @.len + 1],
                   !.double = @ \/ signs])
        ELSE IF Depth(t) > 0 /\ c \notin MayFollowNumber THEN Out(t, "number")
        ELSE IF t.pb[1] = "-" /\ t.num.len <= 1 /\ c = "i"
          THEN Redo(Go([t EXCEPT !.pos = 0], "inf"))
        ELSE IF ~t.double /\ IsInt(pb) /\ ~(Strict /\ pb[1] = "0" /\ ToSet(LeadingInt(pb)) # {"0"})
          THEN Allocated(t, Redo(Finished(t, <<"int", LeadingInt(pb)>>)))
        ELSE IF t.double /\ IsDouble(pb)
          THEN Allocated(t, Redo(Finished([t EXCEPT !.pb = pb], <<"double", pb>>)))
        ELSE Out(t, "number")

\* A value starts a level of its own, if there is one left.
Nested(t, state) == IF Depth(t) >= MaxDepth - 1 THEN Out(t, "depth") ELSE Redo(Push(t, state))

\* Mutant of Array: a comma may stand before the bracket in strict mode too.
Array_comma(t, c) ==
    IF c # "]" THEN Nested(t, "array_add") ELSE Advance(Await(t, "finish"))

Array(t, c) ==
    IF c # "]" THEN Nested(t, "array_add")
    ELSE IF Top(t).state = "array_after_sep" /\ Strict THEN Out(t, "unexpected")
    ELSE Advance(Await(t, "finish"))

ArrayAdd(t, c) ==
    Allocated(t, Redo(Await(WithCurrent(t, <<"array", Append(Top(t).current[2], t.obj)>>), "array_sep")))

ArraySep(t, c) ==
    CASE c = "]" -> Advance(Await(t, "finish"))
      [] c = "," -> Advance(Await(t, "array_after_sep"))
      [] OTHER -> Out(t, "array")

ObjectFieldStart(t, c) ==
    CASE c = "}" /\ ~(Top(t).state = "object_field_start_after_sep" /\ Strict) -> Advance(Await(t, "finish"))
      [] c = "}" /\ Top(t).state = "object_field_start_after_sep" /\ Strict -> Out(t, "unexpected")
      [] c \in Quotes -> Advance(Go([t EXCEPT !.quote = c, !.pb = <<>>], "object_field"))
      [] OTHER -> Out(t, "object_key_name")

ObjectField(t, c) ==
    CASE c = t.quote -> Advance(Await(SetTop(t, [Top(t) EXCEPT !.field = t.pb]), "object_field_end"))
      [] c = "\\" -> Escaped(t, "object_field")
      [] OTHER -> Advance(Append1(t, c))

ObjectFieldEnd(t, c) ==
    IF c = ":" THEN Advance(Await(t, "object_value")) ELSE Out(t, "object_key_sep")

\* json_object_object_add, which replaces a member of that name; whether it had
\* the memory is not looked at.
WithMember(members, k, v) ==
    IF \E i \in DOMAIN members : members[i][1] = k
      THEN [i \in DOMAIN members |-> IF members[i][1] = k THEN <<k, v>> ELSE members[i]]
      ELSE Append(members, <<k, v>>)
ObjectValueAdd(t, c) ==
    LET members == Top(t).current[2]
        added == IF t.mem = 0 THEN members ELSE WithMember(members, Top(t).field, t.obj)
        level == [Top(t) EXCEPT !.current = <<"object", added>>, !.field = NoField]
    IN  Redo(Await(SetTop(t, level), "object_sep"))

ObjectSep(t, c) ==
    CASE c = "}" -> Advance(Await(t, "finish"))
      [] c = "," -> Advance(Await(t, "object_field_start_after_sep"))
      [] OTHER -> Out(t, "object_value_sep")

InState(t, c) ==
    LET state == Top(t).state
    IN  CASE state = "eatws" -> EatWs(t, c)
          [] state = "start" -> Start(t, c)
          [] state = "finish" -> Finish(t, c)
          [] state = "inf" -> Inf(t, c)
          [] state = "null" -> NullWord(t, c)
          [] state = "boolean" -> Boolean(t, c)
          [] state = "comment_start" -> CommentStart(t, c)
          [] state = "comment" -> Comment(t, c)
          [] state = "comment_eol" -> CommentEol(t, c)
          [] state = "comment_end" -> CommentEnd(t, c)
          [] state = "string" -> String(t, c)
          [] state = "string_escape" -> StringEscape(t, c)
          [] state = "escape_unicode" -> EscapeUnicode(t, c)
          [] state = "escape_unicode_need_escape" -> NeedEscape(t, c)
          [] state = "escape_unicode_need_u" -> NeedU(t, c)
          [] state = "number" -> Number(t, c)
          [] state \in {"array", "array_after_sep"} -> Array(t, c)
          [] state = "array_add" -> ArrayAdd(t, c)
          [] state = "array_sep" -> ArraySep(t, c)
          [] state \in {"object_field_start", "object_field_start_after_sep"} -> ObjectFieldStart(t, c)
          [] state = "object_field" -> ObjectField(t, c)
          [] state = "object_field_end" -> ObjectFieldEnd(t, c)
          [] state = "object_value" -> Nested(t, "object_value_add")
          [] state = "object_value_add" -> ObjectValueAdd(t, c)
          [] state = "object_sep" -> ObjectSep(t, c)

-----------------------------------------------------------------------------
(***************************************************************************)
(* json_tokener_parse_ex                                                    *)
(***************************************************************************)

RECURSIVE Handle(_, _)
Handle(t, c) == LET r == InState(t, c) IN IF r.then = "redo" THEN Handle(r.t, c) ELSE r

\* PEEK_CHAR at the end of the input.
AtEnd(t) ==
    IF Depth(t) = 0 /\ Top(t).state = "eatws" /\ Top(t).saved = "finish" THEN "success" ELSE "continue"

\* Mutant of Ended: the end of the text is not looked at.
Ended_noEof(t, c, off) ==
    IF Strict /\ c # "NUL" /\ Top(t).state = "finish" /\ Depth(t) = 0 THEN "unexpected" ELSE t.err

\* What is behind `out`, without the value: the error there is, c being the
\* last character read.
Ended(t, c, off) ==
    CASE Strict /\ c # "NUL" /\ Top(t).state = "finish" /\ Depth(t) = 0 -> "unexpected"
      [] c = "NUL" /\ Top(t).state # "finish" /\ Top(t).saved # "finish" -> "eof"
      [] OTHER -> t.err

\* With success the value of the level that was reached is returned and all
\* levels are reset; with anything else the levels stay as they are.
Returned(t, c, off) ==
    LET err == Ended(t, c, off)
    IN  IF err = "success"
          THEN [t |-> [t EXCEPT !.stack = <<Level>>, !.obj = Null], err |-> err, value |-> Top(t).current, end |-> off]
          ELSE [t |-> [t EXCEPT !.obj = Null], err |-> err, value |-> Null, end |-> off]

RECURSIVE Run(_, _, _)
Run(t, s, off) ==
    IF off = Len(s) THEN Returned([t EXCEPT !.err = AtEnd(t)], Last(s), off)
    ELSE LET c == s[off + 1]
             r == Handle(t, c)
         IN  IF r.then = "out" THEN Returned(r.t, c, off)
             ELSE IF c = "NUL" THEN Returned(r.t, c, off + 1)
             ELSE Run(r.t, s, off + 1)

\* The locals of the number state are worked out anew from what was read.
NumberAgain(pb) ==
    LET e == {i \in DOMAIN pb : pb[i] = "e"}
        sign == e = {} \/ Min(e) = Len(pb)
    IN  IF pb = <<>> THEN NoNumber
        ELSE [exp |-> e # {}, neg |-> sign, pos |-> e # {} /\ sign, len |-> 0]

\* Mutant of ParseEx: an escape or a word is begun anew.
ParseEx_pos(t, s, mem) ==
    Run([t EXCEPT !.err = "success", !.num = NumberAgain(t.pb), !.mem = mem, !.pos = 0], s, 0)

ParseEx(t, s, mem) ==
    Run([t EXCEPT !.err = "success", !.num = NumberAgain(t.pb), !.mem = mem], s, 0)

\* json_tokener_reset: the levels and the error, nothing else.
ResetTok(t) == [t EXCEPT !.stack = <<Level>>, !.err = "success"]

-----------------------------------------------------------------------------
(***************************************************************************)
(* A program that parses documents in pieces                                *)
(***************************************************************************)

NoResult == [err |-> "success", value |-> Null, end |-> 0]

Init == tok = Fresh /\ text = <<>> /\ result = NoResult

\* What was fed of the document that is not complete yet.
Before == IF result.err = "continue" THEN text ELSE <<>>

\* After an error the parser is not used until it is reset.
Feed(piece) ==
    /\ result.err \in {"continue", "success"}
    /\ Len(Before) + Len(piece) <= MaxText
    /\ \E mem \in {Unlimited} \cup (IF MayRunOut THEN 0 .. MaxText ELSE {}) :
           LET r == ParseEx(tok, piece, mem)
           IN  /\ tok' = [r.t EXCEPT !.mem = Unlimited]
               /\ text' = Before \o piece
               /\ result' = [err |-> r.err, value |-> r.value, end |-> Len(Before) + r.end]

Reset ==
    /\ MayReset
    /\ tok' = ResetTok(tok) /\ text' = <<>> /\ result' = NoResult

Pieces == BoundedSeq(Chars, MaxPiece) \ {<<>>}

Next == Reset \/ \E piece \in Pieces : Feed(piece)

Spec == Init /\ [][Next]_vars

-----------------------------------------------------------------------------
(***************************************************************************)
(* Properties                                                               *)
(***************************************************************************)

Whole == ParseEx(Fresh, text, Unlimited)

\* A document that is fed in pieces to a parser that may have been used before
\* is parsed like the whole of it by a new one: the same error or the same
\* value, and the same characters are left over.
PiecesAreTheWhole ==
    text # <<>> => LET whole == Whole
                   IN  result = [err |-> whole.err, value |-> whole.value, end |-> whole.end]

\* What a value looks like as text.
RECURSIVE TextOf(_)
Listed(items) ==
    FlattenSeq([i \in DOMAIN items |-> IF i = 1 THEN items[i] ELSE <<",">> \o items[i]])
Quoted(s) == <<"\"">> \o s \o <<"\"">>
TextOf(v) ==
    CASE v = Null -> <<"n", "u", "l", "l">>
      [] v[1] = "string" -> Quoted(v[2])
      [] v[1] = "array" -> <<"[">> \o Listed([i \in DOMAIN v[2] |-> TextOf(v[2][i])]) \o <<"]">>
      [] v[1] = "object" ->
            <<"{">> \o Listed([i \in DOMAIN v[2] |-> Quoted(v[2][i][1]) \o <<":">> \o TextOf(v[2][i][2])]) \o <<"}">>
      [] OTHER -> v[2]

\* A strict parser invents and drops nothing: the text of the value is the text
\* that was read, white space aside (documents without escapes).
NothingIsLost ==
    Strict /\ text # <<>> /\ result.err = "success" =>
        LET read == SubSeq(text, 1, result.end)
            bare(s) == SelectSeq(s, LAMBDA c : c \notin Space \cup {"NUL"})
        IN  bare(TextOf(result.value)) = bare(read)

\* A reply that was cut off is never taken for a document: if an object or an
\* array is not closed, the end of the text is an error.
CutOffIsAnError ==
    text # <<>> /\ result.err = "continue" /\ text[1] \in {"[", "{"} =>
        ParseEx(tok, <<"NUL">>, Unlimited).err \notin {"success", "continue"}

\* A parse that succeeds has the value of the document.
SuccessIsTheDocument ==
    text # <<>> /\ result.err = "success" => Whole.err = "success" /\ result.value = Whole.value

=============================================================================
