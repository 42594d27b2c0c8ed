----------------------------- MODULE JsonString ------------------------------
(***************************************************************************)
(* A string object of json-c (json-c/json_object.c): its bytes lie behind its *)
(* length in the object, or, once a longer string was set, in a buffer of     *)
(* their own, whose pointer takes their place.  The sign of the length tells  *)
(* which.                                                                    *)
(***************************************************************************)
EXTENDS Integers, FiniteSets

CONSTANTS
    MaxInt,       \* INT_MAX
    PointerSize,  \* sizeof(void *)
    NewLengths,   \* lengths of the strings objects are made with
    SetLengths,   \* lengths of the strings that are set
    Contents      \* what strings of one length differ in

ASSUME StringAssumption ==
    /\ MaxInt \in Nat /\ PointerSize \in Nat
    /\ NewLengths \subseteq Nat /\ SetLengths \subseteq Nat

VARIABLES
    object,    \* [alive, len, room, bytes]
    buffers,   \* the buffers that are allocated: [id, room, text]
    said,      \* the string the object was made with, or that was set last
    overrun    \* was anything written behind the end of its memory?

stringVars == <<object, buffers, said, overrun>>

Empty == [length |-> 0, content |-> ""]
Strings(lengths) == {[length |-> n, content |-> c] : n \in lengths \ {0}, c \in Contents}
                        \cup {Empty : n \in lengths \cap {0}}

\* What lies in the object behind its length.
Text(s) == [pointer |-> 0, text |-> s]
Pointer(id) == [pointer |-> id, text |-> Empty]

\* At most the old and the new buffer are in use: an identifier that is free.
Unused == CHOOSE id \in 1 .. Cardinality(buffers) + 1 : \A b \in buffers : b.id # id
Buffer(id) == CHOOSE b \in buffers : b.id = id

-----------------------------------------------------------------------------
\* get_string_component: the bytes the object is read from
Component ==
    IF object.len < 0 THEN Text(Buffer(object.bytes.pointer).text) ELSE object.bytes

\* json_object_get_string, json_object_get_string_len
GetString == Component
GetStringLen == IF object.len < 0 THEN -object.len ELSE object.len

\* _json_object_new_string: the room for the bytes, in which a pointer must fit
NewRoom(length) == (IF length > PointerSize THEN length ELSE PointerSize) + 1

New(s) == [alive |-> TRUE, len |-> s.length, room |-> NewRoom(s.length), bytes |-> Text(s)]

\* Is the new string longer than the one before?  The room the object really has
\* is not known.
NeedsBuffer(length) == length > GetStringLen

\* The buffers when a new one takes the place of the bytes
Replaced(buffer) ==
    (IF object.len < 0 THEN buffers \ {Buffer(object.bytes.pointer)} ELSE buffers) \cup {buffer}

\* Mutant of KeptLen: the sign is forgotten.
KeptLen_positive(length) == length

\* The length when the new string lies where the one before lay.  -0 is 0.
KeptLen(length) == IF object.len < 0 THEN -length ELSE length

\* _json_object_set_string_len, where malloc may fail
SetInBuffer(s) ==
    LET buffer == [id |-> Unused, room |-> s.length + 1, text |-> s]
    IN  /\ buffers' = Replaced(buffer)
        /\ object' = [object EXCEPT !.bytes = Pointer(buffer.id), !.len = -s.length]
        /\ overrun' = (overrun \/ object.room < PointerSize)
        /\ said' = s
SetInPlace(s) ==
    /\ IF object.len < 0
         THEN LET b == Buffer(object.bytes.pointer)
              IN  /\ buffers' = (buffers \ {b}) \cup {[b EXCEPT !.text = s]}
                  /\ object' = [object EXCEPT !.len = KeptLen(s.length)]
                  /\ overrun' = (overrun \/ s.length + 1 > b.room)
         ELSE /\ object' = [object EXCEPT !.bytes = Text(s), !.len = KeptLen(s.length)]
              /\ overrun' = (overrun \/ s.length + 1 > object.room)
              /\ UNCHANGED buffers
    /\ said' = s

SetString(s) ==
    /\ object.alive
    /\ IF s.length >= MaxInt - 1 THEN UNCHANGED stringVars
       ELSE IF NeedsBuffer(s.length) THEN SetInBuffer(s) \/ UNCHANGED stringVars
       ELSE SetInPlace(s)

\* json_object_string_delete
Delete ==
    /\ object.alive
    /\ buffers' = IF object.len < 0 THEN buffers \ {Buffer(object.bytes.pointer)} ELSE buffers
    /\ object' = [object EXCEPT !.alive = FALSE]
    /\ UNCHANGED <<said, overrun>>

StringInit ==
    \E s \in Strings(NewLengths) :
        object = New(s) /\ buffers = {} /\ said = s /\ overrun = FALSE

StringNext == (\E s \in Strings(SetLengths) : SetString(s)) \/ Delete

StringSpec == StringInit /\ [][StringNext]_stringVars

-----------------------------------------------------------------------------
(***************************************************************************)
(* Properties                                                               *)
(***************************************************************************)

\* No string, NUL or pointer is written where there is no room for it, though the
\* code knows the lengths of strings and not the sizes of memory.
WritesFit == ~overrun

\* The one buffer that may exist is that of the object, and none outlives it.
BufferIsOwned ==
    \A b \in buffers : object.alive /\ object.len < 0 /\ object.bytes = Pointer(b.id)

\* A string object reads as the string that was set last, wherever its bytes
\* have gone since, in memory it fits and owns.
HoldsWhatWasSet ==
    /\ WritesFit /\ BufferIsOwned
    /\ object.alive => GetString = Text(said) /\ GetStringLen = said.length

=============================================================================
