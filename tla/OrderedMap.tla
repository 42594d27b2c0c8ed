------------------------------ MODULE OrderedMap -----------------------------
(***************************************************************************)
(* What a json-c object promises (json_object.h, json_object_object_add,     *)
(* _get, _del, _foreach): a map whose keys keep the order they came in.  A   *)
(* value that replaces another takes its place.  The listings of the file    *)
(* system page through objects by that order.                                *)
(***************************************************************************)
EXTENDS Integers, Sequences

CONSTANTS Keys, Values

VARIABLE entries   \* <<key, value>> in order

KeysIn(es) == {es[i][1] : i \in DOMAIN es}

Init == entries = <<>>

Add(k, v) ==
    entries' = IF k \in KeysIn(entries)
                 THEN [i \in DOMAIN entries |-> IF entries[i][1] = k THEN <<k, v>> ELSE entries[i]]
                 ELSE Append(entries, <<k, v>>)

\* Those behind the key that goes move up.
Del(k) ==
    \E i \in DOMAIN entries :
        /\ entries[i][1] = k
        /\ entries' = [j \in 1 .. Len(entries) - 1 |->
                          IF j < i THEN entries[j] ELSE entries[j + 1]]

Next == \E k \in Keys : Del(k) \/ \E v \in Values : Add(k, v)

Spec == Init /\ [][Next]_entries

=============================================================================
