------------------------------ MODULE ArrayList ------------------------------
(***************************************************************************)
(* The array under json-c's arrays (json-c/arraylist.c), with the slots it   *)
(* has allocated, those behind its length included: a deletion leaves old    *)
(* pointers there, and a write behind the end makes some of them elements    *)
(* again.  The list owns its elements: what is replaced or deleted is freed. *)
(***************************************************************************)
EXTENDS Integers, Sequences, Functions

CONSTANTS
    Items,    \* what a slot may point to
    Null,
    MaxSlots  \* SIZE_T_MAX / sizeof(void *): no allocation is larger

ASSUME ListAssumption == Null \notin Items /\ MaxSlots \in Nat

VARIABLES
    array,   \* the slots allocated
    length,
    owner    \* who has to free an item: "caller", "list", "nobody" once it is freed

listVars == <<array, length, owner>>

allocated == Len(array)
Slots == Items \cup {Null}
Elements == 0 .. length - 1
ElementAt(i) == array[i + 1]

\* realloc: the slots that stay keep their contents, new ones hold anything.
Resized(n, garbage) == [i \in 1 .. n |-> IF i <= allocated THEN array[i] ELSE garbage]

\* array_list_expand_internal: the allocated `max` asks for, 0 when it is refused.
Expanded(max) ==
    LET doubled == IF 2 * allocated < max THEN max ELSE 2 * allocated
    IN  IF max < allocated THEN allocated ELSE IF doubled > MaxSlots THEN 0 ELSE doubled

Freed(S) == [i \in Items |-> IF i \in S THEN "nobody" ELSE owner[i]]

\* array_list_new2 with any initial allocated.
ListInit ==
    /\ \E n \in 0 .. MaxSlots : array \in [1 .. n -> {Null}]
    /\ length = 0
    /\ owner = [i \in Items |-> "caller"]

\* Mutant of PutIdx: the slots in between are not zeroed.
PutIdx_gap(idx, item) ==
    /\ owner[item] = "caller"
    /\ \E garbage \in Slots :
           LET n == Expanded(idx + 1)
               grown == Resized(n, garbage)
               old == IF idx < length THEN {ElementAt(idx)} ELSE {}
           IN  /\ n > 0
               /\ array' = [grown EXCEPT ![idx + 1] = item]
               /\ length' = IF length <= idx THEN idx + 1 ELSE length
               /\ owner' = [Freed(old) EXCEPT ![item] = "list"]

\* array_list_put_idx
PutIdx(idx, item) ==
    /\ owner[item] = "caller"
    /\ \E garbage \in Slots :
           LET n == Expanded(idx + 1)
               grown == Resized(n, garbage)
               old == IF idx < length THEN {ElementAt(idx)} ELSE {}
           IN  /\ n > 0
               /\ array' = [i \in 1 .. n |-> IF i = idx + 1 THEN item
                                             ELSE IF i > length /\ i <= idx THEN Null ELSE grown[i]]
               /\ length' = IF length <= idx THEN idx + 1 ELSE length
               /\ owner' = [Freed(old) EXCEPT ![item] = "list"]

\* array_list_add
Add(item) ==
    /\ owner[item] = "caller"
    /\ \E garbage \in Slots :
           LET n == Expanded(length + 1)
           IN  /\ n > 0
               /\ array' = [Resized(n, garbage) EXCEPT ![length + 1] = item]
               /\ length' = length + 1
               /\ owner' = [owner EXCEPT ![item] = "list"]

\* array_list_del_idx: elements idx .. idx + n - 1 are freed, those behind move up.
DelIdx(idx, n) ==
    /\ idx < length /\ idx + n <= length
    /\ array' = [i \in 1 .. allocated |->
                    IF i > idx /\ i <= length - n THEN array[i + n] ELSE array[i]]
    /\ length' = length - n
    /\ owner' = Freed({ElementAt(i) : i \in idx .. idx + n - 1})

\* array_list_shrink
Shrink(empty) ==
    LET wanted == IF length + empty = 0 /\ allocated > 0 THEN 1 ELSE length + empty
        n == IF wanted > allocated THEN Expanded(wanted) ELSE wanted
    IN  /\ empty < MaxSlots - length
        /\ n > 0 \/ allocated = 0
        /\ \E garbage \in Slots : array' = Resized(IF n = 0 THEN allocated ELSE n, garbage)
        /\ UNCHANGED <<length, owner>>

\* array_list_sort: qsort puts the elements in some order.
Sort ==
    /\ \E p \in Bijection(1 .. length, 1 .. length) :
           array' = [i \in 1 .. allocated |-> IF i <= length THEN array[p[i]] ELSE array[i]]
    /\ UNCHANGED <<length, owner>>

\* The caller makes a new item, in memory that may have been an old one's.
NewItem(item) ==
    /\ owner[item] = "nobody"
    /\ owner' = [owner EXCEPT ![item] = "caller"]
    /\ UNCHANGED <<array, length>>

ListNext ==
    \/ \E item \in Items :
           NewItem(item) \/ Add(item) \/ \E idx \in 0 .. MaxSlots : PutIdx(idx, item)
    \/ \E idx, n \in 0 .. MaxSlots : DelIdx(idx, n)
    \/ \E empty \in 0 .. MaxSlots : Shrink(empty)
    \/ Sort

ListSpec == ListInit /\ [][ListNext]_listVars

-----------------------------------------------------------------------------
(***************************************************************************)
(* Properties                                                               *)
(***************************************************************************)

\* Type invariant: the elements are within the slots that are allocated,
\* whatever was put, deleted and shrunk.
ListTypeOK ==
    /\ array \in Seq(Slots)
    /\ length \in 0 .. allocated
    /\ owner \in [Items -> {"caller", "list", "nobody"}]

\* The list owns exactly what its elements point to, and each item once: a
\* pointer left behind the end by a deletion, or by realloc, never becomes an
\* element again, and nothing is freed twice or lost.
OwnsItsElements ==
    /\ ListTypeOK
    /\ \A i \in Elements : ElementAt(i) # Null => owner[ElementAt(i)] = "list"
    /\ \A i, j \in Elements : i # j /\ ElementAt(i) # Null => ElementAt(i) # ElementAt(j)
    /\ \A item \in Items : owner[item] = "list" => \E i \in Elements : ElementAt(i) = item

=============================================================================
