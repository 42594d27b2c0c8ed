------------------------------ MODULE LinkHash -------------------------------
(***************************************************************************)
(* The hash table under json-c's objects (json-c/linkhash.c), the way        *)
(* json_object.c uses it: open addressing with linear probing, slots that    *)
(* are EMPTY, FREED or in use, and a doubly linked list through the slots    *)
(* in use that keeps the order of insertion.  The cache of the file system,  *)
(* the URL cache and every listing are such objects.                         *)
(***************************************************************************)
EXTENDS Integers, Sequences, FiniteSets, FiniteSetsExt

CONSTANTS
    Keys,
    Values,
    Hash,      \* [Keys -> Nat]: lh_char_hash, with whatever seed
    InitSize,  \* 16 in the code (JSON_OBJECT_DEF_HASH_ENTRIES)
    MaxSize    \* INT_MAX in the code

VARIABLES
    buckets,   \* slot -> [k, v, next, prev]
    slots,     \* how many there are
    count,
    head,
    tail

tableVars == <<buckets, slots, count, head, tail>>

Nil == -1          \* a null pointer
EMPTY == "empty"
FREED == "freed"

ASSUME TableAssumption ==
    /\ {EMPTY, FREED} \cap Keys = {}
    /\ Hash \in [Keys -> Nat]
    /\ MaxSize \in Nat /\ InitSize \in 1 .. MaxSize

EmptySlot == [k |-> EMPTY, v |-> Nil, next |-> Nil, prev |-> Nil]

\* A table as a record, so that a resize can fill a second one.
EmptyTable(n) ==
    [table |-> [i \in 0 .. n - 1 |-> EmptySlot], size |-> n, count |-> 0, head |-> Nil, tail |-> Nil]
ThisTable == [table |-> buckets, size |-> slots, count |-> count, head |-> head, tail |-> tail]
Becomes(t) ==
    /\ buckets' = t.table /\ slots' = t.size /\ count' = t.count
    /\ head' = t.head /\ tail' = t.tail

InUse(t, n) == t.table[n].k \notin {EMPTY, FREED}
\* The slots in the order they are probed for k.
ProbeSlot(t, k, d) == (Hash[k] + d) % t.size

\* Where lh_table_insert_w_hash puts k: in the first slot not in use.
SlotFor(t, k) ==
    ProbeSlot(t, k, Min({d \in 0 .. t.size - 1 : ~InUse(t, ProbeSlot(t, k, d))}))

\* Mutant of InsertInto: the entry is linked in front of the others.
InsertInto_front(t, k, v) ==
    LET n == SlotFor(t, k)
        filled == [t.table EXCEPT ![n] = [k |-> k, v |-> v, next |-> t.head, prev |-> Nil]]
    IN  [table |-> IF t.head = Nil THEN filled ELSE [filled EXCEPT ![t.head].prev = n],
         size |-> t.size, count |-> t.count + 1,
         head |-> n, tail |-> IF t.head = Nil THEN n ELSE t.tail]

\* lh_table_insert_w_hash, without the growing.
InsertInto(t, k, v) ==
    LET n == SlotFor(t, k)
        filled == [t.table EXCEPT ![n] = [k |-> k, v |-> v, next |-> Nil, prev |-> t.tail]]
    IN  [table |-> IF t.head = Nil THEN filled ELSE [filled EXCEPT ![t.tail].next = n],
         size |-> t.size, count |-> t.count + 1,
         head |-> IF t.head = Nil THEN n ELSE t.head, tail |-> n]

\* Mutant of Lookup: the search ends behind a slot that is FREED, too.
Lookup_stops(t, k) ==
    LET ends == {d \in 0 .. t.size - 1 : t.table[ProbeSlot(t, k, d)].k \in {EMPTY, FREED, k}}
        n == ProbeSlot(t, k, Min(ends))
    IN  IF ends # {} /\ t.table[n].k = k THEN n ELSE Nil

\* lh_table_lookup_entry: the search ends at the key or at an EMPTY slot.
Lookup(t, k) ==
    LET ends == {d \in 0 .. t.size - 1 : t.table[ProbeSlot(t, k, d)].k \in {EMPTY, k}}
        n == ProbeSlot(t, k, Min(ends))
    IN  IF ends # {} /\ t.table[n].k = k THEN n ELSE Nil

\* The slots from head along next.
Chain(t) ==
    LET at[i \in 1 .. t.count] == IF i = 1 THEN t.head ELSE t.table[at[i - 1]].next
    IN  at

\* lh_table_resize: into a table of n slots the first i entries are inserted
\* anew, in their order.
Refilled(t, n) ==
    LET slot == Chain(t)
        fill[i \in 0 .. t.count] ==
            IF i = 0 THEN EmptyTable(n)
                     ELSE InsertInto(fill[i - 1], t.table[slot[i]].k, t.table[slot[i]].v)
    IN  fill
Resize(t, n) == Refilled(t, n)[t.count]

\* count >= size * LH_LOAD_FACTOR (0.66): an insertion always has room.
MustGrow == 100 * count >= 66 * slots

TableInit ==
    /\ buckets = EmptyTable(InitSize).table /\ slots = InitSize
    /\ count = 0 /\ head = Nil /\ tail = Nil

\* json_object_object_add of a key that is there: its entry gets the value.
ReplaceEntry(k, v) ==
    LET n == Lookup(ThisTable, k)
    IN  /\ n # Nil
        /\ buckets' = [buckets EXCEPT ![n].v = v]
        /\ UNCHANGED <<slots, count, head, tail>>

\* json_object_object_add of a new key: lh_table_insert_w_hash.  The table is
\* doubled first when it is loaded; at its largest, or without memory, the
\* insertion fails and nothing changes.
InsertEntry(k, v) ==
    /\ Lookup(ThisTable, k) = Nil
    /\ IF MustGrow
         THEN /\ slots < MaxSize
              /\ LET n == IF slots > MaxSize \div 2 THEN MaxSize ELSE 2 * slots
                 IN  Becomes(InsertInto(Resize(ThisTable, n), k, v))
         ELSE Becomes(InsertInto(ThisTable, k, v))

\* json_object_object_del: lh_table_delete_entry takes it out of the list.
DeleteEntry(k) ==
    LET n == Lookup(ThisTable, k)
        e == buckets[n]
    IN  /\ n # Nil
        /\ count' = count - 1
        /\ head' = IF head = n THEN e.next ELSE head
        /\ tail' = IF tail = n THEN e.prev ELSE tail
        /\ buckets' = [i \in 0 .. slots - 1 |->
                          CASE i = n -> [EmptySlot EXCEPT !.k = FREED]
                            [] i = e.prev -> [buckets[i] EXCEPT !.next = e.next]
                            [] i = e.next -> [buckets[i] EXCEPT !.prev = e.prev]
                            [] OTHER -> buckets[i]]
        /\ UNCHANGED slots

TableNext ==
    \E k \in Keys :
        \/ DeleteEntry(k)
        \/ \E v \in Values : ReplaceEntry(k, v) \/ InsertEntry(k, v)

TableSpec == TableInit /\ [][TableNext]_tableVars

-----------------------------------------------------------------------------
(***************************************************************************)
(* Properties                                                               *)
(***************************************************************************)

UsedSlots == {n \in 0 .. slots - 1 : InUse(ThisTable, n)}

\* The list through the slots in use: it has `count` of them, forwards and
\* backwards, from head to tail, and misses none.
ListIsWhole ==
    LET c == Chain(ThisTable)
    IN  /\ {c[i] : i \in 1 .. count} = UsedSlots
        /\ Cardinality(UsedSlots) = count
        /\ \A i \in 1 .. count : buckets[c[i]].prev = IF i = 1 THEN Nil ELSE c[i - 1]
        /\ IF count = 0 THEN head = Nil /\ tail = Nil
                        ELSE buckets[c[count]].next = Nil /\ tail = c[count]

\* Every key that is in the table is found, whatever was deleted on the way to
\* it and however often the table has grown, and the list through the slots is
\* whole.
FindsEveryKey ==
    /\ \A n \in UsedSlots : Lookup(ThisTable, buckets[n].k) = n
    /\ ListIsWhole

\* The table is a map that keeps the order of insertion.
EntriesOf(t) == [i \in 1 .. t.count |-> LET e == t.table[Chain(t)[i]] IN <<e.k, e.v>>]
Ordered == INSTANCE OrderedMap WITH entries <- EntriesOf(ThisTable)
IsOrderedMap == Ordered!Spec

=============================================================================
