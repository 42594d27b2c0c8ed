----------------------------- MODULE JsonObject -----------------------------
(***************************************************************************)
(* Ownership of json-c's values (json-c/json_object.c): a reference count    *)
(* per value, containers that own what is added to them, deep copies, and    *)
(* the comparison of two trees.  Every entry of the file system cache is     *)
(* such a tree; FSCacheEntry_clone is a deep copy.                           *)
(***************************************************************************)
EXTENDS Integers, Sequences, FiniteSets, SequencesExt, FiniteSetsExt

CONSTANTS
    Objs,      \* where values can be allocated
    Spare,     \* more places, enough for a copy of any tree
    Names,     \* of the members of an object
    Data,      \* what a string may hold
    CString,   \* [Data -> Data]: what is in front of its first NUL
    NULL,      \* the pointer, which is the JSON null, too
    MaxHeld,   \* bound on the references the program holds to one value
    MaxKids    \* bound on the items of an array

ASSUME ObjectAssumption ==
    /\ IsFiniteSet(Objs \cup Spare) /\ Objs \cap Spare = {} /\ NULL \notin Objs \cup Spare
    /\ NULL \notin Data /\ CString \in [Data -> Data]

VARIABLES
    heap,      \* [Objs -> what is there]
    held       \* references the program holds

objectVars == <<heap, held>>

Containers == {"object", "array"}
\* "custom" is a string with a serializer of the program's own.
StringKinds == {"string", "custom"}

\* What may be in a place of P: a value that is referred to, or nothing.
Cells(P) ==
    [ref : Nat, kind : Containers \cup StringKinds \cup {"none"}, data : Data \cup {NULL},
     kids : Seq([key : Names \cup {"item"}, val : P \cup {NULL}])]
FreeCell == [ref |-> 0, kind |-> "none", data |-> NULL, kids |-> << >>]

Type(h, o) == IF h[o].kind \in StringKinds THEN "string" ELSE h[o].kind

\* json_object_new: a value with one reference.
NewValue(kind, data) == [ref |-> 1, kind |-> kind, data |-> data, kids |-> <<>>]
Member(k, v) == [key |-> k, val |-> v]

Live(h) == {o \in DOMAIN h : h[o].ref > 0}
Vals(h, o) == [i \in DOMAIN h[o].kids |-> h[o].kids[i].val]
Members(h, o) == ToSet(Vals(h, o)) \ {NULL}

\* S and all that is below it, level by level
WithMembers(h, S) == S \cup UNION {Members(h, o) : o \in S}
Below(h, S) ==
    LET below[n \in 0 .. Cardinality(DOMAIN h)] ==
            IF n = 0 THEN S ELSE WithMembers(h, below[n - 1])
    IN  below[Cardinality(DOMAIN h)]
\* What the program can get at.
Roots == {o \in Objs : held[o] > 0}
InReach == Below(heap, Roots)

\* The slots of containers
SlotsOf(h) == UNION {{p} \X DOMAIN h[p].kids : p \in DOMAIN h}

\* json_object_put of the first of what is to be put: the last reference to a
\* container frees it and puts its members.
PutFirst(s) ==
    LET o == Head(s.list)
        rest == Tail(s.list)
    IN  IF s.list = << >> THEN s
        ELSE IF o = NULL THEN [h |-> s.h, list |-> rest]
        ELSE IF s.h[o].ref > 1 THEN [h |-> [s.h EXCEPT ![o].ref = @ - 1], list |-> rest]
        ELSE [h |-> [s.h EXCEPT ![o] = FreeCell], list |-> Vals(s.h, o) \o rest]

\* Until nothing is left, which takes one put for each of the list and at most
\* one for each slot.
PutAll(h, list) ==
    LET most == Len(list) + Cardinality(SlotsOf(h))
        put[n \in 0 .. most] ==
            IF n = 0 THEN [h |-> h, list |-> list] ELSE PutFirst(put[n - 1])
    IN  put[most].h

IndexOf(h, p, k) == {i \in DOMAIN h[p].kids : h[p].kids[i].key = k}

\* Mutant of WithMember: the value that is replaced is not put.
WithMember_keeps(h, p, k, v) ==
    IF IndexOf(h, p, k) = {} THEN [h EXCEPT ![p].kids = Append(@, Member(k, v))]
    ELSE LET i == Min(IndexOf(h, p, k)) IN [h EXCEPT ![p].kids[i].val = v]

\* json_object_object_add_ex: a new member, or the old value is put first and
\* the new one takes its place.
WithMember(h, p, k, v) ==
    IF IndexOf(h, p, k) = {} THEN [h EXCEPT ![p].kids = Append(@, Member(k, v))]
    ELSE LET i == Min(IndexOf(h, p, k))
         IN  [PutAll(h, <<h[p].kids[i].val>>) EXCEPT ![p].kids[i].val = v]

\* json_object_array_add
WithItem(h, p, v) == [h EXCEPT ![p].kids = Append(@, Member("item", v))]

ObjectInit ==
    /\ heap = [o \in Objs |-> FreeCell]
    /\ held = [o \in Objs |-> 0]

\* json_object_new_string, _object, _array
NewObject(o) ==
    /\ o \notin Live(heap)
    /\ \/ \E kind \in Containers : heap' = [heap EXCEPT ![o] = NewValue(kind, NULL)]
       \/ \E kind \in StringKinds, d \in Data : heap' = [heap EXCEPT ![o] = NewValue(kind, d)]
    /\ held' = [held EXCEPT ![o] = 1]

\* json_object_get
GetObject(o) ==
    /\ o \in InReach /\ held[o] < MaxHeld
    /\ heap' = [heap EXCEPT ![o].ref = @ + 1]
    /\ held' = [held EXCEPT ![o] = @ + 1]

\* json_object_put
PutObject(o) ==
    /\ held[o] > 0
    /\ heap' = PutAll(heap, <<o>>)
    /\ held' = [held EXCEPT ![o] = @ - 1]

\* What may be added to p: a null, or a value the program holds, which is given
\* away; the caller must not make a loop.
Givable(p) == {NULL} \cup {v \in Objs : held[v] > 0 /\ p \notin Below(heap, {v})}
GivenAway(v) == [o \in Objs |-> IF o = v THEN held[o] - 1 ELSE held[o]]

ObjectAdd(p, k) ==
    /\ p \in InReach /\ heap[p].kind = "object"
    /\ \E v \in Givable(p) :
           /\ heap' = WithMember(heap, p, k, v)
           /\ held' = GivenAway(v)

ArrayAdd(p) ==
    /\ p \in InReach /\ heap[p].kind = "array" /\ Len(heap[p].kids) < MaxKids
    /\ \E v \in Givable(p) :
           /\ heap' = WithItem(heap, p, v)
           /\ held' = GivenAway(v)

\* json_object_object_del and json_object_array_del_idx of member i
DeleteMember(p, i) ==
    /\ p \in InReach
    /\ heap' = [PutAll(heap, <<heap[p].kids[i].val>>) EXCEPT ![p].kids = RemoveAt(@, i)]
    /\ UNCHANGED held

\* json_c_shallow_copy_default: the first NUL ends the copy of a string.
ShallowCopy(h, src) ==
    NewValue(h[src].kind, IF h[src].data = NULL THEN NULL ELSE CString[h[src].data])

\* Of src in heap h with memory for n values
Calls(P) == [h : [P -> Cells(P)], src : P, n : Nat]
Call(h, src, n) == [h |-> h, src |-> src, n |-> n]

\* Member i, where `copy` copies what is below: if it cannot be copied, what
\* there is of its copy is put.
CopyMember(copy, from, dst, i, r) ==
    LET kid == from.kids[i]
        c == IF kid.val = NULL THEN [ok |-> TRUE, dst |-> NULL, h |-> r.h, n |-> r.n]
                               ELSE copy[Call(r.h, kid.val, r.n)]
    IN  IF ~r.ok THEN r
        ELSE IF ~c.ok THEN [ok |-> FALSE, h |-> PutAll(c.h, <<c.dst>>), n |-> c.n]
        ELSE [ok |-> TRUE, n |-> c.n,
              h |-> IF from.kind = "object" THEN WithMember(c.h, dst, kid.key, c.dst)
                                            ELSE WithItem(c.h, dst, c.dst)]

\* The members in their order, up to the first that cannot be copied
CopyMembers(copy, from, dst, h, n) ==
    LET copied[i \in 0 .. Len(from.kids)] ==
            IF i = 0 THEN [ok |-> TRUE, h |-> h, n |-> n]
            ELSE CopyMember(copy, from, dst, i, copied[i - 1])
    IN  copied[Len(from.kids)]

\* json_object_deep_copy_recursive with memory for n values: whether it
\* succeeds, where the copy is, the heap, the memory left.  The value itself is
\* copied first; the caller puts *dst if it fails.  A serializer that is not
\* known fails a copy that is done.
CopyValue(copy, h, src, n) ==
    LET room == DOMAIN h \ Live(h)
        dst == CHOOSE o \in room : TRUE
        r == CopyMembers(copy, h[src], dst, [h EXCEPT ![dst] = ShallowCopy(h, src)], n - 1)
    IN  IF n = 0 \/ room = {} THEN [ok |-> FALSE, dst |-> NULL, h |-> h, n |-> 0]
        ELSE [ok |-> r.ok /\ h[src].kind # "custom", dst |-> dst, h |-> r.h, n |-> r.n]

\* A copy of so many levels; without memory there is none.
CopyTo(h, src, n) ==
    LET copy[levels \in 0 .. n] ==
            [c \in Calls(DOMAIN h) |->
                IF levels = 0 THEN [ok |-> FALSE, dst |-> NULL, h |-> c.h, n |-> 0]
                ELSE CopyValue(copy[levels - 1], c.h, c.src, c.n)]
    IN  copy[n][Call(h, src, n)]

\* Mutant of Copied: a copy that fails is left behind.
Copied_leaves(h, src, n) == CopyTo(h, src, n)

\* json_object_deep_copy: what a copy that fails has made is put.
Copied(h, src, n) ==
    LET r == CopyTo(h, src, n)
    IN  IF r.ok THEN r ELSE [r EXCEPT !.h = PutAll(r.h, <<r.dst>>), !.dst = NULL]

DeepCopy(src) ==
    /\ src \in InReach
    /\ \E n \in 0 .. Cardinality(Objs) :
           LET r == Copied(heap, src, n)
           IN  /\ heap' = r.h
               /\ held' = [o \in Objs |-> IF o = r.dst THEN 1 ELSE held[o]]

ObjectNext ==
    \E o \in Objs :
        \/ NewObject(o) \/ GetObject(o) \/ PutObject(o) \/ ArrayAdd(o) \/ DeepCopy(o)
        \/ \E k \in Names : ObjectAdd(o, k)
        \/ \E i \in DOMAIN heap[o].kids : DeleteMember(o, i)

ObjectSpec == ObjectInit /\ [][ObjectNext]_objectVars

\* Mutant of EqualTrees: the members of b are not looked up in a.
EqualTrees_oneWay(x, y) ==
    LET P == DOMAIN heap \cup {NULL}
        equal[a \in P] == [b \in P |->
            \/ a = b
            \/ /\ a # NULL /\ b # NULL
               /\ Type(heap, a) = Type(heap, b) /\ heap[a].data = heap[b].data
               /\ IF heap[a].kind = "object"
                    THEN \A i \in DOMAIN heap[a].kids :
                             \E j \in DOMAIN heap[b].kids :
                                 /\ heap[b].kids[j].key = heap[a].kids[i].key
                                 /\ equal[heap[a].kids[i].val][heap[b].kids[j].val]
                    ELSE /\ Len(heap[a].kids) = Len(heap[b].kids)
                         /\ \A i \in DOMAIN heap[a].kids :
                                equal[heap[a].kids[i].val][heap[b].kids[i].val]]
    IN  equal[x][y]

\* json_object_equal: every member of a is in b with an equal value, and every
\* member of b is in a; items are compared one by one.
EqualTrees(x, y) ==
    LET P == DOMAIN heap \cup {NULL}
        equal[a \in P] == [b \in P |->
            \/ a = b
            \/ /\ a # NULL /\ b # NULL
               /\ Type(heap, a) = Type(heap, b) /\ heap[a].data = heap[b].data
               /\ IF heap[a].kind = "object"
                    THEN /\ \A i \in DOMAIN heap[a].kids :
                                \E j \in DOMAIN heap[b].kids :
                                    /\ heap[b].kids[j].key = heap[a].kids[i].key
                                    /\ equal[heap[a].kids[i].val][heap[b].kids[j].val]
                         /\ \A j \in DOMAIN heap[b].kids :
                                IndexOf(heap, a, heap[b].kids[j].key) # {}
                    ELSE /\ Len(heap[a].kids) = Len(heap[b].kids)
                         /\ \A i \in DOMAIN heap[a].kids :
                                equal[heap[a].kids[i].val][heap[b].kids[i].val]]
    IN  equal[x][y]

-----------------------------------------------------------------------------
(***************************************************************************)
(* Properties                                                               *)
(***************************************************************************)

\* The JSON value of a tree, nested as deep as it is.
JsonValue(h, o) ==
    LET value[q \in DOMAIN h \cup {NULL}] ==
            IF q = NULL THEN <<"null", NULL>>
            ELSE IF h[q].kind = "object"
              THEN <<"object", {<<h[q].kids[i].key, value[h[q].kids[i].val]>> : i \in DOMAIN h[q].kids}>>
            ELSE IF h[q].kind = "array"
              THEN <<"array", [i \in DOMAIN h[q].kids |-> value[h[q].kids[i].val]]>>
            ELSE <<"string", h[q].data>>
    IN  value[o]

\* A reference count is the number of references: those of the program and
\* those of containers.  So nothing is freed that is still referred to, and
\* what nobody refers to is freed, a copy that failed half way included.
RefsAreCounted ==
    \A o \in Objs :
        heap[o].ref = held[o] + Cardinality({r \in SlotsOf(heap) : heap[r[1]].kids[r[2]].val = o})

\* The heap with room for a copy of anything in it.
Roomy == [o \in Objs \cup Spare |-> IF o \in Objs THEN heap[o] ELSE FreeCell]

\* A deep copy shares nothing with what was copied nor with any other value,
\* and keeps the order of the members; one that fails, for the lack of memory
\* for any of its values, changes nothing.
CopyIsApart ==
    \A src \in Roots, n \in 0 .. Cardinality(Objs) :
        LET r == Copied(Roomy, src, n)
        IN  IF ~r.ok THEN r.h = Roomy
            ELSE /\ Below(r.h, {r.dst}) \cap Live(heap) = {}
                 /\ \A o \in Live(heap) : r.h[o] = heap[o]
                 /\ [i \in DOMAIN r.h[r.dst].kids |-> r.h[r.dst].kids[i].key]
                        = [i \in DOMAIN heap[src].kids |-> heap[src].kids[i].key]

\* json_object.h on json_object_deep_copy: the contents are copied.  With the
\* memory it needs a copy fails only for a serializer that is not known.
CopyIsEqual ==
    \A src \in Roots :
        LET r == Copied(Roomy, src, Cardinality(Spare))
            known == \A o \in Below(heap, {src}) : heap[o].kind # "custom"
        IN  r.ok = known /\ (r.ok => JsonValue(r.h, r.dst) = JsonValue(heap, src))

CopyIsWholeAndApart == CopyIsApart /\ CopyIsEqual

\* Two trees are equal when they stand for the same JSON value.
EqualIsSameValue ==
    \A a, b \in Live(heap) : EqualTrees(a, b) = (JsonValue(heap, a) = JsonValue(heap, b))

=============================================================================
