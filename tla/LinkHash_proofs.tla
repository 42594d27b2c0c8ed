------------------------- MODULE LinkHash_proofs ---------------------------
(***************************************************************************)
(* Theorems about the hash table of json-c, for any keys, any hash of them  *)
(* and any sizes: a key in the table is found, the list through the table   *)
(* is whole, and the table is the ordered map of OrderedMap.                *)
(***************************************************************************)
EXTENDS LinkHash, FiniteSetTheorems, WellFoundedInduction, TLAPS

-----------------------------------------------------------------------------
(***************************************************************************)
(* Numbers.  Induction is had from the theorem of the least element of a    *)
(* well-founded set; of remainders the provers know only the definition.    *)
(***************************************************************************)

\* A set of numbers has a least one.
LEMMA LeastOf ==
    ASSUME NEW T \in SUBSET Nat, T # {}
    PROVE  \E n \in T : \A m \in T : n <= m
<1> DEFINE R == OpToRel(<, Nat)
<1>1. IsWellFoundedOn(R, Nat)
  BY NatLessThanWellFounded
<1>2. \A x, y \in Nat : x < y => <<x, y>> \in R
  BY ZenonT(20) DEF OpToRel
<1> HIDE DEF R
<1>3. PICK n \in T : \A m \in T : ~(<<m, n>> \in R)
  BY ONLY <1>1, WFMin, T \in SUBSET Nat, T # {}
<1>4. \A m \in T : ~(m < n)
  BY <1>2, <1>3
<1> QED BY <1>4

\* Induction, said of the set of numbers that a fact holds of.
LEMMA InductionOn ==
    ASSUME NEW T, 0 \in T, \A n \in Nat : n \in T => n + 1 \in T
    PROVE  Nat \subseteq T
<1> SUFFICES ASSUME Nat \ T # {} PROVE FALSE
  OBVIOUS
<1>1. PICK n \in Nat \ T : \A m \in Nat \ T : n <= m
  BY LeastOf
<1>2. n - 1 \in Nat /\ n - 1 \in T
  BY <1>1
<1> QED BY <1>1, <1>2

\* Min of the community modules is that one.
LEMMA MinOf ==
    ASSUME NEW T \in SUBSET Nat, T # {}
    PROVE  Min(T) \in T /\ \A m \in T : Min(T) <= m
  BY LeastOf DEF Min

\* A larger multiple is larger by at least one more.
LEMMA Multiples ==
    ASSUME NEW s \in Nat, NEW p \in Nat, NEW q \in Nat, p < q
    PROVE  s * p + s <= s * q
  BY Z3T(30)

\* What a remainder is, as the provers know it.
LEMMA ModParts ==
    ASSUME NEW s \in Nat \ {0}, NEW h \in Nat
    PROVE  /\ h % s \in 0 .. s - 1
           /\ \E q \in Nat : h = s * q + (h % s)
<1>1. h % s \in 0 .. s - 1 /\ h \div s \in Nat
  OBVIOUS
<1>2. h = s * (h \div s) + (h % s)
  OBVIOUS
<1> QED BY <1>1, <1>2

\* A number less than the modulus is the remainder of what exceeds a multiple by
\* it.
LEMMA ModIs ==
    ASSUME NEW s \in Nat \ {0}, NEW q \in Nat, NEW n \in 0 .. s - 1
    PROVE  (s * q + n) % s = n
<1> DEFINE a == s * q + n
           r == a % s
<1>1. a \in Nat /\ s * q \in Nat
  OBVIOUS
<1>2. r \in 0 .. s - 1
  BY <1>1, ModParts
<1>3. PICK p \in Nat : a = s * p + r
  BY <1>1, ModParts
<1> HIDE DEF r
<1>4. s * q + n = s * p + r /\ s * p \in Nat
  BY <1>3
<1>5. ~(p < q)
  <2> SUFFICES ASSUME p < q PROVE FALSE
    OBVIOUS
  <2>1. s * p + s <= s * q
    BY Multiples
  <2> HIDE DEF a
  <2> DEFINE x == s * p
             y == s * q
  <2>2. x + s <= y /\ x \in Nat /\ y \in Nat /\ y + n = x + r
    BY <2>1, <1>1, <1>4
  <2> HIDE DEF x, y
  <2> QED BY <2>2, <1>2
<1>6. ~(q < p)
  <2> SUFFICES ASSUME q < p PROVE FALSE
    OBVIOUS
  <2>1. s * q + s <= s * p
    BY Multiples
  <2> HIDE DEF a
  <2> DEFINE x == s * p
             y == s * q
  <2>2. y + s <= x /\ x \in Nat /\ y \in Nat /\ y + n = x + r
    BY <2>1, <1>1, <1>4
  <2> HIDE DEF x, y
  <2> QED BY <2>2, <1>2
<1>7. p = q
  BY <1>5, <1>6
<1>8. r = n
  BY <1>1, <1>2, <1>4, <1>7
<1> QED BY <1>8 DEF r

\* Linear probing visits every slot.
LEMMA ProbesVisitAll ==
    ASSUME NEW s \in Nat \ {0}, NEW h \in Nat, NEW n \in 0 .. s - 1
    PROVE  \E d \in 0 .. s - 1 : (h + d) % s = n
<1>1. PICK q \in Nat : h = s * q + (h % s)
  BY ModParts
<1>2. PICK r \in 0 .. s - 1 : r = h % s
  BY ModParts
<1> DEFINE x == s * q
<1>3. x \in Nat /\ s * (q + 1) = x + s
  OBVIOUS
<1>4. h = x + r
  BY <1>1, <1>2
<1> HIDE DEF x
<1>5. CASE r <= n
  <2>1. h + (n - r) = x + n /\ n - r \in 0 .. s - 1
    BY <1>3, <1>5, <1>4
  <2>2. (x + n) % s = n
    BY ModIs DEF x
  <2> QED BY <2>1, <2>2
<1>6. CASE n < r
  <2>1. h + (n - r + s) = (x + s) + n /\ n - r + s \in 0 .. s - 1
    BY <1>3, <1>6, <1>4
  <2>2. (s * (q + 1) + n) % s = n
    BY ModIs
  <2> QED BY <1>3, <2>1, <2>2
<1> QED BY <1>5, <1>6

-----------------------------------------------------------------------------
(***************************************************************************)
(* Tables.  IsTable: every slot in use is reached by probing for its key.   *)
(* IsListOf: c is the list of the slots in use that head, next, prev and    *)
(* tail give.  The two together are the invariant.                          *)
(***************************************************************************)

TableEntry == [k : Keys \cup {EMPTY, FREED}, v : Values \cup {Nil}, next : Int, prev : Int]

\* Slot n is reached when its key is probed for.
IsReached(t, n) ==
    \E d \in 0 .. t.size - 1 :
        /\ ProbeSlot(t, t.table[n].k, d) = n
        /\ \A e \in 0 .. d - 1 :
               t.table[ProbeSlot(t, t.table[n].k, e)].k \notin {EMPTY, t.table[n].k}

IsTable(t) ==
    /\ t.size \in Nat \ {0} /\ t.count \in Nat
    /\ t.table \in [0 .. t.size - 1 -> TableEntry]
    /\ \A n \in 0 .. t.size - 1 : InUse(t, n) => IsReached(t, n)

\* c is the list of the slots in use, as the links give it.
IsListOf(c, t) ==
    /\ c \in [1 .. t.count -> 0 .. t.size - 1]
    /\ \A i, j \in 1 .. t.count : c[i] = c[j] => i = j
    /\ \A i \in 1 .. t.count : InUse(t, c[i])
    /\ \A n \in 0 .. t.size - 1 : InUse(t, n) => \E i \in 1 .. t.count : c[i] = n
    /\ \A i \in 1 .. t.count : t.table[c[i]].next = IF i = t.count THEN Nil ELSE c[i + 1]
    /\ \A i \in 1 .. t.count : t.table[c[i]].prev = IF i = 1 THEN Nil ELSE c[i - 1]
    /\ t.head = IF t.count = 0 THEN Nil ELSE c[1]
    /\ t.tail = IF t.count = 0 THEN Nil ELSE c[t.count]

HasKey(t, k) == \E n \in 0 .. t.size - 1 : InUse(t, n) /\ t.table[n].k = k

\* Every probe is of a slot.
LEMMA ProbesAreSlots ==
    ASSUME NEW t, t.size \in Nat \ {0}, NEW k \in Keys, NEW d \in Nat
    PROVE  ProbeSlot(t, k, d) \in 0 .. t.size - 1
<1>1. Hash[k] + d \in Nat
  BY TableAssumption
<1> QED BY <1>1, ModParts DEF ProbeSlot

\* A slot is in use when its key is one of the keys, not a mark.
LEMMA UsedHasKey ==
    ASSUME NEW t, IsTable(t), NEW n \in 0 .. t.size - 1
    PROVE  InUse(t, n) <=> t.table[n].k \in Keys
  BY TableAssumption DEF InUse, IsTable, TableEntry

\* A lookup finds a key in the slot that has it.
LEMMA LookupFinds ==
    ASSUME NEW t, IsTable(t), NEW n \in 0 .. t.size - 1, InUse(t, n)
    PROVE  Lookup(t, t.table[n].k) = n
<1> DEFINE k == t.table[n].k
           ends == {d \in 0 .. t.size - 1 : t.table[ProbeSlot(t, k, d)].k \in {EMPTY, k}}
<1>1. PICK d \in 0 .. t.size - 1 :
          /\ ProbeSlot(t, k, d) = n
          /\ \A e \in 0 .. d - 1 : t.table[ProbeSlot(t, k, e)].k \notin {EMPTY, k}
  BY DEF IsTable, IsReached
<1>2. d \in ends /\ ends \in SUBSET Nat
  BY <1>1 DEF IsTable
<1>3. \A e \in ends : d <= e
  BY <1>1 DEF IsTable
<1> HIDE DEF ends
<1>4. Min(ends) \in ends /\ Min(ends) <= d
  BY <1>2, MinOf
<1>5. Min(ends) = d
  <2>1. d <= Min(ends) /\ Min(ends) \in Nat /\ d \in Nat
    BY <1>2, <1>3, <1>4
  <2> QED BY <1>4, <2>1
<1> QED BY <1>1, <1>2, <1>5 DEF Lookup, ends

\* A slot that a lookup finds is in use and has the key.
LEMMA LookupIs ==
    ASSUME NEW t, IsTable(t), NEW k \in Keys, Lookup(t, k) # Nil
    PROVE  /\ Lookup(t, k) \in 0 .. t.size - 1
           /\ InUse(t, Lookup(t, k)) /\ t.table[Lookup(t, k)].k = k
<1> DEFINE ends == {d \in 0 .. t.size - 1 : t.table[ProbeSlot(t, k, d)].k \in {EMPTY, k}}
           n == ProbeSlot(t, k, Min(ends))
<1>1. Lookup(t, k) = n /\ ends # {} /\ t.table[n].k = k
  BY DEF Lookup
<1>2. ends \in SUBSET Nat
  BY DEF IsTable
<1> HIDE DEF ends
<1>3. Min(ends) \in Nat
  BY <1>1, <1>2, MinOf
<1>4. n \in 0 .. t.size - 1
  BY <1>3, ProbesAreSlots DEF IsTable
<1>5. InUse(t, n)
  BY <1>1, <1>4, UsedHasKey
<1> QED BY <1>1, <1>4, <1>5

\* A lookup that finds none says that there is none.
LEMMA LookupMisses ==
    ASSUME NEW t, IsTable(t), NEW k \in Keys, Lookup(t, k) = Nil
    PROVE  ~HasKey(t, k)
  BY LookupFinds DEF HasKey, Nil, IsTable

\* The list is as long as there are slots in use.
LEMMA UsedSlotsCounted ==
    ASSUME NEW t, IsTable(t), NEW c, IsListOf(c, t)
    PROVE  /\ Cardinality({n \in 0 .. t.size - 1 : InUse(t, n)}) = t.count
           /\ t.count <= t.size
           /\ t.count < t.size => \E n \in 0 .. t.size - 1 : ~InUse(t, n)
<1> DEFINE used == {n \in 0 .. t.size - 1 : InUse(t, n)}
<1>1. c \in Bijection(1 .. t.count, used)
  BY DEF IsListOf, Bijection, Injection, Surjection, IsInjective
<1>2. ExistsBijection(1 .. t.count, used) /\ t.count \in Nat /\ t.size \in Nat
  BY <1>1 DEF ExistsBijection, IsTable
<1> HIDE DEF used
<1>3. Cardinality(used) = t.count
  BY <1>2, FS_CountingElements
<1>4. IsFiniteSet(0 .. t.size - 1) /\ Cardinality(0 .. t.size - 1) = t.size
  <2>1. PICK last \in Int : last = t.size - 1 /\ ~(0 > last) /\ last - 0 + 1 = t.size
    BY DEF IsTable
  <2>2. IsFiniteSet(0 .. last) /\ Cardinality(0 .. last) = last - 0 + 1
    BY ONLY <2>1, FS_Interval, 0 \in Int
  <2> QED BY <2>1, <2>2
<1>5. used \in SUBSET (0 .. t.size - 1)
  BY DEF used
<1>6. Cardinality(used) <= Cardinality(0 .. t.size - 1)
  BY <1>4, <1>5, FS_Subset
<1>7. used = 0 .. t.size - 1 => t.count = t.size
  BY <1>3, <1>4
<1> QED BY <1>2, <1>3, <1>4, <1>6, <1>7 DEF used

\* Where an entry is inserted.
LEMMA SlotForIsFree ==
    ASSUME NEW t, IsTable(t), NEW k \in Keys, NEW free \in 0 .. t.size - 1, ~InUse(t, free)
    PROVE  /\ SlotFor(t, k) \in 0 .. t.size - 1 /\ ~InUse(t, SlotFor(t, k))
           /\ \E d \in 0 .. t.size - 1 :
                  /\ ProbeSlot(t, k, d) = SlotFor(t, k)
                  /\ \A e \in 0 .. d - 1 : InUse(t, ProbeSlot(t, k, e))
<1> DEFINE ends == {d \in 0 .. t.size - 1 : ~InUse(t, ProbeSlot(t, k, d))}
<1>1. \E d \in 0 .. t.size - 1 : ProbeSlot(t, k, d) = free
  BY ProbesVisitAll, TableAssumption DEF IsTable, ProbeSlot
<1>2. ends # {} /\ ends \in SUBSET Nat
  BY <1>1 DEF IsTable
<1> HIDE DEF ends
<1>3. Min(ends) \in ends /\ \A e \in ends : Min(ends) <= e
  BY <1>2, MinOf
<1>4. Min(ends) \in 0 .. t.size - 1 /\ ~InUse(t, ProbeSlot(t, k, Min(ends)))
  BY <1>3 DEF ends
<1>5. SlotFor(t, k) = ProbeSlot(t, k, Min(ends))
  BY DEF SlotFor, ends
<1>6. \A e \in 0 .. Min(ends) - 1 : InUse(t, ProbeSlot(t, k, e))
  <2> SUFFICES ASSUME NEW e \in 0 .. Min(ends) - 1 PROVE InUse(t, ProbeSlot(t, k, e))
    OBVIOUS
  <2>1. e \in 0 .. t.size - 1 /\ ~(Min(ends) <= e)
    BY <1>4 DEF IsTable
  <2>2. e \notin ends
    BY <1>3, <2>1
  <2> QED BY <2>1, <2>2 DEF ends
<1>7. SlotFor(t, k) \in 0 .. t.size - 1
  BY <1>4, <1>5, ProbesAreSlots DEF IsTable
<1> QED BY <1>4, <1>5, <1>6, <1>7

-----------------------------------------------------------------------------
(***************************************************************************)
(* An insertion where there is room.                                        *)
(***************************************************************************)

\* What an insertion makes of a table, slot by slot: k is in slot n now, behind
\* the slot that was the last.
LEMMA InsertedSlots ==
    ASSUME NEW t, IsTable(t), NEW c, IsListOf(c, t),
           NEW k \in Keys, NEW v \in Values \cup {Nil}, NEW n \in 0 .. t.size - 1, n = SlotFor(t, k),
           ~InUse(t, n), NEW t2, t2 = InsertInto(t, k, v)
    PROVE  /\ t2.size = t.size /\ t2.count = t.count + 1
           /\ t2.table \in [0 .. t.size - 1 -> TableEntry]
           /\ t2.table[n] = [k |-> k, v |-> v, next |-> Nil, prev |-> t.tail]
           /\ \A m \in 0 .. t.size - 1 : m # n =>
                  /\ t2.table[m].k = t.table[m].k
                  /\ t2.table[m].v = t.table[m].v
                  /\ t2.table[m].prev = t.table[m].prev
                  /\ t2.table[m].next = IF m = t.tail THEN n ELSE t.table[m].next
           /\ t2.head = (IF t.count = 0 THEN n ELSE t.head) /\ t2.tail = n
<1>1. (t.head = Nil) <=> (t.count = 0)
  <2>1. t.count # 0 => t.head \in 0 .. t.size - 1
    BY DEF IsListOf, IsTable
  <2>2. t.count = 0 => t.head = Nil
    BY DEF IsListOf
  <2> QED BY <2>1, <2>2 DEF Nil, IsTable
<1>2. t.count = 0 => t.tail = Nil
  BY DEF IsListOf
<1>3. t.count # 0 => t.tail \in 0 .. t.size - 1 /\ t.tail # n
  BY DEF IsListOf, IsTable
<1>4. t.tail \in Int
  BY <1>2, <1>3 DEF IsTable, Nil
<1> DEFINE new == [k |-> k, v |-> v, next |-> Nil, prev |-> t.tail]
           filled == [t.table EXCEPT ![n] = new]
<1>5. /\ t2.size = t.size /\ t2.count = t.count + 1 /\ t2.tail = n
      /\ t2.head = IF t.head = Nil THEN n ELSE t.head
      /\ t2.table = IF t.head = Nil THEN filled ELSE [filled EXCEPT ![t.tail].next = n]
  BY DEF InsertInto
<1>6. new \in TableEntry
  BY <1>4 DEF TableEntry, Nil
<1>7. filled \in [0 .. t.size - 1 -> TableEntry] /\ filled[n] = new
      /\ \A m \in 0 .. t.size - 1 : m # n => filled[m] = t.table[m]
  BY <1>6 DEF IsTable
<1> HIDE DEF filled
<1>8. CASE t.count = 0
  <2>1. t2.table = filled
    BY <1>1, <1>5, <1>8
  <2>2. \A m \in 0 .. t.size - 1 : m # t.tail
    BY <1>2, <1>8 DEF Nil, IsTable
  <2> QED BY <1>1, <1>5, <1>7, <1>8, <2>1, <2>2
<1>9. CASE t.count # 0
  <2>1. t2.table = [filled EXCEPT ![t.tail].next = n]
    BY <1>1, <1>5, <1>9
  <2>2. /\ t2.table[t.tail] = [filled[t.tail] EXCEPT !.next = n]
        /\ \A m \in 0 .. t.size - 1 : m # t.tail => t2.table[m] = filled[m]
    BY <1>3, <1>7, <1>9, <2>1
  <2>3. filled[t.tail] = t.table[t.tail] /\ filled[t.tail] \in TableEntry
    BY <1>3, <1>7, <1>9
  <2>4. [filled[t.tail] EXCEPT !.next = n] \in TableEntry
    BY <2>3 DEF TableEntry
  <2>5. t2.table \in [0 .. t.size - 1 -> TableEntry]
    BY <1>3, <1>7, <1>9, <2>1, <2>4
  <2>6. /\ t2.table[t.tail].k = t.table[t.tail].k /\ t2.table[t.tail].v = t.table[t.tail].v
        /\ t2.table[t.tail].prev = t.table[t.tail].prev /\ t2.table[t.tail].next = n
    BY <2>2, <2>3 DEF TableEntry
  <2>7. t2.table[n] = new
    BY <1>3, <1>7, <1>9, <2>2
  <2> HIDE DEF new
  <2>8. \A m \in 0 .. t.size - 1 : m # n =>
                  /\ t2.table[m].k = t.table[m].k
                  /\ t2.table[m].v = t.table[m].v
                  /\ t2.table[m].prev = t.table[m].prev
                  /\ t2.table[m].next = IF m = t.tail THEN n ELSE t.table[m].next
    BY <1>3, <1>7, <1>9, <2>2, <2>6
  <2> QED BY <1>1, <1>5, <1>9, <2>5, <2>7, <2>8 DEF new
<1> QED BY <1>8, <1>9

\* The slot n comes behind the list c.
IsAppended(c2, c, t, n) ==
    /\ c2 \in [1 .. t.count + 1 -> 0 .. t.size - 1]
    /\ \A i \in 1 .. t.count : c2[i] = c[i]
    /\ c2[t.count + 1] = n

\* t2 has the entries of t, and k with v behind them.
HasAlso(t2, c2, t, c, k, v) ==
    /\ IsTable(t2) /\ IsListOf(c2, t2)
    /\ t2.size = t.size /\ t2.count = t.count + 1
    /\ \A i \in 1 .. t.count :
           t2.table[c2[i]].k = t.table[c[i]].k /\ t2.table[c2[i]].v = t.table[c[i]].v
    /\ t2.table[c2[t.count + 1]].k = k /\ t2.table[c2[t.count + 1]].v = v
    /\ \A q : HasKey(t2, q) <=> HasKey(t, q) \/ q = k

\* A new key, inserted where there is room, is found, and so are the others;
\* its slot is the last of the list.
LEMMA InsertedIsTable ==
    ASSUME NEW t, IsTable(t), NEW c, IsListOf(c, t),
           NEW k \in Keys, NEW v \in Values \cup {Nil}, ~HasKey(t, k), t.count < t.size,
           NEW c2, IsAppended(c2, c, t, SlotFor(t, k)),
           NEW t2, t2 = InsertInto(t, k, v)
    PROVE  HasAlso(t2, c2, t, c, k, v)
<1>1. PICK free \in 0 .. t.size - 1 : ~InUse(t, free)
  BY UsedSlotsCounted
<1>2. PICK n \in 0 .. t.size - 1 : n = SlotFor(t, k) /\ ~InUse(t, n)
  BY <1>1, SlotForIsFree
<1>3. PICK d \in 0 .. t.size - 1 :
          ProbeSlot(t, k, d) = n /\ \A e \in 0 .. d - 1 : InUse(t, ProbeSlot(t, k, e))
  BY <1>1, <1>2, SlotForIsFree
<1>4. /\ t2.size = t.size /\ t2.count = t.count + 1
      /\ t2.table \in [0 .. t.size - 1 -> TableEntry]
      /\ t2.table[n] = [k |-> k, v |-> v, next |-> Nil, prev |-> t.tail]
      /\ \A m \in 0 .. t.size - 1 : m # n =>
             /\ t2.table[m].k = t.table[m].k
             /\ t2.table[m].v = t.table[m].v
             /\ t2.table[m].prev = t.table[m].prev
             /\ t2.table[m].next = IF m = t.tail THEN n ELSE t.table[m].next
      /\ t2.head = (IF t.count = 0 THEN n ELSE t.head) /\ t2.tail = n
  BY <1>2, InsertedSlots
<1>5. t.size \in Nat \ {0} /\ t.count \in Nat
  BY DEF IsTable
<1>6. k \notin {EMPTY, FREED}
  BY TableAssumption
<1>7. \A m \in 0 .. t.size - 1 : InUse(t2, m) <=> m = n \/ InUse(t, m)
  BY <1>4, <1>6 DEF InUse
<1>8. \A q, e : ProbeSlot(t2, q, e) = ProbeSlot(t, q, e)
  BY <1>4 DEF ProbeSlot
<1>9. \A e \in 0 .. d - 1 : t2.table[ProbeSlot(t2, k, e)].k \notin {EMPTY, k}
  <2> SUFFICES ASSUME NEW e \in 0 .. d - 1 PROVE t2.table[ProbeSlot(t, k, e)].k \notin {EMPTY, k}
    BY <1>8
  <2>1. InUse(t, ProbeSlot(t, k, e)) /\ ProbeSlot(t, k, e) # n
    BY <1>2, <1>3
  <2>2. ProbeSlot(t, k, e) \in 0 .. t.size - 1
    <3>1. e \in Nat
      OBVIOUS
    <3> QED BY <1>5, <3>1, ProbesAreSlots
  <2>3. t2.table[ProbeSlot(t, k, e)].k = t.table[ProbeSlot(t, k, e)].k
    BY <1>4, <2>1, <2>2
  <2> QED BY <2>1, <2>2, <2>3 DEF InUse, HasKey
<1>10. IsReached(t2, n)
  BY <1>3, <1>4, <1>8, <1>9 DEF IsReached
<1>11. ASSUME NEW m \in 0 .. t.size - 1, m # n, InUse(t, m) PROVE IsReached(t2, m)
  <2> DEFINE q == t.table[m].k
  <2>1. q \in Keys /\ q # k /\ t2.table[m].k = q
    BY <1>4, <1>11, UsedHasKey DEF HasKey
  <2>2. PICK b \in 0 .. t.size - 1 :
            ProbeSlot(t, q, b) = m /\ \A e \in 0 .. b - 1 : t.table[ProbeSlot(t, q, e)].k \notin {EMPTY, q}
    BY <1>11 DEF IsTable, IsReached
  <2> HIDE DEF q
  <2>3. \A e \in 0 .. b - 1 : t2.table[ProbeSlot(t, q, e)].k \notin {EMPTY, q}
    <3> SUFFICES ASSUME NEW e \in 0 .. b - 1 PROVE t2.table[ProbeSlot(t, q, e)].k \notin {EMPTY, q}
      OBVIOUS
    <3>1. ProbeSlot(t, q, e) \in 0 .. t.size - 1
      BY <1>5, <2>1, ProbesAreSlots
    <3>2. ProbeSlot(t, q, e) = n => t2.table[ProbeSlot(t, q, e)].k = k
      BY <1>4
    <3> QED BY <1>4, <1>6, <2>1, <2>2, <3>1, <3>2
  <2> QED BY <1>4, <1>8, <2>1, <2>2, <2>3 DEF IsReached
<1>12. IsTable(t2)
  <2>1. \A m \in 0 .. t.size - 1 : InUse(t2, m) => IsReached(t2, m)
    BY <1>7, <1>10, <1>11
  <2>2. t2.size \in Nat \ {0} /\ t2.count \in Nat
    BY <1>4, <1>5
  <2>3. t2.table \in [0 .. t2.size - 1 -> TableEntry]
    BY <1>4
  <2> QED BY <1>4, <2>1, <2>2, <2>3 DEF IsTable
<1>13. /\ c2[t.count + 1] = n /\ \A i \in 1 .. t.count : c2[i] = c[i]
       /\ c2 \in [1 .. t.count + 1 -> 0 .. t.size - 1]
  BY <1>2 DEF IsAppended
<1>14. \A i \in 1 .. t.count : c[i] \in 0 .. t.size - 1 /\ c[i] # n /\ InUse(t, c[i])
  <2>1. \A i \in 1 .. t.count : c[i] \in 0 .. t.size - 1 /\ InUse(t, c[i])
    BY DEF IsListOf
  <2> QED BY <1>2, <2>1
<1>15. \A i \in 1 .. t.count + 1 : i \in 1 .. t.count \/ i = t.count + 1
  BY <1>5
<1>16. \A i, j \in 1 .. t.count + 1 : c2[i] = c2[j] => i = j
  BY <1>13, <1>14, <1>15 DEF IsListOf
<1>17. \A i \in 1 .. t.count + 1 : InUse(t2, c2[i])
  BY <1>7, <1>13, <1>14, <1>15
<1>18. \A m \in 0 .. t.size - 1 : InUse(t2, m) => \E i \in 1 .. t.count + 1 : c2[i] = m
  <2> SUFFICES ASSUME NEW m \in 0 .. t.size - 1, InUse(t2, m)
               PROVE  \E i \in 1 .. t.count + 1 : c2[i] = m
    OBVIOUS
  <2>1. CASE m = n
    BY <1>5, <1>13, <2>1
  <2>2. CASE m # n
    <3>1. PICK i \in 1 .. t.count : c[i] = m
      BY <1>7, <2>2 DEF IsListOf
    <3> QED BY <1>5, <1>13, <3>1
  <2> QED BY <2>1, <2>2
<1>19. \A i \in 1 .. t.count + 1 :
           t2.table[c2[i]].next = IF i = t.count + 1 THEN Nil ELSE c2[i + 1]
  <2>1. t2.table[c2[t.count + 1]].next = Nil
    BY <1>4, <1>13
  <2> SUFFICES ASSUME NEW i \in 1 .. t.count
               PROVE  t2.table[c2[i]].next = c2[i + 1]
    BY <1>5, <1>15, <2>1
  <2>2. CASE i = t.count
    <3>1. t.tail = c[i]
      BY <1>5, <2>2 DEF IsListOf
    <3>2. t2.table[c[i]].next = n
      BY <1>4, <1>14, <3>1
    <3> QED BY <1>13, <2>2, <3>2
  <2>3. CASE i # t.count
    <3>1. i + 1 \in 1 .. t.count /\ t.count \in 1 .. t.count /\ t.count # 0
      BY <1>5, <2>3
    <3>2. c[i] # t.tail
      BY <2>3, <3>1 DEF IsListOf
    <3>3. t.table[c[i]].next = c[i + 1]
      BY <2>3 DEF IsListOf
    <3> QED BY <1>4, <1>13, <1>14, <3>1, <3>2, <3>3
  <2> QED BY <2>2, <2>3
<1>20. \A i \in 1 .. t.count + 1 :
           t2.table[c2[i]].prev = IF i = 1 THEN Nil ELSE c2[i - 1]
  <2> SUFFICES ASSUME NEW i \in 1 .. t.count + 1
               PROVE  t2.table[c2[i]].prev = IF i = 1 THEN Nil ELSE c2[i - 1]
    OBVIOUS
  <2>1. CASE i = t.count + 1
    <3>1. t2.table[c2[i]].prev = t.tail
      BY <1>4, <1>13, <2>1
    <3>2. t.tail = IF t.count = 0 THEN Nil ELSE c[t.count]
      BY DEF IsListOf
    <3> QED BY <1>5, <1>13, <2>1, <3>1, <3>2
  <2>2. CASE i \in 1 .. t.count
    <3>1. t2.table[c2[i]].prev = t.table[c[i]].prev
      BY <1>4, <1>13, <1>14, <2>2
    <3>2. t.table[c[i]].prev = IF i = 1 THEN Nil ELSE c[i - 1]
      BY <2>2 DEF IsListOf
    <3> QED BY <1>5, <1>13, <2>2, <3>1, <3>2
  <2> QED BY <1>15, <2>1, <2>2
<1>21. t2.head = c2[1] /\ t2.tail = c2[t.count + 1] /\ t.count + 1 # 0
  <2>1. t.count # 0 => t.head = c[1] /\ 1 \in 1 .. t.count
    BY <1>5 DEF IsListOf
  <2> QED BY <1>4, <1>5, <1>13, <2>1
<1>22. IsListOf(c2, t2)
  BY <1>4, <1>13, <1>16, <1>17, <1>18, <1>19, <1>20, <1>21 DEF IsListOf
<1>23. \A q : HasKey(t2, q) <=> HasKey(t, q) \/ q = k
  BY <1>2, <1>4, <1>7 DEF HasKey
<1>24. ASSUME NEW i \in 1 .. t.count
       PROVE  t2.table[c2[i]].k = t.table[c[i]].k /\ t2.table[c2[i]].v = t.table[c[i]].v
  BY <1>4, <1>13, <1>14
<1>25. t2.table[c2[t.count + 1]].k = k /\ t2.table[c2[t.count + 1]].v = v
  BY <1>4, <1>13
<1> QED BY <1>4, <1>12, <1>22, <1>23, <1>24, <1>25 DEF HasAlso

-----------------------------------------------------------------------------
(***************************************************************************)
(* A value replaced, an entry deleted.                                      *)
(***************************************************************************)

\* A slot in use is not reached through one whose key is another or was freed:
\* those that are reached stay so when keys stay, or make room.
LEMMA StaysReached ==
    ASSUME NEW t, IsTable(t), NEW t2, t2.size = t.size,
           NEW n \in 0 .. t.size - 1, InUse(t, n), t2.table[n].k = t.table[n].k,
           \A m \in 0 .. t.size - 1 : t2.table[m].k \in {t.table[m].k, FREED}
    PROVE  IsReached(t2, n)
<1> DEFINE q == t.table[n].k
<1>1. q \in Keys /\ q # FREED
  BY UsedHasKey, TableAssumption
<1>2. PICK d \in 0 .. t.size - 1 :
          ProbeSlot(t, q, d) = n /\ \A e \in 0 .. d - 1 : t.table[ProbeSlot(t, q, e)].k \notin {EMPTY, q}
  BY DEF IsTable, IsReached
<1> HIDE DEF q
<1>3. \A e : ProbeSlot(t2, q, e) = ProbeSlot(t, q, e)
  BY DEF ProbeSlot
<1>4. \A e \in 0 .. d - 1 : t2.table[ProbeSlot(t, q, e)].k \notin {EMPTY, q}
  <2> SUFFICES ASSUME NEW e \in 0 .. d - 1 PROVE t2.table[ProbeSlot(t, q, e)].k \notin {EMPTY, q}
    OBVIOUS
  <2>1. e \in Nat
    OBVIOUS
  <2>2. ProbeSlot(t, q, e) \in 0 .. t.size - 1
    BY <1>1, <2>1, ProbesAreSlots DEF IsTable
  <2> QED BY <1>1, <1>2, <2>2 DEF EMPTY, FREED
<1>5. t2.table[n].k = q
  BY DEF q
<1> QED BY <1>2, <1>3, <1>4, <1>5 DEF IsReached

\* u is t with v in slot n.
IsReplacement(u, t, n, v) ==
    /\ u.size = t.size /\ u.count = t.count /\ u.head = t.head /\ u.tail = t.tail
    /\ u.table = [t.table EXCEPT ![n].v = v]

HasInstead(u, t, c, n, v) ==
    /\ IsTable(u) /\ IsListOf(c, u) /\ u.count = t.count
    /\ \A m \in 0 .. t.size - 1 :
           u.table[m].k = t.table[m].k /\ u.table[m].v = IF m = n THEN v ELSE t.table[m].v

\* A value that is replaced stays in its slot.
LEMMA ReplacedIsTable ==
    ASSUME NEW t, IsTable(t), NEW c, IsListOf(c, t),
           NEW n \in 0 .. t.size - 1, InUse(t, n), NEW v \in Values,
           NEW t2, IsReplacement(t2, t, n, v)
    PROVE  HasInstead(t2, t, c, n, v)
<1>1. /\ t2.size = t.size /\ t2.count = t.count /\ t2.head = t.head /\ t2.tail = t.tail
      /\ t2.table = [t.table EXCEPT ![n].v = v]
  BY DEF IsReplacement
<1>2. t.table \in [0 .. t.size - 1 -> TableEntry]
  BY DEF IsTable
<1>3. \A m \in 0 .. t.size - 1 :
          t2.table[m] = IF m = n THEN [t.table[n] EXCEPT !.v = v] ELSE t.table[m]
  BY <1>1, <1>2
<1>4. t.table[n] \in TableEntry
  BY <1>2
<1>5. [t.table[n] EXCEPT !.v = v] \in TableEntry
  BY <1>4 DEF TableEntry
<1>6. t2.table \in [0 .. t.size - 1 -> TableEntry]
  BY <1>1, <1>2, <1>5
<1>7. LET e == [t.table[n] EXCEPT !.v = v]
      IN  e.k = t.table[n].k /\ e.v = v /\ e.next = t.table[n].next /\ e.prev = t.table[n].prev
  BY <1>4 DEF TableEntry
<1>8. \A m \in 0 .. t.size - 1 :
          /\ t2.table[m].k = t.table[m].k
          /\ t2.table[m].v = IF m = n THEN v ELSE t.table[m].v
          /\ t2.table[m].next = t.table[m].next
          /\ t2.table[m].prev = t.table[m].prev
  BY <1>3, <1>7
<1>9. \A m \in 0 .. t.size - 1 : InUse(t2, m) <=> InUse(t, m)
  BY <1>8 DEF InUse
<1>10. \A m \in 0 .. t.size - 1 : InUse(t2, m) => IsReached(t2, m)
  BY <1>1, <1>8, <1>9, StaysReached
<1>11. IsTable(t2)
  BY <1>1, <1>6, <1>10 DEF IsTable
<1>12. \A i \in 1 .. t.count : c[i] \in 0 .. t.size - 1
  BY DEF IsListOf
<1>13. \A i \in 1 .. t.count :
           /\ t2.table[c[i]].next = t.table[c[i]].next
           /\ t2.table[c[i]].prev = t.table[c[i]].prev
           /\ InUse(t2, c[i]) <=> InUse(t, c[i])
  BY <1>8, <1>9, <1>12
<1>14. IsListOf(c, t2)
  BY <1>1, <1>9, <1>13 DEF IsListOf
<1> QED BY <1>1, <1>8, <1>11, <1>14 DEF HasInstead

\* The slots when lh_table_delete_entry has been at slot n.
Unlinked(t, n) ==
    LET e == t.table[n]
    IN  [i \in 0 .. t.size - 1 |->
            CASE i = n -> [EmptySlot EXCEPT !.k = FREED]
              [] i = e.prev -> [t.table[i] EXCEPT !.next = e.next]
              [] i = e.next -> [t.table[i] EXCEPT !.prev = e.prev]
              [] OTHER -> t.table[i]]

\* The same, field by field.
IsUnlinked(u, t, n) ==
    /\ u.table \in [0 .. t.size - 1 -> TableEntry]
    /\ u.table[n].k = FREED
    /\ \A m \in 0 .. t.size - 1 : m # n =>
           /\ u.table[m].k = t.table[m].k
           /\ u.table[m].v = t.table[m].v
           /\ u.table[m].next = IF m = t.table[n].prev THEN t.table[n].next ELSE t.table[m].next
           /\ u.table[m].prev = IF m = t.table[n].next THEN t.table[n].prev ELSE t.table[m].prev

\* lh_table_delete_entry does that.
LEMMA DeletedSlots ==
    ASSUME NEW t, IsTable(t), NEW c, IsListOf(c, t),
           NEW n \in 0 .. t.size - 1, InUse(t, n),
           NEW t2, t2.table = Unlinked(t, n)
    PROVE  IsUnlinked(t2, t, n)
<1>1. PICK e : e = t.table[n]
  OBVIOUS
<1>2. t2.table = [i \in 0 .. t.size - 1 |->
            CASE i = n -> [EmptySlot EXCEPT !.k = FREED]
              [] i = e.prev -> [t.table[i] EXCEPT !.next = e.next]
              [] i = e.next -> [t.table[i] EXCEPT !.prev = e.prev]
              [] OTHER -> t.table[i]]
  BY <1>1 DEF Unlinked
<1>3. PICK p \in 1 .. t.count : c[p] = n
  BY DEF IsListOf
<1>4. t.count \in Nat /\ p \in Nat
  BY DEF IsTable
<1>5. e.prev # Nil => e.prev = c[p - 1] /\ p - 1 \in 1 .. t.count
  BY <1>1, <1>3, <1>4 DEF IsListOf
<1>6. e.next # Nil => e.next = c[p + 1] /\ p + 1 \in 1 .. t.count
  BY <1>1, <1>3, <1>4 DEF IsListOf
<1>7. e.prev = e.next => e.prev = Nil
  <2> SUFFICES ASSUME e.prev = e.next, e.prev # Nil PROVE FALSE
    OBVIOUS
  <2>1. c[p - 1] = c[p + 1] /\ p - 1 \in 1 .. t.count /\ p + 1 \in 1 .. t.count /\ p - 1 # p + 1
    BY <1>4, <1>5, <1>6
  <2> QED BY <2>1 DEF IsListOf
<1>8. e.prev # n /\ e.next # n
  <2>1. p - 1 # p /\ p + 1 # p
    BY <1>4
  <2>2. n # Nil
    BY DEF Nil, IsTable
  <2>3. e.prev # n
    BY <1>3, <1>5, <2>1, <2>2 DEF IsListOf
  <2>4. e.next # n
    BY <1>3, <1>6, <2>1, <2>2 DEF IsListOf
  <2> QED BY <2>3, <2>4
<1>9. \A m \in 0 .. t.size - 1 : t.table[m] \in TableEntry
  BY DEF IsTable
<1>10. e.next \in Int /\ e.prev \in Int
  BY <1>1, <1>9 DEF TableEntry
<1>11. [EmptySlot EXCEPT !.k = FREED] \in TableEntry /\ [EmptySlot EXCEPT !.k = FREED].k = FREED
  BY DEF EmptySlot, TableEntry, Nil
<1>12. t2.table[n] = [EmptySlot EXCEPT !.k = FREED]
  BY <1>8, <1>2
<1>13. ASSUME NEW m \in 0 .. t.size - 1, m # n
       PROVE  /\ t2.table[m] \in TableEntry
              /\ t2.table[m].k = t.table[m].k
              /\ t2.table[m].v = t.table[m].v
              /\ t2.table[m].next = IF m = e.prev THEN e.next ELSE t.table[m].next
              /\ t2.table[m].prev = IF m = e.next THEN e.prev ELSE t.table[m].prev
  <2>1. m # Nil
    BY DEF Nil, IsTable
  <2>2. CASE m = e.prev
    <3>1. t2.table[m] = [t.table[m] EXCEPT !.next = e.next] /\ m # e.next
      BY <1>7, <1>13, <1>2, <2>1, <2>2
    <3> QED BY <1>9, <1>10, <2>2, <3>1 DEF TableEntry
  <2>3. CASE m # e.prev /\ m = e.next
    <3>1. t2.table[m] = [t.table[m] EXCEPT !.prev = e.prev]
      BY <1>13, <1>2, <2>3
    <3> QED BY <1>9, <1>10, <2>3, <3>1 DEF TableEntry
  <2>4. CASE m # e.prev /\ m # e.next
    <3>1. t2.table[m] = t.table[m]
      BY <1>13, <1>2, <2>4
    <3> QED BY <1>9, <2>4, <3>1
  <2> QED BY <2>2, <2>3, <2>4
<1>14. \A m \in 0 .. t.size - 1 : t2.table[m] \in TableEntry
  BY <1>11, <1>12, <1>13
<1>15. t2.table \in [0 .. t.size - 1 -> TableEntry]
  <2>1. t2.table = [m \in 0 .. t.size - 1 |-> t2.table[m]]
    BY <1>2
  <2> QED BY ONLY <1>14, <2>1
<1> QED BY <1>1, <1>11, <1>12, <1>13, <1>15 DEF IsUnlinked

\* c2 is the list c without its p-th slot.
IsShorter(c2, c, t, p) ==
    /\ c2 \in [1 .. t.count - 1 -> 0 .. t.size - 1]
    /\ \A j \in 1 .. t.count - 1 : c2[j] = IF j < p THEN c[j] ELSE c[j + 1]

IsDeletion(u, t, n) ==
    /\ u.size = t.size /\ u.count = t.count - 1
    /\ u.head = (IF t.head = n THEN t.table[n].next ELSE t.head)
    /\ u.tail = (IF t.tail = n THEN t.table[n].prev ELSE t.tail)
    /\ IsUnlinked(u, t, n)

\* Those behind the slot that is freed move up in the list.
LEMMA DeletedIsTable ==
    ASSUME NEW t, IsTable(t), NEW c, IsListOf(c, t),
           NEW p \in 1 .. t.count, NEW n, n = c[p],
           NEW c2, IsShorter(c2, c, t, p), NEW t2, IsDeletion(t2, t, n)
    PROVE  IsTable(t2) /\ IsListOf(c2, t2)
<1> USE DEF IsShorter, IsDeletion, IsUnlinked
<1> DEFINE Pred == IF p = 1 THEN Nil ELSE c[p - 1]
           Succ == IF p = t.count THEN Nil ELSE c[p + 1]
<1>1. t.count \in Nat \ {0} /\ p \in Nat /\ t.size \in Nat \ {0}
  BY DEF IsTable
<1>2. t.table[n].prev = Pred /\ t.table[n].next = Succ
  BY DEF IsListOf
<1>3. \A i \in 1 .. t.count : c[i] \in 0 .. t.size - 1 /\ c[i] # Nil /\ InUse(t, c[i])
  <2>1. \A i \in 1 .. t.count : c[i] \in 0 .. t.size - 1 /\ InUse(t, c[i])
    BY DEF IsListOf
  <2>2. \A m \in 0 .. t.size - 1 : m # Nil
    BY <1>1 DEF Nil
  <2> QED BY <2>1, <2>2
<1>4. \A i, j \in 1 .. t.count : c[i] = c[j] => i = j
  BY DEF IsListOf
<1>5. n \in 0 .. t.size - 1 /\ InUse(t, n)
  BY <1>3
<1>6. \A m \in 0 .. t.size - 1 : InUse(t2, m) <=> m # n /\ InUse(t, m)
  BY DEF InUse
<1>7. \A m \in 0 .. t.size - 1 : t2.table[m].k \in {t.table[m].k, FREED}
  OBVIOUS
<1>8. \A m \in 0 .. t.size - 1 : InUse(t2, m) => IsReached(t2, m)
  <2> SUFFICES ASSUME NEW m \in 0 .. t.size - 1, InUse(t2, m) PROVE IsReached(t2, m)
    OBVIOUS
  <2>1. InUse(t, m) /\ t2.table[m].k = t.table[m].k
    BY <1>6
  <2> QED BY <1>7, <2>1, StaysReached
<1>9. t2.count \in Nat
  BY <1>1
<1>10. IsTable(t2)
  BY <1>1, <1>8, <1>9 DEF IsTable
\* Where the j-th of the list was before.
<1> DEFINE Old(j) == IF j < p THEN j ELSE j + 1
<1>11. \A j \in 1 .. t.count - 1 : Old(j) \in 1 .. t.count /\ Old(j) # p /\ c2[j] = c[Old(j)]
  BY <1>1
<1>12. \A i, j \in 1 .. t.count - 1 : Old(i) = Old(j) => i = j
  BY <1>1
<1>13. \A i, j \in 1 .. t.count - 1 : c2[i] = c2[j] => i = j
  <2> HIDE DEF Old
  <2> QED BY <1>4, <1>11, <1>12
<1>14. \A j \in 1 .. t.count - 1 : c[Old(j)] # n /\ InUse(t2, c[Old(j)])
  <2> HIDE DEF Old
  <2>1. \A j \in 1 .. t.count - 1 : c[Old(j)] # n
    BY <1>4, <1>11
  <2> QED BY <1>3, <1>6, <1>11, <2>1
<1>15. \A m \in 0 .. t.size - 1 : InUse(t2, m) => \E j \in 1 .. t.count - 1 : c2[j] = m
  <2> SUFFICES ASSUME NEW m \in 0 .. t.size - 1, InUse(t2, m)
               PROVE  \E j \in 1 .. t.count - 1 : c2[j] = m
    OBVIOUS
  <2>1. PICK i \in 1 .. t.count : c[i] = m
    BY <1>6 DEF IsListOf
  <2>2. i # p
    BY <1>6, <2>1
  <2>3. CASE i < p
    <3>1. i \in 1 .. t.count - 1 /\ Old(i) = i
      BY <1>1, <2>3
    <3> QED BY <1>11, <2>1, <3>1
  <2>4. CASE p < i
    <3>1. i - 1 \in 1 .. t.count - 1 /\ Old(i - 1) = i
      BY <1>1, <2>4
    <3> QED BY <1>11, <2>1, <3>1
  <2> QED BY <1>1, <2>2, <2>3, <2>4
<1>16. \A i \in 1 .. t.count : /\ t.table[c[i]].next = IF i = t.count THEN Nil ELSE c[i + 1]
                               /\ t.table[c[i]].prev = IF i = 1 THEN Nil ELSE c[i - 1]
  BY DEF IsListOf
<1>17. \A i \in 1 .. t.count : (c[i] = Pred) <=> (i = p - 1)
  <2> SUFFICES ASSUME NEW i \in 1 .. t.count PROVE (c[i] = Pred) <=> (i = p - 1)
    OBVIOUS
  <2>1. CASE p = 1
    BY <1>1, <1>3, <2>1
  <2>2. CASE p # 1
    <3>1. p - 1 \in 1 .. t.count
      BY <1>1, <2>2
    <3> QED BY <1>4, <2>2, <3>1
  <2> QED BY <2>1, <2>2
<1>18. \A i \in 1 .. t.count : (c[i] = Succ) <=> (i = p + 1)
  <2> SUFFICES ASSUME NEW i \in 1 .. t.count PROVE (c[i] = Succ) <=> (i = p + 1)
    OBVIOUS
  <2>1. CASE p = t.count
    BY <1>1, <1>3, <2>1
  <2>2. CASE p # t.count
    <3>1. p + 1 \in 1 .. t.count
      BY <1>1, <2>2
    <3> QED BY <1>4, <2>2, <3>1
  <2> QED BY <2>1, <2>2
<1>19. \A i \in 1 .. t.count : i # p =>
           /\ t2.table[c[i]].next = IF i = p - 1 THEN Succ ELSE IF i = t.count THEN Nil ELSE c[i + 1]
           /\ t2.table[c[i]].prev = IF i = p + 1 THEN Pred ELSE IF i = 1 THEN Nil ELSE c[i - 1]
  <2> SUFFICES ASSUME NEW i \in 1 .. t.count, i # p
               PROVE  /\ t2.table[c[i]].next = IF i = p - 1 THEN Succ ELSE IF i = t.count THEN Nil ELSE c[i + 1]
                      /\ t2.table[c[i]].prev = IF i = p + 1 THEN Pred ELSE IF i = 1 THEN Nil ELSE c[i - 1]
    OBVIOUS
  <2> HIDE DEF Pred, Succ
  <2>1. c[i] # n /\ c[i] \in 0 .. t.size - 1
    BY <1>3, <1>4
  <2>2. /\ t2.table[c[i]].next = IF c[i] = Pred THEN Succ ELSE t.table[c[i]].next
        /\ t2.table[c[i]].prev = IF c[i] = Succ THEN Pred ELSE t.table[c[i]].prev
    BY <1>2, <2>1
  <2> QED BY <1>16, <1>17, <1>18, <2>2
<1>20. \A j \in 1 .. t.count - 1 :
           t2.table[c2[j]].next = IF j = t.count - 1 THEN Nil ELSE c2[j + 1]
  <2> SUFFICES ASSUME NEW j \in 1 .. t.count - 1
               PROVE  t2.table[c2[j]].next = IF j = t.count - 1 THEN Nil ELSE c2[j + 1]
    OBVIOUS
  <2> DEFINE i == Old(j)
  <2>1. t2.table[c2[j]].next = IF i = p - 1 THEN Succ ELSE IF i = t.count THEN Nil ELSE c[i + 1]
    <3> HIDE DEF Old, Succ, Pred
    <3> QED BY <1>11, <1>19
  <2> HIDE DEF IsShorter, IsDeletion, IsUnlinked
  <2>2. ASSUME j # t.count - 1
        PROVE  c2[j + 1] = IF j + 1 < p THEN c[j + 1] ELSE c[j + 2]
    <3>1. j + 1 \in 1 .. t.count - 1 /\ (j + 1) + 1 = j + 2
      BY <1>1, <2>2
    <3>2. \A m \in 1 .. t.count - 1 : c2[m] = IF m < p THEN c[m] ELSE c[m + 1]
      BY DEF IsShorter
    <3>3. c2[j + 1] = IF j + 1 < p THEN c[j + 1] ELSE c[(j + 1) + 1]
      BY <3>1, <3>2
    <3> QED BY <3>1, <3>3
  <2>3. CASE j < p - 1
    BY <1>1, <2>1, <2>2, <2>3
  <2>4. CASE j = p - 1
    BY <1>1, <2>1, <2>2, <2>4
  <2>5. CASE j > p - 1
    BY <1>1, <2>1, <2>2, <2>5
  <2> QED BY <1>1, <2>3, <2>4, <2>5
<1>21. \A j \in 1 .. t.count - 1 :
           t2.table[c2[j]].prev = IF j = 1 THEN Nil ELSE c2[j - 1]
  <2> SUFFICES ASSUME NEW j \in 1 .. t.count - 1
               PROVE  t2.table[c2[j]].prev = IF j = 1 THEN Nil ELSE c2[j - 1]
    OBVIOUS
  <2> DEFINE i == Old(j)
  <2>1. t2.table[c2[j]].prev = IF i = p + 1 THEN Pred ELSE IF i = 1 THEN Nil ELSE c[i - 1]
    <3> HIDE DEF Old, Succ, Pred
    <3> QED BY <1>11, <1>19
  <2>2. j # 1 => j - 1 \in 1 .. t.count - 1 /\ c2[j - 1] = IF j - 1 < p THEN c[j - 1] ELSE c[j]
    BY <1>1
  <2> QED BY <1>1, <2>1, <2>2
<1>22. t2.head = IF t2.count = 0 THEN Nil ELSE c2[1]
  <2>1. t.head = c[1] /\ 1 \in 1 .. t.count
    BY <1>1 DEF IsListOf
  <2>2. (t.head = n) <=> (p = 1)
    BY <1>4, <2>1
  <2>3. t2.count # 0 => c2[1] = IF 1 < p THEN c[1] ELSE c[2]
    BY <1>1
  <2> QED BY <1>1, <1>2, <2>1, <2>2, <2>3
<1>23. t2.tail = IF t2.count = 0 THEN Nil ELSE c2[t2.count]
  <2>1. t.tail = c[t.count] /\ t.count \in 1 .. t.count
    BY <1>1 DEF IsListOf
  <2>2. (t.tail = n) <=> (p = t.count)
    BY <1>4, <2>1
  <2>3. t2.count # 0 => c2[t2.count] = IF t.count - 1 < p THEN c[t.count - 1] ELSE c[t.count]
    BY <1>1
  <2> QED BY <1>1, <1>2, <2>1, <2>2, <2>3
<1>24. \A j \in 1 .. t.count - 1 : InUse(t2, c2[j])
  <2> HIDE DEF Old
  <2> QED BY <1>11, <1>14
<1>25. IsListOf(c2, t2)
  BY <1>13, <1>15, <1>20, <1>21, <1>22, <1>23, <1>24 DEF IsListOf
<1> QED BY <1>10, <1>25

\* The links give the list.
LEMMA ChainIsList ==
    ASSUME NEW t, t.count \in Nat, NEW c, IsListOf(c, t)
    PROVE  \A i \in 1 .. t.count : Chain(t)[i] = c[i]
<1>1. c = [i \in 1 .. t.count |-> IF i = 1 THEN t.head ELSE t.table[c[i - 1]].next]
  <2>1. \A i \in 1 .. t.count : c[i] = IF i = 1 THEN t.head ELSE t.table[c[i - 1]].next
    <3> SUFFICES ASSUME NEW i \in 1 .. t.count
                 PROVE  c[i] = IF i = 1 THEN t.head ELSE t.table[c[i - 1]].next
      OBVIOUS
    <3>1. CASE i = 1
      BY <3>1 DEF IsListOf
    <3>2. CASE i # 1
      <4>1. i - 1 \in 1 .. t.count /\ i - 1 # t.count /\ (i - 1) + 1 = i
        BY <3>2
      <4>2. t.table[c[i - 1]].next = c[(i - 1) + 1]
        BY <4>1 DEF IsListOf
      <4> QED BY <3>2, <4>1, <4>2
    <3> QED BY <3>1, <3>2
  <2>2. c = [i \in 1 .. t.count |-> c[i]]
    BY DEF IsListOf
  <2> QED BY <2>1, <2>2
<1> DEFINE at == Chain(t)
<1>2. at = [i \in 1 .. t.count |-> IF i = 1 THEN t.head ELSE t.table[at[i - 1]].next]
  BY <1>1 DEF Chain
<1> HIDE DEF at
<1>3. \A i \in 1 .. t.count : at[i] = IF i = 1 THEN t.head ELSE t.table[at[i - 1]].next
  BY <1>2
<1>4. \A i \in 1 .. t.count : c[i] = IF i = 1 THEN t.head ELSE t.table[c[i - 1]].next
  BY <1>1
<1> DEFINE T == {i \in Nat : i \in 1 .. t.count => at[i] = c[i]}
<1>5. 0 \in T
  OBVIOUS
<1>6. \A i \in Nat : i \in T => i + 1 \in T
  <2> SUFFICES ASSUME NEW i \in Nat, i \in T, i + 1 \in 1 .. t.count
               PROVE  at[i + 1] = c[i + 1]
    OBVIOUS
  <2>1. CASE i = 0
    BY <1>3, <1>4, <2>1
  <2>2. CASE i # 0
    <3>1. at[i] = c[i] /\ (i + 1) - 1 = i /\ i + 1 # 1
      BY <2>2
    <3> QED BY <1>3, <1>4, <3>1
  <2> QED BY <2>1, <2>2
<1> HIDE DEF T
<1>7. Nat \subseteq T
  BY <1>5, <1>6, InductionOn
<1> QED BY <1>7 DEF T, at

-----------------------------------------------------------------------------
(***************************************************************************)
(* A table moved to another size: its entries are inserted one by one.      *)
(***************************************************************************)

\* A new table is one, with nothing in it.
LEMMA EmptyIsTable ==
    ASSUME NEW n \in Nat \ {0}
    PROVE  /\ IsTable(EmptyTable(n)) /\ \A c : c \in [1 .. 0 -> 0 .. n - 1] => IsListOf(c, EmptyTable(n))
           /\ EmptyTable(n).size = n /\ EmptyTable(n).count = 0
           /\ \A k : ~HasKey(EmptyTable(n), k)
<1> DEFINE t == EmptyTable(n)
<1>1. /\ t.size = n /\ t.count = 0 /\ t.head = Nil /\ t.tail = Nil
      /\ t.table = [i \in 0 .. n - 1 |-> EmptySlot]
  BY DEF EmptyTable
<1> HIDE DEF t
<1>2. EmptySlot \in TableEntry /\ EmptySlot.k = EMPTY
  BY DEF EmptySlot, TableEntry, Nil
<1>3. \A m \in 0 .. n - 1 : ~InUse(t, m)
  BY <1>1, <1>2 DEF InUse
<1>4. t.table \in [0 .. n - 1 -> TableEntry]
  BY <1>1, <1>2
<1>5. IsTable(t)
  BY <1>1, <1>3, <1>4 DEF IsTable
<1>6. \A c : c \in [1 .. 0 -> 0 .. n - 1] => IsListOf(c, t)
  BY <1>1, <1>3 DEF IsListOf
<1>7. \A k : ~HasKey(t, k)
  BY <1>1, <1>3 DEF HasKey
<1> QED BY <1>1, <1>5, <1>6, <1>7 DEF t

\* The recursion of a resize is one insertion after the other.
LEMMA RefilledOneByOne ==
    ASSUME NEW t, t.count \in Nat, NEW n
    PROVE  /\ Refilled(t, n)[0] = EmptyTable(n)
           /\ \A i \in 1 .. t.count :
                  Refilled(t, n)[i] = InsertInto(Refilled(t, n)[i - 1],
                                                 t.table[Chain(t)[i]].k, t.table[Chain(t)[i]].v)
<1> DEFINE Ins(x, i) == InsertInto(x, t.table[Chain(t)[i]].k, t.table[Chain(t)[i]].v)
           Fills(g, j) == g = [i \in 0 .. j |-> IF i = 0 THEN EmptyTable(n) ELSE Ins(g[i - 1], i)]
           T == {j \in Nat : \E g : Fills(g, j)}
<1> HIDE DEF Ins
<1>1. 0 \in T
  <2>1. Fills([i \in 0 .. 0 |-> EmptyTable(n)], 0)
    OBVIOUS
  <2> QED BY <2>1
<1>2. \A j \in Nat : j \in T => j + 1 \in T
  <2> SUFFICES ASSUME NEW j \in Nat, NEW g, Fills(g, j) PROVE \E h : Fills(h, j + 1)
    OBVIOUS
  <2> DEFINE h == [i \in 0 .. j + 1 |-> IF i <= j THEN g[i] ELSE Ins(g[j], j + 1)]
  <2>1. \A i \in 0 .. j : g[i] = IF i = 0 THEN EmptyTable(n) ELSE Ins(g[i - 1], i)
    OBVIOUS
  <2>2. \A i \in 0 .. j + 1 : h[i] = IF i = 0 THEN EmptyTable(n) ELSE Ins(h[i - 1], i)
    <3> SUFFICES ASSUME NEW i \in 0 .. j + 1
                 PROVE  h[i] = IF i = 0 THEN EmptyTable(n) ELSE Ins(h[i - 1], i)
      OBVIOUS
    <3>1. CASE i = 0
      BY <2>1, <3>1
    <3>2. CASE i \in 1 .. j
      <4>1. h[i] = g[i] /\ h[i - 1] = g[i - 1] /\ i \in 0 .. j /\ i # 0
        BY <3>2
      <4> QED BY <2>1, <4>1
    <3>3. CASE i = j + 1
      <4>1. h[i] = Ins(g[j], j + 1) /\ h[i - 1] = g[j] /\ i # 0
        BY <3>3
      <4> QED BY <3>3, <4>1
    <3> QED BY <3>1, <3>2, <3>3
  <2>3. h = [i \in 0 .. j + 1 |-> h[i]]
    OBVIOUS
  <2> HIDE DEF h
  <2>4. Fills(h, j + 1)
    BY <2>2, <2>3
  <2> QED BY <2>4
<1> HIDE DEF T
<1>3. t.count \in T
  BY <1>1, <1>2, InductionOn
<1>4. \E g : g = [i \in 0 .. t.count |-> IF i = 0 THEN EmptyTable(n) ELSE Ins(g[i - 1], i)]
  BY <1>3 DEF T
<1> DEFINE f == Refilled(t, n)
<1>5. f = [i \in 0 .. t.count |-> IF i = 0 THEN EmptyTable(n) ELSE Ins(f[i - 1], i)]
  BY <1>4 DEF Refilled, Ins
<1> HIDE DEF f
<1>6. \A i \in 0 .. t.count : f[i] = IF i = 0 THEN EmptyTable(n) ELSE Ins(f[i - 1], i)
  BY <1>5
<1>7. f[0] = EmptyTable(n) /\ \A i \in 1 .. t.count : f[i] = Ins(f[i - 1], i)
  BY <1>6
<1> QED BY <1>7 DEF f, Ins

\* Two slots do not have one key.
LEMMA KeysDiffer ==
    ASSUME NEW t, IsTable(t), NEW c, IsListOf(c, t),
           NEW i \in 1 .. t.count, NEW j \in 1 .. t.count, t.table[c[i]].k = t.table[c[j]].k
    PROVE  i = j
<1>1. c[i] \in 0 .. t.size - 1 /\ c[j] \in 0 .. t.size - 1 /\ InUse(t, c[i]) /\ InUse(t, c[j])
  BY DEF IsListOf
<1>2. Lookup(t, t.table[c[i]].k) = c[i] /\ Lookup(t, t.table[c[j]].k) = c[j]
  BY <1>1, LookupFinds
<1> QED BY <1>2 DEF IsListOf

\* x is a table of the first i entries of t.
IsRefill(x, d, t, c, i) ==
    /\ IsTable(x) /\ IsListOf(d, x) /\ x.count = i
    /\ \A j \in 1 .. i : x.table[d[j]].k = t.table[c[j]].k /\ x.table[d[j]].v = t.table[c[j]].v
    /\ \A q : HasKey(x, q) <=> \E j \in 1 .. i : t.table[c[j]].k = q

\* One more entry of t is inserted.
LEMMA RefillStep ==
    ASSUME NEW t, IsTable(t), NEW c, IsListOf(c, t), NEW i \in 1 .. t.count,
           NEW x, NEW d, IsRefill(x, d, t, c, i - 1), t.count <= x.size,
           NEW y, y = InsertInto(x, t.table[c[i]].k, t.table[c[i]].v)
    PROVE  y.size = x.size /\ \E d2 : IsRefill(y, d2, t, c, i)
<1> DEFINE k == t.table[c[i]].k
           v == t.table[c[i]].v
<1>1. c[i] \in 0 .. t.size - 1 /\ InUse(t, c[i])
  BY DEF IsListOf
<1>2. k \in Keys /\ v \in Values \cup {Nil}
  BY <1>1, UsedHasKey DEF IsTable, TableEntry
<1>3. t.count \in Nat /\ x.size \in Nat /\ x.count = i - 1 /\ x.count \in Nat
  BY DEF IsTable, IsRefill
<1>4. \A j \in 1 .. i - 1 : j \in 1 .. t.count /\ j # i
  BY <1>3
<1>5. ~HasKey(x, k)
  BY <1>4, KeysDiffer DEF IsRefill
<1>6. x.count < x.size
  BY <1>3
<1>7. PICK free \in 0 .. x.size - 1 : ~InUse(x, free)
  BY <1>6, UsedSlotsCounted DEF IsRefill
<1>8. SlotFor(x, k) \in 0 .. x.size - 1
  BY <1>2, <1>7, SlotForIsFree DEF IsRefill
<1> DEFINE d2 == [j \in 1 .. x.count + 1 |-> IF j <= x.count THEN d[j] ELSE SlotFor(x, k)]
<1>9. \A j \in 1 .. x.count : d[j] \in 0 .. x.size - 1
  BY DEF IsRefill, IsListOf
<1>10. IsAppended(d2, d, x, SlotFor(x, k))
  BY <1>3, <1>8, <1>9 DEF IsAppended
<1> HIDE DEF d2, k, v
<1>11. IsTable(x) /\ IsListOf(d, x) /\ y = InsertInto(x, k, v)
  BY DEF IsRefill, k, v
<1>12. HasAlso(y, d2, x, d, k, v)
  BY <1>2, <1>5, <1>6, <1>10, <1>11, InsertedIsTable
<1>13. /\ IsTable(y) /\ IsListOf(d2, y)
       /\ y.size = x.size /\ y.count = x.count + 1
       /\ \A j \in 1 .. x.count : y.table[d2[j]].k = x.table[d[j]].k /\ y.table[d2[j]].v = x.table[d[j]].v
       /\ y.table[d2[x.count + 1]].k = k /\ y.table[d2[x.count + 1]].v = v
  BY <1>12 DEF HasAlso
<1>14. \A q : HasKey(y, q) <=> HasKey(x, q) \/ q = k
  BY <1>12 DEF HasAlso
<1>15. \A j \in 1 .. i : j \in 1 .. i - 1 \/ j = i
  BY <1>3
<1>16. \A j \in 1 .. i : y.table[d2[j]].k = t.table[c[j]].k /\ y.table[d2[j]].v = t.table[c[j]].v
  <2> SUFFICES ASSUME NEW j \in 1 .. i
               PROVE  y.table[d2[j]].k = t.table[c[j]].k /\ y.table[d2[j]].v = t.table[c[j]].v
    OBVIOUS
  <2>1. CASE j \in 1 .. i - 1
    BY <1>3, <1>13, <2>1 DEF IsRefill
  <2>2. CASE j = i
    <3>1. x.count + 1 = j
      BY <1>3, <2>2
    <3> QED BY <1>13, <2>2, <3>1 DEF k, v
  <2> QED BY <1>15, <2>1, <2>2
<1>17. \A q : HasKey(y, q) <=> \E j \in 1 .. i : t.table[c[j]].k = q
  <2> SUFFICES ASSUME NEW q PROVE HasKey(y, q) <=> \E j \in 1 .. i : t.table[c[j]].k = q
    OBVIOUS
  <2>1. HasKey(x, q) <=> \E j \in 1 .. i - 1 : t.table[c[j]].k = q
    BY DEF IsRefill
  <2>2. HasKey(y, q) <=> HasKey(x, q) \/ q = t.table[c[i]].k
    BY <1>14 DEF k
  <2>3. i \in 1 .. i /\ \A j \in 1 .. i - 1 : j \in 1 .. i
    BY <1>3
  <2> QED BY <1>15, <2>1, <2>2, <2>3
<1>18. y.count = i
  <2>1. y.count = x.count + 1
    BY <1>13
  <2> QED BY <1>3, <2>1
<1> QED BY <1>13, <1>16, <1>17, <1>18 DEF IsRefill

\* A table that is resized has the same entries in the same order.
LEMMA ResizedIsTable ==
    ASSUME NEW t, IsTable(t), NEW c, IsListOf(c, t), NEW n \in Nat \ {0}, t.count <= n
    PROVE  Resize(t, n).size = n /\ \E d : IsRefill(Resize(t, n), d, t, c, t.count)
<1> DEFINE f == Refilled(t, n)
           T == {i \in Nat : i <= t.count => f[i].size = n /\ \E d : IsRefill(f[i], d, t, c, i)}
<1>1. t.count \in Nat
  BY DEF IsTable
<1>2. \A i \in 1 .. t.count : Chain(t)[i] = c[i]
  BY <1>1, ChainIsList
<1>3. /\ f[0] = EmptyTable(n)
      /\ \A i \in 1 .. t.count : f[i] = InsertInto(f[i - 1], t.table[c[i]].k, t.table[c[i]].v)
  BY <1>1, <1>2, RefilledOneByOne
<1> HIDE DEF f
<1>4. 0 \in T
  <2> DEFINE d == [i \in 1 .. 0 |-> 0]
  <2>1. d \in [1 .. 0 -> 0 .. n - 1]
    OBVIOUS
  <2> HIDE DEF d
  <2>2. /\ IsTable(f[0]) /\ IsListOf(d, f[0])
        /\ f[0].size = n /\ f[0].count = 0 /\ \A q : ~HasKey(f[0], q)
    BY <1>3, <2>1, EmptyIsTable
  <2>3. IsRefill(f[0], d, t, c, 0)
    BY <2>2 DEF IsRefill
  <2> QED BY <2>2, <2>3
<1>5. \A i \in Nat : i \in T => i + 1 \in T
  <2> SUFFICES ASSUME NEW i \in Nat, i \in T, i + 1 <= t.count
               PROVE  f[i + 1].size = n /\ \E d : IsRefill(f[i + 1], d, t, c, i + 1)
    OBVIOUS
  <2>1. PICK d : f[i].size = n /\ IsRefill(f[i], d, t, c, i)
    BY <1>1
  <2>2. i + 1 \in 1 .. t.count /\ (i + 1) - 1 = i
    BY <1>1
  <2>3. f[i + 1] = InsertInto(f[i], t.table[c[i + 1]].k, t.table[c[i + 1]].v)
    BY <1>3, <2>2
  <2> HIDE DEF T
  <2> QED BY <2>1, <2>2, <2>3, RefillStep
<1> HIDE DEF T
<1>6. t.count \in T
  BY <1>1, <1>4, <1>5, InductionOn
<1> QED BY <1>1, <1>6 DEF T, f, Resize

-----------------------------------------------------------------------------
(***************************************************************************)
(* The map a table stands for, and what the operations do to it.            *)
(***************************************************************************)

\* The entries of a table, in the order of its list.
LEMMA EntriesAre ==
    ASSUME NEW t, IsTable(t), NEW c, IsListOf(c, t)
    PROVE  /\ EntriesOf(t) \in Seq((Keys \cup {EMPTY, FREED}) \X (Values \cup {Nil}))
           /\ Len(EntriesOf(t)) = t.count /\ DOMAIN EntriesOf(t) = 1 .. t.count
           /\ \A i \in 1 .. t.count : EntriesOf(t)[i] = <<t.table[c[i]].k, t.table[c[i]].v>>
           /\ \A k : k \in Ordered!KeysIn(EntriesOf(t)) <=> HasKey(t, k)
<1> DEFINE es == EntriesOf(t)
           S == (Keys \cup {EMPTY, FREED}) \X (Values \cup {Nil})
<1>1. t.count \in Nat /\ \A i \in 1 .. t.count : Chain(t)[i] = c[i]
  BY ChainIsList DEF IsTable
<1>2. es = [i \in 1 .. t.count |-> <<t.table[c[i]].k, t.table[c[i]].v>>]
  BY <1>1 DEF EntriesOf
<1>3. \A i \in 1 .. t.count : c[i] \in 0 .. t.size - 1 /\ InUse(t, c[i])
  BY DEF IsListOf
<1>4. \A i \in 1 .. t.count : t.table[c[i]] \in TableEntry
  BY <1>3 DEF IsTable
<1>5. \A i \in 1 .. t.count : <<t.table[c[i]].k, t.table[c[i]].v>> \in S
  BY <1>4 DEF TableEntry
<1> HIDE DEF es, S
<1>6. es \in Seq(S) /\ Len(es) = t.count /\ DOMAIN es = 1 .. t.count
  BY <1>1, <1>2, <1>5
<1>7. \A i \in 1 .. t.count : es[i] = <<t.table[c[i]].k, t.table[c[i]].v>>
  BY <1>2
<1>8. \A k : k \in Ordered!KeysIn(es) <=> HasKey(t, k)
  <2> SUFFICES ASSUME NEW k PROVE k \in Ordered!KeysIn(es) <=> HasKey(t, k)
    OBVIOUS
  <2>1. k \in Ordered!KeysIn(es) <=> \E i \in 1 .. t.count : t.table[c[i]].k = k
    BY <1>6, <1>7 DEF Ordered!KeysIn
  <2>2. ASSUME HasKey(t, k) PROVE \E i \in 1 .. t.count : t.table[c[i]].k = k
    <3>1. PICK n \in 0 .. t.size - 1 : InUse(t, n) /\ t.table[n].k = k
      BY <2>2 DEF HasKey
    <3> QED BY <3>1 DEF IsListOf
  <2>3. ASSUME NEW i \in 1 .. t.count, t.table[c[i]].k = k PROVE HasKey(t, k)
    BY <1>3, <2>3 DEF HasKey
  <2> QED BY <2>1, <2>2, <2>3
<1> QED BY <1>6, <1>7, <1>8 DEF es, S

\* An insertion appends an entry.
LEMMA InsertedEntries ==
    ASSUME NEW t, IsTable(t), NEW c, IsListOf(c, t), NEW k, NEW v,
           NEW u, NEW c2, HasAlso(u, c2, t, c, k, v)
    PROVE  EntriesOf(u) = Append(EntriesOf(t), <<k, v>>)
<1> DEFINE es == EntriesOf(t)
           es2 == EntriesOf(u)
<1>1. /\ es \in Seq((Keys \cup {EMPTY, FREED}) \X (Values \cup {Nil}))
      /\ Len(es) = t.count /\ DOMAIN es = 1 .. t.count
      /\ \A i \in 1 .. t.count : es[i] = <<t.table[c[i]].k, t.table[c[i]].v>>
  BY EntriesAre
<1>2. IsTable(u) /\ IsListOf(c2, u) /\ u.count = t.count + 1 /\ t.count \in Nat
  BY DEF HasAlso, IsTable
<1>3. /\ es2 \in Seq((Keys \cup {EMPTY, FREED}) \X (Values \cup {Nil}))
      /\ Len(es2) = t.count + 1
      /\ \A i \in 1 .. t.count + 1 : es2[i] = <<u.table[c2[i]].k, u.table[c2[i]].v>>
  BY <1>2, EntriesAre
<1> HIDE DEF es, es2
<1>4. \A i \in 1 .. t.count : es2[i] = es[i]
  <2> SUFFICES ASSUME NEW i \in 1 .. t.count PROVE es2[i] = es[i]
    OBVIOUS
  <2>1. i \in 1 .. t.count + 1
    BY <1>2
  <2>2. u.table[c2[i]].k = t.table[c[i]].k /\ u.table[c2[i]].v = t.table[c[i]].v
    BY DEF HasAlso
  <2> QED BY <1>1, <1>3, <2>1, <2>2
<1>5. es2[t.count + 1] = <<k, v>>
  BY <1>2, <1>3 DEF HasAlso
<1>6. es2 = Append(es, <<k, v>>)
  BY <1>1, <1>2, <1>3, <1>4, <1>5
<1> QED BY <1>6 DEF es, es2

\* A replacement changes the value where the key is.
LEMMA ReplacedEntries ==
    ASSUME NEW t, IsTable(t), NEW c, IsListOf(c, t), NEW k, NEW v,
           NEW n \in 0 .. t.size - 1, InUse(t, n), t.table[n].k = k,
           NEW u, HasInstead(u, t, c, n, v)
    PROVE  /\ k \in Ordered!KeysIn(EntriesOf(t))
           /\ EntriesOf(u) = [i \in DOMAIN EntriesOf(t) |->
                                 IF EntriesOf(t)[i][1] = k THEN <<k, v>> ELSE EntriesOf(t)[i]]
<1> DEFINE es == EntriesOf(t)
           es2 == EntriesOf(u)
<1>1. /\ DOMAIN es = 1 .. t.count
      /\ \A i \in 1 .. t.count : es[i] = <<t.table[c[i]].k, t.table[c[i]].v>>
  BY EntriesAre
<1>2. k \in Ordered!KeysIn(es)
  BY EntriesAre DEF HasKey
<1>3. /\ es2 \in Seq((Keys \cup {EMPTY, FREED}) \X (Values \cup {Nil})) /\ DOMAIN es2 = 1 .. t.count
      /\ \A i \in 1 .. t.count : es2[i] = <<u.table[c[i]].k, u.table[c[i]].v>>
  BY EntriesAre DEF HasInstead
<1> HIDE DEF es, es2
<1>4. \A i \in 1 .. t.count : es2[i] = IF es[i][1] = k THEN <<k, v>> ELSE es[i]
  <2> SUFFICES ASSUME NEW i \in 1 .. t.count
               PROVE  es2[i] = IF es[i][1] = k THEN <<k, v>> ELSE es[i]
    OBVIOUS
  <2>1. c[i] \in 0 .. t.size - 1 /\ InUse(t, c[i])
    BY DEF IsListOf
  <2>2. es[i][1] = t.table[c[i]].k
    BY <1>1
  <2>3. CASE c[i] = n
    BY <1>3, <2>1, <2>2, <2>3 DEF HasInstead
  <2>4. CASE c[i] # n
    <3>1. t.table[c[i]].k # k
      BY <2>1, <2>4, LookupFinds
    <3>2. u.table[c[i]].k = t.table[c[i]].k /\ u.table[c[i]].v = t.table[c[i]].v
      BY <2>1, <2>4 DEF HasInstead
    <3>3. es2[i] = es[i]
      BY <1>1, <1>3, <3>2
    <3> QED BY <2>2, <3>1, <3>3
  <2> QED BY <2>3, <2>4
<1>5. es2 = [i \in 1 .. t.count |-> es2[i]]
  BY <1>3
<1>6. es2 = [i \in DOMAIN es |-> IF es[i][1] = k THEN <<k, v>> ELSE es[i]]
  BY <1>1, <1>4, <1>5
<1> QED BY <1>2, <1>6 DEF es, es2

\* A deletion takes one entry out of the list.
LEMMA DeletedEntries ==
    ASSUME NEW t, IsTable(t), NEW c, IsListOf(c, t), NEW p \in 1 .. t.count,
           NEW u, NEW c2, IsTable(u), IsListOf(c2, u),
           IsShorter(c2, c, t, p), IsDeletion(u, t, c[p])
    PROVE  /\ p \in DOMAIN EntriesOf(t) /\ EntriesOf(t)[p][1] = t.table[c[p]].k
           /\ EntriesOf(u) = [j \in 1 .. Len(EntriesOf(t)) - 1 |->
                                 IF j < p THEN EntriesOf(t)[j] ELSE EntriesOf(t)[j + 1]]
<1> DEFINE es == EntriesOf(t)
           es2 == EntriesOf(u)
<1>1. /\ Len(es) = t.count /\ DOMAIN es = 1 .. t.count
      /\ \A i \in 1 .. t.count : es[i] = <<t.table[c[i]].k, t.table[c[i]].v>>
  BY EntriesAre
<1>2. /\ es2 \in Seq((Keys \cup {EMPTY, FREED}) \X (Values \cup {Nil})) /\ DOMAIN es2 = 1 .. t.count - 1
      /\ \A i \in 1 .. t.count - 1 : es2[i] = <<u.table[c2[i]].k, u.table[c2[i]].v>>
  BY EntriesAre DEF IsDeletion
<1> HIDE DEF es, es2
<1>3. t.count \in Nat /\ p \in Nat
  BY DEF IsTable
<1>4. \A j \in 1 .. t.count - 1 : es2[j] = IF j < p THEN es[j] ELSE es[j + 1]
  <2> SUFFICES ASSUME NEW j \in 1 .. t.count - 1
               PROVE  es2[j] = IF j < p THEN es[j] ELSE es[j + 1]
    OBVIOUS
  <2> DEFINE i == IF j < p THEN j ELSE j + 1
  <2>1. i \in 1 .. t.count /\ i # p /\ c2[j] = c[i]
    BY <1>3 DEF IsShorter
  <2>2. c[i] \in 0 .. t.size - 1 /\ c[i] # c[p]
    <3> HIDE DEF i
    <3> QED BY <2>1 DEF IsListOf
  <2>3. es2[j] = es[i]
    <3> HIDE DEF i
    <3>1. u.table[c[i]].k = t.table[c[i]].k /\ u.table[c[i]].v = t.table[c[i]].v
      BY <2>2 DEF IsDeletion, IsUnlinked
    <3>2. es2[j] = <<u.table[c[i]].k, u.table[c[i]].v>>
      BY <1>2, <2>1
    <3>3. es[i] = <<t.table[c[i]].k, t.table[c[i]].v>>
      BY <1>1, <2>1
    <3> QED BY <3>1, <3>2, <3>3
  <2> QED BY <2>3
<1>5. es2 = [j \in 1 .. t.count - 1 |-> es2[j]]
  BY <1>2
<1>6. es2 = [j \in 1 .. Len(es) - 1 |-> IF j < p THEN es[j] ELSE es[j + 1]]
  BY <1>1, <1>4, <1>5
<1> QED BY <1>1, <1>6 DEF es, es2

TableInv == \E c : IsTable(ThisTable) /\ IsListOf(c, ThisTable)

\* The invariant says all that FindsEveryKey says.
LEMMA TableInvIsEnough == TableInv => FindsEveryKey
<1> SUFFICES ASSUME NEW c, IsTable(ThisTable), IsListOf(c, ThisTable)
             PROVE  FindsEveryKey
  BY DEF TableInv
<1>1. PICK t : t = ThisTable
  OBVIOUS
<1>2. /\ t.table = buckets /\ t.size = slots /\ t.count = count
      /\ t.head = head /\ t.tail = tail
  BY <1>1 DEF ThisTable
<1>3. IsTable(t) /\ IsListOf(c, t)
  BY <1>1
<1>4. UsedSlots = {n \in 0 .. t.size - 1 : InUse(t, n)}
  BY <1>1, <1>2 DEF UsedSlots
<1>5. \A n \in UsedSlots : Lookup(t, t.table[n].k) = n
  BY <1>3, <1>4, LookupFinds
<1>6. \A n \in UsedSlots : Lookup(ThisTable, buckets[n].k) = n
  BY <1>1, <1>2, <1>5
<1>7. count \in Nat /\ \A i \in 1 .. count : Chain(ThisTable)[i] = c[i]
  BY <1>1, <1>2, <1>3, ChainIsList DEF IsTable
<1>8. {Chain(ThisTable)[i] : i \in 1 .. count} = UsedSlots
  <2>1. {Chain(ThisTable)[i] : i \in 1 .. count} = {c[i] : i \in 1 .. count}
    BY <1>7
  <2>2. \A i \in 1 .. count : c[i] \in UsedSlots
    BY <1>2, <1>3, <1>4 DEF IsListOf
  <2>3. \A n \in UsedSlots : \E i \in 1 .. count : c[i] = n
    BY <1>2, <1>3, <1>4 DEF IsListOf
  <2> QED BY <2>1, <2>2, <2>3
<1>9. Cardinality(UsedSlots) = count
  BY <1>2, <1>3, <1>4, UsedSlotsCounted
<1>10. \A i \in 1 .. count : i # 1 => i - 1 \in 1 .. count
  BY <1>7
<1>11. \A i \in 1 .. count : buckets[c[i]].prev = IF i = 1 THEN Nil ELSE c[i - 1]
  BY <1>2, <1>3 DEF IsListOf
<1>12. \A i \in 1 .. count :
           buckets[Chain(ThisTable)[i]].prev = IF i = 1 THEN Nil ELSE Chain(ThisTable)[i - 1]
  BY <1>7, <1>10, <1>11
<1>13. IF count = 0 THEN head = Nil /\ tail = Nil
                    ELSE buckets[c[count]].next = Nil /\ tail = c[count]
  BY <1>2, <1>3, <1>7 DEF IsListOf
<1>14. IF count = 0 THEN head = Nil /\ tail = Nil
                    ELSE buckets[Chain(ThisTable)[count]].next = Nil /\ tail = Chain(ThisTable)[count]
  BY <1>7, <1>13
<1> QED BY <1>6, <1>8, <1>9, <1>12, <1>14 DEF FindsEveryKey, ListIsWhole

\* The table begins empty.
LEMMA TableBegins == TableInit => TableInv /\ EntriesOf(ThisTable) = <<>>
<1> SUFFICES ASSUME TableInit PROVE TableInv /\ EntriesOf(ThisTable) = <<>>
  OBVIOUS
<1>1. ThisTable = EmptyTable(InitSize) /\ InitSize \in Nat \ {0}
  BY TableAssumption DEF TableInit, ThisTable, EmptyTable
<1> DEFINE c == [i \in 1 .. 0 |-> 0]
<1>2. c \in [1 .. 0 -> 0 .. InitSize - 1]
  OBVIOUS
<1> HIDE DEF c
<1>3. IsTable(ThisTable) /\ IsListOf(c, ThisTable) /\ ThisTable.count = 0
  BY <1>1, <1>2, EmptyIsTable
<1>4. EntriesOf(ThisTable) = <<>>
  BY <1>3, EntriesAre
<1> QED BY <1>3, <1>4 DEF TableInv

\* An insertion into a table, be it this one or one of its size or larger that
\* has the same entries.
LEMMA InsertKeepsTable ==
    ASSUME NEW r, NEW d, IsTable(r), IsListOf(d, r), r.count < r.size,
           NEW k \in Keys, NEW v \in Values, ~HasKey(r, k), NEW u, u = InsertInto(r, k, v)
    PROVE  \E c2 : HasAlso(u, c2, r, d, k, v)
<1>1. PICK free \in 0 .. r.size - 1 : ~InUse(r, free)
  BY UsedSlotsCounted
<1>2. SlotFor(r, k) \in 0 .. r.size - 1
  BY <1>1, SlotForIsFree
<1> DEFINE c2 == [i \in 1 .. r.count + 1 |-> IF i <= r.count THEN d[i] ELSE SlotFor(r, k)]
<1>3. r.count \in Nat /\ \A i \in 1 .. r.count : d[i] \in 0 .. r.size - 1
  BY DEF IsTable, IsListOf
<1>4. IsAppended(c2, d, r, SlotFor(r, k))
  BY <1>2, <1>3 DEF IsAppended
<1> HIDE DEF c2
<1>5. HasAlso(u, c2, r, d, k, v)
  BY <1>4, InsertedIsTable
<1> QED BY <1>5

\* Resizing does not change the entries.
LEMMA ResizedEntries ==
    ASSUME NEW t, IsTable(t), NEW c, IsListOf(c, t), NEW r, NEW d, IsRefill(r, d, t, c, t.count)
    PROVE  /\ EntriesOf(r) = EntriesOf(t)
           /\ \A q : HasKey(r, q) => HasKey(t, q)
<1>1. IsTable(r) /\ IsListOf(d, r) /\ r.count = t.count
  BY DEF IsRefill
<1>2. /\ EntriesOf(t) \in Seq((Keys \cup {EMPTY, FREED}) \X (Values \cup {Nil}))
      /\ DOMAIN EntriesOf(t) = 1 .. t.count
      /\ \A i \in 1 .. t.count : EntriesOf(t)[i] = <<t.table[c[i]].k, t.table[c[i]].v>>
  BY EntriesAre
<1>3. /\ EntriesOf(r) \in Seq((Keys \cup {EMPTY, FREED}) \X (Values \cup {Nil}))
      /\ DOMAIN EntriesOf(r) = 1 .. t.count
      /\ \A i \in 1 .. t.count : EntriesOf(r)[i] = <<r.table[d[i]].k, r.table[d[i]].v>>
  BY <1>1, EntriesAre
<1>4. \A i \in 1 .. t.count : EntriesOf(r)[i] = EntriesOf(t)[i]
  BY <1>2, <1>3 DEF IsRefill
<1>5. EntriesOf(r) = EntriesOf(t)
  <2>1. EntriesOf(r) = [i \in 1 .. t.count |-> EntriesOf(r)[i]]
    BY <1>3
  <2>2. EntriesOf(t) = [i \in 1 .. t.count |-> EntriesOf(t)[i]]
    BY <1>2
  <2> QED BY <1>4, <2>1, <2>2
<1>6. ASSUME NEW q, HasKey(r, q) PROVE HasKey(t, q)
  <2>1. PICK j \in 1 .. t.count : t.table[c[j]].k = q
    BY <1>6 DEF IsRefill
  <2>2. c[j] \in 0 .. t.size - 1 /\ InUse(t, c[j])
    BY DEF IsListOf
  <2> QED BY <2>1, <2>2 DEF HasKey
<1> QED BY <1>5, <1>6

\* Every operation keeps the invariant and is one of the map.
LEMMA TableStep ==
    ASSUME TableInv, TableNext
    PROVE  TableInv' /\ Ordered!Next
<1>1. PICK t : t = ThisTable
  OBVIOUS
<1>2. PICK u : u = ThisTable'
  OBVIOUS
<1>3. /\ t.table = buckets /\ t.size = slots /\ t.count = count
      /\ t.head = head /\ t.tail = tail
  BY <1>1 DEF ThisTable
<1>4. /\ u.table = buckets' /\ u.size = slots' /\ u.count = count'
      /\ u.head = head' /\ u.tail = tail'
  BY <1>2 DEF ThisTable
<1>5. PICK c : IsTable(t) /\ IsListOf(c, t)
  BY <1>1 DEF TableInv
<1>6. EntriesOf(ThisTable) = EntriesOf(t) /\ EntriesOf(ThisTable)' = EntriesOf(u)
  BY <1>1, <1>2
<1>7. ASSUME NEW c2, IsTable(u), IsListOf(c2, u) PROVE TableInv'
  BY <1>2, <1>7 DEF TableInv
<1>8. PICK k \in Keys : DeleteEntry(k) \/ \E v \in Values : ReplaceEntry(k, v) \/ InsertEntry(k, v)
  BY DEF TableNext
<1>9. CASE DeleteEntry(k)
  <2>1. PICK n : n = Lookup(t, k)
    OBVIOUS
  <2>2. n # Nil
    BY <1>1, <1>9, <2>1 DEF DeleteEntry
  <2>3. n \in 0 .. t.size - 1 /\ InUse(t, n) /\ t.table[n].k = k
    BY <1>5, <2>1, <2>2, LookupIs
  <2>4. PICK p \in 1 .. t.count : c[p] = n
    BY <1>5, <2>3 DEF IsListOf
  <2>5. /\ u.size = t.size /\ u.count = t.count - 1
        /\ u.head = (IF t.head = n THEN t.table[n].next ELSE t.head)
        /\ u.tail = (IF t.tail = n THEN t.table[n].prev ELSE t.tail)
    BY <1>1, <1>3, <1>4, <1>9, <2>1 DEF DeleteEntry
  <2>6. u.table = Unlinked(t, n)
    BY <1>1, <1>3, <1>4, <1>9, <2>1 DEF DeleteEntry, Unlinked
  <2>7. IsUnlinked(u, t, n)
    BY <1>5, <2>3, <2>6, DeletedSlots
  <2>8. IsDeletion(u, t, n)
    BY <2>5, <2>7 DEF IsDeletion
  <2> DEFINE c2 == [j \in 1 .. t.count - 1 |-> IF j < p THEN c[j] ELSE c[j + 1]]
  <2>9. t.count \in Nat /\ \A i \in 1 .. t.count : c[i] \in 0 .. t.size - 1
    BY <1>5 DEF IsTable, IsListOf
  <2>10. IsShorter(c2, c, t, p)
    BY <2>4, <2>9 DEF IsShorter
  <2> HIDE DEF c2
  <2>11. IsTable(u) /\ IsListOf(c2, u)
    BY <1>5, <2>4, <2>8, <2>10, DeletedIsTable
  <2>12. /\ p \in DOMAIN EntriesOf(t) /\ EntriesOf(t)[p][1] = t.table[c[p]].k
         /\ EntriesOf(u) = [j \in 1 .. Len(EntriesOf(t)) - 1 |->
                                 IF j < p THEN EntriesOf(t)[j] ELSE EntriesOf(t)[j + 1]]
    BY <1>5, <2>4, <2>8, <2>10, <2>11, DeletedEntries
  <2>13. Ordered!Del(k)
    BY <1>6, <2>3, <2>4, <2>12 DEF Ordered!Del
  <2> QED BY <1>7, <1>8, <2>11, <2>13 DEF Ordered!Next
<1>10. ASSUME NEW v \in Values, ReplaceEntry(k, v) PROVE TableInv' /\ Ordered!Next
  <2>1. PICK n : n = Lookup(t, k)
    OBVIOUS
  <2>2. n # Nil
    BY <1>1, <1>10, <2>1 DEF ReplaceEntry
  <2>3. n \in 0 .. t.size - 1 /\ InUse(t, n) /\ t.table[n].k = k
    BY <1>5, <2>1, <2>2, LookupIs
  <2>4. IsReplacement(u, t, n, v)
    BY <1>1, <1>3, <1>4, <1>10, <2>1 DEF ReplaceEntry, IsReplacement
  <2>5. HasInstead(u, t, c, n, v)
    BY <1>5, <1>10, <2>3, <2>4, ReplacedIsTable
  <2>6. /\ k \in Ordered!KeysIn(EntriesOf(t))
        /\ EntriesOf(u) = [i \in DOMAIN EntriesOf(t) |->
                              IF EntriesOf(t)[i][1] = k THEN <<k, v>> ELSE EntriesOf(t)[i]]
    BY <1>5, <2>3, <2>5, ReplacedEntries
  <2>7. Ordered!Add(k, v)
    BY <1>6, <2>6 DEF Ordered!Add
  <2> QED BY <1>7, <1>8, <1>10, <2>5, <2>7 DEF Ordered!Next, HasInstead
<1>11. ASSUME NEW v \in Values, InsertEntry(k, v) PROVE TableInv' /\ Ordered!Next
  <2>1. Lookup(t, k) = Nil
    BY <1>1, <1>11 DEF InsertEntry
  <2>2. ~HasKey(t, k)
    BY <1>5, <2>1, LookupMisses
  <2>3. t.size \in Nat \ {0} /\ t.count \in Nat /\ t.count <= t.size
    BY <1>5, UsedSlotsCounted DEF IsTable
  <2>4. \E r, d : /\ IsTable(r) /\ IsListOf(d, r) /\ r.count < r.size /\ ~HasKey(r, k)
                  /\ EntriesOf(r) = EntriesOf(t) /\ u = InsertInto(r, k, v)
    <3>1. CASE ~MustGrow
      <4>1. t.count < t.size
        BY <1>3, <2>3, <3>1 DEF MustGrow
      <4>2. u = InsertInto(t, k, v)
        BY <1>1, <1>2, <1>11, <3>1 DEF InsertEntry, Becomes, ThisTable, InsertInto
      <4> QED BY <1>5, <2>2, <4>1, <4>2
    <3>2. CASE MustGrow
      <4>1. PICK n : n = IF slots > MaxSize \div 2 THEN MaxSize ELSE 2 * slots
        OBVIOUS
      <4>2. slots < MaxSize
        BY <1>11, <3>2 DEF InsertEntry
      <4>3. n \in Nat \ {0} /\ t.size < n
        BY <1>3, <2>3, <4>1, <4>2, TableAssumption
      <4>4. PICK r : r = Resize(t, n)
        OBVIOUS
      <4>5. u = InsertInto(r, k, v)
        BY <1>1, <1>2, <1>11, <3>2, <4>1, <4>4 DEF InsertEntry, Becomes, ThisTable, InsertInto
      <4>6. PICK d : r.size = n /\ IsRefill(r, d, t, c, t.count)
        BY <1>5, <2>3, <4>3, <4>4, ResizedIsTable
      <4>7. IsTable(r) /\ IsListOf(d, r) /\ r.count < r.size
        BY <2>3, <4>3, <4>6 DEF IsRefill
      <4>8. EntriesOf(r) = EntriesOf(t) /\ ~HasKey(r, k)
        BY <1>5, <2>2, <4>6, ResizedEntries
      <4> QED BY <4>5, <4>7, <4>8
    <3> QED BY <3>1, <3>2
  <2>5. PICK r, d : /\ IsTable(r) /\ IsListOf(d, r) /\ r.count < r.size /\ ~HasKey(r, k)
                    /\ EntriesOf(r) = EntriesOf(t) /\ u = InsertInto(r, k, v)
    BY <2>4
  <2>6. PICK c2 : HasAlso(u, c2, r, d, k, v)
    BY <1>8, <1>11, <2>5, InsertKeepsTable
  <2>7. EntriesOf(u) = Append(EntriesOf(t), <<k, v>>)
    BY <2>5, <2>6, InsertedEntries
  <2>8. k \notin Ordered!KeysIn(EntriesOf(t))
    BY <1>5, <2>2, EntriesAre
  <2>9. Ordered!Add(k, v)
    BY <1>6, <2>7, <2>8 DEF Ordered!Add
  <2> QED BY <1>7, <1>8, <1>11, <2>6, <2>9 DEF Ordered!Next, HasAlso
<1> QED BY <1>8, <1>9, <1>10, <1>11

\* Whatever was inserted, replaced, deleted and moved to a larger table, every key
\* in the table of linkhash.c is found by lh_table_lookup_entry, and the list
\* that json_object_object_foreach follows is whole: for any keys, hash and sizes.
THEOREM FindsEveryKeyHolds == TableSpec => []FindsEveryKey
<1>1. TableInit => TableInv
  BY TableBegins
<1>2. TableInv /\ [TableNext]_tableVars => TableInv'
  <2>1. CASE UNCHANGED tableVars
    BY <2>1 DEF tableVars, TableInv, ThisTable
  <2> QED BY <2>1, TableStep
<1>3. TableInv => FindsEveryKey
  BY TableInvIsEnough
<1> QED BY <1>1, <1>2, <1>3, PTL DEF TableSpec

\* Every step of the table is one of a map that keeps its keys in the order they
\* were added: slots freed, probes that go round, a table moved to another size
\* are never seen from outside.
THEOREM TableIsOrderedMap == TableSpec => IsOrderedMap
<1>1. TableInit => TableInv /\ Ordered!Init
  BY TableBegins DEF Ordered!Init
<1>2. TableInv /\ [TableNext]_tableVars => TableInv' /\ [Ordered!Next]_(EntriesOf(ThisTable))
  <2>1. ASSUME UNCHANGED tableVars PROVE UNCHANGED ThisTable
    BY <2>1 DEF tableVars, ThisTable
  <2>2. CASE UNCHANGED tableVars
    BY <2>1, <2>2 DEF TableInv
  <2> QED BY <2>2, TableStep
<1> QED BY <1>1, <1>2, PTL DEF TableSpec, IsOrderedMap, Ordered!Spec
=============================================================================
