-------------------------------- MODULE Json_proofs --------------------------------
(***************************************************************************)
(* The parts of json-c: lists, strings, the print buffer, integers, and     *)
(* values: their reference counts and their comparison.                     *)
(***************************************************************************)
EXTENDS ArrayList, JsonString, PrintBuf, JsonNumber, JsonObject,
        FiniteSetTheorems, NaturalsInduction, WellFoundedInduction, TLAPS

-----------------------------------------------------------------------------
(***************************************************************************)
(* Who owns what a list of json-c points to, for any items and any number   *)
(* of slots.                                                                *)
(***************************************************************************)

\* The room asked for is there, or it is refused.
LEMMA ExpandedFits ==
    ASSUME allocated \in Nat, NEW max \in Nat
    PROVE  /\ Expanded(max) \in Nat
           /\ Expanded(max) > 0 => Expanded(max) >= max /\ Expanded(max) >= allocated
  BY DEF Expanded

LEMMA ResizedFacts ==
    ASSUME array \in Seq(Slots), NEW n \in Nat, NEW garbage \in Slots
    PROVE  /\ Resized(n, garbage) \in Seq(Slots) /\ Len(Resized(n, garbage)) = n
           /\ DOMAIN Resized(n, garbage) = 1 .. n
           /\ \A i \in 1 .. n : i <= allocated => Resized(n, garbage)[i] = array[i]
           /\ \A i \in 1 .. n : Resized(n, garbage)[i] \in Slots
<1> DEFINE r == Resized(n, garbage)
<1>1. /\ r = [i \in 1 .. n |-> r[i]]
      /\ \A i \in 1 .. n : r[i] = IF i <= allocated THEN array[i] ELSE garbage
  BY DEF Resized
<1>2. \A i \in 1 .. n : i <= allocated => array[i] \in Slots
  BY DEF allocated
<1>3. \A i \in 1 .. n : r[i] \in Slots
  BY <1>1, <1>2
<1> HIDE DEF r
<1>4. r \in Seq(Slots) /\ Len(r) = n /\ DOMAIN r = 1 .. n
  BY <1>1, <1>3
<1> QED BY <1>1, <1>3, <1>4 DEF r

\* Who owns the items, said of the slots 1 .. n that are elements.
Owned(a, n, own) ==
    /\ \A i \in 1 .. n : a[i] # Null => own[a[i]] = "list"
    /\ \A i, j \in 1 .. n : i # j /\ a[i] # Null => a[i] # a[j]
    /\ \A item \in Items : own[item] = "list" => \E i \in 1 .. n : a[i] = item

LEMMA OwnedElements ==
    ASSUME length \in Nat
    PROVE  OwnsItsElements <=> ListTypeOK /\ Owned(array, length, owner)
<1>1. \A i \in Elements : i + 1 \in 1 .. length
  BY DEF Elements
<1>2. \A i \in 1 .. length : i - 1 \in Elements /\ (i - 1) + 1 = i
  BY DEF Elements
<1>3. ASSUME OwnsItsElements PROVE Owned(array, length, owner)
  <2>1. \A i \in 1 .. length : ElementAt(i - 1) = array[i]
    BY <1>2 DEF ElementAt
  <2>2. \A i \in 1 .. length : array[i] # Null => owner[array[i]] = "list"
    BY <1>2, <1>3, <2>1 DEF OwnsItsElements
  <2>3. \A i, j \in 1 .. length : i # j /\ array[i] # Null => array[i] # array[j]
    <3> SUFFICES ASSUME NEW i \in 1 .. length, NEW j \in 1 .. length, i # j, array[i] # Null
                 PROVE  array[i] # array[j]
      OBVIOUS
    <3>1. i - 1 \in Elements /\ j - 1 \in Elements /\ i - 1 # j - 1
      BY <1>2
    <3> QED BY <1>3, <2>1, <3>1 DEF OwnsItsElements
  <2>4. \A item \in Items : owner[item] = "list" => \E i \in 1 .. length : array[i] = item
    BY <1>1, <1>3 DEF OwnsItsElements, ElementAt
  <2> QED BY <2>2, <2>3, <2>4 DEF Owned
<1>4. ASSUME Owned(array, length, owner) PROVE
        /\ \A i \in Elements : ElementAt(i) # Null => owner[ElementAt(i)] = "list"
        /\ \A i, j \in Elements : i # j /\ ElementAt(i) # Null => ElementAt(i) # ElementAt(j)
        /\ \A item \in Items : owner[item] = "list" => \E i \in Elements : ElementAt(i) = item
  BY <1>1, <1>2, <1>4 DEF Owned, ElementAt, Elements
<1> QED BY <1>3, <1>4 DEF OwnsItsElements

ListInv == ListTypeOK /\ Owned(array, length, owner)

LEMMA AllocatedIsNat == ListTypeOK => allocated \in Nat /\ length \in Nat /\ length <= allocated
  BY DEF ListTypeOK, allocated

\* An item of the caller is put at idx: into a slot, or behind the end.
LEMMA PutStep ==
    ASSUME ListInv, NEW item \in Items, NEW idx \in Nat, PutIdx(idx, item)
    PROVE  ListInv'
<1>1. PICK garbage \in Slots :
          LET n == Expanded(idx + 1)
              grown == Resized(n, garbage)
              old == IF idx < length THEN {ElementAt(idx)} ELSE {}
          IN  /\ n > 0
              /\ array' = [i \in 1 .. n |-> IF i = idx + 1 THEN item
                                            ELSE IF i > length /\ i <= idx THEN Null ELSE grown[i]]
              /\ length' = IF length <= idx THEN idx + 1 ELSE length
              /\ owner' = [Freed(old) EXCEPT ![item] = "list"]
  BY DEF PutIdx
<1> DEFINE n == Expanded(idx + 1)
           grown == Resized(n, garbage)
           old == IF idx < length THEN {ElementAt(idx)} ELSE {}
<1>2. /\ array \in Seq(Slots) /\ allocated \in Nat /\ length \in Nat /\ length <= allocated
      /\ owner \in [Items -> {"caller", "list", "nobody"}] /\ owner[item] = "caller"
      /\ Owned(array, length, owner)
  BY AllocatedIsNat DEF ListInv, ListTypeOK, PutIdx
<1>3. n \in Nat /\ n >= idx + 1 /\ n >= allocated
  BY <1>1, <1>2, ExpandedFits
<1>4. \A i \in 1 .. n : grown[i] \in Slots /\ (i <= allocated => grown[i] = array[i])
  BY <1>2, <1>3, ResizedFacts
<1>5. /\ array' = [i \in 1 .. n |-> IF i = idx + 1 THEN item
                                     ELSE IF i > length /\ i <= idx THEN Null ELSE grown[i]]
      /\ length' = IF length <= idx THEN idx + 1 ELSE length
      /\ owner' = [Freed(old) EXCEPT ![item] = "list"]
  BY <1>1
<1> HIDE DEF n, grown
<1>6. /\ DOMAIN array' = 1 .. n /\ array'[idx + 1] = item
      /\ \A i \in 1 .. n : array'[i] \in Slots
      /\ \A i \in 1 .. length : i # idx + 1 => array'[i] = array[i]
      /\ \A i \in 1 .. length' : i > length /\ i # idx + 1 => array'[i] = Null
  BY <1>2, <1>3, <1>4, <1>5 DEF Slots
<1>7. array' \in Seq(Slots) /\ allocated' = n
  BY <1>3, <1>5, <1>6 DEF allocated
<1>8. length' \in 0 .. n /\ length <= length' /\ idx + 1 \in 1 .. length'
  BY <1>2, <1>3, <1>5
<1>9. /\ owner' \in [Items -> {"caller", "list", "nobody"}] /\ owner'[item] = "list"
      /\ \A x \in Items \ {item} : owner'[x] = IF x \in old THEN "nobody" ELSE owner[x]
  BY <1>2, <1>5 DEF Freed
<1>10. idx < length => array[idx + 1] \in old
  BY DEF ElementAt
<1>11. old \subseteq {array[i] : i \in {k \in 1 .. length : k = idx + 1}}
  BY <1>2 DEF ElementAt
<1> HIDE DEF old
<1>12. ASSUME NEW i \in 1 .. length', array'[i] # Null, i # idx + 1
       PROVE  i \in 1 .. length /\ array'[i] = array[i] /\ array[i] \in Items \ (old \cup {item})
  <2>1. i \in 1 .. length /\ array'[i] = array[i]
    BY <1>2, <1>6, <1>8, <1>12
  <2>2. array[i] \in Items /\ owner[array[i]] = "list" /\ array[i] # item
    BY <1>2, <1>12, <2>1 DEF Owned, Slots, allocated
  <2>3. array[i] \notin old
    BY <1>2, <1>11, <1>12, <2>1 DEF Owned
  <2> QED BY <2>1, <2>2, <2>3
<1>13. \A i \in 1 .. length' : array'[i] # Null => owner'[array'[i]] = "list"
  BY <1>2, <1>6, <1>9, <1>12 DEF Owned
<1>14. ASSUME NEW i \in 1 .. length', NEW j \in 1 .. length', i # j, array'[i] # Null
       PROVE  array'[i] # array'[j]
  <2>1. CASE i = idx + 1
    BY <1>6, <1>12, <1>14, <2>1
  <2>2. CASE i # idx + 1 /\ j = idx + 1
    BY <1>6, <1>12, <1>14, <2>2
  <2>3. CASE i # idx + 1 /\ j # idx + 1
    BY <1>2, <1>12, <1>14, <2>3 DEF Owned
  <2> QED BY <2>1, <2>2, <2>3
<1>15. ASSUME NEW x \in Items, owner'[x] = "list" PROVE \E i \in 1 .. length' : array'[i] = x
  <2>1. CASE x = item
    BY <1>6, <1>8, <2>1
  <2>2. CASE x # item
    <3>1. owner[x] = "list" /\ x \notin old
      BY <1>9, <1>15, <2>2
    <3>2. PICK i \in 1 .. length : array[i] = x
      BY <1>2, <3>1 DEF Owned
    <3>3. i # idx + 1 /\ i \in 1 .. length'
      BY <1>2, <1>8, <1>10, <3>1, <3>2
    <3> QED BY <1>6, <3>2, <3>3
  <2> QED BY <2>1, <2>2
<1> QED BY <1>7, <1>8, <1>9, <1>13, <1>14, <1>15 DEF ListInv, ListTypeOK, Owned

\* array_list_add: behind the end.
LEMMA AddStep ==
    ASSUME ListInv, NEW item \in Items, Add(item)
    PROVE  ListInv'
<1>1. PICK garbage \in Slots :
          /\ Expanded(length + 1) > 0
          /\ array' = [Resized(Expanded(length + 1), garbage) EXCEPT ![length + 1] = item]
          /\ length' = length + 1
          /\ owner' = [owner EXCEPT ![item] = "list"]
  BY DEF Add
<1> DEFINE n == Expanded(length + 1)
           grown == Resized(n, garbage)
<1>2. /\ array \in Seq(Slots) /\ allocated \in Nat /\ length \in Nat /\ length <= allocated
      /\ owner \in [Items -> {"caller", "list", "nobody"}] /\ owner[item] = "caller"
      /\ Owned(array, length, owner)
  BY AllocatedIsNat DEF ListInv, ListTypeOK, Add
<1>3. n \in Nat /\ n >= length + 1 /\ n >= allocated
  BY <1>1, <1>2, ExpandedFits
<1>4. /\ grown \in Seq(Slots) /\ Len(grown) = n /\ DOMAIN grown = 1 .. n
      /\ \A i \in 1 .. n : i <= allocated => grown[i] = array[i]
  BY <1>2, <1>3, ResizedFacts
<1>5. array' = [grown EXCEPT ![length + 1] = item] /\ length + 1 \in 1 .. n
  BY <1>1, <1>2, <1>3
<1> HIDE DEF n, grown
<1>6. /\ array' \in Seq(Slots) /\ allocated' = n /\ array'[length + 1] = item
      /\ \A i \in 1 .. length : array'[i] = array[i]
  BY <1>2, <1>3, <1>4, <1>5 DEF allocated, Slots
<1>7. length' \in 0 .. n /\ 1 .. length' = (1 .. length) \cup {length + 1} /\ length + 1 \notin 1 .. length
  BY <1>1, <1>2, <1>3
<1>8. /\ owner' \in [Items -> {"caller", "list", "nobody"}] /\ owner'[item] = "list"
      /\ \A x \in Items \ {item} : owner'[x] = owner[x]
  BY <1>1, <1>2
<1>9. \A i \in 1 .. length : array[i] \in Slots /\ array[i] # item
  BY <1>2, ListAssumption DEF Owned, Slots, allocated
<1>10. \A i \in 1 .. length' : array'[i] # Null => owner'[array'[i]] = "list"
  BY <1>2, <1>6, <1>7, <1>8, <1>9 DEF Owned, Slots
<1>11. \A i, j \in 1 .. length' : i # j /\ array'[i] # Null => array'[i] # array'[j]
  BY <1>2, <1>6, <1>7, <1>9 DEF Owned
<1>12. ASSUME NEW x \in Items, owner'[x] = "list" PROVE \E i \in 1 .. length' : array'[i] = x
  <2>1. CASE x = item
    BY <1>6, <1>7, <2>1
  <2>2. CASE x # item
    <3>1. PICK i \in 1 .. length : array[i] = x
      BY <1>2, <1>8, <1>12, <2>2 DEF Owned
    <3> QED BY <1>6, <1>7, <3>1
  <2> QED BY <2>1, <2>2
<1> QED BY <1>6, <1>7, <1>8, <1>10, <1>11, <1>12 DEF ListInv, ListTypeOK, Owned

\* array_list_del_idx: what is deleted is freed, what was behind it moves up.
LEMMA DelStep ==
    ASSUME ListInv, NEW idx \in Nat, NEW n \in Nat, DelIdx(idx, n)
    PROVE  ListInv'
<1>1. /\ array \in Seq(Slots) /\ allocated \in Nat /\ length \in Nat /\ length <= allocated
      /\ owner \in [Items -> {"caller", "list", "nobody"}]
      /\ Owned(array, length, owner) /\ idx + n <= length
  BY AllocatedIsNat DEF ListInv, ListTypeOK, DelIdx
<1> DEFINE From(i) == IF i > idx THEN i + n ELSE i
           old == {array[k] : k \in idx + 1 .. idx + n}
<1>2. /\ array' = [i \in 1 .. allocated |-> IF i > idx /\ i <= length - n THEN array[i + n] ELSE array[i]]
      /\ length' = length - n /\ owner' = Freed({ElementAt(i) : i \in idx .. idx + n - 1})
  BY DEF DelIdx
<1>3. {ElementAt(i) : i \in idx .. idx + n - 1} = old
  <2>1. \A i \in idx .. idx + n - 1 : i + 1 \in idx + 1 .. idx + n
    OBVIOUS
  <2>2. \A k \in idx + 1 .. idx + n : k - 1 \in idx .. idx + n - 1 /\ (k - 1) + 1 = k
    OBVIOUS
  <2> QED BY <2>1, <2>2 DEF ElementAt
<1>4. length' \in 0 .. allocated /\ array' \in Seq(Slots) /\ allocated' = allocated
  <2>1. \A i \in 1 .. allocated : array[i] \in Slots
    BY <1>1 DEF allocated
  <2>2. \A i \in 1 .. allocated : i <= length - n => i + n \in 1 .. allocated
    BY <1>1
  <2>3. array' \in [1 .. allocated -> Slots]
    BY <1>2, <2>1, <2>2
  <2>4. array' \in Seq(Slots) /\ Len(array') = allocated
    BY <1>1, <2>3
  <2> QED BY <1>1, <1>2, <2>4 DEF allocated
<1>5. \A i \in 1 .. length' : From(i) \in 1 .. length /\ From(i) \notin idx + 1 .. idx + n /\ array'[i] = array[From(i)]
  BY <1>1, <1>2
<1>6. \A i, j \in 1 .. length' : i # j => From(i) # From(j)
  BY <1>1, <1>2
<1>7. \A k \in 1 .. length : k \notin idx + 1 .. idx + n => \E i \in 1 .. length' : From(i) = k
  <2> SUFFICES ASSUME NEW k \in 1 .. length, k \notin idx + 1 .. idx + n
               PROVE  \E i \in 1 .. length' : From(i) = k
    OBVIOUS
  <2>1. CASE k <= idx
    <3>1. k \in 1 .. length' /\ From(k) = k
      BY <1>1, <1>2, <2>1
    <3> QED BY <3>1
  <2>2. CASE k > idx
    <3>1. k - n \in 1 .. length' /\ From(k - n) = k
      BY <1>1, <1>2, <2>2
    <3> QED BY <3>1
  <2> QED BY <2>1, <2>2
<1>8. /\ owner' \in [Items -> {"caller", "list", "nobody"}]
      /\ \A x \in Items : owner'[x] = IF x \in old THEN "nobody" ELSE owner[x]
  BY <1>1, <1>2, <1>3 DEF Freed
<1> HIDE DEF From
<1>9. \A k \in 1 .. length : k \notin idx + 1 .. idx + n /\ array[k] # Null => array[k] \in Items \ old
  <2>1. \A m \in idx + 1 .. idx + n : m \in 1 .. length
    BY <1>1
  <2>2. \A k \in 1 .. length : array[k] \in Slots
    BY <1>1 DEF allocated
  <2>3. \A k \in 1 .. length : k \notin idx + 1 .. idx + n /\ array[k] # Null => array[k] \notin old
    BY <1>1, <2>1 DEF Owned
  <2> QED BY <2>2, <2>3 DEF Slots
<1> HIDE DEF old
<1>10. \A i \in 1 .. length' : array'[i] # Null => owner'[array'[i]] = "list"
  BY <1>1, <1>5, <1>8, <1>9 DEF Owned
<1>11. \A i, j \in 1 .. length' : i # j /\ array'[i] # Null => array'[i] # array'[j]
  BY <1>1, <1>5, <1>6 DEF Owned
<1>12. ASSUME NEW x \in Items, owner'[x] = "list" PROVE \E i \in 1 .. length' : array'[i] = x
  <2>1. owner[x] = "list" /\ x \notin old
    BY <1>8, <1>12
  <2>2. PICK k \in 1 .. length : array[k] = x
    BY <1>1, <2>1 DEF Owned
  <2>3. k \notin idx + 1 .. idx + n
    BY <2>1, <2>2 DEF old
  <2> QED BY <1>5, <1>7, <2>2, <2>3
<1> QED BY <1>4, <1>8, <1>10, <1>11, <1>12 DEF ListInv, ListTypeOK, Owned

\* array_list_shrink: the elements stay.
LEMMA ShrinkStep ==
    ASSUME ListInv, NEW empty \in Nat, Shrink(empty)
    PROVE  ListInv'
<1> DEFINE wanted == IF length + empty = 0 /\ allocated > 0 THEN 1 ELSE length + empty
           n == IF wanted > allocated THEN Expanded(wanted) ELSE wanted
           m == IF n = 0 THEN allocated ELSE n
<1>1. /\ array \in Seq(Slots) /\ allocated \in Nat /\ length \in Nat /\ length <= allocated
      /\ owner \in [Items -> {"caller", "list", "nobody"}] /\ Owned(array, length, owner)
  BY AllocatedIsNat DEF ListInv, ListTypeOK
<1>2. PICK garbage \in Slots : array' = Resized(m, garbage) /\ UNCHANGED <<length, owner>>
  BY DEF Shrink
<1>3. wanted \in Nat /\ wanted >= length
  BY <1>1
<1> HIDE DEF wanted
<1>4. m \in Nat /\ m >= length
  <2>1. Expanded(wanted) \in Nat /\ (Expanded(wanted) > 0 => Expanded(wanted) >= wanted)
    BY <1>1, <1>3, ExpandedFits
  <2> QED BY <1>1, <1>3, <2>1
<1> HIDE DEF m
<1>5. array' \in Seq(Slots) /\ Len(array') = m /\ \A i \in 1 .. length : array'[i] = array[i]
  <2>1. /\ Resized(m, garbage) \in Seq(Slots) /\ Len(Resized(m, garbage)) = m
        /\ \A i \in 1 .. m : i <= allocated => Resized(m, garbage)[i] = array[i]
    BY <1>1, <1>4, ResizedFacts
  <2>2. \A i \in 1 .. length : i \in 1 .. m /\ i <= allocated
    BY <1>1, <1>4
  <2> QED BY <1>2, <2>1, <2>2
<1>6. Owned(array, length, owner)'
  BY <1>1, <1>2, <1>5 DEF Owned
<1>7. ListTypeOK'
  BY <1>1, <1>2, <1>4, <1>5 DEF ListTypeOK, allocated
<1> QED BY <1>6, <1>7 DEF ListInv

\* array_list_sort: the elements change places.
LEMMA SortStep ==
    ASSUME ListInv, Sort
    PROVE  ListInv'
<1>1. PICK p \in Bijection(1 .. length, 1 .. length) :
          array' = [i \in 1 .. allocated |-> IF i <= length THEN array[p[i]] ELSE array[i]]
  BY DEF Sort
<1>2. /\ p \in [1 .. length -> 1 .. length]
      /\ \A i, j \in 1 .. length : p[i] = p[j] => i = j
      /\ \A k \in 1 .. length : \E i \in 1 .. length : p[i] = k
  BY <1>1 DEF Bijection, Injection, Surjection, IsInjective
<1>3. /\ array \in Seq(Slots) /\ allocated \in Nat /\ length \in Nat /\ length <= allocated
      /\ owner \in [Items -> {"caller", "list", "nobody"}] /\ Owned(array, length, owner)
      /\ UNCHANGED <<length, owner>>
  BY AllocatedIsNat DEF ListInv, ListTypeOK, Sort
<1>4. \A i \in 1 .. length : p[i] \in 1 .. length /\ array'[i] = array[p[i]]
  BY <1>1, <1>2, <1>3
<1>5. array' \in Seq(Slots) /\ Len(array') = allocated
  <2>1. \A i \in 1 .. allocated : array[i] \in Slots
    BY <1>3 DEF allocated
  <2>2. \A i \in 1 .. length : p[i] \in 1 .. allocated
    BY <1>3, <1>4
  <2>3. array' \in [1 .. allocated -> Slots]
    BY <1>1, <1>3, <2>1, <2>2
  <2> QED BY <1>3, <2>3
<1>6. Owned(array, length, owner)'
  <2>1. \A i \in 1 .. length : array'[i] # Null => owner[array'[i]] = "list"
    BY <1>3, <1>4 DEF Owned
  <2>2. ASSUME NEW i \in 1 .. length, NEW j \in 1 .. length, i # j, array'[i] # Null
        PROVE  array'[i] # array'[j]
    <3>1. p[i] # p[j] /\ p[i] \in 1 .. length /\ p[j] \in 1 .. length
      BY <1>2, <1>4, <2>2
    <3>2. array[p[i]] # Null
      BY <1>4, <2>2
    <3> QED BY <1>3, <1>4, <3>1, <3>2 DEF Owned
  <2>3. ASSUME NEW x \in Items, owner[x] = "list" PROVE \E i \in 1 .. length : array'[i] = x
    <3>1. PICK k \in 1 .. length : array[k] = x
      BY <1>3, <2>3 DEF Owned
    <3>2. PICK i \in 1 .. length : p[i] = k
      BY <1>2
    <3> QED BY <1>4, <3>1, <3>2
  <2> QED BY <1>3, <2>1, <2>2, <2>3 DEF Owned
<1> QED BY <1>3, <1>5, <1>6 DEF ListInv, ListTypeOK, allocated

LEMMA NewItemStep ==
    ASSUME ListInv, NEW item \in Items, NewItem(item)
    PROVE  ListInv'
<1>1. /\ array' = array /\ length' = length /\ owner[item] = "nobody"
      /\ owner' = [owner EXCEPT ![item] = "caller"]
      /\ owner \in [Items -> {"caller", "list", "nobody"}]
  BY DEF NewItem, ListInv, ListTypeOK
<1>2. /\ owner' \in [Items -> {"caller", "list", "nobody"}] /\ owner'[item] = "caller"
      /\ \A x \in Items \ {item} : owner'[x] = owner[x]
  BY <1>1
<1>3. \A i \in 1 .. length : array[i] \in Slots /\ array[i] # item
  BY <1>1, AllocatedIsNat, ListAssumption DEF ListInv, ListTypeOK, Owned, allocated
<1>4. Owned(array, length, owner)'
  BY <1>1, <1>2, <1>3 DEF ListInv, Owned, Slots
<1> QED BY <1>1, <1>2, <1>4 DEF ListInv, ListTypeOK, allocated

\* The list owns what its elements point to, each item once, and nothing else,
\* whatever was put behind the end, deleted, shrunk and sorted.
THEOREM OwnsItsElementsHolds == ListSpec => []OwnsItsElements
<1>1. ListInit => ListInv
  <2> SUFFICES ASSUME ListInit PROVE ListInv
    OBVIOUS
  <2>1. PICK n \in 0 .. MaxSlots : array \in [1 .. n -> {Null}]
    BY DEF ListInit
  <2>2. n \in Nat /\ array \in [1 .. n -> Slots]
    BY <2>1, ListAssumption DEF Slots
  <2>3. array \in Seq(Slots) /\ Len(array) = n
    BY <2>2
  <2>4. length = 0 /\ owner = [i \in Items |-> "caller"] /\ 1 .. length = {}
    BY DEF ListInit
  <2> QED BY <2>2, <2>3, <2>4 DEF ListInv, ListTypeOK, Owned, allocated
<1>2. ListInv /\ [ListNext]_listVars => ListInv'
  <2> SUFFICES ASSUME ListInv, [ListNext]_listVars PROVE ListInv'
    OBVIOUS
  <2>1. CASE UNCHANGED listVars
    BY <2>1 DEF listVars, ListInv, ListTypeOK, Owned, allocated
  <2>2. 0 .. MaxSlots \subseteq Nat
    BY ListAssumption
  <2> QED BY <2>1, <2>2, PutStep, AddStep, DelStep, ShrinkStep, SortStep, NewItemStep DEF ListNext
<1>3. ListInv => OwnsItsElements
  BY AllocatedIsNat, OwnedElements DEF ListInv
<1> QED BY <1>1, <1>2, <1>3, PTL DEF ListSpec

-----------------------------------------------------------------------------
(***************************************************************************)
(* What a string object reads as, for any lengths of the strings it is set  *)
(* to but none: the empty string has no sign to tell where its bytes are.   *)
(***************************************************************************)

\* The bytes lie in the object, which has the room for them and for a pointer.
InObject ==
    /\ object.len >= 0 /\ object.len = said.length
    /\ object.room >= object.len + 1 /\ object.room >= PointerSize
    /\ object.bytes = Text(said) /\ buffers = {}

\* Or in the one buffer, and a pointer in the object.
InBuffer ==
    /\ object.len < 0 /\ object.len = -said.length
    /\ object.room >= PointerSize
    /\ \E b : /\ buffers = {b} /\ object.bytes = Pointer(b.id)
              /\ b.text = said /\ b.room \in Nat /\ b.room >= said.length + 1
              /\ DOMAIN b = {"id", "room", "text"}

StrInv ==
    /\ said.length \in Nat
    /\ object.alive \in BOOLEAN /\ object.len \in Int /\ object.room \in Nat
    /\ DOMAIN object = {"alive", "len", "room", "bytes"}
    /\ object.alive => InObject \/ InBuffer
    /\ ~object.alive => buffers = {}
    /\ ~overrun

LEMMA StringLengths ==
    ASSUME NEW S \in SUBSET Nat, NEW s \in Strings(S)
    PROVE  s.length \in S
<1>1. CASE s \in {[length |-> n, content |-> c] : n \in S \ {0}, c \in Contents}
  <2>1. PICK n \in S \ {0}, c \in Contents : s = [length |-> n, content |-> c]
    BY <1>1
  <2> QED BY <2>1
<1>2. CASE s \in {Empty : n \in S \cap {0}}
  <2>1. 0 \in S /\ s = Empty
    BY <1>2
  <2> QED BY <2>1 DEF Empty
<1> QED BY <1>1, <1>2 DEF Strings

\* The buffer a pointer in the object leads to is the one there is.
LEMMA TheBuffer ==
    ASSUME NEW b, buffers = {b}, object.bytes = Pointer(b.id)
    PROVE  Buffer(object.bytes.pointer) = b
  BY DEF Buffer, Pointer

LEMMA DeleteStep ==
    ASSUME StrInv, Delete
    PROVE  StrInv'
<1>1. object' = [object EXCEPT !.alive = FALSE] /\ UNCHANGED <<said, overrun>> /\ object.alive
  BY DEF Delete
<1>2. buffers' = {}
  <2>1. CASE InObject
    BY <2>1 DEF Delete, InObject
  <2>2. CASE InBuffer
    <3>1. PICK b : buffers = {b} /\ object.bytes = Pointer(b.id)
      BY <2>2 DEF InBuffer
    <3>2. Buffer(object.bytes.pointer) = b
      BY <3>1, TheBuffer
    <3> QED BY <2>2, <3>1, <3>2 DEF Delete, InBuffer
  <2> QED BY <1>1, <2>1, <2>2 DEF StrInv
<1>3. /\ object'.alive = FALSE /\ object'.len = object.len /\ object'.room = object.room
      /\ DOMAIN object' = DOMAIN object
  BY <1>1 DEF StrInv
<1> QED BY <1>1, <1>2, <1>3 DEF StrInv

\* A longer string goes to a buffer of its own, that of the old one is freed.
LEMMA InBufferStep ==
    ASSUME StrInv, object.alive, NEW s, s.length \in Nat, NeedsBuffer(s.length), SetInBuffer(s)
    PROVE  StrInv'
<1>1. PICK id : id = Unused
  OBVIOUS
<1>2. PICK b : b = [id |-> id, room |-> s.length + 1, text |-> s]
  OBVIOUS
<1>3. /\ buffers' = Replaced(b) /\ said' = s
      /\ object' = [object EXCEPT !.bytes = Pointer(id), !.len = -s.length]
      /\ overrun' = (overrun \/ object.room < PointerSize)
  BY <1>1, <1>2 DEF SetInBuffer
<1>4. Replaced(b) = {b}
  <2>1. CASE InObject
    BY <2>1 DEF Replaced, InObject
  <2>2. CASE InBuffer
    <3>1. PICK c : buffers = {c} /\ object.bytes = Pointer(c.id)
      BY <2>2 DEF InBuffer
    <3>2. Buffer(object.bytes.pointer) = c
      BY <3>1, TheBuffer
    <3> QED BY <2>2, <3>1, <3>2 DEF Replaced, InBuffer
  <2> QED BY <2>1, <2>2 DEF StrInv
<1>5. object.room >= PointerSize /\ s.length > 0
  BY DEF StrInv, InObject, InBuffer, NeedsBuffer, GetStringLen
<1>6. /\ object'.alive = object.alive /\ object'.len = -s.length /\ object'.room = object.room
      /\ object'.bytes = Pointer(id) /\ DOMAIN object' = DOMAIN object
  BY <1>3 DEF StrInv
<1>7. b.id = id /\ b.text = s /\ b.room = s.length + 1 /\ DOMAIN b = {"id", "room", "text"}
  BY <1>2
<1>8. ~overrun'
  <2>1. ~(object.room < PointerSize)
    BY <1>5, StringAssumption DEF StrInv
  <2> QED BY <1>3, <2>1, Zenon DEF StrInv
<1>9. InBuffer'
  BY <1>3, <1>4, <1>5, <1>6, <1>7 DEF InBuffer
<1>10. object'.alive
  BY <1>6
<1>11. said'.length \in Nat /\ object'.len \in Int /\ object'.room \in Nat
  BY <1>3, <1>6 DEF StrInv
<1>12. DOMAIN object' = {"alive", "len", "room", "bytes"}
  BY <1>6 DEF StrInv
<1> QED BY <1>8, <1>9, <1>10, <1>11, <1>12 DEF StrInv

\* One that is no longer goes where the old one lies.
LEMMA InPlaceStep ==
    ASSUME StrInv, object.alive, NEW s, s.length \in Nat, s.length # 0,
           ~NeedsBuffer(s.length), SetInPlace(s)
    PROVE  StrInv'
<1>1. CASE InObject
  <2>1. ~(object.len < 0)
    BY <1>1 DEF InObject, StrInv
  <2>2. /\ object' = [object EXCEPT !.bytes = Text(s), !.len = s.length]
        /\ overrun' = (overrun \/ s.length + 1 > object.room)
        /\ buffers' = buffers /\ said' = s
    BY <2>1, Zenon DEF SetInPlace, KeptLen
  <2>3. /\ object'.alive = object.alive /\ object'.len = s.length /\ object'.room = object.room
        /\ object'.bytes = Text(s) /\ DOMAIN object' = DOMAIN object
    BY <2>2 DEF StrInv
  <2>4. s.length <= object.len
    BY <1>1 DEF InObject, NeedsBuffer, GetStringLen, StrInv
  <2>5. ~overrun'
    <3>1. ~(s.length + 1 > object.room)
      BY <1>1, <2>4 DEF InObject, StrInv
    <3> QED BY <2>2, <3>1, Zenon DEF StrInv
  <2>6. InObject'
    BY <1>1, <2>2, <2>3, <2>4 DEF InObject, StrInv
  <2>7. object'.alive
    BY <2>3
  <2>8. said'.length \in Nat /\ object'.len \in Int /\ object'.room \in Nat
    BY <2>2, <2>3 DEF StrInv
  <2>9. DOMAIN object' = {"alive", "len", "room", "bytes"}
    BY <2>3 DEF StrInv
  <2> QED BY <2>5, <2>6, <2>7, <2>8, <2>9 DEF StrInv
<1>2. CASE InBuffer
  <2>1. PICK b : /\ buffers = {b} /\ object.bytes = Pointer(b.id)
                 /\ b.text = said /\ b.room \in Nat /\ b.room >= said.length + 1
                 /\ DOMAIN b = {"id", "room", "text"}
    BY <1>2 DEF InBuffer
  <2>2. Buffer(object.bytes.pointer) = b
    BY <2>1, TheBuffer
  <2>3. PICK c : c = [b EXCEPT !.text = s]
    OBVIOUS
  <2>4. /\ buffers' = (buffers \ {b}) \cup {c}
        /\ object' = [object EXCEPT !.len = -s.length]
        /\ overrun' = (overrun \/ s.length + 1 > b.room) /\ said' = s
    BY <1>2, <2>2, <2>3, Zenon DEF SetInPlace, InBuffer, KeptLen
  <2>5. c.id = b.id /\ c.text = s /\ c.room = b.room /\ DOMAIN c = DOMAIN b
    BY <2>1, <2>3
  <2>6. /\ object'.alive = object.alive /\ object'.len = -s.length /\ object'.room = object.room
        /\ object'.bytes = object.bytes /\ DOMAIN object' = DOMAIN object
    BY <2>4 DEF StrInv
  <2>7. s.length <= said.length
    BY <1>2 DEF InBuffer, NeedsBuffer, GetStringLen, StrInv
  <2>8. ~overrun'
    <3>1. ~(s.length + 1 > b.room)
      BY <2>1, <2>7 DEF StrInv
    <3> QED BY <2>4, <3>1, Zenon DEF StrInv
  <2>9. buffers' = {c}
    BY <2>1, <2>4
  <2>10. InBuffer'
    <3>1. object'.len < 0 /\ object'.len = -said'.length /\ object'.room >= PointerSize
      BY <1>2, <2>4, <2>6 DEF InBuffer
    <3>2. c.room \in Nat /\ c.room >= said'.length + 1 /\ c.text = said' /\ object'.bytes = Pointer(c.id)
      BY <2>1, <2>4, <2>5, <2>6, <2>7 DEF StrInv
    <3> QED BY <2>1, <2>5, <2>9, <3>1, <3>2 DEF InBuffer
  <2>11. object'.alive
    BY <2>6
  <2>12. said'.length \in Nat /\ object'.len \in Int /\ object'.room \in Nat
    BY <2>4, <2>6 DEF StrInv
  <2>13. DOMAIN object' = {"alive", "len", "room", "bytes"}
    BY <2>6 DEF StrInv
  <2> QED BY <2>8, <2>10, <2>11, <2>12, <2>13 DEF StrInv
<1> QED BY <1>1, <1>2 DEF StrInv

\* A string object reads as what was set last, and no write leaves its memory;
\* the one case the code does not have is that of the empty string.
THEOREM HoldsWhatWasSetHolds == 0 \notin SetLengths => (StringSpec => []HoldsWhatWasSet)
<1> SUFFICES ASSUME 0 \notin SetLengths PROVE StringSpec => []HoldsWhatWasSet
  OBVIOUS
<1>1. StringInit => StrInv
  <2> SUFFICES ASSUME StringInit PROVE StrInv
    OBVIOUS
  <2>1. PICK s \in Strings(NewLengths) : object = New(s) /\ buffers = {} /\ said = s /\ overrun = FALSE
    BY DEF StringInit
  <2>2. s.length \in Nat
    BY StringLengths, StringAssumption
  <2>3. NewRoom(s.length) \in Nat /\ NewRoom(s.length) >= s.length + 1 /\ NewRoom(s.length) >= PointerSize
    BY <2>2, StringAssumption DEF NewRoom
  <2>4. InObject
    BY <2>1, <2>2, <2>3 DEF InObject, New
  <2> QED BY <2>1, <2>2, <2>3, <2>4 DEF StrInv, New
<1>2. StrInv /\ [StringNext]_stringVars => StrInv'
  <2> SUFFICES ASSUME StrInv, [StringNext]_stringVars PROVE StrInv'
    OBVIOUS
  <2>1. ASSUME UNCHANGED stringVars PROVE StrInv'
    BY <2>1 DEF stringVars, StrInv, InObject, InBuffer
  <2>2. ASSUME NEW s \in Strings(SetLengths), SetString(s) PROVE StrInv'
    <3>1. s.length \in Nat /\ s.length # 0
      BY StringLengths, StringAssumption
    <3> QED BY <2>1, <2>2, <3>1, InBufferStep, InPlaceStep DEF SetString
  <2> QED BY <2>1, <2>2, DeleteStep DEF StringNext
<1>3. StrInv => HoldsWhatWasSet
  <2> SUFFICES ASSUME StrInv PROVE HoldsWhatWasSet
    OBVIOUS
  <2>1. CASE object.alive /\ InObject
    BY <2>1 DEF StrInv, InObject, HoldsWhatWasSet, WritesFit, BufferIsOwned, GetString, Component, GetStringLen
  <2>2. CASE object.alive /\ InBuffer
    <3>1. PICK b : buffers = {b} /\ object.bytes = Pointer(b.id) /\ b.text = said
      BY <2>2 DEF InBuffer
    <3>2. Buffer(object.bytes.pointer) = b
      BY <3>1, TheBuffer
    <3>3. GetString = Text(said) /\ GetStringLen = said.length
      BY <2>2, <3>1, <3>2 DEF StrInv, InBuffer, GetString, Component, GetStringLen
    <3> QED BY <2>2, <3>1, <3>3 DEF StrInv, InBuffer, HoldsWhatWasSet, WritesFit, BufferIsOwned
  <2>3. CASE ~object.alive
    BY <2>3 DEF StrInv, HoldsWhatWasSet, WritesFit, BufferIsOwned
  <2> QED BY <2>1, <2>2, <2>3 DEF StrInv
<1> QED BY <1>1, <1>2, <1>3, PTL DEF StringSpec

-----------------------------------------------------------------------------
(***************************************************************************)
(* No call of printbuf.c writes outside the buffer or lets an int overflow,  *)
(* for every INT_MAX and every first size.                                   *)
(***************************************************************************)

USE DEF Lengths

\* What the three properties rest on: the buffer is never empty, as large as
\* an int allows, and everything written lies within it.
BufferInv ==
    /\ TypeOK
    /\ size \in 1 .. IntMax
    /\ WritesWithinBuffer
    /\ NoOverflow
    /\ EndsWithinBuffer

\* A buffer that is extended is at least as large as it was, has the room that
\* was asked for, and its size is still an int.
LEMMA SizeForFits ==
    ASSUME size \in 1 .. IntMax, NEW minSize \in Nat, Extended(minSize)
    PROVE  SizeFor(minSize) \in size .. IntMax /\ SizeFor(minSize) >= minSize
<1>1. CASE size >= minSize
  BY <1>1, IntMaxAssumption DEF SizeFor
<1>2. CASE size < minSize
  <2>1. minSize <= IntMax - 8
    BY <1>2 DEF Extended
  <2>2. CASE size > IntMax \div 2
    BY <1>2, <2>1, <2>2, IntMaxAssumption DEF SizeFor, NewSize
  <2>3. CASE ~(size > IntMax \div 2)
    <3>1. 2 * size <= IntMax
      BY <2>3, IntMaxAssumption
    <3> QED
      BY <1>2, <2>1, <2>3, <3>1, IntMaxAssumption DEF SizeFor, NewSize, Larger
  <2> QED
    BY <2>2, <2>3
<1> QED
  BY <1>1, <1>2

\* It holds at the start: there is a byte for the first NUL.
LEMMA BufferBegins == Init => BufferInv
<1> SUFFICES ASSUME Init PROVE BufferInv
  OBVIOUS
<1>1. size \in 1 .. IntMax /\ bpos = 0 /\ highest = 1
  BY IntMaxAssumption, FirstSizeAssumption DEF Init
<1>2. ended = TRUE /\ overflow = FALSE
  BY DEF Init
<1>3. TypeOK
  <2>1. size \in Int /\ bpos \in Nat /\ highest \in Nat
    BY <1>1, IntMaxAssumption
  <2>2. ended \in BOOLEAN /\ overflow \in BOOLEAN
    BY <1>2, Zenon
  <2> QED
    BY <2>1, <2>2 DEF TypeOK
<1>4. WritesWithinBuffer /\ bpos < size
  BY <1>1, IntMaxAssumption DEF WritesWithinBuffer
<1>5. NoOverflow
  BY <1>2, Zenon DEF NoOverflow
<1>6. EndsWithinBuffer
  BY <1>4 DEF EndsWithinBuffer
<1> QED
  BY <1>1, <1>3, <1>4, <1>5, <1>6, Zenon DEF BufferInv

\* And every call preserves it.
LEMMA BufferKept == BufferInv /\ [Next]_vars => BufferInv'
<1> SUFFICES ASSUME BufferInv, [Next]_vars PROVE BufferInv'
  OBVIOUS
<1> USE IntMaxAssumption
        DEF BufferInv, TypeOK, WritesWithinBuffer, NoOverflow, EndsWithinBuffer, Larger
<1>1. ASSUME NEW n \in Lengths, MemAppend(n) PROVE BufferInv'
  <2> DEFINE end == bpos + n + 1
  <2>1. end \in Nat /\ end <= IntMax
    BY <1>1 DEF MemAppend
  <2>2. CASE size <= end
    <3>1. SizeFor(end) \in size .. IntMax /\ SizeFor(end) >= end
      BY <1>1, <2>1, <2>2, SizeForFits DEF MemAppend
    <3>2. size' = SizeFor(end)
      BY <1>1, <2>2 DEF MemAppend
    <3> QED
      BY <1>1, <2>1, <3>1, <3>2 DEF MemAppend
  <2>3. CASE size > end
    BY <1>1, <2>1, <2>3 DEF MemAppend
  <2> QED
    BY <2>1, <2>2, <2>3
<1>2. ASSUME NEW n \in Lengths, MemAppendFast(n) PROVE BufferInv'
  BY <1>2 DEF MemAppendFast
<1>3. ASSUME NEW n \in Lengths, NEW offset \in Lengths \cup {-1}, MemSet(offset, n) PROVE BufferInv'
  <2> DEFINE first == IF offset = -1 THEN bpos ELSE offset
  <2> DEFINE needed == first + n
  <2>1. needed \in Nat /\ needed <= IntMax
    BY <1>3 DEF MemSet
  <2>2. CASE size < needed
    <3>1. SizeFor(needed) \in size .. IntMax /\ SizeFor(needed) >= needed
      BY <1>3, <2>1, <2>2, SizeForFits DEF MemSet
    <3>2. size' = SizeFor(needed)
      BY <1>3, <2>2 DEF MemSet
    <3> QED
      BY <1>3, <2>1, <2>2, <3>1, <3>2 DEF MemSet
  <2>3. CASE size >= needed
    BY <1>3, <2>1, <2>3 DEF MemSet
  <2> QED
    BY <2>1, <2>2, <2>3
<1>4. CASE Reset
  BY <1>4 DEF Reset
<1>5. CASE UNCHANGED vars
  BY <1>5 DEF vars
<1> QED
  BY <1>1, <1>2, <1>3, <1>4, <1>5 DEF Next

\* In every reachable state the invariant holds.
THEOREM BufferInvariance == Spec => []BufferInv
BY BufferBegins, BufferKept, PTL DEF Spec

\* printbuf.c never writes a byte outside the buffer.
THEOREM WritesAreWithinBuffer == Spec => []WritesWithinBuffer
<1>1. BufferInv => WritesWithinBuffer
  BY DEF BufferInv
<1> QED
  BY <1>1, BufferInvariance, PTL

\* The sizes it computes stay ints.
THEOREM SizesAreInts == Spec => []NoOverflow
<1>1. BufferInv => NoOverflow
  BY DEF BufferInv
<1> QED
  BY <1>1, BufferInvariance, PTL

\* A text that was ended is ended within the buffer.
THEOREM EndsAreWithinBuffer == Spec => []EndsWithinBuffer
<1>1. BufferInv => EndsWithinBuffer
  BY DEF BufferInv
<1> QED
  BY <1>1, BufferInvariance, PTL

HIDE DEF Lengths

-----------------------------------------------------------------------------
(***************************************************************************)
(* The integers of json-c are exact or saturated, for every width of the     *)
(* types.                                                                   *)
(***************************************************************************)

USE WidthAssumption
USE DEF LongMin, Int32Min, UMax, Modulus, Signed, Unsigned

\* What a number is, without its set.
IsNumber(n) ==
    /\ n = [type |-> n.type, v |-> n.v]
    /\ \/ n.type = "int64" /\ n.v \in Signed
       \/ n.type = "uint64" /\ n.v \in Unsigned

LEMMA NumberParts == ASSUME NEW n \in Numbers PROVE IsNumber(n)
  BY DEF Numbers, Number, IsNumber

LEMMA SignedIsNumber == ASSUME NEW x \in Signed PROVE Number("int64", x) \in Numbers /\ Number("int64", x).v = x
  BY DEF Numbers, Number

LEMMA UnsignedIsNumber == ASSUME NEW x \in Unsigned PROVE Number("uint64", x) \in Numbers /\ Number("uint64", x).v = x
  BY DEF Numbers, Number

\* A number that is parsed is the one that is written, or the end of the range
\* that it lies beyond.
LEMMA FromTextExact ==
    ASSUME NEW x \in Int
    PROVE  FromText(x) \in Numbers /\ FromText(x).v = Clamp(x, LongMin, UMax)
<1>1. CASE x < 0
  <2>1. Clamp(x, LongMin, LongMax) \in Signed /\ Clamp(x, LongMin, LongMax) = Clamp(x, LongMin, UMax)
    BY <1>1 DEF Clamp
  <2> QED
    BY <1>1, <2>1, SignedIsNumber DEF FromText
<1>2. CASE ~(x < 0)
  <2> DEFINE u == Clamp(x, 0, UMax)
  <2>1. u \in Unsigned /\ u = Clamp(x, LongMin, UMax)
    BY <1>2 DEF Clamp
  <2>2. FromText(x) = Number(IF u <= LongMax THEN "int64" ELSE "uint64", u)
    BY <1>2 DEF FromText
  <2> HIDE DEF u
  <2>3. CASE u <= LongMax
    BY <2>1, <2>2, <2>3, SignedIsNumber
  <2>4. CASE ~(u <= LongMax)
    BY <2>1, <2>2, <2>4, UnsignedIsNumber
  <2> QED
    BY <2>3, <2>4
<1> QED
  BY <1>1, <1>2

\* The magnitude of a negative increment survives the negation of the least
\* int64_t, which overflows.
LEMMA MagnitudeIsExact ==
    ASSUME NEW val \in Signed, val < 0
    PROVE  AsUnsigned(AsSigned(-val)) = -val
  BY DEF AsUnsigned, AsSigned

\* An increment of a signed number: it becomes unsigned where it must.
LEMMA IncSignedExact ==
    ASSUME NEW n, IsNumber(n), n.type = "int64", NEW val \in Signed
    PROVE  Inc(n, val) \in Numbers /\ Inc(n, val).v = Clamp(n.v + val, LongMin, UMax)
<1>1. n.v \in Signed
  BY DEF IsNumber
<1>2. CASE val > 0 /\ n.v > LongMax - val
  <2>1. Inc(n, val) = Number("uint64", AsUnsigned(AsUnsigned(n.v) + AsUnsigned(val)))
    BY <1>2 DEF Inc
  <2>2. AsUnsigned(AsUnsigned(n.v) + AsUnsigned(val)) = n.v + val
    BY <1>1, <1>2 DEF AsUnsigned
  <2>3. n.v + val \in Unsigned /\ Clamp(n.v + val, LongMin, UMax) = n.v + val
    BY <1>1, <1>2 DEF Clamp
  <2> QED
    BY <2>1, <2>2, <2>3, UnsignedIsNumber
<1>3. CASE val < 0 /\ n.v < LongMin - val
  <2>1. Inc(n, val) = Number("int64", LongMin)
    BY <1>1, <1>3 DEF Inc
  <2>2. Clamp(n.v + val, LongMin, UMax) = LongMin
    BY <1>1, <1>3 DEF Clamp
  <2> QED
    BY <2>1, <2>2, SignedIsNumber
<1>4. CASE ~(val > 0 /\ n.v > LongMax - val) /\ ~(val < 0 /\ n.v < LongMin - val)
  <2>1. Inc(n, val) = Number("int64", n.v + val)
    BY <1>4 DEF Inc
  <2>2. n.v + val \in Signed /\ Clamp(n.v + val, LongMin, UMax) = n.v + val
    BY <1>1, <1>4 DEF Clamp
  <2> QED
    BY <2>1, <2>2, SignedIsNumber
<1> QED
  BY <1>2, <1>3, <1>4

\* An increment of an unsigned number: it becomes signed where it must.
LEMMA IncUnsignedExact ==
    ASSUME NEW n, IsNumber(n), n.type = "uint64", NEW val \in Signed
    PROVE  Inc(n, val) \in Numbers /\ Inc(n, val).v = Clamp(n.v + val, LongMin, UMax)
<1>1. n.v \in Unsigned
  BY DEF IsNumber
<1>2. CASE val > 0 /\ n.v > UMax - AsUnsigned(val)
  <2>1. Inc(n, val) = Number("uint64", UMax)
    BY <1>2 DEF Inc
  <2>2. Clamp(n.v + val, LongMin, UMax) = UMax
    BY <1>1, <1>2 DEF Clamp, AsUnsigned
  <2> QED
    BY <2>1, <2>2, UnsignedIsNumber
<1>3. CASE val < 0
  <2>1. AsUnsigned(AsSigned(-val)) = -val
    BY <1>3, MagnitudeIsExact
  <2>2. CASE n.v < -val
    <3>1. Inc(n, val) = Number("int64", AsSigned(n.v) + val)
      BY <1>3, <2>1, <2>2 DEF Inc
    <3>2. AsSigned(n.v) + val = n.v + val /\ n.v + val \in Signed /\ Clamp(n.v + val, LongMin, UMax) = n.v + val
      BY <1>1, <1>3, <2>2 DEF AsSigned, Clamp
    <3> QED
      BY <3>1, <3>2, SignedIsNumber
  <2>3. CASE ~(n.v < -val)
    <3>1. Inc(n, val) = Number("uint64", n.v - (-val))
      BY <1>3, <2>1, <2>3 DEF Inc
    <3>2. n.v - (-val) = n.v + val /\ n.v + val \in Unsigned /\ Clamp(n.v + val, LongMin, UMax) = n.v + val
      BY <1>1, <1>3, <2>3 DEF Clamp
    <3> QED
      BY <3>1, <3>2, UnsignedIsNumber
  <2> QED
    BY <2>2, <2>3
<1>4. CASE ~(val > 0 /\ n.v > UMax - AsUnsigned(val)) /\ ~(val < 0)
  <2>1. Inc(n, val) = Number("uint64", n.v + val)
    BY <1>4 DEF Inc
  <2>2. n.v + val \in Unsigned /\ Clamp(n.v + val, LongMin, UMax) = n.v + val
    BY <1>1, <1>4 DEF Clamp, AsUnsigned
  <2> QED
    BY <2>1, <2>2, UnsignedIsNumber
<1> QED
  BY <1>2, <1>3, <1>4

-----------------------------------------------------------------------------
\* NumberTypeOK and HoldsTheSum are inductive together: an increment depends on the
\* number, and the sum on the integer it stands for.
NumberInv == NumberTypeOK /\ HoldsTheSum

LEMMA ValueRange == ASSUME NEW n \in Numbers PROVE n.v \in LongMin .. UMax
<1>1. IsNumber(n)
  BY NumberParts
<1> QED
  BY <1>1 DEF IsNumber

LEMMA NumberBegins == NumberInit => NumberInv
  BY ValueRange DEF NumberInit, NumberInv, NumberTypeOK, HoldsTheSum

LEMMA NumberKept == NumberInv /\ [NumberNext]_numberVars => NumberInv'
<1> SUFFICES ASSUME NumberInv, [NumberNext]_numberVars PROVE NumberInv'
  OBVIOUS
<1>1. number \in Numbers /\ value \in LongMin .. UMax /\ number.v = value
  BY DEF NumberInv, NumberTypeOK, HoldsTheSum
<1> SUFFICES number' \in Numbers /\ value' \in LongMin .. UMax /\ number'.v = value'
  BY DEF NumberInv, NumberTypeOK, HoldsTheSum
<1>2. CASE Set
  BY <1>2, ValueRange DEF Set
<1>3. CASE Parse
  <2>1. PICK x \in -TextMax .. TextMax : number' = FromText(x) /\ value' = Clamp(x, LongMin, UMax)
    BY <1>3 DEF Parse
  <2>2. x \in Int
    BY <2>1 DEF TextMax
  <2>3. Clamp(x, LongMin, UMax) \in LongMin .. UMax
    BY <2>2 DEF Clamp
  <2> QED
    BY <2>1, <2>2, <2>3, FromTextExact
<1>4. CASE Increment
  <2>1. PICK val \in Signed : number' = Inc(number, val) /\ value' = Clamp(value + val, LongMin, UMax)
    BY <1>4 DEF Increment
  <2>2. IsNumber(number)
    BY <1>1, NumberParts
  <2>3. Inc(number, val) \in Numbers /\ Inc(number, val).v = Clamp(number.v + val, LongMin, UMax)
    <3>1. CASE number.type = "int64"
      BY <2>2, <3>1, IncSignedExact
    <3>2. CASE number.type = "uint64"
      BY <2>2, <3>2, IncUnsignedExact
    <3> QED
      BY <2>2, <3>1, <3>2 DEF IsNumber
  <2>4. Clamp(value + val, LongMin, UMax) \in LongMin .. UMax
    BY <1>1 DEF Clamp
  <2> QED
    BY <1>1, <2>1, <2>3, <2>4
<1>5. CASE UNCHANGED numberVars
  BY <1>1, <1>5 DEF numberVars
<1> QED
  BY <1>2, <1>3, <1>4, <1>5 DEF NumberNext

LEMMA NumberInvariant == NumberSpec => []NumberInv
  BY NumberBegins, NumberKept, PTL DEF NumberSpec

\* What a number is read as follows from what it holds.
LEMMA NumberGets == NumberInv => GetsSaturate
<1> SUFFICES ASSUME NumberInv PROVE GetsSaturate
  OBVIOUS
<1>1. IsNumber(number) /\ number.v = value
  BY NumberParts DEF NumberInv, NumberTypeOK, HoldsTheSum
<1>2. GetInt64(number) = Clamp(value, LongMin, LongMax)
  BY <1>1 DEF IsNumber, GetInt64, AsSigned, Clamp
<1>3. GetInt(number) = Clamp(value, Int32Min, Int32Max)
  <2>1. Clamp(value, LongMin, LongMax) \in Int /\ value \in Int
    BY <1>1 DEF IsNumber, Clamp
  <2> QED
    BY <1>1, <1>2, <2>1 DEF IsNumber, GetInt, Clamp
<1>4. GetUint64(number) = Clamp(value, 0, UMax)
  BY <1>1 DEF IsNumber, GetUint64, AsUnsigned, Clamp
<1> QED
  BY <1>2, <1>3, <1>4 DEF GetsSaturate

LEMMA NumberEquals == NumberInv => EqualIsSameInteger
<1> SUFFICES ASSUME NumberInv, NEW n \in Numbers PROVE Equal(number, n) = (value = n.v)
  BY DEF EqualIsSameInteger
<1>1. IsNumber(number) /\ number.v = value /\ IsNumber(n)
  BY NumberParts DEF NumberInv, NumberTypeOK, HoldsTheSum
<1>2. Equal(number, n) <=> (value = n.v)
  BY <1>1 DEF IsNumber, Equal, AsUnsigned
<1>3. Equal(number, n) \in BOOLEAN
  BY DEF Equal
<1> QED
  BY <1>2, <1>3

-----------------------------------------------------------------------------
\* However often json_object_int_inc takes a number from one type to the other,
\* it is in the range of its type.
THEOREM NumbersHaveTheirType == NumberSpec => []NumberTypeOK
<1>1. NumberInv => NumberTypeOK
  BY DEF NumberInv
<1> QED
  BY <1>1, NumberInvariant, PTL

\* A number holds the integer that was set or parsed and incremented since.
THEOREM SumsAreExact == NumberSpec => []HoldsTheSum
<1>1. NumberInv => HoldsTheSum
  BY DEF NumberInv
<1> QED
  BY <1>1, NumberInvariant, PTL

\* json_object_get_int, get_int64 and get_uint64 return that integer, or the end
\* of their range that is nearest to it.
THEOREM GettersSaturate == NumberSpec => []GetsSaturate
  BY NumberGets, NumberInvariant, PTL

\* json_object_equal compares integers, not their types.
THEOREM EqualityIsOfIntegers == NumberSpec => []EqualIsSameInteger
  BY NumberEquals, NumberInvariant, PTL

HIDE WidthAssumption
HIDE DEF LongMin, Int32Min, UMax, Modulus, Signed, Unsigned

-----------------------------------------------------------------------------
(***************************************************************************)
(* Reference counts, for any places, names and data.  The count of a value   *)
(* in the middle of a put, of an add or of a copy is that of its references  *)
(* with the slot that is open left out and what is to be put taken in.       *)
(***************************************************************************)

Kids(P) == Seq([key : Names \cup {"item"}, val : P \cup {NULL}])
Heaps(P) == [P -> Cells(P)]
Lists(P) == Seq(P \cup {NULL})

\* A finite set of places, of which NULL is none
Places(P) == IsFiniteSet(P) /\ NULL \notin P

\* A set of numbers has a least one.
LEMMA LeastOf ==
    ASSUME NEW T \in SUBSET Nat, T # {}
    PROVE  \E n \in T : \A m \in T : n <= m
<1> DEFINE R == OpToRel(<, Nat)
<1>1. IsWellFoundedOn(R, Nat)
  BY NatLessThanWellFounded
<1>2. \A x, y \in Nat : x < y => <<x, y>> \in R
  BY ZenonT(20) DEF OpToRel
<1> HIDE DEF R
<1>3. PICK n \in T : \A m \in T : ~(<<m, n>> \in R)
  BY ONLY <1>1, WFMin, T \in SUBSET Nat, T # {}
<1>4. \A m \in T : ~(m < n)
  BY <1>2, <1>3
<1> QED BY <1>4

\* Induction, said of the set of numbers that a fact holds of.
LEMMA InductionOn ==
    ASSUME NEW T, 0 \in T, \A n \in Nat : n \in T => n + 1 \in T
    PROVE  Nat \subseteq T
<1> SUFFICES ASSUME Nat \ T # {} PROVE FALSE
  OBVIOUS
<1>1. PICK n \in Nat \ T : \A m \in Nat \ T : n <= m
  BY LeastOf
<1>2. n - 1 \in Nat /\ n - 1 \in T
  BY <1>1
<1> QED BY <1>1, <1>2

\* What is computed in N steps, from w by F, is a function.
Iteration(W, F, w, N, f) == f \in [0 .. N -> W] /\ f[0] = w /\ \A n \in 1 .. N : f[n] = F[n][f[n - 1]]

LEMMA Iterates ==
    ASSUME NEW W, NEW F \in [Nat -> [W -> W]], NEW w \in W, NEW N \in Nat
    PROVE  \E f : Iteration(W, F, w, N, f)
<1> USE DEF Iteration
<1> DEFINE Upto(n, f) == Iteration(W, F, w, n, f)
           T == {n \in Nat : \E f : Upto(n, f)}
<1>1. 0 \in T
  <2> DEFINE f == [k \in 0 .. 0 |-> w]
  <2>1. Upto(0, f)
    OBVIOUS
  <2> QED BY <2>1
<1>2. ASSUME NEW n \in Nat, n \in T PROVE n + 1 \in T
  <2>1. PICK f : Upto(n, f)
    BY <1>2
  <2> DEFINE g == [k \in 0 .. n + 1 |-> IF k <= n THEN f[k] ELSE F[n + 1][f[n]]]
  <2>2. n \in 0 .. n /\ f[n] \in W /\ F[n + 1][f[n]] \in W
    BY <2>1
  <2>3. g \in [0 .. n + 1 -> W] /\ g[0] = w
    BY <2>1, <2>2
  <2>4. \A k \in 1 .. n + 1 : g[k] = F[k][g[k - 1]]
    <3> SUFFICES ASSUME NEW k \in 1 .. n + 1 PROVE g[k] = F[k][g[k - 1]]
      OBVIOUS
    <3>1. k - 1 \in 0 .. n + 1 /\ k - 1 <= n /\ g[k - 1] = f[k - 1]
      OBVIOUS
    <3>2. CASE k = n + 1
      <4>1. k - 1 = n /\ ~(k <= n)
        BY <3>2
      <4> QED BY <3>1, <3>2, <4>1
    <3>3. CASE k \in 1 .. n
      BY <2>1, <3>1, <3>3
    <3> QED BY <3>2, <3>3
  <2> HIDE DEF g
  <2>5. Upto(n + 1, g)
    BY <2>3, <2>4
  <2> QED BY <2>5
<1> HIDE DEF T
<1>3. Nat \subseteq T
  BY <1>1, <1>2, InductionOn
<1> QED BY <1>3 DEF T

LEMMA SeqParts ==
    ASSUME NEW S, NEW s \in Seq(S)
    PROVE  /\ Len(s) \in Nat /\ DOMAIN s = 1 .. Len(s)
           /\ \A i \in 1 .. Len(s) : s[i] \in S
  OBVIOUS

LEMMA CellParts ==
    ASSUME NEW P, NEW h \in Heaps(P), NEW o \in P
    PROVE  /\ DOMAIN h = P
           /\ h[o].ref \in Nat /\ h[o].kids \in Kids(P)
           /\ Len(h[o].kids) \in Nat /\ DOMAIN h[o].kids = 1 .. Len(h[o].kids)
           /\ \A i \in DOMAIN h[o].kids : h[o].kids[i].val \in P \cup {NULL}
           /\ \A i \in DOMAIN h[o].kids : h[o].kids[i].key \in Names \cup {"item"}
<1>1. h[o] \in Cells(P) /\ DOMAIN h = P
  BY DEF Heaps
<1>2. h[o].ref \in Nat /\ h[o].kids \in Kids(P)
  BY <1>1 DEF Cells, Kids
<1>3. Len(h[o].kids) \in Nat /\ DOMAIN h[o].kids = 1 .. Len(h[o].kids)
  BY <1>2, SeqParts DEF Kids
<1>4. \A i \in DOMAIN h[o].kids : h[o].kids[i] \in [key : Names \cup {"item"}, val : P \cup {NULL}]
  BY <1>2, <1>3, SeqParts DEF Kids
<1> QED BY <1>1, <1>2, <1>3, <1>4

LEMMA ValsParts ==
    ASSUME NEW P, NEW h \in Heaps(P), NEW o \in P
    PROVE  /\ Vals(h, o) \in Lists(P) /\ Len(Vals(h, o)) = Len(h[o].kids)
           /\ \A i \in 1 .. Len(h[o].kids) : Vals(h, o)[i] = h[o].kids[i].val
<1>1. DOMAIN h[o].kids = 1 .. Len(h[o].kids) /\ Len(h[o].kids) \in Nat
  BY CellParts
<1>2. \A i \in 1 .. Len(h[o].kids) : h[o].kids[i].val \in P \cup {NULL}
  BY <1>1, CellParts
<1> DEFINE n == Len(h[o].kids)
           v == [i \in 1 .. n |-> h[o].kids[i].val]
<1>3. Vals(h, o) = v
  BY <1>1 DEF Vals
<1>4. n \in Nat /\ \A i \in 1 .. n : v[i] \in P \cup {NULL} /\ v[i] = h[o].kids[i].val
  BY <1>1, <1>2
<1> HIDE DEF n
<1>5. v \in Seq(P \cup {NULL}) /\ Len(v) = n
  BY <1>4
<1> QED BY <1>3, <1>4, <1>5 DEF Lists, n

\* A slot, and what it points to
Points(h, r) == h[r[1]].kids[r[2]].val

LEMMA SlotParts ==
    ASSUME NEW P, NEW h \in Heaps(P)
    PROVE  /\ \A r : r \in SlotsOf(h) <=> /\ r = <<r[1], r[2]>> /\ r[1] \in P
                                          /\ r[2] \in 1 .. Len(h[r[1]].kids)
           /\ \A p \in P : \A i \in 1 .. Len(h[p].kids) : <<p, i>> \in SlotsOf(h)
           /\ \A r \in SlotsOf(h) : Points(h, r) \in P \cup {NULL}
<1>1. DOMAIN h = P /\ \A p \in P : DOMAIN h[p].kids = 1 .. Len(h[p].kids)
  BY CellParts DEF Heaps
<1>2. \A r : r \in SlotsOf(h) <=> \E p \in P : r \in {p} \X (1 .. Len(h[p].kids))
  BY <1>1 DEF SlotsOf
<1>3. \A r : r \in SlotsOf(h) <=> /\ r = <<r[1], r[2]>> /\ r[1] \in P
                                  /\ r[2] \in 1 .. Len(h[r[1]].kids)
  <2>1. ASSUME NEW r, r \in SlotsOf(h)
        PROVE  r = <<r[1], r[2]>> /\ r[1] \in P /\ r[2] \in 1 .. Len(h[r[1]].kids)
    <3>1. PICK p \in P : r \in {p} \X (1 .. Len(h[p].kids))
      BY <1>2, <2>1
    <3>2. r[1] = p /\ r = <<r[1], r[2]>> /\ r[2] \in 1 .. Len(h[p].kids)
      BY <3>1
    <3> QED BY <3>2
  <2>2. ASSUME NEW r, r = <<r[1], r[2]>>, r[1] \in P, r[2] \in 1 .. Len(h[r[1]].kids)
        PROVE  r \in SlotsOf(h)
    <3>1. r \in {r[1]} \X (1 .. Len(h[r[1]].kids))
      BY <2>2
    <3> QED BY <1>2, <2>2, <3>1
  <2> QED BY <2>1, <2>2
<1>4. \A p \in P : \A i \in 1 .. Len(h[p].kids) : <<p, i>> \in SlotsOf(h)
  BY <1>2
<1>5. \A r \in SlotsOf(h) : Points(h, r) \in P \cup {NULL}
  BY <1>1, <1>3, CellParts DEF Points
<1> QED BY <1>3, <1>4, <1>5

LEMMA SlotsFinite ==
    ASSUME NEW P, Places(P), NEW h \in Heaps(P)
    PROVE  IsFiniteSet(SlotsOf(h)) /\ Cardinality(SlotsOf(h)) \in Nat
<1> DEFINE of == [p \in P |-> {p} \X (1 .. Len(h[p].kids))]
           family == {of[p] : p \in P}
<1>1. DOMAIN h = P /\ \A p \in P : DOMAIN h[p].kids = 1 .. Len(h[p].kids) /\ Len(h[p].kids) \in Nat
  BY CellParts DEF Heaps
<1>2. SlotsOf(h) = UNION family
  BY <1>1 DEF SlotsOf
<1>3. of \in Surjection(P, family)
  BY DEF Surjection
<1>4. IsFiniteSet(family)
  BY <1>3, FS_Surjection DEF Places
<1>5. \A T \in family : IsFiniteSet(T)
  <2> SUFFICES ASSUME NEW p \in P PROVE IsFiniteSet(of[p])
    OBVIOUS
  <2>1. IsFiniteSet({p}) /\ IsFiniteSet(1 .. Len(h[p].kids))
    <3>1. 1 \in Int /\ Len(h[p].kids) \in Int
      BY <1>1
    <3>2. IsFiniteSet({p})
      BY FS_Singleton
    <3> QED BY <3>1, <3>2, FS_Interval
  <2>2. IsFiniteSet({p} \X (1 .. Len(h[p].kids)))
    BY <2>1, FS_Product
  <2> QED BY <2>2
<1> HIDE DEF of
<1>6. IsFiniteSet(UNION family)
  BY <1>4, <1>5, FS_UNION
<1> QED BY <1>2, <1>6, FS_CardinalityType

-----------------------------------------------------------------------------
\* The references to q: the slots that point to it, those of X left out, and its
\* places in the list of what is to be put.
Refs(h, X, list, q) ==
    {r \in SlotsOf(h) \ X : Points(h, r) = q}
        \cup {r \in {NULL} \X DOMAIN list : list[r[2]] = q}

\* Every reference is counted, with f those of whom is not in the heap.
Counted(h, X, f, list) ==
    \A q \in DOMAIN h : h[q].ref = f[q] + Cardinality(Refs(h, X, list, q))

\* What is free holds nothing.
FreeIsEmpty(h) == \A q \in DOMAIN h : h[q].ref = 0 => h[q].kids = << >>

\* Who is in K is held, or pointed to from K.
Supported(h, X, f, K) ==
    \A o \in K : \/ f[o] > 0
                  \/ \E r \in SlotsOf(h) \ X : r[1] \in K /\ Points(h, r) = o

LEMMA SameSize ==
    ASSUME NEW S, NEW T, NEW g \in [S -> T], IsFiniteSet(T),
           \A a, b \in S : g[a] = g[b] => a = b, \A t \in T : \E a \in S : g[a] = t
    PROVE  Cardinality(S) = Cardinality(T)
<1>1. g \in Bijection(S, T)
  BY DEF Bijection, Injection, Surjection, IsInjective
<1>2. g \in Injection(S, T)
  BY <1>1 DEF Bijection
<1>3. IsFiniteSet(S)
  BY <1>2, FS_Injection
<1>4. ExistsBijection(S, T)
  BY <1>1 DEF ExistsBijection
<1> QED BY <1>3, <1>4, FS_Bijection

LEMMA RefParts ==
    ASSUME NEW P, Places(P), NEW h \in Heaps(P), NEW list \in Lists(P), NEW X, NEW q
    PROVE  \A r : r \in Refs(h, X, list, q) <=>
                      \/ /\ r = <<r[1], r[2]>> /\ r[1] \in P /\ r[1] # NULL
                         /\ r[2] \in 1 .. Len(h[r[1]].kids)
                         /\ r \notin X /\ Points(h, r) = q
                      \/ r = <<NULL, r[2]>> /\ r[2] \in 1 .. Len(list) /\ list[r[2]] = q
<1>1. DOMAIN list = 1 .. Len(list)
  BY SeqParts DEF Lists
<1>2. \A r : r \in {NULL} \X DOMAIN list <=> r = <<NULL, r[2]>> /\ r[2] \in 1 .. Len(list)
  BY <1>1
<1>3. \A r : r \in SlotsOf(h) <=> /\ r = <<r[1], r[2]>> /\ r[1] \in P /\ r[1] # NULL
                                  /\ r[2] \in 1 .. Len(h[r[1]].kids)
  BY SlotParts DEF Places
<1> QED BY <1>2, <1>3 DEF Refs

LEMMA RefsFinite ==
    ASSUME NEW P, Places(P), NEW h \in Heaps(P), NEW list \in Lists(P), NEW X, NEW q
    PROVE  IsFiniteSet(Refs(h, X, list, q)) /\ Cardinality(Refs(h, X, list, q)) \in Nat
<1>1. IsFiniteSet(SlotsOf(h))
  BY SlotsFinite
<1>2. IsFiniteSet({r \in SlotsOf(h) \ X : Points(h, r) = q})
  BY <1>1, FS_Subset
<1>3. DOMAIN list = 1 .. Len(list) /\ Len(list) \in Int /\ 1 \in Int
  BY SeqParts DEF Lists
<1>4. IsFiniteSet(DOMAIN list)
  BY <1>3, FS_Interval
<1>5. IsFiniteSet({NULL})
  BY FS_Singleton
<1>6. IsFiniteSet({NULL} \X DOMAIN list)
  BY <1>4, <1>5, FS_Product
<1>7. IsFiniteSet({r \in {NULL} \X DOMAIN list : list[r[2]] = q})
  BY <1>6, FS_Subset
<1>8. IsFiniteSet(Refs(h, X, list, q))
  BY <1>2, <1>7, FS_Union DEF Refs
<1> QED BY <1>8, FS_CardinalityType

\* o, the first of the list, is put, and k slots of it take its place.
PutInTurn(P, h, H, list, new, X, k, o) ==
    /\ h \in Heaps(P) /\ H \in Heaps(P) /\ list \in Lists(P) /\ new \in Lists(P) /\ k \in Nat
    /\ list # << >> /\ o = list[1] /\ Len(new) = k + Len(list) - 1
    /\ k > 0 => /\ o \in P /\ k = Len(h[o].kids) /\ \A x \in X : x[1] # o
                /\ H[o].kids = << >>
    /\ \A p \in P : (k = 0 \/ p # o) => H[p].kids = h[p].kids
    /\ \A j \in 1 .. k : new[j] = h[o].kids[j].val
    /\ \A j \in k + 1 .. Len(new) : new[j] = list[j - k + 1]

LEMMA FirstIsPut ==
    ASSUME NEW P, Places(P), NEW h, NEW H, NEW list, NEW new, NEW X, NEW k, NEW o,
           PutInTurn(P, h, H, list, new, X, k, o), NEW q
    PROVE  Cardinality(Refs(h, X, list, q))
               = Cardinality(Refs(H, X, new, q)) + (IF q = o THEN 1 ELSE 0)
<1>0. /\ h \in Heaps(P) /\ H \in Heaps(P) /\ list \in Lists(P) /\ new \in Lists(P) /\ k \in Nat
      /\ list # << >> /\ o = list[1] /\ Len(new) = k + Len(list) - 1
      /\ k > 0 => /\ o \in P /\ k = Len(h[o].kids) /\ \A x \in X : x[1] # o
                  /\ H[o].kids = << >>
      /\ \A p \in P : (k = 0 \/ p # o) => H[p].kids = h[p].kids
      /\ \A j \in 1 .. k : new[j] = h[o].kids[j].val
      /\ \A j \in k + 1 .. Len(new) : new[j] = list[j - k + 1]
  BY DEF PutInTurn
<1> DEFINE S == Refs(H, X, new, q)
           T == Refs(h, X, list, q) \ {<<NULL, 1>>}
           g == [r \in S |-> IF r[1] # NULL THEN r
                             ELSE IF r[2] <= k THEN <<o, r[2]>> ELSE <<NULL, r[2] - k + 1>>]
<1>1. Len(list) \in Nat /\ Len(list) > 0 /\ Len(new) \in Nat
  BY <1>0, SeqParts DEF Lists
<1>2. \A r : r \in S <=>
             \/ /\ r = <<r[1], r[2]>> /\ r[1] \in P /\ r[1] # NULL
                /\ r[2] \in 1 .. Len(H[r[1]].kids)
                /\ r \notin X /\ Points(H, r) = q
             \/ r = <<NULL, r[2]>> /\ r[2] \in 1 .. Len(new) /\ new[r[2]] = q
  BY <1>0, RefParts
<1>3. \A r : r \in Refs(h, X, list, q) <=>
             \/ /\ r = <<r[1], r[2]>> /\ r[1] \in P /\ r[1] # NULL
                /\ r[2] \in 1 .. Len(h[r[1]].kids)
                /\ r \notin X /\ Points(h, r) = q
             \/ r = <<NULL, r[2]>> /\ r[2] \in 1 .. Len(list) /\ list[r[2]] = q
  BY <1>0, RefParts
<1>4. \A p \in P : Len(H[p].kids) \in Nat /\ Len(h[p].kids) \in Nat
  BY <1>0, CellParts
<1>5. o \in P => o # NULL
  BY DEF Places
<1> HIDE DEF S
<1>6. \A r \in S : g[r] \in T
  <2> SUFFICES ASSUME NEW r \in S PROVE g[r] \in T
    OBVIOUS
  <2>1. CASE r[1] # NULL
    <3>1. r = <<r[1], r[2]>> /\ r[1] \in P /\ r[2] \in 1 .. Len(H[r[1]].kids) /\ r \notin X
             /\ Points(H, r) = q
      BY <1>2, <2>1
    <3>2. H[r[1]].kids = h[r[1]].kids
      BY <1>0, <3>1
    <3>3. Points(h, r) = q
      BY <3>1, <3>2 DEF Points
    <3>4. r \in Refs(h, X, list, q)
      BY <1>3, <2>1, <3>1, <3>2, <3>3
    <3>5. r # <<NULL, 1>>
      BY <2>1
    <3> QED BY <2>1, <3>4, <3>5
  <2>2. CASE r[1] = NULL
    <3>1. r = <<NULL, r[2]>> /\ r[2] \in 1 .. Len(new) /\ new[r[2]] = q
      BY <1>2, <2>2
    <3>2. CASE r[2] <= k
      <4>1. g[r] = <<o, r[2]>>
        BY <2>2, <3>2
      <4>2. k > 0 /\ r[2] \in 1 .. k
        BY <1>0, <3>1, <3>2
      <4>3. o \in P /\ r[2] \in 1 .. Len(h[o].kids) /\ h[o].kids[r[2]].val = q /\ \A x \in X : x[1] # o
        BY <1>0, <3>1, <4>2
      <4>4. <<o, r[2]>> \in Refs(h, X, list, q)
        <5>1. Points(h, <<o, r[2]>>) = q /\ <<o, r[2]>> \notin X
          BY <4>3 DEF Points
        <5> QED BY <1>3, <1>5, <4>3, <5>1
      <4>5. <<o, r[2]>> # <<NULL, 1>>
        BY <1>5, <4>3
      <4> QED BY ONLY <4>1, <4>4, <4>5
    <3>3. CASE r[2] > k
      <4>1. g[r] = <<NULL, r[2] - k + 1>>
        BY <1>0, <2>2, <3>1, <3>3
      <4>2. r[2] \in k + 1 .. Len(new)
        BY <1>0, <1>1, <3>1, <3>3
      <4>3. r[2] - k + 1 \in 1 .. Len(list) /\ r[2] - k + 1 # 1 /\ list[r[2] - k + 1] = q
        BY <1>0, <1>1, <3>1, <4>2
      <4>4. <<NULL, r[2] - k + 1>> \in Refs(h, X, list, q)
        BY <1>3, <4>3
      <4> QED BY <4>1, <4>3, <4>4
    <3> QED BY <1>0, <3>1, <3>2, <3>3
  <2> QED BY <2>1, <2>2
<1>7. ASSUME NEW a \in S, NEW b \in S, g[a] = g[b] PROVE a = b
  <2>1. /\ a[1] # NULL => a[1] \in P /\ a[2] \in 1 .. Len(H[a[1]].kids)
        /\ a[1] = NULL => a = <<NULL, a[2]>> /\ a[2] \in 1 .. Len(new)
    BY <1>2
  <2>2. /\ b[1] # NULL => b[1] \in P /\ b[2] \in 1 .. Len(H[b[1]].kids)
        /\ b[1] = NULL => b = <<NULL, b[2]>> /\ b[2] \in 1 .. Len(new)
    BY <1>2
  <2>3. CASE a[1] # NULL
    <3>1. g[a] = a
      BY <2>3
    <3>2. CASE b[1] # NULL
      BY <1>7, <3>1, <3>2
    <3>3. CASE b[1] = NULL /\ b[2] <= k
      <4>1. g[b] = <<o, b[2]>>
        BY <3>3
      <4>2. a = <<o, b[2]>>
        BY <1>7, <3>1, <4>1
      <4>3. k > 0
        <5>1. b[2] \in Nat /\ b[2] > 0 /\ k \in Nat
          BY <1>0, <1>1, <2>2, <3>3
        <5> QED BY ONLY <3>3, <5>1
      <4>4. a[1] = o /\ H[o].kids = << >>
        BY <1>0, <4>2, <4>3
      <4> QED BY <2>1, <2>3, <4>4
    <3>4. CASE b[1] = NULL /\ ~(b[2] <= k)
      <4>1. a = <<NULL, b[2] - k + 1>>
        BY <1>7, <2>2, <3>1, <3>4
      <4> QED BY <2>3, <4>1
    <3> QED BY <3>2, <3>3, <3>4
  <2>4. CASE a[1] = NULL /\ a[2] <= k
    <3>1. g[a] = <<o, a[2]>> /\ k > 0 /\ o # NULL
      BY <1>0, <1>5, <2>1, <2>4
    <3>2. CASE b[1] # NULL
      <4>1. b = <<o, a[2]>>
        BY <1>7, <3>1, <3>2
      <4>2. b[1] = o /\ H[o].kids = << >>
        BY <1>0, <3>1, <4>1
      <4> QED BY <2>2, <3>2, <4>2
    <3>3. CASE b[1] = NULL /\ b[2] <= k
      <4>1. g[b] = <<o, b[2]>>
        BY <3>3
      <4>2. a[2] = b[2]
        BY <1>7, <3>1, <4>1
      <4> QED BY <2>1, <2>2, <2>4, <3>3, <4>2
    <3>4. CASE b[1] = NULL /\ ~(b[2] <= k)
      <4>1. g[b] = <<NULL, b[2] - k + 1>>
        BY <3>4
      <4> QED BY <1>7, <3>1, <4>1
    <3> QED BY <3>2, <3>3, <3>4
  <2>5. CASE a[1] = NULL /\ ~(a[2] <= k)
    <3>1. g[a] = <<NULL, a[2] - k + 1>>
      BY <2>5
    <3>2. CASE b[1] # NULL
      <4>1. b = <<NULL, a[2] - k + 1>>
        BY <1>7, <3>1, <3>2
      <4> QED BY <3>2, <4>1
    <3>3. CASE b[1] = NULL /\ b[2] <= k
      <4>1. g[b] = <<o, b[2]>> /\ o # NULL
        BY <1>0, <1>5, <2>2, <3>3
      <4> QED BY <1>7, <3>1, <4>1
    <3>4. CASE b[1] = NULL /\ ~(b[2] <= k)
      <4>1. g[b] = <<NULL, b[2] - k + 1>>
        BY <3>4
      <4>2. a[2] - k + 1 = b[2] - k + 1
        BY <1>7, <3>1, <4>1
      <4>3. a[2] = b[2]
        BY <1>0, <1>1, <2>1, <2>2, <2>5, <3>4, <4>2
      <4> QED BY <2>1, <2>2, <2>5, <3>4, <4>3
    <3> QED BY <3>2, <3>3, <3>4
  <2> QED BY <2>3, <2>4, <2>5
<1>8. ASSUME NEW t \in T PROVE \E a \in S : g[a] = t
  <2>1. t \in Refs(h, X, list, q) /\ t # <<NULL, 1>>
    OBVIOUS
  <2>2. CASE t[1] = NULL
    <3>1. t = <<NULL, t[2]>> /\ t[2] \in 1 .. Len(list) /\ list[t[2]] = q /\ t[2] # 1
      BY <1>3, <2>1, <2>2
    <3> DEFINE j == t[2] + k - 1
    <3>2. j \in k + 1 .. Len(new) /\ j - k + 1 = t[2] /\ j \in 1 .. Len(new) /\ ~(j <= k)
      <4>1. k \in Nat /\ Len(new) = k + Len(list) - 1
        BY <1>0
      <4>2. t[2] \in Nat /\ t[2] > 1 /\ t[2] <= Len(list)
        BY <1>1, <3>1
      <4> QED BY ONLY <1>1, <4>1, <4>2
    <3>3. new[j] = q
      <4>1. new[j] = list[j - k + 1]
        BY <1>0, <3>2
      <4> QED BY ONLY <3>1, <3>2, <4>1
    <3> HIDE DEF j
    <3>4. <<NULL, j>> \in S
      BY <1>2, <3>2, <3>3
    <3>5. g[<<NULL, j>>] = <<NULL, j - k + 1>>
      BY <3>2, <3>4
    <3> QED BY <3>1, <3>2, <3>4, <3>5
  <2>3. CASE t[1] # NULL
    <3>1. /\ t = <<t[1], t[2]>> /\ t[1] \in P /\ t[2] \in 1 .. Len(h[t[1]].kids)
          /\ t \notin X /\ Points(h, t) = q
      BY <1>3, <2>1, <2>3
    <3>2. CASE k = 0 \/ t[1] # o
      <4>1. H[t[1]].kids = h[t[1]].kids
        BY <1>0, <3>1, <3>2
      <4>2. Points(H, t) = q
        BY <3>1, <4>1 DEF Points
      <4>3. t \in S
        BY <1>2, <2>3, <3>1, <4>1, <4>2
      <4> QED BY <2>3, <4>3
    <3>3. CASE k > 0 /\ t[1] = o
      <4>1. t[2] \in 1 .. k /\ new[t[2]] = q
        BY <1>0, <3>1, <3>3 DEF Points
      <4>2. t[2] \in 1 .. Len(new) /\ t[2] <= k
        BY <1>0, <1>1, <4>1
      <4>3. <<NULL, t[2]>> \in S
        BY <1>2, <4>1, <4>2
      <4>4. g[<<NULL, t[2]>>] = <<o, t[2]>>
        BY <4>2, <4>3
      <4> QED BY <3>1, <3>3, <4>3, <4>4
    <3> QED BY <1>0, <3>2, <3>3
  <2> QED BY <2>2, <2>3
<1>9. IsFiniteSet(Refs(h, X, list, q)) /\ Cardinality(Refs(h, X, list, q)) \in Nat
  BY <1>0, RefsFinite
<1>10. /\ IsFiniteSet(T)
       /\ Cardinality(T) = IF <<NULL, 1>> \in Refs(h, X, list, q)
                             THEN Cardinality(Refs(h, X, list, q)) - 1
                             ELSE Cardinality(Refs(h, X, list, q))
  BY <1>9, FS_RemoveElement
<1>11. g \in [S -> T]
  BY <1>6
<1>12. Cardinality(S) = Cardinality(T)
  <2> HIDE DEF g, T
  <2> QED BY <1>7, <1>8, <1>10, <1>11, SameSize
<1>13. <<NULL, 1>> \in Refs(h, X, list, q) <=> q = o
  <2>1. \A r : r = <<NULL, 1>> => /\ r[1] = NULL /\ r[2] = 1 /\ r = <<NULL, r[2]>>
    OBVIOUS
  <2>2. 1 \in 1 .. Len(list)
    BY <1>1
  <2> QED BY <1>0, <1>3, <2>1, <2>2
<1> QED BY <1>9, <1>10, <1>12, <1>13 DEF S

-----------------------------------------------------------------------------
(***************************************************************************)
(* json_object_put                                                          *)
(***************************************************************************)

PutStates(P) == [h : Heaps(P), list : Lists(P)]
PutsLeft(s) == Len(s.list) + Cardinality(SlotsOf(s.h))

LEMMA ListParts ==
    ASSUME NEW P, NEW list \in Lists(P), list # << >>
    PROVE  /\ Head(list) = list[1] /\ Head(list) \in P \cup {NULL}
           /\ Tail(list) \in Lists(P) /\ Len(Tail(list)) = Len(list) - 1
           /\ Len(list) \in Nat /\ Len(list) > 0
           /\ \A j \in 1 .. Len(list) - 1 : Tail(list)[j] = list[j + 1]
  BY DEF Lists

LEMMA FreeIsCell == ASSUME NEW P PROVE FreeCell \in Cells(P) /\ FreeCell.kids = << >> /\ FreeCell.ref = 0
<1>1. << >> \in Seq([key : Names \cup {"item"}, val : P \cup {NULL}])
  OBVIOUS
<1> QED BY <1>1 DEF FreeCell, Cells

LEMMA WithRef ==
    ASSUME NEW P, NEW h \in Heaps(P), NEW o \in P, NEW n \in Nat
    PROVE  LET H == [h EXCEPT ![o].ref = n]
           IN  /\ H \in Heaps(P) /\ H[o].ref = n /\ \A p \in P : p # o => H[p] = h[p]
               /\ \A p \in P : H[p].kids = h[p].kids /\ H[p].kind = h[p].kind /\ H[p].data = h[p].data
<1> DEFINE H == [h EXCEPT ![o].ref = n]
<1>1. h[o] \in Cells(P)
  BY DEF Heaps
<1>2. /\ [h[o] EXCEPT !.ref = n] \in Cells(P) /\ [h[o] EXCEPT !.ref = n].ref = n
      /\ [h[o] EXCEPT !.ref = n].kids = h[o].kids
      /\ [h[o] EXCEPT !.ref = n].kind = h[o].kind /\ [h[o] EXCEPT !.ref = n].data = h[o].data
  BY <1>1 DEF Cells
<1>3. H = [h EXCEPT ![o] = [h[o] EXCEPT !.ref = n]]
  OBVIOUS
<1>4. H[o] = [h[o] EXCEPT !.ref = n] /\ (\A p \in P : p # o => H[p] = h[p]) /\ H \in Heaps(P)
  BY <1>2, <1>3 DEF Heaps
<1> QED BY <1>2, <1>4

LEMMA PutFirstIs ==
    ASSUME NEW P, NEW s \in PutStates(P), s.list # << >>
    PROVE  LET o == s.list[1]
               rest == Tail(s.list)
               t == PutFirst(s)
           IN  /\ t \in PutStates(P)
               /\ o = NULL => t.h = s.h /\ t.list = rest
               /\ o # NULL /\ s.h[o].ref > 1 => t.h = [s.h EXCEPT ![o].ref = @ - 1] /\ t.list = rest
               /\ o # NULL /\ ~(s.h[o].ref > 1) =>
                      t.h = [s.h EXCEPT ![o] = FreeCell] /\ t.list = Vals(s.h, o) \o rest
<1> DEFINE o == s.list[1]
           rest == Tail(s.list)
           t == PutFirst(s)
<1>1. s.h \in Heaps(P) /\ s.list \in Lists(P)
  BY DEF PutStates
<1>2. o = Head(s.list) /\ o \in P \cup {NULL} /\ rest \in Lists(P)
  BY <1>1, ListParts
<1>3. CASE o = NULL
  <2>1. t = [h |-> s.h, list |-> rest]
    BY <1>2, <1>3 DEF PutFirst
  <2> HIDE DEF t, rest
  <2> QED BY <1>1, <1>2, <1>3, <2>1 DEF PutStates, t, rest
<1>4. CASE o # NULL /\ s.h[o].ref > 1
  <2>1. t = [h |-> [s.h EXCEPT ![o].ref = @ - 1], list |-> rest]
    BY <1>2, <1>4 DEF PutFirst
  <2>2. o \in P /\ s.h[o].ref \in Nat /\ s.h[o].ref - 1 \in Nat
    BY <1>1, <1>2, <1>4, CellParts
  <2>3. [s.h EXCEPT ![o].ref = s.h[o].ref - 1] \in Heaps(P)
    BY <1>1, <2>2, WithRef
  <2>4. [s.h EXCEPT ![o].ref = @ - 1] \in Heaps(P)
    BY <2>3
  <2> QED BY <1>2, <1>4, <2>1, <2>4 DEF PutStates
<1>5. CASE o # NULL /\ ~(s.h[o].ref > 1)
  <2>1. t = [h |-> [s.h EXCEPT ![o] = FreeCell], list |-> Vals(s.h, o) \o rest]
    BY <1>2, <1>5 DEF PutFirst
  <2>2. Vals(s.h, o) \in Lists(P)
    BY <1>1, <1>2, <1>5, ValsParts
  <2>3. Vals(s.h, o) \o rest \in Lists(P)
    BY <1>2, <2>2 DEF Lists
  <2>4. [s.h EXCEPT ![o] = FreeCell] \in Heaps(P)
    BY <1>1, FreeIsCell DEF Heaps
  <2> QED BY <1>2, <1>5, <2>1, <2>3, <2>4 DEF PutStates
<1> QED BY <1>3, <1>4, <1>5

\* What is true between two puts
Putting(P, s, X, f, K) ==
    /\ s \in PutStates(P) /\ FreeIsEmpty(s.h)
    /\ Counted(s.h, X, f, s.list) /\ Supported(s.h, X, f, K)

\* The cells of K keep what they hold.
SameIn(K, h, H) ==
    \A p \in K : H[p].kids = h[p].kids /\ H[p].kind = h[p].kind /\ H[p].data = h[p].data

\* Somebody in K is not freed, for what is put is one more reference.
LEMMA SupportedIsShared ==
    ASSUME NEW P, Places(P), NEW h \in Heaps(P), NEW list \in Lists(P), NEW X, NEW f \in [P -> Nat],
           NEW K \in SUBSET P, Counted(h, X, f, list), Supported(h, X, f, K), NEW o \in K
    PROVE  /\ h[o].ref > 0
           /\ list # << >> /\ list[1] = o => h[o].ref > 1
<1> DEFINE R == Refs(h, X, list, o)
<1>1. h[o].ref = f[o] + Cardinality(R) /\ IsFiniteSet(R) /\ Cardinality(R) \in Nat /\ f[o] \in Nat
  BY RefsFinite DEF Counted, Heaps
<1>2. \A r \in SlotsOf(h) \ X : Points(h, r) = o => r \in R /\ r[1] # NULL
  BY SlotParts DEF Refs, Places
<1>3. f[o] > 0 \/ \E r \in R : r[1] # NULL
  BY <1>2 DEF Supported
<1>4. list # << >> /\ list[1] = o => <<NULL, 1>> \in R
  <2>1. list # << >> => 1 \in DOMAIN list
    BY DEF Lists
  <2>2. <<NULL, 1>>[2] = 1
    OBVIOUS
  <2> QED BY <2>1, <2>2 DEF Refs
<1>5. <<NULL, 1>>[1] = NULL
  OBVIOUS
<1> HIDE DEF R
<1>6. \A r \in R : Cardinality(R \ {r}) = Cardinality(R) - 1 /\ Cardinality(R \ {r}) \in Nat
  BY <1>1, FS_RemoveElement, FS_CardinalityType
<1>7. \A r \in R : Cardinality(R) > 0
  <2> SUFFICES ASSUME NEW r \in R PROVE Cardinality(R) > 0
    OBVIOUS
  <2>1. Cardinality(R) # 0
    BY <1>1, FS_EmptySet
  <2> QED BY <1>1, <2>1
<1>8. \A r, u \in R : r # u => Cardinality(R) > 1
  <2> SUFFICES ASSUME NEW r \in R, NEW u \in R, r # u PROVE Cardinality(R) > 1
    OBVIOUS
  <2>1. IsFiniteSet(R \ {r}) /\ u \in R \ {r}
    BY <1>1, FS_RemoveElement
  <2>2. Cardinality(R \ {r}) # 0
    BY <2>1, FS_EmptySet
  <2> QED BY <1>1, <1>6, <2>2
<1>9. h[o].ref > 0
  BY <1>1, <1>3, <1>7
<1>10. ASSUME list # << >>, list[1] = o PROVE h[o].ref > 1
  <2>1. CASE f[o] > 0
    BY <1>1, <1>4, <1>7, <1>10, <2>1
  <2>2. CASE \E r \in R : r[1] # NULL
    BY <1>1, <1>4, <1>5, <1>8, <1>10, <2>2
  <2> QED BY <1>3, <2>1, <2>2
<1> QED BY <1>9, <1>10

\* One put: everything stays counted, and there is one less to do.
LEMMA PutFirstKeeps ==
    ASSUME NEW P, Places(P), NEW s, NEW X, NEW f \in [P -> Nat], NEW K \in SUBSET P,
           \A x \in X : x[1] \in K, Putting(P, s, X, f, K), s.list # << >>
    PROVE  /\ Putting(P, PutFirst(s), X, f, K) /\ SameIn(K, s.h, PutFirst(s).h)
           /\ PutsLeft(PutFirst(s)) = PutsLeft(s) - 1
<1> DEFINE t == PutFirst(s)
           h == s.h
           H == t.h
           o == s.list[1]
           rest == Tail(s.list)
<1>1. s \in PutStates(P) /\ FreeIsEmpty(h) /\ Counted(h, X, f, s.list) /\ Supported(h, X, f, K)
  BY DEF Putting
<1>2. h \in Heaps(P) /\ s.list \in Lists(P) /\ DOMAIN h = P
  BY <1>1 DEF PutStates, Heaps
<1>3. /\ t \in PutStates(P)
      /\ o = NULL => H = h /\ t.list = rest
      /\ o # NULL /\ h[o].ref > 1 => H = [h EXCEPT ![o].ref = @ - 1] /\ t.list = rest
      /\ o # NULL /\ ~(h[o].ref > 1) => H = [h EXCEPT ![o] = FreeCell] /\ t.list = Vals(h, o) \o rest
  BY <1>1, PutFirstIs
<1>4. H \in Heaps(P) /\ t.list \in Lists(P) /\ DOMAIN H = P
  BY <1>3 DEF PutStates, Heaps
<1>5. /\ o \in P \cup {NULL} /\ rest \in Lists(P) /\ Len(rest) = Len(s.list) - 1
      /\ Len(s.list) \in Nat /\ Len(s.list) > 0
      /\ \A j \in 1 .. Len(s.list) - 1 : rest[j] = s.list[j + 1]
  BY <1>2, ListParts
<1>6. NULL \notin P /\ \A p \in P : h[p].ref \in Nat /\ Len(h[p].kids) \in Nat
  BY <1>2, CellParts DEF Places
<1>7. \A p \in K : h[p].ref > 0 /\ (p = o => h[p].ref > 1)
  BY <1>1, <1>2, SupportedIsShared
<1> HIDE DEF t
<1>8. \A q : /\ Cardinality(Refs(h, X, s.list, q)) \in Nat /\ Cardinality(Refs(H, X, t.list, q)) \in Nat
  BY <1>2, <1>4, RefsFinite
<1>9. \A p \in P : f[p] \in Nat /\ h[p].ref = f[p] + Cardinality(Refs(h, X, s.list, p))
  BY <1>1, <1>2 DEF Counted
<1> HIDE DEF h, H, o, rest
<1>10. CASE o = NULL \/ h[o].ref > 1
  <2>1. t.list = rest
    BY <1>3, <1>10
  <2>2. /\ \A p \in P : H[p].kids = h[p].kids /\ H[p].kind = h[p].kind /\ H[p].data = h[p].data
        /\ \A p \in P : p # o => H[p] = h[p]
        /\ o # NULL => H[o].ref = h[o].ref - 1
    <3>1. CASE o = NULL
      BY <1>3, <3>1
    <3>2. CASE o # NULL
      <4>1. o \in P /\ h[o].ref > 1 /\ h[o].ref - 1 \in Nat /\ H = [h EXCEPT ![o].ref = h[o].ref - 1]
        BY <1>3, <1>5, <1>6, <1>10, <3>2
      <4> QED BY <1>2, <4>1, WithRef
    <3> QED BY <3>1, <3>2
  <2>3. \A q : Cardinality(Refs(h, X, s.list, q))
                   = Cardinality(Refs(H, X, rest, q)) + (IF q = o THEN 1 ELSE 0)
    <3> SUFFICES ASSUME NEW q
                 PROVE  Cardinality(Refs(h, X, s.list, q))
                            = Cardinality(Refs(H, X, rest, q)) + (IF q = o THEN 1 ELSE 0)
      OBVIOUS
    <3>1. 0 \in Nat /\ s.list # << >> /\ Len(rest) = 0 + Len(s.list) - 1
      BY <1>5
    <3>2. \A j \in 0 + 1 .. Len(rest) : rest[j] = s.list[j - 0 + 1]
      BY <1>5
    <3>3. o = s.list[1]
      BY DEF o
    <3>4. PutInTurn(P, h, H, s.list, rest, X, 0, o)
      BY <1>2, <1>4, <1>5, <2>2, <3>1, <3>2, <3>3 DEF PutInTurn
    <3> QED BY <3>4, FirstIsPut
  <2>4. SlotsOf(H) = SlotsOf(h) /\ \A r \in SlotsOf(h) : Points(H, r) = Points(h, r)
    <3>1. \A r : r \in SlotsOf(h) <=> r \in SlotsOf(H)
      BY <1>2, <1>4, <2>2, SlotParts
    <3>2. \A r \in SlotsOf(h) : r[1] \in P
      BY <1>2, SlotParts
    <3> QED BY <2>2, <3>1, <3>2 DEF Points
  <2>5. Counted(H, X, f, t.list)
    <3> SUFFICES ASSUME NEW q \in P PROVE H[q].ref = f[q] + Cardinality(Refs(H, X, rest, q))
      BY <1>4, <2>1 DEF Counted
    <3>1. CASE q = o
      BY <1>6, <1>8, <1>9, <2>1, <2>2, <2>3, <3>1
    <3>2. CASE q # o
      BY <1>6, <1>8, <1>9, <2>1, <2>2, <2>3, <3>2
    <3> QED BY <3>1, <3>2
  <2>6. FreeIsEmpty(H)
    <3> SUFFICES ASSUME NEW q \in P, H[q].ref = 0 PROVE H[q].kids = << >>
      BY <1>4 DEF FreeIsEmpty
    <3>1. q # o
      BY <1>6, <1>10, <2>2
    <3> QED BY <1>1, <1>2, <2>2, <3>1 DEF FreeIsEmpty, h
  <2>7. Supported(H, X, f, K)
    BY <1>1, <2>4 DEF Supported, h
  <2>8. PutsLeft(t) = PutsLeft(s) - 1
    <3>1. Cardinality(SlotsOf(h)) \in Nat
      BY <1>2, SlotsFinite
    <3>2. PutsLeft(t) = Len(rest) + Cardinality(SlotsOf(h))
      BY <2>1, <2>4 DEF PutsLeft, H
    <3>3. PutsLeft(s) = Len(s.list) + Cardinality(SlotsOf(h))
      BY DEF PutsLeft, h
    <3> QED BY <1>5, <3>1, <3>2, <3>3
  <2>9. SameIn(K, h, H)
    BY <2>2 DEF SameIn
  <2> QED BY <1>3, <2>5, <2>6, <2>7, <2>8, <2>9 DEF Putting, h, H, t
<1>11. CASE o # NULL /\ ~(h[o].ref > 1)
  <2> DEFINE k == Len(h[o].kids)
             held_ == {o} \X (1 .. k)
  <2>1. o \in P /\ o \notin K /\ k \in Nat
    BY <1>5, <1>6, <1>7, <1>11
  <2>2. H = [h EXCEPT ![o] = FreeCell] /\ t.list = Vals(h, o) \o rest
    BY <1>3, <1>11
  <2>3. /\ \A p \in P : p # o => H[p] = h[p]
        /\ H[o] = FreeCell /\ H[o].kids = << >> /\ H[o].ref = 0
    BY <1>2, <2>1, <2>2, FreeIsCell
  <2>4. /\ Vals(h, o) \in Lists(P) /\ Len(Vals(h, o)) = k
        /\ \A i \in 1 .. k : Vals(h, o)[i] = h[o].kids[i].val
    BY <1>2, <2>1, ValsParts
  <2>5. /\ Len(t.list) = k + Len(s.list) - 1
        /\ \A j \in 1 .. k : t.list[j] = h[o].kids[j].val
        /\ \A j \in k + 1 .. Len(t.list) : t.list[j] = s.list[j - k + 1]
    <3> DEFINE v == Vals(h, o)
    <3>1. v \in Seq(P \cup {NULL}) /\ rest \in Seq(P \cup {NULL}) /\ Len(v) = k
      BY <1>5, <2>4 DEF Lists
    <3> HIDE DEF v, k
    <3>2. Len(v \o rest) = k + Len(rest) /\ \A j \in 1 .. k : (v \o rest)[j] = v[j]
      BY <2>1, <3>1
    <3>3. \A j \in k + 1 .. k + Len(rest) : (v \o rest)[j] = rest[j - k] /\ j - k \in 1 .. Len(rest)
      BY <1>5, <2>1, <3>1
    <3>4. \A j \in k + 1 .. k + Len(rest) : rest[j - k] = s.list[j - k + 1]
      BY <1>5, <2>1, <3>3
    <3>5. Len(rest) = Len(s.list) - 1
      BY <1>5
    <3>6. t.list = v \o rest
      BY <2>2 DEF v
    <3>7. Len(t.list) = k + Len(s.list) - 1
      BY <1>5, <2>1, <3>2, <3>5, <3>6
    <3>8. \A j \in 1 .. k : t.list[j] = h[o].kids[j].val
      BY <2>4, <3>2, <3>6 DEF v
    <3>9. Len(t.list) = k + Len(rest)
      BY <3>2, <3>6
    <3> QED BY <3>3, <3>4, <3>6, <3>7, <3>8, <3>9
  <2>6. \A x \in X : x[1] # o
    BY <2>1
  <2>7. \A q : Cardinality(Refs(h, X, s.list, q))
                   = Cardinality(Refs(H, X, t.list, q)) + (IF q = o THEN 1 ELSE 0)
    <3> SUFFICES ASSUME NEW q
                 PROVE  Cardinality(Refs(h, X, s.list, q))
                            = Cardinality(Refs(H, X, t.list, q)) + (IF q = o THEN 1 ELSE 0)
      OBVIOUS
    <3>1. \A p \in P : (k = 0 \/ p # o) => H[p].kids = h[p].kids
      <4>1. k = 0 => h[o].kids = << >>
        <5>1. h[o].kids \in Kids(P)
          BY <1>2, <2>1, CellParts
        <5> QED BY <5>1 DEF Kids
      <4> QED BY <2>3, <4>1
    <3>2. o = s.list[1] /\ s.list # << >>
      BY DEF o
    <3>3. k > 0 => /\ o \in P /\ k = Len(h[o].kids) /\ \A x \in X : x[1] # o
                   /\ H[o].kids = << >>
      BY <2>1, <2>3, <2>6
    <3> HIDE DEF k
    <3>4. PutInTurn(P, h, H, s.list, t.list, X, k, o)
      BY <1>2, <1>4, <2>1, <2>5, <3>1, <3>2, <3>3 DEF PutInTurn
    <3> QED BY <3>4, FirstIsPut
  <2>8. Counted(H, X, f, t.list)
    <3> SUFFICES ASSUME NEW q \in P PROVE H[q].ref = f[q] + Cardinality(Refs(H, X, t.list, q))
      BY <1>4 DEF Counted
    <3>1. CASE q = o
      BY <1>6, <1>8, <1>9, <1>11, <2>3, <2>7, <3>1
    <3>2. CASE q # o
      BY <1>6, <1>8, <1>9, <2>3, <2>7, <3>2
    <3> QED BY <3>1, <3>2
  <2>9. FreeIsEmpty(H)
    BY <1>1, <1>2, <1>4, <2>3 DEF FreeIsEmpty, h
  <2>10. \A r : r \in SlotsOf(H) <=> r \in SlotsOf(h) \ held_
    <3>1. \A r : r \in SlotsOf(h) <=> r = <<r[1], r[2]>> /\ r[1] \in P /\ r[2] \in 1 .. Len(h[r[1]].kids)
      BY <1>2, SlotParts
    <3>2. \A r : r \in SlotsOf(H) <=> r = <<r[1], r[2]>> /\ r[1] \in P /\ r[2] \in 1 .. Len(H[r[1]].kids)
      BY <1>4, SlotParts
    <3>3. \A r : r \in held_ <=> r = <<r[1], r[2]>> /\ r[1] = o /\ r[2] \in 1 .. Len(h[o].kids)
      OBVIOUS
    <3>4. 1 .. Len(H[o].kids) = {}
      BY <2>3
    <3>5. \A p \in P : p # o => H[p].kids = h[p].kids
      BY <2>3
    <3> HIDE DEF held_, k
    <3>6. ASSUME NEW r, r[1] = o PROVE r \notin SlotsOf(H) /\ r \notin SlotsOf(h) \ held_
      BY ONLY <3>1, <3>2, <3>3, <3>4, <3>6
    <3>7. ASSUME NEW r, r[1] # o PROVE r \in SlotsOf(H) <=> r \in SlotsOf(h) \ held_
      BY ONLY <3>1, <3>2, <3>3, <3>5, <3>7
    <3> QED BY ONLY <3>6, <3>7
  <2>11. Supported(H, X, f, K)
    <3> SUFFICES ASSUME NEW p \in K, ~(f[p] > 0)
                 PROVE  \E r \in SlotsOf(H) \ X : r[1] \in K /\ Points(H, r) = p
      BY DEF Supported
    <3>1. PICK r \in SlotsOf(h) \ X : r[1] \in K /\ Points(h, r) = p
      BY <1>1 DEF Supported, h
    <3>2. r[1] # o /\ r[1] \in P
      BY <2>1, <3>1
    <3>3. r \in SlotsOf(H)
      BY <2>10, <3>1, <3>2
    <3>4. Points(H, r) = p
      BY <2>3, <3>1, <3>2 DEF Points
    <3> QED BY <3>1, <3>3, <3>4
  <2>12. Cardinality(SlotsOf(h)) = Cardinality(SlotsOf(H)) + k
    <3>1. IsFiniteSet(SlotsOf(h)) /\ IsFiniteSet(SlotsOf(H))
      BY <1>2, <1>4, SlotsFinite
    <3>2. IsFiniteSet({o}) /\ Cardinality({o}) = 1
      BY FS_Singleton
    <3>3. IsFiniteSet(1 .. k) /\ Cardinality(1 .. k) = k
      <4>1. 1 \in Int /\ k \in Int
        BY <2>1
      <4> HIDE DEF k
      <4>2. IsFiniteSet(1 .. k) /\ Cardinality(1 .. k) = IF 1 > k THEN 0 ELSE k - 1 + 1
        BY <4>1, FS_Interval
      <4> QED BY <2>1, <4>2
    <3>4. IsFiniteSet(held_) /\ Cardinality(held_) = 1 * k
      BY <3>2, <3>3, FS_Product
    <3>5. SlotsOf(h) = SlotsOf(H) \cup held_ /\ SlotsOf(H) \cap held_ = {}
      <4>1. \A r \in held_ : r \in SlotsOf(h)
        BY <1>2, <2>1, SlotParts
      <4> QED BY <2>10, <4>1
    <3>6. Cardinality(SlotsOf(h)) = Cardinality(SlotsOf(H)) + Cardinality(held_) - Cardinality(SlotsOf(H) \cap held_)
      BY <3>1, <3>4, <3>5, FS_Union
    <3>7. Cardinality({}) = 0 /\ Cardinality(SlotsOf(H)) \in Nat
      BY <3>1, FS_EmptySet, FS_CardinalityType
    <3>8. Cardinality(SlotsOf(H) \cap held_) = 0
      BY <3>5, <3>7
    <3> HIDE DEF held_, k
    <3>9. Cardinality(held_) = k
      BY <2>1, <3>4
    <3> QED BY <2>1, <3>6, <3>7, <3>8, <3>9
  <2>13. PutsLeft(t) = PutsLeft(s) - 1
    <3>1. Cardinality(SlotsOf(H)) \in Nat
      BY <1>4, SlotsFinite
    <3>2. PutsLeft(t) = Len(t.list) + Cardinality(SlotsOf(H)) /\ PutsLeft(s) = Len(s.list) + Cardinality(SlotsOf(h))
      BY DEF PutsLeft, h, H
    <3> HIDE DEF k
    <3> QED BY <1>5, <2>1, <2>5, <2>12, <3>1, <3>2
  <2>14. SameIn(K, h, H)
    BY <2>1, <2>3 DEF SameIn
  <2> QED BY <1>3, <2>8, <2>9, <2>11, <2>13, <2>14 DEF Putting, h, H, t
<1> QED BY <1>10, <1>11

PutSequence(h, list, put) ==
    put = [n \in 0 .. Len(list) + Cardinality(SlotsOf(h)) |->
              IF n = 0 THEN [h |-> h, list |-> list] ELSE PutFirst(put[n - 1])]

LEMMA PutFirstType ==
    ASSUME NEW P, NEW s \in PutStates(P)
    PROVE  PutFirst(s) \in PutStates(P)
<1>1. CASE s.list = << >>
  BY <1>1 DEF PutFirst
<1>2. CASE s.list # << >>
  BY <1>2, PutFirstIs
<1> QED BY <1>1, <1>2

\* The puts one by one
LEMMA PutAllIs ==
    ASSUME NEW P, Places(P), NEW h \in Heaps(P), NEW list \in Lists(P)
    PROVE  LET most == Len(list) + Cardinality(SlotsOf(h))
           IN  /\ most \in Nat
               /\ \E put \in [0 .. most -> PutStates(P)] :
                     /\ put[0] = [h |-> h, list |-> list] /\ PutAll(h, list) = put[most].h
                     /\ \A n \in 1 .. most : put[n] = PutFirst(put[n - 1])
<1> DEFINE most == Len(list) + Cardinality(SlotsOf(h))
           start == [h |-> h, list |-> list]
           W == PutStates(P)
           F == [n \in Nat |-> [s \in W |-> PutFirst(s)]]
<1>1. most \in Nat
  <2>1. Len(list) \in Nat
    BY SeqParts DEF Lists
  <2>2. Cardinality(SlotsOf(h)) \in Nat
    BY SlotsFinite
  <2> QED BY <2>1, <2>2
<1>2. start \in W
  BY DEF PutStates
<1>3. F \in [Nat -> [W -> W]]
  BY PutFirstType
<1>4. \A n \in Nat : \A s \in W : F[n][s] = PutFirst(s)
  OBVIOUS
<1> HIDE DEF most, F, W, start
<1>5. PICK f : Iteration(W, F, start, most, f)
  BY <1>1, <1>2, <1>3, Iterates
<1>6. f \in [0 .. most -> W] /\ f[0] = start /\ \A n \in 1 .. most : f[n] = F[n][f[n - 1]]
  BY <1>5 DEF Iteration
<1>7. \A n \in 1 .. most : f[n] = PutFirst(f[n - 1])
  BY <1>1, <1>4, <1>6
<1>8. f = [n \in 0 .. most |-> IF n = 0 THEN start ELSE PutFirst(f[n - 1])]
  <2>1. f = [n \in 0 .. most |-> f[n]]
    BY <1>6
  <2>2. ASSUME NEW n \in 0 .. most PROVE f[n] = IF n = 0 THEN start ELSE PutFirst(f[n - 1])
    <3>1. CASE n = 0
      BY <1>6, <3>1
    <3>2. CASE n # 0
      <4>1. n \in 1 .. most
        BY <1>1, <3>2
      <4> QED BY <1>7, <3>2, <4>1
    <3> QED BY <3>1, <3>2
  <2> QED BY ONLY <2>1, <2>2
<1>9. PutSequence(h, list, f)
  BY <1>8 DEF PutSequence, start, most
<1> DEFINE put == CHOOSE g : PutSequence(h, list, g)
<1>10. PutAll(h, list) = put[most].h
  BY DEF PutAll, PutSequence, most
<1>11. PutSequence(h, list, put)
  BY <1>9
<1> HIDE DEF put
<1>12. put = [n \in 0 .. most |-> IF n = 0 THEN start ELSE PutFirst(put[n - 1])]
  BY ONLY <1>11 DEF PutSequence, start, most
<1>13. /\ put = [n \in 0 .. most |-> put[n]]
       /\ \A n \in 0 .. most : put[n] = IF n = 0 THEN start ELSE PutFirst(put[n - 1])
  BY ONLY <1>12
<1>14. put[0] = start /\ \A n \in 1 .. most : put[n] = PutFirst(put[n - 1])
  <2>1. 0 \in 0 .. most /\ \A n \in 1 .. most : n \in 0 .. most /\ n # 0
    BY <1>1
  <2>2. put[0] = start
    BY ONLY <1>13, <2>1
  <2>3. ASSUME NEW n \in 1 .. most PROVE put[n] = PutFirst(put[n - 1])
    BY ONLY <1>13, <2>1
  <2> QED BY <2>2, <2>3
<1> DEFINE T == {n \in Nat : n <= most => put[n] \in W}
<1>15. 0 \in T
  BY <1>2, <1>14
<1>16. ASSUME NEW n \in Nat, n \in T PROVE n + 1 \in T
  <2> SUFFICES ASSUME n + 1 <= most PROVE put[n + 1] \in W
    OBVIOUS
  <2>1. put[n] \in W /\ n + 1 \in 1 .. most /\ (n + 1) - 1 = n
    BY <1>1, <1>16
  <2>2. put[n + 1] = PutFirst(put[n])
    BY <1>14, <2>1
  <2> QED BY <2>1, <2>2, PutFirstType DEF W
<1> HIDE DEF T
<1>17. Nat \subseteq T
  BY <1>15, <1>16, InductionOn
<1>18. \A n \in 0 .. most : put[n] \in W
  BY <1>1, <1>17 DEF T
<1>19. put \in [0 .. most -> W]
  BY <1>13, <1>18
<1> QED BY <1>1, <1>10, <1>14, <1>19 DEF W, start, most

LEMMA PutAllType ==
    ASSUME NEW P, Places(P), NEW h \in Heaps(P), NEW list \in Lists(P)
    PROVE  PutAll(h, list) \in Heaps(P)
<1> DEFINE most == Len(list) + Cardinality(SlotsOf(h))
<1>1. most \in Nat
  BY PutAllIs
<1>2. PICK put \in [0 .. most -> PutStates(P)] : /\ put[0] = [h |-> h, list |-> list]
                                                /\ PutAll(h, list) = put[most].h
                                                /\ \A n \in 1 .. most : put[n] = PutFirst(put[n - 1])
  BY PutAllIs
<1>3. put[most] \in PutStates(P)
  BY <1>1, <1>2
<1> QED BY <1>2, <1>3 DEF PutStates

\* Whatever is put, everything stays counted, and what is in K is kept.
LEMMA PutAllKeeps ==
    ASSUME NEW P, Places(P), NEW h, NEW list, NEW X, NEW f \in [P -> Nat], NEW K \in SUBSET P,
           \A x \in X : x[1] \in K, Putting(P, [h |-> h, list |-> list], X, f, K)
    PROVE  /\ Putting(P, [h |-> PutAll(h, list), list |-> << >>], X, f, K)
           /\ SameIn(K, h, PutAll(h, list))
<1> DEFINE most == Len(list) + Cardinality(SlotsOf(h))
           W == PutStates(P)
           start == [h |-> h, list |-> list]
<1>0. start \in W /\ h \in Heaps(P) /\ list \in Lists(P)
  <2>1. start \in W
    BY DEF Putting
  <2>2. start.h \in Heaps(P) /\ start.list \in Lists(P)
    BY ONLY <2>1 DEF PutStates
  <2> QED BY <2>1, <2>2
<1>1. most \in Nat
  BY <1>0, PutAllIs
<1>2. PICK put \in [0 .. most -> W] : /\ put[0] = start /\ PutAll(h, list) = put[most].h
                                       /\ \A n \in 1 .. most : put[n] = PutFirst(put[n - 1])
  BY <1>0, PutAllIs
<1>3. PutsLeft(start) = most
  BY DEF PutsLeft
<1> HIDE DEF most, start
<1> DEFINE Good(n) == /\ Putting(P, put[n], X, f, K) /\ SameIn(K, h, put[n].h)
                      /\ put[n].list = << >> \/ PutsLeft(put[n]) = most - n
           T == {n \in Nat : n <= most => Good(n)}
<1>4. 0 \in T
  <2>1. start.h = h /\ Putting(P, start, X, f, K)
    BY DEF start
  <2>2. SameIn(K, h, h)
    BY DEF SameIn
  <2> QED BY <1>1, <1>2, <1>3, <2>1, <2>2
<1>5. ASSUME NEW n \in Nat, n \in T PROVE n + 1 \in T
  <2> SUFFICES ASSUME n + 1 <= most PROVE Good(n + 1)
    OBVIOUS
  <2>1. n <= most /\ n + 1 \in 1 .. most /\ (n + 1) - 1 = n
    BY <1>1
  <2>2. Good(n) /\ put[n + 1] = PutFirst(put[n])
    BY <1>2, <1>5, <2>1
  <2>3. CASE put[n].list = << >>
    <3>1. put[n + 1] = put[n]
      BY <2>2, <2>3 DEF PutFirst
    <3> QED BY <2>2, <2>3, <3>1
  <2>4. CASE put[n].list # << >>
    <3> DEFINE s == put[n]
    <3>0. Putting(P, s, X, f, K) /\ s.list # << >>
      BY <2>2, <2>4
    <3> HIDE DEF s
    <3>1. /\ Putting(P, PutFirst(s), X, f, K) /\ SameIn(K, s.h, PutFirst(s).h)
          /\ PutsLeft(PutFirst(s)) = PutsLeft(s) - 1
      BY <3>0, PutFirstKeeps
    <3>2. /\ Putting(P, put[n + 1], X, f, K) /\ SameIn(K, put[n].h, put[n + 1].h)
          /\ PutsLeft(put[n + 1]) = PutsLeft(put[n]) - 1
      BY <2>2, <3>1 DEF s
    <3>3. PutsLeft(put[n]) = most - n
      BY <2>2, <2>4
    <3>4. PutsLeft(put[n + 1]) = most - (n + 1)
      BY <1>1, <3>2, <3>3
    <3>5. SameIn(K, h, put[n + 1].h)
      BY <2>2, <3>2 DEF SameIn
    <3> QED BY <3>2, <3>4, <3>5
  <2> QED BY <2>3, <2>4
<1> HIDE DEF T
<1>6. Nat \subseteq T
  BY <1>4, <1>5, InductionOn
<1>7. Good(most)
  BY <1>1, <1>6 DEF T
<1> DEFINE z == put[most]
<1>8. z \in PutStates(P)
  BY <1>7 DEF Putting
<1>9. z.list = << >>
  <2> SUFFICES ASSUME z.list # << >> PROVE FALSE
    OBVIOUS
  <2>1. PutsLeft(z) = 0
    BY <1>1, <1>7
  <2>2. z.h \in Heaps(P) /\ z.list \in Lists(P)
    BY <1>8 DEF PutStates
  <2>3. Len(z.list) > 0 /\ Len(z.list) \in Nat
    BY <2>2, ListParts
  <2>4. Cardinality(SlotsOf(z.h)) \in Nat
    BY <2>2, SlotsFinite
  <2> QED BY <2>1, <2>3, <2>4 DEF PutsLeft
<1>10. z = [h |-> PutAll(h, list), list |-> << >>]
  <2>1. z = [h |-> z.h, list |-> z.list]
    BY <1>8 DEF PutStates
  <2> QED BY <1>2, <1>9, <2>1
<1> QED BY <1>2, <1>7, <1>10

-----------------------------------------------------------------------------
(***************************************************************************)
(* What a slot and a reference more or less change                          *)
(***************************************************************************)

\* The counts are those of the references, f of which are not in the heap.
Exact(P, h, f) == h \in Heaps(P) /\ FreeIsEmpty(h) /\ Counted(h, {}, f, << >>)

Plus(f, v) == [q \in DOMAIN f |-> IF q = v THEN f[q] + 1 ELSE f[q]]

LEMMA PlusType ==
    ASSUME NEW P, NEW f \in [P -> Nat], NEW v
    PROVE  /\ Plus(f, v) \in [P -> Nat]
           /\ \A q \in P : Plus(f, v)[q] = f[q] + (IF q = v THEN 1 ELSE 0)
  BY DEF Plus

LEMMA NoPuts == ASSUME NEW P PROVE << >> \in Lists(P)
  BY DEF Lists

LEMMA ListOne ==
    ASSUME NEW P, Places(P), NEW h \in Heaps(P), NEW X, NEW v \in P \cup {NULL}, NEW q
    PROVE  Cardinality(Refs(h, X, <<v>>, q)) = Cardinality(Refs(h, X, << >>, q)) + (IF q = v THEN 1 ELSE 0)
<1>1. <<v>> \in Lists(P) /\ << >> \in Lists(P)
  BY DEF Lists
<1>2. <<v>> # << >> /\ v = <<v>>[1] /\ Len(<< >>) = 0 + Len(<<v>>) - 1
  OBVIOUS
<1>3. PutInTurn(P, h, h, <<v>>, << >>, X, 0, v)
  BY <1>1, <1>2 DEF PutInTurn
<1> QED BY <1>3, FirstIsPut

LEMMA SlotOut ==
    ASSUME NEW P, Places(P), NEW h \in Heaps(P), NEW list \in Lists(P), NEW x \in SlotsOf(h), NEW q
    PROVE  Cardinality(Refs(h, {}, list, q))
               = Cardinality(Refs(h, {x}, list, q)) + (IF q = Points(h, x) THEN 1 ELSE 0)
<1> DEFINE R == Refs(h, {x}, list, q)
<1>1. IsFiniteSet(R) /\ Cardinality(R) \in Nat
  BY RefsFinite
<1>2. x[1] # NULL
  BY SlotParts DEF Places
<1>3. x \notin R
  BY <1>2 DEF Refs
<1>4. CASE q = Points(h, x)
  <2>1. Refs(h, {}, list, q) = R \cup {x}
    BY <1>4 DEF Refs
  <2> HIDE DEF R
  <2>2. Cardinality(R \cup {x}) = Cardinality(R) + 1
    BY <1>1, <1>3, FS_AddElement
  <2> QED BY <1>4, <2>1, <2>2 DEF R
<1>5. CASE q # Points(h, x)
  <2>1. Refs(h, {}, list, q) = R
    BY <1>5 DEF Refs
  <2> QED BY <1>1, <1>5, <2>1
<1> QED BY <1>4, <1>5

\* Cells that hold the same
Alike(P, h, H) == \A p \in P : H[p].kids = h[p].kids

LEMMA AlikeRefs ==
    ASSUME NEW P, Places(P), NEW h \in Heaps(P), NEW H \in Heaps(P), Alike(P, h, H),
           NEW list, NEW X
    PROVE  SlotsOf(H) = SlotsOf(h) /\ \A q : Refs(H, X, list, q) = Refs(h, X, list, q)
<1>1. SlotsOf(H) = SlotsOf(h)
  <2>1. \A r : r \in SlotsOf(h) <=> r \in SlotsOf(H)
    BY SlotParts DEF Alike
  <2> QED BY <2>1
<1>2. \A r \in SlotsOf(h) : Points(H, r) = Points(h, r)
  BY SlotParts DEF Alike, Points
<1> QED BY <1>1, <1>2 DEF Refs

\* A value that is new has the one reference its maker holds.
LEMMA NewIsCounted ==
    ASSUME NEW P, Places(P), NEW h, NEW f \in [P -> Nat], Exact(P, h, f),
           NEW o \in P, h[o].ref = 0, NEW c \in Cells(P), c.ref = 1, c.kids = << >>
    PROVE  f[o] = 0 /\ Exact(P, [h EXCEPT ![o] = c], Plus(f, o))
<1> DEFINE H == [h EXCEPT ![o] = c]
<1>1. h \in Heaps(P) /\ DOMAIN h = P /\ FreeIsEmpty(h) /\ Counted(h, {}, f, << >>)
  BY DEF Exact, Heaps
<1>2. H \in Heaps(P) /\ DOMAIN H = P /\ H[o] = c /\ \A p \in P : p # o => H[p] = h[p]
  BY <1>1 DEF Heaps
<1>3. h[o].kids = << >>
  BY <1>1 DEF FreeIsEmpty
<1> HIDE DEF H
<1>4. Alike(P, h, H)
  BY <1>2, <1>3 DEF Alike
<1>5. \A q : Refs(H, {}, << >>, q) = Refs(h, {}, << >>, q)
  BY <1>1, <1>2, <1>4, AlikeRefs
<1>6. \A q \in P : /\ f[q] \in Nat /\ Cardinality(Refs(h, {}, << >>, q)) \in Nat
                   /\ h[q].ref = f[q] + Cardinality(Refs(h, {}, << >>, q))
  BY <1>1, RefsFinite, NoPuts DEF Counted
<1>7. f[o] = 0 /\ Cardinality(Refs(h, {}, << >>, o)) = 0
  BY <1>6
<1>8. Counted(H, {}, Plus(f, o), << >>)
  <2> SUFFICES ASSUME NEW q \in P
               PROVE  H[q].ref = Plus(f, o)[q] + Cardinality(Refs(H, {}, << >>, q))
    BY <1>2 DEF Counted
  <2>1. Plus(f, o)[q] = f[q] + (IF q = o THEN 1 ELSE 0)
    BY PlusType
  <2>2. CASE q = o
    BY <1>2, <1>5, <1>7, <2>1, <2>2
  <2>3. CASE q # o
    BY <1>2, <1>5, <1>6, <2>1, <2>3
  <2> QED BY <2>2, <2>3
<1>9. FreeIsEmpty(H)
  BY <1>1, <1>2 DEF FreeIsEmpty
<1> QED BY <1>2, <1>7, <1>8, <1>9 DEF Exact, H

\* A reference that somebody gives up is put.
LEMMA PutIsCounted ==
    ASSUME NEW P, Places(P), NEW h, NEW f \in [P -> Nat], NEW v \in P \cup {NULL},
           Exact(P, h, Plus(f, v))
    PROVE  Exact(P, PutAll(h, <<v>>), f)
<1> DEFINE s == [h |-> h, list |-> <<v>>]
<1>1. h \in Heaps(P) /\ DOMAIN h = P /\ FreeIsEmpty(h) /\ Counted(h, {}, Plus(f, v), << >>)
  BY DEF Exact, Heaps
<1>2. <<v>> \in Lists(P)
  BY DEF Lists
<1>3. Counted(h, {}, f, <<v>>)
  <2> SUFFICES ASSUME NEW q \in P PROVE h[q].ref = f[q] + Cardinality(Refs(h, {}, <<v>>, q))
    BY <1>1 DEF Counted
  <2>1. h[q].ref = Plus(f, v)[q] + Cardinality(Refs(h, {}, << >>, q))
    BY <1>1 DEF Counted
  <2>2. Plus(f, v)[q] = f[q] + (IF q = v THEN 1 ELSE 0) /\ f[q] \in Nat
    BY PlusType
  <2>3. /\ Cardinality(Refs(h, {}, <<v>>, q))
              = Cardinality(Refs(h, {}, << >>, q)) + (IF q = v THEN 1 ELSE 0)
        /\ Cardinality(Refs(h, {}, << >>, q)) \in Nat
    BY <1>1, ListOne, RefsFinite, NoPuts
  <2> QED BY <2>1, <2>2, <2>3
<1>4. Putting(P, s, {}, f, {})
  <2>1. s.h = h /\ s.list = <<v>> /\ s \in PutStates(P)
    BY <1>1, <1>2 DEF PutStates
  <2>2. Supported(h, {}, f, {})
    BY DEF Supported
  <2> QED BY <1>1, <1>3, <2>1, <2>2 DEF Putting
<1>5. Putting(P, [h |-> PutAll(h, <<v>>), list |-> << >>], {}, f, {})
  BY <1>4, PutAllKeeps
<1> QED BY <1>5 DEF Putting, PutStates, Exact

\* The value of a slot is put; the slot itself stays, as p is held otherwise.
SlotIsOpen(P, h, x, f, K) ==
    /\ h \in Heaps(P) /\ FreeIsEmpty(h) /\ Counted(h, {x}, f, << >>)
    /\ Supported(h, {x}, f, K)

LEMMA SlotIsPut ==
    ASSUME NEW P, Places(P), NEW h, NEW f \in [P -> Nat], Exact(P, h, f), NEW K \in SUBSET P,
           NEW p \in K, NEW i \in 1 .. Len(h[p].kids), Supported(h, {<<p, i>>}, f, K)
    PROVE  LET H == PutAll(h, <<h[p].kids[i].val>>)
           IN  SlotIsOpen(P, H, <<p, i>>, f, K) /\ SameIn(K, h, H)
<1> DEFINE x == <<p, i>>
           v == h[p].kids[i].val
           s == [h |-> h, list |-> <<v>>]
<1>1. h \in Heaps(P) /\ DOMAIN h = P /\ FreeIsEmpty(h) /\ Counted(h, {}, f, << >>)
  BY DEF Exact, Heaps
<1>2. x \in SlotsOf(h) /\ Points(h, x) = v /\ v \in P \cup {NULL}
  <2>1. x \in SlotsOf(h) /\ Points(h, x) = v
    BY <1>1, SlotParts DEF Points
  <2> QED BY <1>1, <2>1, SlotParts
<1> HIDE DEF v
<1>3. <<v>> \in Lists(P)
  BY <1>2 DEF Lists
<1>4. Counted(h, {x}, f, <<v>>)
  <2> HIDE DEF x
  <2> SUFFICES ASSUME NEW q \in P PROVE h[q].ref = f[q] + Cardinality(Refs(h, {x}, <<v>>, q))
    BY <1>1 DEF Counted
  <2>1. h[q].ref = f[q] + Cardinality(Refs(h, {}, << >>, q)) /\ f[q] \in Nat
    BY <1>1 DEF Counted
  <2>2. /\ Cardinality(Refs(h, {}, << >>, q))
              = Cardinality(Refs(h, {x}, << >>, q)) + (IF q = v THEN 1 ELSE 0)
    BY <1>1, <1>2, SlotOut, NoPuts
  <2>3. /\ Cardinality(Refs(h, {x}, <<v>>, q))
              = Cardinality(Refs(h, {x}, << >>, q)) + (IF q = v THEN 1 ELSE 0)
    BY <1>1, <1>2, ListOne
  <2> QED BY <2>1, <2>2, <2>3
<1>5. Putting(P, s, {x}, f, K)
  <2>1. s.h = h /\ s.list = <<v>> /\ s \in PutStates(P)
    BY <1>1, <1>3 DEF PutStates
  <2> QED BY <1>1, <1>4, <2>1 DEF Putting
<1>6. \A y \in {x} : y[1] \in K
  OBVIOUS
<1> HIDE DEF x
<1>7. Putting(P, [h |-> PutAll(h, <<v>>), list |-> << >>], {x}, f, K) /\ SameIn(K, h, PutAll(h, <<v>>))
  BY <1>5, <1>6, PutAllKeeps
<1>8. SlotIsOpen(P, PutAll(h, <<v>>), x, f, K)
  BY <1>7 DEF Putting, PutStates, SlotIsOpen
<1> QED BY <1>7, <1>8 DEF v, x

KidsAreSet(P, h, p, ks, H) ==
    h \in Heaps(P) /\ p \in P /\ ks \in Kids(P) /\ H = [h EXCEPT ![p].kids = ks]

LEMMA WithKids ==
    ASSUME NEW P, NEW h, NEW p, NEW ks, NEW H, KidsAreSet(P, h, p, ks, H)
    PROVE  /\ H \in Heaps(P) /\ H[p].kids = ks /\ \A q \in P : q # p => H[q] = h[q]
           /\ \A q \in P : H[q].ref = h[q].ref /\ H[q].kind = h[q].kind /\ H[q].data = h[q].data
<1> DEFINE c == [h[p] EXCEPT !.kids = ks]
<1>0. h \in Heaps(P) /\ p \in P /\ ks \in Kids(P) /\ H = [h EXCEPT ![p].kids = ks]
  BY DEF KidsAreSet
<1>1. h[p] \in Cells(P)
  BY <1>0 DEF Heaps
<1>2. /\ c \in Cells(P) /\ c.kids = ks
      /\ c.ref = h[p].ref /\ c.kind = h[p].kind /\ c.data = h[p].data
  BY <1>0, <1>1 DEF Cells, Kids
<1>3. H = [h EXCEPT ![p] = c]
  BY <1>0
<1> HIDE DEF c
<1>4. H[p] = c /\ (\A q \in P : q # p => H[q] = h[q]) /\ H \in Heaps(P)
  BY <1>0, <1>2, <1>3 DEF Heaps
<1>5. /\ H[p].kids = ks
      /\ \A q \in P : H[q].ref = h[q].ref /\ H[q].kind = h[q].kind /\ H[q].data = h[q].data
  BY ONLY <1>0, <1>2, <1>4
<1> QED BY <1>4, <1>5

\* A reference that is given away is now that of the slot.
LEMMA SlotTakesIt ==
    ASSUME NEW P, Places(P), NEW h \in Heaps(P), NEW H \in Heaps(P), NEW f \in [P -> Nat],
           NEW v \in P \cup {NULL}, NEW x, Counted(h, {x}, Plus(f, v), << >>),
           SlotsOf(H) = SlotsOf(h) \cup {x}, Points(H, x) = v,
           \A r \in SlotsOf(h) : r # x => Points(H, r) = Points(h, r),
           \A q \in P : H[q].ref = h[q].ref
    PROVE  Counted(H, {}, f, << >>)
<1>1. DOMAIN h = P /\ DOMAIN H = P
  BY DEF Heaps
<1> SUFFICES ASSUME NEW q \in P PROVE H[q].ref = f[q] + Cardinality(Refs(H, {}, << >>, q))
  BY <1>1 DEF Counted
<1>2. h[q].ref = Plus(f, v)[q] + Cardinality(Refs(h, {x}, << >>, q))
  BY <1>1 DEF Counted
<1>3. Plus(f, v)[q] = f[q] + (IF q = v THEN 1 ELSE 0) /\ f[q] \in Nat
  BY PlusType
<1>4. Refs(H, {x}, << >>, q) = Refs(h, {x}, << >>, q)
  BY DEF Refs
<1>5. x \in SlotsOf(H)
  OBVIOUS
<1>6. Cardinality(Refs(H, {}, << >>, q)) = Cardinality(Refs(H, {x}, << >>, q)) + (IF q = v THEN 1 ELSE 0)
  <2>1. Cardinality(Refs(H, {}, << >>, q))
            = Cardinality(Refs(H, {x}, << >>, q)) + (IF q = Points(H, x) THEN 1 ELSE 0)
    BY ONLY Places(P), H \in Heaps(P), <1>5, SlotOut, NoPuts
  <2> QED BY <2>1
<1>7. Cardinality(Refs(h, {x}, << >>, q)) \in Nat
  BY RefsFinite, NoPuts
<1> QED BY <1>2, <1>3, <1>4, <1>6, <1>7

LEMMA SlotIsSet ==
    ASSUME NEW P, Places(P), NEW h, NEW f \in [P -> Nat], NEW v \in P \cup {NULL}, NEW K,
           NEW p \in P, NEW i \in 1 .. Len(h[p].kids), SlotIsOpen(P, h, <<p, i>>, Plus(f, v), K)
    PROVE  Exact(P, [h EXCEPT ![p].kids[i].val = v], f)
<1> DEFINE x == <<p, i>>
           ks == [h[p].kids EXCEPT ![i].val = v]
           H == [h EXCEPT ![p].kids = ks]
<1>1. h \in Heaps(P) /\ DOMAIN h = P /\ FreeIsEmpty(h) /\ Counted(h, {x}, Plus(f, v), << >>)
  BY DEF SlotIsOpen, Heaps
<1>2. h[p].kids \in Kids(P)
  BY <1>1, CellParts
<1>3. /\ ks \in Kids(P) /\ Len(ks) = Len(h[p].kids) /\ ks[i].val = v
      /\ \A j \in 1 .. Len(ks) : j # i => ks[j] = h[p].kids[j]
  <2> DEFINE R == [key : Names \cup {"item"}, val : P \cup {NULL}]
             m == [h[p].kids[i] EXCEPT !.val = v]
  <2>1. h[p].kids \in Seq(R)
    BY <1>2 DEF Kids
  <2>2. m \in R /\ m.val = v
    <3>1. h[p].kids[i] \in R
      BY <2>1, SeqParts
    <3> QED BY <3>1
  <2>3. ks = [h[p].kids EXCEPT ![i] = m]
    OBVIOUS
  <2> HIDE DEF R, m, ks
  <2>4. /\ ks \in Seq(R) /\ Len(ks) = Len(h[p].kids) /\ ks[i] = m
        /\ \A j \in 1 .. Len(ks) : j # i => ks[j] = h[p].kids[j]
    BY <2>1, <2>2, <2>3
  <2> QED BY <2>2, <2>4 DEF Kids, R
<1>4. [h EXCEPT ![p].kids[i].val = v] = H
  OBVIOUS
<1> HIDE DEF ks
<1>5. KidsAreSet(P, h, p, ks, H)
  BY <1>1, <1>3 DEF KidsAreSet
<1> HIDE DEF H
<1>6. /\ H \in Heaps(P) /\ H[p].kids = ks /\ \A q \in P : q # p => H[q] = h[q]
      /\ \A q \in P : H[q].ref = h[q].ref
  BY <1>5, WithKids
<1> HIDE DEF H
<1>7. /\ \A r : r \in SlotsOf(h) <=> r = <<r[1], r[2]>> /\ r[1] \in P /\ r[2] \in 1 .. Len(h[r[1]].kids)
      /\ \A r : r \in SlotsOf(H) <=> r = <<r[1], r[2]>> /\ r[1] \in P /\ r[2] \in 1 .. Len(H[r[1]].kids)
  BY <1>1, <1>6, SlotParts
<1>8. \A q \in P : Len(H[q].kids) = Len(h[q].kids)
  BY <1>3, <1>6
<1>9. SlotsOf(H) = SlotsOf(h) /\ x \in SlotsOf(h)
  BY <1>7, <1>8
<1>10. Points(H, x) = v
  BY <1>3, <1>6 DEF Points
<1>11. \A r \in SlotsOf(h) : r # x => Points(H, r) = Points(h, r)
  <2> SUFFICES ASSUME NEW r \in SlotsOf(h), r # x PROVE H[r[1]].kids[r[2]].val = h[r[1]].kids[r[2]].val
    BY DEF Points
  <2>1. r = <<r[1], r[2]>> /\ r[1] \in P /\ r[2] \in 1 .. Len(h[r[1]].kids)
    BY <1>7
  <2>2. CASE r[1] = p
    <3>1. r[2] # i
      BY <2>1, <2>2
    <3> QED BY <1>3, <1>6, <2>1, <2>2, <3>1
  <2>3. CASE r[1] # p
    BY <1>6, <2>1, <2>3
  <2> QED BY <2>2, <2>3
<1> HIDE DEF x
<1>12. Counted(H, {}, f, << >>)
  BY <1>1, <1>6, <1>9, <1>10, <1>11, SlotTakesIt
<1>13. FreeIsEmpty(H)
  <2> SUFFICES ASSUME NEW q \in P, H[q].ref = 0 PROVE H[q].kids = << >>
    BY <1>6 DEF FreeIsEmpty, Heaps
  <2>1. h[q].kids = << >>
    BY <1>1, <1>6 DEF FreeIsEmpty
  <2>2. q # p
    BY <2>1
  <2> QED BY <1>6, <2>1, <2>2
<1> QED BY <1>4, <1>6, <1>12, <1>13 DEF Exact

LEMMA SlotIsAdded ==
    ASSUME NEW P, Places(P), NEW h, NEW f \in [P -> Nat], NEW v \in P \cup {NULL},
           NEW p \in P, NEW k \in Names \cup {"item"}, Exact(P, h, Plus(f, v)), h[p].ref # 0
    PROVE  Exact(P, [h EXCEPT ![p].kids = Append(@, Member(k, v))], f)
<1> DEFINE ks == Append(h[p].kids, Member(k, v))
           n == Len(h[p].kids)
           x == <<p, n + 1>>
           H == [h EXCEPT ![p].kids = ks]
<1>1. h \in Heaps(P) /\ DOMAIN h = P /\ FreeIsEmpty(h) /\ Counted(h, {}, Plus(f, v), << >>)
  BY DEF Exact, Heaps
<1>2. h[p].kids \in Kids(P) /\ n \in Nat
  BY <1>1, CellParts
<1>3. /\ ks \in Kids(P) /\ Len(ks) = n + 1 /\ ks[n + 1].val = v
      /\ \A j \in 1 .. n : ks[j] = h[p].kids[j]
  <2> DEFINE R == [key : Names \cup {"item"}, val : P \cup {NULL}]
             m == Member(k, v)
  <2>1. h[p].kids \in Seq(R)
    BY <1>2 DEF Kids
  <2>2. m \in R /\ m.val = v
    BY DEF Member
  <2> HIDE DEF R, m
  <2>3. /\ Append(h[p].kids, m) \in Seq(R) /\ Len(Append(h[p].kids, m)) = n + 1
        /\ Append(h[p].kids, m)[n + 1] = m
        /\ \A j \in 1 .. n : Append(h[p].kids, m)[j] = h[p].kids[j]
    BY <2>1, <2>2
  <2> QED BY <2>2, <2>3 DEF Kids, R, m
<1>4. [h EXCEPT ![p].kids = Append(@, Member(k, v))] = H
  OBVIOUS
<1> HIDE DEF ks
<1>5. KidsAreSet(P, h, p, ks, H)
  BY <1>1, <1>3 DEF KidsAreSet
<1> HIDE DEF H
<1>6. /\ H \in Heaps(P) /\ H[p].kids = ks /\ \A q \in P : q # p => H[q] = h[q]
      /\ \A q \in P : H[q].ref = h[q].ref
  BY <1>5, WithKids
<1> HIDE DEF H, n
<1>7. /\ \A r : r \in SlotsOf(h) <=> r = <<r[1], r[2]>> /\ r[1] \in P /\ r[2] \in 1 .. Len(h[r[1]].kids)
      /\ \A r : r \in SlotsOf(H) <=> r = <<r[1], r[2]>> /\ r[1] \in P /\ r[2] \in 1 .. Len(H[r[1]].kids)
  BY <1>1, <1>6, SlotParts
<1>8. \A j : j \in 1 .. n + 1 <=> j \in 1 .. n \/ j = n + 1
  BY <1>2
<1>9. SlotsOf(H) = SlotsOf(h) \cup {x} /\ x \notin SlotsOf(h)
  <2>1. ASSUME NEW r \in SlotsOf(H) PROVE r \in SlotsOf(h) \cup {x}
    <3>1. r = <<r[1], r[2]>> /\ r[1] \in P /\ r[2] \in 1 .. Len(H[r[1]].kids)
      BY <1>7, <2>1
    <3>2. CASE r[1] = p
      <4>1. r[2] \in 1 .. n \/ r[2] = n + 1
        BY <1>3, <1>6, <1>8, <3>1, <3>2
      <4> QED BY <1>7, <3>1, <3>2, <4>1 DEF n
    <3>3. CASE r[1] # p
      BY <1>6, <1>7, <3>1, <3>3
    <3> QED BY <3>2, <3>3
  <2>2. ASSUME NEW r \in SlotsOf(h) PROVE r \in SlotsOf(H) /\ r # x
    <3>1. r = <<r[1], r[2]>> /\ r[1] \in P /\ r[2] \in 1 .. Len(h[r[1]].kids)
      BY <1>7, <2>2
    <3>2. CASE r[1] = p
      <4>1. r[2] \in 1 .. n /\ r[2] \in 1 .. n + 1
        BY <1>2, <3>1, <3>2 DEF n
      <4>2. r[2] # n + 1
        BY <1>2, <4>1
      <4>3. r \in SlotsOf(H)
        BY <1>3, <1>6, <1>7, <3>1, <3>2, <4>1
      <4>4. r # x
        BY <4>2
      <4> QED BY <4>3, <4>4
    <3>3. CASE r[1] # p
      <4>1. r # x
        BY <3>3
      <4> QED BY <1>6, <1>7, <3>1, <3>3, <4>1
    <3> QED BY <3>2, <3>3
  <2>3. x \in SlotsOf(H)
    <3>1. x[1] = p /\ x[2] = n + 1 /\ x = <<x[1], x[2]>>
      OBVIOUS
    <3>2. n + 1 \in 1 .. Len(H[p].kids)
      BY <1>2, <1>3, <1>6
    <3> HIDE DEF x
    <3> QED BY <1>7, <3>1, <3>2
  <2> QED BY <2>1, <2>2, <2>3
<1>10. Points(H, x) = v
  BY <1>3, <1>6 DEF Points
<1>11. \A r \in SlotsOf(h) : Points(H, r) = Points(h, r)
  <2> SUFFICES ASSUME NEW r \in SlotsOf(h) PROVE H[r[1]].kids[r[2]].val = h[r[1]].kids[r[2]].val
    BY DEF Points
  <2>1. r[1] \in P /\ r[2] \in 1 .. Len(h[r[1]].kids)
    BY <1>7
  <2>2. CASE r[1] = p
    BY <1>3, <1>6, <2>1, <2>2 DEF n
  <2>3. CASE r[1] # p
    BY <1>6, <2>1, <2>3
  <2> QED BY <2>2, <2>3
<1> HIDE DEF x
<1>12. Counted(h, {x}, Plus(f, v), << >>)
  <2>1. \A q : Refs(h, {x}, << >>, q) = Refs(h, {}, << >>, q)
    BY <1>9 DEF Refs
  <2> QED BY <1>1, <2>1 DEF Counted
<1>13. Counted(H, {}, f, << >>)
  BY <1>1, <1>6, <1>9, <1>10, <1>11, <1>12, SlotTakesIt
<1>14. FreeIsEmpty(H)
  <2> SUFFICES ASSUME NEW q \in P, H[q].ref = 0 PROVE H[q].kids = << >>
    BY <1>6 DEF FreeIsEmpty, Heaps
  <2>1. h[q].kids = << >> /\ q # p
    BY <1>1, <1>6 DEF FreeIsEmpty
  <2> QED BY <1>6, <2>1
<1> QED BY <1>4, <1>6, <1>13, <1>14 DEF Exact, H, ks

LEMMA SlotRefs ==
    ASSUME NEW P, Places(P), NEW h \in Heaps(P), NEW X, NEW q
    PROVE  \A r : r \in Refs(h, X, << >>, q) <=>
                      /\ r = <<r[1], r[2]>> /\ r[1] \in P
                      /\ r[2] \in 1 .. Len(h[r[1]].kids) /\ r \notin X /\ Points(h, r) = q
<1>1. \A r : r \notin {NULL} \X DOMAIN << >>
  <2>1. DOMAIN << >> = {}
    OBVIOUS
  <2> QED BY <2>1
<1>2. \A r : r \in Refs(h, X, << >>, q) <=> r \in SlotsOf(h) /\ r \notin X /\ Points(h, r) = q
  BY <1>1 DEF Refs
<1> QED BY <1>2, SlotParts

LEMMA RemovedAt ==
    ASSUME NEW S, NEW s \in Seq(S), NEW i \in 1 .. Len(s)
    PROVE  /\ RemoveAt(s, i) \in Seq(S) /\ Len(RemoveAt(s, i)) = Len(s) - 1
           /\ \A j \in 1 .. Len(s) - 1 : RemoveAt(s, i)[j] = IF j < i THEN s[j] ELSE s[j + 1]
<1> DEFINE n == Len(s)
           a == SubSeq(s, 1, i - 1)
           b == SubSeq(s, i + 1, n)
<1>1. n \in Nat /\ i \in Nat /\ 1 <= i /\ i <= n
  OBVIOUS
<1>2. a \in Seq(S) /\ Len(a) = i - 1 /\ \A j \in 1 .. i - 1 : a[j] = s[j]
  OBVIOUS
<1>3. b \in Seq(S) /\ Len(b) = n - i /\ \A j \in 1 .. n - i : b[j] = s[i + j]
  <2>1. b \in Seq(S) /\ Len(b) = n - i
    BY <1>1
  <2>2. ASSUME NEW j \in 1 .. n - i PROVE b[j] = s[i + j]
    <3>1. b[j] = s[(i + 1) + j - 1]
      BY <1>1
    <3>2. (i + 1) + j - 1 = i + j
      BY <1>1
    <3> QED BY <3>1, <3>2
  <2> QED BY <2>1, <2>2
<1>4. RemoveAt(s, i) = a \o b
  BY DEF RemoveAt
<1> HIDE DEF a, b, n
<1>5. a \o b \in Seq(S) /\ Len(a \o b) = n - 1
  <2>1. a \in Seq(S) /\ b \in Seq(S)
    BY <1>2, <1>3
  <2>2. a \o b \in Seq(S) /\ Len(a \o b) = Len(a) + Len(b)
    BY <2>1
  <2>3. (i - 1) + (n - i) = n - 1
    BY <1>1
  <2> QED BY <1>2, <1>3, <2>2, <2>3
<1>6. \A j \in 1 .. n - 1 : (a \o b)[j] = IF j < i THEN s[j] ELSE s[j + 1]
  <2> SUFFICES ASSUME NEW j \in 1 .. n - 1 PROVE (a \o b)[j] = IF j < i THEN s[j] ELSE s[j + 1]
    OBVIOUS
  <2>1. CASE j < i
    <3>1. j \in 1 .. i - 1 /\ j \in 1 .. Len(a)
      BY <1>1, <1>2, <2>1
    <3>2. (a \o b)[j] = a[j]
      BY <1>2, <1>3, <3>1
    <3> QED BY <1>2, <2>1, <3>1, <3>2
  <2>2. CASE ~(j < i)
    <3>1. j - (i - 1) \in 1 .. n - i /\ i + (j - (i - 1)) = j + 1
      BY <1>1, <2>2
    <3>2. (a \o b)[j] = b[j - (i - 1)]
      BY <1>1, <1>2, <1>3, <2>2
    <3> QED BY <1>3, <2>2, <3>1, <3>2
  <2> QED BY <2>1, <2>2
<1> QED BY <1>4, <1>5, <1>6 DEF n

LEMMA SlotIsGone ==
    ASSUME NEW P, Places(P), NEW h, NEW f \in [P -> Nat], NEW K,
           NEW p \in P, NEW i \in 1 .. Len(h[p].kids), SlotIsOpen(P, h, <<p, i>>, f, K)
    PROVE  Exact(P, [h EXCEPT ![p].kids = RemoveAt(@, i)], f)
<1> DEFINE ks == RemoveAt(h[p].kids, i)
           n == Len(h[p].kids)
           x == <<p, i>>
           H == [h EXCEPT ![p].kids = ks]
<1>1. h \in Heaps(P) /\ DOMAIN h = P /\ FreeIsEmpty(h) /\ Counted(h, {x}, f, << >>)
  BY DEF SlotIsOpen, Heaps
<1>2. h[p].kids \in Kids(P) /\ n \in Nat
  BY <1>1, CellParts
<1>3. /\ ks \in Kids(P) /\ Len(ks) = n - 1
      /\ \A j \in 1 .. n - 1 : ks[j] = IF j < i THEN h[p].kids[j] ELSE h[p].kids[j + 1]
  BY <1>2, RemovedAt DEF Kids
<1>4. [h EXCEPT ![p].kids = RemoveAt(@, i)] = H
  OBVIOUS
<1> HIDE DEF ks
<1>5. KidsAreSet(P, h, p, ks, H)
  BY <1>1, <1>3 DEF KidsAreSet
<1> HIDE DEF H
<1>6. /\ H \in Heaps(P) /\ DOMAIN H = P /\ H[p].kids = ks /\ \A q \in P : q # p => H[q] = h[q]
      /\ \A q \in P : H[q].ref = h[q].ref
  BY <1>5, WithKids DEF Heaps
<1>7. i \in Nat /\ 1 <= i /\ i <= n
  BY <1>2
<1> HIDE DEF n
<1>8. \A q : Cardinality(Refs(H, {}, << >>, q)) = Cardinality(Refs(h, {x}, << >>, q))
  <2> SUFFICES ASSUME NEW q
               PROVE  Cardinality(Refs(H, {}, << >>, q)) = Cardinality(Refs(h, {x}, << >>, q))
    OBVIOUS
  <2> DEFINE S == Refs(H, {}, << >>, q)
             T == Refs(h, {x}, << >>, q)
             g == [r \in S |-> IF r[1] = p /\ r[2] >= i THEN <<p, r[2] + 1>> ELSE r]
  <2>1. \A r : r \in S <=> /\ r = <<r[1], r[2]>> /\ r[1] \in P
                           /\ r[2] \in 1 .. Len(H[r[1]].kids) /\ Points(H, r) = q
    BY <1>6, SlotRefs
  <2>2. \A r : r \in T <=> /\ r = <<r[1], r[2]>> /\ r[1] \in P
                           /\ r[2] \in 1 .. Len(h[r[1]].kids) /\ r # x /\ Points(h, r) = q
    BY <1>1, SlotRefs
  <2>3. IsFiniteSet(T)
    BY <1>1, RefsFinite, NoPuts
  <2> HIDE DEF S, T
  <2>4. \A q2 \in P : Len(h[q2].kids) \in Nat /\ Len(H[q2].kids) \in Nat
    BY <1>1, <1>6, CellParts
  <2>5. ASSUME NEW r \in S PROVE g[r] \in T
    <3>1. /\ r = <<r[1], r[2]>> /\ r[1] \in P /\ r[2] \in 1 .. Len(H[r[1]].kids) /\ r[2] \in Nat
          /\ H[r[1]].kids[r[2]].val = q
      BY <2>1 DEF Points
    <3>2. CASE r[1] # p
      <4>1. g[r] = r /\ r # x
        BY <3>2
      <4>2. Points(h, r) = q
        BY <1>6, <3>1, <3>2 DEF Points
      <4> QED BY <1>6, <2>2, <3>1, <3>2, <4>1, <4>2
    <3>3. CASE r[1] = p /\ r[2] >= i
      <4>1. g[r] = <<p, r[2] + 1>>
        BY <3>3
      <4>2. r[2] \in 1 .. n - 1 /\ ~(r[2] < i)
        BY <1>3, <1>6, <1>7, <3>1, <3>3
      <4>3. h[p].kids[r[2] + 1].val = q /\ r[2] + 1 \in 1 .. n /\ r[2] + 1 # i
        BY <1>2, <1>3, <1>6, <1>7, <3>1, <3>3, <4>2
      <4> DEFINE y == <<p, r[2] + 1>>
      <4>4. y[1] = p /\ y[2] = r[2] + 1 /\ y = <<y[1], y[2]>> /\ y # x
        BY <4>3
      <4> HIDE DEF y
      <4>5. Points(h, y) = q /\ y[2] \in 1 .. Len(h[y[1]].kids)
        BY <4>3, <4>4 DEF Points, n
      <4>6. y \in T
        BY <2>2, <4>4, <4>5
      <4> QED BY <4>1, <4>6 DEF y
    <3>4. CASE r[1] = p /\ ~(r[2] >= i)
      <4>1. g[r] = r /\ r # x
        BY <1>7, <3>1, <3>4
      <4>2. r[2] \in 1 .. n - 1 /\ r[2] < i /\ r[2] \in 1 .. n
        BY <1>2, <1>3, <1>6, <1>7, <3>1, <3>4
      <4>3. Points(h, r) = q
        BY <1>3, <1>6, <3>1, <3>4, <4>2 DEF Points
      <4> QED BY <2>2, <3>1, <3>4, <4>1, <4>2, <4>3 DEF n
    <3> QED BY <3>2, <3>3, <3>4
  <2>6. ASSUME NEW a \in S, NEW b \in S, g[a] = g[b] PROVE a = b
    <3>1. /\ a = <<a[1], a[2]>> /\ b = <<b[1], b[2]>> /\ a[2] \in Nat /\ b[2] \in Nat
      BY <2>1, <2>4
    <3>2. /\ g[a] = IF a[1] = p /\ a[2] >= i THEN <<p, a[2] + 1>> ELSE a
          /\ g[b] = IF b[1] = p /\ b[2] >= i THEN <<p, b[2] + 1>> ELSE b
      OBVIOUS
    <3> HIDE DEF g
    <3>3. CASE a[1] = p /\ a[2] >= i /\ b[1] = p /\ b[2] >= i
      <4>1. <<p, a[2] + 1>> = <<p, b[2] + 1>>
        BY <2>6, <3>2, <3>3
      <4>2. a[2] = b[2]
        BY <3>1, <4>1
      <4> QED BY <3>1, <3>3, <4>2
    <3>4. CASE a[1] = p /\ a[2] >= i /\ ~(b[1] = p /\ b[2] >= i)
      <4>1. b = <<p, a[2] + 1>>
        BY <2>6, <3>2, <3>4
      <4>2. b[1] = p /\ b[2] = a[2] + 1
        BY <4>1
      <4> QED BY <1>7, <3>1, <3>4, <4>2
    <3>5. CASE ~(a[1] = p /\ a[2] >= i) /\ b[1] = p /\ b[2] >= i
      <4>1. a = <<p, b[2] + 1>>
        BY <2>6, <3>2, <3>5
      <4>2. a[1] = p /\ a[2] = b[2] + 1
        BY <4>1
      <4> QED BY <1>7, <3>1, <3>5, <4>2
    <3>6. CASE ~(a[1] = p /\ a[2] >= i) /\ ~(b[1] = p /\ b[2] >= i)
      BY <2>6, <3>2, <3>6
    <3> QED BY <3>3, <3>4, <3>5, <3>6
  <2>7. ASSUME NEW t \in T PROVE \E a \in S : g[a] = t
    <3>1. /\ t = <<t[1], t[2]>> /\ t[1] \in P /\ t[2] \in 1 .. Len(h[t[1]].kids) /\ t # x
          /\ h[t[1]].kids[t[2]].val = q /\ t[2] \in Nat
      BY <2>2, <2>4 DEF Points
    <3>2. CASE t[1] # p
      <4>1. Points(H, t) = q
        BY <1>6, <3>1, <3>2 DEF Points
      <4>2. t \in S
        BY <1>6, <2>1, <3>1, <3>2, <4>1
      <4> QED BY <3>2, <4>2
    <3>3. CASE t[1] = p /\ t[2] < i
      <4>1. t[2] \in 1 .. n - 1
        BY <1>2, <1>7, <3>1, <3>3
      <4>2. H[p].kids[t[2]].val = q
        BY <1>3, <1>6, <3>1, <3>3, <4>1
      <4>3. t \in S
        BY <1>3, <1>6, <2>1, <3>1, <3>3, <4>1, <4>2 DEF Points
      <4>4. ~(t[2] >= i)
        BY <1>7, <3>1, <3>3
      <4> QED BY <4>3, <4>4
    <3>4. CASE t[1] = p /\ ~(t[2] < i)
      <4>1. t[2] # i
        BY <3>1, <3>4
      <4> DEFINE y == <<p, t[2] - 1>>
      <4>2. t[2] - 1 \in 1 .. n - 1 /\ ~(t[2] - 1 < i) /\ (t[2] - 1) + 1 = t[2] /\ t[2] - 1 >= i
        BY <1>2, <1>7, <3>1, <3>4, <4>1 DEF n
      <4>3. H[p].kids[t[2] - 1].val = q
        BY <1>3, <1>6, <3>1, <3>4, <4>2
      <4>4. y[1] = p /\ y[2] = t[2] - 1 /\ y = <<y[1], y[2]>>
        OBVIOUS
      <4> HIDE DEF y
      <4>5. y \in S
        BY <1>3, <1>6, <2>1, <4>2, <4>3, <4>4 DEF Points
      <4>6. g[y] = <<p, y[2] + 1>>
        BY <4>2, <4>4, <4>5
      <4>7. g[y] = t
        BY <3>1, <3>4, <4>2, <4>4, <4>6
      <4> QED BY <4>5, <4>7
    <3> QED BY <1>7, <3>1, <3>2, <3>3, <3>4
  <2>8. g \in [S -> T]
    BY <2>5
  <2> HIDE DEF g
  <2>9. Cardinality(S) = Cardinality(T)
    BY <2>3, <2>6, <2>7, <2>8, SameSize
  <2> QED BY <2>9 DEF S, T
<1> HIDE DEF x
<1>9. Counted(H, {}, f, << >>)
  BY <1>1, <1>6, <1>8 DEF Counted
<1>10. FreeIsEmpty(H)
  <2> SUFFICES ASSUME NEW q \in P, H[q].ref = 0 PROVE H[q].kids = << >>
    BY <1>6 DEF FreeIsEmpty
  <2>1. h[q].kids = << >>
    BY <1>1, <1>6 DEF FreeIsEmpty
  <2>2. q # p
    BY <1>7, <2>1 DEF n
  <2> QED BY <1>6, <2>1, <2>2
<1> QED BY <1>4, <1>6, <1>9, <1>10 DEF Exact

LEMMA MinIsIn ==
    ASSUME NEW S \in SUBSET Nat, S # {}
    PROVE  Min(S) \in S
<1>1. \E x \in S : \A y \in S : x <= y
  BY LeastOf
<1> QED BY <1>1 DEF Min

LEMMA WithMemberType ==
    ASSUME NEW P, Places(P), NEW h \in Heaps(P), NEW p \in P, NEW k \in Names \cup {"item"},
           NEW v \in P \cup {NULL}
    PROVE  WithMember(h, p, k, v) \in Heaps(P) /\ WithItem(h, p, v) \in Heaps(P)
<1> DEFINE R == [key : Names \cup {"item"}, val : P \cup {NULL}]
<1>1. \A H \in Heaps(P) : H[p].kids \in Seq(R)
  BY CellParts DEF Kids
<1>2. \A H \in Heaps(P) : \A ks \in Seq(R) : [H EXCEPT ![p].kids = ks] \in Heaps(P)
  <2> SUFFICES ASSUME NEW H \in Heaps(P), NEW ks \in Seq(R) PROVE [H EXCEPT ![p].kids = ks] \in Heaps(P)
    OBVIOUS
  <2>1. KidsAreSet(P, H, p, ks, [H EXCEPT ![p].kids = ks])
    BY DEF KidsAreSet, Kids
  <2> QED BY <2>1, WithKids
<1>3. \A j \in Names \cup {"item"} : Member(j, v) \in R
  BY DEF Member
<1> DEFINE old == <<h[p].kids[Min(IndexOf(h, p, k))].val>>
<1>4. IndexOf(h, p, k) # {} => old \in Lists(P)
  <2> SUFFICES ASSUME IndexOf(h, p, k) # {} PROVE old \in Lists(P)
    OBVIOUS
  <2>1. DOMAIN h[p].kids = 1 .. Len(h[p].kids) /\ \A i \in DOMAIN h[p].kids : h[p].kids[i].val \in P \cup {NULL}
    BY CellParts
  <2>2. IndexOf(h, p, k) \subseteq DOMAIN h[p].kids /\ IndexOf(h, p, k) \subseteq Nat
    BY <2>1, CellParts DEF IndexOf
  <2>3. Min(IndexOf(h, p, k)) \in DOMAIN h[p].kids
    BY <2>2, MinIsIn
  <2> HIDE DEF old
  <2>4. h[p].kids[Min(IndexOf(h, p, k))].val \in P \cup {NULL}
    BY <2>1, <2>3
  <2> QED BY <2>4 DEF Lists, old
<1>5. \A ks \in Seq(R) : \A i : [ks EXCEPT ![i].val = v] \in Seq(R)
  <2> SUFFICES ASSUME NEW ks \in Seq(R), NEW i PROVE [ks EXCEPT ![i].val = v] \in Seq(R)
    OBVIOUS
  <2>1. ks = [j \in 1 .. Len(ks) |-> ks[j]] /\ Len(ks) \in Nat /\ DOMAIN ks = 1 .. Len(ks)
    OBVIOUS
  <2> DEFINE new == [ks EXCEPT ![i].val = v]
  <2>2. new = [j \in 1 .. Len(ks) |-> IF j = i THEN [ks[i] EXCEPT !.val = v] ELSE ks[j]]
    BY <2>1
  <2>3. \A m \in R : [m EXCEPT !.val = v] \in R
    OBVIOUS
  <2> HIDE DEF R, new
  <2>4. \A j \in 1 .. Len(ks) : ks[j] \in R
    BY SeqParts
  <2>5. \A j \in 1 .. Len(ks) : new[j] \in R
    BY <2>2, <2>3, <2>4
  <2>6. new = [j \in 1 .. Len(ks) |-> new[j]]
    BY <2>2
  <2>7. new \in Seq(R)
    BY <2>1, <2>5, <2>6
  <2> QED BY <2>7 DEF new
<1>6. WithItem(h, p, v) \in Heaps(P)
  <2> DEFINE m == Member("item", v)
  <2>1. m \in R /\ h[p].kids \in Seq(R)
    BY <1>1, <1>3
  <2>2. WithItem(h, p, v) = [h EXCEPT ![p].kids = Append(h[p].kids, m)]
    BY DEF WithItem
  <2> HIDE DEF R, m
  <2>3. Append(h[p].kids, m) \in Seq(R)
    BY <2>1
  <2> QED BY <1>2, <2>2, <2>3
<1>7. CASE IndexOf(h, p, k) = {}
  <2> DEFINE m == Member(k, v)
  <2>1. m \in R /\ h[p].kids \in Seq(R)
    BY <1>1, <1>3
  <2>2. WithMember(h, p, k, v) = [h EXCEPT ![p].kids = Append(h[p].kids, m)]
    BY <1>7 DEF WithMember
  <2> HIDE DEF R, m
  <2>3. Append(h[p].kids, m) \in Seq(R)
    BY <2>1
  <2> QED BY <1>2, <1>6, <2>2, <2>3
<1>8. CASE IndexOf(h, p, k) # {}
  <2> DEFINE i == Min(IndexOf(h, p, k))
             H == PutAll(h, old)
  <2>1. H \in Heaps(P)
    BY <1>4, <1>8, PutAllType
  <2>2. WithMember(h, p, k, v) = [H EXCEPT ![p].kids[i].val = v]
    BY <1>8 DEF WithMember
  <2> HIDE DEF H, i, R
  <2>3. WithMember(h, p, k, v) = [H EXCEPT ![p].kids = [H[p].kids EXCEPT ![i].val = v]]
    BY <2>2
  <2>4. [H[p].kids EXCEPT ![i].val = v] \in Seq(R)
    BY <1>1, <1>5, <2>1
  <2> QED BY <1>2, <1>6, <2>1, <2>3, <2>4
<1> QED BY <1>7, <1>8

\* What is given to an object is counted, and so is what it replaces.
LEMMA MemberIsCounted ==
    ASSUME NEW P, Places(P), NEW h, NEW f \in [P -> Nat], NEW v \in P \cup {NULL},
           NEW p \in P, NEW k \in Names \cup {"item"}, Exact(P, h, Plus(f, v)), h[p].ref # 0,
           \A i \in 1 .. Len(h[p].kids) :
               \E K \in SUBSET P : p \in K /\ Supported(h, {<<p, i>>}, Plus(f, v), K)
    PROVE  Exact(P, WithMember(h, p, k, v), f)
<1>1. h \in Heaps(P) /\ Plus(f, v) \in [P -> Nat]
  BY PlusType DEF Exact
<1>2. CASE IndexOf(h, p, k) = {}
  <2>1. WithMember(h, p, k, v) = [h EXCEPT ![p].kids = Append(@, Member(k, v))]
    BY <1>2 DEF WithMember
  <2>2. Exact(P, [h EXCEPT ![p].kids = Append(@, Member(k, v))], f)
    BY ONLY Places(P), f \in [P -> Nat], v \in P \cup {NULL}, p \in P, k \in Names \cup {"item"},
            Exact(P, h, Plus(f, v)), h[p].ref # 0, SlotIsAdded
  <2> QED BY <2>1, <2>2
<1>3. CASE IndexOf(h, p, k) # {}
  <2> DEFINE i == Min(IndexOf(h, p, k))
             H == PutAll(h, <<h[p].kids[i].val>>)
  <2>1. DOMAIN h[p].kids = 1 .. Len(h[p].kids) /\ Len(h[p].kids) \in Nat
    BY <1>1, CellParts
  <2>2. IndexOf(h, p, k) \subseteq 1 .. Len(h[p].kids) /\ IndexOf(h, p, k) \subseteq Nat
    BY <2>1 DEF IndexOf
  <2>3. i \in 1 .. Len(h[p].kids)
    BY <1>3, <2>2, MinIsIn
  <2>4. WithMember(h, p, k, v) = [H EXCEPT ![p].kids[i].val = v]
    BY <1>3 DEF WithMember
  <2> HIDE DEF i
  <2>5. PICK K \in SUBSET P : p \in K /\ Supported(h, {<<p, i>>}, Plus(f, v), K)
    BY <2>3
  <2>6. SlotIsOpen(P, H, <<p, i>>, Plus(f, v), K) /\ SameIn(K, h, H)
    BY <1>1, <2>3, <2>5, SlotIsPut
  <2>7. H[p].kids = h[p].kids
    BY <2>5, <2>6 DEF SameIn
  <2> HIDE DEF H
  <2>8. i \in 1 .. Len(H[p].kids)
    BY <2>3, <2>7
  <2>9. Exact(P, [H EXCEPT ![p].kids[i].val = v], f)
    BY <2>6, <2>8, SlotIsSet
  <2> QED BY <2>4, <2>9
<1> QED BY <1>2, <1>3

-----------------------------------------------------------------------------
(***************************************************************************)
(* What the program can get at                                              *)
(***************************************************************************)

LEMMA MembersParts ==
    ASSUME NEW P, NEW h \in Heaps(P), NEW o \in P
    PROVE  /\ Members(h, o) \subseteq P
           /\ \A q : q \in Members(h, o) <=>
                     q # NULL /\ \E i \in 1 .. Len(h[o].kids) : h[o].kids[i].val = q
<1>1. /\ DOMAIN Vals(h, o) = 1 .. Len(h[o].kids)
      /\ \A i \in 1 .. Len(h[o].kids) : Vals(h, o)[i] = h[o].kids[i].val /\ h[o].kids[i].val \in P \cup {NULL}
  BY CellParts DEF Vals
<1> QED BY <1>1 DEF Members, ToSet

BelowSequence(h, S, below) ==
    below = [n \in 0 .. Cardinality(DOMAIN h) |-> IF n = 0 THEN S ELSE WithMembers(h, below[n - 1])]

\* What is below S, level by level
BelowLevels(P, h, S, f) ==
    LET N == Cardinality(DOMAIN h)
    IN  /\ N \in Nat /\ f \in [0 .. N -> SUBSET P] /\ f[0] = S /\ Below(h, S) = f[N]
        /\ \A n \in 1 .. N : f[n] = WithMembers(h, f[n - 1])

LEMMA BelowIs ==
    ASSUME NEW P, Places(P), NEW h \in Heaps(P), NEW S \in SUBSET P
    PROVE  \E f : BelowLevels(P, h, S, f)
<1> DEFINE N == Cardinality(DOMAIN h)
           W == SUBSET P
           F == [n \in Nat |-> [U \in W |-> WithMembers(h, U)]]
<1>1. N \in Nat
  BY FS_CardinalityType DEF Places, Heaps
<1>2. F \in [Nat -> [W -> W]] /\ \A n \in Nat : \A U \in W : F[n][U] = WithMembers(h, U)
  BY MembersParts DEF WithMembers
<1> HIDE DEF N, F, W
<1>3. S \in W
  BY DEF W
<1>4. PICK f : Iteration(W, F, S, N, f)
  BY <1>1, <1>2, <1>3, Iterates
<1>5. f \in [0 .. N -> W] /\ f[0] = S /\ \A n \in 1 .. N : f[n] = F[n][f[n - 1]]
  BY <1>4 DEF Iteration
<1>6. \A n \in 1 .. N : f[n] = WithMembers(h, f[n - 1])
  BY <1>1, <1>2, <1>5
<1>7. f = [n \in 0 .. N |-> IF n = 0 THEN S ELSE WithMembers(h, f[n - 1])]
  <2>1. f = [n \in 0 .. N |-> f[n]]
    BY <1>5
  <2>2. ASSUME NEW n \in 0 .. N PROVE f[n] = IF n = 0 THEN S ELSE WithMembers(h, f[n - 1])
    <3>1. CASE n = 0
      BY <1>5, <3>1
    <3>2. CASE n # 0
      <4>1. n \in 1 .. N
        BY <1>1, <3>2
      <4> QED BY <1>6, <3>2, <4>1
    <3> QED BY <3>1, <3>2
  <2> QED BY ONLY <2>1, <2>2
<1>8. BelowSequence(h, S, f)
  BY <1>7 DEF BelowSequence, N
<1> DEFINE below == CHOOSE g : BelowSequence(h, S, g)
<1>9. Below(h, S) = below[N]
  BY DEF Below, BelowSequence, N
<1>10. BelowSequence(h, S, below)
  BY <1>8
<1> HIDE DEF below
<1>11. /\ below = [n \in 0 .. N |-> below[n]]
       /\ \A n \in 0 .. N : below[n] = IF n = 0 THEN S ELSE WithMembers(h, below[n - 1])
  <2>1. below = [n \in 0 .. N |-> IF n = 0 THEN S ELSE WithMembers(h, below[n - 1])]
    BY ONLY <1>10 DEF BelowSequence, N
  <2> QED BY ONLY <2>1
<1>12. below[0] = S /\ \A n \in 1 .. N : below[n] = WithMembers(h, below[n - 1])
  <2>1. 0 \in 0 .. N /\ \A n \in 1 .. N : n \in 0 .. N /\ n # 0
    BY <1>1
  <2>2. below[0] = S
    BY ONLY <1>11, <2>1
  <2>3. ASSUME NEW n \in 1 .. N PROVE below[n] = WithMembers(h, below[n - 1])
    BY ONLY <1>11, <2>1
  <2> QED BY <2>2, <2>3
<1> DEFINE T == {n \in Nat : n <= N => below[n] \in SUBSET P}
<1>13. 0 \in T
  BY <1>12
<1>14. ASSUME NEW n \in Nat, n \in T PROVE n + 1 \in T
  <2> SUFFICES ASSUME n + 1 <= N PROVE below[n + 1] \in SUBSET P
    OBVIOUS
  <2>1. n + 1 \in 1 .. N /\ (n + 1) - 1 = n /\ below[n] \in SUBSET P
    BY <1>1, <1>14
  <2>2. below[n + 1] = WithMembers(h, below[n])
    BY <1>12, <2>1
  <2>3. \A o \in below[n] : Members(h, o) \subseteq P
    BY <2>1, MembersParts
  <2> QED BY <2>1, <2>2, <2>3 DEF WithMembers
<1> HIDE DEF T
<1>15. Nat \subseteq T
  BY <1>13, <1>14, InductionOn
<1>16. below \in [0 .. N -> SUBSET P]
  <2>1. \A n \in 0 .. N : below[n] \in SUBSET P
    BY <1>15 DEF T
  <2> QED BY <1>11, <2>1
<1>17. BelowLevels(P, h, S, below)
  BY <1>1, <1>9, <1>12, <1>16 DEF BelowLevels, N
<1> QED BY <1>17

\* What is below S is in every set that S is in and that has its members.
LEMMA BelowIsLeast ==
    ASSUME NEW P, Places(P), NEW h \in Heaps(P), NEW S \in SUBSET P, NEW T \in SUBSET P,
           S \subseteq T, \A o \in T : Members(h, o) \subseteq T
    PROVE  Below(h, S) \subseteq T
<1> DEFINE N == Cardinality(DOMAIN h)
<1>1. PICK f : BelowLevels(P, h, S, f)
  BY BelowIs
<1>2. /\ N \in Nat /\ f[0] = S /\ Below(h, S) = f[N]
      /\ \A n \in 1 .. N : f[n] = WithMembers(h, f[n - 1])
  BY <1>1 DEF BelowLevels
<1> HIDE DEF N
<1> DEFINE G == {n \in Nat : n <= N => f[n] \subseteq T}
<1>3. 0 \in G
  BY <1>2
<1>4. ASSUME NEW n \in Nat, n \in G PROVE n + 1 \in G
  <2> SUFFICES ASSUME n + 1 <= N PROVE f[n + 1] \subseteq T
    OBVIOUS
  <2>1. n + 1 \in 1 .. N /\ (n + 1) - 1 = n /\ n <= N
    BY <1>2
  <2>2. f[n + 1] = WithMembers(h, f[n])
    BY <1>2, <2>1
  <2>3. f[n] \subseteq T
    BY <1>4, <2>1
  <2> QED BY <2>2, <2>3 DEF WithMembers
<1> HIDE DEF G
<1>5. Nat \subseteq G
  BY <1>3, <1>4, InductionOn
<1> QED BY <1>2, <1>5 DEF G

\* p is in reach of what is held.
Reached(P, h, f, S, p) ==
    /\ Places(P) /\ h \in Heaps(P) /\ f \in [P -> Nat] /\ S \in SUBSET P
    /\ \A o \in S : f[o] > 0
    /\ p \in P /\ p \in Below(h, S)

\* It stays so when slot i of its own is open.
StaysHeld(P, h, f, p, i) == \E K \in SUBSET P : p \in K /\ Supported(h, {<<p, i>>}, f, K)

LEMMA ReachedIsSupported ==
    ASSUME NEW P, NEW h, NEW f, NEW S, NEW p, Reached(P, h, f, S, p), NEW i
    PROVE  StaysHeld(P, h, f, p, i)
<1> USE DEF StaysHeld
<1>0. /\ Places(P) /\ h \in Heaps(P) /\ f \in [P -> Nat] /\ S \in SUBSET P
      /\ \A o \in S : f[o] > 0
      /\ p \in P /\ p \in Below(h, S)
  BY DEF Reached
<1> USE <1>0
<1> DEFINE x == <<p, i>>
           closed == {T \in SUBSET P :
                        /\ S \subseteq T
                        /\ \A r \in SlotsOf(h) : r # x /\ r[1] \in T /\ Points(h, r) \in P
                                                    => Points(h, r) \in T}
           K == {o \in P : \A T \in closed : o \in T}
<1>1. K \in closed
  OBVIOUS
<1>2. Supported(h, {x}, f, K)
  <2> SUFFICES ASSUME NEW o \in K, ~(f[o] > 0), ~\E r \in SlotsOf(h) \ {x} : r[1] \in K /\ Points(h, r) = o
               PROVE  FALSE
    BY DEF Supported
  <2>1. o \notin S
    OBVIOUS
  <2>2. K \ {o} \in closed
    BY <1>1, <2>1
  <2> QED BY <2>2
<1>3. p \in K
  <2> SUFFICES ASSUME p \notin K PROVE FALSE
    OBVIOUS
  <2>1. K \in SUBSET P /\ S \subseteq K
    BY <1>1
  <2>2. \A r \in SlotsOf(h) : r # x /\ r[1] \in K /\ Points(h, r) \in P => Points(h, r) \in K
    BY <1>1
  <2> HIDE DEF K
  <2>3. \A o \in K : Members(h, o) \subseteq K
    <3> SUFFICES ASSUME NEW o \in K, NEW q \in Members(h, o) PROVE q \in K
      OBVIOUS
    <3>1. PICK j \in 1 .. Len(h[o].kids) : h[o].kids[j].val = q
      BY <2>1, MembersParts
    <3>2. q \in P /\ o \in P /\ o # p
      BY <2>1, MembersParts
    <3> DEFINE r == <<o, j>>
    <3>3. r \in SlotsOf(h) /\ r[1] = o /\ r # x
      BY <3>2, SlotParts
    <3>4. Points(h, r) = q
      BY <3>1 DEF Points
    <3> HIDE DEF r
    <3> QED BY <2>2, <3>2, <3>3, <3>4
  <2>4. Below(h, S) \subseteq K
    BY <2>1, <2>3, BelowIsLeast
  <2> QED BY <2>4
<1> QED BY <1>1, <1>2, <1>3

-----------------------------------------------------------------------------
(***************************************************************************)
(* json_object_deep_copy                                                    *)
(***************************************************************************)

Results(P) == [ok : BOOLEAN, dst : P \cup {NULL}, h : Heaps(P), n : Nat]
Halfway(P) == [ok : BOOLEAN, h : Heaps(P), n : Nat]
Copiers(P) == [Calls(P) -> Results(P)]

\* A copy, or what there is of it, is one value with one reference.
CopyIsExact(P, h, r) ==
    \A f \in [P -> Nat] : Exact(P, h, f) =>
        /\ Exact(P, r.h, Plus(f, r.dst))
        /\ r.dst # NULL => f[r.dst] = 0

\* So it is at every call.
Copies(P, copy) ==
    copy \in Copiers(P) /\ \A c \in Calls(P) : CopyIsExact(P, c.h, copy[c])

LEMMA PlusNull == ASSUME NEW P, Places(P), NEW f \in [P -> Nat] PROVE Plus(f, NULL) = f
<1>1. \A q \in P : q # NULL
  BY DEF Places
<1> QED BY <1>1 DEF Plus

LEMMA HeldIsLive ==
    ASSUME NEW P, Places(P), NEW h, NEW f \in [P -> Nat], Exact(P, h, f), NEW o \in P, f[o] > 0
    PROVE  h[o].ref # 0
<1>1. h \in Heaps(P) /\ DOMAIN h = P /\ Counted(h, {}, f, << >>)
  BY DEF Exact, Heaps
<1>2. h[o].ref = f[o] + Cardinality(Refs(h, {}, << >>, o)) /\ f[o] \in Nat
  BY <1>1 DEF Counted
<1>3. Cardinality(Refs(h, {}, << >>, o)) \in Nat
  BY <1>1, RefsFinite, NoPuts
<1> QED BY <1>2, <1>3

\* The copy of a member
SubCopy(copy, from, i, r) ==
    IF from.kids[i].val = NULL THEN [ok |-> TRUE, dst |-> NULL, h |-> r.h, n |-> r.n]
    ELSE copy[Call(r.h, from.kids[i].val, r.n)]

LEMMA SubCopyType ==
    ASSUME NEW P, NEW copy \in Copiers(P), NEW from, from.kids \in Kids(P),
           NEW i \in 1 .. Len(from.kids), NEW r \in Halfway(P)
    PROVE  /\ SubCopy(copy, from, i, r) \in Results(P)
           /\ from.kids[i].val \in P \cup {NULL} /\ from.kids[i].key \in Names \cup {"item"}
           /\ from.kids[i].val # NULL => Call(r.h, from.kids[i].val, r.n) \in Calls(P)
<1>1. from.kids[i] \in [key : Names \cup {"item"}, val : P \cup {NULL}]
  BY SeqParts DEF Kids
<1>2. from.kids[i].val \in P \cup {NULL} /\ from.kids[i].key \in Names \cup {"item"}
  BY <1>1
<1>3. r.h \in Heaps(P) /\ r.n \in Nat
  BY DEF Halfway
<1>4. CASE from.kids[i].val = NULL
  <2>1. SubCopy(copy, from, i, r) = [ok |-> TRUE, dst |-> NULL, h |-> r.h, n |-> r.n]
    BY <1>4 DEF SubCopy
  <2> QED BY <1>2, <1>3, <1>4, <2>1 DEF Results
<1>5. CASE from.kids[i].val # NULL
  <2>1. Call(r.h, from.kids[i].val, r.n) \in Calls(P)
    BY <1>2, <1>3, <1>5 DEF Call, Calls, Heaps
  <2>2. SubCopy(copy, from, i, r) = copy[Call(r.h, from.kids[i].val, r.n)]
    BY <1>5 DEF SubCopy
  <2> QED BY <1>2, <2>1, <2>2 DEF Copiers
<1> QED BY <1>4, <1>5

LEMMA CopyMemberIs ==
    ASSUME NEW copy, NEW from, NEW dst, NEW i, NEW r
    PROVE  LET c == SubCopy(copy, from, i, r)
               t == CopyMember(copy, from, dst, i, r)
           IN  /\ ~r.ok => t = r
               /\ r.ok /\ ~c.ok => t = [ok |-> FALSE, h |-> PutAll(c.h, <<c.dst>>), n |-> c.n]
               /\ r.ok /\ c.ok /\ from.kind = "object" =>
                      t = [ok |-> TRUE, n |-> c.n, h |-> WithMember(c.h, dst, from.kids[i].key, c.dst)]
               /\ r.ok /\ c.ok /\ from.kind # "object" =>
                      t = [ok |-> TRUE, n |-> c.n, h |-> WithItem(c.h, dst, c.dst)]
  BY DEF CopyMember, SubCopy

LEMMA HalfwayRecord ==
    ASSUME NEW P, NEW ok \in BOOLEAN, NEW h \in Heaps(P), NEW n \in Nat
    PROVE  [ok |-> ok, h |-> h, n |-> n] \in Halfway(P) /\ [ok |-> ok, n |-> n, h |-> h] \in Halfway(P)
  BY DEF Halfway

LEMMA CopyMemberType ==
    ASSUME NEW P, Places(P), NEW copy \in Copiers(P), NEW from, from.kids \in Kids(P), NEW dst \in P,
           NEW i \in 1 .. Len(from.kids), NEW r \in Halfway(P)
    PROVE  CopyMember(copy, from, dst, i, r) \in Halfway(P)
<1> DEFINE c == SubCopy(copy, from, i, r)
           t == CopyMember(copy, from, dst, i, r)
           k == from.kids[i].key
<1>1. c \in Results(P) /\ k \in Names \cup {"item"}
  BY SubCopyType
<1>2. c.ok \in BOOLEAN /\ c.dst \in P \cup {NULL} /\ c.h \in Heaps(P) /\ c.n \in Nat /\ r.ok \in BOOLEAN
  BY <1>1 DEF Results, Halfway
<1>3. /\ ~r.ok => t = r
      /\ r.ok /\ ~c.ok => t = [ok |-> FALSE, h |-> PutAll(c.h, <<c.dst>>), n |-> c.n]
      /\ r.ok /\ c.ok /\ from.kind = "object" => t = [ok |-> TRUE, n |-> c.n, h |-> WithMember(c.h, dst, k, c.dst)]
      /\ r.ok /\ c.ok /\ from.kind # "object" => t = [ok |-> TRUE, n |-> c.n, h |-> WithItem(c.h, dst, c.dst)]
  BY CopyMemberIs
<1> HIDE DEF c, t, k
<1>4. PutAll(c.h, <<c.dst>>) \in Heaps(P)
  <2>1. <<c.dst>> \in Lists(P)
    BY <1>2 DEF Lists
  <2> QED BY <1>2, <2>1, PutAllType
<1>5. WithMember(c.h, dst, k, c.dst) \in Heaps(P) /\ WithItem(c.h, dst, c.dst) \in Heaps(P)
  BY <1>1, <1>2, WithMemberType
<1>6. t \in Halfway(P)
  <2>1. CASE ~r.ok
    BY <1>3, <2>1
  <2>2. CASE r.ok /\ ~c.ok
    BY <1>2, <1>3, <1>4, <2>2, HalfwayRecord
  <2>3. CASE r.ok /\ c.ok /\ from.kind = "object"
    BY <1>2, <1>3, <1>5, <2>3, HalfwayRecord
  <2>4. CASE r.ok /\ c.ok /\ from.kind # "object"
    BY <1>2, <1>3, <1>5, <2>4, HalfwayRecord
  <2> QED BY <1>2, <2>1, <2>2, <2>3, <2>4
<1> QED BY <1>6 DEF t

LEMMA CopyMemberCounted ==
    ASSUME NEW P, Places(P), NEW copy, Copies(P, copy), NEW from, from.kids \in Kids(P), NEW dst \in P,
           NEW i \in 1 .. Len(from.kids), NEW r \in Halfway(P), NEW f \in [P -> Nat], f[dst] > 0,
           Exact(P, r.h, f)
    PROVE  Exact(P, CopyMember(copy, from, dst, i, r).h, f)
<1> DEFINE c == SubCopy(copy, from, i, r)
           t == CopyMember(copy, from, dst, i, r)
           k == from.kids[i].key
           v == from.kids[i].val
<1>0. copy \in Copiers(P)
  BY DEF Copies
<1>1. c \in Results(P) /\ k \in Names \cup {"item"} /\ v \in P \cup {NULL}
  BY <1>0, SubCopyType
<1>2. c.ok \in BOOLEAN /\ c.dst \in P \cup {NULL} /\ c.h \in Heaps(P) /\ c.n \in Nat /\ r.ok \in BOOLEAN
  BY <1>1 DEF Results, Halfway
<1>3. Exact(P, c.h, Plus(f, c.dst))
  <2>1. CASE v = NULL
    <3>1. c.h = r.h /\ c.dst = NULL
      BY <2>1 DEF SubCopy
    <3> QED BY <3>1, PlusNull
  <2>2. CASE v # NULL
    <3>1. Call(r.h, v, r.n) \in Calls(P) /\ c = copy[Call(r.h, v, r.n)]
      BY <1>0, <2>2, SubCopyType DEF SubCopy
    <3>2. Call(r.h, v, r.n).h = r.h
      BY DEF Call
    <3>3. CopyIsExact(P, r.h, c)
      BY <3>1, <3>2 DEF Copies
    <3> QED BY <3>3 DEF CopyIsExact
  <2> QED BY <2>1, <2>2
<1>4. /\ ~r.ok => t = r
      /\ r.ok /\ ~c.ok => t = [ok |-> FALSE, h |-> PutAll(c.h, <<c.dst>>), n |-> c.n]
      /\ r.ok /\ c.ok /\ from.kind = "object" => t = [ok |-> TRUE, n |-> c.n, h |-> WithMember(c.h, dst, k, c.dst)]
      /\ r.ok /\ c.ok /\ from.kind # "object" => t = [ok |-> TRUE, n |-> c.n, h |-> WithItem(c.h, dst, c.dst)]
  BY CopyMemberIs
<1> HIDE DEF c, t, k, v
<1>5. Plus(f, c.dst) \in [P -> Nat] /\ Plus(f, c.dst)[dst] > 0
  BY PlusType
<1>6. c.h[dst].ref # 0
  BY <1>3, <1>5, HeldIsLive
<1>7. Exact(P, PutAll(c.h, <<c.dst>>), f)
  BY <1>2, <1>3, PutIsCounted
<1>8. Exact(P, WithItem(c.h, dst, c.dst), f)
  <2>1. Exact(P, [c.h EXCEPT ![dst].kids = Append(@, Member("item", c.dst))], f)
    BY <1>2, <1>3, <1>6, SlotIsAdded
  <2> QED BY <2>1 DEF WithItem
<1>9. Exact(P, WithMember(c.h, dst, k, c.dst), f)
  <2>1. \A j : Supported(c.h, {<<dst, j>>}, Plus(f, c.dst), {dst})
    BY <1>5 DEF Supported
  <2>2. \A j \in 1 .. Len(c.h[dst].kids) :
            \E K \in SUBSET P : dst \in K /\ Supported(c.h, {<<dst, j>>}, Plus(f, c.dst), K)
    BY <2>1
  <2> QED BY <1>1, <1>2, <1>3, <1>6, <2>2, MemberIsCounted
<1>10. Exact(P, t.h, f)
  BY <1>2, <1>4, <1>7, <1>8, <1>9
<1> QED BY <1>10 DEF t

MembersSequence(copy, from, dst, h, n, copied) ==
    copied = [i \in 0 .. Len(from.kids) |->
                 IF i = 0 THEN [ok |-> TRUE, h |-> h, n |-> n]
                 ELSE CopyMember(copy, from, dst, i, copied[i - 1])]

\* The members one by one
LEMMA CopyMembersIs ==
    ASSUME NEW P, Places(P), NEW copy \in Copiers(P), NEW from, from.kids \in Kids(P), NEW dst \in P,
           NEW h \in Heaps(P), NEW n \in Nat
    PROVE  \E copied \in [0 .. Len(from.kids) -> Halfway(P)] :
               /\ copied[0] = [ok |-> TRUE, h |-> h, n |-> n]
               /\ \A i \in 1 .. Len(from.kids) : copied[i] = CopyMember(copy, from, dst, i, copied[i - 1])
               /\ CopyMembers(copy, from, dst, h, n) = copied[Len(from.kids)]
<1> DEFINE N == Len(from.kids)
           start == [ok |-> TRUE, h |-> h, n |-> n]
           W == Halfway(P)
           Step(i, r) == CopyMember(copy, from, dst, i, r)
           F == [i \in Nat |-> [r \in W |-> IF i \in 1 .. N THEN Step(i, r) ELSE r]]
<1>1. N \in Nat
  BY SeqParts DEF Kids
<1>2. start \in W
  BY DEF Halfway
<1>3. \A i \in 1 .. N : \A r \in W : Step(i, r) \in W
  BY CopyMemberType
<1> HIDE DEF N, start, W, Step
<1>4. F \in [Nat -> [W -> W]] /\ \A i \in 1 .. N : \A r \in W : F[i][r] = Step(i, r)
  BY <1>1, <1>3
<1> HIDE DEF F
<1>5. PICK f : Iteration(W, F, start, N, f)
  BY <1>1, <1>2, <1>4, Iterates
<1>6. f \in [0 .. N -> W] /\ f[0] = start /\ \A i \in 1 .. N : f[i] = F[i][f[i - 1]]
  BY <1>5 DEF Iteration
<1>7. \A i \in 1 .. N : f[i] = Step(i, f[i - 1])
  BY <1>1, <1>4, <1>6
<1>8. f = [i \in 0 .. N |-> IF i = 0 THEN start ELSE Step(i, f[i - 1])]
  <2>1. f = [i \in 0 .. N |-> f[i]]
    BY <1>6
  <2>2. ASSUME NEW i \in 0 .. N PROVE f[i] = IF i = 0 THEN start ELSE Step(i, f[i - 1])
    <3>1. CASE i = 0
      BY <1>6, <3>1
    <3>2. CASE i # 0
      <4>1. i \in 1 .. N
        BY <1>1, <3>2
      <4> QED BY <1>7, <3>2, <4>1
    <3> QED BY <3>1, <3>2
  <2> QED BY ONLY <2>1, <2>2
<1>9. MembersSequence(copy, from, dst, h, n, f)
  BY <1>8 DEF MembersSequence, N, start, Step
<1> DEFINE copied == CHOOSE g : MembersSequence(copy, from, dst, h, n, g)
<1>10. CopyMembers(copy, from, dst, h, n) = copied[N]
  BY DEF CopyMembers, MembersSequence, N
<1>11. MembersSequence(copy, from, dst, h, n, copied)
  BY <1>9
<1> HIDE DEF copied
<1>12. copied = [i \in 0 .. N |-> IF i = 0 THEN start ELSE Step(i, copied[i - 1])]
  BY ONLY <1>11 DEF MembersSequence, N, start, Step
<1>13. /\ copied = [i \in 0 .. N |-> copied[i]]
       /\ \A i \in 0 .. N : copied[i] = IF i = 0 THEN start ELSE Step(i, copied[i - 1])
  BY ONLY <1>12
<1>14. copied[0] = start /\ \A i \in 1 .. N : copied[i] = Step(i, copied[i - 1])
  <2>1. 0 \in 0 .. N /\ \A i \in 1 .. N : i \in 0 .. N /\ i # 0
    BY <1>1
  <2>2. copied[0] = start
    BY ONLY <1>13, <2>1
  <2>3. ASSUME NEW i \in 1 .. N PROVE copied[i] = Step(i, copied[i - 1])
    BY ONLY <1>13, <2>1
  <2> QED BY <2>2, <2>3
<1> DEFINE T == {i \in Nat : i <= N => copied[i] \in W}
<1>15. 0 \in T
  BY <1>2, <1>14
<1>16. ASSUME NEW i \in Nat, i \in T PROVE i + 1 \in T
  <2> SUFFICES ASSUME i + 1 <= N PROVE copied[i + 1] \in W
    OBVIOUS
  <2>1. copied[i] \in W /\ i + 1 \in 1 .. N /\ (i + 1) - 1 = i
    BY <1>1, <1>16
  <2>2. copied[i + 1] = Step(i + 1, copied[i])
    BY <1>14, <2>1
  <2> QED BY <1>3, <2>1, <2>2
<1> HIDE DEF T
<1>17. Nat \subseteq T
  BY <1>15, <1>16, InductionOn
<1>18. \A i \in 0 .. N : copied[i] \in W
  BY <1>1, <1>17 DEF T
<1>19. copied \in [0 .. N -> W]
  BY <1>13, <1>18
<1> QED BY <1>10, <1>14, <1>19 DEF W, N, start, Step

LEMMA CopyMembersType ==
    ASSUME NEW P, Places(P), NEW copy \in Copiers(P), NEW from, from.kids \in Kids(P), NEW dst \in P,
           NEW h \in Heaps(P), NEW n \in Nat
    PROVE  CopyMembers(copy, from, dst, h, n) \in Halfway(P)
<1>1. \E copied \in [0 .. Len(from.kids) -> Halfway(P)] :
          /\ copied[0] = [ok |-> TRUE, h |-> h, n |-> n]
          /\ \A i \in 1 .. Len(from.kids) : copied[i] = CopyMember(copy, from, dst, i, copied[i - 1])
          /\ CopyMembers(copy, from, dst, h, n) = copied[Len(from.kids)]
  BY CopyMembersIs
<1>2. PICK copied \in [0 .. Len(from.kids) -> Halfway(P)] :
          CopyMembers(copy, from, dst, h, n) = copied[Len(from.kids)]
  BY <1>1
<1>3. Len(from.kids) \in 0 .. Len(from.kids)
  BY SeqParts DEF Kids
<1> QED BY <1>2, <1>3

LEMMA CopyMembersCounted ==
    ASSUME NEW P, Places(P), NEW copy, Copies(P, copy), NEW from, from.kids \in Kids(P), NEW dst \in P,
           NEW h \in Heaps(P), NEW n \in Nat, NEW f \in [P -> Nat], f[dst] > 0, Exact(P, h, f)
    PROVE  Exact(P, CopyMembers(copy, from, dst, h, n).h, f)
<1> DEFINE N == Len(from.kids)
<1>0. copy \in Copiers(P)
  BY DEF Copies
<1>1. N \in Nat
  BY SeqParts DEF Kids
<1>2. \E copied \in [0 .. N -> Halfway(P)] :
          /\ copied[0] = [ok |-> TRUE, h |-> h, n |-> n]
          /\ \A i \in 1 .. N : copied[i] = CopyMember(copy, from, dst, i, copied[i - 1])
          /\ CopyMembers(copy, from, dst, h, n) = copied[N]
  BY <1>0, CopyMembersIs
<1>3. PICK copied \in [0 .. N -> Halfway(P)] :
          /\ copied[0] = [ok |-> TRUE, h |-> h, n |-> n]
          /\ \A i \in 1 .. N : copied[i] = CopyMember(copy, from, dst, i, copied[i - 1])
          /\ CopyMembers(copy, from, dst, h, n) = copied[N]
  BY <1>2
<1> HIDE DEF N
<1> DEFINE T == {i \in Nat : i <= N => Exact(P, copied[i].h, f)}
<1>4. 0 \in T
  BY <1>3
<1>5. ASSUME NEW i \in Nat, i \in T PROVE i + 1 \in T
  <2> SUFFICES ASSUME i + 1 <= N PROVE Exact(P, copied[i + 1].h, f)
    OBVIOUS
  <2>1. i + 1 \in 1 .. N /\ (i + 1) - 1 = i /\ i \in 0 .. N
    BY <1>1
  <2>2. Exact(P, copied[i].h, f) /\ copied[i] \in Halfway(P)
    BY <1>5, <2>1
  <2>3. copied[i + 1] = CopyMember(copy, from, dst, i + 1, copied[i])
    BY <1>3, <2>1
  <2>4. Exact(P, CopyMember(copy, from, dst, i + 1, copied[i]).h, f)
    BY <2>1, <2>2, CopyMemberCounted DEF N
  <2> QED BY <2>3, <2>4
<1> HIDE DEF T
<1>6. Nat \subseteq T
  BY <1>4, <1>5, InductionOn
<1> QED BY <1>1, <1>3, <1>6 DEF T

\* One level: the value, then its members
ValueCopied(P, copy, h, src, n, t) ==
    \/ t = [ok |-> FALSE, dst |-> NULL, h |-> h, n |-> 0]
    \/ \E dst \in P, c \in Cells(P), H \in Heaps(P), r \in Halfway(P), ok \in BOOLEAN :
           /\ h[dst].ref = 0 /\ c.ref = 1 /\ c.kids = << >> /\ c = ShallowCopy(h, src)
           /\ H = [h EXCEPT ![dst] = c]
           /\ r = CopyMembers(copy, h[src], dst, H, n - 1) /\ n - 1 \in Nat
           /\ h[src].kids \in Kids(P) /\ t = [ok |-> ok, dst |-> dst, h |-> r.h, n |-> r.n]

LEMMA CopyValueIs ==
    ASSUME NEW P, Places(P), NEW copy \in Copiers(P), NEW h \in Heaps(P), NEW src \in P, NEW n \in Nat
    PROVE  ValueCopied(P, copy, h, src, n, CopyValue(copy, h, src, n))
<1> DEFINE room == P \ Live(h)
           dst == CHOOSE o \in room : TRUE
           c == ShallowCopy(h, src)
           H == [h EXCEPT ![dst] = c]
           r == CopyMembers(copy, h[src], dst, H, n - 1)
           t == CopyValue(copy, h, src, n)
<1>1. DOMAIN h = P
  BY DEF Heaps
<1>2. n = 0 \/ room = {} => t = [ok |-> FALSE, dst |-> NULL, h |-> h, n |-> 0]
  BY <1>1 DEF CopyValue
<1>3. n # 0 /\ room # {} => t = [ok |-> r.ok /\ h[src].kind # "custom", dst |-> dst, h |-> r.h, n |-> r.n]
  BY <1>1 DEF CopyValue
<1>4. ASSUME n # 0, room # {}
      PROVE  /\ dst \in P /\ h[dst].ref = 0 /\ n - 1 \in Nat
             /\ c \in Cells(P) /\ c.ref = 1 /\ c.kids = << >>
             /\ H \in Heaps(P) /\ r \in Halfway(P) /\ h[src].kids \in Kids(P)
  <2>1. dst \in P /\ dst \notin Live(h)
    <3>1. dst \in room
      BY <1>4
    <3> QED BY <3>1
  <2>2. h[dst].ref = 0
    <3>1. h[dst].ref \in Nat
      BY <2>1, CellParts
    <3>2. ~(h[dst].ref > 0)
      BY <1>1, <2>1 DEF Live
    <3> HIDE DEF dst
    <3> QED BY <3>1, <3>2
  <2>3. c \in Cells(P) /\ c.ref = 1 /\ c.kids = << >>
    <3>1. h[src] \in Cells(P)
      BY DEF Heaps
    <3>2. h[src].kind \in Containers \cup StringKinds \cup {"none"} /\ h[src].data \in Data \cup {NULL}
      BY <3>1 DEF Cells
    <3> DEFINE d == IF h[src].data = NULL THEN NULL ELSE CString[h[src].data]
    <3>3. d \in Data \cup {NULL}
      BY <3>2, ObjectAssumption
    <3>4. c = NewValue(h[src].kind, d)
      BY DEF ShallowCopy
    <3>5. << >> \in Seq([key : Names \cup {"item"}, val : P \cup {NULL}])
      OBVIOUS
    <3> HIDE DEF c, d
    <3> QED BY <3>2, <3>3, <3>4, <3>5 DEF NewValue, Cells
  <2>4. h[src].kids \in Kids(P) /\ n - 1 \in Nat
    BY <1>4, CellParts
  <2> HIDE DEF c, dst
  <2>5. H \in Heaps(P)
    BY <2>1, <2>3 DEF Heaps
  <2> HIDE DEF H
  <2>6. r \in Halfway(P)
    BY <2>1, <2>4, <2>5, CopyMembersType
  <2> QED BY <2>1, <2>2, <2>3, <2>4, <2>5, <2>6
<1>5. CASE n = 0 \/ room = {}
  BY <1>2, <1>5 DEF ValueCopied
<1>6. CASE n # 0 /\ room # {}
  <2>1. /\ dst \in P /\ h[dst].ref = 0 /\ n - 1 \in Nat
        /\ c \in Cells(P) /\ c.ref = 1 /\ c.kids = << >>
        /\ H \in Heaps(P) /\ r \in Halfway(P) /\ h[src].kids \in Kids(P)
    BY <1>4, <1>6
  <2> DEFINE ok == r.ok /\ h[src].kind # "custom"
  <2>2. ok \in BOOLEAN /\ t = [ok |-> ok, dst |-> dst, h |-> r.h, n |-> r.n]
    BY <1>3, <1>6
  <2>3. c = ShallowCopy(h, src) /\ H = [h EXCEPT ![dst] = c] /\ r = CopyMembers(copy, h[src], dst, H, n - 1)
    OBVIOUS
  <2> HIDE DEF t, r, H, c, dst, ok
  <2>4. ValueCopied(P, copy, h, src, n, t)
    BY <2>1, <2>2, <2>3 DEF ValueCopied
  <2> QED BY <2>4 DEF t
<1> QED BY <1>5, <1>6

LEMMA CopyValueType ==
    ASSUME NEW P, Places(P), NEW copy \in Copiers(P), NEW h \in Heaps(P), NEW src \in P, NEW n \in Nat
    PROVE  CopyValue(copy, h, src, n) \in Results(P)
<1> DEFINE t == CopyValue(copy, h, src, n)
<1>1. ValueCopied(P, copy, h, src, n, t)
  BY CopyValueIs
<1> HIDE DEF t
<1>2. CASE t = [ok |-> FALSE, dst |-> NULL, h |-> h, n |-> 0]
  <2>1. t \in Results(P)
    BY <1>2 DEF Results
  <2> QED BY <2>1 DEF t
<1>3. CASE \E dst \in P, r \in Halfway(P), ok \in BOOLEAN :
              t = [ok |-> ok, dst |-> dst, h |-> r.h, n |-> r.n]
  <2>1. PICK dst \in P, r \in Halfway(P), ok \in BOOLEAN :
              t = [ok |-> ok, dst |-> dst, h |-> r.h, n |-> r.n]
    BY <1>3
  <2>2. r.h \in Heaps(P) /\ r.n \in Nat
    BY DEF Halfway
  <2>3. t \in Results(P)
    BY <2>1, <2>2 DEF Results
  <2> QED BY <2>3 DEF t
<1> QED BY <1>1, <1>2, <1>3 DEF ValueCopied

LEMMA CopyValueCounted ==
    ASSUME NEW P, Places(P), NEW copy, Copies(P, copy), NEW h \in Heaps(P), NEW src \in P, NEW n \in Nat
    PROVE  CopyIsExact(P, h, CopyValue(copy, h, src, n))
<1> DEFINE t == CopyValue(copy, h, src, n)
<1> SUFFICES ASSUME NEW f \in [P -> Nat], Exact(P, h, f)
             PROVE  Exact(P, t.h, Plus(f, t.dst)) /\ (t.dst # NULL => f[t.dst] = 0)
  BY DEF CopyIsExact
<1>0. copy \in Copiers(P)
  BY DEF Copies
<1>1. ValueCopied(P, copy, h, src, n, t)
  BY <1>0, CopyValueIs
<1> HIDE DEF t
<1>2. CASE t = [ok |-> FALSE, dst |-> NULL, h |-> h, n |-> 0]
  <2>1. t.h = h /\ t.dst = NULL
    BY <1>2
  <2> QED BY <2>1, PlusNull
<1>3. CASE t # [ok |-> FALSE, dst |-> NULL, h |-> h, n |-> 0]
  <2>1. PICK dst \in P, c \in Cells(P), H \in Heaps(P), r \in Halfway(P), ok \in BOOLEAN :
           /\ h[dst].ref = 0 /\ c.ref = 1 /\ c.kids = << >> /\ H = [h EXCEPT ![dst] = c]
           /\ r = CopyMembers(copy, h[src], dst, H, n - 1) /\ n - 1 \in Nat
           /\ h[src].kids \in Kids(P) /\ t = [ok |-> ok, dst |-> dst, h |-> r.h, n |-> r.n]
    BY <1>1, <1>3 DEF ValueCopied
  <2>2. f[dst] = 0 /\ Exact(P, H, Plus(f, dst))
    BY <2>1, NewIsCounted
  <2>3. Plus(f, dst) \in [P -> Nat] /\ Plus(f, dst)[dst] > 0
    BY <2>1, PlusType
  <2>4. Exact(P, r.h, Plus(f, dst))
    BY <2>1, <2>2, <2>3, CopyMembersCounted
  <2>5. t.h = r.h /\ t.dst = dst
    BY <2>1
  <2> QED BY <2>2, <2>4, <2>5
<1> QED BY <1>2, <1>3

NoCopy(c) == [ok |-> FALSE, dst |-> NULL, h |-> c.h, n |-> 0]

CopySequence(P, n, copy) ==
    copy = [levels \in 0 .. n |->
                [c \in Calls(P) |->
                    IF levels = 0 THEN [ok |-> FALSE, dst |-> NULL, h |-> c.h, n |-> 0]
                    ELSE CopyValue(copy[levels - 1], c.h, c.src, c.n)]]

LEMMA CallParts ==
    ASSUME NEW P, NEW c \in Calls(P)
    PROVE  c.h \in Heaps(P) /\ c.src \in P /\ c.n \in Nat
  BY DEF Calls, Heaps

LEMMA CallIs ==
    ASSUME NEW P, NEW h \in Heaps(P), NEW src \in P, NEW n \in Nat
    PROVE  Call(h, src, n) \in Calls(P) /\ Call(h, src, n).h = h
  BY DEF Calls, Call, Heaps

LEMMA NoCopyType ==
    ASSUME NEW P, NEW c \in Calls(P)
    PROVE  NoCopy(c) \in Results(P) /\ NoCopy(c).h = c.h /\ NoCopy(c).dst = NULL
<1>1. c.h \in Heaps(P)
  BY CallParts
<1> QED BY <1>1 DEF NoCopy, Results

\* Level by level
LEMMA CopyToIs ==
    ASSUME NEW P, Places(P), NEW h \in Heaps(P), NEW src \in P, NEW n \in Nat
    PROVE  \E copy \in [0 .. n -> Copiers(P)] :
               /\ \A c \in Calls(P) : copy[0][c] = NoCopy(c)
               /\ \A d \in 1 .. n : \A c \in Calls(P) :
                      copy[d][c] = CopyValue(copy[d - 1], c.h, c.src, c.n)
               /\ CopyTo(h, src, n) = copy[n][Call(h, src, n)]
<1> DEFINE W == Copiers(P)
           start == [c \in Calls(P) |-> NoCopy(c)]
           Next1(k) == [c \in Calls(P) |-> CopyValue(k, c.h, c.src, c.n)]
           F == [d \in Nat |-> [k \in W |-> Next1(k)]]
           Level(d, k) == IF d = 0 THEN start ELSE Next1(k)
<1>1. start \in W
  BY NoCopyType DEF Copiers
<1>2. \A k \in W : Next1(k) \in W
  <2> SUFFICES ASSUME NEW k \in W, NEW c \in Calls(P) PROVE CopyValue(k, c.h, c.src, c.n) \in Results(P)
    BY DEF Copiers
  <2>1. c.h \in Heaps(P) /\ c.src \in P /\ c.n \in Nat
    BY CallParts
  <2> QED BY <2>1, CopyValueType
<1>3. DOMAIN h = P
  BY DEF Heaps
<1>4. \A copy : CopySequence(P, n, copy) <=> copy = [d \in 0 .. n |-> Level(d, copy[d - 1])]
  <2> SUFFICES ASSUME NEW copy
               PROVE  CopySequence(P, n, copy) <=> copy = [d \in 0 .. n |-> Level(d, copy[d - 1])]
    OBVIOUS
  <2> DEFINE A == [d \in 0 .. n |->
                      [c \in Calls(P) |->
                          IF d = 0 THEN NoCopy(c) ELSE CopyValue(copy[d - 1], c.h, c.src, c.n)]]
             B == [d \in 0 .. n |-> Level(d, copy[d - 1])]
  <2>1. ASSUME NEW d \in 0 .. n
        PROVE  [c \in Calls(P) |-> IF d = 0 THEN NoCopy(c) ELSE CopyValue(copy[d - 1], c.h, c.src, c.n)]
                   = Level(d, copy[d - 1])
    <3>1. CASE d = 0
      BY <3>1
    <3>2. CASE d # 0
      BY <3>2
    <3> QED BY <3>1, <3>2
  <2>2. A = B
    BY <2>1
  <2>3. CopySequence(P, n, copy) <=> copy = A
    BY DEF CopySequence, NoCopy
  <2> QED BY <2>2, <2>3
<1> DEFINE copied == CHOOSE g : CopySequence(P, n, g)
<1>5. CopyTo(h, src, n) = copied[n][Call(h, src, n)]
  BY <1>3 DEF CopyTo, CopySequence
<1> HIDE DEF W, start, Next1
<1>6. F \in [Nat -> [W -> W]] /\ \A d \in 1 .. n : \A k \in W : F[d][k] = Next1(k)
  BY <1>2
<1> HIDE DEF F
<1>7. PICK f : Iteration(W, F, start, n, f)
  BY <1>1, <1>6, Iterates
<1>8. f \in [0 .. n -> W] /\ f[0] = start /\ \A d \in 1 .. n : f[d] = F[d][f[d - 1]]
  BY <1>7 DEF Iteration
<1>9. f = [d \in 0 .. n |-> Level(d, f[d - 1])]
  <2>1. \A d \in 1 .. n : f[d] = Next1(f[d - 1])
    BY <1>6, <1>8
  <2>2. f = [d \in 0 .. n |-> f[d]]
    BY <1>8
  <2>3. \A d \in 0 .. n : f[d] = Level(d, f[d - 1])
    BY <1>8, <2>1
  <2> HIDE DEF Level
  <2> QED BY ONLY <2>2, <2>3
<1>10. CopySequence(P, n, copied)
  <2>1. CopySequence(P, n, f)
    BY ONLY <1>4, <1>9
  <2> QED BY ONLY <2>1
<1> HIDE DEF copied
<1>11. copied = [d \in 0 .. n |-> Level(d, copied[d - 1])]
  BY ONLY <1>4, <1>10
<1>12. copied = [d \in 0 .. n |-> copied[d]] /\ \A d \in 0 .. n : copied[d] = Level(d, copied[d - 1])
  <2> HIDE DEF Level
  <2> QED BY ONLY <1>11
<1>13. copied[0] = start /\ \A d \in 1 .. n : copied[d] = Next1(copied[d - 1])
  <2>1. 0 \in 0 .. n /\ \A d \in 1 .. n : d \in 0 .. n /\ d # 0
    OBVIOUS
  <2>2. copied[0] = start
    BY ONLY <1>12, <2>1
  <2>3. ASSUME NEW d \in 1 .. n PROVE copied[d] = Next1(copied[d - 1])
    BY ONLY <1>12, <2>1
  <2> QED BY <2>2, <2>3
<1> DEFINE T == {d \in Nat : d <= n => copied[d] \in W}
<1>14. 0 \in T
  BY <1>1, <1>13
<1>15. ASSUME NEW d \in Nat, d \in T PROVE d + 1 \in T
  <2> SUFFICES ASSUME d + 1 <= n PROVE copied[d + 1] \in W
    OBVIOUS
  <2>1. copied[d] \in W /\ d + 1 \in 1 .. n /\ (d + 1) - 1 = d
    BY <1>15
  <2>2. copied[d + 1] = Next1(copied[d])
    BY <1>13, <2>1
  <2> QED BY <1>2, <2>1, <2>2
<1> HIDE DEF T
<1>16. Nat \subseteq T
  BY <1>14, <1>15, InductionOn
<1>17. copied \in [0 .. n -> W]
  <2>1. \A d \in 0 .. n : copied[d] \in W
    BY <1>16 DEF T
  <2> QED BY <1>12, <2>1
<1>18. \A c \in Calls(P) : copied[0][c] = NoCopy(c)
  BY <1>13 DEF start
<1>19. \A d \in 1 .. n : \A c \in Calls(P) : copied[d][c] = CopyValue(copied[d - 1], c.h, c.src, c.n)
  BY <1>13 DEF Next1
<1> QED BY <1>5, <1>17, <1>18, <1>19 DEF W

\* A copy is counted whatever its depth and wherever it runs out of memory.
LEMMA CopyIsCounted ==
    ASSUME NEW P, Places(P), NEW h \in Heaps(P), NEW src \in P, NEW n \in Nat
    PROVE  CopyTo(h, src, n) \in Results(P) /\ CopyIsExact(P, h, CopyTo(h, src, n))
<1>1. PICK copy \in [0 .. n -> Copiers(P)] :
          /\ \A c \in Calls(P) : copy[0][c] = NoCopy(c)
          /\ \A d \in 1 .. n : \A c \in Calls(P) : copy[d][c] = CopyValue(copy[d - 1], c.h, c.src, c.n)
          /\ CopyTo(h, src, n) = copy[n][Call(h, src, n)]
  BY CopyToIs
<1> DEFINE T == {d \in Nat : d <= n => Copies(P, copy[d])}
<1>2. 0 \in T
  <2> SUFFICES ASSUME NEW c \in Calls(P) PROVE CopyIsExact(P, c.h, copy[0][c])
    BY <1>1 DEF Copies
  <2>1. NoCopy(c).h = c.h /\ NoCopy(c).dst = NULL
    BY NoCopyType
  <2>2. CopyIsExact(P, c.h, NoCopy(c))
    BY <2>1, PlusNull DEF CopyIsExact
  <2> QED BY <1>1, <2>2
<1>3. ASSUME NEW d \in Nat, d \in T PROVE d + 1 \in T
  <2> SUFFICES ASSUME d + 1 <= n PROVE Copies(P, copy[d + 1])
    OBVIOUS
  <2>1. Copies(P, copy[d]) /\ d + 1 \in 1 .. n /\ (d + 1) - 1 = d /\ d + 1 \in 0 .. n
    BY <1>3
  <2>2. ASSUME NEW c \in Calls(P) PROVE CopyIsExact(P, c.h, copy[d + 1][c])
    <3>1. c.h \in Heaps(P) /\ c.src \in P /\ c.n \in Nat
      BY CallParts
    <3>2. CopyIsExact(P, c.h, CopyValue(copy[d], c.h, c.src, c.n))
      BY <2>1, <3>1, CopyValueCounted
    <3>3. copy[d + 1][c] = CopyValue(copy[d], c.h, c.src, c.n)
      BY <1>1, <2>1
    <3> QED BY <3>2, <3>3
  <2>3. copy[d + 1] \in Copiers(P)
    BY <2>1
  <2> QED BY <2>2, <2>3 DEF Copies
<1> HIDE DEF T
<1>4. Nat \subseteq T
  BY <1>2, <1>3, InductionOn
<1>5. Copies(P, copy[n])
  BY <1>4 DEF T
<1>6. Call(h, src, n) \in Calls(P) /\ Call(h, src, n).h = h
  BY CallIs
<1>7. copy[n][Call(h, src, n)] \in Results(P)
  BY <1>5, <1>6 DEF Copies, Copiers
<1> QED BY <1>1, <1>5, <1>6, <1>7 DEF Copies

\* With what a failed copy has made put, a copy is one value more or nothing.
LEMMA CopiedIsCounted ==
    ASSUME NEW P, Places(P), NEW h \in Heaps(P), NEW src \in P, NEW n \in Nat
    PROVE  /\ Copied(h, src, n).dst \in P \cup {NULL}
           /\ CopyIsExact(P, h, Copied(h, src, n))
<1> DEFINE r == CopyTo(h, src, n)
           t == Copied(h, src, n)
<1>1. r \in Results(P) /\ CopyIsExact(P, h, r)
  BY CopyIsCounted
<1>2. r.ok => t = r
  BY DEF Copied
<1>3. ~r.ok => t = [r EXCEPT !.h = PutAll(r.h, <<r.dst>>), !.dst = NULL]
  BY DEF Copied
<1> HIDE DEF r, t
<1>4. r.dst \in P \cup {NULL} /\ r.h \in Heaps(P) /\ r.ok \in BOOLEAN
  BY <1>1 DEF Results
<1>5. CASE r.ok
  <2>1. t.dst \in P \cup {NULL} /\ CopyIsExact(P, h, t)
    BY <1>1, <1>2, <1>4, <1>5
  <2> QED BY <2>1 DEF t
<1>6. CASE ~r.ok
  <2>1. t.h = PutAll(r.h, <<r.dst>>) /\ t.dst = NULL
    BY <1>1, <1>3, <1>6 DEF Results
  <2>2. ASSUME NEW f \in [P -> Nat], Exact(P, h, f) PROVE Exact(P, t.h, Plus(f, t.dst))
    <3>1. Exact(P, r.h, Plus(f, r.dst))
      BY <1>1, <2>2 DEF CopyIsExact
    <3>2. Exact(P, PutAll(r.h, <<r.dst>>), f)
      BY <1>4, <3>1, PutIsCounted
    <3> QED BY <2>1, <3>2, PlusNull
  <2>3. CopyIsExact(P, h, t)
    BY <2>1, <2>2 DEF CopyIsExact
  <2> QED BY <2>1, <2>3 DEF t
<1> QED BY <1>5, <1>6

-----------------------------------------------------------------------------
(***************************************************************************)
(* The operations of a program                                              *)
(***************************************************************************)

CountInv == held \in [Objs -> Nat] /\ Exact(Objs, heap, held)

LEMMA ObjsArePlaces == Places(Objs)
<1>1. IsFiniteSet(Objs)
  BY ObjectAssumption, FS_Subset
<1> QED BY <1>1, ObjectAssumption DEF Places

LEMMA GetIsCounted ==
    ASSUME NEW P, Places(P), NEW h, NEW f \in [P -> Nat], Exact(P, h, f), NEW o \in P
    PROVE  Exact(P, [h EXCEPT ![o].ref = @ + 1], Plus(f, o))
<1> DEFINE n == h[o].ref + 1
           H == [h EXCEPT ![o].ref = n]
<1>1. h \in Heaps(P) /\ DOMAIN h = P /\ FreeIsEmpty(h) /\ Counted(h, {}, f, << >>)
  BY DEF Exact, Heaps
<1>2. n \in Nat /\ n # 0
  BY <1>1, CellParts
<1>3. [h EXCEPT ![o].ref = @ + 1] = H
  OBVIOUS
<1> HIDE DEF n, H
<1>4. /\ H \in Heaps(P) /\ H[o].ref = n /\ \A p \in P : p # o => H[p] = h[p]
      /\ \A p \in P : H[p].kids = h[p].kids
  <2>1. H = [h EXCEPT ![o].ref = n]
    BY DEF H
  <2>2. [h EXCEPT ![o].ref = n] \in Heaps(P)
    BY <1>1, <1>2, WithRef
  <2>3. H[o].ref = n /\ \A p \in P : p # o => H[p] = h[p]
    BY <1>1, <1>2, <2>1, WithRef
  <2>4. \A p \in P : H[p].kids = h[p].kids
    BY <1>1, <1>2, <2>1, WithRef
  <2> QED BY <2>1, <2>2, <2>3, <2>4
<1>5. Alike(P, h, H) /\ DOMAIN H = P
  BY <1>4 DEF Alike, Heaps
<1>6. \A q : Refs(H, {}, << >>, q) = Refs(h, {}, << >>, q)
  BY <1>1, <1>4, <1>5, AlikeRefs
<1>7. Counted(H, {}, Plus(f, o), << >>)
  <2> SUFFICES ASSUME NEW q \in P
               PROVE  H[q].ref = Plus(f, o)[q] + Cardinality(Refs(H, {}, << >>, q))
    BY <1>5 DEF Counted
  <2>1. Plus(f, o)[q] = f[q] + (IF q = o THEN 1 ELSE 0) /\ f[q] \in Nat
    BY PlusType
  <2>2. /\ h[q].ref = f[q] + Cardinality(Refs(h, {}, << >>, q))
        /\ Cardinality(Refs(h, {}, << >>, q)) \in Nat
    BY <1>1, RefsFinite, NoPuts DEF Counted
  <2>3. CASE q = o
    <3>1. H[q].ref = h[q].ref + 1
      BY <1>4, <2>3 DEF n
    <3> QED BY <1>6, <2>1, <2>2, <2>3, <3>1
  <2>4. CASE q # o
    BY <1>4, <1>6, <2>1, <2>2, <2>4
  <2> QED BY <2>3, <2>4
<1>8. FreeIsEmpty(H)
  BY <1>1, <1>2, <1>4, <1>5 DEF FreeIsEmpty
<1>9. Exact(P, H, Plus(f, o))
  BY <1>4, <1>7, <1>8 DEF Exact
<1> QED BY <1>3, <1>9

\* Who is in reach of the program is there, and does not go away with the value
\* of one of its slots.
LEMMA ReachedIsHeld ==
    ASSUME CountInv, NEW p \in Objs, p \in InReach
    PROVE  /\ heap[p].ref # 0
           /\ \A i : \E K \in SUBSET Objs : p \in K /\ Supported(heap, {<<p, i>>}, held, K)
<1>1. Places(Objs)
  BY ObjsArePlaces
<1>2. heap \in Heaps(Objs) /\ held \in [Objs -> Nat] /\ Counted(heap, {}, held, << >>)
  BY DEF CountInv, Exact
<1>3. Roots \in SUBSET Objs /\ \A o \in Roots : held[o] > 0
  BY DEF Roots
<1>4. p \in Below(heap, Roots)
  BY DEF InReach
<1>5. ASSUME NEW i PROVE StaysHeld(Objs, heap, held, p, i)
  <2>1. Reached(Objs, heap, held, Roots, p)
    BY <1>1, <1>2, <1>3, <1>4 DEF Reached
  <2> QED BY ONLY <2>1, ReachedIsSupported
<1>6. \A i : \E K \in SUBSET Objs : p \in K /\ Supported(heap, {<<p, i>>}, held, K)
  BY ONLY <1>5 DEF StaysHeld
<1>7. PICK K \in SUBSET Objs : p \in K /\ Supported(heap, {<<p, 0>>}, held, K)
  BY <1>5 DEF StaysHeld
<1>8. Supported(heap, {}, held, K)
  BY <1>7 DEF Supported
<1>9. heap[p].ref > 0
  BY <1>1, <1>2, <1>7, <1>8, NoPuts, SupportedIsShared
<1>10. heap[p].ref # 0
  BY <1>9
<1> QED BY ONLY <1>6, <1>10

LEMMA GivenIsPlus ==
    ASSUME CountInv, NEW p, NEW v \in Givable(p)
    PROVE  /\ v \in Objs \cup {NULL} /\ GivenAway(v) \in [Objs -> Nat]
           /\ Plus(GivenAway(v), v) = held
<1>1. held \in [Objs -> Nat] /\ NULL \notin Objs
  BY ObjectAssumption DEF CountInv
<1>2. v = NULL \/ (v \in Objs /\ held[v] > 0)
  BY DEF Givable
<1>3. GivenAway(v) \in [Objs -> Nat]
  BY <1>1, <1>2 DEF GivenAway
<1>4. \A o \in Objs : GivenAway(v)[o] + (IF o = v THEN 1 ELSE 0) = held[o]
  BY <1>1 DEF GivenAway
<1>5. Plus(GivenAway(v), v) \in [Objs -> Nat] /\ \A o \in Objs : Plus(GivenAway(v), v)[o] = held[o]
  BY <1>3, <1>4, PlusType
<1> QED BY <1>1, <1>2, <1>3, <1>5

LEMMA CountInit == ObjectInit => CountInv
<1> SUFFICES ASSUME ObjectInit PROVE CountInv
  OBVIOUS
<1>1. Places(Objs)
  BY ObjsArePlaces
<1>2. heap \in Heaps(Objs) /\ held \in [Objs -> Nat]
  BY FreeIsCell DEF ObjectInit, Heaps
<1>3. \A o \in Objs : heap[o].ref = 0 /\ heap[o].kids = << >> /\ held[o] = 0
  BY FreeIsCell DEF ObjectInit
<1>4. DOMAIN heap = Objs
  BY <1>2 DEF Heaps
<1>5. \A q : Refs(heap, {}, << >>, q) = {}
  <2> SUFFICES ASSUME NEW q, NEW r \in Refs(heap, {}, << >>, q) PROVE FALSE
    OBVIOUS
  <2>1. \/ r[1] \in Objs /\ r[2] \in 1 .. Len(heap[r[1]].kids)
        \/ r[2] \in 1 .. Len(<< >>)
    BY <1>1, <1>2, NoPuts, RefParts
  <2> QED BY <1>3, <2>1
<1>6. Counted(heap, {}, held, << >>)
  <2>1. ASSUME NEW q \in Objs PROVE heap[q].ref = held[q] + Cardinality(Refs(heap, {}, << >>, q))
    <3>1. Cardinality(Refs(heap, {}, << >>, q)) = 0
      BY <1>5, FS_EmptySet
    <3> QED BY <1>3, <3>1
  <2> QED BY <1>4, <2>1 DEF Counted
<1> QED BY <1>2, <1>3, <1>4, <1>6 DEF CountInv, Exact, FreeIsEmpty

LEMMA CountNew ==
    ASSUME CountInv, NEW o \in Objs, NewObject(o)
    PROVE  CountInv'
<1>1. Places(Objs) /\ heap \in Heaps(Objs) /\ held \in [Objs -> Nat] /\ Exact(Objs, heap, held)
  BY ObjsArePlaces DEF CountInv, Exact
<1>2. heap[o].ref = 0
  <2>1. DOMAIN heap = Objs /\ heap[o].ref \in Nat
    BY <1>1, CellParts
  <2>2. ~(heap[o].ref > 0)
    BY <2>1 DEF NewObject, Live
  <2> QED BY <2>1, <2>2
<1>3. PICK kind \in Containers \cup StringKinds, d \in Data \cup {NULL} :
          heap' = [heap EXCEPT ![o] = NewValue(kind, d)]
  BY DEF NewObject
<1> DEFINE c == NewValue(kind, d)
<1>4. c \in Cells(Objs) /\ c.ref = 1 /\ c.kids = << >>
  <2>1. << >> \in Seq([key : Names \cup {"item"}, val : Objs \cup {NULL}])
    OBVIOUS
  <2> QED BY <2>1 DEF NewValue, Cells
<1> HIDE DEF c
<1>5. held[o] = 0 /\ Exact(Objs, heap', Plus(held, o))
  <2>1. held[o] = 0 /\ Exact(Objs, [heap EXCEPT ![o] = c], Plus(held, o))
    BY <1>1, <1>2, <1>4, NewIsCounted
  <2> QED BY <1>3, <2>1 DEF c
<1>6. held' = Plus(held, o) /\ held' \in [Objs -> Nat]
  <2>1. held' = [held EXCEPT ![o] = 1]
    BY DEF NewObject
  <2>2. \A q \in Objs : held'[q] = Plus(held, o)[q]
    BY <1>1, <1>5, <2>1 DEF Plus
  <2> QED BY <1>1, <2>1, <2>2, PlusType
<1> QED BY <1>5, <1>6 DEF CountInv

LEMMA CountGet ==
    ASSUME CountInv, NEW o \in Objs, GetObject(o)
    PROVE  CountInv'
<1>1. Places(Objs) /\ held \in [Objs -> Nat] /\ Exact(Objs, heap, held)
  BY ObjsArePlaces DEF CountInv
<1>2. Exact(Objs, heap', Plus(held, o))
  <2>1. Exact(Objs, [heap EXCEPT ![o].ref = @ + 1], Plus(held, o))
    BY <1>1, GetIsCounted
  <2> QED BY <2>1 DEF GetObject
<1>3. held' = Plus(held, o) /\ held' \in [Objs -> Nat]
  <2>1. held' = [held EXCEPT ![o] = @ + 1]
    BY DEF GetObject
  <2>2. \A q \in Objs : held'[q] = Plus(held, o)[q]
    BY <1>1, <2>1 DEF Plus
  <2> QED BY <1>1, <2>1, <2>2, PlusType
<1> QED BY <1>2, <1>3 DEF CountInv

LEMMA CountPut ==
    ASSUME CountInv, NEW o \in Objs, PutObject(o)
    PROVE  CountInv'
<1>1. Places(Objs) /\ held \in [Objs -> Nat] /\ Exact(Objs, heap, held)
  BY ObjsArePlaces DEF CountInv
<1>2. held' = [held EXCEPT ![o] = @ - 1] /\ held[o] > 0 /\ heap' = PutAll(heap, <<o>>)
  BY DEF PutObject
<1>3. held' \in [Objs -> Nat]
  BY <1>1, <1>2
<1>4. Plus(held', o) = held
  <2>1. \A q \in Objs : Plus(held', o)[q] = held[q]
    BY <1>1, <1>2 DEF Plus
  <2> QED BY <1>1, <1>3, <2>1, PlusType
<1>5. Exact(Objs, PutAll(heap, <<o>>), held')
  BY <1>1, <1>3, <1>4, PutIsCounted
<1> QED BY <1>2, <1>3, <1>5 DEF CountInv

LEMMA CountObjectAdd ==
    ASSUME CountInv, NEW p \in Objs, NEW k \in Names, ObjectAdd(p, k)
    PROVE  CountInv'
<1>1. PICK v \in Givable(p) : heap' = WithMember(heap, p, k, v) /\ held' = GivenAway(v)
  BY DEF ObjectAdd
<1>2. v \in Objs \cup {NULL} /\ held' \in [Objs -> Nat] /\ Plus(held', v) = held
  BY <1>1, GivenIsPlus
<1>3. /\ heap[p].ref # 0
      /\ \A i : \E K \in SUBSET Objs : p \in K /\ Supported(heap, {<<p, i>>}, held, K)
  BY ReachedIsHeld DEF ObjectAdd
<1>4. Places(Objs) /\ Exact(Objs, heap, Plus(held', v))
  BY <1>2, ObjsArePlaces DEF CountInv
<1>5. \A i \in 1 .. Len(heap[p].kids) :
          \E K \in SUBSET Objs : p \in K /\ Supported(heap, {<<p, i>>}, Plus(held', v), K)
  BY <1>2, <1>3
<1>6. Exact(Objs, WithMember(heap, p, k, v), held')
  BY <1>2, <1>3, <1>4, <1>5, MemberIsCounted
<1> QED BY <1>1, <1>2, <1>6 DEF CountInv

LEMMA CountArrayAdd ==
    ASSUME CountInv, NEW p \in Objs, ArrayAdd(p)
    PROVE  CountInv'
<1>1. PICK v \in Givable(p) : heap' = WithItem(heap, p, v) /\ held' = GivenAway(v)
  BY DEF ArrayAdd
<1>2. v \in Objs \cup {NULL} /\ held' \in [Objs -> Nat] /\ Plus(held', v) = held
  BY <1>1, GivenIsPlus
<1>3. heap[p].ref # 0
  BY ReachedIsHeld DEF ArrayAdd
<1>4. Places(Objs) /\ Exact(Objs, heap, Plus(held', v))
  BY <1>2, ObjsArePlaces DEF CountInv
<1>5. Exact(Objs, [heap EXCEPT ![p].kids = Append(@, Member("item", v))], held')
  BY <1>2, <1>3, <1>4, SlotIsAdded
<1> QED BY <1>1, <1>2, <1>5 DEF CountInv, WithItem

LEMMA CountDelete ==
    ASSUME CountInv, NEW p \in Objs, NEW i \in DOMAIN heap[p].kids, DeleteMember(p, i)
    PROVE  CountInv'
<1> DEFINE H == PutAll(heap, <<heap[p].kids[i].val>>)
<1>1. Places(Objs) /\ heap \in Heaps(Objs) /\ held \in [Objs -> Nat] /\ Exact(Objs, heap, held)
  BY ObjsArePlaces DEF CountInv, Exact
<1>2. i \in 1 .. Len(heap[p].kids)
  BY <1>1, CellParts
<1>3. PICK K \in SUBSET Objs : p \in K /\ Supported(heap, {<<p, i>>}, held, K)
  BY ReachedIsHeld DEF DeleteMember
<1>4. SlotIsOpen(Objs, H, <<p, i>>, held, K) /\ SameIn(K, heap, H)
  BY <1>1, <1>2, <1>3, SlotIsPut
<1>5. heap' = [H EXCEPT ![p].kids = RemoveAt(@, i)] /\ held' = held
  BY DEF DeleteMember
<1> HIDE DEF H
<1>6. i \in 1 .. Len(H[p].kids)
  BY <1>2, <1>3, <1>4 DEF SameIn
<1>7. Exact(Objs, [H EXCEPT ![p].kids = RemoveAt(@, i)], held)
  BY <1>1, <1>4, <1>6, SlotIsGone
<1> QED BY <1>1, <1>5, <1>7 DEF CountInv

LEMMA CountCopy ==
    ASSUME CountInv, NEW src \in Objs, DeepCopy(src)
    PROVE  CountInv'
<1>1. Places(Objs) /\ heap \in Heaps(Objs) /\ held \in [Objs -> Nat] /\ Exact(Objs, heap, held)
  BY ObjsArePlaces DEF CountInv, Exact
<1>2. PICK n \in 0 .. Cardinality(Objs) :
          /\ heap' = Copied(heap, src, n).h
          /\ held' = [o \in Objs |-> IF o = Copied(heap, src, n).dst THEN 1 ELSE held[o]]
  BY DEF DeepCopy
<1>3. n \in Nat
  OBVIOUS
<1> DEFINE r == Copied(heap, src, n)
<1>4. r.dst \in Objs \cup {NULL} /\ CopyIsExact(Objs, heap, r)
  BY <1>1, <1>3, CopiedIsCounted
<1>5. heap' = r.h /\ held' = [o \in Objs |-> IF o = r.dst THEN 1 ELSE held[o]]
  BY <1>2
<1> HIDE DEF r
<1>6. Exact(Objs, heap', Plus(held, r.dst)) /\ (r.dst # NULL => held[r.dst] = 0)
  BY <1>1, <1>4, <1>5 DEF CopyIsExact
<1>7. held' = Plus(held, r.dst)
  <2>1. \A o \in Objs : o # NULL
    BY <1>1 DEF Places
  <2>2. \A o \in Objs : held'[o] = Plus(held, r.dst)[o]
    BY <1>1, <1>5, <1>6, <2>1 DEF Plus
  <2>3. held' = [o \in Objs |-> held'[o]] /\ Plus(held, r.dst) = [o \in Objs |-> Plus(held, r.dst)[o]]
    BY <1>1, <1>5, PlusType
  <2> QED BY <2>2, <2>3
<1>8. held' \in [Objs -> Nat]
  BY <1>1, <1>7, PlusType
<1> QED BY <1>6, <1>7, <1>8 DEF CountInv

LEMMA CountNext == CountInv /\ [ObjectNext]_objectVars => CountInv'
<1> SUFFICES ASSUME CountInv, [ObjectNext]_objectVars PROVE CountInv'
  OBVIOUS
<1>1. CASE UNCHANGED objectVars
  BY <1>1 DEF CountInv, objectVars
<1>2. CASE ObjectNext
  <2>1. PICK o \in Objs :
           \/ NewObject(o) \/ GetObject(o) \/ PutObject(o) \/ ArrayAdd(o) \/ DeepCopy(o)
           \/ \E k \in Names : ObjectAdd(o, k)
           \/ \E i \in DOMAIN heap[o].kids : DeleteMember(o, i)
    BY <1>2 DEF ObjectNext
  <2>2. CASE NewObject(o)
    BY <2>2, CountNew
  <2>3. CASE GetObject(o)
    BY <2>3, CountGet
  <2>4. CASE PutObject(o)
    BY <2>4, CountPut
  <2>5. CASE ArrayAdd(o)
    BY <2>5, CountArrayAdd
  <2>6. CASE DeepCopy(o)
    BY <2>6, CountCopy
  <2>7. CASE \E k \in Names : ObjectAdd(o, k)
    BY <2>7, CountObjectAdd
  <2>8. CASE \E i \in DOMAIN heap[o].kids : DeleteMember(o, i)
    BY <2>8, CountDelete
  <2> QED BY <2>1, <2>2, <2>3, <2>4, <2>5, <2>6, <2>7, <2>8
<1> QED BY <1>1, <1>2

LEMMA CountImplies == CountInv => RefsAreCounted
<1> SUFFICES ASSUME CountInv, NEW o \in Objs
             PROVE  heap[o].ref = held[o] + Cardinality({r \in SlotsOf(heap) : heap[r[1]].kids[r[2]].val = o})
  BY DEF RefsAreCounted
<1>1. DOMAIN heap = Objs /\ Counted(heap, {}, held, << >>)
  BY DEF CountInv, Exact, Heaps
<1>2. heap[o].ref = held[o] + Cardinality(Refs(heap, {}, << >>, o))
  BY <1>1 DEF Counted
<1>3. Refs(heap, {}, << >>, o) = {r \in SlotsOf(heap) : heap[r[1]].kids[r[2]].val = o}
  BY DEF Refs, Points
<1> QED BY <1>2, <1>3

\* Whatever a program does with the values it holds, copies that run out of
\* memory included, a reference count is the number of references there are, so
\* that json_object_put frees a value with its last reference and not before
\* (json-c/json_object.c).
THEOREM RefsAreCountedHolds == ObjectSpec => []RefsAreCounted
<1>1. ObjectInit => CountInv
  BY CountInit
<1>2. CountInv /\ [ObjectNext]_objectVars => CountInv'
  BY CountNext
<1>3. CountInv => RefsAreCounted
  BY CountImplies
<1> QED BY <1>1, <1>2, <1>3, PTL DEF ObjectSpec

-----------------------------------------------------------------------------
(***************************************************************************)
(* Values are trees, which is how they can be compared                      *)
(***************************************************************************)

\* No name is in an object twice, and items have none.
KeysOK(kind, ks) ==
    /\ kind = "object" => \A i, j \in 1 .. Len(ks) : ks[i].key = ks[j].key => i = j
    /\ kind = "array" => \A i \in 1 .. Len(ks) : ks[i].key = "item"

\* What a cell may hold
CellOK(c) ==
    /\ c.kind \in Containers \cup {"none"} => c.data = NULL
    /\ c.kind \in StringKinds => c.data \in Data
    /\ c.kind \notin Containers => c.kids = << >>
    /\ c.ref = 0 => c = FreeCell
    /\ KeysOK(c.kind, c.kids)

\* Members are lower than what they are in.
Ranked(P, h, N, rank) ==
    /\ N \in Nat /\ rank \in [P -> 0 .. N]
    /\ \A o \in P : \A q \in Members(h, o) : rank[q] < rank[o]

Loopless(P, h) == \E N, rank : Ranked(P, h, N, rank)

\* A heap of trees
Sound(P, h) == h \in Heaps(P) /\ (\A o \in P : CellOK(h[o])) /\ Loopless(P, h)

-----------------------------------------------------------------------------
(***************************************************************************)
(* The value of a tree, and json_object_equal                               *)
(***************************************************************************)

ValueBody(h, f, q) ==
    IF q = NULL THEN <<"null", NULL>>
    ELSE IF h[q].kind = "object"
      THEN <<"object", {<<h[q].kids[i].key, f[h[q].kids[i].val]>> : i \in DOMAIN h[q].kids}>>
    ELSE IF h[q].kind = "array"
      THEN <<"array", [i \in DOMAIN h[q].kids |-> f[h[q].kids[i].val]]>>
    ELSE <<"string", h[q].data>>

ValueFun(h, f) == f = [q \in DOMAIN h \cup {NULL} |-> ValueBody(h, f, q)]

LEMMA ValueBodySame ==
    ASSUME NEW h, NEW f, NEW g, NEW q,
           q # NULL => \A i \in DOMAIN h[q].kids : f[h[q].kids[i].val] = g[h[q].kids[i].val]
    PROVE  ValueBody(h, f, q) = ValueBody(h, g, q)
<1>1. CASE q = NULL
  BY <1>1 DEF ValueBody
<1>2. CASE q # NULL
  <2>1. {<<h[q].kids[i].key, f[h[q].kids[i].val]>> : i \in DOMAIN h[q].kids}
            = {<<h[q].kids[i].key, g[h[q].kids[i].val]>> : i \in DOMAIN h[q].kids}
    BY <1>2
  <2>2. [i \in DOMAIN h[q].kids |-> f[h[q].kids[i].val]] = [i \in DOMAIN h[q].kids |-> g[h[q].kids[i].val]]
    BY <1>2
  <2> QED BY <1>2, <2>1, <2>2 DEF ValueBody
<1> QED BY <1>1, <1>2

\* A member is null or lower.
LEMMA KidsAreLower ==
    ASSUME NEW P, Places(P), NEW h \in Heaps(P), NEW N, NEW rank, Ranked(P, h, N, rank), NEW q \in P
    PROVE  /\ DOMAIN h[q].kids = 1 .. Len(h[q].kids) /\ Len(h[q].kids) \in Nat /\ DOMAIN h = P
           /\ rank[q] \in Nat
           /\ \A i \in 1 .. Len(h[q].kids) :
                  \/ h[q].kids[i].val = NULL
                  \/ /\ h[q].kids[i].val \in P /\ rank[h[q].kids[i].val] \in Nat
                     /\ rank[h[q].kids[i].val] < rank[q]
<1>1. DOMAIN h = P /\ DOMAIN h[q].kids = 1 .. Len(h[q].kids) /\ Len(h[q].kids) \in Nat
  BY CellParts
<1>2. \A o \in P : rank[o] \in Nat
  BY DEF Ranked
<1>3. ASSUME NEW i \in 1 .. Len(h[q].kids), h[q].kids[i].val # NULL
      PROVE  h[q].kids[i].val \in P /\ rank[h[q].kids[i].val] < rank[q]
  <2>1. h[q].kids[i].val \in Members(h, q)
    BY <1>3, MembersParts
  <2>2. h[q].kids[i].val \in P
    BY <2>1, MembersParts
  <2> QED BY <2>1, <2>2 DEF Ranked
<1> QED BY <1>1, <1>2, <1>3

LEMMA ValueExists ==
    ASSUME NEW P, Places(P), NEW h, Sound(P, h)
    PROVE  \E f : ValueFun(h, f)
<1>1. PICK N, rank : Ranked(P, h, N, rank)
  BY DEF Sound, Loopless
<1>2. h \in Heaps(P) /\ DOMAIN h = P
  BY DEF Sound, Heaps
<1> DEFINE Low(q, n) == q = NULL \/ rank[q] < n
           Done(f, n) == \A q \in P \cup {NULL} : Low(q, n) => f[q] = ValueBody(h, f, q)
           T == {n \in Nat : \E f : f = [q \in P \cup {NULL} |-> f[q]] /\ Done(f, n)}
<1>3. \A q \in P : rank[q] \in Nat /\ rank[q] <= N
  BY <1>1 DEF Ranked
<1>4. 0 \in T
  <2> DEFINE f == [q \in P \cup {NULL} |-> <<"null", NULL>>]
  <2>1. ASSUME NEW q \in P \cup {NULL}, Low(q, 0) PROVE f[q] = ValueBody(h, f, q)
    <3>1. q = NULL
      BY <1>3, <2>1
    <3> QED BY <3>1 DEF ValueBody
  <2>2. f = [q \in P \cup {NULL} |-> f[q]]
    OBVIOUS
  <2> HIDE DEF f
  <2> QED BY <2>1, <2>2
<1>5. ASSUME NEW n \in Nat, n \in T PROVE n + 1 \in T
  <2>1. PICK f : Done(f, n)
    BY <1>5
  <2> DEFINE g == [q \in P \cup {NULL} |-> ValueBody(h, f, q)]
  <2>2. \A q \in P \cup {NULL} : Low(q, n) => g[q] = f[q]
    BY <2>1
  <2>3. \A q \in P \cup {NULL} : g[q] = ValueBody(h, f, q)
    OBVIOUS
  <2>4. g = [q \in P \cup {NULL} |-> g[q]]
    OBVIOUS
  <2> HIDE DEF g
  <2>5. ASSUME NEW q \in P \cup {NULL}, Low(q, n + 1) PROVE g[q] = ValueBody(h, g, q)
    <3>1. ASSUME q # NULL, NEW i \in DOMAIN h[q].kids PROVE f[h[q].kids[i].val] = g[h[q].kids[i].val]
      <4>1. q \in P
        BY <3>1
      <4> DEFINE k == h[q].kids[i].val
      <4>2. k = NULL \/ (k \in P /\ rank[k] \in Nat /\ rank[k] < rank[q] /\ rank[q] \in Nat)
        BY <1>1, <1>2, <3>1, <4>1, KidsAreLower
      <4>3. rank[q] < n + 1
        BY <2>5, <3>1
      <4> HIDE DEF k
      <4>4. k \in P \cup {NULL} /\ Low(k, n)
        BY <4>2, <4>3
      <4> QED BY <2>2, <4>4 DEF k
    <3>2. ValueBody(h, f, q) = ValueBody(h, g, q)
      BY <3>1, ValueBodySame
    <3> QED BY <2>3, <3>2
  <2>6. Done(g, n + 1)
    BY <2>5
  <2> HIDE DEF Done
  <2> QED BY <2>4, <2>6
<1> HIDE DEF T
<1>6. Nat \subseteq T
  BY <1>4, <1>5, InductionOn
<1>7. N + 1 \in T
  <2>1. N + 1 \in Nat
    BY <1>1 DEF Ranked
  <2> QED BY <1>6, <2>1
<1>8. PICK f : f = [q \in P \cup {NULL} |-> f[q]] /\ Done(f, N + 1)
  BY <1>7 DEF T
<1>9. \A q \in P \cup {NULL} : f[q] = ValueBody(h, f, q)
  <2> SUFFICES ASSUME NEW q \in P \cup {NULL} PROVE f[q] = ValueBody(h, f, q)
    OBVIOUS
  <2>1. Low(q, N + 1)
    <3>1. N \in Nat
      BY <1>1 DEF Ranked
    <3> QED BY <1>3, <3>1
  <2> QED BY <1>8, <2>1
<1>10. f = [q \in P \cup {NULL} |-> ValueBody(h, f, q)]
  <2>1. f = [q \in P \cup {NULL} |-> f[q]]
    BY <1>8
  <2> QED BY ONLY <1>9, <2>1
<1> QED BY <1>2, <1>10 DEF ValueFun

\* The value of a tree is made of those of its members.
LEMMA ValueIs ==
    ASSUME NEW P, Places(P), NEW h, Sound(P, h)
    PROVE  \E f : /\ \A q \in P \cup {NULL} : f[q] = ValueBody(h, f, q)
                  /\ \A q : JsonValue(h, q) = f[q]
<1> DEFINE V == CHOOSE f : ValueFun(h, f)
<1>1. DOMAIN h = P
  BY DEF Sound, Heaps
<1>2. ValueFun(h, V)
  BY ValueExists
<1>3. \A q : JsonValue(h, q) = V[q]
  BY DEF JsonValue, ValueFun, ValueBody
<1> HIDE DEF V
<1>4. V = [q \in P \cup {NULL} |-> ValueBody(h, V, q)]
  BY <1>1, <1>2 DEF ValueFun
<1>5. \A q \in P \cup {NULL} : V[q] = ValueBody(h, V, q)
  BY ONLY <1>4
<1> QED BY <1>3, <1>5

EqualBody(h, f, a, b) ==
    \/ a = b
    \/ /\ a # NULL /\ b # NULL
       /\ Type(h, a) = Type(h, b) /\ h[a].data = h[b].data
       /\ IF h[a].kind = "object"
            THEN /\ \A i \in DOMAIN h[a].kids :
                        \E j \in DOMAIN h[b].kids :
                            /\ h[b].kids[j].key = h[a].kids[i].key
                            /\ f[h[a].kids[i].val][h[b].kids[j].val]
                 /\ \A j \in DOMAIN h[b].kids :
                        IndexOf(h, a, h[b].kids[j].key) # {}
            ELSE /\ Len(h[a].kids) = Len(h[b].kids)
                 /\ \A i \in DOMAIN h[a].kids :
                        f[h[a].kids[i].val][h[b].kids[i].val]

EqualFun(h, f) ==
    f = [a \in DOMAIN h \cup {NULL} |-> [b \in DOMAIN h \cup {NULL} |-> EqualBody(h, f, a, b)]]

LEMMA EqualBodySame ==
    ASSUME NEW h, NEW f, NEW g, NEW a, NEW b,
           a # NULL => \A i \in DOMAIN h[a].kids : f[h[a].kids[i].val] = g[h[a].kids[i].val]
    PROVE  EqualBody(h, f, a, b) = EqualBody(h, g, a, b)
<1>1. CASE a = NULL
  BY <1>1 DEF EqualBody
<1>2. CASE a # NULL
  <2>1. \A i \in DOMAIN h[a].kids : f[h[a].kids[i].val] = g[h[a].kids[i].val]
    BY <1>2
  <2>2. (\A i \in DOMAIN h[a].kids :
             \E j \in DOMAIN h[b].kids :
                 /\ h[b].kids[j].key = h[a].kids[i].key
                 /\ f[h[a].kids[i].val][h[b].kids[j].val])
        = (\A i \in DOMAIN h[a].kids :
             \E j \in DOMAIN h[b].kids :
                 /\ h[b].kids[j].key = h[a].kids[i].key
                 /\ g[h[a].kids[i].val][h[b].kids[j].val])
    BY <2>1
  <2>3. (\A i \in DOMAIN h[a].kids : f[h[a].kids[i].val][h[b].kids[i].val])
        = (\A i \in DOMAIN h[a].kids : g[h[a].kids[i].val][h[b].kids[i].val])
    BY <2>1
  <2> QED BY <2>2, <2>3 DEF EqualBody
<1> QED BY <1>1, <1>2

LEMMA EqualExists ==
    ASSUME NEW P, Places(P), NEW h, Sound(P, h)
    PROVE  \E f : EqualFun(h, f)
<1>1. PICK N, rank : Ranked(P, h, N, rank)
  BY DEF Sound, Loopless
<1>2. h \in Heaps(P) /\ DOMAIN h = P
  BY DEF Sound, Heaps
<1> DEFINE Q == P \cup {NULL}
           Low(q, n) == q = NULL \/ rank[q] < n
           Body(f, a) == [b \in Q |-> EqualBody(h, f, a, b)]
           Done(f, n) == \A a \in Q : Low(a, n) => f[a] = Body(f, a)
           T == {n \in Nat : \E f : f = [a \in Q |-> f[a]] /\ Done(f, n)}
<1>3. \A q \in P : rank[q] \in Nat /\ rank[q] <= N
  BY <1>1 DEF Ranked
<1>4. 0 \in T
  <2> DEFINE f == [a \in Q |-> [b \in Q |-> a = b]]
  <2>1. ASSUME NEW a \in Q, Low(a, 0) PROVE f[a] = Body(f, a)
    <3>1. a = NULL
      BY <1>3, <2>1
    <3>2. \A b \in Q : EqualBody(h, f, a, b) = (a = b)
      BY <3>1 DEF EqualBody
    <3> QED BY <3>2
  <2>2. f = [a \in Q |-> f[a]]
    OBVIOUS
  <2>3. Done(f, 0)
    BY <2>1
  <2> HIDE DEF f, Done
  <2> QED BY <2>2, <2>3
<1>5. ASSUME NEW n \in Nat, n \in T PROVE n + 1 \in T
  <2>1. PICK f : Done(f, n)
    BY <1>5
  <2> DEFINE g == [a \in Q |-> Body(f, a)]
  <2>2. \A a \in Q : Low(a, n) => g[a] = f[a]
    BY <2>1
  <2>3. \A a \in Q : g[a] = Body(f, a)
    OBVIOUS
  <2>4. g = [a \in Q |-> g[a]]
    OBVIOUS
  <2> HIDE DEF g
  <2>5. ASSUME NEW a \in Q, Low(a, n + 1) PROVE g[a] = Body(g, a)
    <3>1. ASSUME a # NULL, NEW i \in DOMAIN h[a].kids PROVE f[h[a].kids[i].val] = g[h[a].kids[i].val]
      <4>1. a \in P
        BY <3>1
      <4> DEFINE k == h[a].kids[i].val
      <4>2. k = NULL \/ (k \in P /\ rank[k] \in Nat /\ rank[k] < rank[a] /\ rank[a] \in Nat)
        BY <1>1, <1>2, <3>1, <4>1, KidsAreLower
      <4>3. rank[a] < n + 1
        BY <2>5, <3>1
      <4> HIDE DEF k
      <4>4. k \in Q /\ Low(k, n)
        BY <4>2, <4>3
      <4> QED BY <2>2, <4>4 DEF k
    <3>2. \A b : EqualBody(h, f, a, b) = EqualBody(h, g, a, b)
      BY <3>1, EqualBodySame
    <3>3. Body(f, a) = Body(g, a)
      BY <3>2
    <3> QED BY <2>3, <3>3
  <2>6. Done(g, n + 1)
    BY <2>5
  <2> HIDE DEF Done
  <2> QED BY <2>4, <2>6
<1> HIDE DEF T
<1>6. Nat \subseteq T
  BY <1>4, <1>5, InductionOn
<1>7. N + 1 \in T
  <2>1. N + 1 \in Nat
    BY <1>1 DEF Ranked
  <2> QED BY <1>6, <2>1
<1>8. PICK f : f = [a \in Q |-> f[a]] /\ Done(f, N + 1)
  BY <1>7 DEF T
<1>9. \A a \in Q : f[a] = Body(f, a)
  <2> SUFFICES ASSUME NEW a \in Q PROVE f[a] = Body(f, a)
    OBVIOUS
  <2>1. Low(a, N + 1)
    <3>1. N \in Nat
      BY <1>1 DEF Ranked
    <3> QED BY <1>3, <3>1
  <2> QED BY <1>8, <2>1
<1> HIDE DEF Body
<1>10. f = [a \in Q |-> Body(f, a)]
  <2>1. f = [a \in Q |-> f[a]]
    BY <1>8
  <2> QED BY ONLY <1>9, <2>1
<1>11. \A a : Body(f, a) = [b \in P \cup {NULL} |-> EqualBody(h, f, a, b)]
  BY DEF Body
<1>12. f = [a \in P \cup {NULL} |-> [b \in P \cup {NULL} |-> EqualBody(h, f, a, b)]]
  BY ONLY <1>10, <1>11
<1>13. EqualFun(h, f)
  BY ONLY <1>2, <1>12 DEF EqualFun
<1> QED BY <1>13

\* E is json_object_equal, of all at once.
Equals(P, E) ==
    /\ \A a \in P \cup {NULL} : \A b \in P \cup {NULL} : E[a][b] = EqualBody(heap, E, a, b)
    /\ \A a, b : EqualTrees(a, b) = E[a][b]

LEMMA EqualIs ==
    ASSUME NEW P, Places(P), Sound(P, heap)
    PROVE  \E E : Equals(P, E)
<1> DEFINE equal == CHOOSE f : EqualFun(heap, f)
<1>1. DOMAIN heap = P
  BY DEF Sound, Heaps
<1>2. EqualFun(heap, equal)
  BY EqualExists
<1>3. \A a, b : EqualTrees(a, b) = equal[a][b]
  BY DEF EqualTrees, EqualFun, EqualBody
<1> HIDE DEF equal
<1>4. equal = [a \in P \cup {NULL} |-> [b \in P \cup {NULL} |-> EqualBody(heap, equal, a, b)]]
  BY <1>1, <1>2 DEF EqualFun
<1>5. \A a \in P \cup {NULL} : equal[a] = [b \in P \cup {NULL} |-> EqualBody(heap, equal, a, b)]
  BY ONLY <1>4
<1>6. \A a \in P \cup {NULL} : \A b \in P \cup {NULL} : equal[a][b] = EqualBody(heap, equal, a, b)
  BY ONLY <1>5
<1>7. Equals(P, equal)
  BY <1>3, <1>6 DEF Equals
<1> QED BY <1>7

\* What E says of the members of a is what V says.
Agree(P, h, V, E, a) ==
    \A i \in DOMAIN h[a].kids : \A c \in P \cup {NULL} :
        E[h[a].kids[i].val][c] = (V[h[a].kids[i].val] = V[c])

LEMMA ObjectsAgree ==
    ASSUME NEW P, Places(P), NEW h, Sound(P, h), NEW V, NEW E, NEW a \in P, NEW b \in P, a # b,
           h[a].kind = "object", h[b].kind = "object", Agree(P, h, V, E, a)
    PROVE  EqualBody(h, E, a, b) = (ValueBody(h, V, a) = ValueBody(h, V, b))
<1> DEFINE ka(i) == h[a].kids[i].key
           kb(j) == h[b].kids[j].key
           va(i) == V[h[a].kids[i].val]
           vb(j) == V[h[b].kids[j].val]
           A == DOMAIN h[a].kids
           B == DOMAIN h[b].kids
           SA == {<<ka(i), va(i)>> : i \in A}
           SB == {<<kb(j), vb(j)>> : j \in B}
           In == \A i \in A : \E j \in B : kb(j) = ka(i) /\ E[h[a].kids[i].val][h[b].kids[j].val]
           Back == \A j \in B : IndexOf(h, a, kb(j)) # {}
<1>1. a # NULL /\ b # NULL /\ h \in Heaps(P)
  BY DEF Places, Sound
<1>2. CellOK(h[a]) /\ CellOK(h[b])
  BY DEF Sound
<1>3. h[a].data = h[b].data /\ Type(h, a) = Type(h, b)
  BY <1>2 DEF CellOK, Containers, Type
<1>4. EqualBody(h, E, a, b) = (In /\ Back)
  BY <1>1, <1>3 DEF EqualBody
<1>5. (ValueBody(h, V, a) = ValueBody(h, V, b)) = (SA = SB)
  <2>1. ValueBody(h, V, a) = <<"object", SA>>
    BY <1>1 DEF ValueBody
  <2>2. ValueBody(h, V, b) = <<"object", SB>>
    BY <1>1 DEF ValueBody
  <2> HIDE DEF SA, SB
  <2> QED BY <2>1, <2>2
<1>6. \A j \in B : h[b].kids[j].val \in P \cup {NULL}
  BY <1>1, CellParts
<1>7. \A i \in A : \A j \in B : E[h[a].kids[i].val][h[b].kids[j].val] = (va(i) = vb(j))
  BY <1>6 DEF Agree
<1>8. In <=> \A i \in A : \E j \in B : kb(j) = ka(i) /\ va(i) = vb(j)
  <2> DEFINE e(i, j) == E[h[a].kids[i].val][h[b].kids[j].val]
  <2>1. \A i \in A : \A j \in B : e(i, j) = (va(i) = vb(j))
    BY <1>7
  <2>2. In <=> \A i \in A : \E j \in B : kb(j) = ka(i) /\ e(i, j)
    OBVIOUS
  <2> HIDE DEF e, ka, kb, va, vb, A, B, In
  <2>3. ASSUME NEW i \in A
        PROVE  (\E j \in B : kb(j) = ka(i) /\ e(i, j)) <=> \E j \in B : kb(j) = ka(i) /\ va(i) = vb(j)
    <3>1. ASSUME \E j \in B : kb(j) = ka(i) /\ e(i, j) PROVE \E j \in B : kb(j) = ka(i) /\ va(i) = vb(j)
      <4>1. PICK j \in B : kb(j) = ka(i) /\ e(i, j)
        BY <3>1
      <4>2. va(i) = vb(j)
        BY <2>1, <4>1
      <4> QED BY <4>1, <4>2
    <3>2. ASSUME \E j \in B : kb(j) = ka(i) /\ va(i) = vb(j) PROVE \E j \in B : kb(j) = ka(i) /\ e(i, j)
      <4>1. PICK j \in B : kb(j) = ka(i) /\ va(i) = vb(j)
        BY <3>2
      <4>2. e(i, j)
        BY <2>1, <4>1
      <4> QED BY <4>1, <4>2
    <3> QED BY <3>1, <3>2
  <2> QED BY ONLY <2>2, <2>3
<1>9. Back <=> \A j \in B : \E i \in A : ka(i) = kb(j)
  BY DEF IndexOf
<1>10. \A i, j \in B : kb(i) = kb(j) => i = j
  <2>1. B = 1 .. Len(h[b].kids)
    BY <1>1, CellParts
  <2> QED BY <1>2, <2>1 DEF CellOK, KeysOK
<1> HIDE DEF In, Back, ka, kb, va, vb, A, B
<1>11. SA = SB => In /\ Back
  <2> SUFFICES ASSUME SA = SB PROVE In /\ Back
    OBVIOUS
  <2>1. ASSUME NEW i \in A PROVE \E j \in B : kb(j) = ka(i) /\ va(i) = vb(j)
    <3>1. <<ka(i), va(i)>> \in SB
      OBVIOUS
    <3>2. PICK j \in B : <<ka(i), va(i)>> = <<kb(j), vb(j)>>
      BY <3>1
    <3> QED BY <3>2
  <2>2. ASSUME NEW j \in B PROVE \E i \in A : ka(i) = kb(j)
    <3>1. <<kb(j), vb(j)>> \in SA
      OBVIOUS
    <3>2. PICK i \in A : <<ka(i), va(i)>> = <<kb(j), vb(j)>>
      BY <3>1
    <3> QED BY <3>2
  <2> QED BY <1>8, <1>9, <2>1, <2>2
<1>12. In /\ Back => SA = SB
  <2> SUFFICES ASSUME In, Back PROVE SA = SB
    OBVIOUS
  <2>1. ASSUME NEW i \in A PROVE <<ka(i), va(i)>> \in SB
    <3>1. PICK j \in B : kb(j) = ka(i) /\ va(i) = vb(j)
      BY <1>8
    <3>2. <<ka(i), va(i)>> = <<kb(j), vb(j)>>
      BY <3>1
    <3> QED BY <3>2
  <2>2. ASSUME NEW j \in B PROVE <<kb(j), vb(j)>> \in SA
    <3>1. PICK i \in A : ka(i) = kb(j)
      BY <1>9
    <3>2. PICK l \in B : kb(l) = ka(i) /\ va(i) = vb(l)
      BY <1>8
    <3>3. l = j
      BY <1>10, <3>1, <3>2
    <3>4. <<ka(i), va(i)>> = <<kb(j), vb(j)>>
      BY <3>1, <3>2, <3>3
    <3> QED BY <3>4
  <2>3. SA \subseteq SB
    BY <2>1
  <2>4. SB \subseteq SA
    BY <2>2
  <2> QED BY ONLY <2>3, <2>4
<1>13. EqualBody(h, E, a, b) \in BOOLEAN
  BY <1>4
<1> HIDE DEF SA, SB
<1> QED BY <1>4, <1>5, <1>11, <1>12

LEMMA ArraysAgree ==
    ASSUME NEW P, Places(P), NEW h, Sound(P, h), NEW V, NEW E, NEW a \in P, NEW b \in P, a # b,
           h[a].kind = "array", h[b].kind = "array", Agree(P, h, V, E, a)
    PROVE  EqualBody(h, E, a, b) = (ValueBody(h, V, a) = ValueBody(h, V, b))
<1> DEFINE va(i) == V[h[a].kids[i].val]
           vb(j) == V[h[b].kids[j].val]
           m == Len(h[a].kids)
           n == Len(h[b].kids)
           FA == [i \in DOMAIN h[a].kids |-> va(i)]
           FB == [i \in DOMAIN h[b].kids |-> vb(i)]
           In == m = n /\ \A i \in DOMAIN h[a].kids : E[h[a].kids[i].val][h[b].kids[i].val]
<1>1. a # NULL /\ b # NULL /\ h \in Heaps(P)
  BY DEF Places, Sound
<1>2. CellOK(h[a]) /\ CellOK(h[b])
  BY DEF Sound
<1>3. h[a].data = h[b].data /\ Type(h, a) = Type(h, b)
  BY <1>2 DEF CellOK, Containers, Type
<1>4. EqualBody(h, E, a, b) = In
  BY <1>1, <1>3 DEF EqualBody
<1>5. (ValueBody(h, V, a) = ValueBody(h, V, b)) = (FA = FB)
  <2>1. ValueBody(h, V, a) = <<"array", FA>>
    BY <1>1 DEF ValueBody
  <2>2. ValueBody(h, V, b) = <<"array", FB>>
    BY <1>1 DEF ValueBody
  <2> HIDE DEF FA, FB
  <2> QED BY <2>1, <2>2
<1>6. /\ DOMAIN h[a].kids = 1 .. m /\ DOMAIN h[b].kids = 1 .. n /\ m \in Nat /\ n \in Nat
      /\ \A j \in 1 .. n : h[b].kids[j].val \in P \cup {NULL}
  BY <1>1, CellParts
<1>7. m = n => \A i \in 1 .. m : E[h[a].kids[i].val][h[b].kids[i].val] = (va(i) = vb(i))
  BY <1>6 DEF Agree
<1>8. In <=> m = n /\ \A i \in 1 .. m : va(i) = vb(i)
  BY <1>6, <1>7
<1> HIDE DEF va, vb, m, n, In
<1>9. In => FA = FB
  BY <1>6, <1>8
<1>10. FA = FB => In
  <2> SUFFICES ASSUME FA = FB PROVE m = n /\ \A i \in 1 .. m : va(i) = vb(i)
    BY <1>8
  <2>1. DOMAIN FA = 1 .. m /\ DOMAIN FB = 1 .. n
    BY <1>6
  <2>2. 1 .. m = 1 .. n
    BY <2>1
  <2>3. m = n
    <3>1. m > 0 => m \in 1 .. n
      BY <1>6, <2>2
    <3>2. n > 0 => n \in 1 .. m
      BY <1>6, <2>2
    <3> QED BY <1>6, <3>1, <3>2
  <2>4. ASSUME NEW i \in 1 .. m PROVE va(i) = vb(i)
    <3>1. FA[i] = va(i) /\ FB[i] = vb(i)
      BY <1>6, <2>2
    <3> QED BY <3>1
  <2> QED BY <2>3, <2>4
<1>11. EqualBody(h, E, a, b) \in BOOLEAN
  BY <1>4 DEF In
<1> HIDE DEF FA, FB
<1> QED BY <1>4, <1>5, <1>9, <1>10, <1>11

\* Kinds and data
LEMMA KindIs ==
    ASSUME NEW P, Places(P), NEW h, Sound(P, h), NEW o \in P
    PROVE  /\ o # NULL /\ h[o].kind \in {"object", "array", "string", "custom", "none"}
           /\ h[o].kind \in {"object", "array", "none"} => h[o].data = NULL
           /\ h[o].kind \in {"string", "custom"} => h[o].data \in Data
           /\ h[o].kind \notin {"object", "array"} => h[o].kids = << >>
<1>1. CellOK(h[o]) /\ h[o] \in Cells(P) /\ o # NULL
  BY DEF Sound, Heaps, Places
<1>2. h[o].kind \in Containers \cup StringKinds \cup {"none"}
  BY <1>1 DEF Cells
<1> QED BY <1>1, <1>2 DEF CellOK, Containers, StringKinds

LEMMA BodiesAgree ==
    ASSUME NEW P, Places(P), NEW h, Sound(P, h), NEW V, NEW E, NEW a \in P, NEW b \in P, a # b,
           Agree(P, h, V, E, a)
    PROVE  EqualBody(h, E, a, b) = (ValueBody(h, V, a) = ValueBody(h, V, b))
<1> DEFINE K(o) == h[o].kind
           D(o) == h[o].data
<1>1. \A o \in {a, b} :
          /\ o # NULL /\ K(o) \in {"object", "array", "string", "custom", "none"}
          /\ K(o) \in {"object", "array", "none"} => D(o) = NULL
          /\ K(o) \in {"string", "custom"} => D(o) \in Data
          /\ K(o) \notin {"object", "array"} => h[o].kids = << >>
  BY KindIs
<1>2. CASE K(a) = "object" /\ K(b) = "object"
  BY <1>2, ObjectsAgree
<1>3. CASE K(a) = "array" /\ K(b) = "array"
  BY <1>3, ArraysAgree
<1>4. CASE K(a) \notin {"object", "array"} /\ K(b) \notin {"object", "array"}
  <2>1. ValueBody(h, V, a) = <<"string", D(a)>> /\ ValueBody(h, V, b) = <<"string", D(b)>>
    BY <1>1, <1>4 DEF ValueBody
  <2>2. (ValueBody(h, V, a) = ValueBody(h, V, b)) = (D(a) = D(b))
    BY <2>1
  <2>3. EqualBody(h, E, a, b) = (Type(h, a) = Type(h, b) /\ D(a) = D(b))
    <3>1. h[a].kids = << >> /\ h[b].kids = << >> /\ h[a].kind # "object" /\ a # NULL /\ b # NULL
      BY <1>1, <1>4
    <3>2. Len(h[a].kids) = Len(h[b].kids) /\ DOMAIN h[a].kids = {}
      BY <3>1
    <3> QED BY <3>1, <3>2 DEF EqualBody
  <2>4. D(a) = D(b) => Type(h, a) = Type(h, b)
    BY <1>1, <1>4, ObjectAssumption DEF Type, StringKinds
  <2> QED BY <2>2, <2>3, <2>4
<1>5. CASE /\ ~(K(a) = "object" /\ K(b) = "object")
           /\ ~(K(a) = "array" /\ K(b) = "array")
           /\ ~(K(a) \notin {"object", "array"} /\ K(b) \notin {"object", "array"})
  <2>1. Type(h, a) # Type(h, b)
    BY <1>1, <1>5 DEF Type, StringKinds
  <2>2. EqualBody(h, E, a, b) = FALSE
    BY <2>1 DEF EqualBody
  <2>3. \A o \in {a, b} : ValueBody(h, V, o)[1] = IF K(o) \in {"object", "array"} THEN K(o) ELSE "string"
    BY <1>1 DEF ValueBody
  <2>4. ValueBody(h, V, a)[1] # ValueBody(h, V, b)[1]
    BY <1>1, <1>5, <2>3
  <2> QED BY <2>2, <2>4
<1> QED BY <1>2, <1>3, <1>4, <1>5

\* json_object_equal holds of those that stand for the same value.
LEMMA EqualIsOfValues ==
    ASSUME NEW P, Places(P), Sound(P, heap)
    PROVE  \A a, b \in P \cup {NULL} : EqualTrees(a, b) = (JsonValue(heap, a) = JsonValue(heap, b))
<1>0. PICK E : Equals(P, E)
  BY EqualIs
<1>1. /\ \A a \in P \cup {NULL} : \A b \in P \cup {NULL} : E[a][b] = EqualBody(heap, E, a, b)
      /\ \A a, b : EqualTrees(a, b) = E[a][b]
  BY <1>0 DEF Equals
<1>2. PICK V : /\ \A q \in P \cup {NULL} : V[q] = ValueBody(heap, V, q)
               /\ \A q : JsonValue(heap, q) = V[q]
  BY ValueIs
<1>3. PICK N, rank : Ranked(P, heap, N, rank)
  BY DEF Sound, Loopless
<1>4. heap \in Heaps(P)
  BY DEF Sound
<1>5. \A q \in P : rank[q] \in Nat /\ rank[q] <= N
  BY <1>3 DEF Ranked
<1> DEFINE Low(q, n) == q = NULL \/ rank[q] < n
           Same(a) == \A b \in P \cup {NULL} : E[a][b] = (V[a] = V[b])
           T == {n \in Nat : \A a \in P \cup {NULL} : Low(a, n) => Same(a)}
<1>6. \A b \in P : V[b] # V[NULL]
  <2> SUFFICES ASSUME NEW b \in P PROVE V[b] # V[NULL]
    OBVIOUS
  <2>1. V[NULL][1] = "null"
    <3>1. V[NULL] = ValueBody(heap, V, NULL)
      BY <1>2
    <3>2. ValueBody(heap, V, NULL) = <<"null", NULL>>
      BY DEF ValueBody
    <3> QED BY <3>1, <3>2
  <2>2. b # NULL
    BY DEF Places
  <2>3. ValueBody(heap, V, b)[1] \in {"object", "array", "string"}
    BY <2>2 DEF ValueBody
  <2> QED BY <1>2, <2>1, <2>3
<1>7. Same(NULL)
  <2> SUFFICES ASSUME NEW b \in P \cup {NULL} PROVE E[NULL][b] = (V[NULL] = V[b])
    OBVIOUS
  <2>1. EqualBody(heap, E, NULL, b) = (NULL = b)
    BY DEF EqualBody
  <2>2. (NULL = b) = (V[NULL] = V[b])
    BY <1>6
  <2> QED BY <1>1, <2>1, <2>2
<1>8. 0 \in T
  BY <1>5, <1>7
<1>9. ASSUME NEW n \in Nat, n \in T PROVE n + 1 \in T
  <2> SUFFICES ASSUME NEW a \in P, rank[a] < n + 1 PROVE Same(a)
    BY <1>7
  <2>1. Agree(P, heap, V, E, a)
    <3> SUFFICES ASSUME NEW i \in DOMAIN heap[a].kids PROVE Same(heap[a].kids[i].val)
      BY DEF Agree
    <3> DEFINE k == heap[a].kids[i].val
    <3>1. k = NULL \/ (k \in P /\ rank[k] \in Nat /\ rank[k] < rank[a] /\ rank[a] \in Nat)
      BY <1>3, <1>4, KidsAreLower
    <3> HIDE DEF k, Same
    <3>2. k \in P \cup {NULL} /\ Low(k, n)
      BY <3>1
    <3>3. Same(k)
      BY <1>9, <3>2
    <3> QED BY <3>3 DEF k
  <2>2. ASSUME NEW b \in P \cup {NULL} PROVE E[a][b] = (V[a] = V[b])
    <3>1. CASE b = NULL
      <4>1. EqualBody(heap, E, a, b) = FALSE
        BY <3>1 DEF EqualBody, Places
      <4> QED BY <1>1, <1>6, <3>1, <4>1
    <3>2. CASE b = a
      <4>1. EqualBody(heap, E, a, b) = TRUE
        BY <3>2 DEF EqualBody
      <4> QED BY <1>1, <3>2, <4>1
    <3>3. CASE b # NULL /\ b # a
      <4>1. EqualBody(heap, E, a, b) = (ValueBody(heap, V, a) = ValueBody(heap, V, b))
        BY <2>1, <3>3, BodiesAgree
      <4> QED BY <1>1, <1>2, <4>1
    <3> QED BY <3>1, <3>2, <3>3
  <2> QED BY <2>2
<1> HIDE DEF T
<1>10. Nat \subseteq T
  BY <1>8, <1>9, InductionOn
<1>11. N + 1 \in T /\ N \in Nat
  <2>1. N \in Nat
    BY <1>3 DEF Ranked
  <2> QED BY <1>10, <2>1
<1>12. ASSUME NEW a \in P \cup {NULL} PROVE Same(a)
  <2>1. Low(a, N + 1)
    BY <1>5, <1>11
  <2> QED BY <1>11, <2>1 DEF T
<1> QED BY <1>1, <1>2, <1>12

-----------------------------------------------------------------------------
(***************************************************************************)
(* Heaps stay trees                                                         *)
(***************************************************************************)

\* Nothing leads out of D.
Closed(P, h, D) == D \in SUBSET P /\ \A o \in D : Members(h, o) \subseteq D

\* A cell that is lessened is freed, or loses references but not the last.
CellLessened(c, d) ==
    \/ d = c
    \/ d = FreeCell
    \/ d.ref # 0 /\ d.kids = c.kids /\ d.kind = c.kind /\ d.data = c.data

\* The cells of F may be lessened, the others stay as they are.
Lessened(P, h, H, F) ==
    /\ h \in Heaps(P) /\ H \in Heaps(P)
    /\ \A o \in P : CellLessened(h[o], H[o])
    /\ \A o \in P \ F : H[o] = h[o]

LEMMA LessenedMembers ==
    ASSUME NEW P, NEW h, NEW H, NEW F, Lessened(P, h, H, F), NEW o \in P
    PROVE  Members(H, o) \subseteq Members(h, o)
<1>1. h \in Heaps(P) /\ H \in Heaps(P) /\ CellLessened(h[o], H[o])
  BY DEF Lessened
<1>2. CASE H[o] = FreeCell
  <2>1. Len(H[o].kids) = 0
    BY <1>2, FreeIsCell
  <2>2. 1 .. Len(H[o].kids) = {}
    BY <2>1
  <2> QED BY <1>1, <2>2, MembersParts
<1>3. CASE H[o].kids = h[o].kids
  <2>1. \A q : q \in Members(H, o) <=> q \in Members(h, o)
    BY <1>1, <1>3, MembersParts
  <2> QED BY <2>1
<1>4. H[o] = h[o] => H[o].kids = h[o].kids
  OBVIOUS
<1> QED BY <1>1, <1>2, <1>3, <1>4 DEF CellLessened

LEMMA FreeCellOK == CellOK(FreeCell)
  BY DEF CellOK, KeysOK, FreeCell, Containers, StringKinds

LEMMA LooplessLess ==
    ASSUME NEW P, NEW h, NEW H, Loopless(P, h), \A o \in P : Members(H, o) \subseteq Members(h, o)
    PROVE  Loopless(P, H)
<1>1. PICK N, rank : Ranked(P, h, N, rank)
  BY DEF Loopless
<1>2. Ranked(P, H, N, rank)
  BY <1>1 DEF Ranked
<1> QED BY <1>2 DEF Loopless

LEMMA LessenedIsSound ==
    ASSUME NEW P, NEW h, NEW H, NEW F, Sound(P, h), Lessened(P, h, H, F)
    PROVE  Sound(P, H)
<1>1. ASSUME NEW o \in P PROVE CellOK(H[o])
  <2>1. CellLessened(h[o], H[o]) /\ CellOK(h[o])
    BY DEF Lessened, Sound
  <2>2. CASE H[o] = FreeCell
    BY <2>2, FreeCellOK
  <2>3. CASE H[o] # FreeCell
    BY <2>1, <2>3 DEF CellLessened, CellOK
  <2> QED BY <2>2, <2>3
<1>2. Loopless(P, H)
  BY LessenedMembers, LooplessLess DEF Sound
<1> QED BY <1>1, <1>2 DEF Sound, Lessened

\* What is put is in F.
PuttingIn(P, h, F, s) ==
    /\ s \in PutStates(P) /\ Lessened(P, h, s.h, F)
    /\ \A i \in 1 .. Len(s.list) : s.list[i] \in F \cup {NULL}

LEMMA PutFirstLessens ==
    ASSUME NEW P, Places(P), NEW h, NEW F, Closed(P, h, F), NEW s, PuttingIn(P, h, F, s)
    PROVE  PuttingIn(P, h, F, PutFirst(s))
<1> DEFINE t == PutFirst(s)
           o == s.list[1]
           rest == Tail(s.list)
<1>1. CASE s.list = << >>
  BY <1>1 DEF PutFirst
<1>2. CASE s.list # << >>
  <2>1. s \in PutStates(P) /\ s.h \in Heaps(P) /\ s.list \in Lists(P)
    BY DEF PuttingIn, PutStates
  <2>2. /\ t \in PutStates(P)
        /\ o = NULL => t.h = s.h /\ t.list = rest
        /\ o # NULL /\ s.h[o].ref > 1 => t.h = [s.h EXCEPT ![o].ref = @ - 1] /\ t.list = rest
        /\ o # NULL /\ ~(s.h[o].ref > 1) => t.h = [s.h EXCEPT ![o] = FreeCell] /\ t.list = Vals(s.h, o) \o rest
    BY <1>2, <2>1, PutFirstIs
  <2>3. Len(s.list) \in Nat /\ Len(s.list) > 0 /\ rest \in Lists(P) /\ Len(rest) = Len(s.list) - 1
        /\ \A j \in 1 .. Len(s.list) - 1 : rest[j] = s.list[j + 1]
    BY <1>2, <2>1, ListParts
  <2>4. o \in F \cup {NULL} /\ \A j \in 1 .. Len(rest) : rest[j] \in F \cup {NULL}
    BY <2>3 DEF PuttingIn
  <2>5. /\ h \in Heaps(P) /\ \A q \in P : CellLessened(h[q], s.h[q])
        /\ \A q \in P \ F : s.h[q] = h[q]
    BY DEF PuttingIn, Lessened
  <2>6. F \subseteq P /\ DOMAIN s.h = P /\ t.h \in Heaps(P)
    BY <2>1, <2>2 DEF Closed, Heaps, PutStates
  <2> HIDE DEF t, o, rest
  <2>7. CASE o = NULL
    <3>1. t.h = s.h /\ t.list = rest
      BY <2>2, <2>7
    <3> QED BY <2>2, <2>4, <3>1 DEF PuttingIn, t
  <2>8. CASE o # NULL /\ s.h[o].ref > 1
    <3>1. o \in P /\ o \in F
      BY <2>4, <2>6, <2>8
    <3> DEFINE n == s.h[o].ref - 1
    <3>2. s.h[o].ref \in Nat
      BY <2>1, <3>1, CellParts
    <3>3. n \in Nat /\ n # 0
      BY <2>8, <3>2
    <3>4. t.h = [s.h EXCEPT ![o].ref = n] /\ t.list = rest
      BY <2>2, <2>8
    <3> HIDE DEF n
    <3>5. /\ t.h[o].ref = n /\ \A p \in P : p # o => t.h[p] = s.h[p]
          /\ \A p \in P : t.h[p].kids = s.h[p].kids /\ t.h[p].kind = s.h[p].kind /\ t.h[p].data = s.h[p].data
      BY <2>1, <3>1, <3>3, <3>4, WithRef
    <3>6. s.h[o] # FreeCell
      BY <2>8, FreeIsCell
    <3>7. CellLessened(h[o], t.h[o])
      BY <2>5, <3>1, <3>3, <3>5, <3>6 DEF CellLessened
    <3>8. \A q \in P : CellLessened(h[q], t.h[q])
      BY <2>5, <3>5, <3>7
    <3>9. \A q \in P \ F : t.h[q] = h[q]
      BY <2>5, <3>1, <3>5
    <3> QED BY <2>2, <2>4, <2>5, <2>6, <3>4, <3>8, <3>9 DEF PuttingIn, Lessened, t
  <2>9. CASE o # NULL /\ ~(s.h[o].ref > 1)
    <3>1. o \in P /\ o \in F
      BY <2>4, <2>6, <2>9
    <3>2. t.h = [s.h EXCEPT ![o] = FreeCell] /\ t.list = Vals(s.h, o) \o rest
      BY <2>2, <2>9
    <3>3. t.h[o] = FreeCell /\ \A p \in P : p # o => t.h[p] = s.h[p]
      BY <2>6, <3>1, <3>2
    <3>4. \A q \in P : CellLessened(h[q], t.h[q])
      BY <2>5, <3>3 DEF CellLessened
    <3>5. \A q \in P \ F : t.h[q] = h[q]
      BY <2>5, <3>1, <3>3
    <3>6. Members(s.h, o) \subseteq F
      <4>1. Members(s.h, o) \subseteq Members(h, o)
        BY <3>1, LessenedMembers DEF PuttingIn
      <4> QED BY <3>1, <4>1 DEF Closed
    <3> DEFINE vals == Vals(s.h, o)
    <3>7. vals \in Lists(P) /\ \A j \in 1 .. Len(vals) : vals[j] \in F \cup {NULL}
      <4>1. /\ vals \in Lists(P) /\ Len(vals) = Len(s.h[o].kids)
            /\ \A i \in 1 .. Len(s.h[o].kids) : vals[i] = s.h[o].kids[i].val
        BY <2>1, <3>1, ValsParts
      <4>2. \A i \in 1 .. Len(s.h[o].kids) : s.h[o].kids[i].val # NULL => s.h[o].kids[i].val \in Members(s.h, o)
        BY <2>1, <3>1, MembersParts
      <4> QED BY <3>6, <4>1, <4>2
    <3> HIDE DEF vals
    <3>8. ASSUME NEW j \in 1 .. Len(t.list) PROVE t.list[j] \in F \cup {NULL}
      <4>1. t.list = vals \o rest
        BY <3>2 DEF vals
      <4>2. /\ Len(vals) \in Nat /\ Len(rest) \in Nat /\ Len(t.list) = Len(vals) + Len(rest)
            /\ t.list[j] = IF j <= Len(vals) THEN vals[j] ELSE rest[j - Len(vals)]
        <5>1. vals \in Seq(P \cup {NULL}) /\ rest \in Seq(P \cup {NULL})
          BY <2>3, <3>7 DEF Lists
        <5>2. Len(t.list) = Len(vals) + Len(rest) /\ Len(vals) \in Nat /\ Len(rest) \in Nat
          BY <4>1, <5>1
        <5> QED BY <4>1, <5>1, <5>2
      <4>3. CASE j <= Len(vals)
        BY <3>7, <4>2, <4>3
      <4>4. CASE ~(j <= Len(vals))
        <5>1. j - Len(vals) \in 1 .. Len(rest)
          BY <4>2, <4>4
        <5> QED BY <2>4, <4>2, <4>4, <5>1
      <4> QED BY <4>3, <4>4
    <3> QED BY <2>2, <2>5, <2>6, <3>4, <3>5, <3>8 DEF PuttingIn, Lessened, t
  <2> QED BY <2>7, <2>8, <2>9
<1> QED BY <1>1, <1>2

\* What is put, and what it alone refers to, may go; the rest does not.
LEMMA PutListLessens ==
    ASSUME NEW P, Places(P), NEW h \in Heaps(P), NEW F, Closed(P, h, F), NEW list \in Lists(P),
           \A i \in 1 .. Len(list) : list[i] \in F \cup {NULL}
    PROVE  Lessened(P, h, PutAll(h, list), F)
<1> DEFINE most == Len(list) + Cardinality(SlotsOf(h))
           start == [h |-> h, list |-> list]
<1>1. most \in Nat
  BY PutAllIs
<1>2. PICK put \in [0 .. most -> PutStates(P)] : /\ put[0] = start /\ PutAll(h, list) = put[most].h
                                                  /\ \A n \in 1 .. most : put[n] = PutFirst(put[n - 1])
  BY PutAllIs
<1> HIDE DEF most
<1>3. PuttingIn(P, h, F, start)
  <2>1. start \in PutStates(P)
    BY DEF PutStates
  <2>2. Lessened(P, h, h, F)
    BY DEF Lessened, CellLessened
  <2>3. start.h = h /\ start.list = list
    OBVIOUS
  <2> HIDE DEF start
  <2> QED BY <2>1, <2>2, <2>3 DEF PuttingIn
<1> HIDE DEF start
<1> DEFINE T == {n \in Nat : n <= most => PuttingIn(P, h, F, put[n])}
<1>4. 0 \in T
  BY <1>2, <1>3
<1>5. ASSUME NEW n \in Nat, n \in T PROVE n + 1 \in T
  <2> SUFFICES ASSUME n + 1 <= most PROVE PuttingIn(P, h, F, put[n + 1])
    OBVIOUS
  <2>1. n + 1 \in 1 .. most /\ (n + 1) - 1 = n /\ PuttingIn(P, h, F, put[n])
    BY <1>1, <1>5
  <2>2. put[n + 1] = PutFirst(put[n])
    BY <1>2, <2>1
  <2> QED BY <2>1, <2>2, PutFirstLessens
<1> HIDE DEF T
<1>6. Nat \subseteq T
  BY <1>4, <1>5, InductionOn
<1>7. PuttingIn(P, h, F, put[most])
  BY <1>1, <1>6 DEF T
<1> QED BY <1>2, <1>7 DEF PuttingIn

LEMMA PutOneLessens ==
    ASSUME NEW P, Places(P), NEW h \in Heaps(P), NEW F, Closed(P, h, F), NEW v \in F \cup {NULL}
    PROVE  Lessened(P, h, PutAll(h, <<v>>), F)
<1> DEFINE list == <<v>>
<1>1. list \in Lists(P) /\ Len(list) = 1 /\ list[1] = v
  BY DEF Lists, Closed
<1> HIDE DEF list
<1>2. \A i \in 1 .. Len(list) : list[i] \in F \cup {NULL}
  BY <1>1
<1>3. Lessened(P, h, PutAll(h, list), F)
  BY <1>1, <1>2, PutListLessens
<1> QED BY <1>3 DEF list

\* A value takes members in from where it is not reached.
LEMMA LooplessMore ==
    ASSUME NEW P, NEW h, NEW H, NEW D, Loopless(P, h), Closed(P, h, D), NEW p \in P, p \notin D,
           \A o \in P : o # p => Members(H, o) \subseteq Members(h, o),
           Members(H, p) \subseteq Members(h, p) \cup D, \A o \in P : Members(H, o) \subseteq P
    PROVE  Loopless(P, H)
<1>1. PICK N, rank : Ranked(P, h, N, rank)
  BY DEF Loopless
<1>2. N \in Nat /\ \A o \in P : rank[o] \in Nat /\ rank[o] <= N
  BY <1>1 DEF Ranked
<1> DEFINE up == [o \in P |-> IF o \in D THEN rank[o] ELSE rank[o] + N + 1]
           M == N + N + 1
<1>3. M \in Nat /\ up \in [P -> 0 .. M]
  BY <1>2
<1>4. ASSUME NEW o \in P, NEW q \in Members(H, o) PROVE up[q] < up[o]
  <2>1. q \in P /\ (q \in Members(h, o) \/ (o = p /\ q \in D))
    BY <1>4
  <2>2. CASE q \in Members(h, o)
    <3>1. rank[q] < rank[o]
      BY <1>1, <2>2 DEF Ranked
    <3>2. o \in D => q \in D
      BY <2>2 DEF Closed
    <3>3. rank[q] \in Nat /\ rank[o] \in Nat /\ rank[q] <= N
      BY <1>2, <2>1
    <3> QED BY <1>2, <2>1, <3>1, <3>2, <3>3
  <2>3. CASE o = p /\ q \in D
    <3>1. up[q] = rank[q] /\ up[o] = rank[o] + N + 1
      BY <2>1, <2>3
    <3>2. rank[q] \in Nat /\ rank[o] \in Nat /\ rank[q] <= N
      BY <1>2, <2>1
    <3> QED BY <1>2, <3>1, <3>2
  <2> QED BY <2>1, <2>2, <2>3
<1> HIDE DEF up, M
<1>5. Ranked(P, H, M, up)
  BY <1>3, <1>4 DEF Ranked
<1> QED BY <1>5 DEF Loopless

\* p takes values of D in; only cells of F are lessened.
Grown(P, h, H, p, D, F) ==
    /\ Sound(P, H) /\ H[p].ref = h[p].ref /\ H[p].kind = h[p].kind
    /\ \A o \in P : o # p => Members(H, o) \subseteq Members(h, o)
    /\ Members(H, p) \subseteq Members(h, p) \cup D
    /\ \A o \in P \ F : o # p => H[o] = h[o]

LEMMA KidsAreSound ==
    ASSUME NEW P, Places(P), NEW h, Sound(P, h), NEW p \in P, NEW ks, NEW H, KidsAreSet(P, h, p, ks, H),
           h[p].ref # 0, h[p].kind \in Containers, KeysOK(h[p].kind, ks),
           NEW D, Closed(P, h, D), p \notin D,
           \A i \in 1 .. Len(ks) : ks[i].val \in D \cup {NULL} \cup Members(h, p)
    PROVE  Grown(P, h, H, p, D, {})
<1>1. /\ H \in Heaps(P) /\ H[p].kids = ks /\ \A q \in P : q # p => H[q] = h[q]
      /\ \A q \in P : H[q].ref = h[q].ref /\ H[q].kind = h[q].kind /\ H[q].data = h[q].data
  BY WithKids
<1>2. h \in Heaps(P) /\ Loopless(P, h) /\ \A o \in P : CellOK(h[o])
  BY DEF Sound
<1>3. CellOK(H[p])
  BY <1>1, <1>2 DEF CellOK
<1>4. \A o \in P : CellOK(H[o])
  BY <1>1, <1>2, <1>3
<1>5. Members(H, p) \subseteq Members(h, p) \cup D
  <2>1. \A q : q \in Members(H, p) <=> q # NULL /\ \E i \in 1 .. Len(ks) : ks[i].val = q
    BY <1>1, MembersParts
  <2> QED BY <2>1
<1>6. \A o \in P : o # p => Members(H, o) \subseteq Members(h, o)
  <2> SUFFICES ASSUME NEW o \in P, o # p, NEW q \in Members(H, o) PROVE q \in Members(h, o)
    OBVIOUS
  <2>1. H[o] = h[o]
    BY <1>1
  <2> QED BY <1>1, <1>2, <2>1, MembersParts
<1>7. \A o \in P : Members(H, o) \subseteq P
  BY <1>1, MembersParts
<1>8. Loopless(P, H)
  BY ONLY <1>2, <1>5, <1>6, <1>7, Closed(P, h, D), p \in P, p \notin D, LooplessMore
<1> QED BY <1>1, <1>4, <1>5, <1>6, <1>8 DEF Sound, Grown

LEMMA KidIsAppended ==
    ASSUME NEW P, NEW s \in Kids(P), NEW k \in Names \cup {"item"}, NEW v \in P \cup {NULL}
    PROVE  LET ks == Append(s, Member(k, v))
           IN  /\ ks \in Kids(P) /\ Len(ks) = Len(s) + 1 /\ ks[Len(s) + 1] = Member(k, v)
               /\ \A j \in 1 .. Len(s) : ks[j] = s[j]
               /\ \A j \in 1 .. Len(ks) : j \in 1 .. Len(s) \/ j = Len(s) + 1
<1> DEFINE R == [key : Names \cup {"item"}, val : P \cup {NULL}]
           m == Member(k, v)
<1>1. s \in Seq(R) /\ Len(s) \in Nat
  BY DEF Kids
<1>2. m \in R
  BY DEF Member
<1> HIDE DEF R, m
<1>3. /\ Append(s, m) \in Seq(R) /\ Len(Append(s, m)) = Len(s) + 1 /\ Append(s, m)[Len(s) + 1] = m
      /\ \A j \in 1 .. Len(s) : Append(s, m)[j] = s[j]
  BY <1>1, <1>2
<1>4. \A j \in 1 .. Len(Append(s, m)) : j \in 1 .. Len(s) \/ j = Len(s) + 1
  BY <1>1, <1>3
<1> QED BY <1>3, <1>4 DEF Kids, R, m

LEMMA KidIsReplaced ==
    ASSUME NEW P, NEW s \in Kids(P), NEW i \in 1 .. Len(s), NEW v \in P \cup {NULL}
    PROVE  LET ks == [s EXCEPT ![i].val = v]
           IN  /\ ks \in Kids(P) /\ Len(ks) = Len(s) /\ ks[i].val = v
               /\ \A j \in 1 .. Len(s) : ks[j].key = s[j].key /\ (j # i => ks[j].val = s[j].val)
<1> DEFINE R == [key : Names \cup {"item"}, val : P \cup {NULL}]
           m == [s[i] EXCEPT !.val = v]
           ks == [s EXCEPT ![i].val = v]
<1>1. s \in Seq(R)
  BY DEF Kids
<1>2. m \in R /\ m.val = v /\ m.key = s[i].key
  <2>1. s[i] \in R
    BY <1>1, SeqParts
  <2> QED BY <2>1
<1>3. ks = [s EXCEPT ![i] = m]
  OBVIOUS
<1> HIDE DEF R, m, ks
<1>4. /\ ks \in Seq(R) /\ Len(ks) = Len(s) /\ ks[i] = m
      /\ \A j \in 1 .. Len(s) : j # i => ks[j] = s[j]
  BY <1>1, <1>2, <1>3
<1> QED BY <1>2, <1>4 DEF Kids, R, ks

LEMMA ItemIsSound ==
    ASSUME NEW P, Places(P), NEW h, Sound(P, h), NEW p \in P, h[p].kind \in Containers, h[p].ref # 0,
           NEW k \in Names \cup {"item"}, h[p].kind = "object" => IndexOf(h, p, k) = {},
           h[p].kind = "array" => k = "item",
           NEW D, Closed(P, h, D), p \notin D, NEW v \in D \cup {NULL}
    PROVE  Grown(P, h, [h EXCEPT ![p].kids = Append(@, Member(k, v))], p, D, {})
<1> DEFINE s == h[p].kids
           ks == Append(s, Member(k, v))
           H == [h EXCEPT ![p].kids = ks]
<1>1. h \in Heaps(P) /\ CellOK(h[p]) /\ v \in P \cup {NULL}
  BY DEF Sound, Closed
<1>2. s \in Kids(P) /\ Len(s) \in Nat /\ DOMAIN s = 1 .. Len(s)
  BY <1>1, CellParts
<1>3. /\ ks \in Kids(P) /\ Len(ks) = Len(s) + 1 /\ ks[Len(s) + 1] = Member(k, v)
      /\ \A j \in 1 .. Len(s) : ks[j] = s[j]
      /\ \A j \in 1 .. Len(ks) : j \in 1 .. Len(s) \/ j = Len(s) + 1
  <2> HIDE DEF s
  <2> QED BY <1>1, <1>2, KidIsAppended
<1>4. KidsAreSet(P, h, p, ks, H)
  <2> HIDE DEF ks
  <2> QED BY <1>1, <1>3 DEF KidsAreSet
<1>5. Member(k, v).key = k /\ Member(k, v).val = v
  BY DEF Member
<1>6. KeysOK(h[p].kind, ks)
  <2>1. h[p].kind = "object" => \A j \in 1 .. Len(s) : s[j].key # k
    BY <1>2 DEF IndexOf
  <2>2. /\ h[p].kind = "object" => \A i, j \in 1 .. Len(s) : s[i].key = s[j].key => i = j
        /\ h[p].kind = "array" => \A i \in 1 .. Len(s) : s[i].key = "item"
    BY <1>1 DEF CellOK, KeysOK
  <2> HIDE DEF ks, s
  <2>3. h[p].kind = "object" => \A i, j \in 1 .. Len(ks) : ks[i].key = ks[j].key => i = j
    BY <1>3, <1>5, <2>1, <2>2
  <2>4. h[p].kind = "array" => \A i \in 1 .. Len(ks) : ks[i].key = "item"
    BY <1>3, <1>5, <2>2
  <2> QED BY <2>3, <2>4 DEF KeysOK
<1>7. \A i \in 1 .. Len(ks) : ks[i].val \in D \cup {NULL} \cup Members(h, p)
  <2>1. \A i \in 1 .. Len(s) : s[i].val = NULL \/ s[i].val \in Members(h, p)
    BY <1>1, MembersParts
  <2> HIDE DEF ks, s
  <2> QED BY <1>3, <1>5, <2>1
<1>8. Grown(P, h, H, p, D, {})
  <2> HIDE DEF ks, H
  <2> QED BY <1>4, <1>6, <1>7, KidsAreSound
<1> QED BY <1>8

LEMMA MemberIsSound ==
    ASSUME NEW P, Places(P), NEW h, Sound(P, h), NEW p \in P, h[p].kind = "object", h[p].ref # 0,
           NEW k \in Names \cup {"item"}, NEW D, Closed(P, h, D), p \notin D, NEW v \in D \cup {NULL},
           NEW F, Closed(P, h, F), p \in F
    PROVE  Grown(P, h, WithMember(h, p, k, v), p, D, F)
<1>1. h \in Heaps(P) /\ h[p].kind \in Containers /\ v \in P \cup {NULL}
  BY DEF Sound, Containers, Closed
<1>2. CASE IndexOf(h, p, k) = {}
  <2> DEFINE H == [h EXCEPT ![p].kids = Append(@, Member(k, v))]
  <2>1. WithMember(h, p, k, v) = H
    BY <1>2 DEF WithMember
  <2>2. Grown(P, h, H, p, D, {})
    BY <1>1, <1>2, ItemIsSound
  <2> HIDE DEF H
  <2> QED BY <2>1, <2>2 DEF Grown
<1>3. CASE IndexOf(h, p, k) # {}
  <2> DEFINE i == Min(IndexOf(h, p, k))
             s == h[p].kids
             w == s[i].val
             G == PutAll(h, <<w>>)
             ks == [s EXCEPT ![i].val = v]
             H == [G EXCEPT ![p].kids = ks]
  <2>1. s \in Kids(P) /\ DOMAIN s = 1 .. Len(s) /\ Len(s) \in Nat
    BY <1>1, CellParts
  <2>2. IndexOf(h, p, k) \subseteq 1 .. Len(s) /\ IndexOf(h, p, k) \subseteq Nat
    BY <2>1 DEF IndexOf
  <2>3. i \in 1 .. Len(s)
    BY <1>3, <2>2, MinIsIn
  <2>4. WithMember(h, p, k, v) = [G EXCEPT ![p].kids[i].val = v]
    BY <1>3 DEF WithMember
  <2> HIDE DEF i
  <2>5. PICK N, rank : Ranked(P, h, N, rank)
    BY DEF Sound, Loopless
  <2> DEFINE E == {o \in F : rank[o] < rank[p]}
  <2>6. \A o \in P : rank[o] \in Nat /\ \A q \in Members(h, o) : rank[q] < rank[o]
    BY <2>5 DEF Ranked
  <2>7. Closed(P, h, E) /\ p \notin E
    <3>1. F \subseteq P /\ \A o \in F : Members(h, o) \subseteq F
      BY DEF Closed
    <3>2. ASSUME NEW o \in E, NEW q \in Members(h, o) PROVE q \in E
      <4>1. o \in P /\ q \in F /\ q \in P /\ o \in F /\ rank[o] < rank[p]
        BY <3>1, <3>2
      <4> QED BY <2>6, <4>1
    <3>3. p \notin E
      BY <2>6
    <3> QED BY <3>1, <3>2, <3>3 DEF Closed
  <2>8. w \in E \cup {NULL}
    <3>1. w = NULL \/ w \in Members(h, p)
      BY <1>1, <2>3, MembersParts
    <3> QED BY <2>6, <3>1 DEF Closed
  <2> HIDE DEF E, w
  <2>9. Lessened(P, h, G, E)
    BY <1>1, <2>7, <2>8, PutOneLessens
  <2> HIDE DEF G
  <2>10. G \in Heaps(P) /\ Sound(P, G) /\ G[p] = h[p] /\ (\A o \in P : Members(G, o) \subseteq Members(h, o))
    BY <2>7, <2>9, LessenedIsSound, LessenedMembers DEF Lessened
  <2>11. [G EXCEPT ![p].kids[i].val = v] = H
    BY <2>10
  <2>12. /\ ks \in Kids(P) /\ Len(ks) = Len(s) /\ ks[i].val = v
         /\ \A j \in 1 .. Len(s) : ks[j].key = s[j].key /\ (j # i => ks[j].val = s[j].val)
    <3> HIDE DEF s
    <3>1. s \in Kids(P) /\ i \in 1 .. Len(s) /\ v \in P \cup {NULL}
      BY <1>1, <2>1, <2>3
    <3> QED BY ONLY <3>1, KidIsReplaced
  <2>13. KidsAreSet(P, G, p, ks, H)
    <3> HIDE DEF ks
    <3> QED BY <2>10, <2>12 DEF KidsAreSet
  <2>14. KeysOK(G[p].kind, ks)
    <3>1. \A l, j \in 1 .. Len(s) : s[l].key = s[j].key => l = j
      BY DEF Sound, CellOK, KeysOK
    <3>2. G[p].kind = "object"
      BY <2>10
    <3> HIDE DEF ks, s
    <3> QED BY <2>12, <3>1, <3>2 DEF KeysOK
  <2>15. \A j \in 1 .. Len(ks) : ks[j].val \in D \cup {NULL} \cup Members(G, p)
    <3>1. \A j \in 1 .. Len(s) : s[j].val = NULL \/ s[j].val \in Members(G, p)
      BY <2>10, MembersParts
    <3> HIDE DEF ks, s
    <3> QED BY <2>12, <3>1
  <2>16. Closed(P, G, D)
    BY <2>10 DEF Closed
  <2> HIDE DEF ks, H, s
  <2>17. Grown(P, G, H, p, D, {})
    BY <1>1, <2>10, <2>13, <2>14, <2>15, <2>16, KidsAreSound
  <2>18. \A o \in P \ F : G[o] = h[o]
    BY <2>9 DEF Lessened, E
  <2>19. Grown(P, h, H, p, D, F)
    BY <2>10, <2>17, <2>18 DEF Grown
  <2> QED BY <2>4, <2>11, <2>19
<1> QED BY <1>2, <1>3

\* So many levels are enough: each adds a place, or nothing is below it.
LEMMA BelowIsClosed ==
    ASSUME NEW P, Places(P), NEW h \in Heaps(P), NEW v \in P
    PROVE  Closed(P, h, Below(h, {v})) /\ v \in Below(h, {v})
<1> DEFINE N == Cardinality(P)
<1>1. PICK f : BelowLevels(P, h, {v}, f)
  BY BelowIs
<1>2. DOMAIN h = P
  BY DEF Heaps
<1>3. /\ N \in Nat /\ f \in [0 .. N -> SUBSET P] /\ f[0] = {v} /\ Below(h, {v}) = f[N]
      /\ \A n \in 1 .. N : f[n] = WithMembers(h, f[n - 1])
  BY <1>1, <1>2 DEF BelowLevels
<1>4. IsFiniteSet(P) /\ \A T \in SUBSET P : IsFiniteSet(T) /\ Cardinality(T) \in Nat /\ Cardinality(T) <= N
  BY FS_Subset, FS_CardinalityType DEF Places
<1> HIDE DEF N
<1> DEFINE Good(n) == v \in f[n] /\ (Closed(P, h, f[n]) \/ Cardinality(f[n]) >= n + 1)
           G == {n \in Nat : n <= N => Good(n)}
<1>5. 0 \in G
  <2>1. Cardinality(f[0]) = 1
    BY <1>3, FS_Singleton
  <2>2. Good(0)
    BY <1>3, <2>1
  <2> QED BY <2>2
<1>6. ASSUME NEW n \in Nat, n \in G PROVE n + 1 \in G
  <2> SUFFICES ASSUME n + 1 <= N PROVE Good(n + 1)
    OBVIOUS
  <2>1. n + 1 \in 1 .. N /\ (n + 1) - 1 = n /\ n \in 0 .. N /\ n + 1 \in 0 .. N /\ Good(n)
    BY <1>3, <1>6
  <2> DEFINE U == f[n]
             V == f[n + 1]
  <2>2. U \in SUBSET P /\ V \in SUBSET P /\ V = WithMembers(h, U)
    BY <1>3, <2>1
  <2>3. v \in U /\ (Closed(P, h, U) \/ Cardinality(U) >= n + 1)
    BY <2>1
  <2> HIDE DEF U, V
  <2>4. U \subseteq V /\ \A o \in U : Members(h, o) \subseteq V
    BY <2>2 DEF WithMembers
  <2>5. CASE V = U
    <3>1. Closed(P, h, V)
      BY <2>2, <2>4, <2>5 DEF Closed
    <3> QED BY <2>3, <2>4, <3>1 DEF V
  <2>6. CASE V # U
    <3>1. ~Closed(P, h, U)
      <4> SUFFICES ASSUME Closed(P, h, U) PROVE V = U
        BY <2>6
      <4>1. \A o \in U : Members(h, o) \subseteq U
        BY DEF Closed
      <4> QED BY <2>2, <4>1 DEF WithMembers
    <3>2. PICK q \in V : q \notin U
      BY <2>4, <2>6
    <3>3. Cardinality(U \cup {q}) = Cardinality(U) + 1
      BY <1>4, <2>2, <3>2, FS_AddElement
    <3>4. Cardinality(U \cup {q}) <= Cardinality(V)
      <4>1. U \cup {q} \subseteq V /\ IsFiniteSet(V)
        BY <1>4, <2>2, <2>4, <3>2
      <4> QED BY <4>1, FS_Subset
    <3>5. Cardinality(V) >= (n + 1) + 1
      <4>1. Cardinality(U) \in Nat /\ Cardinality(V) \in Nat /\ Cardinality(U) >= n + 1
        BY <1>4, <2>2, <2>3, <3>1
      <4> QED BY <3>3, <3>4, <4>1
    <3> QED BY <2>3, <2>4, <3>5 DEF V
  <2> QED BY <2>5, <2>6
<1> HIDE DEF G
<1>7. Nat \subseteq G
  BY <1>5, <1>6, InductionOn
<1>8. Good(N)
  BY <1>3, <1>7 DEF G
<1>9. Cardinality(f[N]) \in Nat /\ Cardinality(f[N]) <= N
  <2>1. f[N] \in SUBSET P
    BY <1>3
  <2> QED BY <1>4, <2>1
<1> QED BY <1>3, <1>8, <1>9

-----------------------------------------------------------------------------
(***************************************************************************)
(* A copy keeps the trees what they were                                    *)
(***************************************************************************)

\* What was there in h is there in H, and nothing else leads to it.
Apart(P, h, H) ==
    /\ Sound(P, H)
    /\ \A o \in P : h[o].ref # 0 => H[o] = h[o]
    /\ \A o \in P : h[o].ref = 0 => \A q \in Members(H, o) : h[q].ref = 0

\* So is a copy.
CopyIsSound(P, h, r) ==
    Sound(P, h) => Apart(P, h, r.h) /\ (r.dst # NULL => h[r.dst].ref = 0)

SoundCopies(P, copy) == copy \in Copiers(P) /\ \A c \in Calls(P) : CopyIsSound(P, c.h, copy[c])

LEMMA ApartFromItself ==
    ASSUME NEW P, NEW h, Sound(P, h)
    PROVE  Apart(P, h, h)
<1>1. ASSUME NEW o \in P, h[o].ref = 0, NEW q \in Members(h, o) PROVE FALSE
  <2>1. h \in Heaps(P) /\ h[o].kids = << >>
    BY <1>1, FreeIsCell DEF Sound, CellOK
  <2>2. 1 .. Len(h[o].kids) = {}
    BY <2>1
  <2> QED BY <1>1, <2>1, <2>2, MembersParts
<1> QED BY <1>1 DEF Apart

\* While the members of a value are copied to dst
Copying(P, h, dst, kind, H) ==
    /\ dst \in P /\ h[dst].ref = 0 /\ H[dst].ref # 0 /\ H[dst].kind = kind
    /\ Apart(P, h, H)

LEMMA SubCopySound ==
    ASSUME NEW P, Places(P), NEW copy, SoundCopies(P, copy), NEW from, from.kids \in Kids(P),
           NEW i \in 1 .. Len(from.kids), NEW r \in Halfway(P), Sound(P, r.h)
    PROVE  CopyIsSound(P, r.h, SubCopy(copy, from, i, r))
<1> DEFINE c == SubCopy(copy, from, i, r)
           v == from.kids[i].val
<1>1. copy \in Copiers(P)
  BY DEF SoundCopies
<1>2. CASE v = NULL
  <2>1. c.h = r.h /\ c.dst = NULL
    BY <1>2 DEF SubCopy
  <2> QED BY <2>1, ApartFromItself DEF CopyIsSound
<1>3. CASE v # NULL
  <2>1. Call(r.h, v, r.n) \in Calls(P) /\ c = copy[Call(r.h, v, r.n)]
    BY <1>1, <1>3, SubCopyType DEF SubCopy
  <2>2. Call(r.h, v, r.n).h = r.h
    BY DEF Call
  <2> QED BY <2>1, <2>2 DEF SoundCopies
<1> QED BY <1>2, <1>3

LEMMA CopyMemberSound ==
    ASSUME NEW P, Places(P), NEW copy, SoundCopies(P, copy), NEW from, from.kids \in Kids(P),
           from.kind \in Containers, NEW i \in 1 .. Len(from.kids), NEW r \in Halfway(P),
           NEW h, NEW dst, Copying(P, h, dst, from.kind, r.h)
    PROVE  Copying(P, h, dst, from.kind, CopyMember(copy, from, dst, i, r).h)
<1> DEFINE c == SubCopy(copy, from, i, r)
           t == CopyMember(copy, from, dst, i, r)
           k == from.kids[i].key
           E == r.h
           G == c.h
           w == c.dst
           D == {o \in P : E[o].ref = 0}
           F == {o \in P : h[o].ref = 0}
<1>1. copy \in Copiers(P)
  BY DEF SoundCopies
<1>2. c \in Results(P) /\ k \in Names \cup {"item"}
  BY <1>1, SubCopyType
<1>3. c.ok \in BOOLEAN /\ w \in P \cup {NULL} /\ G \in Heaps(P) /\ c.n \in Nat /\ r.ok \in BOOLEAN
  BY <1>2 DEF Results, Halfway
<1>4. /\ dst \in P /\ h[dst].ref = 0 /\ E[dst].ref # 0 /\ E[dst].kind = from.kind /\ Sound(P, E)
      /\ \A o \in P : h[o].ref # 0 => E[o] = h[o]
      /\ \A o \in P : h[o].ref = 0 => \A q \in Members(E, o) : h[q].ref = 0
  BY DEF Copying, Apart
<1>5. CopyIsSound(P, E, c)
  BY <1>4, SubCopySound
<1>6. /\ Sound(P, G) /\ \A o \in P : E[o].ref # 0 => G[o] = E[o]
      /\ \A o \in P : E[o].ref = 0 => \A q \in Members(G, o) : E[q].ref = 0
      /\ w # NULL => E[w].ref = 0
  BY <1>4, <1>5 DEF CopyIsSound, Apart
<1>7. /\ ~r.ok => t = r
      /\ r.ok /\ ~c.ok => t = [ok |-> FALSE, h |-> PutAll(G, <<w>>), n |-> c.n]
      /\ r.ok /\ c.ok /\ from.kind = "object" => t = [ok |-> TRUE, n |-> c.n, h |-> WithMember(G, dst, k, w)]
      /\ r.ok /\ c.ok /\ from.kind # "object" => t = [ok |-> TRUE, n |-> c.n, h |-> WithItem(G, dst, w)]
  BY CopyMemberIs
<1> HIDE DEF c, t, k, E, G, w
<1>8. E \in Heaps(P) /\ \A o \in P : Members(G, o) \subseteq P
  BY <1>3, <1>4, MembersParts DEF Sound
<1>9. Closed(P, G, D)
  BY <1>6, <1>8 DEF Closed
<1>10. D \subseteq F
  BY <1>4
<1>11. Closed(P, G, F)
  <2> SUFFICES ASSUME NEW o \in F, NEW q \in Members(G, o) PROVE q \in F
    BY DEF Closed
  <2>1. q \in P
    BY <1>8
  <2>2. CASE E[o].ref = 0
    <3>1. q \in D
      BY <1>6, <2>1, <2>2
    <3> QED BY <1>10, <3>1
  <2>3. CASE E[o].ref # 0
    <3>1. G[o] = E[o]
      BY <1>6, <2>3
    <3>2. q \in Members(E, o)
      BY <1>3, <1>8, <3>1, MembersParts
    <3> QED BY <1>4, <2>1, <3>2
  <2> QED BY <2>2, <2>3
<1>12. dst \in F /\ dst \notin D /\ w \in D \cup {NULL}
  BY <1>3, <1>4, <1>6
<1>13. /\ G[dst].ref # 0 /\ G[dst].kind = from.kind
       /\ \A o \in P : h[o].ref # 0 => G[o] = h[o]
       /\ \A o \in F : Members(G, o) \subseteq F
  BY <1>4, <1>6, <1>11 DEF Closed
<1> HIDE DEF D
<1>14. ASSUME NEW H, Grown(P, G, H, dst, D, F) PROVE Copying(P, h, dst, from.kind, H)
  <2>1. /\ Sound(P, H) /\ H[dst].ref # 0 /\ H[dst].kind = from.kind
        /\ \A o \in P : h[o].ref # 0 => H[o] = h[o]
    BY <1>12, <1>13, <1>14 DEF Grown
  <2>2. ASSUME NEW o \in P, h[o].ref = 0, NEW q \in Members(H, o) PROVE h[q].ref = 0
    <3>1. Members(H, o) \subseteq Members(G, o) \cup D
      BY <1>14 DEF Grown
    <3> QED BY <1>10, <1>13, <2>2, <3>1
  <2> QED BY <1>4, <2>1, <2>2 DEF Copying, Apart
<1>15. ASSUME NEW H, Lessened(P, G, H, D) PROVE Copying(P, h, dst, from.kind, H)
  <2>1. Sound(P, H) /\ \A o \in P : Members(H, o) \subseteq Members(G, o)
    BY <1>6, <1>15, LessenedIsSound, LessenedMembers
  <2>2. \A o \in P \ D : H[o] = G[o]
    BY <1>15 DEF Lessened
  <2>3. H[dst].ref # 0 /\ H[dst].kind = from.kind /\ \A o \in P : h[o].ref # 0 => H[o] = h[o]
    BY <1>4, <1>10, <1>12, <1>13, <2>2
  <2>4. ASSUME NEW o \in P, h[o].ref = 0, NEW q \in Members(H, o) PROVE h[q].ref = 0
    BY <1>13, <2>1, <2>4
  <2> QED BY <1>4, <2>1, <2>3, <2>4 DEF Copying, Apart
<1>16. Copying(P, h, dst, from.kind, t.h)
  <2>1. CASE ~r.ok
    BY <1>7, <2>1 DEF E
  <2>2. CASE r.ok /\ ~c.ok
    <3>1. Lessened(P, G, PutAll(G, <<w>>), D)
      BY <1>3, <1>9, <1>12, PutOneLessens
    <3> QED BY <1>7, <1>15, <2>2, <3>1
  <2>3. CASE r.ok /\ c.ok /\ from.kind = "object"
    <3>1. Grown(P, G, WithMember(G, dst, k, w), dst, D, F)
      BY <1>2, <1>4, <1>6, <1>9, <1>11, <1>12, <1>13, <2>3, MemberIsSound
    <3> QED BY <1>7, <1>14, <2>3, <3>1
  <2>4. CASE r.ok /\ c.ok /\ from.kind # "object"
    <3>1. WithItem(G, dst, w) = [G EXCEPT ![dst].kids = Append(@, Member("item", w))]
      BY DEF WithItem
    <3>2. Grown(P, G, WithItem(G, dst, w), dst, D, {})
      <4>1. /\ G[dst].kind \in Containers /\ G[dst].kind # "object" /\ G[dst].ref # 0 /\ dst \in P
            /\ "item" \in Names \cup {"item"} /\ G[dst].kind # "object" /\ Sound(P, G) /\ Closed(P, G, D) /\ dst \notin D /\ w \in D \cup {NULL}
        BY <1>4, <1>6, <1>9, <1>12, <1>13, <2>4
      <4>2. Grown(P, G, [G EXCEPT ![dst].kids = Append(@, Member("item", w))], dst, D, {})
        BY ONLY Places(P), <4>1, ItemIsSound
      <4> QED BY <3>1, <4>2
    <3>3. Grown(P, G, WithItem(G, dst, w), dst, D, F)
      BY <3>2 DEF Grown
    <3> QED BY <1>7, <1>14, <2>4, <3>3
  <2> QED BY <1>3, <2>1, <2>2, <2>3, <2>4
<1> QED BY <1>16 DEF t

LEMMA CopyMembersSound ==
    ASSUME NEW P, Places(P), NEW copy, SoundCopies(P, copy), NEW from, from.kids \in Kids(P),
           from.kids # << >> => from.kind \in Containers, NEW E \in Heaps(P), NEW n \in Nat,
           NEW h, NEW dst, Copying(P, h, dst, from.kind, E)
    PROVE  Copying(P, h, dst, from.kind, CopyMembers(copy, from, dst, E, n).h)
<1> DEFINE N == Len(from.kids)
<1>1. copy \in Copiers(P) /\ dst \in P
  BY DEF SoundCopies, Copying
<1>2. N \in Nat
  BY SeqParts DEF Kids
<1>3. \E copied \in [0 .. N -> Halfway(P)] :
          /\ copied[0] = [ok |-> TRUE, h |-> E, n |-> n]
          /\ \A i \in 1 .. N : copied[i] = CopyMember(copy, from, dst, i, copied[i - 1])
          /\ CopyMembers(copy, from, dst, E, n) = copied[N]
  BY <1>1, CopyMembersIs
<1>4. PICK copied \in [0 .. N -> Halfway(P)] :
          /\ copied[0] = [ok |-> TRUE, h |-> E, n |-> n]
          /\ \A i \in 1 .. N : copied[i] = CopyMember(copy, from, dst, i, copied[i - 1])
          /\ CopyMembers(copy, from, dst, E, n) = copied[N]
  BY <1>3
<1>5. N > 0 => from.kind \in Containers
  OBVIOUS
<1> HIDE DEF N
<1> DEFINE T == {i \in Nat : i <= N => Copying(P, h, dst, from.kind, copied[i].h)}
<1>6. 0 \in T
  BY <1>4
<1>7. ASSUME NEW i \in Nat, i \in T PROVE i + 1 \in T
  <2> SUFFICES ASSUME i + 1 <= N PROVE Copying(P, h, dst, from.kind, copied[i + 1].h)
    OBVIOUS
  <2>1. i + 1 \in 1 .. N /\ (i + 1) - 1 = i /\ i \in 0 .. N /\ N > 0
    BY <1>2
  <2>2. Copying(P, h, dst, from.kind, copied[i].h) /\ copied[i] \in Halfway(P)
    BY <1>7, <2>1
  <2>3. copied[i + 1] = CopyMember(copy, from, dst, i + 1, copied[i])
    BY <1>4, <2>1
  <2>4. Copying(P, h, dst, from.kind, CopyMember(copy, from, dst, i + 1, copied[i]).h)
    BY <1>5, <2>1, <2>2, CopyMemberSound DEF N
  <2> QED BY <2>3, <2>4
<1> HIDE DEF T
<1>8. Nat \subseteq T
  BY <1>6, <1>7, InductionOn
<1> QED BY <1>2, <1>4, <1>8 DEF T

\* A value without members takes a place.
PlaceTaken(P, h, o, c, H) ==
    /\ Sound(P, h) /\ o \in P /\ c \in Cells(P) /\ CellOK(c) /\ c.kids = << >>
    /\ H = [h EXCEPT ![o] = c]

LEMMA NewIsSound ==
    ASSUME NEW P, NEW h, NEW o, NEW c, NEW H, PlaceTaken(P, h, o, c, H)
    PROVE  /\ Sound(P, H) /\ H[o] = c /\ \A q \in P : q # o => H[q] = h[q]
           /\ Members(H, o) = {} /\ \A q \in P : Members(H, q) \subseteq Members(h, q)
<1>0. /\ o \in P /\ c \in Cells(P) /\ CellOK(c) /\ c.kids = << >>
      /\ H = [h EXCEPT ![o] = c]
  BY DEF PlaceTaken
<1>1. h \in Heaps(P) /\ Loopless(P, h) /\ \A q \in P : CellOK(h[q])
  BY DEF Sound, PlaceTaken
<1>2. H \in Heaps(P) /\ H[o] = c /\ \A q \in P : q # o => H[q] = h[q]
  BY <1>0, <1>1 DEF Heaps
<1>3. Members(H, o) = {}
  <2>1. 1 .. Len(H[o].kids) = {}
    BY <1>0, <1>2
  <2> QED BY <1>0, <1>2, <2>1, MembersParts
<1>4. \A q \in P : Members(H, q) \subseteq Members(h, q)
  <2> SUFFICES ASSUME NEW q \in P, q # o, NEW x \in Members(H, q) PROVE x \in Members(h, q)
    BY <1>3
  <2>1. H[q] = h[q]
    BY <1>2
  <2>2. x # NULL /\ \E i \in 1 .. Len(h[q].kids) : h[q].kids[i].val = x
    <3>1. x # NULL /\ \E i \in 1 .. Len(H[q].kids) : H[q].kids[i].val = x
      BY ONLY <1>2, q \in P, x \in Members(H, q), MembersParts
    <3> QED BY ONLY <2>1, <3>1
  <2> QED BY ONLY <1>1, <2>2, q \in P, MembersParts
<1>5. Loopless(P, H)
  BY <1>1, <1>4, LooplessLess
<1>6. Sound(P, H)
  BY <1>0, <1>1, <1>2, <1>5 DEF Sound
<1> QED BY <1>2, <1>3, <1>4, <1>6

LEMMA CopyValueSound ==
    ASSUME NEW P, Places(P), NEW copy, SoundCopies(P, copy), NEW h \in Heaps(P), NEW src \in P, NEW n \in Nat
    PROVE  CopyIsSound(P, h, CopyValue(copy, h, src, n))
<1> DEFINE t == CopyValue(copy, h, src, n)
<1> SUFFICES ASSUME Sound(P, h) PROVE Apart(P, h, t.h) /\ (t.dst # NULL => h[t.dst].ref = 0)
  BY DEF CopyIsSound
<1>1. copy \in Copiers(P)
  BY DEF SoundCopies
<1>2. ValueCopied(P, copy, h, src, n, t)
  BY <1>1, CopyValueIs
<1> HIDE DEF t
<1>3. CASE t = [ok |-> FALSE, dst |-> NULL, h |-> h, n |-> 0]
  <2>1. t.h = h /\ t.dst = NULL
    BY <1>3
  <2> QED BY <2>1, ApartFromItself
<1>4. CASE t # [ok |-> FALSE, dst |-> NULL, h |-> h, n |-> 0]
  <2>1. PICK dst \in P, c \in Cells(P), H \in Heaps(P), r \in Halfway(P), ok \in BOOLEAN :
           /\ h[dst].ref = 0 /\ c.ref = 1 /\ c.kids = << >> /\ c = ShallowCopy(h, src)
           /\ H = [h EXCEPT ![dst] = c]
           /\ r = CopyMembers(copy, h[src], dst, H, n - 1) /\ n - 1 \in Nat
           /\ h[src].kids \in Kids(P) /\ t = [ok |-> ok, dst |-> dst, h |-> r.h, n |-> r.n]
    BY <1>2, <1>4 DEF ValueCopied
  <2>2. CellOK(h[src]) /\ h[src] \in Cells(P)
    BY DEF Sound, Heaps
  <2>3. c.kind = h[src].kind /\ c.data = IF h[src].data = NULL THEN NULL ELSE CString[h[src].data]
    BY <2>1 DEF ShallowCopy, NewValue
  <2>4. CellOK(c)
    <3>1. c.kind \in StringKinds => c.data \in Data
      BY <2>2, <2>3, ObjectAssumption DEF CellOK
    <3>2. c.kind \in Containers \cup {"none"} => c.data = NULL
      BY <2>2, <2>3 DEF CellOK
    <3>3. KeysOK(c.kind, c.kids)
      <4>1. 1 .. Len(c.kids) = {}
        BY <2>1
      <4> QED BY <4>1 DEF KeysOK
    <3> QED BY <2>1, <3>1, <3>2, <3>3 DEF CellOK
  <2>5. /\ Sound(P, H) /\ H[dst] = c /\ \A q \in P : q # dst => H[q] = h[q]
        /\ Members(H, dst) = {} /\ \A q \in P : Members(H, q) \subseteq Members(h, q)
    <3>1. PlaceTaken(P, h, dst, c, H)
      BY <2>1, <2>4 DEF PlaceTaken
    <3> QED BY ONLY <3>1, NewIsSound
  <2>6. Apart(P, h, H)
    <3>1. Apart(P, h, h)
      BY ApartFromItself
    <3>2. \A o \in P : h[o].ref # 0 => H[o] = h[o]
      BY <2>1, <2>5
    <3> QED BY <2>5, <3>1, <3>2 DEF Apart
  <2>7. Copying(P, h, dst, h[src].kind, H)
    BY <2>1, <2>3, <2>5, <2>6 DEF Copying
  <2>8. h[src].kids # << >> => h[src].kind \in Containers
    BY <2>2 DEF CellOK
  <2>9. Copying(P, h, dst, h[src].kind, r.h)
    BY <2>1, <2>7, <2>8, CopyMembersSound
  <2>10. t.h = r.h /\ t.dst = dst
    BY <2>1
  <2> QED BY <2>1, <2>9, <2>10 DEF Copying
<1> QED BY <1>3, <1>4

LEMMA CopyToSound ==
    ASSUME NEW P, Places(P), NEW h \in Heaps(P), NEW src \in P, NEW n \in Nat
    PROVE  CopyTo(h, src, n) \in Results(P) /\ CopyIsSound(P, h, CopyTo(h, src, n))
<1>1. PICK copy \in [0 .. n -> Copiers(P)] :
          /\ \A c \in Calls(P) : copy[0][c] = NoCopy(c)
          /\ \A d \in 1 .. n : \A c \in Calls(P) : copy[d][c] = CopyValue(copy[d - 1], c.h, c.src, c.n)
          /\ CopyTo(h, src, n) = copy[n][Call(h, src, n)]
  BY CopyToIs
<1> DEFINE T == {d \in Nat : d <= n => SoundCopies(P, copy[d])}
<1>2. 0 \in T
  <2> SUFFICES ASSUME NEW c \in Calls(P) PROVE CopyIsSound(P, c.h, copy[0][c])
    BY <1>1 DEF SoundCopies
  <2>1. NoCopy(c).h = c.h /\ NoCopy(c).dst = NULL
    BY NoCopyType
  <2>2. CopyIsSound(P, c.h, NoCopy(c))
    BY <2>1, ApartFromItself DEF CopyIsSound
  <2> QED BY <1>1, <2>2
<1>3. ASSUME NEW d \in Nat, d \in T PROVE d + 1 \in T
  <2> SUFFICES ASSUME d + 1 <= n PROVE SoundCopies(P, copy[d + 1])
    OBVIOUS
  <2>1. SoundCopies(P, copy[d]) /\ d + 1 \in 1 .. n /\ (d + 1) - 1 = d /\ d + 1 \in 0 .. n
    BY <1>3
  <2>2. ASSUME NEW c \in Calls(P) PROVE CopyIsSound(P, c.h, copy[d + 1][c])
    <3>1. c.h \in Heaps(P) /\ c.src \in P /\ c.n \in Nat
      BY CallParts
    <3>2. CopyIsSound(P, c.h, CopyValue(copy[d], c.h, c.src, c.n))
      BY <2>1, <3>1, CopyValueSound
    <3>3. copy[d + 1][c] = CopyValue(copy[d], c.h, c.src, c.n)
      BY <1>1, <2>1
    <3> QED BY <3>2, <3>3
  <2>3. copy[d + 1] \in Copiers(P)
    BY <2>1
  <2> QED BY <2>2, <2>3 DEF SoundCopies
<1> HIDE DEF T
<1>4. Nat \subseteq T
  BY <1>2, <1>3, InductionOn
<1>5. SoundCopies(P, copy[n])
  BY <1>4 DEF T
<1>6. Call(h, src, n) \in Calls(P) /\ Call(h, src, n).h = h
  BY CallIs
<1>7. copy[n][Call(h, src, n)] \in Results(P)
  BY <1>5, <1>6 DEF SoundCopies, Copiers
<1> QED BY <1>1, <1>5, <1>6, <1>7 DEF SoundCopies

LEMMA AllIsClosed == ASSUME NEW P, NEW h \in Heaps(P) PROVE Closed(P, h, P)
  BY MembersParts DEF Closed

LEMMA CopiedIsSound ==
    ASSUME NEW P, Places(P), NEW h, Sound(P, h), NEW src \in P, NEW n \in Nat
    PROVE  Sound(P, Copied(h, src, n).h)
<1> DEFINE r == CopyTo(h, src, n)
<1>1. h \in Heaps(P)
  BY DEF Sound
<1>2. r \in Results(P) /\ CopyIsSound(P, h, r)
  BY <1>1, CopyToSound
<1>3. r.ok => Copied(h, src, n).h = r.h
  BY DEF Copied
<1>4. ~r.ok => Copied(h, src, n) = [r EXCEPT !.h = PutAll(r.h, <<r.dst>>), !.dst = NULL]
  BY DEF Copied
<1> HIDE DEF r
<1>5. r.h \in Heaps(P) /\ r.dst \in P \cup {NULL} /\ Sound(P, r.h)
  BY <1>2 DEF Results, CopyIsSound, Apart
<1>6. ~r.ok => Copied(h, src, n).h = PutAll(r.h, <<r.dst>>)
  BY <1>2, <1>4 DEF Results
<1>7. Sound(P, PutAll(r.h, <<r.dst>>))
  BY <1>5, AllIsClosed, PutOneLessens, LessenedIsSound
<1> QED BY <1>3, <1>5, <1>6, <1>7

-----------------------------------------------------------------------------
(***************************************************************************)
(* The trees through every operation                                        *)
(***************************************************************************)

TreeInv == CountInv /\ Sound(Objs, heap)

LEMMA TreeInit == ObjectInit => TreeInv
<1> SUFFICES ASSUME ObjectInit PROVE Sound(Objs, heap)
  BY CountInit DEF TreeInv
<1>1. heap \in Heaps(Objs) /\ \A o \in Objs : heap[o] = FreeCell
  BY FreeIsCell DEF ObjectInit, Heaps
<1>2. \A o \in Objs : Members(heap, o) = {}
  <2> SUFFICES ASSUME NEW o \in Objs PROVE Members(heap, o) = {}
    OBVIOUS
  <2>1. heap[o].kids = << >>
    BY <1>1, FreeIsCell
  <2>2. 1 .. Len(heap[o].kids) = {}
    BY <2>1
  <2> QED BY <1>1, <2>2, MembersParts
<1>3. Ranked(Objs, heap, 0, [o \in Objs |-> 0])
  BY <1>2 DEF Ranked
<1>4. Loopless(Objs, heap)
  BY <1>3 DEF Loopless
<1> QED BY <1>1, <1>4, FreeCellOK DEF Sound

LEMMA TreeNew ==
    ASSUME Sound(Objs, heap), NEW o \in Objs, NewObject(o)
    PROVE  Sound(Objs, heap')
<1>1. PICK kind, d : /\ heap' = [heap EXCEPT ![o] = NewValue(kind, d)]
                     /\ (kind \in Containers /\ d = NULL) \/ (kind \in StringKinds /\ d \in Data)
  BY DEF NewObject
<1> DEFINE c == NewValue(kind, d)
<1>2. << >> \in Seq([key : Names \cup {"item"}, val : Objs \cup {NULL}])
  OBVIOUS
<1>3. c.ref = 1 /\ c.kind = kind /\ c.data = d /\ c.kids = << >>
  BY DEF NewValue
<1>4. c \in Cells(Objs)
  BY <1>1, <1>2 DEF NewValue, Cells
<1>5. CellOK(c)
  <2>1. 1 .. Len(c.kids) = {}
    BY <1>3
  <2> HIDE DEF c
  <2>2. KeysOK(kind, c.kids)
    BY <2>1 DEF KeysOK
  <2> QED BY <1>1, <1>3, <2>2, ObjectAssumption DEF CellOK, Containers, StringKinds
<1> HIDE DEF c
<1>6. PlaceTaken(Objs, heap, o, c, heap')
  BY <1>1, <1>3, <1>4, <1>5 DEF PlaceTaken, c
<1> QED BY ONLY <1>6, NewIsSound

LEMMA TreeGet ==
    ASSUME Sound(Objs, heap), NEW o \in Objs, GetObject(o)
    PROVE  Sound(Objs, heap')
<1> DEFINE n == heap[o].ref + 1
<1>1. heap \in Heaps(Objs)
  BY DEF Sound
<1>2. n \in Nat /\ n # 0
  BY <1>1, CellParts
<1>3. heap' = [heap EXCEPT ![o].ref = n]
  BY DEF GetObject
<1> HIDE DEF n
<1>4. /\ heap' \in Heaps(Objs) /\ heap'[o].ref = n /\ \A p \in Objs : p # o => heap'[p] = heap[p]
      /\ \A p \in Objs : heap'[p].kids = heap[p].kids /\ heap'[p].kind = heap[p].kind /\ heap'[p].data = heap[p].data
  <2>1. heap' \in Heaps(Objs)
    BY <1>1, <1>2, <1>3, WithRef
  <2>2. heap'[o].ref = n /\ \A p \in Objs : p # o => heap'[p] = heap[p]
    BY <1>1, <1>2, <1>3, WithRef
  <2>3. \A p \in Objs : heap'[p].kids = heap[p].kids /\ heap'[p].kind = heap[p].kind /\ heap'[p].data = heap[p].data
    BY <1>1, <1>2, <1>3, WithRef
  <2> QED BY <2>1, <2>2, <2>3
<1>5. \A p \in Objs : CellLessened(heap[p], heap'[p])
  BY <1>2, <1>4 DEF CellLessened
<1>6. Lessened(Objs, heap, heap', Objs)
  BY <1>1, <1>4, <1>5 DEF Lessened
<1> QED BY <1>6, LessenedIsSound

LEMMA TreePut ==
    ASSUME Sound(Objs, heap), NEW o \in Objs, PutObject(o)
    PROVE  Sound(Objs, heap')
<1>1. heap \in Heaps(Objs) /\ Places(Objs)
  BY ObjsArePlaces DEF Sound
<1>2. Lessened(Objs, heap, PutAll(heap, <<o>>), Objs)
  BY <1>1, AllIsClosed, PutOneLessens
<1>3. heap' = PutAll(heap, <<o>>)
  BY DEF PutObject
<1> QED BY <1>2, <1>3, LessenedIsSound

\* The caller makes no loop.
LEMMA GivenFromBelow ==
    ASSUME Sound(Objs, heap), NEW p \in Objs, NEW v \in Givable(p)
    PROVE  \E D : Closed(Objs, heap, D) /\ p \notin D /\ v \in D \cup {NULL}
<1>1. heap \in Heaps(Objs) /\ Places(Objs)
  BY ObjsArePlaces DEF Sound
<1>2. CASE v = NULL
  <2>1. Closed(Objs, heap, {})
    BY DEF Closed
  <2> QED BY <1>2, <2>1
<1>3. CASE v # NULL
  <2>1. v \in Objs /\ p \notin Below(heap, {v})
    BY <1>3 DEF Givable
  <2>2. Closed(Objs, heap, Below(heap, {v})) /\ v \in Below(heap, {v})
    BY <1>1, <2>1, BelowIsClosed
  <2> QED BY <2>1, <2>2
<1> QED BY <1>2, <1>3

LEMMA TreeObjectAdd ==
    ASSUME TreeInv, NEW p \in Objs, NEW k \in Names, ObjectAdd(p, k)
    PROVE  Sound(Objs, heap')
<1>1. Sound(Objs, heap) /\ CountInv /\ heap \in Heaps(Objs) /\ Places(Objs)
  BY ObjsArePlaces DEF TreeInv, Sound
<1>2. PICK v \in Givable(p) : heap' = WithMember(heap, p, k, v)
  BY DEF ObjectAdd
<1>3. heap[p].ref # 0 /\ heap[p].kind = "object"
  BY <1>1, ReachedIsHeld DEF ObjectAdd
<1>4. PICK D : Closed(Objs, heap, D) /\ p \notin D /\ v \in D \cup {NULL}
  BY <1>1, GivenFromBelow
<1>5. Closed(Objs, heap, Objs) /\ k \in Names \cup {"item"}
  BY <1>1, AllIsClosed
<1>6. Grown(Objs, heap, WithMember(heap, p, k, v), p, D, Objs)
  BY ONLY <1>1, <1>3, <1>4, <1>5, p \in Objs, MemberIsSound
<1> QED BY <1>2, <1>6 DEF Grown

LEMMA TreeArrayAdd ==
    ASSUME TreeInv, NEW p \in Objs, ArrayAdd(p)
    PROVE  Sound(Objs, heap')
<1>1. Sound(Objs, heap) /\ CountInv /\ Places(Objs)
  BY ObjsArePlaces DEF TreeInv
<1>2. PICK v \in Givable(p) : heap' = WithItem(heap, p, v)
  BY DEF ArrayAdd
<1>3. heap[p].ref # 0 /\ heap[p].kind \in Containers /\ heap[p].kind # "object"
  BY <1>1, ReachedIsHeld DEF ArrayAdd, Containers
<1>4. PICK D : Closed(Objs, heap, D) /\ p \notin D /\ v \in D \cup {NULL}
  BY <1>1, GivenFromBelow
<1>5. "item" \in Names \cup {"item"}
  OBVIOUS
<1>6. Grown(Objs, heap, [heap EXCEPT ![p].kids = Append(@, Member("item", v))], p, D, {})
  BY ONLY <1>1, <1>3, <1>4, <1>5, p \in Objs, ItemIsSound
<1> QED BY <1>2, <1>6 DEF Grown, WithItem

LEMMA TreeDelete ==
    ASSUME Sound(Objs, heap), NEW p \in Objs, NEW i \in DOMAIN heap[p].kids, DeleteMember(p, i)
    PROVE  Sound(Objs, heap')
<1> DEFINE s == heap[p].kids
           w == s[i].val
           G == PutAll(heap, <<w>>)
           ks == RemoveAt(s, i)
<1>1. heap \in Heaps(Objs) /\ Places(Objs) /\ CellOK(heap[p])
  BY ObjsArePlaces DEF Sound
<1>2. s \in Kids(Objs) /\ DOMAIN s = 1 .. Len(s) /\ Len(s) \in Nat /\ i \in 1 .. Len(s) /\ s # << >>
  <2>1. s \in Kids(Objs) /\ DOMAIN s = 1 .. Len(s) /\ Len(s) \in Nat
    BY <1>1, CellParts
  <2>2. i \in 1 .. Len(s)
    BY <2>1
  <2>3. s # << >>
    BY <2>2
  <2> QED BY <2>1, <2>2, <2>3
<1>3. PICK N, rank : Ranked(Objs, heap, N, rank)
  BY DEF Sound, Loopless
<1>4. \A o \in Objs : rank[o] \in Nat /\ \A q \in Members(heap, o) : q \in Objs /\ rank[q] < rank[o]
  BY <1>1, <1>3, MembersParts DEF Ranked
<1> DEFINE E == {o \in Objs : rank[o] < rank[p]}
<1>5. Closed(Objs, heap, E) /\ p \notin E
  BY <1>4 DEF Closed
<1>6. w \in E \cup {NULL}
  <2>1. w = NULL \/ w \in Members(heap, p)
    BY <1>1, <1>2, MembersParts
  <2> QED BY <1>4, <2>1
<1>7. heap' = [G EXCEPT ![p].kids = RemoveAt(@, i)]
  BY DEF DeleteMember
<1> HIDE DEF E, w
<1>8. Lessened(Objs, heap, G, E)
  BY <1>1, <1>5, <1>6, PutOneLessens
<1> HIDE DEF G
<1>9. G \in Heaps(Objs) /\ Sound(Objs, G) /\ G[p] = heap[p]
  BY <1>5, <1>8, LessenedIsSound DEF Lessened
<1>10. heap' = [G EXCEPT ![p].kids = ks]
  BY <1>7, <1>9
<1>11. G[p].kind \in Containers /\ G[p].ref # 0
  BY <1>1, <1>2, <1>9, FreeIsCell DEF CellOK
<1> DEFINE R == [key : Names \cup {"item"}, val : Objs \cup {NULL}]
<1>12. /\ ks \in Kids(Objs) /\ Len(ks) = Len(s) - 1
       /\ \A j \in 1 .. Len(s) - 1 : ks[j] = IF j < i THEN s[j] ELSE s[j + 1]
  <2> HIDE DEF s
  <2> QED BY <1>2, RemovedAt DEF Kids
<1>13. \A l \in 1 .. Len(ks) : ks[l].val \in {} \cup {NULL} \cup Members(G, p)
  <2>1. \A l \in 1 .. Len(s) : s[l].val \in {NULL} \cup Members(G, p)
    BY <1>9, MembersParts
  <2> HIDE DEF ks, s
  <2> QED BY <1>2, <1>12, <2>1
<1>14. KeysOK(G[p].kind, ks)
  <2> DEFINE from(x) == IF x < i THEN x ELSE x + 1
  <2>1. KeysOK(G[p].kind, s)
    BY <1>1, <1>9 DEF CellOK
  <2> HIDE DEF ks, s
  <2>2. \A x \in 1 .. Len(ks) : from(x) \in 1 .. Len(s) /\ ks[x] = s[from(x)]
    BY <1>2, <1>12
  <2>3. \A l, j \in 1 .. Len(ks) : from(l) = from(j) => l = j
    BY <1>2
  <2> HIDE DEF from
  <2>4. G[p].kind = "object" => \A l, j \in 1 .. Len(ks) : ks[l].key = ks[j].key => l = j
    BY <2>1, <2>2, <2>3 DEF KeysOK
  <2>5. G[p].kind = "array" => \A l \in 1 .. Len(ks) : ks[l].key = "item"
    BY <2>1, <2>2 DEF KeysOK
  <2> QED BY <2>4, <2>5 DEF KeysOK
<1>15. KidsAreSet(Objs, G, p, ks, heap')
  <2> HIDE DEF ks
  <2> QED BY <1>9, <1>10, <1>12 DEF KidsAreSet
<1>16. Closed(Objs, G, {})
  BY DEF Closed
<1> HIDE DEF ks, s
<1>17. Grown(Objs, G, heap', p, {}, {})
  BY <1>1, <1>9, <1>11, <1>13, <1>14, <1>15, <1>16, KidsAreSound
<1> QED BY <1>17 DEF Grown

LEMMA TreeCopy ==
    ASSUME Sound(Objs, heap), NEW src \in Objs, DeepCopy(src)
    PROVE  Sound(Objs, heap')
<1>1. PICK n \in 0 .. Cardinality(Objs) : heap' = Copied(heap, src, n).h
  BY DEF DeepCopy
<1>2. n \in Nat /\ Places(Objs)
  BY ObjsArePlaces
<1>3. Sound(Objs, Copied(heap, src, n).h)
  BY <1>2, CopiedIsSound
<1> QED BY <1>1, <1>3

LEMMA TreeNext == TreeInv /\ [ObjectNext]_objectVars => TreeInv'
<1> SUFFICES ASSUME TreeInv, [ObjectNext]_objectVars PROVE TreeInv'
  OBVIOUS
<1>1. CountInv' /\ Sound(Objs, heap)
  BY CountNext DEF TreeInv
<1>2. Sound(Objs, heap')
  <2>1. CASE UNCHANGED objectVars
    BY <1>1, <2>1 DEF objectVars
  <2>2. CASE ObjectNext
    <3>1. PICK o \in Objs :
             \/ NewObject(o) \/ GetObject(o) \/ PutObject(o) \/ ArrayAdd(o) \/ DeepCopy(o)
             \/ \E k \in Names : ObjectAdd(o, k)
             \/ \E i \in DOMAIN heap[o].kids : DeleteMember(o, i)
      BY <2>2 DEF ObjectNext
    <3>2. CASE NewObject(o)
      BY <1>1, <3>2, TreeNew
    <3>3. CASE GetObject(o)
      BY <1>1, <3>3, TreeGet
    <3>4. CASE PutObject(o)
      BY <1>1, <3>4, TreePut
    <3>5. CASE ArrayAdd(o)
      BY <3>5, TreeArrayAdd
    <3>6. CASE DeepCopy(o)
      BY <1>1, <3>6, TreeCopy
    <3>7. CASE \E k \in Names : ObjectAdd(o, k)
      BY <3>7, TreeObjectAdd
    <3>8. CASE \E i \in DOMAIN heap[o].kids : DeleteMember(o, i)
      BY <1>1, <3>8, TreeDelete
    <3> QED BY <3>1, <3>2, <3>3, <3>4, <3>5, <3>6, <3>7, <3>8
  <2> QED BY <2>1, <2>2
<1> QED BY <1>1, <1>2 DEF TreeInv

LEMMA TreeImplies == TreeInv => EqualIsSameValue
<1> SUFFICES ASSUME Sound(Objs, heap), NEW a \in Live(heap), NEW b \in Live(heap)
             PROVE  EqualTrees(a, b) = (JsonValue(heap, a) = JsonValue(heap, b))
  BY DEF TreeInv, EqualIsSameValue
<1>1. a \in Objs /\ b \in Objs
  BY DEF Live, Sound, Heaps
<1> QED BY <1>1, ObjsArePlaces, EqualIsOfValues

\* In every heap a program can make, json_object_equal holds of two values just
\* when they stand for the same JSON value, the order of the members of an
\* object left aside (json-c/json_object.c).
THEOREM EqualIsSameValueHolds == ObjectSpec => []EqualIsSameValue
<1>1. ObjectInit => TreeInv
  BY TreeInit
<1>2. TreeInv /\ [ObjectNext]_objectVars => TreeInv'
  BY TreeNext
<1>3. TreeInv => EqualIsSameValue
  BY TreeImplies
<1> QED BY <1>1, <1>2, <1>3, PTL DEF ObjectSpec

=============================================================================
