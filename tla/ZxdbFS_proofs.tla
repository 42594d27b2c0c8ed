--------------------------- MODULE ZxdbFS_proofs -----------------------------
(***************************************************************************)
(* Theorems about ZxdbFS, for every value of its constants.                 *)
(*                                                                          *)
(* Every step leaves the filesystem cache as it is, empties it, or lays a   *)
(* tree over it, and the trees the builders make fit any cache the daemon   *)
(* can have: all the theorems rest on that.  Closed is inductive once entries  *)
(* are known by the names of their paths (NamedByKind), for then a tree     *)
(* laid over a listed path puts an entry of the same kind there.            *)
(***************************************************************************)
EXTENDS ZxdbFS, SequenceTheorems, TLAPS

\* A row stands for a cached entry, and both are files exactly when the name is
\* that of a file.
RowOK(c, row) ==
    /\ row.fname \in DOMAIN c
    /\ IsFileType(row.type) <=> BaseName(row.fname) \in Files
    /\ IsFileType(c[row.fname].type) <=> BaseName(row.fname) \in Files

Closed(c) ==
    \A d \in DOMAIN c \ {SearchDir} : \A i \in DOMAIN c[d].files : RowOK(c, c[d].files[i])

NamedByKind(c) ==
    \A p \in DOMAIN c :
        /\ IsFileType(c[p].type) => BaseName(p) \in Files
        /\ c[p].type = "dirstub" => BaseName(p) \in Games

CacheType(c) == DOMAIN c \subseteq Path /\ c \in [DOMAIN c -> Entry]

\* A cache, or a tree, whose entries list what they hold.
Sound(c) == CacheType(c) /\ Closed(c) /\ NamedByKind(c)

\* Where the tree t covers c it puts a file exactly on the name of a file.
Fits(c, t) ==
    \A k \in DOMAIN c \cap DOMAIN t : IsFileType(t[k].type) <=> BaseName(k) \in Files

\* The inductive invariant of all that follows.
IInv == TypeOK /\ Sound(fscache)

-----------------------------------------------------------------------------
LEMMA Longer ==
    \A m, n \in Nat : n > 1 => n # 1 /\ (m > n => m # 1 /\ m # 2)
  OBVIOUS

LEMMA PathAppend ==
    ASSUME NEW p \in Path, NEW n \in Name
    PROVE  /\ Append(p, n) \in Path
           /\ BaseName(Append(p, n)) = n
           /\ Len(Append(p, n)) = Len(p) + 1
           /\ Append(p, n) # p
           /\ Len(p) \in Nat \ {0}
           /\ Append(p, n)[1] = p[1]
  BY AppendProperties, EmptySeq, LenProperties DEF Path, BaseName

LEMMA PathBase ==
    ASSUME NEW p \in Path
    PROVE  BaseName(p) \in Name
  BY EmptySeq, ElementOfSeq DEF Path, BaseName

LEMMA Names ==
    /\ Games \subseteq Name
    /\ Files \subseteq Name
    /\ {"POKES", "SCRSHOT", "by-letter", "search"} \subseteq Name
    /\ Letters \subseteq Name
  BY DEF Name

LEMMA EmptyIsSound == Sound(EmptyCache) /\ DOMAIN EmptyCache = {}
  BY DEF Sound, EmptyCache, CacheType, Closed, NamedByKind

LEMMA OverlaySound ==
    ASSUME NEW c, NEW t, Sound(c), Sound(t), Fits(c, t)
    PROVE  /\ Sound(Overlay(c, t))
           /\ DOMAIN Overlay(c, t) = DOMAIN c \cup DOMAIN t
           /\ \A p \in DOMAIN c : IsFileType(c[p].type) => IsFileType(Overlay(c, t)[p].type)
<1> DEFINE o == Overlay(c, t)
<1>1. /\ DOMAIN o = DOMAIN c \cup DOMAIN t
      /\ \A k \in DOMAIN t : o[k] = t[k]
      /\ \A k \in DOMAIN c \ DOMAIN t : o[k] = c[k]
  BY DEF Overlay
<1>2. CacheType(o)
  <2>1. DOMAIN o \subseteq Path
    BY <1>1 DEF Sound, CacheType
  <2>2. \A k \in DOMAIN o : o[k] \in Entry
    BY <1>1 DEF Sound, CacheType
  <2>3. o = [k \in DOMAIN o |-> o[k]]
    BY DEF Overlay
  <2> QED BY <2>1, <2>2, <2>3 DEF CacheType
<1>3. NamedByKind(o)
  BY <1>1 DEF Sound, NamedByKind
<1>4. Closed(o)
  <2> SUFFICES ASSUME NEW d \in DOMAIN o \ {SearchDir}, NEW i \in DOMAIN o[d].files
               PROVE  RowOK(o, o[d].files[i])
    BY DEF Closed
  <2> DEFINE row == o[d].files[i]
  <2>1. CASE d \in DOMAIN t
    <3>1. RowOK(t, row)
      BY <2>1, <1>1 DEF Sound, Closed
    <3> QED BY <3>1, <1>1 DEF RowOK
  <2>2. CASE d \notin DOMAIN t
    <3>1. RowOK(c, row)
      BY <2>2, <1>1 DEF Sound, Closed
    <3> QED BY <3>1, <1>1 DEF RowOK, Fits
  <2> QED BY <2>1, <2>2
<1>5. \A p \in DOMAIN c : IsFileType(c[p].type) => IsFileType(o[p].type)
  BY <1>1 DEF Sound, NamedByKind, Fits
<1> QED BY <1>1, <1>2, <1>3, <1>4, <1>5 DEF Sound

-----------------------------------------------------------------------------
(***************************************************************************)
(* The trees.                                                               *)
(***************************************************************************)

\* A function on 1..n into S is a sequence over S.
LEMMA FunIsSeq ==
    ASSUME NEW S, NEW n \in Nat, NEW f, f = [i \in 1 .. n |-> f[i]],
           \A i \in 1 .. n : f[i] \in S
    PROVE  f \in Seq(S)
  BY SeqDef

LEMMA StubTreeSound ==
    ASSUME NEW key \in Path, NEW path \in Path, NEW games \in Seq(Games)
    PROVE  LET t == StubTree(key, path, games)
           IN  /\ Sound(t)
               /\ key \in DOMAIN t
               /\ \A k \in DOMAIN t : ~IsFileType(t[k].type)
               /\ \A k \in DOMAIN t \ {key} :
                    /\ BaseName(k) \in Games
                    /\ \E g \in Games : k = Append(path, g)
<1> DEFINE t == StubTree(key, path, games)
           rows == StubRows(path, games)
<1> HIDE DEF t, rows
<1>1. \A i \in DOMAIN games : games[i] \in Games /\ games[i] \in Name /\ games[i] \notin Files
  BY ElementOfSeq, LenProperties, DisjointAssumption, Names
<1>2. \A i \in DOMAIN games : /\ Append(path, games[i]) \in Path
                              /\ BaseName(Append(path, games[i])) = games[i]
  BY <1>1, PathAppend
<1>3. /\ DOMAIN rows = DOMAIN games
      /\ \A i \in DOMAIN games : rows[i] = Row(Append(path, games[i]), "dirstub")
  BY DEF StubRows, rows
<1>4. rows \in Seq([fname : Path, type : Kinds])
  <2>1. \A i \in DOMAIN games : rows[i] \in [fname : Path, type : Kinds]
    <3> SUFFICES ASSUME NEW i \in DOMAIN games
                 PROVE  rows[i] \in [fname : Path, type : Kinds]
      OBVIOUS
    <3>1. rows[i] = Row(Append(path, games[i]), "dirstub") /\ Append(path, games[i]) \in Path
      BY <1>2, <1>3
    <3> QED BY <3>1 DEF Row, Kinds
  <2>2. rows = [i \in 1 .. Len(games) |-> rows[i]] /\ Len(games) \in Nat
    BY LenProperties DEF StubRows, rows
  <2> QED BY <2>1, <2>2, <1>3, LenProperties, FunIsSeq
<1>5. /\ \A k \in DOMAIN t : k = key \/ \E i \in DOMAIN games : k = Append(path, games[i])
      /\ key \in DOMAIN t
      /\ \A i \in DOMAIN games : Append(path, games[i]) \in DOMAIN t
      /\ t[key] = DirEntry(rows)
      /\ \A k \in DOMAIN t \ {key} : t[k] = StubEntry
      /\ t = [k \in DOMAIN t |-> t[k]]
  BY DEF StubTree, t, rows
<1>6. CacheType(t)
  <2>1. StubEntry \in Entry
    BY EmptySeq DEF StubEntry, Entry, Kinds
  <2>2. DirEntry(rows) \in Entry
    BY <1>4 DEF DirEntry, Entry, Kinds
  <2> QED BY <1>2, <1>5, <2>1, <2>2 DEF CacheType
<1>7. \A k \in DOMAIN t : ~IsFileType(t[k].type)
  BY <1>5 DEF IsFileType, DirEntry, StubEntry
<1>8. \A k \in DOMAIN t \ {key} : /\ BaseName(k) \in Games
                                  /\ \E g \in Games : k = Append(path, g)
  <2> SUFFICES ASSUME NEW k \in DOMAIN t \ {key}
               PROVE  BaseName(k) \in Games /\ \E g \in Games : k = Append(path, g)
    OBVIOUS
  <2>1. PICK i \in DOMAIN games : k = Append(path, games[i])
    BY <1>5
  <2> QED BY <2>1, <1>1, <1>2
<1>9. NamedByKind(t)
  BY <1>5, <1>7, <1>8 DEF NamedByKind, DirEntry
<1>10. Closed(t)
  <2> SUFFICES ASSUME NEW d \in DOMAIN t, NEW i \in DOMAIN t[d].files
               PROVE  RowOK(t, t[d].files[i])
    BY DEF Closed
  <2>1. d = key
    BY <1>5 DEF StubEntry
  <2>2. i \in DOMAIN games /\ t[d].files[i] = Row(Append(path, games[i]), "dirstub")
    BY <2>1, <1>3, <1>5 DEF DirEntry
  <2> QED BY <2>2, <1>1, <1>2, <1>5, <1>7 DEF RowOK, Row, IsFileType
<1> QED BY <1>5, <1>6, <1>7, <1>8, <1>9, <1>10 DEF Sound, t

LEMMA GameNamesFacts ==
    ASSUME NEW g \in Games
    PROVE  /\ Sections(g) \in Seq({"POKES", "SCRSHOT"})
           /\ GameNames(g) \in Seq(Name)
           /\ \A i \in DOMAIN GameNames(g) :
                \/ GameNames(g)[i] \in Files
                \/ \E j \in DOMAIN Sections(g) : GameNames(g)[i] = Sections(g)[j]
           /\ \A n : Section(g, n) \in Seq(Files) /\ Section(g, n) \in Seq(Name)
<1> DEFINE S == {"POKES", "SCRSHOT"}
           pokes == IF Pokes[g] = << >> THEN << >> ELSE <<"POKES">>
           screens == IF Screens[g] = << >> THEN << >> ELSE <<"SCRSHOT">>
<1>1. /\ pokes \in Seq(S)
      /\ screens \in Seq(S)
  <2>1. << >> \in Seq(S)
    BY EmptySeq
  <2>2. <<"POKES">> \in Seq(S) /\ <<"SCRSHOT">> \in Seq(S)
    OBVIOUS
  <2> QED BY <2>1, <2>2
<1>2. Sections(g) \in Seq(S)
  <2> HIDE DEF pokes, screens
  <2>1. Sections(g) = pokes \o screens
    BY DEF Sections, pokes, screens
  <2> QED BY <1>1, <2>1, ConcatProperties
<1>3. Sections(g) \in Seq(Name)
  BY <1>2, SeqMonotonic, Names
<1>4. /\ Releases[g] \in Seq(Files)
      /\ Releases[g] \in Seq(Name)
  BY NamesAssumption, SeqMonotonic, Names
<1>5. GameNames(g) = Releases[g] \o Sections(g)
  BY DEF GameNames
<1>6. /\ GameNames(g) \in Seq(Name)
      /\ Len(GameNames(g)) = Len(Releases[g]) + Len(Sections(g))
      /\ \A i \in 1 .. Len(Releases[g]) + Len(Sections(g)) : GameNames(g)[i] =
            IF i <= Len(Releases[g]) THEN Releases[g][i] ELSE Sections(g)[i - Len(Releases[g])]
  BY <1>3, <1>4, <1>5, ConcatProperties
<1>7. ASSUME NEW i \in DOMAIN GameNames(g)
      PROVE  \/ GameNames(g)[i] \in Files
             \/ \E j \in DOMAIN Sections(g) : GameNames(g)[i] = Sections(g)[j]
  <2>1. /\ Len(Releases[g]) \in Nat
        /\ Len(Sections(g)) \in Nat
        /\ DOMAIN Sections(g) = 1 .. Len(Sections(g))
        /\ i \in 1 .. Len(Releases[g]) + Len(Sections(g))
    BY <1>3, <1>4, <1>6, LenProperties
  <2>2. CASE i <= Len(Releases[g])
    <3>1. i \in 1 .. Len(Releases[g]) /\ GameNames(g)[i] = Releases[g][i]
      BY <2>1, <2>2, <1>6
    <3> QED BY <3>1, <1>4, ElementOfSeq
  <2>3. CASE i > Len(Releases[g])
    <3>1. /\ i - Len(Releases[g]) \in DOMAIN Sections(g)
          /\ GameNames(g)[i] = Sections(g)[i - Len(Releases[g])]
      BY <2>1, <2>3, <1>6
    <3> QED BY <3>1
  <2> QED BY <2>1, <2>2, <2>3
<1>8. \A n : Section(g, n) \in Seq(Files) /\ Section(g, n) \in Seq(Name)
  BY NamesAssumption, SeqMonotonic, Names DEF Section
<1> QED BY <1>2, <1>6, <1>7, <1>8

LEMMA GameTreeSound ==
    ASSUME NEW root \in Path, NEW g \in Games, BaseName(root) \notin Files,
           BaseName(root) \in Games
    PROVE  LET t == GameTree(root, g)
           IN  /\ Sound(t)
               /\ root \in DOMAIN t
               /\ \A k \in DOMAIN t : IsFileType(t[k].type) <=> BaseName(k) \in Files
               /\ \A k \in DOMAIN t \ {root} : Len(k) > Len(root)
<1> DEFINE t == GameTree(root, g)
           dirs == GameDirs(root, g)
           names(d) == NamesIn(root, g, d)
<1> HIDE DEF t, dirs, names
<1>1. \A j \in DOMAIN Sections(g) : Sections(g)[j] \in {"POKES", "SCRSHOT"}
  BY GameNamesFacts, ElementOfSeq, LenProperties
<1>2. \A j \in DOMAIN Sections(g) :
            /\ Sections(g)[j] \in Name \ Files
            /\ Append(root, Sections(g)[j]) \in Path
            /\ BaseName(Append(root, Sections(g)[j])) = Sections(g)[j]
            /\ Append(root, Sections(g)[j]) # root
            /\ Len(Append(root, Sections(g)[j])) = Len(root) + 1
            /\ Append(root, Sections(g)[j]) \in dirs
  <2> SUFFICES ASSUME NEW j \in DOMAIN Sections(g)
               PROVE  /\ Sections(g)[j] \in Name \ Files
                      /\ Append(root, Sections(g)[j]) \in Path
                      /\ BaseName(Append(root, Sections(g)[j])) = Sections(g)[j]
                      /\ Append(root, Sections(g)[j]) # root
                      /\ Len(Append(root, Sections(g)[j])) = Len(root) + 1
                      /\ Append(root, Sections(g)[j]) \in dirs
    OBVIOUS
  <2>1. Sections(g)[j] \in Name \ Files
    BY <1>1, Names, DisjointAssumption
  <2>2. Append(root, Sections(g)[j]) \in dirs
    BY DEF GameDirs, dirs
  <2> QED BY <2>1, <2>2, PathAppend
<1>3. \A d \in dirs : d = root \/ \E j \in DOMAIN Sections(g) : d = Append(root, Sections(g)[j])
  BY DEF GameDirs, dirs
<1>4. \A d \in dirs : /\ d \in Path
                      /\ BaseName(d) \notin Files
                      /\ d # root => Len(d) = Len(root) + 1
                      /\ Len(d) \in Nat /\ Len(d) >= Len(root)
  <2> SUFFICES ASSUME NEW d \in dirs
               PROVE  /\ d \in Path
                      /\ BaseName(d) \notin Files
                      /\ d # root => Len(d) = Len(root) + 1
                      /\ Len(d) \in Nat /\ Len(d) >= Len(root)
    OBVIOUS
  <2>1. Len(root) \in Nat
    BY LenProperties DEF Path
  <2>2. CASE d = root
    BY <2>1, <2>2
  <2>3. ASSUME NEW j \in DOMAIN Sections(g), d = Append(root, Sections(g)[j])
        PROVE  d \in Path /\ BaseName(d) \notin Files /\ Len(d) = Len(root) + 1
    BY <2>3, <1>2
  <2> QED BY <2>1, <2>2, <2>3, <1>3
\* The names in each directory, and the entries they stand for.
<1>5. ASSUME NEW d \in dirs
      PROVE  /\ names(d) \in Seq(Name)
             /\ \A i \in DOMAIN names(d) :
                  names(d)[i] \in Files \/ Append(d, names(d)[i]) \in dirs
  <2>1. CASE d = root
    <3>1. names(d) = GameNames(g)
      BY <2>1 DEF NamesIn, names
    <3> QED BY <2>1, <3>1, <1>2, GameNamesFacts
  <2>2. CASE d # root
    <3>1. names(d) = Section(g, BaseName(d))
      BY <2>2 DEF NamesIn, names
    <3> QED BY <3>1, GameNamesFacts, ElementOfSeq, LenProperties
  <2> QED BY <2>1, <2>2
<1>6. ASSUME NEW d \in dirs, NEW i \in DOMAIN names(d)
      PROVE  /\ names(d)[i] \in Name
             /\ Append(d, names(d)[i]) \in Path
             /\ BaseName(Append(d, names(d)[i])) = names(d)[i]
             /\ Len(Append(d, names(d)[i])) = Len(d) + 1
             /\ (names(d)[i] \in Files) <=> (Append(d, names(d)[i]) \notin dirs)
  <2>1. names(d)[i] \in Name
    BY <1>5, ElementOfSeq, LenProperties
  <2>2. d \in Path
    BY <1>4
  <2>3. /\ Append(d, names(d)[i]) \in Path
        /\ BaseName(Append(d, names(d)[i])) = names(d)[i]
        /\ Len(Append(d, names(d)[i])) = Len(d) + 1
    BY <2>1, <2>2, PathAppend
  <2> QED BY <2>1, <2>3, <1>4, <1>5
<1>7. /\ DOMAIN t = dirs \cup GameFiles(root, g)
      /\ \A k \in dirs : t[k] = DirEntry(RowsIn(k, names(k)))
      /\ \A k \in DOMAIN t \ dirs : t[k] = FileEntry
      /\ t = [k \in DOMAIN t |-> t[k]]
      /\ root \in dirs
  BY DEF GameTree, GameDirs, t, dirs, names
<1>8. \A k : k \in GameFiles(root, g) <=>
                k \notin dirs /\ \E d \in dirs : \E i \in DOMAIN names(d) : k = Append(d, names(d)[i])
  <2>1. \A k : k \in GameFiles(root, g) <=>
                  k \notin dirs /\ \E d \in GameDirs(root, g) : k \in Children(d, NamesIn(root, g, d))
    BY DEF GameFiles, dirs
  <2>2. \A d, k : k \in Children(d, NamesIn(root, g, d)) <=>
                      \E i \in DOMAIN names(d) : k = Append(d, names(d)[i])
    BY DEF Children, names
  <2> QED BY <2>1, <2>2 DEF dirs
<1>9. \A k \in DOMAIN t \ dirs : /\ k \in Path
                                 /\ BaseName(k) \in Files
                                 /\ Len(k) > Len(root)
  <2> SUFFICES ASSUME NEW k \in DOMAIN t \ dirs
               PROVE  k \in Path /\ BaseName(k) \in Files /\ Len(k) > Len(root)
    OBVIOUS
  <2>1. PICK d \in dirs : \E i \in DOMAIN names(d) : k = Append(d, names(d)[i])
    BY <1>7, <1>8
  <2>2. PICK i \in DOMAIN names(d) : k = Append(d, names(d)[i])
    BY <2>1
  <2>3. /\ k \in Path /\ BaseName(k) = names(d)[i] /\ Len(k) = Len(d) + 1
        /\ names(d)[i] \in Files
    BY <2>2, <1>6
  <2>4. Len(d) \in Nat /\ Len(root) \in Nat /\ Len(d) >= Len(root)
    BY <1>4, LenProperties DEF Path
  <2> QED BY <2>3, <2>4
<1>10. \A k \in DOMAIN t : IsFileType(t[k].type) <=> BaseName(k) \in Files
  <2> SUFFICES ASSUME NEW k \in DOMAIN t
               PROVE  IsFileType(t[k].type) <=> BaseName(k) \in Files
    OBVIOUS
  <2>1. CASE k \in dirs
    <3>1. t[k].type = "dir"
      BY <2>1, <1>7 DEF DirEntry
    <3> QED BY <2>1, <3>1, <1>4 DEF IsFileType
  <2>2. CASE k \notin dirs
    BY <2>2, <1>7, <1>9 DEF IsFileType, FileEntry
  <2> QED BY <2>1, <2>2
<1>11. ASSUME NEW d \in dirs
       PROVE  /\ DOMAIN RowsIn(d, names(d)) = DOMAIN names(d)
              /\ \A i \in DOMAIN names(d) : RowsIn(d, names(d))[i] =
                    Row(Append(d, names(d)[i]), IF names(d)[i] \in Files THEN "file" ELSE "dir")
              /\ RowsIn(d, names(d)) \in Seq([fname : Path, type : Kinds])
  <2> DEFINE rows == RowsIn(d, names(d))
  <2> HIDE DEF rows
  <2>1. /\ DOMAIN rows = DOMAIN names(d)
        /\ \A i \in DOMAIN names(d) : rows[i] =
              Row(Append(d, names(d)[i]), IF names(d)[i] \in Files THEN "file" ELSE "dir")
        /\ rows = [i \in DOMAIN names(d) |-> rows[i]]
    BY DEF RowsIn, rows
  <2>2. ASSUME NEW i \in DOMAIN names(d)
        PROVE  rows[i] \in [fname : Path, type : Kinds]
    <3>1. Append(d, names(d)[i]) \in Path
      BY <1>6
    <3>2. rows[i] = Row(Append(d, names(d)[i]), "file") \/ rows[i] = Row(Append(d, names(d)[i]), "dir")
      BY <2>1
    <3> DEFINE f == Append(d, names(d)[i])
    <3> HIDE DEF f
    <3>3. rows[i] = Row(f, "file") \/ rows[i] = Row(f, "dir")
      BY <3>2 DEF f
    <3>4. f \in Path
      BY <3>1 DEF f
    <3> QED BY <3>3, <3>4 DEF Row, Kinds
  <2>3. Len(names(d)) \in Nat /\ DOMAIN names(d) = 1 .. Len(names(d))
    BY <1>5, LenProperties
  <2>4. rows \in Seq([fname : Path, type : Kinds])
    BY <2>1, <2>2, <2>3, FunIsSeq
  <2> QED BY <2>1, <2>4 DEF rows
<1>12. CacheType(t)
  <2>1. FileEntry \in Entry
    BY EmptySeq DEF FileEntry, Entry, Kinds
  <2>2. \A d \in dirs : DirEntry(RowsIn(d, names(d))) \in Entry
    BY <1>11 DEF DirEntry, Entry, Kinds
  <2> QED BY <1>4, <1>7, <1>9, <2>1, <2>2 DEF CacheType
<1>13. NamedByKind(t)
  <2>1. \A k \in DOMAIN t : t[k].type # "dirstub"
    BY <1>7 DEF DirEntry, FileEntry
  <2> QED BY <2>1, <1>10 DEF NamedByKind
<1>14. Closed(t)
  <2> SUFFICES ASSUME NEW d \in DOMAIN t, NEW i \in DOMAIN t[d].files
               PROVE  RowOK(t, t[d].files[i])
    BY DEF Closed
  <2>1. d \in dirs
    BY <1>7 DEF FileEntry
  <2>2. t[d].files = RowsIn(d, names(d)) /\ i \in DOMAIN names(d)
    BY <2>1, <1>7, <1>11 DEF DirEntry
  <2>3. t[d].files[i] = Row(Append(d, names(d)[i]), IF names(d)[i] \in Files THEN "file" ELSE "dir")
    BY <2>1, <2>2, <1>11
  <2>4. Append(d, names(d)[i]) \in DOMAIN t
    BY <2>1, <2>2, <1>7, <1>8
  <2> DEFINE f == Append(d, names(d)[i])
  <2>5. BaseName(f) = names(d)[i]
    BY <2>1, <2>2, <1>6
  <2>6. (IsFileType(t[f].type) <=> BaseName(f) \in Files) /\ f \in DOMAIN t
    BY <2>4, <1>10
  <2>7. t[d].files[i].fname = f /\ (IsFileType(t[d].files[i].type) <=> names(d)[i] \in Files)
    BY <2>3 DEF Row, IsFileType
  <2> HIDE DEF f
  <2> QED BY <2>5, <2>6, <2>7 DEF RowOK
<1>15. \A k \in DOMAIN t \ {root} : Len(k) > Len(root)
  <2>1. Len(root) \in Nat
    BY LenProperties DEF Path
  <2> QED BY <2>1, <1>4, <1>9
<1> QED BY <1>7, <1>10, <1>12, <1>13, <1>14, <1>15 DEF Sound, t

-----------------------------------------------------------------------------
(***************************************************************************)
(* The steps.                                                               *)
(***************************************************************************)

\* A tree that lists no search: it neither covers /search nor brings in the
\* results of a term that was not cached.
AddsNoSearch(c, t) ==
    \A k \in DOMAIN t : k # SearchDir /\ (k[1] = "search" /\ Len(k) = 2 => k \in DOMAIN c)

Fills(c, d) ==
    \E t : Sound(t) /\ Fits(c, t) /\ AddsNoSearch(c, t) /\ d = Overlay(c, t)

LEMMA RequestFacts ==
    ASSUME NEW path \in Requests
    PROVE  /\ path \in Path
           /\ path[1] \in {"by-letter", "search"}
           /\ Len(path) \in Nat \ {0}
           /\ path[1] = "search" /\ Len(path) > 1 => path[2] \in Terms
           /\ IsLetterDir(path) => /\ Upper[path[2]] \in Letters
                                   /\ LetterKey(path) \in Path
                                   /\ BaseName(LetterKey(path)) = Upper[path[2]]
                                   /\ LetterKey(path)[1] = "by-letter"
                                   /\ Len(LetterKey(path)) = 2
<1>1. /\ path \in Path
      /\ path[1] \in {"by-letter", "search"}
      /\ path[1] = "search" /\ Len(path) > 1 => path[2] \in Terms
  BY NamesAssumption
<1>2. Len(path) \in Nat \ {0}
  BY <1>1, EmptySeq, LenProperties DEF Path
<1>3. ASSUME IsLetterDir(path)
      PROVE  /\ Upper[path[2]] \in Letters
             /\ LetterKey(path) \in Path
             /\ BaseName(LetterKey(path)) = Upper[path[2]]
             /\ LetterKey(path)[1] = "by-letter"
             /\ Len(LetterKey(path)) = 2
  <2>1. Upper[path[2]] \in Letters
    BY <1>3, NamesAssumption DEF IsLetterDir
  <2>2. LetterKey(path) = <<"by-letter", Upper[path[2]]>>
    BY DEF LetterKey
  <2>3. "by-letter" \in Name /\ Upper[path[2]] \in Name
    BY <2>1, Names
  <2> QED BY <2>1, <2>2, <2>3 DEF Path, BaseName
<1> QED BY <1>1, <1>2, <1>3

\* The game a request is in, and where its directory is.
LEMMA GameRootFacts ==
    ASSUME NEW path \in Path, HasGame(path), path[1] \notin Games
    PROVE  /\ GameOf(path) \in Games
           /\ GameRoot(path) \in Path
           /\ BaseName(GameRoot(path)) = GameOf(path)
           /\ Len(GameRoot(path)) > 1
           /\ Len(GameRoot(path)) = 2 => GameRoot(path) = <<path[1], path[2]>>
           /\ GameRoot(path)[1] = path[1]
           /\ BaseName(path) \in Games => GameRoot(path) = path
<1> DEFINE i == GameSegment(path)
<1>1. i \in 1 .. Len(path) /\ IsGameSegment(path, i)
  BY DEF HasGame, GameSegment
<1>2. Len(path) \in Nat /\ path \in Seq(Name) /\ path \in [1 .. Len(path) -> Name]
  BY LenProperties DEF Path
<1> HIDE DEF i
<1>3. /\ GameRoot(path) = SubSeq(path, 1, i)
      /\ GameOf(path) = path[i]
  BY DEF GameRoot, GameOf, i
<1>4. i \in Int /\ i > 1 /\ path[i] \in Games
  BY <1>1, <1>2 DEF IsGameSegment
<1>5. /\ SubSeq(path, 1, i) \in Seq(Name)
      /\ Len(SubSeq(path, 1, i)) = i
      /\ \A j \in 1 .. i : SubSeq(path, 1, i)[j] = path[j]
  <2>1. \A j \in 1 .. i : path[j] \in Name
    BY <1>1, <1>2
  <2>2. /\ SubSeq(path, 1, i) \in Seq(Name)
        /\ Len(SubSeq(path, 1, i)) = IF 1 <= i THEN i - 1 + 1 ELSE 0
        /\ \A j \in 1 .. i - 1 + 1 : SubSeq(path, 1, i)[j] = path[1 + j - 1]
    BY <1>4, <2>1, SubSeqProperties
  <2>3. i - 1 + 1 = i /\ 1 <= i
    BY <1>4
  <2>4. \A j \in 1 .. i : 1 + j - 1 = j
    BY <1>4
  <2> QED BY <2>2, <2>3, <2>4
<1>6. GameRoot(path) \in Path
  BY <1>3, <1>4, <1>5, EmptySeq DEF Path
<1>7. /\ BaseName(GameRoot(path)) = GameOf(path)
      /\ GameRoot(path)[1] = path[1]
      /\ Len(GameRoot(path)) > 1
  BY <1>3, <1>4, <1>5 DEF BaseName
<1>8. Len(GameRoot(path)) = 2 => GameRoot(path) = <<path[1], path[2]>>
  <2> SUFFICES ASSUME i = 2 PROVE SubSeq(path, 1, i) = <<path[1], path[2]>>
    BY <1>3, <1>5
  <2> DEFINE s == SubSeq(path, 1, i)
             u == <<path[1], path[2]>>
  <2>1. path[1] \in Name /\ path[2] \in Name
    BY <1>1, <1>2
  <2>2. u \in Seq(Name) /\ Len(u) = 2 /\ u[1] = path[1] /\ u[2] = path[2]
    BY <2>1
  <2>3. s \in Seq(Name) /\ Len(s) = 2 /\ s[1] = path[1] /\ s[2] = path[2]
    BY <1>5
  <2> HIDE DEF s, u
  <2>4. \A j \in 1 .. Len(s) : s[j] = u[j]
    BY <2>2, <2>3
  <2>5. s = u
    BY <2>2, <2>3, <2>4, SeqEqual
  <2> QED BY <2>5 DEF s, u
<1>9. ASSUME BaseName(path) \in Games PROVE GameRoot(path) = path
  <2>1. i = Len(path)
    <3>1. path[Len(path)] \in Games
      BY <1>9 DEF BaseName
    <3>2. \A j \in i + 1 .. Len(path) : path[j] \notin Games
      BY <1>1 DEF IsGameSegment
    <3>3. Len(path) \notin i + 1 .. Len(path)
      BY <3>1, <3>2
    <3>4. i \in 1 .. Len(path) /\ Len(path) \in Nat
      BY <1>1, <1>2
    <3> QED BY <3>3, <3>4
  <2>2. SubSeq(path, 1, Len(path)) = path
    <3> DEFINE s == SubSeq(path, 1, i)
    <3>1. s \in Seq(Name) /\ Len(s) = Len(path) /\ \A j \in 1 .. Len(s) : s[j] = path[j]
      BY <1>5, <2>1
    <3> HIDE DEF s
    <3>2. s = path
      BY <3>1, <1>2, SeqEqual
    <3> QED BY <3>2, <2>1 DEF s
  <2> QED BY <1>3, <2>1, <2>2
<1> QED BY <1>3, <1>4, <1>6, <1>7, <1>8, <1>9

LEMMA GameFills ==
    ASSUME NEW c, Sound(c), NEW path \in Requests, HasGame(path),
           \/ path[1] = "search" => SearchKey(path) \in DOMAIN c
           \/ GameRoot(path) \in DOMAIN c
    PROVE  LET t == GameTree(GameRoot(path), GameOf(path))
           IN  /\ Sound(t) /\ Fits(c, t) /\ AddsNoSearch(c, t)
               /\ GameRoot(path) \in DOMAIN t
<1> DEFINE root == GameRoot(path)
           t == GameTree(root, GameOf(path))
<1> HIDE DEF root, t
<1>1. /\ path \in Path
      /\ path[1] \in {"by-letter", "search"}
      /\ path[1] \notin Games
  BY RequestFacts, DisjointAssumption
<1>2. /\ GameOf(path) \in Games
      /\ root \in Path
      /\ BaseName(root) \in Games
      /\ BaseName(root) \notin Files
      /\ Len(root) > 1
      /\ Len(root) = 2 => root = <<path[1], path[2]>>
      /\ root[1] = path[1]
  BY <1>1, GameRootFacts, DisjointAssumption DEF root
<1>3. /\ Sound(t)
      /\ root \in DOMAIN t
      /\ \A k \in DOMAIN t : IsFileType(t[k].type) <=> BaseName(k) \in Files
      /\ \A k \in DOMAIN t \ {root} : Len(k) > Len(root)
  BY <1>2, GameTreeSound DEF t
<1>4. Fits(c, t)
  BY <1>3 DEF Fits
<1>5. AddsNoSearch(c, t)
  <2> SUFFICES ASSUME NEW k \in DOMAIN t
               PROVE  k # SearchDir /\ (k[1] = "search" /\ Len(k) = 2 => k \in DOMAIN c)
    BY DEF AddsNoSearch
  <2>1. Len(SearchDir) = 1
    BY DEF SearchDir
  <2>2. Len(root) \in Nat /\ Len(k) \in Nat
    BY <1>2, <1>3, LenProperties DEF Path, Sound, CacheType
  <2>3. CASE k # root
    <3>1. Len(k) > Len(root) /\ Len(root) > 1
      BY <2>3, <1>2, <1>3
    <3>2. Len(k) # 1 /\ Len(k) # 2
      BY <3>1, <2>2, Longer
    <3> QED BY <3>2, <2>1
  <2>4. CASE k = root
    <3>1. k # SearchDir
      <4>1. Len(root) # 1
        BY <1>2, <2>2, Longer
      <4> QED BY <4>1, <2>1, <2>4
    <3>2. ASSUME k[1] = "search", Len(k) = 2 PROVE k \in DOMAIN c
      BY <2>4, <3>2, <1>2 DEF SearchKey, root
    <3> QED BY <3>1, <3>2
  <2> QED BY <2>3, <2>4
<1> QED BY <1>3, <1>4, <1>5 DEF t, root

LEMMA LetterFills ==
    ASSUME NEW c, NEW path \in Requests, IsLetterDir(path), NEW p \in Path,
           p \in {path, LetterKey(path)}, NEW games \in Seq(Games)
    PROVE  LET t == StubTree(LetterKey(path), p, games)
           IN  Sound(t) /\ Fits(c, t) /\ AddsNoSearch(c, t)
<1> DEFINE key == LetterKey(path)
           t == StubTree(key, p, games)
<1>1. /\ key \in Path
      /\ BaseName(key) \notin Files
      /\ key[1] = "by-letter" /\ Len(key) = 2
  BY RequestFacts, DisjointAssumption
<1>2. p[1] = "by-letter" /\ Len(p) = 2
  BY <1>1 DEF IsLetterDir
<1> HIDE DEF key, t
<1>3. /\ Sound(t)
      /\ \A k \in DOMAIN t : ~IsFileType(t[k].type)
      /\ \A k \in DOMAIN t \ {key} : BaseName(k) \in Games /\ \E g \in Games : k = Append(p, g)
  BY <1>1, StubTreeSound DEF t
<1>4. Fits(c, t)
  BY <1>1, <1>3, DisjointAssumption DEF Fits
<1>5. \A k \in DOMAIN t : k[1] = "by-letter"
  <2>1. \A g \in Games : Append(p, g)[1] = p[1]
    BY PathAppend, Names
  <2> QED BY <2>1, <1>1, <1>2, <1>3
<1>6. AddsNoSearch(c, t)
  BY <1>5 DEF AddsNoSearch, SearchDir
<1> QED BY <1>3, <1>4, <1>6 DEF t, key

\* No cached path is forgotten, and no file turns into a directory.
Keeps(c, d) ==
    \A p \in DOMAIN c : p \in DOMAIN d /\ (IsFileType(c[p].type) => IsFileType(d[p].type))

RowsOf(c) == IF SearchDir \in DOMAIN c THEN c[SearchDir].files ELSE << >>
Listed(c, t) == \E i \in DOMAIN RowsOf(c) : RowsOf(c)[i].fname = <<"search", t>>
SearchesListed(c) == \A t \in Terms : <<"search", t>> \in DOMAIN c => Listed(c, t)

LEMMA FillsSound ==
    ASSUME NEW c, NEW d, Sound(c), Fills(c, d)
    PROVE  Sound(d) /\ Keeps(c, d) /\ (SearchesListed(c) => SearchesListed(d))
<1>1. PICK t : Sound(t) /\ Fits(c, t) /\ AddsNoSearch(c, t) /\ d = Overlay(c, t)
  BY DEF Fills
<1>2. /\ Sound(d)
      /\ DOMAIN d = DOMAIN c \cup DOMAIN t
      /\ Keeps(c, d)
  BY <1>1, OverlaySound DEF Keeps
<1>3. RowsOf(d) = RowsOf(c)
  BY <1>1, <1>2 DEF RowsOf, AddsNoSearch, Overlay
<1>4. \A u \in Terms : <<"search", u>> \in DOMAIN d => <<"search", u>> \in DOMAIN c
  <2> SUFFICES ASSUME NEW u \in Terms, <<"search", u>> \in DOMAIN t
               PROVE  <<"search", u>> \in DOMAIN c
    BY <1>2
  <2>1. <<"search", u>>[1] = "search" /\ Len(<<"search", u>>) = 2
    OBVIOUS
  <2> QED BY <2>1, <1>1 DEF AddsNoSearch
<1> QED BY <1>2, <1>3, <1>4 DEF SearchesListed, Listed

LEMMA SearchStep ==
    ASSUME Sound(fscache), NEW path \in Requests, GetattrSearch(path, "good")
    PROVE  /\ Sound(fscache')
           /\ Keeps(fscache, fscache')
           /\ SearchesListed(fscache) => SearchesListed(fscache')
<1> DEFINE t == StubTree(path, path, SearchGames[path[2]])
           found == Overlay(fscache, t)
           searches == IF SearchDir \in DOMAIN found THEN found[SearchDir] ELSE DirEntry(<< >>)
           entry == AddFile(searches, Row(SearchKey(path), "dir"))
           top == [k \in {SearchDir} |-> entry]
<1> HIDE DEF t, found, searches, entry, top
<1>1. /\ path \in Path /\ path \notin DOMAIN fscache /\ path[1] = "search"
      /\ Len(path) \in Nat \ {0} /\ Len(path) # 1
      /\ path[2] \in Terms
      /\ SearchKey(path) = <<"search", path[2]>>
  <2>1. path \notin DOMAIN fscache /\ path[1] = "search" /\ Len(path) # 1
    BY DEF GetattrSearch, IsNewSearch, IsFixedDir
  <2>2. Len(path) > 1
    <3>1. \A n \in Nat \ {0} : n # 1 => n > 1
      OBVIOUS
    <3> QED BY <3>1, <2>1, RequestFacts
  <2> QED BY <2>1, <2>2, RequestFacts DEF SearchKey
<1>2. fscache' = Overlay(found, top)
  BY DEF GetattrSearch, AddAll, Add, t, found, searches, entry, top
<1>3. /\ Sound(t)
      /\ \A k \in DOMAIN t : ~IsFileType(t[k].type)
      /\ \A k \in DOMAIN t \ {path} : BaseName(k) \in Games /\ \E g \in Games : k = Append(path, g)
  BY <1>1, StubTreeSound, NamesAssumption DEF t
<1>4. Fits(fscache, t)
  BY <1>1, <1>3, DisjointAssumption DEF Fits
<1>5. /\ Sound(found)
      /\ DOMAIN found = DOMAIN fscache \cup DOMAIN t
      /\ Keeps(fscache, found)
  BY <1>3, <1>4, OverlaySound DEF found, Keeps
<1>6. \A k \in DOMAIN t \ {path} : Len(k) # 1 /\ Len(k) # 2
  <2>1. \A g \in Games : Len(Append(path, g)) = Len(path) + 1
    BY <1>1, PathAppend, Names
  <2>2. \A n \in Nat \ {0} : n # 1 => n + 1 # 1 /\ n + 1 # 2
    OBVIOUS
  <2> QED BY <2>1, <2>2, <1>1, <1>3
\* The entry of /search, before and after.
<1>7. SearchDir \in Path /\ Len(SearchDir) = 1 /\ BaseName(SearchDir) = "search"
  BY Names DEF SearchDir, Path, BaseName
<1>8. SearchDir \notin DOMAIN t
  BY <1>1, <1>6, <1>7
<1>9. searches \in Entry /\ searches.type = "dir" /\ searches.files = RowsOf(fscache)
  <2>1. CASE SearchDir \in DOMAIN fscache
    <3>1. searches = fscache[SearchDir]
      BY <2>1, <1>5, <1>8 DEF searches, found, Overlay
    <3>2. searches \in Entry /\ RowsOf(fscache) = searches.files
      BY <2>1, <3>1 DEF Sound, CacheType, RowsOf
    <3>3. searches.type # "file" /\ searches.type # "dirstub"
      BY <2>1, <3>1, <1>7, DisjointAssumption DEF Sound, NamedByKind, IsFileType
    <3> QED BY <3>2, <3>3 DEF Entry, Kinds
  <2>2. CASE SearchDir \notin DOMAIN fscache
    <3>1. searches = DirEntry(<< >>) /\ RowsOf(fscache) = << >>
      BY <2>2, <1>5, <1>8 DEF searches, RowsOf
    <3> QED BY <3>1, EmptySeq DEF DirEntry, Entry, Kinds
  <2> QED BY <2>1, <2>2
<1> DEFINE row == Row(SearchKey(path), "dir")
<1>10. row \in [fname : Path, type : Kinds] /\ row.fname = <<"search", path[2]>>
  <2>1. path[2] \in Name /\ "search" \in Name
    BY <1>1 DEF Name
  <2>2. SearchKey(path) \in Path
    BY <2>1, <1>1 DEF Path
  <2> QED BY <2>2, <1>1 DEF Row, Kinds
<1> HIDE DEF row
<1>11. /\ entry = [searches EXCEPT !.files = Append(searches.files, row)]
       /\ searches.files \in Seq([fname : Path, type : Kinds])
  BY <1>9 DEF entry, AddFile, Entry, row
<1>12. entry \in Entry /\ entry.type = "dir" /\ entry.files = Append(RowsOf(fscache), row)
  <2>1. Append(searches.files, row) \in Seq([fname : Path, type : Kinds])
    BY <1>10, <1>11, AppendProperties
  <2> QED BY <2>1, <1>9, <1>11 DEF Entry
<1>13. Sound(top) /\ DOMAIN top = {SearchDir} /\ top[SearchDir] = entry
  BY <1>7, <1>12 DEF Sound, top, CacheType, Closed, NamedByKind, IsFileType
<1>14. Fits(found, top)
  BY <1>7, <1>12, <1>13, DisjointAssumption DEF Fits, IsFileType
<1>15. /\ Sound(fscache')
       /\ DOMAIN fscache' = DOMAIN found \cup {SearchDir}
       /\ Keeps(found, fscache')
  BY <1>2, <1>5, <1>13, <1>14, OverlaySound DEF Keeps
<1>16. Keeps(fscache, fscache')
  BY <1>5, <1>15 DEF Keeps
<1>17. RowsOf(fscache') = Append(RowsOf(fscache), row)
  <2>1. fscache'[SearchDir] = entry /\ SearchDir \in DOMAIN fscache'
    BY <1>2, <1>13, <1>15 DEF Overlay
  <2> QED BY <2>1, <1>12 DEF RowsOf
<1>18. \A u : Listed(fscache, u) \/ u = path[2] => Listed(fscache', u)
  <2> DEFINE rows == RowsOf(fscache)
  <2> HIDE DEF rows
  <2>1. rows \in Seq([fname : Path, type : Kinds])
    BY <1>9, <1>11 DEF rows
  <2>2. /\ Len(rows) \in Nat /\ DOMAIN rows = 1 .. Len(rows)
        /\ DOMAIN Append(rows, row) = 1 .. Len(rows) + 1
        /\ \A i \in 1 .. Len(rows) : Append(rows, row)[i] = rows[i]
        /\ Append(rows, row)[Len(rows) + 1] = row
    BY <2>1, <1>10, AppendProperties, LenProperties
  <2>3. /\ DOMAIN rows \subseteq DOMAIN Append(rows, row)
        /\ Len(rows) + 1 \in DOMAIN Append(rows, row)
    BY <2>2
  <2> QED BY <2>2, <2>3, <1>10, <1>17 DEF Listed, rows
<1>19. ASSUME SearchesListed(fscache) PROVE SearchesListed(fscache')
  <2> SUFFICES ASSUME NEW u \in Terms, <<"search", u>> \in DOMAIN fscache'
               PROVE  <<"search", u>> \in DOMAIN fscache \/ u = path[2]
    BY <1>18, <1>19 DEF SearchesListed
  <2> DEFINE k == <<"search", u>>
  <2>1. Len(k) = 2 /\ k[2] = u
    OBVIOUS
  <2> HIDE DEF k
  <2>2. k # SearchDir
    BY <2>1, <1>7
  <2>3. CASE k \in DOMAIN t
    BY <2>1, <2>3, <1>6
  <2> QED BY <2>2, <2>3, <1>5, <1>15 DEF k
<1> QED BY <1>15, <1>16, <1>19

\* The trees of the builders: that of the game a request is in, and that of a
\* letter, whose games are those of the letter unless its file was misread.
FillsGame(path, c, d) ==
    /\ HasGame(path)
    /\ \/ path[1] = "search" => SearchKey(path) \in DOMAIN c
       \/ GameRoot(path) \in DOMAIN c
    /\ d = Overlay(c, GameTree(GameRoot(path), GameOf(path)))

FillsLetter(path, c, d) ==
    /\ IsLetterDir(path)
    /\ \E p \in {path, LetterKey(path)} : \E games \in Seq(Games) :
          /\ ~DirtyMemory => games = LetterGames[Upper[path[2]]]
          /\ d = Overlay(c, StubTree(LetterKey(path), p, games))

\* What a step does to the filesystem cache.
CacheStep(path) ==
    \/ fscache' = fscache
    \/ fscache' = EmptyCache
    \/ FillsGame(path, fscache, fscache')
    \/ FillsLetter(path, fscache, fscache')
    \/ GetattrSearch(path, "good")

LEMMA TreesFill ==
    ASSUME NEW c, NEW d, Sound(c), NEW path \in Requests,
           FillsGame(path, c, d) \/ FillsLetter(path, c, d)
    PROVE  Fills(c, d)
<1>1. CASE FillsGame(path, c, d)
  BY <1>1, GameFills DEF FillsGame, Fills
<1>2. CASE FillsLetter(path, c, d)
  <2>1. PICK p \in {path, LetterKey(path)}, games \in Seq(Games) :
            d = Overlay(c, StubTree(LetterKey(path), p, games))
    BY <1>2 DEF FillsLetter
  <2>2. IsLetterDir(path) /\ p \in Path
    BY <1>2, RequestFacts DEF FillsLetter
  <2> QED BY <2>1, <2>2, LetterFills DEF Fills
<1> QED BY <1>1, <1>2

LEMMA RequestStep ==
    ASSUME Sound(fscache), NEW path \in Requests, NEW doc \in Docs,
           GetattrGame(path, doc) \/ GetattrSearch(path, doc) \/ ReaddirStub(path, doc)
    PROVE  CacheStep(path)
<1>1. CASE GetattrGame(path, doc)
  <2>1. CASE doc = "good"
    <3>1. /\ fscache' = Overlay(fscache, GameTree(GameRoot(path), GameOf(path)))
          /\ HasGame(path)
          /\ path[1] = "search" => SearchKey(path) \in DOMAIN fscache
      BY <1>1, <2>1 DEF GetattrGame, AddAll, IsNewSearch
    <3> QED BY <3>1 DEF CacheStep, FillsGame
  <2>2. CASE doc # "good"
    BY <1>1, <2>2 DEF GetattrGame, CacheStep
  <2> QED BY <2>1, <2>2
<1>2. CASE GetattrSearch(path, doc)
  <2>1. CASE doc = "good"
    BY <1>2, <2>1 DEF CacheStep
  <2>2. CASE doc # "good"
    BY <1>2, <2>2 DEF GetattrSearch, CacheStep
  <2> QED BY <2>1, <2>2
<1>3. CASE ReaddirStub(path, doc)
  <2>1. CASE doc = "good"
    <3> DEFINE t == GameTree(GameRoot(path), GameOf(path))
    <3> HIDE DEF t
    <3>1. /\ path \in DOMAIN fscache
          /\ fscache' = Overlay(Delete(fscache, path), t)
          /\ BaseName(path) \in Games
      BY <1>3, <2>1 DEF ReaddirStub, IsStub, AddAll, t, Sound, NamedByKind
    <3>2. /\ path \in Path /\ path[1] \notin Games
          /\ Len(path) \in Nat \ {0}
      BY RequestFacts, DisjointAssumption
    <3>3. HasGame(path)
      <4>1. \A n \in Nat \ {0} : n \in 1 .. n /\ n + 1 .. n = {}
        OBVIOUS
      <4> QED BY <4>1, <3>1, <3>2 DEF HasGame, IsGameSegment, BaseName
    <3>4. GameRoot(path) = path
      BY <3>1, <3>2, <3>3, GameRootFacts
    <3>5. Sound(t) /\ Fits(fscache, t) /\ AddsNoSearch(fscache, t) /\ path \in DOMAIN t
      BY <3>1, <3>3, <3>4, GameFills DEF t
    <3>6. Overlay(Delete(fscache, path), t) = Overlay(fscache, t)
      BY <3>5 DEF Overlay, Delete
    <3> QED BY <3>1, <3>3, <3>4, <3>6 DEF CacheStep, FillsGame, t
  <2>2. CASE doc # "good"
    BY <1>3, <2>2 DEF ReaddirStub, CacheStep
  <2> QED BY <2>1, <2>2
<1> QED BY <1>1, <1>2, <1>3

LEMMA LetterStep ==
    ASSUME Sound(fscache), NEW path \in Requests,
           \/ ReaddirLetterPreload(path)
           \/ \E games \in Misread : ReaddirLetterMisread(path, games)
           \/ \E doc \in Docs : \E written : ReaddirLetterFetch(path, doc, written)
    PROVE  CacheStep(path)
<1>1. /\ IsLetterDir(path)
      /\ LetterGames[Upper[path[2]]] \in Seq(Games)
      /\ Misread \subseteq Seq(Games)
  BY RequestFacts, NamesAssumption DEF ReaddirLetterPreload, ReaddirLetterMisread, ReaddirLetterFetch
<1>2. CASE ReaddirLetterPreload(path)
  BY <1>1, <1>2 DEF ReaddirLetterPreload, AddAll, CacheStep, FillsLetter
<1>3. ASSUME NEW games \in Misread, ReaddirLetterMisread(path, games) PROVE CacheStep(path)
  BY <1>1, <1>3 DEF ReaddirLetterMisread, AddAll, CacheStep, FillsLetter
<1>4. ASSUME NEW doc \in Docs, NEW written, ReaddirLetterFetch(path, doc, written)
      PROVE  CacheStep(path)
  BY <1>1, <1>4 DEF ReaddirLetterFetch, AddAll, CacheStep, FillsLetter
<1> QED BY <1>2, <1>3, <1>4

LEMMA NextStep ==
    ASSUME Sound(fscache), Next
    PROVE  \/ fscache' = fscache
           \/ fscache' = EmptyCache
           \/ \E path \in Requests : CacheStep(path)
<1>1. ASSUME NEW path \in Requests,
             \/ GetattrFixed(path) \/ GetattrHit(path) \/ GetattrUnknown(path)
             \/ ReaddirLetterHit(path) \/ ReaddirCached(path) \/ CrashInWriteback(path)
      PROVE  fscache' = fscache \/ fscache' = EmptyCache
  BY <1>1 DEF GetattrFixed, GetattrHit, GetattrUnknown, ReaddirLetterHit, ReaddirCached,
              CrashInWriteback
<1>2. ASSUME NEW path \in Requests,
             \/ ReaddirLetterPreload(path)
             \/ \E games \in Misread : ReaddirLetterMisread(path, games)
             \/ \E doc \in Docs : \E written : ReaddirLetterFetch(path, doc, written)
      PROVE  CacheStep(path)
  BY <1>2, LetterStep
<1>3. ASSUME NEW path \in Requests, NEW doc \in Docs,
             GetattrGame(path, doc) \/ GetattrSearch(path, doc) \/ ReaddirStub(path, doc)
      PROVE  CacheStep(path)
  BY <1>3, RequestStep
<1>4. ASSUME FlushFSCache \/ FlushURLCache \/ Restart
      PROVE  fscache' = fscache \/ fscache' = EmptyCache
  BY <1>4 DEF FlushFSCache, FlushURLCache, Restart
<1> QED BY <1>1, <1>2, <1>3, <1>4 DEF Next

\* The argument in one place: a step keeps the cache sound, forgets nothing but
\* by emptying it, and leaves no cached search unlisted.
LEMMA SoundStep ==
    ASSUME Sound(fscache), [Next]_vars
    PROVE  /\ Sound(fscache')
           /\ fscache' = EmptyCache \/ Keeps(fscache, fscache')
           /\ SearchesListed(fscache) => SearchesListed(fscache')
<1>1. CASE fscache' = fscache
  BY <1>1 DEF Keeps
<1>2. CASE fscache' = EmptyCache
  BY <1>2, EmptyIsSound DEF SearchesListed
<1>3. ASSUME NEW path \in Requests,
             FillsGame(path, fscache, fscache') \/ FillsLetter(path, fscache, fscache')
      PROVE  /\ Sound(fscache')
             /\ fscache' = EmptyCache \/ Keeps(fscache, fscache')
             /\ SearchesListed(fscache) => SearchesListed(fscache')
  BY <1>3, TreesFill, FillsSound
<1>4. ASSUME NEW path \in Requests, GetattrSearch(path, "good")
      PROVE  /\ Sound(fscache')
             /\ fscache' = EmptyCache \/ Keeps(fscache, fscache')
             /\ SearchesListed(fscache) => SearchesListed(fscache')
  BY <1>4, SearchStep
<1> QED BY <1>1, <1>2, <1>3, <1>4, NextStep DEF CacheStep, vars

-----------------------------------------------------------------------------
(***************************************************************************)
(* The types of the variables other than fscache.                           *)
(***************************************************************************)

UrlType(u) == DOMAIN u \subseteq Urls /\ u \in [DOMAIN u -> {"bad", "good"}]
FileType(f) == f \in [Letters -> {"absent", "torn", "bad", "good"}]
ReplyType(r) ==
    r \in [op : {"none", "getattr", "readdir", "flush", "restart"},
           path : Path \cup {<< >>, <<"fscache">>, <<"urlcache">>},
           kind : {"none", "dir", "file", "enodev"},
           names : Seq(Name)]

LEMMA TypeSplit ==
    /\ TypeOK <=> CacheType(fscache) /\ UrlType(urlcache) /\ FileType(letterFile) /\ ReplyType(reply)
    /\ TypeOK' <=> CacheType(fscache') /\ UrlType(urlcache') /\ FileType(letterFile') /\ ReplyType(reply')
  BY DEF TypeOK, CacheType, UrlType, FileType, ReplyType

LEMMA GetURLType ==
    ASSUME UrlType(urlcache), NEW url \in Urls, NEW doc \in Docs, GetURL(url, doc)
    PROVE  UrlType(urlcache')
<1>1. CASE doc = "down"
  BY <1>1 DEF GetURL
<1>2. CASE doc # "down"
  <2>1. urlcache' = Overlay(urlcache, [k \in {url} |-> doc])
    BY <1>2 DEF GetURL, Add
  <2> QED BY <1>2, <2>1 DEF Overlay, UrlType, Docs
<1> QED BY <1>1, <1>2

LEMMA ListingType ==
    ASSUME NEW c, CacheType(c), NEW path
    PROVE  Listing(c, path) \in Seq(Name)
<1>1. CASE path \notin DOMAIN c
  BY <1>1, EmptySeq DEF Listing
<1>2. CASE path \in DOMAIN c
  <2> DEFINE files == c[path].files
             names == Listing(c, path)
  <2> HIDE DEF files, names
  <2>1. files \in Seq([fname : Path, type : Kinds])
    BY <1>2 DEF CacheType, Entry, files
  <2>2. Len(files) \in Nat /\ DOMAIN files = 1 .. Len(files)
    BY <2>1, LenProperties
  <2>3. names = [i \in 1 .. Len(files) |-> BaseName(files[i].fname)]
    BY <1>2, <2>2 DEF Listing, names, files
  <2>4. ASSUME NEW i \in 1 .. Len(files)
        PROVE  files[i].fname \in Path
    <3>1. files[i] \in [fname : Path, type : Kinds]
      BY <2>1, ElementOfSeq
    <3> QED BY <3>1
  <2>5. \A i \in 1 .. Len(files) : BaseName(files[i].fname) \in Name
    BY <2>4, PathBase
  <2> QED BY <2>2, <2>3, <2>5, FunIsSeq DEF names
<1> QED BY <1>1, <1>2

LEMMA AnswerType ==
    ASSUME NEW op \in {"none", "getattr", "readdir", "flush", "restart"},
           NEW path \in Path \cup {<< >>, <<"fscache">>, <<"urlcache">>},
           NEW kind \in {"none", "dir", "file", "enodev"},
           NEW names \in Seq(Name), Answer(op, path, kind, names)
    PROVE  ReplyType(reply')
  BY DEF Answer, ReplyType

LEMMA KindType ==
    ASSUME NEW c, NEW path
    PROVE  KindIn(c, path) \in {"none", "dir", "file", "enodev"}
  BY DEF KindIn

LEMMA OtherTypes ==
    ASSUME IInv, CacheType(fscache'), [Next]_vars
    PROVE  UrlType(urlcache') /\ FileType(letterFile') /\ ReplyType(reply')
<1> DEFINE Types == UrlType(urlcache') /\ FileType(letterFile') /\ ReplyType(reply')
<1>1. /\ CacheType(fscache) /\ UrlType(urlcache) /\ FileType(letterFile) /\ ReplyType(reply)
      /\ << >> \in Seq(Name)
      /\ \A c, p : CacheType(c) => Listing(c, p) \in Seq(Name)
  BY TypeSplit, EmptySeq, ListingType DEF IInv
<1>2. UrlType([u \in {} |-> "good"])
  BY DEF UrlType
<1> HIDE DEF Types
<1>3. ASSUME NEW path \in Requests,
             \/ GetattrFixed(path) \/ GetattrHit(path) \/ GetattrUnknown(path)
             \/ ReaddirLetterHit(path) \/ ReaddirLetterPreload(path) \/ ReaddirCached(path)
             \/ \E games \in Misread : ReaddirLetterMisread(path, games)
      PROVE  Types
  <2>1. path \in Path /\ UNCHANGED <<urlcache, letterFile>>
    BY <1>3, RequestFacts DEF GetattrFixed, GetattrHit, GetattrUnknown, ReaddirLetterHit,
                              ReaddirLetterPreload, ReaddirLetterMisread, ReaddirCached
  <2>2. \/ Answer("getattr", path, "dir", << >>)
        \/ Answer("getattr", path, KindIn(fscache, path), << >>)
        \/ Answer("readdir", path, "dir", Listing(fscache, path))
        \/ Answer("readdir", path, "dir", Listing(fscache', path))
    BY <1>3 DEF GetattrFixed, GetattrHit, GetattrUnknown, ReaddirLetterHit,
                ReaddirLetterPreload, ReaddirLetterMisread, ReaddirCached
  <2>3. ReplyType(reply')
    BY <2>1, <2>2, <1>1, AnswerType, KindType
  <2> QED BY <2>1, <2>3, <1>1 DEF Types
<1>4. ASSUME NEW path \in Requests, CrashInWriteback(path)
      PROVE  Types
  <2>1. FileType(letterFile')
    BY <1>1, <1>4 DEF CrashInWriteback, FileType
  <2>2. ReplyType(reply') /\ UrlType(urlcache')
    BY <1>1, <1>2, <1>4, AnswerType DEF CrashInWriteback
  <2> QED BY <2>1, <2>2 DEF Types
<1>5. ASSUME NEW path \in Requests, NEW doc \in Docs, GetattrGame(path, doc)
      PROVE  Types
  <2>1. path \in Path /\ path[1] \notin Games /\ HasGame(path)
    BY <1>5, RequestFacts, DisjointAssumption DEF GetattrGame
  <2>2. <<"game", GameOf(path)>> \in Urls
    BY <2>1, GameRootFacts DEF Urls
  <2>3. UrlType(urlcache') /\ letterFile' = letterFile
    BY <1>1, <1>5, <2>2, GetURLType DEF GetattrGame
  <2>4. \/ Answer("getattr", path, "dir", << >>)
        \/ Answer("getattr", path, KindIn(fscache', path), << >>)
    BY <1>5 DEF GetattrGame
  <2>5. ReplyType(reply')
    BY <1>1, <2>1, <2>4, AnswerType, KindType
  <2> QED BY <1>1, <2>3, <2>5 DEF Types
<1>6. ASSUME NEW path \in Requests, NEW doc \in Docs, GetattrSearch(path, doc)
      PROVE  Types
  <2>1. path \in Path /\ path[2] \in Terms
    <3>1. path[1] = "search" /\ Len(path) # 1
      BY <1>6 DEF GetattrSearch, IsNewSearch, IsFixedDir
    <3>2. \A n \in Nat \ {0} : n # 1 => n > 1
      OBVIOUS
    <3> QED BY <3>1, <3>2, RequestFacts
  <2>2. <<"search", path[2]>> \in Urls
    BY <2>1 DEF Urls
  <2>3. UrlType(urlcache') /\ letterFile' = letterFile
    BY <1>1, <1>6, <2>2, GetURLType DEF GetattrSearch
  <2>4. ReplyType(reply')
    BY <1>1, <1>6, <2>1, AnswerType DEF GetattrSearch
  <2> QED BY <1>1, <2>3, <2>4 DEF Types
<1>7. ASSUME NEW path \in Requests, NEW doc \in Docs, ReaddirStub(path, doc)
      PROVE  Types
  <2>1. path \in Path /\ path[1] \notin Games /\ Len(path) \in Nat \ {0}
    BY RequestFacts, DisjointAssumption
  <2>2. BaseName(path) \in Games
    BY <1>7 DEF IInv, ReaddirStub, IsStub, Sound, NamedByKind
  <2>3. HasGame(path)
    <3>1. \A n \in Nat \ {0} : n \in 1 .. n /\ n + 1 .. n = {}
      OBVIOUS
    <3> QED BY <3>1, <2>1, <2>2 DEF HasGame, IsGameSegment, BaseName
  <2>4. <<"game", GameOf(path)>> \in Urls
    BY <2>1, <2>3, GameRootFacts DEF Urls
  <2>5. UrlType(urlcache') /\ letterFile' = letterFile
    BY <1>1, <1>7, <2>4, GetURLType DEF ReaddirStub
  <2>6. ReplyType(reply')
    BY <1>1, <1>7, <2>1, AnswerType DEF ReaddirStub
  <2> QED BY <1>1, <2>5, <2>6 DEF Types
<1>8. ASSUME NEW path \in Requests, NEW doc \in Docs,
             NEW written \in {"absent", "torn", "bad", "good"},
             ReaddirLetterFetch(path, doc, written)
      PROVE  Types
  <2>1. path \in Path /\ Upper[path[2]] \in Letters
    BY <1>8, RequestFacts DEF ReaddirLetterFetch
  <2>2. <<"letter", Upper[path[2]]>> \in Urls
    BY <2>1 DEF Urls
  <2>3. UrlType(urlcache')
    BY <1>1, <1>8, <2>2, GetURLType DEF ReaddirLetterFetch
  <2>4. FileType(letterFile')
    BY <1>1, <1>8 DEF ReaddirLetterFetch, FileType
  <2>5. ReplyType(reply')
    BY <1>1, <1>8, <2>1, AnswerType DEF ReaddirLetterFetch
  <2> QED BY <2>3, <2>4, <2>5 DEF Types
<1>9. ASSUME FlushFSCache \/ FlushURLCache \/ Restart
      PROVE  Types
  <2>1. FileType(letterFile') /\ UrlType(urlcache')
    BY <1>1, <1>2, <1>9 DEF FlushFSCache, FlushURLCache, Restart
  <2>2. ReplyType(reply')
    BY <1>1, <1>9, AnswerType DEF FlushFSCache, FlushURLCache, Restart
  <2> QED BY <2>1, <2>2 DEF Types
<1>10. CASE UNCHANGED vars
  BY <1>1, <1>10 DEF vars, Types
<1> QED BY <1>3, <1>4, <1>5, <1>6, <1>7, <1>8, <1>9, <1>10 DEF Next, Types

-----------------------------------------------------------------------------
LEMMA InitIInv == Init => IInv
<1> SUFFICES ASSUME Init PROVE IInv
  OBVIOUS
<1>1. Sound(fscache) /\ CacheType(fscache)
  BY EmptyIsSound DEF Init, Sound
<1>2. UrlType(urlcache) /\ FileType(letterFile)
  BY DEF Init, UrlType, FileType
<1>3. ReplyType(reply)
  BY EmptySeq DEF Init, ReplyType
<1> QED BY <1>1, <1>2, <1>3, TypeSplit DEF IInv

LEMMA NextIInv == IInv /\ [Next]_vars => IInv'
<1> SUFFICES ASSUME IInv, [Next]_vars PROVE IInv'
  OBVIOUS
<1>1. Sound(fscache')
  BY SoundStep DEF IInv
<1>2. CacheType(fscache')
  BY <1>1 DEF Sound
<1>3. TypeOK'
  BY <1>2, OtherTypes, TypeSplit
<1> QED BY <1>1, <1>3 DEF IInv

\* The invariant the theorems below rest on: the cache is well typed, what its
\* directories list is cached as files or directories by their names, and stubs
\* and files carry the names of games and files.
THEOREM Invariant == Spec => []IInv
BY InitIInv, NextIInv, PTL DEF Spec

\* Whatever is requested, answered by ZXDB, flushed or restarted, in any order,
\* the caches map paths to entries and URLs to documents (type correctness).
THEOREM TypeCorrect == Spec => []TypeOK
<1>1. IInv => TypeOK
  BY DEF IInv
<1> QED BY <1>1, Invariant, PTL

\* What a cached directory lists is cached as what it is listed as, for any
\* letters, searches, games and requests: addAll, _unstub, the creation of a
\* game and that of a search never leave a row without its entry.
THEOREM ListedIsCachedHolds == Spec => []ListedIsCached
<1>1. IInv => ListedIsCached
  BY DEF IInv, Sound, Closed, RowOK, ListedIsCached
<1> QED BY <1>1, Invariant, PTL

\* A search whose results are cached is listed in /search: getattr appends the
\* term to the entry of /search in the step that caches the results, and no
\* other request rebuilds that entry.
THEOREM SearchesAreListedHolds == Spec => []SearchesAreListed
<1>1. SearchesListed(fscache) <=> SearchesAreListed
  BY DEF SearchesListed, Listed, SearchesAreListed, IsListedSearch, SearchRows, RowsOf
<1>2. SearchesListed(fscache') <=> SearchesAreListed'
  BY DEF SearchesListed, Listed, SearchesAreListed, IsListedSearch, SearchRows, RowsOf
<1>3. Init => SearchesAreListed
  BY DEF Init, EmptyCache, SearchesAreListed
<1>4. IInv /\ SearchesAreListed /\ [Next]_vars => SearchesAreListed'
  BY <1>1, <1>2, SoundStep DEF IInv
<1> QED BY <1>3, <1>4, Invariant, PTL DEF Spec

\* Between two flushes the cache forgets no path and turns no file into a
\* directory, whichever trees addAll lays over one another.
THEOREM FilesStayFilesHolds == Spec => FilesStayFiles
<1>1. IInv /\ [Next]_vars =>
        [ \/ fscache' = EmptyCache
          \/ \A p \in DOMAIN fscache :
                /\ p \in DOMAIN fscache'
                /\ IsFileType(fscache[p].type) => IsFileType(fscache'[p].type) ]_vars
  BY SoundStep DEF IInv, Keeps
<1> QED BY <1>1, Invariant, PTL DEF Spec, FilesStayFiles

\* A good by-letter file is never overwritten, torn or lost: the daemon reads it
\* before it asks ZXDB, and writes only when it could not use it, which takes
\* memory behind a good file that is not clean.
THEOREM GoodLetterFileIsKeptHolds ==
    ASSUME ~DirtyMemory
    PROVE  Spec => GoodLetterFileIsKept
<1>1. ASSUME NEW path \in Requests, FileType(letterFile),
             \/ CrashInWriteback(path)
             \/ \E doc \in Docs : \E written : ReaddirLetterFetch(path, doc, written)
      PROVE  \A l \in Letters : letterFile[l] = "good" => letterFile'[l] = "good"
  BY <1>1 DEF CrashInWriteback, ReaddirLetterFetch, MayFailToPreload, FileType
<1>2. ASSUME Next
      PROVE  \/ letterFile' = letterFile
             \/ \E path \in Requests :
                    \/ CrashInWriteback(path)
                    \/ \E doc \in Docs : \E written : ReaddirLetterFetch(path, doc, written)
  BY <1>2 DEF Next, GetattrFixed, GetattrHit, GetattrUnknown, ReaddirLetterHit,
      ReaddirLetterPreload, ReaddirLetterMisread, ReaddirCached, GetattrGame, GetattrSearch,
      ReaddirStub, FlushFSCache, FlushURLCache, Restart
<1>3. IInv /\ [Next]_vars =>
        [\A l \in Letters : letterFile[l] = "good" => letterFile'[l] = "good"]_vars
  BY <1>1, <1>2, TypeSplit DEF IInv
<1> QED BY <1>3, Invariant, PTL DEF Spec, GoodLetterFileIsKept

-----------------------------------------------------------------------------
(***************************************************************************)
(* What ZxdbFS answers: the attributes and the listings it hands out.       *)
(*                                                                          *)
(* What an answer shows is what the cache holds, so all three theorems rest *)
(* on one invariant of the entries of the cache, each alone (EntryOK): a    *)
(* tree laid over the cache keeps it when the entries of the tree have it.  *)
(***************************************************************************)

\* The names that readdir shows of an entry.
NamesOf(entry) == [i \in DOMAIN entry.files |-> BaseName(entry.files[i].fname)]

SearchRowOK(row) == ~IsFileType(row.type) /\ \E t \in Terms : row.fname = <<"search", t>>

EntryOK(key, entry) ==
    /\ Len(key) <= 2 => ~IsFileType(entry.type)
    /\ key = SearchDir => \A i \in DOMAIN entry.files : SearchRowOK(entry.files[i])
    /\ \A l \in Letters :
          key = <<"by-letter", l>> /\ ~DirtyMemory => NamesOf(entry) = LetterGames[l]
    /\ key[1] = "by-letter" /\ IsGamePath(key) /\ entry.type = "dir" =>
          entry.files = RowsIn(key, GameNames(BaseName(key)))

Shown(c) == \A k \in DOMAIN c : EntryOK(k, c[k])

LEMMA OverlayShown ==
    ASSUME NEW c, NEW t, Shown(c), Shown(t)
    PROVE  Shown(Overlay(c, t))
  BY DEF Shown, Overlay

LEMMA TwoSegments ==
    ASSUME NEW a, NEW b
    PROVE  Len(<<a, b>>) = 2 /\ <<a, b>>[1] = a /\ <<a, b>>[2] = b /\ BaseName(<<a, b>>) = b
  BY DEF BaseName

-----------------------------------------------------------------------------
(***************************************************************************)
(* The trees                                                                *)
(***************************************************************************)

LEMMA StubTreeEntries ==
    ASSUME NEW key \in Path, NEW path \in Path, NEW games \in Seq(Games)
    PROVE  LET t == StubTree(key, path, games)
           IN  /\ key \in DOMAIN t
               /\ t[key].type = "dir" /\ NamesOf(t[key]) = games
               /\ \A k \in DOMAIN t \ {key} :
                     t[k].type = "dirstub" /\ k \in Path /\ Len(k) = Len(path) + 1
<1> DEFINE t == StubTree(key, path, games)
           rows == StubRows(path, games)
<1> HIDE DEF t, rows
<1>1. \A i \in DOMAIN games : games[i] \in Name
  BY ElementOfSeq, LenProperties, Names
<1>2. \A i \in DOMAIN games : /\ Append(path, games[i]) \in Path
                              /\ BaseName(Append(path, games[i])) = games[i]
                              /\ Len(Append(path, games[i])) = Len(path) + 1
  BY <1>1, PathAppend
<1>3. /\ key \in DOMAIN t /\ t[key] = DirEntry(rows)
      /\ \A k \in DOMAIN t \ {key} :
            t[k] = StubEntry /\ \E i \in DOMAIN games : k = Append(path, games[i])
  BY DEF StubTree, t, rows
<1>4. /\ DOMAIN rows = DOMAIN games
      /\ \A i \in DOMAIN games : rows[i].fname = Append(path, games[i])
  BY DEF StubRows, rows, Row
<1>5. NamesOf(t[key]) = games
  <2>1. NamesOf(t[key]) = [i \in DOMAIN games |-> BaseName(rows[i].fname)]
    BY <1>3, <1>4 DEF NamesOf, DirEntry
  <2>2. \A i \in DOMAIN games : BaseName(rows[i].fname) = games[i]
    BY <1>2, <1>4
  <2>3. games = [i \in DOMAIN games |-> games[i]]
    BY LenProperties
  <2> QED BY <2>1, <2>2, <2>3
<1>6. ASSUME NEW k \in DOMAIN t \ {key}
      PROVE  t[k].type = "dirstub" /\ k \in Path /\ Len(k) = Len(path) + 1
  <2>1. PICK i \in DOMAIN games : k = Append(path, games[i])
    BY <1>3
  <2>2. t[k].type = "dirstub"
    BY <1>3 DEF StubEntry
  <2> QED BY <1>2, <2>1, <2>2
<1>7. key \in DOMAIN t /\ t[key].type = "dir"
  BY <1>3 DEF DirEntry
<1> QED BY <1>5, <1>6, <1>7 DEF t

LEMMA LetterTreeShown ==
    ASSUME NEW path \in Requests, IsLetterDir(path), NEW p \in {path, LetterKey(path)},
           NEW games \in Seq(Games), ~DirtyMemory => games = LetterGames[Upper[path[2]]]
    PROVE  Shown(StubTree(LetterKey(path), p, games))
<1> DEFINE key == LetterKey(path)
           t == StubTree(key, p, games)
<1>1. /\ key \in Path /\ key = <<"by-letter", Upper[path[2]]>> /\ p \in Path
      /\ BaseName(key) \in Letters /\ Len(key) = 2 /\ Len(p) = 2
  BY RequestFacts DEF IsLetterDir, LetterKey
<1> HIDE DEF key, t
<1>2. /\ t[key].type = "dir" /\ NamesOf(t[key]) = games
      /\ \A k \in DOMAIN t \ {key} :
            t[k].type = "dirstub" /\ k \in Path /\ Len(k) = 3 /\ ~(Len(k) <= 2)
  <2>1. /\ t[key].type = "dir" /\ NamesOf(t[key]) = games
        /\ \A k \in DOMAIN t \ {key} :
              t[k].type = "dirstub" /\ k \in Path /\ Len(k) = Len(p) + 1
    <3>1. key \in Path /\ p \in Path
      BY <1>1
    <3> QED BY <3>1, StubTreeEntries DEF t
  <2>2. Len(p) + 1 = 3 /\ ~(3 <= 2)
    BY <1>1
  <2> QED BY <2>1, <2>2
<1>3. EntryOK(key, t[key])
  <2>1. ~IsGamePath(key)
    BY <1>1, NamesAssumption, DisjointAssumption DEF IsGamePath
  <2>2. key # SearchDir
    <3>1. Len(SearchDir) = 1
      BY DEF SearchDir
    <3> QED BY <1>1, <3>1
  <2>3. \A l \in Letters : key = <<"by-letter", l>> => l = Upper[path[2]]
    BY <1>1, TwoSegments
  <2> QED BY <1>2, <2>1, <2>2, <2>3 DEF EntryOK, IsFileType
<1>4. ASSUME NEW k \in DOMAIN t \ {key} PROVE EntryOK(k, t[k])
  <2>1. k # SearchDir /\ \A l : k # <<"by-letter", l>>
    <3>1. Len(SearchDir) = 1
      BY DEF SearchDir
    <3> QED BY <1>2, <3>1, TwoSegments
  <2> QED BY <1>2, <2>1 DEF EntryOK
<1> QED BY <1>3, <1>4 DEF Shown, t, key

LEMMA GameTreeShown ==
    ASSUME NEW path \in Requests, HasGame(path)
    PROVE  Shown(GameTree(GameRoot(path), GameOf(path)))
<1> DEFINE root == GameRoot(path)
           g == GameOf(path)
           t == GameTree(root, g)
<1> HIDE DEF root, g, t
<1>1. path \in Path /\ path[1] \notin Games
  BY RequestFacts, DisjointAssumption
<1>2. /\ g \in Games /\ root \in Path /\ BaseName(root) = g /\ Len(root) > 1
      /\ BaseName(root) \in Games /\ BaseName(root) \notin Files
  BY <1>1, GameRootFacts, DisjointAssumption DEF root, g
<1>3. /\ Sound(t) /\ root \in DOMAIN t
      /\ \A k \in DOMAIN t : IsFileType(t[k].type) <=> BaseName(k) \in Files
      /\ \A k \in DOMAIN t \ {root} : Len(k) > Len(root)
  BY <1>2, GameTreeSound DEF t
<1>4. DOMAIN t \subseteq Path
  BY <1>3 DEF Sound, CacheType
<1>5. t[root].files = RowsIn(root, GameNames(g))
  BY <1>3 DEF GameTree, t, GameDirs, NamesIn, DirEntry
<1>6. EntryOK(root, t[root])
  <2>1. ~IsFileType(t[root].type)
    BY <1>2, <1>3
  <2>2. root # SearchDir
    <3>1. Len(SearchDir) = 1
      BY DEF SearchDir
    <3>2. Len(root) \in Nat
      BY <1>2, LenProperties DEF Path
    <3>3. Len(root) # 1
      BY <1>2, <3>2, Longer
    <3> QED BY <3>1, <3>3
  <2>3. \A l \in Letters : root # <<"by-letter", l>>
    BY <1>2, TwoSegments, NamesAssumption, DisjointAssumption
  <2> QED BY <1>2, <1>5, <2>1, <2>2, <2>3 DEF EntryOK
<1>7. ASSUME NEW k \in DOMAIN t \ {root} PROVE EntryOK(k, t[k])
  <2>1. Len(k) \in Nat /\ Len(root) \in Nat
    BY <1>2, <1>4, LenProperties DEF Path
  <2>2. Len(k) # 1 /\ Len(k) # 2 /\ ~(Len(k) <= 2)
    <3>1. \A m, n \in Nat : n > 1 /\ m > n => m # 1 /\ m # 2 /\ ~(m <= 2)
      OBVIOUS
    <3>2. Len(k) > Len(root)
      BY <1>3
    <3> QED BY <1>2, <2>1, <3>1, <3>2
  <2>3. k # SearchDir /\ \A l : k # <<"by-letter", l>>
    <3>1. Len(SearchDir) = 1
      BY DEF SearchDir
    <3> QED BY <2>2, <3>1, TwoSegments
  <2>4. BaseName(k) \notin Games
    <3>1. CASE IsFileType(t[k].type)
      BY <3>1, <1>3, DisjointAssumption
    <3>2. CASE ~IsFileType(t[k].type)
      <4>1. k \in GameDirs(root, g)
        BY <3>2 DEF GameTree, t, FileEntry, IsFileType
      <4>2. PICK j \in DOMAIN Sections(g) : k = Append(root, Sections(g)[j])
        BY <4>1 DEF GameDirs
      <4>3. Sections(g)[j] \in {"POKES", "SCRSHOT"}
        BY <1>2, GameNamesFacts, ElementOfSeq, LenProperties
      <4>4. BaseName(k) = Sections(g)[j]
        <5>1. Sections(g)[j] \in Name
          BY <4>3, Names
        <5> QED BY <1>2, <4>2, <5>1, PathAppend
      <4> QED BY <4>3, <4>4, DisjointAssumption
    <3> QED BY <3>1, <3>2
  <2> QED BY <2>2, <2>3, <2>4 DEF EntryOK, IsGamePath
<1> QED BY <1>6, <1>7 DEF Shown, t, root, g

\* A search caches its tree and then appends a row to the entry of /search.
LEMMA SearchShown ==
    ASSUME Sound(fscache), Shown(fscache), NEW path \in Requests, GetattrSearch(path, "good")
    PROVE  Shown(fscache')
<1> DEFINE t == StubTree(path, path, SearchGames[path[2]])
           found == Overlay(fscache, t)
           searches == IF SearchDir \in DOMAIN found THEN found[SearchDir] ELSE DirEntry(<< >>)
           row == Row(SearchKey(path), "dir")
           entry == AddFile(searches, row)
           top == [k \in {SearchDir} |-> entry]
<1> HIDE DEF t, found, searches, row, entry, top
<1>1. /\ path \in Path /\ path[1] = "search" /\ path[2] \in Terms
      /\ Len(path) \in Nat \ {0} /\ Len(path) > 1
  <2>1. path[1] = "search" /\ Len(path) # 1
    BY DEF GetattrSearch, IsNewSearch, IsFixedDir
  <2>2. \A n \in Nat \ {0} : n # 1 => n > 1
    OBVIOUS
  <2> QED BY <2>1, <2>2, RequestFacts
<1>2. fscache' = Overlay(found, top)
  BY DEF GetattrSearch, AddAll, Add, t, found, searches, entry, top, row
<1>3. SearchGames[path[2]] \in Seq(Games)
  BY <1>1, NamesAssumption
<1>4. /\ CacheType(t)
      /\ path \in DOMAIN t /\ t[path].type = "dir"
      /\ \A k \in DOMAIN t \ {path} :
            t[k].type = "dirstub" /\ k \in Path /\ Len(k) = Len(path) + 1
  BY <1>1, <1>3, StubTreeEntries, StubTreeSound DEF t, Sound
<1>5. Len(SearchDir) = 1 /\ SearchDir[1] = "search"
  BY DEF SearchDir
<1>6. Shown(t)
  <2>1. path # SearchDir /\ \A l : path # <<"by-letter", l>>
    <3>1. Len(path) # 1
      BY <1>1, Longer
    <3>2. path[1] # "by-letter"
      BY <1>1
    <3> QED BY <3>1, <3>2, <1>5, TwoSegments
  <2>2. EntryOK(path, t[path])
    BY <1>1, <1>4, <2>1 DEF EntryOK, IsFileType
  <2>3. ASSUME NEW k \in DOMAIN t \ {path} PROVE EntryOK(k, t[k])
    <3>1. \A n \in Nat : n > 1 => n + 1 # 1 /\ n + 1 # 2
      OBVIOUS
    <3>2. Len(k) # 1 /\ Len(k) # 2
      BY <1>1, <1>4, <3>1
    <3>3. k # SearchDir /\ \A l : k # <<"by-letter", l>>
      BY <3>2, <1>5, TwoSegments
    <3> QED BY <1>4, <3>3 DEF EntryOK, IsFileType
  <2> QED BY <2>2, <2>3 DEF Shown
<1>7. Shown(found) /\ SearchDir \notin DOMAIN t
  <2>1. path # SearchDir
    BY <1>1, <1>5, Longer
  <2>2. \A n \in Nat : n > 1 => n + 1 # 1
    OBVIOUS
  <2> QED BY <1>1, <1>4, <1>5, <1>6, <2>1, <2>2, OverlayShown DEF found
<1>8. /\ searches \in Entry /\ ~IsFileType(searches.type)
      /\ \A i \in DOMAIN searches.files : SearchRowOK(searches.files[i])
  <2>1. CASE SearchDir \in DOMAIN fscache
    <3>1. searches = fscache[SearchDir]
      BY <2>1, <1>7 DEF searches, found, Overlay
    <3>2. searches \in Entry
      BY <2>1, <3>1 DEF Sound, CacheType
    <3>3. EntryOK(SearchDir, searches)
      BY <2>1, <3>1 DEF Shown
    <3>4. Len(SearchDir) <= 2
      BY <1>5
    <3> QED BY <3>2, <3>3, <3>4 DEF EntryOK
  <2>2. CASE SearchDir \notin DOMAIN fscache
    <3>1. searches = DirEntry(<< >>)
      BY <2>2, <1>7 DEF searches, found, Overlay
    <3> QED BY <3>1, EmptySeq DEF DirEntry, Entry, Kinds, IsFileType
  <2> QED BY <2>1, <2>2
<1>9. SearchRowOK(row) /\ row \in [fname : Path, type : Kinds]
  <2>1. SearchKey(path) = <<"search", path[2]>> /\ path[2] \in Name /\ "search" \in Name
    BY <1>1 DEF SearchKey, Name
  <2>2. SearchKey(path) \in Path
    BY <2>1 DEF Path
  <2> QED BY <1>1, <2>1, <2>2 DEF SearchRowOK, row, Row, IsFileType, Kinds
<1>10. /\ entry.type = searches.type
       /\ entry.files = Append(searches.files, row)
       /\ searches.files \in Seq([fname : Path, type : Kinds])
  BY <1>8 DEF entry, AddFile, Entry
<1>11. \A i \in DOMAIN entry.files : SearchRowOK(entry.files[i])
  <2> DEFINE files == searches.files
  <2> HIDE DEF files
  <2>1. files \in Seq([fname : Path, type : Kinds])
    BY <1>10 DEF files
  <2>2. /\ Len(files) \in Nat /\ DOMAIN files = 1 .. Len(files)
        /\ DOMAIN Append(files, row) = 1 .. Len(files) + 1
        /\ \A i \in 1 .. Len(files) : Append(files, row)[i] = files[i]
        /\ Append(files, row)[Len(files) + 1] = row
    BY <2>1, <1>9, AppendProperties, LenProperties
  <2>3. \A i \in 1 .. Len(files) + 1 : i \in 1 .. Len(files) \/ i = Len(files) + 1
    BY <2>2
  <2>4. \A i \in DOMAIN Append(files, row) : SearchRowOK(Append(files, row)[i])
    BY <2>2, <2>3, <1>8, <1>9 DEF files
  <2> QED BY <2>4, <1>10 DEF files
<1>12. Shown(top)
  <2>1. \A l : SearchDir # <<"by-letter", l>>
    BY <1>5, TwoSegments
  <2>2. SearchDir[1] # "by-letter"
    BY <1>5
  <2>3. EntryOK(SearchDir, entry)
    BY <1>8, <1>10, <1>11, <2>1, <2>2 DEF EntryOK
  <2> QED BY <2>3 DEF Shown, top
<1> QED BY <1>2, <1>7, <1>12, OverlayShown

LEMMA ShownStep ==
    ASSUME Sound(fscache), Shown(fscache), [Next]_vars
    PROVE  Shown(fscache')
<1>1. CASE fscache' = fscache
  BY <1>1
<1>2. CASE fscache' = EmptyCache
  BY <1>2, EmptyIsSound DEF Shown
<1>3. ASSUME NEW path \in Requests, FillsGame(path, fscache, fscache')
      PROVE  Shown(fscache')
  BY <1>3, GameTreeShown, OverlayShown DEF FillsGame
<1>4. ASSUME NEW path \in Requests, FillsLetter(path, fscache, fscache')
      PROVE  Shown(fscache')
  BY <1>4, LetterTreeShown, OverlayShown DEF FillsLetter
<1>5. ASSUME NEW path \in Requests, GetattrSearch(path, "good")
      PROVE  Shown(fscache')
  BY <1>5, SearchShown
<1> QED BY <1>1, <1>2, <1>3, <1>4, <1>5, NextStep DEF CacheStep, vars

\* Every entry of the cache shows what it should, in every reachable state.
LEMMA AlwaysShown == Spec => [](IInv /\ Shown(fscache))
<1>1. Init => Shown(fscache)
  BY EmptyIsSound DEF Init, Shown
<1>2. IInv /\ Shown(fscache) /\ [Next]_vars => Shown(fscache')
  BY ShownStep DEF IInv
<1>3. Shown(fscache') <=> Shown(fscache)'
  OBVIOUS
<1> QED BY <1>1, <1>2, <1>3, Invariant, PTL DEF Spec

\* A loaded game directory under /by-letter lists the files of all releases of its
\* game, then its POKES and its SCRSHOT: no tree that is laid over it, of a letter,
\* of a search or of another game, changes that.
THEOREM LetterGameShowsGameHolds == Spec => []LetterGameShowsGame
<1>1. Shown(fscache) => LetterGameShowsGame
  BY DEF Shown, EntryOK, LetterGameShowsGame, ShowsGame
<1> QED BY <1>1, AlwaysShown, PTL

-----------------------------------------------------------------------------
(***************************************************************************)
(* Attributes                                                               *)
(***************************************************************************)

\* The attributes are those of the entry, or of a directory if there is none,
\* or those of a fixed directory; there are none for a path that the game it
\* is in turned out not to have.
AttributesFit ==
    reply.op = "getattr" =>
        \/ reply.path \in DOMAIN fscache /\ reply.kind = KindIn(fscache, reply.path)
        \/ reply.path \notin DOMAIN fscache /\ reply.kind = "dir"
        \/ IsFixedDir(reply.path) /\ reply.kind = "dir"
        \/ /\ reply.path \notin DOMAIN fscache
           /\ reply.path[1] # "search" \/ reply.path # SearchKey(reply.path)

LEMMA AnswerIs ==
    ASSUME NEW op, NEW path, NEW kind, NEW names, Answer(op, path, kind, names)
    PROVE  reply'.op = op /\ reply'.path = path /\ reply'.kind = kind /\ reply'.names = names
  BY DEF Answer

LEMMA AttributesStep ==
    ASSUME AttributesFit, [Next]_vars
    PROVE  AttributesFit'
<1>1. ASSUME NEW path \in Requests, GetattrFixed(path) PROVE AttributesFit'
  BY <1>1, AnswerIs DEF GetattrFixed, AttributesFit
<1>2. ASSUME NEW path \in Requests, GetattrHit(path) PROVE AttributesFit'
  BY <1>2, AnswerIs DEF GetattrHit, AttributesFit
<1>3. ASSUME NEW path \in Requests, GetattrUnknown(path) PROVE AttributesFit'
  BY <1>3, AnswerIs DEF GetattrUnknown, AttributesFit
<1>4. ASSUME NEW path \in Requests, NEW doc \in Docs, GetattrGame(path, doc)
      PROVE  AttributesFit'
  <2>1. CASE doc = "good"
    <3>1. /\ Answer("getattr", path, KindIn(fscache', path), << >>)
          /\ path \notin DOMAIN fscache
          /\ path[1] = "search" => SearchKey(path) \in DOMAIN fscache
      BY <1>4, <2>1 DEF GetattrGame, IsNewSearch
    <3>2. path[1] # "search" \/ path # SearchKey(path)
      BY <3>1
    <3> QED BY <3>1, <3>2, AnswerIs DEF AttributesFit
  <2>2. CASE doc # "good"
    <3>1. Answer("getattr", path, "dir", << >>) /\ path \notin DOMAIN fscache /\ fscache' = fscache
      BY <1>4, <2>2 DEF GetattrGame
    <3> QED BY <3>1, AnswerIs DEF AttributesFit
  <2> QED BY <2>1, <2>2
<1>5. ASSUME NEW path \in Requests, NEW doc \in Docs, GetattrSearch(path, doc)
      PROVE  AttributesFit'
  <2>1. /\ reply'.path = path /\ reply'.kind = "dir" /\ path \notin DOMAIN fscache
        /\ path # SearchDir
    <3>1. Len(path) # 1 /\ Len(SearchDir) = 1
      BY <1>5 DEF GetattrSearch, IsFixedDir, SearchDir
    <3>2. path \notin DOMAIN fscache /\ Answer("getattr", path, "dir", << >>)
      BY <1>5 DEF GetattrSearch
    <3> QED BY <3>1, <3>2, AnswerIs
  <2>2. CASE doc = "good"
    <3> DEFINE t == StubTree(path, path, SearchGames[path[2]])
    <3>1. path \in DOMAIN t /\ t[path].type = "dir"
      BY DEF StubTree, DirEntry
    <3> HIDE DEF t
    <3>2. path \in DOMAIN fscache' /\ fscache'[path] = t[path]
      <4> DEFINE found == Overlay(fscache, t)
                 searches == IF SearchDir \in DOMAIN found THEN found[SearchDir]
                                                           ELSE DirEntry(<< >>)
                 top == [k \in {SearchDir} |-> AddFile(searches, Row(SearchKey(path), "dir"))]
      <4> HIDE DEF found, searches
      <4>1. fscache' = Overlay(found, top)
        BY <1>5, <2>2 DEF GetattrSearch, AddAll, Add, t, found, searches
      <4>2. path \in DOMAIN found /\ found[path] = t[path]
        BY <3>1 DEF found, Overlay
      <4>3. path \notin DOMAIN top
        BY <2>1
      <4> HIDE DEF top
      <4> QED BY <4>1, <4>2, <4>3 DEF Overlay
    <3>3. reply'.kind = KindIn(fscache', reply'.path)
      BY <2>1, <3>1, <3>2 DEF KindIn
    <3> QED BY <2>1, <3>2, <3>3 DEF AttributesFit
  <2>3. CASE doc # "good"
    <3>1. fscache' = fscache
      BY <1>5, <2>3 DEF GetattrSearch
    <3> QED BY <2>1, <3>1 DEF AttributesFit
  <2> QED BY <2>2, <2>3
<1>6. ASSUME NEW path \in Requests,
             \/ ReaddirLetterHit(path) \/ ReaddirLetterPreload(path) \/ ReaddirCached(path)
             \/ \E games \in Misread : ReaddirLetterMisread(path, games)
             \/ CrashInWriteback(path)
             \/ \E doc \in Docs : \/ ReaddirStub(path, doc)
                                  \/ \E written : ReaddirLetterFetch(path, doc, written)
      PROVE  AttributesFit'
  <2>1. reply'.op \in {"readdir", "restart"}
    BY <1>6, AnswerIs DEF ReaddirLetterHit, ReaddirLetterPreload, ReaddirCached,
        ReaddirLetterMisread, CrashInWriteback, ReaddirStub, ReaddirLetterFetch, Restart
  <2> QED BY <2>1 DEF AttributesFit
<1>7. ASSUME FlushFSCache \/ FlushURLCache \/ Restart PROVE AttributesFit'
  BY <1>7, AnswerIs DEF FlushFSCache, FlushURLCache, Restart, AttributesFit
<1>8. CASE UNCHANGED vars
  BY <1>8 DEF vars, AttributesFit
<1> QED BY <1>1, <1>2, <1>3, <1>4, <1>5, <1>6, <1>7, <1>8 DEF Next

\* The attributes that getattr answers for a path are those that a listing of
\* the directory above it hands out, whether the path was cached, was loaded for
\* the answer, could not be loaded, or is a search.
THEOREM StatAgreesWithListingHolds == Spec => []StatAgreesWithListing
<1>1. Init => AttributesFit
  BY DEF Init, AttributesFit
<1>2. ASSUME IInv, Shown(fscache), AttributesFit PROVE StatAgreesWithListing
  <2> SUFFICES ASSUME NEW d \in DOMAIN fscache, NEW i \in DOMAIN fscache[d].files,
                      reply.op = "getattr", reply.path = fscache[d].files[i].fname
               PROVE  reply.kind = IF IsFileType(fscache[d].files[i].type)
                                     THEN "file" ELSE "dir"
    BY DEF StatAgreesWithListing
  <2> DEFINE row == fscache[d].files[i]
             path == reply.path
  <2> HIDE DEF row
  <2>1. path = row.fname
    BY DEF row
  <2>2. CASE d # SearchDir
    <3>1. /\ path \in DOMAIN fscache
          /\ IsFileType(row.type) <=> IsFileType(fscache[path].type)
      BY <1>2, <2>1, <2>2 DEF IInv, Sound, Closed, RowOK, row
    <3>2. CASE path \in DOMAIN fscache /\ reply.kind = KindIn(fscache, path)
      BY <3>1, <3>2 DEF KindIn, IsFileType, row
    <3>3. CASE IsFixedDir(path) /\ reply.kind = "dir"
      <4>1. Len(path) <= 2
        <5>1. Len(path) = 1 \/ Len(path) = 2
          BY <3>3 DEF IsFixedDir, IsLetterDir
        <5>2. \A n : n = 1 \/ n = 2 => n <= 2
          OBVIOUS
        <5> QED BY <5>1, <5>2
      <4>2. ~IsFileType(fscache[path].type)
        BY <1>2, <3>1, <4>1 DEF Shown, EntryOK
      <4> QED BY <3>1, <3>3, <4>2 DEF row
    <3> QED BY <1>2, <3>1, <3>2, <3>3 DEF AttributesFit
  <2>3. CASE d = SearchDir
    <3>1. ~IsFileType(row.type) /\ \E t \in Terms : row.fname = <<"search", t>>
      BY <1>2, <2>3 DEF Shown, EntryOK, SearchRowOK, row
    <3>2. PICK t \in Terms : path = <<"search", t>>
      BY <3>1, <2>1
    <3>3. Len(path) = 2 /\ path[1] = "search" /\ path[2] = t
      BY <3>2, TwoSegments
    <3>4. path = SearchKey(path)
      BY <3>2, <3>3 DEF SearchKey
    <3>5. path \in DOMAIN fscache => ~IsFileType(fscache[path].type)
      <4>1. Len(path) <= 2
        BY <3>3
      <4> QED BY <1>2, <4>1 DEF Shown, EntryOK
    <3>6. reply.kind = "dir"
      BY <1>2, <3>3, <3>4, <3>5 DEF AttributesFit, KindIn, IsFileType
    <3> QED BY <3>1, <3>6 DEF row
  <2> QED BY <2>2, <2>3
<1> QED BY <1>1, <1>2, AttributesStep, AlwaysShown, PTL DEF Spec

-----------------------------------------------------------------------------
(***************************************************************************)
(* Listings of letters                                                      *)
(***************************************************************************)

\* A listing of a letter that is cached shows its programs.
LEMMA ListingOfLetter ==
    ASSUME ~DirtyMemory, NEW c, Shown(c), NEW l \in Letters, <<"by-letter", l>> \in DOMAIN c
    PROVE  Listing(c, <<"by-letter", l>>) = LetterGames[l]
<1> DEFINE k == <<"by-letter", l>>
<1> HIDE DEF k
<1>1. k \in DOMAIN c /\ NamesOf(c[k]) = LetterGames[l]
  BY DEF Shown, EntryOK, k
<1> QED BY <1>1 DEF Listing, NamesOf, k

\* A letter spelled as itself is its own key.
LEMMA LetterIsKey ==
    ASSUME NEW path \in Requests, IsLetterDir(path), path[2] \in Letters
    PROVE  /\ Upper[path[2]] = path[2]
           /\ path = LetterKey(path)
           /\ LetterKey(path) = <<"by-letter", path[2]>>
<1>1. path \in Seq(Name) /\ Len(path) = 2 /\ path[1] = "by-letter" /\ Upper[path[2]] = path[2]
  BY RequestFacts, NamesAssumption DEF IsLetterDir, Path
<1> DEFINE k == <<"by-letter", path[2]>>
<1>2. k \in Seq(Name) /\ Len(k) = 2 /\ k[1] = "by-letter" /\ k[2] = path[2]
  BY Names
<1> HIDE DEF k
<1>3. \A j \in 1 .. Len(path) : path[j] = k[j]
  BY <1>1, <1>2
<1>4. path = k
  BY <1>1, <1>2, <1>3, SeqEqual
<1> QED BY <1>1, <1>4 DEF LetterKey, k

LEMMA LetterListedStep ==
    ASSUME ~DirtyMemory, IInv, IInv', Shown(fscache), Shown(fscache'), LetterListed, [Next]_vars
    PROVE  LetterListed'
<1> DEFINE Goal ==
        /\ reply'.op = "readdir" /\ IsLetterDir(reply'.path) /\ reply'.path[2] \in Letters
        /\ \/ LetterKey(reply'.path) \in DOMAIN fscache'
           \/ letterFile'[Upper[reply'.path[2]]] = "good"
        => reply'.names = LetterGames[Upper[reply'.path[2]]]
<1>1. Goal => LetterListed'
  BY DEF LetterListed, HasLetter, ShowsLetter
<1>2. ASSUME NEW path \in Requests, IsLetterDir(path), path[2] \in Letters,
             reply'.path = path, reply'.names = Listing(fscache', path),
             LetterKey(path) \in DOMAIN fscache'
      PROVE  Goal
  <2>1. /\ Upper[path[2]] = path[2] /\ path = LetterKey(path)
        /\ LetterKey(path) = <<"by-letter", path[2]>>
    BY <1>2, LetterIsKey
  <2>2. Listing(fscache', path) = LetterGames[path[2]]
    BY <1>2, <2>1, ListingOfLetter
  <2> QED BY <1>2, <2>1, <2>2
<1>3. ASSUME NEW path \in Requests, ReaddirLetterHit(path) PROVE Goal
  <2>1. /\ IsLetterDir(path) /\ reply'.path = path /\ reply'.names = Listing(fscache', path)
        /\ LetterKey(path) \in DOMAIN fscache'
    BY <1>3, AnswerIs DEF ReaddirLetterHit
  <2> QED BY <2>1, <1>2
<1>4. ASSUME NEW path \in Requests, ReaddirLetterPreload(path) PROVE Goal
  <2>1. IsLetterDir(path) /\ reply'.path = path /\ reply'.names = Listing(fscache', path)
    BY <1>4, AnswerIs DEF ReaddirLetterPreload
  <2>2. LetterKey(path) \in DOMAIN fscache'
    BY <1>4 DEF ReaddirLetterPreload, AddAll, Overlay, StubTree
  <2> QED BY <2>1, <2>2, <1>2
<1>5. ASSUME NEW path \in Requests, NEW doc \in Docs, NEW written,
             ReaddirLetterFetch(path, doc, written)
      PROVE  Goal
  <2>1. /\ IsLetterDir(path) /\ LetterKey(path) \notin DOMAIN fscache
        /\ letterFile[Upper[path[2]]] # "good"
        /\ reply'.path = path
    BY <1>5, AnswerIs DEF ReaddirLetterFetch, MayFailToPreload
  <2>2. CASE doc = "good"
    <3>1. reply'.names = Listing(fscache', path)
      BY <1>5, <2>2, AnswerIs DEF ReaddirLetterFetch
    <3>2. LetterKey(path) \in DOMAIN fscache'
      BY <1>5, <2>2 DEF ReaddirLetterFetch, AddAll, Overlay, StubTree
    <3> QED BY <2>1, <3>1, <3>2, <1>2
  <2>3. CASE doc # "good"
    <3>1. fscache' = fscache
      BY <1>5, <2>3 DEF ReaddirLetterFetch
    <3>2. letterFile'[Upper[path[2]]] # "good"
      <4>1. FileType(letterFile) /\ Upper[path[2]] \in Letters
        BY <2>1, TypeSplit, RequestFacts DEF IInv
      <4> QED BY <1>5, <2>1, <2>3, <4>1 DEF ReaddirLetterFetch, FileType
    <3> QED BY <2>1, <3>1, <3>2
  <2> QED BY <2>2, <2>3
<1>6. ASSUME NEW path \in Requests, ReaddirCached(path) PROVE Goal
  BY <1>6, AnswerIs DEF ReaddirCached
<1>7. ASSUME NEW path \in Requests, NEW doc \in Docs, ReaddirStub(path, doc) PROVE Goal
  <2>1. reply'.path = path /\ path \in DOMAIN fscache /\ fscache[path].type = "dirstub"
    BY <1>7, AnswerIs DEF ReaddirStub, IsStub
  <2>2. BaseName(path) \in Games
    BY <2>1 DEF IInv, Sound, NamedByKind
  <2>3. ~IsLetterDir(path)
    BY <2>2, DisjointAssumption DEF IsLetterDir, BaseName
  <2> QED BY <2>1, <2>3
<1>8. ASSUME NEW path \in Requests, NEW doc \in Docs,
             \/ GetattrFixed(path) \/ GetattrHit(path) \/ GetattrUnknown(path)
             \/ GetattrGame(path, doc) \/ GetattrSearch(path, doc) \/ CrashInWriteback(path)
      PROVE  Goal
  <2>1. reply'.op # "readdir"
    BY <1>8, AnswerIs DEF GetattrFixed, GetattrHit, GetattrUnknown, GetattrGame,
        GetattrSearch, CrashInWriteback
  <2> QED BY <2>1
<1>9. ASSUME FlushFSCache \/ FlushURLCache \/ Restart PROVE Goal
  <2>1. reply'.op # "readdir"
    BY <1>9, AnswerIs DEF FlushFSCache, FlushURLCache, Restart
  <2> QED BY <2>1
<1>10. CASE UNCHANGED vars
  BY <1>10 DEF vars, LetterListed, HasLetter, ShowsLetter
<1>11. ~\E path \in Requests : \E games \in Misread : ReaddirLetterMisread(path, games)
  BY DEF ReaddirLetterMisread
<1> HIDE DEF Goal
<1>12. CASE UNCHANGED vars
  BY <1>10, <1>12, <1>1
<1> QED BY <1>1, <1>3, <1>4, <1>5, <1>6, <1>7, <1>8, <1>9, <1>10, <1>11, <1>12 DEF Next, Docs

\* A listing of /by-letter/<A-Z> shows the programs of the letter whenever the
\* daemon has them, in the cache or on disk, after any fetches, failed writes,
\* crashes and restarts; memory that is not clean behind a torn file is the
\* one thing that can add to them (the run checks it without, too).
THEOREM LetterListedHolds ==
    ASSUME ~DirtyMemory
    PROVE  Spec => []LetterListed
<1>1. Init => LetterListed
  BY DEF Init, LetterListed
<1>2. LetterListed /\ IInv /\ Shown(fscache) /\ IInv' /\ Shown(fscache)' /\ [Next]_vars
          => LetterListed'
  BY LetterListedStep
<1> QED BY <1>1, <1>2, AlwaysShown, PTL DEF Spec
=============================================================================
