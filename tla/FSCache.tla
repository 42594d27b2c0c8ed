------------------------------- MODULE FSCache -------------------------------
(***************************************************************************)
(* The filesystem cache of lib/zxdbfs_fscache.c and the entries of          *)
(* lib/zxdbfs_fscacheentry.c, as values and operators.                      *)
(*                                                                          *)
(* The cache is a JSON object from path to entry: here a function whose     *)
(* domain is the set of cached paths.  A path is the sequence of its        *)
(* segments.  An entry keeps its type and its "files" array; a row of that  *)
(* array is a full copy of the child in the code, of which every reader     *)
(* uses the fname and the type only (readdir, addAll), so a row is those    *)
(* two.  The url and size of a file entry matter to open and read alone.    *)
(*                                                                          *)
(* A tree is what a builder returns: the entry of a directory together      *)
(* with the entries of its descendants, under their own fnames.             *)
(***************************************************************************)
EXTENDS Integers, Sequences, Maps

Kinds == {"dir", "dirstub", "file"}

Row(fname, type) == [fname |-> fname, type |-> type]

\* FSCacheEntry_create: only a dir is given a "files" array; getnfiles of an
\* entry without one is 0.
DirEntry(rows) == [type |-> "dir",     files |-> rows]
StubEntry      == [type |-> "dirstub", files |-> << >>]
FileEntry      == [type |-> "file",    files |-> << >>]

EmptyCache == [p \in {} |-> FileEntry]

\* The last segment of a path.
BaseName(path) == path[Len(path)]

\* FSCache_add: json_object_object_add replaces what the key held.
Add(cache, key, entry) == Overlay(cache, [k \in {key} |-> entry])

\* FSCache_addAll: the root under its key, then every descendant under its
\* own fname, each of them overwriting what was there.
AddAll(cache, tree) == Overlay(cache, tree)

\* FSCache_delete: the key alone; descendants stay.
Delete(cache, key) == [k \in DOMAIN cache \ {key} |-> cache[k]]

\* FSCacheEntry_addFile: append to the "files" of a dir.
AddFile(entry, row) == [entry EXCEPT !.files = Append(@, row)]

-----------------------------------------------------------------------------
(***************************************************************************)
(* Builders.                                                                *)
(***************************************************************************)

StubRows(path, games) ==
    [i \in DOMAIN games |-> Row(Append(path, games[i]), "dirstub")]

\* Mutant of StubTree: the children are created as directories, not as stubs.
StubTree_dirs(key, path, games) ==
    LET children == {Append(path, games[i]) : i \in DOMAIN games}
    IN  [p \in children \cup {key} |->
            IF p = key THEN DirEntry(StubRows(path, games)) ELSE DirEntry(<< >>)]

\* FSCacheEntry_createFromByLetter and FSCacheEntry_createFromSearch: one stub
\* per game below path.  The root is stored under key, which one caller makes
\* different from path.
StubTree(key, path, games) ==
    LET stubs == {Append(path, games[i]) : i \in DOMAIN games}
    IN  [p \in stubs \cup {key} |->
            IF p = key THEN DirEntry(StubRows(path, games)) ELSE StubEntry]

=============================================================================
