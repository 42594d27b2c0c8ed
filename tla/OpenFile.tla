------------------------------ MODULE OpenFile -------------------------------
(***************************************************************************)
(* The contents of a file: zxdb_fuse_open, zxdb_fuse_read and               *)
(* zxdb_fuse_release of zxdbfsd.c on top of getURLViacURL and write_data of  *)
(* lib/zxdbfs_http.c.  An open downloads the file into a buffer that grows   *)
(* with every piece; the reads are served from it; fi->fh holds it.          *)
(*                                                                          *)
(* The kernel asks for pages in any order and several at a time (readahead), *)
(* up to the size the file's attributes have; a short answer tells it where  *)
(* the file ends.  A byte is the place it has in the remote file.            *)
(***************************************************************************)
EXTENDS Integers, Sequences, Maps

CONSTANTS
    Handles,   \* open files, all of one path
    Page,      \* the size of a read
    Sizes,     \* <<metadata size, what a download may bring>>
    MaxAllocs  \* bound on the downloads started

ASSUME FileAssumption ==
    /\ Page \in Nat \ {0}
    /\ Sizes \subseteq Nat \X Nat

VARIABLES
    meta,     \* the size of the cache entry
    isize,    \* the size the kernel believes in
    chunks,   \* the MemoryStructs in memory: the buffer they point to, its size
    buffers,  \* the buffers in memory: their bytes
    allocs,   \* downloads started so far; it numbers both
    fh,       \* what each handle is doing, its fi->fh, the pages it got
    bad       \* the kind of a read that was not one: "none", "overrun"

fileVars == <<meta, isize, chunks, buffers, allocs, fh, bad>>

Null == 0
Closed == [pc |-> "closed", ptr |-> Null, remote |-> 0, pages |-> <<>>]
Size(h) == chunks[fh[h].ptr].size
Bytes(h) == buffers[chunks[fh[h].ptr].memory]
Step(h, r) == fh' = [fh EXCEPT ![h] = Overlay(@, r)]

FileInit ==
    /\ meta \in {s[1] : s \in Sizes} /\ isize = meta
    /\ chunks = <<>> /\ buffers = <<>> /\ allocs = 0
    /\ fh = [h \in Handles |-> Closed]
    /\ bad = "none"

\* The path is not cached any more, or its entry is a directory or has no URL:
\* the open succeeds without a buffer.
OpenNothing(h) ==
    /\ fh[h].pc = "closed"
    /\ Step(h, [pc |-> "open"])
    /\ UNCHANGED <<meta, isize, chunks, buffers, allocs, bad>>

\* The URL has a root to download from (the open is refused otherwise), and the
\* transfer starts: a byte is allocated, none has come.
Open(h) ==
    /\ fh[h].pc = "closed"
    /\ allocs < MaxAllocs
    /\ LET n == allocs + 1
       IN  \E s \in {s \in Sizes : s[1] = meta} :
               /\ allocs' = n
               /\ chunks' = Updated(chunks, n, [memory |-> n, size |-> 0])
               /\ buffers' = Updated(buffers, n, <<>>)
               /\ Step(h, [pc |-> "transfer", ptr |-> n, remote |-> s[2]])
    /\ UNCHANGED <<meta, isize, bad>>

\* Mutant of Piece: a piece is written to the start of the buffer.
Piece_restart(h, n) ==
    /\ fh[h].pc = "transfer"
    /\ n \in 1 .. fh[h].remote - Size(h)
    /\ LET c == chunks[fh[h].ptr]
       IN  /\ buffers' = [buffers EXCEPT ![c.memory] =
                            [i \in 1 .. c.size + n |-> IF i <= n THEN c.size + i ELSE @[i - n]]]
           /\ chunks' = [chunks EXCEPT ![fh[h].ptr].size = @ + n]
    /\ UNCHANGED <<meta, isize, allocs, fh, bad>>

\* write_data: the buffer is grown and the piece goes behind what is there.
Piece(h, n) ==
    /\ fh[h].pc = "transfer"
    /\ n \in 1 .. fh[h].remote - Size(h)
    /\ LET c == chunks[fh[h].ptr]
       IN  /\ buffers' = [buffers EXCEPT ![c.memory] = @ \o [i \in 1 .. n |-> c.size + i]]
           /\ chunks' = [chunks EXCEPT ![fh[h].ptr].size = @ + n]
    /\ UNCHANGED <<meta, isize, allocs, fh, bad>>

Done(h) ==
    /\ fh[h].pc = "transfer"
    /\ Size(h) = fh[h].remote
    /\ Step(h, [pc |-> "open"])
    /\ UNCHANGED <<meta, isize, chunks, buffers, allocs, bad>>

\* The other side sends nothing any more.
Stall(h) ==
    /\ fh[h].pc = "transfer"
    /\ Step(h, [pc |-> "stalled"])
    /\ UNCHANGED <<meta, isize, chunks, buffers, allocs, bad>>

\* Mutant of Fails: there is no time limit.
Fails_noTimeout(h) ==
    /\ fh[h].pc = "transfer"
    /\ buffers' = Without(buffers, {chunks[fh[h].ptr].memory})
    /\ chunks' = Without(chunks, {fh[h].ptr})
    /\ Step(h, [pc |-> "open", ptr |-> Null])
    /\ UNCHANGED <<meta, isize, allocs, bad>>

\* The transfer fails or takes more than 30 s: what came is freed, and the
\* open succeeds without a buffer.
Fails(h) ==
    /\ fh[h].pc \in {"transfer", "stalled"}
    /\ buffers' = Without(buffers, {chunks[fh[h].ptr].memory})
    /\ chunks' = Without(chunks, {fh[h].ptr})
    /\ Step(h, [pc |-> "open", ptr |-> Null])
    /\ UNCHANGED <<meta, isize, allocs, bad>>

\* realloc finds no memory: the MemoryStruct is freed, the old block is not.
NoMemory(h) ==
    /\ fh[h].pc = "transfer" /\ Size(h) < fh[h].remote
    /\ chunks' = Without(chunks, {fh[h].ptr})
    /\ Step(h, [pc |-> "open", ptr |-> Null])
    /\ UNCHANGED <<meta, isize, buffers, allocs, bad>>

Offsets == {k * Page : k \in 0 .. (IF isize = 0 THEN -1 ELSE (isize - 1) \div Page)}

\* How much a read of Page bytes at `offset` copies: an int, with its sign.
NToCopy(h, offset) ==
    IF offset + Page > Size(h) THEN Size(h) - offset ELSE Page

\* Without a buffer: -ENOENT.
ReadNothing(h) ==
    /\ fh[h].pc = "open" /\ fh[h].ptr = Null
    /\ UNCHANGED fileVars

\* memcpy of the part of the page the buffer has; a negative count becomes a
\* huge size_t.  The kernel takes a short answer for the end of the file.
Read(h, offset) ==
    /\ fh[h].pc = "open" /\ fh[h].ptr # Null
    /\ offset \in Offsets
    /\ LET n == NToCopy(h, offset)
       IN  IF n < 0 \/ offset + n > Size(h)
             THEN bad' = "overrun" /\ UNCHANGED <<fh, isize>>
             ELSE /\ Step(h, [pages |-> Updated(fh[h].pages, offset,
                                                   SubSeq(Bytes(h), offset + 1, offset + n))])
                  /\ isize' = IF n < Page /\ offset + n < isize THEN offset + n ELSE isize
                  /\ UNCHANGED bad
    /\ UNCHANGED <<meta, chunks, buffers, allocs>>

\* The attributes have timed out and are asked for again: the size of the entry.
Getattr ==
    /\ isize' = meta
    /\ UNCHANGED <<meta, chunks, buffers, allocs, fh, bad>>

\* Only the MemoryStruct is freed.
Release(h) ==
    /\ fh[h].pc = "open"
    /\ chunks' = Without(chunks, {fh[h].ptr})
    /\ fh' = [fh EXCEPT ![h] = Closed]
    /\ UNCHANGED <<meta, isize, buffers, allocs, bad>>

Transfer(h) == (\E n \in 1 .. fh[h].remote : Piece(h, n)) \/ Done(h) \/ Fails(h) \/ NoMemory(h)

FileNext ==
    /\ bad = "none"
    /\ \/ Getattr
       \/ \E h \in Handles :
              \/ OpenNothing(h) \/ Open(h) \/ Transfer(h) \/ Stall(h)
              \/ ReadNothing(h) \/ (\E offset \in Offsets : Read(h, offset)) \/ Release(h)

\* A transfer makes progress or runs into its time limit.
FileSpec == FileInit /\ [][FileNext]_fileVars /\ \A h \in Handles : WF_fileVars(bad = "none" /\ Transfer(h))

-----------------------------------------------------------------------------
(***************************************************************************)
(* Properties                                                               *)
(***************************************************************************)

\* Type invariant: a handle that is in use owns its MemoryStruct and a buffer
\* as long as the size says, and shares them with no other handle.
FileTypeOK ==
    /\ isize \in 0 .. meta
    /\ \A h \in Handles :
           fh[h].ptr # Null =>
               /\ fh[h].ptr \in DOMAIN chunks
               /\ chunks[fh[h].ptr].memory \in DOMAIN buffers
               /\ Len(Bytes(h)) = Size(h)
               /\ \A g \in Handles \ {h} : fh[g].ptr # fh[h].ptr

\* A page that was read holds the bytes of the remote file that belong there;
\* it is short only where the download ends.
HoldsItsBytes(page, offset, remote) ==
    /\ \A i \in DOMAIN page : page[i] = offset + i
    /\ Len(page) < Page => offset + Len(page) = remote

\* A download brings at least what lies before the last page of the metadata:
\* nothing in the code sees to it (an error page is downloaded like a file).
EndsInLastPage ==
    \A s \in Sizes : \A k \in 0 .. s[1] : k * Page < s[1] => k * Page <= s[2]

\* No read copies more than the buffer has, or a negative count.
NoOverrun == EndsInLastPage => bad = "none"

\* Every page of a handle holds the bytes of the file that belong there, however
\* the download was cut into pieces and whoever else opens, fails or releases;
\* they come from a buffer no other handle has, and from within it.
PagesAreTheFile ==
    /\ FileTypeOK /\ NoOverrun
    /\ \A h \in Handles : \A offset \in DOMAIN fh[h].pages :
           HoldsItsBytes(fh[h].pages[offset], offset, fh[h].remote)

\* A buffer is in memory as long as a handle uses it.
BuffersAreOwned ==
    \A b \in DOMAIN buffers : \E c \in DOMAIN chunks : chunks[c].memory = b

\* Every transfer ends, also one that stalls: the open is answered.
OpensEnd == \A h \in Handles : fh[h].pc = "transfer" ~> fh[h].pc = "open"

=============================================================================
