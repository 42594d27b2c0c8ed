----------------------------- MODULE KernelWalk ------------------------------
(***************************************************************************)
(* ZxdbFS asked by a kernel that walks paths: it looks a name up in what    *)
(* was answered to be a directory, and lists what was.  What the kernel     *)
(* once knew it may use again at any time: a cached dentry, a process       *)
(* sitting in the directory.  Restricts ZxdbFS, so that what goes wrong     *)
(* here takes nothing but a walk from the root.                             *)
(***************************************************************************)
EXTENDS ZxdbFS

VARIABLE known      \* the directories the kernel has walked to

Parent(path) == SubSeq(path, 1, Len(path) - 1)

WalkInit == Init /\ known = {<< >>}

WalkNext ==
    \/ \E path \in Requests :
        /\ Parent(path) \in known
        /\ Next
        /\ reply'.path = path
        /\ reply'.op = "readdir" => path \in known
        /\ known' = IF reply'.op = "getattr" /\ reply'.kind = "dir"
                      THEN known \cup {path} ELSE known
    \/ FlushFSCache /\ UNCHANGED known
    \/ FlushURLCache /\ UNCHANGED known
    \/ Restart /\ known' = {<< >>}

WalkSpec == WalkInit /\ [][WalkNext]_<<vars, known>>
=============================================================================
