----------------------------- MODULE StatusFile ------------------------------
(***************************************************************************)
(* Opening a file of /status (zxdbfsd.c: _getStatus, the end of             *)
(* zxdb_fuse_open): the status is gathered by a shell command into one      *)
(* temporary file, whatever the mode, and read back with cURL.              *)
(*                                                                          *)
(* The file is a name and inodes: unlink takes the name away, the shell     *)
(* opens it with O_CREAT|O_TRUNC and each command writes at its own offset. *)
(***************************************************************************)
EXTENDS Integers, Sequences, SequencesExt, Maps

CONSTANTS
    Openers,   \* threads that serve an open at the same time
    MaxRuns    \* bound on the commands run

ASSUME StatusAssumption == MaxRuns \in Nat

VARIABLES
    name,    \* the inode of /tmp/zxdbfsstatus.txt, or NoFile
    inodes,  \* inode -> its blocks
    runs,    \* commands run so far
    op       \* what each opener is doing

statusVars == <<name, inodes, runs, op>>

Modes == {"json", "text", "summary"}
Parts(mode) == IF mode = "summary" THEN 1 ELSE 2
NoFile == 0
Hole == [run |-> 0, mode |-> "none", part |-> 0]
Output(mode, run) == [i \in 1 .. Parts(mode) |-> [run |-> run, mode |-> mode, part |-> i]]

\* `since` is the number of commands run when the opener unlinked the file.
NotOpening == [pc |-> "idle", mode |-> "none", inode |-> NoFile, run |-> 0, at |-> 0,
         since |-> 0, read |-> <<>>]

WriteAt(s, i, b) == [k \in 1 .. (IF i > Len(s) THEN i ELSE Len(s)) |->
                        IF k = i THEN b ELSE IF k <= Len(s) THEN s[k] ELSE Hole]

Opens(o, r) == op' = [op EXCEPT ![o] = Overlay(@, r)]

StatusInit ==
    /\ name = NoFile
    /\ inodes = <<>>
    /\ runs = 0
    /\ op = [o \in Openers |-> NotOpening]

Open(o, mode) ==
    /\ op[o].pc = "idle"
    /\ Opens(o, [pc |-> "unlink", mode |-> mode])
    /\ UNCHANGED <<name, inodes, runs>>

\* Mutant of Unlink: the old file is left for the shell to truncate.
Unlink_not(o) ==
    /\ op[o].pc = "unlink"
    /\ Opens(o, [pc |-> "system", since |-> runs])
    /\ UNCHANGED <<name, inodes, runs>>

Unlink(o) ==
    /\ op[o].pc = "unlink"
    /\ name' = NoFile
    /\ Opens(o, [pc |-> "system", since |-> runs])
    /\ UNCHANGED <<inodes, runs>>

\* system() fails before there is a shell; nobody looks at what it returns.
NoShell(o) ==
    /\ op[o].pc = "system"
    /\ Opens(o, [pc |-> "curl"])
    /\ UNCHANGED <<name, inodes, runs>>

\* The shell opens the file for ">", then starts the command.
Shell(o) ==
    /\ op[o].pc = "system" /\ runs < MaxRuns
    /\ runs' = runs + 1
    /\ IF name = NoFile
         THEN /\ inodes' = Append(inodes, <<>>)
              /\ name' = Len(inodes) + 1
         ELSE /\ inodes' = [inodes EXCEPT ![name] = <<>>]
              /\ UNCHANGED name
    /\ Opens(o, [pc |-> "write", inode |-> name', run |-> runs', at |-> 1])

Write(o) ==
    /\ op[o].pc = "write"
    /\ op[o].at <= Parts(op[o].mode)
    /\ inodes' = [inodes EXCEPT ![op[o].inode] =
                     WriteAt(@, op[o].at, Output(op[o].mode, op[o].run)[op[o].at])]
    /\ Opens(o, [at |-> op[o].at + 1])
    /\ UNCHANGED <<name, runs>>

\* The command ends, or is killed half way.
Exit(o) ==
    /\ op[o].pc = "write"
    /\ Opens(o, [pc |-> "curl"])
    /\ UNCHANGED <<name, inodes, runs>>

\* file:///tmp/zxdbfsstatus.txt is opened by name; without it the open of the
\* FUSE file succeeds all the same, and has no buffer.
CurlOpen(o) ==
    /\ op[o].pc = "curl"
    /\ IF name = NoFile THEN op' = [op EXCEPT ![o] = NotOpening]
                        ELSE Opens(o, [pc |-> "fetch", inode |-> name])
    /\ UNCHANGED <<name, inodes, runs>>

CurlRead(o) ==
    /\ op[o].pc = "fetch"
    /\ Opens(o, [pc |-> "opened", read |-> inodes[op[o].inode]])
    /\ UNCHANGED <<name, inodes, runs>>

Release(o) ==
    /\ op[o].pc = "opened"
    /\ op' = [op EXCEPT ![o] = NotOpening]
    /\ UNCHANGED <<name, inodes, runs>>

StatusNext ==
    \E o \in Openers :
        \/ \E mode \in Modes : Open(o, mode)
        \/ Unlink(o) \/ NoShell(o) \/ Shell(o) \/ Write(o) \/ Exit(o)
        \/ CurlOpen(o) \/ CurlRead(o) \/ Release(o)

StatusSpec == StatusInit /\ [][StatusNext]_statusVars

-----------------------------------------------------------------------------
(***************************************************************************)
(* Properties                                                               *)
(***************************************************************************)

\* Type invariant: the name is that of an inode, a command has a file.
StatusTypeOK ==
    /\ name \in 0 .. Len(inodes)
    /\ runs \in 0 .. MaxRuns
    /\ \A o \in DOMAIN op :
           /\ op[o].pc \in {"write", "fetch"} => op[o].inode \in 1 .. Len(inodes)
           /\ op[o].since <= runs

\* With one open at a time, what is read is what its own command wrote, from
\* the start and nothing after it: the command may have been killed half way.
ReadsOwnOutput ==
    (\A o, p \in DOMAIN op : o = p) =>
        \A o \in DOMAIN op : op[o].pc = "opened" =>
            IsPrefix(op[o].read, Output(op[o].mode, op[o].run))

\* However many opens are under way, none reads what was gathered before it
\* began, although any of them may be reading the file of another; one that is
\* alone reads its own.
ReadsFresh ==
    /\ StatusTypeOK /\ ReadsOwnOutput
    /\ \A o \in DOMAIN op : op[o].pc = "opened" =>
           \A i \in DOMAIN op[o].read :
               op[o].read[i] = Hole \/ op[o].read[i].run > op[o].since

\* "/status/summary will return a file containing either 0 or 1"
\* (README.md:143): what its open reads is the output of a summary.
SummaryIsSummary ==
    \A o \in Openers : op[o].pc = "opened" /\ op[o].mode = "summary" =>
        \A i \in DOMAIN op[o].read : op[o].read[i].mode = "summary"

=============================================================================
