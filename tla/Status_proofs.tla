------------------------------- MODULE Status_proofs -------------------------------
(***************************************************************************)
(* /status: the files its opens read, and the script that writes them.      *)
(***************************************************************************)
EXTENDS StatusFile, StatusScript, TLAPS

-----------------------------------------------------------------------------
(***************************************************************************)
(* What an open of a status file reads, for any number of opens at a time.  *)
(*                                                                          *)
(* The blocks are fresh because the file that has the name was made after   *)
(* the opener took the name away: every block in it, and every command that *)
(* still writes to it, is younger than the unlink (FreshIn).  An opener that *)
(* is alone finds in the file what its own command has written so far       *)
(* (OwnOK).                                                                 *)
(***************************************************************************)

Blocks == [run : Nat, mode : Modes \cup {"none"}, part : Nat]
Steps == {"idle", "unlink", "system", "write", "curl", "fetch", "opened"}

OpenerOK(r) ==
    /\ DOMAIN r = DOMAIN NotOpening
    /\ r.pc \in Steps /\ r.mode \in Modes \cup {"none"}
    /\ r.inode \in Nat /\ r.run \in Nat /\ r.at \in Nat
    /\ r.since \in 0 .. runs /\ r.run \in 0 .. runs
    /\ r.pc \in {"write", "fetch"} => r.inode \in 1 .. Len(inodes)
    /\ r.pc = "write" => r.at # 0
    /\ r.read \in Seq(Blocks)

FilesOK ==
    /\ inodes \in Seq(Seq(Blocks))
    /\ name \in 0 .. Len(inodes)
    /\ runs \in 0 .. MaxRuns

OpenersOK == op = [o \in Openers |-> op[o]] /\ \A o \in Openers : OpenerOK(op[o])

BlocksFresh(s, t) == \A i \in DOMAIN s : s[i] = Hole \/ s[i].run > t

\* What is in the file n and what may come is younger than t.
FreshIn(n, t) ==
    /\ BlocksFresh(inodes[n], t)
    /\ \A w \in Openers : op[w].pc = "write" /\ op[w].inode = n => op[w].run > t

FreshOK(r) ==
    /\ r.pc \in {"system", "write", "curl"} /\ name # NoFile => FreshIn(name, r.since)
    /\ r.pc = "fetch" => FreshIn(r.inode, r.since)
    /\ r.pc = "opened" => BlocksFresh(r.read, r.since)

\* The first n blocks a command writes.
IsOwn(s, r, n) ==
    /\ Len(s) = n /\ n <= Parts(r.mode)
    /\ \A i \in 1 .. n : s[i] = [run |-> r.run, mode |-> r.mode, part |-> i]

OwnOK(r) ==
    /\ r.pc = "system" => name = NoFile
    /\ r.pc = "write" => name = r.inode /\ IsOwn(inodes[name], r, r.at - 1)
    /\ r.pc = "curl" /\ name # NoFile => IsOwn(inodes[name], r, Len(inodes[name]))
    /\ r.pc = "fetch" => IsOwn(inodes[r.inode], r, Len(inodes[r.inode]))
    /\ r.pc = "opened" => IsOwn(r.read, r, Len(r.read))

Alone == \A o, p \in Openers : o = p

OpensInv ==
    /\ FilesOK /\ OpenersOK
    /\ \A o \in Openers : FreshOK(op[o])
    /\ Alone => \A o \in Openers : OwnOK(op[o])

-----------------------------------------------------------------------------
(***************************************************************************)
(* Steps that leave the files alone, or take the name away                  *)
(***************************************************************************)

\* Only o moves, to what l says.
MovesTo(o, l) ==
    /\ op' = [p \in Openers |-> op'[p]]
    /\ op'[o] = l
    /\ \A p \in Openers \ {o} : op'[p] = op[p]

LEMMA OpensMoves ==
    ASSUME OpenersOK, NEW o \in Openers, NEW r, Opens(o, r)
    PROVE  MovesTo(o, Overlay(op[o], r))
  BY DEF OpenersOK, Opens, MovesTo

LEMMA OpenersStep ==
    ASSUME OpenersOK, NEW o \in Openers, NEW l, MovesTo(o, l), OpenerOK(l)',
           runs \in Nat, runs' \in Nat, runs <= runs', Len(inodes) \in Nat, Len(inodes') \in Nat,
           Len(inodes) <= Len(inodes')
    PROVE  OpenersOK'
<1>1. \A r : OpenerOK(r) => OpenerOK(r)'
  BY DEF OpenerOK
<1> QED BY <1>1 DEF OpenersOK, MovesTo

\* What was fresh in a file stays so unless somebody begins to write to it.
LEMMA StaysFresh ==
    ASSUME NEW o \in Openers, NEW l, MovesTo(o, l), l.pc # "write",
           NEW n, NEW t, FreshIn(n, t), inodes'[n] = inodes[n]
    PROVE  FreshIn(n, t)'
  BY DEF MovesTo, FreshIn, BlocksFresh

LEMMA QuietStep ==
    ASSUME OpensInv, NEW o \in Openers, NEW l, MovesTo(o, l), OpenerOK(l), l.pc # "write",
           UNCHANGED <<inodes, runs>>, name' = name \/ name' = NoFile,
           l.pc \in {"system", "curl"} /\ name' # NoFile => FreshIn(name, l.since),
           l.pc = "fetch" => FreshIn(l.inode, l.since),
           l.pc = "opened" => BlocksFresh(l.read, l.since),
           Alone => OwnOK(l)'
    PROVE  OpensInv'
<1>1. FilesOK'
  BY DEF OpensInv, FilesOK, NoFile
<1>2. OpenersOK'
  <2>1. OpenerOK(l)'
    BY DEF OpenerOK
  <2>2. runs \in Nat /\ Len(inodes) \in Nat
    BY StatusAssumption DEF OpensInv, FilesOK
  <2> QED BY <2>1, <2>2, OpenersStep DEF OpensInv
<1>3. \A n, t : FreshIn(n, t) => FreshIn(n, t)'
  BY StaysFresh
<1>4. FreshOK(l)'
  BY <1>3 DEF FreshOK, BlocksFresh
<1>5. \A p \in Openers \ {o} : FreshOK(op[p])'
  <2> SUFFICES ASSUME NEW p \in Openers \ {o} PROVE FreshOK(op[p])'
    OBVIOUS
  <2>1. PICK r : r = op[p] /\ op'[p] = r
    BY DEF MovesTo
  <2>2. FreshOK(r)
    BY <2>1 DEF OpensInv
  <2>3. FreshOK(r)'
    BY <1>3, <2>2 DEF FreshOK, BlocksFresh
  <2> QED BY <2>1, <2>3 DEF FreshOK, BlocksFresh, FreshIn
<1>6. \A p \in Openers : FreshOK(op[p])'
  <2>1. FreshOK(op[o])'
    BY <1>4 DEF MovesTo, FreshOK
  <2> QED BY <1>5, <2>1
<1>7. ASSUME Alone PROVE \A p \in Openers : OwnOK(op[p])'
  BY <1>7 DEF Alone, MovesTo, OwnOK
<1> QED BY <1>1, <1>2, <1>6, <1>7 DEF OpensInv, Alone

LEMMA QuietSteps ==
    ASSUME OpensInv, NEW o \in Openers,
           \/ \E mode \in Modes : Open(o, mode)
           \/ Unlink(o) \/ NoShell(o) \/ Exit(o) \/ CurlOpen(o) \/ CurlRead(o) \/ Release(o)
    PROVE  OpensInv'
<1>1. /\ OpenersOK /\ OpenerOK(op[o]) /\ FreshOK(op[o]) /\ (Alone => OwnOK(op[o]))
      /\ runs \in Nat /\ Len(inodes) \in Nat /\ inodes \in Seq(Seq(Blocks)) /\ name \in 0 .. Len(inodes)
  BY StatusAssumption DEF OpensInv, FilesOK, OpenersOK
<1>2. OpenerOK(NotOpening) /\ NotOpening.pc = "idle" /\ OwnOK(NotOpening)'
  BY <1>1 DEF NotOpening, OpenerOK, OwnOK, Steps, Modes, NoFile
<1>3. ASSUME NEW mode \in Modes, Open(o, mode) PROVE OpensInv'
  <2>1. PICK l : l = Overlay(op[o], [pc |-> "unlink", mode |-> mode])
    OBVIOUS
  <2>2. MovesTo(o, l) /\ UNCHANGED <<name, inodes, runs>>
    BY <1>1, <1>3, <2>1, OpensMoves DEF Open
  <2>3. OpenerOK(l) /\ l.pc = "unlink"
    BY <1>1, <2>1 DEF OpenerOK, NotOpening, Overlay, Steps
  <2>4. OwnOK(l)'
    BY <2>3 DEF OwnOK
  <2> QED BY <2>2, <2>3, <2>4, QuietStep
<1>4. CASE Unlink(o)
  <2>1. PICK l : l = Overlay(op[o], [pc |-> "system", since |-> runs])
    OBVIOUS
  <2>2. MovesTo(o, l) /\ name' = NoFile /\ UNCHANGED <<inodes, runs>>
    BY <1>1, <1>4, <2>1, OpensMoves DEF Unlink
  <2>3. OpenerOK(l) /\ l.pc = "system"
    BY <1>1, <2>1 DEF OpenerOK, NotOpening, Overlay, Steps
  <2>4. OwnOK(l)'
    BY <2>2, <2>3 DEF OwnOK
  <2> QED BY <2>2, <2>3, <2>4, QuietStep
<1>5. CASE NoShell(o)
  <2>1. PICK l : l = Overlay(op[o], [pc |-> "curl"])
    OBVIOUS
  <2>2. MovesTo(o, l) /\ UNCHANGED <<name, inodes, runs>> /\ op[o].pc = "system"
    BY <1>1, <1>5, <2>1, OpensMoves DEF NoShell
  <2>3. OpenerOK(l) /\ l.pc = "curl" /\ l.since = op[o].since
    BY <1>1, <2>1 DEF OpenerOK, NotOpening, Overlay, Steps
  <2>4. name # NoFile => FreshIn(name, l.since)
    BY <1>1, <2>2, <2>3 DEF FreshOK
  <2>5. Alone => OwnOK(l)'
    BY <1>1, <2>2, <2>3 DEF OwnOK
  <2> QED BY <2>2, <2>3, <2>4, <2>5, QuietStep
<1>6. CASE Exit(o)
  <2>1. PICK l : l = Overlay(op[o], [pc |-> "curl"])
    OBVIOUS
  <2>2. MovesTo(o, l) /\ UNCHANGED <<name, inodes, runs>> /\ op[o].pc = "write"
    BY <1>1, <1>6, <2>1, OpensMoves DEF Exit
  <2>3. /\ OpenerOK(l) /\ l.pc = "curl" /\ l.since = op[o].since
        /\ l.run = op[o].run /\ l.mode = op[o].mode
    BY <1>1, <2>1 DEF OpenerOK, NotOpening, Overlay, Steps
  <2>4. name # NoFile => FreshIn(name, l.since)
    BY <1>1, <2>2, <2>3 DEF FreshOK
  <2>5. Alone => OwnOK(l)'
    BY <1>1, <2>2, <2>3 DEF OwnOK, IsOwn
  <2> QED BY <2>2, <2>3, <2>4, <2>5, QuietStep
<1>7. CASE (CurlOpen(o) /\ name = NoFile) \/ Release(o)
  <2>1. MovesTo(o, NotOpening) /\ UNCHANGED <<name, inodes, runs>>
    BY <1>1, <1>7 DEF CurlOpen, Release, OpenersOK, MovesTo
  <2> QED BY <1>2, <2>1, QuietStep
<1>8. CASE CurlOpen(o) /\ name # NoFile
  <2>1. PICK l : l = Overlay(op[o], [pc |-> "fetch", inode |-> name])
    OBVIOUS
  <2>2. MovesTo(o, l) /\ UNCHANGED <<name, inodes, runs>> /\ op[o].pc = "curl"
    BY <1>1, <1>8, <2>1, OpensMoves DEF CurlOpen
  <2>3. /\ OpenerOK(l) /\ l.pc = "fetch" /\ l.since = op[o].since /\ l.inode = name
        /\ l.run = op[o].run /\ l.mode = op[o].mode
    BY <1>1, <1>8, <2>1 DEF OpenerOK, NotOpening, Overlay, Steps, NoFile
  <2>4. FreshIn(l.inode, l.since)
    BY <1>1, <1>8, <2>2, <2>3 DEF FreshOK
  <2>5. Alone => OwnOK(l)'
    BY <1>1, <1>8, <2>2, <2>3 DEF OwnOK, IsOwn
  <2> QED BY <2>2, <2>3, <2>4, <2>5, QuietStep
<1>9. CASE CurlRead(o)
  <2>1. PICK l : l = Overlay(op[o], [pc |-> "opened", read |-> inodes[op[o].inode]])
    OBVIOUS
  <2>2. MovesTo(o, l) /\ UNCHANGED <<name, inodes, runs>> /\ op[o].pc = "fetch"
    BY <1>1, <1>9, <2>1, OpensMoves DEF CurlRead
  <2>3. inodes[op[o].inode] \in Seq(Blocks)
    BY <1>1, <2>2 DEF OpenerOK
  <2>4. /\ OpenerOK(l) /\ l.pc = "opened" /\ l.since = op[o].since
        /\ l.read = inodes[op[o].inode] /\ l.run = op[o].run /\ l.mode = op[o].mode
    BY <1>1, <2>1, <2>3 DEF OpenerOK, NotOpening, Overlay, Steps
  <2>5. BlocksFresh(l.read, l.since)
    BY <1>1, <2>2, <2>4 DEF FreshOK, FreshIn
  <2>6. Alone => OwnOK(l)'
    BY <1>1, <2>2, <2>4 DEF OwnOK, IsOwn
  <2> QED BY <2>2, <2>4, <2>5, <2>6, QuietStep
<1> QED BY <1>3, <1>4, <1>5, <1>6, <1>7, <1>8, <1>9

-----------------------------------------------------------------------------
(***************************************************************************)
(* The shell opens the file, and the command writes to it                   *)
(***************************************************************************)

LEMMA ShellStep ==
    ASSUME OpensInv, NEW o \in Openers, Shell(o)
    PROVE  OpensInv'
<1>1. /\ OpenersOK /\ OpenerOK(op[o]) /\ \A p \in Openers : OpenerOK(op[p]) /\ FreshOK(op[p])
      /\ runs \in Nat /\ Len(inodes) \in Nat /\ inodes \in Seq(Seq(Blocks)) /\ name \in 0 .. Len(inodes)
  BY StatusAssumption DEF OpensInv, FilesOK, OpenersOK
<1>2. PICK n : n = name'
  OBVIOUS
<1>3. PICK l : l = Overlay(op[o], [pc |-> "write", inode |-> n, run |-> runs', at |-> 1])
  OBVIOUS
<1>4. MovesTo(o, l) /\ runs' = runs + 1 /\ runs < MaxRuns
  BY <1>1, <1>2, <1>3, OpensMoves DEF Shell
<1>5. /\ Len(inodes') \in Nat /\ Len(inodes) <= Len(inodes') /\ n \in 1 .. Len(inodes')
      /\ inodes' \in Seq(Seq(Blocks)) /\ inodes'[n] = << >>
      /\ \A k \in 1 .. Len(inodes) : k # n => inodes'[k] = inodes[k]
      /\ name # NoFile => n = name
      /\ name = NoFile => n \notin 1 .. Len(inodes)
  <2>1. << >> \in Seq(Blocks)
    OBVIOUS
  <2>2. CASE name = NoFile
    <3>1. inodes' = Append(inodes, << >>) /\ n = Len(inodes) + 1
      BY <1>2, <2>2 DEF Shell
    <3> QED BY <1>1, <2>1, <2>2, <3>1
  <2>3. CASE name # NoFile
    <3>1. inodes' = [inodes EXCEPT ![name] = << >>] /\ n = name
      BY <1>2, <2>3 DEF Shell
    <3>2. name \in 1 .. Len(inodes)
      BY <1>1, <2>3 DEF NoFile
    <3>3. Len(inodes') = Len(inodes) /\ inodes' \in Seq(Seq(Blocks))
      BY <1>1, <2>1, <3>1, <3>2
    <3> QED BY <1>1, <2>3, <3>1, <3>2, <3>3
  <2> QED BY <2>2, <2>3
<1>6. OpenerOK(l)' /\ l.pc = "write" /\ l.inode = n /\ l.run = runs + 1 /\ l.at = 1 /\ l.since = op[o].since
  <2>1. /\ DOMAIN l = DOMAIN NotOpening /\ l.pc = "write" /\ l.inode = n /\ l.run = runs + 1 /\ l.at = 1
        /\ l.since = op[o].since /\ l.mode = op[o].mode /\ l.read = op[o].read
    <3>1. DOMAIN op[o] = DOMAIN NotOpening
      BY <1>1 DEF OpenerOK
    <3>2. PICK new : new = [pc |-> "write", inode |-> n, run |-> runs', at |-> 1]
      OBVIOUS
    <3>3. DOMAIN new = {"pc", "inode", "run", "at"} /\ l = Overlay(op[o], new)
      BY <1>3, <3>2
    <3>4. DOMAIN l = DOMAIN NotOpening
      BY <3>1, <3>3 DEF NotOpening, Overlay
    <3>5. l.pc = "write" /\ l.inode = n /\ l.run = runs' /\ l.at = 1
      BY <3>2, <3>3 DEF Overlay
    <3>6. l.since = op[o].since /\ l.mode = op[o].mode /\ l.read = op[o].read
      BY <3>1, <3>3 DEF NotOpening, Overlay
    <3> QED BY <1>4, <3>4, <3>5, <3>6
  <2>2. op[o].since \in 0 .. runs' /\ runs + 1 \in 0 .. runs' /\ n \in Nat
    BY <1>1, <1>4, <1>5 DEF OpenerOK
  <2> QED BY <1>1, <1>5, <2>1, <2>2 DEF OpenerOK, Steps
<1>7. FilesOK'
  BY <1>1, <1>2, <1>4, <1>5, StatusAssumption DEF FilesOK
<1>8. OpenersOK'
  BY <1>1, <1>4, <1>5, <1>6, OpenersStep
<1>9. \A k, t : /\ t \in 0 .. runs
                /\ (k \in 1 .. Len(inodes) /\ FreshIn(k, t)) \/ (k = n /\ name = NoFile)
                => FreshIn(k, t)'
  <2> SUFFICES ASSUME NEW k, NEW t \in 0 .. runs,
                      (k \in 1 .. Len(inodes) /\ FreshIn(k, t)) \/ (k = n /\ name = NoFile)
               PROVE  FreshIn(k, t)'
    OBVIOUS
  <2>1. BlocksFresh(inodes[k], t)'
    <3>1. CASE k = n
      BY <1>5, <3>1 DEF BlocksFresh
    <3>2. CASE k # n
      BY <1>5, <3>2 DEF BlocksFresh, FreshIn
    <3> QED BY <3>1, <3>2
  <2>2. ASSUME NEW w \in Openers, op'[w].pc = "write", op'[w].inode = k PROVE op'[w].run > t
    <3>1. CASE w = o
      BY <1>1, <1>4, <1>6, <3>1 DEF MovesTo
    <3>2. CASE w # o
      <4>1. op'[w] = op[w] /\ op[w].inode \in 1 .. Len(inodes)
        BY <1>1, <1>4, <2>2, <3>2 DEF MovesTo, OpenerOK
      <4> QED BY <1>5, <2>2, <4>1 DEF FreshIn
    <3> QED BY <3>1, <3>2
  <2> QED BY <2>1, <2>2 DEF FreshIn
<1>10. ASSUME NEW p \in Openers PROVE FreshOK(op[p])'
  <2>1. PICK r : r = op[p]
    OBVIOUS
  <2>2. r.since \in 0 .. runs /\ FreshOK(r) /\ (r.pc = "fetch" => r.inode \in 1 .. Len(inodes))
    BY <1>1, <2>1 DEF OpenerOK
  <2>3. r.pc \in {"system", "write", "curl"} => FreshIn(n, r.since)'
    <3> SUFFICES ASSUME r.pc \in {"system", "write", "curl"} PROVE FreshIn(n, r.since)'
      OBVIOUS
    <3>1. CASE name = NoFile
      BY <1>9, <2>2, <3>1
    <3>2. CASE name # NoFile
      <4>1. FreshIn(n, r.since) /\ n \in 1 .. Len(inodes)
        BY <1>1, <1>5, <2>2, <3>2 DEF FreshOK, NoFile
      <4> QED BY <1>9, <2>2, <4>1
    <3> QED BY <3>1, <3>2
  <2>4. r.pc = "fetch" => FreshIn(r.inode, r.since)'
    <3> SUFFICES ASSUME r.pc = "fetch" PROVE FreshIn(r.inode, r.since)'
      OBVIOUS
    <3>1. FreshIn(r.inode, r.since) /\ r.inode \in 1 .. Len(inodes)
      BY <2>2 DEF FreshOK
    <3> QED BY <1>9, <2>2, <3>1
  <2>5. CASE p = o
    <3>1. r.pc = "system"
      BY <2>1, <2>5 DEF Shell
    <3>2. FreshOK(l)'
      BY <1>2, <1>6, <2>1, <2>3, <2>5, <3>1 DEF FreshOK
    <3> QED BY <1>4, <2>5, <3>2 DEF MovesTo, FreshOK, FreshIn, BlocksFresh
  <2>6. CASE p # o
    <3>1. FreshOK(r)'
      BY <1>2, <2>2, <2>3, <2>4 DEF FreshOK, BlocksFresh
    <3>2. op'[p] = r
      BY <1>4, <2>1, <2>6 DEF MovesTo
    <3> QED BY <3>1, <3>2 DEF FreshOK, FreshIn, BlocksFresh
  <2> QED BY <2>5, <2>6
<1>11. ASSUME Alone PROVE \A p \in Openers : OwnOK(op[p])'
  <2>1. OwnOK(l)'
    BY <1>2, <1>5, <1>6 DEF OwnOK, IsOwn, Parts
  <2> QED BY <1>4, <1>11, <2>1 DEF Alone, MovesTo, OwnOK, IsOwn
<1> QED BY <1>7, <1>8, <1>10, <1>11 DEF OpensInv, Alone

\* A block written at its offset: what was there stays, what is skipped is a hole.
LEMMA WriteAtFacts ==
    ASSUME NEW s \in Seq(Blocks), NEW i \in Nat \ {0}, NEW b \in Blocks,
           NEW w, w = WriteAt(s, i, b)
    PROVE  /\ w \in Seq(Blocks) /\ DOMAIN w = 1 .. (IF i > Len(s) THEN i ELSE Len(s))
           /\ \A k \in DOMAIN w : k = i => w[k] = b
           /\ \A k \in DOMAIN w : k # i /\ k \in DOMAIN s => w[k] = s[k]
           /\ \A k \in DOMAIN w : k # i /\ k \notin DOMAIN s => w[k] = Hole
<1> DEFINE n == IF i > Len(s) THEN i ELSE Len(s)
<1>1. n \in Nat /\ Hole \in Blocks
  BY DEF Hole, Blocks
<1>2. w = [k \in 1 .. n |-> IF k = i THEN b ELSE IF k \in DOMAIN s THEN s[k] ELSE Hole]
  BY DEF WriteAt
<1>3. \A k \in DOMAIN s : s[k] \in Blocks
  OBVIOUS
<1> HIDE DEF n
<1>4. w \in Seq(Blocks)
  BY <1>1, <1>2, <1>3
<1> QED BY <1>1, <1>2, <1>4 DEF n

LEMMA WriteStep ==
    ASSUME OpensInv, NEW o \in Openers, Write(o)
    PROVE  OpensInv'
<1>1. /\ OpenersOK /\ OpenerOK(op[o]) /\ \A p \in Openers : OpenerOK(op[p]) /\ FreshOK(op[p])
      /\ runs \in Nat /\ Len(inodes) \in Nat /\ inodes \in Seq(Seq(Blocks)) /\ name \in 0 .. Len(inodes)
  BY StatusAssumption DEF OpensInv, FilesOK, OpenersOK
<1>2. PICK n : n = op[o].inode
  OBVIOUS
<1>3. PICK at : at = op[o].at
  OBVIOUS
<1>4. PICK l : l = Overlay(op[o], [at |-> at + 1])
  OBVIOUS
<1>5. PICK b : b = Output(op[o].mode, op[o].run)[at]
  OBVIOUS
<1>6. PICK was, s : was = inodes[n] /\ s = WriteAt(was, at, b)
  OBVIOUS
<1>7. /\ MovesTo(o, l) /\ UNCHANGED <<name, runs>> /\ op[o].pc = "write"
      /\ inodes' = [inodes EXCEPT ![n] = s] /\ at \in 1 .. Parts(op[o].mode)
      /\ n \in 1 .. Len(inodes) /\ inodes[n] \in Seq(Blocks)
  <2>1. MovesTo(o, l) /\ UNCHANGED <<name, runs>> /\ op[o].pc = "write"
    BY <1>1, <1>3, <1>4, OpensMoves DEF Write
  <2>2. inodes' = [inodes EXCEPT ![n] = s]
    BY <1>2, <1>3, <1>5, <1>6 DEF Write
  <2>3. at \in 1 .. Parts(op[o].mode)
    BY <1>1, <1>3, <2>1 DEF Write, OpenerOK, Parts
  <2>4. n \in 1 .. Len(inodes) /\ inodes[n] \in Seq(Blocks)
    BY <1>1, <1>2, <2>1 DEF OpenerOK
  <2> QED BY <2>1, <2>2, <2>3, <2>4
<1>8. b = [run |-> op[o].run, mode |-> op[o].mode, part |-> at] /\ b \in Blocks
  BY <1>1, <1>5, <1>7 DEF Output, Blocks, OpenerOK, Parts
<1>9. /\ s \in Seq(Blocks) /\ DOMAIN s = 1 .. (IF at > Len(was) THEN at ELSE Len(was))
      /\ \A k \in DOMAIN s : k = at => s[k] = b
      /\ \A k \in DOMAIN s : k # at /\ k \in DOMAIN was => s[k] = was[k]
      /\ \A k \in DOMAIN s : k # at /\ k \notin DOMAIN was => s[k] = Hole
  <2>1. at \in Nat \ {0} /\ was \in Seq(Blocks) /\ b \in Blocks
    BY <1>6, <1>7, <1>8 DEF Parts
  <2>2. s \in Seq(Blocks) /\ DOMAIN s = 1 .. (IF at > Len(was) THEN at ELSE Len(was))
    BY ONLY <1>6, <2>1, WriteAtFacts
  <2>3. \A k \in DOMAIN s : k = at => s[k] = b
    BY ONLY <1>6, <2>1, WriteAtFacts
  <2>4. \A k \in DOMAIN s : k # at /\ k \in DOMAIN was => s[k] = was[k]
    BY ONLY <1>6, <2>1, WriteAtFacts
  <2>5. \A k \in DOMAIN s : k # at /\ k \notin DOMAIN was => s[k] = Hole
    BY ONLY <1>6, <2>1, WriteAtFacts
  <2> QED BY <2>2, <2>3, <2>4, <2>5
<1>10. /\ inodes' \in Seq(Seq(Blocks)) /\ Len(inodes') = Len(inodes) /\ inodes'[n] = s
      /\ \A k : k # n => inodes'[k] = inodes[k]
  BY <1>1, <1>7, <1>9
<1>11. /\ DOMAIN l = DOMAIN NotOpening /\ l.pc = "write" /\ l.inode = n /\ l.run = op[o].run
       /\ l.at = at + 1 /\ l.since = op[o].since /\ l.mode = op[o].mode /\ l.read = op[o].read
  BY <1>1, <1>2, <1>4, <1>7 DEF OpenerOK, NotOpening, Overlay
<1>12. FilesOK' /\ OpenersOK'
  <2>1. OpenerOK(l)'
    BY <1>1, <1>7, <1>10, <1>11 DEF OpenerOK, Parts
  <2>2. OpenersOK'
    BY <1>1, <1>7, <1>10, <2>1, OpenersStep
  <2> QED BY <1>7, <1>10, <2>2 DEF OpensInv, FilesOK
<1>13. ASSUME NEW k, NEW t, FreshIn(k, t) PROVE FreshIn(k, t)'
  <2>1. BlocksFresh(inodes[k], t)'
    <3>1. CASE k = n
      <4>1. b.run > t
        BY <1>2, <1>7, <1>8, <1>13, <3>1 DEF FreshIn
      <4>2. BlocksFresh(was, t)
        BY <1>6, <1>13, <3>1 DEF FreshIn
      <4>3. BlocksFresh(s, t)
        BY <1>9, <4>1, <4>2 DEF BlocksFresh
      <4> QED BY <1>10, <3>1, <4>3 DEF BlocksFresh
    <3>2. CASE k # n
      BY <1>10, <1>13, <3>2 DEF FreshIn, BlocksFresh
    <3> QED BY <3>1, <3>2
  <2>2. \A w \in Openers : op'[w].pc = "write" /\ op'[w].inode = k => op'[w].run > t
    BY <1>2, <1>7, <1>11, <1>13 DEF FreshIn, MovesTo
  <2> QED BY <2>1, <2>2 DEF FreshIn
<1>14. ASSUME NEW p \in Openers PROVE FreshOK(op[p])'
  <2>1. PICK r : r = op[p]
    OBVIOUS
  <2>2. FreshOK(r) /\ FreshOK(r)'
    BY <1>1, <1>7, <1>13, <2>1 DEF FreshOK, BlocksFresh
  <2>3. CASE p # o
    <3>1. op'[p] = r
      BY <1>7, <2>1, <2>3 DEF MovesTo
    <3> QED BY <2>2, <3>1 DEF FreshOK, FreshIn, BlocksFresh
  <2>4. CASE p = o
    <3>1. FreshOK(l)'
      BY <1>7, <1>11, <2>1, <2>2, <2>4 DEF FreshOK
    <3> QED BY <1>7, <2>4, <3>1 DEF MovesTo, FreshOK, FreshIn, BlocksFresh
  <2> QED BY <2>3, <2>4
<1>15. ASSUME Alone PROVE \A p \in Openers : OwnOK(op[p])'
  <2>1. IsOwn(inodes[n], op[o], at - 1) /\ name = n
    BY <1>2, <1>3, <1>7, <1>15 DEF OpensInv, OwnOK
  <2>2. Len(s) = at /\ \A i \in 1 .. at : s[i] = [run |-> op[o].run, mode |-> op[o].mode, part |-> i]
    <3>1. at = Len(was) + 1 /\ at \in Nat \ {0} /\ DOMAIN was = 1 .. at - 1
      BY <1>6, <1>7, <2>1 DEF IsOwn, Parts
    <3>2. DOMAIN s = 1 .. at
      BY <1>9, <3>1
    <3>3. Len(s) = at
      BY <1>9, <3>1, <3>2
    <3>4. ASSUME NEW i \in 1 .. at PROVE s[i] = [run |-> op[o].run, mode |-> op[o].mode, part |-> i]
      <4>1. CASE i = at
        BY <1>8, <1>9, <3>2, <4>1
      <4>2. CASE i # at
        <5>1. i \in 1 .. at - 1
          BY <3>1, <4>2
        <5>2. s[i] = was[i]
          BY <1>9, <3>1, <3>2, <4>2, <5>1
        <5> QED BY <1>6, <2>1, <5>1, <5>2 DEF IsOwn
      <4> QED BY <4>1, <4>2
    <3> QED BY <3>3, <3>4
  <2>3. OwnOK(l)'
    BY <1>7, <1>10, <1>11, <2>1, <2>2 DEF OwnOK, IsOwn, Parts
  <2> QED BY <1>7, <1>15, <2>3 DEF Alone, MovesTo, OwnOK, IsOwn
<1> QED BY <1>12, <1>14, <1>15 DEF OpensInv, Alone

-----------------------------------------------------------------------------
(***************************************************************************)
(* Theorem                                                                  *)
(***************************************************************************)

LEMMA OpensInductive == OpensInv /\ [StatusNext]_statusVars => OpensInv'
<1> SUFFICES ASSUME OpensInv, [StatusNext]_statusVars PROVE OpensInv'
  OBVIOUS
<1>1. CASE UNCHANGED statusVars
  BY <1>1 DEF statusVars, OpensInv, FilesOK, OpenersOK, OpenerOK, FreshOK, FreshIn, BlocksFresh,
      Alone, OwnOK, IsOwn
<1>2. ASSUME NEW o \in Openers, NEW mode \in Modes, Open(o, mode) PROVE OpensInv'
  BY <1>2, QuietSteps
<1> QED BY <1>1, <1>2, QuietSteps, ShellStep, WriteStep DEF StatusNext

\* However many opens there are, none reads what was gathered before it began; an
\* open that is alone reads the beginning of what its own command wrote.
THEOREM ReadsFreshHolds == StatusSpec => []ReadsFresh
<1>1. StatusInit => OpensInv
  <2> SUFFICES ASSUME StatusInit PROVE OpensInv
    OBVIOUS
  <2>1. FilesOK /\ Len(inodes) = 0
    BY StatusAssumption DEF StatusInit, FilesOK, NoFile
  <2>2. OpenerOK(NotOpening) /\ NotOpening.pc = "idle"
    BY DEF StatusInit, OpenerOK, NotOpening, Steps, NoFile
  <2>3. FreshOK(NotOpening) /\ OwnOK(NotOpening)
    BY <2>2 DEF FreshOK, OwnOK
  <2> QED BY <2>1, <2>2, <2>3 DEF StatusInit, OpensInv, OpenersOK
<1>2. OpensInv => ReadsFresh
  <2> SUFFICES ASSUME OpensInv PROVE ReadsFresh
    OBVIOUS
  <2>1. DOMAIN op = Openers
    BY DEF OpensInv, OpenersOK
  <2>2. StatusTypeOK
    BY <2>1 DEF OpensInv, OpenersOK, OpenerOK, FilesOK, StatusTypeOK
  <2>3. ASSUME Alone, NEW o \in Openers, op[o].pc = "opened"
        PROVE  IsPrefix(op[o].read, Output(op[o].mode, op[o].run))
    <3>1. IsOwn(op[o].read, op[o], Len(op[o].read)) /\ op[o].read \in Seq(Blocks)
      BY <2>3 DEF OpensInv, OpenersOK, OpenerOK, OwnOK
    <3>2. /\ Output(op[o].mode, op[o].run) \in Seq(Blocks)
          /\ Len(Output(op[o].mode, op[o].run)) = Parts(op[o].mode)
      BY DEF OpensInv, OpenersOK, OpenerOK, Output, Blocks, Parts
    <3> QED BY <3>1, <3>2 DEF IsPrefix, IsOwn, Output, Parts
  <2> QED BY <2>1, <2>2, <2>3 DEF ReadsFresh, ReadsOwnOutput, Alone, OpensInv, FreshOK, BlocksFresh
<1> QED BY <1>1, <1>2, OpensInductive, PTL DEF StatusSpec

-----------------------------------------------------------------------------
(***************************************************************************)
(* What the script says, whatever the system does while it asks: each thing  *)
(* found was true at some moment, and what it asked about and was true all    *)
(* the time was found (ScriptInv).                                          *)
(***************************************************************************)

\* What a sample says of the conditions
Found(s) == s.ok \cup (IF s.wpa = "COMPLETED" THEN {"wifi"} ELSE {})

\* The conditions the script has asked about when it is at a command
Asked ==
    [idle |-> {}, wpa |-> {}, date |-> {"wifi"}, ntpd |-> {"wifi", "date"},
     zxdbfsd |-> {"wifi", "date", "ntpd"}, version |-> {"wifi", "date", "ntpd", "zxdbfsd"},
     spid |-> {"wifi", "date", "ntpd", "zxdbfsd"}, done |-> Conditions]

SampleOK(s) ==
    /\ DOMAIN s = {"wpa", "ok", "version"}
    /\ s.wpa \in (WpaStates \ {"none"}) \cup {"unknown"} /\ s.ok \in SUBSET Checks

\* What was found held at some moment; what was asked about and held all the
\* time was found.
ScriptInv ==
    /\ pc \in DOMAIN Asked
    /\ SampleOK(sample) /\ up \in SUBSET Checks /\ wpa \in WpaStates
    /\ seen \in SUBSET Conditions
    /\ pc \notin {"idle", "done"} => kept \subseteq Holding(wpa, up) /\ Holding(wpa, up) \subseteq seen
    /\ Found(sample) \subseteq seen
    /\ Asked[pc] \cap kept \subseteq Found(sample)

LEMMA AfterEach ==
    /\ After("wpa") = "date" /\ After("date") = "ntpd" /\ After("ntpd") = "zxdbfsd"
    /\ After("zxdbfsd") = "version" /\ After("version") = "spid" /\ After("spid") = "done"
<1>1. \A i \in 1 .. 6 : i = 1 \/ i = 2 \/ i = 3 \/ i = 4 \/ i = 5 \/ i = 6
  OBVIOUS
<1>2. /\ Commands[1] = "wpa" /\ Commands[2] = "date" /\ Commands[3] = "ntpd"
      /\ Commands[4] = "zxdbfsd" /\ Commands[5] = "version" /\ Commands[6] = "spid"
      /\ Commands[7] = "done"
  BY DEF Commands
<1>3. After("wpa") = "date"
  <2>1. (CHOOSE i \in 1 .. 6 : Commands[i] = "wpa") = 1
    BY <1>1, <1>2
  <2> QED BY <1>2, <2>1 DEF After
<1>4. After("date") = "ntpd"
  <2>1. (CHOOSE i \in 1 .. 6 : Commands[i] = "date") = 2
    BY <1>1, <1>2
  <2> QED BY <1>2, <2>1 DEF After
<1>5. After("ntpd") = "zxdbfsd"
  <2>1. (CHOOSE i \in 1 .. 6 : Commands[i] = "ntpd") = 3
    BY <1>1, <1>2
  <2> QED BY <1>2, <2>1 DEF After
<1>6. After("zxdbfsd") = "version"
  <2>1. (CHOOSE i \in 1 .. 6 : Commands[i] = "zxdbfsd") = 4
    BY <1>1, <1>2
  <2> QED BY <1>2, <2>1 DEF After
<1>7. After("version") = "spid"
  <2>1. (CHOOSE i \in 1 .. 6 : Commands[i] = "version") = 5
    BY <1>1, <1>2
  <2> QED BY <1>2, <2>1 DEF After
<1>8. After("spid") = "done"
  <2>1. (CHOOSE i \in 1 .. 6 : Commands[i] = "spid") = 6
    BY <1>1, <1>2
  <2> QED BY <1>2, <2>1 DEF After
<1> QED BY <1>3, <1>4, <1>5, <1>6, <1>7, <1>8

LEMMA WpaAsked ==
    ASSUME ScriptInv, AskWpa
    PROVE  ScriptInv'
<1>1. PICK w : w = IF wpa = "none" THEN "unknown" ELSE wpa
  OBVIOUS
<1>2. sample' = [sample EXCEPT !.wpa = w] /\ pc = "wpa" /\ pc' = "date"
  BY <1>1, AfterEach DEF AskWpa
<1>3. SampleOK(sample)' /\ sample'.wpa = w /\ sample'.ok = sample.ok
  BY <1>1, <1>2 DEF ScriptInv, SampleOK, WpaStates
<1>4. UNCHANGED <<wpa, up, seen, kept>>
  BY DEF AskWpa
<1>5. sample.ok \subseteq seen /\ kept \subseteq Holding(wpa, up) /\ Holding(wpa, up) \subseteq seen
  BY <1>2 DEF ScriptInv, Found
<1>6. w = "COMPLETED" <=> wpa = "COMPLETED"
  BY <1>1
<1>7. Found(sample') \subseteq seen
  BY <1>3, <1>5, <1>6 DEF Found, Holding
<1>8. Asked["date"] \cap kept \subseteq Found(sample')
  BY <1>3, <1>5, <1>6 DEF Found, Holding, Asked, ScriptInv, Checks
<1> QED BY <1>2, <1>3, <1>4, <1>5, <1>7, <1>8 DEF ScriptInv, Asked

LEMMA Checked ==
    ASSUME ScriptInv, Check
    PROVE  ScriptInv'
<1>1. PICK c : c = pc /\ c \in Checks
  BY DEF Check
<1>2. PICK ok : ok = sample.ok \cup ({c} \cap up)
  OBVIOUS
<1>3. sample' = [sample EXCEPT !.ok = ok] /\ UNCHANGED <<wpa, up, seen, kept>>
  BY <1>1, <1>2 DEF Check, ScriptInv, SampleOK
<1>4. SampleOK(sample)' /\ sample'.wpa = sample.wpa /\ sample'.ok = ok
  BY <1>1, <1>2, <1>3 DEF ScriptInv, SampleOK
<1>5. pc' \in DOMAIN Asked /\ Asked[pc'] = Asked[c] \cup {c}
  BY <1>1, AfterEach DEF Check, Checks, Asked, Conditions
<1>6. /\ kept \subseteq Holding(wpa, up) /\ Holding(wpa, up) \subseteq seen
      /\ Found(sample) \subseteq seen /\ Asked[c] \cap kept \subseteq Found(sample)
  BY <1>1 DEF ScriptInv, Checks
<1>7. c \in kept => c \in up
  BY <1>1, <1>6 DEF Holding, Checks
<1>8. Found(sample') = Found(sample) \cup ({c} \cap up)
  BY <1>2, <1>4 DEF Found
<1>9. Found(sample') \subseteq seen
  BY <1>6, <1>8 DEF Holding
<1>10. Asked[pc'] \cap kept \subseteq Found(sample')
  BY <1>5, <1>6, <1>7, <1>8
<1> QED BY <1>3, <1>4, <1>5, <1>6, <1>9, <1>10 DEF ScriptInv

LEMMA ScriptInductive == ScriptInv /\ [ScriptNext]_scriptVars => ScriptInv'
<1> SUFFICES ASSUME ScriptInv, [ScriptNext]_scriptVars PROVE ScriptInv'
  OBVIOUS
<1>1. CASE UNCHANGED scriptVars
  BY <1>1 DEF scriptVars, ScriptInv, SampleOK, Found
<1>2. CASE Start
  <2>1. sample' = Unknown /\ SampleOK(Unknown) /\ Found(Unknown) = {}
    BY <1>2 DEF Start, Unknown, SampleOK, Found
  <2>2. Holding(wpa, up) \in SUBSET Conditions
    BY DEF ScriptInv, Holding, Conditions
  <2> QED BY <1>2, <2>1, <2>2 DEF Start, ScriptInv, Asked
<1>3. CASE Version
  <2>1. UNCHANGED <<wpa, up, seen, kept>> /\ pc = "version" /\ pc' = "spid"
    BY <1>3, AfterEach DEF Version
  <2>2. SampleOK(sample') /\ Found(sample') = Found(sample)
    BY <1>3 DEF Version, ScriptInv, SampleOK, Found
  <2> QED BY <2>1, <2>2 DEF ScriptInv, Asked
<1>4. CASE System
  <2>1. UNCHANGED <<pc, sample>> /\ pc \notin {"idle", "done"}
    BY <1>4 DEF System
  <2>2. wpa' \in WpaStates /\ up' \in SUBSET Checks
    BY <1>4 DEF System, ScriptInv
  <2>3. Holding(wpa, up)' \in SUBSET Conditions
    BY <2>2 DEF Holding, Conditions
  <2>4. /\ seen' = seen \cup Holding(wpa, up)' /\ kept' = kept \cap Holding(wpa, up)'
    BY <1>4 DEF System
  <2> QED BY <2>1, <2>2, <2>3, <2>4 DEF ScriptInv
<1> QED BY <1>1, <1>2, <1>3, <1>4, WpaAsked, Checked DEF ScriptNext

LEMMA ScriptBegins == ScriptInit => ScriptInv
  BY DEF ScriptInit, ScriptInv, SampleOK, Found, Unknown, Asked

LEMMA ScriptAlways == ScriptSpec => []ScriptInv
  BY ScriptBegins, ScriptInductive, PTL DEF ScriptSpec

\* The summary is "0" exactly when all was found.
LEMMA SummaryFacts ==
    ASSUME NEW s, SampleOK(s)
    PROVE  /\ Summary(s) \in {"0", "1"}
           /\ Summary(s) = "0" <=> Found(s) = Conditions
<1>1. Found(s) = Conditions <=> Checks \subseteq s.ok /\ s.wpa = "COMPLETED"
  BY DEF Found, Conditions, Checks, SampleOK
<1> QED BY <1>1 DEF Summary

\* At the end of a run a "0" has been true of every condition, each at its moment,
\* and a "1" means that one of them did not hold all the time.
THEOREM SummaryIsEarnedHolds == ScriptSpec => []SummaryIsEarned
<1>1. ScriptInv => SummaryIsEarned
  <2> SUFFICES ASSUME ScriptInv, IsGathered
               PROVE  /\ Summary(sample) = "0" => seen = Conditions
                      /\ Summary(sample) = "1" => kept # Conditions
    BY DEF SummaryIsEarned, ZeroIsEarned, OneIsEarned
  <2>1. SampleOK(sample) /\ Found(sample) \subseteq seen /\ seen \subseteq Conditions
    BY DEF ScriptInv
  <2>2. Conditions \cap kept \subseteq Found(sample)
    BY DEF ScriptInv, IsGathered, Asked
  <2>3. Found(sample) \subseteq Conditions
    BY <2>1
  <2> QED BY <2>1, <2>2, <2>3, SummaryFacts
<1> QED BY <1>1, ScriptAlways, PTL

\* Whatever the script has gathered, the JSON it prints, read back, says that all
\* is well exactly when the summary does.
THEOREM JsonAgreesWithSummaryHolds == ScriptSpec => []JsonAgreesWithSummary
<1>1. ScriptInv => JsonAgreesWithSummary
  <2> SUFFICES ASSUME ScriptInv PROVE IsAllWell(CreateFromJSON(Json(sample))) <=> Summary(sample) = "0"
    BY DEF JsonAgreesWithSummary
  <2>1. PICK doc : doc = Json(sample)
    OBVIOUS
  <2>2. PICK status : status = CreateFromJSON(doc)
    OBVIOUS
  <2>3. sample.wpa \in {"unknown", "SCANNING", "4WAY_HANDSHAKE", "COMPLETED"}
    BY DEF ScriptInv, SampleOK, WpaStates
  <2>4. DOMAIN doc.wpa_cli = WpaKeys(sample.wpa) /\ doc.type = "zxdbfsstatus"
    BY <2>1 DEF Json
  <2>5. CASE sample.wpa \in {"unknown", "SCANNING"}
    <3>1. ~(NetworkKeys \cup {"wpa_state"} \subseteq DOMAIN doc.wpa_cli)
      BY <2>4, <2>5 DEF WpaKeys, NetworkKeys
    <3>2. status = NoStatus
      BY <2>2, <3>1 DEF CreateFromJSON
    <3>3. ~IsAllWell(status)
      BY <3>2 DEF IsAllWell, NoStatus
    <3> QED BY <2>1, <2>2, <2>5, <3>3 DEF Summary
  <2>6. CASE sample.wpa \in {"4WAY_HANDSHAKE", "COMPLETED"}
    <3>1. NetworkKeys \cup {"wpa_state"} \subseteq DOMAIN doc.wpa_cli
      BY <2>4, <2>6 DEF WpaKeys
    <3>2. /\ status.valid /\ status.wpaState = doc.wpa_cli["wpa_state"]
      BY <2>2, <2>4, <3>1 DEF CreateFromJSON
    <3>3. /\ status.ntpdok <=> doc.ntpdok
          /\ status.dateok <=> doc.dateok
          /\ status.zxdbfsdok <=> doc.zxdbfsdok
          /\ status.spidok <=> doc.spidok
      BY <2>2, <2>4, <3>1 DEF CreateFromJSON
    <3>4. /\ doc.ntpdok <=> "ntpd" \in sample.ok
          /\ doc.dateok <=> "date" \in sample.ok
          /\ doc.zxdbfsdok <=> "zxdbfsd" \in sample.ok
          /\ doc.spidok <=> "spid" \in sample.ok
      BY <2>1 DEF Json
    <3>5. doc.wpa_cli["wpa_state"] = sample.wpa
      BY <2>1, <2>6 DEF Json, WpaKeys
    <3>6. IsAllWell(status) <=> Checks \subseteq sample.ok /\ sample.wpa = "COMPLETED"
      BY <3>2, <3>3, <3>4, <3>5 DEF IsAllWell, Checks
    <3> QED BY <2>1, <2>2, <3>6 DEF Summary
  <2> QED BY <2>3, <2>5, <2>6
<1> QED BY <1>1, ScriptAlways, PTL

=============================================================================
