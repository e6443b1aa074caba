--------------------------- MODULE RguModeProofs ----------------------------
(***************************************************************************)
(* What holds of MODE and NONRST_REG2, which in version 2 no lock guards:  *)
(* the timer is off while the system sleeps and otherwise as the driver    *)
(* believes, a reset that the SSPM asks for bypasses the power key, and a  *)
(* reboot finds the registers as its command asks.                         *)
(*                                                                         *)
(* The argument follows what each program has still to do.  Sparing(X) are *)
(* the programs that leave the registers of X alone; Split(c, X, i, T)     *)
(* says that c leaves X alone up to the instruction i and is in T behind   *)
(* it.  A property of a register then reads: either the write that         *)
(* establishes it is still to come, or it holds and the rest leaves the    *)
(* register alone.                                                         *)
(***************************************************************************)
EXTENDS RguProofs

\* The programs over a set of words: the words and the branches to programs
\* made of them.
Over(G) == G \cup {Branch(r, f, q) : r \in Regs, f \in AllFlags, q \in Seq(G)}
Prog(G) == Seq(Over(G))

\* What a word changes: a register, the driver's variable or the reset.
Target(i) ==
  CASE i.op \in {"write", "put"}    -> i.reg
    [] i.op \in {"enable", "reset"} -> i.op
    [] OTHER                        -> None
Words(X) == {i \in Simple : Target(i) \notin X}
Sparing(X) == Prog(Words(X))

\* d is what one step can leave of c.
Follows(c, d) ==
  /\ c # <<>>
  /\ d = Tail(c) \/ (Head(c).op = "branch" /\ d = Head(c).then \o Tail(c))

Split(c, X, i, T) == \E f \in Sparing(X), g \in T : c = f \o (<<i>> \o g)

-----------------------------------------------------------------------------
(* Programs over a set of words.                                            *)
LEMMA OverFact ==
  ASSUME NEW G \in SUBSET Simple
  PROVE  /\ Over(G) \subseteq Instr /\ Prog(G) \subseteq Code
         /\ \A j \in Over(G) : j.op = "branch" => j.then \in Prog(G)
         /\ \A j \in Over(G) : j.op # "branch" => j \in G
<1>1. G \subseteq Over(G)
  BY DEF Over
<1>2. Seq(G) \subseteq Seq(Simple) /\ Seq(G) \subseteq Prog(G)
  BY <1>1, SeqMonotonic DEF Prog
<1>3. ASSUME NEW j \in Over(G), j \notin G
      PROVE  j \in Branches /\ j.op = "branch" /\ j.then \in Prog(G)
  <2>1. PICK r \in Regs, f \in AllFlags, q \in Seq(G) : j = Branch(r, f, q)
    BY <1>3 DEF Over
  <2>2. j \in Branches
    BY <1>2, <2>1 DEF Branches
  <2> QED BY <1>2, <2>1, <2>2 DEF Branch
<1>4. \A j \in G : j.op # "branch"
  <2> SUFFICES ASSUME NEW j \in Simple PROVE j.op # "branch"
    OBVIOUS
  <2> QED BY DEF Simple, Reads, Writes, Puts, LockOps, Others, Read, Write, Put, Lock, Unlock,
             SetEnable, Kick, PmicPreReset, SwReset
<1>5. Over(G) \subseteq Instr
  BY <1>3 DEF Instr
<1>6. Prog(G) \subseteq Code
  BY <1>5, SeqMonotonic DEF Prog, Code
<1> QED BY <1>3, <1>4, <1>5, <1>6

LEMMA ProgParts ==
  ASSUME NEW G \in SUBSET Simple
  PROVE  /\ <<>> \in Prog(G)
         /\ \A i \in G : <<i>> \in Prog(G)
         /\ \A i, j \in G : <<i, j>> \in Prog(G)
         /\ \A i, j, k \in G : <<i, j, k>> \in Prog(G)
         /\ \A i, j, k, l \in G : <<i, j, k, l>> \in Prog(G)
         /\ \A f, g \in Prog(G) : f \o g \in Prog(G)
         /\ \A r \in Regs, f \in AllFlags, q \in Seq(G) : <<Branch(r, f, q)>> \in Prog(G)
<1>1. G \subseteq Over(G)
  BY DEF Over
<1>2. \A r \in Regs, f \in AllFlags, q \in Seq(G) : Branch(r, f, q) \in Over(G)
  BY DEF Over
<1>3. \A f, g \in Prog(G) : f \o g \in Prog(G)
  BY ConcatProperties DEF Prog
<1>4. \A i \in Over(G) : <<i>> \in Prog(G)
  BY DEF Prog
<1>5. /\ \A i, j \in G : <<i, j>> \in Prog(G)
      /\ \A i, j, k \in G : <<i, j, k>> \in Prog(G)
      /\ \A i, j, k, l \in G : <<i, j, k, l>> \in Prog(G)
  BY <1>1 DEF Prog
<1> QED BY <1>1, <1>2, <1>3, <1>4, <1>5, EmptySeq DEF Prog

LEMMA ProgMono ==
  ASSUME NEW G, NEW H, G \subseteq H
  PROVE  Prog(G) \subseteq Prog(H)
<1>1. Seq(G) \subseteq Seq(H)
  BY SeqMonotonic
<1>2. Over(G) \subseteq Over(H)
  BY <1>1 DEF Over
<1> QED BY <1>2, SeqMonotonic DEF Prog

LEMMA ProgStep ==
  ASSUME NEW G \in SUBSET Simple, NEW c \in Prog(G), NEW d, Follows(c, d)
  PROVE  Head(c) \in Over(G) /\ d \in Prog(G)
<1>1. Head(c) \in Over(G) /\ Tail(c) \in Prog(G)
  BY HeadTailProperties DEF Prog, Follows
<1>2. Head(c).op = "branch" => Head(c).then \in Prog(G)
  BY <1>1, OverFact
<1>3. Head(c).op = "branch" => Head(c).then \o Tail(c) \in Prog(G)
  BY <1>1, <1>2, ProgParts
<1> QED BY <1>1, <1>3 DEF Follows

LEMMA WordsFact ==
  ASSUME NEW X
  PROVE  Words(X) \in SUBSET Simple /\ \A Y : X \subseteq Y => Sparing(Y) \subseteq Sparing(X)
<1>1. ASSUME NEW Y, X \subseteq Y
      PROVE  Sparing(Y) \subseteq Sparing(X)
  <2>1. Words(Y) \subseteq Words(X)
    BY <1>1 DEF Words
  <2> QED BY <2>1, ProgMono DEF Sparing
<1> QED BY <1>1 DEF Words

-----------------------------------------------------------------------------
(* Programs that are split at an instruction.                               *)
LEMMA SplitHere ==
  ASSUME NEW X, NEW i \in Instr, NEW T \in SUBSET Code, NEW g \in T
  PROVE  Split(<<i>> \o g, X, i, T)
<1>1. <<>> \in Sparing(X)
  BY WordsFact, ProgParts DEF Sparing
<1>2. <<>> \o (<<i>> \o g) = <<i>> \o g
  BY OneCons, ConcatEmptySeq DEF Code
<1> QED BY <1>1, <1>2 DEF Split

LEMMA Associate ==
  ASSUME NEW q \in Code
  PROVE  \A a, b \in Code : (a \o b) \o q = a \o (b \o q)
BY CodeAssociative

LEMMA SplitPrefix ==
  ASSUME NEW X, NEW i \in Instr, NEW T \in SUBSET Code, NEW f \in Sparing(X), NEW c,
         Split(c, X, i, T)
  PROVE  Split(f \o c, X, i, T)
<1>1. PICK h \in Sparing(X), g \in T : c = h \o (<<i>> \o g)
  BY DEF Split
<1>2. f \o h \in Sparing(X) /\ f \in Code /\ h \in Code
  BY WordsFact, ProgParts, OverFact DEF Sparing
<1>3. <<i>> \o g \in Code
  BY OneCons
<1>4. (f \o h) \o (<<i>> \o g) = f \o (h \o (<<i>> \o g))
  BY <1>2, <1>3, CodeAssociative
<1> QED BY <1>1, <1>2, <1>4 DEF Split

LEMMA SplitSuffix ==
  ASSUME NEW X, NEW i \in Instr, NEW T \in SUBSET Code, NEW U \in SUBSET Code, NEW c, NEW q \in Code,
         Split(c, X, i, T), \A g \in T : g \o q \in U
  PROVE  Split(c \o q, X, i, U)
<1>1. PICK f \in Sparing(X), g \in T : c = f \o (<<i>> \o g)
  BY DEF Split
<1>2. f \in Code /\ g \in Code /\ <<i>> \in Code /\ <<i>> \o g \in Code /\ g \o q \in U
  BY <1>1, WordsFact, OverFact, OneCons DEF Sparing
<1>3. \A a, b \in Code : (a \o b) \o q = a \o (b \o q)
  BY Associate
<1>4. (f \o (<<i>> \o g)) \o q = f \o ((<<i>> \o g) \o q)
  BY <1>2, <1>3, Zenon
<1>5. (<<i>> \o g) \o q = <<i>> \o (g \o q)
  BY <1>2, <1>3, Zenon
<1>6. c \o q = f \o (<<i>> \o (g \o q))
  BY <1>1, <1>4, <1>5, Zenon
<1> QED BY <1>2, <1>6 DEF Split

\* A split program goes through its instruction or remains split.
LEMMA SplitStep ==
  ASSUME NEW X, NEW i \in Instr, i.op # "branch", NEW T \in SUBSET Code, NEW c, NEW d,
         Split(c, X, i, T), Follows(c, d)
  PROVE  \/ Head(c) = i /\ d \in T
         \/ Head(c) \in Over(Words(X)) /\ Split(d, X, i, T)
<1>1. PICK f \in Sparing(X), g \in T : c = f \o (<<i>> \o g)
  BY DEF Split
<1> DEFINE e == <<i>> \o g
<1>2. f \in Code /\ g \in Code /\ e \in Code /\ Head(e) = i /\ Tail(e) = g /\ e # <<>>
  BY WordsFact, OverFact, OneCons DEF Sparing
<1> HIDE DEF e
<1>3. c = f \o e
  BY <1>1 DEF e
<1>4. CASE f = <<>>
  <2>1. c = e
    BY <1>2, <1>3, <1>4, ConcatEmptySeq DEF Code
  <2> QED BY <1>1, <1>2, <2>1 DEF Follows
<1>5. CASE f # <<>>
  <2>1. Head(f) \in Over(Words(X)) /\ Tail(f) \in Sparing(X) /\ Tail(f) \in Code
    <3>1. Follows(f, Tail(f))
      BY <1>5 DEF Follows
    <3>2. Head(f) \in Over(Words(X)) /\ Tail(f) \in Sparing(X)
      BY <3>1, WordsFact, ProgStep DEF Sparing
    <3> QED BY <3>2, WordsFact, OverFact DEF Sparing
  <2>2. Head(c) = Head(f) /\ Tail(c) = Tail(f) \o e
    BY <1>2, <1>3, <1>5 DEF Code
  <2>3. CASE d = Tail(c)
    <3>1. d = Tail(f) \o (<<i>> \o g)
      BY <2>2, <2>3 DEF e
    <3> QED BY <1>1, <2>1, <2>2, <3>1 DEF Split
  <2>4. CASE Head(c).op = "branch" /\ d = Head(c).then \o Tail(c)
    <3> DEFINE h == Head(f).then
    <3>1. h \in Sparing(X) /\ h \in Code
      BY <2>1, <2>2, <2>4, WordsFact, OverFact DEF Sparing
    <3>2. h \o Tail(f) \in Sparing(X)
      BY <2>1, <3>1, WordsFact, ProgParts DEF Sparing
    <3>3. d = h \o (Tail(f) \o e)
      BY <2>2, <2>4
    <3> HIDE DEF h
    <3>4. h \o (Tail(f) \o e) = (h \o Tail(f)) \o e
      <4>1. \A a, b \in Code : (a \o b) \o e = a \o (b \o e)
        BY <1>2, Associate
      <4> QED BY <2>1, <3>1, <4>1, Zenon
    <3>5. d = (h \o Tail(f)) \o (<<i>> \o g)
      BY <3>3, <3>4 DEF e
    <3> QED BY <1>1, <2>1, <2>2, <3>2, <3>5 DEF Split
  <2> QED BY <2>3, <2>4 DEF Follows
<1> QED BY <1>4, <1>5

LEMMA SplitNonEmpty ==
  ASSUME NEW X, NEW i \in Instr, NEW T \in SUBSET Code, NEW c, Split(c, X, i, T)
  PROVE  c # <<>> /\ c \in Code
<1>1. PICK f \in Sparing(X), g \in T : c = f \o (<<i>> \o g)
  BY DEF Split
<1>2. f \in Code /\ <<i>> \o g \in Code /\ <<i>> \o g # <<>>
  BY WordsFact, OverFact, OneCons DEF Sparing
<1>3. c \in Code
  BY <1>1, <1>2, CodeAssociative
<1> QED BY <1>1, <1>2, <1>3, ConcatProperties DEF Code

-----------------------------------------------------------------------------
(* The steps of the machine.                                                *)

\* What the instruction i of caller p does to registers, the driver's variable
\* and the reset.
Effect(p, i) ==
  /\ \A r \in Regs :
       regs'[r] = CASE i.op = "write" /\ i.reg = r -> (tmp[p][r] \cup i.set) \ i.clear
                    [] i.op = "put" /\ i.reg = r   -> i.val
                    [] OTHER                       -> regs[r]
  /\ wdt_enable' = IF i.op = "enable" THEN i.val ELSE wdt_enable
  /\ reset' = IF i.op = "reset" THEN p ELSE None

LEMMA EffectFact ==
  ASSUME Types, NEW p \in Procs, Step(p), NEW i \in Instr, i = Next1(p)
  PROVE  Effect(p, i)
<1>1. regs \in [Regs -> SUBSET AllFlags] /\ reset = None
  BY DEF Types, Step, ReadReg, WriteReg, PutReg, BranchOnReg, TakeLock, DropLock, StoreEnable,
         ActOutside, TriggerReset, CanStep
<1>2. CASE WriteReg(p)
  <2>1. /\ i.op = "write" /\ regs' = [regs EXCEPT ![i.reg] = (tmp[p][i.reg] \cup i.set) \ i.clear]
        /\ wdt_enable' = wdt_enable /\ reset' = reset
    BY <1>2 DEF WriteReg, CanStep, Applied
  <2> QED BY <1>1, <2>1 DEF Effect
<1>3. CASE PutReg(p)
  <2>1. /\ i.op = "put" /\ regs' = [regs EXCEPT ![i.reg] = i.val]
        /\ wdt_enable' = wdt_enable /\ reset' = reset
    BY <1>3 DEF PutReg, CanStep
  <2> QED BY <1>1, <2>1 DEF Effect
<1>4. CASE StoreEnable(p)
  <2>1. i.op = "enable" /\ wdt_enable' = i.val /\ regs' = regs /\ reset' = reset
    BY <1>4 DEF StoreEnable, CanStep
  <2> QED BY <1>1, <2>1 DEF Effect
<1>5. CASE TriggerReset(p)
  <2>1. i.op = "reset" /\ wdt_enable' = wdt_enable /\ regs' = regs /\ reset' = p
    BY <1>5 DEF TriggerReset, CanStep
  <2> QED BY <1>1, <2>1 DEF Effect
<1>6. CASE ReadReg(p) \/ BranchOnReg(p) \/ TakeLock(p) \/ DropLock(p) \/ ActOutside(p)
  <2>1. /\ i.op \in {"read", "branch", "lock", "unlock", "outside"}
        /\ wdt_enable' = wdt_enable /\ regs' = regs /\ reset' = reset
    BY <1>6 DEF ReadReg, BranchOnReg, TakeLock, DropLock, ActOutside, CanStep
  <2> QED BY <1>1, <2>1 DEF Effect
<1> QED BY <1>2, <1>3, <1>4, <1>5, <1>6 DEF Step

\* What a step does to the caller that takes it, to the others and to the locks.
LEMMA StepFact ==
  ASSUME IInv, NEW p \in Procs, Step(p)
  PROVE  /\ Next1(p) \in Instr /\ Effect(p, Next1(p))
         /\ Follows(run[p], run'[p])
         /\ \A q \in Procs \ {p} : run'[q] = run[q] /\ tmp'[q] = tmp[q]
         /\ Next1(p).op = "read" =>
              \A r \in Regs : tmp'[p][r] = IF r = Next1(p).reg THEN regs[r] ELSE tmp[p][r]
         /\ Next1(p).op # "read" /\ run'[p] # <<>> => tmp'[p] = tmp[p]
         /\ UNCHANGED <<start, suspended, reboot>>
         /\ reset = None /\ ~Stopped(p) /\ (p = Pm => Idle(Sspm))
<1>1. Types
  BY DEF IInv
<1>2. run[p] # <<>> /\ reset = None /\ ~Stopped(p) /\ (p = Pm => Idle(Sspm))
      /\ UNCHANGED <<start, suspended, reboot>>
  BY DEF Step, ReadReg, WriteReg, PutReg, BranchOnReg, TakeLock, DropLock, StoreEnable,
         ActOutside, TriggerReset, CanStep, Idle
<1>3. PICK x \in Points : At(p, x)
  BY DEF IInv
<1>4. Next1(p) \in Instr /\ Tail(run[p]) \in Code
  BY <1>2, <1>3, AtHead
<1>5. PICK i \in Instr : i = Next1(p)
  BY <1>4
<1>6. Effect(p, i)
  BY <1>1, <1>5, EffectFact
<1>7. CASE Advance(p) /\ i.op # "read"
  <2>1. /\ run'[p] = Tail(run[p]) /\ (run'[p] # <<>> => tmp'[p] = tmp[p])
        /\ \A q \in Procs \ {p} : run'[q] = run[q] /\ tmp'[q] = tmp[q]
    BY <1>1, <1>2, <1>4, <1>7, Advanced
  <2> QED BY <1>2, <1>5, <1>6, <1>7, <2>1 DEF Follows
<1>8. CASE ReadReg(p)
  <2>1. i.op = "read" /\ i.reg \in Regs
    BY <1>5, <1>8, InstrFact DEF ReadReg, CanStep
  <2>2. /\ tmp' = [tmp EXCEPT ![p][i.reg] = regs[i.reg]]
        /\ run' = [run EXCEPT ![p] = Tail(run[p])]
    BY <1>5, <1>8 DEF ReadReg
  <2>3. run'[p] = Tail(run[p]) /\ \A q \in Procs \ {p} : run'[q] = run[q] /\ tmp'[q] = tmp[q]
    BY <1>1, <2>2 DEF Types
  <2>4. \A r \in Regs : tmp'[p][r] = IF r = i.reg THEN regs[r] ELSE tmp[p][r]
    BY <1>1, <2>1, <2>2 DEF Types
  <2> QED BY <1>2, <1>5, <1>6, <2>1, <2>3, <2>4 DEF Follows
<1>9. CASE BranchOnReg(p)
  <2>1. i.op = "branch" /\ tmp' = tmp
        /\ run' = [run EXCEPT ![p] = If(i.flag \in regs[i.reg], i.then) \o Tail(run[p])]
    BY <1>5, <1>9 DEF BranchOnReg, CanStep
  <2>2. /\ run'[p] = If(i.flag \in regs[i.reg], i.then) \o Tail(run[p])
        /\ \A q \in Procs \ {p} : run'[q] = run[q]
    BY <1>1, <2>1 DEF Types
  <2>3. run'[p] = i.then \o Tail(run[p]) \/ run'[p] = <<>> \o Tail(run[p])
    BY <2>2 DEF If
  <2>4. <<>> \o Tail(run[p]) = Tail(run[p])
    BY <1>4, ConcatEmptySeq DEF Code
  <2>5. Follows(run[p], run'[p])
    BY <1>2, <1>5, <2>1, <2>3, <2>4 DEF Follows, Next1
  <2> QED BY <1>2, <1>5, <1>6, <2>1, <2>2, <2>5
<1>10. ReadReg(p) \/ BranchOnReg(p) \/ (Advance(p) /\ i.op # "read")
  BY <1>5 DEF Step, WriteReg, PutReg, TakeLock, DropLock, StoreEnable, ActOutside, TriggerReset,
              CanStep
<1> QED BY <1>7, <1>8, <1>9, <1>10

\* What a step leaves alone.
Spared(X) ==
  /\ \A r \in Regs \cap X : regs'[r] = regs[r]
  /\ "enable" \in X => wdt_enable' = wdt_enable
  /\ "reset" \in X => reset' = None

LEMMA SparedFact ==
  ASSUME NEW X, IInv, NEW p \in Procs, Step(p), Next1(p) \in Over(Words(X))
  PROVE  Spared(X)
<1>1. PICK i \in Over(Words(X)) : i = Next1(p)
  OBVIOUS
<1>2. Effect(p, i)
  BY <1>1, StepFact
<1>3. i.op # "branch" => i \in Words(X)
  BY WordsFact, OverFact
<1>4. /\ i.op \in {"write", "put"} => i.reg \notin X
      /\ i.op = "enable" => "enable" \notin X
      /\ i.op = "reset" => "reset" \notin X
  BY <1>3 DEF Words, Target
<1> QED BY <1>2, <1>4 DEF Effect, Spared

LEMMA SparingStep ==
  ASSUME NEW X, IInv, NEW p \in Procs, Step(p), run[p] \in Sparing(X)
  PROVE  run'[p] \in Sparing(X) /\ Spared(X)
<1>1. Follows(run[p], run'[p])
  BY StepFact
<1>2. Next1(p) \in Over(Words(X)) /\ run'[p] \in Sparing(X)
  BY <1>1, WordsFact, ProgStep DEF Sparing, Next1
<1> QED BY <1>2, SparedFact

LEMMA SplitSteps ==
  ASSUME NEW X, NEW i \in Instr, i.op # "branch", NEW T \in SUBSET Code, IInv, NEW p \in Procs,
         Step(p), Split(run[p], X, i, T)
  PROVE  \/ Next1(p) = i /\ Effect(p, i) /\ run'[p] \in T
         \/ Spared(X) /\ Split(run'[p], X, i, T)
<1>1. Follows(run[p], run'[p]) /\ Effect(p, Next1(p))
  BY StepFact
<1>2. CASE Next1(p) = i /\ run'[p] \in T
  BY <1>1, <1>2
<1>3. CASE Next1(p) \in Over(Words(X)) /\ Split(run'[p], X, i, T)
  BY <1>3, SparedFact
<1> QED BY <1>1, <1>2, <1>3, SplitStep DEF Next1

-----------------------------------------------------------------------------
(* The words and the functions that leave the registers of X alone.         *)
LEMMA SparingWord ==
  ASSUME NEW X, None \notin X
  PROVE  /\ \A r \in Regs : Read(r) \in Words(X)
         /\ \A r \in Regs \ X, a \in SUBSET AllFlags, b \in SUBSET AllFlags :
              Write(r, a, b) \in Words(X)
         /\ \A r \in Regs \ X, a \in SUBSET AllFlags : Put(r, a) \in Words(X)
         /\ \A l \in Locks : Lock(l) \in Words(X) /\ Unlock(l) \in Words(X)
         /\ Kick \in Words(X) /\ PmicPreReset \in Words(X)
         /\ "enable" \notin X => \A b \in BOOLEAN : SetEnable(b) \in Words(X)
         /\ "reset" \notin X => SwReset \in Words(X)
<1>1. ASSUME NEW r \in Regs PROVE Read(r) \in Words(X)
  <2>1. Read(r) \in Simple
    BY DEF Simple, Reads
  <2> QED BY <2>1 DEF Words, Target, Read
<1>2. ASSUME NEW r \in Regs \ X, NEW a \in SUBSET AllFlags, NEW b \in SUBSET AllFlags
      PROVE  Write(r, a, b) \in Words(X)
  <2>1. Write(r, a, b) \in Simple
    BY DEF Simple, Writes
  <2>2. Write(r, a, b).op = "write" /\ Write(r, a, b).reg = r
    BY DEF Write
  <2> QED BY <2>1, <2>2 DEF Words, Target
<1>3. ASSUME NEW r \in Regs \ X, NEW a \in SUBSET AllFlags
      PROVE  Put(r, a) \in Words(X)
  <2>1. Put(r, a) \in Simple
    BY DEF Simple, Puts
  <2>2. Put(r, a).op = "put" /\ Put(r, a).reg = r
    BY DEF Put
  <2> QED BY <2>1, <2>2 DEF Words, Target
<1>4. ASSUME NEW l \in Locks PROVE Lock(l) \in Words(X) /\ Unlock(l) \in Words(X)
  <2>1. Lock(l) \in Simple /\ Unlock(l) \in Simple
    BY DEF Simple, LockOps
  <2> QED BY <2>1 DEF Words, Target, Lock, Unlock
<1>5. /\ Kick \in Simple /\ PmicPreReset \in Simple /\ SwReset \in Simple
      /\ \A b \in BOOLEAN : SetEnable(b) \in Simple
  BY DEF Simple, Others
<1>6. Kick \in Words(X) /\ PmicPreReset \in Words(X)
  BY <1>5 DEF Words, Target, Kick, PmicPreReset
<1>7. ASSUME "enable" \notin X, NEW b \in BOOLEAN PROVE SetEnable(b) \in Words(X)
  <2>1. SetEnable(b).op = "enable"
    BY DEF SetEnable
  <2> QED BY <1>5, <1>7, <2>1 DEF Words, Target
<1>8. "reset" \notin X => SwReset \in Words(X)
  BY <1>5 DEF Words, Target, SwReset
<1> QED BY <1>1, <1>2, <1>3, <1>4, <1>6, <1>7, <1>8

LEMMA SparingParts ==
  ASSUME NEW X
  PROVE  /\ <<>> \in Sparing(X) /\ Sparing(X) \subseteq Code
         /\ \A i \in Words(X) : <<i>> \in Sparing(X)
         /\ \A i, j \in Words(X) : <<i, j>> \in Sparing(X)
         /\ \A i, j, k \in Words(X) : <<i, j, k>> \in Sparing(X)
         /\ \A i, j, k, l \in Words(X) : <<i, j, k, l>> \in Sparing(X)
         /\ \A f, g \in Sparing(X) : f \o g \in Sparing(X)
         /\ \A r \in Regs, f \in AllFlags, q \in Seq(Words(X)) : <<Branch(r, f, q)>> \in Sparing(X)
BY WordsFact, ProgParts, OverFact DEF Sparing

LEMMA SparingRmw ==
  ASSUME NEW X, None \notin X, NEW r \in Regs \ X, NEW a \in SUBSET AllFlags,
         NEW b \in SUBSET AllFlags
  PROVE  Rmw(r, a, b) \in Sparing(X) /\ Rmw(r, a, b) \in Seq(Words(X))
<1>1. Read(r) \in Words(X) /\ Write(r, a, b) \in Words(X)
  BY SparingWord
<1> QED BY <1>1, SparingParts DEF Rmw

LEMMA SparingAssign ==
  ASSUME NEW X, None \notin X, NEW r \in Regs \ X, NEW f \in AllFlags, NEW on \in BOOLEAN
  PROVE  /\ Assign(r, f, on) \in Sparing(X) /\ Assign(r, f, on) \in Seq(Words(X))
         /\ Api!Assign(r, f, on) = Assign(r, f, on)
<1>1. /\ Rmw(r, {f}, {}) \in Sparing(X) /\ Rmw(r, {f}, {}) \in Seq(Words(X))
      /\ Rmw(r, {}, {f}) \in Sparing(X) /\ Rmw(r, {}, {f}) \in Seq(Words(X))
  BY SparingRmw
<1>2. Assign(r, f, on) = Rmw(r, {f}, {}) \/ Assign(r, f, on) = Rmw(r, {}, {f})
  BY DEF Assign
<1>3. Assign(r, f, on) \in Sparing(X) /\ Assign(r, f, on) \in Seq(Words(X))
  BY <1>1, <1>2
<1> QED BY <1>3, Words2Assign

LEMMA SparingLocked ==
  ASSUME NEW X, None \notin X, NEW f \in Sparing(X)
  PROVE  /\ \A l \in Locks : V1!Under(l, f) \in Sparing(X)
         /\ V1!Locked(f) \in Sparing(X) /\ Api!Locked(f) \in Sparing(X)
<1>1. \A l \in Locks : <<Lock(l)>> \o f \o <<Unlock(l)>> \in Sparing(X)
  BY SparingWord, SparingParts
<1>2. \A l \in Locks : V1!Under(l, f) = <<Lock(l)>> \o f \o <<Unlock(l)>>
  BY Words1 DEF V1!Under
<1>3. Api!Locked(f) = <<Lock("rgu")>> \o f \o <<Unlock("rgu")>>
  BY Words2 DEF Api!Locked
<1> QED BY <1>1, <1>2, <1>3 DEF Locks, V1!Locked

LEMMA SparingIf ==
  ASSUME NEW X, NEW f \in Sparing(X), NEW b
  PROVE  Api!If(b, f) \in Sparing(X) /\ V1!If(b, f) \in Sparing(X)
BY SparingParts DEF Api!If, V1!If

\* The operations that have nothing to do with MODE and NONRST_REG2.
Core == {"MODE", "NONRST2", "enable", "reset"}
Bystanders == Sparing(Core)

LEMMA CoreFact ==
  /\ None \notin Core
  /\ {"LENGTH", "REQ_MODE", "REQ_IRQ_EN", "EXT_REQ_CON", "SYSDBG_DEG", "SWSYSRST", "LATCH_CTL",
      "LATCH_CTL2", "DEBUG_CTL", "DEBUG_CTL2", "RTC"} \subseteq Regs \ Core
BY RegsFact DEF Core, None

\* The functions of version 1 that reach other registers.
LEMMA Aside1 ==
  /\ \A v \in RegFlags["LENGTH"] : V1!mtk_wdt_set_time_out_value(v) \in Bystanders
  /\ \A t : V1!mtk_wdt_restart(t) \in Bystanders
  /\ \A m, b : V1!mtk_wdt_request_en_set(m, b) \in Bystanders
  /\ \A m, b : V1!mtk_wdt_request_mode_set(m, b) \in Bystanders
  /\ \A m, b : V1!mtk_wdt_swsysret_config(m, b) \in Bystanders
  /\ \A id \in SwsysFlags : V1!toprgu_reset_assert(id) \in Bystanders
                             /\ V1!toprgu_reset(id) \in Bystanders
<1>1. ASSUME NEW v \in RegFlags["LENGTH"]
      PROVE  V1!mtk_wdt_set_time_out_value(v) \in Bystanders
  <2>1. {v} \in SUBSET AllFlags
    BY FlagsFact, RegsFact
  <2>2. <<Put("LENGTH", {v})>> \in Bystanders
    BY <2>1, CoreFact, SparingWord, SparingParts DEF Bystanders
  <2> QED BY <2>2, CoreFact, SparingLocked, Words1 DEF V1!mtk_wdt_set_time_out_value, Bystanders
<1>2. ASSUME NEW t PROVE V1!mtk_wdt_restart(t) \in Bystanders
  <2>1. <<Kick>> \in Bystanders
    BY CoreFact, SparingWord, SparingParts DEF Bystanders
  <2> QED BY <2>1, CoreFact, SparingLocked, Words1 DEF V1!mtk_wdt_restart, Bystanders
<1>3. ASSUME NEW r \in {"REQ_MODE", "REQ_IRQ_EN", "SWSYSRST"}, NEW a \in SUBSET RegFlags[r],
             NEW b \in SUBSET RegFlags[r], NEW l \in Locks
      PROVE  V1!Under(l, V1!Rmw(r, a, b)) \in Bystanders
  <2>1. r \in Regs \ Core /\ r \in Regs
    BY CoreFact
  <2>2. a \in SUBSET AllFlags /\ b \in SUBSET AllFlags
    BY <2>1, MoreFlags
  <2> QED BY <2>1, <2>2, CoreFact, SparingRmw, SparingLocked, Words1 DEF Bystanders
<1>4. V1!V1Marks \subseteq RegFlags["REQ_MODE"] /\ V1!V1Marks \subseteq RegFlags["REQ_IRQ_EN"]
      /\ V1!V1Swsys \subseteq RegFlags["SWSYSRST"] /\ RegFlags["SWSYSRST"] = SwsysFlags
      /\ "rgu" \in Locks /\ "swrst" \in Locks
  BY RegFlagsFact DEF V1!V1Marks, Marks, V1!V1Swsys, SwsysFlags, Locks
<1>5. ASSUME NEW m, NEW b
      PROVE  /\ V1!mtk_wdt_request_en_set(m, b) \in Bystanders
             /\ V1!mtk_wdt_request_mode_set(m, b) \in Bystanders
  <2>1. PICK s, c : s = V1!Flag(b, m) \cap V1!V1Marks /\ c = V1!Flag(~b, m) \cap V1!V1Marks
    OBVIOUS
  <2>2. /\ V1!mtk_wdt_request_en_set(m, b) = V1!Under("rgu", V1!Rmw("REQ_MODE", s, c))
        /\ V1!mtk_wdt_request_mode_set(m, b) = V1!Under("rgu", V1!Rmw("REQ_IRQ_EN", s, c))
    BY <2>1 DEF V1!mtk_wdt_request_en_set, V1!mtk_wdt_request_mode_set, V1!Locked
  <2> QED BY <1>3, <1>4, <2>1, <2>2
<1>6. ASSUME NEW m, NEW b
      PROVE  V1!mtk_wdt_swsysret_config(m, b) \in Bystanders
  <2>1. PICK s, c : s = V1!Flag(b, m) \cap V1!V1Swsys /\ c = V1!Flag(~b, m) \cap V1!V1Swsys
    OBVIOUS
  <2>2. V1!mtk_wdt_swsysret_config(m, b) = V1!Under("rgu", V1!Rmw("SWSYSRST", s, c))
    BY <2>1 DEF V1!mtk_wdt_swsysret_config, V1!Locked
  <2> QED BY <1>3, <1>4, <2>1, <2>2
<1>7. ASSUME NEW id \in SwsysFlags
      PROVE  V1!toprgu_reset_assert(id) \in Bystanders /\ V1!toprgu_reset(id) \in Bystanders
  <2>1. V1!toprgu_reset_assert(id) \in Bystanders /\ V1!toprgu_reset_deassert(id) \in Bystanders
    BY <1>3, <1>4 DEF V1!toprgu_reset_assert, V1!toprgu_reset_deassert
  <2> QED BY <2>1, SparingParts DEF V1!toprgu_reset, Bystanders
<1> QED BY <1>1, <1>2, <1>5, <1>6, <1>7

\* The functions of version 2 that reach other registers.
LEMMA AsideTimer2 ==
  /\ \A v \in RegFlags["LENGTH"] : Api!mtk_wdt_set_time_out_value(v) \in Bystanders
  /\ Api!mtk_wdt_restart \in Bystanders
<1>1. ASSUME NEW v \in RegFlags["LENGTH"]
      PROVE  Api!mtk_wdt_set_time_out_value(v) \in Bystanders
  <2>1. {v} \in SUBSET AllFlags
    BY FlagsFact, RegsFact
  <2>2. <<Put("LENGTH", {v})>> \in Bystanders
    BY <2>1, CoreFact, SparingWord, SparingParts DEF Bystanders
  <2> QED BY <2>2, CoreFact, SparingLocked, Words2 DEF Api!mtk_wdt_set_time_out_value, Bystanders
<1>2. <<Kick>> \in Bystanders
  BY CoreFact, SparingWord, SparingParts DEF Bystanders
<1>3. Api!mtk_wdt_restart \in Bystanders
  BY <1>2, CoreFact, SparingLocked, Words2 DEF Api!mtk_wdt_restart, Bystanders
<1> QED BY <1>1, <1>3

LEMMA AsideAssign2 ==
  ASSUME NEW r \in Regs \ Core, NEW f \in RegFlags[r], NEW on
  PROVE  Api!Assign(r, f, on) \in Bystanders
<1>1. f \in AllFlags
  BY FlagsFact
<1>2. /\ Rmw(r, {f}, {}) \in Bystanders /\ Rmw(r, {}, {f}) \in Bystanders
  BY <1>1, CoreFact, SparingRmw DEF Bystanders
<1>3. Api!Assign(r, f, on) = Rmw(r, {f}, {}) \/ Api!Assign(r, f, on) = Rmw(r, {}, {f})
  BY Words2 DEF Api!Assign
<1> QED BY <1>2, <1>3

LEMMA AsideControls2 ==
  ASSUME NEW on
  PROVE  /\ Api!mtk_rgu_cfg_emi_dcs(on) \in Bystanders
         /\ Api!mtk_rgu_mcu_cache_preserve(on) \in Bystanders
         /\ Api!mtk_wdt_dfd_count_en(on) \in Bystanders
         /\ Api!mtk_wdt_dfd_thermal1_dis(on) \in Bystanders
         /\ Api!mtk_wdt_dfd_thermal2_dis(on) \in Bystanders
         /\ Api!mtk_wdt_dfd_timeout(on) \in Bystanders
         /\ \A bit \in SwsysFlags : Api!mtk_wdt_set_c2k_sysrst(on, bit) \in Bystanders
<1>1. /\ "EMI_DCS_EN" \in RegFlags["DEBUG_CTL2"] /\ "CACHE_PRESERVE" \in RegFlags["DEBUG_CTL"]
      /\ RegFlags["SWSYSRST"] = SwsysFlags
  BY RegFlagsFact
<1>2. {"DFD_EN", "THERMAL1_DIS", "THERMAL2_DIS", "TIMEOUT"} \subseteq RegFlags["LATCH_CTL2"]
  BY RegFlagsFact
<1>3. /\ Api!Assign("DEBUG_CTL2", "EMI_DCS_EN", on) \in Bystanders
      /\ Api!Assign("DEBUG_CTL", "CACHE_PRESERVE", on) \in Bystanders
      /\ \A f \in RegFlags["LATCH_CTL2"] : Api!Assign("LATCH_CTL2", f, on) \in Bystanders
      /\ \A bit \in SwsysFlags : Api!Assign("SWSYSRST", bit, ~on) \in Bystanders
  BY <1>1, CoreFact, AsideAssign2
<1>4. /\ Api!mtk_wdt_dfd_count_en(on) \in Bystanders
      /\ Api!mtk_wdt_dfd_thermal1_dis(on) \in Bystanders
      /\ Api!mtk_wdt_dfd_thermal2_dis(on) \in Bystanders
      /\ Api!mtk_wdt_dfd_timeout(on) \in Bystanders
  BY <1>2, <1>3 DEF Api!mtk_wdt_dfd_count_en, Api!mtk_wdt_dfd_thermal1_dis,
                    Api!mtk_wdt_dfd_thermal2_dis, Api!mtk_wdt_dfd_timeout
<1> QED BY <1>3, <1>4 DEF Api!mtk_rgu_cfg_emi_dcs, Api!mtk_rgu_mcu_cache_preserve,
                          Api!mtk_wdt_set_c2k_sysrst

LEMMA AsideSwsys2 == \A m, b : Api!mtk_wdt_swsysret_config(m, b) \in Bystanders
<1> SUFFICES ASSUME NEW m, NEW b PROVE Api!mtk_wdt_swsysret_config(m, b) \in Bystanders
  OBVIOUS
<1>1. PICK s, c : s = Api!Flag(b, m) \cap Api!V2Swsys /\ c = Api!Flag(~b, m) \cap Api!V2Swsys
  OBVIOUS
<1>2. s \in SUBSET RegFlags["SWSYSRST"] /\ c \in SUBSET RegFlags["SWSYSRST"]
  BY <1>1, RegFlagsFact DEF Api!V2Swsys, Api!SwsysFlags, SwsysFlags
<1>3. s \in SUBSET AllFlags /\ c \in SUBSET AllFlags
  BY <1>2, MoreFlags, RegsFact
<1>4. Api!mtk_wdt_swsysret_config(m, b) = Api!Locked(Rmw("SWSYSRST", s, c))
  BY <1>1, Words2 DEF Api!mtk_wdt_swsysret_config
<1> QED BY <1>3, <1>4, CoreFact, SparingRmw, SparingLocked DEF Bystanders

LEMMA AsideRequests2 ==
  ASSUME NEW mark \in Marks, NEW en, NEW mode
  PROVE  Api!ModeConfig(mark, en, mode) \in Bystanders
<1>1. {mark} \in SUBSET AllFlags /\ {} \in SUBSET AllFlags /\ {"EINT"} \in SUBSET AllFlags
      /\ {"DEG"} \in SUBSET AllFlags
  BY RegFlagsFact, FlagsFact, RegsFact
<1>2. ASSUME NEW on PROVE Api!mtk_wdt_request_mode_set(mark, on) \in Bystanders
  <2>1. PICK s, c : s = Api!Flag(on, mark) \cap Api!V2Marks /\ c = Api!Flag(~on, mark)
    OBVIOUS
  <2>2. s \in SUBSET AllFlags /\ c \in SUBSET AllFlags
    BY <1>1, <2>1 DEF Api!Flag
  <2>3. Rmw("REQ_IRQ_EN", s, c) \in Bystanders /\ <<Put("REQ_IRQ_EN", {})>> \in Bystanders
    BY <1>1, <2>2, CoreFact, SparingRmw, SparingWord, SparingParts DEF Bystanders
  <2>4. Api!If(~Api!doe, <<Put("REQ_IRQ_EN", {})>>) \in Bystanders
    BY <2>3, SparingIf DEF Bystanders
  <2>5. Rmw("REQ_IRQ_EN", s, c) \o Api!If(~Api!doe, <<Put("REQ_IRQ_EN", {})>>) \in Bystanders
    BY <2>3, <2>4, SparingParts DEF Bystanders
  <2>6. Api!mtk_wdt_request_mode_set(mark, on)
          = Api!Locked(Rmw("REQ_IRQ_EN", s, c) \o Api!If(~Api!doe, <<Put("REQ_IRQ_EN", {})>>))
    BY <2>1, Words2 DEF Api!mtk_wdt_request_mode_set
  <2> QED BY <2>5, <2>6, CoreFact, SparingLocked DEF Bystanders
<1>3. ASSUME NEW on PROVE Api!EnSetBody(mark, on) \in Bystanders
  <2>1. PICK s, c, d : /\ s = Api!Flag(on /\ (mark = "EINT" => Api!eint), mark) \cap Api!V2Marks
                       /\ c = {mark} \ s /\ d = Api!Flag(on, "DEG")
    OBVIOUS
  <2>2. s \in SUBSET AllFlags /\ c \in SUBSET AllFlags /\ d \in SUBSET AllFlags
    BY <1>1, <2>1 DEF Api!Flag
  <2>3. /\ <<Read("REQ_MODE")>> \in Bystanders /\ <<Put("EXT_REQ_CON", {"EINT"})>> \in Bystanders
        /\ <<Put("SYSDBG_DEG", d)>> \in Bystanders /\ <<Write("REQ_MODE", s, c)>> \in Bystanders
    BY <1>1, <2>2, CoreFact, SparingWord, SparingParts DEF Bystanders
  <2> DEFINE A == Api!If(mark = "EINT" /\ on /\ Api!eint, <<Put("EXT_REQ_CON", {"EINT"})>>)
             B == Api!If(mark = "SYSRST", <<Put("SYSDBG_DEG", d)>>)
  <2>4. A \in Bystanders /\ B \in Bystanders
    BY <2>3, SparingIf DEF Bystanders
  <2>5. Api!EnSetBody(mark, on)
          = <<Read("REQ_MODE")>> \o A \o B \o <<Write("REQ_MODE", s, c)>>
    BY <2>1, Words2 DEF Api!EnSetBody
  <2> HIDE DEF A, B
  <2> QED BY <2>3, <2>4, <2>5, SparingParts DEF Bystanders
<1>4. ASSUME NEW b PROVE Api!mtk_wdt_request_en_set(mark, b) \in Bystanders
  <2>1. <<Put("REQ_MODE", {})>> \in Bystanders
    BY <1>1, CoreFact, SparingWord, SparingParts DEF Bystanders
  <2>2. Api!If(~Api!doe, <<Put("REQ_MODE", {})>>) \in Bystanders
    BY <2>1, SparingIf DEF Bystanders
  <2>3. Api!EnSetBody(mark, b /\ Api!doe) \in Bystanders
    BY <1>3
  <2>4. Api!mtk_wdt_request_en_set(mark, b)
          = Api!Locked(Api!EnSetBody(mark, b /\ Api!doe) \o Api!If(~Api!doe, <<Put("REQ_MODE", {})>>))
    BY Words2 DEF Api!mtk_wdt_request_en_set
  <2>5. Api!EnSetBody(mark, b /\ Api!doe) \o Api!If(~Api!doe, <<Put("REQ_MODE", {})>>) \in Bystanders
    BY <2>2, <2>3, SparingParts DEF Bystanders
  <2> QED BY <2>4, <2>5, CoreFact, SparingLocked DEF Bystanders
<1>5. /\ Api!If(en # "bad", Api!mtk_wdt_request_en_set(mark, en = "EN")) \in Bystanders
      /\ Api!If(mode # "bad", Api!mtk_wdt_request_mode_set(mark, mode = "IRQ")) \in Bystanders
  BY <1>2, <1>4, SparingIf DEF Bystanders
<1> QED BY <1>5, SparingParts DEF Api!ModeConfig, Bystanders

LEMMA AsideDvfsrc2 ==
  Api!mtk_rgu_cfg_dvfsrc \in Bystanders /\ Api!mtk_rgu_pause_dvfsrc \in Bystanders
<1>1. /\ {"DVFSRC_EN"} \in SUBSET RegFlags["DEBUG_CTL2"] /\ {"DVFSRC"} \in SUBSET RegFlags["LATCH_CTL"]
      /\ {"DVFSRC_PAUSE"} \in SUBSET RegFlags["DEBUG_CTL"]
  BY RegFlagsFact
<1>2. /\ {"DVFSRC_EN"} \in SUBSET AllFlags /\ {"DVFSRC"} \in SUBSET AllFlags
      /\ {"DVFSRC_PAUSE"} \in SUBSET AllFlags
  BY <1>1, MoreFlags, RegsFact
<1>3. /\ Read("DEBUG_CTL2") \in Words(Core) /\ Read("LATCH_CTL") \in Words(Core)
      /\ Write("DEBUG_CTL2", {"DVFSRC_EN"}, {}) \in Words(Core)
      /\ Write("LATCH_CTL", {"DVFSRC"}, {}) \in Words(Core)
  BY <1>2, CoreFact, SparingWord
<1>4. Api!mtk_rgu_cfg_dvfsrc
        = <<Read("DEBUG_CTL2"), Read("LATCH_CTL"), Write("DEBUG_CTL2", {"DVFSRC_EN"}, {}),
            Write("LATCH_CTL", {"DVFSRC"}, {})>>
  BY Words2 DEF Api!mtk_rgu_cfg_dvfsrc
<1>5. Api!mtk_rgu_cfg_dvfsrc \in Bystanders
  BY <1>3, <1>4, SparingParts DEF Bystanders
<1>6. Api!Assign("DEBUG_CTL", "DVFSRC_PAUSE", TRUE) \in Seq(Words(Core))
  BY <1>2, CoreFact, SparingAssign
<1>7. Api!mtk_rgu_pause_dvfsrc
        = <<Branch("DEBUG_CTL2", "DVFSRC_EN", Api!Assign("DEBUG_CTL", "DVFSRC_PAUSE", TRUE))>>
  BY Words2 DEF Api!mtk_rgu_pause_dvfsrc
<1>8. Api!mtk_rgu_pause_dvfsrc \in Bystanders
  BY <1>2, <1>6, <1>7, CoreFact, SparingParts DEF Bystanders
<1> QED BY <1>5, <1>8

\* The operations of both versions that reach other registers only.
Stirring1 == {"enable", "confirm", "arch_reset"}
Stirring2 == {"config", "set_mode", "confirm", "enable", "dram", "dram_mode", "sw_reset", "arch_reset"}

LEMMA Aside1Program ==
  ASSUME NEW o \in V1!Ops, o[1] \notin Stirring1
  PROVE  V1!Program(o) \in Bystanders
<1>1. CASE o \in {<<"timeout">>, <<"confirm">>}
  <2>1. o[1] = "timeout"
    BY <1>1 DEF Stirring1
  <2>2. "CONFIG" \in RegFlags["LENGTH"]
    BY RegFlagsFact
  <2> QED BY <2>1, <2>2, Plain1, Aside1
<1>2. CASE o \in {"enable"} \X BOOLEAN
  BY <1>2 DEF Stirring1
<1>3. CASE o \in {"request_en", "request_mode", "swsys"} \X V1!Names \X BOOLEAN
  <2>1. PICK n \in {"request_en", "request_mode", "swsys"}, m \in V1!Names, b \in BOOLEAN :
          o = <<n, m, b>>
    BY <1>3
  <2>2. \/ V1!Program(o) = V1!mtk_wdt_request_en_set(m, b)
        \/ V1!Program(o) = V1!mtk_wdt_request_mode_set(m, b)
        \/ V1!Program(o) = V1!mtk_wdt_swsysret_config(m, b)
    BY <2>1 DEF V1!Program
  <2> QED BY <2>2, Aside1
<1>4. CASE o \in {"toprgu_assert", "toprgu_reset"} \X SwsysFlags
  <2>1. PICK n \in {"toprgu_assert", "toprgu_reset"}, id \in SwsysFlags : o = <<n, id>>
    BY <1>4
  <2>2. \/ V1!Program(o) = V1!toprgu_reset_assert(id)
        \/ V1!Program(o) = V1!toprgu_reset(id)
    BY <2>1 DEF V1!Program
  <2> QED BY <2>2, Aside1
<1>5. CASE o \in {"restart", "arch_reset"} \X V1!Names
  <2>1. PICK n \in {"restart", "arch_reset"}, c \in V1!Names : o = <<n, c>>
    BY <1>5
  <2>2. n = "restart"
    BY <2>1 DEF Stirring1
  <2>3. V1!Program(o) = V1!mtk_wdt_restart(c)
    BY <2>1, <2>2 DEF V1!Program
  <2> QED BY <2>3, Aside1
<1>6. \/ o \in {<<"timeout">>, <<"confirm">>} \/ o \in {"enable"} \X BOOLEAN
      \/ o \in {"request_en", "request_mode", "swsys"} \X V1!Names \X BOOLEAN
      \/ o \in {"toprgu_assert", "toprgu_reset"} \X SwsysFlags
      \/ o \in {"restart", "arch_reset"} \X V1!Names
  BY Zenon DEF V1!Ops, V1!SwsysFlags, SwsysFlags
<1> QED BY <1>1, <1>2, <1>3, <1>4, <1>5, <1>6, Zenon

LEMMA Aside2Program ==
  ASSUME NEW o \in Api!Ops, o[1] \notin Stirring2
  PROVE  Api!Program(o) \in Bystanders
<1>1. CASE o \in {<<"config">>, <<"set_mode">>, <<"confirm">>, <<"restart">>, <<"dvfsrc">>}
  <2>1. o[1] = "restart" \/ o[1] = "dvfsrc"
    BY <1>1 DEF Stirring2
  <2> QED BY <2>1, Plain2, AsideTimer2, AsideDvfsrc2
<1> DEFINE Switches == {"enable", "dram", "dram_mode", "cache", "emi_dcs", "dfd", "dfd_thermal1",
                        "dfd_thermal2", "dfd_timeout"}
<1>2. CASE o \in Switches \X BOOLEAN
  <2>1. PICK n \in Switches, b \in BOOLEAN : o = <<n, b>>
    BY <1>2
  <2>2. n \notin {"enable", "dram", "dram_mode"}
    BY <2>1 DEF Stirring2
  <2>3. /\ n = "cache" => Api!Program(o) = Api!mtk_rgu_mcu_cache_preserve(b)
        /\ n = "emi_dcs" => Api!Program(o) = Api!mtk_rgu_cfg_emi_dcs(b)
        /\ n = "dfd" => Api!Program(o) = Api!mtk_wdt_dfd_count_en(b)
        /\ n = "dfd_thermal1" => Api!Program(o) = Api!mtk_wdt_dfd_thermal1_dis(b)
        /\ n = "dfd_thermal2" => Api!Program(o) = Api!mtk_wdt_dfd_thermal2_dis(b)
        /\ n = "dfd_timeout" => Api!Program(o) = Api!mtk_wdt_dfd_timeout(b)
    BY <2>1 DEF Api!Program
  <2> QED BY <2>1, <2>2, <2>3, AsideControls2
<1> DEFINE Sources == {"spmwdt", "thermal", "thermal_direct", "eint", "sysrst"}
<1>3. CASE o \in Sources \X Api!Ask \X Api!Answer
  <2>1. PICK n \in Sources, e \in Api!Ask, m \in Api!Answer : o = <<n, e, m>>
    BY <1>3
  <2>2. \/ Api!Program(o) = Api!spmwdt_mode_config(e, m)
        \/ Api!Program(o) = Api!thermal_mode_config(e, m)
        \/ Api!Program(o) = Api!thermal_direct_mode_config(e, m)
        \/ Api!Program(o) = Api!debug_key_eint_config(e, m)
        \/ Api!Program(o) = Api!debug_key_sysrst_config(e, m)
    BY <2>1 DEF Api!Program
  <2>3. {"SPM_SCPSYS", "SPM_THERMAL", "THERMAL", "EINT", "SYSRST"} \subseteq Marks
    BY DEF Marks
  <2> QED BY <2>2, <2>3, AsideRequests2
        DEF Api!spmwdt_mode_config, Api!thermal_mode_config, Api!thermal_direct_mode_config,
            Api!debug_key_eint_config, Api!debug_key_sysrst_config
<1>4. CASE o \in {"swsys"} \X Api!Names \X BOOLEAN
  <2>1. PICK m \in Api!Names, b \in BOOLEAN : o = <<"swsys", m, b>>
    BY <1>4
  <2>2. Api!Program(o) = Api!mtk_wdt_swsysret_config(m, b)
    BY <2>1 DEF Api!Program
  <2> QED BY <2>2, AsideSwsys2
<1>5. CASE o \in {"c2k"} \X BOOLEAN \X SwsysFlags
  <2>1. PICK b \in BOOLEAN, bit \in SwsysFlags : o = <<"c2k", b, bit>>
    BY <1>5
  <2>2. Api!Program(o) = Api!mtk_wdt_set_c2k_sysrst(b, bit)
    BY <2>1 DEF Api!Program
  <2> QED BY <2>2, AsideControls2
<1>6. CASE o \in {"sw_reset"} \X BOOLEAN \X BOOLEAN \/ o \in {"arch_reset"} \X Api!Names
  <2>1. o[1] = "sw_reset" \/ o[1] = "arch_reset"
    BY <1>6
  <2> QED BY <2>1 DEF Stirring2
<1>7. \/ o \in {<<"config">>, <<"set_mode">>, <<"confirm">>, <<"restart">>, <<"dvfsrc">>}
      \/ o \in Switches \X BOOLEAN \/ o \in Sources \X Api!Ask \X Api!Answer
      \/ o \in {"swsys"} \X Api!Names \X BOOLEAN \/ o \in {"c2k"} \X BOOLEAN \X SwsysFlags
      \/ o \in {"sw_reset"} \X BOOLEAN \X BOOLEAN \/ o \in {"arch_reset"} \X Api!Names
  BY Zenon DEF Api!Ops, Api!SwsysFlags, SwsysFlags
<1> QED BY <1>1, <1>2, <1>3, <1>4, <1>5, <1>6, <1>7, Zenon

-----------------------------------------------------------------------------
(* The programs that reach MODE and NONRST_REG2.                            *)

\* A literal program in front of another, one instruction at a time.
LEMMA Unfold2 ==
  ASSUME NEW i \in Instr, NEW j \in Instr, NEW q \in Code
  PROVE  <<i, j>> \o q = <<i>> \o (<<j>> \o q)
<1>1. <<i>> \in Code /\ <<j>> \in Code
  BY DEF Code
<1>2. \A a, b \in Code : (a \o b) \o q = a \o (b \o q)
  BY Associate
<1>3. (<<i>> \o <<j>>) \o q = <<i>> \o (<<j>> \o q)
  BY <1>1, <1>2, Zenon
<1>4. <<i>> \o <<j>> = <<i, j>>
  BY Tuples
<1> QED BY <1>3, <1>4

LEMMA Unfold3 ==
  ASSUME NEW i \in Instr, NEW j \in Instr, NEW k \in Instr, NEW q \in Code
  PROVE  <<i, j, k>> \o q = <<i>> \o (<<j>> \o (<<k>> \o q))
<1>1. <<i, j>> \in Code /\ <<k>> \in Code /\ <<k>> \o q \in Code
  BY OneCons DEF Code
<1>2. \A a, b \in Code : (a \o b) \o q = a \o (b \o q)
  BY Associate
<1>3. (<<i, j>> \o <<k>>) \o q = <<i, j>> \o (<<k>> \o q)
  BY <1>1, <1>2, Zenon
<1>4. <<i, j>> \o <<k>> = <<i, j, k>>
  <2>1. <<i>> \o <<j>> = <<i, j>>
    BY Tuples
  <2>2. (<<i>> \o <<j>>) \o <<k>> = <<i, j, k>>
    BY Tuples
  <2> QED BY <2>1, <2>2, Zenon
<1>5. <<i, j>> \o (<<k>> \o q) = <<i>> \o (<<j>> \o (<<k>> \o q))
  BY <1>1, Unfold2
<1>6. (<<i, j>> \o <<k>>) \o q = <<i>> \o (<<j>> \o (<<k>> \o q))
  BY <1>3, <1>5, Zenon
<1> QED BY <1>4, <1>6, Zenon

LEMMA Unfold4 ==
  ASSUME NEW i \in Instr, NEW j \in Instr, NEW k \in Instr, NEW l \in Instr, NEW q \in Code,
         NEW c, c = <<i, j, k, l>>
  PROVE  c \o q = <<i>> \o (<<j>> \o (<<k>> \o (<<l>> \o q)))
<1>1. <<l>> \in Code /\ <<l>> \o q \in Code /\ <<i, j, k>> \in Code
  BY OneCons DEF Code
<1>2. \A a, b \in Code : (a \o b) \o q = a \o (b \o q)
  BY Associate
<1>3. (<<i, j, k>> \o <<l>>) \o q = <<i, j, k>> \o (<<l>> \o q)
  BY <1>1, <1>2, Zenon
<1>4. <<i, j, k>> \o <<l>> = <<i, j, k, l>>
  <2> DEFINE e == <<i, j, k>> \o <<l>>
             d == <<i, j, k, l>>
  <2>1. <<i, j, k>> \in Seq(Instr) /\ Len(<<l>>) = 1 /\ Len(<<i, j, k>>) = 3
    OBVIOUS
  <2>2. e \in Seq(Instr) /\ Len(e) = 4 /\ e[1] = i /\ e[2] = j /\ e[3] = k /\ e[4] = l
    BY <1>1, <2>1, ConcatProperties DEF Code
  <2>3. d \in Seq(Instr) /\ Len(d) = 4 /\ d[1] = i /\ d[2] = j /\ d[3] = k /\ d[4] = l
    OBVIOUS
  <2> HIDE DEF e, d
  <2>4. \A n \in 1 .. Len(e) : e[n] = d[n]
    BY <2>2, <2>3
  <2>5. e = d
    BY <2>2, <2>3, <2>4, SeqEqual
  <2> QED BY <2>5 DEF e, d
<1>5. <<i, j, k>> \o (<<l>> \o q) = <<i>> \o (<<j>> \o (<<k>> \o (<<l>> \o q)))
  <2>1. PICK r \in Code : r = <<l>> \o q
    BY <1>1
  <2>2. <<i, j, k>> \o r = <<i>> \o (<<j>> \o (<<k>> \o r))
    BY Unfold3
  <2> QED BY <2>1, <2>2, Zenon
<1>6. (<<i, j, k>> \o <<l>>) \o q = <<i>> \o (<<j>> \o (<<k>> \o (<<l>> \o q)))
  BY <1>3, <1>5, Zenon
<1> QED BY <1>4, <1>6, Zenon

LEMMA Cons5 ==
  ASSUME NEW h \in Instr, NEW i \in Instr, NEW j \in Instr, NEW k \in Instr, NEW l \in Instr
  PROVE  <<h>> \o <<i, j, k, l>> = <<h, i, j, k, l>>
<1> DEFINE e == <<h>> \o <<i, j, k, l>>
           d == <<h, i, j, k, l>>
<1>1. /\ <<i, j, k, l>> \in Seq(Instr) /\ Len(<<i, j, k, l>>) = 4 /\ <<h>> \in Seq(Instr)
      /\ Len(<<h>>) = 1
  OBVIOUS
<1>2. e \in Seq(Instr) /\ Len(e) = 5 /\ e[1] = h /\ e[2] = i /\ e[3] = j /\ e[4] = k /\ e[5] = l
  BY <1>1, ConcatProperties
<1>3. d \in Seq(Instr) /\ Len(d) = 5 /\ d[1] = h /\ d[2] = i /\ d[3] = j /\ d[4] = k /\ d[5] = l
  OBVIOUS
<1> HIDE DEF e, d
<1>4. \A n \in 1 .. Len(e) : e[n] = d[n]
  BY <1>2, <1>3
<1>5. e = d
  BY <1>2, <1>3, <1>4, SeqEqual
<1> QED BY <1>5 DEF e, d

LEMMA CodeSparing == Sparing({}) = Code
<1>1. Words({}) = Simple
  BY DEF Words
<1> QED BY <1>1 DEF Sparing, Prog, Over, Code, Instr, Branches

LEMMA SplitMono ==
  ASSUME NEW X, NEW Y, Y \subseteq X, NEW i, NEW T, NEW U, T \subseteq U, NEW c, Split(c, X, i, T)
  PROVE  Split(c, Y, i, U)
<1>1. Sparing(X) \subseteq Sparing(Y)
  BY WordsFact
<1> QED BY <1>1 DEF Split

\* The accesses of MODE and NONRST_REG2 on the way to sleep and back.
Timer1Flags(en) == V1!ModeFor(TRUE, TRUE, TRUE, FALSE, en)
Timer2Flags(en) == Api!ModeFor(TRUE, TRUE, TRUE, FALSE, en)
TimerWrite(en) ==
  IF version = 1 THEN Write("MODE", Timer1Flags(en), V1!ModeFlags \ Timer1Flags(en))
                 ELSE Write("MODE", Timer2Flags(en), Api!ModeFlags \ Timer2Flags(en))
MarkWrite == Write("NONRST2", {"SUSPEND_DIS"}, {})
Unmark == Write("NONRST2", {}, {"SUSPEND_DIS"})
BypassOn == Write("NONRST2", {"BYPASS_PWR_KEY"}, {})

LEMMA SleepWords ==
  ASSUME NEW en \in BOOLEAN
  PROVE  /\ {TimerWrite(en), MarkWrite, Unmark, BypassOn, Read("MODE"), Read("NONRST2"),
             Lock("rgu"), Unlock("rgu")} \subseteq Instr
         /\ \A X : None \notin X =>
              /\ {Read("MODE"), Read("NONRST2"), Lock("rgu"), Unlock("rgu")} \subseteq Words(X)
              /\ "NONRST2" \notin X => {MarkWrite, Unmark, BypassOn} \subseteq Words(X)
              /\ "MODE" \notin X => TimerWrite(en) \in Words(X)
         /\ TimerWrite(en).op = "write" /\ TimerWrite(en).reg = "MODE"
         /\ en => "ENABLE" \in TimerWrite(en).set /\ "ENABLE" \notin TimerWrite(en).clear
         /\ ~en => "ENABLE" \in TimerWrite(en).clear
         /\ MarkWrite.op = "write" /\ MarkWrite.reg = "NONRST2"
         /\ "SUSPEND_DIS" \in MarkWrite.set /\ MarkWrite.clear = {}
<1>1. /\ Timer1Flags(en) \in SUBSET RegFlags["MODE"] /\ Timer2Flags(en) \in SUBSET RegFlags["MODE"]
      /\ V1!ModeFlags \in SUBSET RegFlags["MODE"] /\ Api!ModeFlags \in SUBSET RegFlags["MODE"]
      /\ "ENABLE" \in V1!ModeFlags /\ "ENABLE" \in Api!ModeFlags
      /\ en => "ENABLE" \in Timer1Flags(en) /\ "ENABLE" \in Timer2Flags(en)
      /\ ~en => "ENABLE" \notin Timer1Flags(en) /\ "ENABLE" \notin Timer2Flags(en)
  BY RegFlagsFact DEF Timer1Flags, Timer2Flags, V1!ModeFor, V1!Flag, Api!ModeFor, Api!Flag,
                      V1!ModeFlags, Api!ModeFlags
<1>2. PICK s \in SUBSET AllFlags, c \in SUBSET AllFlags :
        /\ TimerWrite(en) = Write("MODE", s, c)
        /\ en => "ENABLE" \in s /\ "ENABLE" \notin c
        /\ ~en => "ENABLE" \in c
  <2>1. PICK a, b, d, e : /\ a = Timer1Flags(en) /\ b = Timer2Flags(en)
                          /\ d = V1!ModeFlags \ a /\ e = Api!ModeFlags \ b
    OBVIOUS
  <2>2. /\ TimerWrite(en) = Write("MODE", a, d) \/ TimerWrite(en) = Write("MODE", b, e)
        /\ {a, b, d, e} \subseteq SUBSET RegFlags["MODE"]
        /\ en => "ENABLE" \in a /\ "ENABLE" \in b /\ "ENABLE" \notin d /\ "ENABLE" \notin e
        /\ ~en => "ENABLE" \in d /\ "ENABLE" \in e
    BY <1>1, <2>1 DEF TimerWrite
  <2>3. {a, b, d, e} \subseteq SUBSET AllFlags
    BY <2>2, FlagsFact, RegsFact
  <2> QED BY <2>2, <2>3
<1>3. {"SUSPEND_DIS"} \in SUBSET AllFlags /\ {"BYPASS_PWR_KEY"} \in SUBSET AllFlags
      /\ {} \in SUBSET AllFlags
  BY RegFlagsFact, FlagsFact, RegsFact
<1>4. {"MODE", "NONRST2"} \subseteq Regs /\ "rgu" \in Locks
  BY RegsFact DEF Locks
<1>5. {TimerWrite(en), MarkWrite, Unmark, BypassOn, Read("MODE"), Read("NONRST2"),
       Lock("rgu"), Unlock("rgu")} \subseteq Instr
  BY <1>2, <1>3, <1>4, WordFact DEF MarkWrite, Unmark, BypassOn
<1>6. ASSUME NEW X, None \notin X
      PROVE  /\ {Read("MODE"), Read("NONRST2"), Lock("rgu"), Unlock("rgu")} \subseteq Words(X)
             /\ "NONRST2" \notin X => {MarkWrite, Unmark, BypassOn} \subseteq Words(X)
             /\ "MODE" \notin X => TimerWrite(en) \in Words(X)
  BY <1>2, <1>3, <1>4, <1>6, SparingWord DEF MarkWrite, Unmark, BypassOn
<1>7. /\ TimerWrite(en).op = "write" /\ TimerWrite(en).reg = "MODE"
      /\ en => "ENABLE" \in TimerWrite(en).set /\ "ENABLE" \notin TimerWrite(en).clear
      /\ ~en => "ENABLE" \in TimerWrite(en).clear
  BY <1>2 DEF Write
<1>8. /\ MarkWrite.op = "write" /\ MarkWrite.reg = "NONRST2"
      /\ "SUSPEND_DIS" \in MarkWrite.set /\ MarkWrite.clear = {}
  BY DEF MarkWrite, Write
<1> QED BY <1>5, <1>6, <1>7, <1>8

LEMMA TimerConfigShape ==
  ASSUME NEW en \in BOOLEAN
  PROVE  /\ version = 1 =>
              V1!mtk_wdt_mode_config(TRUE, TRUE, TRUE, FALSE, en)
                = <<Lock("rgu")>> \o (<<Read("MODE")>> \o (<<TimerWrite(en)>> \o <<Unlock("rgu")>>))
         /\ version = 2 =>
              Api!mtk_wdt_mode_config(TRUE, TRUE, TRUE, FALSE, en)
                = <<Read("NONRST2")>> \o (<<Lock("rgu")>> \o (<<Read("MODE")>> \o
                    (<<BypassOn>> \o (<<TimerWrite(en)>> \o <<Unlock("rgu")>>))))
<1> DEFINE w == TimerWrite(en)
           u == <<Unlock("rgu")>>
<1>1. w \in Instr /\ BypassOn \in Instr /\ Read("MODE") \in Instr /\ Lock("rgu") \in Instr
      /\ u \in Code /\ <<Lock("rgu")>> \in Code
  <2>1. Unlock("rgu") \in Instr
    BY SleepWords
  <2> QED BY <2>1, SleepWords DEF Code
<1>2. ASSUME version = 1
      PROVE  V1!mtk_wdt_mode_config(TRUE, TRUE, TRUE, FALSE, en)
               = (<<Lock("rgu")>> \o <<Read("MODE"), w>>) \o u
  BY <1>2, Words1 DEF V1!mtk_wdt_mode_config, V1!Locked, V1!Under, V1!Rmw, TimerWrite, Timer1Flags
<1>3. ASSUME version = 2
      PROVE  Api!mtk_wdt_mode_config(TRUE, TRUE, TRUE, FALSE, en)
               = <<Read("NONRST2")>> \o ((<<Lock("rgu")>> \o <<Read("MODE"), BypassOn, w>>) \o u)
  <2>1. w = Write("MODE", Timer2Flags(en), Api!ModeFlags \ Timer2Flags(en))
    BY <1>3 DEF TimerWrite
  <2>2. Api!ModeBody(TRUE, TRUE, TRUE, FALSE, en) = <<Read("MODE"), BypassOn, w>>
    BY <2>1, Words2 DEF Api!ModeBody, Timer2Flags, BypassOn
  <2> QED BY <2>2, Words2 DEF Api!mtk_wdt_mode_config, Api!Locked
<1> HIDE DEF w, u
<1>4. <<Read("MODE"), w>> \in Code /\ <<Read("MODE"), BypassOn, w>> \in Code
  BY <1>1 DEF Code
<1>5. \A a, b \in Code : (a \o b) \o u = a \o (b \o u)
  BY <1>1, Associate
<1>6. /\ (<<Lock("rgu")>> \o <<Read("MODE"), w>>) \o u = <<Lock("rgu")>> \o (<<Read("MODE"), w>> \o u)
      /\ (<<Lock("rgu")>> \o <<Read("MODE"), BypassOn, w>>) \o u
           = <<Lock("rgu")>> \o (<<Read("MODE"), BypassOn, w>> \o u)
  BY <1>1, <1>4, <1>5, Zenon
<1>7. /\ <<Read("MODE"), w>> \o u = <<Read("MODE")>> \o (<<w>> \o u)
      /\ <<Read("MODE"), BypassOn, w>> \o u = <<Read("MODE")>> \o (<<BypassOn>> \o (<<w>> \o u))
  <2>1. <<Read("MODE"), w>> \o u = <<Read("MODE")>> \o (<<w>> \o u)
    BY <1>1, Unfold2
  <2>2. <<Read("MODE"), BypassOn, w>> \o u = <<Read("MODE")>> \o (<<BypassOn>> \o (<<w>> \o u))
    BY <1>1, Unfold3
  <2> QED BY <2>1, <2>2
<1> QED BY <1>2, <1>3, <1>6, <1>7, Zenon DEF w, u

\* mtk_wdt_mode_config() settles MODE with its write.
LEMMA TimerConfig ==
  ASSUME NEW en \in BOOLEAN, NEW c,
         \/ version = 1 /\ c = V1!mtk_wdt_mode_config(TRUE, TRUE, TRUE, FALSE, en)
         \/ version = 2 /\ c = Api!mtk_wdt_mode_config(TRUE, TRUE, TRUE, FALSE, en)
  PROVE  /\ c \in Code /\ c \in Sparing({"enable", "reset"})
         /\ Split(c, {"enable"}, TimerWrite(en), Sparing({"MODE", "enable"}))
<1> DEFINE w == TimerWrite(en)
           U == Sparing({"MODE", "enable"})
           e == <<w>> \o <<Unlock("rgu")>>
           X == {"enable"}
           Y == {"enable", "reset"}
<1>1. None \notin X /\ None \notin Y /\ None \notin {"MODE", "enable"} /\ "MODE" \notin Y
      /\ "NONRST2" \notin Y /\ "NONRST2" \notin X
  BY DEF None
<1>2. /\ w \in Instr /\ w \in Words(Y)
      /\ {Read("MODE"), Read("NONRST2"), Lock("rgu"), BypassOn} \subseteq Words(X)
      /\ {Read("MODE"), Read("NONRST2"), Lock("rgu"), Unlock("rgu"), BypassOn} \subseteq Words(Y)
      /\ Unlock("rgu") \in Words({"MODE", "enable"})
  BY <1>1, SleepWords
<1> HIDE DEF w, X, Y
<1>3. Split(e, X, w, U)
  <2>1. <<Unlock("rgu")>> \in U /\ U \in SUBSET Code
    BY <1>2, SparingParts
  <2> QED BY <1>2, <2>1, SplitHere
<1>4. e \in Sparing(Y)
  BY <1>2, SparingParts
<1> HIDE DEF e, U
<1>5. U \in SUBSET Code
  BY SparingParts DEF U
<1>6. ASSUME NEW i \in Words(X) \cap Words(Y), NEW d, Split(d, X, w, U), d \in Sparing(Y)
      PROVE  Split(<<i>> \o d, X, w, U) /\ <<i>> \o d \in Sparing(Y)
  <2>1. <<i>> \in Sparing(X) /\ <<i>> \in Sparing(Y)
    BY SparingParts
  <2> QED BY <1>2, <1>5, <1>6, <2>1, SplitPrefix, SparingParts
<1> DEFINE a == <<Read("MODE")>> \o e
           b == <<BypassOn>> \o e
           a2 == <<Read("MODE")>> \o b
<1>7. Split(a, X, w, U) /\ a \in Sparing(Y) /\ Split(b, X, w, U) /\ b \in Sparing(Y)
  BY <1>2, <1>3, <1>4, <1>6
<1> HIDE DEF a, b
<1>8. Split(a2, X, w, U) /\ a2 \in Sparing(Y)
  BY <1>2, <1>7, <1>6
<1> HIDE DEF a2
<1> DEFINE l == <<Lock("rgu")>> \o a
           l2 == <<Lock("rgu")>> \o a2
<1>9. Split(l, X, w, U) /\ l \in Sparing(Y) /\ Split(l2, X, w, U) /\ l2 \in Sparing(Y)
  BY <1>2, <1>7, <1>8, <1>6
<1> HIDE DEF l, l2
<1> DEFINE n == <<Read("NONRST2")>> \o l2
<1>10. Split(n, X, w, U) /\ n \in Sparing(Y)
  BY <1>2, <1>9, <1>6
<1>11. c = l \/ c = n
  BY TimerConfigShape, Zenon DEF l, l2, a, a2, b, e, w
<1> HIDE DEF n
<1>12. Split(c, X, w, U) /\ c \in Sparing(Y)
  BY <1>9, <1>10, <1>11
<1> QED BY <1>12, SparingParts DEF X, Y, w, U

LEMMA MarkShape ==
  /\ Api!Assign("NONRST2", "SUSPEND_DIS", TRUE) = <<Read("NONRST2")>> \o <<MarkWrite>>
  /\ Api!Assign("NONRST2", "SUSPEND_DIS", FALSE) = <<Read("NONRST2")>> \o <<Unmark>>
<1>1. /\ <<Read("NONRST2")>> \o <<MarkWrite>> = <<Read("NONRST2"), MarkWrite>>
      /\ <<Read("NONRST2")>> \o <<Unmark>> = <<Read("NONRST2"), Unmark>>
  BY SleepWords, Tuples
<1>2. /\ Api!Assign("NONRST2", "SUSPEND_DIS", TRUE) = <<Read("NONRST2"), MarkWrite>>
      /\ Api!Assign("NONRST2", "SUSPEND_DIS", FALSE) = <<Read("NONRST2"), Unmark>>
  BY Words2 DEF Api!Assign, Api!Rmw, MarkWrite, Unmark
<1> QED BY <1>1, <1>2

LEMMA SplitCons ==
  ASSUME NEW X, NEW w \in Instr, NEW T \in SUBSET Code, NEW i \in Words(X), NEW c, Split(c, X, w, T)
  PROVE  Split(<<i>> \o c, X, w, T)
<1>1. <<i>> \in Sparing(X)
  BY SparingParts
<1> QED BY <1>1, SplitPrefix

\* The accesses on the way to a reset in version 2.
ResetKey(b) == Write("NONRST2", Flag(b, "BYPASS_PWR_KEY"), Flag(~b, "BYPASS_PWR_KEY"))
ResetMode == Write("MODE", {"EXTEN"}, {"IRQ", "DUAL", "EXTRA_CNT"})
DramFree == Write("MODE", {}, {"DDR_RESERVE"})
ResetRest(keep) == IF keep THEN Api!mtk_rgu_pause_dvfsrc ELSE Api!mtk_rgu_dram_reserved(FALSE)
ResetTail(keep) == ResetRest(keep) \o <<SwReset>>

LEMMA ResetWords ==
  ASSUME NEW b
  PROVE  /\ {ResetKey(b), ResetMode, DramFree, Kick, PmicPreReset, SwReset, Read("MODE"),
              Read("NONRST2")} \subseteq Instr
         /\ \A X : None \notin X =>
              /\ {Kick, PmicPreReset, Read("MODE"), Read("NONRST2")} \subseteq Words(X)
              /\ "NONRST2" \notin X => ResetKey(b) \in Words(X)
              /\ "MODE" \notin X => {ResetMode, DramFree} \subseteq Words(X)
         /\ ResetKey(b).op = "write" /\ ResetKey(b).reg = "NONRST2"
         /\ b => "BYPASS_PWR_KEY" \in ResetKey(b).set /\ ResetKey(b).clear = {}
         /\ ~b => "BYPASS_PWR_KEY" \in ResetKey(b).clear
         /\ ResetMode.op = "write" /\ ResetMode.reg = "MODE" /\ ResetMode.set = {"EXTEN"}
         /\ ResetMode.clear = {"IRQ", "DUAL", "EXTRA_CNT"}
         /\ DramFree.op = "write" /\ DramFree.reg = "MODE" /\ DramFree.set = {}
         /\ DramFree.clear = {"DDR_RESERVE"}
         /\ SwReset.op = "reset"
<1>1. PICK s, c : s = Flag(b, "BYPASS_PWR_KEY") /\ c = Flag(~b, "BYPASS_PWR_KEY")
  OBVIOUS
<1>2. ResetKey(b) = Write("NONRST2", s, c)
  BY <1>1 DEF ResetKey
<1>3. /\ s \in SUBSET RegFlags["NONRST2"] /\ c \in SUBSET RegFlags["NONRST2"]
      /\ b => "BYPASS_PWR_KEY" \in s /\ c = {}
      /\ ~b => "BYPASS_PWR_KEY" \in c
  BY <1>1, RegFlagsFact DEF Flag
<1>4. {{"EXTEN"}, {"IRQ", "DUAL", "EXTRA_CNT"}, {}, {"DDR_RESERVE"}} \subseteq SUBSET RegFlags["MODE"]
  BY RegFlagsFact
<1>5. /\ {s, c} \subseteq SUBSET AllFlags
      /\ {{"EXTEN"}, {"IRQ", "DUAL", "EXTRA_CNT"}, {}, {"DDR_RESERVE"}} \subseteq SUBSET AllFlags
  BY <1>3, <1>4, FlagsFact, RegsFact
<1>6. {"MODE", "NONRST2"} \subseteq Regs
  BY RegsFact
<1>7. Kick \in Instr /\ PmicPreReset \in Instr /\ SwReset \in Instr
  BY DEF Instr, Simple, Others
<1>8. {ResetKey(b), ResetMode, DramFree, Read("MODE"), Read("NONRST2")} \subseteq Instr
  BY <1>2, <1>5, <1>6, WordFact DEF ResetMode, DramFree
<1>9. ASSUME NEW X, None \notin X
      PROVE  /\ {Kick, PmicPreReset, Read("MODE"), Read("NONRST2")} \subseteq Words(X)
             /\ "NONRST2" \notin X => ResetKey(b) \in Words(X)
             /\ "MODE" \notin X => {ResetMode, DramFree} \subseteq Words(X)
  BY <1>2, <1>5, <1>6, <1>9, SparingWord DEF ResetMode, DramFree
<1>10. /\ ResetKey(b).op = "write" /\ ResetKey(b).reg = "NONRST2"
       /\ b => "BYPASS_PWR_KEY" \in ResetKey(b).set /\ ResetKey(b).clear = {}
       /\ ~b => "BYPASS_PWR_KEY" \in ResetKey(b).clear
  BY <1>2, <1>3 DEF Write
<1>11. /\ ResetMode.op = "write" /\ ResetMode.reg = "MODE" /\ ResetMode.set = {"EXTEN"}
       /\ ResetMode.clear = {"IRQ", "DUAL", "EXTRA_CNT"}
  BY DEF ResetMode, Write
<1>12. /\ DramFree.op = "write" /\ DramFree.reg = "MODE" /\ DramFree.set = {}
       /\ DramFree.clear = {"DDR_RESERVE"} /\ SwReset.op = "reset"
  BY DEF DramFree, Write, SwReset
<1> QED BY <1>7, <1>8, <1>9, <1>10, <1>11, <1>12

LEMMA ResetTails ==
  /\ ResetTail(FALSE) = <<Read("MODE")>> \o (<<DramFree>> \o <<SwReset>>)
  /\ ResetRest(TRUE) \in Bystanders
  /\ \A keep : ResetRest(keep) \in Sparing({"NONRST2", "enable", "reset"})
<1>1. ResetRest(FALSE) = <<Read("MODE"), DramFree>>
  BY Words2 DEF ResetRest, Api!mtk_rgu_dram_reserved, Api!Assign, Api!Rmw, DramFree
<1>2. Read("MODE") \in Instr /\ DramFree \in Instr /\ <<SwReset>> \in Code
  <2>1. SwReset \in Instr
    BY ResetWords
  <2> QED BY <2>1, ResetWords DEF Code
<1>3. <<Read("MODE"), DramFree>> \o <<SwReset>> = <<Read("MODE")>> \o (<<DramFree>> \o <<SwReset>>)
  BY <1>2, Unfold2
<1>4. ResetTail(FALSE) = <<Read("MODE")>> \o (<<DramFree>> \o <<SwReset>>)
  BY <1>1, <1>3, Zenon DEF ResetTail
<1>5. ResetRest(TRUE) \in Bystanders
  BY AsideDvfsrc2 DEF ResetRest
<1> DEFINE X == {"NONRST2", "enable", "reset"}
<1>6. None \notin X /\ "MODE" \notin X /\ X \subseteq Core
  BY DEF None, Core
<1>7. ResetRest(FALSE) \in Sparing(X)
  <2>1. Read("MODE") \in Words(X) /\ DramFree \in Words(X)
    BY <1>6, ResetWords
  <2> QED BY <1>1, <2>1, SparingParts
<1>8. ResetRest(TRUE) \in Sparing(X)
  BY <1>5, <1>6, WordsFact DEF Bystanders
<1>9. \A keep : ResetRest(keep) = ResetRest(TRUE) \/ ResetRest(keep) = ResetRest(FALSE)
  BY DEF ResetRest
<1> QED BY <1>4, <1>5, <1>7, <1>8, <1>9

LEMMA ResetShape ==
  ASSUME NEW b, NEW keep
  PROVE  Api!wdt_arch_reset(b, keep)
           = <<Kick>> \o (<<PmicPreReset>> \o (<<Read("NONRST2")>> \o (<<Read("MODE")>> \o
               (<<ResetKey(b)>> \o (<<ResetMode>> \o ResetTail(keep))))))
<1> DEFINE f == <<PmicPreReset, Read("NONRST2"), Read("MODE"), ResetKey(b), ResetMode>>
           g == ResetRest(keep)
           h == <<SwReset>>
<1>1. Api!wdt_arch_reset(b, keep) = <<Kick>> \o ((f \o g) \o h)
  BY Words2 DEF Api!wdt_arch_reset, Api!ResetBody, ResetKey, ResetMode, ResetRest, Api!Flag, Flag
<1>2. /\ {ResetKey(b), ResetMode, PmicPreReset, Read("MODE"), Read("NONRST2")} \subseteq Instr
      /\ SwReset \in Instr
  BY ResetWords
<1>3. h \in Code /\ f \in Code /\ g \in Code
  BY <1>2, ResetTails, SparingParts DEF Code
<1> HIDE DEF g, h
<1>4. PICK q \in Code : q = g \o h
  BY <1>3, CodeAssociative
<1>5. f \o q = <<PmicPreReset>> \o (<<Read("NONRST2")>> \o (<<Read("MODE")>> \o
                 (<<ResetKey(b)>> \o (<<ResetMode>> \o q))))
  <2>1. PICK p \in Instr, i \in Instr, j \in Instr, k \in Instr, l \in Instr :
          p = PmicPreReset /\ i = Read("NONRST2") /\ j = Read("MODE") /\ k = ResetKey(b) /\ l = ResetMode
    BY <1>2
  <2>2. PICK d : d = <<i, j, k, l>>
    OBVIOUS
  <2>3. f = <<p>> \o d
    BY <2>1, <2>2, Cons5, SMTT(60)
  <2> HIDE DEF f
  <2>4. d \o q = <<i>> \o (<<j>> \o (<<k>> \o (<<l>> \o q)))
    BY <1>4, <2>1, <2>2, Unfold4, SMTT(60)
  <2>5. d \in Code /\ <<p>> \in Code
    BY <2>2 DEF Code
  <2>6. f \o q = <<p>> \o (d \o q)
    <3>1. \A a, e \in Code : (a \o e) \o q = a \o (e \o q)
      BY Associate
    <3> QED BY <2>3, <2>5, <3>1, Zenon
  <2> QED BY <2>1, <2>4, <2>6, Zenon
<1> HIDE DEF f
<1>6. \A a, e \in Code : (a \o e) \o h = a \o (e \o h)
  BY <1>3, Associate
<1>7. (f \o g) \o h = f \o q
  BY <1>3, <1>4, <1>6, Zenon
<1>8. q = ResetTail(keep)
  BY <1>4 DEF ResetTail, g, h
<1> QED BY <1>1, <1>5, <1>7, <1>8, Zenon

\* What is to come before and after each access of the reset path.
LEMMA ResetSplits ==
  ASSUME NEW b, NEW keep
  PROVE  LET c == Api!wdt_arch_reset(b, keep) IN
         /\ Split(c, {}, SwReset, Code)
         /\ Split(c, {"reset"}, SwReset, Code)
         /\ Split(c, {"reset"}, ResetKey(b), Sparing({"NONRST2"}))
         /\ Split(c, {"reset"}, ResetMode, {ResetTail(keep)})
<1> DEFINE t == ResetTail(keep)
           m == <<ResetMode>> \o t
           k == <<ResetKey(b)>> \o m
           r == <<Read("MODE")>> \o k
           o == <<Read("NONRST2")>> \o r
           n == <<PmicPreReset>> \o o
           c == <<Kick>> \o n
           R == {"reset"}
<1>1. None \notin R /\ None \notin {} /\ "MODE" \notin R /\ "NONRST2" \notin R
      /\ None \notin {"NONRST2"} /\ "MODE" \notin {"NONRST2"} /\ "reset" \notin {"NONRST2"}
      /\ {"NONRST2"} \subseteq {"NONRST2", "enable", "reset"} /\ R \subseteq {"NONRST2", "enable", "reset"}
  BY DEF None
<1>2. SwReset \in Instr /\ ResetKey(b) \in Instr /\ ResetMode \in Instr
      /\ {Kick, PmicPreReset, Read("MODE"), Read("NONRST2"), ResetKey(b), ResetMode}
           \subseteq Words(R)
      /\ {ResetMode, SwReset} \subseteq Words({"NONRST2"})
  BY <1>1, ResetWords, SparingWord
<1>3. /\ ResetRest(keep) \in Sparing(R) /\ ResetRest(keep) \in Sparing({"NONRST2"})
  BY <1>1, ResetTails, WordsFact
<1> HIDE DEF R
<1>4. Split(t, R, SwReset, Code)
  <2>1. <<>> \in Code /\ SwReset \in Instr
    BY <1>2, EmptySeq DEF Code
  <2>2. <<SwReset>> \o <<>> = <<SwReset>>
    BY <2>1, Tuples
  <2>3. Split(<<SwReset>>, R, SwReset, Code)
    BY <2>1, <2>2, SplitHere
  <2> QED BY <1>2, <1>3, <2>3, SplitPrefix DEF ResetTail
<1>5. t \in Sparing({"NONRST2"})
  BY <1>2, <1>3, SparingParts DEF ResetTail
<1> HIDE DEF t
<1>6. t \in Code /\ {t} \in SUBSET Code
  BY <1>5, SparingParts
<1>7. /\ Split(m, R, SwReset, Code) /\ Split(m, R, ResetMode, {t}) /\ m \in Sparing({"NONRST2"})
  <2>1. Split(m, R, SwReset, Code)
    BY <1>2, <1>4, SplitCons
  <2>2. Split(m, R, ResetMode, {t})
    BY <1>2, <1>6, SplitHere
  <2> QED BY <1>2, <1>5, <2>1, <2>2, SparingParts
<1> HIDE DEF m
<1>8. /\ Split(k, R, SwReset, Code) /\ Split(k, R, ResetMode, {t})
      /\ Split(k, R, ResetKey(b), Sparing({"NONRST2"}))
  <2>1. Split(k, R, SwReset, Code) /\ Split(k, R, ResetMode, {t})
    BY <1>2, <1>6, <1>7, SplitCons
  <2>2. Sparing({"NONRST2"}) \in SUBSET Code
    BY SparingParts
  <2> QED BY <1>2, <1>7, <2>1, <2>2, SplitHere
<1> HIDE DEF k
<1>9. ASSUME NEW i \in Words(R), NEW d, Split(d, R, SwReset, Code), Split(d, R, ResetMode, {t}),
             Split(d, R, ResetKey(b), Sparing({"NONRST2"}))
      PROVE  /\ Split(<<i>> \o d, R, SwReset, Code) /\ Split(<<i>> \o d, R, ResetMode, {t})
             /\ Split(<<i>> \o d, R, ResetKey(b), Sparing({"NONRST2"}))
  <2>1. Sparing({"NONRST2"}) \in SUBSET Code /\ Code \in SUBSET Code
    BY SparingParts
  <2> QED BY <1>2, <1>6, <1>9, <2>1, SplitCons
<1>10. /\ Split(r, R, SwReset, Code) /\ Split(r, R, ResetMode, {t})
       /\ Split(r, R, ResetKey(b), Sparing({"NONRST2"}))
  BY <1>2, <1>8, <1>9
<1> HIDE DEF r
<1>11. /\ Split(n, R, SwReset, Code) /\ Split(n, R, ResetMode, {t})
       /\ Split(n, R, ResetKey(b), Sparing({"NONRST2"}))
  <2>1. /\ Split(o, R, SwReset, Code) /\ Split(o, R, ResetMode, {t})
        /\ Split(o, R, ResetKey(b), Sparing({"NONRST2"}))
    BY <1>2, <1>9, <1>10
  <2> HIDE DEF o
  <2> QED BY <1>2, <1>9, <2>1
<1> HIDE DEF n
<1>12. /\ Split(c, R, SwReset, Code) /\ Split(c, R, ResetMode, {t})
       /\ Split(c, R, ResetKey(b), Sparing({"NONRST2"}))
  BY <1>2, <1>9, <1>11
<1>13. Split(c, {}, SwReset, Code)
  BY <1>12, SplitMono
<1>14. c = Api!wdt_arch_reset(b, keep)
  BY ResetShape DEF n, o, r, k, m, t
<1> HIDE DEF c
<1> QED BY <1>12, <1>13, <1>14 DEF R, t

\* The interrupt of the SSPM goes through the reset.
LEMMA SspmShape ==
  /\ Split(Api!mtk_wdt_sspm_isr, {}, SwReset, Code)
  /\ Split(Api!mtk_wdt_sspm_isr, {}, ResetKey(TRUE), Sparing({"NONRST2"}))
<1> DEFINE a == Api!Assign("NONRST2", "SSPM_RESET", TRUE)
           c == Api!wdt_arch_reset(TRUE, FALSE)
<1>1. a \in Sparing({})
  <2>1. "SSPM_RESET" \in AllFlags /\ "NONRST2" \in Regs /\ None \notin {}
    BY RegFlagsFact, FlagsFact, RegsFact
  <2> QED BY <2>1, SparingAssign
<1>2. Split(c, {}, SwReset, Code) /\ Split(c, {}, ResetKey(TRUE), Sparing({"NONRST2"}))
  <2>1. Split(c, {}, SwReset, Code) /\ Split(c, {"reset"}, ResetKey(TRUE), Sparing({"NONRST2"}))
    BY ResetSplits
  <2> HIDE DEF c
  <2> QED BY <2>1, SplitMono
<1>3. Api!mtk_wdt_sspm_isr = a \o c
  BY DEF Api!mtk_wdt_sspm_isr
<1>4. SwReset \in Instr /\ ResetKey(TRUE) \in Instr /\ Sparing({"NONRST2"}) \in SUBSET Code
  BY ResetWords, SparingParts
<1> HIDE DEF a, c
<1> QED BY <1>1, <1>2, <1>3, <1>4, SplitPrefix

-----------------------------------------------------------------------------
(* Calls.                                                                   *)

\* What a call starts, and when.
Called(p, o) ==
  /\ o \in start.ops[p] /\ MayCall(p, o)
  /\ run'[p] = Program(o) /\ Program(o) \in Code
  /\ \A q \in Procs \ {p} : run'[q] = run[q]
  /\ suspended' = IF p = Pm THEN o[1] = "suspend" ELSE suspended
  /\ reboot' = IF o[1] = "arch_reset" THEN [cpu |-> p, cmd |-> o[2]] ELSE reboot
  /\ UNCHANGED <<regs, wdt_enable, start, lock, tmp, reset>>
  /\ run[p] = <<>> /\ reset = None
  /\ p = Sspm => version = 2 /\ o[1] = "sspm"
  /\ p = Pm => o[1] \in {"suspend", "resume"}
  /\ p \in Callers => o \in (IF version = 1 THEN V1!Ops ELSE Api!Ops)

LEMMA CallFact ==
  ASSUME IInv, NEW p \in Procs, Call(p)
  PROVE  \E o : Called(p, o)
<1>1. PICK o \in start.ops[p] :
        /\ MayCall(p, o) /\ run' = [run EXCEPT ![p] = Program(o)]
        /\ suspended' = IF p = Pm THEN o[1] = "suspend" ELSE suspended
        /\ reboot' = IF o[1] = "arch_reset" THEN [cpu |-> p, cmd |-> o[2]] ELSE reboot
        /\ UNCHANGED <<regs, wdt_enable, start, lock, tmp, reset, intent>>
  BY DEF Call
<1>2. Types
  BY DEF IInv
<1>3. Program(o) \in Code
  <2>1. Safe(start, p, Program(o), Out)
    BY <1>2, Operation DEF Types
  <2> QED BY <2>1 DEF Safe
<1>4. run'[p] = Program(o) /\ \A q \in Procs \ {p} : run'[q] = run[q]
  BY <1>1, <1>2 DEF Types
<1>5. run[p] = <<>> /\ reset = None
  BY <1>1 DEF MayCall, Idle
<1>6. start \in Starts
  BY <1>2 DEF Types
<1>7. p = Sspm => version = 2 /\ o[1] = "sspm"
  BY <1>6, StartAssumption DEF version, Api!IsrOps
<1>8. p = Pm => o[1] \in {"suspend", "resume"}
  BY <1>6, StartAssumption DEF V1!PmOps
<1>9. p \in Callers => o \in (IF version = 1 THEN V1!Ops ELSE Api!Ops)
  BY <1>6, StartAssumption DEF version
<1> QED BY <1>1, <1>3, <1>4, <1>5, <1>7, <1>8, <1>9 DEF Called

\* Once the interrupt has begun it ends in the reset.
SspmEnds == reset # None \/ run[Sspm] = <<>> \/ Split(run[Sspm], {}, SwReset, Code)
Calm == reset = None /\ run[Sspm] = <<>>

LEMMA SspmEndsCall ==
  ASSUME IInv, SspmEnds, NEW p \in Procs, NEW o, Called(p, o)
  PROVE  SspmEnds' /\ (Calm' => Calm /\ p # Sspm)
<1>1. CASE p = Sspm
  <2>1. run'[Sspm] = Api!mtk_wdt_sspm_isr
    BY <1>1, Plain2 DEF Called, Program
  <2>2. Split(run'[Sspm], {}, SwReset, Code)
    BY <2>1, SspmShape
  <2>3. run'[Sspm] # <<>>
    BY <2>2, ResetWords, SplitNonEmpty
  <2> QED BY <2>2, <2>3 DEF SspmEnds, Calm, Split
<1>2. CASE p # Sspm
  <2>1. run'[Sspm] = run[Sspm] /\ reset' = reset
    BY <1>2 DEF Called, Procs
  <2> QED BY <1>2, <2>1 DEF SspmEnds, Calm, Split
<1> QED BY <1>1, <1>2

LEMMA SspmEndsStep ==
  ASSUME IInv, SspmEnds, NEW p \in Procs, Step(p)
  PROVE  SspmEnds' /\ (Calm' => Calm /\ p # Sspm)
<1>1. CASE p = Sspm
  <2>1. reset = None /\ run[p] # <<>>
    BY StepFact DEF Follows
  <2>2. Split(run[p], {}, SwReset, Code)
    BY <1>1, <2>1 DEF SspmEnds
  <2>3. SwReset \in Instr /\ SwReset.op = "reset"
    BY ResetWords
  <2>4. \/ Effect(p, SwReset)
        \/ Split(run'[p], {}, SwReset, Code)
    BY <2>2, <2>3, SplitSteps
  <2>5. CASE Effect(p, SwReset)
    <3>1. reset' = p /\ p # None
      BY <2>3, <2>5, ProcAssumption DEF Effect
    <3> QED BY <3>1 DEF SspmEnds, Calm
  <2>6. CASE Split(run'[p], {}, SwReset, Code)
    <3>1. run'[p] # <<>>
      BY <2>3, <2>6, SplitNonEmpty
    <3> QED BY <1>1, <2>6, <3>1 DEF SspmEnds, Calm, Split
  <2> QED BY <2>4, <2>5, <2>6
<1>2. CASE p # Sspm
  <2>1. run'[Sspm] = run[Sspm] /\ reset = None
    BY <1>2, StepFact DEF Procs
  <2> QED BY <1>2, <2>1 DEF SspmEnds, Calm, Split
<1> QED BY <1>1, <1>2

\* mtk_wd_suspend() turns the timer off and in version 2 marks the suspend.
LEMMA SuspendShape ==
  /\ version = 1 => Split(V1!mtk_wd_suspend, {"enable"}, TimerWrite(FALSE), Sparing({"MODE", "enable"}))
  /\ version = 2 /\ ~start.dirty =>
       /\ Split(Api!mtk_wd_suspend, {"enable"}, TimerWrite(FALSE), Sparing({"MODE", "enable"}))
       /\ Split(Api!mtk_wd_suspend, {}, MarkWrite, Sparing({"NONRST2"}))
<1> DEFINE w == TimerWrite(FALSE)
           X == {"enable"}
           Y == {"MODE", "enable"}
           U == Sparing(Y)
           N == Sparing({"NONRST2"})
           mark == Api!Assign("NONRST2", "SUSPEND_DIS", TRUE)
<1>1. w \in Instr /\ MarkWrite \in Instr /\ U \in SUBSET Code /\ N \in SUBSET Code
  BY SleepWords, SparingParts
<1>2. Y \subseteq Core /\ {"NONRST2"} \subseteq Core /\ None \notin Y /\ "NONRST2" \notin Y
      /\ None \notin {} /\ X \subseteq Y
  BY DEF Core, None
<1>3. Bystanders \subseteq U /\ Bystanders \subseteq N
  BY <1>2, WordsFact DEF Bystanders
<1>4. /\ \A f, g \in U : f \o g \in U
      /\ \A f, g \in N : f \o g \in N
      /\ N \subseteq Code /\ U \subseteq Code
  BY SparingParts
<1>5. mark \in U
  <2>1. Read("NONRST2") \in Words(Y) /\ MarkWrite \in Words(Y)
    BY <1>2, SleepWords
  <2> QED BY <2>1, MarkShape, SparingParts
<1>6. Split(mark, {}, MarkWrite, N)
  <2>1. <<>> \in N
    BY SparingParts
  <2>2. <<MarkWrite>> \o <<>> = <<MarkWrite>>
    BY <1>1, Tuples
  <2>3. Split(<<MarkWrite>>, {}, MarkWrite, N)
    BY <1>1, <2>1, <2>2, SplitHere
  <2>4. Read("NONRST2") \in Words({})
    BY <1>2, SleepWords
  <2> QED BY <1>1, <2>3, <2>4, SplitCons, MarkShape
<1>7. ASSUME version = 1 PROVE Split(V1!mtk_wd_suspend, X, w, U)
  <2> DEFINE c == V1!mtk_wdt_mode_config(TRUE, TRUE, TRUE, FALSE, FALSE)
             k == V1!mtk_wdt_restart("NORMAL")
  <2>1. Split(c, X, w, U)
    BY <1>7, TimerConfig
  <2>2. k \in U /\ k \in Code
    BY <1>3, <1>4, Aside1
  <2> HIDE DEF c, k, w, U
  <2>3. Split(c \o k, X, w, U)
    BY <1>1, <1>4, <2>1, <2>2, SplitSuffix
  <2>4. V1!mtk_wd_suspend = c \o k
    BY DEF V1!mtk_wd_suspend, c, k
  <2> QED BY <2>3, <2>4 DEF w, U
<1>8. ASSUME version = 2, ~start.dirty
      PROVE  Split(Api!mtk_wd_suspend, X, w, U) /\ Split(Api!mtk_wd_suspend, {}, MarkWrite, N)
  <2> DEFINE c == Api!mtk_wdt_mode_config(TRUE, TRUE, TRUE, FALSE, FALSE)
             k == Api!mtk_wdt_restart
  <2>1. Split(c, X, w, U) /\ c \in Code
    BY <1>8, TimerConfig
  <2>2. k \in U /\ k \in Code /\ k \in N
    BY <1>3, <1>4, AsideTimer2
  <2>3. Api!mtk_wd_suspend = (c \o mark) \o k
    BY <1>8 DEF Api!mtk_wd_suspend, Api!If, Api!dirty
  <2>4. c \in Sparing({}) /\ mark \in Code
    BY <1>4, <1>5, <2>1, CodeSparing
  <2> HIDE DEF c, k, w, U, N, mark, X
  <2>5. Split(c \o mark, X, w, U) /\ Split(c \o mark, {}, MarkWrite, N)
    <3>1. Split(c \o mark, X, w, U)
      BY <1>1, <1>4, <1>5, <2>1, <2>4, SplitSuffix
    <3> QED BY <1>1, <1>6, <2>4, <3>1, SplitPrefix
  <2>6. Split((c \o mark) \o k, X, w, U)
    BY <1>1, <1>4, <2>2, <2>5, SplitSuffix
  <2>7. Split((c \o mark) \o k, {}, MarkWrite, N)
    BY <1>1, <1>4, <2>2, <2>5, SplitSuffix
  <2> QED BY <2>3, <2>6, <2>7 DEF w, U, N, X
<1> QED BY <1>7, <1>8

-----------------------------------------------------------------------------
(* Going to sleep.                                                          *)

\* Suspend and resume run alone, a suspend turns the timer off and marks it,
\* and nothing turns it on before the resume.
Alone == suspended \/ run[Pm] # <<>> => \A q \in Callers : run[q] = <<>>
TimerGoesOff ==
  \/ Split(run[Pm], {"enable"}, TimerWrite(FALSE), Sparing({"MODE", "enable"}))
  \/ run[Pm] \in Sparing({"MODE", "enable"}) /\ "ENABLE" \notin regs["MODE"]
GetsMarked ==
  \/ Split(run[Pm], {}, MarkWrite, Sparing({"NONRST2"}))
  \/ run[Pm] \in Sparing({"NONRST2"}) /\ "SUSPEND_DIS" \in regs["NONRST2"]
SleepInv ==
  /\ SspmEnds /\ Alone
  /\ Calm /\ suspended /\ (version = 1 \/ ~start.dirty) => TimerGoesOff
  /\ Calm /\ suspended /\ version = 2 /\ ~start.dirty => GetsMarked

LEMMA AloneKeeps ==
  ASSUME IInv, Alone, NEW p \in Procs, Step(p) \/ \E o : Called(p, o)
  PROVE  Alone'
<1>1. ASSUME Step(p)
      PROVE  Alone'
  <2>1. /\ run[p] # <<>> /\ UNCHANGED suspended
        /\ \A q \in Procs \ {p} : run'[q] = run[q]
    BY <1>1, StepFact DEF Follows
  <2>2. CASE p \in Callers
    <3>1. ~suspended /\ run[Pm] = <<>>
      BY <2>1, <2>2 DEF Alone
    <3>2. run'[Pm] = run[Pm]
      BY <2>1, <2>2, ProcAssumption DEF Procs
    <3> QED BY <2>1, <3>1, <3>2 DEF Alone
  <2>3. CASE p = Sspm
    <3>1. run'[Pm] = run[Pm] /\ \A q \in Callers : run'[q] = run[q]
      BY <2>1, <2>3, ProcAssumption DEF Procs
    <3> QED BY <2>1, <3>1 DEF Alone
  <2>4. CASE p = Pm
    <3>1. \A q \in Callers : run'[q] = run[q]
      BY <2>1, <2>4, ProcAssumption DEF Procs
    <3> QED BY <2>1, <2>4, <3>1 DEF Alone
  <2> QED BY <2>2, <2>3, <2>4 DEF Procs
<1>2. ASSUME NEW o, Called(p, o)
      PROVE  Alone'
  <2>1. CASE p \in Callers
    <3>1. run[Pm] = <<>> /\ ~suspended
      BY <1>2, <2>1 DEF Called, MayCall, Idle
    <3>2. run'[Pm] = run[Pm] /\ suspended' = suspended
      BY <1>2, <2>1, ProcAssumption DEF Called, Procs
    <3> QED BY <3>1, <3>2 DEF Alone
  <2>2. CASE p = Sspm
    <3>1. run'[Pm] = run[Pm] /\ suspended' = suspended /\ \A q \in Callers : run'[q] = run[q]
      BY <1>2, <2>2, ProcAssumption DEF Called, Procs
    <3> QED BY <3>1 DEF Alone
  <2>3. CASE p = Pm
    <3>1. \A q \in Callers : run[q] = <<>>
      BY <1>2, <2>3 DEF Called, MayCall, Idle
    <3>2. \A q \in Callers : run'[q] = run[q]
      BY <1>2, <2>3, ProcAssumption DEF Called, Procs
    <3> QED BY <3>1, <3>2 DEF Alone
  <2> QED BY <2>1, <2>2, <2>3 DEF Procs
<1> QED BY <1>1, <1>2

LEMMA SleepCall ==
  ASSUME IInv, SleepInv, NEW p \in Procs, NEW o, Called(p, o)
  PROVE  SleepInv'
<1>1. SspmEnds' /\ (Calm' => Calm /\ p # Sspm) /\ Alone'
  BY SspmEndsCall, AloneKeeps DEF SleepInv
<1>2. start' = start /\ regs' = regs
  BY DEF Called
<1>3. ASSUME Calm', suspended'
      PROVE  p = Pm /\ run'[Pm] = Program(o) /\ o[1] = "suspend"
  <2>1. p = Pm \/ (suspended /\ p \in Callers)
    BY <1>1, <1>3 DEF Called, Procs
  <2>2. p \in Callers => ~suspended
    BY DEF Called, MayCall
  <2> QED BY <1>3, <2>1, <2>2 DEF Called
<1>4. ASSUME Calm', suspended', version = 1
      PROVE  TimerGoesOff'
  <2>1. run'[Pm] = V1!mtk_wd_suspend
    BY <1>3, <1>4, Plain1 DEF Program
  <2>2. Split(run'[Pm], {"enable"}, TimerWrite(FALSE), Sparing({"MODE", "enable"}))
    BY <1>4, <2>1, SuspendShape
  <2>3. TimerWrite(FALSE)' = TimerWrite(FALSE)
    BY <1>2 DEF TimerWrite, version
  <2> QED BY <2>2, <2>3 DEF TimerGoesOff, Split
<1>5. ASSUME Calm', suspended', version = 2, ~start.dirty
      PROVE  TimerGoesOff' /\ GetsMarked'
  <2>1. run'[Pm] = Api!mtk_wd_suspend
    BY <1>3, <1>5, Plain2 DEF Program
  <2>2. /\ Split(run'[Pm], {"enable"}, TimerWrite(FALSE), Sparing({"MODE", "enable"}))
        /\ Split(run'[Pm], {}, MarkWrite, Sparing({"NONRST2"}))
    BY <1>5, <2>1, SuspendShape
  <2>3. TimerWrite(FALSE)' = TimerWrite(FALSE)
    BY <1>2 DEF TimerWrite, version
  <2> QED BY <2>2, <2>3 DEF TimerGoesOff, GetsMarked, Split
<1>6. version' = version /\ version \in {1, 2}
  BY <1>2, StartAssumption DEF version, IInv, Types
<1> QED BY <1>1, <1>2, <1>4, <1>5, <1>6 DEF SleepInv

LEMMA SleepStep ==
  ASSUME IInv, SleepInv, NEW p \in Procs, Step(p)
  PROVE  SleepInv'
<1>1. SspmEnds' /\ (Calm' => Calm /\ p # Sspm) /\ Alone'
  BY SspmEndsStep, AloneKeeps DEF SleepInv
<1>2. /\ start' = start /\ suspended' = suspended /\ run[p] # <<>> /\ IInv
  BY StepFact DEF Follows
<1>3. ASSUME Calm', suspended'
      PROVE  p = Pm /\ Calm /\ suspended
  BY <1>1, <1>2, <1>3 DEF SleepInv, Alone, Procs
<1>4. ASSUME Calm', suspended', version = 1 \/ ~start.dirty
      PROVE  TimerGoesOff'
  <2> DEFINE w == TimerWrite(FALSE)
             U == Sparing({"MODE", "enable"})
  <2>1. w \in Instr /\ w.op = "write" /\ w.reg = "MODE" /\ "ENABLE" \in w.clear /\ U \in SUBSET Code
    BY SleepWords, SparingParts
  <2>2. TimerWrite(FALSE)' = w
    BY <1>2 DEF TimerWrite, version
  <2> HIDE DEF w, U
  <2>3. p = Pm /\ (Split(run[p], {"enable"}, w, U) \/ (run[p] \in U /\ "ENABLE" \notin regs["MODE"]))
    BY <1>3, <1>4 DEF SleepInv, TimerGoesOff, w, U
  <2>4. "MODE" \in Regs
    BY RegsFact
  <2>5. CASE Split(run[p], {"enable"}, w, U)
    <3>1. (Effect(p, w) /\ run'[p] \in U) \/ Split(run'[p], {"enable"}, w, U)
      BY <2>1, <2>5, SplitSteps
    <3>2. Effect(p, w) => "ENABLE" \notin regs'["MODE"]
      BY <2>1, <2>4 DEF Effect
    <3> QED BY <2>2, <2>3, <3>1, <3>2 DEF TimerGoesOff, Split, U
  <2>6. CASE run[p] \in U /\ "ENABLE" \notin regs["MODE"]
    <3>1. run'[p] \in U /\ Spared({"MODE", "enable"})
      BY <2>6, SparingStep DEF U
    <3>2. regs'["MODE"] = regs["MODE"]
      BY <2>4, <3>1 DEF Spared
    <3> QED BY <2>3, <2>6, <3>1, <3>2 DEF TimerGoesOff, U
  <2> QED BY <2>3, <2>5, <2>6
<1>5. ASSUME Calm', suspended', version = 2, ~start.dirty
      PROVE  GetsMarked'
  <2> DEFINE N == Sparing({"NONRST2"})
  <2>1. MarkWrite \in Instr /\ MarkWrite.op = "write" /\ MarkWrite.reg = "NONRST2"
        /\ "SUSPEND_DIS" \in MarkWrite.set /\ MarkWrite.clear = {} /\ N \in SUBSET Code
    BY SleepWords, SparingParts
  <2> HIDE DEF N
  <2>2. p = Pm /\ (Split(run[p], {}, MarkWrite, N) \/ (run[p] \in N /\ "SUSPEND_DIS" \in regs["NONRST2"]))
    BY <1>3, <1>5 DEF SleepInv, GetsMarked, N
  <2>3. "NONRST2" \in Regs
    BY RegsFact
  <2>4. CASE Split(run[p], {}, MarkWrite, N)
    <3>1. (Effect(p, MarkWrite) /\ run'[p] \in N) \/ Split(run'[p], {}, MarkWrite, N)
      BY <2>1, <2>4, SplitSteps
    <3>2. Effect(p, MarkWrite) => "SUSPEND_DIS" \in regs'["NONRST2"]
      BY <2>1, <2>3 DEF Effect
    <3> QED BY <2>2, <3>1, <3>2 DEF GetsMarked, Split, N
  <2>5. CASE run[p] \in N /\ "SUSPEND_DIS" \in regs["NONRST2"]
    <3>1. run'[p] \in N /\ Spared({"NONRST2"})
      BY <2>5, SparingStep DEF N
    <3>2. regs'["NONRST2"] = regs["NONRST2"]
      BY <2>3, <3>1 DEF Spared
    <3> QED BY <2>2, <2>5, <3>1, <3>2 DEF GetsMarked, N
  <2> QED BY <2>2, <2>4, <2>5
<1>6. version' = version
  BY <1>2 DEF version
<1> QED BY <1>1, <1>2, <1>4, <1>5, <1>6 DEF SleepInv

LEMMA Sleeping == Spec => [](IInv /\ SleepInv)
<1>1. Init => SleepInv
  BY DEF Init, SleepInv, SspmEnds, Alone, Procs
<1>2. IInv /\ SleepInv /\ [Next]_vars => SleepInv'
  <2> SUFFICES ASSUME IInv, SleepInv, [Next]_vars PROVE SleepInv'
    OBVIOUS
  <2>1. CASE UNCHANGED vars
    BY <2>1 DEF vars, SleepInv, SspmEnds, Alone, Calm, TimerGoesOff, GetsMarked, TimerWrite, version,
                Split
  <2>2. ASSUME NEW p \in Procs, Call(p) PROVE SleepInv'
    BY <2>2, CallFact, SleepCall
  <2>3. ASSUME NEW p \in Procs, Step(p) PROVE SleepInv'
    BY <2>3, SleepStep
  <2> QED BY <2>1, <2>2, <2>3 DEF Next
<1> QED BY <1>1, <1>2, Invariant, PTL DEF Spec

\* While the system sleeps the timer is off, and in version 2 NONRST_REG2 says
\* that the suspend did it: no caller that mtk_wd_suspend() found at work, no
\* interrupt and no resume lets it come on again.
THEOREM RguSuspendMarked == Spec => []SuspendIsMarked
<1>1. IInv /\ SleepInv => SuspendIsMarked
  <2> SUFFICES ASSUME IInv, SleepInv, Quiet, suspended, ~start.dirty
               PROVE  "ENABLE" \notin regs["MODE"]
                      /\ (version = 2 => "SUSPEND_DIS" \in regs["NONRST2"])
    BY DEF SuspendIsMarked
  <2>1. Calm /\ run[Pm] = <<>>
    BY DEF Quiet, Idle, Calm, Procs
  <2>2. TimerGoesOff /\ (version = 2 => GetsMarked)
    BY <2>1 DEF SleepInv
  <2>3. TimerWrite(FALSE) \in Instr /\ MarkWrite \in Instr
        /\ Sparing({"MODE", "enable"}) \in SUBSET Code /\ Sparing({"NONRST2"}) \in SUBSET Code
    BY SleepWords, SparingParts
  <2>4. /\ ~Split(run[Pm], {"enable"}, TimerWrite(FALSE), Sparing({"MODE", "enable"}))
        /\ ~Split(run[Pm], {}, MarkWrite, Sparing({"NONRST2"}))
    BY <2>1, <2>3, SplitNonEmpty
  <2> QED BY <2>2, <2>4 DEF TimerGoesOff, GetsMarked
<1> QED BY <1>1, Sleeping, PTL

-----------------------------------------------------------------------------
(* The power key.                                                           *)

\* The words that do not withdraw BYPASS_PWR_KEY from a program that has read
\* it, and the programs that read NONRST_REG2 before they write it.
KeepWords ==
  {i \in Simple : /\ i.op = "put" => i.reg # "NONRST2"
                  /\ i.op = "write" /\ i.reg = "NONRST2" => "BYPASS_PWR_KEY" \notin i.clear}
Keeping == Prog(KeepWords)
Keyed(c) ==
  /\ c \in Keeping
  /\ c \in Sparing({"NONRST2"}) \/ Split(c, {"NONRST2"}, Read("NONRST2"), Keeping)

LEMMA KeepFact ==
  /\ KeepWords \in SUBSET Simple /\ Keeping \in SUBSET Code
  /\ Words({"NONRST2"}) \subseteq KeepWords /\ Sparing({"NONRST2"}) \subseteq Keeping
  /\ \A f, g \in Keeping : f \o g \in Keeping
  /\ \A i \in KeepWords : <<i>> \in Keeping
  /\ \A i, j \in KeepWords : <<i, j>> \in Keeping
  /\ \A i, j, k \in KeepWords : <<i, j, k>> \in Keeping
  /\ \A a \in SUBSET AllFlags, b \in SUBSET AllFlags :
        "BYPASS_PWR_KEY" \notin b => Write("NONRST2", a, b) \in KeepWords
  /\ Read("NONRST2") \in Instr /\ Read("NONRST2").op = "read" /\ Read("NONRST2").reg = "NONRST2"
  /\ Read("NONRST2") \in KeepWords
<1>1. KeepWords \in SUBSET Simple
  BY DEF KeepWords
<1>2. Words({"NONRST2"}) \subseteq KeepWords
  BY DEF Words, Target, KeepWords
<1>3. Sparing({"NONRST2"}) \subseteq Keeping
  BY <1>2, ProgMono DEF Sparing, Keeping
<1>4. Keeping \in SUBSET Code
  BY <1>1, OverFact DEF Keeping
<1>5. /\ \A f, g \in Keeping : f \o g \in Keeping
      /\ \A i \in KeepWords : <<i>> \in Keeping
      /\ \A i, j \in KeepWords : <<i, j>> \in Keeping
      /\ \A i, j, k \in KeepWords : <<i, j, k>> \in Keeping
  BY <1>1, ProgParts DEF Keeping
<1>6. ASSUME NEW a \in SUBSET AllFlags, NEW b \in SUBSET AllFlags, "BYPASS_PWR_KEY" \notin b
      PROVE  Write("NONRST2", a, b) \in KeepWords
  <2>1. Write("NONRST2", a, b) \in Simple
    BY RegsFact DEF Simple, Writes
  <2>2. Write("NONRST2", a, b).op = "write" /\ Write("NONRST2", a, b).clear = b
    BY DEF Write
  <2> QED BY <1>6, <2>1, <2>2 DEF KeepWords
<1>7. Read("NONRST2") \in Instr /\ Read("NONRST2").op = "read" /\ Read("NONRST2").reg = "NONRST2"
  BY ResetWords DEF Read
<1>8. Read("NONRST2") \in KeepWords
  <2>1. None \notin {"NONRST2"}
    BY DEF None
  <2> QED BY <1>2, <2>1, ResetWords
<1> QED BY <1>1, <1>2, <1>3, <1>4, <1>5, <1>6, <1>7, <1>8

LEMMA KeyedRead ==
  ASSUME NEW c \in Keeping
  PROVE  Keyed(<<Read("NONRST2")>> \o c)
<1>1. Split(<<Read("NONRST2")>> \o c, {"NONRST2"}, Read("NONRST2"), Keeping)
  BY KeepFact, SplitHere
<1>2. <<Read("NONRST2")>> \o c \in Keeping
  BY KeepFact
<1> QED BY <1>1, <1>2 DEF Keyed

LEMMA KeyedSpares ==
  ASSUME NEW c \in Sparing({"NONRST2"})
  PROVE  Keyed(c)
BY KeepFact DEF Keyed

LEMMA KeyedSeq ==
  ASSUME NEW f, NEW g, Keyed(f), Keyed(g)
  PROVE  Keyed(f \o g)
<1> DEFINE X == {"NONRST2"}
           r == Read("NONRST2")
<1>1. f \in Keeping /\ g \in Keeping /\ f \o g \in Keeping /\ r \in Instr /\ Keeping \in SUBSET Code
      /\ g \in Code
  BY KeepFact DEF Keyed
<1> HIDE DEF r, X
<1>2. CASE Split(f, X, r, Keeping)
  <2>1. \A h \in Keeping : h \o g \in Keeping
    BY <1>1, KeepFact
  <2>2. Split(f \o g, X, r, Keeping)
    BY <1>1, <1>2, <2>1, SplitSuffix
  <2> QED BY <1>1, <2>2 DEF Keyed, X, r
<1>3. CASE f \in Sparing(X) /\ Split(g, X, r, Keeping)
  <2>1. Split(f \o g, X, r, Keeping)
    BY <1>1, <1>3, SplitPrefix
  <2> QED BY <1>1, <2>1 DEF Keyed, X, r
<1>4. CASE f \in Sparing(X) /\ g \in Sparing(X)
  <2>1. f \o g \in Sparing(X)
    BY <1>4, SparingParts
  <2> QED BY <1>1, <2>1 DEF Keyed, X, r
<1> QED BY <1>2, <1>3, <1>4 DEF Keyed, X, r

LEMMA KeyedBystanders == \A c \in Bystanders : Keyed(c)
<1>1. {"NONRST2"} \subseteq Core
  BY DEF Core
<1>2. Bystanders \subseteq Sparing({"NONRST2"})
  BY <1>1, WordsFact DEF Bystanders
<1> QED BY <1>2, KeyedSpares

\* mtk_wdt_mode_config() and its variant without the lock.
LEMMA KeyedConfigs ==
  ASSUME NEW d \in BOOLEAN, NEW i \in BOOLEAN, NEW e \in BOOLEAN, NEW q \in BOOLEAN,
         NEW en \in BOOLEAN
  PROVE  /\ Keyed(Api!mtk_wdt_mode_config(d, i, e, q, en))
         /\ Keyed(Api!mtk_wdt_mode_config_nolock(d, i, e, q, en))
<1> DEFINE m == Api!ModeFor(d, i, e, q, en)
           c == Api!ModeFlags \ m
           f == Api!ModeBody(d, i, e, q, en)
<1>1. m \in SUBSET RegFlags["MODE"] /\ Api!ModeFlags \in SUBSET RegFlags["MODE"]
  BY RegFlagsFact DEF Api!ModeFor, Api!Flag, Api!ModeFlags
<1>2. f = <<Read("MODE"), BypassOn, Write("MODE", m, c)>>
  BY Words2 DEF Api!ModeBody, BypassOn
<1>3. /\ Api!mtk_wdt_mode_config(d, i, e, q, en) = <<Read("NONRST2")>> \o Api!Locked(f)
      /\ Api!mtk_wdt_mode_config_nolock(d, i, e, q, en) = <<Read("NONRST2")>> \o f
  BY Words2 DEF Api!mtk_wdt_mode_config, Api!mtk_wdt_mode_config_nolock
<1> HIDE DEF m, f
<1>4. m \in SUBSET AllFlags /\ c \in SUBSET AllFlags
  BY <1>1, MoreFlags, RegsFact
<1> HIDE DEF c
<1>5. None \notin {"NONRST2"} /\ "MODE" \in Regs \ {"NONRST2"} /\ "rgu" \in Locks
  BY RegsFact DEF None, Locks
<1>6. {"BYPASS_PWR_KEY"} \in SUBSET AllFlags /\ {} \in SUBSET AllFlags
  BY RegFlagsFact, FlagsFact, RegsFact
<1>7. Read("MODE") \in KeepWords /\ BypassOn \in KeepWords /\ Write("MODE", m, c) \in KeepWords
      /\ Lock("rgu") \in KeepWords /\ Unlock("rgu") \in KeepWords
  BY <1>4, <1>5, <1>6, KeepFact, SparingWord DEF BypassOn
<1>8. f \in Keeping
  BY <1>2, <1>7, KeepFact
<1>9. Api!Locked(f) = <<Lock("rgu")>> \o f \o <<Unlock("rgu")>>
  BY Words2 DEF Api!Locked
<1>10. Api!Locked(f) \in Keeping
  BY <1>7, <1>8, <1>9, KeepFact
<1> QED BY <1>3, <1>8, <1>10, KeyedRead

LEMMA KeyedAssign ==
  /\ \A f \in RegFlags["NONRST2"] : Keyed(Api!Assign("NONRST2", f, TRUE))
  /\ \A f \in RegFlags["NONRST2"] \ {"BYPASS_PWR_KEY"} : Keyed(Api!Assign("NONRST2", f, FALSE))
  /\ \A f \in RegFlags["MODE"], on \in BOOLEAN : Keyed(Api!Assign("MODE", f, on))
<1>1. ASSUME NEW a \in SUBSET AllFlags, NEW b \in SUBSET AllFlags, "BYPASS_PWR_KEY" \notin b
      PROVE  Keyed(Rmw("NONRST2", a, b))
  <2>1. Write("NONRST2", a, b) \in KeepWords /\ Write("NONRST2", a, b) \in Instr
        /\ Read("NONRST2") \in Instr
    BY <1>1, KeepFact, WordFact, RegsFact
  <2>2. <<Read("NONRST2"), Write("NONRST2", a, b)>>
          = <<Read("NONRST2")>> \o <<Write("NONRST2", a, b)>>
    BY <2>1, Tuples
  <2> QED BY <2>1, <2>2, KeepFact, KeyedRead DEF Rmw
<1>2. ASSUME NEW f \in RegFlags["NONRST2"]
      PROVE  {f} \in SUBSET AllFlags /\ {} \in SUBSET AllFlags
  BY FlagsFact, RegsFact
<1>3. \A f : Api!Assign("NONRST2", f, TRUE) = Rmw("NONRST2", {f}, {})
             /\ Api!Assign("NONRST2", f, FALSE) = Rmw("NONRST2", {}, {f})
  BY Words2 DEF Api!Assign
<1>4. ASSUME NEW f \in RegFlags["MODE"], NEW on \in BOOLEAN
      PROVE  Keyed(Api!Assign("MODE", f, on))
  <2>1. f \in AllFlags /\ "MODE" \in Regs \ {"NONRST2"} /\ None \notin {"NONRST2"}
    BY FlagsFact, RegsFact DEF None
  <2>2. Api!Assign("MODE", f, on) \in Sparing({"NONRST2"})
    BY <2>1, SparingAssign
  <2> QED BY <2>2, KeyedSpares
<1>5. ASSUME NEW f \in RegFlags["NONRST2"] PROVE Keyed(Api!Assign("NONRST2", f, TRUE))
  BY <1>1, <1>2, <1>3
<1>6. ASSUME NEW f \in RegFlags["NONRST2"] \ {"BYPASS_PWR_KEY"}
      PROVE  Keyed(Api!Assign("NONRST2", f, FALSE))
  BY <1>1, <1>2, <1>3
<1> QED BY <1>4, <1>5, <1>6

\* A reset that bypasses the key.
LEMMA KeyedReset ==
  ASSUME NEW keep
  PROVE  Keyed(Api!wdt_arch_reset(TRUE, keep))
<1> DEFINE m == <<ResetMode>> \o ResetTail(keep)
           k == <<ResetKey(TRUE)>> \o m
           r == <<Read("MODE")>> \o k
           o == <<Read("NONRST2")>> \o r
           n == <<PmicPreReset>> \o o
           X == {"NONRST2"}
<1>1. None \notin X /\ "MODE" \notin X /\ "reset" \notin X /\ X \subseteq {"NONRST2", "enable", "reset"}
  BY DEF None
<1>2. {ResetMode, SwReset, Kick, PmicPreReset, Read("MODE")} \subseteq Words(X)
  BY <1>1, ResetWords, SparingWord
<1>3. ResetRest(keep) \in Sparing(X)
  BY <1>1, ResetTails, WordsFact
<1>4. ResetTail(keep) \in Sparing(X)
  BY <1>2, <1>3, SparingParts DEF ResetTail
<1>5. m \in Sparing(X)
  BY <1>2, <1>4, SparingParts
<1>6. ResetKey(TRUE) \in KeepWords
  <2>1. ResetKey(TRUE) = Write("NONRST2", {"BYPASS_PWR_KEY"}, {})
    BY DEF ResetKey, Flag
  <2>2. {"BYPASS_PWR_KEY"} \in SUBSET AllFlags /\ {} \in SUBSET AllFlags
    BY RegFlagsFact, FlagsFact, RegsFact
  <2> QED BY <2>1, <2>2, KeepFact
<1> HIDE DEF m
<1>7. k \in Keeping
  BY <1>5, <1>6, KeepFact
<1> HIDE DEF k
<1>8. r \in Keeping
  BY <1>2, <1>7, KeepFact
<1> HIDE DEF r
<1>9. Keyed(n) /\ Keyed(<<Kick>>)
  <2>1. Keyed(o) /\ Keyed(<<PmicPreReset>>) /\ Keyed(<<Kick>>)
    BY <1>2, <1>8, KeyedRead, KeyedSpares, SparingParts
  <2> HIDE DEF o
  <2> QED BY <2>1, KeyedSeq
<1> HIDE DEF n
<1>10. Keyed(<<Kick>> \o n)
  BY <1>9, KeyedSeq
<1>11. Api!wdt_arch_reset(TRUE, keep) = <<Kick>> \o n
  BY ResetShape DEF n, o, r, k, m
<1> QED BY <1>10, <1>11

\* mtk_wdt_enable() stores the driver's variable and writes MODE, under the lock.
EnableWrite(en) == Write("MODE", Flag(en, "ENABLE"), Flag(~en, "ENABLE"))
EnableCore(en) == <<Read("MODE"), SetEnable(en), EnableWrite(en)>>

LEMMA EnableWords ==
  ASSUME NEW en \in BOOLEAN
  PROVE  /\ EnableWrite(en) \in Instr /\ SetEnable(en) \in Instr
         /\ \A X : None \notin X =>
              /\ "MODE" \notin X => EnableWrite(en) \in Words(X)
              /\ "enable" \notin X => SetEnable(en) \in Words(X)
              /\ "MODE" \notin X /\ "enable" \notin X => EnableCore(en) \in Sparing(X)
         /\ EnableWrite(en).op = "write" /\ EnableWrite(en).reg = "MODE"
         /\ en => "ENABLE" \in EnableWrite(en).set /\ EnableWrite(en).clear = {}
         /\ ~en => "ENABLE" \in EnableWrite(en).clear
         /\ SetEnable(en).op = "enable" /\ SetEnable(en).val = en
<1>1. PICK s, c : s = Flag(en, "ENABLE") /\ c = Flag(~en, "ENABLE")
  OBVIOUS
<1>2. EnableWrite(en) = Write("MODE", s, c)
  BY <1>1 DEF EnableWrite
<1>3. /\ s \in SUBSET RegFlags["MODE"] /\ c \in SUBSET RegFlags["MODE"]
      /\ en => "ENABLE" \in s /\ c = {}
      /\ ~en => "ENABLE" \in c
  BY <1>1, RegFlagsFact DEF Flag
<1>4. s \in SUBSET AllFlags /\ c \in SUBSET AllFlags /\ "MODE" \in Regs
  BY <1>3, FlagsFact, RegsFact
<1>5. EnableWrite(en) \in Instr
  BY <1>2, <1>4, WordFact
<1>6. SetEnable(en) \in Instr
  BY DEF Instr, Simple, Others
<1>7. ASSUME NEW X, None \notin X
      PROVE  /\ "MODE" \notin X => EnableWrite(en) \in Words(X)
             /\ "enable" \notin X => SetEnable(en) \in Words(X)
             /\ "MODE" \notin X /\ "enable" \notin X => EnableCore(en) \in Sparing(X)
  <2>1. /\ "MODE" \notin X => EnableWrite(en) \in Words(X)
        /\ "enable" \notin X => SetEnable(en) \in Words(X)
        /\ Read("MODE") \in Words(X)
    BY <1>2, <1>4, <1>7, SparingWord
  <2> QED BY <2>1, SparingParts DEF EnableCore
<1>8. /\ EnableWrite(en).op = "write" /\ EnableWrite(en).reg = "MODE"
      /\ en => "ENABLE" \in EnableWrite(en).set /\ EnableWrite(en).clear = {}
      /\ ~en => "ENABLE" \in EnableWrite(en).clear
  BY <1>2, <1>3 DEF Write
<1>9. SetEnable(en).op = "enable" /\ SetEnable(en).val = en
  BY DEF SetEnable
<1> QED BY <1>5, <1>6, <1>7, <1>8, <1>9

LEMMA EnableShape ==
  ASSUME NEW en \in BOOLEAN
  PROVE  /\ V1!mtk_wdt_enable(en) = V1!Locked(EnableCore(en))
         /\ Api!mtk_wdt_enable(en) = Api!If(start.doe, Api!Locked(EnableCore(en)))
<1>1. V1!mtk_wdt_enable(en) = V1!Locked(EnableCore(en))
  BY Words1 DEF V1!mtk_wdt_enable, EnableCore, EnableWrite, V1!Flag, Flag
<1>2. Api!mtk_wdt_enable(en) = Api!If(start.doe, Api!Locked(EnableCore(en)))
  BY Words2 DEF Api!mtk_wdt_enable, EnableCore, EnableWrite, Api!Flag, Flag, Api!doe
<1> QED BY <1>1, <1>2

\* The restart handler: the note for the boot loader, the DFD and the reset.
ArchDfd(cmd) == Api!If(cmd # "ddr-reserve", Api!mtk_wdt_dfd_count_en(FALSE))
ArchRest(cmd) == ArchDfd(cmd) \o Api!wdt_arch_reset(BypassKey(cmd), cmd = "ddr-reserve")
ArchMark(cmd) == Api!If(cmd \in Api!RegFlags.RTC, <<Put("RTC", {cmd})>>)

LEMMA ArchShape ==
  ASSUME NEW cmd
  PROVE  /\ Api!arch_reset(cmd) = ArchMark(cmd) \o Api!If(cmd # "dm-verity unmarked", ArchRest(cmd))
         /\ ArchMark(cmd) \in Bystanders /\ ArchDfd(cmd) \in Bystanders
<1>1. Api!BypassKey(cmd) = BypassKey(cmd)
  BY DEF Api!BypassKey, BypassKey, Api!KeyCommands, KeyCommands
<1>2. Api!arch_reset(cmd) = ArchMark(cmd) \o Api!If(cmd # "dm-verity unmarked",
         ArchDfd(cmd) \o Api!wdt_arch_reset(Api!BypassKey(cmd), cmd = "ddr-reserve"))
  BY Words2, Zenon DEF Api!arch_reset, ArchMark, ArchDfd
<1>3. ArchMark(cmd) \in Bystanders
  <2>1. CASE cmd \in Api!RegFlags.RTC
    <3>1. cmd \in RegFlags["RTC"]
      BY <2>1 DEF Api!RegFlags, RegFlags
    <3>2. {cmd} \in SUBSET AllFlags
      BY <3>1, FlagsFact, RegsFact
    <3>3. <<Put("RTC", {cmd})>> \in Bystanders
      BY <3>2, CoreFact, SparingWord, SparingParts DEF Bystanders
    <3> QED BY <2>1, <3>3 DEF ArchMark, Api!If
  <2>2. CASE cmd \notin Api!RegFlags.RTC
    BY <2>2, SparingParts DEF ArchMark, Api!If, Bystanders
  <2> QED BY <2>1, <2>2
<1>4. ArchDfd(cmd) \in Bystanders
  BY AsideControls2, SparingIf DEF ArchDfd, Bystanders
<1> QED BY <1>1, <1>2, <1>3, <1>4, Zenon DEF ArchRest

LEMMA KeyedArch ==
  ASSUME NEW cmd, cmd \notin KeyCommands
  PROVE  Keyed(Api!arch_reset(cmd))
<1>1. PICK b \in BOOLEAN, k \in BOOLEAN : b = BypassKey(cmd) /\ k = (cmd = "ddr-reserve")
  <2>1. BypassKey(cmd) \in BOOLEAN
    BY DEF BypassKey
  <2> QED BY <2>1
<1>2. b = TRUE
  BY <1>1 DEF BypassKey
<1>3. ArchRest(cmd) = ArchDfd(cmd) \o Api!wdt_arch_reset(TRUE, k)
  BY <1>1, <1>2, Zenon DEF ArchRest
<1>4. Keyed(ArchDfd(cmd)) /\ Keyed(ArchMark(cmd)) /\ Keyed(Api!wdt_arch_reset(TRUE, k))
      /\ Keyed(<<>>)
  BY ArchShape, KeyedBystanders, KeyedReset, SparingParts DEF Bystanders
<1>5. Keyed(ArchRest(cmd))
  BY <1>3, <1>4, KeyedSeq
<1>6. Keyed(Api!If(cmd # "dm-verity unmarked", ArchRest(cmd)))
  BY <1>4, <1>5 DEF Api!If
<1> QED BY <1>4, <1>6, ArchShape, KeyedSeq

\* The arguments of the operations of version 2 that reach MODE or NONRST_REG2.
LEMMA Arguments2 ==
  ASSUME NEW o \in Api!Ops
  PROVE  /\ o[1] \in {"enable", "dram", "dram_mode"} => \E n : \E b \in BOOLEAN : o = <<n, b>>
         /\ o[1] = "sw_reset" => \E n : \E b, k \in BOOLEAN : o = <<n, b, k>>
         /\ o[1] = "arch_reset" => \E n, c : o = <<n, c>>
<1> DEFINE Switches == {"enable", "dram", "dram_mode", "cache", "emi_dcs", "dfd", "dfd_thermal1",
                        "dfd_thermal2", "dfd_timeout"}
           Sources == {"spmwdt", "thermal", "thermal_direct", "eint", "sysrst"}
<1>1. CASE o \in {<<"config">>, <<"set_mode">>, <<"confirm">>, <<"restart">>, <<"dvfsrc">>}
  <2>1. o[1] \in {"config", "set_mode", "confirm", "restart", "dvfsrc"}
    BY <1>1
  <2> QED BY <2>1
<1>2. CASE o \in Switches \X BOOLEAN
  <2>1. PICK n \in Switches, b \in BOOLEAN : o = <<n, b>>
    BY <1>2
  <2>2. o[1] = n
    BY <2>1
  <2>3. o[1] \notin {"sw_reset", "arch_reset"}
    BY <2>2
  <2> QED BY <2>1, <2>3, Zenon
<1>3. CASE o \in Sources \X Api!Ask \X Api!Answer
  <2>1. PICK n \in Sources, e \in Api!Ask, m \in Api!Answer : o = <<n, e, m>>
    BY <1>3
  <2>2. o[1] \in Sources
    BY <2>1
  <2> QED BY <2>2
<1>4. CASE o \in {"swsys"} \X Api!Names \X BOOLEAN
  <2>1. PICK m \in Api!Names, b \in BOOLEAN : o = <<"swsys", m, b>>
    BY <1>4
  <2>2. o[1] = "swsys"
    BY <2>1
  <2> QED BY <2>2
<1>5. CASE o \in {"c2k"} \X BOOLEAN \X SwsysFlags
  <2>1. PICK b \in BOOLEAN, bit \in SwsysFlags : o = <<"c2k", b, bit>>
    BY <1>5
  <2>2. o[1] = "c2k"
    BY <2>1
  <2> QED BY <2>2
<1>6. CASE o \in {"sw_reset"} \X BOOLEAN \X BOOLEAN
  <2>1. PICK b \in BOOLEAN, k \in BOOLEAN : o = <<"sw_reset", b, k>>
    BY <1>6
  <2>2. o[1] = "sw_reset"
    BY <2>1
  <2> QED BY <2>1, <2>2, Zenon
<1>7. CASE o \in {"arch_reset"} \X Api!Names
  <2>1. PICK c \in Api!Names : o = <<"arch_reset", c>>
    BY <1>7
  <2>2. o[1] = "arch_reset"
    BY <2>1
  <2> QED BY <2>1, <2>2, Zenon
<1>8. \/ o \in {<<"config">>, <<"set_mode">>, <<"confirm">>, <<"restart">>, <<"dvfsrc">>}
      \/ o \in Switches \X BOOLEAN \/ o \in Sources \X Api!Ask \X Api!Answer
      \/ o \in {"swsys"} \X Api!Names \X BOOLEAN \/ o \in {"c2k"} \X BOOLEAN \X SwsysFlags
      \/ o \in {"sw_reset"} \X BOOLEAN \X BOOLEAN \/ o \in {"arch_reset"} \X Api!Names
  BY Zenon DEF Api!Ops, Api!SwsysFlags, SwsysFlags
<1> QED BY <1>1, <1>2, <1>3, <1>4, <1>5, <1>6, <1>7, <1>8, Zenon

LEMMA KeyedProgram ==
  ASSUME NEW o \in Api!Ops, o[1] = "sw_reset" => o[2] = TRUE, o[1] = "arch_reset" => o[2] \notin KeyCommands
  PROVE  Keyed(Api!Program(o))
<1>1. CASE o[1] \notin Stirring2
  BY <1>1, Aside2Program, KeyedBystanders
<1>2. CASE o[1] = "config"
  <2>1. "CONFIG" \in RegFlags["LENGTH"]
    BY RegFlagsFact
  <2>2. Keyed(Api!wd_config)
    BY <2>1, KeyedConfigs, KeyedSeq, KeyedBystanders, AsideTimer2 DEF Api!wd_config
  <2> QED BY <1>2, <2>2, Plain2
<1>3. CASE o[1] = "set_mode" \/ o[1] = "confirm"
  <2>1. Keyed(Api!set_mode) /\ Keyed(Api!mtk_wdt_confirm_hwreboot)
    BY KeyedConfigs DEF Api!set_mode, Api!mtk_wdt_confirm_hwreboot
  <2> QED BY <1>3, <2>1, Plain2
<1>4. CASE o[1] \in {"enable", "dram", "dram_mode"}
  <2>1. \E n : \E b \in BOOLEAN : o = <<n, b>>
    BY <1>4, Arguments2, Zenon
  <2>2. PICK n : \E b \in BOOLEAN : o = <<n, b>>
    BY <2>1
  <2>3. PICK b \in BOOLEAN : o = <<n, b>>
    BY <2>2
  <2>4. /\ n = "enable" => Api!Program(o) = Api!mtk_wdt_enable(b)
        /\ n = "dram" => Api!Program(o) = Api!mtk_rgu_dram_reserved(b)
        /\ n = "dram_mode" => Api!Program(o) = Api!wd_dram_reserved_mode(b)
    BY <2>3 DEF Api!Program
  <2>5. Keyed(Api!mtk_rgu_dram_reserved(b))
    BY KeyedAssign, RegFlagsFact DEF Api!mtk_rgu_dram_reserved
  <2>6. Keyed(Api!wd_dram_reserved_mode(b))
    BY <2>5, AsideSwsys2, KeyedBystanders, KeyedSeq DEF Api!wd_dram_reserved_mode
  <2>7. Keyed(Api!mtk_wdt_enable(b))
    <3> DEFINE X == {"NONRST2"}
    <3>1. None \notin X /\ "MODE" \notin X /\ "enable" \notin X
      BY DEF None
    <3>2. EnableCore(b) \in Sparing(X)
      BY <3>1, EnableWords
    <3>3. Api!Locked(EnableCore(b)) \in Sparing(X)
      BY <3>1, <3>2, SparingLocked
    <3>4. Api!If(start.doe, Api!Locked(EnableCore(b))) \in Sparing(X)
      BY <3>3, SparingIf
    <3> QED BY <3>4, EnableShape, KeyedSpares
  <2>8. n = o[1]
    BY <2>3
  <2> QED BY <1>4, <2>4, <2>5, <2>6, <2>7, <2>8
<1>5. CASE o[1] = "sw_reset"
  <2>1. \E n : \E b, k \in BOOLEAN : o = <<n, b, k>>
    BY <1>5, Arguments2, Zenon
  <2>2. PICK n : \E b, k \in BOOLEAN : o = <<n, b, k>>
    BY <2>1
  <2>3. PICK b \in BOOLEAN, k \in BOOLEAN : o = <<n, b, k>>
    BY <2>2
  <2>4. Api!Program(o) = Api!wdt_arch_reset(b, k)
    BY <1>5, <2>3 DEF Api!Program
  <2>5. b = TRUE
    BY <1>5, <2>3
  <2> QED BY <2>4, <2>5, KeyedReset
<1>6. CASE o[1] = "arch_reset"
  <2>1. \E n, c : o = <<n, c>>
    BY <1>6, Arguments2, Zenon
  <2>2. PICK n, c : o = <<n, c>>
    BY <2>1
  <2>3. Api!Program(o) = Api!arch_reset(c)
    BY <1>6, <2>2 DEF Api!Program
  <2> QED BY <1>6, <2>2, <2>3, KeyedArch
<1> QED BY <1>1, <1>2, <1>3, <1>4, <1>5, <1>6 DEF Stirring2

LEMMA KeyedSleep ==
  Keyed(Api!mtk_wd_suspend) /\ Keyed(Api!mtk_wd_resume) /\ Keyed(Api!mtk_wdt_sspm_isr)
<1> DEFINE Off == Api!mtk_wdt_mode_config(TRUE, TRUE, TRUE, FALSE, FALSE)
           On == Api!mtk_wdt_mode_config(TRUE, TRUE, TRUE, FALSE, TRUE)
           Mark == Api!Assign("NONRST2", "SUSPEND_DIS", TRUE)
           Clear == Api!Assign("NONRST2", "SUSPEND_DIS", FALSE)
           Flagged == Api!Assign("NONRST2", "SSPM_RESET", TRUE)
           Length == Api!mtk_wdt_set_time_out_value("PROBE")
<1>1. /\ Api!mtk_wd_suspend = (Off \o Mark) \o Api!mtk_wdt_restart
         \/ Api!mtk_wd_suspend = <<>> \o Api!mtk_wdt_restart
      /\ \/ Api!mtk_wd_resume = <<>>
         \/ Api!mtk_wd_resume = Length \o (On \o Clear) \o Api!mtk_wdt_restart
         \/ Api!mtk_wd_resume = Length \o <<>> \o Api!mtk_wdt_restart
  BY DEF Api!mtk_wd_suspend, Api!mtk_wd_resume, Api!If
<1>2. Api!mtk_wdt_sspm_isr = Flagged \o Api!wdt_arch_reset(TRUE, FALSE)
  BY DEF Api!mtk_wdt_sspm_isr
<1>3. Keyed(Off) /\ Keyed(On)
  BY KeyedConfigs
<1>4. Keyed(Mark) /\ Keyed(Clear) /\ Keyed(Flagged)
  BY KeyedAssign, RegFlagsFact
<1>5. "PROBE" \in RegFlags["LENGTH"]
  BY RegFlagsFact
<1>6. Keyed(Length) /\ Keyed(Api!mtk_wdt_restart) /\ Keyed(<<>>)
  BY <1>5, AsideTimer2, KeyedBystanders, SparingParts DEF Bystanders
<1> HIDE DEF Off, On, Mark, Clear, Flagged, Length
<1>7. Keyed(Off \o Mark) /\ Keyed(On \o Clear) /\ Keyed(Length \o <<>>)
      /\ Keyed(<<>> \o Api!mtk_wdt_restart)
  BY <1>3, <1>4, <1>6, KeyedSeq
<1>8. Keyed((Off \o Mark) \o Api!mtk_wdt_restart) /\ Keyed(Length \o (On \o Clear))
  BY <1>6, <1>7, KeyedSeq
<1>9. Keyed(Length \o (On \o Clear) \o Api!mtk_wdt_restart)
      /\ Keyed(Length \o <<>> \o Api!mtk_wdt_restart)
  BY <1>6, <1>7, <1>8, KeyedSeq
<1>10. Keyed(Api!wdt_arch_reset(TRUE, FALSE))
  BY KeyedReset
<1>11. Keyed(Flagged \o Api!wdt_arch_reset(TRUE, FALSE))
  BY <1>4, <1>10, KeyedSeq
<1> QED BY <1>1, <1>2, <1>6, <1>7, <1>8, <1>9, <1>11

\* A caller whose program keeps the key bypassed, with the value t that it has
\* read of NONRST_REG2.
KeyHeld(c, t) ==
  /\ c \in Keeping
  /\ \/ c \in Sparing({"NONRST2"})
     \/ Split(c, {"NONRST2"}, Read("NONRST2"), Keeping)
     \/ "BYPASS_PWR_KEY" \in t

\* The machines whose kernel does not ask for a software reset that waits for
\* the power key.
KeepsKey(s) == \A p \in Procs, k \in BOOLEAN : <<"sw_reset", FALSE, k>> \notin s.ops[p]

AllHeld ==
  /\ "BYPASS_PWR_KEY" \in regs["NONRST2"]
  /\ \A p \in Procs : KeyHeld(run[p], tmp[p]["NONRST2"])
KeyInv ==
  /\ version = 1 => run[Sspm] = <<>> /\ reset # Sspm
  /\ version = 2 /\ KeepsKey(start) /\ reboot.cmd \notin KeyCommands => AllHeld

LEMMA HeldStep ==
  ASSUME IInv, AllHeld, NEW p \in Procs, Step(p)
  PROVE  AllHeld'
<1> DEFINE i == Next1(p)
           t == tmp[p]["NONRST2"]
           N == {"NONRST2"}
           r == Read("NONRST2")
<1>1. /\ i \in Instr /\ Effect(p, i)
      /\ Follows(run[p], run'[p])
      /\ \A q \in Procs \ {p} : run'[q] = run[q] /\ tmp'[q] = tmp[q]
      /\ i.op = "read" => \A g \in Regs : tmp'[p][g] = IF g = i.reg THEN regs[g] ELSE tmp[p][g]
      /\ i.op # "read" /\ run'[p] # <<>> => tmp'[p] = tmp[p]
      /\ reset = None
  BY StepFact
<1>2. "NONRST2" \in Regs
  BY RegsFact
<1>3. KeyHeld(run[p], t) /\ "BYPASS_PWR_KEY" \in regs["NONRST2"]
  BY DEF AllHeld
<1>4. ASSUME "BYPASS_PWR_KEY" \in regs'["NONRST2"], KeyHeld(run'[p], tmp'[p]["NONRST2"])
      PROVE  AllHeld'
  <2>1. \A q \in Procs \ {p} : KeyHeld(run'[q], tmp'[q]["NONRST2"])
    BY <1>1 DEF AllHeld
  <2> QED BY <1>4, <2>1 DEF AllHeld, KeyHeld, Split
<1>5. run'[p] \in Keeping /\ i \in Over(KeepWords)
  <2>1. KeepWords \in SUBSET Simple /\ run[p] \in Prog(KeepWords)
    BY <1>3, KeepFact DEF KeyHeld, Keeping
  <2> QED BY <1>1, <2>1, ProgStep DEF Keeping, Next1
<1>6. CASE run[p] \in Sparing(N)
  <2>1. run'[p] \in Sparing(N) /\ Spared(N)
    BY <1>6, SparingStep
  <2>2. regs'["NONRST2"] = regs["NONRST2"]
    BY <1>2, <2>1 DEF Spared
  <2> QED BY <1>3, <1>4, <1>5, <2>1, <2>2 DEF KeyHeld
<1>7. CASE Split(run[p], N, r, Keeping)
  <2>1. r \in Instr /\ r.op = "read" /\ r.reg = "NONRST2" /\ Keeping \in SUBSET Code
    BY KeepFact
  <2> HIDE DEF r, N
  <2>2. \/ i = r /\ Effect(p, r)
        \/ Spared(N) /\ Split(run'[p], N, r, Keeping)
    BY <1>7, <2>1, SplitSteps DEF i
  <2>3. CASE i = r /\ Effect(p, r)
    <3>1. regs'["NONRST2"] = regs["NONRST2"]
      BY <1>2, <2>1, <2>3 DEF Effect
    <3>2. tmp'[p]["NONRST2"] = regs["NONRST2"]
      BY <1>1, <1>2, <2>1, <2>3
    <3> QED BY <1>3, <1>4, <1>5, <3>1, <3>2 DEF KeyHeld
  <2>4. CASE Spared(N) /\ Split(run'[p], N, r, Keeping)
    <3>1. regs'["NONRST2"] = regs["NONRST2"]
      BY <1>2, <2>4 DEF Spared, N
    <3> QED BY <1>3, <1>4, <1>5, <2>4, <3>1 DEF KeyHeld, r, N
  <2> QED BY <2>2, <2>3, <2>4
<1>8. CASE "BYPASS_PWR_KEY" \in t
  <2>1. i.op # "branch" => i \in KeepWords
    BY <1>5, KeepFact, OverFact
  <2>2. /\ i.op = "put" => i.reg # "NONRST2"
        /\ i.op = "write" /\ i.reg = "NONRST2" => "BYPASS_PWR_KEY" \notin i.clear
    BY <2>1 DEF KeepWords
  <2>3. Effect(p, i)
    BY <1>1
  <2> HIDE DEF i
  <2>4. "BYPASS_PWR_KEY" \in regs'["NONRST2"]
    BY <1>2, <1>3, <1>8, <2>2, <2>3 DEF Effect
  <2>5. CASE run'[p] = <<>>
    <3>1. run'[p] \in Sparing(N)
      BY <2>5, SparingParts
    <3> QED BY <1>4, <1>5, <2>4, <3>1 DEF KeyHeld
  <2>6. CASE run'[p] # <<>>
    <3>1. "BYPASS_PWR_KEY" \in tmp'[p]["NONRST2"]
      BY <1>1, <1>2, <1>3, <1>8, <2>6
    <3> QED BY <1>4, <1>5, <2>4, <3>1 DEF KeyHeld
  <2> QED BY <2>5, <2>6
<1> QED BY <1>3, <1>6, <1>7, <1>8 DEF KeyHeld

LEMMA HeldCall ==
  ASSUME IInv, KeyInv, NEW p \in Procs, NEW o, Called(p, o),
         version = 2, KeepsKey(start), reboot'.cmd \notin KeyCommands
  PROVE  AllHeld'
<1>1. reboot.cmd \notin KeyCommands
  <2>1. reboot = NoReboot
    BY DEF Called, MayCall, Rebooting
  <2> QED BY <2>1 DEF NoReboot, None, KeyCommands
<1>2. AllHeld
  BY <1>1 DEF KeyInv
<1>3. Program(o) = Api!Program(o)
  BY DEF Program
<1>4. Keyed(Api!Program(o))
  <2>1. CASE p \in Callers
    <3>1. o \in Api!Ops
      BY <2>1 DEF Called
    <3>2. o[1] = "arch_reset" => o[2] \notin KeyCommands
      <4>1. o[1] = "arch_reset" => reboot' = [cpu |-> p, cmd |-> o[2]]
        BY DEF Called
      <4> QED BY <4>1
    <3>3. o[1] = "sw_reset" => o[2] = TRUE
      <4> SUFFICES ASSUME o[1] = "sw_reset" PROVE o[2] = TRUE
        OBVIOUS
      <4>1. \E n : \E b, k \in BOOLEAN : o = <<n, b, k>>
        BY <3>1, Arguments2, Zenon
      <4>2. PICK n : \E b, k \in BOOLEAN : o = <<n, b, k>>
        BY <4>1
      <4>3. PICK b \in BOOLEAN, k \in BOOLEAN : o = <<n, b, k>>
        BY <4>2
      <4>4. n = "sw_reset" /\ o[2] = b
        BY <4>3
      <4>5. o \in start.ops[p]
        BY DEF Called
      <4>6. b # FALSE
        BY <4>3, <4>4, <4>5, Zenon DEF KeepsKey
      <4> QED BY <4>4, <4>6
    <3> QED BY <3>1, <3>2, <3>3, KeyedProgram
  <2>2. CASE p \in {Sspm, Pm}
    <3>1. o[1] \in {"sspm", "suspend", "resume"}
      BY <2>2 DEF Called
    <3> QED BY <3>1, Plain2, KeyedSleep
  <2> QED BY <2>1, <2>2 DEF Procs
<1>5. /\ run'[p] = Api!Program(o) /\ tmp' = tmp /\ regs' = regs
      /\ \A q \in Procs \ {p} : run'[q] = run[q]
  BY <1>3 DEF Called
<1>6. KeyHeld(run'[p], tmp'[p]["NONRST2"])
  BY <1>4, <1>5 DEF Keyed, KeyHeld
<1>7. \A q \in Procs : KeyHeld(run'[q], tmp'[q]["NONRST2"])
  BY <1>2, <1>5, <1>6 DEF AllHeld
<1> QED BY <1>2, <1>5, <1>7 DEF AllHeld, KeyHeld, Split

LEMMA KeyKeeps == IInv /\ KeyInv /\ [Next]_vars => KeyInv'
<1> SUFFICES ASSUME IInv, KeyInv, [Next]_vars PROVE KeyInv'
  OBVIOUS
<1>1. CASE UNCHANGED vars
  BY <1>1 DEF vars, KeyInv, AllHeld, KeyHeld, Split, version
<1>2. ASSUME NEW p \in Procs, NEW o, Called(p, o) PROVE KeyInv'
  <2>1. start' = start /\ version' = version
    BY <1>2 DEF Called, version
  <2>2. version = 1 => run'[Sspm] = <<>> /\ reset' # Sspm
    BY <1>2 DEF Called, KeyInv, Procs
  <2>3. version = 2 /\ KeepsKey(start) /\ reboot'.cmd \notin KeyCommands => AllHeld'
    BY <1>2, HeldCall
  <2> QED BY <2>1, <2>2, <2>3 DEF KeyInv
<1>3. ASSUME NEW p \in Procs, Step(p) PROVE KeyInv'
  <2>1. start' = start /\ version' = version /\ reboot' = reboot
    BY <1>3, StepFact DEF version
  <2>2. version = 1 => run'[Sspm] = <<>> /\ reset' # Sspm
    <3> SUFFICES ASSUME version = 1 PROVE run'[Sspm] = <<>> /\ reset' # Sspm
      OBVIOUS
    <3>1. p # Sspm
      BY <1>3, StepFact DEF KeyInv, Follows
    <3>2. run'[Sspm] = run[Sspm] /\ Effect(p, Next1(p))
      BY <1>3, <3>1, StepFact DEF Procs
    <3>3. None # Sspm
      BY ProcAssumption DEF Procs
    <3> QED BY <3>1, <3>2, <3>3 DEF KeyInv, Effect
  <2>3. version = 2 /\ KeepsKey(start) /\ reboot'.cmd \notin KeyCommands => AllHeld'
    BY <1>3, <2>1, HeldStep DEF KeyInv
  <2> QED BY <2>1, <2>2, <2>3 DEF KeyInv
<1> QED BY <1>1, <1>2, <1>3, CallFact DEF Next

LEMMA KeyStarts == Init => KeyInv
<1> SUFFICES ASSUME Init PROVE KeyInv
  OBVIOUS
<1>1. reset # Sspm /\ \A p \in Procs : run[p] = <<>>
  BY ProcAssumption DEF Init, Procs
<1>2. ASSUME version = 2 PROVE "BYPASS_PWR_KEY" \in regs["NONRST2"]
  <2>1. IInv
    BY InitKeeps
  <2>2. PICK m \in SUBSET RegFlags["MODE"] : m = InitialMode
    BY ProbeModes, <2>1 DEF IInv, Types
  <2>3. regs = [NoValues EXCEPT !.MODE = m, !.LENGTH = {"PROBE"}, !.NONRST2 = {"BYPASS_PWR_KEY"}]
    BY <1>2, <2>2 DEF Init
  <2>4. NoValues \in [Regs -> SUBSET AllFlags] /\ "NONRST2" \in Regs
    BY NoValuesFact, RegsFact
  <2> QED BY <2>3, <2>4
<1>3. \A p \in Procs : KeyHeld(run[p], tmp[p]["NONRST2"])
  <2>1. <<>> \in Sparing({"NONRST2"}) /\ <<>> \in Keeping
    BY SparingParts, KeepFact
  <2> QED BY <1>1, <2>1 DEF KeyHeld
<1> QED BY <1>1, <1>2, <1>3 DEF KeyInv, AllHeld, Procs

\* A reset that the SSPM asks for bypasses the power key, whatever the callers
\* are in the middle of, a reboot included unless its command asks for the key:
\* no stale value of NONRST_REG2 is ever written back without BYPASS_PWR_KEY.
\* The kernel must not call wd_sw_reset() with a mode that waits for the key.
THEOREM RguSspmKey == Spec => [](KeepsKey(start) => SspmResetBypassesKey)
<1>1. IInv /\ KeyInv => (KeepsKey(start) => SspmResetBypassesKey)
  <2> SUFFICES ASSUME IInv, KeyInv, KeepsKey(start), reset = Sspm, reboot.cmd \notin KeyCommands
               PROVE  "BYPASS_PWR_KEY" \in regs["NONRST2"]
    BY DEF SspmResetBypassesKey
  <2>1. version \in {1, 2}
    BY StartAssumption DEF version, IInv, Types
  <2> QED BY <2>1 DEF KeyInv, AllHeld
<1>2. Spec => []KeyInv
  BY KeyStarts, KeyKeeps, Invariant, PTL DEF Spec
<1> QED BY <1>1, <1>2, Invariant, PTL

-----------------------------------------------------------------------------
(* The restart handler.                                                     *)
AfterMode(k) ==
  IF k THEN Sparing({"MODE"}) ELSE {<<Read("MODE")>> \o (<<DramFree>> \o <<SwReset>>)}
DfdOff == Write("LATCH_CTL2", {}, {"DFD_EN"})

LEMMA DfdWords ==
  /\ DfdOff \in Instr /\ DfdOff.op = "write" /\ DfdOff.reg = "LATCH_CTL2" /\ DfdOff.set = {}
  /\ DfdOff.clear = {"DFD_EN"}
  /\ Read("LATCH_CTL2") \in Words({"reset"})
  /\ Api!mtk_wdt_dfd_count_en(FALSE) = <<Read("LATCH_CTL2")>> \o <<DfdOff>>
<1>1. "DFD_EN" \in RegFlags["LATCH_CTL2"] /\ "LATCH_CTL2" \in Regs /\ None \notin {"reset"}
  BY RegFlagsFact, RegsFact DEF None
<1>2. {"DFD_EN"} \in SUBSET AllFlags /\ {} \in SUBSET AllFlags
  BY <1>1, FlagsFact
<1>3. DfdOff \in Instr /\ Read("LATCH_CTL2") \in Instr
  BY <1>1, <1>2, WordFact DEF DfdOff
<1>4. /\ DfdOff.op = "write" /\ DfdOff.reg = "LATCH_CTL2" /\ DfdOff.set = {}
      /\ DfdOff.clear = {"DFD_EN"}
  BY DEF DfdOff, Write
<1>5. Read("LATCH_CTL2") \in Words({"reset"})
  BY <1>1, SparingWord
<1>6. Api!mtk_wdt_dfd_count_en(FALSE) = <<Read("LATCH_CTL2"), DfdOff>>
  BY Words2 DEF Api!mtk_wdt_dfd_count_en, Api!Assign, Api!Rmw, DfdOff
<1>7. <<Read("LATCH_CTL2")>> \o <<DfdOff>> = <<Read("LATCH_CTL2"), DfdOff>>
  BY <1>3, Tuples
<1> QED BY <1>3, <1>4, <1>5, <1>6, <1>7

\* The registers that the reset path leaves alone behind the writes.
LEMMA ResetSpares ==
  ASSUME NEW b \in BOOLEAN
  PROVE  /\ Api!wdt_arch_reset(b, FALSE) \in Sparing({"LATCH_CTL2"})
         /\ \A k \in BOOLEAN : ResetTail(k) \in AfterMode(k)
         /\ \A k : AfterMode(k) \in SUBSET Code
<1> DEFINE L == {"LATCH_CTL2"}
           t == ResetTail(FALSE)
           m == <<ResetMode>> \o t
           k == <<ResetKey(b)>> \o m
           r == <<Read("MODE")>> \o k
           o == <<Read("NONRST2")>> \o r
           n == <<PmicPreReset>> \o o
           c == <<Kick>> \o n
<1>1. None \notin L /\ "MODE" \notin L /\ "NONRST2" \notin L /\ "reset" \notin L
      /\ None \notin {"MODE"} /\ "reset" \notin {"MODE"}
  BY DEF None
<1>2. {ResetKey(b), ResetMode, DramFree, SwReset, Kick, PmicPreReset, Read("MODE"),
       Read("NONRST2")} \subseteq Words(L)
  BY <1>1, ResetWords, SparingWord
<1>3. \A i \in Words(L), f \in Sparing(L) : <<i>> \o f \in Sparing(L)
  BY SparingParts
<1>4. t \in Sparing(L)
  <2>1. <<SwReset>> \in Sparing(L)
    BY <1>2, SparingParts
  <2>2. <<DramFree>> \o <<SwReset>> \in Sparing(L)
    BY <1>2, <1>3, <2>1
  <2>3. <<Read("MODE")>> \o (<<DramFree>> \o <<SwReset>>) \in Sparing(L)
    BY <1>2, <1>3, <2>2
  <2> QED BY <2>3, ResetTails
<1> HIDE DEF t
<1>5. m \in Sparing(L)
  BY <1>2, <1>4, <1>3
<1> HIDE DEF m
<1>6. k \in Sparing(L)
  BY <1>2, <1>3, <1>5
<1> HIDE DEF k
<1>7. r \in Sparing(L)
  BY <1>2, <1>3, <1>6
<1> HIDE DEF r
<1>8. n \in Sparing(L)
  <2>1. o \in Sparing(L)
    BY <1>2, <1>3, <1>7
  <2> HIDE DEF o
  <2> QED BY <1>2, <1>3, <2>1
<1> HIDE DEF n
<1>9. c \in Sparing(L)
  BY <1>2, <1>3, <1>8
<1>10. Api!wdt_arch_reset(b, FALSE) = c
  BY ResetShape DEF n, o, r, k, m, t
<1>11. ResetTail(TRUE) \in Sparing({"MODE"})
  <2>1. {"MODE"} \subseteq Core
    BY DEF Core
  <2>2. ResetRest(TRUE) \in Sparing({"MODE"})
    BY <2>1, ResetTails, WordsFact DEF Bystanders
  <2>3. SwReset \in Words({"MODE"})
    BY <1>1, SparingWord
  <2> QED BY <2>2, <2>3, SparingParts DEF ResetTail
<1>12. ResetTail(FALSE) \in AfterMode(FALSE) /\ ResetTail(TRUE) \in AfterMode(TRUE)
  BY <1>11, ResetTails DEF AfterMode
<1>13. ASSUME NEW j PROVE AfterMode(j) \in SUBSET Code
  <2>1. Read("MODE") \in Instr /\ DramFree \in Instr /\ <<SwReset>> \in Code
    BY ResetWords DEF Code
  <2>2. <<DramFree>> \o <<SwReset>> \in Code
    BY <2>1, OneCons
  <2>3. <<Read("MODE")>> \o (<<DramFree>> \o <<SwReset>>) \in Code
    BY <2>1, <2>2, OneCons
  <2>4. Sparing({"MODE"}) \in SUBSET Code
    BY SparingParts
  <2> QED BY <2>3, <2>4 DEF AfterMode
<1> QED BY <1>9, <1>10, <1>12, <1>13

\* What is to come before and after each access of the restart handler.
LEMMA ArchSplits ==
  ASSUME NEW cmd, cmd # "dm-verity unmarked", NEW b \in BOOLEAN, b <=> cmd \notin KeyCommands,
         NEW k \in BOOLEAN, k <=> cmd = "ddr-reserve"
  PROVE  LET c == Api!arch_reset(cmd) IN
         /\ Split(c, {"reset"}, ResetKey(b), Sparing({"NONRST2"}))
         /\ Split(c, {"reset"}, ResetMode, AfterMode(k))
         /\ k \/ Split(c, {"reset"}, DfdOff, Sparing({"LATCH_CTL2"}))
<1> DEFINE m == ArchMark(cmd)
           d == ArchDfd(cmd)
           r == Api!wdt_arch_reset(b, k)
           R == {"reset"}
           N == Sparing({"NONRST2"})
           A == AfterMode(k)
           L == Sparing({"LATCH_CTL2"})
<1>1. Api!arch_reset(cmd) = m \o (d \o r)
  <2>1. Api!arch_reset(cmd) = m \o ArchRest(cmd)
    BY ArchShape DEF Api!If
  <2>2. b = BypassKey(cmd) /\ k = (cmd = "ddr-reserve")
    BY Zenon DEF BypassKey
  <2>3. ArchRest(cmd) = d \o r
    BY <2>2, Zenon DEF ArchRest
  <2> QED BY <2>1, <2>3
<1>2. m \in Sparing(R) /\ d \in Sparing(R)
  <2>1. R \subseteq Core
    BY DEF Core
  <2> QED BY <2>1, ArchShape, WordsFact DEF Bystanders
<1>3. /\ N \in SUBSET Code /\ A \in SUBSET Code /\ L \in SUBSET Code
      /\ ResetKey(b) \in Instr /\ ResetMode \in Instr /\ DfdOff \in Instr
  BY SparingParts, ResetSpares, ResetWords, DfdWords
<1>4. Split(r, R, ResetKey(b), N) /\ Split(r, R, ResetMode, A)
  <2>1. Split(r, R, ResetKey(b), N) /\ Split(r, R, ResetMode, {ResetTail(k)})
    BY ResetSplits
  <2>2. {ResetTail(k)} \subseteq A
    BY ResetSpares
  <2> HIDE DEF r, A, R
  <2> QED BY <2>1, <2>2, SplitMono
<1>5. ASSUME ~k PROVE Split(d \o r, R, DfdOff, L)
  <2>1. d = <<Read("LATCH_CTL2")>> \o <<DfdOff>>
    BY <1>5, DfdWords DEF ArchDfd, Api!If
  <2>2. <<>> \in L /\ <<DfdOff>> \o <<>> = <<DfdOff>>
    BY <1>3, Tuples, SparingParts
  <2>3. Split(<<DfdOff>>, R, DfdOff, L)
    BY <1>3, <2>2, SplitHere
  <2>4. Split(d, R, DfdOff, L)
    <3>1. Split(<<Read("LATCH_CTL2")>> \o <<DfdOff>>, R, DfdOff, L)
      BY <1>3, <2>3, DfdWords, SplitCons
    <3> QED BY <2>1, <3>1
  <2>5. r \in L
    BY <1>5, ResetSpares
  <2>6. \A g \in L : g \o r \in L
    BY <2>5, SparingParts
  <2> HIDE DEF d, r, L, R
  <2> QED BY <1>3, <2>4, <2>5, <2>6, SplitSuffix
<1> HIDE DEF m, d, r, R, N, A, L
<1>6. Split(d \o r, R, ResetKey(b), N) /\ Split(d \o r, R, ResetMode, A)
  BY <1>2, <1>3, <1>4, SplitPrefix
<1>7. /\ Split(m \o (d \o r), R, ResetKey(b), N) /\ Split(m \o (d \o r), R, ResetMode, A)
      /\ k \/ Split(m \o (d \o r), R, DfdOff, L)
  BY <1>2, <1>3, <1>5, <1>6, SplitPrefix
<1> QED BY <1>1, <1>7 DEF R, N, A, L

\* The same of version 1.
Reset1Mode(b) ==
  Write("MODE", {"EXTEN"} \cup Flag(b, "AUTO_RESTART"),
        {"IRQ", "ENABLE", "DUAL"} \cup Flag(~b, "AUTO_RESTART"))

LEMMA Reset1Words ==
  ASSUME NEW b \in BOOLEAN
  PROVE  /\ Reset1Mode(b) \in Instr /\ Reset1Mode(b).op = "write" /\ Reset1Mode(b).reg = "MODE"
         /\ "EXTEN" \in Reset1Mode(b).set /\ "EXTEN" \notin Reset1Mode(b).clear
         /\ {"IRQ", "ENABLE", "DUAL"} \subseteq Reset1Mode(b).clear
         /\ b => "AUTO_RESTART" \in Reset1Mode(b).set /\ "AUTO_RESTART" \notin Reset1Mode(b).clear
         /\ ~b => "AUTO_RESTART" \in Reset1Mode(b).clear
<1>1. PICK s, c : /\ s = {"EXTEN"} \cup Flag(b, "AUTO_RESTART")
                  /\ c = {"IRQ", "ENABLE", "DUAL"} \cup Flag(~b, "AUTO_RESTART")
  OBVIOUS
<1>2. Reset1Mode(b) = Write("MODE", s, c)
  BY <1>1 DEF Reset1Mode
<1>3. /\ s \in SUBSET RegFlags["MODE"] /\ c \in SUBSET RegFlags["MODE"]
      /\ "EXTEN" \in s /\ "EXTEN" \notin c /\ {"IRQ", "ENABLE", "DUAL"} \subseteq c
      /\ b => "AUTO_RESTART" \in s /\ "AUTO_RESTART" \notin c
      /\ ~b => "AUTO_RESTART" \in c
  BY <1>1, RegFlagsFact DEF Flag
<1>4. s \in SUBSET AllFlags /\ c \in SUBSET AllFlags /\ "MODE" \in Regs
  BY <1>3, FlagsFact, RegsFact
<1>5. Reset1Mode(b) \in Instr
  BY <1>2, <1>4, WordFact
<1>6. /\ Reset1Mode(b).op = "write" /\ Reset1Mode(b).reg = "MODE" /\ Reset1Mode(b).set = s
      /\ Reset1Mode(b).clear = c
  BY <1>2 DEF Write
<1> QED BY <1>3, <1>5, <1>6

LEMMA Reset1Splits ==
  ASSUME NEW b \in BOOLEAN
  PROVE  Split(V1!wdt_arch_reset(b), {"reset"}, Reset1Mode(b), Sparing({"MODE"}))
<1> DEFINE R == {"reset"}
           M == Sparing({"MODE"})
           w == Reset1Mode(b)
           f == <<Read("MODE"), w>>
           h == <<SwReset>>
           u == <<Unlock("rgu")>>
           body == (<<Kick>> \o f) \o h
<1>1. V1!wdt_arch_reset(b) = (<<Lock("rgu")>> \o body) \o u
  BY Words1 DEF V1!wdt_arch_reset, V1!Locked, V1!Under, V1!Rmw, V1!Flag, Flag, Reset1Mode
<1>2. w \in Instr /\ M \in SUBSET Code
  BY Reset1Words, SparingParts
<1> HIDE DEF w
<1>3. /\ None \notin R /\ None \notin {"MODE"} /\ "reset" \notin {"MODE"} /\ "rgu" \in Locks
      /\ "MODE" \in Regs
  BY RegsFact DEF None, Locks
<1>4. /\ {Kick, Read("MODE"), Lock("rgu")} \subseteq Words(R)
      /\ {SwReset, Unlock("rgu")} \subseteq Words({"MODE"})
  BY <1>3, SparingWord
<1>5. /\ h \in M /\ u \in M /\ <<>> \in M /\ \A g, q \in M : g \o q \in M
  BY <1>4, SparingParts
<1>6. Split(f, R, w, M)
  <2>1. <<w>> \o <<>> = <<w>> /\ <<Read("MODE")>> \o <<w>> = <<Read("MODE"), w>>
    BY <1>2, WordFact, <1>3, Tuples
  <2>2. Split(<<w>>, R, w, M)
    <3>1. Split(<<w>> \o <<>>, R, w, M)
      BY <1>2, <1>5, SplitHere
    <3> QED BY <2>1, <3>1
  <2>3. Split(<<Read("MODE")>> \o <<w>>, R, w, M)
    BY <1>2, <1>4, <2>2, SplitCons
  <2> QED BY <2>1, <2>3
<1> HIDE DEF f, h, u, M, R
<1>7. Split(<<Kick>> \o f, R, w, M)
  BY <1>2, <1>4, <1>6, SplitCons
<1>8. Split(body, R, w, M)
  <2>1. h \in Code /\ \A g \in M : g \o h \in M
    BY <1>2, <1>5
  <2> QED BY <1>2, <1>7, <2>1, SplitSuffix
<1> HIDE DEF body
<1>9. Split(<<Lock("rgu")>> \o body, R, w, M)
  BY <1>2, <1>4, <1>8, SplitCons
<1>10. Split((<<Lock("rgu")>> \o body) \o u, R, w, M)
  <2>1. u \in Code /\ \A g \in M : g \o u \in M
    BY <1>2, <1>5
  <2> QED BY <1>2, <1>9, <2>1, SplitSuffix
<1> QED BY <1>1, <1>10 DEF w, R, M

\* What the restart handler has still to do, and what it has done.
Left == run[reboot.cpu]
ModeAsked(m) == "EXTEN" \in m /\ m \cap {"IRQ", "DUAL"} = {}
KeySet(b) ==
  \/ reset = None /\ Split(Left, {"reset"}, ResetKey(b), Sparing({"NONRST2"}))
  \/ Left \in Sparing({"NONRST2"}) /\ ("BYPASS_PWR_KEY" \in regs["NONRST2"] <=> b)
ModeSet(k) ==
  \/ reset = None /\ Split(Left, {"reset"}, ResetMode, AfterMode(k))
  \/ /\ ~k /\ reset = None /\ ModeAsked(regs["MODE"])
     /\ Left = <<Read("MODE")>> \o (<<DramFree>> \o <<SwReset>>)
  \/ /\ ~k /\ reset = None /\ ModeAsked(tmp[reboot.cpu]["MODE"])
     /\ Left = <<DramFree>> \o <<SwReset>>
  \/ /\ Left \in Sparing({"MODE"}) /\ ModeAsked(regs["MODE"])
     /\ k \/ "DDR_RESERVE" \notin regs["MODE"]
DfdSet ==
  \/ reset = None /\ Split(Left, {"reset"}, DfdOff, Sparing({"LATCH_CTL2"}))
  \/ Left \in Sparing({"LATCH_CTL2"}) /\ "DFD_EN" \notin regs["LATCH_CTL2"]
ModeSet1(b) ==
  \/ reset = None /\ Split(Left, {"reset"}, Reset1Mode(b), Sparing({"MODE"}))
  \/ /\ Left \in Sparing({"MODE"}) /\ ModeAsked(regs["MODE"]) /\ "ENABLE" \notin regs["MODE"]
     /\ "AUTO_RESTART" \in regs["MODE"] <=> b
GivesUp == reset = None /\ Left \in Sparing({"reset"})
Going ==
  \E b \in BOOLEAN, k \in BOOLEAN :
    /\ b <=> reboot.cmd \notin KeyCommands
    /\ k <=> reboot.cmd = "ddr-reserve"
    /\ version = 1 => ModeSet1(b)
    /\ version = 2 => IF reboot.cmd = "dm-verity unmarked" THEN GivesUp
                      ELSE KeySet(b) /\ ModeSet(k) /\ (k \/ DfdSet)
Undisturbed == Rebooting /\ run[Sspm] = <<>> /\ reset \in {None, reboot.cpu}
RebootInv == SspmEnds /\ (Rebooting => reboot.cpu \in Callers) /\ (Undisturbed => Going)

\* The write i of the register r settles it.
LEMMA Settles ==
  ASSUME IInv, NEW p \in Procs, Step(p), NEW i \in Instr, i.op = "write", NEW r \in Regs, i.reg = r,
         NEW T \in SUBSET Code, Split(run[p], {"reset"}, i, T)
  PROVE  /\ reset' = None
         /\ \/ regs'[r] = (tmp[p][r] \cup i.set) \ i.clear /\ run'[p] \in T
            \/ Split(run'[p], {"reset"}, i, T)
<1>1. \/ Effect(p, i) /\ run'[p] \in T
      \/ Spared({"reset"}) /\ Split(run'[p], {"reset"}, i, T)
  BY SplitSteps
<1> QED BY <1>1 DEF Effect, Spared

LEMMA SettledStep ==
  ASSUME IInv, NEW r \in Regs, NEW p \in Procs, Step(p), run[p] \in Sparing({r})
  PROVE  run'[p] \in Sparing({r}) /\ regs'[r] = regs[r]
BY SparingStep DEF Spared

LEMMA KeySetStep ==
  ASSUME IInv, reboot.cpu \in Procs, Step(reboot.cpu), NEW b \in BOOLEAN, KeySet(b)
  PROVE  KeySet(b)'
<1> DEFINE p == reboot.cpu
           w == ResetKey(b)
           T == Sparing({"NONRST2"})
<1>1. p \in Procs /\ Step(p) /\ "NONRST2" \in Regs /\ reboot' = reboot
  BY StepFact, RegsFact
<1>2. /\ w \in Instr /\ w.op = "write" /\ w.reg = "NONRST2" /\ T \in SUBSET Code
      /\ b => "BYPASS_PWR_KEY" \in w.set /\ w.clear = {}
      /\ ~b => "BYPASS_PWR_KEY" \in w.clear
  BY ResetWords, SparingParts
<1> HIDE DEF w
<1>3. CASE Split(run[p], {"reset"}, w, T)
  <2>1. /\ reset' = None
        /\ \/ regs'["NONRST2"] = (tmp[p]["NONRST2"] \cup w.set) \ w.clear /\ run'[p] \in T
           \/ Split(run'[p], {"reset"}, w, T)
    BY <1>1, <1>2, <1>3, Settles
  <2> QED BY <1>1, <1>2, <2>1 DEF KeySet, Left, Split, w
<1>4. CASE run[p] \in T /\ ("BYPASS_PWR_KEY" \in regs["NONRST2"] <=> b)
  <2>1. run'[p] \in T /\ regs'["NONRST2"] = regs["NONRST2"]
    BY <1>1, <1>4, SettledStep
  <2> QED BY <1>1, <1>4, <2>1 DEF KeySet, Left
<1> QED BY <1>3, <1>4 DEF KeySet, Left, w

LEMMA DfdSetStep ==
  ASSUME IInv, reboot.cpu \in Procs, Step(reboot.cpu), DfdSet
  PROVE  DfdSet'
<1> DEFINE p == reboot.cpu
           T == Sparing({"LATCH_CTL2"})
<1>1. p \in Procs /\ Step(p) /\ "LATCH_CTL2" \in Regs /\ reboot' = reboot
  BY StepFact, RegsFact
<1>2. /\ DfdOff \in Instr /\ DfdOff.op = "write" /\ DfdOff.reg = "LATCH_CTL2"
      /\ T \in SUBSET Code /\ DfdOff.clear = {"DFD_EN"}
  BY DfdWords, SparingParts
<1>3. CASE Split(run[p], {"reset"}, DfdOff, T)
  <2>1. /\ reset' = None
        /\ \/ regs'["LATCH_CTL2"] = (tmp[p]["LATCH_CTL2"] \cup DfdOff.set) \ DfdOff.clear
              /\ run'[p] \in T
           \/ Split(run'[p], {"reset"}, DfdOff, T)
    BY <1>1, <1>2, <1>3, Settles
  <2> QED BY <1>1, <1>2, <2>1 DEF DfdSet, Left, Split
<1>4. CASE run[p] \in T /\ "DFD_EN" \notin regs["LATCH_CTL2"]
  <2>1. run'[p] \in T /\ regs'["LATCH_CTL2"] = regs["LATCH_CTL2"]
    BY <1>1, <1>4, SettledStep
  <2> QED BY <1>1, <1>4, <2>1 DEF DfdSet, Left
<1> QED BY <1>3, <1>4 DEF DfdSet, Left

LEMMA ModeSet1Step ==
  ASSUME IInv, reboot.cpu \in Procs, Step(reboot.cpu), NEW b \in BOOLEAN, ModeSet1(b)
  PROVE  ModeSet1(b)'
<1> DEFINE p == reboot.cpu
           w == Reset1Mode(b)
           T == Sparing({"MODE"})
<1>1. p \in Procs /\ Step(p) /\ "MODE" \in Regs /\ reboot' = reboot
  BY StepFact, RegsFact
<1>2. /\ w \in Instr /\ w.op = "write" /\ w.reg = "MODE" /\ T \in SUBSET Code
      /\ "EXTEN" \in w.set /\ "EXTEN" \notin w.clear
      /\ {"IRQ", "ENABLE", "DUAL"} \subseteq w.clear
      /\ b => "AUTO_RESTART" \in w.set /\ "AUTO_RESTART" \notin w.clear
      /\ ~b => "AUTO_RESTART" \in w.clear
  BY Reset1Words, SparingParts
<1> HIDE DEF w
<1>3. CASE Split(run[p], {"reset"}, w, T)
  <2>1. /\ reset' = None
        /\ \/ regs'["MODE"] = (tmp[p]["MODE"] \cup w.set) \ w.clear /\ run'[p] \in T
           \/ Split(run'[p], {"reset"}, w, T)
    BY <1>1, <1>2, <1>3, Settles
  <2> QED BY <1>1, <1>2, <2>1 DEF ModeSet1, ModeAsked, Left, Split, w
<1>4. CASE /\ run[p] \in T /\ ModeAsked(regs["MODE"]) /\ "ENABLE" \notin regs["MODE"]
           /\ "AUTO_RESTART" \in regs["MODE"] <=> b
  <2>1. run'[p] \in T /\ regs'["MODE"] = regs["MODE"]
    BY <1>1, <1>4, SettledStep
  <2> QED BY <1>1, <1>4, <2>1 DEF ModeSet1, ModeAsked, Left
<1> QED BY <1>3, <1>4 DEF ModeSet1, Left, w

LEMMA ModeSetStep ==
  ASSUME IInv, reboot.cpu \in Procs, Step(reboot.cpu), NEW k \in BOOLEAN, ModeSet(k)
  PROVE  ModeSet(k)'
<1> DEFINE p == reboot.cpu
           i == Next1(p)
           A == AfterMode(k)
           last == <<SwReset>>
           dram == <<DramFree>> \o last
           all == <<Read("MODE")>> \o dram
<1>1. p \in Procs /\ Step(p) /\ "MODE" \in Regs /\ reboot' = reboot
  BY StepFact, RegsFact
<1>2. last \in Sparing({"MODE"})
  <2>1. None \notin {"MODE"} /\ "reset" \notin {"MODE"}
    BY DEF None
  <2>2. SwReset \in Words({"MODE"})
    BY <2>1, SparingWord
  <2> QED BY <2>2, SparingParts
<1>3. /\ ResetMode \in Instr /\ ResetMode.op = "write" /\ ResetMode.reg = "MODE"
      /\ ResetMode.set = {"EXTEN"} /\ ResetMode.clear = {"IRQ", "DUAL", "EXTRA_CNT"}
      /\ A \in SUBSET Code
      /\ DramFree \in Instr /\ DramFree.op = "write" /\ DramFree.reg = "MODE"
      /\ DramFree.set = {} /\ DramFree.clear = {"DDR_RESERVE"}
      /\ Read("MODE") \in Instr /\ Read("MODE").op = "read" /\ Read("MODE").reg = "MODE"
      /\ last \in Code
  <2>1. /\ ResetMode \in Instr /\ ResetMode.op = "write" /\ ResetMode.reg = "MODE"
        /\ ResetMode.set = {"EXTEN"} /\ ResetMode.clear = {"IRQ", "DUAL", "EXTRA_CNT"}
    BY ResetWords
  <2>2. /\ DramFree \in Instr /\ DramFree.op = "write" /\ DramFree.reg = "MODE"
        /\ DramFree.set = {} /\ DramFree.clear = {"DDR_RESERVE"}
    BY ResetWords
  <2>3. A \in SUBSET Code
    BY ResetSpares
  <2>4. Read("MODE") \in Instr /\ Read("MODE").op = "read" /\ Read("MODE").reg = "MODE"
    BY <1>1, WordFact DEF Read
  <2>5. last \in Code
    BY <1>2, SparingParts
  <2> HIDE DEF A, last
  <2> QED BY <2>1, <2>2, <2>3, <2>4, <2>5
<1>4. /\ i \in Instr /\ Effect(p, i)
      /\ Follows(run[p], run'[p])
      /\ i.op = "read" => \A g \in Regs : tmp'[p][g] = IF g = i.reg THEN regs[g] ELSE tmp[p][g]
  BY <1>1, StepFact
<1>5. CASE Split(run[p], {"reset"}, ResetMode, A)
  <2>1. /\ reset' = None
        /\ \/ regs'["MODE"] = (tmp[p]["MODE"] \cup ResetMode.set) \ ResetMode.clear /\ run'[p] \in A
           \/ Split(run'[p], {"reset"}, ResetMode, A)
    BY <1>1, <1>3, <1>5, Settles
  <2>2. CASE Split(run'[p], {"reset"}, ResetMode, A)
    BY <1>1, <2>1, <2>2 DEF ModeSet, Left, Split, AfterMode
  <2>3. CASE regs'["MODE"] = (tmp[p]["MODE"] \cup ResetMode.set) \ ResetMode.clear /\ run'[p] \in A
    <3>1. ModeAsked(regs'["MODE"])
      BY <1>3, <2>3 DEF ModeAsked
    <3>2. k => run'[p] \in Sparing({"MODE"})
      BY <2>3 DEF AfterMode
    <3>3. ~k => run'[p] = all
      BY <2>3 DEF AfterMode
    <3> QED BY <1>1, <2>1, <3>1, <3>2, <3>3 DEF ModeSet, ModeAsked, Left
  <2> QED BY <2>1, <2>2, <2>3
<1> HIDE DEF last
<1>6. dram \in Code /\ Head(dram) = DramFree /\ Tail(dram) = last
  BY <1>3, OneCons
<1> HIDE DEF dram
<1>7. Head(all) = Read("MODE") /\ Tail(all) = dram
  BY <1>3, <1>6, OneCons
<1> HIDE DEF all
<1>8. CASE ~k /\ reset = None /\ ModeAsked(regs["MODE"]) /\ run[p] = all
  <2>1. i = Read("MODE") /\ run'[p] = dram
    BY <1>3, <1>4, <1>7, <1>8 DEF Next1, Follows
  <2>2. tmp'[p]["MODE"] = regs["MODE"] /\ reset' = None
    BY <1>1, <1>3, <1>4, <2>1 DEF Effect
  <2> QED BY <1>1, <1>8, <2>1, <2>2 DEF ModeSet, ModeAsked, Left, dram, last
<1>9. CASE ~k /\ reset = None /\ ModeAsked(tmp[p]["MODE"]) /\ run[p] = dram
  <2>1. i = DramFree /\ run'[p] = last
    BY <1>3, <1>4, <1>6, <1>9 DEF Next1, Follows
  <2>2. regs'["MODE"] = (tmp[p]["MODE"] \cup DramFree.set) \ DramFree.clear
    BY <1>1, <1>3, <1>4, <2>1 DEF Effect
  <2>3. ModeAsked(regs'["MODE"]) /\ "DDR_RESERVE" \notin regs'["MODE"]
    BY <1>3, <1>9, <2>2 DEF ModeAsked
  <2> QED BY <1>1, <1>2, <2>1, <2>3 DEF ModeSet, ModeAsked, Left
<1>10. CASE /\ run[p] \in Sparing({"MODE"}) /\ ModeAsked(regs["MODE"])
            /\ k \/ "DDR_RESERVE" \notin regs["MODE"]
  <2>1. run'[p] \in Sparing({"MODE"}) /\ regs'["MODE"] = regs["MODE"]
    BY <1>1, <1>10, SettledStep
  <2> QED BY <1>1, <1>10, <2>1 DEF ModeSet, ModeAsked, Left
<1> QED BY <1>5, <1>8, <1>9, <1>10 DEF ModeSet, Left, all, dram, last

\* A call of the restart handler.
LEMMA RebootCall ==
  ASSUME IInv, RebootInv, NEW p \in Procs, NEW o, Called(p, o)
  PROVE  RebootInv'
<1>1. SspmEnds' /\ start' = start /\ reset = None /\ reset' = None /\ version' = version
  BY SspmEndsCall DEF RebootInv, Called, version
<1>2. CASE o[1] # "arch_reset"
  <2>1. reboot' = NoReboot
    BY <1>2 DEF Called, MayCall, Rebooting
  <2> QED BY <1>1, <2>1 DEF RebootInv, Undisturbed, Rebooting, NoReboot
<1>3. CASE o[1] = "arch_reset"
  <2> DEFINE cmd == o[2]
  <2>1. p \in Callers
    BY <1>3 DEF Called, Procs
  <2>2. reboot' = [cpu |-> p, cmd |-> cmd] /\ run'[p] = Program(o)
    BY <1>3 DEF Called
  <2>3. reboot'.cpu = p /\ reboot'.cmd = cmd /\ Left' = run'[p]
    BY <2>2 DEF Left
  <2>4. PICK b \in BOOLEAN, k \in BOOLEAN : b = (cmd \notin KeyCommands) /\ k = (cmd = "ddr-reserve")
    OBVIOUS
  <2>5. (b <=> cmd \notin KeyCommands) /\ (k <=> cmd = "ddr-reserve")
    BY <2>4, Zenon
  <2>6. ASSUME version = 1 PROVE ModeSet1(b)'
    <3>1. o \in V1!Ops
      BY <2>1, <2>6 DEF Called
    <3>2. Program(o) = V1!wdt_arch_reset(V1!BypassKey(cmd))
      BY <1>3, <2>6 DEF Program, V1!Program
    <3>3. V1!BypassKey(cmd) = b
      BY <2>4, Zenon DEF V1!BypassKey, V1!KeyCommands, KeyCommands
    <3>4. Program(o) = V1!wdt_arch_reset(b)
      BY <3>2, <3>3, Zenon
    <3>5. Split(run'[p], {"reset"}, Reset1Mode(b), Sparing({"MODE"}))
      BY <2>2, <3>4, Reset1Splits
    <3> QED BY <1>1, <2>3, <3>5 DEF ModeSet1, Split
  <2>7. ASSUME version = 2
        PROVE  Program(o) = Api!arch_reset(cmd)
    BY <1>3, <2>7 DEF Program, Api!Program
  <2>8. ASSUME version = 2, cmd = "dm-verity unmarked"
        PROVE  GivesUp'
    <3>1. Program(o) = ArchMark(cmd) \o <<>> /\ ArchMark(cmd) \in Bystanders
      BY <2>7, <2>8, ArchShape DEF Api!If
    <3>2. ArchMark(cmd) \in Sparing({"reset"}) /\ <<>> \in Sparing({"reset"})
      <4>1. {"reset"} \subseteq Core
        BY DEF Core
      <4> QED BY <4>1, <3>1, WordsFact, SparingParts DEF Bystanders
    <3>3. Program(o) \in Sparing({"reset"})
      BY <3>1, <3>2, SparingParts
    <3> QED BY <1>1, <2>2, <2>3, <3>3 DEF GivesUp
  <2>9. ASSUME version = 2, cmd # "dm-verity unmarked"
        PROVE  KeySet(b)' /\ ModeSet(k)' /\ (k \/ DfdSet')
    <3>1. run'[p] = Api!arch_reset(cmd)
      BY <2>2, <2>7, <2>9
    <3>2. /\ Split(run'[p], {"reset"}, ResetKey(b), Sparing({"NONRST2"}))
          /\ Split(run'[p], {"reset"}, ResetMode, AfterMode(k))
          /\ k \/ Split(run'[p], {"reset"}, DfdOff, Sparing({"LATCH_CTL2"}))
      BY <2>5, <2>9, <3>1, ArchSplits
    <3>3. KeySet(b)'
      BY <1>1, <2>3, <3>2 DEF KeySet, Split
    <3>4. ModeSet(k)'
      BY <1>1, <2>3, <3>2 DEF ModeSet, Split, AfterMode
    <3>5. k \/ DfdSet'
      BY <1>1, <2>3, <3>2 DEF DfdSet, Split
    <3> QED BY <3>3, <3>4, <3>5
  <2> HIDE DEF cmd
  <2>10. Going'
    BY <1>1, <2>3, <2>5, <2>6, <2>8, <2>9 DEF Going
  <2> QED BY <1>1, <2>1, <2>3, <2>10 DEF RebootInv
<1> QED BY <1>2, <1>3

\* A step: while the handler is undisturbed, the step is its own.
LEMMA RebootStep ==
  ASSUME IInv, RebootInv, NEW p \in Procs, Step(p)
  PROVE  RebootInv'
<1>1. /\ SspmEnds' /\ (Calm' => Calm /\ p # Sspm)
      /\ start' = start /\ reboot' = reboot /\ reset = None /\ ~Stopped(p)
      /\ run[p] # <<>> /\ Effect(p, Next1(p)) /\ \A q \in Procs \ {p} : run'[q] = run[q]
  BY SspmEndsStep, StepFact DEF RebootInv, Follows
<1>2. reset' \in {None, p}
  BY <1>1 DEF Effect
<1>3. Rebooting' => Rebooting /\ (p = Sspm \/ p = reboot.cpu) /\ reboot.cpu \in Callers
  BY <1>1 DEF Rebooting, Stopped, RebootInv
<1>4. ASSUME Undisturbed'
      PROVE  p = reboot.cpu /\ Undisturbed
  <2>1. Rebooting' /\ run'[Sspm] = <<>> /\ reset' \in {None, reboot.cpu}
    BY <1>1, <1>4 DEF Undisturbed
  <2>2. p # Sspm
    <3>1. CASE reset' = None
      BY <1>1, <2>1, <3>1 DEF Calm
    <3>2. CASE reset' # None
      BY <1>2, <1>3, <2>1, <3>2, ProcAssumption
    <3> QED BY <3>1, <3>2
  <2>3. run[Sspm] = <<>>
    BY <1>1, <2>1, <2>2 DEF Procs
  <2> QED BY <1>1, <1>3, <2>1, <2>2, <2>3 DEF Undisturbed
<1>5. ASSUME p = reboot.cpu, Going
      PROVE  Going'
  <2>1. PICK b \in BOOLEAN, k \in BOOLEAN :
          /\ b <=> reboot.cmd \notin KeyCommands
          /\ k <=> reboot.cmd = "ddr-reserve"
          /\ version = 1 => ModeSet1(b)
          /\ version = 2 => IF reboot.cmd = "dm-verity unmarked" THEN GivesUp
                            ELSE KeySet(b) /\ ModeSet(k) /\ (k \/ DfdSet)
    BY <1>5 DEF Going
  <2>2. version' = version /\ reboot.cpu \in Procs /\ Step(reboot.cpu)
    BY <1>1, <1>5 DEF version
  <2>3. version = 1 => ModeSet1(b)'
    BY <2>1, <2>2, ModeSet1Step
  <2>4. ASSUME GivesUp PROVE GivesUp'
    <3>1. run'[p] \in Sparing({"reset"}) /\ reset' = None
      BY <1>5, <2>4, SparingStep DEF GivesUp, Left, Spared
    <3> QED BY <1>1, <1>5, <3>1 DEF GivesUp, Left
  <2>5. KeySet(b) => KeySet(b)'
    BY <2>2, KeySetStep
  <2>6. ModeSet(k) => ModeSet(k)'
    BY <2>2, ModeSetStep
  <2>7. DfdSet => DfdSet'
    BY <2>2, DfdSetStep
  <2> QED BY <1>1, <2>1, <2>2, <2>3, <2>4, <2>5, <2>6, <2>7 DEF Going
<1> QED BY <1>1, <1>3, <1>4, <1>5 DEF RebootInv

LEMMA Rebooted == Spec => []RebootInv
<1>1. Init => RebootInv
  BY DEF Init, RebootInv, SspmEnds, Undisturbed, Rebooting, Procs
<1>2. IInv /\ RebootInv /\ [Next]_vars => RebootInv'
  <2> SUFFICES ASSUME IInv, RebootInv, [Next]_vars PROVE RebootInv'
    OBVIOUS
  <2>1. CASE UNCHANGED vars
    <3>1. UNCHANGED <<regs, start, run, tmp, reboot, reset>>
      BY <2>1 DEF vars
    <3>2. Left' = Left /\ version' = version
      BY <3>1 DEF Left, version
    <3>3. \A b \in BOOLEAN : (ModeSet1(b) => ModeSet1(b)') /\ (KeySet(b) => KeySet(b)')
      BY <3>1, <3>2 DEF ModeSet1, KeySet, Split, ModeAsked
    <3>4. \A k \in BOOLEAN : ModeSet(k) => ModeSet(k)'
      BY <3>1, <3>2 DEF ModeSet, Split, ModeAsked, AfterMode
    <3>5. (DfdSet => DfdSet') /\ (GivesUp => GivesUp')
      BY <3>1, <3>2 DEF DfdSet, GivesUp, Split
    <3>6. Going => Going'
      BY <3>1, <3>2, <3>3, <3>4, <3>5 DEF Going
    <3>7. SspmEnds => SspmEnds'
      BY <3>1 DEF SspmEnds, Split
    <3> QED BY <3>1, <3>6, <3>7 DEF RebootInv, Undisturbed, Rebooting
  <2>2. ASSUME NEW p \in Procs, Call(p) PROVE RebootInv'
    BY <2>2, CallFact, RebootCall
  <2>3. ASSUME NEW p \in Procs, Step(p) PROVE RebootInv'
    BY <2>3, RebootStep
  <2> QED BY <2>1, <2>2, <2>3 DEF Next
<1> QED BY <1>1, <1>2, Invariant, PTL DEF Spec

\* The reset that the restart handler triggers finds the power key, the mode, the
\* reserved DRAM and the DFD as its command asks, wherever the handler stopped
\* the other CPUs and whatever they had read and not yet written back.
THEOREM RguRebootAsked == Spec => []RebootAsAsked
<1>1. IInv /\ RebootInv => RebootAsAsked
  <2> SUFFICES ASSUME IInv, RebootInv, Rebooting, reset = reboot.cpu, Idle(Sspm)
               PROVE  /\ KeyBypassed <=> reboot.cmd \notin KeyCommands
                      /\ "EXTEN" \in regs["MODE"] /\ regs["MODE"] \cap {"IRQ", "DUAL"} = {}
                      /\ version = 1 => "ENABLE" \notin regs["MODE"]
                      /\ version = 2 /\ reboot.cmd # "ddr-reserve" =>
                           "DDR_RESERVE" \notin regs["MODE"] /\ "DFD_EN" \notin regs["LATCH_CTL2"]
    BY DEF RebootAsAsked
  <2>1. Undisturbed /\ reset # None /\ version \in {1, 2}
    BY ProcAssumption, StartAssumption DEF Undisturbed, RebootInv, Idle, version, IInv, Types, Procs
  <2>2. PICK b \in BOOLEAN, k \in BOOLEAN :
          /\ b <=> reboot.cmd \notin KeyCommands
          /\ k <=> reboot.cmd = "ddr-reserve"
          /\ version = 1 => ModeSet1(b)
          /\ version = 2 => IF reboot.cmd = "dm-verity unmarked" THEN GivesUp
                            ELSE KeySet(b) /\ ModeSet(k) /\ (k \/ DfdSet)
    BY <2>1 DEF RebootInv, Going
  <2>3. CASE version = 1
    <3>1. ModeAsked(regs["MODE"]) /\ "ENABLE" \notin regs["MODE"] /\ ("AUTO_RESTART" \in regs["MODE"] <=> b)
      BY <2>1, <2>2, <2>3 DEF ModeSet1
    <3> QED BY <2>2, <2>3, <3>1 DEF ModeAsked, KeyBypassed
  <2>4. CASE version = 2
    <3>1. KeySet(b) /\ ModeSet(k) /\ (k \/ DfdSet)
      BY <2>1, <2>2, <2>4 DEF GivesUp
    <3>2. "BYPASS_PWR_KEY" \in regs["NONRST2"] <=> b
      BY <2>1, <3>1 DEF KeySet
    <3>3. ModeAsked(regs["MODE"]) /\ (k \/ "DDR_RESERVE" \notin regs["MODE"])
      BY <2>1, <3>1 DEF ModeSet
    <3>4. k \/ "DFD_EN" \notin regs["LATCH_CTL2"]
      BY <2>1, <3>1 DEF DfdSet
    <3>5. KeyBypassed <=> "BYPASS_PWR_KEY" \in regs["NONRST2"]
      BY <2>4 DEF KeyBypassed
    <3>6. KeyBypassed <=> reboot.cmd \notin KeyCommands
      BY <2>2, <3>2, <3>5, Zenon
    <3>7. "EXTEN" \in regs["MODE"] /\ regs["MODE"] \cap {"IRQ", "DUAL"} = {}
      BY <3>3 DEF ModeAsked
    <3>8. version # 1
      BY <2>4
    <3>9. reboot.cmd # "ddr-reserve" =>
            "DDR_RESERVE" \notin regs["MODE"] /\ "DFD_EN" \notin regs["LATCH_CTL2"]
      BY <2>2, <3>3, <3>4, Zenon
    <3> QED BY <3>6, <3>7, <3>8, <3>9, Zenon
  <2> QED BY <2>1, <2>3, <2>4
<1> QED BY <1>1, Rebooted, Invariant, PTL

-----------------------------------------------------------------------------
(* The driver's variable and the timer.                                     *)

\* A reset that is under way or on the way.
Ends(c) == Split(c, {}, SwReset, Code)
Doomed == reset # None \/ \E p \in Procs : Ends(run[p])

LEMMA EndsFact ==
  /\ SwReset \in Instr /\ SwReset.op = "reset" /\ Code \in SUBSET Code
  /\ Ends(<<SwReset>>)
  /\ \A f \in Code : \A c : Ends(c) => Ends(f \o c)
  /\ \A c : \A q \in Code : Ends(c) => Ends(c \o q)
  /\ ~Ends(<<>>)
<1>1. SwReset \in Instr /\ SwReset.op = "reset" /\ Code \in SUBSET Code
  BY ResetWords
<1>2. Ends(<<SwReset>>)
  <2>1. <<>> \in Code /\ <<SwReset>> \o <<>> = <<SwReset>>
    BY <1>1, Tuples, EmptySeq DEF Code
  <2>2. Split(<<SwReset>> \o <<>>, {}, SwReset, Code)
    BY <1>1, <2>1, SplitHere
  <2> QED BY <2>1, <2>2 DEF Ends
<1>3. \A f \in Code : \A c : Ends(c) => Ends(f \o c)
  BY <1>1, CodeSparing, SplitPrefix DEF Ends
<1>4. ASSUME NEW c, NEW q \in Code, Ends(c) PROVE Ends(c \o q)
  <2>1. \A g \in Code : g \o q \in Code
    BY CodeAssociative
  <2> QED BY <1>1, <1>4, <2>1, SplitSuffix DEF Ends
<1>5. ~Ends(<<>>)
  BY <1>1, SplitNonEmpty DEF Ends
<1> QED BY <1>1, <1>2, <1>3, <1>4, <1>5

\* The operations that end in a reset.
LEMMA EndsPrograms ==
  /\ Ends(Api!mtk_wdt_sspm_isr)
  /\ \A b, k : Ends(Api!wdt_arch_reset(b, k))
  /\ \A c : c # "dm-verity unmarked" => Ends(Api!arch_reset(c))
  /\ \A b \in BOOLEAN : Ends(V1!wdt_arch_reset(b))
<1>1. Ends(Api!mtk_wdt_sspm_isr)
  BY SspmShape DEF Ends
<1>2. \A b, k : Ends(Api!wdt_arch_reset(b, k))
  BY ResetSplits DEF Ends
<1>3. ASSUME NEW c, c # "dm-verity unmarked" PROVE Ends(Api!arch_reset(c))
  <2>1. Api!arch_reset(c) = ArchMark(c) \o ArchRest(c)
    BY <1>3, ArchShape DEF Api!If
  <2>2. ArchMark(c) \in Code /\ ArchDfd(c) \in Code
    BY ArchShape, SparingParts DEF Bystanders
  <2>3. Ends(ArchRest(c))
    BY <1>2, <2>2, EndsFact DEF ArchRest
  <2> QED BY <2>1, <2>2, <2>3, EndsFact
<1>4. ASSUME NEW b \in BOOLEAN PROVE Ends(V1!wdt_arch_reset(b))
  <2> DEFINE w == Reset1Mode(b)
             f == <<Kick>> \o <<Read("MODE"), w>>
             h == <<SwReset>>
             u == <<Unlock("rgu")>>
  <2>1. V1!wdt_arch_reset(b) = (<<Lock("rgu")>> \o (f \o h)) \o u
    BY Words1 DEF V1!wdt_arch_reset, V1!Locked, V1!Under, V1!Rmw, V1!Flag, Flag, Reset1Mode
  <2>2. w \in Instr /\ Kick \in Instr /\ Read("MODE") \in Instr
    BY Reset1Words, ResetWords
  <2>3. Lock("rgu") \in Instr /\ Unlock("rgu") \in Instr
    BY SleepWords
  <2> HIDE DEF w
  <2>4. <<Lock("rgu")>> \in Code /\ u \in Code /\ f \in Code
    <3>1. <<Kick>> \in Code /\ <<Read("MODE"), w>> \in Code
      BY <2>2 DEF Code
    <3>2. <<Lock("rgu")>> \in Code /\ u \in Code
      BY <2>3 DEF Code
    <3> QED BY <3>1, <3>2, CodeAssociative
  <2> HIDE DEF f, u
  <2>5. Ends(f \o h)
    BY <2>4, EndsFact
  <2>6. Ends(<<Lock("rgu")>> \o (f \o h))
    BY <2>4, <2>5, EndsFact
  <2>7. Ends((<<Lock("rgu")>> \o (f \o h)) \o u)
    BY <2>4, <2>6, EndsFact
  <2> QED BY <2>1, <2>7
<1> QED BY <1>1, <1>2, <1>3, <1>4

\* A reset that is on the way stays on the way.
LEMMA DoomedStays ==
  ASSUME IInv, Doomed, NEW p \in Procs, Step(p) \/ \E o : Called(p, o)
  PROVE  Doomed'
<1>1. reset = None
  BY StepFact DEF Called
<1>2. PICK q \in Procs : Ends(run[q])
  BY <1>1 DEF Doomed
<1>3. ASSUME Ends(run'[q]) PROVE Doomed'
  BY <1>3 DEF Doomed, Ends, Split
<1>4. ASSUME q # p PROVE Doomed'
  <2>1. run'[q] = run[q]
    BY <1>4, StepFact DEF Called
  <2> QED BY <1>2, <1>3, <2>1
<1>5. ASSUME q = p, Step(p) PROVE Doomed'
  <2>1. Effect(p, SwReset) \/ Ends(run'[p])
    BY <1>2, <1>5, EndsFact, SplitSteps DEF Ends
  <2>2. ASSUME Effect(p, SwReset) PROVE Doomed'
    <3>1. reset' = p /\ p # None
      BY <2>2, EndsFact, ProcAssumption DEF Effect
    <3> QED BY <3>1 DEF Doomed
  <2> QED BY <1>3, <1>5, <2>1, <2>2
<1>6. ASSUME q = p, NEW o, Called(p, o) PROVE FALSE
  <2>1. run[q] = <<>>
    BY <1>6 DEF Called
  <2> QED BY <1>2, <2>1, EndsFact
<1> QED BY <1>4, <1>5, <1>6

\* The argument of mtk_wdt_enable() in version 1.
LEMMA Arguments1 ==
  ASSUME NEW o \in V1!Ops, o[1] = "enable"
  PROVE  \E b \in BOOLEAN : o = <<"enable", b>>
<1>1. CASE o \in {<<"timeout">>, <<"confirm">>}
  <2>1. o[1] \in {"timeout", "confirm"}
    BY <1>1
  <2> QED BY <2>1
<1>2. CASE o \in {"enable"} \X BOOLEAN
  BY <1>2
<1>3. CASE o \in {"request_en", "request_mode", "swsys"} \X V1!Names \X BOOLEAN
  <2>1. PICK n \in {"request_en", "request_mode", "swsys"}, m \in V1!Names, b \in BOOLEAN :
          o = <<n, m, b>>
    BY <1>3
  <2>2. o[1] = n
    BY <2>1
  <2> QED BY <2>2
<1>4. CASE o \in {"toprgu_assert", "toprgu_reset"} \X SwsysFlags
  BY <1>4
<1>5. CASE o \in {"restart", "arch_reset"} \X V1!Names
  <2>1. PICK n \in {"restart", "arch_reset"}, c \in V1!Names : o = <<n, c>>
    BY <1>5
  <2>2. o[1] = n
    BY <2>1
  <2> QED BY <2>2
<1>6. \/ o \in {<<"timeout">>, <<"confirm">>} \/ o \in {"enable"} \X BOOLEAN
      \/ o \in {"request_en", "request_mode", "swsys"} \X V1!Names \X BOOLEAN
      \/ o \in {"toprgu_assert", "toprgu_reset"} \X SwsysFlags
      \/ o \in {"restart", "arch_reset"} \X V1!Names
  BY Zenon DEF V1!Ops, V1!SwsysFlags, SwsysFlags
<1> QED BY <1>1, <1>2, <1>3, <1>4, <1>5, <1>6, Zenon

\* What is left of mtk_wdt_enable() before each of its accesses.
Writing(en) == <<EnableWrite(en)>> \o <<Unlock("rgu")>>
Storing(en) == <<SetEnable(en)>> \o Writing(en)
Reading(en) == <<Read("MODE")>> \o Storing(en)
Entering(en) == <<Lock("rgu")>> \o Reading(en)

LEMMA EnableTails ==
  ASSUME NEW en \in BOOLEAN
  PROVE  /\ Writing(en) # <<>> /\ Head(Writing(en)) = EnableWrite(en)
         /\ Tail(Writing(en)) = <<Unlock("rgu")>> /\ <<Unlock("rgu")>> \in Bystanders
         /\ Storing(en) # <<>> /\ Head(Storing(en)) = SetEnable(en) /\ Tail(Storing(en)) = Writing(en)
         /\ Reading(en) # <<>> /\ Head(Reading(en)) = Read("MODE") /\ Tail(Reading(en)) = Storing(en)
         /\ Entering(en) # <<>> /\ Head(Entering(en)) = Lock("rgu")
         /\ Tail(Entering(en)) = Reading(en)
         /\ V1!Locked(EnableCore(en)) = Entering(en) /\ Api!Locked(EnableCore(en)) = Entering(en)
<1> DEFINE u == <<Unlock("rgu")>>
           l == <<Lock("rgu")>>
<1>1. /\ EnableWrite(en) \in Instr /\ SetEnable(en) \in Instr /\ Read("MODE") \in Instr
      /\ Lock("rgu") \in Instr /\ Unlock("rgu") \in Instr
  BY EnableWords, SleepWords
<1>2. u \in Code /\ l \in Code /\ EnableCore(en) \in Code
  BY <1>1 DEF Code, EnableCore
<1>3. u \in Bystanders
  <2>1. Unlock("rgu") \in Words(Core)
    BY CoreFact, SparingWord DEF Locks
  <2> QED BY <2>1, SparingParts DEF Bystanders
<1>4. (l \o EnableCore(en)) \o u = l \o (EnableCore(en) \o u)
  <2>1. \A a, b \in Code : (a \o b) \o u = a \o (b \o u)
    BY <1>2, Associate
  <2> QED BY <1>2, <2>1, Zenon
<1> HIDE DEF u, l
<1>5. EnableCore(en) \o u = <<Read("MODE")>> \o (<<SetEnable(en)>> \o (<<EnableWrite(en)>> \o u))
  <2> DEFINE i == Read("MODE")
             j == SetEnable(en)
             w == EnableWrite(en)
  <2>1. i \in Instr /\ j \in Instr /\ w \in Instr
    BY <1>1
  <2>2. EnableCore(en) = <<i, j, w>>
    BY DEF EnableCore
  <2> HIDE DEF i, j, w
  <2>3. <<i, j, w>> \o u = <<i>> \o (<<j>> \o (<<w>> \o u))
    BY <1>2, <2>1, Unfold3
  <2> QED BY <2>2, <2>3, Zenon DEF i, j, w
<1>6. EnableCore(en) \o u = Reading(en)
  BY <1>5 DEF Reading, Storing, Writing, u
<1>7. (l \o EnableCore(en)) \o u = Entering(en)
  BY <1>4, <1>6 DEF Entering, l
<1>8. Api!Locked(EnableCore(en)) = Entering(en)
  BY <1>7, Words2 DEF Api!Locked, l, u
<1>9. V1!Locked(EnableCore(en)) = Entering(en)
  BY <1>7, Words1 DEF V1!Locked, V1!Under, l, u
<1>10. Writing(en) \in Code /\ Writing(en) # <<>> /\ Head(Writing(en)) = EnableWrite(en)
       /\ Tail(Writing(en)) = u
  BY <1>1, <1>2, OneCons DEF Writing, u
<1>11. Storing(en) \in Code /\ Storing(en) # <<>> /\ Head(Storing(en)) = SetEnable(en)
       /\ Tail(Storing(en)) = Writing(en)
  BY <1>1, <1>10, OneCons DEF Storing
<1>12. Reading(en) \in Code /\ Reading(en) # <<>> /\ Head(Reading(en)) = Read("MODE")
       /\ Tail(Reading(en)) = Storing(en)
  BY <1>1, <1>11, OneCons DEF Reading
<1>13. Entering(en) # <<>> /\ Head(Entering(en)) = Lock("rgu") /\ Tail(Entering(en)) = Reading(en)
  BY <1>1, <1>12, OneCons DEF Entering
<1> QED BY <1>3, <1>8, <1>9, <1>10, <1>11, <1>12, <1>13 DEF u

\* What the callers of a machine run that reaches the timer's ENABLE bit by
\* mtk_wdt_enable() and the suspends only.
Configures == {"config", "set_mode", "confirm", "dram", "dram_mode"}
Switches(s) == \A p \in Procs : \A o \in s.ops[p] : o[1] \notin Configures

LEMMA SwitchesProgram ==
  ASSUME IInv, Switches(start), NEW p \in Callers, NEW o, Called(p, o)
  PROVE  \/ Ends(Program(o)) \/ Program(o) \in Bystanders
         \/ \E en \in BOOLEAN : Program(o) = Entering(en)
<1>1. o[1] \notin Configures /\ p \in Procs /\ version \in {1, 2}
  BY StartAssumption DEF Switches, Called, Procs, version, IInv, Types
<1>2. CASE version = 1
  <2>1. o \in V1!Ops /\ Program(o) = V1!Program(o)
    BY <1>2 DEF Called, Program
  <2>2. CASE o[1] \notin Stirring1
    BY <2>1, <2>2, Aside1Program
  <2>3. CASE o[1] = "arch_reset"
    <3>1. Program(o) = V1!wdt_arch_reset(V1!BypassKey(o[2]))
      BY <2>1, <2>3 DEF V1!Program
    <3>2. PICK b \in BOOLEAN : b = V1!BypassKey(o[2])
      BY DEF V1!BypassKey
    <3>3. Program(o) = V1!wdt_arch_reset(b)
      BY <3>1, <3>2, Zenon
    <3> QED BY <3>3, EndsPrograms
  <2>4. CASE o[1] = "enable"
    <3>1. \E b \in BOOLEAN : o = <<"enable", b>>
      BY <2>1, <2>4, Arguments1
    <3>2. PICK b \in BOOLEAN : o = <<"enable", b>>
      BY <3>1
    <3>3. Program(o) = V1!mtk_wdt_enable(b)
      BY <2>1, <3>2 DEF V1!Program
    <3> QED BY <3>3, EnableShape, EnableTails
  <2> QED BY <1>1, <2>2, <2>3, <2>4 DEF Stirring1, Configures
<1>3. CASE version = 2
  <2>1. o \in Api!Ops /\ Program(o) = Api!Program(o)
    BY <1>3 DEF Called, Program
  <2>2. CASE o[1] \notin Stirring2
    BY <2>1, <2>2, Aside2Program
  <2>3. CASE o[1] = "arch_reset"
    <3>1. Program(o) = Api!arch_reset(o[2])
      BY <2>1, <2>3 DEF Api!Program
    <3>2. CASE o[2] # "dm-verity unmarked"
      BY <3>1, <3>2, EndsPrograms
    <3>3. CASE o[2] = "dm-verity unmarked"
      <4>1. Program(o) = ArchMark(o[2]) \o <<>> /\ ArchMark(o[2]) \in Bystanders
        BY <3>1, <3>3, ArchShape DEF Api!If
      <4> QED BY <4>1, SparingParts DEF Bystanders
    <3> QED BY <3>2, <3>3
  <2>4. CASE o[1] = "sw_reset"
    <3>1. Program(o) = Api!wdt_arch_reset(o[2], o[3])
      BY <2>1, <2>4 DEF Api!Program
    <3> QED BY <3>1, EndsPrograms
  <2>5. CASE o[1] = "enable"
    <3>1. \E n : \E b \in BOOLEAN : o = <<n, b>>
      BY <2>1, <2>5, Arguments2, Zenon
    <3>2. PICK n : \E b \in BOOLEAN : o = <<n, b>>
      BY <3>1
    <3>3. PICK b \in BOOLEAN : o = <<n, b>>
      BY <3>2
    <3>4. Program(o) = Api!If(start.doe, Entering(b))
      <4>1. Program(o) = Api!mtk_wdt_enable(b)
        BY <2>1, <2>5, <3>3 DEF Api!Program
      <4> QED BY <4>1, EnableShape, EnableTails
    <3>5. Program(o) = Entering(b) \/ Program(o) = <<>>
      BY <3>4 DEF Api!If
    <3> QED BY <3>5, SparingParts DEF Bystanders
  <2> QED BY <1>1, <2>2, <2>3, <2>4, <2>5 DEF Stirring2, Configures
<1> QED BY <1>1, <1>2, <1>3

\* A resume turns the timer on again if the driver believes so.
LEMMA ResumeShape ==
  /\ version = 1 /\ wdt_enable =>
       Split(V1!mtk_wd_resume, {"enable"}, TimerWrite(TRUE), Sparing({"MODE", "enable"}))
  /\ version = 2 /\ wdt_enable /\ ~start.dirty =>
       Split(Api!mtk_wd_resume, {"enable"}, TimerWrite(TRUE), Sparing({"MODE", "enable"}))
  /\ ~wdt_enable => V1!mtk_wd_resume = <<>> /\ Api!mtk_wd_resume = <<>>
  /\ start.dirty => Api!mtk_wd_suspend \in Bystanders /\ Api!mtk_wd_resume \in Bystanders
<1> DEFINE w == TimerWrite(TRUE)
           X == {"enable"}
           Y == {"MODE", "enable"}
           U == Sparing(Y)
           mark == Api!Assign("NONRST2", "SUSPEND_DIS", FALSE)
<1>1. w \in Instr /\ U \in SUBSET Code
  BY SleepWords, SparingParts
<1>2. Y \subseteq Core /\ X \subseteq Core /\ None \notin Y /\ "NONRST2" \notin Y
  BY DEF Core, None
<1>3. Bystanders \subseteq U /\ Bystanders \subseteq Sparing(X) /\ Bystanders \subseteq Code
  BY <1>2, WordsFact, SparingParts DEF Bystanders
<1>4. /\ \A f, g \in U : f \o g \in U
      /\ \A f, g \in Bystanders : f \o g \in Bystanders
      /\ <<>> \in Bystanders
  BY SparingParts DEF Bystanders
<1>5. mark \in U
  <2>1. Read("NONRST2") \in Words(Y) /\ Unmark \in Words(Y)
    BY <1>2, SleepWords
  <2> QED BY <2>1, MarkShape, SparingParts
<1>6. "PROBE" \in RegFlags["LENGTH"]
  BY RegFlagsFact
<1>7. ASSUME version = 1, wdt_enable PROVE Split(V1!mtk_wd_resume, X, w, U)
  <2> DEFINE t == V1!mtk_wdt_set_time_out_value("PROBE")
             c == V1!mtk_wdt_mode_config(TRUE, TRUE, TRUE, FALSE, TRUE)
             k == V1!mtk_wdt_restart("NORMAL")
  <2>1. Split(c, X, w, U)
    BY <1>7, TimerConfig
  <2>2. k \in U /\ k \in Code /\ t \in Sparing(X)
    BY <1>3, <1>6, Aside1
  <2>3. V1!mtk_wd_resume = (t \o c) \o k
    BY <1>7 DEF V1!mtk_wd_resume, V1!If
  <2> HIDE DEF c, k, t, w, U
  <2>4. Split(t \o c, X, w, U)
    BY <1>1, <2>1, <2>2, SplitPrefix
  <2>5. Split((t \o c) \o k, X, w, U)
    BY <1>1, <1>4, <2>2, <2>4, SplitSuffix
  <2> QED BY <2>3, <2>5 DEF w, U
<1>8. ASSUME version = 2, wdt_enable, ~start.dirty PROVE Split(Api!mtk_wd_resume, X, w, U)
  <2> DEFINE t == Api!mtk_wdt_set_time_out_value("PROBE")
             c == Api!mtk_wdt_mode_config(TRUE, TRUE, TRUE, FALSE, TRUE)
             k == Api!mtk_wdt_restart
  <2>1. Split(c, X, w, U)
    BY <1>8, TimerConfig
  <2>2. k \in U /\ k \in Code /\ t \in Sparing(X)
    BY <1>3, <1>6, AsideTimer2
  <2>3. Api!mtk_wd_resume = (t \o (c \o mark)) \o k
    BY <1>8 DEF Api!mtk_wd_resume, Api!If, Api!dirty
  <2> HIDE DEF c, k, t, w, U, mark
  <2>4. mark \in Code
    BY <1>1, <1>5
  <2>5. Split(c \o mark, X, w, U)
    BY <1>1, <1>4, <1>5, <2>1, <2>4, SplitSuffix
  <2>6. Split(t \o (c \o mark), X, w, U)
    BY <1>1, <2>2, <2>5, SplitPrefix
  <2>7. Split((t \o (c \o mark)) \o k, X, w, U)
    BY <1>1, <1>4, <2>2, <2>6, SplitSuffix
  <2> QED BY <2>3, <2>7 DEF w, U
<1>9. ~wdt_enable => V1!mtk_wd_resume = <<>> /\ Api!mtk_wd_resume = <<>>
  BY DEF V1!mtk_wd_resume, V1!If, Api!mtk_wd_resume, Api!If
<1>10. ASSUME start.dirty
       PROVE  Api!mtk_wd_suspend \in Bystanders /\ Api!mtk_wd_resume \in Bystanders
  <2> DEFINE t == Api!mtk_wdt_set_time_out_value("PROBE")
             k == Api!mtk_wdt_restart
  <2>1. t \in Bystanders /\ k \in Bystanders
    BY <1>6, AsideTimer2
  <2>2. Api!mtk_wd_suspend = <<>> \o k
    BY <1>10 DEF Api!mtk_wd_suspend, Api!If, Api!dirty
  <2>3. Api!mtk_wd_resume = (t \o <<>>) \o k \/ Api!mtk_wd_resume = <<>>
    BY <1>10 DEF Api!mtk_wd_resume, Api!If, Api!dirty
  <2> HIDE DEF t, k
  <2> QED BY <1>4, <2>1, <2>2, <2>3
<1> QED BY <1>7, <1>8, <1>9, <1>10

\* The lock of a step: who holds it keeps it while another caller steps.
LEMMA LockFact ==
  ASSUME IInv, NEW p \in Procs, Step(p)
  PROVE  /\ \A q \in Procs \ {p} : lock["rgu"] = q => lock'["rgu"] = q
         /\ Next1(p).op \notin {"lock", "unlock"} => lock' = lock
         /\ Next1(p) = Lock("rgu") => lock'["rgu"] = p
<1> DEFINE i == Next1(p)
<1>1. Types /\ i \in Instr /\ run[p] # <<>> /\ "rgu" \in Locks
  BY StepFact DEF IInv, Follows, Locks
<1>2. PICK x \in Points : At(p, x)
  BY DEF IInv
<1>3. CASE TakeLock(p)
  <2>1. i.op = "lock" /\ lock[i.lock] = None /\ lock' = [lock EXCEPT ![i.lock] = p]
    BY <1>3 DEF TakeLock, CanStep
  <2>2. i.lock \in Locks /\ lock'[i.lock] = p /\ \A l \in Locks \ {i.lock} : lock'[l] = lock[l]
    BY <1>1, <2>1, InstrFact DEF Types
  <2>3. i = Lock("rgu") => i.lock = "rgu"
    BY DEF Lock
  <2> QED BY <1>1, <2>1, <2>2, <2>3, ProcAssumption
<1>4. CASE DropLock(p)
  <2>1. i.op = "unlock" /\ lock' = [lock EXCEPT ![i.lock] = None]
    BY <1>4 DEF DropLock, CanStep
  <2>2. i.lock \in Locks /\ \A l \in Locks \ {i.lock} : lock'[l] = lock[l]
    BY <1>1, <2>1, InstrFact DEF Types
  <2>3. lock[i.lock] = p
    <3>1. Good(start, p, i, x)
      BY <1>1, <1>2, AtHead
    <3>2. x[1] = i.lock
      BY <2>1, <3>1 DEF Good
    <3> QED BY <1>2, <2>2, <3>2 DEF At, Holds
  <2>4. i # Lock("rgu")
    BY <2>1 DEF Lock
  <2> QED BY <1>1, <2>1, <2>2, <2>3, <2>4
<1>5. CASE lock' = lock /\ i.op # "lock"
  <2>1. i # Lock("rgu")
    BY <1>5 DEF Lock
  <2> QED BY <1>5, <2>1
<1> QED BY <1>3, <1>4, <1>5 DEF Step, ReadReg, WriteReg, PutReg, BranchOnReg, StoreEnable, ActOutside,
           TriggerReset, CanStep

\* Between the store of the driver's variable and the write of MODE the caller
\* holds the lock, and only then the two may differ.
TimerAgrees == "ENABLE" \in regs["MODE"] <=> wdt_enable
AtWrite(q) == \E en \in BOOLEAN : lock["rgu"] = q /\ run[q] = Writing(en) /\ wdt_enable = en
Switching(q) ==
  \/ run[q] \in Bystanders
  \/ \E en \in BOOLEAN :
       \/ run[q] = Entering(en)
       \/ lock["rgu"] = q /\ run[q] \in {Reading(en), Storing(en)}
  \/ AtWrite(q)
Agreeing == TimerAgrees \/ \E q \in Callers : AtWrite(q)
Sleeper ==
  \/ run[Pm] \in Sparing({"MODE", "enable"}) /\ Agreeing
  \/ /\ ~suspended /\ wdt_enable
     /\ Split(run[Pm], {"enable"}, TimerWrite(TRUE), Sparing({"MODE", "enable"}))
  \/ suspended /\ (version = 1 \/ ~start.dirty)
FollowInv ==
  Switches(start) => Doomed \/ ((\A q \in Callers : Switching(q)) /\ Sleeper)

\* A step of a caller.
LEMMA SwitchStep ==
  ASSUME IInv, NEW p \in Callers, Step(p), \A q \in Callers : Switching(q), Agreeing
  PROVE  (\A q \in Callers : Switching(q)') /\ Agreeing'
<1> DEFINE i == Next1(p)
<1>1. /\ p \in Procs /\ i \in Instr /\ Effect(p, i) /\ Follows(run[p], run'[p])
      /\ \A q \in Callers \ {p} : run'[q] = run[q]
      /\ i = Head(run[p]) /\ "MODE" \in Regs
  BY StepFact, RegsFact DEF Procs, Next1
<1>2. /\ \A q \in Callers \ {p} : lock["rgu"] = q => lock'["rgu"] = q
      /\ i.op \notin {"lock", "unlock"} => lock' = lock
      /\ i = Lock("rgu") => lock'["rgu"] = p
  BY LockFact DEF Procs
<1> HIDE DEF i
<1>3. ASSUME wdt_enable' = wdt_enable \/ lock["rgu"] = p, NEW q \in Callers \ {p}
      PROVE  Switching(q)' /\ (AtWrite(q) => AtWrite(q)')
  <2>1. run'[q] = run[q] /\ (lock["rgu"] = q => lock'["rgu"] = q /\ wdt_enable' = wdt_enable)
    BY <1>1, <1>2, <1>3
  <2>2. AtWrite(q) => AtWrite(q)'
    BY <2>1 DEF AtWrite, Writing
  <2> QED BY <2>1, <2>2 DEF Switching, Entering, Reading, Storing, Writing
<1>4. ASSUME wdt_enable' = wdt_enable \/ lock["rgu"] = p, Switching(p)',
             TimerAgrees' \/ (~AtWrite(p) /\ (TimerAgrees => TimerAgrees')) \/ AtWrite(p)'
      PROVE  (\A q \in Callers : Switching(q)') /\ Agreeing'
  <2>1. \A q \in Callers : Switching(q)'
    BY <1>3, <1>4
  <2>2. \A q \in Callers \ {p} : AtWrite(q) => AtWrite(q)'
    BY <1>3, <1>4
  <2>3. Agreeing'
    BY <1>4, <2>2 DEF Agreeing
  <2> QED BY <2>1, <2>3
<1>5. CASE AtWrite(p)
  <2>1. PICK en \in BOOLEAN : lock["rgu"] = p /\ run[p] = Writing(en) /\ wdt_enable = en
    BY <1>5 DEF AtWrite
  <2>2. /\ Head(Writing(en)) = EnableWrite(en) /\ Tail(Writing(en)) = <<Unlock("rgu")>>
        /\ <<Unlock("rgu")>> \in Bystanders
        /\ EnableWrite(en).op = "write" /\ EnableWrite(en).reg = "MODE"
        /\ en => "ENABLE" \in EnableWrite(en).set /\ EnableWrite(en).clear = {}
        /\ ~en => "ENABLE" \in EnableWrite(en).clear
    BY EnableTails, EnableWords
  <2>3. i = EnableWrite(en) /\ run'[p] \in Bystanders
    BY <1>1, <2>1, <2>2 DEF Follows
  <2>4. wdt_enable' = wdt_enable /\ ("ENABLE" \in regs'["MODE"] <=> en)
    BY <1>1, <2>2, <2>3 DEF Effect
  <2>5. TimerAgrees' /\ Switching(p)'
    BY <2>1, <2>3, <2>4 DEF TimerAgrees, Switching, Bystanders
  <2> QED BY <1>4, <2>4, <2>5
<1>6. ASSUME ~AtWrite(p), wdt_enable' = wdt_enable, regs'["MODE"] = regs["MODE"], Switching(p)'
      PROVE  (\A q \in Callers : Switching(q)') /\ Agreeing'
  <2>1. TimerAgrees => TimerAgrees'
    BY <1>6 DEF TimerAgrees
  <2> QED BY <1>4, <1>6, <2>1
<1>7. CASE ~AtWrite(p) /\ run[p] \in Bystanders
  <2>1. run'[p] \in Bystanders /\ Spared(Core)
    BY <1>1, <1>7, SparingStep DEF Bystanders
  <2>2. wdt_enable' = wdt_enable /\ regs'["MODE"] = regs["MODE"]
    BY <1>1, <2>1 DEF Spared, Core
  <2>3. Switching(p)'
    BY <2>1 DEF Switching, Bystanders
  <2> QED BY <1>6, <1>7, <2>2, <2>3
<1>8. ASSUME ~AtWrite(p), NEW en \in BOOLEAN,
             run[p] = Entering(en) \/ (lock["rgu"] = p /\ run[p] = Reading(en))
      PROVE  (\A q \in Callers : Switching(q)') /\ Agreeing'
  <2>1. /\ Head(Entering(en)) = Lock("rgu") /\ Tail(Entering(en)) = Reading(en)
        /\ Head(Reading(en)) = Read("MODE") /\ Tail(Reading(en)) = Storing(en)
        /\ Lock("rgu").op = "lock" /\ Read("MODE").op = "read"
    BY EnableTails DEF Lock, Read
  <2>2. \/ i = Lock("rgu") /\ run'[p] = Reading(en) /\ i.op = "lock"
        \/ i = Read("MODE") /\ run'[p] = Storing(en) /\ lock["rgu"] = p /\ i.op = "read"
    BY <1>1, <1>8, <2>1 DEF Follows
  <2>3. lock'["rgu"] = p /\ run'[p] \in {Reading(en), Storing(en)}
    BY <1>2, <2>2
  <2>4. wdt_enable' = wdt_enable /\ regs'["MODE"] = regs["MODE"]
    BY <1>1, <2>2 DEF Effect
  <2>5. Switching(p)'
    BY <2>3 DEF Switching, Reading, Storing, Writing
  <2> QED BY <1>6, <1>8, <2>4, <2>5
<1>9. ASSUME NEW en \in BOOLEAN, lock["rgu"] = p, run[p] = Storing(en)
      PROVE  (\A q \in Callers : Switching(q)') /\ Agreeing'
  <2>1. /\ Head(Storing(en)) = SetEnable(en) /\ Tail(Storing(en)) = Writing(en)
        /\ SetEnable(en).op = "enable" /\ SetEnable(en).val = en
    BY EnableTails, EnableWords
  <2>2. i = SetEnable(en) /\ run'[p] = Writing(en)
    BY <1>1, <1>9, <2>1 DEF Follows
  <2>3. wdt_enable' = en /\ lock'["rgu"] = p
    BY <1>1, <1>2, <1>9, <2>1, <2>2 DEF Effect
  <2>4. AtWrite(p)'
    BY <2>2, <2>3 DEF AtWrite, Writing
  <2>5. Switching(p)'
    BY <2>4 DEF Switching
  <2> QED BY <1>4, <1>9, <2>4, <2>5
<1>10. Switching(p)
  OBVIOUS
<1> QED BY <1>5, <1>7, <1>8, <1>9, <1>10 DEF Switching

\* A step of the suspend path.
LEMMA SleeperStep ==
  ASSUME IInv, Step(Pm), Sleeper, \A q \in Callers : run[q] = <<>>
  PROVE  Sleeper'
<1> DEFINE w == TimerWrite(TRUE)
           X == {"enable"}
           Y == {"MODE", "enable"}
           U == Sparing(Y)
<1>1. /\ Pm \in Procs /\ UNCHANGED <<start, suspended>> /\ "MODE" \in Regs
      /\ version' = version
  BY StepFact, RegsFact DEF Procs, version
<1>2. /\ w \in Instr /\ w.op = "write" /\ w.reg = "MODE" /\ U \in SUBSET Code
      /\ "ENABLE" \in w.set /\ "ENABLE" \notin w.clear
  BY SleepWords, SparingParts
<1>3. w' = w
  BY <1>1 DEF TimerWrite
<1>4. \A q \in Callers : ~AtWrite(q)
  BY EnableTails DEF AtWrite
<1> HIDE DEF w, U, X
<1>5. CASE run[Pm] \in U /\ Agreeing
  <2>1. run'[Pm] \in U /\ Spared(Y)
    BY <1>1, <1>5, SparingStep DEF U
  <2>2. TimerAgrees
    BY <1>4, <1>5 DEF Agreeing
  <2>3. regs'["MODE"] = regs["MODE"] /\ wdt_enable' = wdt_enable
    BY <1>1, <2>1 DEF Spared
  <2>4. Agreeing'
    BY <2>2, <2>3 DEF Agreeing, TimerAgrees
  <2> QED BY <2>1, <2>4 DEF Sleeper, U
<1>6. CASE ~suspended /\ wdt_enable /\ Split(run[Pm], X, w, U)
  <2>1. \/ Effect(Pm, w) /\ run'[Pm] \in U
        \/ Spared(X) /\ Split(run'[Pm], X, w, U)
    BY <1>1, <1>2, <1>6, SplitSteps
  <2>2. CASE Effect(Pm, w) /\ run'[Pm] \in U
    <3>1. wdt_enable' = wdt_enable /\ "ENABLE" \in regs'["MODE"]
      BY <1>1, <1>2, <2>2 DEF Effect
    <3>2. Agreeing'
      BY <1>6, <3>1 DEF Agreeing, TimerAgrees
    <3> QED BY <2>2, <3>2 DEF Sleeper, U
  <2>3. CASE Spared(X) /\ Split(run'[Pm], X, w, U)
    <3>1. wdt_enable' = wdt_enable
      BY <2>3 DEF Spared, X
    <3> QED BY <1>1, <1>3, <1>6, <2>3, <3>1 DEF Sleeper, Split, U, X, w
  <2> QED BY <2>1, <2>2, <2>3
<1>7. CASE suspended /\ (version = 1 \/ ~start.dirty)
  BY <1>1, <1>7 DEF Sleeper
<1> QED BY <1>5, <1>6, <1>7 DEF Sleeper, w, U, X

\* A call of the suspend path.
LEMMA SleeperCall ==
  ASSUME IInv, SleepInv, Sleeper, Calm, NEW o, Called(Pm, o)
  PROVE  Sleeper'
<1> DEFINE w == TimerWrite(TRUE)
           X == {"enable"}
           Y == {"MODE", "enable"}
           U == Sparing(Y)
<1>1. /\ UNCHANGED <<regs, wdt_enable, start, lock, tmp, reset>> /\ version' = version
      /\ version \in {1, 2} /\ run[Pm] = <<>> /\ run'[Pm] = Program(o)
      /\ o[1] \in {"suspend", "resume"} /\ suspended' = (o[1] = "suspend")
      /\ suspended = (o[1] = "resume")
      /\ \A q \in Callers : run[q] = <<>>
  BY StartAssumption DEF Called, MayCall, Idle, version, IInv, Types
<1>2. version \in {1, 2}
  BY <1>1
<1>3. w \in Instr /\ U \in SUBSET Code /\ ~Split(run[Pm], X, w, U)
  BY <1>1, SleepWords, SparingParts, SplitNonEmpty
<1>4. w' = w
  BY <1>1 DEF TimerWrite
<1>5. \A q \in Callers : ~AtWrite(q)
  BY <1>1, EnableTails DEF AtWrite
<1>6. Bystanders \subseteq U /\ <<>> \in U
  <2>1. Y \subseteq Core
    BY DEF Core
  <2> QED BY <2>1, WordsFact, SparingParts DEF Bystanders
<1> HIDE DEF w, U, X
<1>7. ASSUME TimerAgrees, Program(o) \in U PROVE Sleeper'
  <2>1. Agreeing'
    BY <1>1, <1>7 DEF Agreeing, TimerAgrees
  <2> QED BY <1>1, <1>7, <2>1 DEF Sleeper, U
<1>8. CASE version = 2 /\ start.dirty
  <2>1. Program(o) \in Bystanders
    BY <1>1, <1>8, Plain2, ResumeShape DEF Program
  <2>2. version # 1
    BY <1>8
  <2>3. TimerAgrees
    BY <1>3, <1>5, <1>8, <2>2, Zenon DEF Sleeper, Agreeing, w, U, X
  <2> QED BY <1>6, <1>7, <2>1, <2>3
<1>9. CASE (version = 1 \/ ~start.dirty) /\ o[1] = "suspend"
  BY <1>1, <1>9 DEF Sleeper
<1>10. CASE (version = 1 \/ ~start.dirty) /\ o[1] = "resume"
  <2>1. "ENABLE" \notin regs["MODE"]
    <3>1. TimerGoesOff
      BY <1>1, <1>10 DEF SleepInv
    <3>2. ~Split(run[Pm], {"enable"}, TimerWrite(FALSE), Sparing({"MODE", "enable"}))
      <4>1. TimerWrite(FALSE) \in Instr /\ Sparing({"MODE", "enable"}) \in SUBSET Code
        BY SleepWords, SparingParts
      <4> QED BY <1>1, <4>1, SplitNonEmpty
    <3> QED BY <3>1, <3>2 DEF TimerGoesOff
  <2>2. CASE ~wdt_enable
    <3>1. Program(o) = <<>>
      BY <1>1, <1>10, <2>2, Plain1, Plain2, ResumeShape DEF Program
    <3>2. TimerAgrees
      BY <2>1, <2>2 DEF TimerAgrees
    <3> QED BY <1>6, <1>7, <3>1, <3>2
  <2>3. CASE wdt_enable
    <3>1. Split(Program(o), X, w, U)
      <4>1. CASE version = 1
        BY <1>10, <2>3, <4>1, Plain1, ResumeShape DEF Program, X, w, U
      <4>2. CASE version = 2
        <5>1. version # 1 /\ Program(o) = Api!mtk_wd_resume
          BY <1>10, <4>2, Plain2 DEF Program
        <5>2. ~start.dirty
          BY <1>10, <5>1, Zenon
        <5> QED BY <2>3, <4>2, <5>1, <5>2, ResumeShape, Zenon DEF X, w, U
      <4> QED BY <1>2, <4>1, <4>2
    <3>2. ~suspended' /\ wdt_enable'
      BY <1>1, <1>10, <2>3
    <3> QED BY <1>1, <1>4, <3>1, <3>2 DEF Sleeper, Split, U, X, w
  <2> QED BY <2>2, <2>3
<1> QED BY <1>1, <1>8, <1>9, <1>10

LEMMA FollowStep ==
  ASSUME IInv, SleepInv, FollowInv, NEW p \in Procs, Step(p)
  PROVE  FollowInv'
<1>1. /\ start' = start /\ suspended' = suspended /\ version' = version
      /\ reset = None /\ run[p] # <<>> /\ \A q \in Procs \ {p} : run'[q] = run[q]
  BY StepFact DEF version, Follows
<1> SUFFICES ASSUME Switches(start), ~Doomed'
             PROVE  (\A q \in Callers : Switching(q)') /\ Sleeper'
  BY <1>1 DEF FollowInv, Switches
<1>2. ~Doomed /\ (\A q \in Callers : Switching(q)) /\ Sleeper
  BY DoomedStays DEF FollowInv
<1>3. p # Sspm
  BY <1>1, <1>2 DEF SleepInv, SspmEnds, Doomed, Ends, Procs
<1>4. CASE p \in Callers
  <2>1. run[Pm] = <<>> /\ ~suspended /\ run'[Pm] = run[Pm]
    BY <1>1, <1>4, ProcAssumption DEF SleepInv, Alone, Procs
  <2>2. ~Split(run[Pm], {"enable"}, TimerWrite(TRUE), Sparing({"MODE", "enable"}))
    <3>1. TimerWrite(TRUE) \in Instr /\ Sparing({"MODE", "enable"}) \in SUBSET Code
      BY SleepWords, SparingParts
    <3> QED BY <2>1, <3>1, SplitNonEmpty
  <2>3. Agreeing
    BY <1>2, <2>1, <2>2 DEF Sleeper
  <2>4. (\A q \in Callers : Switching(q)') /\ Agreeing'
    BY <1>2, <1>4, <2>3, SwitchStep
  <2>5. run'[Pm] \in Sparing({"MODE", "enable"})
    BY <2>1, SparingParts
  <2> QED BY <2>4, <2>5 DEF Sleeper
<1>5. CASE p = Pm
  <2>1. \A q \in Callers : run[q] = <<>> /\ run'[q] = <<>>
    BY <1>1, <1>5, ProcAssumption DEF SleepInv, Alone, Procs
  <2>2. \A q \in Callers : Switching(q)'
    BY <2>1, SparingParts DEF Switching, Bystanders
  <2>3. Sleeper'
    BY <1>2, <1>5, <2>1, SleeperStep
  <2> QED BY <2>2, <2>3
<1> QED BY <1>3, <1>4, <1>5 DEF Procs

LEMMA FollowCall ==
  ASSUME IInv, SleepInv, FollowInv, NEW p \in Procs, NEW o, Called(p, o)
  PROVE  FollowInv'
<1>1. /\ UNCHANGED <<regs, wdt_enable, start, lock, tmp, reset>> /\ version' = version
      /\ reset = None /\ run[p] = <<>> /\ run'[p] = Program(o)
      /\ \A q \in Procs \ {p} : run'[q] = run[q]
  BY DEF version, Called
<1> SUFFICES ASSUME Switches(start), ~Doomed'
             PROVE  (\A q \in Callers : Switching(q)') /\ Sleeper'
  BY <1>1 DEF FollowInv, Switches
<1>2. ~Doomed /\ (\A q \in Callers : Switching(q)) /\ Sleeper
  BY DoomedStays DEF FollowInv
<1>3. ~Ends(Program(o))
  BY <1>1 DEF Doomed, Ends, Split
<1>4. p # Sspm /\ Calm
  <2>1. p = Sspm => Program(o) = Api!mtk_wdt_sspm_isr
    BY Plain2 DEF Called, Program
  <2> QED BY <1>1, <1>2, <1>3, <2>1, EndsPrograms DEF SleepInv, SspmEnds, Doomed, Ends, Procs, Calm
<1>5. ASSUME NEW q \in Callers \ {p}
      PROVE  Switching(q)' /\ (AtWrite(q) => AtWrite(q)')
  <2>1. run'[q] = run[q] /\ Switching(q)
    BY <1>1, <1>2 DEF Procs
  <2>2. AtWrite(q) => AtWrite(q)'
    BY <1>1, <2>1 DEF AtWrite, Writing
  <2> QED BY <1>1, <2>1, <2>2 DEF Switching, Entering, Reading, Storing, Writing
<1>6. CASE p \in Callers
  <2>1. run[Pm] = <<>> /\ ~suspended /\ run'[Pm] = run[Pm]
    BY <1>1, <1>6, ProcAssumption DEF Called, MayCall, Idle, Procs
  <2>2. ~Split(run[Pm], {"enable"}, TimerWrite(TRUE), Sparing({"MODE", "enable"}))
    <3>1. TimerWrite(TRUE) \in Instr /\ Sparing({"MODE", "enable"}) \in SUBSET Code
      BY SleepWords, SparingParts
    <3> QED BY <2>1, <3>1, SplitNonEmpty
  <2>3. Agreeing
    BY <1>2, <2>1, <2>2 DEF Sleeper
  <2>4. ~AtWrite(p)
    BY <1>1, EnableTails DEF AtWrite
  <2>5. Agreeing'
    <3>1. TimerAgrees => TimerAgrees'
      BY <1>1 DEF TimerAgrees
    <3> QED BY <1>5, <2>3, <2>4, <3>1 DEF Agreeing
  <2>6. run'[Pm] \in Sparing({"MODE", "enable"})
    BY <2>1, SparingParts
  <2>7. Switching(p)'
    <3>1. \/ Program(o) \in Bystanders
          \/ \E en \in BOOLEAN : Program(o) = Entering(en)
      BY <1>3, <1>6, SwitchesProgram
    <3> QED BY <1>1, <3>1 DEF Switching, Entering, Reading, Storing, Writing, Bystanders
  <2> QED BY <1>5, <2>5, <2>6, <2>7 DEF Sleeper
<1>7. CASE p = Pm
  <2>1. \A q \in Callers : Switching(q)'
    BY <1>5, <1>7, ProcAssumption
  <2>2. Sleeper'
    BY <1>2, <1>4, <1>7, SleeperCall
  <2> QED BY <2>1, <2>2
<1> QED BY <1>4, <1>6, <1>7 DEF Procs

\* After the probe the timer runs exactly if the driver believes so.
LEMMA ProbeAgrees == Init => TimerAgrees
<1> SUFFICES ASSUME Init PROVE TimerAgrees
  OBVIOUS
<1>1. start \in Starts /\ start.kicker \in BOOLEAN /\ start.doe \in BOOLEAN /\ version \in {1, 2}
  BY StartAssumption DEF Init, version
<1>2. PICK on \in BOOLEAN : on = wdt_enable
  BY DEF Init
<1>3. PICK m \in SUBSET RegFlags["MODE"] : m = InitialMode
  BY <1>1, <1>2, ProbeModes
<1>4. regs["MODE"] = m
  <2>1. {"PROBE"} \in SUBSET AllFlags /\ m \in SUBSET AllFlags
    BY <1>3, RegFlagsFact, FlagsFact, RegsFact
  <2>2. NoValues \in [Regs -> SUBSET AllFlags] /\ {"MODE", "LENGTH", "NONRST2"} \subseteq Regs
    BY NoValuesFact, RegsFact
  <2>3. PICK n : n = IF version = 2 THEN {"BYPASS_PWR_KEY"} ELSE {}
    OBVIOUS
  <2>4. regs = [NoValues EXCEPT !.MODE = m, !.LENGTH = {"PROBE"}, !.NONRST2 = n]
    BY <1>3, <2>3 DEF Init
  <2> QED BY <2>1, <2>2, <2>4
<1>5. CASE version = 1
  <2>1. PICK k \in BOOLEAN : k = start.kicker
    BY <1>1
  <2>2. m = V1!ModeFor(k, k, TRUE, FALSE, k)
    BY <1>3, <1>5, <2>1, Zenon DEF InitialMode, V1!ProbeMode, kicker
  <2>3. "ENABLE" \in m <=> k
    BY <2>2 DEF V1!ModeFor, V1!Flag
  <2>4. wdt_enable <=> k
    BY <1>5, <2>1 DEF Init, kicker
  <2> QED BY <1>4, <2>3, <2>4 DEF TimerAgrees
<1>6. CASE version = 2
  <2>1. m = Api!ModeFor(on, on, TRUE, FALSE, on)
    BY <1>2, <1>3, <1>6 DEF InitialMode, Api!ProbeMode
  <2>2. "ENABLE" \in m <=> on
    BY <2>1 DEF Api!ModeFor, Api!Flag
  <2> QED BY <1>2, <1>4, <2>2 DEF TimerAgrees
<1> QED BY <1>1, <1>5, <1>6

LEMMA FollowStarts == Init => FollowInv
<1> SUFFICES ASSUME Init PROVE FollowInv
  OBVIOUS
<1>1. \A p \in Procs : run[p] = <<>>
  BY DEF Init
<1>2. \A q \in Callers : Switching(q)
  BY <1>1, SparingParts DEF Switching, Bystanders, Procs
<1>3. run[Pm] \in Sparing({"MODE", "enable"}) /\ Agreeing
  BY <1>1, ProbeAgrees, SparingParts DEF Agreeing, Procs
<1> QED BY <1>2, <1>3 DEF FollowInv, Sleeper

LEMMA FollowKeeps == IInv /\ SleepInv /\ FollowInv /\ [Next]_vars => FollowInv'
<1> SUFFICES ASSUME IInv, SleepInv, FollowInv, [Next]_vars PROVE FollowInv'
  OBVIOUS
<1>1. CASE UNCHANGED vars
  <2>1. UNCHANGED <<regs, wdt_enable, start, lock, run, suspended, reset>> /\ version' = version
    BY <1>1 DEF vars, version
  <2>2. Doomed => Doomed'
    BY <2>1 DEF Doomed, Ends, Split
  <2>3. \A q : AtWrite(q) => AtWrite(q)'
    BY <2>1 DEF AtWrite, Writing
  <2>4. \A q : Switching(q) => Switching(q)'
    BY <2>1, <2>3 DEF Switching, Entering, Reading, Storing, Writing
  <2>5. Agreeing => Agreeing'
    BY <2>1, <2>3 DEF Agreeing, TimerAgrees
  <2>6. TimerWrite(TRUE)' = TimerWrite(TRUE)
    BY <2>1 DEF TimerWrite
  <2>7. Sleeper => Sleeper'
    BY <2>1, <2>5, <2>6 DEF Sleeper, Split
  <2> QED BY <2>1, <2>2, <2>4, <2>7 DEF FollowInv, Switches
<1>2. ASSUME NEW p \in Procs, Call(p) PROVE FollowInv'
  BY <1>2, CallFact, FollowCall
<1>3. ASSUME NEW p \in Procs, Step(p) PROVE FollowInv'
  BY <1>3, FollowStep
<1> QED BY <1>1, <1>2, <1>3 DEF Next

\* The other machines: nobody calls mtk_wdt_enable(), and a configuration that
\* turns the timer on is called only where the probe has left it on.  MODE may
\* then be written without the lock.
Steady(s) ==
  \A p \in Procs : \A o \in s.ops[p] :
    /\ o[1] # "enable"
    /\ o[1] \in {"config", "set_mode", "confirm"} =>
         IF s.version = 1 THEN s.kicker ELSE s.doe

\* The words that do not turn the timer off, those that do not turn it on
\* either, and the programs that read MODE before they write it.
SteadyWords ==
  {i \in Simple : /\ i.op # "enable"
                  /\ i.op = "put" => i.reg # "MODE"
                  /\ i.op = "write" /\ i.reg = "MODE" => "ENABLE" \notin i.clear}
NeutralWords == {i \in SteadyWords : i.op = "write" /\ i.reg = "MODE" => "ENABLE" \notin i.set}
Timer == {"MODE", "enable"}
Steered(c) ==
  /\ c \in Prog(SteadyWords)
  /\ c \in Sparing(Timer) \/ Split(c, Timer, Read("MODE"), Prog(SteadyWords))

LEMMA SteadyFact ==
  /\ SteadyWords \in SUBSET Simple /\ NeutralWords \in SUBSET Simple
  /\ Prog(SteadyWords) \in SUBSET Code /\ Prog(NeutralWords) \subseteq Prog(SteadyWords)
  /\ Sparing(Timer) \subseteq Prog(NeutralWords) /\ Bystanders \subseteq Sparing(Timer)
  /\ \A a \in SUBSET AllFlags, b \in SUBSET AllFlags :
        /\ "ENABLE" \notin b => Write("MODE", a, b) \in SteadyWords
        /\ "ENABLE" \notin a \cup b => Write("MODE", a, b) \in NeutralWords
  /\ Read("MODE") \in Instr /\ Read("MODE").op = "read" /\ Read("MODE").reg = "MODE"
  /\ Read("MODE") \in NeutralWords
<1>1. SteadyWords \in SUBSET Simple /\ NeutralWords \in SUBSET Simple /\ NeutralWords \subseteq SteadyWords
  BY DEF SteadyWords, NeutralWords
<1>2. Words(Timer) \subseteq NeutralWords
  BY DEF Words, Target, SteadyWords, NeutralWords, Timer
<1>3. Prog(SteadyWords) \in SUBSET Code /\ Prog(NeutralWords) \subseteq Prog(SteadyWords)
      /\ Sparing(Timer) \subseteq Prog(NeutralWords)
  BY <1>1, <1>2, OverFact, ProgMono DEF Sparing
<1>4. Timer \subseteq Core /\ None \notin Timer
  BY DEF Timer, Core, None
<1>5. Bystanders \subseteq Sparing(Timer)
  BY <1>4, WordsFact DEF Bystanders
<1>6. ASSUME NEW a \in SUBSET AllFlags, NEW b \in SUBSET AllFlags
      PROVE  /\ "ENABLE" \notin b => Write("MODE", a, b) \in SteadyWords
             /\ "ENABLE" \notin a \cup b => Write("MODE", a, b) \in NeutralWords
  <2>1. Write("MODE", a, b) \in Simple
    BY RegsFact DEF Simple, Writes
  <2>2. /\ Write("MODE", a, b).op = "write" /\ Write("MODE", a, b).clear = b
        /\ Write("MODE", a, b).set = a
    BY DEF Write
  <2> QED BY <2>1, <2>2 DEF SteadyWords, NeutralWords
<1>7. Read("MODE") \in Instr /\ Read("MODE").op = "read" /\ Read("MODE").reg = "MODE"
  BY ResetWords DEF Read
<1>8. Read("MODE") \in NeutralWords
  BY <1>2, <1>4, ResetWords, SparingWord, RegsFact
<1> QED BY <1>1, <1>3, <1>5, <1>6, <1>7, <1>8

LEMMA SteeredSeq ==
  ASSUME NEW f, NEW g, Steered(f), Steered(g)
  PROVE  Steered(f \o g)
<1> DEFINE P == Prog(SteadyWords)
           r == Read("MODE")
<1>1. /\ f \in P /\ g \in P /\ r \in Instr /\ P \in SUBSET Code /\ g \in Code
      /\ \A a, b \in P : a \o b \in P
  BY SteadyFact, ProgParts DEF Steered
<1>2. f \o g \in P
  BY <1>1
<1> HIDE DEF P, r
<1>3. CASE Split(f, Timer, r, P)
  <2>1. \A h \in P : h \o g \in P
    BY <1>1
  <2>2. Split(f \o g, Timer, r, P)
    BY <1>1, <1>3, <2>1, SplitSuffix
  <2> QED BY <1>2, <2>2 DEF Steered, P, r
<1>4. CASE f \in Sparing(Timer) /\ Split(g, Timer, r, P)
  <2>1. Split(f \o g, Timer, r, P)
    BY <1>1, <1>4, SplitPrefix
  <2> QED BY <1>2, <2>1 DEF Steered, P, r
<1>5. CASE f \in Sparing(Timer) /\ g \in Sparing(Timer)
  <2>1. f \o g \in Sparing(Timer)
    BY <1>5, SparingParts
  <2> QED BY <1>2, <2>1 DEF Steered, P, r
<1> QED BY <1>3, <1>4, <1>5 DEF Steered, P, r

LEMMA SteeredSpares ==
  ASSUME NEW c \in Sparing(Timer)
  PROVE  Steered(c) /\ c \in Prog(NeutralWords)
BY SteadyFact DEF Steered

\* A read of MODE makes what follows a steady program.
LEMMA SteeredRead ==
  ASSUME NEW c \in Prog(SteadyWords)
  PROVE  Steered(<<Read("MODE")>> \o c)
<1>1. Split(<<Read("MODE")>> \o c, Timer, Read("MODE"), Prog(SteadyWords))
  BY SteadyFact, SplitHere
<1>2. Read("MODE") \in SteadyWords
  BY SteadyFact DEF NeutralWords
<1>3. <<Read("MODE")>> \in Prog(SteadyWords)
  BY <1>2, SteadyFact, ProgParts
<1>4. <<Read("MODE")>> \o c \in Prog(SteadyWords)
  BY <1>3, SteadyFact, ProgParts
<1> QED BY <1>1, <1>4 DEF Steered

\* The functions that configure the timer to run, and those that change a flag
\* of MODE other than ENABLE.
LEMMA SteeredConfigs ==
  ASSUME NEW d \in BOOLEAN, NEW i \in BOOLEAN, NEW e \in BOOLEAN, NEW q \in BOOLEAN
  PROVE  /\ Steered(V1!mtk_wdt_mode_config(d, i, e, q, TRUE))
         /\ Steered(Api!mtk_wdt_mode_config(d, i, e, q, TRUE))
         /\ Steered(Api!mtk_wdt_mode_config_nolock(d, i, e, q, TRUE))
<1> DEFINE m1 == V1!ModeFor(d, i, e, q, TRUE)
           m2 == Api!ModeFor(d, i, e, q, TRUE)
           c1 == V1!ModeFlags \ m1
           c2 == Api!ModeFlags \ m2
           w1 == Write("MODE", m1, c1)
           w2 == Write("MODE", m2, c2)
           l == <<Lock("rgu")>>
           u == <<Unlock("rgu")>>
           n == <<Read("NONRST2")>>
           r == <<Read("MODE")>>
           f1 == r \o <<w1>>
           f2 == r \o <<BypassOn, w2>>
<1>1. /\ m1 \in SUBSET RegFlags["MODE"] /\ m2 \in SUBSET RegFlags["MODE"]
      /\ V1!ModeFlags \in SUBSET RegFlags["MODE"] /\ Api!ModeFlags \in SUBSET RegFlags["MODE"]
      /\ "ENABLE" \in m1 /\ "ENABLE" \in m2
  BY RegFlagsFact DEF V1!ModeFor, V1!Flag, Api!ModeFor, Api!Flag, V1!ModeFlags, Api!ModeFlags
<1> HIDE DEF m1, m2
<1>2. m1 \in SUBSET AllFlags /\ m2 \in SUBSET AllFlags /\ c1 \in SUBSET AllFlags /\ c2 \in SUBSET AllFlags
      /\ "ENABLE" \notin c1 /\ "ENABLE" \notin c2
  BY <1>1, FlagsFact, RegsFact
<1> HIDE DEF c1, c2
<1>3. w1 \in SteadyWords /\ w2 \in SteadyWords /\ w1 \in Instr /\ w2 \in Instr
  BY <1>2, SteadyFact, WordFact, RegsFact
<1>4. /\ V1!mtk_wdt_mode_config(d, i, e, q, TRUE) = V1!Locked(<<Read("MODE"), w1>>)
      /\ V1!Locked(<<Read("MODE"), w1>>) = l \o <<Read("MODE"), w1>> \o u
  BY Words1 DEF V1!mtk_wdt_mode_config, V1!Rmw, V1!Locked, V1!Under, w1, m1, c1
<1>5. Api!ModeBody(d, i, e, q, TRUE) = <<Read("MODE"), BypassOn, w2>>
  BY Words2 DEF Api!ModeBody, BypassOn, w2, m2, c2
<1>6. /\ Api!mtk_wdt_mode_config(d, i, e, q, TRUE) = n \o (l \o <<Read("MODE"), BypassOn, w2>> \o u)
      /\ Api!mtk_wdt_mode_config_nolock(d, i, e, q, TRUE) = n \o <<Read("MODE"), BypassOn, w2>>
  BY <1>5, Words2 DEF Api!mtk_wdt_mode_config, Api!mtk_wdt_mode_config_nolock, Api!Locked
<1> HIDE DEF w1, w2
<1>7. <<Read("MODE"), w1>> = f1 /\ <<Read("MODE"), BypassOn, w2>> = f2
  <2>1. Read("MODE") \in Instr /\ BypassOn \in Instr
    BY SleepWords
  <2> QED BY <1>3, <2>1, Tuples
<1>8. Steered(l) /\ Steered(u) /\ Steered(n) /\ BypassOn \in SteadyWords
  <2>1. None \notin Timer /\ "NONRST2" \notin Timer
    BY DEF Timer, None
  <2>2. {Read("NONRST2"), Lock("rgu"), Unlock("rgu"), BypassOn} \subseteq Words(Timer)
    BY <2>1, SleepWords
  <2>3. <<BypassOn>> \in Sparing(Timer) /\ Words(Timer) \subseteq SteadyWords
    BY <2>2, SparingParts DEF Words, Target, SteadyWords, Timer
  <2> QED BY <2>2, <2>3, SparingParts, SteeredSpares
<1>9. Steered(f1) /\ Steered(f2)
  <2>1. <<w1>> \in Prog(SteadyWords) /\ <<BypassOn, w2>> \in Prog(SteadyWords)
    BY <1>3, <1>8, SteadyFact, ProgParts
  <2> QED BY <2>1, SteeredRead
<1> HIDE DEF f1, f2, l, u, n
<1>10. Steered(l \o f1 \o u) /\ Steered(l \o f2 \o u) /\ Steered(n \o f2)
  BY <1>8, <1>9, SteeredSeq
<1>11. Steered(n \o (l \o f2 \o u))
  BY <1>8, <1>10, SteeredSeq
<1> QED BY <1>4, <1>6, <1>7, <1>10, <1>11

LEMMA SteeredDram ==
  ASSUME NEW on \in BOOLEAN
  PROVE  /\ Steered(Api!mtk_rgu_dram_reserved(on)) /\ Steered(Api!wd_dram_reserved_mode(on))
         /\ Api!mtk_rgu_dram_reserved(on) \in Prog(NeutralWords)
         /\ Api!wd_dram_reserved_mode(on) \in Prog(NeutralWords)
<1> DEFINE a == IF on THEN {"DDR_RESERVE"} ELSE {}
           b == IF on THEN {} ELSE {"DDR_RESERVE"}
           w == Write("MODE", a, b)
           s == Api!mtk_wdt_swsysret_config("BIT28", on)
           f == <<Read("MODE"), w>>
<1>1. a \in SUBSET AllFlags /\ b \in SUBSET AllFlags /\ "ENABLE" \notin a \cup b
  BY RegFlagsFact, FlagsFact, RegsFact
<1>2. Api!mtk_rgu_dram_reserved(on) = f
  BY Words2 DEF Api!mtk_rgu_dram_reserved, Api!Assign, Api!Rmw
<1>3. Api!wd_dram_reserved_mode(on) = s \o f
  BY <1>2 DEF Api!wd_dram_reserved_mode
<1> HIDE DEF a, b
<1>4. w \in NeutralWords /\ w \in SteadyWords /\ w \in Instr /\ Read("MODE") \in Instr
  BY <1>1, SteadyFact, WordFact, RegsFact
<1> HIDE DEF w
<1>5. f = <<Read("MODE")>> \o <<w>> /\ f \in Prog(NeutralWords) /\ <<w>> \in Prog(SteadyWords)
  BY <1>4, Tuples, SteadyFact, ProgParts
<1>6. Steered(f)
  BY <1>5, SteeredRead
<1>7. Steered(s) /\ s \in Prog(NeutralWords)
  <2>1. s \in Sparing(Timer)
    BY AsideSwsys2, SteadyFact
  <2> QED BY <2>1, SteeredSpares
<1> HIDE DEF f, s
<1>8. Steered(s \o f) /\ s \o f \in Prog(NeutralWords)
  BY <1>5, <1>6, <1>7, SteeredSeq, SteadyFact, ProgParts
<1> QED BY <1>2, <1>3, <1>5, <1>6, <1>8

\* A machine whose probe has left the timer on.
Sure == kicker /\ (version = 2 => start.doe)

LEMMA SteadyProgram ==
  ASSUME IInv, Steady(start), NEW p \in Callers, NEW o, Called(p, o)
  PROVE  \/ Ends(Program(o))
         \/ Steered(Program(o)) /\ (Program(o) \in Prog(NeutralWords) \/ Sure)
<1>1. /\ o[1] # "enable" /\ p \in Procs /\ version \in {1, 2}
      /\ o[1] \in {"config", "set_mode", "confirm"} =>
           IF version = 1 THEN kicker ELSE start.doe
      /\ version = 2 /\ o[1] \in Api!KickerOps => kicker
  BY StartAssumption DEF Steady, Called, MayCall, Procs, version, kicker, IInv, Types
<1>2. ASSUME o[1] \in {"config", "set_mode", "confirm"} PROVE Sure
  <2>1. {"config", "set_mode", "confirm"} \subseteq Api!KickerOps
    BY DEF Api!KickerOps
  <2>2. CASE version = 1
    <3>1. kicker /\ version # 2
      BY <1>1, <1>2, <2>2
    <3> QED BY <3>1 DEF Sure
  <2>3. CASE version = 2
    <3>1. version # 1 /\ kicker
      BY <1>1, <1>2, <2>1, <2>3
    <3>2. start.doe
      BY <1>1, <1>2, <3>1, Zenon
    <3> QED BY <3>1, <3>2, Zenon DEF Sure
  <2> QED BY <1>1, <2>2, <2>3
<1>3. \A c \in Bystanders : Steered(c) /\ c \in Prog(NeutralWords)
  BY SteadyFact, SteeredSpares
<1>4. CASE version = 1
  <2>1. o \in V1!Ops /\ Program(o) = V1!Program(o)
    BY <1>4 DEF Called, Program
  <2>2. CASE o[1] \notin Stirring1
    BY <1>3, <2>1, <2>2, Aside1Program
  <2>3. CASE o[1] = "arch_reset"
    <3>1. Program(o) = V1!wdt_arch_reset(V1!BypassKey(o[2]))
      BY <2>1, <2>3 DEF V1!Program
    <3>2. PICK b \in BOOLEAN : b = V1!BypassKey(o[2])
      BY DEF V1!BypassKey
    <3>3. Program(o) = V1!wdt_arch_reset(b)
      BY <3>1, <3>2, Zenon
    <3> QED BY <3>3, EndsPrograms
  <2>4. CASE o[1] = "confirm"
    <3>1. Program(o) = V1!mtk_wdt_mode_config(TRUE, TRUE, TRUE, FALSE, TRUE)
      BY <2>1, <2>4, Plain1 DEF V1!mtk_wdt_confirm_hwreboot
    <3> QED BY <1>2, <2>4, <3>1, SteeredConfigs
  <2> QED BY <1>1, <2>2, <2>3, <2>4 DEF Stirring1
<1>5. CASE version = 2
  <2>1. o \in Api!Ops /\ Program(o) = Api!Program(o)
    BY <1>5 DEF Called, Program
  <2>2. CASE o[1] \notin Stirring2
    BY <1>3, <2>1, <2>2, Aside2Program
  <2>3. CASE o[1] = "arch_reset"
    <3>1. Program(o) = Api!arch_reset(o[2])
      BY <2>1, <2>3 DEF Api!Program
    <3>2. CASE o[2] # "dm-verity unmarked"
      BY <3>1, <3>2, EndsPrograms
    <3>3. CASE o[2] = "dm-verity unmarked"
      <4>1. Program(o) = ArchMark(o[2]) \o <<>> /\ ArchMark(o[2]) \in Bystanders
        BY <3>1, <3>3, ArchShape DEF Api!If
      <4>2. Program(o) \in Bystanders
        BY <4>1, SparingParts DEF Bystanders
      <4> QED BY <1>3, <4>2
    <3> QED BY <3>2, <3>3
  <2>4. CASE o[1] = "sw_reset"
    <3>1. Program(o) = Api!wdt_arch_reset(o[2], o[3])
      BY <2>1, <2>4 DEF Api!Program
    <3> QED BY <3>1, EndsPrograms
  <2>5. CASE o[1] = "config"
    <3>1. "CONFIG" \in RegFlags["LENGTH"]
      BY RegFlagsFact
    <3>2. Steered(Api!mtk_wdt_set_time_out_value("CONFIG"))
      BY <1>3, <3>1, AsideTimer2
    <3>3. Steered(Api!wd_config)
      BY <3>2, SteeredConfigs, SteeredSeq DEF Api!wd_config
    <3> QED BY <1>2, <2>1, <2>5, <3>3, Plain2
  <2>6. CASE o[1] = "set_mode" \/ o[1] = "confirm"
    <3>1. Steered(Api!set_mode) /\ Steered(Api!mtk_wdt_confirm_hwreboot)
      BY SteeredConfigs DEF Api!set_mode, Api!mtk_wdt_confirm_hwreboot
    <3> QED BY <1>2, <2>1, <2>6, <3>1, Plain2
  <2>7. CASE o[1] \in {"dram", "dram_mode"}
    <3>1. \E n : \E b \in BOOLEAN : o = <<n, b>>
      BY <2>1, <2>7, Arguments2, Zenon
    <3>2. PICK n : \E b \in BOOLEAN : o = <<n, b>>
      BY <3>1
    <3>3. PICK b \in BOOLEAN : o = <<n, b>>
      BY <3>2
    <3>4. Program(o) = Api!mtk_rgu_dram_reserved(b) \/ Program(o) = Api!wd_dram_reserved_mode(b)
      BY <2>1, <2>7, <3>3 DEF Api!Program
    <3> QED BY <3>4, SteeredDram
  <2> QED BY <1>1, <2>2, <2>3, <2>4, <2>5, <2>6, <2>7 DEF Stirring2
<1> QED BY <1>1, <1>4, <1>5

\* A caller of such a machine: when it writes MODE it has read it, with ENABLE
\* as the driver believes, whoever wrote in between.
Steadily(q) ==
  /\ run[q] \in Prog(SteadyWords) /\ (wdt_enable \/ run[q] \in Prog(NeutralWords))
  /\ \/ run[q] \in Sparing(Timer)
     \/ Split(run[q], Timer, Read("MODE"), Prog(SteadyWords))
     \/ "ENABLE" \in tmp[q]["MODE"] <=> wdt_enable
Awake == run[Pm] = <<>> /\ ~suspended
SteadyInv ==
  Steady(start) =>
    Doomed \/ (/\ \A q \in Callers : Steadily(q)
               /\ Sleeper /\ (Awake => TimerAgrees) /\ (Sure => wdt_enable))

LEMMA SteadyStep ==
  ASSUME IInv, NEW p \in Callers, Step(p), \A q \in Callers : Steadily(q), TimerAgrees
  PROVE  (\A q \in Callers : Steadily(q)') /\ TimerAgrees' /\ wdt_enable' = wdt_enable
<1> DEFINE i == Next1(p)
           r == Read("MODE")
           P == Prog(SteadyWords)
           t == tmp[p]["MODE"]
<1>1. /\ i \in Instr /\ Effect(p, i)
      /\ Follows(run[p], run'[p]) /\ i = Head(run[p])
      /\ \A q \in Callers \ {p} : run'[q] = run[q] /\ tmp'[q] = tmp[q]
      /\ i.op = "read" => \A g \in Regs : tmp'[p][g] = IF g = i.reg THEN regs[g] ELSE tmp[p][g]
      /\ i.op # "read" /\ run'[p] # <<>> => tmp'[p] = tmp[p]
      /\ "MODE" \in Regs /\ p \in Procs
  BY StepFact, RegsFact DEF Procs, Next1
<1>2. Steadily(p)
  OBVIOUS
<1>3. run'[p] \in P /\ i \in Over(SteadyWords)
  BY <1>1, <1>2, SteadyFact, ProgStep DEF Steadily
<1>4. wdt_enable \/ (run'[p] \in Prog(NeutralWords) /\ i \in Over(NeutralWords))
  BY <1>1, <1>2, SteadyFact, ProgStep DEF Steadily
<1>5. /\ i.op # "enable"
      /\ i.op = "put" => i.reg # "MODE"
      /\ i.op = "write" /\ i.reg = "MODE" => "ENABLE" \notin i.clear
  <2>1. i.op # "branch" => i \in SteadyWords
    BY <1>3, SteadyFact, OverFact
  <2> QED BY <2>1 DEF SteadyWords
<1>6. i.op = "write" /\ i.reg = "MODE" => "ENABLE" \notin i.set \/ wdt_enable
  <2>1. ASSUME i \in Over(NeutralWords), i.op = "write", i.reg = "MODE" PROVE "ENABLE" \notin i.set
    <3>1. i \in NeutralWords
      BY <2>1, SteadyFact, OverFact
    <3> QED BY <2>1, <3>1 DEF NeutralWords
  <2> QED BY <1>4, <2>1
<1> HIDE DEF i
<1>7. wdt_enable' = wdt_enable
  BY <1>1, <1>5 DEF Effect
<1>8. ASSUME TimerAgrees', \/ run'[p] \in Sparing(Timer)
                           \/ Split(run'[p], Timer, r, P)
                           \/ "ENABLE" \in tmp'[p]["MODE"] <=> wdt_enable
      PROVE  (\A q \in Callers : Steadily(q)') /\ TimerAgrees' /\ wdt_enable' = wdt_enable
  <2>1. Steadily(p)'
    BY <1>3, <1>4, <1>7, <1>8 DEF Steadily, Split
  <2>2. ASSUME NEW q \in Callers \ {p} PROVE Steadily(q)'
    <3>1. run'[q] = run[q] /\ tmp'[q] = tmp[q] /\ Steadily(q)
      BY <1>1
    <3> QED BY <1>7, <3>1, Zenon DEF Steadily, Split
  <2> QED BY <1>7, <1>8, <2>1, <2>2
<1>9. CASE run[p] \in Sparing(Timer)
  <2>1. run'[p] \in Sparing(Timer) /\ Spared(Timer)
    BY <1>1, <1>9, SparingStep
  <2>2. regs'["MODE"] = regs["MODE"]
    BY <1>1, <2>1 DEF Spared, Timer
  <2> QED BY <1>7, <1>8, <2>1, <2>2 DEF TimerAgrees
<1>10. CASE Split(run[p], Timer, r, P)
  <2>1. r \in Instr /\ r.op = "read" /\ r.reg = "MODE" /\ P \in SUBSET Code
    BY SteadyFact
  <2> HIDE DEF r, P
  <2>2. \/ i = r /\ Effect(p, r)
        \/ Spared(Timer) /\ Split(run'[p], Timer, r, P)
    BY <1>1, <1>10, <2>1, SplitSteps DEF i
  <2>3. CASE i = r /\ Effect(p, r)
    <3>1. regs'["MODE"] = regs["MODE"]
      BY <1>1, <2>1, <2>3 DEF Effect
    <3>2. tmp'[p]["MODE"] = regs["MODE"]
      BY <1>1, <2>1, <2>3
    <3> QED BY <1>7, <1>8, <3>1, <3>2 DEF TimerAgrees
  <2>4. CASE Spared(Timer) /\ Split(run'[p], Timer, r, P)
    <3>1. regs'["MODE"] = regs["MODE"]
      BY <1>1, <2>4 DEF Spared, Timer
    <3> QED BY <1>7, <1>8, <2>4, <3>1 DEF TimerAgrees
  <2> QED BY <2>2, <2>3, <2>4
<1>11. CASE "ENABLE" \in t <=> wdt_enable
  <2>1. ASSUME i.op = "write", i.reg = "MODE" PROVE TimerAgrees'
    <3>1. regs'["MODE"] = (tmp[p]["MODE"] \cup i.set) \ i.clear
      <4>1. PICK j \in Instr : j = i
        BY <1>1
      <4>2. Effect(p, j) /\ j.op = "write" /\ j.reg = "MODE"
        BY <1>1, <2>1, <4>1
      <4>3. regs'["MODE"] = (tmp[p]["MODE"] \cup j.set) \ j.clear
        BY <1>1, <4>2 DEF Effect
      <4> QED BY <4>1, <4>3
    <3>2. "ENABLE" \in regs'["MODE"] <=> ("ENABLE" \in t \/ "ENABLE" \in i.set)
      BY <1>5, <2>1, <3>1
    <3>3. "ENABLE" \in i.set => wdt_enable
      BY <1>6, <2>1
    <3> QED BY <1>7, <1>11, <3>2, <3>3 DEF TimerAgrees
  <2>2. ASSUME ~(i.op = "write" /\ i.reg = "MODE") PROVE TimerAgrees'
    <3>1. regs'["MODE"] = regs["MODE"]
      BY <1>1, <1>5, <2>2 DEF Effect
    <3> QED BY <1>7, <3>1 DEF TimerAgrees
  <2>3. TimerAgrees'
    BY <2>1, <2>2
  <2>4. CASE run'[p] = <<>>
    <3>1. run'[p] \in Sparing(Timer)
      BY <2>4, SparingParts
    <3> QED BY <1>8, <2>3, <3>1
  <2>5. CASE run'[p] # <<>>
    <3>1. "ENABLE" \in tmp'[p]["MODE"] <=> wdt_enable
      <4>1. CASE i.op = "read" /\ i.reg = "MODE"
        <5>1. tmp'[p]["MODE"] = regs["MODE"]
          BY <1>1, <4>1
        <5> QED BY <5>1 DEF TimerAgrees
      <4>2. CASE ~(i.op = "read" /\ i.reg = "MODE")
        <5>1. tmp'[p]["MODE"] = t
          BY <1>1, <2>5, <4>2
        <5> QED BY <1>11, <5>1
      <4> QED BY <4>1, <4>2
    <3> QED BY <1>8, <2>3, <3>1
  <2> QED BY <2>4, <2>5
<1> QED BY <1>2, <1>9, <1>10, <1>11 DEF Steadily

\* While the suspend path is at work, or has just finished, it tells whether
\* the timer agrees.
Resting == \A q \in Callers : run[q] = <<>>
LEMMA AwakeAgrees == Sleeper /\ Awake /\ Resting => TimerAgrees
<1> SUFFICES ASSUME Sleeper, Awake, Resting PROVE TimerAgrees
  OBVIOUS
<1>1. ~Split(run[Pm], {"enable"}, TimerWrite(TRUE), Sparing({"MODE", "enable"}))
  <2>1. TimerWrite(TRUE) \in Instr /\ Sparing({"MODE", "enable"}) \in SUBSET Code
    BY SleepWords, SparingParts
  <2> QED BY <2>1, SplitNonEmpty DEF Awake
<1>2. \A q \in Callers : ~AtWrite(q)
  BY EnableTails DEF AtWrite, Resting
<1>3. Agreeing
  BY <1>1 DEF Sleeper, Awake
<1> QED BY <1>2, <1>3 DEF Agreeing

\* The suspend path does not store the driver's variable.
LEMMA SleeperSpares ==
  ASSUME IInv, SleepInv, Sleeper, Calm, Step(Pm)
  PROVE  wdt_enable' = wdt_enable
<1> DEFINE X == {"enable"}
           Y == {"MODE", "enable"}
           U == Sparing(Y)
<1>1. Pm \in Procs /\ U \in SUBSET Code
  BY SparingParts DEF Procs
<1>2. CASE run[Pm] \in U
  <2>1. Spared(Y)
    BY <1>1, <1>2, SparingStep
  <2> QED BY <2>1 DEF Spared
<1> HIDE DEF U
<1>3. ASSUME NEW en \in BOOLEAN, Split(run[Pm], X, TimerWrite(en), U)
      PROVE  wdt_enable' = wdt_enable
  <2> DEFINE w == TimerWrite(en)
  <2>1. w \in Instr /\ w.op = "write"
    BY SleepWords
  <2> HIDE DEF w
  <2>2. Split(run[Pm], X, w, U)
    BY <1>3 DEF w
  <2>3. Effect(Pm, w) \/ Spared(X)
    BY <1>1, <2>1, <2>2, SplitSteps
  <2> QED BY <2>1, <2>3 DEF Effect, Spared
<1>4. run[Pm] \in U \/ \E en \in BOOLEAN : Split(run[Pm], X, TimerWrite(en), U)
  BY DEF Sleeper, SleepInv, TimerGoesOff, U
<1> QED BY <1>2, <1>3, <1>4 DEF U

LEMMA SteadySteps ==
  ASSUME IInv, SleepInv, SteadyInv, NEW p \in Procs, Step(p)
  PROVE  SteadyInv'
<1>1. /\ start' = start /\ suspended' = suspended /\ version' = version /\ Sure' = Sure
      /\ reset = None /\ run[p] # <<>>
      /\ \A q \in Procs \ {p} : run'[q] = run[q]
  BY StepFact DEF version, kicker, Sure, Follows
<1> SUFFICES ASSUME Steady(start), ~Doomed'
             PROVE  /\ \A q \in Callers : Steadily(q)'
                    /\ Sleeper' /\ (Awake' => TimerAgrees') /\ (Sure => wdt_enable')
  BY <1>1, Zenon DEF SteadyInv, Steady
<1>2. /\ ~Doomed /\ \A q \in Callers : Steadily(q)
      /\ Sleeper /\ (Awake => TimerAgrees) /\ (Sure => wdt_enable)
  BY DoomedStays DEF SteadyInv
<1>3. p # Sspm /\ Calm
  BY <1>1, <1>2 DEF SleepInv, SspmEnds, Doomed, Ends, Procs, Calm
<1>4. CASE p \in Callers
  <2>1. Awake /\ run'[Pm] = run[Pm]
    BY <1>1, <1>4, ProcAssumption DEF SleepInv, Alone, Procs, Awake
  <2>2. (\A q \in Callers : Steadily(q)') /\ TimerAgrees' /\ wdt_enable' = wdt_enable
    BY <1>2, <1>4, <2>1, SteadyStep
  <2>3. run'[Pm] \in Sparing({"MODE", "enable"})
    BY <2>1, SparingParts DEF Awake
  <2>4. Sleeper'
    BY <2>2, <2>3 DEF Sleeper, Agreeing
  <2> QED BY <1>2, <2>2, <2>4, Zenon
<1>5. CASE p = Pm
  <2>1. \A q \in Callers : run[q] = <<>> /\ run'[q] = <<>>
    BY <1>1, <1>5, ProcAssumption DEF SleepInv, Alone, Procs
  <2>2. \A q \in Callers : Steadily(q)'
    <3>1. <<>> \in Sparing(Timer) /\ <<>> \in Prog(NeutralWords) /\ <<>> \in Prog(SteadyWords)
      BY SparingParts, SteadyFact
    <3> QED BY <2>1, <3>1 DEF Steadily
  <2>3. Sleeper'
    BY <1>2, <1>5, <2>1, SleeperStep
  <2>4. wdt_enable' = wdt_enable
    BY <1>2, <1>3, <1>5, SleeperSpares
  <2>5. Awake' => TimerAgrees'
    <3>1. Resting'
      BY <2>1 DEF Resting
    <3> QED BY <2>3, <3>1, AwakeAgrees, PTL
  <2> QED BY <1>2, <2>2, <2>3, <2>4, <2>5, Zenon
<1> QED BY <1>3, <1>4, <1>5 DEF Procs

LEMMA SteadyCalls ==
  ASSUME IInv, SleepInv, SteadyInv, NEW p \in Procs, NEW o, Called(p, o)
  PROVE  SteadyInv'
<1>1. /\ UNCHANGED <<regs, wdt_enable, start, lock, tmp, reset>> /\ version' = version
      /\ Sure' = Sure /\ reset = None /\ run[p] = <<>> /\ run'[p] = Program(o)
      /\ \A q \in Procs \ {p} : run'[q] = run[q]
  BY DEF version, kicker, Sure, Called
<1> SUFFICES ASSUME Steady(start), ~Doomed'
             PROVE  /\ \A q \in Callers : Steadily(q)'
                    /\ Sleeper' /\ (Awake' => TimerAgrees') /\ (Sure => wdt_enable')
  BY <1>1, Zenon DEF SteadyInv, Steady
<1>2. /\ ~Doomed /\ \A q \in Callers : Steadily(q)
      /\ Sleeper /\ (Awake => TimerAgrees) /\ (Sure => wdt_enable)
  BY DoomedStays DEF SteadyInv
<1>3. ~Ends(Program(o))
  BY <1>1 DEF Doomed, Ends, Split
<1>4. p # Sspm /\ Calm
  <2>1. p = Sspm => Program(o) = Api!mtk_wdt_sspm_isr
    BY Plain2 DEF Called, Program
  <2> QED BY <1>1, <1>2, <1>3, <2>1, EndsPrograms DEF SleepInv, SspmEnds, Doomed, Ends, Procs, Calm
<1>5. ASSUME NEW q \in Callers \ {p} PROVE Steadily(q)'
  <2>1. run'[q] = run[q] /\ Steadily(q)
    BY <1>1, <1>2 DEF Procs
  <2> QED BY <1>1, <2>1, Zenon DEF Steadily, Split
<1>6. Sure => wdt_enable'
  BY <1>1, <1>2, Zenon
<1>7. CASE p \in Callers
  <2>1. Awake /\ run'[Pm] = run[Pm]
    BY <1>1, <1>7, ProcAssumption DEF Called, MayCall, Idle, Procs, Awake
  <2>2. TimerAgrees'
    BY <1>1, <1>2, <2>1 DEF TimerAgrees
  <2>3. Sleeper'
    <3>1. run'[Pm] \in Sparing({"MODE", "enable"})
      BY <2>1, SparingParts DEF Awake
    <3> QED BY <2>2, <3>1 DEF Sleeper, Agreeing
  <2>4. Steadily(p)'
    <3>1. Steered(Program(o)) /\ (Program(o) \in Prog(NeutralWords) \/ wdt_enable)
      BY <1>2, <1>3, <1>7, SteadyProgram
    <3> QED BY <1>1, <3>1, Zenon DEF Steadily, Steered, Split
  <2> QED BY <1>5, <1>6, <2>2, <2>3, <2>4
<1>8. CASE p = Pm
  <2>1. \A q \in Callers : Steadily(q)'
    BY <1>5, <1>8, ProcAssumption
  <2>2. Sleeper'
    BY <1>2, <1>4, <1>8, SleeperCall
  <2>3. Awake' => TimerAgrees'
    <3>1. \A q \in Callers : run[q] = <<>> /\ run'[q] = run[q]
      BY <1>1, <1>8, ProcAssumption DEF Called, MayCall, Idle, Procs
    <3>2. Resting'
      BY <3>1 DEF Resting
    <3> QED BY <2>2, <3>2, AwakeAgrees, PTL
  <2> QED BY <1>6, <2>1, <2>2, <2>3
<1> QED BY <1>4, <1>7, <1>8 DEF Procs

LEMMA SteadyStarts == Init => SteadyInv
<1> SUFFICES ASSUME Init PROVE SteadyInv
  OBVIOUS
<1>1. \A p \in Procs : run[p] = <<>>
  BY DEF Init
<1>2. \A q \in Callers : Steadily(q)
  <2>1. <<>> \in Sparing(Timer) /\ <<>> \in Prog(NeutralWords) /\ <<>> \in Prog(SteadyWords)
    BY SparingParts, SteadyFact
  <2> QED BY <1>1, <2>1 DEF Steadily, Procs
<1>3. Sleeper /\ TimerAgrees
  <2>1. run[Pm] \in Sparing({"MODE", "enable"}) /\ TimerAgrees
    BY <1>1, ProbeAgrees, SparingParts DEF Procs
  <2> QED BY <2>1 DEF Sleeper, Agreeing
<1>4. Sure => wdt_enable
  BY Zenon DEF Init, Sure
<1> QED BY <1>2, <1>3, <1>4 DEF SteadyInv

LEMMA SteadyKeeps == IInv /\ SleepInv /\ SteadyInv /\ [Next]_vars => SteadyInv'
<1> SUFFICES ASSUME IInv, SleepInv, SteadyInv, [Next]_vars PROVE SteadyInv'
  OBVIOUS
<1>1. CASE UNCHANGED vars
  <2>1. /\ UNCHANGED <<regs, wdt_enable, start, lock, run, tmp, suspended, reset>>
        /\ version' = version /\ Sure' = Sure
    BY <1>1 DEF vars, version, kicker, Sure
  <2>2. Doomed => Doomed'
    BY <2>1 DEF Doomed, Ends, Split
  <2>3. \A q : Steadily(q) => Steadily(q)'
    BY <2>1, Zenon DEF Steadily, Split
  <2>4. \A q : AtWrite(q) => AtWrite(q)'
    BY <2>1 DEF AtWrite, Writing
  <2>5. (Agreeing => Agreeing') /\ (TimerAgrees => TimerAgrees') /\ Awake' = Awake
    BY <2>1, <2>4 DEF Agreeing, TimerAgrees, Awake
  <2>6. TimerWrite(TRUE)' = TimerWrite(TRUE)
    BY <2>1 DEF TimerWrite
  <2>7. Sleeper => Sleeper'
    BY <2>1, <2>5, <2>6 DEF Sleeper, Split
  <2> QED BY <2>1, <2>2, <2>3, <2>5, <2>7, Zenon DEF SteadyInv, Steady
<1>2. ASSUME NEW p \in Procs, Call(p) PROVE SteadyInv'
  BY <1>2, CallFact, SteadyCalls
<1>3. ASSUME NEW p \in Procs, Step(p) PROVE SteadyInv'
  BY <1>3, SteadySteps
<1> QED BY <1>1, <1>2, <1>3 DEF Next

\* When nothing runs and the system is awake, the timer runs exactly if the
\* driver believes so, through any order of suspends and resumes.  It holds
\* when MODE's ENABLE is reached by mtk_wdt_enable() under the lock and the
\* suspends only (Switches), and also when nobody calls mtk_wdt_enable() and
\* the timer is on wherever a configuration turns it on (Steady), although
\* mtk_wdt_confirm_hwreboot() and mtk_rgu_dram_reserved() take no lock.
THEOREM RguModeFollows ==
  Spec => [](Switches(start) \/ Steady(start) => ModeFollowsEnable)
<1>1. ASSUME Quiet, ~suspended PROVE ~Doomed /\ Awake /\ Resting
  <2>1. \A p \in Procs : run[p] = <<>>
    BY <1>1 DEF Quiet, Idle
  <2> QED BY <1>1, <2>1, EndsFact DEF Quiet, Doomed, Awake, Resting, Procs
<1>2. FollowInv => (Switches(start) => ModeFollowsEnable)
  <2> SUFFICES ASSUME FollowInv, Switches(start), Quiet, ~suspended PROVE TimerAgrees
    BY DEF ModeFollowsEnable, TimerAgrees
  <2> QED BY <1>1, AwakeAgrees DEF FollowInv
<1>3. SteadyInv => (Steady(start) => ModeFollowsEnable)
  <2> SUFFICES ASSUME SteadyInv, Steady(start), Quiet, ~suspended PROVE TimerAgrees
    BY DEF ModeFollowsEnable, TimerAgrees
  <2> QED BY <1>1 DEF SteadyInv
<1>4. Spec => []FollowInv
  BY FollowStarts, FollowKeeps, Sleeping, PTL DEF Spec
<1>5. Spec => []SteadyInv
  BY SteadyStarts, SteadyKeeps, Sleeping, PTL DEF Spec
<1> QED BY <1>2, <1>3, <1>4, <1>5, PTL
=============================================================================
