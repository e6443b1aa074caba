----------------------------- MODULE RguProofs -----------------------------
(***************************************************************************)
(* What the locking of the RGU driver guarantees for any number of CPUs    *)
(* and any machine: a register whose accesses all go through one lock      *)
(* loses no update, the reset key's debounce agrees with its request bit,  *)
(* and no operation leaves a lock behind.                                  *)
(*                                                                         *)
(* The argument is a Hoare logic for the driver's programs.  A point is    *)
(* what one caller has at a place of its program: the lock it holds, the   *)
(* guarded registers whose value it has read under that lock, and what it  *)
(* owes the request register after it has set the debounce.  Safe says of  *)
(* the rest of a program that it keeps the rules from a point on.  Each    *)
(* operation of both drivers is shown to keep them; each step of the       *)
(* machine keeps every caller at a point of a safe program.                *)
(***************************************************************************)
EXTENDS Rgu, SequenceTheorems, TLAPS

AllFlags == UNION {RegFlags[r] : r \in Regs}
Reads == {Read(r) : r \in Regs}
Writes == {Write(r, s, c) : r \in Regs, s \in SUBSET AllFlags, c \in SUBSET AllFlags}
Puts == {Put(r, v) : r \in Regs, v \in SUBSET AllFlags}
LockOps == {Lock(l) : l \in Locks} \cup {Unlock(l) : l \in Locks}
Others == {SetEnable(b) : b \in BOOLEAN} \cup {Kick, PmicPreReset, SwReset}
Simple == Reads \cup Writes \cup Puts \cup LockOps \cup Others
Branches == {Branch(r, f, q) : r \in Regs, f \in AllFlags, q \in Seq(Simple)}
Instr == Simple \cup Branches
Code == Seq(Instr)

Owed == {"even", "on", "off"}
Points == (Locks \cup {None}) \X (SUBSET Regs) \X Owed
Out == <<None, {}, "even">>
In(l) == <<l, {}, "even">>

\* With the watchdog disabled by DOE no request source is ever enabled.
Dark(s) == s.version = 2 /\ ~s.doe
GuardOf(s, r) == IF r = "SWSYSRST" /\ s.version = 1 /\ UsesController(s) THEN "swrst" ELSE "rgu"

\* The rules for the instruction i of caller p at point x.
GoodWrite(s, i, x) ==
  /\ i.set \subseteq RegFlags[i.reg] /\ i.reg # "SYSDBG_DEG"
  /\ i.reg \in OneLock(s) => x[1] = GuardOf(s, i.reg) /\ i.reg \in x[2]
  /\ i.reg = "REQ_MODE" =>
       /\ x[3] = "on" => "SYSRST" \in i.set \ i.clear
       /\ x[3] = "off" => "SYSRST" \in i.clear
       /\ x[3] = "even" => "SYSRST" \notin i.set \cup i.clear
       /\ Dark(s) => "SYSRST" \notin i.set
GoodPut(s, i, x) ==
  /\ i.val \subseteq RegFlags[i.reg]
  /\ i.reg \in OneLock(s) => x[1] = GuardOf(s, i.reg)
  /\ i.reg = "REQ_MODE" => i.val = {} /\ Dark(s) /\ x[3] = "even"
  /\ i.reg = "SYSDBG_DEG" => x[1] = "rgu" /\ x[3] = "even" /\ (Dark(s) => i.val = {})
Good(s, p, i, x) ==
  CASE i.op = "write"  -> GoodWrite(s, i, x)
    [] i.op = "put"    -> GoodPut(s, i, x)
    [] i.op = "lock"   -> x = Out /\ p # Sspm
    [] i.op = "unlock" -> x[1] = i.lock /\ x[3] = "even"
    [] OTHER           -> TRUE

\* The point behind the instruction i at point x.
After(s, i, x) ==
  CASE i.op = "read" /\ i.reg \in OneLock(s) /\ x[1] = GuardOf(s, i.reg)
                       -> <<x[1], x[2] \cup {i.reg}, x[3]>>
    [] i.op = "write"  -> <<x[1], x[2] \ {i.reg}, IF i.reg = "REQ_MODE" THEN "even" ELSE x[3]>>
    [] i.op = "put"    -> <<x[1], x[2] \ {i.reg},
                            IF i.reg # "SYSDBG_DEG" THEN x[3]
                            ELSE IF "DEG" \in i.val THEN "on" ELSE "off">>
    [] i.op = "lock"   -> In(i.lock)
    [] i.op = "unlock" -> Out
    [] OTHER           -> x

\* W is a set of programs and points that the rules never lead out of.
Closed(s, p, W) ==
  \A c \in Code, x \in Points : <<c, x>> \in W =>
    IF c = <<>> THEN x[1] = None
    ELSE /\ Good(s, p, Head(c), x)
         /\ <<Tail(c), After(s, Head(c), x)>> \in W
         /\ Head(c).op = "branch" => <<Head(c).then \o Tail(c), x>> \in W

Safe(s, p, c, x) ==
  /\ c \in Code /\ x \in Points
  /\ \E W \in SUBSET (Code \X Points) : <<c, x>> \in W /\ Closed(s, p, W)

\* The program f leads from point x to point y.
Leads(s, p, f, x, y) ==
  /\ f \in Code
  /\ \A q \in Code : Safe(s, p, q, y) => Safe(s, p, f \o q, x)

-----------------------------------------------------------------------------
(* The rules of the logic.                                                  *)
LEMMA SafeEnds ==
  ASSUME NEW s, NEW p, NEW x \in Points, Safe(s, p, <<>>, x)
  PROVE  x[1] = None
BY DEF Safe, Closed

LEMMA SafeSteps ==
  ASSUME NEW s, NEW p, NEW c, NEW x, Safe(s, p, c, x), c # <<>>
  PROVE  /\ c \in Code /\ x \in Points /\ Head(c) \in Instr /\ Tail(c) \in Code
         /\ Good(s, p, Head(c), x)
         /\ Safe(s, p, Tail(c), After(s, Head(c), x))
         /\ Head(c).op = "branch" => Safe(s, p, Head(c).then \o Tail(c), x)
<1>1. PICK W \in SUBSET (Code \X Points) : <<c, x>> \in W /\ Closed(s, p, W)
  BY DEF Safe
<1>2. c \in Code /\ x \in Points
  BY DEF Safe
<1>3. /\ Good(s, p, Head(c), x)
      /\ <<Tail(c), After(s, Head(c), x)>> \in W
      /\ Head(c).op = "branch" => <<Head(c).then \o Tail(c), x>> \in W
  BY <1>1, <1>2 DEF Closed
<1>4. Head(c) \in Instr /\ Tail(c) \in Code
  BY <1>2, HeadTailProperties DEF Code
<1> QED BY <1>1, <1>2, <1>3, <1>4 DEF Safe

LEMMA SafeOut == ASSUME NEW s, NEW p PROVE Safe(s, p, <<>>, Out)
<1>1. <<>> \in Code /\ Out \in Points
  BY EmptySeq DEF Code, Out, Points, Owed
<1> DEFINE W == {<<<<>>, Out>>}
<1>2. W \in SUBSET (Code \X Points)
  BY <1>1
<1>3. Closed(s, p, W)
  BY DEF Closed, Out
<1> QED BY <1>1, <1>2, <1>3 DEF Safe

LEMMA OneCons ==
  ASSUME NEW i \in Instr, NEW q \in Code
  PROVE  /\ <<i>> \in Code /\ <<i>> \o q \in Code /\ <<i>> \o q # <<>>
         /\ Head(<<i>> \o q) = i /\ Tail(<<i>> \o q) = q
BY DEF Code

LEMMA RegsFact ==
  Regs = {"MODE", "NONRST2", "LENGTH", "REQ_MODE", "REQ_IRQ_EN", "EXT_REQ_CON", "SYSDBG_DEG",
          "SWSYSRST", "LATCH_CTL", "LATCH_CTL2", "DEBUG_CTL", "DEBUG_CTL2", "RTC"}
BY DEF Regs, RegFlags

\* What the fields of an instruction are.
LEMMA InstrFact ==
  ASSUME NEW i \in Instr
  PROVE  /\ i.op \in {"read", "write", "put", "branch", "lock", "unlock", "enable", "outside",
                      "reset"}
         /\ i.op \in {"read", "write", "put", "branch"} => i.reg \in Regs
         /\ i.op \in {"lock", "unlock"} => i.lock \in Locks
         /\ i.op = "enable" => i.val \in BOOLEAN
         /\ i.op = "branch" => i.then \in Code
<1>1. CASE i \in Branches
  <2>1. PICK r \in Regs, f \in AllFlags, q \in Seq(Simple) : i = Branch(r, f, q)
    BY <1>1 DEF Branches
  <2>2. q \in Code
    BY SeqMonotonic DEF Code, Instr
  <2> QED BY <2>1, <2>2 DEF Branch
<1>2. CASE i \in Reads
  BY <1>2 DEF Reads, Read
<1>3. CASE i \in Writes
  BY <1>3 DEF Writes, Write
<1>4. CASE i \in Puts
  BY <1>4 DEF Puts, Put
<1>5. CASE i \in LockOps
  BY <1>5 DEF LockOps, Lock, Unlock
<1>6. CASE i \in Others
  BY <1>6 DEF Others, SetEnable, Kick, PmicPreReset, SwReset
<1> QED BY <1>1, <1>2, <1>3, <1>4, <1>5, <1>6 DEF Instr, Simple

LEMMA AfterPoint ==
  ASSUME NEW s, NEW i \in Instr, NEW x \in Points
  PROVE  After(s, i, x) \in Points
<1>1. x[1] \in Locks \cup {None} /\ x[2] \in SUBSET Regs /\ x[3] \in Owed
      /\ x = <<x[1], x[2], x[3]>>
  BY DEF Points
<1>2. ASSUME NEW h \in Locks \cup {None}, NEW a \in SUBSET Regs, NEW w \in Owed
      PROVE  <<h, a, w>> \in Points
  BY DEF Points
<1>3. "even" \in Owed /\ "on" \in Owed /\ "off" \in Owed
  BY DEF Owed
<1>4. x[2] \ {i.reg} \in SUBSET Regs /\ (i.op = "read" => x[2] \cup {i.reg} \in SUBSET Regs)
  BY <1>1, InstrFact
<1> QED BY <1>1, <1>2, <1>3, <1>4, InstrFact DEF After, In, Out

LEMMA Cons ==
  ASSUME NEW s, NEW p, NEW i \in Instr, i.op # "branch", NEW x \in Points, Good(s, p, i, x)
  PROVE  Leads(s, p, <<i>>, x, After(s, i, x))
<1>1. <<i>> \in Code
  BY EmptySeq, OneCons DEF Code
<1>2. ASSUME NEW q \in Code, Safe(s, p, q, After(s, i, x))
      PROVE  Safe(s, p, <<i>> \o q, x)
  <2>1. PICK W \in SUBSET (Code \X Points) : <<q, After(s, i, x)>> \in W /\ Closed(s, p, W)
    BY <1>2 DEF Safe
  <2> DEFINE c == <<i>> \o q
             V == W \cup {<<c, x>>}
  <2>2. c \in Code /\ c # <<>> /\ Head(c) = i /\ Tail(c) = q
    BY OneCons
  <2>3. V \in SUBSET (Code \X Points)
    <3>1. <<c, x>> \in Code \X Points
      BY <2>2
    <3> HIDE DEF c
    <3> QED BY <3>1
  <2>4. Closed(s, p, V)
    <3> SUFFICES ASSUME NEW d \in Code, NEW y \in Points, <<d, y>> \in V
                 PROVE  IF d = <<>> THEN y[1] = None
                        ELSE /\ Good(s, p, Head(d), y)
                             /\ <<Tail(d), After(s, Head(d), y)>> \in V
                             /\ Head(d).op = "branch" => <<Head(d).then \o Tail(d), y>> \in V
      BY DEF Closed
    <3>1. CASE <<d, y>> \in W
      BY <2>1, <3>1 DEF Closed
    <3>2. CASE d = c /\ y = x
      <4> HIDE DEF c
      <4> QED BY <2>1, <2>2, <3>2
    <3> QED BY <3>1, <3>2
  <2> QED BY <2>2, <2>3, <2>4 DEF Safe
<1> QED BY <1>1, <1>2 DEF Leads

LEMMA CodeAssociative ==
  \A f, g, q \in Code : f \o g \in Code /\ (f \o g) \o q = f \o (g \o q)
BY ConcatProperties, ConcatAssociative DEF Code

LEMMA LeadsSkip == ASSUME NEW s, NEW p, NEW x PROVE Leads(s, p, <<>>, x, x)
BY EmptySeq, ConcatEmptySeq DEF Leads, Code

LEMMA LeadsSeq ==
  ASSUME NEW s, NEW p, NEW f, NEW g, NEW x, NEW y, NEW z,
         Leads(s, p, f, x, y), Leads(s, p, g, y, z)
  PROVE  Leads(s, p, f \o g, x, z)
<1>1. f \in Code /\ g \in Code /\ f \o g \in Code
  BY ConcatProperties DEF Leads, Code
<1>2. ASSUME NEW q \in Code, Safe(s, p, q, z)
      PROVE  Safe(s, p, (f \o g) \o q, x)
  <2>1. g \o q \in Code /\ (f \o g) \o q = f \o (g \o q)
    BY <1>1, ConcatProperties, ConcatAssociative DEF Code
  <2>2. Safe(s, p, g \o q, y)
    BY <1>2 DEF Leads
  <2> QED BY <2>1, <2>2 DEF Leads
<1> QED BY <1>1, <1>2 DEF Leads

LEMMA LeadsSafe ==
  ASSUME NEW s, NEW p, NEW f, Leads(s, p, f, Out, Out)
  PROVE  Safe(s, p, f, Out)
<1>1. f \in Code /\ Safe(s, p, f \o <<>>, Out)
  BY SafeOut, EmptySeq DEF Leads, Code
<1> QED BY <1>1, ConcatEmptySeq DEF Code

\* Instructions that no rule is about: they reach no guarded register, take no
\* lock and leave the debounce alone.
FreeRegs(s) == Regs \ (OneLock(s) \cup {"SYSDBG_DEG"})
FreeReads(s) == {Read(r) : r \in FreeRegs(s)}
FreeWrites(s) == {i \in Writes : i.reg \in FreeRegs(s) /\ i.set \subseteq RegFlags[i.reg]}
FreePuts(s) == {i \in Puts : i.reg \in FreeRegs(s) /\ i.val \subseteq RegFlags[i.reg]}
FreeSimple(s) == Others \cup FreeReads(s) \cup FreeWrites(s) \cup FreePuts(s)
FreeBranches(s) == {Branch(r, f, q) : r \in Regs, f \in AllFlags, q \in Seq(FreeSimple(s))}
FreeInstr(s) == FreeSimple(s) \cup FreeBranches(s)
FreeCode(s) == Seq(FreeInstr(s))

LEMMA FreeFact ==
  ASSUME NEW s, NEW i \in FreeInstr(s)
  PROVE  /\ i \in Instr
         /\ i.op \in {"read", "write", "put", "branch", "enable", "outside", "reset"}
         /\ i.op \in {"read", "write", "put"} => i.reg \notin OneLock(s) /\ i.reg # "SYSDBG_DEG"
         /\ i.op = "write" => i.set \subseteq RegFlags[i.reg]
         /\ i.op = "put" => i.val \subseteq RegFlags[i.reg]
         /\ i.op = "branch" => i.then \in FreeCode(s)
<1>1. FreeRegs(s) \subseteq Regs /\ FreeRegs(s) \cap (OneLock(s) \cup {"SYSDBG_DEG"}) = {}
  BY DEF FreeRegs
<1>2. FreeSimple(s) \subseteq Simple
  BY <1>1 DEF FreeSimple, Simple, FreeReads, FreeWrites, FreePuts, Reads
<1>3. CASE i \in FreeBranches(s)
  <2>1. PICK r \in Regs, f \in AllFlags, q \in Seq(FreeSimple(s)) : i = Branch(r, f, q)
    BY <1>3 DEF FreeBranches
  <2>2. q \in Seq(Simple) /\ q \in FreeCode(s)
    BY <1>2, SeqMonotonic DEF FreeCode, FreeInstr
  <2>3. i \in Branches
    BY <2>1, <2>2 DEF Branches
  <2> QED BY <2>1, <2>2, <2>3 DEF Branch, Instr
<1>4. CASE i \in Others
  BY <1>4 DEF Others, SetEnable, Kick, PmicPreReset, SwReset, Instr, Simple
<1>5. CASE i \in FreeReads(s)
  BY <1>1, <1>5 DEF FreeReads, Read, Instr, Simple, Reads
<1>6. CASE i \in FreeWrites(s)
  <2>1. i.op = "write"
    BY <1>6 DEF FreeWrites, Writes, Write
  <2> QED BY <1>1, <1>6, <2>1 DEF FreeWrites, Instr, Simple
<1>7. CASE i \in FreePuts(s)
  <2>1. i.op = "put"
    BY <1>7 DEF FreePuts, Puts, Put
  <2> QED BY <1>1, <1>7, <2>1 DEF FreePuts, Instr, Simple
<1> QED BY <1>3, <1>4, <1>5, <1>6, <1>7 DEF FreeInstr, FreeSimple

\* A free instruction is allowed at every point and leads back to it.
LEMMA FreeStays ==
  ASSUME NEW s, NEW p, NEW i \in FreeInstr(s), NEW x \in Points, x[2] \subseteq OneLock(s)
  PROVE  Good(s, p, i, x) /\ After(s, i, x) = x
<1>1. x = <<x[1], x[2], x[3]>>
  BY DEF Points
<1>2. "REQ_MODE" \in OneLock(s)
  BY DEF OneLock
<1>3. i.op = "write" => GoodWrite(s, i, x)
  BY <1>2, FreeFact DEF GoodWrite
<1>4. i.op = "put" => GoodPut(s, i, x)
  BY <1>2, FreeFact DEF GoodPut
<1>5. Good(s, p, i, x)
  BY <1>3, <1>4, FreeFact DEF Good
<1>6. After(s, i, x) = x
  <2>1. i.op \in {"write", "put"} => x[2] \ {i.reg} = x[2] /\ i.reg # "REQ_MODE" /\ i.reg # "SYSDBG_DEG"
    BY <1>2, FreeFact
  <2> QED BY <1>1, <2>1, FreeFact DEF After
<1> QED BY <1>5, <1>6

\* Any sequence of free instructions leads from a point back to it.
LEMMA FreeLeads ==
  ASSUME NEW s, NEW p, NEW f \in FreeCode(s), NEW x \in Points, x[2] \subseteq OneLock(s)
  PROVE  Leads(s, p, f, x, x)
<1>1. FreeCode(s) \subseteq Code
  <2>1. FreeInstr(s) \subseteq Instr
    BY FreeFact
  <2> QED BY <2>1, SeqMonotonic DEF FreeCode, Code
<1>2. ASSUME NEW q \in Code, Safe(s, p, q, x)
      PROVE  Safe(s, p, f \o q, x)
  <2>1. PICK W \in SUBSET (Code \X Points) : <<q, x>> \in W /\ Closed(s, p, W)
    BY <1>2 DEF Safe
  <2> DEFINE F == {<<g \o q, x>> : g \in FreeCode(s)}
             V == W \cup F
  <2>2. ASSUME NEW g \in FreeCode(s) PROVE g \o q \in Code
    BY <1>1, ConcatProperties DEF Code
  <2>3. V \in SUBSET (Code \X Points)
    <3>1. ASSUME NEW e \in F PROVE e \in Code \X Points
      <4>1. PICK g \in FreeCode(s) : e = <<g \o q, x>>
        BY <3>1
      <4> QED BY <2>2, <4>1
    <3> HIDE DEF F
    <3> QED BY <3>1
  <2>4. Closed(s, p, V)
    <3> SUFFICES ASSUME NEW d \in Code, NEW y \in Points, <<d, y>> \in V
                 PROVE  IF d = <<>> THEN y[1] = None
                        ELSE /\ Good(s, p, Head(d), y)
                             /\ <<Tail(d), After(s, Head(d), y)>> \in V
                             /\ Head(d).op = "branch" => <<Head(d).then \o Tail(d), y>> \in V
      BY DEF Closed
    <3>1. CASE <<d, y>> \in W
      BY <2>1, <3>1 DEF Closed
    <3>2. CASE <<d, y>> \in F
      <4>1. PICK g \in FreeCode(s) : d = g \o q /\ y = x
        BY <3>2
      <4>2. CASE g = <<>>
        <5>1. d = q
          BY <4>1, <4>2, ConcatEmptySeq DEF Code
        <5> QED BY <2>1, <3>1, <4>1, <5>1
      <4>3. CASE g # <<>>
        <5>1. Head(g) \in FreeInstr(s) /\ Tail(g) \in FreeCode(s) /\ g \in Code
          BY <1>1, <4>3, HeadTailProperties DEF FreeCode
        <5>2. d # <<>> /\ Head(d) = Head(g) /\ Tail(d) = Tail(g) \o q
          BY <1>1, <4>1, <4>3, <5>1 DEF Code
        <5>3. Good(s, p, Head(d), y) /\ After(s, Head(d), y) = x
          BY <4>1, <5>1, <5>2, FreeStays
        <5>4. <<Tail(d), After(s, Head(d), y)>> \in F
          BY <5>1, <5>2, <5>3
        <5>5. ASSUME Head(d).op = "branch"
              PROVE  <<Head(d).then \o Tail(d), y>> \in F
          <6>1. Head(g).then \in FreeCode(s)
            BY <5>1, <5>2, <5>5, FreeFact
          <6>2. Head(g).then \o Tail(g) \in FreeCode(s)
            BY <5>1, <6>1, ConcatProperties DEF FreeCode
          <6>3. (Head(g).then \o Tail(g)) \o q = Head(d).then \o Tail(d)
            <7>1. Head(g).then \in Code /\ Tail(g) \in Code
              BY <1>1, <5>1, <6>1
            <7>2. (Head(g).then \o Tail(g)) \o q = Head(g).then \o (Tail(g) \o q)
              <8>1. PICK a \in Code, b \in Code : a = Head(g).then /\ b = Tail(g)
                BY <7>1
              <8>2. (a \o b) \o q = a \o (b \o q)
                BY CodeAssociative
              <8> QED BY <8>1, <8>2
            <7> QED BY <5>2, <7>2
          <6> QED BY <4>1, <6>2, <6>3
        <5> QED BY <5>2, <5>3, <5>4, <5>5
      <4> QED BY <4>2, <4>3
    <3> QED BY <3>1, <3>2
  <2>5. f \o q \in Code /\ <<f \o q, x>> \in V
    BY <2>2
  <2> QED BY <2>3, <2>4, <2>5 DEF Safe
<1> QED BY <1>1, <1>2 DEF Leads

LEMMA FlagsFact == \A r \in Regs : RegFlags[r] \subseteq AllFlags
BY DEF AllFlags

LEMMA WordFact ==
  /\ \A r \in Regs : Read(r) \in Instr
  /\ \A r \in Regs, a \in SUBSET AllFlags, b \in SUBSET AllFlags : Write(r, a, b) \in Instr
  /\ \A r \in Regs, a \in SUBSET AllFlags : Put(r, a) \in Instr
  /\ \A l \in Locks : Lock(l) \in Instr /\ Unlock(l) \in Instr
BY DEF Instr, Simple, Reads, Writes, Puts, LockOps

\* The free words, and the programs made of them.
LEMMA FreeWord ==
  ASSUME NEW s
  PROVE  /\ \A r \in FreeRegs(s) : Read(r) \in FreeSimple(s)
         /\ \A r \in FreeRegs(s), a \in SUBSET AllFlags, b \in SUBSET AllFlags :
               a \subseteq RegFlags[r] => Write(r, a, b) \in FreeSimple(s)
         /\ \A r \in FreeRegs(s), a \in SUBSET AllFlags :
               a \subseteq RegFlags[r] => Put(r, a) \in FreeSimple(s)
         /\ \A b \in BOOLEAN : SetEnable(b) \in FreeSimple(s)
         /\ Kick \in FreeSimple(s) /\ PmicPreReset \in FreeSimple(s)
         /\ SwReset \in FreeSimple(s)
<1>1. ASSUME NEW r \in FreeRegs(s) PROVE Read(r) \in FreeSimple(s)
  BY DEF FreeSimple, FreeReads
<1>2. ASSUME NEW r \in FreeRegs(s), NEW a \in SUBSET AllFlags, NEW b \in SUBSET AllFlags,
             a \subseteq RegFlags[r]
      PROVE  Write(r, a, b) \in FreeSimple(s)
  <2>1. Write(r, a, b) \in Writes
    BY DEF Writes, FreeRegs
  <2>2. Write(r, a, b).reg = r /\ Write(r, a, b).set = a
    BY DEF Write
  <2> QED BY <1>2, <2>1, <2>2 DEF FreeSimple, FreeWrites
<1>3. ASSUME NEW r \in FreeRegs(s), NEW a \in SUBSET AllFlags, a \subseteq RegFlags[r]
      PROVE  Put(r, a) \in FreeSimple(s)
  <2>1. Put(r, a) \in Puts
    BY DEF Puts, FreeRegs
  <2>2. Put(r, a).reg = r /\ Put(r, a).val = a
    BY DEF Put
  <2> QED BY <1>3, <2>1, <2>2 DEF FreeSimple, FreePuts
<1>4. (\A b \in BOOLEAN : SetEnable(b) \in Others) /\ Kick \in Others
      /\ PmicPreReset \in Others /\ SwReset \in Others
  BY DEF Others
<1>5. (\A b \in BOOLEAN : SetEnable(b) \in FreeSimple(s)) /\ Kick \in FreeSimple(s)
      /\ PmicPreReset \in FreeSimple(s) /\ SwReset \in FreeSimple(s)
  BY <1>4 DEF FreeSimple
<1> QED BY <1>1, <1>2, <1>3, <1>5

LEMMA FreePrograms ==
  ASSUME NEW s
  PROVE  /\ <<>> \in FreeCode(s)
         /\ \A i \in FreeSimple(s) : <<i>> \in FreeCode(s) /\ <<i>> \in Seq(FreeSimple(s))
         /\ \A i, j \in FreeSimple(s) : <<i, j>> \in FreeCode(s) /\ <<i, j>> \in Seq(FreeSimple(s))
         /\ \A f, g \in FreeCode(s) : f \o g \in FreeCode(s)
<1>1. FreeSimple(s) \subseteq FreeInstr(s)
  BY DEF FreeInstr
<1> QED BY <1>1, EmptySeq, ConcatProperties DEF FreeCode

\* An access of one free register, read and write.
LEMMA FreeRmw ==
  ASSUME NEW s, NEW r \in FreeRegs(s), NEW a \in SUBSET AllFlags, NEW b \in SUBSET AllFlags,
         a \subseteq RegFlags[r]
  PROVE  Rmw(r, a, b) \in FreeCode(s) /\ Rmw(r, a, b) \in Seq(FreeSimple(s))
BY FreeWord, FreePrograms DEF Rmw

LEMMA FreeAssign ==
  ASSUME NEW s, NEW r \in FreeRegs(s), NEW f \in RegFlags[r], NEW on \in BOOLEAN
  PROVE  Assign(r, f, on) \in FreeCode(s) /\ Assign(r, f, on) \in Seq(FreeSimple(s))
<1>1. f \in AllFlags
  BY FlagsFact DEF FreeRegs
<1>2. CASE on = TRUE
  BY <1>1, <1>2, FreeRmw DEF Assign
<1>3. CASE on = FALSE
  BY <1>1, <1>3, FreeRmw DEF Assign
<1> QED BY <1>2, <1>3

LEMMA FreeOut ==
  ASSUME NEW s, NEW p, NEW f \in FreeCode(s)
  PROVE  /\ Leads(s, p, f, Out, Out)
         /\ \A l \in Locks : Leads(s, p, f, In(l), In(l))
<1>1. Out \in Points /\ Out[2] = {} /\ \A l \in Locks : In(l) \in Points /\ In(l)[2] = {}
  BY DEF Out, In, Points, Owed
<1> QED BY <1>1, FreeLeads

\* A read of a guarded register under its lock, and the write that follows.
LEMMA HeldRead ==
  ASSUME NEW s, NEW p, NEW r \in OneLock(s), NEW w \in Owed
  PROVE  Leads(s, p, <<Read(r)>>, <<GuardOf(s, r), {}, w>>, <<GuardOf(s, r), {r}, w>>)
<1> DEFINE x == <<GuardOf(s, r), {}, w>>
<1>1. r \in Regs /\ Read(r) \in Instr /\ Read(r).op = "read" /\ Read(r).reg = r
  BY WordFact, RegsFact DEF OneLock, Read
<1>2. x \in Points
  BY DEF Points, GuardOf, Locks
<1>3. Good(s, p, Read(r), x) /\ After(s, Read(r), x) = <<GuardOf(s, r), {r}, w>>
  BY <1>1 DEF Good, After
<1> QED BY <1>1, <1>2, <1>3, Cons

LEMMA HeldWrite ==
  ASSUME NEW s, NEW p, NEW r \in OneLock(s), NEW w \in Owed,
         NEW a \in SUBSET AllFlags, NEW b \in SUBSET AllFlags, a \subseteq RegFlags[r],
         GoodWrite(s, Write(r, a, b), <<GuardOf(s, r), {r}, w>>)
  PROVE  Leads(s, p, <<Write(r, a, b)>>, <<GuardOf(s, r), {r}, w>>,
               <<GuardOf(s, r), {}, IF r = "REQ_MODE" THEN "even" ELSE w>>)
<1> DEFINE x == <<GuardOf(s, r), {r}, w>>
<1>1. r \in Regs /\ Write(r, a, b) \in Instr
  BY WordFact, RegsFact DEF OneLock
<1>2. Write(r, a, b).op = "write" /\ Write(r, a, b).reg = r
  BY DEF Write
<1>3. x \in Points
  BY <1>1 DEF Points, GuardOf, Locks
<1>4. Good(s, p, Write(r, a, b), x)
  BY <1>2 DEF Good
<1>5. After(s, Write(r, a, b), x) = <<GuardOf(s, r), {}, IF r = "REQ_MODE" THEN "even" ELSE w>>
  BY <1>2 DEF After
<1> QED BY <1>1, <1>2, <1>3, <1>4, <1>5, Cons

\* A literal program is the concatenation of its words.
LEMMA Tuples ==
  ASSUME NEW i \in Instr, NEW j \in Instr
  PROVE  /\ <<i>> \o <<>> = <<i>> /\ <<i>> \o <<j>> = <<i, j>>
         /\ \A k \in Instr : (<<i>> \o <<j>>) \o <<k>> = <<i, j, k>>
<1>1. <<i>> \in Code /\ <<j>> \in Code /\ <<i, j>> \in Code
  BY DEF Code
<1>2. <<i>> \o <<>> = <<i>>
  BY <1>1, EmptySeq, ConcatEmptySeq DEF Code
<1>3. <<i>> \o <<j>> = <<i, j>>
  <2> DEFINE c == <<i>> \o <<j>>
             d == <<i, j>>
  <2>1. c \in Seq(Instr) /\ Len(c) = 2 /\ c[1] = i /\ c[2] = j
    BY <1>1, ConcatProperties DEF Code
  <2>2. d \in Seq(Instr) /\ Len(d) = 2 /\ d[1] = i /\ d[2] = j
    BY <1>1 DEF Code
  <2> HIDE DEF c, d
  <2>3. \A n \in 1 .. Len(c) : c[n] = d[n]
    BY <2>1, <2>2
  <2>4. c = d
    BY <2>1, <2>2, <2>3, SeqEqual
  <2> QED BY <2>4 DEF c, d
<1>4. ASSUME NEW k \in Instr
      PROVE  <<i, j>> \o <<k>> = <<i, j, k>>
  <2> DEFINE c == <<i, j>> \o <<k>>
             d == <<i, j, k>>
  <2>1. <<k>> \in Code /\ Len(<<k>>) = 1 /\ Len(<<i, j>>) = 2
    BY DEF Code
  <2>2. c \in Seq(Instr) /\ Len(c) = 3 /\ c[1] = i /\ c[2] = j /\ c[3] = k
    BY <1>1, <2>1, ConcatProperties DEF Code
  <2>3. d \in Seq(Instr) /\ Len(d) = 3 /\ d[1] = i /\ d[2] = j /\ d[3] = k
    OBVIOUS
  <2> HIDE DEF c, d
  <2>4. \A n \in 1 .. Len(c) : c[n] = d[n]
    BY <2>2, <2>3
  <2>5. c = d
    BY <2>2, <2>3, <2>4, SeqEqual
  <2> QED BY <2>5 DEF c, d
<1> QED BY <1>2, <1>3, <1>4

\* Reading and writing one register under a lock, with free words in between.
LEMMA HeldAccess ==
  ASSUME NEW s, NEW p, NEW r \in Regs, r # "SYSDBG_DEG", NEW l \in Locks,
         r \in OneLock(s) => l = GuardOf(s, r),
         NEW a \in SUBSET AllFlags, NEW b \in SUBSET AllFlags, a \subseteq RegFlags[r],
         r = "REQ_MODE" => "SYSRST" \notin a \cup b,
         NEW m \in FreeCode(s)
  PROVE  Leads(s, p, (<<Read(r)>> \o m) \o <<Write(r, a, b)>>, In(l), In(l))
<1>1. CASE r \in OneLock(s)
  <2> DEFINE x == <<l, {r}, "even">>
  <2>1. x \in Points /\ x[2] \subseteq OneLock(s) /\ "even" \in Owed
    BY <1>1 DEF Points, Owed
  <2>2. Leads(s, p, m, x, x)
    BY <2>1, FreeLeads
  <2>3. Leads(s, p, <<Read(r)>>, In(l), x)
    BY <1>1, <2>1, HeldRead DEF In
  <2>4. GoodWrite(s, Write(r, a, b), x)
    BY <1>1 DEF GoodWrite, Write
  <2>5. Leads(s, p, <<Write(r, a, b)>>, x, In(l))
    BY <1>1, <2>1, <2>4, HeldWrite DEF In
  <2> HIDE DEF x
  <2> QED BY <2>2, <2>3, <2>5, LeadsSeq
<1>2. CASE r \notin OneLock(s)
  <2>1. Read(r) \in FreeSimple(s) /\ Write(r, a, b) \in FreeSimple(s)
    BY <1>2, FreeWord DEF FreeRegs
  <2>2. (<<Read(r)>> \o m) \o <<Write(r, a, b)>> \in FreeCode(s)
    BY <2>1, FreePrograms
  <2> QED BY <2>2, FreeOut
<1> QED BY <1>1, <1>2

LEMMA HeldRmw ==
  ASSUME NEW s, NEW p, NEW r \in Regs, r # "SYSDBG_DEG", NEW l \in Locks,
         r \in OneLock(s) => l = GuardOf(s, r),
         NEW a \in SUBSET AllFlags, NEW b \in SUBSET AllFlags, a \subseteq RegFlags[r],
         r = "REQ_MODE" => "SYSRST" \notin a \cup b
  PROVE  Leads(s, p, Rmw(r, a, b), In(l), In(l))
<1>1. Leads(s, p, (<<Read(r)>> \o <<>>) \o <<Write(r, a, b)>>, In(l), In(l))
  BY HeldAccess, FreePrograms
<1>2. (<<Read(r)>> \o <<>>) \o <<Write(r, a, b)>> = Rmw(r, a, b)
  BY Tuples, WordFact DEF Rmw
<1> QED BY <1>1, <1>2

\* A critical section.
LEMMA LockedLeads ==
  ASSUME NEW s, NEW p, p # Sspm, NEW l \in Locks, NEW f, Leads(s, p, f, In(l), In(l))
  PROVE  Leads(s, p, <<Lock(l)>> \o f \o <<Unlock(l)>>, Out, Out)
<1>1. Out \in Points /\ In(l) \in Points
  BY DEF Out, In, Points, Owed
<1>2. Lock(l) \in Instr /\ Unlock(l) \in Instr
  BY WordFact
<1>3. Leads(s, p, <<Lock(l)>>, Out, In(l))
  <2>1. Lock(l).op = "lock" /\ Lock(l).lock = l
    BY DEF Lock
  <2>2. Good(s, p, Lock(l), Out) /\ After(s, Lock(l), Out) = In(l)
    BY <2>1 DEF Good, After
  <2> QED BY <1>1, <1>2, <2>1, <2>2, Cons
<1>4. Leads(s, p, <<Unlock(l)>>, In(l), Out)
  <2>1. Unlock(l).op = "unlock" /\ Unlock(l).lock = l
    BY DEF Unlock
  <2>2. Good(s, p, Unlock(l), In(l)) /\ After(s, Unlock(l), In(l)) = Out
    BY <2>1 DEF Good, After, In
  <2> QED BY <1>1, <1>2, <2>1, <2>2, Cons
<1> QED BY <1>3, <1>4, LeadsSeq

\* Both versions of the driver are written in the same words.
LEMMA Words1 ==
  /\ \A r : V1!Read(r) = Read(r)
  /\ \A r, a, b : V1!Write(r, a, b) = Write(r, a, b)
  /\ \A r, v : V1!Put(r, v) = Put(r, v)
  /\ \A l : V1!Lock(l) = Lock(l) /\ V1!Unlock(l) = Unlock(l)
  /\ \A b : V1!SetEnable(b) = SetEnable(b)
  /\ V1!Kick = Kick /\ V1!SwReset = SwReset
  /\ \A r, a, b : V1!Rmw(r, a, b) = Rmw(r, a, b)
BY DEF V1!Read, Read, V1!Write, Write, V1!Put, Put, V1!Lock, Lock, V1!Unlock, Unlock,
       V1!SetEnable, SetEnable, V1!Kick, Kick, V1!SwReset, SwReset, V1!Rmw, Rmw

LEMMA Words2 ==
  /\ \A r : Api!Read(r) = Read(r)
  /\ \A r, a, b : Api!Write(r, a, b) = Write(r, a, b)
  /\ \A r, v : Api!Put(r, v) = Put(r, v)
  /\ \A r, f, q : Api!Branch(r, f, q) = Branch(r, f, q)
  /\ \A l : Api!Lock(l) = Lock(l) /\ Api!Unlock(l) = Unlock(l)
  /\ \A b : Api!SetEnable(b) = SetEnable(b)
  /\ Api!Kick = Kick /\ Api!PmicPreReset = PmicPreReset /\ Api!SwReset = SwReset
  /\ \A r, a, b : Api!Rmw(r, a, b) = Rmw(r, a, b)
BY DEF Api!Read, Read, Api!Write, Write, Api!Put, Put, Api!Branch, Branch, Api!Lock, Lock,
       Api!Unlock, Unlock, Api!SetEnable, SetEnable, Api!Kick, Kick, Api!PmicPreReset,
       PmicPreReset, Api!SwReset, SwReset,
       Api!Rmw, Rmw

LEMMA Words2Assign ==
  ASSUME NEW r, NEW f, NEW on \in BOOLEAN
  PROVE  Api!Assign(r, f, on) = Assign(r, f, on)
BY Words2 DEF Api!Assign, Assign

\* A critical section of version 1, under either lock.
LEMMA Locked1 ==
  ASSUME NEW s, NEW p, p # Sspm, NEW f
  PROVE  /\ Leads(s, p, f, In("rgu"), In("rgu")) => Leads(s, p, V1!Locked(f), Out, Out)
         /\ Leads(s, p, f, In("swrst"), In("swrst")) => Leads(s, p, V1!Under("swrst", f), Out, Out)
<1>1. \A l \in Locks : V1!Under(l, f) = <<Lock(l)>> \o f \o <<Unlock(l)>>
  BY Words1 DEF V1!Under
<1> QED BY <1>1, LockedLeads DEF Locks, V1!Locked

LEMMA Locked2 ==
  ASSUME NEW s, NEW p, p # Sspm, NEW f, Leads(s, p, f, In("rgu"), In("rgu"))
  PROVE  Leads(s, p, Api!Locked(f), Out, Out)
<1>1. Api!Locked(f) = <<Lock("rgu")>> \o f \o <<Unlock("rgu")>>
  BY Words2 DEF Api!Locked
<1> QED BY <1>1, LockedLeads DEF Locks

-----------------------------------------------------------------------------
(* The functions of version 1.                                              *)
LEMMA Guards ==
  ASSUME NEW s
  PROVE  /\ OneLock(s) \subseteq Regs /\ "SYSDBG_DEG" \notin OneLock(s)
         /\ {"REQ_MODE", "REQ_IRQ_EN"} \subseteq OneLock(s)
         /\ \A r : r # "SWSYSRST" => GuardOf(s, r) = "rgu"
         /\ s.version # 1 => \A r : GuardOf(s, r) = "rgu"
         /\ UsesController(s) /\ s.version = 1 => GuardOf(s, "SWSYSRST") = "swrst"
         /\ ~UsesController(s) => GuardOf(s, "SWSYSRST") = "rgu"
BY RegsFact DEF OneLock, GuardOf

LEMMA RegFlagsFact ==
  /\ RegFlags["MODE"] = {"ENABLE", "EXT_POL", "EXTEN", "IRQ", "DUAL", "AUTO_RESTART",
                         "DDR_RESERVE", "EXTRA_CNT"}
  /\ RegFlags["NONRST2"] = {"SSPM_RESET", "BYPASS_PWR_KEY", "SUSPEND_DIS"}
  /\ RegFlags["LENGTH"] = {"PROBE", "CONFIG"}
  /\ RegFlags["REQ_MODE"] = Marks /\ RegFlags["REQ_IRQ_EN"] = Marks
  /\ RegFlags["EXT_REQ_CON"] = {"EINT"} /\ RegFlags["SYSDBG_DEG"] = {"DEG"}
  /\ RegFlags["SWSYSRST"] = SwsysFlags
  /\ RegFlags["LATCH_CTL"] = {"DVFSRC"}
  /\ RegFlags["LATCH_CTL2"] = {"DFD_EN", "THERMAL1_DIS", "THERMAL2_DIS", "TIMEOUT"}
  /\ RegFlags["DEBUG_CTL"] = {"CACHE_PRESERVE", "DVFSRC_PAUSE"}
  /\ RegFlags["DEBUG_CTL2"] = {"DVFSRC_EN", "EMI_DCS_EN"}
  /\ RegFlags["RTC"] = {"recovery", "bootloader", "kpoc"}
BY DEF RegFlags

LEMMA MoreFlags ==
  ASSUME NEW r \in Regs, NEW a \in SUBSET RegFlags[r]
  PROVE  a \in SUBSET AllFlags
BY FlagsFact

\* An access of MODE under the lock.
LEMMA Mode1 ==
  ASSUME NEW s, NEW p, p # Sspm,
         NEW a \in SUBSET RegFlags["MODE"], NEW b \in SUBSET RegFlags["MODE"]
  PROVE  Leads(s, p, V1!Locked(V1!Rmw("MODE", a, b)), Out, Out)
<1>1. Leads(s, p, Rmw("MODE", a, b), In("rgu"), In("rgu"))
  BY HeldRmw, Guards, RegsFact, MoreFlags DEF Locks
<1> QED BY <1>1, Words1, Locked1

LEMMA ModeConfig1 ==
  ASSUME NEW s, NEW p, p # Sspm, NEW d \in BOOLEAN, NEW i \in BOOLEAN, NEW e \in BOOLEAN,
         NEW q \in BOOLEAN, NEW en \in BOOLEAN
  PROVE  Leads(s, p, V1!mtk_wdt_mode_config(d, i, e, q, en), Out, Out)
<1>1. V1!ModeFor(d, i, e, q, en) \subseteq RegFlags["MODE"]
  BY RegFlagsFact DEF V1!ModeFor, V1!Flag
<1>2. V1!ModeFlags \subseteq RegFlags["MODE"]
  BY RegFlagsFact DEF V1!ModeFlags
<1> QED BY <1>1, <1>2, Mode1 DEF V1!mtk_wdt_mode_config

LEMMA Timer1 ==
  ASSUME NEW s, NEW p, p # Sspm
  PROVE  /\ \A v \in RegFlags["LENGTH"] : Leads(s, p, V1!mtk_wdt_set_time_out_value(v), Out, Out)
         /\ \A t : Leads(s, p, V1!mtk_wdt_restart(t), Out, Out)
<1>1. "LENGTH" \in FreeRegs(s)
  BY RegsFact DEF FreeRegs, OneLock
<1>2. ASSUME NEW v \in RegFlags["LENGTH"]
      PROVE  Leads(s, p, V1!mtk_wdt_set_time_out_value(v), Out, Out)
  <2>1. {v} \in SUBSET RegFlags["LENGTH"] /\ {v} \in SUBSET AllFlags
    BY FlagsFact, RegsFact
  <2>2. <<Put("LENGTH", {v})>> \in FreeCode(s)
    BY <1>1, <2>1, FreeWord, FreePrograms
  <2> QED BY <2>2, FreeOut, Locked1, Words1 DEF V1!mtk_wdt_set_time_out_value, Locks
<1>3. Leads(s, p, <<Kick>>, Out, Out) /\ Leads(s, p, <<Kick>>, In("rgu"), In("rgu"))
  BY FreeWord, FreePrograms, FreeOut DEF Locks
<1>4. \A t : Leads(s, p, V1!mtk_wdt_restart(t), Out, Out)
  BY <1>3, Locked1, Words1 DEF V1!mtk_wdt_restart
<1> QED BY <1>2, <1>4

LEMMA Enable1 ==
  ASSUME NEW s, NEW p, p # Sspm, NEW en \in BOOLEAN
  PROVE  Leads(s, p, V1!mtk_wdt_enable(en), Out, Out)
<1> DEFINE a == V1!Flag(en, "ENABLE")
           b == V1!Flag(~en, "ENABLE")
<1>1. a \in SUBSET RegFlags["MODE"] /\ b \in SUBSET RegFlags["MODE"]
  BY RegFlagsFact DEF V1!Flag
<1> HIDE DEF a, b
<1>2. a \in SUBSET AllFlags /\ b \in SUBSET AllFlags
  BY <1>1, MoreFlags, RegsFact
<1>3. Leads(s, p, (<<Read("MODE")>> \o <<SetEnable(en)>>) \o <<Write("MODE", a, b)>>,
            In("rgu"), In("rgu"))
  BY <1>1, <1>2, HeldAccess, Guards, RegsFact, FreeWord, FreePrograms DEF Locks
<1>4. Read("MODE") \in Instr /\ SetEnable(en) \in Instr /\ Write("MODE", a, b) \in Instr
  BY <1>2, WordFact, RegsFact, FreeWord DEF Instr, Simple, Others
<1>5. <<Read("MODE"), SetEnable(en), Write("MODE", a, b)>>
        = (<<Read("MODE")>> \o <<SetEnable(en)>>) \o <<Write("MODE", a, b)>>
  BY <1>4, Tuples
<1>6. V1!mtk_wdt_enable(en) = V1!Locked(<<Read("MODE"), SetEnable(en), Write("MODE", a, b)>>)
  BY Words1 DEF V1!mtk_wdt_enable, a, b
<1> QED BY <1>3, <1>5, <1>6, Locked1

LEMMA Requests1 ==
  ASSUME NEW s, NEW p, p # Sspm, NEW mark, NEW on \in BOOLEAN
  PROVE  /\ Leads(s, p, V1!mtk_wdt_request_en_set(mark, on), Out, Out)
         /\ Leads(s, p, V1!mtk_wdt_request_mode_set(mark, on), Out, Out)
<1> DEFINE a == V1!Flag(on, mark) \cap V1!V1Marks
           b == V1!Flag(~on, mark) \cap V1!V1Marks
<1>1. /\ a \in SUBSET RegFlags["REQ_MODE"] /\ b \in SUBSET RegFlags["REQ_MODE"]
      /\ RegFlags["REQ_IRQ_EN"] = RegFlags["REQ_MODE"] /\ "SYSRST" \notin a \cup b
  BY RegFlagsFact DEF V1!V1Marks, Marks
<1>2. /\ V1!mtk_wdt_request_en_set(mark, on) = V1!Locked(Rmw("REQ_MODE", a, b))
      /\ V1!mtk_wdt_request_mode_set(mark, on) = V1!Locked(Rmw("REQ_IRQ_EN", a, b))
  BY Words1 DEF V1!mtk_wdt_request_en_set, V1!mtk_wdt_request_mode_set
<1> HIDE DEF a, b
<1>3. a \in SUBSET AllFlags /\ b \in SUBSET AllFlags
  BY <1>1, MoreFlags, RegsFact
<1>4. /\ Leads(s, p, Rmw("REQ_MODE", a, b), In("rgu"), In("rgu"))
      /\ Leads(s, p, Rmw("REQ_IRQ_EN", a, b), In("rgu"), In("rgu"))
  BY <1>1, <1>3, HeldRmw, Guards, RegsFact DEF Locks
<1> QED BY <1>2, <1>4, Locked1

\* The two paths to SWSYSRST, the driver's and the reset controller's.
LEMMA Swsys1 ==
  ASSUME NEW s, NEW p, p # Sspm, NEW bit, NEW on \in BOOLEAN,
         "SWSYSRST" \in OneLock(s) => ~UsesController(s)
  PROVE  Leads(s, p, V1!mtk_wdt_swsysret_config(bit, on), Out, Out)
<1> DEFINE a == V1!Flag(on, bit) \cap V1!V1Swsys
           b == V1!Flag(~on, bit) \cap V1!V1Swsys
<1>1. a \in SUBSET RegFlags["SWSYSRST"] /\ b \in SUBSET RegFlags["SWSYSRST"]
  BY RegFlagsFact DEF V1!V1Swsys, SwsysFlags
<1>2. V1!mtk_wdt_swsysret_config(bit, on) = V1!Locked(Rmw("SWSYSRST", a, b))
  BY Words1 DEF V1!mtk_wdt_swsysret_config
<1> HIDE DEF a, b
<1>3. a \in SUBSET AllFlags /\ b \in SUBSET AllFlags
  BY <1>1, MoreFlags, RegsFact
<1>4. Leads(s, p, Rmw("SWSYSRST", a, b), In("rgu"), In("rgu"))
  BY <1>1, <1>3, HeldRmw, Guards, RegsFact DEF Locks
<1> QED BY <1>2, <1>4, Locked1

LEMMA Controller1 ==
  ASSUME NEW s, NEW p, p # Sspm, NEW id \in SwsysFlags, s.version = 1, UsesController(s)
  PROVE  /\ Leads(s, p, V1!toprgu_reset_assert(id), Out, Out)
         /\ Leads(s, p, V1!toprgu_reset(id), Out, Out)
<1>1. {id} \in SUBSET RegFlags["SWSYSRST"] /\ {} \in SUBSET RegFlags["SWSYSRST"]
  BY RegFlagsFact
<1>2. {id} \in SUBSET AllFlags /\ {} \in SUBSET AllFlags
  BY <1>1, MoreFlags, RegsFact
<1>3. /\ Leads(s, p, Rmw("SWSYSRST", {id}, {}), In("swrst"), In("swrst"))
      /\ Leads(s, p, Rmw("SWSYSRST", {}, {id}), In("swrst"), In("swrst"))
  BY <1>1, <1>2, HeldRmw, Guards, RegsFact DEF Locks
<1>4. /\ Leads(s, p, V1!toprgu_reset_assert(id), Out, Out)
      /\ Leads(s, p, V1!toprgu_reset_deassert(id), Out, Out)
  BY <1>3, Locked1, Words1 DEF V1!toprgu_reset_assert, V1!toprgu_reset_deassert
<1> QED BY <1>4, LeadsSeq DEF V1!toprgu_reset

LEMMA ArchReset1 ==
  ASSUME NEW s, NEW p, p # Sspm, NEW bypass \in BOOLEAN
  PROVE  Leads(s, p, V1!wdt_arch_reset(bypass), Out, Out)
<1> DEFINE a == {"EXTEN"} \cup V1!Flag(bypass, "AUTO_RESTART")
           b == {"IRQ", "ENABLE", "DUAL"} \cup V1!Flag(~bypass, "AUTO_RESTART")
<1>1. a \in SUBSET RegFlags["MODE"] /\ b \in SUBSET RegFlags["MODE"]
  BY RegFlagsFact DEF V1!Flag
<1>2. V1!wdt_arch_reset(bypass) = V1!Locked(<<Kick>> \o Rmw("MODE", a, b) \o <<SwReset>>)
  BY Words1 DEF V1!wdt_arch_reset
<1> HIDE DEF a, b
<1>3. a \in SUBSET AllFlags /\ b \in SUBSET AllFlags
  BY <1>1, MoreFlags, RegsFact
<1>4. Leads(s, p, Rmw("MODE", a, b), In("rgu"), In("rgu"))
  BY <1>1, <1>3, HeldRmw, Guards, RegsFact DEF Locks
<1>5. /\ Leads(s, p, <<Kick>>, In("rgu"), In("rgu"))
      /\ Leads(s, p, <<SwReset>>, In("rgu"), In("rgu"))
  BY FreeWord, FreePrograms, FreeOut DEF Locks
<1>6. Leads(s, p, <<Kick>> \o Rmw("MODE", a, b) \o <<SwReset>>, In("rgu"), In("rgu"))
  BY <1>4, <1>5, LeadsSeq
<1> QED BY <1>2, <1>6, Locked1

LEMMA Sleep1 ==
  ASSUME NEW s, NEW p, p # Sspm
  PROVE  /\ Leads(s, p, V1!mtk_wd_suspend, Out, Out)
         /\ Leads(s, p, V1!mtk_wd_resume, Out, Out)
<1>1. \A t : Leads(s, p, V1!mtk_wdt_restart(t), Out, Out)
  BY Timer1
<1>2. Leads(s, p, V1!mtk_wdt_set_time_out_value("PROBE"), Out, Out)
  BY Timer1, RegFlagsFact
<1>3. /\ Leads(s, p, V1!mtk_wdt_mode_config(TRUE, TRUE, TRUE, FALSE, FALSE), Out, Out)
      /\ Leads(s, p, V1!mtk_wdt_mode_config(TRUE, TRUE, TRUE, FALSE, TRUE), Out, Out)
  BY ModeConfig1
<1>4. Leads(s, p, V1!mtk_wd_suspend, Out, Out)
  BY <1>1, <1>3, LeadsSeq DEF V1!mtk_wd_suspend
<1>5. Leads(s, p, V1!mtk_wdt_set_time_out_value("PROBE")
                    \o V1!mtk_wdt_mode_config(TRUE, TRUE, TRUE, FALSE, TRUE)
                    \o V1!mtk_wdt_restart("NORMAL"), Out, Out)
  BY <1>1, <1>2, <1>3, LeadsSeq
<1>6. Leads(s, p, V1!mtk_wd_resume, Out, Out)
  BY <1>5, LeadsSkip DEF V1!mtk_wd_resume, V1!If
<1> QED BY <1>4, <1>6

\* The program of an operation without arguments.
LEMMA Plain1 ==
  ASSUME NEW o
  PROVE  /\ o[1] = "suspend" => V1!Program(o) = V1!mtk_wd_suspend
         /\ o[1] = "resume" => V1!Program(o) = V1!mtk_wd_resume
         /\ o[1] = "timeout" => V1!Program(o) = V1!mtk_wdt_set_time_out_value("CONFIG")
         /\ o[1] = "confirm" => V1!Program(o) = V1!mtk_wdt_confirm_hwreboot
BY DEF V1!Program

\* Every operation of version 1 keeps the rules.
LEMMA Operation1 ==
  ASSUME NEW s \in Starts, s.version = 1, NEW p \in Procs, NEW o \in s.ops[p]
  PROVE  Leads(s, p, V1!Program(o), Out, Out)
<1>1. p # Sspm /\ (o \in V1!Ops \/ o \in V1!PmOps)
  BY StartAssumption DEF Procs
<1>2. CASE o \in V1!PmOps
  <2>1. o[1] = "suspend" \/ o[1] = "resume"
    BY <1>2 DEF V1!PmOps
  <2>2. V1!Program(o) = V1!mtk_wd_suspend \/ V1!Program(o) = V1!mtk_wd_resume
    BY <2>1, Plain1
  <2> QED BY <1>1, <2>2, Sleep1
<1>3. CASE o \in {<<"timeout">>, <<"confirm">>}
  <2>1. o[1] = "timeout" \/ o[1] = "confirm"
    BY <1>3
  <2>2. \/ V1!Program(o) = V1!mtk_wdt_set_time_out_value("CONFIG")
        \/ V1!Program(o) = V1!mtk_wdt_confirm_hwreboot
    BY <2>1, Plain1
  <2>3. "CONFIG" \in RegFlags["LENGTH"]
    BY RegFlagsFact
  <2>4. Leads(s, p, V1!mtk_wdt_set_time_out_value("CONFIG"), Out, Out)
    BY <1>1, <2>3, Timer1
  <2>5. Leads(s, p, V1!mtk_wdt_confirm_hwreboot, Out, Out)
    BY <1>1, ModeConfig1 DEF V1!mtk_wdt_confirm_hwreboot
  <2> QED BY <2>2, <2>4, <2>5
<1>4. CASE o \in {"enable"} \X BOOLEAN
  <2>1. PICK b \in BOOLEAN : o = <<"enable", b>>
    BY <1>4
  <2>2. V1!Program(o) = V1!mtk_wdt_enable(b)
    BY <2>1 DEF V1!Program
  <2> QED BY <1>1, <2>2, Enable1
<1>5. CASE o \in {"request_en", "request_mode", "swsys"} \X V1!Names \X BOOLEAN
  <2>1. PICK n \in {"request_en", "request_mode", "swsys"}, m \in V1!Names, b \in BOOLEAN :
          o = <<n, m, b>>
    BY <1>5
  <2>2. /\ n = "request_en" => V1!Program(o) = V1!mtk_wdt_request_en_set(m, b)
        /\ n = "request_mode" => V1!Program(o) = V1!mtk_wdt_request_mode_set(m, b)
        /\ n = "swsys" => V1!Program(o) = V1!mtk_wdt_swsysret_config(m, b)
    BY <2>1 DEF V1!Program
  <2>3. n = "swsys" /\ "SWSYSRST" \in OneLock(s) => ~UsesController(s)
    BY <2>1 DEF OneLock, Uses
  <2> QED BY <1>1, <2>1, <2>2, <2>3, Requests1, Swsys1
<1>6. CASE o \in {"toprgu_assert", "toprgu_reset"} \X SwsysFlags
  <2>1. PICK n \in {"toprgu_assert", "toprgu_reset"}, id \in SwsysFlags : o = <<n, id>>
    BY <1>6
  <2>2. \/ V1!Program(o) = V1!toprgu_reset_assert(id)
        \/ V1!Program(o) = V1!toprgu_reset(id)
    BY <2>1 DEF V1!Program
  <2>3. UsesController(s)
    BY <2>1 DEF UsesController, Uses
  <2> QED BY <1>1, <2>2, <2>3, Controller1
<1>7. CASE o \in {"restart", "arch_reset"} \X V1!Names
  <2>1. PICK n \in {"restart", "arch_reset"}, c \in V1!Names : o = <<n, c>>
    BY <1>7
  <2>2. /\ n = "restart" => V1!Program(o) = V1!mtk_wdt_restart(c)
        /\ n = "arch_reset" => V1!Program(o) = V1!wdt_arch_reset(V1!BypassKey(c))
    BY <2>1 DEF V1!Program
  <2>3. V1!BypassKey(c) \in BOOLEAN
    BY DEF V1!BypassKey
  <2>4. Leads(s, p, V1!wdt_arch_reset(V1!BypassKey(c)), Out, Out)
    BY <1>1, <2>3, ArchReset1
  <2> QED BY <1>1, <2>1, <2>2, <2>4, Timer1
<1>8. o \in V1!Ops =>
        \/ o \in {<<"timeout">>, <<"confirm">>} \/ o \in {"enable"} \X BOOLEAN
        \/ o \in {"request_en", "request_mode", "swsys"} \X V1!Names \X BOOLEAN
        \/ o \in {"toprgu_assert", "toprgu_reset"} \X SwsysFlags
        \/ o \in {"restart", "arch_reset"} \X V1!Names
  BY Zenon DEF V1!Ops, V1!SwsysFlags, SwsysFlags
<1> QED BY <1>1, <1>2, <1>3, <1>4, <1>5, <1>6, <1>7, <1>8, Zenon

-----------------------------------------------------------------------------
(* The functions of version 2.                                              *)
LEMMA Free2 ==
  ASSUME NEW s, s.version = 2
  PROVE  {"MODE", "NONRST2", "LENGTH", "EXT_REQ_CON", "LATCH_CTL", "LATCH_CTL2", "DEBUG_CTL",
          "DEBUG_CTL2", "RTC"} \subseteq FreeRegs(s)
BY RegsFact DEF FreeRegs, OneLock

\* Longer programs of free words.
LEMMA FreeTuples ==
  ASSUME NEW s, NEW i \in FreeSimple(s), NEW j \in FreeSimple(s), NEW k \in FreeSimple(s),
         NEW l \in FreeSimple(s)
  PROVE  /\ <<i, j, k>> \in FreeCode(s) /\ <<i, j, k, l>> \in FreeCode(s)
         /\ \A m \in FreeSimple(s) : <<i, j, k, l, m>> \in FreeCode(s)
BY DEF FreeCode, FreeInstr

LEMMA FreeBranch ==
  ASSUME NEW s, NEW r \in Regs, NEW f \in AllFlags, NEW q \in Seq(FreeSimple(s))
  PROVE  <<Branch(r, f, q)>> \in FreeCode(s)
<1>1. Branch(r, f, q) \in FreeInstr(s)
  BY DEF FreeInstr, FreeBranches
<1> QED BY <1>1 DEF FreeCode

LEMMA ModeBody2 ==
  ASSUME NEW s, s.version = 2, NEW d \in BOOLEAN, NEW i \in BOOLEAN, NEW e \in BOOLEAN,
         NEW q \in BOOLEAN, NEW en \in BOOLEAN
  PROVE  Api!ModeBody(d, i, e, q, en) \in FreeCode(s)
<1> DEFINE m == Api!ModeFor(d, i, e, q, en)
           c == Api!ModeFlags \ m
<1>1. m \in SUBSET RegFlags["MODE"]
  BY RegFlagsFact DEF Api!ModeFor, Api!Flag
<1>2. Api!ModeFlags \in SUBSET RegFlags["MODE"]
  BY RegFlagsFact DEF Api!ModeFlags
<1>3. Api!ModeBody(d, i, e, q, en)
        = <<Read("MODE"), Write("NONRST2", {"BYPASS_PWR_KEY"}, {}), Write("MODE", m, c)>>
  BY Words2 DEF Api!ModeBody
<1> HIDE DEF m
<1>4. m \in SUBSET AllFlags /\ c \in SUBSET AllFlags
  BY <1>1, <1>2, MoreFlags, RegsFact
<1> HIDE DEF c
<1>5. {"BYPASS_PWR_KEY"} \in SUBSET RegFlags["NONRST2"] /\ {} \in SUBSET AllFlags
  BY RegFlagsFact
<1>6. {"BYPASS_PWR_KEY"} \in SUBSET AllFlags
  BY <1>5, MoreFlags, RegsFact
<1>7. /\ Read("MODE") \in FreeSimple(s)
      /\ Write("NONRST2", {"BYPASS_PWR_KEY"}, {}) \in FreeSimple(s)
      /\ Write("MODE", m, c) \in FreeSimple(s)
  BY <1>1, <1>4, <1>5, <1>6, Free2, FreeWord
<1> QED BY <1>3, <1>7, FreeTuples

LEMMA ModeConfig2 ==
  ASSUME NEW s, s.version = 2, NEW p, p # Sspm, NEW d \in BOOLEAN, NEW i \in BOOLEAN,
         NEW e \in BOOLEAN, NEW q \in BOOLEAN, NEW en \in BOOLEAN
  PROVE  /\ Leads(s, p, Api!mtk_wdt_mode_config(d, i, e, q, en), Out, Out)
         /\ Leads(s, p, Api!mtk_wdt_mode_config_nolock(d, i, e, q, en), Out, Out)
<1>1. Api!ModeBody(d, i, e, q, en) \in FreeCode(s)
  BY ModeBody2
<1> DEFINE f == Api!ModeBody(d, i, e, q, en)
<1>2. /\ Api!mtk_wdt_mode_config(d, i, e, q, en) = <<Read("NONRST2")>> \o Api!Locked(f)
      /\ Api!mtk_wdt_mode_config_nolock(d, i, e, q, en) = <<Read("NONRST2")>> \o f
  BY Words2 DEF Api!mtk_wdt_mode_config, Api!mtk_wdt_mode_config_nolock
<1> HIDE DEF f
<1>3. <<Read("NONRST2")>> \in FreeCode(s)
  BY Free2, FreeWord, FreePrograms
<1>4. Leads(s, p, <<Read("NONRST2")>>, Out, Out) /\ Leads(s, p, f, Out, Out)
      /\ Leads(s, p, f, In("rgu"), In("rgu"))
  BY <1>1, <1>3, FreeOut DEF f, Locks
<1>5. Leads(s, p, Api!Locked(f), Out, Out)
  BY <1>4, Locked2
<1> QED BY <1>2, <1>4, <1>5, LeadsSeq

LEMMA Timer2 ==
  ASSUME NEW s, s.version = 2, NEW p, p # Sspm
  PROVE  /\ \A v \in RegFlags["LENGTH"] : Leads(s, p, Api!mtk_wdt_set_time_out_value(v), Out, Out)
         /\ Leads(s, p, Api!mtk_wdt_restart, Out, Out)
<1>2. ASSUME NEW v \in RegFlags["LENGTH"]
      PROVE  Leads(s, p, Api!mtk_wdt_set_time_out_value(v), Out, Out)
  <2>1. {v} \in SUBSET RegFlags["LENGTH"] /\ {v} \in SUBSET AllFlags
    BY FlagsFact, RegsFact
  <2>2. <<Put("LENGTH", {v})>> \in FreeCode(s)
    BY <2>1, Free2, FreeWord, FreePrograms
  <2> QED BY <2>2, FreeOut, Locked2, Words2 DEF Api!mtk_wdt_set_time_out_value, Locks
<1>3. Leads(s, p, <<Kick>>, In("rgu"), In("rgu"))
  BY FreeWord, FreePrograms, FreeOut DEF Locks
<1>4. Leads(s, p, Api!mtk_wdt_restart, Out, Out)
  BY <1>3, Locked2, Words2 DEF Api!mtk_wdt_restart
<1> QED BY <1>2, <1>4

LEMMA Assign2 ==
  ASSUME NEW s, NEW p, NEW r \in FreeRegs(s), NEW f \in RegFlags[r], NEW on \in BOOLEAN
  PROVE  /\ Api!Assign(r, f, on) \in FreeCode(s) /\ Api!Assign(r, f, on) \in Seq(FreeSimple(s))
         /\ Leads(s, p, Api!Assign(r, f, on), Out, Out)
BY Words2Assign, FreeAssign, FreeOut

LEMMA Enable2 ==
  ASSUME start.version = 2, NEW p, p # Sspm, NEW en \in BOOLEAN
  PROVE  Leads(start, p, Api!mtk_wdt_enable(en), Out, Out)
<1> DEFINE a == Api!Flag(en, "ENABLE")
           b == Api!Flag(~en, "ENABLE")
           f == <<Read("MODE"), SetEnable(en), Write("MODE", a, b)>>
<1>1. a \in SUBSET RegFlags["MODE"] /\ b \in SUBSET RegFlags["MODE"]
  BY RegFlagsFact DEF Api!Flag
<1>2. Api!mtk_wdt_enable(en) = Api!Locked(f) \/ Api!mtk_wdt_enable(en) = <<>>
  BY Words2 DEF Api!mtk_wdt_enable, Api!If
<1> HIDE DEF a, b
<1>3. a \in SUBSET AllFlags /\ b \in SUBSET AllFlags
  BY <1>1, MoreFlags, RegsFact
<1>4. /\ Read("MODE") \in FreeSimple(start) /\ SetEnable(en) \in FreeSimple(start)
      /\ Write("MODE", a, b) \in FreeSimple(start)
  BY <1>1, <1>3, Free2, FreeWord
<1>5. f \in FreeCode(start)
  BY <1>4, FreeTuples
<1> HIDE DEF f
<1> QED BY <1>2, <1>5, FreeOut, Locked2, LeadsSkip DEF Locks

LEMMA Sleep2 ==
  ASSUME start.version = 2, NEW p, p # Sspm
  PROVE  /\ Leads(start, p, Api!mtk_wd_suspend, Out, Out)
         /\ Leads(start, p, Api!mtk_wd_resume, Out, Out)
<1> DEFINE Off == Api!mtk_wdt_mode_config(TRUE, TRUE, TRUE, FALSE, FALSE)
           On == Api!mtk_wdt_mode_config(TRUE, TRUE, TRUE, FALSE, TRUE)
           Mark == Api!Assign("NONRST2", "SUSPEND_DIS", TRUE)
           Clear == Api!Assign("NONRST2", "SUSPEND_DIS", FALSE)
           Length == Api!mtk_wdt_set_time_out_value("PROBE")
<1>1. /\ Api!mtk_wd_suspend = (Off \o Mark) \o Api!mtk_wdt_restart
         \/ Api!mtk_wd_suspend = <<>> \o Api!mtk_wdt_restart
      /\ \/ Api!mtk_wd_resume = <<>>
         \/ Api!mtk_wd_resume = Length \o (On \o Clear) \o Api!mtk_wdt_restart
         \/ Api!mtk_wd_resume = Length \o <<>> \o Api!mtk_wdt_restart
  BY DEF Api!mtk_wd_suspend, Api!mtk_wd_resume, Api!If
<1>2. Leads(start, p, Off, Out, Out) /\ Leads(start, p, On, Out, Out)
  BY ModeConfig2
<1>3. Leads(start, p, Mark, Out, Out) /\ Leads(start, p, Clear, Out, Out)
  BY Assign2, Free2, RegFlagsFact
<1>4. Leads(start, p, Length, Out, Out) /\ Leads(start, p, Api!mtk_wdt_restart, Out, Out)
  BY Timer2, RegFlagsFact
<1> HIDE DEF Off, On, Mark, Clear, Length
<1>5. Leads(start, p, Off \o Mark, Out, Out) /\ Leads(start, p, On \o Clear, Out, Out)
      /\ Leads(start, p, <<>>, Out, Out)
  BY <1>2, <1>3, LeadsSeq, LeadsSkip
<1>6. /\ Leads(start, p, (Off \o Mark) \o Api!mtk_wdt_restart, Out, Out)
      /\ Leads(start, p, <<>> \o Api!mtk_wdt_restart, Out, Out)
      /\ Leads(start, p, Length \o (On \o Clear) \o Api!mtk_wdt_restart, Out, Out)
      /\ Leads(start, p, Length \o <<>> \o Api!mtk_wdt_restart, Out, Out)
  BY <1>4, <1>5, LeadsSeq
<1> QED BY <1>1, <1>5, <1>6

LEMMA Swsys2 ==
  ASSUME start.version = 2, NEW p, p # Sspm, NEW bit, NEW on \in BOOLEAN
  PROVE  Leads(start, p, Api!mtk_wdt_swsysret_config(bit, on), Out, Out)
<1> DEFINE a == Api!Flag(on, bit) \cap Api!V2Swsys
           b == Api!Flag(~on, bit) \cap Api!V2Swsys
<1>1. a \in SUBSET RegFlags["SWSYSRST"] /\ b \in SUBSET RegFlags["SWSYSRST"]
  BY RegFlagsFact DEF Api!V2Swsys, Api!SwsysFlags, SwsysFlags
<1>2. Api!mtk_wdt_swsysret_config(bit, on) = Api!Locked(Rmw("SWSYSRST", a, b))
  BY Words2 DEF Api!mtk_wdt_swsysret_config
<1> HIDE DEF a, b
<1>3. a \in SUBSET AllFlags /\ b \in SUBSET AllFlags
  BY <1>1, MoreFlags, RegsFact
<1>4. GuardOf(start, "SWSYSRST") = "rgu" /\ "SWSYSRST" \in Regs
  BY RegsFact DEF GuardOf
<1>5. Leads(start, p, Rmw("SWSYSRST", a, b), In("rgu"), In("rgu"))
  BY <1>1, <1>3, <1>4, HeldRmw DEF Locks
<1> QED BY <1>2, <1>5, Locked2

\* A request source's mode.  Without DOE the register is cleared in the same
\* critical section.
LEMMA RequestMode2 ==
  ASSUME start.version = 2, NEW p, p # Sspm, NEW mark \in Marks, NEW irq \in BOOLEAN
  PROVE  Leads(start, p, Api!mtk_wdt_request_mode_set(mark, irq), Out, Out)
<1> DEFINE a == Api!Flag(irq, mark) \cap Api!V2Marks
           b == Api!Flag(~irq, mark)
           f == Rmw("REQ_IRQ_EN", a, b)
           clear == <<Put("REQ_IRQ_EN", {})>>
<1>1. a \in SUBSET RegFlags["REQ_IRQ_EN"] /\ b \in SUBSET RegFlags["REQ_IRQ_EN"]
  BY RegFlagsFact DEF Api!V2Marks, Api!Flag, Api!Marks, Marks
<1>2. \/ Api!mtk_wdt_request_mode_set(mark, irq) = Api!Locked(f \o clear)
      \/ Api!mtk_wdt_request_mode_set(mark, irq) = Api!Locked(f \o <<>>)
  BY Words2 DEF Api!mtk_wdt_request_mode_set, Api!If
<1> HIDE DEF a, b
<1>3. a \in SUBSET AllFlags /\ b \in SUBSET AllFlags /\ {} \in SUBSET AllFlags
  BY <1>1, MoreFlags, RegsFact
<1>4. Leads(start, p, f, In("rgu"), In("rgu"))
  BY <1>1, <1>3, HeldRmw, Guards, RegsFact DEF Locks
<1>5. Leads(start, p, clear, In("rgu"), In("rgu"))
  <2> DEFINE i == Put("REQ_IRQ_EN", {})
  <2>1. i \in Instr /\ i.op = "put" /\ i.reg = "REQ_IRQ_EN" /\ i.val = {}
    BY <1>3, WordFact, RegsFact DEF Put
  <2>2. In("rgu") \in Points /\ In("rgu")[1] = "rgu" /\ In("rgu")[2] = {} /\ In("rgu")[3] = "even"
    BY DEF In, Points, Owed, Locks
  <2>3. GoodPut(start, i, In("rgu"))
    BY <2>1, <2>2, Guards DEF GoodPut
  <2>4. Good(start, p, i, In("rgu"))
    BY <2>1, <2>3 DEF Good
  <2>5. After(start, i, In("rgu")) = In("rgu")
    BY <2>1 DEF After, In
  <2> HIDE DEF i
  <2>6. Leads(start, p, <<i>>, In("rgu"), In("rgu"))
    BY <2>1, <2>2, <2>4, <2>5, Cons
  <2> QED BY <2>6 DEF i
<1> HIDE DEF f, clear
<1>6. /\ Leads(start, p, f \o clear, In("rgu"), In("rgu"))
      /\ Leads(start, p, f \o <<>>, In("rgu"), In("rgu"))
  BY <1>4, <1>5, LeadsSeq, LeadsSkip
<1> QED BY <1>2, <1>6, Locked2

\* A request source.  For the reset key the debounce is set first; the write
\* of the request register in the same critical section settles it.
LEMMA EnSetBody2 ==
  ASSUME start.version = 2, NEW p, NEW mark \in Marks, NEW on \in BOOLEAN,
         Dark(start) => on = FALSE
  PROVE  Leads(start, p, Api!EnSetBody(mark, on), In("rgu"), In("rgu"))
<1> DEFINE set == Api!Flag(on /\ (mark = "EINT" => Api!eint), mark) \cap Api!V2Marks
           clear == {mark} \ set
           deg == Api!Flag(on, "DEG")
           w == IF mark = "SYSRST" THEN (IF on THEN "on" ELSE "off") ELSE "even"
           x == <<"rgu", {"REQ_MODE"}, "even">>
           y == <<"rgu", {"REQ_MODE"}, w>>
           A == Api!If(mark = "EINT" /\ on /\ Api!eint, <<Put("EXT_REQ_CON", {"EINT"})>>)
           B == Api!If(mark = "SYSRST", <<Put("SYSDBG_DEG", deg)>>)
<1>1. Api!EnSetBody(mark, on)
        = <<Read("REQ_MODE")>> \o A \o B \o <<Write("REQ_MODE", set, clear)>>
  BY Words2 DEF Api!EnSetBody
<1>2. /\ set \in SUBSET RegFlags["REQ_MODE"] /\ clear \in SUBSET RegFlags["REQ_MODE"]
      /\ mark # "SYSRST" => "SYSRST" \notin set \cup clear
      /\ mark = "SYSRST" /\ on => "SYSRST" \in set \ clear
      /\ ~on => "SYSRST" \notin set /\ (mark = "SYSRST" => "SYSRST" \in clear)
  BY RegFlagsFact DEF Api!V2Marks, Api!Flag, Api!Marks, Marks
<1>3. /\ deg \in SUBSET RegFlags["SYSDBG_DEG"] /\ (on => "DEG" \in deg)
      /\ (~on => deg = {})
  BY RegFlagsFact DEF Api!Flag
<1>4. /\ w \in Owed /\ (w = "on" <=> mark = "SYSRST" /\ on)
      /\ (w = "off" <=> mark = "SYSRST" /\ ~on) /\ (mark # "SYSRST" <=> w = "even")
  BY DEF Owed
<1>5. A = <<>> \/ A = <<Put("EXT_REQ_CON", {"EINT"})>>
  BY DEF Api!If
<1>6. IF mark = "SYSRST" THEN B = <<Put("SYSDBG_DEG", deg)>> ELSE B = <<>>
  BY DEF Api!If
<1> HIDE DEF set, clear, deg, w, A, B
<1>7. set \in SUBSET AllFlags /\ clear \in SUBSET AllFlags /\ deg \in SUBSET AllFlags
  BY <1>2, <1>3, MoreFlags, RegsFact
<1>8. /\ "REQ_MODE" \in OneLock(start) /\ GuardOf(start, "REQ_MODE") = "rgu"
      /\ x \in Points /\ y \in Points /\ "even" \in Owed
  BY <1>4, RegsFact DEF OneLock, GuardOf, Points, Locks, Owed
<1>9. Leads(start, p, <<Read("REQ_MODE")>>, In("rgu"), x)
  BY <1>8, HeldRead DEF In
<1>10. Leads(start, p, A, x, x)
  <2>1. {"EINT"} \in SUBSET RegFlags["EXT_REQ_CON"]
    BY RegFlagsFact
  <2>2. {"EINT"} \in SUBSET AllFlags
    BY <2>1, MoreFlags, RegsFact
  <2>3. <<Put("EXT_REQ_CON", {"EINT"})>> \in FreeCode(start)
    BY <2>1, <2>2, Free2, FreeWord, FreePrograms
  <2>4. x[2] \subseteq OneLock(start)
    BY <1>8
  <2> QED BY <1>5, <1>8, <2>3, <2>4, FreeLeads, LeadsSkip
<1>11. Leads(start, p, B, x, y)
  <2>1. CASE mark = "SYSRST"
    <3> DEFINE i == Put("SYSDBG_DEG", deg)
    <3>1. i \in Instr /\ i.op = "put" /\ i.reg = "SYSDBG_DEG" /\ i.val = deg
      BY <1>7, WordFact, RegsFact DEF Put
    <3>2. "SYSDBG_DEG" \notin OneLock(start)
      BY Guards
    <3> HIDE DEF i
    <3>3. GoodPut(start, i, x)
      BY <1>3, <3>1, <3>2 DEF GoodPut
    <3>4. Good(start, p, i, x)
      BY <3>1, <3>3 DEF Good
    <3>5. After(start, i, x) = y
      <4>1. x[2] \ {"SYSDBG_DEG"} = {"REQ_MODE"}
        OBVIOUS
      <4>2. w = IF "DEG" \in deg THEN "on" ELSE "off"
        BY <1>3, <2>1 DEF w
      <4> QED BY <3>1, <4>1, <4>2 DEF After
    <3>6. Leads(start, p, <<i>>, x, y)
      BY <1>8, <3>1, <3>4, <3>5, Cons
    <3> QED BY <1>6, <2>1, <3>6 DEF i
  <2>2. CASE mark # "SYSRST"
    <3>1. x = y
      BY <1>4, <2>2
    <3>2. B = <<>>
      BY <1>6, <2>2
    <3> QED BY <3>1, <3>2, LeadsSkip
  <2> QED BY <2>1, <2>2
<1>12. Leads(start, p, <<Write("REQ_MODE", set, clear)>>, y, In("rgu"))
  <2> DEFINE i == Write("REQ_MODE", set, clear)
  <2>1. i.reg = "REQ_MODE" /\ i.set = set /\ i.clear = clear
    BY DEF Write
  <2> HIDE DEF i
  <2>2. GoodWrite(start, i, y)
    BY <1>2, <1>4, <1>8, <2>1 DEF GoodWrite
  <2>3. Leads(start, p, <<Write("REQ_MODE", set, clear)>>, <<"rgu", {"REQ_MODE"}, w>>,
              <<"rgu", {}, "even">>)
    BY <1>2, <1>4, <1>7, <1>8, <2>2, HeldWrite DEF i
  <2> QED BY <2>3 DEF In
<1> HIDE DEF x, y
<1> QED BY <1>1, <1>9, <1>10, <1>11, <1>12, LeadsSeq

LEMMA RequestEnable2 ==
  ASSUME start.version = 2, start.doe \in BOOLEAN, NEW p, p # Sspm, NEW mark \in Marks,
         NEW en \in BOOLEAN
  PROVE  Leads(start, p, Api!mtk_wdt_request_en_set(mark, en), Out, Out)
<1> DEFINE on == en /\ Api!doe
           f == Api!EnSetBody(mark, on)
           clear == <<Put("REQ_MODE", {})>>
<1>1. on \in BOOLEAN /\ (Dark(start) => on = FALSE)
  BY DEF Dark, Api!doe
<1>2. Leads(start, p, f, In("rgu"), In("rgu"))
  BY <1>1, EnSetBody2
<1>3. /\ Api!doe => Api!mtk_wdt_request_en_set(mark, en) = Api!Locked(f \o <<>>)
      /\ ~Api!doe => Api!mtk_wdt_request_en_set(mark, en) = Api!Locked(f \o clear)
  BY Words2 DEF Api!mtk_wdt_request_en_set, Api!If
<1>4. ASSUME ~Api!doe
      PROVE  Leads(start, p, clear, In("rgu"), In("rgu"))
  <2> DEFINE i == Put("REQ_MODE", {})
  <2>1. i \in Instr /\ i.op = "put" /\ i.reg = "REQ_MODE" /\ i.val = {}
    BY WordFact, RegsFact DEF Put
  <2>2. In("rgu") \in Points /\ In("rgu")[1] = "rgu" /\ In("rgu")[2] = {} /\ In("rgu")[3] = "even"
    BY DEF In, Points, Owed, Locks
  <2>3. GuardOf(start, "REQ_MODE") = "rgu" /\ Dark(start)
    BY <1>4 DEF GuardOf, Dark, Api!doe
  <2>4. GoodPut(start, i, In("rgu"))
    BY <2>1, <2>2, <2>3 DEF GoodPut
  <2>5. Good(start, p, i, In("rgu"))
    BY <2>1, <2>4 DEF Good
  <2>6. After(start, i, In("rgu")) = In("rgu")
    BY <2>1 DEF After, In
  <2> HIDE DEF i
  <2>7. Leads(start, p, <<i>>, In("rgu"), In("rgu"))
    BY <2>1, <2>2, <2>5, <2>6, Cons
  <2> QED BY <2>7 DEF i
<1> HIDE DEF f, clear
<1>5. CASE Api!doe
  <2>1. Leads(start, p, f \o <<>>, In("rgu"), In("rgu"))
    BY <1>2, LeadsSeq, LeadsSkip
  <2> QED BY <1>3, <1>5, <2>1, Locked2
<1>6. CASE ~Api!doe
  <2>1. Leads(start, p, f \o clear, In("rgu"), In("rgu"))
    BY <1>2, <1>4, <1>6, LeadsSeq
  <2> QED BY <1>3, <1>6, <2>1, Locked2
<1> QED BY <1>5, <1>6

\* A request source and its mode, as wd_api.c sets them.
LEMMA Request2 ==
  ASSUME start.version = 2, start.doe \in BOOLEAN, NEW p, p # Sspm, NEW mark \in Marks,
         NEW en, NEW mode
  PROVE  Leads(start, p, Api!ModeConfig(mark, en, mode), Out, Out)
<1>1. Leads(start, p, Api!If(en # "bad", Api!mtk_wdt_request_en_set(mark, en = "EN")), Out, Out)
  <2>1. PICK b \in BOOLEAN : b = (en = "EN")
    OBVIOUS
  <2>2. Leads(start, p, Api!mtk_wdt_request_en_set(mark, b), Out, Out)
    BY RequestEnable2
  <2>3. Leads(start, p, Api!mtk_wdt_request_en_set(mark, en = "EN"), Out, Out)
    BY <2>1, <2>2, Zenon
  <2> QED BY <2>3, LeadsSkip DEF Api!If
<1>2. Leads(start, p, Api!If(mode # "bad", Api!mtk_wdt_request_mode_set(mark, mode = "IRQ")),
            Out, Out)
  <2>1. PICK b \in BOOLEAN : b = (mode = "IRQ")
    OBVIOUS
  <2>2. Leads(start, p, Api!mtk_wdt_request_mode_set(mark, b), Out, Out)
    BY RequestMode2
  <2>3. Leads(start, p, Api!mtk_wdt_request_mode_set(mark, mode = "IRQ"), Out, Out)
    BY <2>1, <2>2, Zenon
  <2> QED BY <2>3, LeadsSkip DEF Api!If
<1> QED BY <1>1, <1>2, LeadsSeq, Zenon DEF Api!ModeConfig

LEMMA Requests2 ==
  ASSUME start.version = 2, start.doe \in BOOLEAN, NEW p, p # Sspm, NEW en, NEW mode
  PROVE  /\ Leads(start, p, Api!spmwdt_mode_config(en, mode), Out, Out)
         /\ Leads(start, p, Api!thermal_mode_config(en, mode), Out, Out)
         /\ Leads(start, p, Api!thermal_direct_mode_config(en, mode), Out, Out)
         /\ Leads(start, p, Api!debug_key_eint_config(en, mode), Out, Out)
         /\ Leads(start, p, Api!debug_key_sysrst_config(en, mode), Out, Out)
<1>1. {"SPM_SCPSYS", "SPM_THERMAL", "THERMAL", "EINT", "SYSRST"} \subseteq Marks
  BY DEF Marks
<1> QED BY <1>1, Request2 DEF Api!spmwdt_mode_config, Api!thermal_mode_config,
       Api!thermal_direct_mode_config, Api!debug_key_eint_config, Api!debug_key_sysrst_config

\* The subsystem bits that mtk_wdt_set_c2k_sysrst() reaches without the lock are
\* not among the guarded registers of a machine that calls it.
LEMMA Controls2 ==
  ASSUME start.version = 2, NEW p, NEW on \in BOOLEAN
  PROVE  /\ Leads(start, p, Api!mtk_rgu_dram_reserved(on), Out, Out)
         /\ Leads(start, p, Api!mtk_rgu_cfg_emi_dcs(on), Out, Out)
         /\ Leads(start, p, Api!mtk_rgu_mcu_cache_preserve(on), Out, Out)
         /\ Leads(start, p, Api!mtk_wdt_dfd_count_en(on), Out, Out)
         /\ Leads(start, p, Api!mtk_wdt_dfd_thermal1_dis(on), Out, Out)
         /\ Leads(start, p, Api!mtk_wdt_dfd_thermal2_dis(on), Out, Out)
         /\ Leads(start, p, Api!mtk_wdt_dfd_timeout(on), Out, Out)
         /\ "SWSYSRST" \notin OneLock(start) =>
              \A bit \in SwsysFlags : Leads(start, p, Api!mtk_wdt_set_c2k_sysrst(on, bit), Out, Out)
<1>1. /\ Leads(start, p, Api!Assign("MODE", "DDR_RESERVE", on), Out, Out)
      /\ Leads(start, p, Api!Assign("DEBUG_CTL2", "EMI_DCS_EN", on), Out, Out)
      /\ Leads(start, p, Api!Assign("DEBUG_CTL", "CACHE_PRESERVE", on), Out, Out)
  BY Free2, Assign2, RegFlagsFact
<1>2. \A f \in RegFlags["LATCH_CTL2"] : Leads(start, p, Api!Assign("LATCH_CTL2", f, on), Out, Out)
  BY Free2, Assign2
<1>3. /\ Leads(start, p, Api!Assign("LATCH_CTL2", "DFD_EN", on), Out, Out)
      /\ Leads(start, p, Api!Assign("LATCH_CTL2", "THERMAL1_DIS", on), Out, Out)
      /\ Leads(start, p, Api!Assign("LATCH_CTL2", "THERMAL2_DIS", on), Out, Out)
      /\ Leads(start, p, Api!Assign("LATCH_CTL2", "TIMEOUT", on), Out, Out)
  BY <1>2, RegFlagsFact
<1>4. ASSUME "SWSYSRST" \notin OneLock(start), NEW bit \in SwsysFlags
      PROVE  Leads(start, p, Api!mtk_wdt_set_c2k_sysrst(on, bit), Out, Out)
  <2>1. "SWSYSRST" \in FreeRegs(start) /\ bit \in RegFlags["SWSYSRST"]
    BY <1>4, RegsFact, RegFlagsFact DEF FreeRegs
  <2>2. PICK b \in BOOLEAN : b = ~on
    OBVIOUS
  <2>3. Leads(start, p, Api!Assign("SWSYSRST", bit, b), Out, Out)
    BY <2>1, Assign2
  <2>4. Leads(start, p, Api!Assign("SWSYSRST", bit, ~on), Out, Out)
    BY <2>2, <2>3, Zenon
  <2> QED BY <2>4, Zenon DEF Api!mtk_wdt_set_c2k_sysrst
<1>5. Leads(start, p, Api!mtk_rgu_dram_reserved(on), Out, Out)
  BY <1>1 DEF Api!mtk_rgu_dram_reserved
<1>6. Leads(start, p, Api!mtk_rgu_cfg_emi_dcs(on), Out, Out)
  BY <1>1 DEF Api!mtk_rgu_cfg_emi_dcs
<1>7. Leads(start, p, Api!mtk_rgu_mcu_cache_preserve(on), Out, Out)
  BY <1>1 DEF Api!mtk_rgu_mcu_cache_preserve
<1>8. /\ Leads(start, p, Api!mtk_wdt_dfd_count_en(on), Out, Out)
      /\ Leads(start, p, Api!mtk_wdt_dfd_thermal1_dis(on), Out, Out)
      /\ Leads(start, p, Api!mtk_wdt_dfd_thermal2_dis(on), Out, Out)
      /\ Leads(start, p, Api!mtk_wdt_dfd_timeout(on), Out, Out)
  BY <1>3 DEF Api!mtk_wdt_dfd_count_en, Api!mtk_wdt_dfd_thermal1_dis,
              Api!mtk_wdt_dfd_thermal2_dis, Api!mtk_wdt_dfd_timeout
<1> QED BY <1>4, <1>5, <1>6, <1>7, <1>8

LEMMA Dvfsrc2 ==
  ASSUME start.version = 2, NEW p
  PROVE  Leads(start, p, Api!mtk_rgu_cfg_dvfsrc, Out, Out)
<1>1. /\ {"DVFSRC_EN"} \in SUBSET RegFlags["DEBUG_CTL2"] /\ {"DVFSRC"} \in SUBSET RegFlags["LATCH_CTL"]
      /\ {} \in SUBSET AllFlags
  BY RegFlagsFact
<1>2. {"DVFSRC_EN"} \in SUBSET AllFlags /\ {"DVFSRC"} \in SUBSET AllFlags
  BY <1>1, MoreFlags, RegsFact
<1>3. /\ Read("DEBUG_CTL2") \in FreeSimple(start) /\ Read("LATCH_CTL") \in FreeSimple(start)
      /\ Write("DEBUG_CTL2", {"DVFSRC_EN"}, {}) \in FreeSimple(start)
      /\ Write("LATCH_CTL", {"DVFSRC"}, {}) \in FreeSimple(start)
  BY <1>1, <1>2, Free2, FreeWord
<1>4. Api!mtk_rgu_cfg_dvfsrc
        = <<Read("DEBUG_CTL2"), Read("LATCH_CTL"), Write("DEBUG_CTL2", {"DVFSRC_EN"}, {}),
            Write("LATCH_CTL", {"DVFSRC"}, {})>>
  BY Words2 DEF Api!mtk_rgu_cfg_dvfsrc
<1> QED BY <1>3, <1>4, FreeTuples, FreeOut

\* The reset path takes no lock and reaches no guarded register.
LEMMA Reset2 ==
  ASSUME start.version = 2, NEW p, NEW bypass \in BOOLEAN, NEW keep \in BOOLEAN
  PROVE  Leads(start, p, Api!wdt_arch_reset(bypass, keep), Out, Out)
<1> DEFINE a == Api!Flag(bypass, "BYPASS_PWR_KEY")
           b == Api!Flag(~bypass, "BYPASS_PWR_KEY")
           f == <<PmicPreReset, Read("NONRST2"), Read("MODE"), Write("NONRST2", a, b),
                  Write("MODE", {"EXTEN"}, {"IRQ", "DUAL", "EXTRA_CNT"})>>
<1>1. a \in SUBSET RegFlags["NONRST2"] /\ b \in SUBSET RegFlags["NONRST2"]
  BY RegFlagsFact DEF Api!Flag
<1>2. \/ Api!wdt_arch_reset(bypass, keep)
           = <<Kick>> \o (f \o Api!mtk_rgu_pause_dvfsrc \o <<SwReset>>)
      \/ Api!wdt_arch_reset(bypass, keep)
           = <<Kick>> \o (f \o Api!mtk_rgu_dram_reserved(FALSE) \o <<SwReset>>)
  BY Words2 DEF Api!wdt_arch_reset, Api!ResetBody
<1> HIDE DEF a, b
<1>3. a \in SUBSET AllFlags /\ b \in SUBSET AllFlags
  BY <1>1, MoreFlags, RegsFact
<1>4. /\ {"EXTEN"} \in SUBSET RegFlags["MODE"]
      /\ {"IRQ", "DUAL", "EXTRA_CNT"} \in SUBSET RegFlags["MODE"]
  BY RegFlagsFact
<1>5. {"EXTEN"} \in SUBSET AllFlags /\ {"IRQ", "DUAL", "EXTRA_CNT"} \in SUBSET AllFlags
  BY <1>4, MoreFlags, RegsFact
<1>6. /\ PmicPreReset \in FreeSimple(start)
      /\ Read("NONRST2") \in FreeSimple(start) /\ Read("MODE") \in FreeSimple(start)
      /\ Write("NONRST2", a, b) \in FreeSimple(start)
      /\ Write("MODE", {"EXTEN"}, {"IRQ", "DUAL", "EXTRA_CNT"}) \in FreeSimple(start)
  BY <1>1, <1>3, <1>4, <1>5, Free2, FreeWord
<1>7. f \in FreeCode(start)
  BY <1>6, FreeTuples
<1> HIDE DEF f
<1>8. Api!mtk_rgu_pause_dvfsrc \in FreeCode(start)
  <2>1. Api!Assign("DEBUG_CTL", "DVFSRC_PAUSE", TRUE) \in Seq(FreeSimple(start))
    BY Free2, Assign2, RegFlagsFact
  <2>2. "DVFSRC_EN" \in AllFlags /\ "DEBUG_CTL2" \in Regs
    BY FlagsFact, RegFlagsFact, RegsFact
  <2> QED BY <2>1, <2>2, FreeBranch, Words2 DEF Api!mtk_rgu_pause_dvfsrc
<1>9. Leads(start, p, f, Out, Out) /\ Leads(start, p, Api!mtk_rgu_pause_dvfsrc, Out, Out)
      /\ Leads(start, p, <<Kick>>, Out, Out) /\ Leads(start, p, <<SwReset>>, Out, Out)
  BY <1>7, <1>8, FreeWord, FreePrograms, FreeOut
<1>10. Leads(start, p, Api!mtk_rgu_dram_reserved(FALSE), Out, Out)
  BY Controls2
<1>11. /\ Leads(start, p, <<Kick>> \o (f \o Api!mtk_rgu_pause_dvfsrc \o <<SwReset>>), Out, Out)
       /\ Leads(start, p, <<Kick>> \o (f \o Api!mtk_rgu_dram_reserved(FALSE) \o <<SwReset>>), Out, Out)
  BY <1>9, <1>10, LeadsSeq
<1> QED BY <1>2, <1>11

LEMMA Sspm2 ==
  ASSUME start.version = 2, NEW p
  PROVE  Leads(start, p, Api!mtk_wdt_sspm_isr, Out, Out)
<1>1. Leads(start, p, Api!Assign("NONRST2", "SSPM_RESET", TRUE), Out, Out)
  BY Free2, Assign2, RegFlagsFact
<1>2. Leads(start, p, Api!wdt_arch_reset(TRUE, FALSE), Out, Out)
  BY Reset2
<1> QED BY <1>1, <1>2, LeadsSeq DEF Api!mtk_wdt_sspm_isr

\* The restart handler.
LEMMA ArchReset2 ==
  ASSUME start.version = 2, NEW p, NEW cmd
  PROVE  Leads(start, p, Api!arch_reset(cmd), Out, Out)
<1> DEFINE mark == Api!If(cmd \in Api!RegFlags.RTC, <<Put("RTC", {cmd})>>)
           dfd == Api!If(cmd # "ddr-reserve", Api!mtk_wdt_dfd_count_en(FALSE))
           rst == Api!wdt_arch_reset(Api!BypassKey(cmd), cmd = "ddr-reserve")
           rest == Api!If(cmd # "dm-verity unmarked", dfd \o rst)
<1>1. Api!arch_reset(cmd) = mark \o rest
  BY Words2, Zenon DEF Api!arch_reset
<1>2. Leads(start, p, mark, Out, Out)
  <2>1. Api!RegFlags.RTC = RegFlags["RTC"]
    BY DEF Api!RegFlags, RegFlags
  <2>2. CASE cmd \in Api!RegFlags.RTC
    <3>1. {cmd} \in SUBSET RegFlags["RTC"] /\ {cmd} \in SUBSET AllFlags
      BY <2>1, <2>2, FlagsFact, RegsFact
    <3>2. <<Put("RTC", {cmd})>> \in FreeCode(start)
      BY <3>1, Free2, FreeWord, FreePrograms
    <3> QED BY <2>2, <3>2, FreeOut DEF Api!If
  <2>3. CASE cmd \notin Api!RegFlags.RTC
    BY <2>3, LeadsSkip DEF Api!If
  <2> QED BY <2>2, <2>3
<1>3. Leads(start, p, dfd, Out, Out)
  BY Controls2, LeadsSkip DEF Api!If
<1>4. Leads(start, p, rst, Out, Out)
  <2>1. Api!BypassKey(cmd) \in BOOLEAN
    BY DEF Api!BypassKey
  <2>2. PICK b \in BOOLEAN, c \in BOOLEAN : b = Api!BypassKey(cmd) /\ c = (cmd = "ddr-reserve")
    BY <2>1
  <2>3. Leads(start, p, Api!wdt_arch_reset(b, c), Out, Out)
    BY Reset2
  <2> QED BY <2>2, <2>3, Zenon
<1> HIDE DEF mark, dfd, rst
<1>5. Leads(start, p, dfd \o rst, Out, Out)
  BY <1>3, <1>4, LeadsSeq
<1>6. Leads(start, p, rest, Out, Out)
  BY <1>5, LeadsSkip DEF Api!If
<1> HIDE DEF rest
<1> QED BY <1>1, <1>2, <1>6, LeadsSeq

LEMMA Configs2 ==
  ASSUME start.version = 2, NEW p, p # Sspm
  PROVE  /\ Leads(start, p, Api!wd_config, Out, Out)
         /\ Leads(start, p, Api!set_mode, Out, Out)
         /\ Leads(start, p, Api!mtk_wdt_confirm_hwreboot, Out, Out)
         /\ \A on \in BOOLEAN : Leads(start, p, Api!wd_dram_reserved_mode(on), Out, Out)
<1>1. /\ Leads(start, p, Api!mtk_wdt_mode_config(TRUE, TRUE, TRUE, FALSE, TRUE), Out, Out)
      /\ Leads(start, p, Api!mtk_wdt_mode_config(FALSE, TRUE, TRUE, FALSE, TRUE), Out, Out)
      /\ Leads(start, p, Api!mtk_wdt_mode_config_nolock(TRUE, TRUE, TRUE, FALSE, TRUE), Out, Out)
  BY ModeConfig2
<1>2. Leads(start, p, Api!mtk_wdt_set_time_out_value("CONFIG"), Out, Out)
  BY Timer2, RegFlagsFact
<1>3. Leads(start, p, Api!wd_config, Out, Out)
  BY <1>1, <1>2, LeadsSeq DEF Api!wd_config
<1>4. \A on \in BOOLEAN : Leads(start, p, Api!wd_dram_reserved_mode(on), Out, Out)
  BY Swsys2, Controls2, LeadsSeq DEF Api!wd_dram_reserved_mode
<1> QED BY <1>1, <1>3, <1>4 DEF Api!set_mode, Api!mtk_wdt_confirm_hwreboot

\* Every operation of version 2 keeps the rules.
LEMMA Plain2 ==
  ASSUME NEW o
  PROVE  /\ o[1] = "suspend" => Api!Program(o) = Api!mtk_wd_suspend
         /\ o[1] = "resume" => Api!Program(o) = Api!mtk_wd_resume
         /\ o[1] = "sspm" => Api!Program(o) = Api!mtk_wdt_sspm_isr
         /\ o[1] = "config" => Api!Program(o) = Api!wd_config
         /\ o[1] = "set_mode" => Api!Program(o) = Api!set_mode
         /\ o[1] = "confirm" => Api!Program(o) = Api!mtk_wdt_confirm_hwreboot
         /\ o[1] = "restart" => Api!Program(o) = Api!mtk_wdt_restart
         /\ o[1] = "dvfsrc" => Api!Program(o) = Api!mtk_rgu_cfg_dvfsrc
BY DEF Api!Program

LEMMA Operation2 ==
  ASSUME start.version = 2, start.doe \in BOOLEAN, NEW p \in Procs, NEW o \in start.ops[p],
         IF p = Sspm THEN o \in Api!IsrOps ELSE o \in Api!Ops \/ o \in Api!PmOps
  PROVE  Leads(start, p, Api!Program(o), Out, Out)
<1>1. CASE o \in Api!IsrOps
  <2>1. o[1] = "sspm"
    BY <1>1 DEF Api!IsrOps
  <2>2. Api!Program(o) = Api!mtk_wdt_sspm_isr
    BY <2>1, Plain2
  <2> QED BY <2>2, Sspm2
<1>2. CASE p # Sspm /\ o \in Api!PmOps
  <2>1. o[1] = "suspend" \/ o[1] = "resume"
    BY <1>2 DEF Api!PmOps
  <2>2. Api!Program(o) = Api!mtk_wd_suspend \/ Api!Program(o) = Api!mtk_wd_resume
    BY <2>1, Plain2
  <2> QED BY <1>2, <2>2, Sleep2
<1>3. CASE p # Sspm /\ o \in {<<"config">>, <<"set_mode">>, <<"confirm">>, <<"restart">>, <<"dvfsrc">>}
  <2>1. o[1] \in {"config", "set_mode", "confirm", "restart", "dvfsrc"}
    BY <1>3
  <2>2. \/ Api!Program(o) = Api!wd_config \/ Api!Program(o) = Api!set_mode
        \/ Api!Program(o) = Api!mtk_wdt_confirm_hwreboot
        \/ Api!Program(o) = Api!mtk_wdt_restart \/ Api!Program(o) = Api!mtk_rgu_cfg_dvfsrc
    BY <2>1, Plain2
  <2> QED BY <1>3, <2>2, Configs2, Timer2, Dvfsrc2
<1> DEFINE Switches == {"enable", "dram", "dram_mode", "cache", "emi_dcs", "dfd", "dfd_thermal1",
                        "dfd_thermal2", "dfd_timeout"}
<1>4. CASE p # Sspm /\ o \in Switches \X BOOLEAN
  <2>1. PICK n \in Switches, b \in BOOLEAN : o = <<n, b>>
    BY <1>4
  <2>2. /\ n = "enable" => Api!Program(o) = Api!mtk_wdt_enable(b)
        /\ n = "dram" => Api!Program(o) = Api!mtk_rgu_dram_reserved(b)
        /\ n = "dram_mode" => Api!Program(o) = Api!wd_dram_reserved_mode(b)
        /\ n = "cache" => Api!Program(o) = Api!mtk_rgu_mcu_cache_preserve(b)
        /\ n = "emi_dcs" => Api!Program(o) = Api!mtk_rgu_cfg_emi_dcs(b)
        /\ n = "dfd" => Api!Program(o) = Api!mtk_wdt_dfd_count_en(b)
        /\ n = "dfd_thermal1" => Api!Program(o) = Api!mtk_wdt_dfd_thermal1_dis(b)
        /\ n = "dfd_thermal2" => Api!Program(o) = Api!mtk_wdt_dfd_thermal2_dis(b)
        /\ n = "dfd_timeout" => Api!Program(o) = Api!mtk_wdt_dfd_timeout(b)
    BY <2>1 DEF Api!Program
  <2> QED BY <1>4, <2>1, <2>2, Enable2, Controls2, Configs2
<1> DEFINE Sources == {"spmwdt", "thermal", "thermal_direct", "eint", "sysrst"}
<1>5. CASE p # Sspm /\ o \in Sources \X Api!Ask \X Api!Answer
  <2>1. PICK n \in Sources, e \in Api!Ask, m \in Api!Answer : o = <<n, e, m>>
    BY <1>5
  <2>2. /\ n = "spmwdt" => Api!Program(o) = Api!spmwdt_mode_config(e, m)
        /\ n = "thermal" => Api!Program(o) = Api!thermal_mode_config(e, m)
        /\ n = "thermal_direct" => Api!Program(o) = Api!thermal_direct_mode_config(e, m)
        /\ n = "eint" => Api!Program(o) = Api!debug_key_eint_config(e, m)
        /\ n = "sysrst" => Api!Program(o) = Api!debug_key_sysrst_config(e, m)
    BY <2>1 DEF Api!Program
  <2> QED BY <1>5, <2>1, <2>2, Requests2
<1>6. CASE p # Sspm /\ o \in {"swsys"} \X Api!Names \X BOOLEAN
  <2>1. PICK m \in Api!Names, b \in BOOLEAN : o = <<"swsys", m, b>>
    BY <1>6
  <2>2. Api!Program(o) = Api!mtk_wdt_swsysret_config(m, b)
    BY <2>1 DEF Api!Program
  <2> QED BY <1>6, <2>2, Swsys2
<1>7. CASE o \in {"c2k"} \X BOOLEAN \X SwsysFlags
  <2>1. PICK b \in BOOLEAN, bit \in SwsysFlags : o = <<"c2k", b, bit>>
    BY <1>7
  <2>2. Api!Program(o) = Api!mtk_wdt_set_c2k_sysrst(b, bit)
    BY <2>1 DEF Api!Program
  <2>3. Uses(start, "c2k")
    BY <2>1 DEF Uses
  <2>4. "SWSYSRST" \notin OneLock(start)
    BY <2>3 DEF OneLock
  <2> QED BY <2>2, <2>4, Controls2
<1>8. CASE o \in {"sw_reset"} \X BOOLEAN \X BOOLEAN
  <2>1. PICK b \in BOOLEAN, k \in BOOLEAN : o = <<"sw_reset", b, k>>
    BY <1>8
  <2>2. Api!Program(o) = Api!wdt_arch_reset(b, k)
    BY <2>1 DEF Api!Program
  <2> QED BY <2>2, Reset2
<1>9. CASE o \in {"arch_reset"} \X Api!Names
  <2>1. PICK c \in Api!Names : o = <<"arch_reset", c>>
    BY <1>9
  <2>2. Api!Program(o) = Api!arch_reset(c)
    BY <2>1 DEF Api!Program
  <2> QED BY <2>2, ArchReset2
<1>10. o \in Api!Ops =>
         \/ o \in {<<"config">>, <<"set_mode">>, <<"confirm">>, <<"restart">>, <<"dvfsrc">>}
         \/ o \in Switches \X BOOLEAN \/ o \in Sources \X Api!Ask \X Api!Answer
         \/ o \in {"swsys"} \X Api!Names \X BOOLEAN \/ o \in {"c2k"} \X BOOLEAN \X SwsysFlags
         \/ o \in {"sw_reset"} \X BOOLEAN \X BOOLEAN \/ o \in {"arch_reset"} \X Api!Names
  BY Zenon DEF Api!Ops, Api!SwsysFlags, SwsysFlags
<1> QED BY <1>1, <1>2, <1>3, <1>4, <1>5, <1>6, <1>7, <1>8, <1>9, <1>10, Zenon

\* Every operation that a machine may be asked to do is safe from its start.
LEMMA Operation ==
  ASSUME start \in Starts, NEW p \in Procs, NEW o \in start.ops[p]
  PROVE  Safe(start, p, Program(o), Out)
<1>1. start.version \in {1, 2} /\ start.doe \in BOOLEAN
  BY StartAssumption
<1>2. CASE start.version = 1
  BY <1>2, Operation1, LeadsSafe DEF Program, version
<1>3. CASE start.version = 2
  <2>1. IF p = Sspm THEN o \in Api!IsrOps ELSE o \in Api!Ops \/ o \in Api!PmOps
    <3>1. V1!PmOps = Api!PmOps
      BY DEF V1!PmOps, Api!PmOps
    <3> QED BY <1>3, <3>1, StartAssumption, ProcAssumption DEF Procs
  <2>2. Leads(start, p, Api!Program(o), Out, Out)
    BY <1>1, <1>3, <2>1, Operation2
  <2> QED BY <1>3, <2>2, LeadsSafe DEF Program, version
<1> QED BY <1>1, <1>2, <1>3

-----------------------------------------------------------------------------
(* The inductive invariant.                                                 *)
Agree == "DEG" \in regs["SYSDBG_DEG"] <=> "SYSRST" \in regs["REQ_MODE"]

Types ==
  /\ start \in Starts
  /\ regs \in [Regs -> SUBSET AllFlags] /\ \A r \in Regs : regs[r] \subseteq RegFlags[r]
  /\ tmp \in [Procs -> [Regs -> SUBSET AllFlags]]
  /\ \A p \in Procs, r \in Regs : tmp[p][r] \subseteq RegFlags[r]
  /\ wdt_enable \in BOOLEAN /\ suspended \in BOOLEAN
  /\ lock \in [Locks -> Procs \cup {None}] /\ \A l \in Locks : lock[l] # Sspm
  /\ reset \in Procs \cup {None}
  /\ run \in [Procs -> Code]
  /\ intent \in [OneLock(start) -> SUBSET AllFlags]

\* What is true of the shared registers between and inside critical sections.
Shared ==
  /\ RequestsExact /\ DebounceWithKey
  /\ Dark(start) => "SYSRST" \notin regs["REQ_MODE"] /\ regs["SYSDBG_DEG"] = {}

\* Caller p is at point x of a safe program: it holds the lock of x and no
\* other, the guarded registers of x are as it has read them, and under the
\* driver's lock the debounce and the request bit are as x says.
Holds(p, x) == \A l \in Locks : lock[l] = p <=> x[1] = l
Fresh(p, x) ==
  \A r \in x[2] : /\ r \in OneLock(start) /\ GuardOf(start, r) = x[1]
                  /\ run[p] # <<>> => tmp[p][r] = regs[r]
Owes(x) ==
  x[1] = "rgu" => /\ x[3] = "even" => Agree
                  /\ x[3] = "on" => "DEG" \in regs["SYSDBG_DEG"]
                  /\ x[3] = "off" => "DEG" \notin regs["SYSDBG_DEG"]
At(p, x) == Safe(start, p, run[p], x) /\ Holds(p, x) /\ Fresh(p, x) /\ Owes(x)

IInv == Types /\ Shared /\ \A p \in Procs : \E x \in Points : At(p, x)

\* Shared locks make a guarded register safe from the others: what is true of
\* them stays true when p steps.
LEMMA OthersStay ==
  ASSUME NEW p \in Procs, NEW q \in Procs, q # p, NEW x \in Points, At(q, x),
         start' = start, run'[q] = run[q], tmp'[q] = tmp[q],
         \A l \in Locks : lock'[l] = q <=> lock[l] = q,
         NEW D \in SUBSET Regs, \A r \in Regs \ D : regs'[r] = regs[r],
         \A r \in D : r \in OneLock(start) => lock[GuardOf(start, r)] = p,
         D \cap {"REQ_MODE", "SYSDBG_DEG"} # {} => lock["rgu"] = p
  PROVE  At(q, x)'
<1>1. Safe(start', q, run'[q], x)
  BY DEF At
<1>2. Holds(q, x)'
  BY DEF At, Holds
<1>3. ASSUME NEW r \in x[2]
      PROVE  r \notin D /\ r \in OneLock(start) /\ GuardOf(start, r) = x[1] /\ r \in Regs
  <2>1. r \in OneLock(start) /\ GuardOf(start, r) = x[1]
    BY DEF At, Fresh
  <2>2. lock[GuardOf(start, r)] = q
    BY <2>1 DEF At, Holds, GuardOf, Locks
  <2> QED BY <2>1, <2>2, Guards
<1>4. Fresh(q, x)'
  BY <1>3 DEF At, Fresh
<1>5. Owes(x)'
  <2>1. CASE x[1] = "rgu"
    <3>1. lock["rgu"] = q
      BY <2>1 DEF At, Holds, Locks
    <3>2. regs'["REQ_MODE"] = regs["REQ_MODE"] /\ regs'["SYSDBG_DEG"] = regs["SYSDBG_DEG"]
      BY <3>1, RegsFact
    <3> QED BY <3>2 DEF At, Owes, Agree
  <2> QED BY <2>1 DEF Owes
<1> QED BY <1>1, <1>2, <1>4, <1>5 DEF At

\* The instruction that p executes next keeps the rules at p's point.
LEMMA AtHead ==
  ASSUME NEW p \in Procs, NEW x \in Points, At(p, x), run[p] # <<>>
  PROVE  /\ Next1(p) \in Instr /\ Tail(run[p]) \in Code
         /\ Good(start, p, Next1(p), x)
         /\ After(start, Next1(p), x) \in Points
         /\ Safe(start, p, Tail(run[p]), After(start, Next1(p), x))
BY SafeSteps, AfterPoint DEF At, Next1

LEMMA NoValuesFact ==
  /\ NoValues \in [Regs -> SUBSET AllFlags]
  /\ \A r \in Regs : NoValues[r] = {}
BY DEF NoValues

LEMMA Advanced ==
  ASSUME Types, NEW p \in Procs, run[p] # <<>>, Tail(run[p]) \in Code, Advance(p)
  PROVE  /\ run' \in [Procs -> Code] /\ run'[p] = Tail(run[p])
         /\ \A q \in Procs \ {p} : run'[q] = run[q] /\ tmp'[q] = tmp[q]
         /\ run'[p] # <<>> => tmp'[p] = tmp[p]
         /\ tmp' \in [Procs -> [Regs -> SUBSET AllFlags]]
         /\ \A q \in Procs, r \in Regs : tmp'[q][r] \subseteq RegFlags[r]
<1>1. /\ run' = [run EXCEPT ![p] = Tail(run[p])] /\ run \in [Procs -> Code]
      /\ tmp' = IF Tail(run[p]) = <<>> THEN [tmp EXCEPT ![p] = NoValues] ELSE tmp
      /\ tmp \in [Procs -> [Regs -> SUBSET AllFlags]]
      /\ \A q \in Procs, r \in Regs : tmp[q][r] \subseteq RegFlags[r]
  BY DEF Types, Advance
<1>2. run' \in [Procs -> Code] /\ run'[p] = Tail(run[p]) /\ \A q \in Procs \ {p} : run'[q] = run[q]
  BY <1>1
<1>3. CASE Tail(run[p]) = <<>>
  BY <1>1, <1>2, <1>3, NoValuesFact
<1>4. CASE Tail(run[p]) # <<>>
  BY <1>1, <1>2, <1>4
<1> QED BY <1>3, <1>4

\* The state after a step of p is good if p is at a point again, and the
\* registers that p has changed are its own to change.
LEMMA StepKeeps ==
  ASSUME IInv, NEW p \in Procs, NEW y \in Points, At(p, y)', Types', Shared',
         start' = start, \A q \in Procs \ {p} : run'[q] = run[q] /\ tmp'[q] = tmp[q],
         \A q \in Procs \ {p}, l \in Locks : lock'[l] = q <=> lock[l] = q,
         NEW D \in SUBSET Regs, \A r \in Regs \ D : regs'[r] = regs[r],
         \A r \in D : r \in OneLock(start) => lock[GuardOf(start, r)] = p,
         D \cap {"REQ_MODE", "SYSDBG_DEG"} # {} => lock["rgu"] = p
  PROVE  IInv'
<1>1. ASSUME NEW q \in Procs
      PROVE  \E x \in Points : At(q, x)'
  <2>1. CASE q = p
    BY <2>1
  <2>2. CASE q # p
    <3>1. PICK x \in Points : At(q, x)
      BY DEF IInv
    <3>2. At(q, x)'
      BY <2>2, <3>1, OthersStay
    <3> QED BY <3>2
  <2> QED BY <2>1, <2>2
<1> QED BY <1>1 DEF IInv

\* The same for a step that changes no register.
LEMMA QuietStepKeeps ==
  ASSUME IInv, NEW p \in Procs, NEW y \in Points, At(p, y)', Types', Shared',
         start' = start, \A q \in Procs \ {p} : run'[q] = run[q] /\ tmp'[q] = tmp[q],
         \A q \in Procs \ {p}, l \in Locks : lock'[l] = q <=> lock[l] = q,
         regs' = regs
  PROVE  IInv'
<1>1. PICK D \in SUBSET Regs : D = {}
  OBVIOUS
<1>2. /\ \A r \in Regs \ D : regs'[r] = regs[r]
      /\ \A r \in D : r \in OneLock(start) => lock[GuardOf(start, r)] = p
      /\ D \cap {"REQ_MODE", "SYSDBG_DEG"} # {} => lock["rgu"] = p
  BY <1>1
<1> QED BY <1>2, StepKeeps

LEMMA ReadKeeps ==
  ASSUME IInv, NEW p \in Procs, ReadReg(p)
  PROVE  IInv'
<1>1. PICK x \in Points : At(p, x)
  BY DEF IInv
<1>2. run[p] # <<>> /\ Next1(p).op = "read"
  BY DEF ReadReg, CanStep, Idle
<1>3. PICK i \in Instr, y \in Points :
        /\ i = Next1(p) /\ y = After(start, i, x)
        /\ Tail(run[p]) \in Code /\ Safe(start, p, Tail(run[p]), y)
  BY <1>1, <1>2, AtHead
<1>4. PICK r \in Regs : r = i.reg
  BY <1>2, <1>3, InstrFact
<1>5. /\ tmp' = [tmp EXCEPT ![p][r] = regs[r]] /\ run' = [run EXCEPT ![p] = Tail(run[p])]
      /\ UNCHANGED <<regs, wdt_enable, start, lock, suspended, reboot, reset, intent>>
  BY <1>3, <1>4 DEF ReadReg
<1>6. \/ y = x
      \/ y = <<x[1], x[2] \cup {r}, x[3]>> /\ r \in OneLock(start) /\ x[1] = GuardOf(start, r)
  BY <1>2, <1>3, <1>4 DEF After
<1>7. Types
  BY DEF IInv
<1>8. /\ run' \in [Procs -> Code] /\ run'[p] = Tail(run[p])
      /\ \A q \in Procs \ {p} : run'[q] = run[q] /\ tmp'[q] = tmp[q]
      /\ tmp' \in [Procs -> [Regs -> SUBSET AllFlags]]
      /\ tmp'[p][r] = regs[r] /\ \A s \in Regs \ {r} : tmp'[p][s] = tmp[p][s]
  BY <1>3, <1>5, <1>7 DEF Types
<1>9. ASSUME NEW q \in Procs, NEW s \in Regs PROVE tmp'[q][s] \subseteq RegFlags[s]
  <2>1. tmp[q][s] \subseteq RegFlags[s] /\ regs[s] \subseteq RegFlags[s]
    BY <1>7 DEF Types
  <2>2. tmp'[q][s] = tmp[q][s] \/ tmp'[q][s] = regs[s]
    BY <1>8
  <2> QED BY <2>1, <2>2
<1>10. Types'
  BY <1>5, <1>7, <1>8, <1>9 DEF Types
<1>11. Shared'
  BY <1>5 DEF IInv, Shared, RequestsExact, OneLockRegs, DebounceWithKey
<1>12. At(p, y)'
  <2>1. Safe(start', p, run'[p], y)
    BY <1>3, <1>5, <1>8
  <2>2. y[1] = x[1] /\ y[3] = x[3]
    BY <1>6
  <2>3. \A s \in y[2] : s \in x[2] \/ (s = r /\ r \in OneLock(start) /\ x[1] = GuardOf(start, r))
    BY <1>6
  <2>4. Holds(p, y)'
    BY <1>1, <1>5, <2>2 DEF At, Holds
  <2>5. ASSUME NEW s \in y[2]
        PROVE  s \in OneLock(start) /\ GuardOf(start, s) = x[1] /\ tmp'[p][s] = regs[s]
    <3>1. CASE s = r
      BY <1>1, <1>8, <2>3, <2>5, <3>1 DEF At, Fresh
    <3>2. CASE s # r
      <4>1. s \in OneLock(start) /\ GuardOf(start, s) = x[1] /\ tmp[p][s] = regs[s]
        BY <1>1, <1>2, <2>3, <2>5, <3>2 DEF At, Fresh
      <4> QED BY <1>8, <3>2, <4>1, Guards
    <3> QED BY <3>1, <3>2
  <2>6. Fresh(p, y)'
    BY <1>5, <2>2, <2>5 DEF Fresh
  <2>7. Owes(y)'
    BY <1>1, <1>5, <2>2 DEF At, Owes, Agree
  <2> QED BY <2>1, <2>4, <2>6, <2>7 DEF At
<1> QED BY <1>5, <1>8, <1>10, <1>11, <1>12, QuietStepKeeps

\* A register that is written or put, once its value is known to be allowed.
LEMMA ChangeKeeps ==
  ASSUME IInv, NEW p \in Procs, NEW x \in Points, At(p, x), run[p] # <<>>,
         Tail(run[p]) \in Code, Advance(p),
         UNCHANGED <<wdt_enable, start, lock, suspended, reboot, reset>>,
         NEW r \in Regs, NEW v \in SUBSET RegFlags[r],
         regs' = [regs EXCEPT ![r] = v],
         intent' \in [OneLock(start) -> SUBSET AllFlags],
         \A q \in OneLock(start) \ {r} : intent'[q] = intent[q],
         r \in OneLock(start) => x[1] = GuardOf(start, r) /\ intent'[r] = v,
         r \in {"REQ_MODE", "SYSDBG_DEG"} => x[1] = "rgu",
         Dark(start) => (r = "REQ_MODE" => "SYSRST" \notin v) /\ (r = "SYSDBG_DEG" => v = {}),
         NEW y \in Points, y[1] = x[1], y[2] = x[2] \ {r},
         Safe(start, p, Tail(run[p]), y), Owes(y)'
  PROVE  IInv'
<1>1. Types
  BY DEF IInv
<1>2. v \in SUBSET AllFlags
  BY MoreFlags
<1>3. /\ regs' \in [Regs -> SUBSET AllFlags] /\ regs'[r] = v
      /\ \A q \in Regs \ {r} : regs'[q] = regs[q]
  BY <1>1, <1>2 DEF Types
<1>4. /\ run' \in [Procs -> Code] /\ run'[p] = Tail(run[p])
      /\ \A q \in Procs \ {p} : run'[q] = run[q] /\ tmp'[q] = tmp[q]
      /\ run'[p] # <<>> => tmp'[p] = tmp[p]
      /\ tmp' \in [Procs -> [Regs -> SUBSET AllFlags]]
      /\ \A q \in Procs, s \in Regs : tmp'[q][s] \subseteq RegFlags[s]
  BY <1>1, Advanced
<1>5. ASSUME NEW s \in Regs PROVE regs'[s] \subseteq RegFlags[s]
  BY <1>1, <1>3 DEF Types
<1>6. Types'
  BY <1>1, <1>3, <1>4, <1>5 DEF Types
<1>7. r \in OneLock(start) => lock[GuardOf(start, r)] = p
  BY DEF At, Holds, GuardOf, Locks
<1>8. r \in {"REQ_MODE", "SYSDBG_DEG"} => lock["rgu"] = p
  BY DEF At, Holds, Locks
<1>9. Shared'
  <2>1. RequestsExact'
    <3> SUFFICES ASSUME NEW s \in OneLock(start)
                 PROVE  regs'[s] = intent'[s]
      BY DEF RequestsExact, OneLockRegs
    <3>1. CASE s = r
      BY <1>3, <3>1
    <3>2. CASE s # r
      BY <1>3, <3>2, Guards DEF IInv, Shared, RequestsExact, OneLockRegs
    <3> QED BY <3>1, <3>2
  <2>2. DebounceWithKey'
    <3>1. p # None
      BY ProcAssumption
    <3>2. CASE r \in {"REQ_MODE", "SYSDBG_DEG"}
      BY <1>8, <3>1, <3>2 DEF DebounceWithKey
    <3>3. CASE r \notin {"REQ_MODE", "SYSDBG_DEG"}
      BY <1>3, <3>3, RegsFact DEF IInv, Shared, DebounceWithKey
    <3> QED BY <3>2, <3>3
  <2>3. ASSUME Dark(start)
        PROVE  "SYSRST" \notin regs'["REQ_MODE"] /\ regs'["SYSDBG_DEG"] = {}
    BY <1>3, <2>3, RegsFact DEF IInv, Shared
  <2> QED BY <2>1, <2>2, <2>3 DEF Shared
<1>10. At(p, y)'
  <2>1. Safe(start', p, run'[p], y)
    BY <1>4
  <2>2. Holds(p, y)'
    BY DEF At, Holds
  <2>3. Fresh(p, y)'
    <3> SUFFICES ASSUME NEW s \in y[2]
                 PROVE  /\ s \in OneLock(start) /\ GuardOf(start, s) = x[1]
                        /\ run'[p] # <<>> => tmp'[p][s] = regs'[s]
      BY DEF Fresh
    <3>1. s \in x[2] /\ s # r
      OBVIOUS
    <3>2. s \in OneLock(start) /\ GuardOf(start, s) = x[1] /\ tmp[p][s] = regs[s]
      BY <3>1 DEF At, Fresh
    <3> QED BY <1>3, <1>4, <3>1, <3>2, Guards
  <2> QED BY <2>1, <2>2, <2>3 DEF At
<1>11. PICK D \in SUBSET Regs : D = {r}
  OBVIOUS
<1>12. /\ \A s \in Regs \ D : regs'[s] = regs[s]
       /\ \A s \in D : s \in OneLock(start) => lock[GuardOf(start, s)] = p
       /\ D \cap {"REQ_MODE", "SYSDBG_DEG"} # {} => lock["rgu"] = p
  BY <1>3, <1>7, <1>8, <1>11
<1>13. start' = start /\ \A q \in Procs \ {p}, l \in Locks : lock'[l] = q <=> lock[l] = q
  OBVIOUS
<1> QED BY <1>4, <1>6, <1>9, <1>10, <1>12, <1>13, StepKeeps

\* The fields of a write and of a put.
LEMMA WriteFields ==
  ASSUME NEW i \in Instr
  PROVE  /\ i.op = "write" => i.set \in SUBSET AllFlags /\ i.clear \in SUBSET AllFlags
         /\ i.op = "put" => i.val \in SUBSET AllFlags
<1>1. CASE i \in Branches
  BY <1>1 DEF Branches, Branch
<1>2. CASE i \in Reads
  BY <1>2 DEF Reads, Read
<1>3. CASE i \in Writes
  BY <1>3 DEF Writes, Write
<1>4. CASE i \in Puts
  BY <1>4 DEF Puts, Put
<1>5. CASE i \in LockOps
  BY <1>5 DEF LockOps, Lock, Unlock
<1>6. CASE i \in Others
  BY <1>6 DEF Others, SetEnable, Kick, PmicPreReset, SwReset
<1> QED BY <1>1, <1>2, <1>3, <1>4, <1>5, <1>6 DEF Instr, Simple

LEMMA WriteKeeps ==
  ASSUME IInv, NEW p \in Procs, WriteReg(p)
  PROVE  IInv'
<1>1. PICK x \in Points : At(p, x)
  BY DEF IInv
<1>2. run[p] # <<>> /\ Next1(p).op = "write"
  BY DEF WriteReg, CanStep, Idle
<1>3. PICK i \in Instr, y \in Points :
        /\ i = Next1(p) /\ y = After(start, i, x) /\ Good(start, p, i, x)
        /\ Tail(run[p]) \in Code /\ Safe(start, p, Tail(run[p]), y)
  BY <1>1, <1>2, AtHead
<1>4. PICK r \in Regs : r = i.reg
  BY <1>2, <1>3, InstrFact
<1>5. PICK a \in SUBSET AllFlags, b \in SUBSET AllFlags : a = i.set /\ b = i.clear
  BY <1>2, <1>3, WriteFields
<1>6. Types
  BY DEF IInv
<1>7. tmp[p][r] \in SUBSET AllFlags /\ tmp[p][r] \subseteq RegFlags[r]
  BY <1>6 DEF Types
<1>8. PICK v \in SUBSET AllFlags : v = (tmp[p][r] \cup a) \ b
  BY <1>7
<1>9. /\ regs' = [regs EXCEPT ![r] = v]
      /\ intent' = [q \in DOMAIN intent |-> IF q = r THEN (intent[q] \cup a) \ b ELSE intent[q]]
      /\ Advance(p) /\ UNCHANGED <<wdt_enable, start, lock, suspended, reboot, reset>>
  <2>1. regs' = [regs EXCEPT ![r] = v]
    BY <1>3, <1>4, <1>5, <1>8 DEF WriteReg, Applied
  <2>2. intent' = [q \in DOMAIN intent |-> IF q = r THEN Applied(i, intent[q]) ELSE intent[q]]
    BY <1>3, <1>4 DEF WriteReg
  <2>3. \A s : Applied(i, s) = (s \cup a) \ b
    BY <1>5 DEF Applied
  <2> QED BY <2>1, <2>2, <2>3 DEF WriteReg
<1>10. GoodWrite(start, i, x)
  BY <1>2, <1>3 DEF Good
<1>11. v \in SUBSET RegFlags[r]
  BY <1>4, <1>5, <1>7, <1>8, <1>10 DEF GoodWrite
<1>12. /\ y[1] = x[1] /\ y[2] = x[2] \ {r}
       /\ y[3] = IF r = "REQ_MODE" THEN "even" ELSE x[3]
  BY <1>2, <1>3, <1>4 DEF After
<1>13. intent \in [OneLock(start) -> SUBSET AllFlags]
  BY <1>6 DEF Types
<1>14. /\ intent' \in [OneLock(start) -> SUBSET AllFlags]
       /\ \A q \in OneLock(start) \ {r} : intent'[q] = intent[q]
       /\ r \in OneLock(start) => intent'[r] = (intent[r] \cup a) \ b
  BY <1>9, <1>13
<1>15. r \in OneLock(start) => x[1] = GuardOf(start, r) /\ tmp[p][r] = regs[r] /\ regs[r] = intent[r]
  BY <1>1, <1>2, <1>4, <1>10 DEF GoodWrite, At, Fresh, IInv, Shared, RequestsExact, OneLockRegs
<1>16. r \in OneLock(start) => x[1] = GuardOf(start, r) /\ intent'[r] = v
  BY <1>8, <1>14, <1>15
<1>17. r # "SYSDBG_DEG" /\ (r = "REQ_MODE" => x[1] = "rgu")
  BY <1>4, <1>10, <1>15, Guards DEF GoodWrite
<1>18. Dark(start) => (r = "REQ_MODE" => "SYSRST" \notin v) /\ (r = "SYSDBG_DEG" => v = {})
  <2>1. ASSUME Dark(start), r = "REQ_MODE" PROVE "SYSRST" \notin v
    <3>1. tmp[p][r] = regs[r] /\ "SYSRST" \notin regs[r] /\ "SYSRST" \notin a
      BY <1>4, <1>5, <1>10, <1>15, <2>1, Guards DEF IInv, Shared, GoodWrite
    <3> QED BY <1>8, <3>1
  <2> QED BY <1>17, <2>1
<1>19. Owes(y)'
  <2>1. CASE r = "REQ_MODE" /\ x[1] = "rgu"
    <3>1. regs'["REQ_MODE"] = v /\ regs'["SYSDBG_DEG"] = regs["SYSDBG_DEG"]
      BY <1>6, <1>9, <2>1, RegsFact DEF Types
    <3>2. x[3] = "on" \/ x[3] = "off" \/ x[3] = "even"
      BY DEF Points, Owed
    <3>3. "SYSRST" \in v <=> "DEG" \in regs["SYSDBG_DEG"]
      <4>1. CASE x[3] = "on"
        <5>1. "SYSRST" \in a \ b
          BY <1>4, <1>5, <1>10, <2>1, <4>1 DEF GoodWrite
        <5> QED BY <1>1, <1>8, <2>1, <4>1, <5>1 DEF At, Owes
      <4>2. CASE x[3] = "off"
        <5>1. "SYSRST" \in b
          BY <1>4, <1>5, <1>10, <2>1, <4>2 DEF GoodWrite
        <5> QED BY <1>1, <1>8, <2>1, <4>2, <5>1 DEF At, Owes
      <4>3. CASE x[3] = "even"
        <5>1. "SYSRST" \notin a \cup b
          BY <1>4, <1>5, <1>10, <2>1, <4>3 DEF GoodWrite
        <5>2. tmp[p][r] = regs["REQ_MODE"]
          BY <1>15, <2>1, Guards
        <5> QED BY <1>1, <1>8, <2>1, <4>3, <5>1, <5>2 DEF At, Owes, Agree
      <4> QED BY <3>2, <4>1, <4>2, <4>3
    <3>4. Agree'
      BY <3>1, <3>3 DEF Agree
    <3>5. y[3] = "even"
      BY <1>12, <2>1
    <3> QED BY <3>4, <3>5 DEF Owes
  <2>2. CASE r # "REQ_MODE"
    <3>1. regs'["REQ_MODE"] = regs["REQ_MODE"] /\ regs'["SYSDBG_DEG"] = regs["SYSDBG_DEG"]
      BY <1>6, <1>9, <1>17, <2>2, RegsFact DEF Types
    <3> QED BY <1>1, <1>12, <2>2, <3>1 DEF At, Owes, Agree
  <2>3. CASE x[1] # "rgu"
    BY <1>12, <2>3 DEF Owes
  <2> QED BY <2>1, <2>2, <2>3
<1> QED BY <1>1, <1>2, <1>3, <1>9, <1>11, <1>12, <1>14, <1>16, <1>17, <1>18, <1>19, ChangeKeeps

LEMMA PutKeeps ==
  ASSUME IInv, NEW p \in Procs, PutReg(p)
  PROVE  IInv'
<1>1. PICK x \in Points : At(p, x)
  BY DEF IInv
<1>2. run[p] # <<>> /\ Next1(p).op = "put"
  BY DEF PutReg, CanStep, Idle
<1>3. PICK i \in Instr, y \in Points :
        /\ i = Next1(p) /\ y = After(start, i, x) /\ Good(start, p, i, x)
        /\ Tail(run[p]) \in Code /\ Safe(start, p, Tail(run[p]), y)
  BY <1>1, <1>2, AtHead
<1>4. PICK r \in Regs : r = i.reg
  BY <1>2, <1>3, InstrFact
<1>5. PICK v \in SUBSET AllFlags : v = i.val
  BY <1>2, <1>3, WriteFields
<1>6. Types
  BY DEF IInv
<1>7. /\ regs' = [regs EXCEPT ![r] = v]
      /\ intent' = [q \in DOMAIN intent |-> IF q = r THEN v ELSE intent[q]]
      /\ Advance(p) /\ UNCHANGED <<wdt_enable, start, lock, suspended, reboot, reset>>
  BY <1>3, <1>4, <1>5 DEF PutReg
<1>8. GoodPut(start, i, x)
  BY <1>2, <1>3 DEF Good
<1>9. v \in SUBSET RegFlags[r] /\ (r \in OneLock(start) => x[1] = GuardOf(start, r))
  BY <1>4, <1>5, <1>8 DEF GoodPut
<1>10. /\ y[1] = x[1] /\ y[2] = x[2] \ {r}
       /\ y[3] = IF r # "SYSDBG_DEG" THEN x[3] ELSE IF "DEG" \in v THEN "on" ELSE "off"
  BY <1>2, <1>3, <1>4, <1>5 DEF After
<1>11. intent \in [OneLock(start) -> SUBSET AllFlags]
  BY <1>6 DEF Types
<1>12. /\ intent' \in [OneLock(start) -> SUBSET AllFlags]
       /\ \A q \in OneLock(start) \ {r} : intent'[q] = intent[q]
       /\ r \in OneLock(start) => x[1] = GuardOf(start, r) /\ intent'[r] = v
  BY <1>7, <1>9, <1>11
<1>13. r = "REQ_MODE" => x[1] = "rgu" /\ v = {} /\ Dark(start) /\ x[3] = "even"
  BY <1>4, <1>5, <1>8, <1>9, Guards DEF GoodPut
<1>14. r = "SYSDBG_DEG" => x[1] = "rgu" /\ (Dark(start) => v = {})
  BY <1>4, <1>5, <1>8 DEF GoodPut
<1>15. Dark(start) => (r = "REQ_MODE" => "SYSRST" \notin v) /\ (r = "SYSDBG_DEG" => v = {})
  BY <1>13, <1>14
<1>16. Owes(y)'
  <2>1. CASE r = "REQ_MODE"
    <3>1. regs'["REQ_MODE"] = {} /\ regs'["SYSDBG_DEG"] = regs["SYSDBG_DEG"]
      BY <1>6, <1>7, <1>13, <2>1, RegsFact DEF Types
    <3>2. regs["SYSDBG_DEG"] = {} /\ y[3] = "even"
      BY <1>10, <1>13, <2>1 DEF IInv, Shared
    <3>3. Agree'
      BY <3>1, <3>2 DEF Agree
    <3> QED BY <3>2, <3>3 DEF Owes
  <2>2. CASE r = "SYSDBG_DEG"
    <3>1. regs'["SYSDBG_DEG"] = v
      BY <1>6, <1>7, <2>2, RegsFact DEF Types
    <3>2. y[3] = IF "DEG" \in v THEN "on" ELSE "off"
      BY <1>10, <2>2
    <3> QED BY <3>1, <3>2 DEF Owes
  <2>3. CASE r \notin {"REQ_MODE", "SYSDBG_DEG"}
    <3>1. regs'["REQ_MODE"] = regs["REQ_MODE"] /\ regs'["SYSDBG_DEG"] = regs["SYSDBG_DEG"]
      BY <1>6, <1>7, <2>3, RegsFact DEF Types
    <3> QED BY <1>1, <1>10, <2>3, <3>1 DEF At, Owes, Agree
  <2> QED BY <2>1, <2>2, <2>3
<1> QED BY <1>1, <1>2, <1>3, <1>7, <1>9, <1>10, <1>12, <1>13, <1>14, <1>15, <1>16, ChangeKeeps

LEMMA BranchKeeps ==
  ASSUME IInv, NEW p \in Procs, BranchOnReg(p)
  PROVE  IInv'
<1>1. PICK x \in Points : At(p, x)
  BY DEF IInv
<1>2. run[p] # <<>> /\ Next1(p).op = "branch"
  BY DEF BranchOnReg, CanStep, Idle
<1>3. PICK i \in Instr : i = Next1(p)
  BY <1>1, <1>2, AtHead
<1>4. /\ Tail(run[p]) \in Code /\ i.then \in Code
      /\ Safe(start, p, Tail(run[p]), x) /\ Safe(start, p, i.then \o Tail(run[p]), x)
  <2>1. After(start, i, x) = x
    BY <1>2, <1>3 DEF After
  <2> QED BY <1>1, <1>2, <1>3, <2>1, SafeSteps, InstrFact DEF At, Next1
<1>5. PICK c : c = If(i.flag \in regs[i.reg], i.then) \o Tail(run[p])
  OBVIOUS
<1>6. Safe(start, p, c, x) /\ c \in Code
  <2>1. c = i.then \o Tail(run[p]) \/ c = <<>> \o Tail(run[p])
    BY <1>5 DEF If
  <2>2. <<>> \o Tail(run[p]) = Tail(run[p])
    BY <1>4, ConcatEmptySeq DEF Code
  <2> QED BY <1>4, <2>1, <2>2 DEF Safe
<1>7. /\ run' = [run EXCEPT ![p] = c]
      /\ UNCHANGED <<regs, wdt_enable, start, lock, tmp, suspended, reboot, reset, intent>>
  BY <1>3, <1>5 DEF BranchOnReg
<1>8. Types
  BY DEF IInv
<1>9. run' \in [Procs -> Code] /\ run'[p] = c /\ \A q \in Procs \ {p} : run'[q] = run[q]
  BY <1>6, <1>7, <1>8 DEF Types
<1>10. Types' /\ Shared'
  BY <1>7, <1>8, <1>9 DEF IInv, Types, Shared, RequestsExact, OneLockRegs, DebounceWithKey
<1>11. At(p, x)'
  <2>1. Holds(p, x)' /\ Owes(x)'
    BY <1>1, <1>7 DEF At, Holds, Owes, Agree
  <2>2. Fresh(p, x)'
    BY <1>1, <1>2, <1>7 DEF At, Fresh
  <2> QED BY <1>6, <1>7, <1>9, <2>1, <2>2 DEF At
<1> QED BY <1>7, <1>9, <1>10, <1>11, QuietStepKeeps

LEMMA TakeKeeps ==
  ASSUME IInv, NEW p \in Procs, TakeLock(p)
  PROVE  IInv'
<1>1. PICK x \in Points : At(p, x)
  BY DEF IInv
<1>2. run[p] # <<>> /\ Next1(p).op = "lock"
  BY DEF TakeLock, CanStep, Idle
<1>3. PICK i \in Instr, y \in Points :
        /\ i = Next1(p) /\ y = After(start, i, x) /\ Good(start, p, i, x)
        /\ Tail(run[p]) \in Code /\ Safe(start, p, Tail(run[p]), y)
  BY <1>1, <1>2, AtHead
<1>4. PICK l \in Locks : l = i.lock
  BY <1>2, <1>3, InstrFact
<1>5. /\ lock[l] = None /\ lock' = [lock EXCEPT ![l] = p] /\ Advance(p)
      /\ UNCHANGED <<regs, wdt_enable, start, suspended, reboot, reset, intent>>
  BY <1>3, <1>4 DEF TakeLock
<1>6. x = Out /\ p # Sspm /\ y = In(l)
  BY <1>2, <1>3, <1>4 DEF Good, After
<1>7. Types
  BY DEF IInv
<1>8. /\ run' \in [Procs -> Code] /\ run'[p] = Tail(run[p])
      /\ \A q \in Procs \ {p} : run'[q] = run[q] /\ tmp'[q] = tmp[q]
      /\ tmp' \in [Procs -> [Regs -> SUBSET AllFlags]]
      /\ \A q \in Procs, s \in Regs : tmp'[q][s] \subseteq RegFlags[s]
  BY <1>2, <1>3, <1>5, <1>7, Advanced
<1>9. /\ lock' \in [Locks -> Procs \cup {None}] /\ lock'[l] = p
      /\ \A k \in Locks \ {l} : lock'[k] = lock[k]
  BY <1>5, <1>7 DEF Types
<1>10. Types'
  BY <1>5, <1>6, <1>7, <1>8, <1>9 DEF Types
<1>11. None \notin Procs
  BY ProcAssumption
<1>12. Shared'
  <2>1. lock'["rgu"] = None => lock["rgu"] = None
    BY <1>9, <1>11 DEF Locks
  <2> QED BY <1>5, <2>1 DEF IInv, Shared, RequestsExact, OneLockRegs, DebounceWithKey
<1>13. At(p, y)'
  <2>1. \A k \in Locks : lock[k] # p
    BY <1>1, <1>6 DEF At, Holds, Out, None, Locks
  <2>2. Holds(p, y)'
    BY <1>6, <1>9, <2>1 DEF Holds, In
  <2>3. Fresh(p, y)'
    BY <1>6 DEF Fresh, In
  <2>4. Owes(y)'
    <3>1. l = "rgu" => Agree
      BY <1>5 DEF IInv, Shared, DebounceWithKey, Agree
    <3> QED BY <1>5, <1>6, <3>1 DEF Owes, In, Agree
  <2> QED BY <1>3, <1>5, <1>8, <2>2, <2>3, <2>4 DEF At
<1>14. \A q \in Procs \ {p}, k \in Locks : lock'[k] = q <=> lock[k] = q
  BY <1>5, <1>9, <1>11
<1> QED BY <1>5, <1>8, <1>10, <1>12, <1>13, <1>14, QuietStepKeeps

LEMMA DropKeeps ==
  ASSUME IInv, NEW p \in Procs, DropLock(p)
  PROVE  IInv'
<1>1. PICK x \in Points : At(p, x)
  BY DEF IInv
<1>2. run[p] # <<>> /\ Next1(p).op = "unlock"
  BY DEF DropLock, CanStep, Idle
<1>3. PICK i \in Instr, y \in Points :
        /\ i = Next1(p) /\ y = After(start, i, x) /\ Good(start, p, i, x)
        /\ Tail(run[p]) \in Code /\ Safe(start, p, Tail(run[p]), y)
  BY <1>1, <1>2, AtHead
<1>4. PICK l \in Locks : l = i.lock
  BY <1>2, <1>3, InstrFact
<1>5. /\ lock' = [lock EXCEPT ![l] = None] /\ Advance(p)
      /\ UNCHANGED <<regs, wdt_enable, start, suspended, reboot, reset, intent>>
  BY <1>3, <1>4 DEF DropLock
<1>6. x[1] = l /\ x[3] = "even" /\ y = Out
  BY <1>2, <1>3, <1>4 DEF Good, After
<1>7. Types
  BY DEF IInv
<1>8. /\ run' \in [Procs -> Code] /\ run'[p] = Tail(run[p])
      /\ \A q \in Procs \ {p} : run'[q] = run[q] /\ tmp'[q] = tmp[q]
      /\ tmp' \in [Procs -> [Regs -> SUBSET AllFlags]]
      /\ \A q \in Procs, s \in Regs : tmp'[q][s] \subseteq RegFlags[s]
  BY <1>2, <1>3, <1>5, <1>7, Advanced
<1>9. None \notin Procs
  BY ProcAssumption
<1>10. /\ lock' \in [Locks -> Procs \cup {None}] /\ lock'[l] = None /\ lock[l] = p
       /\ \A k \in Locks \ {l} : lock'[k] = lock[k] /\ lock[k] # p
  BY <1>1, <1>5, <1>6, <1>7 DEF Types, At, Holds
<1>11. Sspm # None
  BY <1>9 DEF Procs
<1>12. Types'
  BY <1>5, <1>7, <1>8, <1>10, <1>11 DEF Types
<1>13. Shared'
  <2>1. l = "rgu" => Agree
    BY <1>1, <1>6 DEF At, Owes
  <2>2. lock'["rgu"] = None => Agree
    BY <1>10, <2>1 DEF IInv, Shared, DebounceWithKey, Agree, Locks
  <2> QED BY <1>5, <2>2 DEF IInv, Shared, RequestsExact, OneLockRegs, DebounceWithKey, Agree
<1>14. At(p, y)'
  <2>1. Holds(p, y)'
    BY <1>6, <1>9, <1>10 DEF Holds, Out, None, Locks
  <2>2. Fresh(p, y)' /\ Owes(y)'
    BY <1>6 DEF Fresh, Owes, Out, None
  <2> QED BY <1>3, <1>5, <1>8, <2>1, <2>2 DEF At
<1>15. \A q \in Procs \ {p}, k \in Locks : lock'[k] = q <=> lock[k] = q
  BY <1>9, <1>10
<1> QED BY <1>5, <1>8, <1>12, <1>13, <1>14, <1>15, QuietStepKeeps

\* The instructions that touch neither register nor lock.
LEMMA OtherKeeps ==
  ASSUME IInv, NEW p \in Procs, StoreEnable(p) \/ ActOutside(p) \/ TriggerReset(p)
  PROVE  IInv'
<1>1. PICK x \in Points : At(p, x)
  BY DEF IInv
<1>2. run[p] # <<>> /\ Next1(p).op \in {"enable", "outside", "reset"}
  BY DEF StoreEnable, ActOutside, TriggerReset, CanStep, Idle
<1>3. PICK i \in Instr, y \in Points :
        /\ i = Next1(p) /\ y = After(start, i, x)
        /\ Tail(run[p]) \in Code /\ Safe(start, p, Tail(run[p]), y)
  BY <1>1, <1>2, AtHead
<1>4. y = x
  BY <1>2, <1>3 DEF After
<1>5. Types
  BY DEF IInv
<1>6. /\ Advance(p) /\ UNCHANGED <<regs, start, lock, suspended, intent>>
      /\ wdt_enable' \in BOOLEAN /\ reset' \in Procs \cup {None}
  <2>1. CASE StoreEnable(p)
    <3>1. i.val \in BOOLEAN
      BY <1>3, <2>1, InstrFact DEF StoreEnable, CanStep
    <3> QED BY <1>3, <1>5, <2>1, <3>1 DEF StoreEnable, Types
  <2>2. CASE ActOutside(p)
    BY <1>5, <2>2 DEF ActOutside, Types
  <2>3. CASE TriggerReset(p)
    BY <1>5, <2>3 DEF TriggerReset, Types
  <2> QED BY <2>1, <2>2, <2>3
<1>7. /\ run' \in [Procs -> Code] /\ run'[p] = Tail(run[p])
      /\ \A q \in Procs \ {p} : run'[q] = run[q] /\ tmp'[q] = tmp[q]
      /\ run'[p] # <<>> => tmp'[p] = tmp[p]
      /\ tmp' \in [Procs -> [Regs -> SUBSET AllFlags]]
      /\ \A q \in Procs, s \in Regs : tmp'[q][s] \subseteq RegFlags[s]
  BY <1>2, <1>3, <1>5, <1>6, Advanced
<1>8. Types'
  BY <1>5, <1>6, <1>7 DEF Types
<1>9. Shared'
  BY <1>6 DEF IInv, Shared, RequestsExact, OneLockRegs, DebounceWithKey
<1>10. At(p, x)'
  <2>1. Holds(p, x)' /\ Owes(x)'
    BY <1>1, <1>6 DEF At, Holds, Owes, Agree
  <2>2. Fresh(p, x)'
    BY <1>1, <1>2, <1>6, <1>7 DEF At, Fresh
  <2> QED BY <1>3, <1>4, <1>6, <1>7, <2>1, <2>2 DEF At
<1> QED BY <1>6, <1>7, <1>8, <1>9, <1>10, QuietStepKeeps

\* A call starts a program that is safe from its start.
LEMMA CallKeeps ==
  ASSUME IInv, NEW p \in Procs, Call(p)
  PROVE  IInv'
<1>1. PICK x \in Points : At(p, x)
  BY DEF IInv
<1>2. PICK o \in start.ops[p] :
        /\ MayCall(p, o) /\ run' = [run EXCEPT ![p] = Program(o)]
        /\ suspended' = IF p = Pm THEN o[1] = "suspend" ELSE suspended
        /\ UNCHANGED <<regs, wdt_enable, start, lock, tmp, reset, intent>>
  BY DEF Call
<1>3. Types
  BY DEF IInv
<1>4. Safe(start, p, Program(o), Out) /\ Program(o) \in Code /\ Out \in Points
  <2>1. Safe(start, p, Program(o), Out)
    BY <1>3, Operation DEF Types
  <2> QED BY <2>1 DEF Safe
<1>5. suspended' \in BOOLEAN
  <2>1. CASE p = Pm
    BY <1>2, <2>1
  <2>2. CASE p # Pm
    BY <1>2, <1>3, <2>2 DEF Types
  <2> QED BY <2>1, <2>2
<1>6. run' \in [Procs -> Code] /\ run'[p] = Program(o) /\ \A q \in Procs \ {p} : run'[q] = run[q]
  BY <1>2, <1>3, <1>4 DEF Types
<1>7. Types'
  BY <1>2, <1>3, <1>5, <1>6 DEF Types
<1>8. Shared'
  BY <1>2 DEF IInv, Shared, RequestsExact, OneLockRegs, DebounceWithKey
<1>9. At(p, Out)'
  <2>1. run[p] = <<>>
    BY <1>2 DEF MayCall, Idle
  <2>2. x[1] = None
    BY <1>1, <2>1, SafeEnds DEF At
  <2>3. Holds(p, Out)'
    BY <1>1, <1>2, <2>2 DEF At, Holds, Out
  <2>4. Fresh(p, Out)' /\ Owes(Out)'
    BY DEF Fresh, Owes, Out, None
  <2>5. Safe(start', p, run'[p], Out)
    BY <1>2, <1>4, <1>6
  <2> QED BY <2>3, <2>4, <2>5 DEF At
<1>10. \A q \in Procs \ {p}, l \in Locks : lock'[l] = q <=> lock[l] = q
  BY <1>2
<1>11. \A q \in Procs \ {p} : run'[q] = run[q] /\ tmp'[q] = tmp[q]
  BY <1>2, <1>6
<1> QED BY <1>2, <1>4, <1>7, <1>8, <1>9, <1>10, <1>11, QuietStepKeeps

LEMMA NextKeeps == IInv /\ [Next]_vars => IInv'
<1> SUFFICES ASSUME IInv, [Next]_vars PROVE IInv'
  OBVIOUS
<1>1. ASSUME NEW p \in Procs, Step(p)
      PROVE  IInv'
  BY <1>1, ReadKeeps, WriteKeeps, PutKeeps, BranchKeeps, TakeKeeps, DropKeeps, OtherKeeps DEF Step
<1>2. CASE UNCHANGED vars
  BY <1>2 DEF vars, IInv, Types, Shared, RequestsExact, OneLockRegs, DebounceWithKey, At, Holds,
              Fresh, Owes, Agree
<1> QED BY <1>1, <1>2, CallKeeps DEF Next

\* The registers as the driver's probe leaves them.
LEMMA ProbeModes ==
  ASSUME start \in Starts, wdt_enable \in BOOLEAN
  PROVE  InitialMode \in SUBSET RegFlags["MODE"]
<1>1. start.kicker \in BOOLEAN
  BY StartAssumption
<1>2. \A a, b, c, d, e \in BOOLEAN : V1!ModeFor(a, b, c, d, e) \in SUBSET RegFlags["MODE"]
  BY RegFlagsFact DEF V1!ModeFor, V1!Flag
<1>3. \A a, b, c, d, e \in BOOLEAN : Api!ModeFor(a, b, c, d, e) \in SUBSET RegFlags["MODE"]
  BY RegFlagsFact DEF Api!ModeFor, Api!Flag
<1>4. V1!ProbeMode(start.kicker) \in SUBSET RegFlags["MODE"]
  BY <1>1, <1>2 DEF V1!ProbeMode
<1>5. Api!ProbeMode(wdt_enable) \in SUBSET RegFlags["MODE"]
  BY <1>3 DEF Api!ProbeMode
<1> QED BY <1>4, <1>5 DEF InitialMode, kicker

LEMMA InitKeeps == Init => IInv
<1> SUFFICES ASSUME Init PROVE IInv
  OBVIOUS
<1>1. start \in Starts /\ start.kicker \in BOOLEAN /\ start.doe \in BOOLEAN
  BY StartAssumption DEF Init
<1>2. wdt_enable \in BOOLEAN
  BY DEF Init
<1>3. PICK m \in SUBSET RegFlags["MODE"] : m = InitialMode
  BY <1>1, <1>2, ProbeModes
<1>4. PICK n \in SUBSET RegFlags["NONRST2"] :
        n = IF version = 2 THEN {"BYPASS_PWR_KEY"} ELSE {}
  BY RegFlagsFact
<1>5. regs = [NoValues EXCEPT !.MODE = m, !.LENGTH = {"PROBE"}, !.NONRST2 = n]
  BY <1>3, <1>4 DEF Init
<1>6. {"PROBE"} \in SUBSET RegFlags["LENGTH"]
  BY RegFlagsFact
<1>7. m \in SUBSET AllFlags /\ n \in SUBSET AllFlags /\ {"PROBE"} \in SUBSET AllFlags
  BY <1>6, MoreFlags, RegsFact
<1>8. /\ regs \in [Regs -> SUBSET AllFlags]
      /\ regs["MODE"] = m /\ regs["LENGTH"] = {"PROBE"} /\ regs["NONRST2"] = n
      /\ \A r \in Regs \ {"MODE", "LENGTH", "NONRST2"} : regs[r] = {}
  BY <1>5, <1>7, NoValuesFact, RegsFact
<1>9. \A r \in Regs : regs[r] \subseteq RegFlags[r]
  BY <1>6, <1>8
<1>10. intent = [r \in OneLock(start) |-> regs[r]]
  BY DEF Init, OneLockRegs
<1>11. intent \in [OneLock(start) -> SUBSET AllFlags] /\ \A r \in OneLock(start) : intent[r] = regs[r]
  BY <1>8, <1>10, Guards
<1>12. /\ tmp \in [Procs -> [Regs -> SUBSET AllFlags]]
       /\ \A p \in Procs, r \in Regs : tmp[p][r] \subseteq RegFlags[r]
  BY NoValuesFact DEF Init
<1>13. <<>> \in Code /\ \A p \in Procs : run[p] = <<>>
  BY EmptySeq DEF Init, Code
<1>14. run \in [Procs -> Code]
  BY <1>13 DEF Init
<1>15. /\ lock \in [Locks -> Procs \cup {None}] /\ \A l \in Locks : lock[l] = None
       /\ reset \in Procs \cup {None} /\ suspended \in BOOLEAN /\ Sspm # None
  BY ProcAssumption DEF Init, Procs
<1>16. Types
  BY <1>1, <1>2, <1>8, <1>9, <1>11, <1>12, <1>14, <1>15 DEF Types
<1>17. regs["REQ_MODE"] = {} /\ regs["SYSDBG_DEG"] = {}
  BY <1>8, RegsFact
<1>18. Shared
  BY <1>11, <1>17 DEF Shared, RequestsExact, OneLockRegs, DebounceWithKey
<1>19. ASSUME NEW p \in Procs PROVE At(p, Out) /\ Out \in Points
  <2>1. Safe(start, p, run[p], Out)
    BY <1>13, SafeOut
  <2>2. Holds(p, Out)
    BY <1>15, ProcAssumption DEF Holds, Out, None, Locks
  <2>3. Fresh(p, Out) /\ Owes(Out)
    BY DEF Fresh, Owes, Out, None
  <2>4. Out \in Points
    BY DEF Out, Points, Owed
  <2> QED BY <2>1, <2>2, <2>3, <2>4 DEF At
<1> QED BY <1>16, <1>18, <1>19 DEF IInv

LEMMA Invariant == Spec => []IInv
<1>1. Init => IInv
  BY InitKeeps
<1>2. IInv /\ [Next]_vars => IInv'
  BY NextKeeps
<1> QED BY <1>1, <1>2, PTL DEF Spec

-----------------------------------------------------------------------------
(* The results.                                                             *)
\* Registers hold their own flags, and the interrupt that reports a reset of
\* the SSPM never holds a lock of the driver.
THEOREM RguTypes == Spec => []TypeOK
<1>1. IInv => TypeOK
  BY RegsFact DEF IInv, Types, TypeOK, Procs
<1> QED BY <1>1, Invariant, PTL

\* The request registers, SWSYSRST where one lock guards it, and in version 1
\* MODE lose no update, however many CPUs call the driver.
THEOREM RguRequestsExact == Spec => []RequestsExact
<1>1. IInv => RequestsExact
  BY DEF IInv, Shared
<1> QED BY <1>1, Invariant, PTL

\* Outside mtk_wdt_request_en_set()'s critical section the debounce of the
\* reset key is on exactly if the key may request a reset.
THEOREM RguDebounce == Spec => []DebounceWithKey
<1>1. IInv => DebounceWithKey
  BY DEF IInv, Shared
<1> QED BY <1>1, Invariant, PTL

\* Every operation of both drivers drops the locks that it takes.
THEOREM RguLockReturned == Spec => []LockReturned
<1>1. IInv => LockReturned
  <2> SUFFICES ASSUME IInv, NEW l \in Locks, lock[l] # None
               PROVE  ~Idle(lock[l])
    BY DEF LockReturned
  <2>1. PICK p \in Procs : p = lock[l]
    BY DEF IInv, Types
  <2>2. PICK x \in Points : At(p, x)
    BY DEF IInv
  <2>3. x[1] = l /\ l # None
    BY <2>1, <2>2 DEF At, Holds, None, Locks
  <2>4. run[p] # <<>>
    BY <2>2, <2>3, SafeEnds DEF At
  <2> QED BY <2>1, <2>4 DEF Idle
<1> QED BY <1>1, Invariant, PTL
=============================================================================
