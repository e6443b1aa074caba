--------------------------- MODULE LkFbdumpProofs ---------------------------
(***************************************************************************)
(* What 07-fbdump.sh guarantees about the file it writes, for every range, *)
(* chunk size, budget and device, however its commands end.                *)
(***************************************************************************)
EXTENDS LkFbdump, LkDumpProofs

\* The counters add up; the script is inside the range while it runs.
Progress ==
  /\ hpc \in {"send", "wait", "done"}
  /\ addr \in From .. To /\ fail \in 0 .. 3
  /\ done_b \in Nat /\ failed \in Nat /\ addr - From = done_b + failed
  /\ hpc # "done" => addr < To /\ fail < 3
  /\ hpc = "done" => addr = To \/ fail = 3

\* The command the script waits for is the one for the chunk at its cursor.
Asked == hpc = "wait" => start = addr /\ len <= ChunkLen

\* Before the end of the range, the chunks of the failures in a row are whole
\* and lie behind every byte that was written.
Written ==
  /\ out \subseteq From .. To - 1
  /\ addr < To => \A a \in out : a < addr - fail * CHUNK

HostInv == DevInv /\ Progress /\ Asked /\ Written

LEMMA ChunkLenFact ==
  ASSUME Progress, addr < To
  PROVE  /\ ChunkLen \in 1 .. CHUNK /\ addr + ChunkLen <= To
         /\ addr + ChunkLen < To => ChunkLen = CHUNK
         /\ addr \in Nat /\ To \in Nat /\ From \in Nat /\ CHUNK \in Nat \ {0}
BY RangeAssumption DEF Progress, ChunkLen, Lesser

\* The host's own counters, whichever way a command ended.
LEMMA NextChunkKeeps ==
  ASSUME Progress, hpc # "done", NEW ok \in BOOLEAN, NextChunk(ok)
  PROVE  Progress' /\ Asked'
<1>1. /\ addr < To /\ fail < 3 /\ fail \in Nat
      /\ addr \in Nat /\ done_b \in Nat /\ failed \in Nat /\ addr - From = done_b + failed
      /\ From <= addr
  BY RangeAssumption DEF Progress
<1>2. ChunkLen \in Nat \ {0} /\ addr + ChunkLen <= To /\ From \in Nat /\ To \in Nat
  BY <1>1, ChunkLenFact
<1>3. /\ addr' = addr + ChunkLen
      /\ hpc' = IF fail' >= 3 \/ addr' >= To THEN "done" ELSE "send"
  BY DEF NextChunk
<1>4. fail' \in 0 .. 3
  BY <1>1 DEF NextChunk, FailAfter
<1>5. done_b' \in Nat /\ failed' \in Nat /\ done_b' + failed' = done_b + failed + ChunkLen
  BY <1>1, <1>2 DEF NextChunk
<1>6. /\ addr' \in From .. To /\ addr' - From = done_b' + failed'
      /\ hpc' \in {"send", "done"}
      /\ hpc' # "done" => addr' < To /\ fail' < 3
      /\ hpc' = "done" => addr' = To \/ fail' = 3
  <2>1. addr' \in From .. To /\ addr' - From = done_b' + failed'
    <3>1. PICK c \in Nat : c = ChunkLen
      BY <1>2
    <3>2. addr' = addr + c /\ addr + c <= To /\ done_b' + failed' = done_b + failed + c
      BY <1>2, <1>3, <1>5, <3>1
    <3>3. addr' \in From .. To
      BY <1>1, <1>2, <3>1, <3>2
    <3>4. addr' - From = (addr - From) + c
      BY <1>1, <1>2, <3>1, <3>2
    <3> QED BY <1>1, <3>2, <3>3, <3>4
  <2>2. fail' >= 3 <=> fail' = 3
    BY <1>4
  <2>3. addr' >= To <=> addr' = To
    BY <1>1, <1>2, <1>3
  <2> QED BY <1>2, <1>3, <1>4, <2>1, <2>2, <2>3
<1> QED BY <1>4, <1>5, <1>6 DEF Progress, Asked

\* A chunk that failed widens the gap behind the cursor by a whole chunk.
LEMMA FailedChunk ==
  ASSUME Progress, Written, hpc # "done", NextChunk(FALSE), out' = out
  PROVE  Written'
<1>1. /\ addr < To /\ fail \in Nat /\ addr' = addr + ChunkLen /\ fail' = fail + 1
      /\ To' = To
  BY DEF Progress, NextChunk, FailAfter
<1>2. addr + ChunkLen < To => ChunkLen = CHUNK
  BY <1>1, ChunkLenFact
<1>3. fail * CHUNK \in Nat /\ (fail + 1) * CHUNK = fail * CHUNK + CHUNK
  BY <1>1, RangeAssumption
<1>4. ASSUME addr' < To, NEW a \in out
      PROVE  a < addr' - fail' * CHUNK
  <2>1. a < addr - fail * CHUNK /\ a \in Int /\ addr \in Nat /\ CHUNK \in Nat
    BY <1>1, <1>4, RangeAssumption DEF Written, Progress
  <2>2. addr' = addr + CHUNK /\ fail' * CHUNK = fail * CHUNK + CHUNK
    BY <1>1, <1>2, <1>3, <1>4
  <2> QED BY <2>1, <2>2, <1>3
<1> QED BY <1>4 DEF Written

\* An answered chunk writes bytes of that chunk only.
LEMMA AnsweredChunk ==
  ASSUME DevInv, Progress, Asked, Written, Answer
  PROVE  Written'
<1>1. /\ hpc = "wait" /\ dpc = "idle" /\ reply.ok /\ out' = out \cup sent
      /\ addr' = addr + ChunkLen /\ fail' = 0
  BY DEF Answer, NextChunk, FailAfter
<1>2. addr < To /\ start = addr /\ len <= ChunkLen /\ From <= addr
  BY <1>1 DEF Progress, Asked
<1>3. /\ ChunkLen \in Nat /\ addr + ChunkLen <= To
      /\ addr \in Nat /\ To \in Nat /\ From \in Nat /\ CHUNK \in Nat
  BY <1>2, ChunkLenFact
<1>4. reply.used \in Nat /\ reply.used <= len /\ sent \subseteq start .. start + reply.used - 1
  BY <1>1, SentFact
<1>5. len \in Nat
  BY DEF DevInv, IInv, TypeOK
<1>6. sent \subseteq addr .. addr + ChunkLen - 1
  BY <1>2, <1>3, <1>4, <1>5
<1>7. out' \subseteq From .. To - 1
  BY <1>1, <1>2, <1>3, <1>6 DEF Written
<1>8. ASSUME NEW a \in out' PROVE a < addr'
  <2>1. fail * CHUNK \in Nat
    BY <1>3 DEF Progress
  <2>2. CASE a \in out
    <3>1. a < addr - fail * CHUNK /\ a \in Int
      BY <1>2, <2>2, RangeAssumption DEF Written
    <3> QED BY <1>1, <1>3, <2>1, <3>1
  <2>3. CASE a \in sent
    BY <1>1, <1>3, <1>6, <2>3
  <2> QED BY <1>1, <2>2, <2>3
<1>9. addr' - fail' * CHUNK = addr'
  BY <1>1, <1>3
<1> QED BY <1>7, <1>8, <1>9 DEF Written

LEMMA SendKeeps ==
  ASSUME HostInv, SendRdmem
  PROVE  HostInv'
<1> USE DEF HostInv
<1>1. hpc = "send" /\ hpc' = "wait" /\ UNCHANGED <<addr, fail, done_b, failed, out>>
  BY DEF SendRdmem
<1>2. addr \in Nat /\ ChunkLen \in Nat
  BY <1>1, ChunkLenFact DEF Progress
<1>3. DevInv'
  BY <1>2, RdmemDev DEF SendRdmem, Mode
<1>4. Asked'
  <2>1. start' = addr /\ len' = Lesser(ChunkLen, DUMP_ONESHOT)
    BY DEF SendRdmem, Rdmem, Begin
  <2>2. len' <= ChunkLen
    BY <1>2, <2>1, LesserFact, SizeAssumption
  <2> QED BY <1>1, <2>1, <2>2 DEF Asked, ChunkLen
<1>5. Progress' /\ Written'
  BY <1>1 DEF Progress, Written
<1> QED BY <1>3, <1>4, <1>5

LEMMA HostInit == Init => HostInv
<1> SUFFICES ASSUME Init PROVE HostInv
  OBVIOUS
<1>1. DevInv
  BY InitDev DEF Init
<1>2. Progress /\ Asked /\ Written
  BY RangeAssumption DEF Init, Progress, Asked, Written
<1> QED BY <1>1, <1>2 DEF HostInv

LEMMA HostStep == HostInv /\ [Next]_vars => HostInv'
<1> SUFFICES ASSUME HostInv, [Next]_vars PROVE HostInv'
  OBVIOUS
<1> USE DEF HostInv
<1>1. CASE SendRdmem
  BY <1>1, SendKeeps
<1>2. CASE RdmemFails
  <2>1. DevInv'
    BY <1>2, RefuseDev DEF RdmemFails, RdmemRefused
  <2>2. Progress' /\ Asked' /\ Written'
    BY <1>2, NextChunkKeeps, FailedChunk DEF RdmemFails
  <2> QED BY <2>1, <2>2
<1>3. CASE NoAnswer
  <2>1. DevInv'
    BY <1>3, StutterDev DEF NoAnswer
  <2>2. Progress' /\ Asked' /\ Written'
    BY <1>3, NextChunkKeeps, FailedChunk DEF NoAnswer
  <2> QED BY <2>1, <2>2
<1>4. CASE Answer
  <2>1. DevInv'
    BY <1>4, StutterDev DEF Answer
  <2>2. Progress' /\ Asked' /\ Written'
    BY <1>4, NextChunkKeeps, AnsweredChunk DEF Answer
  <2> QED BY <2>1, <2>2
<1>5. CASE DevStep /\ UNCHANGED hostVars
  <2>1. DevInv'
    BY <1>5, StepDev
  <2>2. Progress' /\ Asked' /\ Written'
    BY <1>5, DevStepFrame DEF hostVars, Progress, Asked, Written, ChunkLen
  <2> QED BY <2>1, <2>2
<1>6. CASE UNCHANGED vars
  <2>1. DevInv'
    BY <1>6, StutterDev DEF vars
  <2>2. Progress' /\ Asked' /\ Written'
    BY <1>6 DEF vars, hostVars, devVars, reqVars, Progress, Asked, Written, ChunkLen
  <2> QED BY <2>1, <2>2
<1> QED BY <1>1, <1>2, <1>3, <1>4, <1>5, <1>6 DEF Next

LEMMA HostInvariant == Spec => []HostInv
  BY HostInit, HostStep, PTL DEF Spec

\* Every byte of the range behind the cursor is counted once, as read or as
\* failed, and the file holds bytes of the range only (07-fbdump.sh).
THEOREM FbdumpCounts == Spec => []HostTypeOK
<1>1. HostInv => HostTypeOK
  BY RangeAssumption DEF HostInv, DevInv, IInv, Progress, Written, HostTypeOK
<1> QED BY <1>1, HostInvariant, PTL

\* The script stops before the end of its range only when its last three
\* commands failed, so that the three chunks before the cursor are missing.
THEOREM FbdumpGivesUp == Spec => []GivesUpOnlyAfterThree
<1>1. HostInv => GivesUpOnlyAfterThree
  BY RangeAssumption DEF HostInv, Progress, Written, GivesUpOnlyAfterThree
<1> QED BY <1>1, HostInvariant, PTL
=============================================================================
