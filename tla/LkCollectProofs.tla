-------------------------- MODULE LkCollectProofs --------------------------
(***************************************************************************)
(* What 08-lkdump.sh guarantees about the region it collects, for every    *)
(* region, window, line and budget size and every byte in memory; and that *)
(* script and device together walk the region (RegionWalk).                *)
(***************************************************************************)
EXTENDS LkCollect, LkDumpProofs, FiniteSetTheorems

Script ==
  /\ mode \in Mode /\ hpc \in {"send", "wait", "done"}
  /\ off \in Long /\ size \in {0, Total} /\ total \in Long /\ stall \in 0 .. 2
  /\ hpc # "done" => stall < StallLimit /\ verdict = "running"
  /\ out \subseteq Int
  /\ verdict \in {"running", "complete", "failed", "stalled"}
  /\ verdict = "complete" => off >= Total
  /\ hpc = "send" => off < Total \/ off = 0

\* In hex mode the command the script waits for is the window at its offset.
Asked ==
  hpc = "wait" /\ mode = "hex" /\ (dpc # "idle" \/ reply.ok) =>
    /\ off < Total /\ start = Base + off /\ len <= Total - off
    /\ emit_mode = "hex"

\* No request is longer than LK allows, so that its length is a shell's number.
Short == len <= DUMP_MAXLEN

\* In hex mode the offset is the number of bytes LK counted, and what the
\* script wrote lies before it.
HexWalk == mode = "hex" => off = total /\ off \in 0 .. Total /\ out \subseteq 0 .. off - 1

HostInv == DevInv /\ Script /\ Asked /\ Short /\ HexWalk

\* Numbers of the shell: sums stay in range, and are exact if they fit.
LEMMA LongFact ==
  /\ LONG_MAX \in Nat /\ Long \subseteq Int
  /\ \A x \in Long : Wrapped(x) = x
  /\ \A a, b \in Long : Wrapped(a + b) \in Long
  /\ 0 .. Total \subseteq Long /\ 0 .. DUMP_MAXLEN \subseteq Long
BY FakeAssumption, SizeAssumption, AddressAssumption DEF Long, Wrapped

\* LK reads an offset that is an address as it was meant.
LEMMA SentOffFact ==
  /\ off \in Int => SentOff \in 0 .. WORD - 1
  /\ off \in 0 .. WORD - 1 => SentOff = off
<1>1. WORD \in Nat \ {0}
  BY SizeAssumption
<1>2. ASSUME off \in Int PROVE off % WORD \in 0 .. WORD - 1
  BY <1>1, <1>2
<1>3. ASSUME off \in 0 .. WORD - 1 PROVE off % WORD = off
  BY <1>1, <1>3
<1> QED BY <1>2, <1>3 DEF SentOff

LEMMA SendKeeps ==
  ASSUME HostInv, SendCommand
  PROVE  HostInv'
<1> USE DEF HostInv
<1>1. /\ hpc' = "wait" /\ hpc = "send" /\ (off < Total \/ off = 0)
      /\ off \in Int /\ mode \in Mode
      /\ UNCHANGED <<mode, off, size, total, stall, out, verdict>>
  BY LongFact DEF SendCommand, Script
<1>2. SentOff \in Nat
  BY <1>1, SentOffFact, SizeAssumption
<1>3. Script' /\ HexWalk'
  BY <1>1 DEF Script, HexWalk
<1>4. CASE DumpWindow(SentOff, 0, mode)
  <2>1. /\ start' = Base + SentOff /\ len' = WindowLen(SentOff, 0) /\ emit_mode' = mode
        /\ WindowLen(SentOff, 0) <= DUMP_MAXLEN /\ SentOff < Total
    BY <1>4 DEF DumpWindow, Begin, mem_allowed
  <2>2. mode = "hex" => SentOff = off
    BY <1>1, SentOffFact, SizeAssumption, AddressAssumption DEF HexWalk
  <2>3. WindowLen(SentOff, 0) <= Total - SentOff
    BY <1>2, LesserFact, SizeAssumption DEF WindowLen
  <2>4. DevInv'
    BY <1>1, <1>2, <1>4, WindowDev
  <2>5. Asked' /\ Short'
    BY <1>1, <2>1, <2>2, <2>3 DEF Asked, Short
  <2> QED BY <1>3, <2>4, <2>5
<1>5. CASE DumpWindowRefused(SentOff, 0)
  <2>1. DevInv'
    BY <1>5, RefuseDev DEF DumpWindowRefused
  <2>2. Asked' /\ Short'
    BY <1>5 DEF DumpWindowRefused, Refuse, reqVars, Asked, Short
  <2> QED BY <1>3, <2>1, <2>2
<1> QED BY <1>4, <1>5 DEF SendCommand

\* What a successful answer says: in hex mode its `used` line is LK's own, and
\* every byte the script keeps lies in the window it asked for.
LEMMA AnswerFact ==
  ASSUME HostInv, ReceiveAnswer
  PROVE  \E u \in Long :
           /\ Advance(u)
           /\ mode = "hex" =>
                /\ u \in 0 .. Total - off
                /\ {a - Base : a \in sent \ hdr} \subseteq off .. off + u - 1
<1>1. hpc = "wait" /\ dpc = "idle" /\ reply.ok
  BY DEF ReceiveAnswer
<1>2. reply.used \in Nat /\ reply.used <= len /\ sent \subseteq start .. start + reply.used - 1
  BY <1>1, SentFact DEF HostInv
<1>3. PICK u \in IF fakeUsed THEN FakeUsed ELSE {reply.used} : Advance(u)
  BY DEF ReceiveAnswer
<1>4. u \in Long
  <2>1. len \in Nat /\ len <= DUMP_MAXLEN
    BY DEF HostInv, Short, DevInv, IInv, TypeOK
  <2>2. reply.used \in 0 .. DUMP_MAXLEN
    BY <1>2, <2>1, SizeAssumption
  <2> QED BY <1>3, <2>2, LongFact, FakeAssumption
<1>5. ASSUME mode = "hex"
      PROVE  /\ u \in 0 .. Total - off
             /\ {a - Base : a \in sent \ hdr} \subseteq off .. off + u - 1
  <2>1. /\ off < Total /\ start = Base + off /\ len <= Total - off /\ emit_mode = "hex"
        /\ off \in Nat /\ Base \in Nat /\ Total \in Nat /\ len \in Nat
    BY <1>1, <1>5, RegionTypes DEF HostInv, Asked, HexWalk, DevInv, IInv, TypeOK
  <2>2. u = reply.used
    BY <1>3, <2>1 DEF HostInv, DevInv, PlainHex
  <2>3. ASSUME NEW a \in sent
        PROVE  a - Base \in off .. off + u - 1
    BY <1>2, <2>1, <2>2
  <2> QED BY <1>2, <2>1, <2>2, <2>3
<1> QED BY <1>3, <1>4, <1>5

\* In hex mode the sums of the script are exact.
LEMMA AnswerSums ==
  ASSUME HostInv, ReceiveAnswer, NEW u \in Long, Advance(u),
         mode = "hex" => u \in 0 .. Total - off
  PROVE  /\ off' \in Long /\ total' \in Long /\ size' = Total /\ stall' = StallAfter(u)
         /\ mode' = mode /\ out' = out \cup {a - Base : a \in sent \ hdr}
         /\ mode = "hex" => off' = off + u /\ total' = total + u
<1>1. /\ off' = Wrapped(off + u) /\ total' = Wrapped(total + u) /\ size' = Total
      /\ stall' = StallAfter(u) /\ mode' = mode
      /\ out' = out \cup {a - Base : a \in sent \ hdr}
  BY DEF Advance, OffAfter, TotalAfter, ReceiveAnswer
<1>2. off' \in Long /\ total' \in Long
  BY <1>1, LongFact DEF HostInv, Script
<1>3. ASSUME mode = "hex" PROVE off' = off + u /\ total' = total + u
  <2>1. off = total /\ off \in 0 .. Total /\ u \in 0 .. Total - off /\ Total \in Nat
    BY <1>3, RegionTypes DEF HostInv, HexWalk
  <2>2. off + u \in Long
    BY <2>1, LongFact
  <2> QED BY <1>1, <2>1, <2>2, LongFact
<1> QED BY <1>1, <1>2, <1>3

LEMMA AnswerKeeps ==
  ASSUME HostInv, ReceiveAnswer
  PROVE  HostInv'
<1> USE DEF HostInv
<1>1. DevInv' /\ Short'
  BY StutterDev DEF ReceiveAnswer, devVars, reqVars, Short
<1>2. PICK u \in Long :
        /\ Advance(u)
        /\ mode = "hex" =>
             /\ u \in 0 .. Total - off
             /\ {a - Base : a \in sent \ hdr} \subseteq off .. off + u - 1
  BY AnswerFact
<1>3. /\ off' \in Long /\ total' \in Long /\ size' = Total /\ stall' = StallAfter(u)
      /\ mode' = mode /\ out' = out \cup {a - Base : a \in sent \ hdr}
      /\ mode = "hex" => off' = off + u /\ total' = total + u
  BY <1>2, AnswerSums
<1>4. stall \in 0 .. 1 /\ Total \in Nat /\ Base \in Nat
  BY RegionTypes DEF Script, StallLimit, ReceiveAnswer
<1>5. stall' \in 0 .. 2
  BY <1>3, <1>4 DEF StallAfter
<1>6. out' \subseteq Int
  <2>1. sent \subseteq Int
    BY DEF DevInv, IInv, TypeOK
  <2>2. {a - Base : a \in sent \ hdr} \subseteq Int
    BY <1>4, <2>1
  <2> QED BY <1>3, <2>2 DEF Script
<1>7. /\ hpc' \in {"send", "done"} /\ verdict' \in {"running", "complete", "failed", "stalled"}
      /\ hpc' # "done" => stall' < StallLimit /\ verdict' = "running" /\ off' < Total
      /\ verdict' = "complete" => off' >= Total
  <2>1. CASE hpc' = "done" /\ verdict' = "stalled"
    BY <2>1
  <2>2. CASE hpc' = "done" /\ verdict' = "complete" /\ off' >= Total
    BY <2>2
  <2>3. CASE stall' < StallLimit /\ off' < Total /\ hpc' = "send" /\ UNCHANGED verdict
    BY <2>3 DEF Script, ReceiveAnswer
  <2> QED BY <1>2, <2>1, <2>2, <2>3 DEF Advance
<1>8. Script' /\ Asked'
  BY <1>3, <1>5, <1>6, <1>7 DEF Script, Asked
<1>9. HexWalk'
  <2> SUFFICES ASSUME mode = "hex"
               PROVE  off' = total' /\ off' \in 0 .. Total /\ out' \subseteq 0 .. off' - 1
    BY <1>3 DEF HexWalk
  <2>1. off = total /\ off \in 0 .. Total /\ out \subseteq 0 .. off - 1
    BY DEF HexWalk
  <2>2. u \in 0 .. Total - off /\ off' = off + u /\ total' = total + u
    BY <1>2, <1>3
  <2>3. out' \subseteq 0 .. off' - 1
    <3>1. {a - Base : a \in sent \ hdr} \subseteq off .. off + u - 1
      BY <1>2
    <3>2. off .. off + u - 1 \subseteq 0 .. off' - 1 /\ 0 .. off - 1 \subseteq 0 .. off' - 1
      BY <1>4, <2>1, <2>2
    <3> QED BY <1>3, <2>1, <3>1, <3>2
  <2> QED BY <1>4, <2>1, <2>2, <2>3
<1> QED BY <1>1, <1>8, <1>9

LEMMA HostInit == Init => HostInv
<1> SUFFICES ASSUME Init PROVE HostInv
  OBVIOUS
<1>1. DevInv
  BY InitDev DEF Init
<1>2. Script
  <2>1. 0 \in Long
    BY FakeAssumption DEF Long
  <2> QED BY <2>1 DEF Init, Script, StallLimit
<1>3. Asked /\ Short /\ HexWalk
  BY RegionTypes, SizeAssumption DEF Init, DevInit, Asked, Short, HexWalk
<1> QED BY <1>1, <1>2, <1>3 DEF HostInv

LEMMA HostStep == HostInv /\ [Next]_vars => HostInv'
<1> SUFFICES ASSUME HostInv, [Next]_vars PROVE HostInv'
  OBVIOUS
<1> USE DEF HostInv
<1>1. CASE SendCommand
  BY <1>1, SendKeeps
<1>2. CASE CommandFails \/ TrailerUnreadable
  <2>1. DevInv'
    BY <1>2, StutterDev DEF CommandFails, TrailerUnreadable
  <2>2. Script' /\ Asked' /\ Short' /\ HexWalk'
    BY <1>2 DEF CommandFails, TrailerUnreadable, Script, Asked, Short, HexWalk, devVars, reqVars
  <2> QED BY <2>1, <2>2
<1>3. CASE ReceiveAnswer
  BY <1>3, AnswerKeeps
<1>4. CASE DevStep /\ UNCHANGED hostVars
  <2>1. DevInv'
    BY <1>4, StepDev
  <2>2. Script' /\ Asked' /\ Short' /\ HexWalk'
    BY <1>4, DevStepFrame DEF hostVars, Script, Asked, Short, HexWalk
  <2> QED BY <2>1, <2>2
<1>5. CASE UNCHANGED vars
  <2>1. DevInv'
    BY <1>5, StutterDev DEF vars
  <2>2. Script' /\ Asked' /\ Short' /\ HexWalk'
    BY <1>5 DEF vars, hostVars, devVars, reqVars, Script, Asked, Short, HexWalk
  <2> QED BY <2>1, <2>2
<1> QED BY <1>1, <1>2, <1>3, <1>4, <1>5 DEF Next

LEMMA HostInvariant == Spec => []HostInv
  BY HostInit, HostStep, PTL DEF Spec

\* The script's counters stay numbers of the shell, whatever a forged trailer says,
\* and its loop ends before the third answer without progress (08-lkdump.sh).
THEOREM CollectTypes == Spec => []HostTypeOK
<1>1. HostInv => HostTypeOK
  BY DEF HostInv, Script, DevInv, IInv, HostTypeOK
<1> QED BY <1>1, HostInvariant, PTL

\* A hex dump that completes without the size warning is the region, byte for
\* byte: no lost line and no newline can hide behind an equal count.
THEOREM CollectIntact == Spec => []NoWarningMeansIntact
<1>1. HostInv => NoWarningMeansIntact
  <2> SUFFICES ASSUME HostInv, mode = "hex", verdict = "complete", Cardinality(out) = total
               PROVE  out = Region
    BY DEF NoWarningMeansIntact, Warned
  <2>1. /\ off = total /\ off <= Total /\ off >= Total /\ out \subseteq 0 .. off - 1
        /\ off \in Nat /\ Total \in Nat
    BY SizeAssumption DEF HostInv, HexWalk, Script
  <2>2. off = Total /\ out \in SUBSET (0 .. Total - 1)
    BY <2>1
  <2>3. IsFiniteSet(0 .. Total - 1) /\ Cardinality(0 .. Total - 1) = Total
    BY <2>1, FS_Interval
  <2>4. 0 .. Total - 1 = out
    BY <2>1, <2>2, <2>3, FS_Subset
  <2> QED BY <2>4 DEF Region
<1> QED BY <1>1, HostInvariant, PTL

(***************************************************************************)
(* The refinement: each step of script and device is a move of the walk    *)
(* over the region, or leaves cursor and bytes alone.                      *)
(***************************************************************************)
LEMMA WalkStart == Init => Walk!Init
BY DEF Init, Walk!Init

LEMMA AnswerMoves ==
  ASSUME HostInv, ReceiveAnswer, mode = "hex"
  PROVE  (Walk!Move \/ UNCHANGED <<off, out>>) /\ mode' = mode
<1>1. PICK u \in Long :
        /\ Advance(u)
        /\ u \in 0 .. Total - off
        /\ {a - Base : a \in sent \ hdr} \subseteq off .. off + u - 1
  BY AnswerFact
<1>2. /\ off' = off + u /\ mode' = mode
      /\ out' = out \cup {a - Base : a \in sent \ hdr}
      /\ off \in 0 .. Total /\ Total \in Nat
  BY <1>1, AnswerSums, RegionTypes DEF HostInv, HexWalk
<1>3. CASE u = 0
  <2>1. off .. off + u - 1 = {}
    BY <1>2, <1>3
  <2>2. {a - Base : a \in sent \ hdr} = {}
    BY <1>1, <2>1
  <2>3. out' = out
    BY <1>2, <2>2, Zenon
  <2>4. off' = off
    BY <1>2, <1>3
  <2> QED BY <1>2, <2>3, <2>4
<1>4. CASE u # 0
  <2>1. off < Total /\ off' \in off + 1 .. Total
    BY <1>1, <1>2, <1>4
  <2>2. {a - Base : a \in sent \ hdr} \in SUBSET (off .. off' - 1)
    BY <1>1, <1>2
  <2>3. \E S \in SUBSET (off .. off' - 1) : out' = out \cup S
    BY <1>2, <2>2
  <2> QED BY <1>2, <2>1, <2>3 DEF Walk!Move
<1> QED BY <1>3, <1>4

LEMMA WalkStep ==
  HostInv /\ [Next]_vars =>
    [Walk!Move]_<<IF mode = "hex" THEN off ELSE 0, IF mode = "hex" THEN out ELSE {}>>
<1> SUFFICES ASSUME HostInv, [Next]_vars
             PROVE  \/ Walk!Move
                    \/ UNCHANGED <<IF mode = "hex" THEN off ELSE 0,
                                   IF mode = "hex" THEN out ELSE {}>>
  OBVIOUS
<1>1. mode' = mode
  BY DEF Next, SendCommand, CommandFails, TrailerUnreadable, ReceiveAnswer, hostVars, vars
<1>2. CASE mode # "hex"
  BY <1>1, <1>2
<1>3. CASE mode = "hex" /\ ReceiveAnswer
  BY <1>1, <1>3, AnswerMoves
<1>4. CASE UNCHANGED <<off, out>>
  BY <1>1, <1>4
<1> QED BY <1>2, <1>3, <1>4
        DEF Next, SendCommand, CommandFails, TrailerUnreadable, hostVars, vars

\* In hex mode 08-lkdump.sh on top of the dumper implements RegionWalk: the
\* cursor only moves forward inside the region and no byte is written twice or
\* outside the move that passes it.
THEOREM CollectWalks == Spec => WalksRegion
<1>1. Walk!Init /\ [][Walk!Move]_<<IF mode = "hex" THEN off ELSE 0,
                                   IF mode = "hex" THEN out ELSE {}>> => WalksRegion
  BY DEF WalksRegion, Walk!Spec
<1> QED BY <1>1, WalkStart, WalkStep, HostInvariant, PTL DEF Spec
=============================================================================
