---------------------------- MODULE LkDumpProofs ----------------------------
(***************************************************************************)
(* What the device side of a dump guarantees for every page, chunk, line   *)
(* and budget size, and for every sequence of commands and bytes.          *)
(***************************************************************************)
EXTENDS LkDump, TLAPS

InCommand == dpc \in {"map", "copy", "restore", "push", "flush"}

\* dump_region's counters against the place the handler has reached.
Counters ==
  /\ dpc = "map" => i = 0 /\ done < len
  /\ dpc \in {"copy", "restore"} => i = 0
  /\ dpc \in {"copy", "restore", "push"} => i <= n /\ done + n <= len
  /\ dpc = "flush" => i = 0

\* INFO messages against the lines the emitter has left.
Messages ==
  /\ emit_left <= DUMP_LINES_MAX
  /\ InCommand => msgs <= 4 + (DUMP_LINES_MAX - emit_left)
  /\ msgs <= 5 + DUMP_LINES_MAX

\* The flush at the end drops k bytes, and only without budget.
Dropped(k) ==
  /\ k <= reply.used
  /\ start .. start + reply.used - 1 - k = sent \cup eaten
  /\ k > 0 => emit_left = 0
  /\ emit_mode = "hex" => k <= DUMP_LINE \div 2

Replied ==
  dpc = "idle" /\ reply.ok => \E k \in 0 .. DUMP_LINE : Dropped(k)

\* At most the page of the current chunk is mapped, and only by its own slot.
Mapping ==
  /\ dpc \notin {"copy", "restore", "dead"} => \A p \in Page : slot[p] = "own"
  /\ dpc \in {"copy", "restore"} =>
       \A p \in Page : (p = ChunkPage /\ HasSlot(p)) \/ slot[p] = "own"

IInv ==
  /\ TypeOK
  /\ LineBufferSafe
  /\ Counters
  /\ BytesAccounted
  /\ Replied
  /\ Messages
  /\ Mapping

LEMMA LesserFact ==
  ASSUME NEW a \in Int, NEW b \in Int
  PROVE  /\ Lesser(a, b) \in {a, b} /\ Lesser(a, b) <= a /\ Lesser(a, b) <= b
BY DEF Lesser

LEMMA ChunkFact ==
  ASSUME NEW a \in Nat
  PROVE  ToPageEnd(a) \in 1 .. PAGE
<1>1. a % PAGE \in 0 .. PAGE - 1
  BY SizeAssumption
<1> QED BY <1>1, SizeAssumption DEF ToPageEnd

LEMMA WindowFact ==
  ASSUME NEW off \in Nat, NEW l \in Nat, off < Total
  PROVE  WindowLen(off, l) \in Nat \ {0}
BY SizeAssumption DEF WindowLen, Lesser

\* Begin is shared by the two commands: it establishes every conjunct afresh.
LEMMA BeginKeeps ==
  ASSUME IInv, NEW addr \in Nat, NEW l \in Nat \ {0}, NEW mode \in Mode,
         NEW headers \in 0 .. 4, dpc = "idle", Begin(addr, l, mode, headers)
  PROVE  IInv'
<1> USE SizeAssumption DEF Begin
<1>1. TypeOK'
  <2>1. NoReply \in [ok : BOOLEAN, used : Nat \cup {-1}]
    BY DEF NoReply
  <2>2. DUMP_LINES_MAX \in Nat
    OBVIOUS
  <2>3. sent' \subseteq Int /\ eaten' \subseteq Int /\ hdr' \subseteq sent' /\ fakeUsed' \in BOOLEAN
    OBVIOUS
  <2>4. reply' \in [ok : BOOLEAN, used : Nat \cup {-1}]
    BY <2>1
  <2> QED BY <2>2, <2>3, <2>4 DEF IInv, TypeOK, DPC
<1>2. LineBufferSafe' /\ Counters' /\ Replied'
  BY DEF LineBufferSafe, Counters, Replied, NoReply
<1>3. BytesAccounted'
  BY <1>1 DEF BytesAccounted, Pending, Chars, cur, TypeOK, Mode
<1>4. Messages'
  BY DEF Messages, InCommand
<1>5. Mapping'
  BY DEF IInv, Mapping
<1> QED BY <1>1, <1>2, <1>3, <1>4, <1>5 DEF IInv

LEMMA RefuseKeeps ==
  ASSUME IInv, Refuse
  PROVE  IInv'
<1> USE DEF IInv, Refuse, reqVars, dumpVars, emitVars
<1>1. TypeOK' /\ LineBufferSafe' /\ Counters' /\ Messages' /\ Mapping'
  BY DEF TypeOK, LineBufferSafe, Counters, Messages, Mapping, InCommand,
         ChunkPage, HasSlot
<1>2. BytesAccounted' /\ Replied'
  BY DEF BytesAccounted, Replied
<1> QED BY <1>1, <1>2

LEMMA CommandKeeps ==
  ASSUME IInv, Command
  PROVE  IInv'
<1> USE SizeAssumption
<1>1. ASSUME NEW off \in Offsets, NEW l \in Lens, NEW m \in Mode, DumpWindow(off, l, m)
      PROVE  IInv'
  <2>1. WindowLen(off, l) \in Nat \ {0} /\ Base + off \in Nat
    BY <1>1, WindowFact DEF DumpWindow
  <2> QED BY <1>1, <2>1, BeginKeeps DEF DumpWindow
<1>2. ASSUME NEW off \in Offsets, NEW l \in Lens, DumpWindowRefused(off, l)
      PROVE  IInv'
  BY <1>2, RefuseKeeps DEF DumpWindowRefused
<1>3. ASSUME NEW a \in Addrs, NEW l \in Lens, NEW m \in Mode, Rdmem(a, l, m)
      PROVE  IInv'
  <2>1. Lesser(l, DUMP_ONESHOT) \in Nat \ {0}
    BY <1>3, LesserFact DEF Rdmem, mem_allowed
  <2> QED BY <1>3, <2>1, BeginKeeps DEF Rdmem
<1>4. ASSUME NEW a \in Addrs, NEW l \in Lens, RdmemRefused(a, l)
      PROVE  IInv'
  BY <1>4, RefuseKeeps DEF RdmemRefused
<1> QED BY <1>1, <1>2, <1>3, <1>4 DEF Command

LEMMA MapKeeps ==
  ASSUME IInv, MapPage
  PROVE  IInv'
<1> USE DEF IInv, MapPage, reqVars, emitVars
<1>1. n' \in Nat /\ done + n' <= len
  <2>1. ToPageEnd(start + done) \in Nat /\ DUMP_CHUNK \in Nat /\ len - done \in Nat
    BY ChunkFact, SizeAssumption DEF TypeOK, Counters
  <2>2. Lesser(len - done, DUMP_CHUNK) \in Nat /\ Lesser(len - done, DUMP_CHUNK) <= len - done
    BY <2>1, LesserFact
  <2> QED BY <2>1, <2>2, LesserFact DEF TypeOK
<1>2. slot' \in [Page -> {"own", "temp"}]
  BY DEF TypeOK
<1>3. TypeOK' /\ LineBufferSafe' /\ Counters' /\ Messages'
  BY <1>1, <1>2 DEF TypeOK, LineBufferSafe, Counters, Messages, InCommand, DPC
<1>4. BytesAccounted' /\ Replied'
  BY DEF BytesAccounted, Replied, Pending, Chars, cur, Counters
<1>5. Mapping'
  BY DEF Mapping, TypeOK, ChunkPage, HasSlot
<1> QED BY <1>3, <1>4, <1>5

LEMMA CopyKeeps ==
  ASSUME IInv, CopyChunk
  PROVE  IInv'
<1> USE DEF IInv, CopyChunk, reqVars, dumpVars, emitVars
<1>1. TypeOK' /\ LineBufferSafe' /\ Counters' /\ Messages'
  BY DEF TypeOK, LineBufferSafe, Counters, Messages, InCommand, DPC
<1>2. BytesAccounted' /\ Replied'
  BY DEF BytesAccounted, Replied, Pending, Chars, cur
<1>3. Mapping'
  BY DEF Mapping, ChunkPage, HasSlot
<1> QED BY <1>1, <1>2, <1>3

LEMMA RestoreKeeps ==
  ASSUME IInv, RestorePage
  PROVE  IInv'
<1> USE DEF IInv, RestorePage, reqVars, dumpVars, emitVars
<1>1. slot' \in [Page -> {"own", "temp"}]
  BY DEF TypeOK
<1>2. TypeOK' /\ LineBufferSafe' /\ Counters' /\ Messages'
  BY <1>1 DEF TypeOK, LineBufferSafe, Counters, Messages, InCommand, DPC
<1>3. BytesAccounted' /\ Replied'
  BY DEF BytesAccounted, Replied, Pending, Chars, cur
<1>4. Mapping'
  BY DEF Mapping, TypeOK, ChunkPage, HasSlot
<1> QED BY <1>2, <1>3, <1>4

LEMMA EndChunkKeeps ==
  ASSUME IInv, EndChunk
  PROVE  IInv'
<1> USE DEF IInv, EndChunk, reqVars, emitVars
<1>1. TypeOK' /\ LineBufferSafe' /\ Counters' /\ Messages'
  BY DEF TypeOK, LineBufferSafe, Counters, Messages, InCommand, DPC
<1>2. cur' = cur /\ Chars' = Chars
  BY DEF TypeOK, Chars, cur
<1>3. BytesAccounted' /\ Replied'
  BY <1>2 DEF BytesAccounted, Replied, Pending
<1>4. Mapping'
  BY DEF Mapping
<1> QED BY <1>1, <1>3, <1>4

LEMMA StopKeeps ==
  ASSUME IInv, NEW c \in Byte, PushStops(c)
  PROVE  IInv'
<1> USE DEF IInv, PushStops, reqVars, emitVars
<1>1. TypeOK' /\ LineBufferSafe' /\ Counters' /\ Messages'
  BY DEF TypeOK, LineBufferSafe, Counters, Messages, InCommand, DPC
<1>2. cur' = cur /\ Chars' = Chars
  BY DEF TypeOK, Chars, cur
<1>3. BytesAccounted' /\ Replied'
  BY <1>2 DEF BytesAccounted, Replied, Pending
<1>4. Mapping'
  BY DEF Mapping
<1> QED BY <1>1, <1>3, <1>4

LEMMA RestartKeeps ==
  ASSUME IInv, LkRestart
  PROVE  IInv'
<1> USE SizeAssumption DEF IInv, LkRestart, reqVars
<1>1. NoReply \in [ok : BOOLEAN, used : Nat \cup {-1}] /\ ~NoReply.ok
  BY DEF NoReply
<1>2. TypeOK' /\ LineBufferSafe' /\ Counters' /\ Messages'
  BY <1>1 DEF TypeOK, LineBufferSafe, Counters, Messages, InCommand, DPC
<1>3. BytesAccounted' /\ Replied' /\ Mapping'
  BY <1>1 DEF BytesAccounted, Replied, Mapping
<1> QED BY <1>2, <1>3

\* Columns and characters: what the emitter holds of each mode.
LEMMA CharsFact ==
  ASSUME TypeOK, LineBufferSafe
  PROVE  /\ Chars \in Nat /\ Chars <= DUMP_LINE
         /\ emit_mode = "hex" => Chars <= DUMP_LINE \div 2 /\ emit_col = 2 * Chars
         /\ emit_mode # "hex" => Chars = emit_col
         /\ Chars = 0 <=> emit_col = 0
         /\ cur \in Nat
BY SizeAssumption DEF TypeOK, LineBufferSafe, Chars, cur

\* A line that goes out: types, and one line of the budget spent.
LEMMA LineOutFact ==
  ASSUME TypeOK, LineBufferSafe, BudgetLeft, LineOut
  PROVE  /\ emit_left' \in Nat /\ emit_left' = emit_left - 1
         /\ sent' \subseteq Int /\ hdr' \subseteq sent' /\ fakeUsed' \in BOOLEAN
<1>1. emit_left' \in Nat /\ emit_left' = emit_left - 1
  BY DEF TypeOK, BudgetLeft, LineOut
<1>2. sent' \subseteq Int
  <2>1. cur \in Int /\ cur - Chars \in Int
    BY CharsFact
  <2>2. Pending \subseteq Int
    BY <2>1 DEF Pending
  <2> QED BY <2>2 DEF TypeOK, LineOut
<1>3. hdr' \subseteq sent'
  BY DEF TypeOK, LineOut
<1>4. fakeUsed' \in BOOLEAN
  BY Zenon DEF LineOut
<1> QED BY <1>1, <1>2, <1>3, <1>4

\* Taking byte c, in each of the three ways StoreByte has.
LEMMA StoreFact ==
  ASSUME IInv, NEW c \in Byte, dpc = "push", PushByte(c)
  PROVE  /\ cur' = cur + 1 /\ start' = start
         /\ sent' \cup eaten' \cup Pending' = (sent \cup eaten \cup Pending) \cup {cur}
         /\ sent' \cap Pending' = {} /\ eaten' \cap Pending' = {} /\ sent' \cap eaten' = {}
         /\ LineBufferSafe' /\ emit_col' \in Nat
         /\ eaten' \subseteq Int /\ sent' \subseteq Int
         /\ head' \in {"chr", "tag", "used"}
<1> USE SizeAssumption DEF IInv, PushByte, reqVars
<1>1. cur \in Nat /\ start \in Nat /\ Chars \in Nat /\ TypeOK /\ LineBufferSafe
  BY CharsFact DEF TypeOK
<1>2. cur' = cur + 1 /\ start' = start
  BY DEF cur, TypeOK
<1>3. /\ start .. cur - 1 = sent \cup eaten \cup Pending
      /\ sent \cap Pending = {} /\ eaten \cap Pending = {} /\ sent \cap eaten = {}
  BY DEF BytesAccounted
<1>4. cur \notin sent \cup eaten \cup Pending
  BY <1>1, <1>3
<1>5. /\ EndsLine(c) => sent' = sent \cup Pending
      /\ ~EndsLine(c) => sent' = sent
  BY DEF LineOut, NoLineOut
<1>6. CASE emit_mode = "hex"
  <2>1. eaten' = eaten /\ head' = head
    BY <1>6 DEF StoreByte
  <2>2. CASE EndsLine(c)
    <3>1. emit_col' = 2
      BY <1>6, <2>2 DEF StoreByte
    <3>2. Chars' = 1 /\ Pending' = {cur}
      BY <1>1, <1>2, <1>6, <3>1 DEF Chars, Pending
    <3> QED BY <1>1, <1>2, <1>3, <1>4, <1>5, <1>6, <2>1, <2>2, <3>1, <3>2
            DEF LineBufferSafe, TypeOK
  <2>3. CASE ~EndsLine(c)
    <3>1. emit_col' = emit_col + 2
      BY <1>6, <2>3 DEF StoreByte
    <3>2. Chars' = Chars + 1
      BY <1>1, <1>6, <3>1 DEF Chars, TypeOK
    <3>3. Pending' = Pending \cup {cur}
      BY <1>1, <1>2, <3>2 DEF Pending
    <3>4. emit_col + 2 <= DUMP_LINE
      BY <1>1, <1>6, <2>3 DEF EndsLine, LineBufferSafe, TypeOK
    <3> QED BY <1>1, <1>2, <1>3, <1>4, <1>5, <1>6, <2>1, <2>3, <3>1, <3>3, <3>4
            DEF LineBufferSafe, TypeOK
  <2> QED BY <2>2, <2>3
<1>7. CASE emit_mode # "hex" /\ c = "nl"
  <2>1. emit_col' = 0 /\ eaten' = eaten \cup {cur} /\ head' = head
    BY <1>7 DEF StoreByte
  <2>2. Pending' = {}
    BY <1>1, <1>2, <1>7, <2>1 DEF Chars, Pending
  <2>3. ~EndsLine(c) => Pending = {}
    BY <1>1, <1>7 DEF EndsLine, Pending, Chars, TypeOK
  <2> QED BY <1>1, <1>2, <1>3, <1>4, <1>5, <1>7, <2>1, <2>2, <2>3
          DEF LineBufferSafe, TypeOK
<1>8. CASE emit_mode # "hex" /\ c # "nl"
  <2>1. eaten' = eaten /\ head' \in {"chr", "tag", "used"}
    BY <1>8 DEF StoreByte, Byte, TypeOK
  <2>2. CASE EndsLine(c)
    <3>1. emit_col' = 1
      BY <1>8, <2>2 DEF StoreByte
    <3>2. Pending' = {cur}
      BY <1>1, <1>2, <1>8, <3>1 DEF Chars, Pending
    <3>3. DUMP_LINE >= 1
      OBVIOUS
    <3> QED BY <1>1, <1>2, <1>3, <1>4, <1>5, <1>8, <2>1, <2>2, <3>1, <3>2, <3>3
            DEF LineBufferSafe, TypeOK
  <2>3. CASE ~EndsLine(c)
    <3>1. emit_col' = emit_col + 1 /\ emit_col < DUMP_LINE
      BY <1>1, <1>8, <2>3 DEF StoreByte, EndsLine, LineBufferSafe, TypeOK
    <3>2. Pending' = Pending \cup {cur}
      BY <1>1, <1>2, <1>8, <3>1 DEF Pending, Chars, TypeOK
    <3> QED BY <1>1, <1>2, <1>3, <1>4, <1>5, <1>8, <2>1, <2>3, <3>1, <3>2
            DEF LineBufferSafe, TypeOK
  <2> QED BY <2>2, <2>3
<1> QED BY <1>6, <1>7, <1>8

LEMMA PushKeeps ==
  ASSUME IInv, NEW c \in Byte, PushByte(c)
  PROVE  IInv'
<1>1. dpc = "push" /\ dpc' = "push" /\ i < n /\ i' = i + 1
  BY DEF PushByte
<1>2. /\ cur' = cur + 1 /\ start' = start
      /\ sent' \cup eaten' \cup Pending' = (sent \cup eaten \cup Pending) \cup {cur}
      /\ sent' \cap Pending' = {} /\ eaten' \cap Pending' = {} /\ sent' \cap eaten' = {}
      /\ LineBufferSafe' /\ emit_col' \in Nat
      /\ eaten' \subseteq Int /\ sent' \subseteq Int
      /\ head' \in {"chr", "tag", "used"}
  BY <1>1, StoreFact
<1>3. /\ emit_left' \in Nat /\ emit_left' <= emit_left
      /\ msgs' = msgs + (emit_left - emit_left') /\ msgs' \in Nat
      /\ hdr' \subseteq sent' /\ fakeUsed' \in BOOLEAN
  <2>1. CASE EndsLine(c) /\ BudgetLeft /\ LineOut /\ msgs' = msgs + 1
    BY <2>1, LineOutFact DEF IInv, TypeOK
  <2>2. CASE NoLineOut /\ msgs' = msgs
    BY <2>2 DEF NoLineOut, IInv, TypeOK
  <2> QED BY <2>1, <2>2 DEF PushByte
<1>4. TypeOK' /\ Counters'
  <2>1. UNCHANGED <<mmu, slot, dpc, start, len, emit_mode, done, n, reply>>
    BY DEF PushByte, reqVars
  <2>2. TypeOK'
    <3>0. i \in Nat
      BY DEF IInv, TypeOK
    <3>1. i' \in Nat
      BY <1>1, <3>0
    <3>2. sent' \subseteq Int /\ eaten' \subseteq Int /\ hdr' \subseteq sent'
      BY <1>2, <1>3
    <3>3. emit_left' \in Nat /\ msgs' \in Nat /\ fakeUsed' \in BOOLEAN
      BY <1>3
    <3>4. emit_col' \in Nat /\ head' \in {"chr", "tag", "used"}
      BY <1>2
    <3> QED BY <2>1, <3>1, <3>2, <3>3, <3>4 DEF IInv, TypeOK
  <2>3. Counters'
    BY <1>1, <2>1 DEF IInv, TypeOK, Counters
  <2> QED BY <2>2, <2>3
<1>5. Messages'
  BY <1>1, <1>3, SizeAssumption DEF IInv, TypeOK, Messages, InCommand
<1>6. BytesAccounted'
  <2>1. start .. cur - 1 = sent \cup eaten \cup Pending /\ start <= cur
    BY <1>1 DEF IInv, BytesAccounted, cur, TypeOK
  <2>2. start .. cur' - 1 = (start .. cur - 1) \cup {cur}
    BY <1>2, <2>1 DEF IInv, TypeOK, cur
  <2> QED BY <1>1, <1>2, <2>1, <2>2 DEF BytesAccounted
<1>7. Replied' /\ Mapping'
  BY <1>1 DEF IInv, Replied, Mapping, PushByte
<1> QED BY <1>2, <1>4, <1>5, <1>6, <1>7 DEF IInv

LEMMA FlushKeeps ==
  ASSUME IInv, FlushAndReply
  PROVE  IInv'
<1> USE SizeAssumption DEF FlushAndReply, reqVars, dumpVars
<1>1. dpc = "flush" /\ dpc' = "idle" /\ emit_col' = 0
  OBVIOUS
<1>2. /\ Chars \in Nat /\ Chars <= DUMP_LINE /\ cur \in Nat
      /\ emit_mode = "hex" => Chars <= DUMP_LINE \div 2
      /\ Chars = 0 <=> emit_col = 0
  BY CharsFact DEF IInv
<1>3. /\ emit_left' \in Nat /\ emit_left' <= emit_left
      /\ msgs' = msgs + (emit_left - emit_left') + 1 /\ msgs' \in Nat
      /\ sent' \subseteq Int /\ hdr' \subseteq sent' /\ fakeUsed' \in BOOLEAN
  <2>1. CASE BudgetLeft /\ LineOut /\ msgs' = msgs + 2
    BY <2>1, LineOutFact DEF IInv, TypeOK
  <2>2. CASE NoLineOut /\ msgs' = msgs + 1
    BY <2>2 DEF NoLineOut, IInv, TypeOK
  <2> QED BY <2>1, <2>2 DEF Flushes
<1>4. reply' \in [ok : BOOLEAN, used : Nat \cup {-1}] /\ reply'.ok /\ reply'.used = done
  BY DEF IInv, TypeOK
<1>5. TypeOK'
  <2>1. /\ UNCHANGED <<mmu, slot, start, len, emit_mode, done, n, i, head, eaten>>
        /\ dpc' \in DPC /\ emit_col' \in Nat
    BY <1>1 DEF DPC
  <2> HIDE DEF FlushAndReply
  <2> QED BY <2>1, <1>3, <1>4 DEF IInv, TypeOK
<1>6. LineBufferSafe' /\ Counters' /\ BytesAccounted'
  BY <1>1 DEF LineBufferSafe, Counters, BytesAccounted
<1>7. Messages'
  BY <1>1, <1>3 DEF IInv, TypeOK, Messages, InCommand
<1>8. Mapping'
  BY <1>1 DEF IInv, Mapping
<1>9. Replied'
  <2>1. start .. start + done - 1 = sent \cup eaten \cup Pending
    BY <1>1 DEF IInv, BytesAccounted, cur, Counters, TypeOK
  <2>2. cur = start + done /\ start \in Nat /\ done \in Nat
    BY <1>1 DEF IInv, cur, Counters, TypeOK
  <2>3. CASE Flushes
    <3>1. sent' = sent \cup Pending
      BY <2>3 DEF LineOut
    <3>2. Dropped(0)'
      BY <1>4, <2>1, <2>2, <3>1 DEF Dropped
    <3> QED BY <3>2 DEF Replied
  <2>4. CASE ~Flushes
    <3>1. sent' = sent /\ emit_left' = emit_left
      BY <2>4 DEF NoLineOut
    <3>2. Chars > 0 => emit_left = 0
      BY <1>2, <2>4 DEF Flushes, BudgetLeft, IInv, TypeOK
    <3>3. /\ sent \cap Pending = {} /\ eaten \cap Pending = {}
      BY <1>1 DEF IInv, BytesAccounted
    <3>4. start .. start + done - 1 - Chars = sent \cup eaten
      BY <1>2, <2>1, <2>2, <3>3 DEF Pending
    <3>7. Chars <= done
      <4>1. CASE Chars = 0
        BY <2>2, <4>1
      <4>2. CASE Chars > 0
        <5>1. cur - Chars \in Pending
          BY <1>2, <4>2 DEF Pending
        <5> QED BY <1>2, <2>1, <2>2, <5>1
      <4> QED BY <1>2, <4>1, <4>2
    <3>5. PICK k \in 0 .. DUMP_LINE : k = Chars
      BY <1>2
    <3>6. Dropped(k)'
      BY <1>2, <1>4, <3>1, <3>2, <3>4, <3>5, <3>7 DEF Dropped
    <3> QED BY <3>6 DEF Replied
  <2> QED BY <2>3, <2>4
<1> QED BY <1>5, <1>6, <1>7, <1>8, <1>9 DEF IInv

LEMMA InitInv == DevInit => IInv
<1> SUFFICES ASSUME DevInit PROVE IInv
  OBVIOUS
<1> USE SizeAssumption DEF DevInit
<1>1. NoReply \in [ok : BOOLEAN, used : Nat \cup {-1}] /\ ~NoReply.ok
  BY DEF NoReply
<1>2. TypeOK
  BY <1>1 DEF TypeOK, DPC, Mode
<1>3. LineBufferSafe /\ Counters /\ BytesAccounted /\ Replied /\ Mapping
  BY <1>1 DEF LineBufferSafe, Counters, BytesAccounted, Replied, Mapping
<1>4. Messages
  BY DEF Messages, InCommand
<1> QED BY <1>2, <1>3, <1>4 DEF IInv

LEMMA StepInv == IInv /\ [DevNext]_devVars => IInv'
<1> SUFFICES ASSUME IInv, [DevNext]_devVars PROVE IInv'
  OBVIOUS
<1>1. CASE Command
  BY <1>1, CommandKeeps
<1>2. CASE MapPage
  BY <1>2, MapKeeps
<1>3. CASE CopyChunk
  BY <1>3, CopyKeeps
<1>4. CASE RestorePage
  BY <1>4, RestoreKeeps
<1>5. CASE \E c \in Byte : PushByte(c)
  BY <1>5, PushKeeps
<1>6. CASE \E c \in Byte : PushStops(c)
  BY <1>6, StopKeeps
<1>7. CASE EndChunk
  BY <1>7, EndChunkKeeps
<1>8. CASE FlushAndReply
  BY <1>8, FlushKeeps
<1>9. CASE LkRestart
  BY <1>9, RestartKeeps
<1>10. CASE UNCHANGED devVars
  <2> USE <1>10 DEF devVars, reqVars, dumpVars, emitVars, IInv
  <2>1. TypeOK' /\ LineBufferSafe' /\ Counters' /\ Messages'
    BY DEF TypeOK, LineBufferSafe, Counters, Messages, InCommand
  <2>2. BytesAccounted' /\ Replied'
    BY DEF BytesAccounted, Replied, Dropped, Pending, Chars, cur
  <2>3. Mapping'
    BY DEF Mapping, ChunkPage, HasSlot
  <2> QED BY <2>1, <2>2, <2>3
<1> QED BY <1>1, <1>2, <1>3, <1>4, <1>5, <1>6, <1>7, <1>8, <1>9, <1>10
        DEF DevNext, DevStep

\* The inductive invariant holds of every behaviour of the device.
THEOREM DeviceInvariant == DevSpec => []IInv
  BY InitInv, StepInv, PTL DEF DevSpec

\* The device's state is well typed (board-selene.c 239-274).
THEOREM DumpTypes == DevSpec => []TypeOK
<1>1. IInv => TypeOK
  BY DEF IInv
<1> QED BY <1>1, DeviceInvariant, PTL

\* No sequence of bytes, newlines and exhausted budgets makes emit_push store,
\* or emit_line_out terminate, behind emit_line (board-selene.c 271-320).
THEOREM DumpLineBuffer == DevSpec => []LineBufferSafe
<1>1. IInv => LineBufferSafe
  BY DEF IInv
<1> QED BY <1>1, DeviceInvariant, PTL

\* Every byte dump_region counts is sent, waits in the line, or is a newline.
THEOREM DumpAccounts == DevSpec => []BytesAccounted
<1>1. IInv => BytesAccounted
  BY DEF IInv
<1> QED BY <1>1, DeviceInvariant, PTL

\* What a command reports and did not send is one line at most, and only
\* when its line budget is spent (emit_flush drops that line).
THEOREM DumpLoss == DevSpec => []LossIsOneLine
<1>1. IInv => LossIsOneLine
  <2> SUFFICES ASSUME IInv, dpc = "idle", reply.ok
               PROVE  /\ Lost # {} => emit_left = 0
                      /\ Lost = {} \/ \E k \in 1 .. DUMP_LINE :
                            Lost = start + reply.used - k .. start + reply.used - 1
                      /\ emit_mode = "hex" =>
                           \A a \in Lost : a >= start + reply.used - DUMP_LINE \div 2
    BY DEF LossIsOneLine
  <2>1. start \in Nat /\ reply.used \in Int /\ DUMP_LINE \in Nat
    BY SizeAssumption DEF IInv, TypeOK
  <2>2. PICK k \in 0 .. DUMP_LINE : Dropped(k)
    BY DEF IInv, Replied
  <2>3. Lost = start + reply.used - k .. start + reply.used - 1
    BY <2>1, <2>2 DEF Dropped, Lost
  <2>4. k = 0 => Lost = {}
    BY <2>1, <2>3
  <2>5. k # 0 => k \in 1 .. DUMP_LINE /\ emit_left = 0
    BY <2>1, <2>2 DEF Dropped
  <2>6. emit_mode = "hex" => \A a \in Lost : a >= start + reply.used - DUMP_LINE \div 2
    BY <2>1, <2>2, <2>3 DEF Dropped
  <2> QED BY <2>3, <2>4, <2>5, <2>6
<1> QED BY <1>1, DeviceInvariant, PTL

\* 64 data lines, four header lines and one trailer: no command sends more
\* INFO messages than the channel carries.
THEOREM DumpBudget == DevSpec => []InfoBudget
<1>1. IInv => InfoBudget
  BY ChannelAssumption, SizeAssumption DEF IInv, Messages, TypeOK, InfoBudget
<1> QED BY <1>1, DeviceInvariant, PTL

\* No temporary mapping outlives the copy it was opened for.
THEOREM DumpMappingClosed == DevSpec => []MappingClosed
<1>1. IInv => MappingClosed
  BY DEF IInv, Mapping, MappingClosed
<1> QED BY <1>1, DeviceInvariant, PTL

(***************************************************************************)
(* Which memory a command reads.  The request lies in one whitelisted      *)
(* window without wrapping, a chunk stays inside its page, and that page   *)
(* is mapped while it is read if it can be mapped at all.                  *)
(***************************************************************************)
Request ==
  dpc # "idle" =>
    /\ start + len < WORD
    /\ \E w \in Allowed : w[1] <= start /\ start + len <= w[2]

ChunkInPage ==
  /\ dpc \in {"copy", "restore", "push", "dead"} =>
       n <= ToPageEnd(start + done) /\ done + n <= len
  /\ dpc \in {"copy", "dead"} /\ HasSlot(ChunkPage) => slot[ChunkPage] = "temp"

AccessInv == Request /\ ChunkInPage /\ AbortsOnlyUnreachable

LEMMA DivMod ==
  ASSUME NEW P \in Nat \ {0}, NEW b \in Nat
  PROVE  /\ b \div P \in Nat /\ b % P \in 0 .. P - 1
         /\ P * (b \div P) \in Nat /\ b = P * (b \div P) + (b % P)
<1>1. b \div P \in Nat /\ b % P \in 0 .. P - 1 /\ b = P * (b \div P) + (b % P)
  OBVIOUS
<1>2. \A k \in Nat : P * k \in Nat
  OBVIOUS
<1> QED BY <1>1, <1>2

LEMMA DivUnique ==
  ASSUME NEW P \in Nat \ {0}, NEW a \in Nat, NEW q \in Nat,
         P * q <= a, a < P * q + P
  PROVE  a \div P = q
<1> DEFINE r == a \div P
<1>1. r \in Nat /\ P * r <= a /\ a < P * r + P
  BY DivMod
<1>2. CASE r < q
  <2>1. PICK k \in Nat : q = r + 1 + k
    <3>1. q - r - 1 \in Nat /\ q = r + 1 + (q - r - 1)
      BY <1>1, <1>2
    <3> QED BY <3>1
  <2>2. P * q = P * r + P + P * k /\ P * k >= 0
    BY <1>1, <2>1
  <2> QED BY <1>1, <2>2
<1>3. CASE q < r
  <2>1. PICK k \in Nat : r = q + 1 + k
    <3>1. r - q - 1 \in Nat /\ r = q + 1 + (r - q - 1)
      BY <1>1, <1>3
    <3> QED BY <3>1
  <2>2. P * r = P * q + P + P * k /\ P * k >= 0
    BY <1>1, <2>1
  <2> QED BY <1>1, <2>2
<1> QED BY <1>1, <1>2, <1>3

\* Every address from b to the end of b's page lies in b's page.
LEMMA SamePage ==
  ASSUME NEW b \in Nat, NEW a \in b .. b + ToPageEnd(b) - 1
  PROVE  PageOf(a) = PageOf(b)
<1> DEFINE q == b \div PAGE
<1>1. /\ q \in Nat /\ b % PAGE \in 0 .. PAGE - 1
      /\ PAGE * q \in Nat /\ b = PAGE * q + (b % PAGE)
  BY DivMod, SizeAssumption
<1>2. a \in Nat /\ PAGE * q <= a /\ a < PAGE * q + PAGE
  <2> HIDE DEF q
  <2> QED BY <1>1, SizeAssumption DEF ToPageEnd
<1>3. a \div PAGE = q
  BY <1>1, <1>2, DivUnique, SizeAssumption
<1> QED BY <1>3 DEF PageOf

LEMMA PageRange ==
  ASSUME NEW b \in 0 .. WORD - 1
  PROVE  PageOf(b) \in Page
<1> DEFINE q == b \div PAGE
           Q == (WORD - 1) \div PAGE
<1>1. PAGE \in Nat \ {0} /\ WORD - 1 \in Nat /\ b \in Nat /\ b <= WORD - 1
  BY SizeAssumption
<1>2. q \in Nat /\ PAGE * q \in Nat /\ PAGE * q <= b
  <2>1. b % PAGE \in Nat /\ PAGE * q \in Nat /\ q \in Nat /\ b = PAGE * q + (b % PAGE)
    BY <1>1, DivMod
  <2> HIDE DEF q
  <2> QED BY <1>1, <2>1
<1>3. Q \in Nat /\ PAGE * Q \in Nat /\ WORD - 1 < PAGE * Q + PAGE
  <2> DEFINE m == (WORD - 1) % PAGE
  <2>1. m \in 0 .. PAGE - 1 /\ PAGE * Q \in Nat /\ Q \in Nat /\ WORD - 1 = PAGE * Q + m
    BY <1>1, DivMod
  <2> HIDE DEF Q, m
  <2> QED BY <1>1, <2>1
<1>4. CASE Q < q
  <2>1. PICK k \in Nat : q = Q + 1 + k
    <3>1. q - Q - 1 \in Nat /\ q = Q + 1 + (q - Q - 1)
      BY <1>2, <1>3, <1>4
    <3> QED BY <3>1
  <2>2. PAGE * q = PAGE * Q + PAGE + PAGE * k /\ PAGE * k >= 0
    BY <1>1, <1>2, <1>3, <2>1
  <2> HIDE DEF q, Q
  <2> QED BY <1>1, <1>2, <1>3, <2>2
<1> QED BY <1>2, <1>3, <1>4 DEF PageOf, Page

\* mem_allowed: the 32-bit end of the request did not wrap.
LEMMA AllowedFact ==
  ASSUME NEW a \in 0 .. WORD - 1, NEW l \in Nat, mem_allowed(a, l)
  PROVE  /\ a + l < WORD
         /\ \E w \in Allowed : w[1] <= a /\ a + l <= w[2]
<1> DEFINE e == (a + l) % WORD
<1>1. WORD \in Nat \ {0} /\ l < WORD /\ e >= a
  BY SizeAssumption, AddressAssumption DEF mem_allowed
<1>2. a + l < WORD
  <2> SUFFICES ASSUME a + l >= WORD PROVE FALSE
    BY <1>1
  <2>1. (a + l - WORD) \in 0 .. WORD - 1 /\ a + l = WORD + (a + l - WORD)
    BY <1>1
  <2>2. e = a + l - WORD
    BY <1>1, <2>1
  <2> QED BY <1>1, <2>2
<1>3. e = a + l
  BY <1>1, <1>2
<1> QED BY <1>2, <1>3 DEF mem_allowed

LEMMA BeginAccess ==
  ASSUME IInv, NEW a \in 0 .. WORD - 1, NEW l \in Nat, NEW m \in Mode, NEW h \in 0 .. 4,
         mem_allowed(a, l), Begin(a, l, m, h)
  PROVE  AccessInv'
<1>1. Request'
  BY AllowedFact DEF Begin, Request
<1>2. ChunkInPage' /\ AbortsOnlyUnreachable'
  BY DEF Begin, ChunkInPage, AbortsOnlyUnreachable
<1> QED BY <1>1, <1>2 DEF AccessInv

LEMMA CommandAccess ==
  ASSUME IInv, AccessInv, Command
  PROVE  AccessInv'
<1> USE SizeAssumption
<1>1. ASSUME NEW off \in Offsets, NEW l \in Lens, NEW m \in Mode, DumpWindow(off, l, m)
      PROVE  AccessInv'
  <2>0. off < Total /\ off \in Nat /\ l \in Nat /\ Base \in Nat /\ Total \in Nat /\ WORD \in Nat
    BY <1>1 DEF DumpWindow
  <2>1. off < Total /\ Base + off \in 0 .. WORD - 1 /\ off \in Nat /\ l \in Nat
    BY <2>0, AddressAssumption
  <2>2. WindowLen(off, l) \in Nat
    BY <2>1, WindowFact
  <2> QED BY <1>1, <2>1, <2>2, BeginAccess DEF DumpWindow
<1>2. ASSUME NEW a \in Addrs, NEW l \in Lens, NEW m \in Mode, Rdmem(a, l, m)
      PROVE  AccessInv'
  <2>1. a \in 0 .. WORD - 1 /\ Lesser(l, DUMP_ONESHOT) \in Nat
    BY LesserFact
  <2> QED BY <1>2, <2>1, BeginAccess DEF Rdmem
<1>3. CASE Refuse
  BY <1>3 DEF Refuse, AccessInv, Request, ChunkInPage, AbortsOnlyUnreachable, reqVars,
              dumpVars, HasSlot, ChunkPage
<1> QED BY <1>1, <1>2, <1>3 DEF Command, DumpWindowRefused, RdmemRefused

\* mmu_map_page: the chunk ends with its page, and the page has its slot written.
LEMMA MapAccess ==
  ASSUME IInv, AccessInv, MapPage
  PROVE  AccessInv'
<1> USE DEF IInv, AccessInv, MapPage, reqVars
<1>1. Request' /\ AbortsOnlyUnreachable'
  BY DEF Request, AbortsOnlyUnreachable
<1>2. start + done \in Nat /\ len - done \in Nat /\ start + done < WORD
  <2>1. start \in Nat /\ len \in Nat /\ done \in Nat /\ done < len /\ start + len < WORD
    BY DEF TypeOK, Counters, Request
  <2> QED BY <2>1, SizeAssumption
<1>3. n' <= ToPageEnd(start + done) /\ n' <= len - done /\ n' \in Int
  <2>1. ToPageEnd(start + done) \in Nat /\ DUMP_CHUNK \in Nat
    BY <1>2, ChunkFact, SizeAssumption
  <2>2. /\ Lesser(len - done, DUMP_CHUNK) \in Int
        /\ Lesser(len - done, DUMP_CHUNK) <= len - done
    BY <1>2, <2>1, LesserFact
  <2> QED BY <1>2, <2>1, <2>2, LesserFact
<1>4. ChunkPage \in Page /\ ChunkPage' = ChunkPage
  BY <1>2, PageRange, SizeAssumption DEF ChunkPage
<1>5. ChunkInPage'
  <2>1. n' <= ToPageEnd(start + done)' /\ (done + n <= len)'
    BY <1>2, <1>3 DEF ToPageEnd, TypeOK
  <2>2. HasSlot(ChunkPage)' => (slot[ChunkPage])' = "temp"
    BY <1>4 DEF HasSlot, TypeOK
  <2> QED BY <2>1, <2>2 DEF ChunkInPage
<1> QED BY <1>1, <1>5

\* The copy aborts only where the page could not be mapped.
LEMMA CopyAccess ==
  ASSUME IInv, AccessInv, CopyChunk
  PROVE  AccessInv'
<1> USE DEF IInv, AccessInv, CopyChunk, reqVars, dumpVars
<1>1. Request'
  BY DEF Request
<1>2. ChunkInPage'
  BY DEF ChunkInPage, HasSlot, ChunkPage, ToPageEnd
<1>3. CASE dpc' = "dead"
  <2>1. PICK a \in start + done .. start + done + n - 1 : ~Readable(PageOf(a))
    BY <1>3
  <2>2. /\ start + done \in Nat /\ n \in Nat /\ n <= ToPageEnd(start + done)
        /\ ToPageEnd(start + done) \in Nat /\ start + len < WORD /\ done + n <= len
        /\ start \in Nat /\ done \in Nat /\ len \in Nat
    BY ChunkFact DEF TypeOK, ChunkInPage, Request
  <2>3. a \in start + done .. start + done + ToPageEnd(start + done) - 1 /\ a \in 0 .. WORD - 1
    BY <2>2, SizeAssumption
  <2>4. PageOf(a) = ChunkPage /\ PageOf(a) \in Page
    BY <2>2, <2>3, SamePage, PageRange DEF ChunkPage
  <2>5. Unreachable(PageOf(a))
    <3>1. CASE PageOf(a) \in Protected
      BY <3>1 DEF Unreachable
    <3>2. CASE PageOf(a) \notin Protected
      <4>1. mmu # "off" /\ slot[PageOf(a)] # "temp" /\ Reach[PageOf(a)] \notin {"l3page", "block"}
        BY <2>1, <3>2 DEF Readable
      <4>2. Reach[PageOf(a)] \in {"hole", "l3hole"}
        BY <2>4, <4>1, ReachAssumption
      <4>3. ~HasSlot(PageOf(a))
        BY <2>4, <4>1 DEF ChunkInPage
      <4> QED BY <4>1, <4>2, <4>3 DEF Unreachable
    <3> QED BY <3>1, <3>2
  <2>6. Unreachable(PageOf(a))' /\ a \in (start + done .. start + done + n - 1)'
    BY <2>1, <2>5 DEF Unreachable, HasSlot, PageOf
  <2>7. AbortsOnlyUnreachable'
    BY <2>6 DEF AbortsOnlyUnreachable
  <2> QED BY <1>1, <1>2, <2>7
<1>4. CASE dpc' = "restore"
  BY <1>1, <1>2, <1>4 DEF AbortsOnlyUnreachable
<1> QED BY <1>3, <1>4

LEMMA StepAccess == IInv /\ AccessInv /\ [DevNext]_devVars => AccessInv'
<1> SUFFICES ASSUME IInv, AccessInv, [DevNext]_devVars PROVE AccessInv'
  OBVIOUS
<1> USE DEF AccessInv
<1>1. CASE Command
  BY <1>1, CommandAccess
<1>2. CASE MapPage
  BY <1>2, MapAccess
<1>3. CASE CopyChunk
  BY <1>3, CopyAccess
<1>4. CASE RestorePage
  BY <1>4 DEF RestorePage, Request, ChunkInPage, AbortsOnlyUnreachable, reqVars, dumpVars, ToPageEnd
<1>5. CASE \E c \in Byte : PushByte(c)
  BY <1>5 DEF PushByte, Request, ChunkInPage, AbortsOnlyUnreachable, reqVars, ToPageEnd
<1>6. CASE \E c \in Byte : PushStops(c)
  BY <1>6 DEF PushStops, Request, ChunkInPage, AbortsOnlyUnreachable, reqVars
<1>7. CASE EndChunk
  BY <1>7 DEF EndChunk, Request, ChunkInPage, AbortsOnlyUnreachable, reqVars
<1>8. CASE FlushAndReply
  BY <1>8 DEF FlushAndReply, Request, ChunkInPage, AbortsOnlyUnreachable
<1>9. CASE LkRestart
  BY <1>9 DEF LkRestart, Request, ChunkInPage, AbortsOnlyUnreachable
<1>10. CASE UNCHANGED devVars
  BY <1>10 DEF devVars, reqVars, dumpVars, Request, ChunkInPage, AbortsOnlyUnreachable,
               Unreachable, ToPageEnd, HasSlot, ChunkPage, PageOf
<1> QED BY <1>1, <1>2, <1>3, <1>4, <1>5, <1>6, <1>7, <1>8, <1>9, <1>10
        DEF DevNext, DevStep

LEMMA AccessInvariant == DevSpec => [](IInv /\ AccessInv)
<1>1. DevInit => AccessInv
  BY DEF DevInit, AccessInv, Request, ChunkInPage, AbortsOnlyUnreachable
<1> QED BY <1>1, InitInv, StepInv, StepAccess, PTL DEF DevSpec

\* Every byte a command touches, up to the end of its chunk, lies inside one
\* window of mem_allowed (board-selene.c 250-262).
THEOREM DumpReadsAllowed == DevSpec => []ReadsAllowedOnly
<1>1. IInv /\ AccessInv => ReadsAllowedOnly
  <2> SUFFICES ASSUME IInv, AccessInv, dpc \in {"copy", "restore", "push"}
               PROVE  \E w \in Allowed : w[1] <= start /\ start + done + n <= w[2]
    BY DEF ReadsAllowedOnly
  <2>1. PICK w \in Allowed : w[1] <= start /\ start + len <= w[2]
    BY DEF AccessInv, Request
  <2>2. w[2] \in Nat /\ start \in Nat /\ done \in Nat /\ n \in Nat /\ len \in Nat /\ done + n <= len
    BY AddressAssumption DEF IInv, TypeOK, Counters
  <2> QED BY <2>1, <2>2
<1> QED BY <1>1, AccessInvariant, PTL

\* A copy that takes LK down read a page that the hardware protects, or one that
\* the boot page table does not map and that has no L3 slot: never a page that the
\* dumper could have made readable (board-selene.c 247-249, 335-350).
THEOREM DumpAborts == DevSpec => []AbortsOnlyUnreachable
<1>1. AccessInv => AbortsOnlyUnreachable
  BY DEF AccessInv
<1> QED BY <1>1, AccessInvariant, PTL

(***************************************************************************)
(* What a host script may rely on, whichever commands it sends: the facts  *)
(* about the device that LkCollect and LkFbdump build on.                  *)
(***************************************************************************)
\* Hex digits never look like one of LK's own lines and never end one.
PlainHex == emit_mode = "hex" => head = "chr" /\ eaten = {} /\ hdr = {} /\ ~fakeUsed

\* No command reports more than it was asked for.
Within ==
  /\ dpc = "flush" => done <= len
  /\ dpc = "idle" /\ reply.ok => reply.used <= len

DevInv == IInv /\ PlainHex /\ Within

\* While a command runs it keeps its request; it is answered when it ends.
LEMMA DevStepFrame ==
  ASSUME DevStep
  PROVE  /\ start' = start /\ len' = len /\ emit_mode' = emit_mode
         /\ dpc # "idle" /\ dpc # "dead"
         /\ dpc' = "idle" => dpc = "flush" /\ reply' = [ok |-> TRUE, used |-> done]
         /\ dpc' # "idle" => reply' = reply
BY DEF DevStep, MapPage, CopyChunk, RestorePage, PushByte, PushStops, EndChunk,
       FlushAndReply, reqVars

LEMMA BeginDev ==
  ASSUME DevInv, NEW a \in Nat, NEW l \in Nat \ {0}, NEW m \in Mode, NEW h \in 0 .. 4,
         dpc = "idle", Begin(a, l, m, h)
  PROVE  DevInv'
<1>1. IInv'
  BY BeginKeeps DEF DevInv
<1>2. PlainHex' /\ Within'
  BY DEF Begin, PlainHex, Within, NoReply
<1> QED BY <1>1, <1>2 DEF DevInv

\* The region and the line are numbers.
LEMMA RegionTypes == Base \in Nat /\ Total \in Nat /\ DUMP_LINE \in Nat \ {0}
BY SizeAssumption

\* A log-region command with any offset and length.
LEMMA WindowDev ==
  ASSUME DevInv, NEW off \in Nat, NEW l \in Nat, NEW m \in Mode, DumpWindow(off, l, m)
  PROVE  DevInv'
<1>1. WindowLen(off, l) \in Nat \ {0} /\ Base + off \in Nat
  BY WindowFact, SizeAssumption DEF DumpWindow
<1> QED BY <1>1, BeginDev DEF DumpWindow

\* An rdmem command with any address and length.
LEMMA RdmemDev ==
  ASSUME DevInv, NEW a \in Nat, NEW l \in Nat, NEW m \in Mode, Rdmem(a, l, m)
  PROVE  DevInv'
<1>1. Lesser(l, DUMP_ONESHOT) \in Nat \ {0}
  BY LesserFact, SizeAssumption DEF Rdmem, mem_allowed
<1> QED BY <1>1, BeginDev DEF Rdmem

LEMMA RefuseDev ==
  ASSUME DevInv, Refuse
  PROVE  DevInv'
<1>1. IInv'
  BY RefuseKeeps DEF DevInv
<1>2. PlainHex' /\ Within'
  BY DEF DevInv, Refuse, PlainHex, Within, reqVars, emitVars
<1> QED BY <1>1, <1>2 DEF DevInv

LEMMA StepDev ==
  ASSUME DevInv, DevStep
  PROVE  DevInv'
<1>1. IInv'
  BY StepInv DEF DevInv, DevNext
<1>2. Within'
  <2>1. CASE FlushAndReply
    BY <2>1 DEF DevInv, Within, FlushAndReply, reqVars
  <2>2. CASE EndChunk
    BY <2>2 DEF DevInv, IInv, Within, EndChunk, reqVars, Counters, TypeOK
  <2>3. CASE \E c \in Byte : PushStops(c)
    BY <2>3 DEF DevInv, IInv, Within, PushStops, reqVars, Counters, TypeOK
  <2>4. CASE dpc' \in {"copy", "restore", "dead", "push"}
    BY <2>4 DEF Within
  <2> QED BY <2>1, <2>2, <2>3, <2>4
          DEF DevStep, MapPage, CopyChunk, RestorePage, PushByte
<1>3. PlainHex'
  <2>1. CASE FlushAndReply
    BY <2>1 DEF DevInv, PlainHex, FlushAndReply, reqVars, LineOut, NoLineOut
  <2>2. CASE \E c \in Byte : PushByte(c)
    BY <2>2 DEF DevInv, PlainHex, PushByte, StoreByte, reqVars, LineOut, NoLineOut
  <2>3. CASE UNCHANGED <<emitVars, emit_mode>>
    BY <2>3 DEF DevInv, PlainHex, emitVars
  <2> QED BY <2>1, <2>2, <2>3
          DEF DevStep, MapPage, CopyChunk, RestorePage, EndChunk, PushStops, reqVars
<1> QED BY <1>1, <1>2, <1>3 DEF DevInv

LEMMA StutterDev ==
  ASSUME DevInv, UNCHANGED devVars
  PROVE  DevInv'
<1>1. IInv'
  BY StepInv DEF DevInv
<1>2. PlainHex' /\ Within'
  BY DEF DevInv, PlainHex, Within, devVars, reqVars, dumpVars, emitVars
<1> QED BY <1>1, <1>2 DEF DevInv

LEMMA InitDev == DevInit => DevInv
<1>1. DevInit => PlainHex /\ Within
  BY DEF DevInit, PlainHex, Within, NoReply
<1> QED BY <1>1, InitInv DEF DevInv

\* The bytes that were sent lie in the request, before the ones not counted.
LEMMA SentFact ==
  ASSUME DevInv, dpc = "idle", reply.ok
  PROVE  /\ reply.used \in Nat /\ reply.used <= len
         /\ sent \subseteq start .. start + reply.used - 1
<1>1. PICK k \in 0 .. DUMP_LINE : Dropped(k)
  BY DEF DevInv, IInv, Replied
<1>2. start \in Nat /\ reply.used \in Int /\ k \in Nat /\ k <= reply.used
  BY <1>1, SizeAssumption DEF DevInv, IInv, TypeOK, Dropped
<1>3. sent \subseteq start .. start + reply.used - 1 - k
  BY <1>1 DEF Dropped
<1> QED BY <1>2, <1>3 DEF DevInv, Within
=============================================================================
