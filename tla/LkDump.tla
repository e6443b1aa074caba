------------------------------- MODULE LkDump -------------------------------
(***************************************************************************)
(* The log readers that the LK payload adds to fastboot (`oem ramoops`,    *)
(* `oem rrlog`, `oem sram` and `oem rdmem`): src/lk/board-selene.c.        *)
(*                                                                         *)
(* A command copies memory in chunks that stay inside one page, opens a    *)
(* temporary LPAE mapping around each copy, and pushes the bytes into a    *)
(* line emitter that may send at most DUMP_LINES_MAX INFO lines.  One      *)
(* action is one call of the code that another call's effect depends on:   *)
(* mapping, copying, restoring, pushing one byte, flushing.                *)
(*                                                                         *)
(* Memory contents are chosen when a byte is pushed, by what the emitter   *)
(* and its reader tell apart: a newline, an ordinary byte, or a byte that  *)
(* starts a line the host's filter would take for one of LK's own header   *)
(* lines ("tag") or for LK's trailer ("used").                             *)
(***************************************************************************)
EXTENDS Integers, FiniteSets

CONSTANTS
  WORD,             \* number of addresses: uint32_t arithmetic is modulo WORD
  PAGE,             \* bytes of a page (0x1000)
  DUMP_CHUNK,       \* bytes copied under one mapping (2048)
  DUMP_LINE,        \* characters of an INFO line (56)
  DUMP_LINES_MAX,   \* INFO lines one command may spend on data (64)
  DUMP_ONESHOT,     \* most bytes one command reads (0x1000)
  DUMP_MAXLEN,      \* most bytes mem_allowed accepts (0x10000)
  INFO_MAX,         \* INFO messages after which the channel breaks (~76)
  Allowed,          \* the <<low, high>> address windows of mem_allowed
  Base, Total,      \* the region a window command reads
  Offsets, Addrs, Lens,     \* arguments the operator types
  Reach,            \* Reach[p]: how the boot page table covers page p
  Protected         \* pages that the TEE or an EMI MPU keeps for itself

Page == 0 .. (WORD - 1) \div PAGE
Mmu  == {"off", "short", "lpae"}

ASSUME SizeAssumption ==
  /\ {WORD, PAGE, DUMP_CHUNK, DUMP_LINES_MAX, DUMP_ONESHOT} \subseteq Nat \ {0}
  /\ DUMP_LINE \in Nat \ {0} /\ DUMP_LINE % 2 = 0
  /\ {DUMP_MAXLEN, INFO_MAX, Base, Total} \subseteq Nat
  /\ DUMP_ONESHOT <= DUMP_MAXLEN
  /\ Offsets \subseteq Nat /\ Addrs \subseteq 0 .. WORD - 1 /\ Lens \subseteq Nat

\* 64 data lines, four header lines and the trailer fit the channel.
ASSUME ChannelAssumption == DUMP_LINES_MAX + 5 <= INFO_MAX

\* The windows and the region are ranges of the 32-bit address space, which is
\* longer than the longest read: mem_allowed can then see every overflow.
ASSUME AddressAssumption ==
  /\ Allowed \subseteq Nat \X Nat
  /\ DUMP_MAXLEN < WORD
  /\ Base + Total <= WORD

ASSUME ReachAssumption ==
  /\ Reach \in [Page -> {"l3page", "l3hole", "block", "hole"}]
  /\ Protected \subseteq Page

VARIABLES
  mmu,        \* SCTLR.M and TTBCR.EAE as the boot ROM and LK left them
  slot,       \* slot[p]: the L3 descriptor of page p, "own" or "temp"
  dpc,        \* where the command handler is
  start, len, emit_mode,    \* the accepted request
  done, n, i, \* dump_region's counters
  emit_col, emit_left,      \* the emitter
  head,       \* kind of the first byte of the line being built
  sent,       \* addresses whose bytes went out in an INFO line
  eaten,      \* addresses of newlines, which end lines instead of being sent
  hdr,        \* sent addresses in a line that looks like one of LK's headers
  fakeUsed,   \* a data line that looks like LK's trailer went out
  msgs,       \* INFO messages of this command
  reply       \* what the host has of the last command

emitVars == <<emit_col, emit_left, head, sent, eaten, hdr, fakeUsed, msgs>>
reqVars  == <<start, len, emit_mode>>
dumpVars == <<done, n, i>>
devVars  == <<mmu, slot, dpc, reqVars, dumpVars, emitVars, reply>>

DPC    == {"idle", "map", "copy", "restore", "push", "flush", "dead"}
Mode   == {"text", "hex"}
Byte   == {"nl", "chr", "tag", "used"}
NoReply == [ok |-> FALSE, used |-> -1]

(***************************************************************************)
(* Helpers                                                                 *)
(***************************************************************************)
Lesser(a, b) == IF a <= b THEN a ELSE b

PageOf(a) == a \div PAGE

\* Mutant: the overflow test is forgotten.
MutNoOverflowTest(addr, l) ==
  /\ l # 0 /\ l <= DUMP_MAXLEN
  /\ \E w \in Allowed : addr >= w[1] /\ (addr + l) % WORD <= w[2]

\* mem_allowed: the whitelist check, with its 32-bit overflow test.
mem_allowed(addr, l) ==
  LET end == (addr + l) % WORD
  IN /\ l # 0 /\ l <= DUMP_MAXLEN
     /\ end >= addr
     /\ \E w \in Allowed : addr >= w[1] /\ end <= w[2]

\* mmu_l3_slot: the page has a writable L3 slot.
HasSlot(p) == mmu = "lpae" /\ Reach[p] \in {"l3page", "l3hole"}

\* A load from page p does not abort.  The whitelist holds protected memory too;
\* the hardware refuses it however it is mapped.
Readable(p) ==
  /\ p \notin Protected
  /\ mmu = "off" \/ slot[p] = "temp" \/ Reach[p] \in {"l3page", "block"}

cur == start + done + i

Chars == IF emit_mode = "hex" THEN emit_col \div 2 ELSE emit_col

\* The bytes that sit in emit_line.
Pending == cur - Chars .. cur - 1

\* The page that holds the next chunk.
MutFirstPage == PageOf(start)      \* mutant: the page of the request's start
ChunkPage == PageOf(start + done)

\* Bytes from address a to the end of its page.
MutToLastByte(a) == PAGE - 1 - (a % PAGE)      \* mutant: one short
ToPageEnd(a) == PAGE - (a % PAGE)

\* emit_line_out may send one more line.
MutNoBudget == TRUE                  \* mutant: no test
BudgetLeft == emit_left > 0

(***************************************************************************)
(* Commands                                                                *)
(***************************************************************************)
Begin(addr, l, mode, headers) ==
  /\ dpc' = "map"
  /\ start' = addr /\ len' = l /\ emit_mode' = mode
  /\ done' = 0 /\ n' = 0 /\ i' = 0
  /\ emit_col' = 0 /\ emit_left' = DUMP_LINES_MAX /\ head' = "chr"
  /\ sent' = {} /\ eaten' = {} /\ hdr' = {} /\ fakeUsed' = FALSE
  /\ msgs' = headers
  /\ reply' = NoReply
  /\ UNCHANGED <<mmu, slot>>

Refuse ==
  /\ dpc = "idle"
  /\ reply' = [ok |-> FALSE, used |-> 0]
  /\ UNCHANGED <<mmu, slot, dpc, reqVars, dumpVars, emitVars>>

\* Mutant: the window is not clipped to the region.
MutUnclipped(off, l) == IF l = 0 THEN DUMP_ONESHOT ELSE Lesser(l, DUMP_ONESHOT)

WindowLen(off, l) ==
  Lesser(IF l = 0 THEN DUMP_ONESHOT ELSE Lesser(l, DUMP_ONESHOT), Total - off)

\* dump_window: one window of a log region, behind four header lines.
DumpWindow(off, l, mode) ==
  /\ dpc = "idle"
  /\ off < Total
  /\ mem_allowed(Base + off, WindowLen(off, l))
  /\ Begin(Base + off, WindowLen(off, l), mode, 4)

DumpWindowRefused(off, l) ==
  /\ \/ off >= Total
     \/ off < Total /\ ~mem_allowed(Base + off, WindowLen(off, l))
  /\ Refuse

\* cmd_rdmem: any allowed memory, with no header line.
Rdmem(addr, l, mode) ==
  /\ dpc = "idle"
  /\ mem_allowed(addr, Lesser(l, DUMP_ONESHOT))
  /\ Begin(addr, Lesser(l, DUMP_ONESHOT), mode, 0)

RdmemRefused(addr, l) ==
  /\ ~mem_allowed(addr, Lesser(l, DUMP_ONESHOT))
  /\ Refuse

(***************************************************************************)
(* dump_region                                                             *)
(***************************************************************************)
\* mmu_map_page of the page that holds the next byte; the chunk stops at the
\* end of that page.
MapPage ==
  /\ dpc = "map"
  /\ n' = Lesser(Lesser(len - done, DUMP_CHUNK), ToPageEnd(start + done))
  /\ i' = 0
  /\ slot' = IF HasSlot(ChunkPage) THEN [slot EXCEPT ![ChunkPage] = "temp"] ELSE slot
  /\ dpc' = "copy"
  /\ UNCHANGED <<mmu, reqVars, done, emitVars, reply>>

\* The copy into dump_buf.  A load from a page that is not readable aborts LK.
CopyChunk ==
  /\ dpc = "copy"
  /\ dpc' = IF \A a \in start + done .. start + done + n - 1 : Readable(PageOf(a))
            THEN "restore" ELSE "dead"
  /\ UNCHANGED <<mmu, slot, reqVars, dumpVars, emitVars, reply>>

\* Mutant: the page stays mapped when the chunk ends at the page's end.
MutForgetRestore ==
  /\ dpc = "restore"
  /\ slot' = IF HasSlot(ChunkPage) /\ n < ToPageEnd(start + done)
             THEN [slot EXCEPT ![ChunkPage] = "own"] ELSE slot
  /\ dpc' = "push"
  /\ UNCHANGED <<mmu, reqVars, dumpVars, emitVars, reply>>

\* mmu_restore_page.
RestorePage ==
  /\ dpc = "restore"
  /\ slot' = IF HasSlot(ChunkPage) THEN [slot EXCEPT ![ChunkPage] = "own"] ELSE slot
  /\ dpc' = "push"
  /\ UNCHANGED <<mmu, reqVars, dumpVars, emitVars, reply>>

(***************************************************************************)
(* The emitter                                                             *)
(***************************************************************************)
\* emit_line_out with a line left in the budget.
LineOut ==
  /\ emit_left' = emit_left - 1
  /\ sent' = sent \cup Pending
  /\ hdr' = IF head \in {"tag", "used"} THEN hdr \cup Pending ELSE hdr
  /\ fakeUsed' = (fakeUsed \/ head = "used")

NoLineOut == UNCHANGED <<emit_left, sent, hdr, fakeUsed>>

\* Mutant: a full hex line is noticed one byte late.
MutLateHexLine(c) ==
  IF emit_mode = "hex" THEN emit_col > DUMP_LINE
  ELSE emit_col > 0 /\ (c = "nl" \/ emit_col = DUMP_LINE)

\* Mutant: a newline does not send the line it ends.
MutNewlineDrops(c) == emit_col >= DUMP_LINE

\* emit_push must end the current line before it can take byte c.
EndsLine(c) ==
  IF emit_mode = "hex" THEN emit_col >= DUMP_LINE
  ELSE emit_col > 0 /\ (c = "nl" \/ emit_col = DUMP_LINE)

\* emit_push puts byte c at column col: two digits, nothing, or one character.
StoreByte(c, col) ==
  IF emit_mode = "hex"
  THEN emit_col' = col + 2 /\ UNCHANGED <<head, eaten>>
  ELSE IF c = "nl"
  THEN emit_col' = 0 /\ eaten' = eaten \cup {cur} /\ UNCHANGED head
  ELSE /\ emit_col' = col + 1
       /\ head' = IF col = 0 THEN c ELSE head
       /\ UNCHANGED eaten

\* emit_push took the byte.
PushByte(c) ==
  /\ dpc = "push" /\ i < n
  /\ emit_mode = "hex" => c = "chr"
  /\ \/ /\ EndsLine(c) /\ BudgetLeft
        /\ LineOut
        /\ StoreByte(c, 0)
        /\ msgs' = msgs + 1
     \/ /\ ~EndsLine(c)
        /\ NoLineOut
        /\ StoreByte(c, emit_col)
        /\ UNCHANGED msgs
  /\ i' = i + 1
  /\ UNCHANGED <<mmu, slot, dpc, reqVars, done, n, reply>>

\* emit_push returned 0: the byte is not consumed and the command ends.
PushStops(c) ==
  /\ dpc = "push" /\ i < n
  /\ emit_mode = "hex" => c = "chr"
  /\ EndsLine(c) /\ ~BudgetLeft
  /\ done' = done + i /\ i' = 0
  /\ dpc' = "flush"
  /\ UNCHANGED <<mmu, slot, reqVars, n, emitVars, reply>>

EndChunk ==
  /\ dpc = "push" /\ i = n
  /\ done' = done + n /\ i' = 0
  /\ dpc' = IF done + n < len THEN "map" ELSE "flush"
  /\ UNCHANGED <<mmu, slot, reqVars, n, emitVars, reply>>

\* emit_flush sends what is left in the line.
MutNoFlush == FALSE                  \* mutant: the last line is dropped
Flushes == emit_col > 0 /\ BudgetLeft

\* emit_flush, then the `used` trailer and the OKAY.
FlushAndReply ==
  /\ dpc = "flush"
  /\ \/ /\ Flushes
        /\ LineOut
        /\ msgs' = msgs + 2
     \/ /\ ~Flushes
        /\ NoLineOut
        /\ msgs' = msgs + 1
  /\ emit_col' = 0
  /\ reply' = [ok |-> TRUE, used |-> done]
  /\ dpc' = "idle"
  /\ UNCHANGED <<mmu, slot, reqVars, dumpVars, head, eaten>>

\* LK went down: the device resets itself, and the operator brings it back to
\* fastboot with a page table that LK built afresh.
LkRestart ==
  /\ dpc = "dead"
  /\ dpc' = "idle"
  /\ slot' = [p \in Page |-> "own"]
  /\ done' = 0 /\ n' = 0 /\ i' = 0
  /\ emit_col' = 0 /\ emit_left' = 0
  /\ reply' = NoReply
  /\ UNCHANGED <<mmu, reqVars, head, sent, eaten, hdr, fakeUsed, msgs>>

(***************************************************************************)
(* The device under an operator who types commands                         *)
(***************************************************************************)
DevInit ==
  /\ mmu \in Mmu
  /\ slot = [p \in Page |-> "own"]
  /\ dpc = "idle"
  /\ start = Base /\ len = 0 /\ emit_mode = "text"
  /\ done = 0 /\ n = 0 /\ i = 0
  /\ emit_col = 0 /\ emit_left = 0 /\ head = "chr"
  /\ sent = {} /\ eaten = {} /\ hdr = {} /\ fakeUsed = FALSE
  /\ msgs = 0
  /\ reply = NoReply

Command ==
  \/ \E off \in Offsets, l \in Lens, m \in Mode : DumpWindow(off, l, m)
  \/ \E off \in Offsets, l \in Lens : DumpWindowRefused(off, l)
  \/ \E a \in Addrs, l \in Lens, m \in Mode : Rdmem(a, l, m)
  \/ \E a \in Addrs, l \in Lens : RdmemRefused(a, l)

DevStep ==
  \/ MapPage
  \/ CopyChunk
  \/ RestorePage
  \/ \E c \in Byte : PushByte(c)
  \/ \E c \in Byte : PushStops(c)
  \/ EndChunk
  \/ FlushAndReply

DevNext == Command \/ DevStep \/ LkRestart

DevSpec == DevInit /\ [][DevNext]_devVars /\ WF_devVars(DevStep)

(***************************************************************************)
(* Properties                                                              *)
(***************************************************************************)
\* Types; the counters stay in range.
TypeOK ==
  /\ mmu \in Mmu
  /\ slot \in [Page -> {"own", "temp"}]
  /\ dpc \in DPC
  /\ start \in Nat /\ len \in Nat /\ emit_mode \in Mode
  /\ done \in Nat /\ n \in Nat /\ i \in Nat
  /\ emit_col \in Nat /\ emit_left \in Nat /\ head \in {"chr", "tag", "used"}
  /\ sent \subseteq Int /\ eaten \subseteq Int /\ hdr \subseteq sent
  /\ fakeUsed \in BOOLEAN
  /\ msgs \in Nat
  /\ reply \in [ok : BOOLEAN, used : Nat \cup {-1}]

\* emit_line holds DUMP_LINE characters and the terminator: no sequence of
\* bytes in either mode writes behind it, and hex digits come in pairs.
LineBufferSafe ==
  /\ emit_col <= DUMP_LINE
  /\ emit_mode = "hex" => emit_col % 2 = 0

\* Every byte dump_region has counted is in exactly one place: on the wire,
\* in the line under construction, or a newline that ended a line.
BytesAccounted ==
  dpc \in {"map", "copy", "restore", "push", "flush"} =>
    /\ start .. cur - 1 = sent \cup eaten \cup Pending
    /\ sent \cap Pending = {} /\ eaten \cap Pending = {} /\ sent \cap eaten = {}

\* What a finished command counted in `used` but never sent.
Lost == (start .. start + reply.used - 1) \ (sent \cup eaten)

\* A command reports a byte it did not send only when it ran out of lines,
\* and then it loses only the line it was building: a tail of the window that
\* is at most one line long.
LossIsOneLine ==
  dpc = "idle" /\ reply.ok =>
    /\ Lost # {} => emit_left = 0
    /\ Lost = {} \/ \E k \in 1 .. DUMP_LINE :
                       Lost = start + reply.used - k .. start + reply.used - 1
    /\ emit_mode = "hex" =>
         \A a \in Lost : a >= start + reply.used - DUMP_LINE \div 2

\* A command never sends more INFO messages than the channel carries.
InfoBudget == msgs <= INFO_MAX

\* The temporary mapping is open only around the copy, so that nothing else
\* (fastboot_info in the first place) runs while it is.
MappingClosed ==
  dpc \notin {"copy", "restore", "dead"} => \A p \in Page : slot[p] = "own"

\* LK aborts only on a page that no mapping could have made readable: one that
\* the hardware protects, or one that the boot table does not map and whose page
\* walk has no L3 slot to write.  Unprotected memory under an L3 table is always
\* mapped when it is read, to the last byte of the chunk.
Unreachable(p) ==
  \/ p \in Protected
  \/ mmu # "off" /\ ~HasSlot(p) /\ Reach[p] \in {"hole", "l3hole"}

AbortsOnlyUnreachable ==
  dpc = "dead" => \E a \in start + done .. start + done + n - 1 : Unreachable(PageOf(a))

\* The bytes a command touches lie inside one whitelisted window.
ReadsAllowedOnly ==
  dpc \in {"copy", "restore", "push"} =>
    \E w \in Allowed : w[1] <= start /\ start + done + n <= w[2]

\* A command that LK accepted ends, by a reply or by LK going down.
CommandEnds == (dpc = "map") ~> (dpc \in {"idle", "dead"})
=============================================================================
