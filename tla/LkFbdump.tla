------------------------------ MODULE LkFbdump ------------------------------
(***************************************************************************)
(* The other host script, src/tools/flash-session/07-fbdump.sh, composed   *)
(* with the device (LkDump): it fetches a range with `oem rdmem` in text   *)
(* mode, one CHUNK after the other, without reading `used`.                *)
(***************************************************************************)
EXTENDS LkDump

CONSTANTS
  CHUNK,          \* bytes asked for per command (0x1000)
  From, To        \* the range on the command line

ASSUME RangeAssumption ==
  CHUNK \in Nat \ {0} /\ From \in Nat /\ To \in Nat /\ From < To

VARIABLES
  hpc,            \* "send", "wait" or "done"
  addr,           \* next address to ask for
  fail,           \* commands in a row that failed
  done_b,         \* bytes the script reports as read
  failed,         \* bytes of the chunks that failed
  out             \* addresses whose bytes reached the output file

hostVars == <<hpc, addr, fail, done_b, failed, out>>
vars == <<devVars, hostVars>>

Init ==
  /\ DevInit
  /\ hpc = "send" /\ addr = From /\ fail = 0 /\ done_b = 0 /\ failed = 0 /\ out = {}

\* n in the script.
MutWholeChunk == CHUNK               \* mutant: the last chunk is not clipped
ChunkLen == Lesser(CHUNK, To - addr)

MutFailStays(ok) == IF ok THEN fail ELSE fail + 1    \* mutant: no reset
FailAfter(ok) == IF ok THEN 0 ELSE fail + 1

\* What the loop does with the chunk it asked for: count it, move behind it.
NextChunk(ok) ==
  /\ addr' = addr + ChunkLen
  /\ fail' = FailAfter(ok)
  /\ done_b' = IF ok THEN done_b + ChunkLen ELSE done_b
  /\ failed' = IF ok THEN failed ELSE failed + ChunkLen
  /\ hpc' = IF fail' >= 3 \/ addr' >= To THEN "done" ELSE "send"

SendRdmem ==
  /\ hpc = "send"
  /\ Rdmem(addr, ChunkLen, "text")
  /\ hpc' = "wait"
  /\ UNCHANGED <<addr, fail, done_b, failed, out>>

\* LK refuses the address; fastboot exits with an error.
RdmemFails ==
  /\ hpc = "send"
  /\ RdmemRefused(addr, ChunkLen)
  /\ NextChunk(FALSE)
  /\ UNCHANGED out

\* LK went down, or `timeout 60` ended the wait; a later command finds the
\* device gone or still busy and fails as well.
NoAnswer ==
  /\ \/ hpc = "wait" /\ reply = NoReply
     \/ hpc = "send" /\ dpc # "idle"
  /\ NextChunk(FALSE)
  /\ UNCHANGED <<devVars, out>>

Answer ==
  /\ hpc = "wait" /\ dpc = "idle" /\ reply.ok
  /\ out' = out \cup sent
  /\ NextChunk(TRUE)
  /\ UNCHANGED devVars

Next ==
  \/ SendRdmem
  \/ RdmemFails
  \/ NoAnswer
  \/ Answer
  \/ DevStep /\ UNCHANGED hostVars

Spec == Init /\ [][Next]_vars

(***************************************************************************)
(* Properties                                                              *)
(***************************************************************************)
\* Types, and every byte of the range behind the cursor counted once, as read
\* or as failed.
HostTypeOK ==
  /\ TypeOK
  /\ hpc \in {"send", "wait", "done"}
  /\ fail \in 0 .. 3 /\ {addr, done_b, failed} \subseteq Nat
  /\ addr - From = done_b + failed
  /\ out \subseteq From .. To - 1

\* The script gives up before the end of the range only after three commands in
\* a row that failed: the last three chunks it asked for brought nothing.
GivesUpOnlyAfterThree ==
  hpc = "done" /\ addr < To =>
    /\ fail = 3
    /\ \A a \in out : a < addr - 3 * CHUNK

\* What 07-fbdump.sh says of its chunk size: a 4 KB chunk stays below the limit
\* on INFO messages, so an answer covers the whole chunk.
ChunkFitsAnswer == [][Answer => reply.used = ChunkLen]_vars
=============================================================================
