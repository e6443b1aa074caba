----------------------------- MODULE LkCollect -----------------------------
(***************************************************************************)
(* The host side of a region dump, src/tools/flash-session/08-lkdump.sh,   *)
(* composed with the device (LkDump).  The script asks for window after    *)
(* window, keeps the lines that do not look like LK's own header lines,    *)
(* and advances by the first `used=` it finds in the answer.               *)
(***************************************************************************)
EXTENDS LkDump

CONSTANTS
  LONG_MAX,     \* largest number of the shell's arithmetic (2^63 - 1)
  FakeUsed      \* values a data line that starts with `used=0x` may carry

\* The shell's numbers, which hold every address.
Long == -LONG_MAX - 1 .. LONG_MAX

ASSUME FakeAssumption ==
  /\ LONG_MAX \in Nat /\ WORD <= LONG_MAX
  /\ FakeUsed \subseteq Long

VARIABLES
  mode,       \* the script's MODE argument
  hpc,        \* "send", "wait" for the answer, or "done"
  off, size, total, stall,
  out,        \* addresses whose bytes the script wrote to DEST
  verdict     \* "running", or how the loop ended: "complete", "failed", "stalled"

hostVars == <<mode, hpc, off, size, total, stall, out, verdict>>
vars == <<devVars, hostVars>>

Region == 0 .. Total - 1

Init ==
  /\ DevInit
  /\ mode \in Mode
  /\ hpc = "send" /\ off = 0 /\ size = 0 /\ total = 0 /\ stall = 0
  /\ out = {} /\ verdict = "running"

\* fastboot oem <region> <off> 0 [hex].  printf %x writes all 64 bits of the offset,
\* of which LK's parse_hex keeps the lower 32.
SentOff == off % WORD

SendCommand ==
  /\ hpc = "send"
  /\ DumpWindow(SentOff, 0, mode) \/ DumpWindowRefused(SentOff, 0)
  /\ hpc' = "wait"
  /\ UNCHANGED <<mode, off, size, total, stall, out, verdict>>

\* LK refused the command or went down under it, or the 60 s timeout hit first.
CommandFails ==
  /\ hpc = "wait"
  /\ ~reply.ok
  /\ hpc' = "done" /\ verdict' = "failed"
  /\ UNCHANGED <<devVars, mode, off, size, total, stall, out>>

\* After two answers in a row with used = 0 the script stops.
MutStallLate == 3                    \* mutant: one answer later
StallLimit == 2

MutNeverStalls(u) == 0               \* mutant: the counter is always reset
StallAfter(u) == IF u = 0 THEN stall + 1 ELSE 0

\* A sum of two numbers of the shell.
Wrapped(x) ==
  IF x > LONG_MAX THEN x - 2 * (LONG_MAX + 1)
  ELSE IF x < -LONG_MAX - 1 THEN x + 2 * (LONG_MAX + 1) ELSE x

\* The script adds up and advances by what LK says it used.
MutTotalOfLines(u) == Wrapped(total + Cardinality(sent))    \* mutant: what it received
TotalAfter(u) == Wrapped(total + u)

OffAfter(u) == Wrapped(off + u)

\* One successful answer whose first `used` line says u.
Advance(u) ==
  /\ total' = TotalAfter(u) /\ off' = OffAfter(u) /\ size' = Total
  /\ stall' = StallAfter(u)
  /\ \/ /\ stall' >= StallLimit
        /\ hpc' = "done" /\ verdict' = "stalled"
     \/ /\ stall' < StallLimit /\ off' >= Total
        /\ hpc' = "done" /\ verdict' = "complete"
     \/ /\ stall' < StallLimit /\ off' < Total
        /\ hpc' = "send" /\ UNCHANGED verdict

ReceiveAnswer ==
  /\ hpc = "wait" /\ dpc = "idle" /\ reply.ok
  /\ out' = out \cup {a - Base : a \in sent \ hdr}
  /\ \E u \in IF fakeUsed THEN FakeUsed ELSE {reply.used} : Advance(u)
  /\ UNCHANGED <<devVars, mode>>

\* What follows a forged `used=0x` is nothing, or no number: the loop is left.
TrailerUnreadable ==
  /\ hpc = "wait" /\ dpc = "idle" /\ reply.ok /\ fakeUsed
  /\ hpc' = "done" /\ verdict' = "failed"
  /\ UNCHANGED <<devVars, mode, off, size, total, stall, out>>

Next ==
  \/ SendCommand
  \/ CommandFails
  \/ ReceiveAnswer
  \/ TrailerUnreadable
  \/ DevStep /\ UNCHANGED hostVars

Spec ==
  /\ Init /\ [][Next]_vars
  /\ WF_vars(DevStep /\ UNCHANGED hostVars)
  /\ WF_vars(SendCommand) /\ WF_vars(ReceiveAnswer)
  /\ WF_vars(CommandFails /\ dpc \in {"idle", "dead"})

(***************************************************************************)
(* Properties                                                              *)
(***************************************************************************)
HostTypeOK ==
  /\ TypeOK
  /\ mode \in Mode
  /\ hpc \in {"send", "wait", "done"}
  /\ off \in Long /\ size \in {0, Total} /\ total \in Long /\ stall \in 0 .. 2
  /\ out \subseteq Int
  /\ verdict \in {"running", "complete", "failed", "stalled"}

\* The script's closing check: the decoded size differs from LK's count.
Warned == Cardinality(out) # total

\* A hex dump that ends without the script's warning is byte-exact: the size
\* comparison at its end catches every window that lost bytes.
NoWarningMeansIntact ==
  mode = "hex" /\ verdict = "complete" /\ ~Warned => out = Region

\* The script's loop ends: the region is finished, the device fails, or two
\* answers in a row made no progress; unless trailers forged as negative numbers
\* take the offset back again and again, which the stall counter does not see.
LoopEnds == <>(hpc = "done") \/ []<><<off' < off>>_vars

\* What README.md says of hex mode: a dump that completes is the region.
HexRoundTrips == mode = "hex" /\ verdict = "complete" => out = Region
-----------------------------------------------------------------------------
\* In hex mode the script and the device together walk the region.
Walk == INSTANCE RegionWalk WITH
          pos <- IF mode = "hex" THEN off ELSE 0,
          got <- IF mode = "hex" THEN out ELSE {}

WalksRegion == Walk!Spec
=============================================================================
