--------------------------------- MODULE Rgu --------------------------------
(* The machine that runs the RGU driver's programs: one instruction of one  *)
(* caller is a step.  start.version says which version of the driver was    *)
(* built.                                                                   *)
EXTENDS RguProgram

CONSTANTS
  Callers,      \* CPUs that call into the driver
  Sspm,         \* the interrupt that reports a reset of the SSPM
  Pm,           \* the suspend and resume path, alone on the last CPU
  Starts        \* the machines to start from: see below

Procs == Callers \cup {Sspm, Pm}
None == "none"

ASSUME ProcAssumption ==
  Sspm \notin Callers /\ Pm \notin Callers /\ Sspm # Pm /\ None \notin Procs

VARIABLES
  regs,         \* the registers
  wdt_enable,   \* the driver's variable, g_wdt_enable in version 1
  start,        \* the member of Starts that this machine is
  lock,         \* lock[l]: the holder of lock l
  run,          \* run[p]: what is left of p's program
  tmp,          \* tmp[p]: the register values p has read
  suspended,    \* the system is between a suspend and its resume
  reboot,       \* the restart handler under way: its CPU and command
  reset,        \* who triggered the software reset
  intent        \* history: the locked registers, had each access been atomic

vars == <<regs, wdt_enable, start, lock, run, tmp, suspended, reboot, reset, intent>>

V1 == INSTANCE RguV1
Api == INSTANCE WdApi

version == start.version
kicker == start.kicker      \* built with CONFIG_MTK_WD_KICKER
                            \* start.ops[p]: the operations p may call
Program(o) == IF version = 1 THEN V1!Program(o) ELSE Api!Program(o)
InitialMode ==
  IF version = 1 THEN V1!ProbeMode(kicker) ELSE Api!ProbeMode(wdt_enable)

(* What a machine may be asked to do: the operations of its driver's        *)
(* version, the interrupt and the suspend path only on their own CPUs.      *)
ASSUME StartAssumption ==
  \A s \in Starts :
    /\ s.version \in {1, 2} /\ {s.doe, s.kicker, s.eint, s.dirty} \subseteq BOOLEAN
    /\ \A c \in Callers : s.ops[c] \subseteq (IF s.version = 1 THEN V1!Ops ELSE Api!Ops)
    /\ s.ops[Sspm] \subseteq (IF s.version = 1 THEN {} ELSE Api!IsrOps)
    /\ s.ops[Pm] \subseteq V1!PmOps

(* The registers whose accesses all go through one lock.  In version 1      *)
(* mtk_wdt_swsysret_config and the reset controller take different locks    *)
(* for SWSYSRST; in version 2 mtk_wdt_set_c2k_sysrst takes none.            *)
Uses(s, name) == \E p \in Procs : \E o \in s.ops[p] : o[1] = name
UsesController(s) == Uses(s, "toprgu_assert") \/ Uses(s, "toprgu_reset")
OneLock(s) ==
  {"REQ_MODE", "REQ_IRQ_EN"}
    \cup (IF s.version = 1 THEN {"MODE"} ELSE {})
    \cup (IF Uses(s, "c2k") \/ (Uses(s, "swsys") /\ UsesController(s))
          THEN {} ELSE {"SWSYSRST"})
OneLockRegs == OneLock(start)

-----------------------------------------------------------------------------
NoValues == [r \in Regs |-> {}]
NoReboot == [cpu |-> None, cmd |-> None]
Rebooting == reboot # NoReboot

(* After mtk_wdt_probe().                                                   *)
Init ==
  /\ start \in Starts
  /\ wdt_enable = (kicker /\ (version = 2 => start.doe))
  /\ regs = [NoValues EXCEPT
       !.MODE = InitialMode, !.LENGTH = {"PROBE"},
       !.NONRST2 = IF version = 2 THEN {"BYPASS_PWR_KEY"} ELSE {}]
  /\ intent = [r \in OneLockRegs |-> regs[r]]
  /\ lock = [l \in Locks |-> None]
  /\ suspended = FALSE /\ reboot = NoReboot /\ reset = None
  /\ run = [p \in Procs |-> <<>>]
  /\ tmp = [p \in Procs |-> NoValues]

Idle(p) == run[p] = <<>>
(* Suspend and resume run when every other CPU is stopped, and resume comes *)
(* after suspend; the interrupt nests in whatever its CPU was doing.        *)
MayCall(p, o) ==
  /\ reset = None /\ ~Rebooting /\ Idle(p)
  /\ version = 2 /\ o[1] \in Api!KickerOps => kicker
  /\ p = Pm => (\A q \in Callers : Idle(q)) /\ suspended = (o[1] = "resume")
  /\ p \in Callers => Idle(Pm) /\ ~suspended

Call(p) ==
  \E o \in start.ops[p] :
    /\ MayCall(p, o)
    /\ run' = [run EXCEPT ![p] = Program(o)]
    /\ suspended' = IF p = Pm THEN o[1] = "suspend" ELSE suspended
    /\ reboot' = IF o[1] = "arch_reset" THEN [cpu |-> p, cmd |-> o[2]] ELSE reboot
    /\ UNCHANGED <<regs, wdt_enable, start, lock, tmp, reset, intent>>

Next1(p) == Head(run[p])
(* The kernel calls the restart handler with the other CPUs stopped, each   *)
(* wherever it was; an interrupt that is being served is not stopped.       *)
Stopped(p) == Rebooting /\ p \notin {reboot.cpu, Sspm}
CanStep(p, op) ==
  /\ reset = None /\ ~Idle(p) /\ Next1(p).op = op /\ ~Stopped(p)
  /\ p = Pm => Idle(Sspm)
Advance(p) ==         \* a program that ends forgets what it read
  /\ run' = [run EXCEPT ![p] = Tail(@)]
  /\ tmp' = IF Tail(run[p]) = <<>> THEN [tmp EXCEPT ![p] = NoValues] ELSE tmp

ReadReg(p) ==
  /\ CanStep(p, "read")
  /\ tmp' = [tmp EXCEPT ![p][Next1(p).reg] = regs[Next1(p).reg]]
  /\ run' = [run EXCEPT ![p] = Tail(@)]
  /\ UNCHANGED <<regs, wdt_enable, start, lock, suspended, reboot, reset, intent>>

Applied(i, val) == (val \cup i.set) \ i.clear
WriteReg(p) ==
  /\ CanStep(p, "write")
  /\ LET i == Next1(p) IN
       /\ regs' = [regs EXCEPT ![i.reg] = Applied(i, tmp[p][i.reg])]
       /\ intent' = [r \in DOMAIN intent |->
            IF r = i.reg THEN Applied(i, intent[r]) ELSE intent[r]]
  /\ Advance(p)
  /\ UNCHANGED <<wdt_enable, start, lock, suspended, reboot, reset>>

PutReg(p) ==
  /\ CanStep(p, "put")
  /\ LET i == Next1(p) IN
       /\ regs' = [regs EXCEPT ![i.reg] = i.val]
       /\ intent' = [r \in DOMAIN intent |-> IF r = i.reg THEN i.val ELSE intent[r]]
  /\ Advance(p)
  /\ UNCHANGED <<wdt_enable, start, lock, suspended, reboot, reset>>

BranchOnReg(p) ==
  /\ CanStep(p, "branch")
  /\ LET i == Next1(p) IN
       run' = [run EXCEPT ![p] = If(i.flag \in regs[i.reg], i.then) \o Tail(@)]
  /\ UNCHANGED <<regs, wdt_enable, start, lock, tmp, suspended, reboot, reset, intent>>

TakeLock(p) ==
  /\ CanStep(p, "lock") /\ lock[Next1(p).lock] = None
  /\ lock' = [lock EXCEPT ![Next1(p).lock] = p] /\ Advance(p)
  /\ UNCHANGED <<regs, wdt_enable, start, suspended, reboot, reset, intent>>

DropLock(p) ==
  /\ CanStep(p, "unlock")
  /\ lock' = [lock EXCEPT ![Next1(p).lock] = None] /\ Advance(p)
  /\ UNCHANGED <<regs, wdt_enable, start, suspended, reboot, reset, intent>>

StoreEnable(p) ==
  /\ CanStep(p, "enable")
  /\ wdt_enable' = Next1(p).val /\ Advance(p)
  /\ UNCHANGED <<regs, start, lock, suspended, reboot, reset, intent>>

ActOutside(p) ==
  /\ CanStep(p, "outside") /\ Advance(p)
  /\ UNCHANGED <<regs, wdt_enable, start, lock, suspended, reboot, reset, intent>>

TriggerReset(p) ==
  /\ CanStep(p, "reset")
  /\ reset' = p /\ Advance(p)
  /\ UNCHANGED <<regs, wdt_enable, start, lock, suspended, reboot, intent>>

Step(p) ==
  \/ ReadReg(p) \/ WriteReg(p) \/ PutReg(p) \/ BranchOnReg(p) \/ TakeLock(p)
  \/ DropLock(p) \/ StoreEnable(p) \/ ActOutside(p) \/ TriggerReset(p)

Next == \E p \in Procs : Call(p) \/ Step(p)

(* A caller in pmic_pre_wdt_reset() may hang there; an interrupt that does  *)
(* stops the CPU that it interrupted, which may be any.                     *)
InPmic(p) == ~Idle(p) /\ Next1(p) = PmicPreReset
Hanging == InPmic(Sspm) \/ (Rebooting /\ InPmic(reboot.cpu))

(* A CPU that is not stopped goes on executing, except in such a call.      *)
Proceeds(p) == Step(p) /\ ~InPmic(p) /\ ~InPmic(Sspm)
Spec == Init /\ [][Next]_vars /\ \A p \in Procs : WF_vars(Proceeds(p))

-----------------------------------------------------------------------------
Quiet == reset = None /\ \A p \in Procs : Idle(p)

(* Registers hold flags; the interrupt never holds a lock, which is taken   *)
(* with interrupts enabled and would hang the CPU that it interrupted.      *)
TypeOK ==
  /\ \A r \in Regs : regs[r] \subseteq RegFlags[r]
  /\ wdt_enable \in BOOLEAN /\ suspended \in BOOLEAN
  /\ lock \in [Locks -> Callers \cup {Pm, None}] /\ reset \in Procs \cup {None}

(* A register whose accesses all go through one lock loses no update: it    *)
(* holds what the same accesses leave when each is atomic.  This covers the *)
(* request registers, SWSYSRST, and in version 1 MODE.                      *)
RequestsExact == \A r \in OneLockRegs : regs[r] = intent[r]

(* The debounce of the reset key is on exactly while the key may request a  *)
(* reset, however the two registers are reached by several CPUs.            *)
DebounceWithKey ==
  lock["rgu"] = None => ("DEG" \in regs["SYSDBG_DEG"] <=> "SYSRST" \in regs["REQ_MODE"])

(* When nothing runs and the system is awake, the timer runs exactly if the *)
(* driver believes so, through any order of enabling, disabling, suspends   *)
(* and resumes, in both versions.                                           *)
ModeFollowsEnable ==
  Quiet /\ ~suspended => ("ENABLE" \in regs["MODE"] <=> wdt_enable)

(* While the system sleeps the timer is off, and in version 2 NONRST_REG2   *)
(* says that the suspend did it, unless the last reset was a debug reset.   *)
SuspendIsMarked ==
  Quiet /\ suspended /\ ~start.dirty =>
     /\ "ENABLE" \notin regs["MODE"]
     /\ version = 2 => "SUSPEND_DIS" \in regs["NONRST2"]

(* A reset that the SSPM asked for comes up without waiting for the power   *)
(* key, whatever access the other CPUs are in the middle of, a reboot       *)
(* included, unless that reboot's command asks for the key.  No machine     *)
(* here calls wd_sw_reset() with a mode that asks for the key: one that     *)
(* does can take the bit away.                                              *)
SspmResetBypassesKey ==
  reset = Sspm /\ reboot.cmd \notin KeyCommands => "BYPASS_PWR_KEY" \in regs["NONRST2"]

(* A lock never outlives the operation that took it.                        *)
LockReturned == \A l \in Locks : lock[l] # None => ~Idle(lock[l])

(* arch_reset() of version 2 ends in the reset although the CPUs it stopped *)
(* were in the middle of anything, under the lock included; only a hang in  *)
(* pmic_pre_wdt_reset(), of this call or of an interrupt, can keep it from  *)
(* that.  Version 1 takes the lock on this path and reaches the reset only  *)
(* if no stopped CPU holds it.                                              *)
LockLost == version = 1 /\ lock["rgu"] \notin {None, reboot.cpu}
RebootCompletes ==
  Rebooting /\ ~LockLost /\ reboot.cmd # "dm-verity unmarked"
    ~> (reset # None \/ []Hanging)

(* The reset of arch_reset() finds the registers as its command asks: the   *)
(* power key, "WDT mode is hw reboot mode", in version 2 and a normal       *)
(* reboot no DFD and no reserved DRAM, and in version 1 the timer off.      *)
KeyBypassed ==
  IF version = 1 THEN "AUTO_RESTART" \in regs["MODE"]
                 ELSE "BYPASS_PWR_KEY" \in regs["NONRST2"]
RebootAsAsked ==
  Rebooting /\ reset = reboot.cpu /\ Idle(Sspm) =>
     /\ KeyBypassed <=> reboot.cmd \notin KeyCommands
     /\ "EXTEN" \in regs["MODE"] /\ regs["MODE"] \cap {"IRQ", "DUAL"} = {}
     /\ version = 1 => "ENABLE" \notin regs["MODE"]
     /\ version = 2 /\ reboot.cmd # "ddr-reserve" =>
          "DDR_RESERVE" \notin regs["MODE"] /\ "DFD_EN" \notin regs["LATCH_CTL2"]

(* "Set SSPM flag in non-reset register (use NONRST_REG2).  Trigger AP RGU  *)
(* SW reset.": the reset the SSPM asked for finds the flag set.             *)
SspmFlagSurvives == reset = Sspm => "SSPM_RESET" \in regs["NONRST2"]
=============================================================================
