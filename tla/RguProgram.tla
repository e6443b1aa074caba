----------------------------- MODULE RguProgram -----------------------------
(* The language in which the two versions of the reset generation unit's    *)
(* driver are written down: a function is a sequence of register accesses   *)
(* and lock operations.  A register is the set of the flags that are set in *)
(* it.  The keys that each write carries are left out.                      *)
EXTENDS Sequences, FiniteSets

SwsysFlags == {"MD", "MD_LITE", "MFG", "C2K", "CONMCU"}
Marks == {"SPM_SCPSYS", "SPM_THERMAL", "EINT", "SYSRST", "THERMAL"}
RegFlags ==                                              \* the registers
  [MODE |-> {"ENABLE", "EXT_POL", "EXTEN", "IRQ", "DUAL", "AUTO_RESTART",
             "DDR_RESERVE", "EXTRA_CNT"},
   NONRST2 |-> {"SSPM_RESET", "BYPASS_PWR_KEY", "SUSPEND_DIS"},
   LENGTH |-> {"PROBE", "CONFIG"},
   REQ_MODE |-> Marks, REQ_IRQ_EN |-> Marks,
   EXT_REQ_CON |-> {"EINT"}, SYSDBG_DEG |-> {"DEG"}, SWSYSRST |-> SwsysFlags,
   LATCH_CTL |-> {"DVFSRC"},
   LATCH_CTL2 |-> {"DFD_EN", "THERMAL1_DIS", "THERMAL2_DIS", "TIMEOUT"},
   DEBUG_CTL |-> {"CACHE_PRESERVE", "DVFSRC_PAUSE"},
   DEBUG_CTL2 |-> {"DVFSRC_EN", "EMI_DCS_EN"},
   RTC |-> {"recovery", "bootloader", "kpoc"}]           \* in the PMIC's RTC
Regs == DOMAIN RegFlags
Locks == {"rgu", "swrst"}     \* rgu_reg_operation_spinlock; the reset controller's

(* The reboot commands after which the phone waits for the power key.       *)
KeyCommands == {"charger", "recovery", "bootloader", "kpoc"}
BypassKey(cmd) == cmd \notin KeyCommands
Names == STRING               \* of bits, marks and commands, known here or not

(* The instructions.                                                        *)
Read(reg) == [op |-> "read", reg |-> reg]
Write(reg, set, clear) == [op |-> "write", reg |-> reg, set |-> set, clear |-> clear]
Put(reg, val) == [op |-> "put", reg |-> reg, val |-> val]
Branch(reg, flag, prog) == [op |-> "branch", reg |-> reg, flag |-> flag, then |-> prog]
Lock(l) == [op |-> "lock", lock |-> l]
Unlock(l) == [op |-> "unlock", lock |-> l]
SetEnable(b) == [op |-> "enable", val |-> b]
(* An access to something that is not modelled changes nothing: the restart *)
(* of the timer, and pmic_pre_wdt_reset(), which "may hang inside".         *)
Kick == [op |-> "outside", at |-> "RESTART"]
PmicPreReset == [op |-> "outside", at |-> "PMIC"]
SwReset == [op |-> "reset"]

Rmw(reg, set, clear) == <<Read(reg), Write(reg, set, clear)>>
Assign(reg, flag, on) ==
  Rmw(reg, IF on THEN {flag} ELSE {}, IF on THEN {} ELSE {flag})
If(c, prog) == IF c THEN prog ELSE <<>>
Flag(b, f) == IF b THEN {f} ELSE {}
=============================================================================
