-------------------------------- MODULE RguV2 -------------------------------
(* The functions of wdt_v2/mtk_wdt_v2.c as programs.  Callers on different  *)
(* CPUs run them in parallel, so that the read and the write of one access  *)
(* can be separated by another caller's unless both hold                    *)
(* rgu_reg_operation_spinlock.                                              *)
EXTENDS RguProgram

VARIABLES
  start,        \* how the machine is configured, see Rgu
  wdt_enable    \* the driver's variable of that name

doe == start.doe            \* g_apwdt_en_doe # 0
eint == start.eint          \* ext_debugkey_io_eint # -1
dirty == start.dirty        \* STATUS holds SYSRST_RST or EINT_RST

V2Marks == Marks \ {"SPM_THERMAL"}                       \* request sources
V2Swsys == SwsysFlags \ {"MD_LITE"}
Locked(prog) == <<Lock("rgu")>> \o prog \o <<Unlock("rgu")>>

(* The driver's functions.                                                  *)
mtk_wdt_set_time_out_value(v) == Locked(<<Put("LENGTH", {v})>>)
mtk_wdt_restart == Locked(<<Kick>>)

(* NONRST_REG2 is read before the lock is taken and written back under it.  *)
ModeFlags == {"ENABLE", "EXT_POL", "EXTEN", "IRQ", "DUAL", "EXTRA_CNT"}
ModeFor(dual, irq, exten, pol, en) ==
  {"EXTRA_CNT"} \cup Flag(en, "ENABLE") \cup Flag(pol, "EXT_POL")
    \cup Flag(exten, "EXTEN") \cup Flag(irq, "IRQ") \cup Flag(dual, "DUAL")
ProbeMode(on) == ModeFor(on, on, TRUE, FALSE, on)
ModeBody(dual, irq, exten, pol, en) ==
  LET m == ModeFor(dual, irq, exten, pol, en)
  IN  <<Read("MODE"), Write("NONRST2", {"BYPASS_PWR_KEY"}, {}),
        Write("MODE", m, ModeFlags \ m)>>
mtk_wdt_mode_config(dual, irq, exten, pol, en) ==
  <<Read("NONRST2")>> \o Locked(ModeBody(dual, irq, exten, pol, en))
mtk_wdt_mode_config_nolock(dual, irq, exten, pol, en) ==
  <<Read("NONRST2")>> \o ModeBody(dual, irq, exten, pol, en)

MutEnableUnlocked(en) == If(doe, Assign("MODE", "ENABLE", en) \o <<SetEnable(en)>>)
mtk_wdt_enable(en) ==
  If(doe, Locked(<<Read("MODE"), SetEnable(en),
                   Write("MODE", Flag(en, "ENABLE"), Flag(~en, "ENABLE"))>>))
mtk_wdt_confirm_hwreboot == mtk_wdt_mode_config_nolock(TRUE, TRUE, TRUE, FALSE, TRUE)

MutSuspendUnmarked ==
  If(~dirty, mtk_wdt_mode_config(TRUE, TRUE, TRUE, FALSE, FALSE)) \o mtk_wdt_restart
mtk_wd_suspend ==
  If(~dirty, mtk_wdt_mode_config(TRUE, TRUE, TRUE, FALSE, FALSE)
               \o Assign("NONRST2", "SUSPEND_DIS", TRUE))
    \o mtk_wdt_restart
mtk_wd_resume ==
  If(wdt_enable, mtk_wdt_set_time_out_value("PROBE")
                   \o If(~dirty, mtk_wdt_mode_config(TRUE, TRUE, TRUE, FALSE, TRUE)
                                   \o Assign("NONRST2", "SUSPEND_DIS", FALSE))
                   \o mtk_wdt_restart)

mtk_rgu_dram_reserved(en) == Assign("MODE", "DDR_RESERVE", en)
mtk_rgu_cfg_emi_dcs(en) == Assign("DEBUG_CTL2", "EMI_DCS_EN", en)
mtk_rgu_cfg_dvfsrc ==                          \* only enabling is allowed
  <<Read("DEBUG_CTL2"), Read("LATCH_CTL"),
    Write("DEBUG_CTL2", {"DVFSRC_EN"}, {}), Write("LATCH_CTL", {"DVFSRC"}, {})>>
mtk_rgu_pause_dvfsrc ==
  <<Branch("DEBUG_CTL2", "DVFSRC_EN", Assign("DEBUG_CTL", "DVFSRC_PAUSE", TRUE))>>
mtk_rgu_mcu_cache_preserve(en) == Assign("DEBUG_CTL", "CACHE_PRESERVE", en)
mtk_wdt_dfd_count_en(en) == Assign("LATCH_CTL2", "DFD_EN", en)
mtk_wdt_dfd_thermal1_dis(dis) == Assign("LATCH_CTL2", "THERMAL1_DIS", dis)
mtk_wdt_dfd_thermal2_dis(dis) == Assign("LATCH_CTL2", "THERMAL2_DIS", dis)
mtk_wdt_dfd_timeout(nonzero) == Assign("LATCH_CTL2", "TIMEOUT", nonzero)

(* A bit that the switch does not name leaves SWSYSRST as it was.           *)
mtk_wdt_swsysret_config(bit, on) ==
  Locked(Rmw("SWSYSRST", Flag(on, bit) \cap V2Swsys, Flag(~on, bit) \cap V2Swsys))
mtk_wdt_set_c2k_sysrst(clear, bit) == Assign("SWSYSRST", bit, ~clear)

(* With the watchdog disabled by DOE every request source is disabled too.  *)
(* A mark that the driver does not know (SPM_THERMAL) changes nothing.      *)
MutDebounceStays(mark, on) ==
  <<Read("REQ_MODE")>>
    \o If(mark = "EINT" /\ on /\ eint, <<Put("EXT_REQ_CON", {"EINT"})>>)
    \o If(mark = "SYSRST" /\ on, <<Put("SYSDBG_DEG", {"DEG"})>>)
    \o (LET set == Flag(on /\ (mark = "EINT" => eint), mark) \cap V2Marks
        IN  <<Write("REQ_MODE", set, {mark} \ set)>>)
EnSetBody(mark, on) ==
  <<Read("REQ_MODE")>>
    \o If(mark = "EINT" /\ on /\ eint, <<Put("EXT_REQ_CON", {"EINT"})>>)
    \o If(mark = "SYSRST", <<Put("SYSDBG_DEG", Flag(on, "DEG"))>>)
    \o (LET set == Flag(on /\ (mark = "EINT" => eint), mark) \cap V2Marks
        IN  <<Write("REQ_MODE", set, {mark} \ set)>>)
MutReqUnlocked(mark, en) == EnSetBody(mark, en /\ doe) \o If(~doe, <<Put("REQ_MODE", {})>>)
MutReqNoUnlock(mark, en) == <<Lock("rgu")>> \o EnSetBody(mark, en) \o If(doe, <<Unlock("rgu")>>)
mtk_wdt_request_en_set(mark, en) ==
  Locked(EnSetBody(mark, en /\ doe) \o If(~doe, <<Put("REQ_MODE", {})>>))
mtk_wdt_request_mode_set(mark, irq) ==
  Locked(Rmw("REQ_IRQ_EN", Flag(irq, mark) \cap V2Marks, Flag(~irq, mark))
           \o If(~doe, <<Put("REQ_IRQ_EN", {})>>))

(* wdt_arch_reset(mode) takes no lock: it may run in an interrupt, or while *)
(* a stopped CPU holds it.  With WD_SW_RESET_KEEP_DDR_RESERVE it leaves     *)
(* DDR_RESERVE alone.  NONRST_REG, a copy of STATUS, is left out.  The build *)
(* has CONFIG_MTK_PMIC.                                                     *)
ResetBody(bypass, keep) ==
  <<PmicPreReset, Read("NONRST2"), Read("MODE"),
    Write("NONRST2", Flag(bypass, "BYPASS_PWR_KEY"), Flag(~bypass, "BYPASS_PWR_KEY")),
    Write("MODE", {"EXTEN"}, {"IRQ", "DUAL", "EXTRA_CNT"})>>
  \o (IF keep THEN mtk_rgu_pause_dvfsrc ELSE mtk_rgu_dram_reserved(FALSE)) \o <<SwReset>>
MutResetDropsBypass(bypass, keep) == <<Kick>> \o ResetBody(FALSE, keep)
MutResetLocks(bypass, keep) == mtk_wdt_restart \o ResetBody(bypass, keep)
wdt_arch_reset(bypass, keep) == <<Kick>> \o ResetBody(bypass, keep)
MutSspmLocks == Locked(Assign("NONRST2", "SSPM_RESET", TRUE)) \o wdt_arch_reset(TRUE, FALSE)
mtk_wdt_sspm_isr == Assign("NONRST2", "SSPM_RESET", TRUE) \o wdt_arch_reset(TRUE, FALSE)
=============================================================================
