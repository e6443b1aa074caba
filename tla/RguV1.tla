-------------------------------- MODULE RguV1 -------------------------------
(* The functions of wdt_v1/mtk_wdt_v1.c as programs.  MODE is always        *)
(* reached under rgu_reg_operation_spinlock, the reset path included, and   *)
(* its AUTO_RESTART bit says that the next boot bypasses the power key.     *)
(* SWSYSRST is reached under two locks.                                     *)
EXTENDS RguProgram

VARIABLE wdt_enable                                          \* g_wdt_enable

V1Marks == {"SPM_SCPSYS", "SPM_THERMAL", "THERMAL"}          \* request sources
V1Swsys == {"MD", "MD_LITE"}
Under(l, prog) == <<Lock(l)>> \o prog \o <<Unlock(l)>>
Locked(prog) == Under("rgu", prog)

(* The reset controller.                                                    *)
toprgu_reset_assert(id) == Under("swrst", Rmw("SWSYSRST", {id}, {}))
toprgu_reset_deassert(id) == Under("swrst", Rmw("SWSYSRST", {}, {id}))
toprgu_reset(id) == toprgu_reset_assert(id) \o toprgu_reset_deassert(id)

mtk_wdt_set_time_out_value(v) == Locked(<<Put("LENGTH", {v})>>)
mtk_wdt_restart(type) == IF type = "NORMAL" THEN Locked(<<Kick>>) ELSE <<Kick>>

ModeFlags == {"ENABLE", "EXT_POL", "EXTEN", "IRQ", "DUAL"}
ModeFor(dual, irq, exten, pol, en) ==
  {"AUTO_RESTART"} \cup Flag(en, "ENABLE") \cup Flag(pol, "EXT_POL")
    \cup Flag(exten, "EXTEN") \cup Flag(irq, "IRQ") \cup Flag(dual, "DUAL")
mtk_wdt_mode_config(dual, irq, exten, pol, en) ==
  LET m == ModeFor(dual, irq, exten, pol, en)
  IN  Locked(Rmw("MODE", m, ModeFlags \ m))
ProbeMode(kicker) == ModeFor(kicker, kicker, TRUE, FALSE, kicker)

mtk_wdt_enable(en) ==
  Locked(<<Read("MODE"), SetEnable(en),
           Write("MODE", Flag(en, "ENABLE"), Flag(~en, "ENABLE"))>>)
mtk_wdt_confirm_hwreboot == mtk_wdt_mode_config(TRUE, TRUE, TRUE, FALSE, TRUE)
mtk_wd_suspend ==
  mtk_wdt_mode_config(TRUE, TRUE, TRUE, FALSE, FALSE) \o mtk_wdt_restart("NORMAL")
mtk_wd_resume ==
  If(wdt_enable, mtk_wdt_set_time_out_value("PROBE")
                   \o mtk_wdt_mode_config(TRUE, TRUE, TRUE, FALSE, TRUE)
                   \o mtk_wdt_restart("NORMAL"))

(* A bit or a mark that the function does not know changes nothing.         *)
mtk_wdt_swsysret_config(bit, on) ==
  Locked(Rmw("SWSYSRST", Flag(on, bit) \cap V1Swsys, Flag(~on, bit) \cap V1Swsys))
mtk_wdt_request_en_set(mark, en) ==
  Locked(Rmw("REQ_MODE", Flag(en, mark) \cap V1Marks, Flag(~en, mark) \cap V1Marks))
mtk_wdt_request_mode_set(mark, irq) ==
  Locked(Rmw("REQ_IRQ_EN", Flag(irq, mark) \cap V1Marks, Flag(~irq, mark) \cap V1Marks))

(* The reset comes before the lock is dropped; behind it is an endless loop.*)
MutArchResetKeepsIrq(bypass) ==
  Locked(<<Kick>> \o Rmw("MODE", {"EXTEN"} \cup Flag(bypass, "AUTO_RESTART"), {"ENABLE"})
           \o <<SwReset>>)
wdt_arch_reset(bypass) ==
  Locked(<<Kick>>
           \o Rmw("MODE", {"EXTEN"} \cup Flag(bypass, "AUTO_RESTART"),
                  {"IRQ", "ENABLE", "DUAL"} \cup Flag(~bypass, "AUTO_RESTART"))
           \o <<SwReset>>)

(* The operations and their arguments; suspend and resume come from the PM  *)
(* core.                                                                    *)
PmOps == {<<"suspend">>, <<"resume">>}
Ops ==
  {<<"timeout">>, <<"confirm">>}
    \cup {"enable"} \X BOOLEAN
    \cup {"request_en", "request_mode", "swsys"} \X Names \X BOOLEAN
    \cup {"toprgu_assert", "toprgu_reset"} \X SwsysFlags
    \cup {"restart", "arch_reset"} \X Names

Program(o) ==
  CASE o[1] = "enable"         -> mtk_wdt_enable(o[2])
    [] o[1] = "request_en"     -> mtk_wdt_request_en_set(o[2], o[3])
    [] o[1] = "request_mode"   -> mtk_wdt_request_mode_set(o[2], o[3])
    [] o[1] = "swsys"          -> mtk_wdt_swsysret_config(o[2], o[3])
    [] o[1] = "toprgu_assert"  -> toprgu_reset_assert(o[2])
    [] o[1] = "toprgu_reset"   -> toprgu_reset(o[2])
    [] o[1] = "timeout"        -> mtk_wdt_set_time_out_value("CONFIG")
    [] o[1] = "restart"        -> mtk_wdt_restart(o[2])
    [] o[1] = "confirm"        -> mtk_wdt_confirm_hwreboot
    [] o[1] = "arch_reset"     -> wdt_arch_reset(BypassKey(o[2]))
    [] o[1] = "suspend"        -> mtk_wd_suspend
    [] o[1] = "resume"         -> mtk_wd_resume
    [] OTHER                  -> <<>>
=============================================================================
