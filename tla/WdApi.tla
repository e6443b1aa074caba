-------------------------------- MODULE WdApi -------------------------------
(* struct wd_api of wdk/wd_api.c: the functions through which the rest of   *)
(* the kernel reaches the RGU driver, and the restart handler.              *)
EXTENDS RguV2

(* The functions behind struct wd_api.  An argument that is neither value   *)
(* of its enumeration skips its call.                                       *)
ModeConfig(mark, en, mode) ==
  If(en # "bad", mtk_wdt_request_en_set(mark, en = "EN"))
    \o If(mode # "bad", mtk_wdt_request_mode_set(mark, mode = "IRQ"))
spmwdt_mode_config(en, mode) == ModeConfig("SPM_SCPSYS", en, mode)
thermal_mode_config(en, mode) == ModeConfig("SPM_THERMAL", en, mode)
thermal_direct_mode_config(en, mode) == ModeConfig("THERMAL", en, mode)
debug_key_eint_config(en, mode) == ModeConfig("EINT", en, mode)
debug_key_sysrst_config(en, mode) == ModeConfig("SYSRST", en, mode)
wd_config ==
  mtk_wdt_mode_config(TRUE, TRUE, TRUE, FALSE, TRUE) \o mtk_wdt_set_time_out_value("CONFIG")
set_mode == mtk_wdt_mode_config(FALSE, TRUE, TRUE, FALSE, TRUE)   \* WDT_IRQ_ONLY_MODE
wd_dram_reserved_mode(en) ==
  mtk_wdt_swsysret_config("BIT28", en) \o mtk_rgu_dram_reserved(en)

(* arch_reset(mode, cmd), the restart handler.  "dm-verity unmarked" is the *)
(* dm-verity command when the security library cannot store the error: the  *)
(* handler then gives up.                                                   *)
arch_reset(cmd) ==
  If(cmd \in RegFlags.RTC, <<Put("RTC", {cmd})>>)
    \o If(cmd # "dm-verity unmarked",
          If(cmd # "ddr-reserve", mtk_wdt_dfd_count_en(FALSE))
            \o wdt_arch_reset(BypassKey(cmd), cmd = "ddr-reserve"))

(* The operations and their arguments; suspend and resume come from the PM  *)
(* core and the SSPM interrupt from its IRQ line.                           *)
Ask == {"EN", "DIS", "bad"}
Answer == {"IRQ", "RST", "bad"}
PmOps == {<<"suspend">>, <<"resume">>}
IsrOps == {<<"sspm">>}
Ops ==
  {<<"config">>, <<"set_mode">>, <<"confirm">>, <<"restart">>, <<"dvfsrc">>}
    \cup {"enable", "dram", "dram_mode", "cache", "emi_dcs", "dfd", "dfd_thermal1",
          "dfd_thermal2", "dfd_timeout"} \X BOOLEAN
    \cup {"spmwdt", "thermal", "thermal_direct", "eint", "sysrst"} \X Ask \X Answer
    \cup {"swsys"} \X Names \X BOOLEAN
    \cup {"c2k"} \X BOOLEAN \X SwsysFlags
    \cup {"sw_reset"} \X BOOLEAN \X BOOLEAN
    \cup {"arch_reset"} \X Names

(* The program of an operation: a name and its arguments.                   *)
Program(o) ==
  CASE o[1] = "enable"         -> mtk_wdt_enable(o[2])
    [] o[1] = "spmwdt"         -> spmwdt_mode_config(o[2], o[3])
    [] o[1] = "thermal"        -> thermal_mode_config(o[2], o[3])
    [] o[1] = "thermal_direct" -> thermal_direct_mode_config(o[2], o[3])
    [] o[1] = "eint"           -> debug_key_eint_config(o[2], o[3])
    [] o[1] = "sysrst"         -> debug_key_sysrst_config(o[2], o[3])
    [] o[1] = "config"         -> wd_config
    [] o[1] = "set_mode"       -> set_mode
    [] o[1] = "confirm"        -> mtk_wdt_confirm_hwreboot
    [] o[1] = "restart"        -> mtk_wdt_restart
    [] o[1] = "dram"           -> mtk_rgu_dram_reserved(o[2])
    [] o[1] = "dram_mode"      -> wd_dram_reserved_mode(o[2])
    [] o[1] = "cache"          -> mtk_rgu_mcu_cache_preserve(o[2])
    [] o[1] = "emi_dcs"        -> mtk_rgu_cfg_emi_dcs(o[2])
    [] o[1] = "dvfsrc"         -> mtk_rgu_cfg_dvfsrc
    [] o[1] = "dfd"            -> mtk_wdt_dfd_count_en(o[2])
    [] o[1] = "dfd_thermal1"   -> mtk_wdt_dfd_thermal1_dis(o[2])
    [] o[1] = "dfd_thermal2"   -> mtk_wdt_dfd_thermal2_dis(o[2])
    [] o[1] = "dfd_timeout"    -> mtk_wdt_dfd_timeout(o[2])
    [] o[1] = "swsys"          -> mtk_wdt_swsysret_config(o[2], o[3])
    [] o[1] = "c2k"            -> mtk_wdt_set_c2k_sysrst(o[2], o[3])
    [] o[1] = "sw_reset"       -> wdt_arch_reset(o[2], o[3])
    [] o[1] = "arch_reset"     -> arch_reset(o[2])
    [] o[1] = "suspend"        -> mtk_wd_suspend
    [] o[1] = "resume"         -> mtk_wd_resume
    [] o[1] = "sspm"           -> mtk_wdt_sspm_isr
    [] OTHER                  -> <<>>
(* Without the kicker wd_api.c and wd_common_drv.c compile these to stubs.  *)
KickerOps == {"enable", "restart", "spmwdt", "thermal", "config", "set_mode", "confirm",
              "dram_mode", "cache", "suspend", "resume"}
=============================================================================
