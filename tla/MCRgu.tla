------------------------------ MODULE MCRgu -------------------------------
(* Two CPUs, the interrupt and the suspend path.  Each scenario puts        *)
(* operations that share registers against each other.                      *)
EXTENDS Rgu

CONSTANTS a, b, isr, pm

MCCallers == {a, b}
Both(name) == {<<name, TRUE>>, <<name, FALSE>>}
Calls(ofA, ofB, ofIsr, ofPm) ==
  [p \in {a, b, isr, pm} |->
     CASE p = a -> ofA [] p = b -> ofB [] p = isr -> ofIsr [] p = pm -> ofPm]
PmOps == {<<"suspend">>, <<"resume">>}

(* Enabling and disabling, with suspends; the reset of a caller or an SSPM. *)
EnableAndSuspend ==
  Calls(Both("enable"), {<<"enable", FALSE>>, <<"sw_reset", TRUE, TRUE>>},
        {<<"sspm">>}, PmOps)

(* Request sources and their modes, and the subsystem resets.               *)
Requests ==
  Calls({<<"sysrst", "EN", "RST">>, <<"sysrst", "DIS", "bad">>, <<"eint", "EN", "IRQ">>,
         <<"swsys", "MD", TRUE>>},
        {<<"thermal_direct", "EN", "IRQ">>, <<"thermal", "EN", "IRQ">>,
         <<"sysrst", "DIS", "IRQ">>, <<"spmwdt", "bad", "RST">>, <<"swsys", "MFG", TRUE>>},
        {}, {})

(* A reboot with the other CPU stopped anywhere; other commands than these  *)
(* differ from one of them in the RTC mark only.                            *)
Reboots ==
  Calls({<<"dram_mode", TRUE>>, <<"dfd", TRUE>>, <<"dvfsrc">>},
        {<<"arch_reset", c>> :
           c \in {"recovery", "ddr-reserve", "dm-verity unmarked", "other"}},
        {<<"sspm">>}, {})

Machine(ops, en, kick, key, rst) ==
  [version |-> 2, ops |-> ops, doe |-> en, kicker |-> kick, eint |-> key, dirty |-> rst]
Sleepers == {Machine(EnableAndSuspend, en, TRUE, FALSE, rst) : en, rst \in BOOLEAN}
Askers == {Machine(Requests, en, TRUE, key, FALSE) : en, key \in BOOLEAN}
Rebooters == {Machine(Reboots, TRUE, kick, FALSE, FALSE) : kick \in BOOLEAN}

(* Version 1: enabling and disabling with suspends and a reboot; the        *)
(* request sources; SWSYSRST under both locks, and under the reset          *)
(* controller's alone with the timer operations.                            *)
Machine1(ops, kick) ==
  [version |-> 1, ops |-> ops, doe |-> TRUE, kicker |-> kick, eint |-> FALSE, dirty |-> FALSE]
V1Sleepers ==
  Calls(Both("enable"),
        {<<"enable", FALSE>>, <<"arch_reset", "other">>, <<"arch_reset", "charger">>},
        {}, PmOps)
V1Askers ==
  Calls({<<"request_en", "THERMAL", TRUE>>, <<"request_en", "THERMAL", FALSE>>,
         <<"request_mode", "SPM_THERMAL", TRUE>>, <<"toprgu_reset", "MFG">>},
        {<<"request_en", "SPM_SCPSYS", TRUE>>, <<"request_en", "EINT", TRUE>>,
         <<"request_mode", "SPM_THERMAL", FALSE>>, <<"swsys", "MD", TRUE>>,
         <<"swsys", "MD", FALSE>>}, {}, {})
V1Resetters ==
  Calls({<<"toprgu_assert", "MD">>, <<"toprgu_reset", "MFG">>, <<"restart", "NOLOCK">>},
        {<<"toprgu_assert", "MD_LITE">>, <<"toprgu_reset", "MD">>, <<"timeout">>,
         <<"restart", "NORMAL">>, <<"confirm">>}, {}, {})
Machines1 ==
  {Machine1(V1Sleepers, kick) : kick \in BOOLEAN}
    \cup {Machine1(V1Askers, TRUE), Machine1(V1Resetters, TRUE)}

MCStarts == Sleepers \cup Askers \cup Rebooters \cup Machines1

Racing ==
  Calls({<<"config">>, <<"set_mode">>, <<"restart">>, <<"dfd_thermal1", TRUE>>,
         <<"dfd_thermal2", TRUE>>, <<"dfd_timeout", TRUE>>, <<"cache", TRUE>>},
        {<<"confirm">>, <<"c2k", FALSE, "C2K">>, <<"emi_dcs", TRUE>>} \cup Both("dram"),
        {<<"sspm">>}, {})

MCRacing == {Machine(Racing, TRUE, TRUE, FALSE, FALSE)}
=============================================================================
