--------------------------------- MODULE Boot --------------------------------
(* From one boot to the next: LK's count of boots (auto_fastboot_check in   *)
(* board-selene.c), the kernel's thermal reset guard (patch 0003), and the  *)
(* eMMC host, all of whose state but LK's environment a reset clears.       *)
EXTENDS Emmc

CONSTANTS
  Starts,      \* the machines to start from
  INT_MAX,     \* the largest int
  Overflown,   \* what an int that overflows may be: C leaves it open
  Wrap,        \* 2^32 ms, in units of SYSRST_BOOT_GRACE_MS
  MaxUptime,   \* bound on the uptime that is followed
  MaxHistory   \* bound on the counts of the history

BOOTLOOP_THRESHOLD == 5
SYSRST_BOOT_GRACE_MS == 1

NoDigits == -1   \* kaeru.bootcount is not there or does not begin with a digit

ASSUME BootAssumption ==
  /\ INT_MAX \in Nat /\ INT_MAX > BOOTLOOP_THRESHOLD /\ Overflown \subseteq Int
  /\ Wrap \in Nat \ {0} /\ MaxUptime \in Nat /\ MaxHistory \in Nat
  /\ MaxUptime > Wrap /\ MaxHistory >= 5

(* A machine's operating points are voltages it has, and the DVFS driver    *)
(* calls emmc_autok() before the host can suspend ("before mmcblk0 inited + *)
(* 3s", autok_dvfs.c:888).                                                  *)
ASSUME StartAssumption ==
  \A s \in Starts :
    /\ {s.env, s.flaky, s.secure, s.blockaddr, s.vcorefs, s.hwcq} \subseteq BOOLEAN
    /\ s.values \subseteq Nat \cup {NoDigits}
    /\ s.volts \cap {None, "merged"} = {} /\ s.opp \in [Levels -> s.volts]
    /\ "autok" \in s.ops => "off" \notin s.ops

VARIABLES
  phase,       \* "lk", "fastboot" or "kernel"
  env,         \* kaeru.bootcount, the number that its digits spell
  uptime,      \* of the kernel, in units of the grace period
  disabled,    \* sysrst_reset_disabled
  trip,        \* history: the last thermal trip, and whether one came early
  history      \* history: what happened since the last fastboot

bootVars == <<phase, env, history>>
thermalVars == <<uptime, disabled, trip>>
vars == <<start, emmcVars, bootVars, thermalVars>>

NoTrip == [at |-> 0, early |-> FALSE, outcome |-> None]
NoHistory == [boots |-> 0, failed |-> 0, from |-> 0, by |-> None]
Bounded(n) == IF n > MaxHistory THEN MaxHistory ELSE n

Init ==
  /\ start \in Starts /\ EmmcInit
  /\ phase = "lk" /\ env = NoDigits /\ history = NoHistory
  /\ uptime = 0 /\ disabled = FALSE /\ trip = NoTrip

-----------------------------------------------------------------------------
(* LK.                                                                      *)

(* The count is an int and may overflow over the digits or when it is       *)
(* incremented; a negative one is written back as an empty string.          *)
Number(value) == IF value = NoDigits THEN 0 ELSE value
Counts(value) == IF Number(value) < INT_MAX THEN {Number(value) + 1} ELSE Overflown
Text(count) == IF count < 0 THEN NoDigits ELSE count
Stored(value) == IF start.env THEN value ELSE env  \* set_env's result is ignored
MutOneMore(count) == count > BOOTLOOP_THRESHOLD
AtThreshold(count) == count >= BOOTLOOP_THRESHOLD

(* board_late_init() counts every boot.  External: a key may ask for        *)
(* fastboot in any boot.                                                    *)
AutoFastbootCheck ==
  /\ phase = "lk"
  /\ \E count \in Counts(env) :
       \/ /\ AtThreshold(count)
          /\ env' = Stored(0) /\ phase' = "fastboot"
          /\ history' = [history EXCEPT !.by = "counter"]
       \/ /\ ~AtThreshold(count)
          /\ env' = Stored(Text(count)) /\ phase' = "kernel"
          /\ history' = [history EXCEPT !.boots = Bounded(@ + 1)]
       \/ /\ ~AtThreshold(count) /\ Can("key")
          /\ env' = Stored(Text(count)) /\ phase' = "fastboot"
          /\ history' = [history EXCEPT !.by = "key"]
  /\ trip' = NoTrip
  /\ UNCHANGED <<start, emmcVars, uptime, disabled>>

(* fastboot oem env set kaeru.bootcount                                     *)
OperatorSetsCount ==
  /\ phase = "fastboot"
  /\ env' \in {Stored(v) : v \in start.values}
  /\ UNCHANGED <<start, emmcVars, phase, history, thermalVars>>

LeaveFastboot ==
  /\ phase = "fastboot"
  /\ phase' = "lk" /\ history' = [NoHistory EXCEPT !.from = Number(env)]
  /\ UNCHANGED <<start, emmcVars, env, thermalVars>>

-----------------------------------------------------------------------------
(* The kernel.                                                              *)
Running == phase = "kernel" /\ probe # "oops"

Reset(success) ==
  /\ phase' = "lk" /\ EmmcReset /\ uptime' = 0 /\ disabled' = FALSE
  /\ history' = [history EXCEPT !.failed = IF success THEN 0 ELSE Bounded(@ + 1)]
  /\ UNCHANGED <<start, env>>

Crash == phase = "kernel" /\ Can("restart") /\ Reset(FALSE) /\ UNCHANGED trip
(* A system that came up with its storage and is restarted by its user.     *)
Reboot == Running /\ probe = "up" /\ Can("restart") /\ Reset(TRUE) /\ UNCHANGED trip

Tick ==
  /\ Running /\ Can("trip") /\ uptime < MaxUptime
  /\ uptime' = uptime + 1
  /\ UNCHANGED <<start, emmcVars, bootVars, disabled, trip>>

(* sysrst_thermal_reset(): up_ms is an unsigned int.                        *)
UpMs == uptime % Wrap
MutGraceInclusive == UpMs <= SYSRST_BOOT_GRACE_MS
InGrace == UpMs < SYSRST_BOOT_GRACE_MS
TripSeen(outcome) ==
  trip' = [at |-> uptime, early |-> trip.early \/ uptime < SYSRST_BOOT_GRACE_MS,
           outcome |-> outcome]
ThermalTrip ==
  /\ Running /\ Can("trip")
  /\ \/ /\ InGrace
        /\ disabled' = TRUE /\ TripSeen("ignored")
        /\ UNCHANGED <<start, emmcVars, bootVars, uptime>>
     \/ /\ ~InGrace /\ disabled
        /\ TripSeen("ignored")
        /\ UNCHANGED <<start, emmcVars, bootVars, uptime, disabled>>
     \/ /\ ~InGrace /\ ~disabled
        /\ TripSeen("reset") /\ Reset(FALSE)                       \* BUG()

HostStep == Running /\ EmmcNext /\ UNCHANGED <<bootVars, thermalVars>>

Next ==
  \/ AutoFastbootCheck \/ OperatorSetsCount \/ LeaveFastboot
  \/ Crash \/ Reboot \/ Tick \/ ThermalTrip \/ HostStep

Spec == Init /\ [][Next]_vars

-----------------------------------------------------------------------------
TypeOK ==
  /\ phase \in {"lk", "fastboot", "kernel"} /\ env \in Nat \cup {NoDigits}
  /\ uptime \in 0..MaxUptime /\ disabled \in BOOLEAN
  /\ phase # "kernel" => probe = "none" /\ claim = None /\ uptime = 0
  /\ claim \in {None, "core", "spm"} /\ supply.status \in {0, VOL_3000}
  /\ claim = "spm" <=> autok.pc \in
       {"cqe_off", "cqe_on", "cqe_failed", "force", "tune", "merge", "release"}

(* However its boots end, a kernel runs fewer than five times in a row      *)
(* before LK stops in fastboot, after "oem env set kaeru.bootcount 3" once, *)
(* and five times if the operator stored a number that no int can count on  *)
(* from; if LK's environment can be written.                                *)
BootsAfter(number) ==
  IF number >= INT_MAX THEN 5 ELSE IF number >= 4 THEN 0 ELSE 4 - number
FastbootInTime == start.env => history.boots <= BootsAfter(history.from)

(* "N ardisik basarisiz boot sonrasi otomatik fastboot": the counter stops  *)
(* the boot only if every boot since the last fastboot has failed.          *)
FastbootOnlyAfterFailures ==
  phase = "fastboot" /\ history.by = "counter" => history.failed = history.boots

(* A trip resets the phone only after the grace period and if no trip came  *)
(* inside it in this boot; any other trip does, until the uptime wraps.     *)
ThermalGuardHolds ==
  /\ trip.outcome = "reset" => trip.at >= SYSRST_BOOT_GRACE_MS /\ ~trip.early
  /\ trip.outcome = "ignored" =>
       trip.at < SYSRST_BOOT_GRACE_MS \/ trip.early \/ trip.at >= Wrap
=============================================================================
