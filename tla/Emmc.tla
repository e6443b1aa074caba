--------------------------------- MODULE Emmc --------------------------------
(* The eMMC host, msdc0, between its probe and the next reset: supply and   *)
(* pads (msdc_cust.c), per-request encryption (mtk_hw_fde.c) and tuning for *)
(* the core voltages (autok_dvfs.c).  mtk_sd.c and the MMC core, which call *)
(* these functions, are not in the repository: what they may do is marked   *)
(* external.  msdc_of_parse refuses every other host.                       *)
EXTENDS Integers

CONSTANTS
  Requests     \* [fde, rw, key, sector]: data requests; rw: CMD17/18/24/25
               \* of the block layer

ASSUME RequestAssumption ==
  \A rq \in Requests : rq.fde \in BOOLEAN /\ rq.rw \in BOOLEAN /\ rq.sector \in Nat

None == "none"
VOL_3000 == 3000
AUTOK_VCORE_NUM == 4
AUTOK_VCORE_MERGE == AUTOK_VCORE_NUM
Levels == 0..(AUTOK_VCORE_NUM - 1)

VARIABLES
  start,       \* the build, the board and what may happen on it
  probe,       \* how far the probe has come
  vmmc,        \* what regulator_get() returned: "ok", None or "error"
  supply,      \* the regulator, and power_flash as status
  pads,        \* driving strengths and TDSEL/RDSEL in the pad registers
  timing,      \* ios.timing
  crypto,      \* the AES engine and what the driver believes of it
  request,     \* the request whose data is moving
  claim,       \* who has claimed the host
  vcore,       \* the core voltage, and lock_vcore
  res,         \* autok_res[]: the voltages each table was tuned at
  done,        \* autok_done has been completed
  autok        \* the call of emmc_autok()

hostVars == <<probe, vmmc>>
powerVars == <<supply, pads, timing>>
requestVars == <<crypto, request>>
autokVars == <<vcore, res, done, autok>>
emmcVars == <<hostVars, powerVars, requestVars, claim, autokVars>>

NoRequest == [fde |-> FALSE, rw |-> FALSE, key |-> None, sector |-> 0]
NoTable == [cmd |-> None, dat |-> None]

(* The state after a reset.  LK left the card powered, but the regulator    *)
(* framework counts no user yet.                                            *)
FreshSupply == [status |-> 0, volt |-> 0, use |-> 0, failed |-> FALSE, unbalanced |-> FALSE]
FreshPads == [drive |-> "lk", sel |-> "lk"]
FreshCrypto ==
  [init |-> FALSE, key |-> None, valid |-> None, mode |-> None, ctr |-> 0, bypass |-> TRUE]
FreshVcore == [volt : start.volts, locked : {FALSE}]
FreshTables == [l \in 0..AUTOK_VCORE_MERGE |-> NoTable]
FreshAutok == [pc |-> "idle", i |-> 0, last |-> None, params |-> NoTable, retuned |-> FALSE]

EmmcInit ==
  /\ probe = "none" /\ vmmc = None
  /\ supply = FreshSupply /\ pads = FreshPads /\ timing = "legacy"
  /\ crypto = FreshCrypto /\ request = NoRequest /\ claim = None
  /\ vcore \in FreshVcore /\ res = FreshTables /\ done = FALSE /\ autok = FreshAutok

EmmcReset ==
  /\ probe' = "none" /\ vmmc' = None
  /\ supply' = FreshSupply /\ pads' = FreshPads /\ timing' = "legacy"
  /\ crypto' = FreshCrypto /\ request' = NoRequest /\ claim' = None
  /\ vcore' \in FreshVcore /\ res' = FreshTables /\ done' = FALSE /\ autok' = FreshAutok

Can(o) == o \in start.ops
HighSpeed == timing \in {"HS200", "HS400"}

-----------------------------------------------------------------------------
(* Probe.                                                                   *)

(* A tree without an index, one with another index, an error of             *)
(* mmc_of_parse() or no registers end the probe; a failed allocation of     *)
(* host->hw is not looked at.                                               *)
OfParse(t) ==
  CASE t.index # 0 \/ ~t.mmc \/ ~t.base -> "absent"
    [] t.index = 0 /\ t.mmc /\ t.base /\ ~t.hw -> "oops"
    [] OTHER -> "parsed"

(* What regulator_get() returned is not looked at either.                   *)
DtInit ==
  /\ probe = "none"
  /\ \E t \in start.trees :
       /\ probe' = OfParse(t)
       /\ vmmc' = IF probe' = "parsed" THEN t.vmmc ELSE None
  /\ UNCHANGED <<start, powerVars, requestVars, claim, autokVars>>

(* Any of the source, bus and AES clocks may be missing.                    *)
GetClocks ==
  /\ probe = "parsed"
  /\ probe' \in IF start.clocks THEN {"clocked"} ELSE {"clocked", "absent"}
  /\ UNCHANGED <<start, vmmc, powerVars, requestVars, claim, autokVars>>

SetHostPowerControl ==
  /\ probe = "clocked"
  /\ probe' = "up"            \* power_control is msdc_emmc_power from here on
  /\ UNCHANGED <<start, vmmc, powerVars, requestVars, claim, autokVars>>

-----------------------------------------------------------------------------
(* Power.                                                                   *)

RegulatorDisable(s) ==
  IF s.use = 0 THEN [s EXCEPT !.unbalanced = TRUE] ELSE [s EXCEPT !.use = @ - 1]

(* The results of both regulator calls are ignored.                         *)
SetAndEnable(s, volt) ==
  {[s EXCEPT !.volt = volt, !.use = @ + 1]}
    \cup (IF start.flaky THEN {[s EXCEPT !.failed = TRUE]} ELSE {})

MutOffForgotten(on, reg, volt, s) ==     \* the driver keeps "on" after a power off
  CASE on /\ s.status = 0 -> {[r EXCEPT !.status = volt] : r \in SetAndEnable(s, volt)}
    [] ~on /\ s.status # 0 -> {RegulatorDisable(s)}
    [] OTHER -> {s}

LdoPower(on, reg, volt, s) ==
  CASE reg = None -> {s}
    [] reg # None /\ on /\ s.status = 0 ->
         {[r EXCEPT !.status = volt] : r \in SetAndEnable(s, volt)}
    [] reg # None /\ on /\ s.status \notin {0, volt} ->
         {[r EXCEPT !.status = volt] : r \in SetAndEnable(RegulatorDisable(s), volt)}
    [] reg # None /\ ~on /\ s.status # 0 -> {[RegulatorDisable(s) EXCEPT !.status = 0]}
    [] OTHER -> {s}

SelFor1V8 == 0        \* MSDC_TDRDSEL_1V8: not the value of the call
SetPads(drive) == [drive |-> drive, sel |-> SelFor1V8]

(* An error pointer is not NULL: the first use of the regulator is an oops. *)
EmmcPower(on) ==
  /\ probe = "up" /\ claim = None /\ Can("power")
  /\ IF on THEN timing = "legacy" ELSE Can("off")
  /\ pads' = IF on THEN SetPads("default") ELSE pads
  /\ IF vmmc = "error" /\ on
       THEN probe' = "oops" /\ UNCHANGED supply
       ELSE supply' \in LdoPower(on, vmmc, VOL_3000, supply) /\ UNCHANGED probe
  /\ timing' = "legacy"
  /\ UNCHANGED <<start, vmmc, requestVars, claim, autokVars>>

(* External: the core raises the bus speed and mtk_sd.c the drive strength. *)
SwitchTiming ==
  /\ probe = "up" /\ claim = None /\ supply.status # 0 /\ Can("tune")
  /\ timing' = CASE timing = "legacy" /\ start.caps # {} -> "HS200"
                 [] timing = "HS200" /\ "HS400" \in start.caps -> "HS400"
                 [] OTHER -> timing
  /\ timing' # timing
  /\ pads' = SetPads(timing')
  /\ UNCHANGED <<start, hostVars, supply, requestVars, claim, autokVars>>

-----------------------------------------------------------------------------
(* Encryption: msdc_pre_crypto() before the data of a request, and          *)
(* msdc_post_crypto() after it.                                             *)

Counted == {"XTS", "ESSIV", "BITLOCKER", "CTR"}
Plain == {"ECB", "CBC", "CBC_MAC"}
NeedsInit(rq) == ~crypto.init \/ crypto.key # rq.key

(* The secure call installs what it likes; its result is not looked at.     *)
FdeInit(rq) ==
  IF NeedsInit(rq)
    THEN {[crypto EXCEPT !.init = TRUE, !.key = rq.key, !.valid = v, !.mode = start.mode] :
            v \in IF start.secure THEN {"gp0", "gp1"} ELSE {"gp0", None}}
    ELSE {crypto}

(* CMD17..25 carry a byte address unless the card is block addressed.       *)
Argument(rq) == IF start.blockaddr THEN rq.sector ELSE rq.sector * 512
BlockAddress(rq) == IF start.blockaddr THEN Argument(rq) ELSE Argument(rq) \div 512

(* Without a valid configuration, or with an unknown mode, the engine stays *)
(* bypassed.                                                                *)
SwitchConfig(c, blk) ==
  IF c.valid # None /\ c.mode \in Counted \cup Plain
    THEN [c EXCEPT !.ctr = IF c.mode \in Counted THEN blk ELSE 0, !.bypass = FALSE]
    ELSE c

PreCrypto(rq) ==
  IF rq.rw /\ rq.fde THEN {SwitchConfig(c, BlockAddress(rq)) : c \in FdeInit(rq)}
                     ELSE {crypto}
MutStaysEnabled == crypto
PostCrypto == [crypto EXCEPT !.bypass = TRUE]

BeginData ==
  /\ probe = "up" /\ claim = None /\ supply.status # 0 /\ Can("request")
  /\ request' \in Requests
  /\ crypto' \in PreCrypto(request')
  /\ claim' = "core"
  /\ UNCHANGED <<start, hostVars, powerVars, autokVars>>

EndData ==
  /\ claim = "core"
  /\ crypto' = PostCrypto /\ request' = NoRequest /\ claim' = None
  /\ UNCHANGED <<start, hostVars, powerVars, autokVars>>

-----------------------------------------------------------------------------
(* Tuning.                                                                  *)

(* emmc_execute_dvfs_autok(): tuning at the present voltage fills a table   *)
(* and leaves the parameters in the registers; CMD13 tunes the command line *)
(* only.  A card on its way to HS400 is not done after HS200.               *)
Slot == IF start.vcorefs THEN AUTOK_VCORE_MERGE ELSE 0
Tuned(table, opcode) ==
  CASE ~HighSpeed -> table
    [] HighSpeed /\ opcode = "SEND_STATUS" -> [table EXCEPT !.cmd = vcore.volt]
    [] OTHER -> [cmd |-> vcore.volt, dat |-> vcore.volt]
Completes == timing = "HS400" \/ (timing = "HS200" /\ "HS400" \notin start.caps)

Tune(opcode) ==
  /\ probe = "up" /\ claim = None /\ HighSpeed /\ Can("tune")
  /\ res' = [res EXCEPT ![Slot] = Tuned(@, opcode)]
  /\ done' = (done \/ Completes)
  /\ autok' = [autok EXCEPT !.params = res'[Slot], !.retuned = @ \/ autok.pc = "returned"]
  /\ UNCHANGED <<start, hostVars, powerVars, requestVars, claim, vcore>>

(* External: the DVFS driver calls emmc_autok() first; then the voltage     *)
(* follows the load, unless lock_vcore is set.                              *)
ScaleVcore ==
  /\ autok.pc \in {"returned", "unsupported"} /\ ~vcore.locked
  /\ vcore' \in [volt : start.volts, locked : {FALSE}]
  /\ UNCHANGED <<start, hostVars, powerVars, requestVars, claim, res, done, autok>>

At(pc) == Can("autok") /\ autok.pc = pc
Goto(pc) == autok' = [autok EXCEPT !.pc = pc]
Elsewhere == UNCHANGED <<start, hostVars, powerVars, requestVars>>

(* emmc_autok(), called by the SPM driver once per boot: without            *)
(* VCOREFS_READY it is empty, and a slow host has nothing to tune.  The     *)
(* wait for the first tuning may time out.                                  *)
AutokBegin ==
  /\ At("idle")
  /\ \/ ~start.vcorefs /\ Goto("returned") /\ UNCHANGED done
     \/ start.vcorefs /\ probe # "up" /\ Goto("failed") /\ UNCHANGED done
     \/ start.vcorefs /\ probe = "up" /\ start.caps = {} /\ Goto("unsupported") /\ UNCHANGED done
     \/ start.vcorefs /\ probe = "up" /\ start.caps # {} /\ done /\ done' = FALSE /\ Goto("claim")
     \/ start.vcorefs /\ probe = "up" /\ start.caps # {} /\ ~done /\ Goto("failed")
        /\ UNCHANGED done
  /\ Elsewhere /\ UNCHANGED <<claim, vcore, res>>

MutNoClaim ==
  /\ At("claim") /\ Goto(IF start.hwcq THEN "cqe_off" ELSE "force")
  /\ Elsewhere /\ UNCHANGED <<claim, vcore, res, done>>

AutokClaim ==
  /\ At("claim") /\ claim = None /\ claim' = "spm"
  /\ Goto(IF start.hwcq THEN "cqe_off" ELSE "force")
  /\ Elsewhere /\ UNCHANGED <<vcore, res, done>>

(* A command queue that does not halt, or does not go on, ends the call     *)
(* with the host still claimed.                                             *)
AutokSwitchCqe(pc, next) ==
  /\ At(pc)
  /\ autok' \in {[autok EXCEPT !.pc = p] : p \in {next, "cqe_failed"}}
  /\ Elsewhere /\ UNCHANGED <<claim, vcore, res, done>>

(* One pass of the loop: force the voltage of an operating point and read   *)
(* it back; then copy the last table if the voltage is the same, or tune.   *)
AutokForce ==
  /\ At("force")
  /\ vcore' = [vcore EXCEPT !.volt = start.opp[autok.i]]
  /\ Goto("tune")
  /\ Elsewhere /\ UNCHANGED <<claim, res, done>>

MutCopyFirst(i) ==
  IF vcore.volt = autok.last THEN [res EXCEPT ![i] = res[0]]
    ELSE LET t == Tuned(res[Slot], "SEND_TUNING") IN [res EXCEPT ![Slot] = t, ![i] = t]

LoopTables(i) ==
  IF vcore.volt = autok.last
    THEN [res EXCEPT ![i] = res[i - 1]]
    ELSE LET t == Tuned(res[Slot], "SEND_TUNING") IN [res EXCEPT ![Slot] = t, ![i] = t]

AutokTune ==
  /\ At("tune")
  /\ res' = LoopTables(autok.i)
  /\ done' = (done \/ (Completes /\ vcore.volt # autok.last))
  /\ autok' = [autok EXCEPT
       !.pc = IF autok.i = AUTOK_VCORE_NUM - 1 THEN "merge" ELSE "force",
       !.i = IF @ = AUTOK_VCORE_NUM - 1 THEN @ ELSE @ + 1,
       !.last = vcore.volt, !.params = res'[Slot]]
  /\ Elsewhere /\ UNCHANGED <<claim, vcore>>

(* One set of parameters for every voltage if the windows overlap enough;   *)
(* otherwise the parameters of level 0, and the voltage is to stay there.   *)
AutokMerge ==
  /\ At("merge")
  /\ res' = [res EXCEPT ![AUTOK_VCORE_MERGE] = [cmd |-> "merged", dat |-> "merged"]]
  /\ \E merged \in BOOLEAN :
       /\ autok' = [autok EXCEPT
            !.params = IF merged THEN res'[AUTOK_VCORE_MERGE] ELSE res[0],
            !.pc = IF start.hwcq THEN "cqe_on" ELSE "release"]
       /\ vcore' = [volt |-> IF merged THEN vcore.volt ELSE start.opp[0], locked |-> ~merged]
  /\ Elsewhere /\ UNCHANGED <<claim, done>>

MutKeepsClaim ==
  /\ At("release") /\ Goto("returned")
  /\ Elsewhere /\ UNCHANGED <<claim, vcore, res, done>>

AutokRelease ==
  /\ At("release") /\ claim' = None /\ Goto("returned")
  /\ Elsewhere /\ UNCHANGED <<vcore, res, done>>

-----------------------------------------------------------------------------
EmmcNext ==
  \/ DtInit \/ GetClocks \/ SetHostPowerControl
  \/ \E on \in BOOLEAN : EmmcPower(on)
  \/ SwitchTiming \/ BeginData \/ EndData
  \/ \E opcode \in {"SEND_STATUS", "SEND_TUNING"} : Tune(opcode)
  \/ ScaleVcore \/ AutokBegin \/ AutokClaim
  \/ AutokSwitchCqe("cqe_off", "force") \/ AutokSwitchCqe("cqe_on", "release")
  \/ AutokForce \/ AutokTune \/ AutokMerge \/ AutokRelease

-----------------------------------------------------------------------------
(* msdc_ldo_power() and the regulator agree through any sequence of power   *)
(* calls, repeated ones included: one user at most, one with the right      *)
(* voltage while the driver says on, none while it says off, unless the     *)
(* regulator refused a call, which the driver does not notice.              *)
SupplyCounted ==
  /\ supply.use \in {0, 1}
  /\ supply.status = 0 => supply.use = 0
  /\ supply.unbalanced => supply.failed
  /\ supply.status # 0 /\ ~supply.failed => supply.use = 1 /\ supply.volt = supply.status

(* A card that comes back from a power cycle finds the pads at the default  *)
(* strength and not at that of the bus speed it was switched off with.      *)
PadsReset == supply.status # 0 /\ timing = "legacy" => pads = SetPads("default")
SupplyFollows == SupplyCounted /\ PadsReset

(* While data moves the engine is in use only for an FDE request, with the  *)
(* request's key believed installed and its sector as the counter, whatever *)
(* the requests before it were; and every FDE request uses it, if the       *)
(* secure call did its part and the mode is known.                          *)
CryptoExact ==
  claim = "core" =>
    /\ ~crypto.bypass =>
         /\ request.fde /\ request.rw /\ crypto.init /\ crypto.key = request.key
         /\ crypto.ctr = IF crypto.mode \in Counted THEN request.sector ELSE 0
    /\ request.fde /\ request.rw /\ start.secure /\ start.mode \in Counted \cup Plain =>
         ~crypto.bypass

(* When emmc_autok() has gone through the operating points, table i holds   *)
(* a full tuning at the voltage of point i, copied or not.                  *)
TablesMatchVoltage ==
  start.vcorefs /\ autok.pc \in {"merge", "cqe_on", "release", "returned"} =>
    \A l \in Levels : res[l] = [cmd |-> start.opp[l], dat |-> start.opp[l]]

(* Data never moves at a core voltage that the parameters in the registers  *)
(* were not tuned for, while emmc_autok() forces voltages and after it,     *)
(* until the card is tuned again.                                           *)
ParamsFitVoltage ==
  start.vcorefs /\ claim = "core" /\ autok.params.dat # None /\ ~autok.retuned =>
    \A line \in {"cmd", "dat"} : autok.params[line] \in {vcore.volt, "merged"}
=============================================================================
