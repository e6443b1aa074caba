----------------------------- MODULE BootProofs -----------------------------
(***************************************************************************)
(* What holds of every sequence of boots, and of the eMMC host in each of  *)
(* them, for all machines, thresholds of the clock and requests.           *)
(***************************************************************************)
EXTENDS Boot, TLAPS

Volts == UNION {s.volts : s \in Starts}
Tables == [cmd : Volts \cup {None, "merged"}, dat : Volts \cup {None, "merged"}]
Slots == 0 .. AUTOK_VCORE_MERGE
InClaim == {"cqe_off", "cqe_on", "cqe_failed", "force", "tune", "merge", "release"}
Pcs == InClaim \cup {"idle", "failed", "unsupported", "claim", "returned"}

\* Which values the records hold; the provers reach Boolean fields only
\* through the domains.
PowerRecord(s) ==
  /\ DOMAIN s = {"status", "volt", "use", "failed", "unbalanced"}
  /\ s.status \in {0, VOL_3000} /\ s.use \in Int
PowerShape == PowerRecord(supply)
CryptoRecord(c) ==
  /\ DOMAIN c = {"init", "key", "valid", "mode", "ctr", "bypass"}
  /\ c.ctr \in Nat
CryptoShape == CryptoRecord(crypto)
RequestShape == request \in Requests \cup {NoRequest}
CallShape ==
  /\ DOMAIN autok = {"pc", "i", "last", "params", "retuned"}
  /\ autok.pc \in Pcs /\ autok.i \in Levels /\ autok.last \in Volts \cup {None}
  /\ autok.params \in Tables
AutokShape ==
  /\ DOMAIN vcore = {"volt", "locked"} /\ vcore.volt \in Volts
  /\ res \in [Slots -> Tables]
  /\ CallShape
BootShape ==
  /\ DOMAIN history = {"boots", "failed", "from", "by"}
  /\ history.boots \in Nat /\ history.failed \in Nat /\ history.from \in Nat
  /\ DOMAIN trip = {"at", "early", "outcome"} /\ trip.at \in Nat
  /\ env \in Nat \cup {NoDigits} /\ uptime \in Nat /\ disabled \in BOOLEAN
HostShapes ==
  start \in Starts /\ PowerShape /\ CryptoShape /\ RequestShape /\ AutokShape

\* LK's variable is what it was when fastboot was left, and one more per boot;
\* an overflow happens at once, and the count goes on from what it left.
Counting ==
  phase # "fastboot" =>
    \/ /\ Number(env) = history.from + history.boots
       /\ history.from >= INT_MAX => history.boots = 0
    \/ /\ history.from >= INT_MAX /\ Number(env) <= 4
       /\ history.boots \in 1 .. Number(env) + 1
CountInv ==
  start.env => Counting /\ FastbootInTime

\* The guard is off for this boot because of an early trip or of the wrap.
GuardInv ==
  /\ phase # "kernel" => ~disabled
  /\ phase = "kernel" /\ trip.early => disabled
  /\ disabled => trip.early \/ uptime >= Wrap

\* A boot begins with nothing running.
PhaseInv ==
  /\ phase \in {"lk", "fastboot", "kernel"} /\ uptime <= MaxUptime
  /\ phase # "kernel" => probe = "none" /\ claim = None /\ uptime = 0

\* The regulator is in use only by a host that is up.
SupplyInv ==
  /\ SupplyFollows
  /\ supply.status # 0 => probe = "up" /\ vmmc \notin {None, "error"}

\* The engine is bypassed between requests; what is believed installed is.
CryptoInv ==
  /\ CryptoExact
  /\ claim # "core" => crypto.bypass
  /\ crypto.init => crypto.mode = start.mode
  /\ crypto.init /\ start.secure => crypto.valid # None

\* The host is claimed by emmc_autok() exactly from its claim to its release.
ClaimInv ==
  /\ claim \in {None, "core", "spm"}
  /\ claim = "spm" <=> autok.pc \in InClaim

\* The tables below the operating point that is being tuned.
Full(v) == [cmd |-> v, dat |-> v]
AtPoint ==
  autok.pc \in {"cqe_off", "force", "tune"} =>
    /\ HighSpeed
    /\ \A l \in Levels : l < autok.i => res[l] = Full(start.opp[l])
    /\ autok.i > 0 => autok.last = start.opp[autok.i - 1]
    /\ autok.i = 0 => autok.last = None
    /\ autok.pc = "tune" => vcore.volt = start.opp[autok.i]
TablesInv ==
  /\ autok.pc \in {"idle", "failed", "unsupported", "claim", "cqe_off"} =>
       autok.i = 0 /\ autok.last = None
  /\ AtPoint
  /\ TablesMatchVoltage

\* emmc_autok() tunes hosts that have a fast mode and have been tuned in it,
\* in a build with VCOREFS_READY.
FastInv ==
  /\ start.caps = {} => timing = "legacy" /\ autok.params = NoTable
  /\ autok.pc # "idle" => Can("autok")
  /\ autok.pc = "unsupported" => start.caps = {}
  /\ done /\ Can("autok") => HighSpeed
  /\ autok.pc \in InClaim \cup {"claim"} => HighSpeed /\ start.vcorefs

\* The parameters in the registers are those of the voltage, or of all.
Fits ==
  /\ autok.pc \in {"idle", "failed", "claim"} =>
       /\ autok.params = res[AUTOK_VCORE_MERGE]
       /\ autok.params.cmd \in {None, vcore.volt} /\ autok.params.dat \in {None, vcore.volt}
       /\ autok.params.cmd = None => autok.params.dat = None
  /\ autok.pc \in {"cqe_on", "release", "returned"} /\ ~autok.retuned =>
       \/ autok.params = Full("merged")
       \/ autok.params = Full(vcore.volt) /\ vcore.locked
ParamsInv == start.vcorefs => Fits

HostInv ==
  HostShapes /\ SupplyInv /\ CryptoInv /\ ClaimInv /\ FastInv /\ TablesInv /\ ParamsInv
BootInv == BootShape /\ CountInv /\ GuardInv /\ PhaseInv /\ ThermalGuardHolds
IInv == HostInv /\ BootInv

-----------------------------------------------------------------------------
LEMMA NumbersFact ==
  AUTOK_VCORE_NUM = 4 /\ AUTOK_VCORE_MERGE = 4 /\ Levels = 0 .. 3 /\ Slots = 0 .. 4
BY DEF AUTOK_VCORE_NUM, AUTOK_VCORE_MERGE, Levels, Slots

LEMMA StartFact ==
  ASSUME NEW s \in Starts
  PROVE  /\ s.volts \subseteq Volts /\ s.opp \in [Levels -> Volts]
         /\ None \notin s.volts /\ "merged" \notin s.volts
         /\ s.vcorefs \in BOOLEAN /\ s.secure \in BOOLEAN /\ s.blockaddr \in BOOLEAN
         /\ s.env \in BOOLEAN
BY StartAssumption DEF Volts

LEMMA VoltsFact == None \notin Volts /\ "merged" \notin Volts
BY StartAssumption DEF Volts

\* A host that has just been reset.
LEMMA FreshHost == start \in Starts /\ EmmcInit => HostInv
<1> SUFFICES ASSUME start \in Starts, EmmcInit PROVE HostInv
  OBVIOUS
<1>1. HostShapes
  <2>1. PowerShape /\ RequestShape
    BY DEF EmmcInit, PowerShape, PowerRecord, RequestShape, FreshSupply
  <2>2. CryptoShape
    BY DEF EmmcInit, CryptoShape, CryptoRecord, FreshCrypto
  <2>3. NoTable \in Tables
    BY DEF NoTable, Tables
  <2>4. DOMAIN vcore = {"volt", "locked"} /\ vcore.volt \in Volts
    BY StartFact DEF EmmcInit, FreshVcore
  <2>5. res \in [Slots -> Tables]
    BY <2>3 DEF EmmcInit, FreshTables, Slots
  <2>6. /\ DOMAIN autok = {"pc", "i", "last", "params", "retuned"}
        /\ autok.pc \in Pcs /\ autok.i \in Levels /\ autok.last \in Volts \cup {None}
        /\ autok.params \in Tables
    BY <2>3, NumbersFact DEF EmmcInit, FreshAutok, Pcs
  <2> QED BY <2>1, <2>2, <2>4, <2>5, <2>6 DEF HostShapes, AutokShape, CallShape
<1>2. SupplyInv
  BY DEF EmmcInit, SupplyInv, SupplyFollows, SupplyCounted, PadsReset, FreshSupply
<1>3. CryptoInv /\ ClaimInv
  BY DEF EmmcInit, CryptoInv, CryptoExact, FreshCrypto, FreshAutok, ClaimInv, InClaim, None
<1>4. FastInv /\ TablesInv
  BY DEF EmmcInit, FastInv, TablesInv, AtPoint, TablesMatchVoltage, FreshAutok, InClaim
<1>5. ParamsInv
  <2>1. /\ autok.pc = "idle" /\ autok.params = NoTable
        /\ res[AUTOK_VCORE_MERGE] = NoTable
    BY NumbersFact DEF EmmcInit, FreshAutok, FreshTables
  <2> QED BY <2>1 DEF ParamsInv, Fits, NoTable
<1> QED BY <1>1, <1>2, <1>3, <1>4, <1>5 DEF HostInv

LEMMA SameHost ==
  HostInv /\ UNCHANGED <<start, emmcVars>> => HostInv'
BY DEF HostInv, emmcVars, hostVars, powerVars, requestVars, autokVars, HostShapes, PowerShape,
       PowerRecord, CryptoShape, CryptoRecord, RequestShape, AutokShape, CallShape,
       SupplyInv, SupplyFollows, SupplyCounted,
       PadsReset, CryptoInv, CryptoExact, ClaimInv, FastInv, TablesInv, AtPoint,
       TablesMatchVoltage, ParamsInv, Fits, HighSpeed, Can

-----------------------------------------------------------------------------
\* Which actions of the host touch what.
Probing == DtInit \/ GetClocks \/ SetHostPowerControl
Powering == \E on \in BOOLEAN : EmmcPower(on)
Tuning == \E opcode \in {"SEND_STATUS", "SEND_TUNING"} : Tune(opcode)
SwitchingCqe == AutokSwitchCqe("cqe_off", "force") \/ AutokSwitchCqe("cqe_on", "release")
Autoking ==
  \/ AutokBegin \/ AutokClaim \/ SwitchingCqe
  \/ AutokForce \/ AutokTune \/ AutokMerge \/ AutokRelease
Requesting == BeginData \/ EndData

LEMMA HostActions ==
  EmmcNext => Probing \/ Powering \/ SwitchTiming \/ Requesting \/ Tuning \/ ScaleVcore \/ Autoking
BY DEF EmmcNext, Probing, Powering, Tuning, SwitchingCqe, Autoking, Requesting

LEMMA HostFrames ==
  /\ Probing => UNCHANGED <<start, powerVars, requestVars, claim, autokVars>>
  /\ Powering => UNCHANGED <<start, vmmc, requestVars, claim, autokVars>>
  /\ SwitchTiming => UNCHANGED <<start, hostVars, supply, requestVars, claim, autokVars>>
  /\ Requesting => UNCHANGED <<start, hostVars, powerVars, autokVars>>
  /\ Tuning => UNCHANGED <<start, hostVars, powerVars, requestVars, claim, vcore>>
  /\ ScaleVcore => UNCHANGED <<start, hostVars, powerVars, requestVars, claim, res, done, autok>>
  /\ Autoking => UNCHANGED <<start, hostVars, powerVars, requestVars>>
<1>1. Probing => UNCHANGED <<start, powerVars, requestVars, claim, autokVars>>
  BY DEF Probing, DtInit, GetClocks, SetHostPowerControl
<1>2. Powering => UNCHANGED <<start, vmmc, requestVars, claim, autokVars>>
  BY DEF Powering, EmmcPower
<1>3. SwitchTiming => UNCHANGED <<start, hostVars, supply, requestVars, claim, autokVars>>
  BY DEF SwitchTiming
<1>4. Requesting => UNCHANGED <<start, hostVars, powerVars, autokVars>>
  BY DEF Requesting, BeginData, EndData
<1>5. Tuning => UNCHANGED <<start, hostVars, powerVars, requestVars, claim, vcore>>
  BY DEF Tuning, Tune
<1>6. ScaleVcore =>
        UNCHANGED <<start, hostVars, powerVars, requestVars, claim, res, done, autok>>
  BY DEF ScaleVcore
<1>7. Autoking => UNCHANGED <<start, hostVars, powerVars, requestVars>>
  BY DEF Autoking, AutokBegin, AutokClaim, SwitchingCqe, AutokSwitchCqe, AutokForce, AutokTune,
         AutokMerge, AutokRelease, Elsewhere
<1> QED BY <1>1, <1>2, <1>3, <1>4, <1>5, <1>6, <1>7

-----------------------------------------------------------------------------
(* Power.                                                                  *)

\* What a call of msdc_ldo_power() does to the regulator.
LdoSame(on, reg, s, r) == r = s /\ (reg = None \/ (on <=> s.status # 0))
LdoOn(on, reg, s, r) ==
  /\ reg # None /\ on /\ s.status = 0 /\ r.status = VOL_3000
  /\ \/ r.use = s.use + 1 /\ r.volt = VOL_3000 /\ (r.failed <=> s.failed)
     \/ r.use = s.use /\ r.failed
  /\ (r.unbalanced <=> s.unbalanced)
LdoOff(on, reg, s, r) ==
  /\ reg # None /\ ~on /\ s.status # 0 /\ r.status = 0 /\ (r.failed <=> s.failed)
  /\ \/ s.use = 0 /\ r.use = 0 /\ r.unbalanced
     \/ s.use # 0 /\ r.use = s.use - 1 /\ (r.unbalanced <=> s.unbalanced)

LEMMA LdoFact ==
  ASSUME NEW on \in BOOLEAN, NEW reg, NEW s, NEW r \in LdoPower(on, reg, VOL_3000, s),
         PowerRecord(s)
  PROVE  /\ PowerRecord(r)
         /\ LdoSame(on, reg, s, r) \/ LdoOn(on, reg, s, r) \/ LdoOff(on, reg, s, r)
<1> USE DEF PowerRecord, VOL_3000
<1>1. CASE reg # None /\ on /\ s.status = 0
  <2>1. PICK q \in SetAndEnable(s, VOL_3000) : r = [q EXCEPT !.status = VOL_3000]
    BY <1>1 DEF LdoPower
  <2>2. CASE q = [s EXCEPT !.volt = VOL_3000, !.use = @ + 1]
    <3>1. /\ PowerRecord(q) /\ q.use = s.use + 1 /\ q.volt = VOL_3000
          /\ (q.failed <=> s.failed) /\ (q.unbalanced <=> s.unbalanced)
      BY <2>2
    <3>2. /\ PowerRecord(r) /\ r.use = q.use /\ r.volt = q.volt /\ r.status = VOL_3000
          /\ (r.failed <=> q.failed) /\ (r.unbalanced <=> q.unbalanced)
      BY <2>1, <3>1
    <3>3. LdoOn(on, reg, s, r)
      BY <1>1, <3>1, <3>2 DEF LdoOn
    <3> QED BY <3>2, <3>3
  <2>3. CASE q = [s EXCEPT !.failed = TRUE]
    <3>1. /\ PowerRecord(q) /\ q.use = s.use /\ q.failed
          /\ (q.unbalanced <=> s.unbalanced)
      BY <2>3
    <3>2. /\ PowerRecord(r) /\ r.use = q.use /\ r.volt = q.volt /\ r.status = VOL_3000
          /\ (r.failed <=> q.failed) /\ (r.unbalanced <=> q.unbalanced)
      BY <2>1, <3>1
    <3>3. LdoOn(on, reg, s, r)
      BY <1>1, <3>1, <3>2 DEF LdoOn
    <3> QED BY <3>2, <3>3
  <2> QED BY <2>1, <2>2, <2>3 DEF SetAndEnable
<1>2. CASE reg # None /\ ~on /\ s.status # 0
  <2>1. r = [RegulatorDisable(s) EXCEPT !.status = 0]
    BY <1>2 DEF LdoPower
  <2>2. CASE s.use = 0
    BY <1>2, <2>1, <2>2 DEF RegulatorDisable, LdoOff
  <2>3. CASE s.use # 0
    BY <1>2, <2>1, <2>3 DEF RegulatorDisable, LdoOff
  <2> QED BY <2>2, <2>3
<1>3. CASE reg = None \/ (on <=> s.status # 0)
  <2>1. r = s
    BY <1>3 DEF LdoPower
  <2> QED BY <1>3, <2>1 DEF LdoSame
<1> QED BY <1>1, <1>2, <1>3

LEMMA PowerCall ==
  ASSUME NEW on \in BOOLEAN, PowerShape, SupplyInv, EmmcPower(on)
  PROVE  PowerShape' /\ SupplyInv'
<1>1. vmmc' = vmmc /\ timing' = "legacy" /\ probe = "up"
  BY DEF EmmcPower
<1>2. CASE vmmc = "error" /\ on
  <2>1. supply' = supply /\ supply.status = 0
    BY <1>2 DEF EmmcPower, SupplyInv
  <2> QED
    BY <1>1, <2>1
       DEF PowerShape, PowerRecord, SupplyInv, SupplyFollows, SupplyCounted, PadsReset
<1>3. CASE ~(vmmc = "error" /\ on)
  <2>1. probe' = "up" /\ supply' \in LdoPower(on, vmmc, VOL_3000, supply)
    BY <1>1, <1>3 DEF EmmcPower
  <2>2. on => pads' = SetPads("default")'
    BY DEF EmmcPower, SetPads, SelFor1V8
  <2>3. PowerShape'
    BY <2>1, LdoFact DEF PowerShape
  <2>4. CASE LdoSame(on, vmmc, supply, supply')
    <3>1. supply' = supply /\ (supply.status # 0 => vmmc \notin {None, "error"} /\ on)
      BY <2>4 DEF LdoSame, SupplyInv
    <3> QED BY <1>1, <2>1, <2>2, <2>3, <3>1 DEF SupplyInv, SupplyFollows, SupplyCounted, PadsReset
  <2>5. CASE LdoOn(on, vmmc, supply, supply')
    <3>1. SupplyCounted'
      BY <2>5 DEF LdoOn, VOL_3000, SupplyInv, SupplyFollows, SupplyCounted
    <3> QED BY <1>1, <1>3, <2>1, <2>2, <2>3, <2>5, <3>1
            DEF LdoOn, SupplyInv, SupplyFollows, PadsReset
  <2>6. CASE LdoOff(on, vmmc, supply, supply')
    <3>1. SupplyCounted'
      BY <2>6 DEF LdoOff, SupplyInv, SupplyFollows, SupplyCounted
    <3> QED BY <2>3, <2>6, <3>1 DEF LdoOff, SupplyInv, SupplyFollows, PadsReset
  <2> QED BY <2>1, <2>4, <2>5, <2>6, LdoFact DEF PowerShape
<1> QED BY <1>2, <1>3

LEMMA SupplyStep ==
  ASSUME PowerShape, SupplyInv, EmmcNext
  PROVE  PowerShape' /\ SupplyInv'
<1> USE DEF PowerShape, PowerRecord, SupplyInv, SupplyFollows, SupplyCounted, PadsReset
<1>1. CASE Probing
  <2>1. UNCHANGED <<supply, pads, timing>>
    BY <1>1, HostFrames DEF powerVars
  <2>2. supply.status = 0
    BY <1>1 DEF Probing, DtInit, GetClocks, SetHostPowerControl
  <2> QED BY <2>1, <2>2
<1>2. CASE Powering
  BY <1>2, PowerCall DEF Powering
<1>3. CASE SwitchTiming
  <2>1. UNCHANGED <<probe, vmmc, supply>> /\ timing' # "legacy"
    BY <1>3 DEF SwitchTiming, hostVars
  <2> QED BY <2>1
<1>4. CASE Requesting \/ Tuning \/ ScaleVcore \/ Autoking
  <2>1. UNCHANGED <<probe, vmmc, supply, pads, timing>>
    BY <1>4, HostFrames DEF hostVars, powerVars
  <2> QED BY <2>1
<1> QED BY <1>1, <1>2, <1>3, <1>4, HostActions

-----------------------------------------------------------------------------
(* Encryption.                                                             *)

\* A block address is the sector of the request, in either addressing.
LEMMA SectorFact ==
  ASSUME start \in Starts, NEW rq \in Requests
  PROVE  BlockAddress(rq) = rq.sector /\ rq.sector \in Nat
<1>1. rq.sector \in Nat
  BY RequestAssumption
<1>2. (rq.sector * 512) \div 512 = rq.sector
  BY <1>1
<1> QED BY <1>1, <1>2 DEF BlockAddress, Argument

\* What msdc_pre_crypto() leaves for a request that is encrypted.
LEMMA FdeFact ==
  ASSUME start \in Starts, CryptoShape, CryptoInv, NEW rq \in Requests, NEW c \in FdeInit(rq)
  PROVE  /\ CryptoRecord(c) /\ c.init /\ c.key = rq.key /\ c.mode = start.mode
         /\ start.secure => c.valid # None
         /\ c.bypass <=> crypto.bypass
<1> USE DEF CryptoShape, CryptoRecord
<1>1. CASE NeedsInit(rq)
  <2>1. PICK v \in {"gp0", "gp1", None} :
          /\ c = [crypto EXCEPT !.init = TRUE, !.key = rq.key, !.valid = v, !.mode = start.mode]
          /\ start.secure => v # None
    BY <1>1 DEF FdeInit, None
  <2> QED BY <2>1
<1>2. CASE ~NeedsInit(rq)
  <2>1. c = crypto /\ crypto.init /\ crypto.key = rq.key
    BY <1>2 DEF FdeInit, NeedsInit
  <2> QED BY <2>1 DEF CryptoInv
<1> QED BY <1>1, <1>2

LEMMA BeginsExact ==
  ASSUME start \in Starts, CryptoShape, CryptoInv, BeginData
  PROVE  CryptoShape' /\ CryptoInv' /\ RequestShape'
<1>1. /\ request' \in Requests /\ crypto' \in PreCrypto(request') /\ claim' = "core"
      /\ start' = start /\ crypto.bypass
  BY DEF BeginData, CryptoInv, None
<1>2. CASE ~(request'.rw /\ request'.fde)
  <2>1. crypto' = crypto
    BY <1>1, <1>2 DEF PreCrypto
  <2> QED BY <1>1, <1>2, <2>1
         DEF CryptoShape, CryptoRecord, CryptoInv, CryptoExact, RequestShape
<1>3. CASE request'.rw /\ request'.fde
  <2>1. PICK c \in FdeInit(request') : crypto' = SwitchConfig(c, BlockAddress(request'))
    BY <1>1, <1>3 DEF PreCrypto
  <2>2. BlockAddress(request') = request'.sector /\ request'.sector \in Nat
    BY <1>1, SectorFact
  <2>3. /\ CryptoRecord(c) /\ c.init /\ c.key = request'.key /\ c.mode = start.mode
        /\ start.secure => c.valid # None
        /\ c.bypass
    BY <1>1, <2>1, FdeFact
  <2>4. CASE c.valid # None /\ c.mode \in Counted \cup Plain
    <3>1. crypto' = [c EXCEPT !.ctr = IF c.mode \in Counted THEN request'.sector ELSE 0,
                             !.bypass = FALSE]
      BY <2>1, <2>2, <2>4 DEF SwitchConfig
    <3>2. /\ CryptoRecord(crypto') /\ crypto'.init /\ crypto'.key = request'.key
          /\ crypto'.mode = start.mode /\ crypto'.valid = c.valid /\ ~crypto'.bypass
          /\ crypto'.ctr = IF c.mode \in Counted THEN request'.sector ELSE 0
      BY <2>2, <2>3, <3>1 DEF CryptoRecord
    <3> QED BY <1>1, <1>3, <2>3, <2>4, <3>2 DEF CryptoShape, CryptoInv, CryptoExact, RequestShape
  <2>5. CASE ~(c.valid # None /\ c.mode \in Counted \cup Plain)
    <3>1. crypto' = c
      BY <2>1, <2>5 DEF SwitchConfig
    <3> QED BY <1>1, <2>3, <2>5, <3>1 DEF CryptoShape, CryptoInv, CryptoExact, RequestShape
  <2> QED BY <2>4, <2>5
<1> QED BY <1>2, <1>3

LEMMA CryptoStep ==
  ASSUME start \in Starts, CryptoShape, RequestShape, CryptoInv, ClaimInv, EmmcNext
  PROVE  CryptoShape' /\ CryptoInv' /\ RequestShape'
<1>1. CASE BeginData
  BY <1>1, BeginsExact
<1>2. CASE EndData
  BY <1>2 DEF EndData, PostCrypto, CryptoShape, CryptoRecord, CryptoInv, CryptoExact,
              RequestShape, None
<1>3. CASE ~Requesting
  <2>1. UNCHANGED <<start, crypto, request>>
    BY <1>3, HostActions, HostFrames DEF requestVars
  <2>2. claim' = "core" <=> claim = "core"
    BY <1>3, HostActions, HostFrames
       DEF Autoking, AutokBegin, AutokClaim, SwitchingCqe, AutokSwitchCqe, AutokForce, AutokTune,
           AutokMerge, AutokRelease, At, ClaimInv, InClaim, None
  <2> QED BY <2>1, <2>2
         DEF CryptoShape, CryptoRecord, CryptoInv, CryptoExact, RequestShape
<1> QED BY <1>1, <1>2, <1>3 DEF Requesting

-----------------------------------------------------------------------------
(* Tuning.                                                                 *)

\* A step of emmc_autok() that only moves on.
LEMMA GotoFact ==
  ASSUME CallShape, NEW pc \in Pcs, autok' = [autok EXCEPT !.pc = pc]
  PROVE  /\ CallShape' /\ autok'.pc = pc /\ autok'.i = autok.i /\ autok'.last = autok.last
         /\ autok'.params = autok.params /\ (autok'.retuned <=> autok.retuned)
BY DEF CallShape

LEMMA TunedFact ==
  ASSUME NEW t \in Tables, NEW opcode, vcore.volt \in Volts
  PROVE  Tuned(t, opcode) \in Tables
BY DEF Tuned, Tables

LEMMA SlotFact == Slot \in Slots /\ (start.vcorefs => Slot = AUTOK_VCORE_MERGE)
BY DEF Slot, Slots, AUTOK_VCORE_MERGE, AUTOK_VCORE_NUM

LEMMA AutokMoves ==
  ASSUME AutokBegin \/ AutokClaim \/ SwitchingCqe \/ AutokForce \/ AutokRelease
  PROVE  \E pc \in Pcs : autok' = [autok EXCEPT !.pc = pc] /\ res' = res
<1>1. CASE AutokBegin
  BY <1>1 DEF AutokBegin, Goto, Pcs
<1>2. CASE AutokClaim
  BY <1>2 DEF AutokClaim, Goto, Pcs, InClaim
<1>3. CASE SwitchingCqe
  BY <1>3 DEF SwitchingCqe, AutokSwitchCqe, Pcs, InClaim
<1>4. CASE AutokForce
  BY <1>4 DEF AutokForce, Goto, Pcs, InClaim
<1>5. CASE AutokRelease
  BY <1>5 DEF AutokRelease, Goto, Pcs
<1> QED BY <1>1, <1>2, <1>3, <1>4, <1>5

\* One pass of the loop: a table for the point, copied or tuned.
LEMMA LoopFact ==
  ASSUME AutokShape, AutokTune, start \in Starts, autok.i = 0 => autok.last = None
  PROVE  /\ res' \in [Slots -> Tables]
         /\ vcore.volt = autok.last =>
              autok.i > 0 /\ res' = [res EXCEPT ![autok.i] = res[autok.i - 1]]
         /\ vcore.volt # autok.last =>
              LET t == Tuned(res[Slot], "SEND_TUNING") IN
                res' = [res EXCEPT ![Slot] = t, ![autok.i] = t]
<1>1. autok.i \in Slots /\ res \in [Slots -> Tables] /\ Slot \in Slots
  BY NumbersFact, SlotFact DEF AutokShape, CallShape
<1>2. CASE vcore.volt = autok.last
  <2>1. autok.i \in 1 .. 3
    BY <1>2, NumbersFact, VoltsFact DEF AutokShape, CallShape
  <2>2. res' = [res EXCEPT ![autok.i] = res[autok.i - 1]]
    BY <1>2 DEF AutokTune, LoopTables
  <2> QED BY <1>1, <1>2, <2>1, <2>2, NumbersFact
<1>3. CASE vcore.volt # autok.last
  <2>1. Tuned(res[Slot], "SEND_TUNING") \in Tables
    BY <1>1, TunedFact DEF AutokShape
  <2> QED BY <1>1, <1>3, <2>1 DEF AutokTune, LoopTables
<1> QED BY <1>2, <1>3

LEMMA AutokShapeStep ==
  ASSUME HostShapes, TablesInv, ClaimInv, EmmcNext
  PROVE  AutokShape'
<1> USE DEF HostShapes, AutokShape
<1>1. CASE Probing \/ Powering \/ SwitchTiming \/ Requesting
  <2>1. UNCHANGED <<vcore, res, autok>>
    BY <1>1, HostFrames DEF autokVars
  <2> QED BY <2>1 DEF CallShape
<1>2. CASE Tuning
  <2>1. PICK opcode : Tune(opcode)
    BY <1>2 DEF Tuning
  <2>2. vcore' = vcore /\ res' = [res EXCEPT ![Slot] = Tuned(res[Slot], opcode)]
    BY <2>1 DEF Tune
  <2>3. res' \in [Slots -> Tables] /\ res'[Slot] \in Tables
    BY <2>2, SlotFact, TunedFact
  <2>4. autok' = [autok EXCEPT !.params = res'[Slot],
                              !.retuned = @ \/ autok.pc = "returned"]
    BY <2>1 DEF Tune
  <2>5. CallShape'
    BY <2>3, <2>4 DEF CallShape
  <2> QED BY <2>2, <2>3, <2>5
<1>3. CASE ScaleVcore
  <2>1. UNCHANGED <<res, autok>> /\ vcore' \in [volt : start.volts, locked : {FALSE}]
    BY <1>3 DEF ScaleVcore
  <2>2. DOMAIN vcore' = {"volt", "locked"} /\ vcore'.volt \in Volts
    BY <2>1, StartFact
  <2> QED BY <2>1, <2>2 DEF CallShape
<1>4. CASE AutokBegin \/ AutokClaim \/ SwitchingCqe \/ AutokForce \/ AutokRelease
  <2>1. PICK pc \in Pcs : autok' = [autok EXCEPT !.pc = pc] /\ res' = res
    BY <1>4, AutokMoves
  <2>2. CallShape'
    BY <2>1, GotoFact
  <2>3. vcore' = vcore \/ vcore' = [vcore EXCEPT !.volt = start.opp[autok.i]]
    BY <1>4 DEF AutokBegin, AutokClaim, SwitchingCqe, AutokSwitchCqe, AutokForce, AutokRelease
  <2>4. start.opp[autok.i] \in Volts
    BY StartFact DEF CallShape
  <2>5. DOMAIN vcore' = {"volt", "locked"} /\ vcore'.volt \in Volts
    BY <2>3, <2>4
  <2> QED BY <2>1, <2>2, <2>5
<1>5. CASE AutokTune
  <2>1. autok.pc = "tune" /\ vcore' = vcore
    BY <1>5 DEF AutokTune, At
  <2>2. res' \in [Slots -> Tables]
    BY <1>5, <2>1, LoopFact DEF TablesInv, AtPoint
  <2>3. autok' = [autok EXCEPT
            !.pc = IF autok.i = AUTOK_VCORE_NUM - 1 THEN "merge" ELSE "force",
            !.i = IF @ = AUTOK_VCORE_NUM - 1 THEN @ ELSE @ + 1,
            !.last = vcore.volt, !.params = res'[Slot]]
    BY <1>5 DEF AutokTune
  <2>4. CallShape'
    BY <2>2, <2>3, SlotFact, NumbersFact DEF CallShape, Pcs, InClaim
  <2> QED BY <2>1, <2>2, <2>4
<1>6. CASE AutokMerge
  <2>1. res' = [res EXCEPT ![AUTOK_VCORE_MERGE] = [cmd |-> "merged", dat |-> "merged"]]
    BY <1>6 DEF AutokMerge
  <2>2. res' \in [Slots -> Tables] /\ 0 \in Slots /\ AUTOK_VCORE_MERGE \in Slots
    BY <2>1, NumbersFact DEF Tables
  <2>3. PICK merged \in BOOLEAN :
          /\ autok' = [autok EXCEPT
               !.params = IF merged THEN res'[AUTOK_VCORE_MERGE] ELSE res[0],
               !.pc = IF start.hwcq THEN "cqe_on" ELSE "release"]
          /\ vcore' = [volt |-> IF merged THEN vcore.volt ELSE start.opp[0], locked |-> ~merged]
    BY <1>6 DEF AutokMerge
  <2>4. CallShape'
    BY <2>2, <2>3 DEF CallShape, Pcs, InClaim
  <2>5. start.opp[0] \in Volts
    BY StartFact, NumbersFact
  <2>6. DOMAIN vcore' = {"volt", "locked"} /\ vcore'.volt \in Volts
    BY <2>3, <2>5
  <2> QED BY <2>2, <2>4, <2>6
<1> QED BY <1>1, <1>2, <1>3, <1>4, <1>5, <1>6, HostActions DEF Autoking

\* Where each step of emmc_autok() goes, and what it does to the claim.
Moves(from, to) == autok.pc \in from /\ autok'.pc \in to
LEMMA AutokPath ==
  ASSUME CallShape
  PROVE  /\ AutokBegin =>
              Moves({"idle"}, {"returned", "failed", "unsupported", "claim"}) /\ claim' = claim
         /\ AutokClaim => Moves({"claim"}, {"cqe_off", "force"}) /\ claim' = "spm"
         /\ SwitchingCqe =>
              /\ \/ Moves({"cqe_off"}, {"force", "cqe_failed"})
                 \/ Moves({"cqe_on"}, {"release", "cqe_failed"})
              /\ claim' = claim
         /\ AutokForce => Moves({"force"}, {"tune"}) /\ claim' = claim
         /\ AutokTune => Moves({"tune"}, {"force", "merge"}) /\ claim' = claim
         /\ AutokMerge => Moves({"merge"}, {"cqe_on", "release"}) /\ claim' = claim
         /\ AutokRelease => Moves({"release"}, {"returned"}) /\ claim' = None
<1> USE DEF CallShape, Moves, At, Goto
<1>1. AutokBegin =>
        Moves({"idle"}, {"returned", "failed", "unsupported", "claim"}) /\ claim' = claim
  BY DEF AutokBegin
<1>2. AutokClaim => Moves({"claim"}, {"cqe_off", "force"}) /\ claim' = "spm"
  BY DEF AutokClaim
<1>3. SwitchingCqe =>
        /\ \/ Moves({"cqe_off"}, {"force", "cqe_failed"})
           \/ Moves({"cqe_on"}, {"release", "cqe_failed"})
        /\ claim' = claim
  BY DEF SwitchingCqe, AutokSwitchCqe
<1>4. AutokForce => Moves({"force"}, {"tune"}) /\ claim' = claim
  BY DEF AutokForce
<1>5. AutokTune => Moves({"tune"}, {"force", "merge"}) /\ claim' = claim
  BY DEF AutokTune
<1>6. AutokMerge => Moves({"merge"}, {"cqe_on", "release"}) /\ claim' = claim
  BY DEF AutokMerge
<1>7. AutokRelease => Moves({"release"}, {"returned"}) /\ claim' = None
  BY DEF AutokRelease
<1> QED BY <1>1, <1>2, <1>3, <1>4, <1>5, <1>6, <1>7

\* Nothing but emmc_autok() moves its place.
LEMMA PlaceKept ==
  ASSUME CallShape, EmmcNext, ~Autoking
  PROVE  autok'.pc = autok.pc /\ autok'.i = autok.i /\ autok'.last = autok.last
<1>1. CASE Tuning
  <2>1. PICK opcode :
          autok' = [autok EXCEPT !.params = res'[Slot], !.retuned = @ \/ autok.pc = "returned"]
    BY <1>1 DEF Tuning, Tune
  <2> QED BY <2>1 DEF CallShape
<1>2. CASE ~Tuning
  BY <1>2, HostActions, HostFrames DEF autokVars
<1> QED BY <1>1, <1>2

LEMMA ClaimStep ==
  ASSUME CallShape, ClaimInv, EmmcNext
  PROVE  ClaimInv'
<1>1. CASE Autoking
  BY <1>1, AutokPath DEF Autoking, ClaimInv, Moves, InClaim, None
<1>2. CASE ~Autoking
  <2>1. claim' = claim \/ (claim # "spm" /\ claim' \in {None, "core"})
    BY <1>2, HostActions, HostFrames DEF Requesting, BeginData, EndData, None
  <2> QED BY <1>2, <2>1, PlaceKept DEF ClaimInv, None
<1> QED BY <1>1, <1>2

LEMMA FastStep ==
  ASSUME HostShapes, FastInv, EmmcNext
  PROVE  FastInv'
<1> USE DEF HostShapes, AutokShape
<1>1. start' = start
  BY HostActions, HostFrames
<1>2. CASE Probing \/ Requesting \/ ScaleVcore
  <2>1. UNCHANGED <<timing, done, autok>>
    BY <1>2, HostFrames DEF powerVars, autokVars
  <2> QED BY <1>1, <2>1 DEF FastInv, HighSpeed, Can
<1>3. CASE Powering
  <2>1. UNCHANGED <<done, autok>> /\ timing' = "legacy" /\ (timing = "legacy" \/ Can("off"))
    BY <1>3, HostFrames DEF Powering, EmmcPower, autokVars
  <2>2. Can("autok") => timing = "legacy"
    BY <2>1, StartAssumption DEF Can
  <2> QED BY <1>1, <2>1, <2>2 DEF FastInv, HighSpeed, Can, InClaim
<1>4. CASE SwitchTiming
  <2>1. UNCHANGED <<done, autok>>
    BY <1>4, HostFrames DEF autokVars
  <2>2. start.caps # {} /\ timing' \in {"HS200", "HS400"}
    <3>1. timing' = CASE timing = "legacy" /\ start.caps # {} -> "HS200"
                      [] timing = "HS200" /\ "HS400" \in start.caps -> "HS400"
                      [] OTHER -> timing
      BY <1>4 DEF SwitchTiming
    <3>2. timing' # timing
      BY <1>4 DEF SwitchTiming
    <3> QED BY <3>1, <3>2
  <2> QED BY <1>1, <2>1, <2>2 DEF FastInv, HighSpeed, Can
<1>5. CASE Tuning
  <2>1. timing' = timing /\ HighSpeed
    BY <1>5, HostFrames DEF Tuning, Tune, powerVars
  <2>2. start.caps # {}
    BY <2>1 DEF FastInv, HighSpeed
  <2>3. autok'.pc = autok.pc
    BY <1>5, PlaceKept, HostFrames DEF Tuning, Tune, CallShape
  <2> QED BY <1>1, <2>1, <2>2, <2>3 DEF FastInv, HighSpeed, Can
<1>6. CASE Autoking
  <2>1. timing' = timing
    BY <1>6, HostFrames DEF powerVars
  <2>2. Can("autok")
    BY <1>6 DEF Autoking, AutokBegin, AutokClaim, SwitchingCqe, AutokSwitchCqe, AutokForce,
                AutokTune, AutokMerge, AutokRelease, At
  <2>3. CASE AutokBegin
    <3>1. /\ autok.pc = "idle" /\ autok'.params = autok.params
          /\ \/ autok'.pc \in {"returned", "failed"} /\ done' = done
             \/ autok'.pc = "unsupported" /\ start.caps = {} /\ done' = done
             \/ autok'.pc = "claim" /\ done /\ ~done' /\ start.vcorefs
      BY <2>3 DEF AutokBegin, At, Goto, CallShape
    <3> QED BY <1>1, <2>1, <2>2, <3>1 DEF FastInv, HighSpeed, Can, InClaim
  <2>4. CASE ~AutokBegin
    <3>1. HighSpeed /\ start.caps # {} /\ start.vcorefs
      BY <1>6, <2>4, AutokPath DEF Autoking, Moves, FastInv, InClaim, HighSpeed
    <3>2. autok'.pc \in InClaim \cup {"returned"}
      BY <1>6, <2>4, AutokPath DEF Autoking, Moves, InClaim
    <3> QED BY <1>1, <2>1, <2>2, <3>1, <3>2 DEF FastInv, HighSpeed, Can, InClaim
  <2> QED BY <2>3, <2>4
<1> QED BY <1>2, <1>3, <1>4, <1>5, <1>6, HostActions

\* While emmc_autok() holds the host nobody else touches what it works on.
LEMMA ClaimExcludes ==
  ASSUME claim = "spm", autok.pc # "returned", autok.pc # "unsupported", EmmcNext, ~Autoking
  PROVE  UNCHANGED <<timing, vcore, res, done, autok>>
<1>1. ~Powering /\ ~SwitchTiming /\ ~Tuning /\ ~ScaleVcore
  BY DEF Powering, EmmcPower, SwitchTiming, Tuning, Tune, ScaleVcore, None
<1> QED BY <1>1, HostActions, HostFrames DEF powerVars, autokVars

LEMMA TablesKept ==
  ASSUME HostShapes, ClaimInv, TablesInv, EmmcNext, ~Autoking
  PROVE  TablesInv'
<1> USE DEF HostShapes, AutokShape
<1>1. start' = start /\ autok'.pc = autok.pc /\ autok'.i = autok.i /\ autok'.last = autok.last
  BY HostActions, HostFrames, PlaceKept
<1>2. AtPoint'
  <2>1. CASE autok.pc \in {"cqe_off", "force", "tune"}
    <3>1. UNCHANGED <<timing, vcore, res, autok>>
      BY <2>1, ClaimExcludes DEF ClaimInv, InClaim
    <3> QED BY <1>1, <3>1 DEF TablesInv, AtPoint, HighSpeed
  <2>2. CASE autok.pc \notin {"cqe_off", "force", "tune"}
    BY <1>1, <2>2 DEF AtPoint
  <2> QED BY <2>1, <2>2
<1>3. TablesMatchVoltage'
  <2>1. SUFFICES ASSUME start.vcorefs, autok.pc \in {"merge", "cqe_on", "release", "returned"},
                        NEW l \in Levels
                 PROVE  res'[l] = Full(start.opp[l])
    BY <1>1 DEF TablesMatchVoltage, Full
  <2>2. res[l] = Full(start.opp[l])
    BY <2>1 DEF TablesInv, TablesMatchVoltage, Full
  <2>3. CASE Tuning
    <3>1. PICK opcode : res' = [res EXCEPT ![Slot] = Tuned(res[Slot], opcode)]
      BY <2>3 DEF Tuning, Tune
    <3>2. Slot # l /\ l \in Slots
      BY <2>1, SlotFact, NumbersFact
    <3> QED BY <2>2, <3>1, <3>2
  <2>4. CASE ~Tuning
    BY <2>2, <2>4, HostActions, HostFrames DEF autokVars
  <2> QED BY <2>3, <2>4
<1> QED BY <1>1, <1>2, <1>3 DEF TablesInv

LEMMA TablesTuned ==
  ASSUME HostShapes, FastInv, TablesInv, AutokTune
  PROVE  TablesInv'
<1> USE DEF HostShapes, AutokShape
<1>1. /\ autok.pc = "tune" /\ HighSpeed /\ vcore.volt = start.opp[autok.i]
      /\ \A l \in Levels : l < autok.i => res[l] = Full(start.opp[l])
      /\ autok.i > 0 => autok.last = start.opp[autok.i - 1]
      /\ autok.i = 0 => autok.last = None
      /\ autok.i \in 0 .. 3
  BY NumbersFact DEF AutokTune, At, TablesInv, AtPoint, CallShape
<1>2. UNCHANGED <<start, timing, vcore>>
  BY DEF AutokTune, Elsewhere, powerVars
<1>3. \A l \in Levels : l <= autok.i => res'[l] = Full(start.opp[l])
  <2>1. CASE vcore.volt = autok.last
    <3>1. autok.i > 0 /\ res' = [res EXCEPT ![autok.i] = res[autok.i - 1]]
      BY <1>1, <2>1, LoopFact
    <3>2. autok.i - 1 \in Levels /\ res[autok.i - 1] = Full(start.opp[autok.i])
      BY <1>1, <2>1, <3>1, NumbersFact
    <3> QED BY <1>1, <3>1, <3>2, NumbersFact
  <2>2. CASE vcore.volt # autok.last
    <3>1. Tuned(res[Slot], "SEND_TUNING") = Full(start.opp[autok.i])
      BY <1>1 DEF Tuned, Full
    <3>2. res' = [res EXCEPT ![Slot] = Full(start.opp[autok.i]),
                             ![autok.i] = Full(start.opp[autok.i])]
      BY <1>1, <2>2, <3>1, LoopFact
    <3>3. Slot = 4
      BY <1>1, SlotFact, NumbersFact DEF FastInv, InClaim
    <3> QED BY <1>1, <3>2, <3>3, NumbersFact
  <2> QED BY <2>1, <2>2
<1>4. autok' = [autok EXCEPT
        !.pc = IF autok.i = AUTOK_VCORE_NUM - 1 THEN "merge" ELSE "force",
        !.i = IF @ = AUTOK_VCORE_NUM - 1 THEN @ ELSE @ + 1,
        !.last = vcore.volt, !.params = res'[Slot]]
  BY DEF AutokTune
<1>5. CASE autok.i = 3
  <2>1. autok'.pc = "merge"
    BY <1>4, <1>5, NumbersFact DEF CallShape
  <2>2. TablesMatchVoltage'
    BY <1>2, <1>3, <1>5, NumbersFact DEF TablesMatchVoltage, Full
  <2> QED BY <2>1, <2>2 DEF TablesInv, AtPoint
<1>6. CASE autok.i # 3
  <2>1. autok'.pc = "force" /\ autok'.i = autok.i + 1 /\ autok'.last = vcore.volt
    BY <1>4, <1>6, NumbersFact DEF CallShape
  <2>2. \A l \in Levels : l < autok'.i => res'[l] = Full(start.opp[l])
    BY <1>1, <1>3, <2>1, NumbersFact
  <2>3. autok'.last = start.opp[autok'.i - 1] /\ autok'.i # 0
    BY <1>1, <2>1
  <2>4. HighSpeed' /\ start' = start
    BY <1>1, <1>2 DEF HighSpeed
  <2>5. AtPoint'
    BY <2>1, <2>2, <2>3, <2>4 DEF AtPoint
  <2> QED BY <2>1, <2>5 DEF TablesInv, TablesMatchVoltage
<1> QED BY <1>5, <1>6

LEMMA TablesStep ==
  ASSUME HostShapes, ClaimInv, FastInv, TablesInv, EmmcNext
  PROVE  TablesInv'
<1> USE DEF HostShapes, AutokShape
<1>1. CASE ~Autoking
  BY <1>1, TablesKept
<1>2. CASE AutokTune
  BY <1>2, TablesTuned
<1>3. CASE AutokMerge
  <2>1. start' = start /\ res' = [res EXCEPT ![AUTOK_VCORE_MERGE] = Full("merged")]
    BY <1>3 DEF AutokMerge, Elsewhere, Full
  <2>2. autok.pc = "merge" /\ autok'.pc \in {"cqe_on", "release"}
    BY <1>3, AutokPath DEF Moves
  <2>3. TablesMatchVoltage'
    BY <2>1, <2>2, NumbersFact DEF TablesInv, TablesMatchVoltage
  <2> QED BY <2>2, <2>3 DEF TablesInv, AtPoint
<1>4. CASE AutokBegin \/ AutokClaim \/ SwitchingCqe \/ AutokForce \/ AutokRelease
  <2>1. PICK pc \in Pcs : autok' = [autok EXCEPT !.pc = pc] /\ res' = res
    BY <1>4, AutokMoves
  <2>2. autok'.pc = pc /\ autok'.i = autok.i /\ autok'.last = autok.last
    BY <2>1, GotoFact
  <2>3. UNCHANGED <<start, timing, res>>
    BY <1>4, <2>1, HostFrames DEF Autoking, powerVars
  <2>4. CASE AutokBegin
    <3>1. autok.pc = "idle" /\ (pc \in {"failed", "unsupported", "claim"} \/ ~start.vcorefs)
      BY <2>2, <2>4 DEF AutokBegin, At, Goto, CallShape
    <3>2. pc \in {"returned", "failed", "unsupported", "claim"}
      BY <2>2, <2>4, AutokPath DEF Moves
    <3> QED BY <2>2, <2>3, <3>1, <3>2 DEF TablesInv, AtPoint, TablesMatchVoltage
  <2>5. CASE AutokClaim
    <3>1. autok.pc = "claim" /\ pc \in {"cqe_off", "force"} /\ HighSpeed
      BY <2>2, <2>5, AutokPath DEF Moves, FastInv
    <3>2. autok.i = 0 /\ autok.last = None
      BY <3>1 DEF TablesInv
    <3>3. AtPoint'
      BY <2>2, <2>3, <3>1, <3>2, NumbersFact DEF AtPoint, HighSpeed
    <3> QED BY <2>2, <3>1, <3>2, <3>3 DEF TablesInv, TablesMatchVoltage
  <2>6. CASE SwitchingCqe
    <3>1. /\ \/ autok.pc = "cqe_off" /\ pc \in {"force", "cqe_failed"}
             \/ autok.pc = "cqe_on" /\ pc \in {"release", "cqe_failed"}
      BY <2>2, <2>6, AutokPath DEF Moves
    <3>2. AtPoint'
      BY <2>2, <2>3, <3>1 DEF TablesInv, AtPoint, HighSpeed
    <3> QED BY <2>2, <2>3, <3>1, <3>2 DEF TablesInv, TablesMatchVoltage
  <2>7. CASE AutokForce
    <3>1. autok.pc = "force" /\ pc = "tune" /\ vcore' = [vcore EXCEPT !.volt = start.opp[autok.i]]
      BY <2>2, <2>7, AutokPath DEF Moves, AutokForce
    <3>2. vcore'.volt = start.opp[autok.i]
      BY <3>1
    <3>3. AtPoint'
      BY <2>2, <2>3, <3>1, <3>2 DEF TablesInv, AtPoint, HighSpeed
    <3> QED BY <2>2, <3>1, <3>3 DEF TablesInv, TablesMatchVoltage
  <2>8. CASE AutokRelease
    <3>1. autok.pc = "release" /\ pc = "returned"
      BY <2>2, <2>8, AutokPath DEF Moves
    <3> QED BY <2>2, <2>3, <3>1 DEF TablesInv, AtPoint, TablesMatchVoltage
  <2> QED BY <1>4, <2>4, <2>5, <2>6, <2>7, <2>8
<1> QED BY <1>1, <1>2, <1>3, <1>4 DEF Autoking

\* Tuning fills the table it copies into the registers at the present voltage.
LEMMA TunedFits ==
  ASSUME HostShapes, HighSpeed, NEW t \in Tables, NEW opcode,
         t.cmd \in {None, vcore.volt} /\ t.dat \in {None, vcore.volt},
         t.cmd = None => t.dat = None
  PROVE  /\ Tuned(t, opcode).cmd = vcore.volt
         /\ Tuned(t, opcode).dat \in {None, vcore.volt}
BY DEF Tuned, Tables

LEMMA ParamsStep ==
  ASSUME HostShapes, ClaimInv, FastInv, TablesInv, ParamsInv, EmmcNext
  PROVE  ParamsInv'
<1> USE DEF HostShapes, AutokShape
<1>0. start' = start
  BY HostActions, HostFrames
<1> SUFFICES ASSUME start.vcorefs PROVE Fits'
  BY <1>0 DEF ParamsInv
<1>1. Fits /\ Slot = AUTOK_VCORE_MERGE /\ Slot \in Slots
  BY SlotFact DEF ParamsInv
<1>2. CASE Probing \/ Powering \/ SwitchTiming \/ Requesting
  <2>1. UNCHANGED <<vcore, res, autok>>
    BY <1>2, HostFrames DEF autokVars
  <2> QED BY <1>1, <2>1 DEF Fits
<1>3. CASE Tuning
  <2>1. PICK opcode :
          /\ vcore' = vcore /\ HighSpeed /\ claim = None
          /\ res' = [res EXCEPT ![Slot] = Tuned(res[Slot], opcode)]
          /\ autok' = [autok EXCEPT !.params = res'[Slot],
                                    !.retuned = @ \/ autok.pc = "returned"]
    BY <1>3 DEF Tuning, Tune
  <2>2. /\ autok'.pc = autok.pc /\ autok'.params = Tuned(res[Slot], opcode)
        /\ autok.pc = "returned" => autok'.retuned
        /\ res'[AUTOK_VCORE_MERGE] = autok'.params
    BY <1>1, <2>1 DEF CallShape
  <2>3. CASE autok.pc \in {"idle", "failed", "claim"}
    <3>1. /\ autok'.params.cmd = vcore.volt /\ autok'.params.dat \in {None, vcore.volt}
      BY <1>1, <2>1, <2>2, <2>3, TunedFits DEF Fits, CallShape
    <3> QED BY <2>1, <2>2, <2>3, <3>1, VoltsFact DEF Fits
  <2>4. CASE autok.pc \notin {"idle", "failed", "claim"}
    BY <2>1, <2>2, <2>4 DEF Fits, ClaimInv, InClaim, None
  <2> QED BY <2>3, <2>4
<1>4. CASE ScaleVcore
  <2>1. /\ UNCHANGED <<res, autok>> /\ autok.pc \in {"returned", "unsupported"} /\ ~vcore.locked
        /\ vcore' \in [volt : start.volts, locked : {FALSE}]
    BY <1>4 DEF ScaleVcore
  <2> QED BY <1>1, <2>1 DEF Fits
<1>5. CASE AutokTune
  BY <1>5, AutokPath DEF Moves, Fits
<1>6. CASE AutokMerge
  <2>1. /\ autok.pc = "merge"
        /\ res' = [res EXCEPT ![AUTOK_VCORE_MERGE] = Full("merged")]
    BY <1>6, AutokPath DEF Moves, AutokMerge, Full
  <2>2. PICK merged \in BOOLEAN :
          /\ autok' = [autok EXCEPT
               !.params = IF merged THEN res'[AUTOK_VCORE_MERGE] ELSE res[0],
               !.pc = IF start.hwcq THEN "cqe_on" ELSE "release"]
          /\ vcore' = [volt |-> IF merged THEN vcore.volt ELSE start.opp[0], locked |-> ~merged]
    BY <1>6 DEF AutokMerge
  <2>3. res[0] = Full(start.opp[0]) /\ res'[AUTOK_VCORE_MERGE] = Full("merged")
    BY <2>1, NumbersFact DEF TablesInv, TablesMatchVoltage, Full
  <2>4. autok'.params = IF merged THEN Full("merged") ELSE Full(start.opp[0])
    BY <2>2, <2>3 DEF CallShape
  <2>5. merged \/ (vcore'.volt = start.opp[0] /\ vcore'.locked)
    BY <2>2
  <2>6. autok'.pc \in {"cqe_on", "release"}
    BY <1>6, AutokPath DEF Moves
  <2> QED BY <2>4, <2>5, <2>6 DEF Fits
<1>7. CASE AutokBegin \/ AutokClaim \/ SwitchingCqe \/ AutokForce \/ AutokRelease
  <2>1. PICK pc \in Pcs : autok' = [autok EXCEPT !.pc = pc] /\ res' = res
    BY <1>7, AutokMoves
  <2>2. autok'.pc = pc /\ autok'.params = autok.params /\ (autok'.retuned <=> autok.retuned)
    BY <2>1, GotoFact
  <2>3. CASE AutokBegin
    <3>1. autok.pc = "idle" /\ vcore' = vcore /\ pc \in {"failed", "unsupported", "claim"}
      BY <2>2, <2>3 DEF AutokBegin, At, Goto, CallShape
    <3> QED BY <1>1, <2>1, <2>2, <3>1 DEF Fits
  <2>4. CASE AutokClaim \/ AutokForce
    BY <2>2, <2>4, AutokPath DEF Moves, Fits
  <2>5. CASE SwitchingCqe \/ AutokRelease
    <3>1. vcore' = vcore
      BY <2>5 DEF SwitchingCqe, AutokSwitchCqe, AutokRelease
    <3>2. \/ pc \in {"force", "cqe_failed"}
          \/ autok.pc \in {"cqe_on", "release"} /\ pc \in {"release", "returned"}
      BY <2>2, <2>5, AutokPath DEF Moves
    <3> QED BY <1>1, <2>1, <2>2, <3>1, <3>2 DEF Fits
  <2> QED BY <1>7, <2>3, <2>4, <2>5
<1> QED BY <1>2, <1>3, <1>4, <1>5, <1>6, <1>7, HostActions DEF Autoking

LEMMA HostMoves ==
  ASSUME HostInv, EmmcNext
  PROVE  HostInv'
<1> USE DEF HostInv, HostShapes
<1>1. start' = start
  BY HostActions, HostFrames
<1>2. PowerShape' /\ SupplyInv'
  BY SupplyStep
<1>3. CryptoShape' /\ CryptoInv' /\ RequestShape'
  BY CryptoStep
<1>4. AutokShape'
  BY AutokShapeStep
<1>5. ClaimInv' /\ FastInv'
  BY ClaimStep, FastStep DEF AutokShape
<1>6. TablesInv' /\ ParamsInv'
  BY TablesStep, ParamsStep
<1> QED BY <1>1, <1>2, <1>3, <1>4, <1>5, <1>6

\* A reset leaves the host as it is found at the start.
LEMMA HostCleared == UNCHANGED start /\ EmmcReset => EmmcInit'
BY DEF EmmcReset, EmmcInit, FreshSupply, FreshPads, FreshCrypto, FreshVcore, FreshTables,
       FreshAutok, NoRequest, NoTable

-----------------------------------------------------------------------------
(* From boot to boot.                                                      *)

LEMMA BootFrames ==
  ASSUME [Next]_vars
  PROVE  start' = start /\ (UNCHANGED emmcVars \/ EmmcReset \/ EmmcNext)
<1>1. CASE Next
  BY <1>1, HostActions, HostFrames
     DEF Next, AutoFastbootCheck, OperatorSetsCount, LeaveFastboot, Crash, Reboot, Tick,
         ThermalTrip, Reset, HostStep
<1>2. CASE UNCHANGED vars
  BY <1>2 DEF vars
<1> QED BY <1>1, <1>2

LEMMA HostStays == HostInv /\ [Next]_vars => HostInv'
<1> SUFFICES ASSUME HostInv, [Next]_vars PROVE HostInv'
  OBVIOUS
<1>1. start' = start /\ (UNCHANGED emmcVars \/ EmmcReset \/ EmmcNext)
  BY BootFrames
<1>2. CASE UNCHANGED emmcVars
  BY <1>1, <1>2, SameHost
<1>3. CASE EmmcNext
  BY <1>3, HostMoves
<1>4. CASE EmmcReset
  <2>1. (start \in Starts)' /\ EmmcInit'
    BY <1>1, <1>4, HostCleared DEF HostInv, HostShapes
  <2>2. (start \in Starts /\ EmmcInit => HostInv)'
    BY FreshHost, PTL
  <2> QED BY <2>1, <2>2
<1> QED BY <1>1, <1>2, <1>3, <1>4

LEMMA ResetFact ==
  ASSUME NEW success \in BOOLEAN, Reset(success), BootShape
  PROVE  /\ phase' = "lk" /\ probe' = "none" /\ claim' = None /\ uptime' = 0 /\ ~disabled'
         /\ disabled' \in BOOLEAN /\ UNCHANGED <<start, env>>
         /\ DOMAIN history' = DOMAIN history /\ history'.boots = history.boots
         /\ history'.from = history.from /\ history'.failed \in Nat
<1>1. history' = [history EXCEPT !.failed = IF success THEN 0 ELSE Bounded(history.failed + 1)]
  BY DEF Reset
<1>2. Bounded(history.failed + 1) \in Nat
  BY BootAssumption DEF Bounded, BootShape
<1>3. /\ DOMAIN history' = DOMAIN history /\ history'.boots = history.boots
      /\ history'.from = history.from /\ history'.failed \in Nat
  BY <1>1, <1>2 DEF BootShape
<1> QED BY <1>3 DEF Reset, EmmcReset

\* Every way a kernel's run ends; a trip is the only one that is recorded.
Ends == Crash \/ Reboot \/ (ThermalTrip /\ phase' = "lk")
LEMMA EndFact ==
  ASSUME Ends, BootShape
  PROVE  /\ phase = "kernel" /\ \E success \in BOOLEAN : Reset(success)
         /\ \/ trip' = trip
            \/ TripSeen("reset") /\ ~InGrace /\ ~disabled
<1>1. CASE Crash \/ Reboot
  BY <1>1 DEF Crash, Reboot, Running
<1>2. CASE ThermalTrip /\ phase' = "lk"
  BY <1>2 DEF ThermalTrip, Running, bootVars
<1> QED BY <1>1, <1>2 DEF Ends

LEMMA BootKinds ==
  ASSUME [Next]_vars, PhaseInv
  PROVE  \/ AutoFastbootCheck \/ OperatorSetsCount \/ LeaveFastboot \/ Ends \/ Tick
         \/ ThermalTrip /\ phase' = phase /\ phase = "kernel"
            /\ UNCHANGED <<start, emmcVars, bootVars, uptime>>
         \/ phase = "kernel" /\ UNCHANGED <<start, bootVars, thermalVars>> /\ EmmcNext
         \/ UNCHANGED vars
<1>1. ThermalTrip => \/ phase' = "lk"
                     \/ /\ phase' = phase /\ phase = "kernel"
                        /\ UNCHANGED <<start, emmcVars, bootVars, uptime>>
  BY DEF ThermalTrip, Reset, Running, bootVars
<1>2. HostStep => phase = "kernel" /\ UNCHANGED <<start, bootVars, thermalVars>> /\ EmmcNext
  BY HostActions, HostFrames DEF HostStep, Running
<1> QED BY <1>1, <1>2 DEF Next, Ends

LEMMA CountFact ==
  ASSUME BootShape, start \in Starts
  PROVE  /\ Number(env) \in Nat /\ Counts(env) \subseteq Int
         /\ \A n \in Nat \cup {NoDigits} :
              Stored(n) \in Nat \cup {NoDigits} /\ (start.env => Stored(n) = n)
         /\ \A n \in Int : /\ Text(n) \in Nat \cup {NoDigits}
                          /\ Number(Text(n)) = IF n < 0 THEN 0 ELSE n
         /\ \A n \in Nat : n <= 5 => Bounded(n) = n
<1>1. Number(env) \in Nat
  BY DEF BootShape, Number, NoDigits
<1>2. Counts(env) \subseteq Int
  <2>1. Number(env) + 1 \in Int /\ Overflown \subseteq Int
    BY <1>1, BootAssumption
  <2> QED BY <2>1, Zenon DEF Counts
<1>3. \A n \in Int : /\ Text(n) \in Nat \cup {NoDigits}
                   /\ Number(Text(n)) = IF n < 0 THEN 0 ELSE n
  BY DEF Text, Number, NoDigits
<1> QED BY <1>1, <1>2, <1>3, BootAssumption DEF BootShape, Stored, Bounded

\* LK's count of boots: what one call of auto_fastboot_check() does.
LEMMA CheckFact ==
  ASSUME BootShape, start \in Starts, AutoFastbootCheck
  PROVE  /\ phase = "lk" /\ DOMAIN history' = DOMAIN history
         /\ history'.from = history.from /\ history'.failed = history.failed
         /\ env' \in Nat \cup {NoDigits}
         /\ \/ phase' = "fastboot" /\ history'.boots = history.boots
            \/ \E count \in Counts(env) :
                 /\ phase' = "kernel" /\ count < 5
                 /\ history'.boots = Bounded(history.boots + 1)
                 /\ env' = Stored(Text(count))
<1>1. PICK count \in Counts(env) :
        \/ /\ AtThreshold(count) /\ env' = Stored(0) /\ phase' = "fastboot"
           /\ history' = [history EXCEPT !.by = "counter"]
        \/ /\ ~AtThreshold(count) /\ env' = Stored(Text(count)) /\ phase' = "kernel"
           /\ history' = [history EXCEPT !.boots = Bounded(@ + 1)]
        \/ /\ ~AtThreshold(count) /\ env' = Stored(Text(count)) /\ phase' = "fastboot"
           /\ history' = [history EXCEPT !.by = "key"]
  BY DEF AutoFastbootCheck
<1>2. phase = "lk"
  BY DEF AutoFastbootCheck
<1>3. count \in Int
  BY CountFact
<1>4. Stored(0) \in Nat \cup {NoDigits} /\ Stored(Text(count)) \in Nat \cup {NoDigits}
  BY <1>3, CountFact
<1>5. CASE /\ AtThreshold(count) /\ env' = Stored(0) /\ phase' = "fastboot"
           /\ history' = [history EXCEPT !.by = "counter"]
  BY <1>2, <1>4, <1>5 DEF BootShape
<1>6. CASE /\ ~AtThreshold(count) /\ env' = Stored(Text(count)) /\ phase' = "kernel"
           /\ history' = [history EXCEPT !.boots = Bounded(@ + 1)]
  <2>1. count < 5
    BY <1>3, <1>6 DEF AtThreshold, BOOTLOOP_THRESHOLD
  <2>2. /\ DOMAIN history' = DOMAIN history /\ history'.from = history.from
        /\ history'.failed = history.failed /\ history'.boots = Bounded(history.boots + 1)
    BY <1>6 DEF BootShape
  <2> QED BY <1>2, <1>4, <1>6, <2>1, <2>2
<1>7. CASE /\ ~AtThreshold(count) /\ env' = Stored(Text(count)) /\ phase' = "fastboot"
           /\ history' = [history EXCEPT !.by = "key"]
  BY <1>2, <1>4, <1>7 DEF BootShape
<1> QED BY <1>1, <1>5, <1>6, <1>7

LEMMA ShapeStays ==
  ASSUME BootShape, PhaseInv, start \in Starts, [Next]_vars
  PROVE  BootShape'
<1>1. CASE AutoFastbootCheck
  <2>1. /\ DOMAIN history' = DOMAIN history /\ history'.from = history.from
        /\ history'.failed = history.failed /\ env' \in Nat \cup {NoDigits}
        /\ history'.boots \in Nat
    BY <1>1, CheckFact, BootAssumption DEF BootShape, Bounded
  <2>2. trip' = NoTrip /\ UNCHANGED <<uptime, disabled>>
    BY <1>1 DEF AutoFastbootCheck
  <2> QED BY <2>1, <2>2 DEF BootShape, NoTrip
<1>2. CASE OperatorSetsCount
  <2>1. PICK v \in start.values : env' = Stored(v)
    BY <1>2 DEF OperatorSetsCount
  <2>2. v \in Nat \cup {NoDigits}
    BY StartAssumption
  <2>3. env' \in Nat \cup {NoDigits}
    BY <2>1, <2>2, CountFact
  <2> QED BY <1>2, <2>3 DEF OperatorSetsCount, thermalVars, BootShape
<1>3. CASE LeaveFastboot
  <2>1. history' = [NoHistory EXCEPT !.from = Number(env)] /\ Number(env) \in Nat
    BY <1>3, CountFact DEF LeaveFastboot
  <2> QED BY <1>3, <2>1 DEF LeaveFastboot, thermalVars, BootShape, NoHistory
<1>4. CASE Ends
  <2>1. PICK success \in BOOLEAN : Reset(success)
    BY <1>4, EndFact
  <2>2. DOMAIN trip' = {"at", "early", "outcome"} /\ trip'.at \in Nat
    BY <1>4, EndFact DEF TripSeen, BootShape
  <2> QED BY <2>1, <2>2, ResetFact DEF BootShape
<1>5. CASE Tick
  BY <1>5 DEF Tick, bootVars, BootShape
<1>6. CASE ThermalTrip /\ UNCHANGED <<bootVars, uptime>> /\ phase' = "kernel"
  <2>1. disabled' \in BOOLEAN /\ \E outcome \in {"ignored", "reset"} : TripSeen(outcome)
    BY <1>6 DEF ThermalTrip, BootShape, Reset
  <2>2. DOMAIN trip' = {"at", "early", "outcome"} /\ trip'.at \in Nat
    BY <2>1 DEF TripSeen, BootShape
  <2> QED BY <1>6, <2>1, <2>2 DEF bootVars, BootShape
<1>7. CASE UNCHANGED <<bootVars, thermalVars>>
  BY <1>7 DEF bootVars, thermalVars, BootShape
<1> QED BY <1>1, <1>2, <1>3, <1>4, <1>5, <1>6, <1>7, BootKinds DEF vars

LEMMA CountStays ==
  ASSUME BootShape, PhaseInv, CountInv, start \in Starts, [Next]_vars
  PROVE  CountInv'
<1>0. start' = start
  BY BootFrames
<1> SUFFICES ASSUME start.env
             PROVE  Counting' /\ FastbootInTime'
  BY <1>0 DEF CountInv
<1> USE DEF BootShape
<1>1. Counting /\ history.boots <= BootsAfter(history.from)
  BY DEF CountInv, FastbootInTime
<1>2. CASE AutoFastbootCheck
  <2>1. CASE phase' = "fastboot"
    <3>1. history'.boots = history.boots /\ history'.from = history.from
      BY <1>2, <2>1, CheckFact
    <3> QED BY <1>1, <2>1, <3>1 DEF Counting, FastbootInTime, BootsAfter
  <2>2. CASE phase' = "kernel"
    <3>1. PICK count \in Counts(env) :
            /\ phase = "lk" /\ count < 5 /\ history'.from = history.from
            /\ history'.boots = Bounded(history.boots + 1)
            /\ env' = Stored(Text(count))
      BY <1>2, <2>2, CheckFact
    <3>2. /\ count \in Int /\ env' = Text(count) /\ Number(env)' = Number(env')
          /\ Number(env') = IF count < 0 THEN 0 ELSE count
      BY <3>1, CountFact DEF Number
    <3>3. Number(env) \in Nat /\ INT_MAX \in Nat /\ INT_MAX > 5
      BY CountFact, BootAssumption DEF BOOTLOOP_THRESHOLD
    <3>4. Number(env) < INT_MAX => count = Number(env) + 1
      BY DEF Counts
    <3>5. CASE Number(env) = history.from + history.boots
      <4>1. history.from >= INT_MAX => history.boots = 0
        BY <1>1, <3>1, <3>3, <3>5 DEF Counting
      <4>2. history.from < INT_MAX => Number(env) < INT_MAX
        BY <1>1, <3>3, <3>5 DEF BootsAfter
      <4>3. history'.boots = history.boots + 1
        BY <3>1, <3>2, <3>3, <3>4, <3>5, <4>1, <4>2, CountFact
      <4> QED BY <2>2, <3>1, <3>2, <3>3, <3>4, <3>5, <4>1, <4>2, <4>3
              DEF Counting, FastbootInTime, BootsAfter
    <3>6. CASE Number(env) # history.from + history.boots
      <4>1. /\ history.from >= INT_MAX /\ Number(env) <= 4
            /\ history.boots \in 1 .. Number(env) + 1
        BY <1>1, <3>1, <3>6 DEF Counting
      <4>2. history'.boots = history.boots + 1
        BY <3>1, <3>3, <3>4, <4>1, CountFact
      <4> QED BY <2>2, <3>1, <3>2, <3>3, <3>4, <4>1, <4>2
              DEF Counting, FastbootInTime, BootsAfter
    <3> QED BY <3>5, <3>6
  <2> QED BY <1>2, <2>1, <2>2, CheckFact
<1>3. CASE OperatorSetsCount
  BY <1>1, <1>3 DEF OperatorSetsCount, Counting, FastbootInTime, BootsAfter
<1>4. CASE LeaveFastboot
  <2>1. /\ history' = [NoHistory EXCEPT !.from = Number(env)] /\ Number(env) \in Nat
        /\ env' = env
    BY <1>4, CountFact DEF LeaveFastboot
  <2>2. history'.boots = 0 /\ history'.from = Number(env) /\ Number(env)' = Number(env)
    BY <2>1 DEF NoHistory, Number
  <2> QED BY <2>1, <2>2, BootAssumption DEF Counting, FastbootInTime, BootsAfter
<1>5. CASE Ends
  <2>1. /\ phase = "kernel" /\ history'.boots = history.boots
        /\ history'.from = history.from /\ env' = env
    BY <1>5, EndFact, ResetFact
  <2> QED BY <1>1, <2>1 DEF Number, Counting, FastbootInTime, BootsAfter
<1>6. CASE UNCHANGED bootVars
  BY <1>1, <1>6 DEF bootVars, Number, Counting, FastbootInTime, BootsAfter
<1> QED BY <1>2, <1>3, <1>4, <1>5, <1>6, BootKinds DEF vars, Tick

\* The uptime as sysrst_thermal_reset() sees it.
LEMMA GraceFact ==
  ASSUME BootShape
  PROVE  InGrace => uptime = 0 \/ uptime >= Wrap
<1> SUFFICES ASSUME uptime < Wrap, InGrace PROVE uptime = 0
  BY BootAssumption DEF BootShape
<1>1. uptime \in Nat /\ Wrap \in Nat /\ Wrap > 0
  BY BootAssumption DEF BootShape
<1>2. uptime % Wrap = uptime
  BY <1>1
<1> QED BY <1>1, <1>2 DEF InGrace, UpMs, SYSRST_BOOT_GRACE_MS

LEMMA GraceEnds == BootShape /\ ~InGrace => uptime >= 1
<1>1. 0 % Wrap = 0
  BY BootAssumption
<1> QED BY <1>1 DEF BootShape, InGrace, UpMs, SYSRST_BOOT_GRACE_MS

LEMMA TripFact ==
  ASSUME NEW outcome, TripSeen(outcome)
  PROVE  /\ trip'.at = uptime /\ trip'.outcome = outcome
         /\ trip'.early <=> (trip.early \/ uptime < 1)
BY DEF TripSeen, SYSRST_BOOT_GRACE_MS

LEMMA GuardStays ==
  ASSUME BootShape, PhaseInv, GuardInv, ThermalGuardHolds, [Next]_vars
  PROVE  GuardInv' /\ ThermalGuardHolds'
<1> USE DEF BootShape
<1>1. CASE AutoFastbootCheck
  <2>1. /\ phase = "lk" /\ trip' = NoTrip /\ UNCHANGED <<uptime, disabled>>
    BY <1>1 DEF AutoFastbootCheck
  <2>2. ~trip'.early /\ trip'.outcome = None
    BY <2>1 DEF NoTrip
  <2> QED BY <2>1, <2>2 DEF GuardInv, ThermalGuardHolds, None
<1>2. CASE OperatorSetsCount \/ LeaveFastboot
  <2>1. /\ phase = "fastboot" /\ phase' # "kernel" /\ UNCHANGED <<uptime, disabled, trip>>
    BY <1>2 DEF OperatorSetsCount, LeaveFastboot, thermalVars
  <2> QED BY <2>1 DEF GuardInv, ThermalGuardHolds
<1>3. CASE Ends
  <2>1. phase = "kernel" /\ phase' = "lk" /\ ~disabled'
    BY <1>3, EndFact, ResetFact
  <2>2. CASE trip' = trip
    BY <2>1, <2>2 DEF GuardInv, ThermalGuardHolds
  <2>3. CASE TripSeen("reset") /\ ~InGrace /\ ~disabled
    <3>1. ~trip.early /\ uptime >= 1
      BY <2>1, <2>3, GraceEnds DEF GuardInv
    <3>2. trip'.at >= 1 /\ ~trip'.early /\ trip'.outcome = "reset"
      BY <2>3, <3>1, TripFact
    <3> QED BY <2>1, <3>2 DEF GuardInv, ThermalGuardHolds, SYSRST_BOOT_GRACE_MS
  <2> QED BY <1>3, <2>2, <2>3, EndFact
<1>4. CASE Tick
  <2>1. UNCHANGED <<phase, disabled, trip>> /\ uptime' = uptime + 1
    BY <1>4 DEF Tick, bootVars
  <2> QED BY <2>1, BootAssumption DEF GuardInv, ThermalGuardHolds
<1>5. CASE ThermalTrip /\ UNCHANGED <<bootVars, uptime>> /\ phase = "kernel"
  <2>0. phase' = "kernel" /\ uptime' = uptime
    BY <1>5 DEF bootVars
  <2>1. CASE InGrace /\ disabled' = TRUE /\ TripSeen("ignored")
    <3>1. uptime < 1 \/ uptime >= Wrap
      BY <2>1, GraceFact
    <3>2. /\ trip'.at = uptime /\ trip'.outcome = "ignored"
          /\ trip'.early <=> (trip.early \/ uptime < 1)
      BY <2>1, TripFact
    <3> QED BY <2>0, <2>1, <3>1, <3>2 DEF GuardInv, ThermalGuardHolds, SYSRST_BOOT_GRACE_MS
  <2>2. CASE ~InGrace /\ disabled /\ TripSeen("ignored") /\ disabled' = disabled
    <3>1. trip.early \/ uptime >= Wrap
      BY <2>2 DEF GuardInv
    <3>2. /\ trip'.at = uptime /\ trip'.outcome = "ignored"
          /\ trip'.early <=> (trip.early \/ uptime < 1)
      BY <2>2, TripFact
    <3> QED BY <2>0, <2>2, <3>1, <3>2 DEF GuardInv, ThermalGuardHolds
  <2> QED BY <1>5, <2>0, <2>1, <2>2 DEF ThermalTrip, Reset
<1>6. CASE UNCHANGED <<bootVars, thermalVars>>
  BY <1>6 DEF bootVars, thermalVars, GuardInv, ThermalGuardHolds
<1> QED BY <1>1, <1>2, <1>3, <1>4, <1>5, <1>6, BootKinds DEF vars

LEMMA PhaseStays ==
  ASSUME BootShape, PhaseInv, start \in Starts, [Next]_vars
  PROVE  PhaseInv'
<1> USE DEF PhaseInv
<1>1. CASE AutoFastbootCheck
  <2>1. UNCHANGED <<emmcVars, uptime>> /\ phase = "lk" /\ phase' \in {"fastboot", "kernel"}
    BY <1>1 DEF AutoFastbootCheck
  <2> QED BY <2>1 DEF emmcVars, hostVars
<1>2. CASE OperatorSetsCount \/ LeaveFastboot
  <2>1. UNCHANGED <<emmcVars, uptime>> /\ phase = "fastboot" /\ phase' \in {"fastboot", "lk"}
    BY <1>2 DEF OperatorSetsCount, LeaveFastboot, thermalVars
  <2> QED BY <2>1 DEF emmcVars, hostVars
<1>3. CASE Ends
  BY <1>3, EndFact, ResetFact, BootAssumption
<1>4. CASE Tick
  BY <1>4, BootAssumption DEF Tick, Running, bootVars, BootShape
<1>5. CASE phase = "kernel" /\ phase' = phase /\ uptime' = uptime
  BY <1>5
<1>6. CASE UNCHANGED vars
  BY <1>6 DEF vars, emmcVars, hostVars, bootVars, thermalVars
<1> QED BY <1>1, <1>2, <1>3, <1>4, <1>5, <1>6, BootKinds DEF bootVars, thermalVars

-----------------------------------------------------------------------------
LEMMA InitInv == Init => IInv
<1> SUFFICES ASSUME Init PROVE IInv
  OBVIOUS
<1>1. HostInv
  BY FreshHost DEF Init
<1>2. BootShape
  BY DEF Init, BootShape, NoHistory, NoTrip
<1>3. CountInv /\ GuardInv /\ ThermalGuardHolds
  BY DEF Init, CountInv, GuardInv, ThermalGuardHolds, Counting, FastbootInTime, BootsAfter, NoHistory, NoTrip,
     Number, None
<1>4. PhaseInv
  BY BootAssumption DEF Init, EmmcInit, PhaseInv
<1> QED BY <1>1, <1>2, <1>3, <1>4 DEF IInv, BootInv

LEMMA StepInv == IInv /\ [Next]_vars => IInv'
BY HostStays, ShapeStays, CountStays, GuardStays, PhaseStays DEF IInv, BootInv, HostInv, HostShapes

LEMMA Invariance == Spec => []IInv
BY InitInv, StepInv, PTL DEF Spec

\* Every variable keeps its values; outside the kernel the host is at rest,
\* and emmc_autok() holds it exactly from its claim to its release
\* (autok_dvfs.c), so also for ever once the command queue refuses to halt.
THEOREM BootTypes == Spec => []TypeOK
<1>1. IInv => TypeOK
  BY DEF IInv, BootInv, HostInv, HostShapes, BootShape, PhaseInv, PowerShape, PowerRecord, ClaimInv,
         InClaim, NoDigits, TypeOK
<1> QED BY <1>1, Invariance, PTL

\* LK's counter (auto_fastboot_check) stops in fastboot before a fifth kernel
\* in a row, for every sequence of crashes, resets, reboots and values an
\* operator stores, if the environment can be written; before a sixth, if the
\* count overflows, whatever an int that overflows then is.
THEOREM FastbootComes == Spec => []FastbootInTime
<1>1. IInv => FastbootInTime
  BY DEF IInv, BootInv, CountInv, FastbootInTime
<1> QED BY <1>1, Invariance, PTL

\* sysrst_thermal_reset() resets only after the grace period of a boot without
\* an early trip, and ignores no other trip before the uptime wraps, for every
\* width of the counter.
THEOREM GuardHolds == Spec => []ThermalGuardHolds
<1>1. IInv => ThermalGuardHolds
  BY DEF IInv, BootInv
<1> QED BY <1>1, Invariance, PTL

\* msdc_ldo_power() and the regulator agree, and the pads are set up again at
\* every power on, for every sequence of calls.
THEOREM SupplyAgrees == Spec => []SupplyFollows
<1>1. IInv => SupplyFollows
  BY DEF IInv, HostInv, SupplyInv
<1> QED BY <1>1, Invariance, PTL

\* msdc_pre_crypto() and msdc_post_crypto() (mtk_hw_fde.c) leave the AES engine
\* in use exactly for FDE requests, with the key and the sector of the request,
\* for every set of requests, keys and sectors and both ways of addressing.
THEOREM EngineExact == Spec => []CryptoExact
<1>1. IInv => CryptoExact
  BY DEF IInv, HostInv, CryptoInv
<1> QED BY <1>1, Invariance, PTL

\* After the loop of emmc_autok() every operating point has its own table,
\* whatever its voltage and which neighbours share it, and keeps it.
THEOREM TablesMatch == Spec => []TablesMatchVoltage
<1>1. IInv => TablesMatchVoltage
  BY DEF IInv, HostInv, TablesInv
<1> QED BY <1>1, Invariance, PTL

\* While data moves the parameters in the registers fit the core voltage,
\* emmc_autok() having run or not: its claim of the host keeps data away from
\* the voltages it forces, and lock_vcore from any other afterwards.
THEOREM ParamsFit == Spec => []ParamsFitVoltage
<1>1. IInv => ParamsFitVoltage
  <2> SUFFICES ASSUME IInv, start.vcorefs, claim = "core", autok.params.dat # None, ~autok.retuned
               PROVE  \A line \in {"cmd", "dat"} : autok.params[line] \in {vcore.volt, "merged"}
    BY DEF ParamsFitVoltage
  <2>1. Fits /\ autok.pc \notin InClaim
    BY DEF IInv, HostInv, ParamsInv, ClaimInv, None
  <2>2. autok.params \in Tables /\ autok.pc \in Pcs
    BY DEF IInv, HostInv, HostShapes, AutokShape, CallShape
  <2>3. autok.pc # "unsupported"
    BY DEF IInv, HostInv, FastInv, NoTable
  <2>4. CASE autok.pc = "returned"
    BY <2>1, <2>4 DEF Fits, Full
  <2>5. CASE autok.pc \in {"idle", "failed", "claim"}
    BY <2>1, <2>5 DEF Fits, None
  <2> QED BY <2>1, <2>2, <2>3, <2>4, <2>5 DEF Pcs
<1> QED BY <1>1, Invariance, PTL
=============================================================================
