------------------------------ MODULE WdKicker ------------------------------
(* The watchdog kicker of wdk/wd_common_drv.c.  One SCHED_FIFO thread per   *)
(* CPU wakes about every g_kinterval seconds and sets its bit in kick_bit;  *)
(* the thread that completes the set cpus_kick_bit restarts the hardware    *)
(* watchdog (RGU) and clears kick_bit.  CPU hotplug callbacks change        *)
(* cpus_kick_bit, /proc/wdk rewrites the configuration, /sys pauses the     *)
(* watchdog, and the power-key hang detector may force a reset.             *)
(*                                                                          *)
(* The threads interleave at the points where the code does not hold `lock`.*)
(* Time is counted in quanta: Tick advances it, and only when every thread  *)
(* that can run is asleep (the threads are SCHED_FIFO 99: they run as soon  *)
(* as they wake).  A CPU that stops running its threads is `stalled`: the   *)
(* condition the kicker exists to turn into a reset.                        *)
EXTENDS Integers

CONSTANTS
  NCPU,              \* CPU_NR
  PwkBits,           \* the bits of 0xFFFF, at least one of which is no CPU
  PwkHang,           \* CONFIG_MTK_AEE_POWERKEY_HANG_DETECT, and a hang to report
  INTERVAL,          \* the default g_kinterval, 15 s
  TIMEOUT,           \* the RGU timeout that the probe programs, 32 s
  SLACK,             \* SOFT_KICK_RANGE rounded up to a quantum
  MIN_KICK_INTERVAL, MAX_KICK_INTERVAL,
  Requests,          \* what is written to /proc/wdk
  MaxWrites, MaxPlugs, MaxStalls   \* bounds on the environment

Cpus == 0 .. NCPU - 1

ASSUME CpuAssumption == NCPU \in Nat \ {0} /\ Cpus \subseteq PwkBits
ASSUME TimeAssumption ==
  /\ INTERVAL \in Nat \ {0} /\ TIMEOUT \in Nat \ {0} /\ SLACK \in Nat \ {0}
  /\ MIN_KICK_INTERVAL \in Nat \ {0} /\ MAX_KICK_INTERVAL \in Nat
  /\ INTERVAL <= MAX_KICK_INTERVAL
  /\ SLACK < INTERVAL /\ INTERVAL + SLACK < TIMEOUT  \* 100 ms, 15 s, 32 s
ASSUME RequestAssumption ==
  Requests \subseteq [mode : Int, kinterval : Int, timeout : Int, en : Int]
ASSUME BoundAssumption ==
  PwkHang \in BOOLEAN /\ MaxWrites \in Nat /\ MaxPlugs \in Nat /\ MaxStalls \in Nat

VARIABLES
  kick_bit, cpus_kick_bit,  \* sets of CPUs for the two bit masks
  hang,                     \* g_hang_detected
  cfg,                      \* g_kinterval, g_timeout, g_need_config, g_enable
  nxt,                      \* g_nxtKickTime, relative to now; -1 when it is past
  thr,                      \* the threads: pc, locals, remaining sleep
  start,                    \* start_kicker(): its loop index and outcome
  online, bound, stalled,   \* CPUs up, CPUs whose thread is bound, CPUs hung
  hp,                       \* the hotplug callback in progress
  wr,                       \* the /proc/wdk write in progress
  rgu,                      \* the RGU timer: enabled, length, time left, fired
  since,                    \* history: restarts by a kicker since c kicked or was
                            \* last added to cpus_kick_bit
  hist,                     \* history: is a reset excused; what was last asked
  used                      \* how much of the environment's bounds is spent

vars == <<kick_bit, cpus_kick_bit, hang, cfg, nxt, thr, start, online, bound,
          stalled, hp, wr, rgu, since, hist, used>>
plugVars == <<online, bound, hp>>
envVars == <<stalled, start, wr, hist, used>>
maskVars == <<kick_bit, cpus_kick_bit, hang, since>>

Live == ~rgu.bitten            \* after the reset nothing of this runs
LockFree == hp.pc # "write"    \* nobody else holds `lock` across a step here

Created(c) == c < start.next
(* smp_processor_id() of thread c: its own CPU once bound, else any CPU.    *)
RunsOn(c) == (IF c \in bound THEN {c} ELSE online) \ stalled
At(c, pc) == Live /\ thr[c].pc = pc /\ RunsOn(c) # {}

Init ==
  /\ online \in {S \in SUBSET Cpus : 0 \in S}
  /\ cpus_kick_bit = online      \* wdk_work_callback, with hotplug disabled
  /\ kick_bit = {} /\ hang = FALSE /\ nxt = -1
  /\ cfg = [interval |-> INTERVAL, timeout |-> -1, need |-> FALSE, enable |-> 1]
  /\ thr = [c \in Cpus |->
       [pc |-> "none", need |-> FALSE, timeout |-> -1, cur |-> 0, sleep |-> 0]]
  /\ start = [next |-> 0, st |-> "loop"]
  /\ bound = {} /\ stalled = {}
  /\ hp = [pc |-> "idle", cpu |-> 0, up |-> FALSE, tmp |-> {}]
  /\ wr = [pc |-> "idle", req |-> <<>>]
  /\ rgu = [on |-> TRUE, len |-> TIMEOUT, left |-> TIMEOUT, bitten |-> FALSE]
  /\ since = [c \in Cpus |-> 0]
  /\ hist = [excused |-> FALSE, want |-> "on"]
  /\ used = [writes |-> 0, plugs |-> 0, stalls |-> 0]

-----------------------------------------------------------------------------
(* The RGU, as the kicker uses it.  A restart reloads the counter from the  *)
(* length register; a disabled timer stands still.                          *)
MutRestart(r) == [r EXCEPT !.on = TRUE]      \* does not reload the counter
mtk_wdt_restart(r) == [r EXCEPT !.left = r.len]

MutEnable(r, en) == [r EXCEPT !.on = (en = 0)]   \* WK_WDT_EN for WK_WDT_DIS
mtk_wdt_enable(r, en) ==
  CASE en = 1 -> [r EXCEPT !.on = TRUE]
    [] en = 0 -> [r EXCEPT !.on = FALSE]
    [] OTHER  -> r

-----------------------------------------------------------------------------
(* start_kicker(): create and bind one thread per CPU, stop at an error.    *)
CreateThread ==
  /\ Live /\ start.st = "loop"
  /\ LET c == start.next IN
       /\ thr' = [thr EXCEPT ![c].pc = "top"]
       /\ bound' = IF c \in online THEN bound \cup {c} ELSE bound
       /\ start' = [next |-> c + 1, st |-> IF c + 1 = NCPU THEN "done" ELSE "loop"]
  /\ UNCHANGED <<maskVars, cfg, nxt, online, stalled, hp, wr, rgu, hist, used>>

CreateFails ==
  /\ Live /\ start.st = "loop"
  /\ start' = [start EXCEPT !.st = "failed"]
  /\ hist' = [hist EXCEPT !.excused = TRUE]
  /\ UNCHANGED <<maskVars, cfg, nxt, thr, plugVars, stalled, wr, rgu, used>>

-----------------------------------------------------------------------------
(* kwdt_thread(), between two points at which it can be preempted.          *)
Snapshot(c) ==        \* the first locked section, and the interval
  /\ At(c, "top") /\ LockFree
  /\ thr' = [thr EXCEPT ![c] = [@ EXCEPT !.pc = "check", !.need = cfg.need,
                                         !.timeout = cfg.timeout, !.cur = cfg.interval]]
  /\ UNCHANGED <<maskVars, cfg, nxt, plugVars, rgu, envVars>>

(* usleep_range(cur, cur + SOFT_KICK_RANGE), in quanta; a sleep shorter     *)
(* than a quantum ends at the next one.                                     *)
Naps(cur) == {s \in cur .. cur + SLACK : s > 0}
Doze(c, cur) ==
  \E s \in Naps(cur) :
     thr' = [thr EXCEPT ![c] = [pc |-> "asleep", need |-> FALSE, timeout |-> -1,
                                cur |-> 0, sleep |-> s]]

CheckEnabled(c) ==    \* g_enable is read without the lock
  /\ At(c, "check") /\ cfg.enable # 0
  /\ thr' = [thr EXCEPT ![c].pc = IF thr[c].need THEN "mode" ELSE "kick"]
  /\ UNCHANGED <<maskVars, cfg, nxt, plugVars, rgu, envVars>>

StopsKicking(c) ==    \* "[wdk] stop to kick"
  /\ At(c, "check") /\ cfg.enable = 0
  /\ Doze(c, thr[c].cur)
  /\ UNCHANGED <<maskVars, cfg, nxt, plugVars, rgu, envVars>>

(* wd_config(): mode_config(.., wdt_en = TRUE), then the length; no lock.   *)
ConfigMode(c) ==
  /\ At(c, "mode")
  /\ rgu' = [rgu EXCEPT !.on = TRUE]
  /\ thr' = [thr EXCEPT ![c].pc = "length"]
  /\ UNCHANGED <<maskVars, cfg, nxt, plugVars, envVars>>

MutOldLength(c) == rgu.len                    \* keeps the programmed length
MutIntervalLength(c) == thr[c].cur            \* programs the period instead
ConfigLengthOf(c) == thr[c].timeout
ConfigLength(c) ==
  /\ At(c, "length")
  /\ rgu' = [rgu EXCEPT !.len = ConfigLengthOf(c)]
  /\ thr' = [thr EXCEPT ![c].pc = "clear"]
  /\ UNCHANGED <<maskVars, cfg, nxt, plugVars, envVars>>

ConfigDone(c) ==
  /\ At(c, "clear") /\ LockFree
  /\ cfg' = [cfg EXCEPT !.need = FALSE]
  /\ thr' = [thr EXCEPT ![c].pc = "kick"]
  /\ UNCHANGED <<maskVars, nxt, plugVars, rgu, envVars>>

(* KWDT_KICK_TIME_ALIGN: the first of a round sets the time of the next     *)
(* round and the others sleep until then.  A time in the past wraps around  *)
(* as an unsigned number and is capped like one too far in the future.      *)
MutNoAlign(kb, n, interval) == interval
MutNoCap(kb, n, interval) ==                  \* a wrapped difference is slept
  IF kb = {} THEN interval ELSE IF n < 0 THEN MAX_KICK_INTERVAL + SLACK + 1 ELSE n
NextSleep(kb, n, interval) ==
  IF kb # {} /\ n \in 0 .. interval THEN n ELSE interval

(* kwdt_process_kick(): the masks, the hang flag and the restart.           *)
MutFull(local) == local # {}                  \* does not wait for the others
Full(local) == local = cpus_kick_bit
MutHangStays(full, again) == hang \/ again
HangAfter(full, again) == ~full /\ (hang \/ again)
Kicks(c) ==
  LET local == kick_bit \cup {c}
      full == Full(local)
      cur == NextSleep(kick_bit, nxt, cfg.interval)
  IN  /\ kick_bit' = IF full THEN {} ELSE local
      /\ hang' = HangAfter(full, c \in kick_bit)
      /\ rgu' = IF full THEN mtk_wdt_restart(rgu) ELSE rgu
      /\ nxt' = IF kick_bit = {} THEN cfg.interval ELSE nxt
      /\ since' = [d \in Cpus |->
           LET s == IF d = c THEN 0 ELSE since[d]
           IN  IF full /\ s < 2 THEN s + 1 ELSE s]
      /\ Doze(c, cur)

Kick(c) ==            \* the thread runs on its own CPU
  /\ At(c, "kick") /\ LockFree
  /\ c \in RunsOn(c)
  /\ Kicks(c)
  /\ UNCHANGED <<cpus_kick_bit, cfg, plugVars, envVars>>

KickElsewhere(c) ==   \* it does not: the pid is not that of wk_tsk[cpu]
  /\ At(c, "kick") /\ LockFree
  /\ RunsOn(c) \ {c} # {}
  /\ Doze(c, thr[c].cur)
  /\ UNCHANGED <<maskVars, cfg, nxt, plugVars, rgu, envVars>>

Wake(c) ==
  /\ At(c, "asleep") /\ thr[c].sleep = 0
  /\ thr' = [thr EXCEPT ![c].pc = "top"]
  /\ UNCHANGED <<maskVars, cfg, nxt, plugVars, rgu, envVars>>

(* The power-key hang detector, in thread 0, stores to cpus_kick_bit        *)
(* without the lock.                                                        *)
ForceHwt ==
  /\ PwkHang /\ At(0, "asleep") /\ thr[0].sleep = 0
  /\ thr' = [thr EXCEPT ![0].pc = "top"]
  /\ cpus_kick_bit' = PwkBits
  /\ since' = [c \in Cpus |-> IF c \in cpus_kick_bit THEN since[c] ELSE 0]
  /\ hist' = [hist EXCEPT !.excused = TRUE]
  /\ UNCHANGED <<kick_bit, hang, cfg, nxt, plugVars, rgu, stalled, start, wr, used>>

Thread(c) ==
  \/ Snapshot(c) \/ CheckEnabled(c) \/ StopsKicking(c)
  \/ ConfigMode(c) \/ ConfigLength(c) \/ ConfigDone(c)
  \/ Kick(c) \/ KickElsewhere(c) \/ Wake(c)

-----------------------------------------------------------------------------
(* CPU hotplug.  The offline callback runs in the PREPARE stage, when the   *)
(* CPU is already dead; the online one after the CPU runs tasks again.  A   *)
(* takedown stops the machine, which a stalled CPU would not let happen.    *)
CpuDown(c) ==
  /\ Live /\ hp.pc = "idle" /\ start.st # "loop" /\ used.plugs < MaxPlugs
  /\ c \in online \ {0} /\ stalled = {}
  /\ online' = online \ {c} /\ bound' = bound \ {c}
  /\ hp' = [pc |-> "read", cpu |-> c, up |-> FALSE, tmp |-> {}]
  /\ used' = [used EXCEPT !.plugs = @ + 1]
  /\ UNCHANGED <<maskVars, cfg, nxt, thr, rgu, stalled, start, wr, hist>>

CpuUp(c) ==
  /\ Live /\ hp.pc = "idle" /\ start.st # "loop" /\ used.plugs < MaxPlugs
  /\ c \in Cpus \ online
  /\ online' = online \cup {c}
  /\ hp' = [pc |-> "read", cpu |-> c, up |-> TRUE, tmp |-> {}]
  /\ used' = [used EXCEPT !.plugs = @ + 1]
  /\ UNCHANGED <<maskVars, cfg, nxt, thr, bound, rgu, stalled, start, wr, hist>>

(* wk_cpu_update_bit_flag(): a read-modify-write of cpus_kick_bit under the *)
(* lock, which the store of ForceHwt does not take.                         *)
FlagRead ==
  /\ Live /\ hp.pc = "read"
  /\ hp' = [hp EXCEPT !.pc = "write", !.tmp = cpus_kick_bit]
  /\ UNCHANGED <<maskVars, cfg, nxt, thr, online, bound, rgu, envVars>>

MutKeepBit(mask, cpu, up) == mask \cup {cpu}  \* offline leaves the bit set
Flagged(mask, cpu, up) == IF up THEN mask \cup {cpu} ELSE mask \ {cpu}
FlagWrite ==
  /\ Live /\ hp.pc = "write"
  /\ cpus_kick_bit' = Flagged(hp.tmp, hp.cpu, hp.up)
  /\ kick_bit' = {} /\ hang' = FALSE
  /\ since' = [since EXCEPT ![hp.cpu] = 0]
  /\ hp' = [hp EXCEPT !.pc = "feed", !.tmp = {}]
  /\ UNCHANGED <<cfg, nxt, thr, online, bound, rgu, envVars>>

PlugFeed ==           \* mtk_wdt_restart() by the callback itself
  /\ Live /\ hp.pc = "feed"
  /\ rgu' = mtk_wdt_restart(rgu)
  /\ hp' = [hp EXCEPT !.pc = IF hp.up /\ start.st = "done" THEN "bind" ELSE "idle"]
  /\ UNCHANGED <<maskVars, cfg, nxt, thr, online, bound, envVars>>

(* kicker_cpu_bind(): the wake-up does not cut a usleep_range() short.      *)
Bind ==
  /\ Live /\ hp.pc = "bind"
  /\ bound' = bound \cup {hp.cpu}
  /\ hp' = [hp EXCEPT !.pc = "idle"]
  /\ UNCHANGED <<maskVars, cfg, nxt, thr, online, rgu, envVars>>

Hotplug == FlagRead \/ FlagWrite \/ PlugFeed \/ Bind

-----------------------------------------------------------------------------
(* /proc/wdk: checks, mtk_wdt_enable() outside the lock, the rest under it. *)
Valid(r) ==
  /\ r.timeout >= r.kinterval
  /\ r.timeout \in MIN_KICK_INTERVAL .. MAX_KICK_INTERVAL
  /\ r.kinterval \in MIN_KICK_INTERVAL .. MAX_KICK_INTERVAL
  /\ r.mode \in 0 .. 2

(* The lengths the RGU has or may yet be given, and the longest naps that   *)
(* threads take or may yet take, when a request is accepted.                *)
Lengths ==
  {rgu.len} \cup {thr[c].timeout : c \in {d \in Cpus : thr[d].need}}
  \cup (IF cfg.need THEN {cfg.timeout} ELSE {})
  \cup (IF hp.pc = "bind" THEN {rgu.left} ELSE {})
NapLimits ==
  {cfg.interval + SLACK} \cup {thr[c].cur + SLACK : c \in Cpus}
  \cup {thr[c].sleep : c \in Cpus}

(* A request that cannot be carried out without the risk of a reset: the    *)
(* old or the new period can stretch beyond the old or the new timeout; it  *)
(* follows one that stopped the kicking; or it stops the kicking while the  *)
(* RGU is turned on again, by its mode or by a request still pending.       *)
Tight(r) == \E l \in Lengths \cup {r.timeout}, n \in NapLimits \cup {r.kinterval + SLACK} :
               l <= n
Rearms(r) == r.mode = 2 \/ cfg.need \/ \E c \in Cpus : thr[c].need
Risky(r) == Tight(r) \/ cfg.enable = 0 \/ (r.en = 0 /\ Rearms(r))

WriteEnable(r) ==
  /\ Live /\ wr.pc = "idle" /\ used.writes < MaxWrites /\ Valid(r)
  /\ rgu' = mtk_wdt_enable(rgu, r.en)
  /\ wr' = [pc |-> "lock", req |-> r]
  /\ hist' = [excused |-> hist.excused \/ Risky(r),
              want |-> CASE r.en = 1 -> "on" [] r.en = 0 -> "off" [] OTHER -> hist.want]
  /\ used' = [used EXCEPT !.writes = @ + 1]
  /\ UNCHANGED <<maskVars, cfg, nxt, thr, plugVars, stalled, start>>

(* mode 2 calls wd_set_mode(WDT_IRQ_ONLY_MODE), which is mode_config with   *)
(* wdt_en = TRUE, and asks for no further configuration; modes 0 and 1 call *)
(* mtk_wdt_swsysret_config with a bit that function ignores.                *)
WriteLocked ==
  /\ Live /\ wr.pc = "lock" /\ LockFree
  /\ cfg' = [interval |-> wr.req.kinterval, timeout |-> wr.req.timeout,
             need |-> cfg.need \/ wr.req.mode # 2, enable |-> wr.req.en]
  /\ rgu' = IF wr.req.mode = 2 THEN [rgu EXCEPT !.on = TRUE] ELSE rgu
  /\ wr' = [pc |-> "idle", req |-> <<>>]
  /\ UNCHANGED <<maskVars, nxt, thr, plugVars, stalled, start, hist, used>>

Pause ==              \* /sys/kernel/mtk_rgu/pause
  /\ Live /\ wr.pc = "idle" /\ used.writes < MaxWrites
  /\ rgu' = mtk_wdt_enable(rgu, 0)
  /\ hist' = [hist EXCEPT !.want = "off"]
  /\ used' = [used EXCEPT !.writes = @ + 1]
  /\ UNCHANGED <<maskVars, cfg, nxt, thr, plugVars, stalled, start, wr>>

-----------------------------------------------------------------------------
Stall(c) ==           \* CPU c stops running its threads, for good
  /\ Live /\ used.stalls < MaxStalls /\ c \in online \ stalled
  /\ hp.pc = "idle" \/ hp.cpu # c
  /\ stalled' = stalled \cup {c}
  /\ used' = [used EXCEPT !.stalls = @ + 1]
  /\ hist' = [hist EXCEPT !.excused = TRUE]
  /\ UNCHANGED <<maskVars, cfg, nxt, thr, plugVars, rgu, start, wr>>

Tick ==
  /\ Live /\ hp.pc = "idle" /\ wr.pc = "idle" /\ start.st # "loop"
  /\ \A c \in Cpus : thr[c].sleep > 0 \/ thr[c].pc = "none" \/ RunsOn(c) = {}
  /\ thr' = [c \in Cpus |-> [thr[c] EXCEPT !.sleep = IF @ > 0 THEN @ - 1 ELSE 0]]
  /\ nxt' = IF nxt >= 0 THEN nxt - 1 ELSE -1
  /\ rgu' = IF rgu.on
             THEN [rgu EXCEPT !.left = @ - 1, !.bitten = (rgu.left <= 1)]
             ELSE rgu
  /\ UNCHANGED <<maskVars, cfg, plugVars, envVars>>

Next ==
  \/ CreateThread \/ CreateFails
  \/ \E c \in Cpus : Thread(c) \/ CpuDown(c) \/ CpuUp(c) \/ Stall(c)
  \/ ForceHwt \/ Hotplug
  \/ \E r \in Requests : WriteEnable(r)
  \/ WriteLocked \/ Pause \/ Tick

Fairness ==
  /\ WF_vars(CreateThread) /\ WF_vars(Hotplug) /\ WF_vars(WriteLocked)
  /\ WF_vars(Tick) /\ \A c \in Cpus : WF_vars(Thread(c))

Spec == Init /\ [][Next]_vars /\ Fairness

-----------------------------------------------------------------------------
LongestNap == MAX_KICK_INTERVAL + SLACK
ThreadStates ==
  [pc : {"none", "top", "check", "mode", "length", "clear", "kick", "asleep"},
   need : BOOLEAN, timeout : Int, cur : 0 .. MAX_KICK_INTERVAL, sleep : 0 .. LongestNap]

(* The shape of the state; sleeps and the alignment time stay in range.     *)
TypeOK ==
  /\ kick_bit \subseteq Cpus /\ cpus_kick_bit \subseteq PwkBits
  /\ hang \in BOOLEAN
  /\ cfg \in [interval : 1 .. MAX_KICK_INTERVAL, timeout : Int, need : BOOLEAN,
             enable : Int]
  /\ nxt \in -1 .. MAX_KICK_INTERVAL
  /\ thr \in [Cpus -> ThreadStates]
  /\ start \in [next : 0 .. NCPU, st : {"loop", "done", "failed"}]
  /\ start.st = "loop" => start.next \in Cpus
  /\ online \subseteq Cpus /\ bound \subseteq Cpus /\ stalled \subseteq Cpus
  /\ hp \in [pc : {"idle", "read", "write", "feed", "bind"}, cpu : Cpus,
             up : BOOLEAN, tmp : SUBSET PwkBits]
  /\ wr.pc \in {"idle", "lock"}
  /\ wr.pc = "lock" => wr.req \in Requests /\ Valid(wr.req)
  /\ rgu \in [on : BOOLEAN, len : Int, left : Int, bitten : BOOLEAN]
  /\ since \in [Cpus -> 0 .. 2]

(* No CPU that is being watched is left behind: the kickers restart the     *)
(* watchdog at most once between two kicks of it, however hotplug, the      *)
(* forced reset and the other threads interleave.                           *)
NoOneLeftBehind == \A c \in Cpus \cap cpus_kick_bit : since[c] <= 1

(* The watchdog never fires on a healthy system: only after a CPU stalled,  *)
(* a thread could not be created, a reset was forced, or a configuration    *)
(* was accepted that is risky for one of the reasons given with Risky.      *)
NoFalseBite == rgu.bitten => hist.excused

(* Without a stall, and as long as no CPU is plugged and the period is not  *)
(* rewritten, no thread ever comes twice in a round, so no hang is          *)
(* reported: this is what aligning the threads' sleeps is for.              *)
HangIsReal == hang => hist.excused \/ used.plugs > 0 \/ used.writes > 0

(* A hang is only on record while a round is open: whatever ends a round    *)
(* (the restart, a plugged CPU) also forgets the report.                    *)
HangOfThisRound == hang => kick_bit # {}

(* A CPU that stalls gets the system reset, whoever else keeps kicking,     *)
(* unless somebody turned the watchdog off.                                 *)
StallBites == \A c \in Cpus : (c \in stalled) ~> (rgu.bitten \/ ~rgu.on)

(* Asked to run, the watchdog runs, once the request has been carried out.  *)
ArmedAsAsked == hist.want = "on" /\ wr.pc = "idle" => rgu.on

(* A requested timeout reaches the RGU while kicking is enabled.            *)
ConfigLands ==
  (cfg.need /\ cfg.enable = 1 /\ wr.pc = "idle") ~>
     (rgu.bitten \/ (~cfg.need /\ rgu.len = cfg.timeout))

(* "enable or disable ext wdt 1<-->enable 0<-->disable": once a request to  *)
(* disable has been carried out the watchdog stays off.                     *)
DisableSticks == hist.want = "off" /\ wr.pc = "idle" => ~rgu.on
=============================================================================
