--------------------------- MODULE WdKickerProofs ---------------------------
(* Type correctness of the kicker and the two invariants about its masks,   *)
(* for any number of CPUs, any timing and any bounds on the environment.    *)
EXTENDS WdKicker, TLAPS

USE CpuAssumption, TimeAssumption, RequestAssumption, BoundAssumption

(* CPU 0 exists.                                                            *)
LEMMA CpuZero == 0 \in Cpus
  BY DEF Cpus

(* NextSleep never exceeds the interval, so a thread's nap is in range.     *)
LEMMA NextSleepBound ==
  ASSUME NEW kb, NEW n \in -1 .. MAX_KICK_INTERVAL,
         NEW interval \in 1 .. MAX_KICK_INTERVAL
  PROVE  NextSleep(kb, n, interval) \in 0 .. MAX_KICK_INTERVAL
  BY DEF NextSleep

(* Falling asleep keeps the thread table well formed.                       *)
LEMMA DozeTypes ==
  ASSUME NEW c \in Cpus, NEW cur \in 0 .. MAX_KICK_INTERVAL,
         thr \in [Cpus -> ThreadStates], Doze(c, cur)
  PROVE  thr' \in [Cpus -> ThreadStates]
<1>1. PICK s \in Naps(cur) :
        thr' = [thr EXCEPT ![c] = [pc |-> "asleep", need |-> FALSE, timeout |-> -1,
                                   cur |-> 0, sleep |-> s]]
  BY DEF Doze
<1>2. s \in 0 .. LongestNap
  BY DEF Naps, LongestNap
<1>3. [pc |-> "asleep", need |-> FALSE, timeout |-> -1, cur |-> 0, sleep |-> s]
        \in ThreadStates
  BY <1>2 DEF ThreadStates
<1> QED BY <1>1, <1>3

(* The initial state is well formed.                                        *)
LEMMA InitTypes == Init => TypeOK
<1> SUFFICES ASSUME Init PROVE TypeOK OBVIOUS
<1>1. 0 \in Cpus BY CpuZero
<1>2. thr \in [Cpus -> ThreadStates]
  BY DEF Init, ThreadStates, LongestNap
<1>3. /\ kick_bit \subseteq Cpus /\ hang \in BOOLEAN /\ nxt \in -1 .. MAX_KICK_INTERVAL
      /\ bound \subseteq Cpus /\ stalled \subseteq Cpus
      /\ online \subseteq Cpus /\ cpus_kick_bit \subseteq PwkBits
  <2>1. /\ kick_bit = {} /\ hang = FALSE /\ nxt = -1 /\ bound = {} /\ stalled = {}
        /\ online \in SUBSET Cpus /\ cpus_kick_bit = online
    BY Zenon DEF Init
  <2>2. hang \in BOOLEAN BY <2>1, Zenon
  <2>3. -1 \in -1 .. MAX_KICK_INTERVAL OBVIOUS
  <2>4. cpus_kick_bit \subseteq PwkBits BY <2>1, Zenon
  <2> QED BY <2>1, <2>2, <2>3, <2>4, Zenon
<1>4. /\ cfg \in [interval : 1 .. MAX_KICK_INTERVAL, timeout : Int, need : BOOLEAN,
                 enable : Int]
      /\ rgu \in [on : BOOLEAN, len : Int, left : Int, bitten : BOOLEAN]
  BY DEF Init
<1>5. /\ start \in [next : 0 .. NCPU, st : {"loop", "done", "failed"}]
      /\ start.next \in Cpus
  BY <1>1 DEF Init
<1>6. hp \in [pc : {"idle", "read", "write", "feed", "bind"}, cpu : Cpus,
             up : BOOLEAN, tmp : SUBSET PwkBits]
  BY <1>1 DEF Init
<1>7. wr.pc \in {"idle", "lock"} /\ wr.pc # "lock" /\ since \in [Cpus -> 0 .. 2]
  BY DEF Init
<1> QED BY <1>2, <1>3, <1>4, <1>5, <1>6, <1>7, Zenon DEF TypeOK

(* A step of start_kicker() keeps it so.                                    *)
LEMMA StartTypes == TypeOK /\ (CreateThread \/ CreateFails) => TypeOK'
<1> SUFFICES ASSUME TypeOK, CreateThread \/ CreateFails PROVE TypeOK' OBVIOUS
<1>1. CASE CreateThread
  <2>1. start.next \in Cpus BY <1>1 DEF CreateThread, TypeOK
  <2>2. thr' \in [Cpus -> ThreadStates]
    BY <1>1, <2>1 DEF CreateThread, TypeOK, ThreadStates
  <2>3. /\ start' \in [next : 0 .. NCPU, st : {"loop", "done", "failed"}]
        /\ start'.st = "loop" => start'.next \in Cpus
    <3>1. start.next + 1 \in 0 .. NCPU /\ (start.next + 1 # NCPU => start.next + 1 \in Cpus)
      BY <2>1 DEF Cpus
    <3> QED BY <1>1, <3>1 DEF CreateThread
  <2>4. bound' \subseteq Cpus
    BY <1>1, <2>1 DEF CreateThread, TypeOK
  <2> QED BY <1>1, <2>2, <2>3, <2>4 DEF CreateThread, TypeOK, Valid, maskVars
<1>2. CASE CreateFails
  BY <1>2 DEF CreateFails, TypeOK, Valid, maskVars, plugVars
<1> QED BY <1>1, <1>2

(* A step of a kicker thread keeps it so.                                   *)
LEMMA ThreadTypes == \A c \in Cpus : TypeOK /\ Thread(c) => TypeOK'
<1> SUFFICES ASSUME NEW c \in Cpus, TypeOK, Thread(c) PROVE TypeOK' OBVIOUS
<1> USE DEF maskVars, plugVars, envVars
<1>0. /\ thr \in [Cpus -> ThreadStates] /\ thr[c] \in ThreadStates
      /\ thr[c].cur \in 0 .. MAX_KICK_INTERVAL /\ thr[c].timeout \in Int
  BY DEF TypeOK, ThreadStates
<1>1. CASE Snapshot(c)
  <2>1. /\ cfg.need \in BOOLEAN /\ cfg.timeout \in Int
        /\ cfg.interval \in 0 .. MAX_KICK_INTERVAL
    BY DEF TypeOK
  <2>2. thr' = [thr EXCEPT ![c] = [thr[c] EXCEPT !.pc = "check", !.need = cfg.need,
                                     !.timeout = cfg.timeout, !.cur = cfg.interval]]
    BY <1>0, <1>1 DEF Snapshot
  <2>3. [thr[c] EXCEPT !.pc = "check", !.need = cfg.need, !.timeout = cfg.timeout,
                       !.cur = cfg.interval] \in ThreadStates
    BY <1>0, <2>1 DEF ThreadStates
  <2>4. thr' \in [Cpus -> ThreadStates]
    BY <1>0, <2>2, <2>3
  <2> QED BY <1>1, <2>4 DEF Snapshot, TypeOK, Valid
<1>2. CASE CheckEnabled(c) \/ Wake(c)
  <2>1. thr' \in [Cpus -> ThreadStates]
    BY <1>0, <1>2 DEF CheckEnabled, Wake, ThreadStates
  <2> QED BY <1>2, <2>1 DEF CheckEnabled, Wake, TypeOK, Valid
<1>3. CASE StopsKicking(c) \/ KickElsewhere(c)
  <2>1. thr' \in [Cpus -> ThreadStates]
    BY <1>0, <1>3, DozeTypes DEF StopsKicking, KickElsewhere
  <2> QED BY <1>3, <2>1 DEF StopsKicking, KickElsewhere, TypeOK, Valid
<1>4. CASE ConfigMode(c) \/ ConfigLength(c)
  <2>1. thr' \in [Cpus -> ThreadStates]
    BY <1>0, <1>4 DEF ConfigMode, ConfigLength, ThreadStates
  <2>2. rgu' \in [on : BOOLEAN, len : Int, left : Int, bitten : BOOLEAN]
    BY <1>0, <1>4 DEF ConfigMode, ConfigLength, ConfigLengthOf, TypeOK
  <2> QED BY <1>4, <2>1, <2>2 DEF ConfigMode, ConfigLength, TypeOK, Valid
<1>5. CASE ConfigDone(c)
  <2>1. thr' \in [Cpus -> ThreadStates]
    BY <1>0, <1>5 DEF ConfigDone, ThreadStates
  <2> QED BY <1>5, <2>1 DEF ConfigDone, TypeOK, Valid
<1>6. CASE Kick(c)
  <2>1. Kicks(c) BY <1>6 DEF Kick
  <2>2. Doze(c, NextSleep(kick_bit, nxt, cfg.interval))
    BY <2>1 DEF Kicks
  <2>3. thr' \in [Cpus -> ThreadStates]
    BY <2>2, <1>0, DozeTypes, NextSleepBound DEF TypeOK
  <2>4. rgu' \in [on : BOOLEAN, len : Int, left : Int, bitten : BOOLEAN]
    BY <2>1 DEF Kicks, mtk_wdt_restart, TypeOK
  <2>5. since' \in [Cpus -> 0 .. 2]
    BY <2>1 DEF Kicks, TypeOK
  <2>6. /\ kick_bit' \subseteq Cpus /\ hang' \in BOOLEAN
        /\ nxt' \in -1 .. MAX_KICK_INTERVAL
    BY <2>1 DEF Kicks, HangAfter, TypeOK
  <2> QED BY <1>6, <2>3, <2>4, <2>5, <2>6 DEF Kick, TypeOK, Valid
<1> QED BY <1>1, <1>2, <1>3, <1>4, <1>5, <1>6 DEF Thread

(* A forced reset, a CPU that comes, goes or hangs, and a callback's step   *)
(* keep it so.                                                              *)
LEMMA HotplugTypes ==
  TypeOK /\ (\/ ForceHwt \/ Hotplug
             \/ \E c \in Cpus : CpuDown(c) \/ CpuUp(c) \/ Stall(c)) => TypeOK'
<1> SUFFICES ASSUME TypeOK,
                    \/ ForceHwt \/ Hotplug
                    \/ \E c \in Cpus : CpuDown(c) \/ CpuUp(c) \/ Stall(c)
             PROVE  TypeOK'
  OBVIOUS
<1> USE DEF maskVars, plugVars, envVars
<1>1. CASE ForceHwt
  <2>1. thr' \in [Cpus -> ThreadStates]
    BY <1>1, CpuZero DEF ForceHwt, TypeOK, ThreadStates
  <2>2. since' \in [Cpus -> 0 .. 2]
    BY <1>1 DEF ForceHwt, TypeOK
  <2> QED BY <1>1, <2>1, <2>2 DEF ForceHwt, TypeOK, Valid
<1>2. CASE \E c \in Cpus : CpuDown(c) \/ CpuUp(c) \/ Stall(c)
  <2> PICK c \in Cpus : CpuDown(c) \/ CpuUp(c) \/ Stall(c) BY <1>2
  <2>1. CASE Stall(c)
    BY <2>1 DEF Stall, TypeOK, Valid
  <2>2. CASE CpuDown(c) \/ CpuUp(c)
    <3>1. hp' \in [pc : {"idle", "read", "write", "feed", "bind"}, cpu : Cpus,
                  up : BOOLEAN, tmp : SUBSET PwkBits]
      <4>1. CASE CpuDown(c)
        BY <4>1 DEF CpuDown
      <4>2. CASE CpuUp(c)
        BY <4>2 DEF CpuUp
      <4> QED BY <2>2, <4>1, <4>2
    <3>2. online' \subseteq Cpus /\ bound' \subseteq Cpus
      BY <2>2 DEF CpuDown, CpuUp, TypeOK
    <3> QED BY <2>2, <3>1, <3>2 DEF CpuDown, CpuUp, TypeOK, Valid
  <2> QED BY <2>1, <2>2
<1>3. CASE FlagRead \/ PlugFeed \/ Bind
  <2>1. rgu' \in [on : BOOLEAN, len : Int, left : Int, bitten : BOOLEAN]
    BY <1>3 DEF FlagRead, PlugFeed, Bind, mtk_wdt_restart, TypeOK
  <2> QED BY <1>3, <2>1 DEF FlagRead, PlugFeed, Bind, TypeOK, Valid
<1>4. CASE FlagWrite
  <2>1. cpus_kick_bit' \subseteq PwkBits
    BY <1>4 DEF FlagWrite, Flagged, TypeOK
  <2>2. since' \in [Cpus -> 0 .. 2]
    BY <1>4 DEF FlagWrite, TypeOK
  <2>3. hp' \in [pc : {"idle", "read", "write", "feed", "bind"}, cpu : Cpus,
                up : BOOLEAN, tmp : SUBSET PwkBits]
    BY <1>4 DEF FlagWrite, TypeOK
  <2> QED BY <1>4, <2>1, <2>2, <2>3 DEF FlagWrite, TypeOK, Valid
<1> QED BY <1>1, <1>2, <1>3, <1>4 DEF Hotplug

(* A write to /proc/wdk or to the pause file keeps it so.                   *)
LEMMA WriteTypes ==
  TypeOK /\ (WriteLocked \/ Pause \/ \E r \in Requests : WriteEnable(r)) => TypeOK'
<1> SUFFICES ASSUME TypeOK, WriteLocked \/ Pause \/ \E r \in Requests : WriteEnable(r)
             PROVE  TypeOK'
  OBVIOUS
<1> USE DEF maskVars, plugVars
<1>1. CASE WriteLocked
  <2>1. wr.req \in Requests /\ Valid(wr.req)
    BY <1>1 DEF WriteLocked, TypeOK
  <2>2. wr.req \in [mode : Int, kinterval : Int, timeout : Int, en : Int]
    BY <2>1
  <2>3. cfg' \in [interval : 1 .. MAX_KICK_INTERVAL, timeout : Int, need : BOOLEAN,
                  enable : Int]
    <3>1. /\ wr.req.kinterval \in 1 .. MAX_KICK_INTERVAL
          /\ wr.req.timeout \in Int /\ wr.req.en \in Int
      BY <2>1, <2>2 DEF Valid
    <3>2. (cfg.need \/ wr.req.mode # 2) \in BOOLEAN
      OBVIOUS
    <3>3. cfg' = [interval |-> wr.req.kinterval, timeout |-> wr.req.timeout,
                  need |-> cfg.need \/ wr.req.mode # 2, enable |-> wr.req.en]
      BY <1>1 DEF WriteLocked
    <3> QED BY <3>1, <3>2, <3>3
  <2>4. rgu' \in [on : BOOLEAN, len : Int, left : Int, bitten : BOOLEAN]
    BY <1>1 DEF WriteLocked, TypeOK
  <2>5. wr'.pc = "idle" BY <1>1 DEF WriteLocked
  <2> QED BY <1>1, <2>3, <2>4, <2>5 DEF WriteLocked, TypeOK, Valid
<1>2. CASE Pause
  <2>1. rgu' \in [on : BOOLEAN, len : Int, left : Int, bitten : BOOLEAN]
    BY <1>2 DEF Pause, mtk_wdt_enable, TypeOK
  <2> QED BY <1>2, <2>1 DEF Pause, TypeOK, Valid
<1>3. CASE \E r \in Requests : WriteEnable(r)
  <2> PICK r \in Requests : WriteEnable(r) BY <1>3
  <2>1. rgu' \in [on : BOOLEAN, len : Int, left : Int, bitten : BOOLEAN]
    BY DEF WriteEnable, mtk_wdt_enable, TypeOK
  <2>2. wr'.pc = "lock" /\ wr'.req = r /\ Valid(r)
    BY DEF WriteEnable
  <2>3. wr'.pc = "lock" => wr'.req \in Requests /\ Valid(wr.req)'
    BY <2>2 DEF Valid
  <2> QED BY <2>1, <2>2, <2>3 DEF WriteEnable, TypeOK, Valid
<1> QED BY <1>1, <1>2, <1>3

(* The passing of time keeps it so.                                         *)
LEMMA TickTypes == TypeOK /\ Tick => TypeOK'
<1> SUFFICES ASSUME TypeOK, Tick PROVE TypeOK' OBVIOUS
<1>1. thr' \in [Cpus -> ThreadStates]
  <2>1. ASSUME NEW c \in Cpus
        PROVE  [thr[c] EXCEPT !.sleep = IF @ > 0 THEN @ - 1 ELSE 0] \in ThreadStates
    BY DEF TypeOK, ThreadStates, LongestNap
  <2> QED BY <2>1 DEF Tick
<1>2. rgu' \in [on : BOOLEAN, len : Int, left : Int, bitten : BOOLEAN]
  <2>1. rgu \in [on : BOOLEAN, len : Int, left : Int, bitten : BOOLEAN]
    BY DEF TypeOK
  <2>2. rgu' = IF rgu.on
                THEN [rgu EXCEPT !.left = rgu.left - 1, !.bitten = (rgu.left <= 1)]
                ELSE rgu
    BY <2>1 DEF Tick
  <2>3. (rgu.left <= 1) \in BOOLEAN /\ rgu.left - 1 \in Int
    BY <2>1
  <2> QED BY <2>1, <2>2, <2>3
<1>3. nxt' \in -1 .. MAX_KICK_INTERVAL
  <2>1. nxt \in -1 .. MAX_KICK_INTERVAL BY DEF TypeOK
  <2>2. nxt' = IF nxt >= 0 THEN nxt - 1 ELSE -1 BY DEF Tick
  <2> QED BY <2>1, <2>2
<1> QED BY <1>1, <1>2, <1>3 DEF Tick, TypeOK, Valid, maskVars, plugVars, envVars

(* Every step does.                                                         *)
LEMMA NextTypes == TypeOK /\ [Next]_vars => TypeOK'
<1> SUFFICES ASSUME TypeOK, [Next]_vars PROVE TypeOK' OBVIOUS
<1>1. CASE UNCHANGED vars
  BY <1>1 DEF vars, TypeOK, Valid
<1> QED BY <1>1, StartTypes, ThreadTypes, HotplugTypes, WriteTypes, TickTypes DEF Next

(* Type correctness of the kicker.                                          *)
THEOREM KickerTypes == Spec => []TypeOK
  BY InitTypes, NextTypes, PTL DEF Spec

-----------------------------------------------------------------------------
(* NoOneLeftBehind is not inductive: it needs that a CPU whose bit is set   *)
(* has not been passed over since, and that the copy of the mask which a    *)
(* hotplug callback holds across the lock names no CPU that has been passed *)
(* over twice; no kicker can restart the watchdog while that copy is held.  *)
BitMeansFresh == \A c \in Cpus \cap kick_bit : since[c] = 0
CopyIsFresh == hp.pc = "write" => \A c \in Cpus \cap hp.tmp : since[c] <= 1
MaskInv == NoOneLeftBehind /\ BitMeansFresh /\ CopyIsFresh

(* The kick of a thread.                                                    *)
LEMMA KickMasks == \A c \in Cpus : TypeOK /\ MaskInv /\ Kick(c) => MaskInv'
<1> SUFFICES ASSUME NEW c \in Cpus, TypeOK, MaskInv, Kick(c) PROVE MaskInv'
  OBVIOUS
<1> DEFINE local == kick_bit \cup {c}
           full == local = cpus_kick_bit
           fresh(d) == IF d = c THEN 0 ELSE since[d]
<1>1. /\ kick_bit' = IF full THEN {} ELSE local
      /\ since' = [d \in Cpus |-> IF full /\ fresh(d) < 2 THEN fresh(d) + 1 ELSE fresh(d)]
      /\ cpus_kick_bit' = cpus_kick_bit
  BY DEF Kick, Kicks, Full
<1>2. hp'.pc # "write"
  BY DEF Kick, LockFree, plugVars
<1>3. \A d \in Cpus : since[d] \in 0 .. 2
  BY DEF TypeOK
<1>4. \A d \in Cpus \cap local : fresh(d) = 0
  BY DEF MaskInv, BitMeansFresh
<1>5. ASSUME NEW d \in Cpus \cap cpus_kick_bit' PROVE since'[d] <= 1
  <2>1. CASE full
    BY <2>1, <1>1, <1>4, <1>5
  <2>2. CASE ~full
    BY <2>2, <1>1, <1>5 DEF MaskInv, NoOneLeftBehind
  <2> QED BY <2>1, <2>2
<1>6. ASSUME NEW d \in Cpus \cap kick_bit' PROVE since'[d] = 0
  <2>1. ~full /\ d \in local
    BY <1>1, <1>6
  <2> QED BY <2>1, <1>1, <1>4
<1> QED BY <1>2, <1>5, <1>6 DEF MaskInv, NoOneLeftBehind, BitMeansFresh, CopyIsFresh

(* The steps of a hotplug callback that touch the mask, and the forced      *)
(* reset, which may come between them.                                      *)
LEMMA FlagMasks ==
  TypeOK /\ MaskInv /\ (FlagRead \/ FlagWrite \/ ForceHwt) => MaskInv'
<1> SUFFICES ASSUME TypeOK, MaskInv, FlagRead \/ FlagWrite \/ ForceHwt PROVE MaskInv'
  OBVIOUS
<1> USE DEF MaskInv, NoOneLeftBehind, BitMeansFresh, CopyIsFresh, maskVars
<1>1. CASE FlagRead
  <2>1. hp'.tmp = cpus_kick_bit
    BY <1>1 DEF FlagRead, TypeOK
  <2> QED BY <1>1, <2>1 DEF FlagRead
<1>2. CASE FlagWrite
  <2>1. /\ hp.pc = "write" /\ kick_bit' = {}
        /\ cpus_kick_bit' \subseteq hp.tmp \cup {hp.cpu}
        /\ since' = [since EXCEPT ![hp.cpu] = 0]
    BY <1>2 DEF FlagWrite, Flagged
  <2>2. since \in [Cpus -> 0 .. 2] /\ hp'.pc # "write"
    BY <1>2 DEF FlagWrite, TypeOK
  <2> QED BY <2>1, <2>2
<1>3. CASE ForceHwt
  <2>1. /\ since' = [c \in Cpus |-> IF c \in cpus_kick_bit THEN since[c] ELSE 0]
        /\ kick_bit' = kick_bit /\ hp' = hp
    BY <1>3 DEF ForceHwt, plugVars
  <2>2. \A c \in Cpus : since'[c] = since[c] \/ since'[c] = 0
    BY <2>1
  <2>3. \A c \in Cpus : since'[c] <= 1
    BY <2>1
  <2> QED BY <2>1, <2>2, <2>3
<1> QED BY <1>1, <1>2, <1>3

(* The steps of everybody else.                                             *)
QuietThread(c) ==
  \/ Snapshot(c) \/ CheckEnabled(c) \/ StopsKicking(c) \/ ConfigMode(c)
  \/ ConfigLength(c) \/ ConfigDone(c) \/ KickElsewhere(c) \/ Wake(c)
Quiet ==
  \/ CreateThread \/ CreateFails \/ PlugFeed \/ Bind \/ WriteLocked \/ Pause \/ Tick
  \/ \E r \in Requests : WriteEnable(r)
  \/ \E c \in Cpus : QuietThread(c) \/ CpuDown(c) \/ CpuUp(c) \/ Stall(c)

(* They touch neither the masks, nor the history, nor a copy of the mask.   *)
LEMMA QuietSteps ==
  TypeOK /\ Quiet => UNCHANGED maskVars /\ (UNCHANGED hp \/ hp'.pc # "write")
<1> SUFFICES ASSUME TypeOK, Quiet
             PROVE  UNCHANGED maskVars /\ (UNCHANGED hp \/ hp'.pc # "write")
  OBVIOUS
<1>1. CASE CreateThread \/ CreateFails \/ WriteLocked \/ Pause \/ Tick
  BY <1>1 DEF CreateThread, CreateFails, WriteLocked, Pause, Tick, maskVars, plugVars
<1>2. CASE PlugFeed \/ Bind
  BY <1>2 DEF PlugFeed, Bind, maskVars, TypeOK
<1>3. CASE \E r \in Requests : WriteEnable(r)
  BY <1>3 DEF WriteEnable, plugVars
<1>4. ASSUME NEW c \in Cpus, QuietThread(c)
      PROVE  UNCHANGED maskVars /\ UNCHANGED hp
  BY <1>4 DEF QuietThread, Snapshot, CheckEnabled, StopsKicking, ConfigMode,
              ConfigLength, ConfigDone, KickElsewhere, Wake, plugVars
<1>5. ASSUME NEW c \in Cpus, CpuDown(c) \/ CpuUp(c)
      PROVE  UNCHANGED maskVars /\ hp'.pc # "write"
  BY <1>5 DEF CpuDown, CpuUp
<1>6. ASSUME NEW c \in Cpus, Stall(c)
      PROVE  UNCHANGED maskVars /\ UNCHANGED hp
  BY <1>6 DEF Stall, plugVars
<1> QED BY <1>1, <1>2, <1>3, <1>4, <1>5, <1>6 DEF Quiet

(* So they keep MaskInv.                                                    *)
LEMMA OtherMasks == TypeOK /\ MaskInv /\ (Quiet \/ UNCHANGED vars) => MaskInv'
<1> SUFFICES ASSUME TypeOK, MaskInv, Quiet \/ UNCHANGED vars PROVE MaskInv' OBVIOUS
<1>1. UNCHANGED maskVars /\ (UNCHANGED hp \/ hp'.pc # "write")
  BY QuietSteps DEF vars, maskVars
<1> QED
  BY <1>1 DEF MaskInv, NoOneLeftBehind, BitMeansFresh, CopyIsFresh, maskVars

(* Every step is one of these.                                              *)
LEMMA StepKinds ==
  [Next]_vars => \/ \E c \in Cpus : Kick(c)
                 \/ FlagRead \/ FlagWrite \/ ForceHwt
                 \/ Quiet \/ UNCHANGED vars
  BY DEF Next, Thread, Hotplug, Quiet, QuietThread

(* MaskInv is inductive.                                                    *)
LEMMA MaskInduction ==
  /\ Init => MaskInv
  /\ TypeOK /\ MaskInv /\ [Next]_vars => MaskInv'
<1>1. Init => MaskInv
  BY DEF Init, MaskInv, NoOneLeftBehind, BitMeansFresh, CopyIsFresh
<1>2. TypeOK /\ MaskInv /\ [Next]_vars => MaskInv'
  BY StepKinds, KickMasks, FlagMasks, OtherMasks
<1> QED BY <1>1, <1>2

(* No watched CPU is passed over twice without a kick of its own.           *)
THEOREM KickerWaitsForAll == Spec => []NoOneLeftBehind
<1>1. MaskInv => NoOneLeftBehind
  BY DEF MaskInv
<1> QED BY KickerTypes, MaskInduction, <1>1, PTL DEF Spec

(* A recorded hang never outlives the round it was seen in.                 *)
THEOREM KickerForgetsHangs == Spec => []HangOfThisRound
<1>1. Init => HangOfThisRound
  BY DEF Init, HangOfThisRound
<1>2. ASSUME TypeOK, HangOfThisRound, [Next]_vars PROVE HangOfThisRound'
  <2>1. ASSUME NEW c \in Cpus, Kick(c) PROVE HangOfThisRound'
    BY <2>1 DEF Kick, Kicks, HangAfter, HangOfThisRound
  <2>2. CASE FlagWrite
    BY <2>2 DEF FlagWrite, HangOfThisRound
  <2>3. CASE FlagRead \/ ForceHwt
    BY <1>2, <2>3 DEF FlagRead, ForceHwt, HangOfThisRound, maskVars
  <2>4. CASE Quiet \/ UNCHANGED vars
    BY <1>2, <2>4, QuietSteps DEF HangOfThisRound, maskVars, vars
  <2> QED BY <1>2, <2>1, <2>2, <2>3, <2>4, StepKinds
<1> QED BY KickerTypes, <1>1, <1>2, PTL DEF Spec
=============================================================================
