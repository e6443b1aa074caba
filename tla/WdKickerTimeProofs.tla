------------------------ MODULE WdKickerTimeProofs --------------------------
(* Why the watchdog does not fire, and why no hang is reported, on a        *)
(* healthy system: the argument about time, for any number of CPUs, any     *)
(* period, timeout and jitter with room for each other, any requests and    *)
(* any number of them.                                                      *)
EXTENDS WdKickerProofs

USE CpuAssumption, TimeAssumption, RequestAssumption, BoundAssumption

(* The types of the history and of the counters of the environment.         *)
Counted ==
  /\ hist \in [excused : BOOLEAN, want : {"on", "off"}]
  /\ used \in [writes : Nat, plugs : Nat, stalls : Nat]

LEMMA CountedHolds ==
  /\ Init => Counted
  /\ Counted /\ [Next]_vars => Counted'
<1>1. Init => Counted
  BY DEF Init, Counted
<1>2. ASSUME Counted, [Next]_vars PROVE Counted'
  <2> USE <1>2 DEF Counted, maskVars, plugVars, envVars
  <2>1. CASE UNCHANGED vars BY <2>1 DEF vars
  <2>2. CASE CreateThread \/ CreateFails \/ ForceHwt
    BY <2>2 DEF CreateThread, CreateFails, ForceHwt
  <2>3. ASSUME NEW c \in Cpus, Thread(c) PROVE Counted'
    BY <2>3 DEF Thread, Snapshot, CheckEnabled, StopsKicking, ConfigMode, ConfigLength,
                ConfigDone, Kick, KickElsewhere, Wake
  <2>4. ASSUME NEW c \in Cpus, CpuDown(c) \/ CpuUp(c) \/ Stall(c) PROVE Counted'
    <3>1. hist' = hist \/ hist' = [hist EXCEPT !.excused = TRUE]
      BY <2>4 DEF CpuDown, CpuUp, Stall
    <3>2. hist' \in [excused : BOOLEAN, want : {"on", "off"}]
      BY <3>1
    <3>3. \/ used' = [used EXCEPT !.plugs = used.plugs + 1]
          \/ used' = [used EXCEPT !.stalls = used.stalls + 1]
      BY <2>4 DEF CpuDown, CpuUp, Stall
    <3>4. used' \in [writes : Nat, plugs : Nat, stalls : Nat]
      BY <3>3
    <3> QED BY <3>2, <3>4
  <2>5. CASE Hotplug
    BY <2>5 DEF Hotplug, FlagRead, FlagWrite, PlugFeed, Bind
  <2>6. ASSUME NEW r \in Requests, WriteEnable(r) PROVE Counted'
    <3>1. used' \in [writes : Nat, plugs : Nat, stalls : Nat]
      BY <2>6 DEF WriteEnable
    <3>2. PICK e \in BOOLEAN : e = (hist.excused \/ Risky(r))
      BY Zenon
    <3>3. PICK w : w = CASE r.en = 1 -> "on" [] r.en = 0 -> "off" [] OTHER -> hist.want
      BY Zenon
    <3>4. hist' = [excused |-> e, want |-> w]
      BY <2>6, <3>2, <3>3, Zenon DEF WriteEnable
    <3>5. w \in {"on", "off"}
      BY <3>3
    <3> HIDE <3>2, <3>3
    <3> QED BY <3>1, <3>4, <3>5
  <2>7. CASE WriteLocked \/ Pause \/ Tick
    BY <2>7 DEF WriteLocked, Pause, Tick
  <2> QED BY <2>1, <2>2, <2>3, <2>4, <2>5, <2>6, <2>7 DEF Next
<1> QED BY <1>1, <1>2

(* Asked to run, the watchdog runs: only a request to stop turns it off.    *)
Armed == hist.want = "on" => rgu.on

THEOREM KickerArmed == Spec => []ArmedAsAsked
<1>1. Init => Armed
  BY DEF Init, Armed
<1>2. TypeOK /\ Counted /\ Armed /\ [Next]_vars => Armed'
  <2> SUFFICES ASSUME TypeOK, Counted, Armed, [Next]_vars PROVE Armed' OBVIOUS
  <2> USE DEF Armed, TypeOK, Counted, maskVars, plugVars, envVars
  <2>1. CASE UNCHANGED vars BY <2>1 DEF vars
  <2>2. CASE CreateThread \/ CreateFails \/ ForceHwt
    BY <2>2 DEF CreateThread, CreateFails, ForceHwt
  <2>3. ASSUME NEW c \in Cpus, Thread(c) PROVE Armed'
    BY <2>3 DEF Thread, Snapshot, CheckEnabled, StopsKicking, ConfigMode, ConfigLength,
                ConfigDone, Kick, Kicks, mtk_wdt_restart, KickElsewhere, Wake
  <2>4. ASSUME NEW c \in Cpus, CpuDown(c) \/ CpuUp(c) \/ Stall(c) PROVE Armed'
    BY <2>4 DEF CpuDown, CpuUp, Stall
  <2>5. CASE Hotplug
    BY <2>5 DEF Hotplug, FlagRead, FlagWrite, PlugFeed, mtk_wdt_restart, Bind
  <2>6. ASSUME NEW r \in Requests, WriteEnable(r) PROVE Armed'
    BY <2>6 DEF WriteEnable, mtk_wdt_enable
  <2>7. CASE WriteLocked \/ Pause \/ Tick
    BY <2>7 DEF WriteLocked, Pause, mtk_wdt_enable, Tick
  <2> QED BY <2>1, <2>2, <2>3, <2>4, <2>5, <2>6, <2>7 DEF Next
<1>3. Armed => ArmedAsAsked
  BY DEF Armed, ArmedAsAsked
<1> QED BY KickerTypes, CountedHolds, <1>1, <1>2, <1>3, PTL DEF Spec

-----------------------------------------------------------------------------
(* Who is watched, while nothing went wrong: every thread that exists runs, *)
(* on its own CPU unless that CPU is down or being plugged; outside a       *)
(* callback the mask is the set of CPUs that are up, and the open round     *)
(* waits for one of them.                                                   *)
Threads ==
  /\ start.st # "failed"
  /\ start.st = "loop" => hp.pc = "idle"
  /\ start.st = "done" => start.next = NCPU
  /\ \A c \in Cpus : Created(c) <=> thr[c].pc # "none"
Placed ==
  /\ stalled = {} /\ 0 \in online /\ bound \subseteq online
  /\ \A c \in online \ bound : Created(c) => hp.pc # "idle" /\ hp.cpu = c
  /\ hp.pc # "idle" => (hp.up => hp.cpu \in online) /\ (~hp.up => hp.cpu \notin online)
  /\ hp.pc = "bind" => hp.up
Masked ==
  /\ hp.pc \in {"idle", "feed", "bind"} => cpus_kick_bit = online
  /\ hp.pc \in {"read", "write"} => online = Flagged(cpus_kick_bit, hp.cpu, hp.up)
  /\ hp.pc = "write" => hp.tmp = cpus_kick_bit
  /\ hp.pc \in {"idle", "feed", "bind"} => kick_bit \subseteq online /\ kick_bit # online
Roster == Threads /\ Placed /\ Masked

(* The excuse is kept.                                                      *)
LEMMA ExcuseStays == Counted /\ [Next]_vars /\ hist.excused => hist'.excused
<1> SUFFICES ASSUME Counted, [Next]_vars, hist.excused PROVE hist'.excused OBVIOUS
<1> USE DEF Counted, maskVars, plugVars, envVars
<1>1. CASE UNCHANGED vars BY <1>1 DEF vars
<1>2. CASE CreateThread \/ CreateFails \/ ForceHwt
  BY <1>2 DEF CreateThread, CreateFails, ForceHwt
<1>3. ASSUME NEW c \in Cpus, Thread(c) PROVE hist'.excused
  BY <1>3 DEF Thread, Snapshot, CheckEnabled, StopsKicking, ConfigMode, ConfigLength,
              ConfigDone, Kick, KickElsewhere, Wake
<1>4. ASSUME NEW c \in Cpus, CpuDown(c) \/ CpuUp(c) \/ Stall(c) PROVE hist'.excused
  BY <1>4 DEF CpuDown, CpuUp, Stall
<1>5. CASE Hotplug
  BY <1>5 DEF Hotplug, FlagRead, FlagWrite, PlugFeed, Bind
<1>6. ASSUME NEW r \in Requests, WriteEnable(r) PROVE hist'.excused
  BY <1>6 DEF WriteEnable
<1>7. CASE WriteLocked \/ Pause \/ Tick
  BY <1>7 DEF WriteLocked, Pause, Tick
<1> QED BY <1>1, <1>2, <1>3, <1>4, <1>5, <1>6, <1>7 DEF Next

LEMMA InitRoster == Init => Roster
<1> SUFFICES ASSUME Init PROVE Roster OBVIOUS
<1>1. Threads
  <2>1. start.st = "loop" /\ start.next = 0 /\ hp.pc = "idle"
    BY DEF Init
  <2>2. \A c \in Cpus : thr[c].pc = "none" /\ ~Created(c)
    BY <2>1 DEF Init, Created, Cpus
  <2> QED BY <2>1, <2>2 DEF Threads
<1>2. Placed
  <2>1. 0 \in online /\ online \subseteq Cpus /\ bound = {} /\ stalled = {}
        /\ start.next = 0 /\ hp.pc = "idle"
    BY Zenon DEF Init
  <2> QED BY <2>1 DEF Placed, Created, Cpus
<1>3. Masked BY DEF Init, Masked
<1> QED BY <1>1, <1>2, <1>3 DEF Roster

(* What goes wrong is excused.                                              *)
LEMMA Accidents ==
  ASSUME Counted, ~hist'.excused
  PROVE  ~CreateFails /\ ~ForceHwt /\ \A c \in Cpus : ~Stall(c)
BY DEF Counted, CreateFails, ForceHwt, Stall

(* A step of a thread other than a kick leaves the roster alone.            *)
LEMMA ThreadKeepsPlace ==
  ASSUME TypeOK, Roster, NEW c \in Cpus, QuietThread(c)
  PROVE  Roster'
<1> USE DEF maskVars, plugVars, envVars
<1>1. UNCHANGED <<start, stalled, online, bound, hp, cpus_kick_bit, kick_bit>>
  BY DEF QuietThread, Snapshot, CheckEnabled, StopsKicking, ConfigMode, ConfigLength,
         ConfigDone, KickElsewhere, Wake
<1>2. \A d \in Cpus : thr[d].pc # "none" <=> thr'[d].pc # "none"
  <2>1. CASE StopsKicking(c) \/ KickElsewhere(c)
    BY <2>1 DEF StopsKicking, KickElsewhere, Doze, At, TypeOK, ThreadStates
  <2>2. CASE Snapshot(c)
    <3>1. thr' = [thr EXCEPT ![c] = [thr[c] EXCEPT !.pc = "check", !.need = cfg.need,
                                       !.timeout = cfg.timeout, !.cur = cfg.interval]]
      BY <2>2 DEF Snapshot, TypeOK
    <3> QED BY <2>2, <3>1 DEF Snapshot, At, TypeOK, ThreadStates
  <2>3. CASE CheckEnabled(c)
    BY <2>3 DEF CheckEnabled, At, TypeOK, ThreadStates
  <2>4. CASE ConfigMode(c) \/ ConfigLength(c) \/ ConfigDone(c) \/ Wake(c)
    BY <2>4 DEF ConfigMode, ConfigLength, ConfigDone, Wake, At, TypeOK, ThreadStates
  <2> QED BY <2>1, <2>2, <2>3, <2>4 DEF QuietThread
<1> QED BY <1>1, <1>2 DEF Roster, Threads, Placed, Masked, Created

(* A kick: the thread that kicks runs on its own CPU, so its CPU is up.     *)
LEMMA KickKeepsPlace ==
  ASSUME TypeOK, Roster, NEW c \in Cpus, Kick(c)
  PROVE  Roster'
<1> USE DEF maskVars, plugVars, envVars
<1>1. UNCHANGED <<start, stalled, online, bound, hp, cpus_kick_bit>>
  BY DEF Kick
<1>2. Kicks(c) /\ c \in RunsOn(c) BY DEF Kick
<1>3. \A d \in Cpus : thr[d].pc # "none" <=> thr'[d].pc # "none"
  BY <1>2 DEF Kick, At, Kicks, Doze, TypeOK, ThreadStates
<1>4. c \in online /\ 0 \in online
  BY <1>2 DEF RunsOn, Roster, Placed
<1>5. kick_bit' = IF kick_bit \cup {c} = cpus_kick_bit THEN {} ELSE kick_bit \cup {c}
  BY <1>2 DEF Kicks, Full
<1>6. hp.pc \in {"idle", "feed", "bind"} => kick_bit' \subseteq online /\ kick_bit' # online
  BY <1>4, <1>5 DEF Roster, Masked
<1> QED BY <1>1, <1>3, <1>6 DEF Roster, Threads, Placed, Masked, Created

(* A new thread.                                                            *)
LEMMA CreateKeepsPlace ==
  ASSUME TypeOK, Roster, CreateThread
  PROVE  Roster'
<1> USE DEF maskVars
<1>1. UNCHANGED <<stalled, online, hp, cpus_kick_bit, kick_bit>>
  BY DEF CreateThread
<1>2. start.next \in Cpus /\ start.next \in Nat /\ NCPU \in Nat
  BY DEF CreateThread, TypeOK, Cpus
<1>3. /\ start'.next = start.next + 1 /\ start'.st \in {"loop", "done"}
      /\ start'.st = "done" => start'.next = NCPU
      /\ bound' = IF start.next \in online THEN bound \cup {start.next} ELSE bound
      /\ thr' = [thr EXCEPT ![start.next].pc = "top"]
      /\ hp.pc = "idle"
  BY DEF CreateThread, Roster, Threads
<1>4. \A d \in Cpus : d < start'.next => d = start.next \/ d < start.next
  BY <1>2, <1>3 DEF Cpus
<1>5. thr'[start.next].pc = "top" /\ \A d \in Cpus \ {start.next} : thr'[d] = thr[d]
  BY <1>2, <1>3 DEF TypeOK, ThreadStates
<1>6. Threads'
  <2>1. \A d \in Cpus : d < start'.next <=> d = start.next \/ d < start.next
    BY <1>2, <1>3 DEF Cpus
  <2>2. \A d \in Cpus : d < start'.next <=> thr'[d].pc # "none"
    BY <1>5, <2>1 DEF Roster, Threads, Created
  <2> QED BY <1>1, <1>3, <2>2 DEF Threads, Created
<1>7. Placed'
  BY <1>1, <1>3, <1>4 DEF Roster, Placed, Created, TypeOK
<1>8. Masked'
  BY <1>1, <1>3 DEF Roster, Masked
<1> QED BY <1>6, <1>7, <1>8 DEF Roster

(* A CPU goes or comes, and the steps of the callback that follows.         *)
LEMMA PlugKeepsPlace ==
  ASSUME TypeOK, Roster, Hotplug \/ \E c \in Cpus : CpuDown(c) \/ CpuUp(c)
  PROVE  Roster'
<1> USE DEF maskVars, plugVars, envVars
<1>1. UNCHANGED <<start, stalled, thr>> /\ start.st # "failed"
  BY DEF Hotplug, FlagRead, FlagWrite, PlugFeed, Bind, CpuDown, CpuUp, Roster, Threads
<1>2. Threads'
  <2>1. start.st = "loop" => hp'.pc = "idle"
    BY DEF Hotplug, FlagRead, FlagWrite, PlugFeed, Bind, CpuDown, CpuUp, Roster, Threads
  <2> QED BY <1>1, <2>1 DEF Roster, Threads, Created
<1>3. ASSUME NEW c \in Cpus, CpuDown(c) PROVE Roster'
  <2>1. /\ online' = online \ {c} /\ bound' = bound \ {c} /\ c # 0
        /\ hp.pc = "idle" /\ hp'.pc = "read" /\ hp'.cpu = c /\ ~hp'.up
        /\ UNCHANGED <<cpus_kick_bit, kick_bit>> /\ c \in online
    BY <1>3 DEF CpuDown
  <2>2. Placed' BY <1>1, <2>1 DEF Roster, Placed, Created
  <2>3. Masked' BY <2>1 DEF Roster, Masked, Flagged
  <2> QED BY <1>2, <2>2, <2>3 DEF Roster
<1>4. ASSUME NEW c \in Cpus, CpuUp(c) PROVE Roster'
  <2>1. /\ online' = online \cup {c} /\ bound' = bound
        /\ hp.pc = "idle" /\ hp'.pc = "read" /\ hp'.cpu = c /\ hp'.up
        /\ UNCHANGED <<cpus_kick_bit, kick_bit>>
    BY <1>4 DEF CpuUp
  <2>2. Placed' BY <1>1, <2>1 DEF Roster, Placed, Created
  <2>3. Masked' BY <2>1 DEF Roster, Masked, Flagged
  <2> QED BY <1>2, <2>2, <2>3 DEF Roster
<1>5. CASE FlagRead
  <2>1. /\ UNCHANGED <<cpus_kick_bit, kick_bit, online, bound>> /\ hp.pc = "read"
        /\ hp'.pc = "write" /\ hp'.cpu = hp.cpu /\ hp'.up = hp.up /\ hp'.tmp = cpus_kick_bit
    BY <1>5 DEF FlagRead, TypeOK
  <2>2. Placed' BY <1>1, <2>1 DEF Roster, Placed, Created
  <2>3. Masked' BY <2>1 DEF Roster, Masked, Flagged
  <2> QED BY <1>2, <2>2, <2>3 DEF Roster
<1>6. CASE FlagWrite
  <2>1. /\ UNCHANGED <<online, bound>> /\ hp.pc = "write"
        /\ cpus_kick_bit' = Flagged(hp.tmp, hp.cpu, hp.up) /\ kick_bit' = {}
        /\ hp'.pc = "feed" /\ hp'.cpu = hp.cpu /\ hp'.up = hp.up
    BY <1>6 DEF FlagWrite, TypeOK
  <2>2. Placed' BY <1>1, <2>1 DEF Roster, Placed, Created
  <2>3. Masked' BY <2>1 DEF Roster, Placed, Masked
  <2> QED BY <1>2, <2>2, <2>3 DEF Roster
<1>7. CASE PlugFeed
  <2>1. /\ UNCHANGED <<online, bound, cpus_kick_bit, kick_bit>> /\ hp.pc = "feed"
        /\ hp'.cpu = hp.cpu /\ hp'.up = hp.up
        /\ hp'.pc = IF hp.up /\ start.st = "done" THEN "bind" ELSE "idle"
    BY <1>7 DEF PlugFeed, TypeOK
  <2>2. start.st = "done"
    BY <1>1, <2>1 DEF Roster, Threads, TypeOK
  <2>3. Placed' BY <1>1, <2>1, <2>2 DEF Roster, Placed, Created
  <2>4. Masked' BY <2>1 DEF Roster, Masked
  <2> QED BY <1>2, <2>3, <2>4 DEF Roster
<1>8. CASE Bind
  <2>1. /\ UNCHANGED <<online, cpus_kick_bit, kick_bit>> /\ hp.pc = "bind"
        /\ bound' = bound \cup {hp.cpu} /\ hp'.pc = "idle"
    BY <1>8 DEF Bind, TypeOK
  <2>2. Placed' BY <1>1, <2>1 DEF Roster, Placed, Created
  <2>3. Masked' BY <2>1 DEF Roster, Masked
  <2> QED BY <1>2, <2>2, <2>3 DEF Roster
<1> QED BY <1>3, <1>4, <1>5, <1>6, <1>7, <1>8 DEF Hotplug

(* Requests and the passing of time do not touch the roster.                *)
LEMMA OthersKeepPlace ==
  ASSUME TypeOK, Roster,
         UNCHANGED vars \/ WriteLocked \/ Pause \/ Tick \/ \E r \in Requests : WriteEnable(r)
  PROVE  Roster'
<1> USE DEF maskVars, plugVars, envVars
<1>1. UNCHANGED <<start, stalled, online, bound, hp, cpus_kick_bit, kick_bit>>
  BY DEF vars, WriteLocked, Pause, Tick, WriteEnable
<1>2. \A d \in Cpus : thr'[d].pc = thr[d].pc
  <2>1. CASE Tick
    BY <2>1 DEF Tick, TypeOK, ThreadStates
  <2> QED BY <2>1 DEF vars, WriteLocked, Pause, WriteEnable
<1> QED BY <1>1, <1>2 DEF Roster, Threads, Placed, Masked, Created

LEMMA RosterHolds ==
  ASSUME TypeOK, Counted, Roster, [Next]_vars, ~hist'.excused
  PROVE  Roster'
BY Accidents, StepKinds, CreateKeepsPlace, ThreadKeepsPlace, KickKeepsPlace,
   PlugKeepsPlace, OthersKeepPlace DEF Next, Thread, QuietThread

-----------------------------------------------------------------------------
(* There is room for every nap in every timeout: those in force, those that *)
(* threads have copied, the one that waits in g_timeout, and those of the   *)
(* request that is being carried out.                                       *)
LengthsInPlay == Lengths \cup (IF wr.pc = "lock" THEN {wr.req.timeout} ELSE {})
NapsInPlay == NapLimits \cup (IF wr.pc = "lock" THEN {wr.req.kinterval + SLACK} ELSE {})
Room == \A l \in LengthsInPlay, n \in NapsInPlay : n < l

LEMMA InPlay ==
  ASSUME TypeOK
  PROVE  /\ rgu.len \in LengthsInPlay
         /\ \A d \in Cpus : thr[d].need => thr[d].timeout \in LengthsInPlay
         /\ cfg.need => cfg.timeout \in LengthsInPlay
         /\ hp.pc = "bind" => rgu.left \in LengthsInPlay
         /\ cfg.interval + SLACK \in NapsInPlay
         /\ \A d \in Cpus : thr[d].cur + SLACK \in NapsInPlay /\ thr[d].sleep \in NapsInPlay
         /\ wr.pc = "lock" => /\ wr.req.timeout \in LengthsInPlay
                              /\ wr.req.kinterval + SLACK \in NapsInPlay
BY DEF LengthsInPlay, NapsInPlay, Lengths, NapLimits

LEMMA InPlayTypes == TypeOK => LengthsInPlay \subseteq Int /\ NapsInPlay \subseteq Int
<1> SUFFICES ASSUME TypeOK PROVE LengthsInPlay \subseteq Int /\ NapsInPlay \subseteq Int
  OBVIOUS
<1>1. \A d \in Cpus : thr[d].timeout \in Int /\ thr[d].cur \in Int /\ thr[d].sleep \in Int
  BY DEF TypeOK, ThreadStates, LongestNap
<1>2. rgu.len \in Int /\ rgu.left \in Int /\ cfg.timeout \in Int /\ cfg.interval \in Int
  BY DEF TypeOK
<1>3. wr.pc = "lock" => wr.req.timeout \in Int /\ wr.req.kinterval \in Int
  BY DEF TypeOK
<1> QED BY <1>1, <1>2, <1>3 DEF LengthsInPlay, NapsInPlay, Lengths, NapLimits

(* A step that brings no new length and no longer nap into play keeps room. *)
Narrows ==
  /\ rgu'.len \in LengthsInPlay
  /\ \A d \in Cpus : thr'[d].need => thr'[d].timeout \in LengthsInPlay
  /\ cfg'.need => cfg'.timeout \in LengthsInPlay
  /\ hp'.pc = "bind" => rgu'.left \in LengthsInPlay
  /\ cfg'.interval + SLACK \in NapsInPlay
  /\ \A d \in Cpus : \E m \in NapsInPlay : thr'[d].cur + SLACK <= m
  /\ \A d \in Cpus : \E m \in NapsInPlay : thr'[d].sleep <= m
  /\ wr'.pc = "lock" => /\ wr'.req.timeout \in LengthsInPlay
                        /\ wr'.req.kinterval + SLACK \in NapsInPlay

LEMMA NarrowingKeepsRoom ==
  ASSUME TypeOK, TypeOK', Room, Narrows
  PROVE  Room'
<1>0. (LengthsInPlay \subseteq Int /\ NapsInPlay \subseteq Int)'
  BY InPlayTypes, PTL
<1>1. ASSUME NEW l \in LengthsInPlay' PROVE l \in LengthsInPlay
  BY <1>1 DEF LengthsInPlay, Lengths, Narrows
<1>2. ASSUME NEW n \in NapsInPlay' PROVE \E m \in NapsInPlay : n <= m
  <2>1. n \in Int BY <1>0, <1>2
  <2>2. cfg'.interval + SLACK \in Int BY DEF TypeOK
  <2>3. wr'.pc = "lock" => wr'.req.kinterval \in Int BY DEF TypeOK
  <2> QED BY <1>2, <2>1, <2>2, <2>3 DEF NapsInPlay, NapLimits, Narrows
<1>3. NapsInPlay' \subseteq Int /\ LengthsInPlay \subseteq Int /\ NapsInPlay \subseteq Int
  BY <1>0, InPlayTypes
<1>4. ASSUME NEW l \in LengthsInPlay', NEW n \in NapsInPlay' PROVE n < l
  <2>1. PICK m \in NapsInPlay : n <= m BY <1>2
  <2>2. m < l BY <1>1 DEF Room
  <2>3. l \in Int /\ m \in Int /\ n \in Int BY <1>1, <1>3
  <2> QED BY <2>1, <2>2, <2>3
<1> QED BY <1>4 DEF Room

(* A nap: what Doze leaves in the thread table.                             *)
LEMMA DozeNap ==
  ASSUME NEW c \in Cpus, NEW cur \in 0 .. MAX_KICK_INTERVAL,
         thr \in [Cpus -> ThreadStates], Doze(c, cur)
  PROVE  /\ \A d \in Cpus \ {c} : thr'[d] = thr[d]
         /\ thr'[c].pc = "asleep" /\ ~thr'[c].need /\ thr'[c].cur = 0
         /\ thr'[c].sleep \in Nat /\ thr'[c].sleep > 0
         /\ thr'[c].sleep >= cur /\ thr'[c].sleep <= cur + SLACK
<1>1. PICK s \in Naps(cur) :
        thr' = [thr EXCEPT ![c] = [pc |-> "asleep", need |-> FALSE, timeout |-> -1,
                                   cur |-> 0, sleep |-> s]]
  BY DEF Doze
<1>2. s \in Nat /\ s > 0 /\ s >= cur /\ s <= cur + SLACK
  BY DEF Naps
<1> QED BY <1>1, <1>2

(* The table after a step of thread c that is not a nap.                    *)
LEMMA ThreadMoves ==
  ASSUME TypeOK, NEW c \in Cpus,
         \/ CheckEnabled(c) \/ ConfigMode(c) \/ ConfigLength(c) \/ ConfigDone(c)
         \/ Wake(c)
  PROVE  \A d \in Cpus : /\ thr'[d].need = thr[d].need /\ thr'[d].timeout = thr[d].timeout
                         /\ thr'[d].cur = thr[d].cur /\ thr'[d].sleep = thr[d].sleep
<1>1. CASE CheckEnabled(c)
  BY <1>1 DEF CheckEnabled, TypeOK, ThreadStates
<1>2. CASE ConfigMode(c) \/ ConfigLength(c) \/ ConfigDone(c) \/ Wake(c)
  BY <1>2 DEF ConfigMode, ConfigLength, ConfigDone, Wake, TypeOK, ThreadStates
<1> QED BY <1>1, <1>2

LEMMA SnapshotMoves ==
  ASSUME TypeOK, NEW c \in Cpus, Snapshot(c)
  PROVE  /\ \A d \in Cpus \ {c} : thr'[d] = thr[d]
         /\ thr'[c].need = cfg.need /\ thr'[c].timeout = cfg.timeout
         /\ thr'[c].cur = cfg.interval /\ thr'[c].sleep = thr[c].sleep
         /\ thr'[c].pc = "check"
<1>1. thr' = [thr EXCEPT ![c] = [thr[c] EXCEPT !.pc = "check", !.need = cfg.need,
                                   !.timeout = cfg.timeout, !.cur = cfg.interval]]
  BY DEF Snapshot, TypeOK
<1> QED BY <1>1 DEF TypeOK, ThreadStates

(* A thread that configures the RGU has copied a request.                   *)
Configures == \A c \in Cpus : thr[c].pc \in {"mode", "length"} => thr[c].need

(* A step that touches neither the requests nor the lengths, and whose new  *)
(* naps are ordinary ones, keeps room.                                      *)
LEMMA OrdinaryNaps ==
  ASSUME TypeOK,
         UNCHANGED <<cfg, wr>>, rgu'.len = rgu.len,
         hp'.pc = "bind" => rgu'.left = rgu.len \/ (hp.pc = "bind" /\ rgu'.left = rgu.left),
         \A d \in Cpus :
            /\ thr'[d].need => thr[d].need /\ thr'[d].timeout = thr[d].timeout
            /\ thr'[d].cur \in {0, thr[d].cur}
            /\ thr'[d].sleep \in Int
            /\ \/ thr'[d].sleep <= thr[d].sleep
               \/ thr'[d].sleep <= thr[d].cur + SLACK
               \/ thr'[d].sleep <= cfg.interval + SLACK
  PROVE  Narrows
<1>1. cfg.interval \in Nat /\ \A d \in Cpus : thr[d].cur \in Nat /\ thr[d].sleep \in Nat
  BY DEF TypeOK, ThreadStates, LongestNap
<1>2. \A d \in Cpus : \E m \in NapsInPlay : thr'[d].sleep <= m
  BY <1>1, InPlay
<1>3. \A d \in Cpus : \E m \in NapsInPlay : thr'[d].cur + SLACK <= m
  <2> TAKE d \in Cpus
  <2>1. CASE thr'[d].cur = 0
    BY <2>1, <1>1, InPlay
  <2>2. CASE thr'[d].cur = thr[d].cur
    BY <2>2, <1>1, InPlay
  <2> QED BY <2>1, <2>2
<1> QED BY <1>2, <1>3, InPlay DEF Narrows

LEMMA ThreadKeepsRoom ==
  ASSUME TypeOK, Configures, NEW c \in Cpus, Thread(c)
  PROVE  Narrows
<1> USE DEF maskVars, plugVars, envVars
<1>0. /\ thr \in [Cpus -> ThreadStates] /\ cfg.interval \in 0 .. MAX_KICK_INTERVAL
      /\ thr[c].cur \in 0 .. MAX_KICK_INTERVAL
      /\ \A d \in Cpus : thr[d].sleep \in Int /\ thr[d].cur \in Int
  BY DEF TypeOK, ThreadStates, LongestNap
<1>1. CASE Snapshot(c)
  <2>1. UNCHANGED <<cfg, wr, hp, rgu>> BY <1>1 DEF Snapshot
  <2> QED BY <2>1, <1>0, <1>1, SnapshotMoves, InPlay DEF Narrows
<1>2. CASE CheckEnabled(c) \/ Wake(c)
  <2>1. UNCHANGED <<cfg, wr, hp, rgu>> BY <1>2 DEF CheckEnabled, Wake
  <2> QED BY <2>1, <1>0, <1>2, ThreadMoves, OrdinaryNaps
<1>3. CASE ConfigMode(c)
  <2>1. UNCHANGED <<cfg, wr, hp>> /\ rgu'.len = rgu.len /\ rgu'.left = rgu.left
    BY <1>3 DEF ConfigMode, TypeOK
  <2> QED BY <2>1, <1>0, <1>3, ThreadMoves, OrdinaryNaps
<1>4. CASE ConfigLength(c)
  <2>1. UNCHANGED <<cfg, wr, hp>> /\ rgu'.len = thr[c].timeout /\ rgu'.left = rgu.left
    BY <1>4 DEF ConfigLength, ConfigLengthOf, TypeOK
  <2>2. thr[c].need BY <1>4 DEF ConfigLength, At, Configures
  <2>3. \A d \in Cpus : /\ thr'[d].need = thr[d].need /\ thr'[d].timeout = thr[d].timeout
                        /\ thr'[d].cur = thr[d].cur /\ thr'[d].sleep = thr[d].sleep
    BY <1>4, ThreadMoves
  <2> QED BY <2>1, <2>2, <2>3, <1>0, InPlay DEF Narrows
<1>5. CASE ConfigDone(c)
  <2>1. /\ UNCHANGED <<wr, hp, rgu>> /\ ~cfg'.need /\ cfg'.interval = cfg.interval
    BY <1>5 DEF ConfigDone, TypeOK
  <2>3. \A d \in Cpus : /\ thr'[d].need = thr[d].need /\ thr'[d].timeout = thr[d].timeout
                        /\ thr'[d].cur = thr[d].cur /\ thr'[d].sleep = thr[d].sleep
    BY <1>5, ThreadMoves
  <2> QED BY <2>1, <2>3, <1>0, InPlay DEF Narrows
<1>6. CASE StopsKicking(c) \/ KickElsewhere(c)
  <2>1. UNCHANGED <<cfg, wr, hp, rgu>> /\ Doze(c, thr[c].cur)
    BY <1>6 DEF StopsKicking, KickElsewhere
  <2>2. \A d \in Cpus : thr[d].sleep <= thr[d].sleep BY <1>0
  <2> QED BY <2>1, <2>2, <1>0, DozeNap, OrdinaryNaps
<1>7. CASE Kick(c)
  <2>1. UNCHANGED <<cfg, wr, hp>> /\ Kicks(c)
    BY <1>7 DEF Kick
  <2>2. PICK cur \in 0 .. MAX_KICK_INTERVAL : Doze(c, cur) /\ cur <= cfg.interval
    <3>1. nxt \in -1 .. MAX_KICK_INTERVAL /\ cfg.interval \in 1 .. MAX_KICK_INTERVAL
      BY DEF TypeOK
    <3>2. NextSleep(kick_bit, nxt, cfg.interval) \in 0 .. cfg.interval
      BY <3>1 DEF NextSleep
    <3> QED BY <3>1, <3>2, <2>1 DEF Kicks
  <2>3. rgu'.len = rgu.len /\ rgu'.left \in {rgu.left, rgu.len}
    BY <2>1 DEF Kicks, mtk_wdt_restart, TypeOK
  <2>4. \A d \in Cpus : thr[d].sleep <= thr[d].sleep BY <1>0
  <2> QED BY <2>1, <2>2, <2>3, <2>4, <1>0, DozeNap, OrdinaryNaps
<1> QED BY <1>1, <1>2, <1>3, <1>4, <1>5, <1>6, <1>7 DEF Thread

LEMMA PlugKeepsRoom ==
  ASSUME TypeOK,
         CreateThread \/ Hotplug \/ \E c \in Cpus : CpuDown(c) \/ CpuUp(c)
  PROVE  Narrows
<1> USE DEF maskVars, plugVars, envVars
<1>1. UNCHANGED <<cfg, wr>>
  BY DEF CreateThread, Hotplug, FlagRead, FlagWrite, PlugFeed, Bind, CpuDown, CpuUp
<1>2. rgu'.len = rgu.len
  BY DEF CreateThread, Hotplug, FlagRead, FlagWrite, PlugFeed, mtk_wdt_restart, Bind,
         CpuDown, CpuUp, TypeOK
<1>3. hp'.pc = "bind" => rgu'.left = rgu.len \/ (hp.pc = "bind" /\ rgu'.left = rgu.left)
  <2>1. CASE PlugFeed
    BY <2>1 DEF PlugFeed, mtk_wdt_restart, TypeOK
  <2>2. CASE CreateThread
    BY <2>2 DEF CreateThread
  <2>3. CASE FlagRead \/ FlagWrite \/ Bind
    <3>1. hp'.pc # "bind"
      BY <2>3 DEF FlagRead, FlagWrite, Bind, TypeOK
    <3> QED BY <3>1
  <2>4. ASSUME NEW c \in Cpus, CpuDown(c) \/ CpuUp(c) PROVE hp'.pc # "bind"
    BY <2>4 DEF CpuDown, CpuUp
  <2> HIDE DEF maskVars, plugVars, envVars
  <2> QED BY <2>1, <2>2, <2>3, <2>4 DEF Hotplug
<1>4. \A d \in Cpus : /\ thr'[d].need = thr[d].need /\ thr'[d].timeout = thr[d].timeout
                      /\ thr'[d].cur = thr[d].cur /\ thr'[d].sleep = thr[d].sleep
  BY DEF CreateThread, Hotplug, FlagRead, FlagWrite, PlugFeed, Bind, CpuDown, CpuUp,
         TypeOK, ThreadStates
<1>5. \A d \in Cpus : thr[d].sleep \in Int /\ thr[d].sleep <= thr[d].sleep
  BY DEF TypeOK, ThreadStates, LongestNap
<1> QED BY <1>1, <1>2, <1>3, <1>4, <1>5, OrdinaryNaps

LEMMA TickKeepsRoom == ASSUME TypeOK, Tick PROVE Narrows
<1>1. UNCHANGED <<cfg, wr, hp>> /\ hp.pc = "idle"
  BY DEF Tick, plugVars, envVars
<1>2. rgu'.len = rgu.len
  BY DEF Tick, TypeOK
<1>3. \A d \in Cpus :
         /\ thr'[d].need = thr[d].need /\ thr'[d].timeout = thr[d].timeout
         /\ thr'[d].cur = thr[d].cur
         /\ thr'[d].sleep = IF thr[d].sleep > 0 THEN thr[d].sleep - 1 ELSE 0
  BY DEF Tick, TypeOK, ThreadStates
<1>4. \A d \in Cpus : thr[d].sleep \in Nat
  BY DEF TypeOK, ThreadStates, LongestNap
<1>5. \A d \in Cpus : thr'[d].sleep \in Int /\ thr'[d].sleep <= thr[d].sleep
  BY <1>3, <1>4
<1> QED BY <1>1, <1>2, <1>3, <1>5, OrdinaryNaps

(* The second half of a request brings into play what the first half        *)
(* announced.                                                               *)
LEMMA LockedKeepsRoom == ASSUME TypeOK, WriteLocked \/ Pause PROVE Narrows
<1> USE DEF maskVars, plugVars
<1>1. /\ UNCHANGED <<thr, hp>> /\ rgu'.len = rgu.len /\ rgu'.left = rgu.left
      /\ wr'.pc = "idle"
  <2>1. CASE WriteLocked
    BY <2>1 DEF WriteLocked, TypeOK
  <2>2. CASE Pause
    BY <2>2 DEF Pause, mtk_wdt_enable, TypeOK
  <2> QED BY <2>1, <2>2
<1>2. \/ cfg' = cfg
      \/ /\ wr.pc = "lock" /\ cfg'.interval = wr.req.kinterval
         /\ cfg'.timeout = wr.req.timeout
  BY DEF WriteLocked, Pause
<1>3. \A d \in Cpus : thr[d].sleep \in Int /\ thr[d].cur \in Int
  BY DEF TypeOK, ThreadStates, LongestNap
<1>4. \A d \in Cpus : thr[d].sleep <= thr[d].sleep /\ thr[d].cur + SLACK <= thr[d].cur + SLACK
  BY <1>3
<1> QED BY <1>1, <1>2, <1>4, InPlay DEF Narrows

(* The first half of a request that is not risky.                           *)
LEMMA RequestKeepsRoom ==
  ASSUME TypeOK, Counted, Room, NEW r \in Requests, WriteEnable(r), ~hist'.excused
  PROVE  Room' /\ ~Risky(r)
<1>1. ~Risky(r)
  BY Zenon DEF WriteEnable
<1>2. ~Tight(r)
  BY <1>1 DEF Risky
<1>3. r.timeout \in Int /\ r.kinterval \in Int
  OBVIOUS
<1>4. /\ wr.pc = "idle" /\ wr'.pc = "lock" /\ wr'.req = r
      /\ UNCHANGED <<thr, cfg, hp>> /\ rgu'.len = rgu.len /\ rgu'.left = rgu.left
  BY DEF WriteEnable, mtk_wdt_enable, plugVars, TypeOK
<1>5. LengthsInPlay' \subseteq Lengths \cup {r.timeout}
  BY <1>4 DEF LengthsInPlay, Lengths
<1>6. NapsInPlay' \subseteq NapLimits \cup {r.kinterval + SLACK}
  BY <1>4 DEF NapsInPlay, NapLimits
<1>7. Lengths \subseteq Int /\ NapLimits \subseteq Int
  BY InPlayTypes DEF LengthsInPlay, NapsInPlay
<1>8. \A l \in Lengths \cup {r.timeout}, n \in NapLimits \cup {r.kinterval + SLACK} : n < l
  BY <1>2, <1>3, <1>7 DEF Tight
<1> QED BY <1>1, <1>5, <1>6, <1>8 DEF Room

-----------------------------------------------------------------------------
(* Once kicking has been stopped the RGU is off and nothing turns it on: no *)
(* request was pending and no thread is configuring.                        *)
Stopping == wr.pc = "lock" /\ wr.req.en = 0
Disarmed ==
  /\ wr.pc = "lock" => cfg.enable # 0
  /\ Stopping => /\ wr.req.mode # 2 /\ ~cfg.need
                 /\ \A c \in Cpus : ~thr[c].need
  /\ Stopping \/ cfg.enable = 0 => ~rgu.on /\ \A c \in Cpus : thr[c].pc # "mode"

(* A CPU that the open round waits for wakes before the watchdog fires.     *)
InTime ==
  /\ ~rgu.bitten
  /\ cfg.enable # 0 /\ hp.pc \in {"idle", "bind"} =>
       \A c \in online \ kick_bit : thr[c].sleep < rgu.left

Healthy == Roster /\ Room /\ Configures /\ Disarmed /\ InTime

LEMMA InitHealthy == Init => Healthy
<1> SUFFICES ASSUME Init PROVE Healthy OBVIOUS
<1>1. Roster BY InitRoster
<1>2. /\ wr.pc = "idle" /\ hp.pc = "idle" /\ ~cfg.need /\ cfg.interval = INTERVAL
      /\ cfg.enable = 1 /\ rgu.len = TIMEOUT /\ rgu.left = TIMEOUT /\ ~rgu.bitten
      /\ \A c \in Cpus : /\ thr[c].pc = "none" /\ ~thr[c].need /\ thr[c].cur = 0
                         /\ thr[c].sleep = 0
  BY DEF Init
<1>3. online \subseteq Cpus
  BY Zenon DEF Init
<1>4. LengthsInPlay \subseteq {TIMEOUT}
  BY <1>2 DEF LengthsInPlay, Lengths
<1>5. NapsInPlay \subseteq {INTERVAL + SLACK, SLACK, 0}
  BY <1>2 DEF NapsInPlay, NapLimits
<1>6. Room BY <1>4, <1>5 DEF Room
<1>7. Configures /\ Disarmed BY <1>2 DEF Configures, Disarmed, Stopping
<1>8. InTime BY <1>2, <1>3 DEF InTime
<1> QED BY <1>1, <1>6, <1>7, <1>8 DEF Healthy

(* A thread configures only after it has copied a request, step by step.    *)
LEMMA ConfiguresHolds == ASSUME TypeOK, Configures, [Next]_vars PROVE Configures'
<1> USE DEF Configures
<1>1. ASSUME NEW c \in Cpus, Snapshot(c) PROVE Configures'
  BY <1>1, SnapshotMoves
<1>2. ASSUME NEW c \in Cpus, CheckEnabled(c) \/ ConfigMode(c) PROVE Configures'
  <2>1. \A d \in Cpus \ {c} : thr'[d] = thr[d]
    BY <1>2 DEF CheckEnabled, ConfigMode, TypeOK, ThreadStates
  <2>2. thr'[c].need = thr[c].need
    BY <1>2, ThreadMoves
  <2>3. thr'[c].pc \in {"mode", "length"} => thr[c].need
    <3>1. CASE CheckEnabled(c)
      BY <3>1 DEF CheckEnabled, TypeOK, ThreadStates
    <3>2. CASE ConfigMode(c)
      BY <3>2 DEF ConfigMode, At
    <3> QED BY <1>2, <3>1, <3>2
  <2> QED BY <2>1, <2>2, <2>3
<1>3. ASSUME NEW c \in Cpus, ConfigLength(c) \/ ConfigDone(c) \/ Wake(c) PROVE Configures'
  BY <1>3 DEF ConfigLength, ConfigDone, Wake, TypeOK, ThreadStates
<1>4. ASSUME NEW c \in Cpus, StopsKicking(c) \/ KickElsewhere(c) \/ Kick(c)
      PROVE  Configures'
  BY <1>4 DEF StopsKicking, KickElsewhere, Kick, Kicks, Doze, TypeOK, ThreadStates
<1>5. CASE CreateThread \/ ForceHwt \/ Tick
  <2>1. CASE CreateThread
    BY <2>1 DEF CreateThread, TypeOK, ThreadStates
  <2>2. CASE ForceHwt
    BY <2>2, CpuZero DEF ForceHwt, TypeOK, ThreadStates
  <2>3. CASE Tick
    BY <2>3 DEF Tick, TypeOK, ThreadStates
  <2> QED BY <1>5, <2>1, <2>2, <2>3
<1>6. CASE \/ UNCHANGED vars \/ CreateFails \/ Hotplug \/ WriteLocked \/ Pause
           \/ \E r \in Requests : WriteEnable(r)
           \/ \E c \in Cpus : CpuDown(c) \/ CpuUp(c) \/ Stall(c)
  BY <1>6 DEF vars, CreateFails, Hotplug, FlagRead, FlagWrite, PlugFeed, Bind, WriteLocked,
              Pause, WriteEnable, CpuDown, CpuUp, Stall
<1> QED BY <1>1, <1>2, <1>3, <1>4, <1>5, <1>6 DEF Next, Thread

(* Room is kept.                                                            *)
LEMMA RoomHolds ==
  ASSUME TypeOK, TypeOK', Counted, Configures, Room, [Next]_vars, ~hist'.excused
  PROVE  Room'
<1>1. CASE UNCHANGED vars
  <2>1. UNCHANGED <<thr, cfg, hp, wr, rgu>> BY <1>1 DEF vars
  <2> QED BY <2>1 DEF Room, LengthsInPlay, NapsInPlay, Lengths, NapLimits
<1>2. CASE \E c \in Cpus : Thread(c)
  BY <1>2, ThreadKeepsRoom, NarrowingKeepsRoom
<1>3. CASE CreateThread \/ Hotplug \/ \E c \in Cpus : CpuDown(c) \/ CpuUp(c)
  BY <1>3, PlugKeepsRoom, NarrowingKeepsRoom
<1>4. CASE Tick \/ WriteLocked \/ Pause
  BY <1>4, TickKeepsRoom, LockedKeepsRoom, NarrowingKeepsRoom
<1>5. CASE \E r \in Requests : WriteEnable(r)
  BY <1>5, RequestKeepsRoom
<1> QED BY <1>1, <1>2, <1>3, <1>4, <1>5, Accidents DEF Next

(* What a step of a thread leaves of the RGU and of the requests.           *)
LEMMA ThreadLeaves ==
  ASSUME TypeOK, NEW c \in Cpus, Thread(c)
  PROVE  /\ wr' = wr /\ hp' = hp /\ online' = online
         /\ cfg'.enable = cfg.enable /\ (cfg'.need => cfg.need)
         /\ rgu'.bitten = rgu.bitten
         /\ rgu'.on = rgu.on \/ ConfigMode(c)
<1> USE DEF maskVars, plugVars, envVars
<1>1. CASE Kick(c)
  BY <1>1 DEF Kick, Kicks, mtk_wdt_restart, TypeOK
<1>2. CASE ConfigMode(c) \/ ConfigLength(c) \/ ConfigDone(c)
  BY <1>2 DEF ConfigMode, ConfigLength, ConfigDone, TypeOK
<1>3. CASE Snapshot(c) \/ CheckEnabled(c) \/ StopsKicking(c) \/ KickElsewhere(c) \/ Wake(c)
  BY <1>3 DEF Snapshot, CheckEnabled, StopsKicking, KickElsewhere, Wake
<1> QED BY <1>1, <1>2, <1>3 DEF Thread

(* What it leaves of the thread table.                                      *)
LEMMA ThreadTable ==
  ASSUME TypeOK, NEW c \in Cpus, Thread(c)
  PROVE  /\ \A d \in Cpus \ {c} : thr'[d] = thr[d]
         /\ thr'[c].need => thr[c].need \/ cfg.need
         /\ thr'[c].pc = "mode" => thr[c].need /\ cfg.enable # 0
<1>1. CASE Snapshot(c)
  BY <1>1, SnapshotMoves
<1>2. CASE CheckEnabled(c)
  <2>1. \A d \in Cpus \ {c} : thr'[d] = thr[d]
    BY <1>2 DEF CheckEnabled, At, TypeOK, ThreadStates
  <2>2. thr'[c].pc = (IF thr[c].need THEN "mode" ELSE "kick") /\ cfg.enable # 0
    BY <1>2 DEF CheckEnabled, At, TypeOK, ThreadStates
  <2> QED BY <1>2, <2>1, <2>2, ThreadMoves
<1>3. CASE ConfigMode(c) \/ ConfigLength(c) \/ ConfigDone(c) \/ Wake(c)
  <2>1. (\A d \in Cpus \ {c} : thr'[d] = thr[d]) /\ thr'[c].pc # "mode"
    BY <1>3 DEF ConfigMode, ConfigLength, ConfigDone, Wake, At, TypeOK, ThreadStates
  <2> QED BY <1>3, <2>1, ThreadMoves
<1>4. CASE StopsKicking(c) \/ KickElsewhere(c) \/ Kick(c)
  BY <1>4 DEF StopsKicking, KickElsewhere, Kick, Kicks, Doze, TypeOK, ThreadStates
<1> QED BY <1>1, <1>2, <1>3, <1>4 DEF Thread

LEMMA DisarmedHolds ==
  ASSUME TypeOK, Counted, Configures, Room, Disarmed, [Next]_vars, ~hist'.excused
  PROVE  Disarmed'
<1> USE DEF Disarmed, Stopping, maskVars, plugVars, envVars
<1>1. CASE UNCHANGED vars
  BY <1>1 DEF vars
<1>2. ASSUME NEW c \in Cpus, Thread(c) PROVE Disarmed'
  <2>1. /\ wr' = wr /\ cfg'.enable = cfg.enable /\ (cfg'.need => cfg.need)
        /\ rgu'.on = rgu.on \/ ConfigMode(c)
    BY <1>2, ThreadLeaves, Zenon
  <2>4. Stopping \/ cfg.enable = 0 => ~rgu'.on
    <3>1. Stopping \/ cfg.enable = 0 => ~ConfigMode(c) /\ ~rgu.on
      BY DEF ConfigMode, At
    <3> QED BY <2>1, <3>1, Zenon
  <2>2. Stopping \/ cfg.enable = 0 => \A d \in Cpus : thr'[d].pc # "mode"
    BY <1>2, ThreadTable
  <2>3. Stopping => \A d \in Cpus : ~thr'[d].need
    BY <1>2, ThreadTable
  <2> QED BY <2>1, <2>2, <2>3, <2>4
<1>3. CASE CreateThread
  BY <1>3 DEF CreateThread, TypeOK, ThreadStates
<1>4. CASE Hotplug \/ \E c \in Cpus : CpuDown(c) \/ CpuUp(c)
  <2>1. UNCHANGED <<thr, wr, cfg>> /\ rgu'.on = rgu.on
    BY <1>4 DEF Hotplug, FlagRead, FlagWrite, PlugFeed, Bind, mtk_wdt_restart, CpuDown,
                CpuUp, TypeOK
  <2> QED BY <2>1
<1>5. ASSUME NEW r \in Requests, WriteEnable(r) PROVE Disarmed'
  <2>1. ~Risky(r)
    BY <1>5, RequestKeepsRoom
  <2>2. /\ cfg.enable # 0
        /\ r.en = 0 => r.mode # 2 /\ ~cfg.need /\ \A c \in Cpus : ~thr[c].need
    BY <2>1 DEF Risky, Rearms
  <2>3. /\ wr'.pc = "lock" /\ wr'.req = r /\ UNCHANGED <<thr, cfg>>
        /\ r.en = 0 => ~rgu'.on
    BY <1>5 DEF WriteEnable, mtk_wdt_enable, TypeOK
  <2> QED BY <2>2, <2>3 DEF Configures
<1>6. CASE WriteLocked
  <2>1. /\ wr.pc = "lock" /\ wr'.pc = "idle" /\ cfg'.enable = wr.req.en /\ UNCHANGED thr
        /\ wr.req.mode # 2 => rgu' = rgu
    BY <1>6 DEF WriteLocked
  <2> QED BY <2>1
<1>7. CASE Pause
  BY <1>7 DEF Pause, mtk_wdt_enable, TypeOK
<1>8. CASE Tick
  <2>1. UNCHANGED <<wr, cfg>> /\ rgu'.on = rgu.on
    BY <1>8 DEF Tick, TypeOK
  <2>2. \A d \in Cpus : thr'[d].pc = thr[d].pc /\ thr'[d].need = thr[d].need
    BY <1>8 DEF Tick, TypeOK, ThreadStates
  <2> QED BY <2>1, <2>2
<1> QED BY <1>1, <1>2, <1>3, <1>4, <1>5, <1>6, <1>7, <1>8, Accidents DEF Next

(* The kicks.  A kick that completes the round gives everybody the whole    *)
(* length, which is more than any nap; a thread that runs elsewhere is not  *)
(* waited for, or is that of the CPU being plugged, just after the restart. *)
LEMMA KicksInTime ==
  ASSUME TypeOK, TypeOK', Roster, Disarmed, Room', InTime, NEW c \in Cpus, Thread(c)
  PROVE  InTime'
<1> USE DEF InTime, maskVars, plugVars, envVars
<1>0. /\ hp' = hp /\ online' = online /\ cfg'.enable = cfg.enable /\ ~rgu'.bitten
  <2>1. hp' = hp /\ online' = online /\ cfg'.enable = cfg.enable
    BY ThreadLeaves, Zenon
  <2>2. rgu'.bitten = rgu.bitten /\ ~rgu.bitten
    BY ThreadLeaves, Zenon DEF InTime
  <2> QED BY <2>1, <2>2, Zenon
<1>1. CASE Snapshot(c)
  <2>1. rgu' = rgu /\ kick_bit' = kick_bit BY <1>1 DEF Snapshot
  <2> QED BY <1>0, <2>1, <1>1, SnapshotMoves DEF TypeOK
<1>2. CASE CheckEnabled(c) \/ ConfigMode(c) \/ ConfigLength(c) \/ ConfigDone(c) \/ Wake(c)
  <2>1. rgu'.left = rgu.left /\ kick_bit' = kick_bit
    BY <1>2 DEF CheckEnabled, ConfigMode, ConfigLength, ConfigDone, Wake, TypeOK
  <2> QED BY <1>0, <2>1, <1>2, ThreadMoves DEF TypeOK
<1>3. CASE StopsKicking(c)
  BY <1>0, <1>3 DEF StopsKicking
<1>4. CASE KickElsewhere(c)
  <2>1. rgu' = rgu /\ kick_bit' = kick_bit /\ RunsOn(c) \ {c} # {} /\ thr[c].pc # "none"
    BY <1>4 DEF KickElsewhere, At
  <2>2. c \notin bound
    BY <2>1 DEF RunsOn
  <2>3. \A d \in Cpus \ {c} : thr'[d] = thr[d]
    BY ThreadTable
  <2>4. hp.pc = "bind" => thr'[c].sleep < rgu'.left
    <3>1. thr'[c].sleep \in NapsInPlay' BY DEF NapsInPlay, NapLimits
    <3>2. hp'.pc = "bind" => rgu'.left \in LengthsInPlay' BY DEF LengthsInPlay, Lengths
    <3> QED BY <1>0, <3>1, <3>2 DEF Room
  <2>5. c \in online => hp.pc # "idle"
    BY <2>1, <2>2 DEF Roster, Placed, Threads
  <2> QED BY <1>0, <2>1, <2>3, <2>4, <2>5 DEF TypeOK
<1>5. CASE Kick(c)
  <2>1. Kicks(c) BY <1>5 DEF Kick
  <2>2. CASE kick_bit \cup {c} = cpus_kick_bit
    <3>1. rgu'.left = rgu'.len
      BY <2>1, <2>2 DEF Kicks, Full, mtk_wdt_restart, TypeOK
    <3>2. \A d \in Cpus : thr'[d].sleep \in NapsInPlay' BY DEF NapsInPlay, NapLimits
    <3>3. rgu'.len \in LengthsInPlay' BY DEF LengthsInPlay, Lengths
    <3> QED BY <1>0, <3>1, <3>2, <3>3 DEF Room, TypeOK
  <2>3. CASE kick_bit \cup {c} # cpus_kick_bit
    <3>1. kick_bit' = kick_bit \cup {c} /\ rgu' = rgu
      BY <2>1, <2>3 DEF Kicks, Full
    <3>2. \A d \in Cpus \ {c} : thr'[d] = thr[d]
      BY ThreadTable
    <3> QED BY <1>0, <3>1, <3>2 DEF TypeOK
  <2> QED BY <2>2, <2>3
<1> QED BY <1>1, <1>2, <1>3, <1>4, <1>5 DEF Thread

(* A quantum passes only when everybody who can run is asleep; so the CPU   *)
(* that the round waits for is, and it has less to sleep than the RGU left. *)
LEMMA TickInTime ==
  ASSUME TypeOK, Roster, Disarmed, InTime, Tick
  PROVE  InTime'
<1>1. /\ UNCHANGED <<cfg, hp, online, kick_bit>> /\ hp.pc = "idle" /\ start.st # "loop"
      /\ ~rgu.bitten
      /\ \A c \in Cpus : thr[c].sleep > 0 \/ thr[c].pc = "none" \/ RunsOn(c) = {}
  BY DEF Tick, maskVars, plugVars, envVars, Live
<1>2. \A c \in Cpus : thr'[c].sleep = IF thr[c].sleep > 0 THEN thr[c].sleep - 1 ELSE 0
  BY DEF Tick, TypeOK, ThreadStates
<1>3. \A c \in Cpus : RunsOn(c) # {}
  BY DEF RunsOn, Roster, Placed
<1>4. \A c \in Cpus : Created(c)
  <2>1. start.next = NCPU
    BY <1>1 DEF Roster, Threads, TypeOK
  <2> QED BY <2>1 DEF Created, Cpus
<1>5. \A c \in Cpus : thr[c].sleep \in Nat /\ thr[c].sleep > 0
  <2>1. \A c \in Cpus : thr[c].sleep \in Nat
    BY DEF TypeOK, ThreadStates, LongestNap
  <2> QED BY <2>1, <1>1, <1>3, <1>4 DEF Roster, Threads
<1>6. online \subseteq Cpus /\ rgu.left \in Int
  BY DEF TypeOK
<1>7. CASE rgu.on
  <2>1. cfg.enable # 0
    BY <1>7 DEF Disarmed
  <2>2. \A c \in online \ kick_bit : thr[c].sleep < rgu.left
    BY <1>1, <2>1 DEF InTime
  <2>3. PICK c \in online : c \notin kick_bit
    BY <1>1 DEF Roster, Masked
  <2>4. rgu.left > 1
    BY <2>2, <2>3, <1>5, <1>6
  <2>5. rgu'.left = rgu.left - 1 /\ ~rgu'.bitten
    <3>1. ~(rgu.left <= 1) BY <2>4, <1>6
    <3>2. rgu'.left = rgu.left - 1 /\ rgu'.bitten = (rgu.left <= 1)
      <4>1. rgu' = [rgu EXCEPT !.left = rgu.left - 1, !.bitten = (rgu.left <= 1)]
        BY <1>7 DEF Tick
      <4>2. rgu \in [on : BOOLEAN, len : Int, left : Int, bitten : BOOLEAN]
        BY DEF TypeOK
      <4> QED BY <4>1, <4>2
    <3> QED BY <3>1, <3>2, Zenon
  <2> QED BY <1>1, <1>2, <1>5, <1>6, <2>2, <2>5 DEF InTime
<1>8. CASE ~rgu.on
  <2>1. rgu' = rgu
    BY <1>8 DEF Tick
  <2> QED BY <1>1, <1>2, <1>5, <1>6, <2>1 DEF InTime
<1> QED BY <1>7, <1>8

LEMMA InTimeHolds ==
  ASSUME TypeOK, TypeOK', Counted, Roster, Room', Disarmed, InTime, [Next]_vars,
         ~hist'.excused
  PROVE  InTime'
<1> USE DEF InTime, maskVars, plugVars, envVars
<1>1. CASE UNCHANGED vars
  BY <1>1 DEF vars
<1>2. CASE CreateThread
  BY <1>2 DEF CreateThread, TypeOK, ThreadStates
<1>3. CASE PlugFeed
  <2>1. rgu'.left = rgu'.len /\ rgu'.bitten = rgu.bitten
    BY <1>3 DEF PlugFeed, mtk_wdt_restart, TypeOK
  <2>2. \A d \in Cpus : thr'[d].sleep \in NapsInPlay' BY DEF NapsInPlay, NapLimits
  <2>3. rgu'.len \in LengthsInPlay' BY DEF LengthsInPlay, Lengths
  <2>4. online' \subseteq Cpus BY DEF TypeOK
  <2> QED BY <2>1, <2>2, <2>3, <2>4 DEF Room
<1>4. CASE FlagRead \/ FlagWrite
  <2>1. hp'.pc \notin {"idle", "bind"} /\ rgu' = rgu
    BY <1>4 DEF FlagRead, FlagWrite, TypeOK
  <2> QED BY <2>1
<1>5. CASE Bind
  <2>1. UNCHANGED <<cfg, thr, rgu, online, kick_bit>> /\ hp.pc = "bind"
    BY <1>5 DEF Bind
  <2> QED BY <2>1
<1>6. ASSUME NEW c \in Cpus, CpuDown(c) \/ CpuUp(c) PROVE InTime'
  BY <1>6 DEF CpuDown, CpuUp
<1>7. ASSUME NEW r \in Requests, WriteEnable(r) PROVE InTime'
  <2>1. /\ UNCHANGED <<thr, cfg, hp, online, kick_bit>>
        /\ rgu'.left = rgu.left /\ rgu'.bitten = rgu.bitten
    BY <1>7 DEF WriteEnable, mtk_wdt_enable, TypeOK
  <2> QED BY <2>1
<1>8. CASE WriteLocked
  <2>1. /\ UNCHANGED <<thr, hp, online, kick_bit>> /\ wr.pc = "lock"
        /\ rgu'.left = rgu.left /\ rgu'.bitten = rgu.bitten
    BY <1>8 DEF WriteLocked, TypeOK
  <2> QED BY <2>1 DEF Disarmed
<1>9. CASE Pause
  <2>1. /\ UNCHANGED <<thr, cfg, hp, online, kick_bit>>
        /\ rgu'.left = rgu.left /\ rgu'.bitten = rgu.bitten
    BY <1>9 DEF Pause, mtk_wdt_enable, TypeOK
  <2> QED BY <2>1
<1> HIDE DEF InTime, maskVars, plugVars, envVars
<1> QED BY <1>1, <1>2, <1>3, <1>4, <1>5, <1>6, <1>7, <1>8, <1>9, KicksInTime, TickInTime,
           Accidents DEF Next, Hotplug

(* The inductive invariant of the argument about time.                      *)
KickerInv == TypeOK /\ Counted /\ (hist.excused \/ Healthy)

LEMMA KickerInduction ==
  /\ Init => KickerInv
  /\ KickerInv /\ [Next]_vars => KickerInv'
<1>1. Init => KickerInv
  BY InitTypes, CountedHolds, InitHealthy DEF KickerInv
<1>2. KickerInv /\ [Next]_vars => KickerInv'
  <2> SUFFICES ASSUME KickerInv, [Next]_vars PROVE KickerInv' OBVIOUS
  <2>1. TypeOK /\ Counted /\ TypeOK' /\ Counted'
    BY NextTypes, CountedHolds DEF KickerInv
  <2>2. ASSUME ~hist'.excused PROVE Healthy'
    <3>1. Healthy
      BY <2>1, <2>2, ExcuseStays DEF KickerInv
    <3>2. Roster' /\ Room' /\ Configures'
      BY <2>1, <2>2, <3>1, RosterHolds, RoomHolds, ConfiguresHolds DEF Healthy
    <3>3. Disarmed'
      BY <2>1, <2>2, <3>1, DisarmedHolds DEF Healthy
    <3>4. InTime'
      BY <2>1, <2>2, <3>1, <3>2, InTimeHolds DEF Healthy
    <3> QED BY <3>2, <3>3, <3>4 DEF Healthy
  <2> QED BY <2>1, <2>2 DEF KickerInv
<1> QED BY <1>1, <1>2

(* The watchdog does not fire on a healthy system.                          *)
THEOREM KickerNoFalseBite == Spec => []NoFalseBite
<1>1. KickerInv => NoFalseBite
  BY DEF KickerInv, Healthy, InTime, NoFalseBite
<1> QED BY KickerInduction, <1>1, PTL DEF Spec

-----------------------------------------------------------------------------
(* Alignment.  While nothing disturbs them the threads of the CPUs that are *)
(* up wake within SLACK of each other: before a round their sleeps differ   *)
(* by no more, and once it is open those who still have to kick do so       *)
(* before those who kicked wake again.                                      *)
Undisturbed == ~hist.excused /\ used.plugs = 0 /\ used.writes = 0
Settled ==
  /\ hp.pc = "idle" /\ wr.pc = "idle"
  /\ cfg.interval = INTERVAL /\ cfg.enable = 1
  /\ \A c \in Cpus : thr[c].pc # "asleep" => thr[c].sleep = 0
Together ==
  kick_bit = {} => \A c, d \in online : thr[c].sleep <= thr[d].sleep + SLACK
InRound ==
  kick_bit # {} =>
     /\ INTERVAL <= nxt + SLACK /\ nxt <= INTERVAL
     /\ \A d \in online \ kick_bit : thr[d].sleep + INTERVAL <= nxt + SLACK
     /\ \A c \in kick_bit : /\ thr[c].pc = "asleep"
                            /\ nxt <= thr[c].sleep /\ thr[c].sleep <= nxt + SLACK
Aligned == ~hang /\ Settled /\ Together /\ InRound

LEMMA InitAligned == Init => Aligned
<1> SUFFICES ASSUME Init PROVE Aligned OBVIOUS
<1>1. online \subseteq Cpus
  BY Zenon DEF Init
<1>2. \A c \in Cpus : thr[c].pc = "none" /\ thr[c].sleep = 0
  BY DEF Init
<1>3. ~hang /\ kick_bit = {}
  BY Zenon DEF Init
<1>4. hp.pc = "idle" /\ wr.pc = "idle" /\ cfg.interval = INTERVAL /\ cfg.enable = 1
  BY DEF Init
<1> QED BY <1>1, <1>2, <1>3, <1>4 DEF Aligned, Settled, Together, InRound

(* A kick, the first of a round, a later one, or the last.                  *)
LEMMA KickAligned ==
  ASSUME TypeOK, Roster, Aligned, NEW c \in Cpus, Kick(c)
  PROVE  Aligned'
<1> USE DEF Aligned, Settled, Together, InRound
<1>1. /\ Kicks(c) /\ c \in RunsOn(c) /\ thr[c].pc = "kick"
      /\ hp' = hp /\ wr' = wr /\ cfg' = cfg /\ online' = online
  BY DEF Kick, At, plugVars, envVars
<1>2. c \in online /\ cpus_kick_bit = online /\ kick_bit \subseteq online
  BY <1>1 DEF RunsOn, Roster, Placed, Masked
<1>3. c \notin kick_bit /\ thr[c].sleep = 0
  BY <1>1
<1>4. online \subseteq Cpus /\ nxt \in Int /\ \A d \in Cpus : thr[d].sleep \in Nat
  BY DEF TypeOK, ThreadStates, LongestNap
<1>5. PICK cur \in 0 .. MAX_KICK_INTERVAL :
        /\ Doze(c, cur)
        /\ cur = IF kick_bit = {} THEN INTERVAL ELSE nxt
  <2>1. NextSleep(kick_bit, nxt, cfg.interval) = IF kick_bit = {} THEN INTERVAL ELSE nxt
    BY <1>4 DEF NextSleep
  <2>2. NextSleep(kick_bit, nxt, cfg.interval) \in 0 .. MAX_KICK_INTERVAL
    BY NextSleepBound DEF TypeOK
  <2> QED BY <1>1, <2>1, <2>2 DEF Kicks
<1>6. /\ \A d \in Cpus \ {c} : thr'[d] = thr[d]
      /\ thr'[c].pc = "asleep" /\ thr'[c].sleep \in Nat
      /\ cur <= thr'[c].sleep /\ thr'[c].sleep <= cur + SLACK
  BY <1>5, DozeNap DEF TypeOK
<1>7. nxt' = IF kick_bit = {} THEN INTERVAL ELSE nxt
  BY <1>1 DEF Kicks
<1>8. ~hang'
  <2>1. hang' = (~Full(kick_bit \cup {c}) /\ (hang \/ c \in kick_bit))
    BY <1>1, Zenon DEF Kicks, HangAfter
  <2> QED BY <2>1, <1>3, Zenon
<1>9. Settled'
  BY <1>1, <1>6
<1>10. kick_bit' = IF kick_bit \cup {c} = online THEN {} ELSE kick_bit \cup {c}
  BY <1>1, <1>2 DEF Kicks, Full
<1>11. \A d \in kick_bit \cup {c} : /\ thr'[d].pc = "asleep"
                                    /\ nxt' <= thr'[d].sleep /\ thr'[d].sleep <= nxt' + SLACK
  BY <1>2, <1>4, <1>5, <1>6, <1>7
<1>12. \A d \in online \ (kick_bit \cup {c}) : thr'[d].sleep + INTERVAL <= nxt' + SLACK
  <2> TAKE d \in online \ (kick_bit \cup {c})
  <2>1. thr'[d] = thr[d] BY <1>4, <1>6
  <2>2. CASE kick_bit = {}
    <3>1. thr[d].sleep <= thr[c].sleep + SLACK BY <1>2, <2>2
    <3> QED BY <1>3, <1>4, <1>7, <2>1, <2>2, <3>1
  <2>3. CASE kick_bit # {}
    BY <1>7, <2>1, <2>3
  <2> QED BY <2>2, <2>3
<1>13. INTERVAL <= nxt' + SLACK /\ nxt' <= INTERVAL
  BY <1>4, <1>7
<1>14. Together'
  <2>1. CASE kick_bit \cup {c} = online
    <3> SUFFICES ASSUME NEW d \in online, NEW e \in online
                 PROVE  thr'[d].sleep <= thr'[e].sleep + SLACK
      BY <1>1
    <3>1. nxt' <= thr'[e].sleep /\ thr'[d].sleep <= nxt' + SLACK
      BY <1>11, <2>1
    <3>2. nxt' \in Int /\ thr'[d].sleep \in Int /\ thr'[e].sleep \in Int
      BY <1>4, <1>6, <1>7
    <3> QED BY <3>1, <3>2
  <2>2. CASE kick_bit \cup {c} # online
    BY <2>2, <1>10
  <2> QED BY <2>1, <2>2
<1>15. InRound'
  BY <1>1, <1>10, <1>11, <1>12, <1>13
<1> QED BY <1>8, <1>9, <1>14, <1>15

(* Time passes: an open round has a CPU still to come, so its sleep bounds  *)
(* how late it is.                                                          *)
LEMMA TickAligned ==
  ASSUME TypeOK, Roster, Aligned, Tick
  PROVE  Aligned'
<1> USE DEF Aligned, Settled, Together, InRound
<1>1. UNCHANGED <<hang, cfg, hp, wr, online, kick_bit>> /\ start.st # "loop"
  BY DEF Tick, maskVars, plugVars, envVars
<1>2. \A c \in Cpus : /\ thr'[c].sleep = IF thr[c].sleep > 0 THEN thr[c].sleep - 1 ELSE 0
                      /\ thr'[c].pc = thr[c].pc
  BY DEF Tick, TypeOK, ThreadStates
<1>3. \A c \in Cpus : thr[c].sleep \in Nat /\ thr[c].sleep > 0
  <2>1. \A c \in Cpus : thr[c].sleep > 0 \/ thr[c].pc = "none" \/ RunsOn(c) = {}
    BY DEF Tick
  <2>2. \A c \in Cpus : RunsOn(c) # {}
    BY DEF RunsOn, Roster, Placed
  <2>3. \A c \in Cpus : Created(c)
    <3>1. start.next = NCPU BY <1>1 DEF Roster, Threads, TypeOK
    <3> QED BY <3>1 DEF Created, Cpus
  <2>4. \A c \in Cpus : thr[c].sleep \in Nat
    BY DEF TypeOK, ThreadStates, LongestNap
  <2> QED BY <2>1, <2>2, <2>3, <2>4 DEF Roster, Threads
<1>4. online \subseteq Cpus /\ kick_bit \subseteq online /\ kick_bit # online /\ nxt \in Int
  BY DEF TypeOK, Roster, Masked
<1>5. Settled'
  BY <1>1, <1>2, <1>3
<1>6. Together'
  BY <1>1, <1>2, <1>3, <1>4
<1>7. ASSUME kick_bit # {} PROVE InRound'
  <2>1. PICK d \in online : d \notin kick_bit BY <1>4
  <2>2. thr[d].sleep + INTERVAL <= nxt + SLACK BY <1>7, <2>1
  <2>3. thr[d].sleep \in Nat /\ thr[d].sleep > 0 BY <1>3, <1>4
  <2>4. INTERVAL <= (nxt - 1) + SLACK
    BY <2>2, <2>3, <1>4
  <2>5. nxt' = nxt - 1
    BY <2>4, <1>4 DEF Tick
  <2> QED BY <1>1, <1>2, <1>3, <1>4, <1>7, <2>4, <2>5
<1>8. InRound'
  BY <1>1, <1>7
<1> QED BY <1>1, <1>5, <1>6, <1>8

(* No other step of a thread moves it in time: one that has kicked sleeps   *)
(* on, and one that runs elsewhere is not that of a CPU that is up.         *)
LEMMA ThreadAligned ==
  ASSUME TypeOK, Roster, Aligned, NEW c \in Cpus, QuietThread(c)
  PROVE  Aligned'
<1> USE DEF Aligned, Settled, Together, InRound
<1>1. UNCHANGED <<hang, hp, wr, online, kick_bit, nxt>>
  BY DEF QuietThread, Snapshot, CheckEnabled, StopsKicking, ConfigMode, ConfigLength,
         ConfigDone, KickElsewhere, Wake, maskVars, plugVars, envVars
<1>2. cfg'.interval = cfg.interval /\ cfg'.enable = cfg.enable
  BY DEF QuietThread, Snapshot, CheckEnabled, StopsKicking, ConfigMode, ConfigLength,
         ConfigDone, KickElsewhere, Wake, TypeOK
<1>3. online \subseteq Cpus /\ kick_bit \subseteq online
  BY DEF TypeOK, Roster, Masked
<1>4. \A d \in Cpus \ {c} : thr'[d] = thr[d]
  BY ThreadTable DEF QuietThread, Thread
<1>5. CASE StopsKicking(c)
  BY <1>5 DEF StopsKicking
<1>6. CASE KickElsewhere(c)
  <2>1. RunsOn(c) \ {c} # {} /\ thr[c].pc = "kick" /\ Doze(c, thr[c].cur)
    BY <1>6 DEF KickElsewhere, At
  <2>2. c \notin online
    BY <2>1 DEF RunsOn, Roster, Placed, Threads
  <2>3. thr'[c].pc = "asleep"
    BY <2>1 DEF Doze, TypeOK
  <2> QED BY <1>1, <1>2, <1>3, <1>4, <2>2, <2>3
<1>7. ASSUME Snapshot(c) \/ CheckEnabled(c) \/ ConfigMode(c) \/ ConfigLength(c)
             \/ ConfigDone(c) \/ Wake(c)
      PROVE  Aligned'
  <2>1. thr'[c].sleep = thr[c].sleep
    BY <1>7, SnapshotMoves, ThreadMoves
  <2>2. thr[c].sleep = 0
    BY <1>7 DEF Snapshot, CheckEnabled, ConfigMode, ConfigLength, ConfigDone, Wake, At
  <2>3. nxt \in Int BY DEF TypeOK
  <2>4. c \notin kick_bit
    BY <2>2, <2>3
  <2> QED BY <1>1, <1>2, <1>3, <1>4, <2>1, <2>2, <2>4
<1> QED BY <1>5, <1>6, <1>7 DEF QuietThread

LEMMA CreateAligned ==
  ASSUME TypeOK, Roster, Aligned, CreateThread
  PROVE  Aligned'
<1> USE DEF Aligned, Settled, Together, InRound
<1>1. UNCHANGED <<hang, hp, wr, cfg, online, kick_bit, nxt>>
  BY DEF CreateThread, maskVars
<1>2. PICK c \in Cpus : c = start.next
  BY DEF CreateThread, TypeOK
<1>3. thr[c].pc = "none"
  BY <1>2 DEF Roster, Threads, Created, Cpus
<1>4. /\ \A d \in Cpus \ {c} : thr'[d] = thr[d]
      /\ thr'[c].pc = "top" /\ thr'[c].sleep = thr[c].sleep
  BY <1>2 DEF CreateThread, TypeOK, ThreadStates
<1>5. online \subseteq Cpus /\ kick_bit \subseteq online /\ c \notin kick_bit
  BY <1>3 DEF TypeOK, Roster, Masked
<1> QED BY <1>1, <1>3, <1>4, <1>5

(* Every other step is a disturbance, or a stutter.                         *)
LEMMA AlignedHolds ==
  ASSUME TypeOK, Counted, Roster, Undisturbed => Aligned, [Next]_vars, Undisturbed'
  PROVE  Aligned'
<1>1. /\ ~CreateFails /\ ~ForceHwt /\ \A c \in Cpus : ~Stall(c) /\ ~CpuDown(c) /\ ~CpuUp(c)
      /\ ~Pause /\ \A r \in Requests : ~WriteEnable(r)
  BY Accidents DEF Undisturbed, Counted, CpuDown, CpuUp, Pause, WriteEnable
<1>2. Undisturbed
  <2>1. ~hist.excused
    BY ExcuseStays DEF Undisturbed
  <2>2. used' = used
    BY <1>1 DEF Next, vars, Thread, Snapshot, CheckEnabled, StopsKicking, ConfigMode,
                ConfigLength, ConfigDone, Kick, KickElsewhere, Wake, Hotplug, FlagRead,
                FlagWrite, PlugFeed, Bind, CreateThread, WriteLocked, Tick, envVars
  <2> QED BY <2>1, <2>2 DEF Undisturbed
<1>3. Aligned
  BY <1>2
<1>4. ~Hotplug /\ ~WriteLocked
  BY <1>3 DEF Aligned, Settled, Hotplug, FlagRead, FlagWrite, PlugFeed, Bind, WriteLocked
<1>5. CASE UNCHANGED vars
  BY <1>3, <1>5 DEF vars, Aligned, Settled, Together, InRound
<1> QED BY <1>1, <1>3, <1>4, <1>5, KickAligned, ThreadAligned, CreateAligned, TickAligned
        DEF Next, Thread, QuietThread

(* On a healthy system that nobody plugs or reconfigures no hang is         *)
(* reported.                                                                *)
THEOREM KickerHangIsReal == Spec => []HangIsReal
<1> DEFINE Inv == KickerInv /\ (Undisturbed => Aligned)
<1>1. Init => Inv
  BY InitTypes, CountedHolds, InitHealthy, InitAligned DEF KickerInv
<1>2. Inv /\ [Next]_vars => Inv'
  <2> SUFFICES ASSUME Inv, [Next]_vars PROVE Inv' OBVIOUS
  <2>1. KickerInv' BY KickerInduction
  <2>2. ASSUME Undisturbed' PROVE Aligned'
    <3>1. ~hist.excused
      BY <2>2, ExcuseStays DEF Undisturbed, KickerInv
    <3>2. TypeOK /\ Counted /\ Roster
      BY <3>1 DEF KickerInv, Healthy
    <3> QED BY <2>2, <3>2, AlignedHolds
  <2> QED BY <2>1, <2>2
<1>3. Inv => HangIsReal
  <2> SUFFICES ASSUME Inv, ~HangIsReal PROVE FALSE OBVIOUS
  <2>1. hang /\ ~hist.excused /\ ~(used.plugs > 0) /\ ~(used.writes > 0)
    BY DEF HangIsReal
  <2>2. used.plugs = 0 /\ used.writes = 0
    BY <2>1 DEF KickerInv, Counted
  <2> QED BY <2>1, <2>2 DEF Undisturbed, Aligned
<1> QED BY <1>1, <1>2, <1>3, PTL DEF Spec
=============================================================================
