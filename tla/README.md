# A TLA+ development of LittleSpammyMailman

The repository makes a mainline-style kernel boot on the "selene" phone
(MediaTek MT6768) and makes its failures visible. This directory holds TLA+ models of
the parts whose correctness depends on order, timing or arithmetic, the TLC runs
that check them on small instances, and TLAPS proofs about them. Source paths
below are relative to the repository.

## 1. The system

### Components

| Component | State | Operations | Talks to |
|---|---|---|---|
| **LK memory dumper**, `lk/board-selene.c` 61-473 | the emitter (`emit_line`, `emit_col`, `emit_left`, `emit_mode`), `dump_buf`, the L3 page descriptor it borrows | `oem ramoops`, `oem rrlog`, `oem sram`, `oem rdmem` | the host over fastboot INFO messages; LK's page table |
| **Region collector**, `tools/flash-session/08-lkdump.sh` | offset, total, stall counter, the output file | ask for a window, filter the answer, move on, compare sizes | the dumper |
| **Range collector**, `07-fbdump.sh` | address, failure counter, byte count, output file | ask for a chunk, append it, stop after 3 failures | the dumper |
| **LK auto-fastboot**, `lk/board-selene.c` 30-59 | a counter in LK's environment | count the boot, enter fastboot at the limit | LK, every reset of the device |
| **LK boot patches**, `lk/board-selene.c` 475-628 | instructions of a closed binary | patch once at start | LK |
| **Watchdog kicker**, `wdk/wd_common_drv.c` | `kick_bit`, `cpus_kick_bit`, `g_hang_detected`, `g_nxtKickTime`, `g_kinterval`, `g_timeout`, `g_need_config`, `g_enable`, one thread per CPU | the thread loop, CPU hotplug callbacks, `/proc/wdk`, `/sys/kernel/mtk_rgu/pause`, power-key hang reset | the RGU driver through `wd_api` |
| **Watchdog API**, `wdk/wd_api.c` | a table of functions | dispatch, `arch_reset` command decoding | kicker, thermal, SPM, reboot → RGU driver |
| **RGU driver, version 2**, `wdt/common/wdt_v2/mtk_wdt_v2.c` | the RGU's registers, `wdt_enable`, `wdt_last_timeout_val`, `g_apwdt_en_doe`, one spinlock | mode, timeout, restart, enable, suspend, resume, request sources, software reset, SSPM and watchdog interrupts | everything that resets or is reset |
| **RGU driver, version 1**, `wdt_v1/mtk_wdt_v1.c` | the registers, `g_wdt_enable`, two locks | the same, and a reset controller for subsystems | built by other configurations |
| **eMMC customisation**, `ComboA/mt6768/msdc_cust.c` | the regulator and clock handles, `power_flash`, pad registers | read the device tree, get clocks, power on and off, pads per bus speed | the host driver (not in the repository) |
| **eMMC tuning**, `autok_dvfs.c` | `autok_res[]` (a table per core voltage and a merged one), `autok_done`, `lock_vcore` | tune at the present voltage; once per boot, claim the host, force every operating point, tune, merge, release | the host driver, the core-voltage driver |
| **eMMC encryption**, `mtk_hw_fde.c` | the AES engine, the key believed to be installed | before and after the data of each request | the host driver, the secure world |
| **Thermal reset guard**, `patches/0003` | `sysrst_reset_disabled`, uptime | a trip resets, is ignored, or disables itself | cooling devices |
| **Other patches, session scripts, build glue** | none that lasts | single edits, copying, flashing | - |

### Interactions

A command of the operator runs a script; the script sends fastboot commands; LK
answers with INFO lines, of which it can send only about 76 per command. The script
decides from the answer where to continue. On the kernel side every CPU's kicker
thread sets a bit; the thread that completes the mask restarts the RGU. Hotplug,
`/proc/wdk`, sysfs and the power-key detector write to the same state, partly without the
lock. RGU functions are called by the kicker, thermal, SPM, the reboot path, suspend/
resume, and an interrupt, on any CPU. The eMMC core powers the host, raises its bus speed and moves data
through it, encrypted or not, while the SPM driver has it tuned for every core voltage: both claim the host
first. A reset, whoever caused it, starts LK, which counts it and either boots the kernel or stops in fastboot.

### What is hard

* **Accounting under a budget** (dumper): a byte sits in memory, in the line buffer or
  on the wire, and the reply must agree with that although a newline may end a line at
  any time and the budget may be spent in the middle of a chunk.
* **A temporary mapping** (dumper): nothing but the copy may run while it is open.
* **Trust in an answer** (collectors): data may look like a header line or a trailer.
* **A distributed round** (kicker): a set of threads, each on its own CPU, against
  hotplug, reconfiguration and jitter. A mistake either resets a healthy phone or hides
  a hang.
* **Read-modify-write under partial locking** (RGU): several functions read before they
  take the lock or take none, and an interrupt may come at any point.
* **State that a reset clears and state that it does not** (boot): the count is LK's, the guard's flag is the
  kernel's, and what the count should count is what the kernel did.
* **A cache of what hardware was told** (eMMC): the key in the engine, the voltage the regulator was set to, the
  parameters that fit the core voltage; each is skipped or reused when the driver believes it is still there.
* **Time** (kicker, thermal guard): unsigned differences, wrap-around, a counter that is
  reloaded from a register somebody else may be changing.

The hazards in `PROJECT.json` list each place with its line.

## 2. Modules

| Module | Models | Lines that carry it |
|---|---|---|
| `LkDump` | the device side of every dump command | `lk/board-selene.c` 118-169, 239-473 |
| `LkCollect` | 08-lkdump.sh, composed with `LkDump` | `08-lkdump.sh` |
| `RegionWalk` | abstract specification of collecting a region | - |
| `LkFbdump` | 07-fbdump.sh, composed with `LkDump` | `07-fbdump.sh` |
| `WdKicker` | kicker threads, hotplug, `/proc/wdk`, sysfs, with the RGU timer they see | `wd_common_drv.c` 94-984 |
| `RguProgram` | registers and instructions: the language of the next three | - |
| `RguV2`, `RguV1` | the functions of each version as programs | `mtk_wdt_v2.c`, `mtk_wdt_v1.c` |
| `WdApi` | the table of functions on version 2, and the restart handler | `wd_api.c`, `wd_common_drv.c` |
| `Rgu` | the callers of either version, one register access at a time | both drivers' locks, suspend, the interrupt |
| `Emmc` | the eMMC host between two resets | `msdc_cust.c`, `mtk_hw_fde.c`, `autok_dvfs.c` |
| `Boot` | LK's counter, the thermal guard, and `Emmc`, from reset to reset | `lk/board-selene.c` 30-59, `patches/0003` |
| `MC*` | small instances of these | - |
| `LkDumpProofs`, `LkCollectProofs`, `LkFbdumpProofs`, `WdKickerProofs`, `WdKickerTimeProofs`, `RguProofs`, `RguModeProofs`, `BootProofs` | theorems and proofs | - |

### LkDump

One action per piece of the handler that another piece depends on: accept or refuse a
command (`DumpWindow`, `Rdmem`, and their `Refused` twins), `MapPage`, `CopyChunk`,
`RestorePage`, `PushByte`/`PushStops` per byte, `EndChunk`, `FlushAndReply`. Data is
abstracted to what the emitter and the script's filter tell apart: a newline, an ordinary
character, a character that starts a line looking like one of LK's header lines ("tag") or
like its `used=` trailer ("used"). Address arithmetic is modulo `WORD`, as `uint32_t` is.
The page table is a constant (`Reach`): a page with an L3 slot that is valid or not, a block
mapping, or a hole. `mmu` is chosen once: off, short descriptors, LPAE. The pages in `Protected` (TEE, EMI-MPU)
may lie inside the whitelist and are refused by the hardware however they are mapped
(`board-selene.c:247-249`). A load from a page that is protected or not mapped takes LK down (`dead`);
`LkRestart` is the reset and the operator's way back. Argument parsing (`parse_hex`, `parse_mode`) is abstracted to its results.

The comment at `board-selene.c:71` says that pages are mapped only with the MMU on and *without*
LPAE; the code (line 122) requires LPAE, and the model follows the code.

### LkCollect, RegionWalk, LkFbdump

The scripts' variables are kept under their names. In `LkCollect` a command may fail or time out at any
time while the device works (`CommandFails`); a data line that starts with `used=0x`
is taken for the trailer and gives any value of `FakeUsed`, or nothing that is a number, which ends the loop
(`TrailerUnreadable`). The shell's numbers are signed and wrap (`Long`, `Wrapped`): `$((16#ffffffffffffffff))`
is -1 and takes the offset back. The next command is then sent with the offset's 64 bits, of which LK's
`parse_hex` keeps 32 (`SentOff`), and LK may refuse it. `RegionWalk` says what a walk
is: a cursor that moves forward, handing over some of the bytes it passes. `LkCollect` is checked
to implement it in hex mode (`pos <- off`, `got <- out`); in text mode forged trailers
break it, so the mapping is constant there.

### WdKicker

The threads interleave wherever the code does not hold `lock`: after the snapshot of the
configuration, at the unlocked read of `g_enable`, around each RGU access of `wd_config`, and
between a kick and the next sleep. The hotplug callback's read-modify-write of
`cpus_kick_bit` is two steps, because `cpus_kick_bit = 0xFFFF` of the power-key detector
(`ForceHwt`) does not take the lock. Time is discrete; the threads are `SCHED_FIFO` 99, so
`Tick` waits until every thread that can run sleeps. `NextSleep` is the alignment under
`KWDT_KICK_TIME_ALIGN`, with the cap behind its unsigned subtraction. `Stall(c)` is the fault the kicker
exists for. `since`, `hist` and `used` are history and bounds and influence nothing
but the guards of the environment.

The model is of a build with `CONFIG_MTK_WD_KICKER`. README.md:126-145 ships without it
(its `aee` symbols clash), in which case `wd_api.c` compiles its stubs and the probe turns
the watchdog off; the kicker is then not running and there is nothing to check.

### Rgu, RguProgram, RguV1, RguV2, WdApi

Every driver function is a short program of register reads and writes, lock operations and
assignments (`mtk_wdt_enable` = lock, read MODE, set the variable, write MODE, unlock, and
so on); `Step(p)` of `Rgu` executes one instruction of one caller. A register is the set of its flags
(`RegFlags`); a field of several bits is one flag where only zero or not, or who set it, matters (LENGTH, the
DFD timeout). Callers on CPUs run in parallel, the SSPM interrupt may come at any point, and suspend/resume
run with the other CPUs idle. `intent` is what the registers behind one lock would hold if each
read-modify-write were atomic.

`start.version` says which driver was built. Version 2 is called through `WdApi`, as the rest of the kernel calls
it. The functions of version 1 are called directly: it has no `mtk_wdt_dfd_*` and cannot be linked with this
`wd_api.c`, and the `pr_debug` at `mtk_wdt_v1.c:274` names a variable that does not exist, so it does not compile
with debug output on. What differs and is modelled: its two locks (SWSYSRST is written under the driver's lock
by `mtk_wdt_swsysret_config` and under another by the reset controller, so `RequestsExact` covers the
register only in machines that use one of them), its lock on the reset path, its suspend without a mark.

`arch_reset` is the restart handler. The kernel stops the other CPUs before it calls it, each
wherever it was, under the lock included; `Stopped` says so and `RebootCompletes` depends on it: version 2 takes
no lock there, version 1 does, and then the reset is only promised if no stopped CPU holds it (`LockLost`).
The SSPM interrupt may still come.

The reset path calls `pmic_pre_wdt_reset()` after it has restarted the counter and before it does anything for the
reset (`mtk_wdt_v2.c:639`); the comment says that it may hang inside. `PmicPreReset` is that call. It changes
nothing that is modelled and need never return: `Proceeds`, the step that is fair, leaves it out, and
`RebootCompletes` promises a reset or a hang in this call (`Hanging`), of the restart handler or of the SSPM
interrupt, which stops whatever CPU it came on.

`Starts` gives the machines to begin with: the version, the operations of each caller, `g_apwdt_en_doe`,
`ext_debugkey_io_eint`, whether the last reset was a debug reset, and whether the build has
`CONFIG_MTK_WD_KICKER` (without it the entries in `KickerOps` are stubs, but the debug keys, the
direct thermal request, DFD and the reset still reach the driver; this is the shipped configuration).

### Emmc, Boot

`Emmc` is the host `msdc0` from its probe to the next reset. `DtInit`, `GetClocks` and `SetHostPowerControl`
are the probe; an error ends it ("absent") and a pointer nobody checked is an oops. `EmmcPower(on)` is
`msdc_emmc_power`: `msdc_ldo_power` with its cached `power_flash`, and the pads, against a regulator that counts
its users and may refuse a call, of which the driver ignores the result. `BeginData` and `EndData` are a
request with `msdc_pre_crypto` and `msdc_post_crypto` around its data; the secure call may fail unnoticed, the mode
may be unknown, and the card is addressed by bytes or blocks. `Tune` is `emmc_execute_dvfs_autok`. `AutokBegin` to
`AutokRelease` are `emmc_autok`, one action per place at which something else can happen: the check of
`autok_done`, the claim, the command queue off, and for every operating point the forced voltage and its tuning; then
the merge of the tables, the command queue on, and the release. A table is the pair of voltages at which its
command and data line were tuned. What `mtk_sd.c` and the voltage driver do is external (`SwitchTiming`,
`ScaleVcore`, the guards of `EmmcPower` and `BeginData`).

Hosts 1 and 2 (SD, SDIO) do not occur: `msdc_of_parse` refuses every device-tree index but 0. Functions for
them in `msdc_cust.c` and `autok_dvfs.c` never run.

`Boot` is the device over many resets. `AutoFastbootCheck` is what LK does with its counter at each start;
in fastboot the operator may store another value: any digits, or none. LK adds digits up in an `int`. A string
that spells `INT_MAX` or more overflows it, over the digits or in the `count++` behind them, and C leaves the
result open: `Counts` is then any member of `Overflown`, negative ones included, which are stored as an empty
string (`Text`). A kernel ends by a crash, a thermal trip
(`ThermalTrip`, `sysrst_thermal_reset` with its unsigned milliseconds modulo `Wrap`) or a restart by
its user, which needs a system whose storage came up (`probe = "up"`). Each clears all state but LK's
environment. `history` and `trip` record what the properties talk about and influence nothing.

`start.ops` says which kinds of events a machine sees, besides its build and its board.

## 3. Runs

| Run | Question | Result |
|---|---|---|
| `lk_dump` | `LkDump` under every argument, byte and page table kind | pass |
| `lk_collect` | the region loop with the device; refinement of `RegionWalk`; termination | pass |
| `lk_hex_loss` | does a completed hex dump equal the region? | violated |
| `lk_fbdump` | the chunk loop with the device | pass |
| `lk_fbdump_gap` | does an answer cover its chunk? | violated |
| `wd_kicker` | 3 CPUs, two hotplug events, power-key reset | pass |
| `wd_config` | 2 CPUs, `/proc/wdk`, pause, a stall, a plug; liveness | pass |
| `wd_disable` | does a disabled watchdog stay off? | violated |
| `rgu` | both versions: two CPUs, interrupt, suspend/resume and reboot at register granularity; does a reboot complete? | pass |
| `rgu_sspm` | does the SSPM flag survive to the reset? | violated |
| `boot` | boot after boot: fastboot in time, the thermal guard; within a boot: supply, encryption, tuning | pass |
| `boot_failed` | does the counter stop a boot only after failed boots? | violated |

### Bounds, and why they are enough

* `lk_dump`: 72 addresses in 8-byte pages, chunks of 4, lines of 2 characters, 2 lines of budget, windows of at
  most 8 bytes. A window then crosses a page and a chunk, fills a line, ends a line early, and spends the budget
  in the middle of a chunk; the arguments include one past the region, one that wraps at the top of the address
  space, and both edges of a whitelist window. Every kind of page occurs, and one that is mapped and protected. Lines
  of one hex byte are the shortest the code admits.
* `lk_collect`, `lk_fbdump`: one line of budget, so that every command runs out; a region of 5 bytes (three or
  more windows, the last shorter), a range that starts in front of the whitelist and crosses the page that is
  not mapped. A forged trailer says 0, 3, -4, 4 - 2^32 (in the model's width) or the largest number of the shell, so
  the offset stays, skips, goes back, leaves the region on either side and wraps.
* `wd_kicker`: 3 CPUs make a round whose members finish in different orders while a third is plugged; period 2,
  timeout 4, jitter 1, so that a missed round bites and a late thread does not. Two plugs, so that a CPU can
  leave and come back. `wd_config`: 2 CPUs, requests that keep, shorten, lengthen the period, disable, are
  refused, and leave no room for jitter; one write (two concurrent requests may lose the later one, see the
  hazards, and `ConfigLands` would fail), one plug, one stall. That `NoFalseBite` and `ArmedAsAsked` hold for
  any number of requests and of CPUs is proved (section 5).
* `rgu`: two CPUs, with no bound on how many calls they make, in fourteen machines. Ten of version 2: enabling
  and disabling with suspends and a reset; request sources and subsystem resets, with both DOE settings and with
  and without the external key; a reboot against DRAM reservation, DFD and DVFSRC, with and without the kicker.
  Four of version 1: enabling, suspends and reboots with and without the kicker; request sources and SWSYSRST
  under both locks; the reset controller with the timer operations. Each kind puts the operations that share
  registers against each other; operations that share none (the latch control against the requests, say) are not
  combined. Operations that race on a register by design (`mtk_rgu_dram_reserved` against mode changes,
  `mtk_wdt_confirm_hwreboot`, `mtk_wdt_set_c2k_sysrst`, and `wd_config`, which arms the timer without setting
  `wdt_enable`) are kept for `rgu_sspm`. Section 5 says which combinations with them the theorems cover.
* `boot`: the uptime counter wraps at 3 grace periods and is followed to 5, so trips come before the period,
  after it, in the period after the wrap and after that one; histories are counted to 6, one more than the
  threshold. The operator stores 3, 7, nothing, 9 (on which `count++` overflows, `INT_MAX` being 9) or 12 (on
  which the digits do); an overflow gives -8, 0, 2 or 6, that is a negative count, one that starts anew, one in
  between and one that stops at once. Two keys and the sectors 1 and 513 make requests that differ in the key, the counter, both or
  neither, and a forgotten conversion between bytes and blocks shows. Three voltages and three tables of
  operating points: two points alike at the end, in the middle, and the outer ones alike but not neighbours. The
  machines are of four kinds, each with every variant of what it depends on: boots (device trees good and bad,
  clocks missing, the environment writable or not), supply (a regulator that refuses, every set of speeds),
  encryption (every mode, both addressings, the secure call failing or not), tuning (with and without
  VCOREFS_READY and the command queue, every set of speeds). Operations that share state are in one kind; the
  proofs of section 5 have no such split. `MaxHistory` only caps counts that the properties compare with 5.

### Fairness

* `DevStep` is weakly fair: LK runs a command's handler to its end; nothing preempts it.
* In `LkCollect` sending, receiving and noticing a failure are weakly fair: the script is a sequential loop.
  A failure is fair only once the device is idle or gone, so a dump is not forced to fail.
* `WdKicker`: the threads and callbacks that can run do (`SCHED_FIFO` 99, and the kernel's hotplug
  threads), the write of `/proc/wdk` ends, and time passes (`Tick`). No fairness is put on stalls,
  plugs, writes or the power key.
* `Rgu`: a CPU that is in a driver function and not stopped goes on executing it (`WF(Proceeds(p))`), except
  inside `pmic_pre_wdt_reset()`, and except while the SSPM interrupt is inside it; no call is ever forced. `LkFbdump` and `Boot` check safety only and have none.

### Deadlock

`lk_dump` checks it. The other runs turn it off: a script ends; after the reset of `Rgu` and `WdKicker` nothing of
the kernel's state is left to step; in `boot` the machines whose question is the host are not restarted, and a
command queue that does not halt leaves the host claimed for ever, which is what the code does (`cqe_failed`).

## 4. Findings

1. **`used` counts bytes that were not sent** (`board-selene.c:323`). `dump_region` counts the
   bytes in the unfinished line and `emit_flush` drops that line when the budget is spent.
   README.md:203-204 says hex mode round-trips. `LossIsOneLine` bounds the loss (proved),
   `NoWarningMeansIntact` shows that 08-lkdump.sh always warns.
2. **07-fbdump.sh counts whole chunks** (`07-fbdump.sh:31`) although an answer stops after 64
   lines; its comment says that 4 KB stay below the limit.
3. **`/proc/wdk` with mode 2 and enable 0** (`wd_common_drv.c:237`) first disables the watchdog and
   then enables it through `wd_set_mode`, while the threads stop kicking.
4. **The SSPM flag can be lost** (`mtk_wdt_v2.c:261`): `mtk_wdt_mode_config` reads NONRST_REG2
   before it takes the lock and writes the old value back.
5. **The counter counts every boot** (`board-selene.c:38`). README.md:159 and the comment at
   `board-selene.c:26` speak of failed boots in a row, but nothing takes the count back after a boot that
   succeeded, so a healthy phone enters fastboot every fifth start. `FastbootInTime` is what does hold.

Two more divergences are part of the models, which follow the code, but have no run of their own. 08-lkdump.sh takes
the first line that starts with `used=0x` (`08-lkdump.sh:62`), and LK's own comes last: in text mode a line of the
dump may move the offset, as a signed number also back, although the script's comment (lines 5-6) says that it
advances by what LK reports. `LoopEnds` says when the loop still ends; hex mode is not affected (`WalksRegion`). And
the comment at `mtk_wdt_v2.c:636-637` wants `pmic_pre_wdt_reset()` executed "when WDT mechanism is enabled since it
may hang inside", but the reset path does not turn the timer on before the call, and the configuration that ships has
it off (lines 1451-1455 without `CONFIG_MTK_WD_KICKER`). `RebootCompletes` holds up to that hang.

## 5. Proofs

Every invariant, action property and refinement that a passing run checks is also proved. The theorems hold for
all values of the constants under the named assumptions of the modules they extend:

| Module | Assumptions | What they say |
|---|---|---|
| `LkDump` | `SizeAssumption`, `ChannelAssumption` | sizes are positive naturals, a line holds whole hex pairs, a command's own budget fits the INFO channel |
| | `AddressAssumption` | the whitelist's bounds are naturals; `DUMP_MAXLEN` and the end of the region are below 2^32 (`board-selene.c:232-256`) |
| | `ReachAssumption` | each page is of one of the four kinds; the protected ones are pages |
| `LkCollect`, `LkFbdump` | `FakeAssumption`, `RangeAssumption` | the shell's numbers are signed and hold every address, and a forged trailer is any of them; the range is a natural |
| `WdKicker` | `CpuAssumption`, `RequestAssumption`, `BoundAssumption` | the CPUs' bits are among those of the forced mask; requests are integers |
| | `TimeAssumption` | periods are positive; the jitter of `usleep_range` (100 ms) is below the first period (15 s), and both together below the first timeout (32 s) |
| `Rgu` | `ProcAssumption`, `StartAssumption` | callers are distinct; a machine's operations are entries of the driver it was built with, and the interrupt and the PM core call their own |
| `Emmc`, `Boot` | `RequestAssumption`, `BootAssumption`, `StartAssumption` | sectors are naturals; a stored count is a natural of any size or no digits; `INT_MAX` exceeds the threshold, and an overflow gives integers; operating points are voltages the machine has; a machine that runs `emmc_autok()` has not suspended before |

**LkDumpProofs.** The inductive invariant `IInv` adds to the checked properties what ties
them together: `Counters` (`done`, `n` and `i` against the place in the handler), `Messages` (messages sent
against lines left, from which `InfoBudget` follows with `ChannelAssumption`), `Mapping` (at most the current
chunk's slot is borrowed; `ChunkPage` does not move between `MapPage` and `RestorePage` because `done`
does not), and `Replied` (a finished command has dropped at most `k` bytes, and none unless
`emit_left = 0`). `BytesAccounted` is not inductive without `LineBufferSafe` (hex pairs) and
`Counters`; `LossIsOneLine` follows from `Replied`. There is one lemma per action, and `StepInv`
collects them. Results: `DumpTypes`, `DumpLineBuffer`, `DumpAccounts`, `DumpLoss`,
`DumpBudget`, `DumpMappingClosed`.

Two more need `AccessInv`, which remembers what was granted: the whole request lies inside one window, its end
did not wrap (this is where `mem_allowed`'s overflow test is used), and while a chunk is under way all of it
lies in the page that was mapped for it. `DumpReadsAllowed` and `DumpAborts` follow, the latter for any set of protected pages. The module ends with the
facts about the device that hold whichever commands a host sends (`DevInv`), on which the two scripts build.

**LkFbdumpProofs.** `Progress` (the cursor is the sum of both counters), `Asked` (the command on the device is the one
for the chunk at the cursor) and `Written`: before the end of the range every byte in the file lies more than
`fail` whole chunks behind the cursor. It is this gap, and not the counter alone, that is inductive:
a failure widens it by a chunk, which is a whole one because only the last chunk of the range is shorter.

**LkCollectProofs.** In hex mode the offset equals what LK counted (`HexWalk`), what was written lies before it,
and the device hands over a part of its window. In text mode nothing but their types is claimed of offset and
total (`CollectTypes`), because a forged trailer may be any number; that they stay numbers of the shell is the
wrap of `Wrapped`. `NoWarningMeansIntact` is then a fact about cardinalities: a
subset of `0 .. total - 1` with `total` elements is all of it. `CollectWalks` is the refinement: `SendCommand`
and the device's steps stutter in `RegionWalk`, an answer in hex mode is its `Move`, and in text mode the
mapping is constant.

**WdKickerProofs.** `KickerTypes` is type correctness, with the bound on sleeps from
`NextSleep`. `KickerWaitsForAll` (`NoOneLeftBehind`) and `KickerForgetsHangs` (`HangOfThisRound`)
rest on `MaskInv`, because `NoOneLeftBehind` is not inductive. It adds that a CPU whose bit is set in
`kick_bit` has not been passed over since it kicked (so that completing a round, which adds one to everybody's
`since`, leaves nobody above one), and that the copy of the mask which a hotplug callback holds between
its read and its write names no CPU that was passed over twice: no kicker can restart the watchdog
while that copy is held, because the callback holds the lock. The unlocked store of `ForceHwt` only
adds CPUs, each with a fresh count. `HangOfThisRound` is inductive by itself: every step that empties
`kick_bit` also clears the flag.

**WdKickerTimeProofs.** `KickerArmed` (`ArmedAsAsked`) is nearly inductive: nothing but a request turns the RGU
off. `KickerNoFalseBite` rests on `KickerInv`: unless something excuses a reset, the system is `Healthy`, which
is

* `Roster`: every thread that exists runs, on its own CPU unless that one is down or being plugged; outside a
  callback the mask is the set of CPUs that are up; and the open round waits for at least one of them (so a
  round never stays complete).
* `Room`: every length the RGU has or may yet be given, copies in the threads included, exceeds every nap that a
  thread takes or may yet take.
* `Disarmed`: once kicking has been stopped the RGU is off and nothing is left that would turn it on.
* `InTime`: each CPU that the open round waits for wakes before the watchdog fires. A kick preserves it because
  it restarts the counter only when it empties the round, and then `Room` covers every sleep that begins.

The proof found what `Risky`, the excuse for a request, has to contain, and TLC confirms that the parts are
needed: on `wd_config` with two writes and more requests (7.2 million states; not a run, because `ConfigLands`
does not hold with two) `NoFalseBite` holds, and dropping any one of them lets a healthy system be reset. The
exception is the timeout copied by a thread, for which two writes are too few. In the code this means:
`wk_proc_cmd_write` stores the period and the timeout together, but the threads use the new period at once
(`wd_common_drv.c:629`) and program the timeout only when one of them next comes round, and from a copy that may
be an older one (`:622`); so a longer period is safe only if it fits the old timeout too. A request that follows
one with enable 0 turns the RGU on while every thread may be about to skip its kick, and one with enable 0 may
be undone by a request that is still pending (`g_need_config`).

`KickerHangIsReal` is the argument for the alignment: as long as nothing disturbs them (`Undisturbed`) the
threads of the CPUs that are up wake within `SLACK` of each other (`Together`), and in an open round whoever
still has to kick does so before any of those who kicked wakes again (`InRound`: the common `g_nxtKickTime` lies
a period ahead, less the jitter, and the jitter is below the period). So nobody finds its own bit set. A write
ends the argument, as a plug does: with a new period the sleeps under way were measured against the old one.
`HangIsReal` says so.

**RguProofs.** The driver's functions are programs, so the proof is a Hoare logic for them. A *point* is what
one caller has at a place of its program: the lock it holds, the guarded registers it has read under that lock,
and what it owes REQ_MODE after it has set the debounce. `Good` are the rules for one instruction at a point
(write a guarded register only under its lock and only after reading it there; return the lock it holds; owe
nothing when it does; the interrupt takes no lock), `After` is the point behind it, and `Safe` says of the rest
of a program that it keeps the rules to its end, where no lock is held. `Leads` composes: there is one lemma per
function of `RguV1`, `RguV2` and `WdApi`, for all of its arguments, and `Operation1`, `Operation2` collect them
for every entry in `Ops`. `IInv` then says that each caller is at a point of a safe program and that the shared
state agrees with it (`Holds`, `Fresh`, `Owes`), and `OthersStay` that a step of one caller leaves the others at
theirs, because the registers they have read are guarded by a lock that it does not hold. `RguRequestsExact`,
`RguDebounce`, `RguLockReturned` and `RguTypes` follow. `MODE` of version 2 is not among the guarded registers,
because `mtk_rgu_dram_reserved` and the reset path write it without the lock, and neither is NONRST_REG2, which
`mtk_wdt_mode_config` reads before it takes the lock.

**RguModeProofs.** These two registers need another argument: not who may reach them, but what each program has
still to do. `Sparing(X)` are the programs that leave the registers of X alone, and `Split(c, X, i, T)` says that c
leaves X alone up to the instruction i and is in T behind it. A property then reads "either the write that
establishes it is still to come, or it has been made and the rest spares the register". `SparingStep` and
`SplitSteps` are the two rules for a step, and there is a lemma for the shape of each function of both versions.

* `RguSuspendMarked` (`SuspendIsMarked`, every machine). `SleepInv`: the suspend path runs alone (`Alone`), an
  interrupt that has begun ends in the reset (`SspmEnds`), and while the system sleeps the write that turns the
  timer off, and in version 2 the mark, are still to come or done (`TimerGoesOff`, `GetsMarked`).
* `RguRebootAsked` (`RebootAsAsked`, every machine). `RebootInv` says the same of the four writes of the restart
  handler: the key, the mode, DRAM and the DFD. The stopped CPUs cannot disturb them because they do not step; the
  interrupt can, and then the reset is its own.
* `RguSspmKey` (`SspmResetBypassesKey`). `KeyInv`: every program reads NONRST_REG2 before it writes it and clears
  no `BYPASS_PWR_KEY`, so a value held by a caller, however old, has the bit (`AllHeld`). This is what makes the
  unlocked reads harmless for the key although they lose the SSPM flag (finding 4). Hypothesis `KeepsKey`: the
  kernel does not call `wd_sw_reset` with a mode that asks for the key, which takes the bit away from the SSPM too.
* `RguModeFollows` (`ModeFollowsEnable`), for two kinds of machines. On those of `Switches` the timer is reached
  through `mtk_wdt_enable` and the suspends only: `FollowInv` says where each caller is in `mtk_wdt_enable`, that it
  holds the lock there, and that timer and variable differ only between its store and its write (`AtWrite`), or
  during a suspend (`Sleeper`). On those of `Steady` nobody calls `mtk_wdt_enable`, and a configuration is called
  only where the probe has left the timer on; then `wdt_enable` never changes, and `SteadyInv` says that whoever
  writes MODE has read it with ENABLE as it is, so that even the writes without the lock
  (`mtk_wdt_confirm_hwreboot`, `mtk_rgu_dram_reserved`) do no harm. Both leave out machines on which a reset is on
  the way (`Doomed`): the reset path of version 1 turns the timer off.

The hypotheses are about the operations of a machine, hold of every machine of `rgu` and `rgu_sspm`, and cannot be
dropped: `wd_config` on a machine that has called `mtk_wdt_enable(0)` starts the timer and leaves `wdt_enable`
at 0, and `mtk_rgu_dram_reserved` against `mtk_wdt_enable` may write back an old ENABLE.

**BootProofs.** One invariant, `IInv`, for every machine, and a theorem for each property of the run `boot`
(`BootTypes`, `FastbootComes`, `GuardHolds`, `SupplyAgrees`, `EngineExact`, `TablesMatch`, `ParamsFit`).
`BootFrames` reduces a step to one of three things that can happen to the host: nothing, a reset, which leads back to
`EmmcInit` (`FreshHost`), or a step of `EmmcNext`, for which each part of `HostInv` has a lemma. The
parts are what the properties lack to be inductive:

* `CountInv`: outside fastboot LK's variable is the value fastboot was left with plus the boots since, or, when
  that value was too large for an int, at least one less than those boots, so the threshold bounds the
  boots whatever value the operator stored and whatever the overflow made of it.
* `GuardInv`: an early trip in this boot has switched the guard off, and it is off only for that or after the
  wrap.
* `SupplyInv`: a host in use is up and its regulator is usable, so power calls before and after an oops change
  nothing.
* `CryptoInv`: between requests the engine is bypassed, and what the driver believes installed was installed by
  this machine's secure call. `SectorFact` is the arithmetic of both addressings.
* `ClaimInv`, `FastInv`: `emmc_autok()` holds the host exactly from claim to release, and nobody else then
  touches the timing, the voltage or the tables (`ClaimExcludes`).
* `TablesInv`: in the loop the tables below point `i` are full tunings at their voltages and `last` is the
  voltage of point `i - 1`, which is why copying the last table is right.
* `ParamsInv`: before `emmc_autok()` the parameters are those of the one table, tuned at the one voltage so far;
  after it they are the merged ones, or those of level 0 with the voltage locked there. It needs `TablesInv` at
  the merge.

Only model-checked is everything with fairness (`CommandEnds`, `LoopEnds`, `StallBites`, `ConfigLands`,
`RebootCompletes`): liveness is out of the prover's reach. `LoopEnds` excuses a loop that goes back
again and again, and `RebootCompletes` a hang in `pmic_pre_wdt_reset()`. The five findings are counterexamples
of TLC.

## 6. Assumptions about what is not in the repository

* A restart of the RGU reloads the counter from LENGTH; a disabled timer stands still.
* `wake_up_process` does not cut `usleep_range` short.
* Taking a CPU down needs every CPU to take part, so it does not complete with one stalled.
* Suspend and resume run alone on the last CPU; the SSPM's interrupt may come at any time.
* An LK that takes an abort resets.
* Which pages the TEE or the EMI-MPU protects is fixed while a command runs (`Protected`).
* `pmic_pre_wdt_reset()` changes no register of the RGU; it returns or hangs.
* An `int` that overflows is some `int`: LK neither traps nor assumes that it does not happen.
* `mtk_sd.c` calls `msdc_pre_crypto` before the data of a request and `msdc_post_crypto` after it, and powers
  the host or changes its speed with the host claimed.
* The voltage driver calls `emmc_autok()` first and changes the core voltage by itself only after it has
  returned, and the host does not suspend before (`autok_dvfs.c:887-893`): `StartAssumption`, the guard of
  `ScaleVcore`.
* A reset leaves the AES engine bypassed and the regulator framework without a user.
* LK's environment keeps a value over a reset, or never stores one.

## 7. Not modelled, and why

* **LK boot patches, single-edit patches, build glue**: one-shot edits of code that is not here.
* **Session scripts, lklog.py**: straight-line I/O; the two with a protocol are modelled.
* **timer_test.c, wdt_test.c**: manual stress triggers that keep no protocol state.
* **Of the kicker**: the RTC print, the debug sleep, AEE dumps, the mrdump key and the PM
  notifier, which only log or store time stamps. Parsing of `/proc/wdk` (its static
  buffer is shared by all writers) is abstracted to a record of numbers.
* **Of the RGU driver**: the keys of register writes, STATUS beyond "the last reset was a debug reset" and
  its copy in NONRST_REG, the boot-stage mark, the ring of kick information, and the dumps: all of
  it is stored for a post-mortem and read by nothing here. The reset through the PMIC and the one through
  SWRST are one instruction. LENGTH holds who set it, not how long: the overflow of version 1's timeout field
  (it shifts without version 2's cap) is therefore not visible.
* **Of the eMMC host**: SD and SDIO (refused by `msdc_of_parse`) and with them the voltage switch, hardware DVFS and
  the results file of `autok_dvfs.c`; the search for a window (`autok.c`, not in the repository); pin pulls, register
  tables, dumps; the parts for FPGA and HQA builds and the encryption for the command queue, which are not built.

## 8. Plan

1. **Larger instances** of `wd_kicker` with `/proc/wdk` and hotplug together; two requests at a time, with a
   `ConfigLands` that says what then still holds.
2. **Proofs.** `ModeFollowsEnable` without a hypothesis needs a statement of what is promised when a
   configuration and `mtk_wdt_enable` meet; the code promises nothing there.
