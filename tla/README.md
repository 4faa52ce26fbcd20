# Verification of the RadeonHD kernel extension

RadeonHD is a Mac OS X framebuffer driver for AMD/ATI cards of the R500, R600
and R700 families: the X driver `radeonhd` (C, under `src/rhd`) behind an IOKit
interface (C++). This directory holds TLA+ models of its control logic, the TLC
runs that check them on small instances, and proofs, checked by TLAPS, for every
instance.

    tlc -workers 2 -config Nubs.cfg MCNubs.tla          # one run
    tlapm Nubs_proofs.tla                               # the proofs about Nubs

`PROJECT.json` lists the components, the runs, the definitions with the source
lines each one translates, the hazards, the theorems and the mutants.

## The system

| component | state | operations | modules |
|---|---|---|---|
| Message log and its client (`log/logMsg.c`, `log/RadeonDump*`) | `DumpMsg`: buffer, size, position, lock, client count; the statics `lastMsg`, `newMsg`, `lastMsgRepeat` | `logMsg`, `enableMsgBuffer`, `lockMsgBuffer`, `clientMemoryForType` | MsgLog |
| RadeonController (`RadeonController.cpp`) | options, memory maps, the BIOS image, the shared `xf86Screens[0]` | `start`, `free`, `createNubs` | MsgLog, Lifecycle |
| NDRVHD, the framebuffer nubs (`RadeonHD.cpp`) | per nub: mode, geometry, depth, `RHDReady`, last power state | `fromRegistryEntry`, `cscSwitchMode`, `cscSetPowerState`, `free` | Nubs, Monitor, Lifecycle |
| Mode setting core (`rhd_driver.c`) | `RHDRec`, `vtSema` | `RHDPreInit`, `RHDScreenInit`, `RHDSwitchMode`, DPMS, `rhdSave`, `rhdRestore`, `RHDFreeRec` | Display, Nubs, Outputs, Monitor, Lifecycle |
| CRTCs, memory controller, VGA (`rhd_crtc.c`, `rhd_mc.c`, `rhd_vga.c`) | registers; stored copies | power, set, idle wait, save, restore | Display |
| PLLs (`rhd_pll.c`) | power, dividers, CRTC ownership, DCCG source; stored copies | set, power, shutdown, save, restore | PLL |
| Outputs, encoders, BIOS scratch (`rhd_output.c`, `rhd_dig.c`, `rhd_biosscratch.c`, ...) | connector, CRTC, encoder, registers, private flags | mode, power, save, restore | Outputs, Encoders |
| I2C engines, DDC (`rhd_i2c.c`, `xf86/xf86DDC.c`) | engine, pins | transactions with retry, recovery | I2CEngine, EdidRead, DdcPins |
| Connectors, monitors, mode lists (`rhd_connector.c`, `rhd_monitor.c`, `rhd_edid.c`, `rhd_modes.c`) | attachment, lists of modes | sensing, building and copying lists | Outputs, Monitor |
| AtomBIOS interpreter (`AtomBios/*.c`) | parameter stack, work spaces, flags | run a command table | AtomExec |
| AtomBIOS interface (`rhd_atombios.c`) | image, table lists, scratch memory | init, teardown, queries | Lifecycle (ownership only) |
| Cursor, LUT, power management, card tables | registers and stored copies, tables | set, save, restore | - |

What is hard here, and hard to test on real cards:

* **Shared state behind separate drivers.** Two nubs have one card. Each keeps
  its own idea of the mode, but each call acts on both CRTCs.
* **Order of hardware steps.** The memory controller may be written only while
  nothing reads memory; a clock that hangs off a PLL must move before the PLL
  stops; an owner change only happens while the old PLL runs; data on the I2C
  bus may change only under a low clock.
* **Timeouts and retries.** A CRTC may not stop, a PLL may not lock, a monitor
  may not answer or may hold the clock. The code goes on, or tries again later
  with some registers already changed.
* **Sleep and wake.** Registers are lost, and what a wake restores, and in which
  order, is written out by hand in every component; with two nubs it runs twice.
* **Ownership.** One record is shared by a controller and two nubs, is filled by
  a function with a dozen ways to fail, and is freed by whoever goes first.
* **Nested calls on shared memory.** AtomBIOS tables call each other on one
  parameter space, offset by hand.
* **Threads.** The log is the one place where threads meet without the
  framebuffer family serialising them.

The hazards in `PROJECT.json` name the lines where these bite, and the
properties that would catch them.

## The modules

`MsgLog` - the message log. A thread's `logMsg` is four steps: `LogEnter` (the
copies of `DumpMsg` made before the lock), `Acquire`, and the two halves of the
critical section, `LogNew` and `LogAppend` (or the whole of it, `LogFiltered` and
`LogRepeat`), since others read `mMsgBufferPos` without the lock in between. When
there is no lock, `NewMsg` lets the static `newMsg` hold any text being formatted.
`NotStarted`, `StartFirst`, `StartMore`, `Free` and `FreeLock` are the part of
`RadeonController::start` and `free` about the log, with a start that fails before
or after it comes to the count; `DumpEnter` and `DumpCopy` are the user client.
Nothing retains a controller, so each may be freed under a call, and calls and
dumps are made when none is left (`NoController`). A copy from NULL or a write to
freed memory ends the machine; the model lets it change nothing and goes on, and
the ghosts `counted`, `miscount` and `stray` tell the properties whose buffer it
was. A thread asleep on a lock that is freed is `hung`. Taken as given:
controllers start one after the other.

`Display` - the registers of the card as one record, and each function of the
core as an operator on it: `ScreenInit`, `SwitchMode`, `DPMSOn`, `DPMSOff`,
`Save`, `Restore`, composed from the CRTC, MC, VGA and output operators in the
order of the calls. The hardware's answers (does a CRTC stop in time, what does
the idle bit read) are an argument. While memory is being read the idle bit may
read either way, which is what makes the order of the calls matter. A ghost
field `busy` records that the FB location was written under a reader.

`Nubs` - the NDRVHD drivers of one card over its `Display` (`card`, a variable
that is chosen in `Init` from `Cards` and does not change, says which CRTCs have
modes and nubs, what may time out and whether the BIOS posts VGA): attach, `CscSwitchMode` with
its rollback, the power states, sleep and wake, the loss of power, and a CRTC
that finishes its frame after a timeout. Taken as given: the framebuffer family
calls the drivers of one card one at a time, switches modes only while no nub
sleeps, and power goes only when all sleep. Dividers for a mode's clock are
taken to exist; `PLL` models the case where they do not.

`PLL` - the two pixel clock PLLs, with one operator per function of `rhd_pll.c`,
built from single register writes. `Settle` is what the hardware makes of each
write: a CRTC changes owner only while its PLL runs, and a DCCG clock on a
stopped PLL is remembered. `PLL2IsCurrent` and `Owner` keep the width of `Bool`,
a `char` here.

`I2CEngine`, `EdidRead` - reading an EDID block. `EdidRead` is what the caller
is promised: each request is answered, by the monitor's block or by none.
`I2CEngine` is the code: `DDCRead_DDC2` with its retries and checksum over the
`WriteRead` function of one of four engine families, a transaction a step, with
the poll that ends early, the reset, and the chunks with their offsets. Its
refinement of `EdidRead` is checked, and so is that every request is answered
(`AnswersEach`, under the fairness of `FairSpec`). The engine's `family` is a
variable chosen in `Init`; `StartsIdle` excepts RV620, which does not reset its
engine after a timeout.

`DdcPins` - `RadeonHDDoCommunication` of the same file, bit-banged down to the two
wired-and pins: a call goes over the active outputs (`Communicate`, `Send`,
`Reply`, `NextOutput`, `Return`; `Leave` and `NoReplyBuffer` end it) with a
transfer for each request and each reply. The driver does the pin operations of
`DDCSetStart`, `DDCSendBit`, `DDCReceiveBit` and `DDCSetStop` one after another:
`bit` is the bit, start or stop the stage is at, `op` its pin operation. The
monitor reacts to edges, may refuse a byte and may hold the clock for longer than
the driver waits. `late` records that the driver went on while the clock was held;
from then until the bus is next found free only `DataStable`, `RecoveryFrees` and
that the call returns are promised. Sizes are below `SizeLimit` and wrap there:
`BytesRead` is what a read of 0 bytes does, `AnswerLeft` the length taken from a
DDC/CI answer, which is 128 or 0 in the code. `GetStuck` is an output without a DDC
line, or on a line `hwGetSenseConfig` does not know: such a call never returns.

`AtomExec` - the interpreter: `EnterTable` and `EndOfTable` with the chain of
working tables, the parameter base that moves with each call and the work space,
and one action per kind of command (moves and arithmetic on any part of a word,
comparison, jumps, switch, call, and those that end with a failure). A word is
the set of its bits. A frame's field `at` is a ghost: it remembers where the
table's parameters begin. Images are taken to be well formed (`IsCommand`), no
table to have or reach more than `MaxPS` dwords of parameters, and the caller of
`rhdAtomExec` to pass memory for the deepest call; the code checks none of this.
A constant in the code is taken from its bit 0 on, whatever alignment the command
names for its source, and shifts count modulo the width of the register, as the
processor does.

`Outputs` - from connectors to running outputs on cards with DIG encoders. Once:
which outputs a layout finds attached, the encoder and the CRTC each gets. Then
the registers through mode switches, DPMS, sleep and wake: encoders, link
steering, and the scratch registers with the record they are saved in.

`Encoders` - one output block at a time, with the registers a picture depends on
and the flags its private record keeps: `Set`, `Power` and `Restore` are what
`Output->Mode`, `Power` and `Restore` point to for each of ten kinds of block,
`SetMode` and `OutputsPower` the loops of `rhd_output.c` and `rhd_driver.c` over
them. The BIOS leaves the block off, in reset, or showing a picture from either
CRTC over one link or two. `pll` is the transmitter's PLL, and of DDIA, which has none,
the PCIe lanes and PHY that `DDIAMode` powers up; `DDIARestore`, `DigRestore` and
`BlockRestore` say what each `Restore` leaves out. `cold` remembers that power went
and no mode set has redone since what the wake does not: the synchronisation of
TMDSA and LVDS, and DDIA's source and lanes. Unlike `Nubs`, a mode switch may come
between the wakes of the two nubs: the registers then are those of the old mode
under the flags of the new one.

`Monitor` - lists of modes as linked cells: what `RHDMonitorInit` builds for a
panel, a television or a monitor with EDID, the user's EDID (a block there is no
memory to interpret ends in `PrintNoEDID`), the synthesized modes of a scaled panel,
the copies the CRTCs get, with the mode they scale to, the numbers a nub gives
them, and the release of it all. Two monitors may share a CRTC.

`Lifecycle` - ownership: `RHDPreInit` step by step with what each step
allocates, `RHDFreeRec` after any failure and at the end, the retry by the
second nub, and the controller, which may be freed at any time. Testing
`kHardwareReady` and setting it are two steps (`TestReady`, `FirstNub`). A nub that
is up when its controller goes is an `orphan`. Blocks carry the number of their
attempt; `bad` collects those freed while not alive. Orders after which the code
works on freed or missing memory end in `panic` and are not followed: two
`RHDPreInit` at once, a nub that reads a CRTC not yet made, a controller freed
during `RHDPreInit`.

`..._proofs` modules hold the theorems about the module they are named after.

`MC...` modules choose the instances. Where two instances ask the same question
of the same code, one run has both: a variable `card`, `family` or `tables`
selects the instance in the initial state and does not change.

Operators marked `mutant` beside a definition are the same code with a plausible
bug. Each property was seen to fail when its mutant takes the definition's place,
which shows that the property does constrain the code; nothing else uses them.

## The runs

| run | properties | what it shows | instance |
|---|---|---|---|
| `log_threads` | `TypeOK Mutex Terminated OnlyRepeatOverwrites` | threads against a controller that comes and goes, with failing allocations | 2 threads, 1 controller, buffer of 4 |
| `log_text` | `NoGap DumpSafe LogSafe AppendOnly` | the text is what was logged; who has a counted controller has the buffer | 1 thread, 2 controllers that start, fail to, or are freed any time, buffer of 8 |
| `log_live` | `CallReturns` | no path keeps the lock; only `free()` takes it away | 2 threads, 1 controller |
| `nubs` | `SetupQuiet ShowsCurrentMode SurfaceMapped VgaOff CacheFresh LitOnlyByPower` | mode sets, power and sleep of two nubs; the MC maps what is scanned; a nub reports what is set | 3 cards: a scaled panel with CRTC and MC timeouts; no VGA post on wake, with 2 nubs, or 1 nub and 2 depths |
| `pll` | `TypeOK PllAsSet DccgRuns` | clocks survive failed sets, owner changes, sleep and two wakes | R500 and RV620; 2 good clocks and one without dividers |
| `i2c` | `ReadsBlock StartsIdle ImplementsEdidRead AnswersEach` | a block is handed out whole or not at all | 4 engines, refusals, timeouts, lost arbitration |
| `ddc` | `WrittenAsSent ReadAsDriven BusFree RecoveryFrees DataStable CallReturns` | both sides agree on every byte; the bus comes back; a call returns unless an output has no line | bytes of 4 bits, sizes below 3, 2 outputs, 5 recovery stops |
| `atom` | `Balanced CallersKept FieldsKept` | calls return what they took; commands change the part they name | images of 3 tables that call each other, and of one command of each kind on every part |
| `outputs` | `Routed ScratchTells InternalFirst` | pictures reach their connectors, AtomBIOS is told the truth | 4 cards, everything plugged, any BIOS state, 2 nubs |
| `encoders` | `Driven Dark Clocked` | what is lit is driven as its mode needs, the rest shows nothing, no link without a clock | every kind of block and connector, 5 clocks, any BIOS state, 2 nubs |
| `monitor` | `Offered OneList` | all sizes of a monitor are offered, and to a panel the well-known ones that fit; lists stay lists | layouts of up to 3 outputs, one with a shared CRTC; EDID blocks of every shape |
| `lifecycle` | `Owned` | one owner per block, nothing freed twice, leaks are the known ones | 2 nubs that come and go in any order, before or after the controller; every step may fail |

Bounds, and why they are enough.

* Log: `BufSize` is small enough for the messages to overrun the buffer, so
  every case of the guards at its end occurs. `MaxRepeat` caps the repeat count,
  of which only zero or not matters; `MaxClient` the controllers left uncounted
  while the count is high. Two threads let one be inside while the other and the
  controller act, two controllers let one be freed, counted or not, under a call
  made for the other; the theorems lift both to any number.
* Nubs, PLL: two modes, clocks and depths tell the new from the old; the card has
  two CRTCs and two PLLs. `bad` is a clock without dividers.
* I2CEngine: the block has 10 bytes and a chunk 4, so there is a first, a middle
  and a short last chunk; `Retries` is the code's.
* DdcPins: `Bits = 4` makes a byte have a first, two middle and a last bit;
  `Recoveries = 5` is one stop for each bit and one for the acknowledge a monitor
  can be left in, as the code's 9 stops are for 8 bits. That there are that many is
  the assumption `RecoveriesAssumption`; with one stop fewer `RecoveryFrees` fails.
  `SizeLimit = 3` gives a first and a last byte, none, and the wrapped count of a
  read of none; `HighBit = 2` makes the two lengths an answer can have differ;
  `MaxOutputs = 2` lets a transfer follow that of another output.
* AtomExec: `ByteBits = 2` makes a word 8 bits with every alignment present, and a
  byte with more than one bit to lose;
  `MaxDepth = 4` lets three tables call in a cycle until memory runs out;
  `MaxPS = 2` and `Params = 9` are what the tables of the images need.
* Outputs: the cards make each branch happen: a panel that comes last, two DVI-I
  connectors with a UNIPHY and a DAC each, three digital outputs for two
  encoders in the order that crosses the links, a TV on the DAC of another
  connector. `Unset` are two values an uninitialised device may have.
* Encoders: the clocks are below, at and just above the limit of a link, above
  that of two links (which only a panel, a DAC or the DIG transmitter takes), and
  too low for TMDS. Blocks share no register, so one output at a time is enough.
* Monitor: sizes S, M and L, with the native one below, at and above the biggest;
  two detailed sections meet every combination.

Deadlock is not checked where the system stops: an AtomBIOS call completes, a
layout without outputs or a `RHDScreenInit` that failed for both nubs leaves no
driver, and in `monitor` and `lifecycle` everything is freed in the end.

Fairness. `log_live`: weak fairness for the critical section, since a thread
inside runs on and takes no other lock, and strong fairness for `Acquire`, since
`IOLockLock` queues its waiters; who sleeps on the lock while `free()` frees it is
excepted. `i2c`: weak fairness for the next transaction of
a read that has begun: it is one thread in a loop. `ddc`: weak fairness for the
driver's next step (`Running`, which begins no new call), for the same reason, and
for the monitor's release of the clock, without which the bus never comes back; the
call returns even if the monitor is late at every bit, or is stuck at an output. Nothing makes a thread log, a request come or a
nub leave.


## What the code does

Met while modelling. Each model says what the code does, also where that looks
unintended; no property claims otherwise.

* Log. A line is written at the position copied before the lock
  (`logMsg.c:38`, used at `:79`), so it overwrites what other threads logged
  meanwhile; that is why `AppendOnly` is a property of one thread and
  `OnlyRepeatOverwrites` asks less. `strncmp` over the new length takes any prefix
  of the last message for a repeat (`:70`). The length `vsnprintf` returns may exceed
  256; `strncpy` then pads behind `lastMsg` (`:74`), into `newMsg`, which every call
  formats anew.
* The last `free()`. `mMsgBufferSize` is not reset with the buffer
  (`RadeonController.cpp:385-397`), so a dump made then copies from NULL
  (`RadeonDumpClient.cpp:34-48`); `RadeonDump` keeps no controller. The lock is
  freed while threads may wait for it. `DumpSafe` and `LogSafe` therefore speak of
  counted controllers only.
* Waking. `kHardwareWake` restores the MC without stopping the CRTCs, though
  the comment at `rhd_mc.c:653` asks for it (`rhd_driver.c:1624`); with two nubs
  the second one's wake meets running CRTCs. After a wake with VGA posted the MC
  is not idle and its restore is skipped (`rhd_mc.c:670`).
* `Bool` is a `char` (`xf86.h:24`). Register bit 16 is kept in one at
  `rhd_pll.c:352`, `:359`, `:510`, `:511`, `:1033`, `:1034`: the poke that lets a
  CRTC leave a stopped PLL always goes to PLL 1, and PLL 2 takes no CRTC back on
  wake. Bit 13 in a `char` (`:995`) means the anti-glitch reset is never put back.
  The RV620 restore does not look at `Stored` (`:1054`).
* I2C. `!` binds before the mask at `rhd_i2c.c:472`, so a denied arbitration goes
  on; `TransferI2C` returns TRUE when the address was refused (`:1764`).
  The RV620 engine is not reset after a timeout.
* DDC. An active output without a DDC line is looked at for ever: `continue`
  skips the step to the next one (`:1794`). On a line `hwGetSenseConfig` does not know
  (`:1447`) the clock reads 0 and the loop at `:1760` does not end. A read of 0
  bytes takes `size - 1` of an unsigned (`:1715`), and `data[1] & 0x7F + 1` (`:1737`)
  is `data[1] & 0x80`. `CallReturns` names the first two as `stuck`.
* Lifecycle. `free()` of a controller decrements a count that a failed `start`
  never raised (`RadeonController.cpp:384`), and `RadeonDumpReady` is tested and set
  in two calls (`:262`), as is `kHardwareReady` (`RadeonHD.cpp:169`, `:171`). The nubs
  attach to the PCI device (`RadeonController.cpp:214`) and keep no controller: with
  the controller freed first `xf86Screens[0]` is NULL, `NDRVHD::free` skips
  `RadeonHDFreeScrn` (`RadeonHD.cpp:267`), and the `RHDRec` with all it holds leaks. `RHDFreeRec` leaves the HPD and power management records
  and the I2C buses behind the first missing one. A second `RHDPreInit` after a
  failed one reads the BIOS of a posted card again (`rhd_atombios.c:2857`). The
  size kept for the BIOS image may differ from what was allocated
  (`RadeonController.cpp:311`, freed at `:408`).
* Encoders. TMDSB resets its PLL and starts the data synchronisation when the
  mode is set, before `TMDSBPower` enables the PLL (`rhd_lvtma.c:1136`). DDIA takes
  165 MHz itself for dual link, on a single link connector too (`rhd_ddia.c:90`;
  all others compare with `>`). `DDIARestore` (`:270-298`) leaves the source select,
  and the lanes and PHY that `DDIAMode` set up (`:110-111`, `:129-189`): after a loss
  of power DDIA transmits nothing until the next mode set. After a
  loss of power neither TMDSA, which is in a state it does not restart from, nor
  LVDS, until the next mode set, synchronises again. A panel whose CRTC has no
  mode is sequenced on without its PLL. `GetLVDSInfo` runs before the output has
  an encoder, and reads the registers of DIG 1, although LVTMA uses DIG 2.
* Monitors and lists. `isSameOutputType` looks at 5 of 26 names
  (`rhd_monitor.c:372`). The old head's `prev` is not set when lists are spliced.
  `rhd_modes.c:1749` refuses a size only if it is as wide and as high as the panel's, so a synthesized one may be taller or wider. The comments at
  `rhd_monitor.c:77`, `:174` and `:272` say that only the native resolution is listed.
  A panel that shares its CRTC is scaled to the first mode of the CRTC's list, which
  may be the other monitor's (`rhd_driver.c:1170-1173`). A user's EDID
  that there is no memory to interpret is printed through NULL (`rhd_monitor.c:435`, `:439`, `:156`).
* BIOS scratch. CRTC numbers are compared with device ids
  (`rhd_biosscratch.c:483`), and the saved record is used after it was freed by
  the restore (`:961`).
* AtomBIOS. A division by zero is not refused (`CD_Operations.c:580`), and a
  `switch` without an end marker does not end (`:662`).

## What is proved

`MsgLog_proofs` proves, for any threads, messages and buffer size and fewer than
256 controllers (`client` is a `UInt8`):

* `TypeCorrect`, `LogIsSafe`, `MutualExclusion`: from the inductive invariant
  `IInv`. `LogSafe` alone is not inductive: `Free` takes the buffer away as soon as
  the count says zero. `IInv` adds that the count is the number of counted
  controllers until one that start never counted is freed (`Counted`), that without a
  session there is neither lock nor counted controller (`SessionOK`), and that a
  call's controller is there and its copies are those of the session (`CallsOK`).
  `Free` then reaches zero only when no other counted controller, hence no call for
  one, is left. `Mutex` excepts a session that a call of the last one was carried into.
* `DumpIsSafe`: if the buffer's allocation does not fail, the user client has a
  buffer to copy for as long as a counted controller is left, whichever others come
  and go.
* `AlwaysTerminated`: the last byte is the terminator, even with writers racing
  for the same place; from `WrittenLemma` on what one `snprintf` leaves.
* `AloneLeavesNoGap`, `AloneAppends`: with a single thread the log has no hole
  and is append only. The strengthening is `Fresh`: the position copied before
  the lock is still the position. It is exactly what a second thread breaks.

`Nubs_proofs` proves the six properties of `Nubs` for every set of cards (which CRTCs
have modes and nubs, whether the BIOS posts VGA, what may time out), modes and depths
(`SetUpQuiet`, `LitShowsMode`, `ScansMapped`, `VgaStaysOff`, `CacheStaysFresh`,
`LitByPower`). None is inductive, since a wake writes back what a sleep saved: `IInv`
says of the registers, and of the saved copy while a nub sleeps, that they are set up
for the current modes (`SetUp`), that the MC is at the driver's location
(`McFollows`), that VGA is off (`VgaGone`), and what a loss of power leaves (`Lost`).
`Fresh` ties what each nub keeps to its CRTC; it needs one nub or one depth, which is
the exception `CacheFresh` makes. Each function of the core has a lemma on what it
makes of the registers, whatever times out.

`PLL_proofs` proves `PllAsSet` (`RunsAsSet`), `DccgRuns` (`NoHardlock`) and `TypeOK`
for both families and any sets of active CRTCs, clocks, dividers and PLLs that must keep
running. `IInv` adds that the DCCG's clock hangs off no PLL or off one that runs, was
never left on one that stopped, and on R500 is external (`Fine`), and that what was saved
of a PLL is what the driver set it to (`Stored`), which is what makes the second wake
restore the same as the first.

`I2CEngine_proofs` proves, for any block of up to 256 bytes (the offset is a `CARD8`), any
chunk size, number of retries and kind of fault: `ReadsBlock` (`HandsOutBlock`),
`StartsIdle` (`EnginesIdle`), and that the engines implement the safety part of
`EdidRead` (`Refinement`). `IInv` adds what holds in the middle of a read: the buffer
begins with the block's first `offset` bytes, unless an old transaction's end was taken
for a new one's (`SoFar`), and RV620's monitor pointer is at the offset (`AtOffset`).

`Lifecycle_proofs` proves `Owned` (`OwnedAlways`) for any number of nubs, hence of
attempts, with nubs and controller coming and going in any order that does not end
in `panic`. A block carries the number of its attempt; `IInv` says that what is alive is
what a pointer holds or what is known to leak (`Tidy`), that nothing hangs off a missing
record (`Hangs`), and, for each step of `RHDPreInit`, which pointers may be set
(`Made`). A new block is then new, and `RHDFreeRec` leaves nothing to free twice
from any step that can fail. When the controller has gone (`AtEnd`) nothing is left
but what leaks and, with orphans or an unknown chip, one `RHDRec` (`Lost`).

`AtomExec_proofs` proves, for any width of a byte, any set of well formed images and any
depth of calls: `Balanced` (`AlwaysBalanced`), `CallersKept` (`CallersAlwaysKept`) and
`FieldsKept` (`FieldsAlwaysKept`). `IInv` adds to `Balanced` that the n-th table's
parameters begin no further than n - 1 tables reach and never before those of a table
that waits (`Within`): so each access stays in the memory passed, and a `PutDataPS` of
the running table stays behind its callers'. For `FieldsKept` the commands are compared
bit by bit with `ByField`, what their names say: the part of a word for a parameter,
the low bits for a constant (lemma `ResultByField`).

`Encoders_proofs` proves, for any set of pixel clocks and any number of nubs, the three
properties of `Encoders`: `Dark` (`DarkHolds`), `Clocked` (`ClockedHolds`) and `Driven`
(`DrivenHolds`). None is inductive: a wake writes back what was saved, TMDSA is only
restarted in some states of its private record, and the private flag for a second
link is not saved with the registers. `IInv` adds that the saved registers are dark
(`DarkSaved`) and, where power on starts no PLL, that it runs in them (`ReadySaved`)
and in the block (`ReadyNow`), with TMDSA in a state that says so; after a loss of
power the state still says so and the registers do not, until the wake restores them.
`Driven` claims no synchronisation of TMDSB, nor of TMDSA and LVDS while `cold`, nor
DDIA's source and lanes then. `Wired` adds that the registers, and the saved ones, are what the mode set
for their clock wrote (`MarkedNow`), that the private flags are those of the current
mode (`WantedNow`), and that no more links were left enabled than a panel has
(`LinkedNow`: LVDS enables links and disables none). Where the clocks agree, so do
flag and registers. The argument goes through what each kind of block owes:
`PowerOK` and `SetOK`, `OnOK`, `ResetOK` and `ProgramOK` state it for `Output->Power`
and `Output->Mode`, one lemma per kind proves it, and the actions use nothing else of
the blocks.

`DdcPins_proofs` proves, for bytes of any length, calls over any number of outputs, transfers of any size (none
and the wrapped one too) and a monitor that refuses and stretches whatever it likes: `WrittenAsSent` (`WrittenHolds`),
`ReadAsDriven` (`ReadHolds`), `BusFree` (`BusLeftFree`), `RecoveryFrees`
(`RecoveryWorks`) and `DataStable` (`DataHoldsStable`). None is inductive: each speaks
of one moment of a byte. `IInv` speaks of all of them, in two halves. While the driver
was never late, `InStep` says before every pin operation which bit the monitor is at
and what it has taken or driven of the byte, so that both reach its end together. Once
the driver was late, all that is left is what a monitor can be doing at all, whatever
edges it saw (`MonitorOK`), and the driver's place in its routine (`PlaceOK`,
`ClockLow`, `CallOK`): enough for `DataStable`, since only a start or a stop moves the
data line with the clock high. `Freeing` counts for the recovery: each stop takes a
monitor that keeps the data line low on by one bit or by its acknowledge, so that more
stops than a byte has bits get the line back. One lemma says what an edge makes of the
monitor, then there is one for each pin operation and each stage.

The assumptions are those named in the modules; the runs evaluate them on each
instance. Only model-checked are

* liveness: `CallReturns` of `MsgLog` and of `DdcPins`, and `AnswersEach`, that is, the
  part of the refinement of `EdidRead` that says a request is answered: the prover has
  no rule for fairness;
* the properties of `Outputs`, which finds connectors and encoders by folding over
  lists, and of `Monitor`, whose lists are walked by recursion: what these compute for
  every length is a matter of induction over data, which is beyond the provers
  installed.

## Plan

Proofs next: `InternalFirst` and `Routed` of `Outputs`, by stating what the folds over
connectors return as an invariant of the layout found rather than of the fold
(`Routed` then needs that an encoder's owner is the only output that maps to it).

Then more of the code: `PLLCalculate` and `RHDAllocFb` as functions against a
reference definition, the cursor, the LUT and power management as further saved
and restored state of `Display`.

## Not modelled

* AtomBIOS data tables and the queries that read them, indirect IO, port access,
  data blocks and delays of the interpreter, and the save list of its interface.
* The transmitters that AtomBIOS drives (UNIPHY), the packets of HDMI, voltages,
  dithering, property controls and the backlight.
* Timings and refresh ranges of modes, the parsing of EDID blocks, the tables of
  cards, formats of messages, and values of registers beyond those named.
* Power management, cursor and LUT registers: they interact with nothing that is
  modelled.
* The `RadeonDump` tool, which only prints the buffer it is given.
* Code the kext does not build (acceleration, DRI, video, RandR, command
  submission, audio); `PROJECT.json` names the files.

Interrupts do not occur: the driver polls.
