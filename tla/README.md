# A TLA+ model of the Apple silicon UEFI platform

This directory specifies the parts of the firmware in which order, state and
concurrency matter: TLA+ modules translated from the C sources, TLC
configurations that check them on small instances, and theorems checked by
TLAPS.  `PROJECT.json` maps every definition to the lines it models and lists
the runs, mutants, findings, hazards and theorems.

    tlc -workers 2 -config Aic.cfg AppleAic.tla      # one run
    tlapm AppleAic_proofs.tla                        # the proofs of one module

## 1. Inventory

The repository is a Project Mu platform: the UEFI core (events, task priority
levels, the protocol database, exception entry) comes from submodules and is
modelled only as the code here uses it.

| Component | State | Operations | What is hard | Correct means |
|---|---|---|---|---|
| AICv2 driver (`AppleAicDxe`) | controller masks, handler table, hooked vectors, `AicInfoStruct` | init, register/unregister, mask/unmask, EOI, the IRQ/FIQ handler, ExitBootServices | a register read with a side effect, nested handlers, FIQ sources that share an exception, the hand-off | a taken line is served once and unmasked after; what is handed over is masked and off |
| Register arithmetic (`AppleAicLib`) | none | offsets, mask words and bits | 32-bit and 64-bit shifts, die strides | a write stays in its block |
| Timer and serial libraries | `CNTP_CTL`, PSTATE.I | enable/disable, `SerialPortWrite` | a print enables IRQs in whatever context it is made | as for the AIC |
| Windows auto-boot (`WindowsAutoBootDxe`) | `mWindowsStarted`, two events, a registration | file-system notification, ReadyToBoot, launch | two handlers over a changing protocol database, failing launches | no volume is overlooked, none tried for ever |
| Pre-boot checks (`MsPreBootChecks`) | readings, retry count | power check and mitigation, thermal check, wait, shutdown | flags left from an earlier turn, a signed count | boots on fresh readings only |
| Boot manager (`DeviceBootManagerLib`) | boot variables and their locks, `mPreReadyToBootEvent` | before and after the console, priority boot, a boot's completion, unable to boot | order of callbacks, requests that cross a reset or are lost in it, each service may fail | a locked sequence stays; the front page finds its settings unlocked |
| Boot policy (`MsBootPolicyLib`) | button requests, the LoadImage hook | boot sequence, request tests, device-path filter | read-act-clear requests, a hooked service | a press counts once; excluded devices never boot |
| Boot options (`MsBootOptionsLib`) | Boot#### variables | register default and firmware-volume options, build load options | idempotence over reboots and updates | the shell's option is there once |
| Boot launch application (`BootLaunchApp`) | saved service pointers, trace guard | hook/unhook, load and start an image | hooks between which notifications call services, nested instances, wrappers that print through wrapped services | every call reaches the firmware, through the wrappers that are installed |
| PrePi, memory initialisation, RAM disk helper | HOBs, virtual memory table, the reserved window | `EarlySetup`, `MemoryPeim` of three chip families, registration of a preloaded image | a list cut up while it is walked, rows that override each other, 32-bit lengths | every page described once; the frame buffer uncached; a RAM disk in reserved memory |
| DART driver | base addresses, streams, table registers | lookup, clear, flush, bypass | ignored errors, an unbounded poll, ports to be left alone | a stream never translates through cleared tables |
| USB Type-C bring-up | port reset and mode state | per-port bring-up on the end-of-DXE event | ordered resets, missing nodes, a second list of ports to leave alone | what is published works; m1n1's port is untouched |
| GPIO controller, PCI platform | pin registers, port registers | pin modes; clocks, PERST#, training per port | time-outs, answers that come late, pins that are not found | a port leaves reset only with its clocks |
| Embedded firmware helper | the controller's code memory, the driver binding | firmware upload from `Supported` | index arithmetic, a mailbox, sharing the device with XhciDxe | the blob arrives whole; the helper steps aside |
| ACPI platform driver | the section counter, a pool buffer, the GCD map | the ECAM range, four files of tables | four copies of one loop, each call may fail, the first failure ends it | every section installed once; the device's own FADT first |
| Progress codes, frame buffer, RTC, SMBIOS, host bridge | small | one protocol or table each | bounds, fallbacks | |
| Device-tree library | none (a flat tree) | lookup, properties, addresses | offsets into a buffer | |

How they interact: the AIC driver hooks the CPU protocol's IRQ and FIQ vectors;
the timer driver and device drivers register handlers in its table and are
called from its handler; every driver prints through the serial library, which
changes PSTATE.I.  PrePi's memory hand-off blocks are what DXE allocates from.
The a priori file fixes the order of the hardware drivers: DART, GPIO, PCIe,
Type-C; the PCIe driver drives PERST# through the GPIO driver's protocol, and
the Type-C driver's controllers need the DARTs that the first one bypassed.
The firmware helper is asked about each PCI device before XhciDxe, whenever BDS
connects.  The boot manager connects controllers and signals
ReadyToBoot; the protocol database notifies the auto-boot driver, which runs
the loader inside its own event handler.  Every image is loaded through the
policy's filter in the Boot Services table, which the launch application may
wrap.  ExitBootServices signals the AIC's event (TPL_NOTIFY) before the other
drivers' (TPL_CALLBACK), which run with the controller off, and hands the CPU to
the operating system.

## 2. Modules

### AicRegs, AicRegsCheck

`AicRegs` is the driver's arithmetic as pure operators: the block offsets of
`AppleAicV2CalculateRegisterOffsets` (for AICv2), the word `AIC_MASK_REG` and the set of
bits `AIC_MASK_BIT` of a write, and the timers' exemption.
`MaskTargets(source, maxIrqs)` is the set of IRQs that one mask or unmask
really covers; because the macro cuts the bit instead of the bit number, it is
empty for most IRQs and one IRQ for numbers that are 0 to 4 modulo 64.
`AicRegsCheck` walks a source through all values on controllers of several
sizes.  The proof about it is at the end of `AppleAic_proofs`.

### AppleAic, AppleAic_proofs

One boot core.  `main` is what the main context is in the middle of (a
register call between its table write and its mask write, the loop of the
ExitBootServices event), `frame[1..depth]` are the interrupt activations, each with a
program counter `step`; one register access or call is one step, so that an IRQ
can be taken between any two as the code allows.  Correspondence:

| Source | Actions |
|---|---|
| `InterruptDxeInitialize`, `AppleAicV2DxeInit`, `InstallAndRegisterInterruptService` | `AppleAicV2DxeInit` (atomic: no vector is hooked yet) |
| `CpuArchProtocolNotify` | `CpuArchProtocolNotify` |
| `RegisterInterruptSource` | `RegisterHandler`, `UnregisterHandler`, then `AppleAicV2UnmaskInterrupt` / `AppleAicV2MaskInterrupt` |
| `AppleAicV2InterruptHandler`, entry | `AckEvent` |
| ... IRQ branch | `DeviceHandler` or `UnassignedIrq`, then `AppleAicV2EndOfInterrupt` |
| ... FIQ branch | `FiqIpi`, `FiqIpiAck`, `FiqTimer`, `TimerEndOfInterrupt`, `TimerRearm`, `FiqPmc`, `FiqPmcAck` |
| `AppleAicV2ExitBootServicesEvent` | `ExitBootServicesAck`, `ExitBootServicesMask`, `ExitBootServicesDisable`; the firmware's end of boot services is `HandOver` |
| `SerialPortWrite` | `SerialPortWrite` in the main context, `AfterDebug` in a handler |

The driver's own event leaves the phase at "off"; handlers of other drivers'
events may still take FIQs, print and unregister until `HandOver`.  When the
event cannot be created the driver reports a failure but its protocols and
the notification for the CPU protocol stay, so the phase may be "failed" or
"installed" with `exitEvent` FALSE, and such a machine is handed over as it is.
An event's type and die fields may be nonzero (`TypedEvents`): the handler uses
the whole value as an index, so what it finds behind the table is nothing or a
wild pointer ("dead"), and the write that ends the interrupt goes elsewhere.
`FiqPmcAck` writes the core counter's register back with the tested bit set, so
that its FIQ may or may not go away.  `dropped` is history: the lines that a
FIQ's handler has taken, which nothing unmasks.

External: the controller (`Pending`, the read of the event register taking and
masking a line), exception entry and return, devices, the timer driver's
`SetTimerPeriod`.  Assumptions: an event reads as 0 when there is none; a
device's handler clears its source and ends the interrupt; no device line has a
timer's number; the lines are implemented ones of die 0.  `DebugBuild` selects
whether `DEBUG` prints and `ASSERT` stops the machine.

### WindowsAutoBoot, WindowsAutoBoot_proofs

The driver's two handlers as one program counter, since both run at
TPL_CALLBACK and cannot preempt each other: `FileSystemNotify` or
`ReadyToBoot` starts one, `NextHandle` takes a handle from the registration
(`unseen`) or from the handle buffer (`todo`), `TryStartWindowsFromHandle`,
`LoadLoader` and `LoaderReturns` are the launch.  The boot manager and a
running loader connect and disconnect file systems (`Connect`, `Disconnect`,
`AttachDisk`).  `unseen` is the part of the database's list behind the
registration's position; the order of the list is left out, any handle may
come next.  `WithLoader` abstracts `HasWindowsFallbackLoader`, `Internal` the
media tests: both are properties of the volume and do not change (an
unreadable volume is one without a loader).  When only the ReadyToBoot event cannot
be created the file-system notification stays registered.  `owed`, `installs`, `attempts` and
`succeeded` are history variables.

### PreBootChecks, PreBootChecks_proofs

`MsPreBootChecks` as a loop with a program counter; its actions have the names
of the calls (`SystemPowerCheck`, `SystemPowerMitigate`, `SystemThermalCheck`),
`WaitForCooling` is the wait on the timer event, `LoopTest` the condition of the
`do`-`while` with its decrement, `CleanUp` the `Cleanup` label, `Shutdown` the two
shutdown routines.  A reading is good, bad or an error, and an error counts as
good.  (On these platforms the power and thermal libraries are Null ones,
FrontpageDsc.inc:91-97; the loop is what the library promises any board.)  `power`
and `thermal` (the latest readings), `since` (what was done after
the latest power check) and `rounds` are history.

### BootManager, BootManager_proofs

The callbacks of `DeviceBootManagerLib`, with the parts of the policy and
options libraries they call, over any number of resets.

| Source | Actions and operators |
|---|---|
| `DeviceBootManagerConstructor` | `DeviceBootManagerConstructor` |
| `DeviceBootManagerBeforeConsole`, `MsBootOptionsLibRegisterDefaultBootOptions` | `DeviceBootManagerBeforeConsole` with the operator of that name, `CreateFvBootOption`, `AddShell` |
| `DeviceBootManagerAfterConsole` | `DeviceBootManagerAfterConsole` (the checks' decision only) |
| `PreReadyToBoot`, `BdsBootLockBootVariables` | operators of these names, inside `Start` |
| `DeviceBootManagerPriorityBoot`, `MsBootPolicyLib*` requests | `DeviceBootManagerPriorityBoot`, `NoButtonService` |
| `DeviceBootManagerProcessBootCompletion`, `RebootToFrontPage` | `DeviceBootManagerProcessBootCompletion` |
| `DeviceBootManagerUnableToBoot` | `DeviceBootManagerUnableToBoot` |

External, as the library relies on it: BdsDxe copies and deletes BootNext and
OsIndications when it starts (`BdsEntry`), starts the front page asked for by
OsIndications before the priority boot (`BootFwUi`), then the option of BootNext
and those of BootOrder (`ListBootOptions`, `BootOption`, `GiveUp`); it signals
ReadyToBoot before each program but the front page and hands each program's
return to `DeviceBootManagerProcessBootCompletion`.  Programs may write what is not locked,
reset, return or start an operating system; power may be lost at any step
(`PowerCycle`), which also stands for a firmware update.

Abstractions: BootOrder is a set (which option comes next is free), an option's
content is none, the shell or something else; the boot policy application's options are one
`"app"`.  `Reset` keeps or loses the variables, as `VariablesKept` allows: on these
platforms they are emulated in memory and lost (AppleSiliconPkg.dsc.inc:86-89,
MacBookAirMid2020.dsc:105-109), but the library is written for both.  `MayFail`
names the services that may fail, clearing the buttons among them; one that may
fails at any call.  `Builds` says whether the `ASSERT` on a load option that could not
be created stops the machine (stage "dead").  Left out: the
TPM prompt, `PostReadyToBoot`'s report, the on-screen keyboard, and the
reason recorded for a reboot.  `sealed`, `optionsFailed`, `clearFailed` and `presses`
are history.

### MemoryMap, EarlyMemory, EarlyMemoryCheck, EarlyMemory_proofs

`MemoryMap` is regions in pages and what the code does with them as operators:
`ReserveMemoryRegion` and `SplitFirmware` on the list of resource descriptors
(one operator for the two copies of it, which are the same), and the device rows of each family's virtual memory table.
`EarlyMemory` runs one processor through `Steps`: `EarlySetup`, the pieces of
`MemoryPeim` in the order of the machine's family (`T810XSteps`, `T600XSteps`,
`T602XSteps`), and, in DXE, `BootRamdiskHelperDxeInitialize`.  A machine (`hw`)
is what the boot loader and the build hand over: memory, firmware device, frame
buffer (perhaps not page-aligned), the carveout of each processor or why there is
none, the RAM disk window and the size in its header, the low window.  "hung" is
an assertion (those of PrePi among them), a dead loop or a null pointer; one family's
read past the end of a short property may find any carveout.  `asked` records what was to be
reserved.  Carveout lengths and the RAM disk's capacity are cut to 32 bits as
in the code.  `MachinesAssumption` gives the machines' types and one fact of the
memory map: the low window does not meet memory.

### ServiceChain, ServiceHooks, ServiceHooksCheck, ServiceHooks_proofs

| Source | Actions |
|---|---|
| `MsBootPolicyLibConstructor`, `LocalLoadImage` | same names |
| BootLaunchApp: arguments, path, `LoadImage` | `StartApp`, `LoadProgram`, `ProgramLoaded` |
| `InstallHooks` (`HOOK`, `FixCrc`), `StartImage` | `HookSave`, `HookReplace`, `FixCrcAndStart` |
| `StartImage` returns, `RemoveHooks` (`UNHOOK`) | `ProgramReturns`, `Unhook`, `FixCrcAndLeave`, `Leave` |
| a wrapper and its `TRACE` | `TraceCall`, `TracePrint`, `TracePrinted`, `TraceReturn` |
| `TraceExit`, `TraceExitBootServices`, which print without the guard | `TraceExit`, `TraceExitCalls` |

`calls` is the stack of activations of services; `CallService` is a call by the
running image or by a notification, possible between any two pointer writes.
No pointer is written while a call is under way: a call runs to its end before
anything else does, and a notification that interrupts one returns first.  `StartApp` may start another instance from the
image that runs.  All the wrappers of one instance are one wrapper per
service, since they differ only in what they print; `Output` is a service
that printing calls, hooked or not, so that wrappers recur.  `ServiceChain` is
the abstract specification: over each service a stack of wrappers, which
changes only at its top.  `PointerChain` refines it (`ImplementsChain`): it is
the sequence of wrappers that the service's pointer, and then each wrapper's
saved pointer, lead through (`InFront`).  Not followed: an image that exits boot services, after
which the wrappers on the Runtime Services are still installed (section 5).

### DriverDispatch, AppleDart, UsbTypeC, PciePorts, XhciFirmware, Peripherals, PeripheralsCheck, Peripherals_proofs

`DriverDispatch` is the order of the drivers and the end of a debug build at
an `ASSERT`; each driver's module extends it; `Peripherals` composes the four
with the hardware that answers them.

| Source | Module | Actions |
|---|---|---|
| AppleDartIoMmuDxe | `AppleDart` | `DartVendor`, `DartLookup` (a node), `DartSelect` and, per DART, `DartClearTcrs`, `DartClearTtbrs`, `DartTlbFlush`, `DartBypassMode` |
| AppleUsbTypeCBringupDxe | `UsbTypeC` | `UsbInitialize`, `UsbSignal`, and, per controller, `UsbSelect`, `Dwc3Identify`, `Dwc3ControllerSoftReset` (four steps), `Dwc3XhciCoreInit`, `Dwc3AppleSetupCio`, `Dwc3SetMode`, `Dwc3SetFladj`, `RegisterDevice` |
| AppleEmbeddedGpioControllerDxe | `PciePorts` | `GpioInitialize`; `GpioSet`, `GpioGetMode` as operators |
| AppleSiliconPciPlatformDxe | `PciePorts` | `PcieBegin` to `PcieFinishPort` per port, `PcieReturn`; a poll is one action that finds the bit or gives up |
| AppleBootTimeEmbeddedFirmwareHelperDxe | `XhciFirmware` | `OfferDevice` to `XhciTakesOver`, one action for each exchange with the controller |

The hardware (`DartHardware`, `PcieHardware`, `AsmediaAccepts`) answers what was
asked of it at any time, also after a time-out, or never; a port may report itself
ready at any time, whatever its slot's reset.  `DrivePerst` is both calls that set a
PERST# pin: where the pin is no controller's, a debug build stops at the GPIO driver's
`ASSERT`, and a release build writes elsewhere and goes on, or faults.  A port without
a `function-perst` property is a null pointer (`Faults`).  The address register of the controller's code
memory has `AddressSpan` values and wraps; the size of the blob is not in the
repository (its header, XhciFirmwareBlob.h, is ignored by git), so `FirmwareWhole`
has the premise `BlobFits`.  A machine says which drivers the image packages, how many controllers, streams, pins and ports
there are, which nodes m1n1 has deleted, and the build.  Register fields are
kept when a property can tell them apart; the rest of each register sequence is
one step.

### AcpiTables, AcpiTablesCheck, AcpiTables_proofs

`AcpiPlatformEntryPoint`: `AddEcam`; for each of the four files
`LocateFvInstance` and the loop of `ReadSection` and `InstallTable`; `Dump`.
The two calls that map the ECAM range are logged and no more, so each may fail and
the driver goes on (`AddEcam`).  A file is a sequence of tables, a table its signature and
whether its section is as long as its header says; a debug build stops at the
`ASSERT` when it is not (`TableExceedsSection`).  The firmware volume protocol and
the ACPI table protocol are external: the first may run out of memory, the second also
denies a second FADT, and any error of it ends the driver (`GiveUp`).  Checksums
and the dump, which changes nothing, are left out.  What is installed from a file is a
set of positions among the installed tables, and `Rank` says which one of its set a
position is.  `AcpiTablesCheck` lists what each platform's image packages.

## 3. Runs

| Run | Instance | Shows |
|---|---|---|
| aic | lines 0 and 1, IPIs, 3 frames, events with and without a type, debug build | exclusive service, unregistered lines masked, what is handed over is masked |
| aic_fiq | one line, timer, both counters, 2 frames, debug build, fair | every FIQ but a storming one is served, and a registered line unless a FIQ's handler took it |
| aic_irq | one line, the timer, 2 frames, release build, fair | the second disagreement of section 5 |
| aic_regs | 32 to 1024 IRQs, two dies | writes stay in their block |
| autoboot | two internal volumes, one removable, two installations each, fair | the flag, no overlooked volume, bounded launches, handlers return |
| pre_boot | three retries, any readings, fair | fresh readings, a bounded loop, a decision |
| boot_manager | two option numbers, any boot sequence to start with; the event, the options' creation, addition and removal, a lock's placement, BootNext's deletion, OsIndications, the buttons and their clearing may fail; variables kept or lost at each reset; debug and release | the front page before ReadyToBoot, one program per press that could be cleared, the shell's option, the locked sequence |
| early_memory | 32352 states over three families; firmware, frame buffer and carveouts at the start, the end, inside and across each other; aligned or not; with and without the windows | no page lost or described twice; what is asked for is reserved; mapping of the frame buffer; the RAM disk lies in reserved memory; DXE is reached |
| service_hooks | two nested instances, three services (one that printing calls, LoadImage, and one whose wrapper prints unguarded), three devices with USB boot off, one call by a notification besides those of the instances | no call astray, the filter cannot be left out, bounded depth, calls return, refinement of `ServiceChain` |
| peripherals | laptops and a desktop of 2 to 4 controllers, each node missing in turn; two ports, with pins found or not; five blob sizes, one too long; debug and release | the safety properties of the drivers, no core out of reset before its PHYs, and that bring-up ends |
| acpi_tables | the images of five platforms (four are different), one with two volumes and one with a section cut short; debug and release | sections, pool buffers, whose FADT the OS finds |
| aic_clean_start | lines 1 and 5 | the first disagreement of section 5 |

Not every machine of the `peripherals` run is one an image is built for.  The
Type-C bring-up and the DART driver are packaged; the firmware helper is commented out
in every image (as in MacMini2020.fdf:177-178), and so is the PCI platform driver
in MacMini2020, MacStudio2022 and MacBookProEarly2023 (AcpiPlatform.c:585 says that
it is in none), while MacBookProLate2020.fdf:177 and DXEApriori.fdf.inc:24
include it.  The machines with ports and with the helper are configurations that the
sources allow.

Bounds.  Lines 0 and 1 are maskable and 0 is also what an empty event register
reads; 5, of `aic_clean_start`, is the first line whose mask bit is lost; two
frames are enough for every pair of activations, of which the properties speak, and the
third lets one come between them.  Two
installations of each volume let a volume be tried, removed by a loader,
reinstalled and tried again, before and after ReadyToBoot.  `IntMax` stands for
the largest INT32: the count starts at `Retries` and goes down to -1, so any
`IntMax` above `Retries` shows the same, and the theorems hold for every pair.
Two option numbers allow a shell and another option, a full BootOrder, and an
option of BootNext that is not in BootOrder; the number of boots is not bounded.
`MaxCalls` bounds the calls that notifications and running images make in a boot;
one is enough, since a call leaves behind only its result and the devices
loaded from, it can come between any two pointer writes, and the instances' own LoadImage
calls are not bounded by it.  `Chunk` is two words for 0x4000: the index
arithmetic depends only on its being a power of two, and the blobs end in the
first, the second and the third chunk.  `AddressSpan` is
eight for 0x10000, so that the longest blob does not fit.  BDS connects twice
(`MaxConnects`): after a success and after a failure of the upload.

`CHECK_DEADLOCK FALSE` is set where the system really stops: the operating
system has taken over, the driver's initialisation failed, an `ASSERT` holds the
machine, the pre-boot checks, a driver or the early set-up has ended, or all calls have been
made.

Fairness.  `AppleAic!Fairness`: a CPU runs a handler it has entered (strong,
per nesting level: a frame runs between two interrupts of the devices);
exceptions that stay pending are taken; the controller does not prefer other
lines for ever; the main context completes the calls it has begun and does not keep
IRQs masked for ever (it prints or lowers its priority).  `WindowsAutoBoot!FairSpec`: the core
dispatches queued events and handlers run on; a loader returns or takes over.
`PreBootChecks!FairSpec`: every call returns, since the services are synchronous
and the wait ends with its timer.
`EarlyMemory!FairSpec`: one processor runs straight through.
`ServiceHooks!FairSpec`: a call runs on until it returns; nothing is asked of images.  `Peripherals!FairSpec`: the drivers run on, and a DART ends
a flush it was told to start, without which the driver's poll has no end;
the other hardware may never answer.
Liveness of the auto-boot handlers holds for finitely many installations: a
loader that fails and reinstalls its file system each time would keep the
notification's loop going.

## 4. Proofs

All for every value of the constants, under the modules' named assumptions.

* `AppleAic_proofs`: `MaskStaysInBlockHolds`, about the register arithmetic, from
  the range of `irq \div 32` and the sums of block lengths, for any size that is
  a multiple of 32; `TypeCorrect`; `ExclusiveServiceHolds`, where the
  invariant adds that a frame holds a line only between its acknowledge and its
  end, and that distinct frames hold distinct lines because a held line is masked and
  only unmasked lines are taken (`MaskTargetsOnly`: an unmask covers at most
  the line it names); `UnregisteredStaysMaskedHolds`, where frames about to end
  an unassigned interrupt hold a line that has no handler or is being changed;
  `HandOffMaskedHolds`, where the lines the loop has passed stay masked because
  reads return unmasked lines, so a frame that interrupts the loop ends another
  line, and none is left when the next write is made (`WrittenStayMasked`).
* `WindowsAutoBoot_proofs`: `Invariant`, the conjunction of `TypeOK`,
  `Dormant`, `HandlerSteps`, `Flag` (a launch happens only before a success),
  `Announced` (what the registration has not returned is signalled or being
  read), `OwedAhead` (what is owed a try is still ahead of a handler) and
  `Budget` (launches plus those still possible never exceed installations plus
  one).  `NoneOverlooked` is not inductive: with a handler running, volumes
  are owed, and one must know where they wait.
* `PreBootChecks_proofs`: `Inv` adds to the types `Counting` (turns and the
  retry count sum to a constant inside the loop), `FlagsTrackReadings` (a flag
  is TRUE only after a reading that is not bad) and `CleanUpIsJustified`
  (what holds where the loop is left).  `BootsOnFreshReadings` needs it: a turn
  that mitigated or cooled always goes round again or shuts down.
* `BootManager_proofs`: `Inv` adds `EarlyUnlocked` (before the priority boot
  ReadyToBoot has not been signalled), `RunningAt` (which program can run
  at which stage), `PressCleared` (who has acted on a press has
  cleared it, unless that failed) and `SealIsTight` (a sealed sequence has all its locks, and no
  second notification).  `SequenceSealed` is an action property proved from
  it, and `ShellRegistered` is inductive with its help: one callback refreshes the
  default options, which finds a shell, adds one or has no number or memory left,
  and no program runs until the stage the property speaks of is over.
  The lemmas `ResetClears`, `RebootClears`, `LockSeals` and `StartKeeps` say
  once what every reset, lock and start does.
* `ServiceHooks_proofs`: `Inv`.  Its core is `ChainOk`: the instances under way
  are a stack, all but the innermost have hooked every service, so what stands
  before a service, and what each wrapper has saved, is the next wrapper of the
  stack, with the policy's filter under all of them.  `CallsOk` says that each
  activation's pointer may be called for its service and that a call that got past
  the filter is for an allowed device; it stays true when pointers change because
  they change only while no call is under way.  `GuardsOk` gives each
  guard one activation that prints.  From these `ServiceCallsLand`,
  `ServicePolicyEnforced` and `ServiceChecksums` for any number of instances,
  services and calls.
  `ServiceDepth` (the calls' depth is bounded) needs `DepthOk`: an activation at
  height `i` of the stack of instances is no deeper than the printing wrappers
  below it times the height of the whole stack, plus what it has come down from
  the top since the last of them.  A print starts at the top again, and counts
  one more guard.
  `PointersImplementChain` is the refinement.  `ChainIsStack` says that the chain
  read off the pointers is the instances that have hooked the service, innermost
  first, and then the filter; it rests on the chain being unique (two agree as far
  as both go, `InFrontAgree`, and neither ends where the other goes on,
  `InFrontEnds`).  Then `HookReplace` maps to a push, `Unhook` to a pop, the
  constructor to the first push, and every other step to a stutter
  (`OthersKeepChain`).
* `Peripherals_proofs`: one invariant per driver, proved separately; the lemmas
  `...Dispatch` say once that a driver moves only in its own phase and keeps the
  others' variables, and `PcieLater` that no port is touched before the pins' driver
  has ended.  `PcieInv`, for `PortsInOrder`, has what a port out of reset
  needs (`PortSafe`),
  what each step has established for the port at hand (`PortProgress`), and that later ports
  are untouched; hardware may answer at any step, so every conjunct is of the
  form that a late answer keeps.  `DartInv` has which base addresses are
  right (`DartLookups`), what the current DART has been through, and for every
  other what it must be like (`DartSafe`).  `UsbInv` adds the same for the cores,
  and needs `DartInv` for `PublishedControllersCanDma`: a controller the second
  driver publishes is one whose two DARTs the first did not skip.  `FwInv` is the
  firmware helper's: `HelperSafe` for `HelperIsOutOfTheWay` (the protocol is open
  only inside `Supported`), and `UploadSafe` for `FirmwareIsWhole`, the invariant
  of the upload loop: index and address are those of one turn (a pair of chunks
  and a place in it), and every turn for a smaller index has left its pair of
  words in place.  Turns are in the same order by index and by address
  (`TurnOrder`), so none overwrites another's words, for any length of the blob that
  fits the address register.
* `EarlyMemory_proofs`: `Inv`.  That blocks are disjoint is inductive
  (`ReserveKeeps`); that a region is reserved is not, since one must know that
  a block is there to hold it.  `CoveredBy` says so: what neither the firmware device
  meets nor an earlier request meets or cuts lies in one block of system
  memory, because a block is only ever cut at the edges of those.  `RamdiskInv`
  adds that the window was asked for, and `TableEnds` that the frame buffer's row
  is the last but one of the table.  `KeptInv`, for `NoPageIsLost` and
  `MemoryStaysWhole`, says that memory is described without a hole: a page is a
  region of length one that no cut divides, so it stays in one of the pieces.
* `AcpiTables_proofs`: `Inv` has `Reading` (while a file is read, `Instance` is the
  number of tables installed from it, and the sections at hand are those of the
  first volume that has the file), `Buffer` (the buffer holds the next section, and
  only while that is installed) and `Untouched` (nothing is installed from later
  files); a table appended gets the rank `Instance + 1` among its file's
  (`RankAtEnd`).  For `DeviceFadtPrevails` it adds `DeviceRead`: the device's sections
  that have been passed are in the list, so that its FADT is there, and the family's is
  denied, or the driver has given up.

TLC checked each invariant on the run's instance, `FwInv` over a bounded part of
the naturals and `KeptInv` at the edges of regions, as `MemoryKept`.

Every invariant and action property that a run checks is a theorem.  Only
model-checked are the liveness properties (`FiqServed`, `IrqServed`, `BdsResumes`,
`Decides`, `ReachesDxe`, `CallReturns`, `BringUpEnds`), which are
out of the prover's reach, as is ENABLED.  `CleanStart` and `RegisteredIrqServed` are
violated (section 5).  No
theorem rests on a recursive definition: what would be one (a chain of pointers,
the pages of a list of blocks, the tables of a file) is stated by sets and ranks.

Only proved: the types; `ServiceChecksums` (outside an instance's pointer writes
the checksum of a table is right); and `EveryPageDescribed`, which speaks of every page where
the run looks at those at which a hole would begin.

## 5. Disagreements with the code's own words

Two are runs of their own.  `CleanStart`: initialisation masks only a few of the
IRQs (`AIC_MASK_BIT`, AppleAicLib.h:103), against AppleAicV2Dxe.c:537.
`RegisteredIrqServed`: a FIQ's handler takes a registered device line and drops it
(AppleAicV2Dxe.c:247), against Readme.md:41 of the driver; `IrqServed` is what is left
of it, for the lines that the driver can unmask.

The others are visible in the actions and operators, or were met while
translating the code.  Paths are those of PROJECT.json.

* Interrupts.  HW_STATE is
  one block too far (215), against 187-188.  The MIDR test accepts other vendors
  (AppleAicLib.c:30), against line 28.  The uncore counter is tested in an else-if
  (329), against "every possible FIQ source must be checked" (251); the core
  counter's register is written back with the tested bit set (325-327), so its FIQ may
  come back for ever, and the uncore counter's waits for it to go, as `FiqServed` says.
  The handler indexes its table with the event's type and die in it (247-248).
* Boot manager.  With no retry left, a successful power mitigation is followed by
  a shutdown and not by another check (DeviceBootManagerLib.c:246), against
  201-203.  BootNext is locked also when it could not be deleted (338), against
  "a locked BootNext is a bad thing" (328).  `RebootToFrontPage` asks for the front page
  with a variable (886, 968-970) that does not survive the reset on these platforms.
* Early memory.  PrePi's entry goes on when EarlySetup failed.  An empty RAM disk window
  makes the capacity wrap (BootRamdiskHelperDxe.c:72), so that any size passes; it is
  outside `RamdiskReserved`'s premise.  A carveout's
  length is cut to 32 bits: one of 4 GB becomes empty, reserves nothing and still cuts
  the block it lies in, after which a window across the cut is not reserved and
  nothing says so.  `InitMmu` prints that the table was refused and goes
  on.  `ReserveMemoryRegion` says nothing when no block contains the region.
  One family hangs on a processor without a node where another, with a
  comment that says why (T810X, near line 313), passes over it.
* Launch application.  The path is always built on the first volume whose path leads
  back to it (BootLaunchApp.c:685-741); wrappers on the Runtime Services
  survive ExitBootServices, when their image's memory is gone.  The policy's filter lets
  images without a device path through.
* Drivers.  The T8110 flush writes its command to the wrong register and flushes
  nothing (AppleDartIoMmuDxe.c:311); `dt_node_reg`'s status is ignored (387);
  the GPIO driver writes the new field for the merged value
  (AppleEmbeddedGpioControllerDxe.c:76) and reads the number of pins into eight bits (245).
  A Type-C core that is no DWC3 is "aborting" (AppleUsbTypeCBringupDxe.c:130) but
  registered, with an error code for an init function (`RegisterDevice`).  A word
  time-out leaves the xHCI controller halted and handed to XhciDxe, and the second
  firmware check is not used.
* ACPI.  MCFG is published whether or not the ECAM range was added
  (AcpiPlatform.c:589-595), which the comment before it says Windows needs.  Several platforms package a FADT twice, the second of which is denied, so that the
  driver aborts before its dump; MacStudio2022 packages no SoC file.  A section
  that cannot be read for want of memory counts as the end of its file, after which
  "All tables are installed by now" (AcpiPlatform.c:954).

## 6. Not modelled, and the plan

Left out for good: device trees, ACPI source, build files and flash layouts
(data), the stubs of AICv1, NAND storage and USB function IO, the host bridge's
table, SMBIOS strings, the progress codes (a callback that prints).

External, as the code uses them: the UEFI core, BdsDxe, XhciDxe, the ACPI table
and firmware volume protocols, `ArmConfigureMmu`, the hardware.

Plan, in order:

1. A composition of `BootManager`, `PreBootChecks` and `WindowsAutoBoot`: a
   Windows start during the connection of controllers comes before the checks
   and the locks.
2. The rest of the boot manager and options libraries:
   `MsBootOptionsLibGetDefaultOptions`, the order of BootOrder, `PostReadyToBoot`.
3. `DeviceTree`, the virtual clock, the frame buffer: pure algorithms against
   reference definitions over bounded inputs.
4. More abstract specifications: what the auto-boot driver and the ACPI driver
   promise, without their program counters, and the refinements.
