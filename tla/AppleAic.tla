------------------------------ MODULE AppleAic ------------------------------
(***************************************************************************)
(* The AICv2 driver (AppleAicDxe) on the boot core: the controller's mask  *)
(* and pending lines, the table of handlers, the CPU's exception entry,    *)
(* and the driver's handler, which serves IRQs and FIQs and which can be   *)
(* interrupted again because printing enables IRQs (SerialPortWrite).      *)
(*                                                                         *)
(* The main context and the interrupt frames share one CPU: the top frame  *)
(* runs, the main context runs when there is none.  A register access or a *)
(* call is one step.                                                       *)
(***************************************************************************)
EXTENDS AicRegs, FiniteSets

CONSTANTS
    NumIrqs,        \* implemented IRQs: the length of the handler table
    MaxIrqs,        \* supported IRQs: the bound the entry points check
    Lines,          \* AIC lines that devices drive
    TimersUsed,     \* timer sources that TimerDxe registers
    MaxDepth,       \* bound on nested interrupt frames
    FiqSources,     \* core-local FIQ sources that may fire
    TypedEvents,    \* whether an event's type and die fields are nonzero
    DebugBuild      \* TRUE: DEBUG prints and ASSERT stops the machine

ASSUME AicAssumption ==
    /\ NumIrqs \in Nat /\ MaxIrqs \in Nat
    /\ NumIrqs <= MaxIrqs
    /\ Lines \subseteq (0 .. NumIrqs - 1) \ TimerSources
    /\ TimersUsed \subseteq TimerSources
    /\ MaxDepth \in Nat \ {0}
    /\ FiqSources \subseteq {"ipi", "phys", "virt", "pmc", "upmc"}
    /\ TypedEvents \subseteq BOOLEAN /\ TypedEvents # {}
    /\ DebugBuild \in BOOLEAN

\* What the event register reads when no unmasked line is asserted.
NoEvent == 0

Sources == Lines \cup TimersUsed
Events  == Lines \cup {NoEvent}

IrqSteps == {"ack", "handler", "unassigned", "eoi", "ret", "dead"}
FiqSteps == {"ack", "ipi", "ipiAck", "timer", "tick", "rearm",
             "pmc", "pmcAck", "upmcAck", "ret", "dead"}

\* A handler activation.  "ev" is the IRQ number of the event it read, "typed"
\* that the event's other fields were nonzero, "held" that it has taken a line
\* from the controller and not yet signalled its end, "savedI" the interrupted
\* context's PSTATE.I.
Frames == [kind : {"irq", "fiq"}, step : IrqSteps \cup FiqSteps,
           ev : Events, typed : BOOLEAN, held : BOOLEAN, savedI : BOOLEAN]

\* What the main context is in the middle of.
MainOps == [op : {"enable", "disable"}, src : Sources]
             \cup [op : {"mask"}, todo : SUBSET Lines]
             \cup [op : {"idle", "off"}]
Idle == [op |-> "idle"]

VARIABLES
    phase,          \* "reset", "failed", "installed"; then "exiting" in the
                    \* driver's ExitBootServices event, "off" after it, "exited"
    exitEvent,      \* that event was created
    vectors,        \* CPU exceptions hooked to AppleAicV2InterruptHandler
    aicEnabled,     \* AIC_V2_CONFIG.ENABLE
    hwMask,         \* lines masked in the controller
    level,          \* lines their device asserts
    dropped,        \* history: lines that a FIQ's handler took and left masked
    handlers,       \* sources with a non-NULL AicRegisteredInterruptHandlers
    asserted,       \* FIQ sources whose condition holds
    physEnabled,    \* CNTP_CTL.ENABLE
    iMasked,        \* PSTATE.I of the running context
    main,           \* the main context's unfinished call
    depth,          \* number of interrupt frames
    frame           \* the frames, frame[depth] running

hwVars  == <<aicEnabled, hwMask, level, dropped, asserted, physEnabled>>
drvVars == <<phase, exitEvent, vectors, handlers, main>>
cpuVars == <<iMasked, depth, frame>>
vars    == <<hwVars, drvVars, cpuVars>>

----------------------------------------------------------------------------
(* Hardware the code relies on.                                            *)

Pending == IF aicEnabled THEN level \ hwMask ELSE {}

\* The FIQ sources the core sees: the physical timer only when enabled.
FiqPending == {s \in asserted : s = "phys" => physEnabled}

\* Mutants: a mask written to another block; an unmask of the whole word.
MaskingNothing(source) == hwMask
UnmaskingWord(source)  == {l \in hwMask : l \div 32 # source \div 32}

Masking(source)   == hwMask \cup (MaskTargets(source, MaxIrqs) \cap Lines)
Unmasking(source) == hwMask \ MaskTargets(source, MaxIrqs)

\* A DEBUG message ends in SerialPortWrite, which finishes by enabling IRQs
\* whatever PSTATE.I was when it was entered.
AfterDebug(i) == IF DebugBuild THEN FALSE ELSE i

Blank == [kind |-> "irq", step |-> "ret", ev |-> NoEvent, typed |-> FALSE,
          held |-> FALSE, savedI |-> FALSE]

InMain == depth = 0
Top    == frame[depth]
Running(kind, step) == depth > 0 /\ Top.kind = kind /\ Top.step = step

Goto(step)    == frame' = [frame EXCEPT ![depth].step = step]

----------------------------------------------------------------------------
Init ==
    /\ phase = "reset" /\ exitEvent = FALSE /\ vectors = {}
    /\ aicEnabled \in BOOLEAN
    /\ hwMask \in SUBSET Lines
    /\ level \in SUBSET Lines /\ dropped = {}
    /\ handlers = {}
    /\ asserted \in SUBSET (FiqSources \ {"phys"})
    /\ physEnabled = FALSE
    /\ iMasked = TRUE
    /\ main = Idle
    /\ depth = 0
    /\ frame = [d \in 1 .. MaxDepth |-> Blank]

\* InterruptDxeInitialize and AppleAicV2DxeInit: enable the controller, mask
\* every implemented IRQ, allocate an empty handler table, install the
\* protocols, create the ExitBootServices event.  No exception vector points
\* here yet, so nothing interleaves.  When only the last step fails the
\* protocols and the notification for the CPU protocol stay.
AppleAicV2DxeInit ==
    /\ phase = "reset"
    /\ aicEnabled' = TRUE
    /\ hwMask' = hwMask \cup
                   UNION {MaskTargets(s, MaxIrqs) \cap Lines : s \in 0 .. NumIrqs - 1}
    /\ phase' \in {"installed", "failed"}
    /\ exitEvent' \in {FALSE, phase' = "installed"}
    /\ handlers' = {}
    /\ UNCHANGED <<vectors, level, dropped, asserted, physEnabled, main, cpuVars>>

\* CpuArchProtocolNotify: both vectors are re-hooked.  The result for IRQ is
\* overwritten by the one for FIQ.
CpuArchProtocolNotify ==
    /\ phase = "installed" /\ vectors = {} /\ InMain /\ main = Idle
    /\ \E fiqRemoved, irqHooked, fiqHooked \in BOOLEAN :
         vectors' = IF fiqRemoved
                      THEN (IF irqHooked THEN {"irq"} ELSE {})
                             \cup (IF fiqHooked THEN {"fiq"} ELSE {})
                      ELSE {}
    /\ UNCHANGED <<phase, exitEvent, handlers, main, hwVars, cpuVars>>

\* RegisterInterruptSource with a handler: the table first, then the line.
\* No driver registers one in its own ExitBootServices event.
RegisterHandler(s) ==
    /\ phase = "installed" /\ InMain /\ main = Idle
    /\ s < MaxIrqs /\ s \notin handlers
    /\ handlers' = handlers \cup {s}
    /\ main' = [op |-> "enable", src |-> s]
    /\ UNCHANGED <<phase, exitEvent, vectors, hwVars, cpuVars>>

\* RegisterInterruptSource with NULL.
UnregisterHandler(s) ==
    /\ phase \in {"installed", "off"} /\ InMain /\ main = Idle
    /\ s < MaxIrqs /\ s \in handlers
    /\ handlers' = handlers \ {s}
    /\ main' = [op |-> "disable", src |-> s]
    /\ UNCHANGED <<phase, exitEvent, vectors, hwVars, cpuVars>>

\* AppleAicV2UnmaskInterrupt, from RegisterInterruptSource.
AppleAicV2UnmaskInterrupt ==
    /\ InMain /\ main.op = "enable"
    /\ hwMask' = Unmasking(main.src)
    /\ dropped' = dropped \ MaskTargets(main.src, MaxIrqs)
    /\ main' = Idle
    /\ UNCHANGED <<phase, exitEvent, vectors, handlers, aicEnabled, level,
                   asserted, physEnabled, cpuVars>>

\* AppleAicV2MaskInterrupt, from RegisterInterruptSource.
AppleAicV2MaskInterrupt ==
    /\ InMain /\ main.op = "disable"
    /\ hwMask' = Masking(main.src)
    /\ main' = Idle
    /\ UNCHANGED <<phase, exitEvent, vectors, handlers, aicEnabled, level,
                   dropped, asserted, physEnabled, cpuVars>>

\* Reading the event register takes one pending line, if any, and masks it.
ReadEvent(ev, taken) ==
    \/ /\ Pending = {} /\ ev = NoEvent /\ taken = FALSE
       /\ UNCHANGED hwMask
    \/ /\ ev \in Pending /\ taken = TRUE
       /\ hwMask' = hwMask \cup {ev}

\* AppleAicV2ExitBootServicesEvent: one acknowledge, ...
ExitBootServicesAck ==
    /\ phase = "installed" /\ exitEvent /\ InMain /\ main = Idle
    /\ \E ev \in Events, taken \in BOOLEAN : ReadEvent(ev, taken)
    /\ phase' = "exiting"
    /\ main' = [op |-> "mask", todo |-> Lines]
    /\ UNCHANGED <<exitEvent, vectors, handlers, aicEnabled, level, dropped,
                   asserted, physEnabled, cpuVars>>

\* Mutant: the loop writes MASK_CLR, the block next to MASK_SET.
ExitBootServicesUnmask ==
    /\ InMain /\ main.op = "mask"
    /\ IF main.todo = {}
         THEN main' = [op |-> "off"] /\ UNCHANGED hwMask
         ELSE \E l \in main.todo :
                /\ \A k \in main.todo : l <= k
                /\ hwMask' = Unmasking(l)
                /\ main' = [op |-> "mask", todo |-> main.todo \ {l}]
    /\ UNCHANGED <<phase, exitEvent, vectors, handlers, aicEnabled, level,
                   dropped, asserted, physEnabled, cpuVars>>

\* ... the mask of every IRQ in ascending order, ...
ExitBootServicesMask ==
    /\ InMain /\ main.op = "mask"
    /\ IF main.todo = {}
         THEN main' = [op |-> "off"] /\ UNCHANGED hwMask
         ELSE \E l \in main.todo :
                /\ \A k \in main.todo : l <= k
                /\ hwMask' = Masking(l)
                /\ main' = [op |-> "mask", todo |-> main.todo \ {l}]
    /\ UNCHANGED <<phase, exitEvent, vectors, handlers, aicEnabled, level,
                   dropped, asserted, physEnabled, cpuVars>>

\* ... and the controller off.  The events of TPL_CALLBACK follow.
ExitBootServicesDisable ==
    /\ InMain /\ main.op = "off"
    /\ aicEnabled' = FALSE
    /\ phase' = "off"
    /\ main' = Idle
    /\ UNCHANGED <<exitEvent, vectors, handlers, hwMask, level, dropped,
                   asserted, physEnabled, cpuVars>>

\* The firmware's core disables interrupts and returns to the loader: with no
\* event of this driver's, without any of the above.
HandOver ==
    /\ phase = "off" \/ (phase = "installed" /\ ~exitEvent)
    /\ InMain /\ main = Idle
    /\ phase' = "exited"
    /\ iMasked' = TRUE
    /\ UNCHANGED <<exitEvent, vectors, handlers, main, hwVars, depth, frame>>

----------------------------------------------------------------------------
(* Exception entry and return.                                             *)

Push(kind) ==
    /\ depth < MaxDepth
    /\ depth' = depth + 1
    /\ frame' = [frame EXCEPT ![depth + 1] =
                   [Blank EXCEPT !.kind = kind, !.step = "ack", !.savedI = iMasked]]
    /\ iMasked' = TRUE
    /\ UNCHANGED <<hwVars, drvVars>>

\* An IRQ also interrupts a frame that runs with IRQs enabled.
TakeIrq ==
    /\ "irq" \in vectors /\ phase # "exited"
    /\ ~iMasked /\ Pending # {}
    /\ Push("irq")

\* Exception entry masks FIQs, and nothing unmasks them before the return.
TakeFiq ==
    /\ "fiq" \in vectors /\ phase # "exited"
    /\ InMain /\ FiqPending # {}
    /\ Push("fiq")

Return ==
    /\ depth > 0 /\ Top.step = "ret"
    /\ depth' = depth - 1
    /\ iMasked' = Top.savedI
    /\ frame' = [frame EXCEPT ![depth] = Blank]
    /\ UNCHANGED <<hwVars, drvVars>>

----------------------------------------------------------------------------
(* AppleAicV2InterruptHandler.                                             *)

\* Where the look-up of an IRQ's handler leads.  The table is indexed with the
\* whole event: with a type or a die in it the entry lies behind the table, and
\* what is there is called unless it is 0.
LookedUp(ev, typed) ==
    IF typed THEN {"dead", "unassigned"}
    ELSE IF ev \in handlers THEN {"handler"} ELSE {"unassigned"}

\* The event is read, and the handler looked up, before the kind of the
\* exception is tested.
AckEvent(ev, taken) ==
    /\ depth > 0 /\ Top.step = "ack"
    /\ ReadEvent(ev, taken)
    /\ \E typed \in IF taken THEN TypedEvents ELSE {FALSE} :
         \E step \in IF Top.kind = "fiq" THEN {"ipi"} ELSE LookedUp(ev, typed) :
           frame' = [frame EXCEPT ![depth].ev = ev, ![depth].typed = typed,
                                  ![depth].held = taken, ![depth].step = step]
    /\ dropped' = IF taken /\ Top.kind = "fiq" THEN dropped \cup {ev} ELSE dropped
    /\ UNCHANGED <<aicEnabled, level, asserted, physEnabled, drvVars, iMasked,
                   depth>>

\* The device's own handler clears the source; it may print.
DeviceHandler ==
    /\ Running("irq", "handler")
    /\ level' = level \ {Top.ev}
    /\ iMasked' \in {iMasked, AfterDebug(iMasked)}
    /\ Goto("eoi")
    /\ UNCHANGED <<aicEnabled, hwMask, dropped, asserted, physEnabled, drvVars,
                   depth>>

\* No handler: print, then end the interrupt.
UnassignedIrq ==
    /\ Running("irq", "unassigned")
    /\ iMasked' = AfterDebug(iMasked)
    /\ Goto("eoi")
    /\ UNCHANGED <<hwVars, drvVars, depth>>

\* Mutant: the line is not unmasked.
EndOfInterruptKeepsMask ==
    /\ Running("irq", "eoi")
    /\ frame' = [frame EXCEPT ![depth].held = FALSE, ![depth].step = "ret"]
    /\ UNCHANGED <<hwVars, drvVars, iMasked, depth>>

\* AppleAicV2EndOfInterrupt of a device line.  With a type or a die in the
\* number the write goes to the block of another die.
AppleAicV2EndOfInterrupt ==
    /\ Running("irq", "eoi")
    /\ hwMask' = IF Top.typed THEN hwMask ELSE Unmasking(Top.ev)
    /\ frame' = [frame EXCEPT ![depth].held = FALSE, ![depth].step = "ret"]
    /\ UNCHANGED <<aicEnabled, level, dropped, asserted, physEnabled, drvVars,
                   iMasked, depth>>

\* Fast IPIs: print, then acknowledge.
FiqIpi ==
    /\ Running("fiq", "ipi")
    /\ IF "ipi" \in asserted
         THEN iMasked' = AfterDebug(iMasked) /\ Goto("ipiAck")
         ELSE UNCHANGED iMasked /\ Goto("timer")
    /\ UNCHANGED <<hwVars, drvVars, depth>>

FiqIpiAck ==
    /\ Running("fiq", "ipiAck")
    /\ asserted' = asserted \ {"ipi"}
    /\ Goto("timer")
    /\ UNCHANGED <<aicEnabled, hwMask, level, dropped, physEnabled, drvVars,
                   iMasked, depth>>

\* The timers: the virtual one only if the physical one is not pending.  A
\* timer without a handler runs into ASSERT (FALSE).
FiqTimer ==
    /\ Running("fiq", "timer")
    /\ LET timer == IF "phys" \in FiqPending THEN "phys" ELSE "virt"
           source == IF timer = "phys" THEN 17 ELSE 18
       IN  IF timer \notin FiqPending THEN Goto("pmc")
           ELSE IF source \in handlers
             THEN Goto("tick")
             ELSE Goto(IF DebugBuild THEN "dead" ELSE "pmc")
    /\ UNCHANGED <<hwVars, drvVars, iMasked, depth>>

\* The timer driver ends the interrupt first.  For a timer's source that is
\* ArmGenericTimerDisableTimer, of the physical timer for all of 17, 18, 19.
TimerEndOfInterrupt ==
    /\ Running("fiq", "tick")
    /\ physEnabled' = FALSE
    /\ Goto("rearm")
    /\ UNCHANGED <<aicEnabled, hwMask, level, dropped, asserted, drvVars,
                   iMasked, depth>>

\* Then it moves the physical timer's deadline and re-enables it, and drops
\* its task priority, which may enable IRQs.
TimerRearm ==
    /\ Running("fiq", "rearm")
    /\ asserted' = asserted \ {"phys"}
    /\ physEnabled' = TRUE
    /\ iMasked' \in {iMasked, FALSE}
    /\ Goto("pmc")
    /\ UNCHANGED <<aicEnabled, hwMask, level, dropped, drvVars, depth>>

\* The performance counters: the uncore's only if the core's is not asserted.
FiqPmc ==
    /\ Running("fiq", "pmc")
    /\ IF {"pmc", "upmc"} \cap asserted = {}
         THEN UNCHANGED iMasked /\ Goto("ret")
         ELSE /\ iMasked' = AfterDebug(iMasked)
              /\ Goto(IF "pmc" \in asserted THEN "pmcAck" ELSE "upmcAck")
    /\ UNCHANGED <<hwVars, drvVars, depth>>

\* Mutant: both branches write the core counter's register.
FiqPmcAckCoreOnly ==
    /\ depth > 0 /\ Top.step \in {"pmcAck", "upmcAck"}
    /\ asserted' = asserted \ {"pmc"}
    /\ Goto("ret")
    /\ UNCHANGED <<aicEnabled, hwMask, level, dropped, physEnabled, drvVars,
                   iMasked, depth>>

\* The uncore counter's interrupts are switched off.  The core counter's
\* register is written back with the tested bit as it was read and its mode
\* bits set: whether its FIQ goes is up to the hardware.
FiqPmcAck ==
    /\ depth > 0 /\ Top.step \in {"pmcAck", "upmcAck"}
    /\ IF Top.step = "pmcAck"
         THEN asserted' \in {asserted, asserted \ {"pmc"}}
         ELSE asserted' = asserted \ {"upmc"}
    /\ Goto("ret")
    /\ UNCHANGED <<aicEnabled, hwMask, level, dropped, physEnabled, drvVars,
                   iMasked, depth>>

----------------------------------------------------------------------------
(* The rest of the machine.                                                *)

DeviceAssert(l) ==
    /\ l \notin level /\ phase # "exited"
    /\ level' = level \cup {l}
    /\ UNCHANGED <<aicEnabled, hwMask, dropped, asserted, physEnabled, drvVars,
                   cpuVars>>

\* A device may withdraw its request before it is served.
DeviceWithdraw(l) ==
    /\ l \in level /\ phase # "exited"
    /\ level' = level \ {l}
    /\ UNCHANGED <<aicEnabled, hwMask, dropped, asserted, physEnabled, drvVars,
                   cpuVars>>

\* The physical timer expires, or another core sends an IPI.
FiqAssert(s) ==
    /\ s \in {"phys", "ipi"} \ asserted /\ phase # "exited"
    /\ s = "phys" => physEnabled
    /\ asserted' = asserted \cup {s}
    /\ UNCHANGED <<aicEnabled, hwMask, level, dropped, physEnabled, drvVars,
                   cpuVars>>

\* TimerDxe starts the tick once its handlers are registered, and stops it.
SetTimerPeriod(on) ==
    /\ InMain /\ main = Idle /\ phase \in {"installed", "exiting", "off"}
    /\ TimersUsed \subseteq handlers /\ physEnabled # on
    /\ physEnabled' = on
    /\ UNCHANGED <<aicEnabled, hwMask, level, dropped, asserted, drvVars, cpuVars>>

\* The main context raises its priority to TPL_HIGH_LEVEL, ...
RaiseTpl ==
    /\ InMain /\ ~iMasked /\ phase \in {"installed", "exiting", "off"}
    /\ iMasked' = TRUE
    /\ UNCHANGED <<hwVars, drvVars, depth, frame>>

\* ... and enables IRQs when it lowers it, or as soon as it prints.
SerialPortWrite ==
    /\ InMain /\ iMasked /\ phase \in {"installed", "exiting", "off"}
    /\ iMasked' = FALSE
    /\ UNCHANGED <<hwVars, drvVars, depth, frame>>

----------------------------------------------------------------------------
MainStep ==
    \/ AppleAicV2DxeInit \/ CpuArchProtocolNotify
    \/ \E s \in Sources : RegisterHandler(s)
    \/ \E l \in Lines : UnregisterHandler(l)
    \/ AppleAicV2UnmaskInterrupt \/ AppleAicV2MaskInterrupt
    \/ ExitBootServicesAck \/ ExitBootServicesMask \/ ExitBootServicesDisable
    \/ HandOver
    \/ \E on \in BOOLEAN : SetTimerPeriod(on)
    \/ RaiseTpl \/ SerialPortWrite

HandlerStep ==
    \/ \E ev \in Events, taken \in BOOLEAN : AckEvent(ev, taken)
    \/ DeviceHandler \/ UnassignedIrq \/ AppleAicV2EndOfInterrupt
    \/ FiqIpi \/ FiqIpiAck \/ FiqTimer \/ TimerEndOfInterrupt \/ TimerRearm
    \/ FiqPmc \/ FiqPmcAck
    \/ Return

Environment ==
    \/ \E l \in Lines : DeviceAssert(l) \/ DeviceWithdraw(l)
    \/ \E s \in FiqSources : FiqAssert(s)

Next == MainStep \/ HandlerStep \/ TakeIrq \/ TakeFiq \/ Environment

Spec == Init /\ [][Next]_vars

\* The CPU executes a handler it has entered, also one that is interrupted again
\* and again (it runs between two requests of the devices), and takes a FIQ
\* that stays pending; a line that stays pending is read sooner or later, however often
\* IRQs are masked and whatever other lines do; the main context does not
\* keep IRQs masked for ever and finishes the calls it has begun.
Fairness ==
    /\ \A d \in 1 .. MaxDepth : SF_vars(depth = d /\ HandlerStep)
    /\ SF_vars(TakeFiq)
    /\ SF_vars(TakeIrq)
    /\ \A l \in Lines : SF_vars(AckEvent(l, TRUE))
    /\ SF_vars(SerialPortWrite)
    /\ SF_vars(AppleAicV2UnmaskInterrupt \/ AppleAicV2MaskInterrupt)

FairSpec == Spec /\ Fairness

----------------------------------------------------------------------------
(* Properties.                                                             *)

TypeOK ==
    /\ phase \in {"reset", "failed", "installed", "exiting", "off", "exited"}
    /\ exitEvent \in BOOLEAN
    /\ vectors \subseteq {"irq", "fiq"}
    /\ aicEnabled \in BOOLEAN /\ physEnabled \in BOOLEAN /\ iMasked \in BOOLEAN
    /\ hwMask \subseteq Lines /\ level \subseteq Lines /\ dropped \subseteq Lines
    /\ handlers \subseteq Sources
    /\ asserted \subseteq FiqSources
    /\ main \in MainOps
    /\ depth \in 0 .. MaxDepth
    /\ frame \in [1 .. MaxDepth -> Frames]

\* Lines whose mask bit the driver's mask and unmask writes really cover.
Maskable == {l \in Lines : l \in MaskTargets(l, MaxIrqs)}

\* However activations nest, a line taken from the controller stays masked and
\* belongs to one of them until that one ends it: no handler is entered for
\* a line that is already in service.  NoEvent is left out: reading it back as
\* IRQ 0 (AppleAicV2InterruptHandler does not look at the event's type) ends
\* an interrupt nobody took.
ExclusiveService ==
    \A d \in 1 .. depth :
        frame[d].held /\ frame[d].ev # NoEvent =>
            /\ frame[d].ev \in hwMask
            /\ \A e \in 1 .. depth : frame[e].held /\ frame[e].ev = frame[d].ev => e = d

Claimed(l) ==
    l \in handlers \/ (main.op \in {"enable", "disable"} /\ main.src = l)

\* From AppleAicV2DxeInit to the operating system, a line the driver can mask
\* is unmasked only while it has a handler or RegisterInterruptSource is
\* changing that, although unassigned interrupts are ended with an unmask and
\* the table is cleared before the line is masked.
UnregisteredStaysMasked ==
    phase \notin {"reset", "failed"} =>
        \A l \in Maskable \ {NoEvent} : l \notin hwMask => Claimed(l)

\* From the driver's ExitBootServices event on the controller is off and every
\* line the driver can mask is masked, although interrupts are taken between the
\* loop's writes and each of them ends with an unmask, and other drivers' events
\* follow.  NoEvent is left out as above: IRQ 0 may be handed over unmasked.
HandOffMasked ==
    exitEvent /\ phase \in {"off", "exited"} =>
        ~aicEnabled /\ Maskable \ {NoEvent} \subseteq hwMask

\* A FIQ source that holds is served, or the firmware gives the machine up,
\* also while the core counter's FIQ, which the handler may not be able to
\* stop, comes back again and again; only the uncore counter, of the else-if,
\* waits for that one to go.
FiqServed ==
    \A s \in FiqSources \ {"pmc"} :
        s \in FiqPending /\ "fiq" \in vectors
            ~> \/ s \notin FiqPending \/ phase = "exited"
               \/ s = "upmc" /\ "pmc" \in asserted

\* A line the driver can mask and unmask that has a handler and stays asserted
\* is served, or was taken by the handler of a FIQ.
IrqServed ==
    \A l \in Maskable :
        l \in level /\ l \in handlers /\ "irq" \in vectors
            ~> (l \notin level \/ l \notin handlers \/ phase # "installed" \/ l \in dropped)

----------------------------------------------------------------------------
(* What the driver's comments say, and the code does not do.               *)

\* AppleAicV2Dxe.c, "start from a clean state by disabling all interrupts".
CleanStart ==
    [][phase = "reset" /\ phase' = "installed" => hwMask' = Lines]_vars

\* Readme.md of the driver, "enough is implemented to allow these kinds of
\* interrupts to work successfully", of boot-critical devices and the timers: a
\* line with a handler that stays asserted is served, also beside the timer.
RegisteredIrqServed ==
    \A l \in Lines :
        l \in level /\ l \in handlers /\ vectors = {"irq", "fiq"}
            ~> (l \notin level \/ l \notin handlers \/ phase # "installed")
=============================================================================
