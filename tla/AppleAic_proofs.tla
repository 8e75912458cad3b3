-------------------------- MODULE AppleAic_proofs --------------------------
(***************************************************************************)
(* Proofs about AppleAic, for every number of IRQs, set of lines, nesting  *)
(* bound and build, and at the end about the register arithmetic it rests  *)
(* on, for every size of the controller.                                   *)
(***************************************************************************)
EXTENDS AppleAic, AicRegsCheck, TLAPS

\* A mask or unmask write for a source below MaxIrqs covers that source's bit
\* or none at all (AppleAicMaskInterrupt, AIC_MASK_BIT).
LEMMA MaskTargetsOnly ==
    ASSUME NEW s \in Nat, NEW m \in Nat, s < m
    PROVE  MaskTargets(s, m) \subseteq {s}
<1>1. s % m = s
  OBVIOUS
<1>2. ASSUME NEW b \in MaskBits(s)
      PROVE  32 * (s \div 32) + b = s
  <2>1. b = s % 64 /\ b \in 0 .. 4
    BY <1>2 DEF MaskBits
  <2>. QED
    BY <2>1
<1>. QED
  BY <1>1, <1>2 DEF MaskTargets

LEMMA SourcesNat == Sources \subseteq Nat /\ Events \subseteq Nat /\ Lines \subseteq 0 .. NumIrqs - 1
  BY AicAssumption DEF Sources, Events, NoEvent, TimerSources

----------------------------------------------------------------------------
\* Type correctness.
LEMMA InitType == Init => TypeOK
<1>. SUFFICES ASSUME Init PROVE TypeOK
  OBVIOUS
<1>1. main \in MainOps
  BY DEF Init, Idle, MainOps
<1>2. frame \in [1 .. MaxDepth -> Frames]
  BY DEF Init, Blank, Frames, IrqSteps, FiqSteps, Events
<1>3. MaxDepth \in Nat
  BY AicAssumption
<1>4. asserted \subseteq FiqSources
  BY DEF Init
<1>5. /\ physEnabled \in BOOLEAN /\ iMasked \in BOOLEAN /\ aicEnabled \in BOOLEAN
      /\ exitEvent \in BOOLEAN
  BY Zenon DEF Init
<1>6. /\ hwMask \subseteq Lines /\ level \subseteq Lines /\ dropped \subseteq Lines
      /\ handlers \subseteq Sources
  BY DEF Init
<1>7. /\ phase \in {"reset", "failed", "installed", "exiting", "off", "exited"}
      /\ vectors \subseteq {"irq", "fiq"}
      /\ depth \in 0 .. MaxDepth
  BY <1>3 DEF Init
<1>. QED
  BY <1>1, <1>2, <1>4, <1>5, <1>6, <1>7, Zenon DEF TypeOK

\* Unmasking and masking keep to the lines.
LEMMA MaskType ==
    ASSUME TypeOK, NEW s
    PROVE  Masking(s) \subseteq Lines /\ Unmasking(s) \subseteq Lines
  BY DEF TypeOK, Masking, Unmasking

\* A frame whose step changes is a frame.
LEMMA GotoType ==
    ASSUME TypeOK, depth > 0, NEW step \in IrqSteps \cup FiqSteps, Goto(step)
    PROVE  frame' \in [1 .. MaxDepth -> Frames]
<1>1. depth \in 1 .. MaxDepth
  BY AicAssumption DEF TypeOK
<1>2. frame[depth] \in Frames
  BY <1>1 DEF TypeOK
<1>3. [frame[depth] EXCEPT !.step = step] \in Frames
  BY <1>2 DEF Frames
<1>4. frame' = [frame EXCEPT ![depth] = [frame[depth] EXCEPT !.step = step]]
  BY DEF Goto
<1>. QED
  BY <1>1, <1>3, <1>4 DEF TypeOK

LEMMA MainType == TypeOK /\ MainStep => TypeOK'
<1>. SUFFICES ASSUME TypeOK, MainStep PROVE TypeOK'
  OBVIOUS
<1>. USE DEF TypeOK, hwVars, drvVars, cpuVars
<1>1. CASE AppleAicV2DxeInit
  BY <1>1 DEF AppleAicV2DxeInit
<1>2. CASE CpuArchProtocolNotify
  BY <1>2 DEF CpuArchProtocolNotify
<1>3. CASE \E s \in Sources : RegisterHandler(s)
  BY <1>3 DEF RegisterHandler, MainOps
<1>4. CASE \E l \in Lines : UnregisterHandler(l)
  BY <1>4 DEF UnregisterHandler, MainOps, Sources
<1>5. CASE AppleAicV2UnmaskInterrupt
  BY <1>5, MaskType DEF AppleAicV2UnmaskInterrupt, MainOps, Idle
<1>6. CASE AppleAicV2MaskInterrupt
  BY <1>6, MaskType DEF AppleAicV2MaskInterrupt, MainOps, Idle
<1>7. CASE ExitBootServicesAck
  BY <1>7 DEF ExitBootServicesAck, ReadEvent, Pending, MainOps
<1>8. CASE ExitBootServicesMask
  <2>1. main.todo \subseteq Lines
    BY <1>8 DEF ExitBootServicesMask, MainOps
  <2>2. main' \in MainOps
    <3>1. CASE main.todo = {}
      BY <1>8, <3>1 DEF ExitBootServicesMask, MainOps
    <3>2. CASE main.todo # {}
      BY <1>8, <2>1, <3>2 DEF ExitBootServicesMask, MainOps
    <3>. QED
      BY <3>1, <3>2
  <2>3. hwMask' \subseteq Lines
    BY <1>8, MaskType DEF ExitBootServicesMask
  <2>. QED
    BY <1>8, <2>2, <2>3 DEF ExitBootServicesMask
<1>9. CASE ExitBootServicesDisable
  BY <1>9 DEF ExitBootServicesDisable, MainOps, Idle
<1>13. CASE HandOver
  BY <1>13 DEF HandOver
<1>10. CASE \E on \in BOOLEAN : SetTimerPeriod(on)
  BY <1>10 DEF SetTimerPeriod
<1>11. CASE RaiseTpl
  BY <1>11 DEF RaiseTpl
<1>12. CASE SerialPortWrite
  BY <1>12 DEF SerialPortWrite
<1>. QED
  BY <1>1, <1>2, <1>3, <1>4, <1>5, <1>6, <1>7, <1>8, <1>9, <1>10, <1>11, <1>12,
     <1>13 DEF MainStep

LEMMA PushType ==
    ASSUME TypeOK, NEW kind \in {"irq", "fiq"}, Push(kind)
    PROVE  TypeOK'
<1>1. depth + 1 \in 1 .. MaxDepth /\ depth' \in 0 .. MaxDepth
  BY AicAssumption DEF TypeOK, Push
<1>2. [Blank EXCEPT !.kind = kind, !.step = "ack", !.savedI = iMasked] \in Frames
  BY DEF Blank, Frames, IrqSteps, FiqSteps, Events, TypeOK
<1>3. frame' \in [1 .. MaxDepth -> Frames]
  BY <1>1, <1>2 DEF TypeOK, Push
<1>. QED
  BY <1>1, <1>3 DEF TypeOK, Push, hwVars, drvVars

\* Rewriting the running frame with a frame keeps the type.
LEMMA TopType ==
    ASSUME TypeOK, depth > 0
    PROVE  depth \in 1 .. MaxDepth /\ Top \in Frames
  BY AicAssumption DEF TypeOK, Top

\* What an acknowledge writes to its activation.
LEMMA AckShape ==
    ASSUME NEW ev \in Events, NEW taken \in BOOLEAN, AckEvent(ev, taken)
    PROVE  \E typed \in BOOLEAN, step \in IrqSteps \cup FiqSteps :
             frame' = [frame EXCEPT ![depth].ev = ev, ![depth].typed = typed,
                                    ![depth].held = taken, ![depth].step = step]
<1>1. PICK typed \in IF taken THEN TypedEvents ELSE {FALSE} :
        \E step \in IF Top.kind = "fiq" THEN {"ipi"} ELSE LookedUp(ev, typed) :
          frame' = [frame EXCEPT ![depth].ev = ev, ![depth].typed = typed,
                                 ![depth].held = taken, ![depth].step = step]
  BY DEF AckEvent
<1>2. PICK step \in IF Top.kind = "fiq" THEN {"ipi"} ELSE LookedUp(ev, typed) :
        frame' = [frame EXCEPT ![depth].ev = ev, ![depth].typed = typed,
                               ![depth].held = taken, ![depth].step = step]
  BY <1>1
<1>3. typed \in BOOLEAN
  BY AicAssumption
<1>4. step \in IrqSteps \cup FiqSteps
  BY <1>2 DEF LookedUp, IrqSteps, FiqSteps
<1>. QED
  BY <1>2, <1>3, <1>4

LEMMA HandlerType == TypeOK /\ HandlerStep => TypeOK'
<1>. SUFFICES ASSUME TypeOK, HandlerStep PROVE TypeOK'
  OBVIOUS
<1>0. depth > 0 /\ depth \in 1 .. MaxDepth /\ Top \in Frames
  <2>1. depth > 0
    BY DEF HandlerStep, AckEvent, DeviceHandler, UnassignedIrq,
           AppleAicV2EndOfInterrupt, FiqIpi, FiqIpiAck, FiqTimer,
           TimerEndOfInterrupt, TimerRearm, FiqPmc, FiqPmcAck, Return, Running
  <2>. QED
    BY <2>1, TopType
<1>. USE DEF hwVars, drvVars
<1>1. ASSUME NEW ev \in Events, NEW taken \in BOOLEAN, AckEvent(ev, taken)
      PROVE  TypeOK'
  <2>1. PICK typed \in BOOLEAN, step \in IrqSteps \cup FiqSteps :
          frame' = [frame EXCEPT ![depth].ev = ev, ![depth].typed = typed,
                                 ![depth].held = taken, ![depth].step = step]
    BY <1>1, AckShape, ZenonT(60)
  <2>2. [Top EXCEPT !.ev = ev, !.typed = typed, !.held = taken, !.step = step] \in Frames
    BY <1>0 DEF Frames
  <2>3. frame' = [frame EXCEPT ![depth] =
           [Top EXCEPT !.ev = ev, !.typed = typed, !.held = taken, !.step = step]]
    BY <2>1, <1>0 DEF Top, TypeOK
  <2>4. frame' \in [1 .. MaxDepth -> Frames]
    BY <1>0, <2>2, <2>3 DEF TypeOK
  <2>5. hwMask' \subseteq Lines /\ dropped' \subseteq Lines
    BY <1>1 DEF AckEvent, ReadEvent, Pending, TypeOK
  <2>. QED
    BY <1>1, <2>4, <2>5 DEF AckEvent, TypeOK
<1>2. CASE DeviceHandler
  <2>1. frame' \in [1 .. MaxDepth -> Frames]
    BY <1>0, <1>2, GotoType DEF DeviceHandler, IrqSteps
  <2>. QED
    BY <1>2, <2>1 DEF DeviceHandler, TypeOK, AfterDebug
<1>3. CASE UnassignedIrq
  <2>1. frame' \in [1 .. MaxDepth -> Frames]
    BY <1>0, <1>3, GotoType DEF UnassignedIrq, IrqSteps
  <2>. QED
    BY <1>3, <2>1 DEF UnassignedIrq, TypeOK, AfterDebug
<1>4. CASE AppleAicV2EndOfInterrupt
  <2>1. [Top EXCEPT !.held = FALSE, !.step = "ret"] \in Frames
    BY <1>0 DEF Frames, IrqSteps
  <2>2. frame' = [frame EXCEPT ![depth] = [Top EXCEPT !.held = FALSE, !.step = "ret"]]
    BY <1>4, <1>0 DEF AppleAicV2EndOfInterrupt, Top, TypeOK
  <2>3. frame' \in [1 .. MaxDepth -> Frames]
    BY <1>0, <2>1, <2>2 DEF TypeOK
  <2>. QED
    BY <1>4, <2>3, MaskType DEF AppleAicV2EndOfInterrupt, TypeOK
<1>5. CASE FiqIpi
  <2>1. frame' \in [1 .. MaxDepth -> Frames]
    BY <1>0, <1>5, GotoType DEF FiqIpi, FiqSteps
  <2>. QED
    BY <1>5, <2>1 DEF FiqIpi, TypeOK, AfterDebug
<1>6. CASE FiqIpiAck
  <2>1. frame' \in [1 .. MaxDepth -> Frames]
    BY <1>0, <1>6, GotoType DEF FiqIpiAck, FiqSteps
  <2>. QED
    BY <1>6, <2>1 DEF FiqIpiAck, TypeOK
<1>7. CASE FiqTimer
  <2>1. frame' \in [1 .. MaxDepth -> Frames]
    BY <1>0, <1>7, GotoType DEF FiqTimer, FiqSteps
  <2>. QED
    BY <1>7, <2>1 DEF FiqTimer, TypeOK
<1>8. CASE TimerEndOfInterrupt
  <2>1. frame' \in [1 .. MaxDepth -> Frames]
    BY <1>0, <1>8, GotoType DEF TimerEndOfInterrupt, FiqSteps
  <2>. QED
    BY <1>8, <2>1 DEF TimerEndOfInterrupt, TypeOK
<1>9. CASE TimerRearm
  <2>1. frame' \in [1 .. MaxDepth -> Frames]
    BY <1>0, <1>9, GotoType DEF TimerRearm, FiqSteps
  <2>. QED
    BY <1>9, <2>1 DEF TimerRearm, TypeOK
<1>10. CASE FiqPmc
  <2>1. frame' \in [1 .. MaxDepth -> Frames]
    BY <1>0, <1>10, GotoType DEF FiqPmc, FiqSteps
  <2>. QED
    BY <1>10, <2>1 DEF FiqPmc, TypeOK, AfterDebug
<1>11. CASE FiqPmcAck
  <2>1. frame' \in [1 .. MaxDepth -> Frames]
    BY <1>0, <1>11, GotoType DEF FiqPmcAck, FiqSteps
  <2>. QED
    BY <1>11, <2>1 DEF FiqPmcAck, TypeOK
<1>12. CASE Return
  <2>1. Blank \in Frames
    BY DEF Blank, Frames, IrqSteps, Events
  <2>2. frame' \in [1 .. MaxDepth -> Frames]
    BY <1>0, <1>12, <2>1 DEF Return, TypeOK
  <2>3. depth' \in 0 .. MaxDepth
    BY <1>0, <1>12, AicAssumption DEF Return
  <2>4. iMasked' \in BOOLEAN
    BY <1>0, <1>12 DEF Return, Frames
  <2>. QED
    BY <1>12, <2>2, <2>3, <2>4 DEF Return, TypeOK
<1>. QED
  BY <1>1, <1>2, <1>3, <1>4, <1>5, <1>6, <1>7, <1>8, <1>9, <1>10, <1>11, <1>12
  DEF HandlerStep

LEMMA NextType == TypeOK /\ [Next]_vars => TypeOK'
<1>. SUFFICES ASSUME TypeOK, [Next]_vars PROVE TypeOK'
  OBVIOUS
<1>1. CASE TakeIrq
  BY <1>1, PushType DEF TakeIrq
<1>2. CASE TakeFiq
  BY <1>2, PushType DEF TakeFiq
<1>3. CASE Environment
  BY <1>3 DEF Environment, DeviceAssert, DeviceWithdraw, FiqAssert, TypeOK,
              drvVars, cpuVars
<1>4. CASE UNCHANGED vars
  BY <1>4 DEF vars, hwVars, drvVars, cpuVars, TypeOK
<1>. QED
  BY <1>1, <1>2, <1>3, <1>4, MainType, HandlerType DEF Next

\* Every state of the controller, the table, the main context and the frames
\* is a legal one, whatever the nesting.
THEOREM TypeCorrect == Spec => []TypeOK
  BY InitType, NextType, PTL DEF Spec

----------------------------------------------------------------------------
\* Exclusive service.  An activation that has read a line and not ended it
\* holds it; reads return unmasked lines only, so two cannot hold the same.
ServedIsHeld ==
    \A d \in 1 .. depth :
        frame[d].step \in {"handler", "unassigned", "eoi"} /\ frame[d].ev # NoEvent
            => frame[d].held

ServiceInv == TypeOK /\ ExclusiveService /\ ServedIsHeld

\* Steps of the main context run when there is no activation.
LEMMA MainService == ServiceInv /\ MainStep => ExclusiveService' /\ ServedIsHeld'
<1>. SUFFICES ASSUME ServiceInv, MainStep PROVE ExclusiveService' /\ ServedIsHeld'
  OBVIOUS
<1>1. CASE AppleAicV2DxeInit
  <2>1. hwMask \subseteq hwMask' /\ UNCHANGED <<depth, frame>>
    BY <1>1 DEF AppleAicV2DxeInit, cpuVars
  <2>. QED
    BY <2>1 DEF ServiceInv, ExclusiveService, ServedIsHeld
<1>2. ASSUME ~AppleAicV2DxeInit
      PROVE  depth = 0 /\ UNCHANGED <<depth, frame>>
  BY <1>2 DEF MainStep, CpuArchProtocolNotify, RegisterHandler, UnregisterHandler,
              AppleAicV2UnmaskInterrupt, AppleAicV2MaskInterrupt,
              ExitBootServicesAck, ExitBootServicesMask, ExitBootServicesDisable, HandOver,
              SetTimerPeriod, RaiseTpl, SerialPortWrite, InMain, cpuVars
<1>3. CASE ~AppleAicV2DxeInit
  <2>1. 1 .. depth' = {}
    BY <1>2, <1>3
  <2>. QED
    BY <2>1 DEF ExclusiveService, ServedIsHeld
<1>. QED
  BY <1>1, <1>3

LEMMA PushService ==
    ASSUME ServiceInv, NEW kind \in {"irq", "fiq"}, Push(kind)
    PROVE  ExclusiveService' /\ ServedIsHeld'
<1>1. depth \in Nat /\ depth' = depth + 1 /\ depth + 1 \in 1 .. MaxDepth /\ UNCHANGED hwMask
  BY AicAssumption DEF ServiceInv, TypeOK, Push, hwVars
<1>2. /\ frame'[depth + 1].held = FALSE /\ frame'[depth + 1].step = "ack"
      /\ \A d \in 1 .. depth : frame'[d] = frame[d]
  BY <1>1 DEF ServiceInv, TypeOK, Push, Blank
<1>3. \A d \in 1 .. depth' : d = depth + 1 \/ d \in 1 .. depth
  BY <1>1
<1>4. ExclusiveService'
  BY <1>1, <1>2, <1>3 DEF ServiceInv, ExclusiveService
<1>5. ServedIsHeld'
  BY <1>1, <1>2, <1>3 DEF ServiceInv, ServedIsHeld
<1>. QED
  BY <1>4, <1>5

\* A step of the running activation that neither takes nor ends a line.
LEMMA StepService ==
    ASSUME ServiceInv, depth > 0, UNCHANGED <<depth, hwMask>>,
           NEW step, Goto(step),
           step \notin {"handler", "unassigned", "eoi"} \/ Top.step \in {"handler", "unassigned"}
    PROVE  ExclusiveService' /\ ServedIsHeld'
<1>1. depth \in 1 .. MaxDepth /\ depth \in 1 .. depth
  BY AicAssumption DEF ServiceInv, TypeOK
<1>2. /\ \A d \in 1 .. depth : frame'[d].held = frame[d].held /\ frame'[d].ev = frame[d].ev
      /\ \A d \in 1 .. depth : d # depth => frame'[d] = frame[d]
      /\ frame'[depth].step = step
  <2>1. frame' = [frame EXCEPT ![depth] = [frame[depth] EXCEPT !.step = step]]
    BY DEF Goto
  <2>2. \A d \in 1 .. depth : d \in 1 .. MaxDepth
    BY <1>1, AicAssumption
  <2>3. \A d \in 1 .. depth : d # depth => frame'[d] = frame[d]
    BY <1>1, <2>1, <2>2 DEF ServiceInv, TypeOK
  <2>4. frame'[depth] = [frame[depth] EXCEPT !.step = step]
    BY <1>1, <2>1 DEF ServiceInv, TypeOK
  <2>5. frame[depth] \in Frames
    BY <1>1 DEF ServiceInv, TypeOK
  <2>6. /\ frame'[depth].held = frame[depth].held
        /\ frame'[depth].ev = frame[depth].ev
        /\ frame'[depth].step = step
    BY <2>4, <2>5 DEF Frames
  <2>. QED
    BY <1>1, <2>3, <2>6
<1>3. ExclusiveService'
  BY <1>1, <1>2 DEF ServiceInv, ExclusiveService
<1>4. ServedIsHeld'
  BY <1>1, <1>2 DEF ServiceInv, ServedIsHeld, Top
<1>. QED
  BY <1>3, <1>4

LEMMA HandlerService == ServiceInv /\ HandlerStep => ExclusiveService' /\ ServedIsHeld'
<1>. SUFFICES ASSUME ServiceInv, HandlerStep PROVE ExclusiveService' /\ ServedIsHeld'
  OBVIOUS
<1>0. depth > 0
  BY DEF HandlerStep, AckEvent, DeviceHandler, UnassignedIrq,
         AppleAicV2EndOfInterrupt, FiqIpi, FiqIpiAck, FiqTimer,
         TimerEndOfInterrupt, TimerRearm, FiqPmc, FiqPmcAck, Return, Running
<1>a. depth \in 1 .. MaxDepth /\ depth \in 1 .. depth /\ Top \in Frames
  BY <1>0, AicAssumption DEF ServiceInv, TypeOK, Top
<1>b. \A d \in 1 .. depth : d \in 1 .. MaxDepth /\ frame[d] \in Frames
  BY <1>a, AicAssumption DEF ServiceInv, TypeOK
<1>1. ASSUME NEW ev \in Events, NEW taken \in BOOLEAN, AckEvent(ev, taken)
      PROVE  ExclusiveService' /\ ServedIsHeld'
  <2>1. /\ depth' = depth
        /\ \A d \in 1 .. depth : d # depth => frame'[d] = frame[d]
        /\ frame'[depth].ev = ev /\ frame'[depth].held = taken
    <3>1. PICK typed \in BOOLEAN, step \in IrqSteps \cup FiqSteps :
            frame' = [frame EXCEPT ![depth].ev = ev, ![depth].typed = typed,
                                   ![depth].held = taken, ![depth].step = step]
      BY <1>1, AckShape, ZenonT(60)
    <3>. QED
      BY <1>1, <3>1, <1>a, <1>b DEF AckEvent, ServiceInv, TypeOK, Frames
  <2>2. CASE taken = FALSE
    <3>1. ev = NoEvent /\ hwMask' = hwMask
      BY <1>1, <2>2 DEF AckEvent, ReadEvent
    <3>2. ExclusiveService'
      BY <2>1, <2>2, <3>1 DEF ServiceInv, ExclusiveService
    <3>3. ServedIsHeld'
      BY <2>1, <3>1 DEF ServiceInv, ServedIsHeld
    <3>. QED
      BY <3>2, <3>3
  <2>3. CASE taken = TRUE
    <3>1. ev \notin hwMask /\ hwMask' = hwMask \cup {ev}
      BY <1>1, <2>3 DEF AckEvent, ReadEvent, Pending
    <3>2. \A d \in 1 .. depth :
            d # depth /\ frame[d].held /\ frame[d].ev # NoEvent => frame[d].ev # ev
      BY <3>1 DEF ServiceInv, ExclusiveService
    <3>3. ASSUME NEW d \in 1 .. depth', frame'[d].held, frame'[d].ev # NoEvent
          PROVE  /\ frame'[d].ev \in hwMask'
                 /\ \A e \in 1 .. depth' : frame'[e].held /\ frame'[e].ev = frame'[d].ev => e = d
      <4>1. CASE d = depth
        BY <4>1, <2>1, <3>1, <3>2, <3>3
      <4>2. CASE d # depth
        <5>1. frame[d].held /\ frame[d].ev # NoEvent /\ d \in 1 .. depth
          BY <2>1, <3>3, <4>2
        <5>2. frame[d].ev \in hwMask /\ frame[d].ev # ev
          BY <5>1, <4>2, <3>2 DEF ServiceInv, ExclusiveService
        <5>. QED
          BY <2>1, <3>1, <4>2, <5>1, <5>2 DEF ServiceInv, ExclusiveService
      <4>. QED
        BY <4>1, <4>2
    <3>4. ExclusiveService'
      BY <3>3 DEF ExclusiveService
    <3>5. ServedIsHeld'
      BY <2>1, <2>3 DEF ServiceInv, ServedIsHeld
    <3>. QED
      BY <3>4, <3>5
  <2>. QED
    BY <2>2, <2>3
<1>2. CASE DeviceHandler
  BY <1>0, <1>2, StepService DEF DeviceHandler, Running
<1>3. CASE UnassignedIrq
  BY <1>0, <1>3, StepService DEF UnassignedIrq, Running, hwVars
<1>4. CASE AppleAicV2EndOfInterrupt
  <2>1. /\ depth' = depth
        /\ \A d \in 1 .. depth : d # depth => frame'[d] = frame[d]
        /\ frame'[depth].held = FALSE /\ frame'[depth].step = "ret"
        /\ Top.step = "eoi"
    BY <1>4, <1>a, <1>b DEF AppleAicV2EndOfInterrupt, Running, ServiceInv, TypeOK, Frames
  <2>2. hwMask \ {Top.ev} \subseteq hwMask'
    <3>1. (Top.ev \in Nat /\ Top.ev < MaxIrqs) \/ Top.ev = NoEvent
      BY <1>a, AicAssumption, SourcesNat DEF Frames, Events
    <3>2. CASE Top.ev < MaxIrqs /\ Top.ev \in Nat
      BY <3>2, <1>4, MaskTargetsOnly, AicAssumption DEF AppleAicV2EndOfInterrupt, Unmasking
    <3>3. CASE Top.ev = NoEvent /\ ~(NoEvent < MaxIrqs)
      <4>1. Lines = {} /\ hwMask = {}
        BY <3>3, AicAssumption DEF NoEvent, ServiceInv, TypeOK
      <4>. QED
        BY <4>1
    <3>. QED
      BY <3>1, <3>2, <3>3 DEF NoEvent
  <2>3. \A d \in 1 .. depth :
          d # depth /\ frame[d].held /\ frame[d].ev # NoEvent => frame[d].ev # Top.ev
    <3>1. SUFFICES ASSUME NEW d \in 1 .. depth, d # depth, frame[d].held,
                          frame[d].ev # NoEvent, frame[d].ev = Top.ev
                   PROVE  FALSE
      OBVIOUS
    <3>2. Top.held
      BY <1>a, <2>1, <3>1 DEF ServiceInv, ServedIsHeld, Top
    <3>. QED
      BY <1>a, <3>1, <3>2 DEF ServiceInv, ExclusiveService, Top
  <2>4. ExclusiveService'
    BY <2>1, <2>2, <2>3 DEF ServiceInv, ExclusiveService
  <2>5. ServedIsHeld'
    BY <2>1 DEF ServiceInv, ServedIsHeld
  <2>. QED
    BY <2>4, <2>5
<1>5. CASE FiqIpi
  BY <1>0, <1>5, StepService DEF FiqIpi, hwVars
<1>6. CASE FiqIpiAck
  BY <1>0, <1>6, StepService DEF FiqIpiAck
<1>7. CASE FiqTimer
  BY <1>0, <1>7, StepService DEF FiqTimer, hwVars
<1>8. CASE TimerEndOfInterrupt
  BY <1>0, <1>8, StepService DEF TimerEndOfInterrupt
<1>9. CASE TimerRearm
  BY <1>0, <1>9, StepService DEF TimerRearm
<1>10. CASE FiqPmc
  BY <1>0, <1>10, StepService DEF FiqPmc, hwVars
<1>11. CASE FiqPmcAck
  BY <1>0, <1>11, StepService DEF FiqPmcAck
<1>12. CASE Return
  <2>1. /\ depth' = depth - 1 /\ hwMask' = hwMask
        /\ \A d \in 1 .. depth' : d \in 1 .. depth /\ frame'[d] = frame[d]
    BY <1>12, <1>a, <1>b DEF Return, hwVars, ServiceInv, TypeOK
  <2>2. ExclusiveService'
    BY <2>1 DEF ServiceInv, ExclusiveService
  <2>3. ServedIsHeld'
    BY <2>1 DEF ServiceInv, ServedIsHeld
  <2>. QED
    BY <2>2, <2>3
<1>. QED
  BY <1>1, <1>2, <1>3, <1>4, <1>5, <1>6, <1>7, <1>8, <1>9, <1>10, <1>11, <1>12
  DEF HandlerStep

\* A line in service stays masked, and no second activation is entered for it,
\* however deep the nesting that printing allows.
THEOREM ExclusiveServiceHolds == Spec => []ExclusiveService
<1>1. Init => ServiceInv
  <2>1. Init => 1 .. depth = {}
    BY DEF Init
  <2>. QED
    BY InitType, <2>1 DEF ServiceInv, ExclusiveService, ServedIsHeld
<1>2. ServiceInv /\ [Next]_vars => ServiceInv'
  <2>. SUFFICES ASSUME ServiceInv, [Next]_vars PROVE ServiceInv'
    OBVIOUS
  <2>1. TypeOK'
    BY NextType DEF ServiceInv
  <2>2. ExclusiveService' /\ ServedIsHeld'
    <3>1. CASE Environment \/ UNCHANGED vars
      <4>1. UNCHANGED <<hwMask, depth, frame>>
        BY <3>1 DEF Environment, DeviceAssert, DeviceWithdraw, FiqAssert, vars,
                    hwVars, cpuVars
      <4>. QED
        BY <4>1 DEF ServiceInv, ExclusiveService, ServedIsHeld
    <3>2. CASE TakeIrq
      BY <3>2, PushService DEF TakeIrq
    <3>3. CASE TakeFiq
      BY <3>3, PushService DEF TakeFiq
    <3>. QED
      BY <3>1, <3>2, <3>3, MainService, HandlerService DEF Next
  <2>. QED
    BY <2>1, <2>2 DEF ServiceInv
<1>3. ServiceInv => ExclusiveService
  BY DEF ServiceInv
<1>. QED
  BY <1>1, <1>2, <1>3, PTL DEF Spec

----------------------------------------------------------------------------
\* Unregistered lines stay masked.  An unmask is written when a handler is
\* being registered, or to end an interrupt: the line was then unmasked when it
\* was read, so it was claimed, and claims do not change under an activation.
ReadIsClaimed ==
    \A d \in 1 .. depth : frame[d].ev \in Maskable \ {NoEvent} => Claimed(frame[d].ev)

EnableHasHandler == main.op = "enable" => main.src \in handlers

NoFramesBeforeStart == phase \in {"reset", "failed", "exited"} => depth = 0
IdleBeforeStart == phase \in {"reset", "failed"} => vectors = {} /\ main = Idle

MaskInv == /\ TypeOK /\ UnregisteredStaysMasked /\ ReadIsClaimed
           /\ EnableHasHandler /\ NoFramesBeforeStart /\ IdleBeforeStart

\* A claim survives every step of an activation and of the environment.
LEMMA ClaimsKept ==
    ASSUME UNCHANGED <<main, handlers>>, NEW l
    PROVE  Claimed(l)' <=> Claimed(l)
  BY DEF Claimed

LEMMA UnmaskingOnly ==
    ASSUME NEW s \in Nat, s < MaxIrqs
    PROVE  hwMask \ {s} \subseteq Unmasking(s)
  BY MaskTargetsOnly, AicAssumption DEF Unmasking

LEMMA MainMask ==
    ASSUME MaskInv, MainStep
    PROVE  /\ UnregisteredStaysMasked' /\ ReadIsClaimed' /\ EnableHasHandler'
           /\ NoFramesBeforeStart' /\ IdleBeforeStart'
<1>. USE DEF MaskInv, EnableHasHandler, NoFramesBeforeStart, IdleBeforeStart
<1>0. depth = 0 /\ depth' = 0
  BY DEF MainStep, AppleAicV2DxeInit, CpuArchProtocolNotify, RegisterHandler,
         UnregisterHandler, AppleAicV2UnmaskInterrupt, AppleAicV2MaskInterrupt,
         ExitBootServicesAck, ExitBootServicesMask, ExitBootServicesDisable, HandOver,
         SetTimerPeriod, RaiseTpl, SerialPortWrite, InMain, cpuVars
<1>r. ReadIsClaimed'
  <2>1. 1 .. depth' = {}
    BY <1>0
  <2>. QED
    BY <2>1 DEF ReadIsClaimed
<1>1. CASE AppleAicV2DxeInit
  <2>1. Maskable \subseteq hwMask'
    <3>1. ASSUME NEW l \in Maskable PROVE l \in hwMask'
      <4>1. l \in 0 .. NumIrqs - 1 /\ l \in MaskTargets(l, MaxIrqs) \cap Lines
        BY SourcesNat DEF Maskable
      <4>. QED
        BY <1>1, <4>1 DEF AppleAicV2DxeInit
    <3>. QED
      BY <3>1
  <2>2. UnregisteredStaysMasked'
    BY <2>1 DEF UnregisteredStaysMasked, Maskable
  <2>. QED
    BY <1>0, <1>1, <1>r, <2>2 DEF AppleAicV2DxeInit, Idle
<1>2. CASE CpuArchProtocolNotify
  <2>1. UnregisteredStaysMasked'
    BY <1>2 DEF CpuArchProtocolNotify, UnregisteredStaysMasked, Claimed, Maskable, hwVars
  <2>. QED
    BY <1>0, <1>2, <1>r, <2>1 DEF CpuArchProtocolNotify
<1>3. ASSUME NEW s \in Sources, RegisterHandler(s)
      PROVE  UnregisteredStaysMasked' /\ EnableHasHandler' /\ IdleBeforeStart'
  BY <1>3 DEF RegisterHandler, UnregisteredStaysMasked, Claimed, Maskable, hwVars, Idle
<1>4. ASSUME NEW l \in Lines, UnregisterHandler(l)
      PROVE  UnregisteredStaysMasked' /\ EnableHasHandler' /\ IdleBeforeStart'
  BY <1>4 DEF UnregisterHandler, UnregisteredStaysMasked, Claimed, Maskable, hwVars, Idle
<1>5. CASE AppleAicV2UnmaskInterrupt
  <2>1. (main.src \in Nat /\ main.src < MaxIrqs) \/ main.src \notin Lines
    <3>1. main.src \in Sources
      BY <1>5 DEF AppleAicV2UnmaskInterrupt, TypeOK, MainOps
    <3>. QED
      BY <3>1, AicAssumption, SourcesNat DEF Sources
  <2>2. main.src \in Lines => hwMask \ {main.src} \subseteq hwMask'
    BY <1>5, <2>1, UnmaskingOnly DEF AppleAicV2UnmaskInterrupt
  <2>3. main.src \notin Lines => hwMask \subseteq hwMask'
    <3>1. main.src \in Sources
      BY <1>5 DEF AppleAicV2UnmaskInterrupt, TypeOK, MainOps
    <3>2. main.src \notin Lines => MaskTargets(main.src, MaxIrqs) = {}
      BY <3>1, AicAssumption DEF MaskTargets, Sources
    <3>. QED
      BY <1>5, <3>2 DEF AppleAicV2UnmaskInterrupt, Unmasking
  <2>4. UnregisteredStaysMasked'
    BY <1>5, <2>2, <2>3 DEF AppleAicV2UnmaskInterrupt, UnregisteredStaysMasked,
                            Claimed, Maskable, Idle
  <2>. QED
    BY <1>0, <1>5, <1>r, <2>4 DEF AppleAicV2UnmaskInterrupt, Idle
<1>6. CASE AppleAicV2MaskInterrupt
  <2>1. hwMask \subseteq hwMask' /\ (main.src \in Maskable => main.src \in hwMask')
    BY <1>6 DEF AppleAicV2MaskInterrupt, Masking, Maskable
  <2>2. UnregisteredStaysMasked'
    BY <1>6, <2>1 DEF AppleAicV2MaskInterrupt, UnregisteredStaysMasked,
                      Claimed, Maskable, Idle
  <2>. QED
    BY <1>0, <1>6, <1>r, <2>2 DEF AppleAicV2MaskInterrupt, Idle
<1>7. CASE ExitBootServicesAck
  <2>1. hwMask \subseteq hwMask'
    BY <1>7 DEF ExitBootServicesAck, ReadEvent
  <2>2. UnregisteredStaysMasked'
    BY <1>7, <2>1 DEF ExitBootServicesAck, UnregisteredStaysMasked, Claimed, Maskable, Idle
  <2>. QED
    BY <1>0, <1>7, <1>r, <2>2 DEF ExitBootServicesAck
<1>8. CASE ExitBootServicesMask
  <2>1. hwMask \subseteq hwMask'
    BY <1>8 DEF ExitBootServicesMask, Masking
  <2>2. main'.op \in {"mask", "off"}
    BY <1>8 DEF ExitBootServicesMask
  <2>3. UnregisteredStaysMasked'
    BY <1>8, <2>1, <2>2 DEF ExitBootServicesMask, UnregisteredStaysMasked, Claimed, Maskable
  <2>. QED
    BY <1>0, <1>8, <1>r, <2>2, <2>3 DEF ExitBootServicesMask, Idle
<1>9. CASE ExitBootServicesDisable \/ HandOver
  <2>1. UnregisteredStaysMasked'
    BY <1>9 DEF ExitBootServicesDisable, HandOver, UnregisteredStaysMasked,
                Claimed, Maskable, Idle, hwVars
  <2>. QED
    BY <1>0, <1>9, <1>r, <2>1 DEF ExitBootServicesDisable, HandOver, Idle
<1>10. CASE (\E on \in BOOLEAN : SetTimerPeriod(on)) \/ RaiseTpl \/ SerialPortWrite
  <2>1. UNCHANGED <<phase, vectors, hwMask, handlers, main>>
    BY <1>10 DEF SetTimerPeriod, RaiseTpl, SerialPortWrite, hwVars, drvVars
  <2>2. UnregisteredStaysMasked'
    BY <2>1 DEF UnregisteredStaysMasked, Claimed, Maskable
  <2>. QED
    BY <1>0, <1>r, <2>1, <2>2
<1>. QED
  BY <1>0, <1>r, <1>1, <1>2, <1>3, <1>4, <1>5, <1>6, <1>7, <1>8, <1>9, <1>10 DEF MainStep

\* Steps of an activation, and taking an exception.
LEMMA FrameMask ==
    ASSUME MaskInv, HandlerStep \/ TakeIrq \/ TakeFiq
    PROVE  UnregisteredStaysMasked' /\ ReadIsClaimed'
<1>0. UNCHANGED <<phase, main, handlers>>
  BY DEF HandlerStep, AckEvent, DeviceHandler, UnassignedIrq,
         AppleAicV2EndOfInterrupt, FiqIpi, FiqIpiAck, FiqTimer,
         TimerEndOfInterrupt, TimerRearm, FiqPmc, FiqPmcAck, Return,
         TakeIrq, TakeFiq, Push, drvVars
<1>t. TypeOK /\ MaxDepth \in Nat
  BY AicAssumption DEF MaskInv
<1>1. CASE TakeIrq \/ TakeFiq
  <2>1. PICK kind \in {"irq", "fiq"} : Push(kind)
    BY <1>1 DEF TakeIrq, TakeFiq
  <2>2. /\ depth' = depth + 1 /\ depth + 1 \in 1 .. MaxDepth /\ hwMask' = hwMask
        /\ frame'[depth + 1].ev = NoEvent
        /\ \A d \in 1 .. depth : frame'[d] = frame[d]
    BY <2>1, <1>t DEF Push, TypeOK, hwVars, Blank
  <2>3. \A d \in 1 .. depth' : d = depth + 1 \/ d \in 1 .. depth
    BY <1>t, <2>2 DEF TypeOK
  <2>. QED
    BY <1>0, <2>2, <2>3 DEF MaskInv, UnregisteredStaysMasked, ReadIsClaimed, Claimed, Maskable
<1>2. ASSUME HandlerStep, depth > 0
      PROVE  UnregisteredStaysMasked' /\ ReadIsClaimed'
  <2>0. phase \notin {"reset", "failed"}
    BY <1>2, <1>t DEF MaskInv, NoFramesBeforeStart, TypeOK
  <2>a. depth \in 1 .. MaxDepth /\ depth \in 1 .. depth /\ Top \in Frames
    BY <1>2, <1>t DEF TypeOK, Top
  <2>b. \A d \in 1 .. depth : d \in 1 .. MaxDepth /\ frame[d] \in Frames
    BY <1>t, <2>a DEF TypeOK
  <2>1. ASSUME NEW ev \in Events, NEW taken \in BOOLEAN, AckEvent(ev, taken)
        PROVE  UnregisteredStaysMasked' /\ ReadIsClaimed'
    <3>1. /\ depth' = depth /\ hwMask \subseteq hwMask'
          /\ \A d \in 1 .. depth : d # depth => frame'[d] = frame[d]
          /\ frame'[depth].ev = ev
      <4>1. PICK typed \in BOOLEAN, step \in IrqSteps \cup FiqSteps :
              frame' = [frame EXCEPT ![depth].ev = ev, ![depth].typed = typed,
                                     ![depth].held = taken, ![depth].step = step]
        BY <2>1, AckShape, ZenonT(60)
      <4>2. depth' = depth /\ hwMask \subseteq hwMask'
        BY <2>1 DEF AckEvent, ReadEvent
      <4>. QED
        BY <4>1, <4>2, <2>a, <2>b, <1>t DEF TypeOK, Frames
    <3>2. ev = NoEvent \/ ev \notin hwMask
      BY <2>1 DEF AckEvent, ReadEvent, Pending
    <3>3. ev \in Maskable \ {NoEvent} => Claimed(ev)
      BY <2>0, <3>2 DEF MaskInv, UnregisteredStaysMasked
    <3>. QED
      BY <1>0, <3>1, <3>3 DEF MaskInv, UnregisteredStaysMasked, ReadIsClaimed, Claimed, Maskable
  <2>2. CASE AppleAicV2EndOfInterrupt
    <3>1. /\ depth' = depth
          /\ \A d \in 1 .. depth : frame'[d].ev = frame[d].ev
      BY <2>2, <2>a, <2>b, <1>t DEF AppleAicV2EndOfInterrupt, TypeOK, Frames
    <3>2. Lines # {} => Top.ev \in Nat /\ Top.ev < MaxIrqs
      <4>1. ASSUME NEW l \in Lines PROVE 0 < MaxIrqs /\ l \in Nat /\ l < MaxIrqs
        <5>1. l \in 0 .. NumIrqs - 1 /\ NumIrqs \in Nat /\ MaxIrqs \in Nat /\ NumIrqs <= MaxIrqs
          BY AicAssumption
        <5>. QED
          BY <5>1
      <4>2. Top.ev \in Lines \/ Top.ev = NoEvent
        BY <2>a DEF Frames, Events
      <4>. QED
        BY <4>1, <4>2 DEF NoEvent
    <3>3. \A l \in Lines : l # Top.ev /\ l \in hwMask => l \in hwMask'
      BY <2>2, <3>2, UnmaskingOnly DEF AppleAicV2EndOfInterrupt
    <3>4. Top.ev \in Maskable \ {NoEvent} => Claimed(Top.ev)
      BY <2>a DEF MaskInv, ReadIsClaimed, Top
    <3>5. UnregisteredStaysMasked'
      BY <1>0, <2>0, <3>3, <3>4 DEF MaskInv, UnregisteredStaysMasked, Claimed, Maskable
    <3>6. ReadIsClaimed'
      BY <1>0, <3>1 DEF MaskInv, ReadIsClaimed, Claimed, Maskable
    <3>. QED
      BY <3>5, <3>6
  <2>3. CASE Return
    <3>1. /\ hwMask' = hwMask
          /\ \A d \in 1 .. depth' : d \in 1 .. depth /\ frame'[d] = frame[d]
      BY <2>3, <2>a, <2>b, <1>t DEF Return, hwVars, TypeOK
    <3>. QED
      BY <1>0, <3>1 DEF MaskInv, UnregisteredStaysMasked, ReadIsClaimed, Claimed, Maskable
  <2>4. ASSUME NEW step, Goto(step), UNCHANGED <<hwMask, depth>>
        PROVE  UnregisteredStaysMasked' /\ ReadIsClaimed'
    <3>1. \A d \in 1 .. depth : frame'[d].ev = frame[d].ev
      BY <2>4, <2>a, <2>b, <1>t DEF Goto, TypeOK, Frames
    <3>. QED
      BY <1>0, <2>4, <3>1 DEF MaskInv, UnregisteredStaysMasked, ReadIsClaimed, Claimed, Maskable
  <2>5. CASE DeviceHandler \/ UnassignedIrq
    BY <2>5, <2>4 DEF DeviceHandler, UnassignedIrq, hwVars
  <2>6. CASE FiqIpi
    BY <2>6, <2>4 DEF FiqIpi, hwVars
  <2>7. CASE FiqIpiAck \/ TimerEndOfInterrupt \/ TimerRearm
    BY <2>7, <2>4 DEF FiqIpiAck, TimerEndOfInterrupt, TimerRearm
  <2>8. CASE FiqTimer
    BY <2>8, <2>4 DEF FiqTimer, hwVars
  <2>9. CASE FiqPmc \/ FiqPmcAck
    BY <2>9, <2>4 DEF FiqPmc, FiqPmcAck, hwVars
  <2>. QED
    BY <1>2, <2>1, <2>2, <2>3, <2>5, <2>6, <2>7, <2>8, <2>9 DEF HandlerStep
<1>3. HandlerStep => depth > 0
  BY DEF HandlerStep, AckEvent, DeviceHandler, UnassignedIrq,
         AppleAicV2EndOfInterrupt, FiqIpi, FiqIpiAck, FiqTimer,
         TimerEndOfInterrupt, TimerRearm, FiqPmc, FiqPmcAck, Return, Running
<1>. QED
  BY <1>1, <1>2, <1>3

LEMMA MaskInitInv == Init => MaskInv
<1>. SUFFICES ASSUME Init PROVE MaskInv
  OBVIOUS
<1>1. 1 .. depth = {} /\ depth = 0 /\ phase = "reset" /\ vectors = {} /\ main = Idle
  BY DEF Init
<1>. QED
  BY <1>1, InitType DEF MaskInv, UnregisteredStaysMasked, ReadIsClaimed,
     EnableHasHandler, NoFramesBeforeStart, IdleBeforeStart, Idle

LEMMA MaskNextInv == MaskInv /\ [Next]_vars => MaskInv'
<1>. SUFFICES ASSUME MaskInv, [Next]_vars PROVE MaskInv'
  OBVIOUS
<1>1. TypeOK'
  BY NextType DEF MaskInv
<1>2. CASE MainStep
  BY <1>1, <1>2, MainMask DEF MaskInv
<1>3. CASE HandlerStep \/ TakeIrq \/ TakeFiq
  <2>1. UNCHANGED <<phase, vectors, main, handlers>>
    BY <1>3 DEF HandlerStep, AckEvent, DeviceHandler, UnassignedIrq,
           AppleAicV2EndOfInterrupt, FiqIpi, FiqIpiAck, FiqTimer,
           TimerEndOfInterrupt, TimerRearm, FiqPmc, FiqPmcAck, Return,
           TakeIrq, TakeFiq, Push, drvVars
  <2>2. HandlerStep => depth > 0
    BY DEF HandlerStep, AckEvent, DeviceHandler, UnassignedIrq,
           AppleAicV2EndOfInterrupt, FiqIpi, FiqIpiAck, FiqTimer,
           TimerEndOfInterrupt, TimerRearm, FiqPmc, FiqPmcAck, Return, Running
  <2>3. phase \notin {"reset", "failed", "exited"}
    BY <1>3, <2>2 DEF MaskInv, TypeOK, TakeIrq, TakeFiq, NoFramesBeforeStart, IdleBeforeStart
  <2>4. NoFramesBeforeStart' /\ IdleBeforeStart' /\ EnableHasHandler'
    BY <2>1, <2>3 DEF MaskInv, NoFramesBeforeStart, IdleBeforeStart, EnableHasHandler
  <2>. QED
    BY <1>1, <1>3, <2>4, FrameMask DEF MaskInv
<1>4. CASE Environment \/ UNCHANGED vars
  <2>1. UNCHANGED <<phase, vectors, main, handlers, hwMask, depth, frame>>
    BY <1>4 DEF Environment, DeviceAssert, DeviceWithdraw, FiqAssert, vars,
                hwVars, drvVars, cpuVars
  <2>. QED
    BY <1>1, <2>1 DEF MaskInv, UnregisteredStaysMasked, ReadIsClaimed, Claimed,
       Maskable, EnableHasHandler, NoFramesBeforeStart, IdleBeforeStart
<1>. QED
  BY <1>2, <1>3, <1>4 DEF Next

\* A line whose bit the driver's writes cover is unmasked only while it has a
\* handler, or while RegisterInterruptSource is giving it one or taking it away.
THEOREM UnregisteredStaysMaskedHolds == Spec => []UnregisteredStaysMasked
<1>1. MaskInv => UnregisteredStaysMasked
  BY DEF MaskInv
<1>. QED
  BY MaskInitInv, MaskNextInv, <1>1, PTL DEF Spec

----------------------------------------------------------------------------
\* The hand-off.  Once the loop has masked a line it stays masked: reads return
\* unmasked lines, so the activations that interrupt the loop end other ones,
\* and none is left when the next write is made.
Written(l) == main.op = "mask" => l \notin main.todo

WrittenStayMasked ==
    phase \in {"exiting", "off", "exited"} /\ exitEvent =>
        \A l \in Maskable \ {NoEvent} : Written(l) =>
            l \in hwMask /\ \A d \in 1 .. depth : frame[d].ev # l

HandOffInv ==
    /\ phase \in {"off", "exited"} /\ exitEvent => aicEnabled = FALSE
    /\ main.op \in {"mask", "off"} <=> phase = "exiting"
    /\ main.op = "enable" => phase = "installed"
    /\ WrittenStayMasked

\* Steps of the main context.
LEMMA MainHandOff ==
    ASSUME MaskInv, HandOffInv, MainStep
    PROVE  HandOffInv'
<1>. USE DEF HandOffInv
<1>z. depth = 0 /\ depth' = 0
  BY DEF MainStep, AppleAicV2DxeInit, CpuArchProtocolNotify, RegisterHandler,
         UnregisterHandler, AppleAicV2UnmaskInterrupt, AppleAicV2MaskInterrupt,
         ExitBootServicesAck, ExitBootServicesMask, ExitBootServicesDisable, HandOver,
         SetTimerPeriod, RaiseTpl, SerialPortWrite, InMain, cpuVars,
         MaskInv, NoFramesBeforeStart
<1>0. 1 .. depth' = {}
  BY <1>z
<1>1. CASE AppleAicV2DxeInit
  BY <1>1 DEF AppleAicV2DxeInit, WrittenStayMasked
<1>2. CASE CpuArchProtocolNotify
  BY <1>2 DEF CpuArchProtocolNotify, WrittenStayMasked
<1>3. CASE \E s \in Sources : RegisterHandler(s)
  BY <1>3 DEF RegisterHandler, WrittenStayMasked, Idle
<1>4. CASE \E l \in Lines : UnregisterHandler(l)
  <2>1. /\ UNCHANGED <<phase, exitEvent, hwMask, aicEnabled>>
        /\ main.op = "idle" /\ main'.op = "disable"
    BY <1>4 DEF UnregisterHandler, hwVars, Idle
  <2>2. WrittenStayMasked'
    BY <1>0, <2>1 DEF WrittenStayMasked, Written, Maskable
  <2>. QED
    BY <2>1, <2>2
<1>5. CASE AppleAicV2UnmaskInterrupt
  <2>1. phase' = "installed" /\ main' = Idle
    BY <1>5 DEF AppleAicV2UnmaskInterrupt
  <2>. QED
    BY <1>5, <2>1 DEF WrittenStayMasked, Idle
<1>6. CASE AppleAicV2MaskInterrupt
  <2>1. /\ UNCHANGED <<phase, exitEvent, aicEnabled>> /\ hwMask \subseteq hwMask'
        /\ main.op = "disable" /\ main'.op = "idle"
    BY <1>6 DEF AppleAicV2MaskInterrupt, Masking, Idle
  <2>2. WrittenStayMasked'
    BY <1>0, <2>1 DEF WrittenStayMasked, Written, Maskable
  <2>. QED
    BY <2>1, <2>2
<1>7. CASE ExitBootServicesAck
  <2>1. phase' = "exiting" /\ main' = [op |-> "mask", todo |-> Lines]
    BY <1>7 DEF ExitBootServicesAck
  <2>2. WrittenStayMasked'
    BY <2>1 DEF WrittenStayMasked, Written, Maskable
  <2>. QED
    BY <2>1, <2>2
<1>8. CASE ExitBootServicesMask
  <2>1. UNCHANGED <<phase, exitEvent, aicEnabled>> /\ main'.op \in {"mask", "off"}
    BY <1>8 DEF ExitBootServicesMask
  <2>2. ASSUME phase = "exiting", exitEvent, NEW l \in Maskable \ {NoEvent}, Written(l)'
        PROVE  l \in hwMask'
    <3>1. CASE main.todo = {}
      BY <1>8, <2>2, <3>1 DEF ExitBootServicesMask, WrittenStayMasked, Written
    <3>2. CASE main.todo # {}
      <4>1. PICK w \in main.todo : /\ hwMask' = Masking(w)
                                   /\ main' = [op |-> "mask", todo |-> main.todo \ {w}]
        BY <1>8, <3>2 DEF ExitBootServicesMask
      <4>2. CASE l = w
        BY <4>1, <4>2, <2>2 DEF Masking, Maskable
      <4>3. CASE l # w
        BY <1>8, <4>1, <4>3, <2>2 DEF ExitBootServicesMask, WrittenStayMasked, Written, Masking
      <4>. QED
        BY <4>2, <4>3
    <3>. QED
      BY <3>1, <3>2
  <2>3. phase = "exiting"
    BY <1>8 DEF ExitBootServicesMask
  <2>4. WrittenStayMasked'
    BY <1>0, <2>1, <2>2, <2>3 DEF WrittenStayMasked, Maskable
  <2>. QED
    BY <2>1, <2>3, <2>4
<1>9. CASE ExitBootServicesDisable
  <2>1. /\ phase = "exiting" /\ phase' = "off" /\ main.op = "off" /\ main'.op = "idle"
        /\ aicEnabled' = FALSE /\ UNCHANGED <<exitEvent, hwMask>>
    BY <1>9 DEF ExitBootServicesDisable, Idle
  <2>2. WrittenStayMasked'
    BY <1>0, <2>1 DEF WrittenStayMasked, Written, Maskable
  <2>. QED
    BY <2>1, <2>2
<1>10. CASE HandOver
  <2>1. /\ phase = "off" \/ exitEvent = FALSE
        /\ phase' = "exited" /\ main' = main /\ main.op = "idle"
        /\ UNCHANGED <<exitEvent, hwMask, aicEnabled>>
    BY <1>10 DEF HandOver, Idle, hwVars, MaskInv, TypeOK
  <2>2. WrittenStayMasked'
    BY <1>0, <2>1 DEF WrittenStayMasked, Written, Maskable
  <2>. QED
    BY <2>1, <2>2
<1>11. CASE (\E on \in BOOLEAN : SetTimerPeriod(on)) \/ RaiseTpl \/ SerialPortWrite
  <2>1. UNCHANGED <<phase, exitEvent, main, hwMask, aicEnabled>>
    BY <1>11 DEF SetTimerPeriod, RaiseTpl, SerialPortWrite, hwVars, drvVars
  <2>2. WrittenStayMasked'
    BY <1>0, <2>1 DEF WrittenStayMasked, Written, Maskable
  <2>. QED
    BY <2>1, <2>2
<1>. QED
  BY <1>1, <1>2, <1>3, <1>4, <1>5, <1>6, <1>7, <1>8, <1>9, <1>10, <1>11 DEF MainStep

\* Steps of an activation, and taking an exception.
LEMMA FrameHandOff ==
    ASSUME MaskInv, WrittenStayMasked, HandlerStep \/ TakeIrq \/ TakeFiq
    PROVE  WrittenStayMasked'
<1>0. UNCHANGED <<phase, exitEvent, main>>
  BY DEF HandlerStep, AckEvent, DeviceHandler, UnassignedIrq,
         AppleAicV2EndOfInterrupt, FiqIpi, FiqIpiAck, FiqTimer,
         TimerEndOfInterrupt, TimerRearm, FiqPmc, FiqPmcAck, Return,
         TakeIrq, TakeFiq, Push, drvVars
<1>t. TypeOK /\ MaxDepth \in Nat
  BY AicAssumption DEF MaskInv
<1>1. CASE TakeIrq \/ TakeFiq
  <2>1. PICK kind \in {"irq", "fiq"} : Push(kind)
    BY <1>1 DEF TakeIrq, TakeFiq
  <2>2. /\ depth' = depth + 1 /\ depth + 1 \in 1 .. MaxDepth /\ hwMask' = hwMask
        /\ frame'[depth + 1].ev = NoEvent
        /\ \A d \in 1 .. depth : frame'[d] = frame[d]
    BY <2>1, <1>t DEF Push, TypeOK, hwVars, Blank
  <2>3. \A d \in 1 .. depth' : d = depth + 1 \/ d \in 1 .. depth
    BY <1>t, <2>2 DEF TypeOK
  <2>. QED
    BY <1>0, <2>2, <2>3 DEF WrittenStayMasked, Written, Maskable
<1>2. ASSUME HandlerStep, depth > 0
      PROVE  WrittenStayMasked'
  <2>a. depth \in 1 .. MaxDepth /\ depth \in 1 .. depth /\ Top \in Frames
    BY <1>2, <1>t DEF TypeOK, Top
  <2>b. \A d \in 1 .. depth : d \in 1 .. MaxDepth /\ frame[d] \in Frames
    BY <1>t, <2>a DEF TypeOK
  <2>1. ASSUME NEW ev \in Events, NEW taken \in BOOLEAN, AckEvent(ev, taken)
        PROVE  WrittenStayMasked'
    <3>1. /\ depth' = depth /\ hwMask \subseteq hwMask'
          /\ \A d \in 1 .. depth : d # depth => frame'[d] = frame[d]
          /\ frame'[depth].ev = ev
      <4>1. PICK typed \in BOOLEAN, step \in IrqSteps \cup FiqSteps :
              frame' = [frame EXCEPT ![depth].ev = ev, ![depth].typed = typed,
                                     ![depth].held = taken, ![depth].step = step]
        BY <2>1, AckShape, ZenonT(60)
      <4>2. depth' = depth /\ hwMask \subseteq hwMask'
        BY <2>1 DEF AckEvent, ReadEvent
      <4>. QED
        BY <4>1, <4>2, <2>a, <2>b, <1>t DEF TypeOK, Frames
    <3>2. ev = NoEvent \/ ev \notin hwMask
      BY <2>1 DEF AckEvent, ReadEvent, Pending
    <3>. QED
      BY <1>0, <3>1, <3>2 DEF WrittenStayMasked, Written, Maskable
  <2>2. CASE AppleAicV2EndOfInterrupt
    <3>1. /\ depth' = depth
          /\ \A d \in 1 .. depth : frame'[d].ev = frame[d].ev
      BY <2>2, <2>a, <2>b, <1>t DEF AppleAicV2EndOfInterrupt, TypeOK, Frames
    <3>2. ASSUME NEW l \in Lines, l # Top.ev, l \in hwMask
          PROVE  l \in hwMask'
      <4>1. /\ NumIrqs \in Nat /\ MaxIrqs \in Nat /\ NumIrqs <= MaxIrqs
            /\ \A k \in Lines : k \in 0 .. NumIrqs - 1
        BY AicAssumption
      <4>2. Top.ev \in Lines \/ Top.ev = NoEvent
        BY <2>a DEF Frames, Events
      <4>3. Top.ev \in Nat /\ Top.ev < MaxIrqs
        BY <4>1, <4>2 DEF NoEvent
      <4>. QED
        BY <2>2, <3>2, <4>3, UnmaskingOnly DEF AppleAicV2EndOfInterrupt
    <3>. QED
      BY <1>0, <2>a, <3>1, <3>2 DEF WrittenStayMasked, Written, Maskable, Top
  <2>3. CASE Return
    <3>1. /\ hwMask' = hwMask
          /\ \A d \in 1 .. depth' : d \in 1 .. depth /\ frame'[d] = frame[d]
      BY <2>3, <2>a, <2>b, <1>t DEF Return, hwVars, TypeOK
    <3>. QED
      BY <1>0, <3>1 DEF WrittenStayMasked, Written, Maskable
  <2>4. ASSUME NEW step, Goto(step), UNCHANGED <<hwMask, depth>>
        PROVE  WrittenStayMasked'
    <3>1. \A d \in 1 .. depth : frame'[d].ev = frame[d].ev
      BY <2>4, <2>a, <2>b, <1>t DEF Goto, TypeOK, Frames
    <3>. QED
      BY <1>0, <2>4, <3>1 DEF WrittenStayMasked, Written, Maskable
  <2>5. CASE DeviceHandler \/ UnassignedIrq
    BY <2>5, <2>4 DEF DeviceHandler, UnassignedIrq, hwVars
  <2>6. CASE FiqIpi
    BY <2>6, <2>4 DEF FiqIpi, hwVars
  <2>7. CASE FiqIpiAck \/ TimerEndOfInterrupt \/ TimerRearm
    BY <2>7, <2>4 DEF FiqIpiAck, TimerEndOfInterrupt, TimerRearm
  <2>8. CASE FiqTimer
    BY <2>8, <2>4 DEF FiqTimer, hwVars
  <2>9. CASE FiqPmc \/ FiqPmcAck
    BY <2>9, <2>4 DEF FiqPmc, FiqPmcAck, hwVars
  <2>. QED
    BY <1>2, <2>1, <2>2, <2>3, <2>5, <2>6, <2>7, <2>8, <2>9 DEF HandlerStep
<1>3. HandlerStep => depth > 0
  BY DEF HandlerStep, AckEvent, DeviceHandler, UnassignedIrq,
         AppleAicV2EndOfInterrupt, FiqIpi, FiqIpiAck, FiqTimer,
         TimerEndOfInterrupt, TimerRearm, FiqPmc, FiqPmcAck, Return, Running
<1>. QED
  BY <1>1, <1>2, <1>3

\* Every line the driver can mask is handed over masked, and the controller off,
\* whatever interrupts are taken between the writes of the loop.
THEOREM HandOffMaskedHolds == Spec => []HandOffMasked
<1>1. Init => HandOffInv
  BY DEF Init, Idle, HandOffInv, WrittenStayMasked
<1>2. MaskInv /\ HandOffInv /\ [Next]_vars => HandOffInv'
  <2>. SUFFICES ASSUME MaskInv, HandOffInv, [Next]_vars PROVE HandOffInv'
    OBVIOUS
  <2>1. CASE MainStep
    BY <2>1, MainHandOff
  <2>2. CASE HandlerStep \/ TakeIrq \/ TakeFiq
    <3>1. UNCHANGED <<phase, exitEvent, main, aicEnabled>>
      BY <2>2 DEF HandlerStep, AckEvent, DeviceHandler, UnassignedIrq,
         AppleAicV2EndOfInterrupt, FiqIpi, FiqIpiAck, FiqTimer,
         TimerEndOfInterrupt, TimerRearm, FiqPmc, FiqPmcAck, Return,
         TakeIrq, TakeFiq, Push, drvVars, hwVars
    <3>. QED
      BY <2>2, <3>1, FrameHandOff DEF HandOffInv
  <2>3. CASE Environment \/ UNCHANGED vars
    <3>1. UNCHANGED <<phase, exitEvent, main, aicEnabled, hwMask, depth, frame>>
      BY <2>3 DEF Environment, DeviceAssert, DeviceWithdraw, FiqAssert, vars,
                  hwVars, drvVars, cpuVars
    <3>2. WrittenStayMasked'
      BY <3>1 DEF HandOffInv, WrittenStayMasked, Written, Maskable
    <3>. QED
      BY <3>1, <3>2 DEF HandOffInv
  <2>. QED
    BY <2>1, <2>2, <2>3 DEF Next
<1>3. HandOffInv => HandOffMasked
  BY DEF HandOffInv, HandOffMasked, WrittenStayMasked, Written
<1>. QED
  BY <1>1, <1>2, <1>3, MaskInitInv, MaskNextInv, PTL DEF Spec

----------------------------------------------------------------------------
(* The register arithmetic that MaskTargets abstracts: AicRegsCheck's walk *)
(* over the sources, for every size of the controller and number of dies.  *)

LEMMA ModRange ==
    ASSUME NEW s \in Nat, NEW m \in Nat, m > 0
    PROVE  s % m \in 0 .. m - 1
  OBVIOUS

\* A word index stays below the length of a block.
LEMMA MaskRegRange ==
    ASSUME NEW m \in Nat, m % 32 = 0, NEW irq \in 0 .. m - 1
    PROVE  MaskReg(irq) \in Nat /\ MaskReg(irq) + 4 <= BlockLen(m)
<1>1. irq \div 32 \in Nat /\ m \div 32 \in Nat
  OBVIOUS
<1>2. irq \div 32 < m \div 32
  <2>1. m = 32 * (m \div 32)
    OBVIOUS
  <2>2. irq >= 32 * (irq \div 32)
    OBVIOUS
  <2>. QED
    BY <1>1, <2>1, <2>2
<1>. QED
  BY <1>1, <1>2 DEF MaskReg, BlockLen

LEMMA BlockOf ==
    ASSUME NEW m \in Nat, m > 0, m % 32 = 0, NEW s \in Nat, NEW block \in Nat
    PROVE  LET die == (s \div m) * DieStride(m)
           IN  /\ die \in Int
               /\ block + die <= SourceReg(block, s, m)
               /\ SourceReg(block, s, m) + 4 <= block + BlockLen(m) + die
<1>1. s % m \in 0 .. m - 1
  BY ModRange
<1>2. MaskReg(s % m) \in Nat /\ MaskReg(s % m) + 4 <= BlockLen(m)
  BY <1>1, MaskRegRange
<1>3. BlockLen(m) \in Nat
  BY DEF BlockLen
<1>4. DieStride(m) \in Int
  BY <1>3 DEF DieStride, HwStateOffset, MaskClrOffset, MaskSetOffset,
              SwClrOffset, SwSetOffset, IrqCfgOffset
<1>5. s \div m \in Int
  OBVIOUS
<1>6. (s \div m) * DieStride(m) \in Int
  BY <1>4, <1>5
<1>. QED
  BY <1>2, <1>3, <1>6 DEF SourceReg

\* No mask or unmask write leaves its block or its die, whatever the number of
\* supported IRQs (a multiple of 32), of dies, and the source.
THEOREM MaskStaysInBlockHolds == SourceSpec => []MaskStaysInBlock
<1> DEFINE Typed == maxIrqs \in Sizes /\ source \in Nat
<1>1. InitSource => Typed
  BY DEF InitSource
<1>2. Typed /\ [NextSource]_sourceVars => Typed'
  BY DEF NextSource, sourceVars
<1>3. Typed => MaskStaysInBlock
  <2>. SUFFICES ASSUME Typed PROVE MaskStaysInBlock
    OBVIOUS
  <2>1. maxIrqs \in Nat /\ maxIrqs > 0 /\ maxIrqs % 32 = 0
    BY SizesAssumption
  <2>2. BlockLen(maxIrqs) \in Nat
    BY <2>1 DEF BlockLen
  <2>3. MaskSetOffset(maxIrqs) \in Nat /\ MaskClrOffset(maxIrqs) \in Nat
    BY <2>1, <2>2 DEF MaskClrOffset, MaskSetOffset, SwClrOffset, SwSetOffset, IrqCfgOffset
  <2> DEFINE die == (source \div maxIrqs) * DieStride(maxIrqs)
  <2>4. /\ die \in Int
        /\ MaskSetOffset(maxIrqs) + die <= SourceReg(MaskSetOffset(maxIrqs), source, maxIrqs)
        /\ SourceReg(MaskSetOffset(maxIrqs), source, maxIrqs) + 4
             <= MaskSetOffset(maxIrqs) + BlockLen(maxIrqs) + die
    BY <2>1, <2>3, BlockOf
  <2>5. /\ MaskClrOffset(maxIrqs) + die <= SourceReg(MaskClrOffset(maxIrqs), source, maxIrqs)
        /\ SourceReg(MaskClrOffset(maxIrqs), source, maxIrqs) + 4
             <= MaskClrOffset(maxIrqs) + BlockLen(maxIrqs) + die
    BY <2>1, <2>3, BlockOf
  <2>6. /\ MaskSetOffset(maxIrqs) = SwClrOffset(maxIrqs) + BlockLen(maxIrqs)
        /\ MaskClrOffset(maxIrqs) = MaskSetOffset(maxIrqs) + BlockLen(maxIrqs)
    BY DEF MaskSetOffset, MaskClrOffset
  <2>7. IrqCfgOffset + DieStride(maxIrqs)
          = MaskClrOffset(maxIrqs) + BlockLen(maxIrqs) + BlockLen(maxIrqs)
    BY <2>2, <2>3 DEF DieStride, HwStateOffset, IrqCfgOffset
  <2>8. SourceReg(MaskSetOffset(maxIrqs), source, maxIrqs) \in Int
        /\ SourceReg(MaskClrOffset(maxIrqs), source, maxIrqs) \in Int
    <3>1. MaskReg(source % maxIrqs) \in Int
      BY <2>1, ModRange, MaskRegRange
    <3>. QED
      BY <2>3, <2>4, <3>1 DEF SourceReg
  <2>. HIDE DEF die
  <2>9. /\ SwClrOffset(maxIrqs) + BlockLen(maxIrqs) + die
             <= SourceReg(MaskSetOffset(maxIrqs), source, maxIrqs)
        /\ SourceReg(MaskSetOffset(maxIrqs), source, maxIrqs) + 4
             <= MaskClrOffset(maxIrqs) + die
        /\ MaskClrOffset(maxIrqs) + die
             <= SourceReg(MaskClrOffset(maxIrqs), source, maxIrqs)
        /\ SourceReg(MaskClrOffset(maxIrqs), source, maxIrqs) + 4
             <= IrqCfgOffset + DieStride(maxIrqs) + die
    <3>1. IrqCfgOffset + DieStride(maxIrqs) + die
            = MaskClrOffset(maxIrqs) + BlockLen(maxIrqs) + BlockLen(maxIrqs) + die
      BY <2>7
    <3>. QED
      BY <2>2, <2>3, <2>4, <2>5, <2>6, <2>8, <3>1
  <2>. QED
    BY <2>9 DEF MaskStaysInBlock, die
<1>. QED
  BY <1>1, <1>2, <1>3, PTL DEF SourceSpec
=============================================================================
