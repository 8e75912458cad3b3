-------------------------- MODULE Peripherals_proofs --------------------------
(* For any number of PCIe ports, Type-C controllers, DARTs and streams, and   *)
(* whatever the hardware answers: a port takes its slot's reset off only with *)
(* its clocks, a link is trained only on a port that is ready, no DART is left *)
(* half programmed, m1n1's own controllers are not touched, a controller that *)
(* is published can reach memory, and one that runs from its code memory      *)
(* finds the whole firmware there.                                            *)
EXTENDS Peripherals, TLAPS

PhaseNames == {"dart", "gpio", "pcie", "typec", "endofdxe", "bds"}

DispatchOk == machine \in Machines /\ halted \in BOOLEAN /\ running \in PhaseNames

LEMMA FollowingFacts ==
  ASSUME NEW p \in PhaseNames \ {"bds"}
  PROVE  /\ Following(p) \in PhaseNames \ {"dart"}
         /\ p # "dart" => Following(p) # "gpio"
  <1> DEFINE at == CHOOSE i \in DOMAIN Phases : Phases[i] = p
             later == {i \in DOMAIN Phases : i > at
                         /\ Phases[i] \in machine.packaged \cup {"endofdxe", "bds"}}
  <1>1. /\ DOMAIN Phases = 1 .. 6
        /\ Phases[1] = "dart" /\ Phases[2] = "gpio" /\ Phases[3] = "pcie"
        /\ Phases[4] = "typec" /\ Phases[5] = "endofdxe" /\ Phases[6] = "bds"
    BY DEF Phases
  <1>2. \E i \in DOMAIN Phases : Phases[i] = p
    BY <1>1 DEF PhaseNames
  <1>3. at \in 1 .. 5 /\ (p # "dart" => at # 1)
    <2>1. at \in DOMAIN Phases /\ Phases[at] = p
      BY <1>2
    <2> HIDE DEF at
    <2>2. p # "bds"
      OBVIOUS
    <2>3. at # 6 /\ (p # "dart" => at # 1)
      BY <1>1, <2>1, <2>2
    <2>4. at \in 1 .. 6
      BY <1>1, <2>1
    <2> QED BY <2>3, <2>4
  <1> HIDE DEF at
  <1>4. later \subseteq 2 .. 6 /\ 6 \in later /\ (p # "dart" => 2 \notin later)
    BY <1>1, <1>3
  <1> HIDE DEF later
  <1>5. \E i \in later : \A j \in later : i =< j
    <2>1. CASE 2 \in later BY <1>4, <2>1
    <2>2. CASE 2 \notin later /\ 3 \in later BY <1>4, <2>2
    <2>3. CASE 2 \notin later /\ 3 \notin later /\ 4 \in later BY <1>4, <2>3
    <2>4. CASE 2 \notin later /\ 3 \notin later /\ 4 \notin later /\ 5 \in later
      BY <1>4, <2>4
    <2>5. CASE 2 \notin later /\ 3 \notin later /\ 4 \notin later /\ 5 \notin later
      <3>1. \A j \in later : j \in 2 .. 6 /\ j # 2 /\ j # 3 /\ j # 4 /\ j # 5
        BY <1>4, <2>5
      <3>2. \A j \in later : 6 =< j
        BY <3>1
      <3> QED BY <1>4, <3>2, Zenon
    <2> QED BY <2>1, <2>2, <2>3, <2>4, <2>5
  <1>6. (CHOOSE i \in later : \A j \in later : i =< j) \in later
    BY <1>5
  <1>7. Following(p) = Phases[CHOOSE i \in later : \A j \in later : i =< j]
    BY DEF Following, at, later
  <1>8. PICK n \in later : Following(p) = Phases[n]
    BY <1>6, <1>7, Zenon
  <1>9. (n = 2 /\ p = "dart") \/ n = 3 \/ n = 4 \/ n = 5 \/ n = 6
    BY <1>4
  <1> QED BY <1>1, <1>8, <1>9 DEF PhaseNames

\* A driver's step either stays in it, or ends it, or stops the machine.
LEMMA DispatchSteps ==
  ASSUME DispatchOk
  PROVE  /\ Stay => DispatchOk' /\ machine' = machine /\ running' = running
         /\ AssertFails \/ Faults => DispatchOk' /\ machine' = machine /\ running' = running
         /\ running # "bds" /\ Return =>
               /\ DispatchOk' /\ machine' = machine /\ running' # "dart"
               /\ running # "dart" => running' # "gpio"
  BY FollowingFacts DEF DispatchOk, Stay, AssertFails, Faults, Return, dispatchVars

LEMMA DartDispatch ==
  ASSUME DispatchOk, Dart
  PROVE  DispatchOk' /\ machine' = machine /\ (running' = running \/ running' # "dart")
  <1> USE DispatchSteps DEF On
  <1>1. CASE DartVendor BY <1>1 DEF DartVendor
  <1>2. CASE DartLookup BY <1>2 DEF DartLookup
  <1>3. CASE DartSelect BY <1>3 DEF DartSelect
  <1>4. CASE DartClearTcrs BY <1>4 DEF DartClearTcrs
  <1>5. CASE DartClearTtbrs BY <1>5 DEF DartClearTtbrs
  <1>6. CASE DartTlbFlush BY <1>6 DEF DartTlbFlush
  <1>7. CASE DartBypassMode BY <1>7 DEF DartBypassMode
  <1> QED BY <1>1, <1>2, <1>3, <1>4, <1>5, <1>6, <1>7 DEF Dart, DartStep

LEMMA UsbDispatch ==
  ASSUME DispatchOk, Usb
  PROVE  /\ DispatchOk' /\ machine' = machine /\ running' # "dart"
         /\ running' = "gpio" => running = "gpio"
  <1> USE DispatchSteps DEF On, InCallback, OnlyUsb
  <1>1. CASE UsbInitialize BY <1>1 DEF UsbInitialize
  <1>2. CASE UsbSignal BY <1>2 DEF UsbSignal
  <1>3. CASE UsbSelect BY <1>3 DEF UsbSelect
  <1>4. CASE Dwc3Identify BY <1>4 DEF Dwc3Identify
  <1>5. CASE Dwc3ControllerSoftReset BY <1>5 DEF Dwc3ControllerSoftReset
  <1>6. CASE Dwc3XhciCoreInit BY <1>6 DEF Dwc3XhciCoreInit
  <1>7. CASE Dwc3AppleSetupCio BY <1>7 DEF Dwc3AppleSetupCio
  <1>8. CASE Dwc3SetMode BY <1>8 DEF Dwc3SetMode
  <1>9. CASE Dwc3SetFladj BY <1>9 DEF Dwc3SetFladj
  <1>10. CASE RegisterDevice BY <1>10 DEF RegisterDevice
  <1> QED BY <1>1, <1>2, <1>3, <1>4, <1>5, <1>6, <1>7, <1>8, <1>9, <1>10 DEF Usb, UsbStep

LEMMA PcieDispatch ==
  ASSUME DispatchOk, Pcie
  PROVE  /\ DispatchOk' /\ machine' = machine /\ running' # "dart"
         /\ running' = "gpio" => running = "gpio"
  <1> USE DispatchSteps DEF On, InPort, Proceed, PortFails, DrivePerst
  <1>1. CASE GpioInitialize BY <1>1 DEF GpioInitialize
  <1>2. CASE PcieBegin BY <1>2 DEF PcieBegin
  <1>3. CASE PcieAssertPerst BY <1>3 DEF PcieAssertPerst
  <1>4. CASE PcieRequestRefclk0 BY <1>4 DEF PcieRequestRefclk0
  <1>5. CASE PcieWaitRefclk0 BY <1>5 DEF PcieWaitRefclk0
  <1>6. CASE PcieWaitRefclk1 BY <1>6 DEF PcieWaitRefclk1
  <1>7. CASE PcieEnableRefclk BY <1>7 DEF PcieEnableRefclk
  <1>8. CASE PcieReleasePerst BY <1>8 DEF PcieReleasePerst
  <1>9. CASE PcieWaitReady BY <1>9 DEF PcieWaitReady
  <1>10. CASE PcieFinishPort BY <1>10 DEF PcieFinishPort
  <1>11. CASE PcieReturn BY <1>11 DEF PcieReturn
  <1> QED BY <1>1, <1>2, <1>3, <1>4, <1>5, <1>6, <1>7, <1>8, <1>9, <1>10, <1>11
          DEF Pcie, PcieStep

LEMMA FirmwareDispatch ==
  ASSUME DispatchOk, Firmware
  PROVE  /\ DispatchOk' /\ machine' = machine /\ running' # "dart"
         /\ running' = "gpio" => running = "gpio"
  <1>1. (Stay \/ AssertFails) /\ running = "bds"
    <2> USE DEF On, InSupported, Goes, OkGoes, Asking, MailboxFails, WaitReset, WriteRegisters
    <2>1. CASE ConnectAll \/ OfferDevice \/ FirmwareIdentify
      BY <2>1 DEF ConnectAll, OfferDevice, FirmwareIdentify
    <2>2. CASE SendMessage \/ ReceiveMessage
      BY <2>2 DEF SendMessage, ReceiveMessage
    <2>3. CASE CheckFirmwareIsLoaded \/ VerifyFirmware
      BY <2>3 DEF CheckFirmwareIsLoaded, VerifyFirmware
    <2>4. CASE LoadFirmwareReset
      BY <2>4 DEF LoadFirmwareReset
    <2>5. CASE LoadFirmwareHalt
      BY <2>5 DEF LoadFirmwareHalt
    <2>6. CASE LoadFirmwareWrite \/ LoadFirmwarePoll
      BY <2>6 DEF LoadFirmwareWrite, LoadFirmwarePoll
    <2>7. CASE LoadFirmwareRun
      BY <2>7 DEF LoadFirmwareRun
    <2>8. CASE LoadFirmwareRestart
      BY <2>8 DEF LoadFirmwareRestart
    <2>9. CASE CloseProtocolAndExit \/ XhciTakesOver
      BY <2>9 DEF CloseProtocolAndExit, XhciTakesOver
    <2> QED BY <2>1, <2>2, <2>3, <2>4, <2>5, <2>6, <2>7, <2>8, <2>9
            DEF Firmware, FirmwareStep
  <1> QED BY <1>1, DispatchSteps

LEMMA HardwareDispatch ==
  ASSUME DispatchOk, Hardware
  PROVE  DispatchOk' /\ machine' = machine /\ running' = running
  BY DispatchSteps DEF Hardware, DartFlushes, DartHardware, PcieAnswers, PcieHardware,
     AsmediaAccepts

\* Every step: the machine is fixed, and the first two drivers never start again.
LEMMA NextDispatch ==
  ASSUME DispatchOk, [Next]_vars
  PROVE  /\ DispatchOk' /\ machine' = machine
         /\ running # "dart" => running' # "dart"
         /\ running' \in {"dart", "gpio"} => running \in {"dart", "gpio"}
  <1>1. CASE Dart BY <1>1, DartDispatch DEF Dart, DartStep, DartVendor, DartLookup,
        DartSelect, DartClearTcrs, DartClearTtbrs, DartTlbFlush, DartBypassMode, On
  <1>2. CASE Usb BY <1>2, UsbDispatch
  <1>3. CASE Pcie BY <1>3, PcieDispatch
  <1>4. CASE Firmware BY <1>4, FirmwareDispatch
  <1>5. CASE Hardware BY <1>5, HardwareDispatch
  <1>6. CASE UNCHANGED vars BY <1>6 DEF vars, dispatchVars, DispatchOk
  <1> QED BY <1>1, <1>2, <1>3, <1>4, <1>5, <1>6 DEF Next

-----------------------------------------------------------------------------

\* The root ports: what the set-up of a port has established at each step.
PcieSteps == {"begin", "assert", "phy", "ack0", "ack1", "refclk", "release", "ready", "link"}
LaneSet == [appclk : {"off", "on", "gated"}, phyAccess : BOOLEAN,
            req0 : BOOLEAN, ack0 : BOOLEAN, req1 : BOOLEAN, ack1 : BOOLEAN,
            refclk : BOOLEAN, portRefclk : BOOLEAN, perstOff : BOOLEAN,
            ready : BOOLEAN, training : BOOLEAN, link : BOOLEAN, gated : BOOLEAN,
            outcome : {"none", "failed", "up", "down"}]
PinSet == [mode : {"in", "out"}, data : {0, 1}, pull : {"up", "off"}]

PcieTypes ==
  /\ gpio \in [installed : BOOLEAN, count : Nat]
  /\ pin \in [Pins -> PinSet]
  /\ pciePort \in Nat /\ pciePort =< machine.ports
  /\ pcieStep \in PcieSteps
  /\ lane \in [Ports -> LaneSet]

PinHigh(p) == GpioFound(ResetPin(p)) => /\ pin[ResetPin(p)].mode = "out"
                                        /\ pin[ResetPin(p)].data = 1

\* A port out of reset, or in training, has all it needs.
PortSafe(p) ==
  /\ lane[p].perstOff =>
       /\ lane[p].ack0 /\ lane[p].ack1 /\ lane[p].refclk
       /\ lane[p].appclk # "off" /\ ~lane[p].phyAccess
  /\ lane[p].training => lane[p].ready /\ lane[p].perstOff /\ PinHigh(p)
  /\ lane[p].gated => lane[p].training

\* What is known of the port being set up, from the step it is at.
PortProgress ==
  LET l == lane[pciePort] IN
  /\ pcieStep # "begin" => l.appclk # "off"
  /\ pcieStep \in {"ack1", "refclk", "release", "ready", "link"} => l.ack0
  /\ pcieStep \in {"refclk", "release", "ready", "link"} => l.ack1
  /\ pcieStep \in {"release", "ready", "link"} => l.refclk /\ ~l.phyAccess
  /\ l.perstOff => pcieStep \in {"release", "ready", "link"}
  /\ pcieStep \in {"ready", "link"} => l.perstOff /\ PinHigh(pciePort)
  /\ l.training <=> pcieStep = "link"

\* The ports that are still to come.
PortUntouched(p) == ~lane[p].perstOff /\ ~lane[p].training /\ ~lane[p].gated

PcieInv ==
  /\ PcieTypes
  /\ \A p \in Ports : PortSafe(p)
  /\ pciePort \in Ports => PortProgress
  /\ \A p \in Ports : p > pciePort => PortUntouched(p)
  /\ pciePort \notin Ports => pcieStep = "begin"

\* No port is set up before the pins' driver has come to its end.
PcieLater ==
  running \in {"dart", "gpio"} =>
    pciePort = 0 /\ pcieStep = "begin" /\ \A p \in Ports : PortUntouched(p)

LEMMA PcieInit0 ==
  ASSUME Init
  PROVE  DispatchOk /\ PcieInv /\ PcieLater
  <1>1. machine \in Machines /\ DispatchOk
    BY DEF Init, DispatchInit, DispatchOk, PhaseNames
  <1>2. machine.ports \in Nat
    BY <1>1, MachinesAssumption
  <1>3. IdleLane \in LaneSet /\ ~IdleLane.perstOff /\ ~IdleLane.training /\ ~IdleLane.gated
    BY DEF IdleLane, LaneSet
  <1>4. \A p \in Ports : lane[p] = IdleLane
    BY DEF Init, PcieInit
  <1>5. PcieTypes
    BY <1>2, <1>3 DEF Init, PcieInit, PcieTypes, PcieSteps, PinSet
  <1>6. \A p \in Ports : PortSafe(p) /\ PortUntouched(p)
    BY <1>3, <1>4 DEF PortSafe, PortUntouched
  <1>7. pciePort \in Ports => PortProgress
    BY <1>3, <1>4 DEF Init, PcieInit, PortProgress
  <1> QED BY <1>1, <1>5, <1>6, <1>7 DEF PcieInv, PcieLater, Init, PcieInit

LEMMA PortsAreNaturals ==
  ASSUME DispatchOk
  PROVE  /\ machine.ports \in Nat
         /\ \A p \in Ports : p \in Nat /\ ResetPin(p) \in Pins
         /\ \A p, q \in Ports : ResetPin(p) = ResetPin(q) => p = q
  <1>1. machine.ports \in Nat
    BY MachinesAssumption DEF DispatchOk
  <1> QED BY <1>1 DEF Ports, Pins, ResetPin

\* A step of the set-up of one port says nothing about the others.
LEMMA OnePort ==
  ASSUME DispatchOk, PcieInv, machine' = machine,
         NEW n \in Ports, pciePort = n,
         NEW l \in LaneSet, lane' = [lane EXCEPT ![pciePort] = l],
         NEW q \in PinSet,
         \/ pin' = pin
         \/ pin' = [pin EXCEPT ![ResetPin(pciePort)] = q],
         gpio' = gpio, pcieStep' \in PcieSteps, PortSafe(n)'
  PROVE  /\ pciePort' = pciePort /\ PortProgress' => PcieInv'
         /\ pciePort' = pciePort + 1 /\ pcieStep' = "begin" => PcieInv'
  <1>1. /\ Ports' = Ports /\ Pins' = Pins
        /\ \A p \in Ports : ResetPin(p)' = ResetPin(p)
    BY DEF Ports, Pins, ResetPin
  <1>2. lane \in [Ports -> LaneSet] /\ pin \in [Pins -> PinSet]
    BY DEF PcieInv, PcieTypes
  <1>3. lane' \in [Ports -> LaneSet] /\ pin' \in [Pins -> PinSet]
    BY <1>2, PortsAreNaturals
  <1>4. \A p \in Ports \ {pciePort} :
           lane'[p] = lane[p] /\ pin'[ResetPin(p)] = pin[ResetPin(p)]
    BY <1>2, PortsAreNaturals
  <1>5. \A p \in Ports \ {pciePort} : PortSafe(p)' /\ (PortUntouched(p) => PortUntouched(p)')
    BY <1>1, <1>4 DEF PcieInv, PortSafe, PortUntouched, PinHigh, GpioFound
  <1>6. \A p \in Ports : PortSafe(p)'
    BY <1>5
  <1>7. pciePort \in Nat /\ machine.ports \in Nat /\ pciePort < machine.ports
    BY PortsAreNaturals DEF Ports
  <1>8. ASSUME pciePort' = pciePort, PortProgress'
        PROVE  PcieInv'
    <2>1. PcieTypes'
      BY <1>1, <1>3, <1>8 DEF PcieInv, PcieTypes
    <2>2. \A p \in Ports : p > pciePort => PortUntouched(p)'
      BY <1>5, <1>7, PortsAreNaturals DEF PcieInv
    <2> QED BY <1>1, <1>6, <1>8, <2>1, <2>2 DEF PcieInv
  <1>9. ASSUME pciePort' = pciePort + 1, pcieStep' = "begin"
        PROVE  PcieInv'
    <2>1. PcieTypes'
      BY <1>1, <1>3, <1>7, <1>9 DEF PcieInv, PcieTypes
    <2>2. \A p \in Ports : p > pciePort => PortUntouched(p)'
      BY <1>5, <1>7, PortsAreNaturals DEF PcieInv
    <2>3. \A p \in Ports : p > pciePort + 1 => p > pciePort
      BY <1>7, PortsAreNaturals
    <2>4. pciePort + 1 > pciePort
      BY <1>7
    <2>5. ASSUME pciePort + 1 \in Ports
          PROVE  PortProgress'
      <3>1. PICK m \in Ports : m = pciePort + 1
        BY <2>5
      <3>2. PortUntouched(m)' /\ pciePort' = m
        BY <1>9, <2>2, <2>4, <3>1
      <3>3. ~lane'[m].perstOff /\ ~lane'[m].training
        BY <3>2 DEF PortUntouched
      <3>4. pcieStep' = "begin"
        BY <1>9
      <3> QED BY <3>2, <3>3, <3>4 DEF PortProgress
    <2> QED BY <1>1, <1>6, <1>9, <2>1, <2>2, <2>3, <2>5 DEF PcieInv
  <1> QED BY <1>8, <1>9

LEMMA UnchangedPcie ==
  ASSUME PcieInv, machine' = machine, UNCHANGED pcieVars
  PROVE  PcieInv'
  <1>1. /\ Ports' = Ports /\ Pins' = Pins
        /\ \A p \in Ports : ResetPin(p)' = ResetPin(p)
    BY DEF Ports, Pins, ResetPin
  <1> QED BY <1>1 DEF PcieInv, PcieTypes, PortSafe, PortProgress, PortUntouched, PinHigh, GpioFound,
              pcieVars

LEMMA FailedPort ==
  ASSUME DispatchOk, PcieInv, machine' = machine, NEW n \in Ports, pciePort = n,
         PortFails, pin' = pin
  PROVE  PcieInv'
  <1> DEFINE l == [lane[n] EXCEPT !.outcome = "failed"]
  <1>1. lane \in [Ports -> LaneSet] /\ lane[n] \in LaneSet /\ pin \in [Pins -> PinSet]
    BY DEF PcieInv, PcieTypes
  <1>2. l \in LaneSet /\ lane' = [lane EXCEPT ![pciePort] = l]
    BY <1>1 DEF LaneSet, PortFails
  <1>3. lane'[n] = l
    BY <1>1, <1>2
  <1>4. /\ PortSafe(n)'
        /\ pciePort' = n /\ pcieStep' = pcieStep => PortProgress'
    <2>1. /\ l.appclk = lane[n].appclk /\ l.phyAccess = lane[n].phyAccess
          /\ l.ack0 = lane[n].ack0 /\ l.ack1 = lane[n].ack1
          /\ l.refclk = lane[n].refclk /\ l.perstOff = lane[n].perstOff
          /\ l.ready = lane[n].ready /\ l.training = lane[n].training
          /\ l.gated = lane[n].gated
      BY <1>1 DEF LaneSet
    <2> HIDE DEF l
    <2>2. PortSafe(n) /\ PortProgress /\ ResetPin(n)' = ResetPin(n) /\ gpio' = gpio
      BY DEF PcieInv, ResetPin, PortFails
    <2>3. PinHigh(n)' <=> PinHigh(n)
      BY <2>2 DEF PinHigh, GpioFound
    <2>4. PortSafe(n)'
      BY <1>3, <2>1, <2>2, <2>3 DEF PortSafe
    <2>5. ASSUME pciePort' = n, pcieStep' = pcieStep
          PROVE  PortProgress'
      <3>1. PinHigh(pciePort)' <=> PinHigh(pciePort)
        BY <2>2, <2>5 DEF PinHigh, GpioFound, ResetPin
      <3> QED BY <1>3, <2>1, <2>2, <2>5, <3>1 DEF PortProgress
    <2> QED BY <2>4, <2>5
  <1> HIDE DEF l
  <1>5. \/ pciePort' = pciePort /\ pcieStep' = pcieStep
        \/ pciePort' = pciePort + 1 /\ pcieStep' = "begin"
    BY DEF PortFails
  <1>6. gpio' = gpio /\ pcieStep' \in PcieSteps
    BY <1>5 DEF PortFails, PcieInv, PcieTypes, PcieSteps
  <1>7. pin[ResetPin(n)] \in PinSet
    BY <1>1, PortsAreNaturals
  <1> QED
    <2>1. pciePort' = pciePort /\ PortProgress' => PcieInv'
      BY <1>2, <1>4, <1>6, <1>7, OnePort
    <2>2. pciePort' = pciePort + 1 /\ pcieStep' = "begin" => PcieInv'
      BY <1>2, <1>4, <1>6, <1>7, OnePort
    <2> QED BY <1>4, <1>5, <2>1, <2>2

\* The step of a port that goes on to its next step.
LEMMA GoodPort ==
  ASSUME DispatchOk, PcieInv, machine' = machine, NEW n \in Ports, pciePort = n,
         NEW l \in LaneSet, lane' = [lane EXCEPT ![n] = l],
         pin' = pin, gpio' = gpio, pciePort' = pciePort, pcieStep' \in PcieSteps,
         lane'[n] = l => PortSafe(n)' /\ PortProgress'
  PROVE  PcieInv'
  <1>1. lane \in [Ports -> LaneSet] /\ pin \in [Pins -> PinSet]
    BY DEF PcieInv, PcieTypes
  <1>2. lane'[n] = l /\ pin[ResetPin(n)] \in PinSet
    BY <1>1, PortsAreNaturals
  <1> QED BY <1>2, OnePort

LEMMA PcieBeginInv ==
  ASSUME DispatchOk, PcieInv, machine' = machine, NEW n \in Ports, pciePort = n, PcieBegin
  PROVE  PcieInv'
  <1>1. /\ lane \in [Ports -> LaneSet] /\ lane[n] \in LaneSet
        /\ PortSafe(n) /\ PortProgress /\ ResetPin(n)' = ResetPin(n)
    BY DEF PcieInv, PcieTypes, ResetPin
  <1>2. CASE gpio.installed /\ n \in machine.perst
    <2> DEFINE l == [lane[n] EXCEPT !.appclk = "on"]
    <2>1. l \in LaneSet /\ lane' = [lane EXCEPT ![n] = l]
      BY <1>1, <1>2 DEF PcieBegin, LaneSet, SetLane, Proceed, InPort
    <2>2. /\ l.phyAccess = lane[n].phyAccess /\ l.ack0 = lane[n].ack0 /\ l.ack1 = lane[n].ack1
          /\ l.refclk = lane[n].refclk /\ l.perstOff = lane[n].perstOff /\ l.ready = lane[n].ready
          /\ l.training = lane[n].training /\ l.gated = lane[n].gated
          /\ l.appclk = "on"
      BY <1>1 DEF LaneSet
    <2>3. pcieStep = "begin" /\ pcieStep' = "assert" /\ pciePort' = n /\ gpio' = gpio /\ pin' = pin
      BY <1>2 DEF PcieBegin, InPort, Proceed
    <2> HIDE DEF l
    <2>4. lane'[n] = l => PortSafe(n)' /\ PortProgress'
      BY <1>1, <1>2, <2>2, <2>3 DEF PortSafe, PortProgress, PinHigh, GpioFound
    <2> QED BY <2>1, <2>3, <2>4, GoodPort DEF PcieSteps
  <1>3. CASE ~gpio.installed
    BY <1>3, FailedPort DEF PcieBegin, InPort, PortFails
  <1>4. CASE gpio.installed /\ n \notin machine.perst
    BY <1>4, UnchangedPcie DEF PcieBegin, PortStays, pcieVars
  <1> QED BY <1>2, <1>3, <1>4

LEMMA PcieWaitRefclk0Inv ==
  ASSUME DispatchOk, PcieInv, machine' = machine, NEW n \in Ports, pciePort = n, PcieWaitRefclk0
  PROVE  PcieInv'
  <1>1. /\ lane \in [Ports -> LaneSet] /\ lane[n] \in LaneSet
        /\ PortSafe(n) /\ PortProgress /\ ResetPin(n)' = ResetPin(n)
    BY DEF PcieInv, PcieTypes, ResetPin
  <1>2. CASE lane[n].ack0
    <2> DEFINE l == [lane[n] EXCEPT !.req1 = TRUE]
    <2>1. l \in LaneSet /\ lane' = [lane EXCEPT ![n] = l]
      BY <1>1, <1>2 DEF PcieWaitRefclk0, LaneSet, SetLane, Proceed, InPort
    <2>2. /\ l.appclk = lane[n].appclk /\ l.phyAccess = lane[n].phyAccess /\ l.ack0 = lane[n].ack0
          /\ l.ack1 = lane[n].ack1 /\ l.refclk = lane[n].refclk /\ l.perstOff = lane[n].perstOff
          /\ l.ready = lane[n].ready /\ l.training = lane[n].training /\ l.gated = lane[n].gated
      BY <1>1 DEF LaneSet
    <2>3. pcieStep = "ack0" /\ pcieStep' = "ack1" /\ pciePort' = n /\ gpio' = gpio /\ pin' = pin
      BY <1>2 DEF PcieWaitRefclk0, InPort, Proceed
    <2> HIDE DEF l
    <2>4. lane'[n] = l => PortSafe(n)' /\ PortProgress'
      BY <1>1, <1>2, <2>2, <2>3 DEF PortSafe, PortProgress, PinHigh, GpioFound
    <2> QED BY <2>1, <2>3, <2>4, GoodPort DEF PcieSteps
  <1>3. CASE ~lane[n].ack0
    BY <1>3, FailedPort DEF PcieWaitRefclk0, InPort, PortFails
  <1> QED BY <1>2, <1>3

LEMMA PcieWaitRefclk1Inv ==
  ASSUME DispatchOk, PcieInv, machine' = machine, NEW n \in Ports, pciePort = n, PcieWaitRefclk1
  PROVE  PcieInv'
  <1>1. /\ lane \in [Ports -> LaneSet] /\ lane[n] \in LaneSet
        /\ PortSafe(n) /\ PortProgress /\ ResetPin(n)' = ResetPin(n)
    BY DEF PcieInv, PcieTypes, ResetPin
  <1>2. CASE lane[n].ack1
    <2> DEFINE l == lane[n]
    <2>1. l \in LaneSet /\ lane' = [lane EXCEPT ![n] = l]
      BY <1>1, <1>2 DEF PcieWaitRefclk1, LaneSet, SetLane, Proceed, InPort
    <2>2. /\ l.appclk = lane[n].appclk /\ l.phyAccess = lane[n].phyAccess /\ l.ack0 = lane[n].ack0
          /\ l.ack1 = lane[n].ack1 /\ l.refclk = lane[n].refclk /\ l.perstOff = lane[n].perstOff
          /\ l.ready = lane[n].ready /\ l.training = lane[n].training /\ l.gated = lane[n].gated
      BY <1>1 DEF LaneSet
    <2>3. pcieStep = "ack1" /\ pcieStep' = "refclk" /\ pciePort' = n /\ gpio' = gpio /\ pin' = pin
      BY <1>2 DEF PcieWaitRefclk1, InPort, Proceed
    <2> HIDE DEF l
    <2>4. lane'[n] = l => PortSafe(n)' /\ PortProgress'
      BY <1>1, <1>2, <2>2, <2>3 DEF PortSafe, PortProgress, PinHigh, GpioFound
    <2> QED BY <2>1, <2>3, <2>4, GoodPort DEF PcieSteps
  <1>3. CASE ~lane[n].ack1
    BY <1>3, FailedPort DEF PcieWaitRefclk1, InPort, PortFails
  <1> QED BY <1>2, <1>3

LEMMA PcieWaitReadyInv ==
  ASSUME DispatchOk, PcieInv, machine' = machine, NEW n \in Ports, pciePort = n, PcieWaitReady
  PROVE  PcieInv'
  <1>1. /\ lane \in [Ports -> LaneSet] /\ lane[n] \in LaneSet
        /\ PortSafe(n) /\ PortProgress /\ ResetPin(n)' = ResetPin(n)
    BY DEF PcieInv, PcieTypes, ResetPin
  <1>2. CASE lane[n].ready
    <2> DEFINE l == [lane[n] EXCEPT !.training = TRUE]
    <2>1. l \in LaneSet /\ lane' = [lane EXCEPT ![n] = l]
      BY <1>1, <1>2 DEF PcieWaitReady, LaneSet, SetLane, Proceed, InPort
    <2>2. /\ l.appclk = lane[n].appclk /\ l.phyAccess = lane[n].phyAccess /\ l.ack0 = lane[n].ack0
          /\ l.ack1 = lane[n].ack1 /\ l.refclk = lane[n].refclk /\ l.perstOff = lane[n].perstOff
          /\ l.ready = lane[n].ready /\ l.gated = lane[n].gated
          /\ l.training = TRUE
      BY <1>1 DEF LaneSet
    <2>3. pcieStep = "ready" /\ pcieStep' = "link" /\ pciePort' = n /\ gpio' = gpio /\ pin' = pin
      BY <1>2 DEF PcieWaitReady, InPort, Proceed
    <2> HIDE DEF l
    <2>4. lane'[n] = l => PortSafe(n)' /\ PortProgress'
      BY <1>1, <1>2, <2>2, <2>3 DEF PortSafe, PortProgress, PinHigh, GpioFound
    <2> QED BY <2>1, <2>3, <2>4, GoodPort DEF PcieSteps
  <1>3. CASE ~lane[n].ready
    BY <1>3, FailedPort DEF PcieWaitReady, InPort, PortFails
  <1> QED BY <1>2, <1>3

LEMMA PcieRequestRefclk0Inv ==
  ASSUME DispatchOk, PcieInv, machine' = machine, NEW n \in Ports, pciePort = n, PcieRequestRefclk0
  PROVE  PcieInv'
  <1>1. /\ lane \in [Ports -> LaneSet] /\ lane[n] \in LaneSet
        /\ PortSafe(n) /\ PortProgress /\ ResetPin(n)' = ResetPin(n)
    BY DEF PcieInv, PcieTypes, ResetPin
  <1> DEFINE l == [lane[n] EXCEPT !.phyAccess = ~T602X, !.req0 = TRUE]
  <1>2. l \in LaneSet /\ lane' = [lane EXCEPT ![n] = l]
    BY <1>1 DEF PcieRequestRefclk0, LaneSet, SetLane, Proceed, InPort
  <1>3. /\ l.appclk = lane[n].appclk /\ l.ack0 = lane[n].ack0 /\ l.ack1 = lane[n].ack1
        /\ l.refclk = lane[n].refclk /\ l.perstOff = lane[n].perstOff /\ l.ready = lane[n].ready
        /\ l.training = lane[n].training /\ l.gated = lane[n].gated
        /\ l.phyAccess = ~T602X
    BY <1>1 DEF LaneSet
  <1>4. pcieStep = "phy" /\ pcieStep' = "ack0" /\ pciePort' = n /\ gpio' = gpio /\ pin' = pin
    BY DEF PcieRequestRefclk0, InPort, Proceed
  <1> HIDE DEF l
  <1>5. lane'[n] = l => PortSafe(n)' /\ PortProgress'
    BY <1>1, <1>3, <1>4 DEF PortSafe, PortProgress, PinHigh, GpioFound
  <1> QED BY <1>2, <1>4, <1>5, GoodPort DEF PcieSteps

LEMMA PcieEnableRefclkInv ==
  ASSUME DispatchOk, PcieInv, machine' = machine, NEW n \in Ports, pciePort = n, PcieEnableRefclk
  PROVE  PcieInv'
  <1>1. /\ lane \in [Ports -> LaneSet] /\ lane[n] \in LaneSet
        /\ PortSafe(n) /\ PortProgress /\ ResetPin(n)' = ResetPin(n)
    BY DEF PcieInv, PcieTypes, ResetPin
  <1> DEFINE l == [lane[n] EXCEPT !.phyAccess = FALSE, !.refclk = TRUE, !.portRefclk = ~T602X]
  <1>2. l \in LaneSet /\ lane' = [lane EXCEPT ![n] = l]
    BY <1>1 DEF PcieEnableRefclk, LaneSet, SetLane, Proceed, InPort
  <1>3. /\ l.appclk = lane[n].appclk /\ l.ack0 = lane[n].ack0 /\ l.ack1 = lane[n].ack1
        /\ l.perstOff = lane[n].perstOff /\ l.ready = lane[n].ready /\ l.training = lane[n].training
        /\ l.gated = lane[n].gated
        /\ l.phyAccess = FALSE /\ l.refclk = TRUE
    BY <1>1 DEF LaneSet
  <1>4. pcieStep = "refclk" /\ pcieStep' = "release" /\ pciePort' = n /\ gpio' = gpio /\ pin' = pin
    BY DEF PcieEnableRefclk, InPort, Proceed
  <1> HIDE DEF l
  <1>5. lane'[n] = l => PortSafe(n)' /\ PortProgress'
    BY <1>1, <1>3, <1>4 DEF PortSafe, PortProgress, PinHigh, GpioFound
  <1> QED BY <1>2, <1>4, <1>5, GoodPort DEF PcieSteps

LEMMA PcieAssertPerstInv ==
  ASSUME DispatchOk, PcieInv, machine' = machine, NEW n \in Ports, pciePort = n,
         PcieAssertPerst
  PROVE  PcieInv'
  <1> DEFINE q == [mode |-> "out", data |-> 0, pull |-> "off"]
  <1>1. /\ lane \in [Ports -> LaneSet] /\ lane[n] \in LaneSet
        /\ PortSafe(n) /\ PortProgress /\ ResetPin(n)' = ResetPin(n)
    BY DEF PcieInv, PcieTypes, ResetPin
  <1>2. q \in PinSet /\ lane' = [lane EXCEPT ![pciePort] = lane[n]]
    BY <1>1 DEF PinSet, PcieAssertPerst
  <1>3. \/ pin' = pin
        \/ pin' = [pin EXCEPT ![ResetPin(pciePort)] = q]
    BY DEF PcieAssertPerst, DrivePerst, GpioSet, GpioSetRegister
  <1> HIDE DEF q
  <1>4. /\ pcieStep = "assert" /\ pcieStep' \in {"assert", "phy"}
        /\ pciePort' = n /\ gpio' = gpio
    BY DEF PcieAssertPerst, DrivePerst, InPort, Proceed, PortStays
  <1>5. lane'[n] = lane[n] /\ ~lane[n].perstOff /\ ~lane[n].training
    BY <1>1, <1>2, <1>4 DEF PortProgress
  <1>6. PortSafe(n)' /\ PortProgress'
    BY <1>1, <1>4, <1>5 DEF PortSafe, PortProgress, PinHigh, GpioFound
  <1> QED BY <1>1, <1>2, <1>3, <1>4, <1>6, OnePort DEF PcieSteps

LEMMA PcieReleasePerstInv ==
  ASSUME DispatchOk, PcieInv, machine' = machine, NEW n \in Ports, pciePort = n,
         PcieReleasePerst
  PROVE  PcieInv'
  <1> DEFINE q == [mode |-> "out", data |-> 1, pull |-> "off"]
             l == [lane[n] EXCEPT !.perstOff = TRUE]
  <1>1. /\ lane \in [Ports -> LaneSet] /\ lane[n] \in LaneSet
        /\ PortSafe(n) /\ PortProgress /\ ResetPin(n)' = ResetPin(n)
        /\ pin \in [Pins -> PinSet] /\ ResetPin(n) \in Pins
    BY PortsAreNaturals DEF PcieInv, PcieTypes, ResetPin
  <1>2. /\ q \in PinSet /\ q.mode = "out" /\ q.data = 1
        /\ l \in LaneSet /\ lane' = [lane EXCEPT ![pciePort] = l]
    BY <1>1 DEF PinSet, LaneSet, PcieReleasePerst, SetLane
  <1>3. /\ pin' = pin \/ pin' = [pin EXCEPT ![ResetPin(pciePort)] = q]
        /\ pcieStep = "release" /\ pcieStep' \in {"release", "ready"}
        /\ pcieStep' = "ready" /\ GpioFound(ResetPin(n)) =>
             pin' = [pin EXCEPT ![ResetPin(pciePort)] = q]
        /\ pciePort' = n /\ gpio' = gpio
    BY DEF PcieReleasePerst, DrivePerst, GpioSet, GpioSetRegister, InPort, Proceed, PortStays
  <1>4. /\ l.appclk = lane[n].appclk /\ l.phyAccess = lane[n].phyAccess
        /\ l.ack0 = lane[n].ack0 /\ l.ack1 = lane[n].ack1
        /\ l.refclk = lane[n].refclk /\ l.perstOff
        /\ l.ready = lane[n].ready /\ l.training = lane[n].training
        /\ l.gated = lane[n].gated
    BY <1>1 DEF LaneSet
  <1> HIDE DEF q, l
  <1>5. GpioFound(ResetPin(n))' = GpioFound(ResetPin(n))
    BY <1>1, <1>3 DEF GpioFound
  <1>6. /\ lane'[n] = l
        /\ pcieStep' = "ready" /\ GpioFound(ResetPin(n)) => pin'[ResetPin(n)] = q
    BY <1>1, <1>2, <1>3
  <1>7. ~lane[n].training
    BY <1>1, <1>3 DEF PortProgress
  <1>8. PortSafe(n)'
    BY <1>1, <1>3, <1>4, <1>6, <1>7 DEF PortSafe, PortProgress
  <1>9. pcieStep' = "ready" => PinHigh(n)'
    BY <1>1, <1>2, <1>5, <1>6 DEF PinHigh
  <1>10. PortProgress'
    BY <1>1, <1>3, <1>4, <1>6, <1>7, <1>9 DEF PortProgress
  <1> QED BY <1>2, <1>3, <1>8, <1>10, OnePort DEF PcieSteps

LEMMA PcieFinishPortInv ==
  ASSUME DispatchOk, PcieInv, machine' = machine, NEW n \in Ports, pciePort = n,
         PcieFinishPort
  PROVE  PcieInv'
  <1> DEFINE up == IF lane[n].link THEN "up" ELSE "down"
             l == [lane[n] EXCEPT !.gated = TRUE, !.appclk = "gated", !.outcome = up]
  <1>1. /\ lane \in [Ports -> LaneSet] /\ lane[n] \in LaneSet
        /\ PortSafe(n) /\ PortProgress /\ ResetPin(n)' = ResetPin(n)
        /\ pin[ResetPin(n)] \in PinSet
    BY PortsAreNaturals DEF PcieInv, PcieTypes, ResetPin
  <1>2. l \in LaneSet /\ lane' = [lane EXCEPT ![pciePort] = l]
    BY <1>1 DEF LaneSet, PcieFinishPort
  <1>3. /\ l.appclk = "gated" /\ l.phyAccess = lane[n].phyAccess
        /\ l.ack0 = lane[n].ack0 /\ l.ack1 = lane[n].ack1
        /\ l.refclk = lane[n].refclk /\ l.perstOff = lane[n].perstOff
        /\ l.ready = lane[n].ready /\ l.training = lane[n].training
    BY <1>1 DEF LaneSet
  <1> HIDE DEF l
  <1>4. /\ pcieStep = "link" /\ pcieStep' = "begin" /\ pciePort' = pciePort + 1
        /\ gpio' = gpio /\ pin' = pin
    BY DEF PcieFinishPort, InPort
  <1>5. lane'[n] = l
    BY <1>1, <1>2
  <1>6. PortSafe(n)'
    BY <1>1, <1>3, <1>4, <1>5 DEF PortSafe, PortProgress, PinHigh, GpioFound
  <1> QED BY <1>1, <1>2, <1>4, <1>6, OnePort DEF PcieSteps

\* The hardware's answers only ever add what the set-up may rely on.
LEMMA PcieHardwareInv ==
  ASSUME DispatchOk, PcieInv, machine' = machine, PcieAnswers
  PROVE  PcieInv'
  <1>1. PICK p \in Ports : PcieHardware(p)
    BY DEF PcieAnswers
  <1>2. PICK field \in {"ack0", "ack1", "ready", "link"} : lane' = [lane EXCEPT ![p][field] = TRUE]
    BY <1>1 DEF PcieHardware
  <1> DEFINE l == [lane[p] EXCEPT ![field] = TRUE]
  <1>3. /\ lane \in [Ports -> LaneSet] /\ lane[p] \in LaneSet
        /\ Ports' = Ports /\ Pins' = Pins /\ \A n \in Ports : ResetPin(n)' = ResetPin(n)
    BY DEF PcieInv, PcieTypes, Ports, Pins, ResetPin
  <1>4. l \in LaneSet
    BY <1>2, <1>3 DEF LaneSet
  <1>5. /\ l.appclk = lane[p].appclk /\ l.phyAccess = lane[p].phyAccess
        /\ l.refclk = lane[p].refclk /\ l.perstOff = lane[p].perstOff
        /\ l.training = lane[p].training /\ l.gated = lane[p].gated
    BY <1>2, <1>3 DEF LaneSet
  <1>6. /\ lane[p].ack0 => l.ack0
        /\ lane[p].ack1 => l.ack1
        /\ lane[p].ready => l.ready
    BY <1>2, <1>3 DEF LaneSet
  <1> HIDE DEF l
  <1>7. /\ lane' \in [Ports -> LaneSet] /\ lane'[p] = l
        /\ \A n \in Ports \ {p} : lane'[n] = lane[n]
    BY <1>2, <1>3, <1>4 DEF l
  <1>8. UNCHANGED <<gpio, pin, pciePort, pcieStep>>
    BY <1>1 DEF PcieHardware
  <1>9. \A n \in Ports : PortSafe(n)' /\ (PortUntouched(n) => PortUntouched(n)')
    BY <1>3, <1>5, <1>6, <1>7, <1>8 DEF PcieInv, PortSafe, PortUntouched, PinHigh, GpioFound
  <1>10. pciePort \in Ports => PortProgress'
    <2>1. PinHigh(pciePort)' <=> PinHigh(pciePort)
      BY <1>8 DEF PinHigh, GpioFound, ResetPin
    <2>2. CASE pciePort = p
      BY <1>5, <1>6, <1>7, <1>8, <2>1, <2>2 DEF PcieInv, PortProgress
    <2>3. CASE pciePort # p
      BY <1>7, <1>8, <2>1, <2>3 DEF PcieInv, PortProgress
    <2> QED BY <2>2, <2>3
  <1>11. PcieTypes'
    BY <1>3, <1>7, <1>8 DEF PcieInv, PcieTypes
  <1> QED BY <1>3, <1>8, <1>9, <1>10, <1>11 DEF PcieInv

LEMMA GpioInitializeInv ==
  ASSUME DispatchOk, PcieInv, PcieLater, machine' = machine, GpioInitialize
  PROVE  PcieInv'
  <1>1. machine.pins \in Nat
    BY MachinesAssumption DEF DispatchOk
  <1>2. PinCount \in Nat
    BY <1>1 DEF PinCount
  <1>3. /\ gpio' \in [installed : BOOLEAN, count : Nat]
        /\ UNCHANGED <<pin, pciePort, pcieStep, lane>>
    BY <1>2 DEF GpioInitialize, PcieInv, PcieTypes
  <1>4. /\ Ports' = Ports /\ Pins' = Pins
        /\ \A p \in Ports : ResetPin(p)' = ResetPin(p)
    BY DEF Ports, Pins, ResetPin
  <1>5. pcieStep = "begin" /\ \A p \in Ports : PortUntouched(p)
    BY DEF PcieLater, GpioInitialize, On
  <1> QED BY <1>3, <1>4, <1>5 DEF PcieInv, PcieTypes, PortSafe, PortProgress, PortUntouched

LEMMA PcieStepInv ==
  ASSUME DispatchOk, PcieInv, PcieLater, Pcie
  PROVE  PcieInv'
  <1>1. machine' = machine
    BY PcieDispatch
  <1>2. CASE GpioInitialize BY <1>1, <1>2, GpioInitializeInv
  <1>3. CASE PcieReturn BY <1>1, <1>3, UnchangedPcie DEF PcieReturn
  <1>4. CASE pciePort \notin Ports /\ ~GpioInitialize /\ ~PcieReturn
    BY <1>4 DEF Pcie, PcieStep, PcieBegin, PcieAssertPerst, PcieRequestRefclk0,
       PcieWaitRefclk0, PcieWaitRefclk1, PcieEnableRefclk, PcieReleasePerst,
       PcieWaitReady, PcieFinishPort, InPort
  <1>5. CASE pciePort \in Ports
    <2>1. PICK n \in Ports : pciePort = n
      BY <1>5
    <2>2. CASE PcieBegin BY <1>1, <2>1, <2>2, PcieBeginInv
    <2>3. CASE PcieAssertPerst BY <1>1, <2>1, <2>3, PcieAssertPerstInv
    <2>4. CASE PcieRequestRefclk0 BY <1>1, <2>1, <2>4, PcieRequestRefclk0Inv
    <2>5. CASE PcieWaitRefclk0 BY <1>1, <2>1, <2>5, PcieWaitRefclk0Inv
    <2>6. CASE PcieWaitRefclk1 BY <1>1, <2>1, <2>6, PcieWaitRefclk1Inv
    <2>7. CASE PcieEnableRefclk BY <1>1, <2>1, <2>7, PcieEnableRefclkInv
    <2>8. CASE PcieReleasePerst BY <1>1, <2>1, <2>8, PcieReleasePerstInv
    <2>9. CASE PcieWaitReady BY <1>1, <2>1, <2>9, PcieWaitReadyInv
    <2>10. CASE PcieFinishPort BY <1>1, <2>1, <2>10, PcieFinishPortInv
    <2> QED BY <1>2, <1>3, <2>2, <2>3, <2>4, <2>5, <2>6, <2>7, <2>8, <2>9, <2>10
            DEF Pcie, PcieStep
  <1> QED BY <1>2, <1>3, <1>4, <1>5

LEMMA PcieLaterNext ==
  ASSUME DispatchOk, PcieInv, PcieLater, [Next]_vars
  PROVE  PcieLater'
  <1> SUFFICES ASSUME running' \in {"dart", "gpio"}
               PROVE  pciePort' = 0 /\ pcieStep' = "begin" /\ \A p \in Ports' : PortUntouched(p)'
    BY DEF PcieLater
  <1>1. /\ pciePort = 0 /\ pcieStep = "begin" /\ \A p \in Ports : PortUntouched(p)
        /\ running \in {"dart", "gpio"} /\ Ports' = Ports
    BY NextDispatch DEF PcieLater, Ports
  <1>2. CASE UNCHANGED pcieVars
    BY <1>1, <1>2 DEF pcieVars, PortUntouched
  <1>3. CASE Pcie
    <2>1. GpioInitialize
      BY <1>1, <1>3 DEF Pcie, PcieStep, PcieBegin, PcieAssertPerst, PcieRequestRefclk0,
         PcieWaitRefclk0, PcieWaitRefclk1, PcieEnableRefclk, PcieReleasePerst,
         PcieWaitReady, PcieFinishPort, PcieReturn, InPort, On
    <2> QED BY <1>1, <2>1 DEF GpioInitialize, PortUntouched
  <1>4. CASE PcieAnswers
    <2>1. PICK p \in Ports, field \in {"ack0", "ack1", "ready", "link"} :
            /\ ~lane[p][field] /\ (field = "link" => lane[p].training)
            /\ lane' = [lane EXCEPT ![p][field] = TRUE]
            /\ UNCHANGED <<pciePort, pcieStep>>
      BY <1>4 DEF PcieAnswers, PcieHardware
    <2>2. lane \in [Ports -> LaneSet]
      BY DEF PcieInv, PcieTypes
    <2>3. \A n \in Ports : /\ lane'[n].perstOff = lane[n].perstOff
                           /\ lane'[n].training = lane[n].training
                           /\ lane'[n].gated = lane[n].gated
      BY <2>1, <2>2 DEF LaneSet
    <2> QED BY <1>1, <2>1, <2>3 DEF PortUntouched
  <1> QED BY <1>2, <1>3, <1>4 DEF Next, Dart, Usb, Firmware, Hardware, vars

LEMMA PcieNext ==
  ASSUME DispatchOk, PcieInv, PcieLater, [Next]_vars
  PROVE  PcieInv'
  <1>1. machine' = machine
    BY NextDispatch
  <1>2. CASE Pcie
    BY <1>2, PcieStepInv
  <1>3. CASE Hardware /\ PcieAnswers
    BY <1>1, <1>3, PcieHardwareInv
  <1>4. CASE Dart \/ Usb \/ Firmware \/ UNCHANGED vars \/ (Hardware /\ ~PcieAnswers)
    <2>1. UNCHANGED pcieVars
      BY <1>4 DEF Dart, Usb, Firmware, vars, Hardware
    <2> QED BY <1>1, <2>1, UnchangedPcie
  <1> QED BY <1>2, <1>3, <1>4 DEF Next

\* The invariant of the port set-up: every port behind the loop's is as one of its
\* exits left it, the loop's own is as far as the step says, and those ahead are
\* untouched (AppleSiliconPciPlatformDxe.c).
THEOREM PcieInvHolds == Spec => [](DispatchOk /\ PcieInv /\ PcieLater)
  <1>1. Init => DispatchOk /\ PcieInv /\ PcieLater
    BY PcieInit0
  <1>2. DispatchOk /\ PcieInv /\ PcieLater /\ [Next]_vars =>
          (DispatchOk /\ PcieInv /\ PcieLater)'
    BY NextDispatch, PcieNext, PcieLaterNext
  <1> QED BY <1>1, <1>2, PTL DEF Spec

\* A port takes PERST# off only with both reference clocks acknowledged and
\* enabled, for any number of ports, with any of them given up at any step
\* (AppleSiliconPciPlatformDxe.c, the set-up of a port).
THEOREM SlotsLeaveResetClocked == Spec => []PerstWithClock
  <1>1. DispatchOk /\ PcieInv => PerstWithClock
    BY DEF PcieInv, PortSafe, PerstWithClock
  <1> QED BY <1>1, PcieInvHolds, PTL

\* A link is trained only on a port that said it is ready, with PERST# off at the port
\* and at its pin if the controller has it, and only then are the port's clocks gated.
THEOREM LinksTrainWhenReady == Spec => []TrainsWhenReady
  <1>1. DispatchOk /\ PcieInv => TrainsWhenReady
    BY DEF PcieInv, PortSafe, PinHigh, TrainsWhenReady, GpioGetMode
  <1> QED BY <1>1, PcieInvHolds, PTL

\* Both: the set-up of every port is in order.
THEOREM PortsStayInOrder == Spec => []PortsInOrder
  BY SlotsLeaveResetClocked, LinksTrainWhenReady, PTL DEF PortsInOrder

-----------------------------------------------------------------------------

\* The DARTs: what the lookup found and how far the set-up loop is.
DartSteps == {"vendor", "lookup", "select", "tcrs", "ttbrs", "flush", "flushing"}
Programming == {"tcrs", "ttbrs", "flush", "flushing"}
AllTtbrs == Streams \X (0 .. Nttbr - 1)

DartTypes ==
  /\ dartStep \in DartSteps
  /\ dartNode \in Nat /\ dartNode =< machine.controllers
  /\ dartIndex \in Nat
  /\ dartReg \in [Darts -> Darts \cup {Unset}]
  /\ tcr \in [Darts -> [Streams -> {"translate", "off", "bypass"}]]
  /\ ttbr \in [Darts -> SUBSET AllTtbrs]
  /\ flushing \in [Darts -> BOOLEAN]

\* Every base address is its own DART's, or was never stored.
DartLookups ==
  /\ dartStep \in {"vendor", "lookup"} => dartIndex = 2 * dartNode
  /\ dartStep \notin {"vendor", "lookup"} => dartNode = machine.controllers
  /\ \A d \in Darts :
       dartReg[d] = IF d < 2 * dartNode /\ HasNode(d \div 2) THEN d ELSE Unset

NoTranslation(d) == \A s \in Streams : tcr[d][s] # "translate"

\* The set-up loop is at a DART it may touch, and stopped its streams first.
DartProgress ==
  /\ dartStep \in Programming => dartIndex \in Darts /\ ~DartSkipped(dartIndex)
  /\ dartStep \in Programming \ {"tcrs"} => NoTranslation(dartIndex)

\* The DARTs the set-up loop is past.
DartDone(d) == \/ running # "dart"
               \/ dartStep \notin {"vendor", "lookup"} /\ d < dartIndex

DartSafe(d) ==
  /\ ttbr[d] = AllTtbrs \/ NoTranslation(d)
  /\ DartSkipped(d) => ttbr[d] = AllTtbrs /\ ~flushing[d]
  /\ machine.bypass /\ DartDone(d) /\ ~DartSkipped(d) =>
       \A s \in Streams : tcr[d][s] = "bypass"

DartInv ==
  /\ DartTypes /\ DartLookups /\ DartProgress /\ ~stray
  /\ \A d \in Darts : DartSafe(d)

LEMMA DartNumbers ==
  ASSUME DispatchOk
  PROVE  /\ machine.controllers \in Nat
         /\ \A d \in Darts : d \in Nat /\ d \div 2 \in Controllers /\ d < 2 * machine.controllers
         /\ \A d \in Nat : d \notin Darts => d >= 2 * machine.controllers
         /\ \A c \in Controllers :
              /\ c \in Nat /\ 2 * c \in Darts /\ 2 * c + 1 \in Darts
              /\ (2 * c) \div 2 = c /\ (2 * c + 1) \div 2 = c
         /\ Unset \notin Darts
  <1>1. machine.controllers \in Nat
    BY MachinesAssumption DEF DispatchOk
  <1> QED BY <1>1 DEF Darts, Controllers, Unset

\* What depends on the machine alone does not change.
LEMMA DartConstants ==
  ASSUME machine' = machine
  PROVE  /\ Darts' = Darts /\ Streams' = Streams /\ AllTtbrs' = AllTtbrs
         /\ Controllers' = Controllers
         /\ \A d : DartSkipped(d)' <=> DartSkipped(d)
         /\ \A c : HasNode(c)' <=> HasNode(c)
  BY DEF Darts, Streams, AllTtbrs, Nttbr, DartSkipped, HasNode, Controllers, DfuDart

LEMMA DartInit0 ==
  ASSUME Init
  PROVE  DispatchOk /\ DartInv
  <1>1. machine \in Machines /\ DispatchOk
    BY DEF Init, DispatchInit, DispatchOk, PhaseNames
  <1>2. DartTypes
    BY <1>1, DartNumbers DEF Init, DartInit, DartTypes, DartSteps, AllTtbrs
  <1>3. DartLookups
    BY <1>1, DartNumbers DEF Init, DartInit, DartLookups
  <1>4. DartProgress /\ ~stray
    BY DEF Init, DartInit, DartProgress, Programming
  <1>5. \A d \in Darts : DartSafe(d)
    BY <1>1 DEF Init, DispatchInit, DartInit, DartSafe, DartDone, AllTtbrs
  <1> QED BY <1>1, <1>2, <1>3, <1>4, <1>5 DEF DartInv

\* At a step of the programming, the base address is the DART's own.
LEMMA OwnBase ==
  ASSUME DispatchOk, DartInv, dartStep \in Programming
  PROVE  /\ dartIndex \in Darts /\ ~DartSkipped(dartIndex)
         /\ dartReg[dartIndex] = dartIndex /\ dartIndex # Unset
         /\ \A r, v : Written(r, v) = [r EXCEPT ![dartIndex] = v]
         /\ Wrote => ~stray'
  <1>1. dartIndex \in Darts /\ ~DartSkipped(dartIndex)
    BY DEF DartInv, DartProgress
  <1>2. HasNode(dartIndex \div 2) /\ dartNode = machine.controllers
    BY <1>1 DEF DartSkipped, DartInv, DartLookups, Programming
  <1>3. dartReg[dartIndex] = dartIndex /\ dartIndex # Unset
    BY <1>1, <1>2, DartNumbers DEF DartInv, DartLookups
  <1> QED BY <1>1, <1>3 DEF Written, Wrote, DartInv

LEMMA UnchangedDart ==
  ASSUME DispatchOk, DartInv, machine' = machine, UNCHANGED dartVars,
         running # "dart" => running' # "dart",
         running = "dart" => running' = running
  PROVE  DartInv'
  <1>1. \A d \in Darts : DartSafe(d)'
    BY DartConstants DEF DartInv, DartSafe, DartDone, NoTranslation, dartVars
  <1> QED BY <1>1, DartConstants
          DEF DartInv, DartTypes, DartLookups, DartProgress, NoTranslation, dartVars

LEMMA DartVendorInv ==
  ASSUME DispatchOk, DartInv, machine' = machine, DartVendor
  PROVE  DartInv'
  <1>1. dartStep = "vendor" /\ dartStep' \in {"vendor", "lookup"}
        /\ UNCHANGED <<dartNode, dartIndex, dartReg, dartBypass, tcr, ttbr, tlb, flushing, stray>>
    BY DEF DartVendor
  <1>2. CASE AppleVendor(machine.implementer)
    <2>1. running' = running
      BY <1>2 DEF DartVendor, Stay, dispatchVars
    <2>2. \A d \in Darts : DartSafe(d)'
      BY <1>1, <2>1, DartConstants DEF DartInv, DartSafe, DartDone, NoTranslation
    <2> QED BY <1>1, <2>2, DartConstants
            DEF DartInv, DartTypes, DartLookups, DartProgress, DartSteps, Programming
  <1>3. CASE ~AppleVendor(machine.implementer)
    <2>1. machine.controllers = 0
      BY <1>3, MachinesAssumption DEF DispatchOk
    <2>2. Darts = {}
      BY <2>1 DEF Darts
    <2> QED BY <1>1, <2>2, DartConstants
            DEF DartInv, DartTypes, DartLookups, DartProgress, DartSteps, Programming
  <1> QED BY <1>2, <1>3

LEMMA TwoMore ==
  ASSUME NEW n \in Nat, NEW d \in Nat
  PROVE  /\ d < 2 * (n + 1) <=> d < 2 * n \/ d = 2 * n \/ d = 2 * n + 1
         /\ ~(2 * n < 2 * n) /\ ~(2 * n + 1 < 2 * n)
  OBVIOUS

LEMMA DartLookupInv ==
  ASSUME DispatchOk, DartInv, machine' = machine, DartLookup
  PROVE  DartInv'
  <1>1. /\ dartStep = "lookup" /\ dartIndex = 2 * dartNode /\ running = "dart"
        /\ UNCHANGED <<dartBypass, tcr, ttbr, tlb, flushing, stray, running>>
    BY DEF DartLookup, DartInv, DartLookups, Stay, dispatchVars, On
  <1>2. CASE dartNode = machine.controllers
    <2>1. dartStep' = "select" /\ dartIndex' = 0 /\ UNCHANGED <<dartNode, dartReg>>
      BY <1>2 DEF DartLookup
    <2>2. \A d \in Darts : ~DartDone(d)'
      BY <1>1, <2>1, DartNumbers DEF DartDone
    <2>3. \A d \in Darts : DartSafe(d)'
      BY <1>1, <2>2, DartConstants DEF DartInv, DartSafe, NoTranslation
    <2> QED BY <1>1, <1>2, <2>1, <2>3, DartConstants
            DEF DartInv, DartTypes, DartLookups, DartProgress, DartSteps, Programming
  <1>3. CASE dartNode # machine.controllers
    <2>1. dartNode \in Controllers /\ dartNode \in Nat
      BY <1>3, DartNumbers DEF DartInv, DartTypes, Controllers
    <2>2. /\ dartIndex' = dartIndex + 2 /\ dartNode' = dartNode + 1 /\ dartStep' = dartStep
          /\ dartReg' = IF HasNode(dartNode)
                        THEN [dartReg EXCEPT ![2 * dartNode] = 2 * dartNode,
                                             ![2 * dartNode + 1] = 2 * dartNode + 1]
                        ELSE dartReg
      BY <1>1, <1>3 DEF DartLookup
    <2>3. PICK n \in Controllers : n = dartNode
      BY <2>1
    <2>4. /\ n \in Nat /\ 2 * n \in Darts /\ 2 * n + 1 \in Darts /\ 2 * n # 2 * n + 1
          /\ (2 * n) \div 2 = n /\ (2 * n + 1) \div 2 = n
          /\ n + 1 =< machine.controllers /\ 2 * (n + 1) = 2 * n + 2
      BY DartNumbers DEF Controllers
    <2>5. \A d \in Darts : /\ d < 2 * (n + 1) <=> d < 2 * n \/ d = 2 * n \/ d = 2 * n + 1
                           /\ ~(2 * n < 2 * n) /\ ~(2 * n + 1 < 2 * n)
      <3>1. \A d \in Darts : d \in Nat
        BY DartNumbers
      <3>2. n \in Nat
        BY <2>4
      <3> QED BY <3>1, <3>2, TwoMore
    <2>6. dartReg' \in [Darts -> Darts \cup {Unset}]
      BY <2>2, <2>3, <2>4 DEF DartInv, DartTypes
    <2>7. \A d \in Darts :
            dartReg'[d] = IF d < 2 * (n + 1) /\ HasNode(d \div 2) THEN d ELSE Unset
      <3> SUFFICES ASSUME NEW d \in Darts
                   PROVE  dartReg'[d] = IF d < 2 * (n + 1) /\ HasNode(d \div 2) THEN d ELSE Unset
        OBVIOUS
      <3>1. /\ dartReg \in [Darts -> Darts \cup {Unset}]
            /\ dartReg[d] = IF d < 2 * n /\ HasNode(d \div 2) THEN d ELSE Unset
        BY <2>3 DEF DartInv, DartTypes, DartLookups
      <3>2. CASE d = 2 * n
        BY <2>2, <2>3, <2>4, <2>5, <3>1, <3>2
      <3>3. CASE d = 2 * n + 1
        BY <2>2, <2>3, <2>4, <2>5, <3>1, <3>3
      <3>4. CASE d # 2 * n /\ d # 2 * n + 1
        BY <2>2, <2>3, <2>4, <2>5, <3>1, <3>4
      <3> QED BY <3>2, <3>3, <3>4
    <2>8. \A d \in Darts : DartSafe(d)'
      BY <1>1, <2>2, DartConstants DEF DartInv, DartSafe, DartDone, NoTranslation
    <2>9. DartTypes'
      BY <1>1, <2>2, <2>3, <2>4, <2>6, DartConstants DEF DartInv, DartTypes
    <2>10. DartLookups'
      BY <1>1, <2>2, <2>3, <2>4, <2>7, DartConstants DEF DartLookups
    <2> QED BY <1>1, <2>2, <2>8, <2>9, <2>10, DartConstants
            DEF DartInv, DartProgress, Programming
  <1> QED BY <1>2, <1>3

LEMMA DartSelectInv ==
  ASSUME DispatchOk, DartInv, machine' = machine, DartSelect
  PROVE  DartInv'
  <1>1. /\ dartStep = "select" /\ dartNode = machine.controllers
        /\ UNCHANGED <<dartNode, dartReg, tcr, ttbr, tlb, flushing, stray>>
        /\ running = "dart"
    BY DEF DartSelect, DartInv, DartLookups, On
  <1>2. CASE dartIndex \notin Darts
    <2>1. UNCHANGED <<dartStep, dartIndex>>
      BY <1>2 DEF DartSelect
    <2>2. \A d \in Darts : DartDone(d)
      BY <1>1, <1>2, DartNumbers DEF DartDone, DartInv, DartTypes
    <2>3. \A d \in Darts : DartSafe(d)'
      BY <1>1, <2>2, DartConstants DEF DartInv, DartSafe, NoTranslation
    <2> QED BY <1>1, <2>1, <2>3, DartConstants
            DEF DartInv, DartTypes, DartLookups, DartProgress, NoTranslation, Programming
  <1>3. CASE dartIndex \in Darts /\ DartSkipped(dartIndex)
    <2>1. dartIndex' = dartIndex + 1 /\ UNCHANGED <<dartStep, running>>
      BY <1>3 DEF DartSelect, Stay, dispatchVars
    <2>2. \A d \in Darts : DartDone(d)' /\ ~DartSkipped(d) => DartDone(d)
      <3>1. \A d \in Darts : d < dartIndex + 1 => d < dartIndex \/ d = dartIndex
        BY <1>3, DartNumbers
      <3> QED BY <1>1, <1>3, <2>1, <3>1 DEF DartDone
    <2>3. \A d \in Darts : DartSafe(d)'
      BY <1>1, <2>2, DartConstants DEF DartInv, DartSafe, NoTranslation
    <2> QED BY <1>1, <2>1, <2>3, DartConstants
            DEF DartInv, DartTypes, DartLookups, DartProgress, Programming
  <1>4. CASE dartIndex \in Darts /\ ~DartSkipped(dartIndex)
    <2>1. dartStep' = "tcrs" /\ UNCHANGED <<dartIndex, running>>
      BY <1>4 DEF DartSelect, Stay, dispatchVars
    <2>2. \A d \in Darts : DartSafe(d)'
      BY <1>1, <2>1, DartConstants DEF DartInv, DartSafe, DartDone, NoTranslation
    <2> QED BY <1>1, <1>4, <2>1, <2>2, DartConstants
            DEF DartInv, DartTypes, DartLookups, DartProgress, Programming, DartSteps
  <1> QED BY <1>2, <1>3, <1>4

\* A step that programs one DART.
LEMMA OneDart ==
  ASSUME DispatchOk, DartInv, machine' = machine, running' = running,
         UNCHANGED <<dartNode, dartReg>>,
         running = "dart", dartStep \in Programming, NEW d \in Darts, dartIndex = d, ~DartSkipped(d),
         ~stray', dartStep' \in Programming \ {"tcrs"}, dartIndex' = dartIndex,
         tcr' \in [Darts -> [Streams -> {"translate", "off", "bypass"}]],
         ttbr' \in [Darts -> SUBSET AllTtbrs],
         flushing' \in [Darts -> BOOLEAN],
         NoTranslation(d)',
         \A e \in Darts \ {d} : /\ tcr'[e] = tcr[e] /\ ttbr'[e] = ttbr[e]
                                /\ flushing'[e] = flushing[e]
  PROVE  DartInv'
  <1>1. \A e \in Darts \ {d} : DartSafe(e)'
    BY DartConstants DEF DartInv, DartSafe, DartDone, NoTranslation, Programming
  <1>2. d \in Nat
    BY DartNumbers
  <1>3. DartSafe(d)'
    <2>1. ~DartDone(d)'
      BY <1>2 DEF DartDone
    <2> QED BY <2>1, DartConstants DEF DartSafe, NoTranslation
  <1> QED BY <1>1, <1>3, DartConstants
          DEF DartInv, DartTypes, DartLookups, DartProgress, NoTranslation, Programming, DartSteps

LEMMA DartClearTcrsInv ==
  ASSUME DispatchOk, DartInv, machine' = machine, DartClearTcrs
  PROVE  DartInv'
  <1>1. /\ dartStep = "tcrs" /\ dartStep' = "ttbrs" /\ dartStep \in Programming
        /\ running = "dart" /\ running' = running
        /\ UNCHANGED <<dartNode, dartIndex, dartReg, ttbr, flushing>>
    BY DEF DartClearTcrs, On, Stay, dispatchVars, Programming
  <1>2. PICK d \in Darts : d = dartIndex
    BY <1>1, OwnBase
  <1>3. tcr' = [tcr EXCEPT ![d] = [s \in Streams |-> "off"]] /\ ~stray' /\ ~DartSkipped(d)
    BY <1>1, <1>2, OwnBase DEF DartClearTcrs
  <1>4. /\ tcr' \in [Darts -> [Streams -> {"translate", "off", "bypass"}]]
        /\ NoTranslation(d)' /\ \A e \in Darts \ {d} : tcr'[e] = tcr[e]
    BY <1>3, DartConstants DEF DartInv, DartTypes, NoTranslation
  <1>5. ttbr' \in [Darts -> SUBSET AllTtbrs] /\ flushing' \in [Darts -> BOOLEAN]
    BY <1>1 DEF DartInv, DartTypes
  <1> QED BY <1>1, <1>2, <1>3, <1>4, <1>5, OneDart DEF Programming

LEMMA DartClearTtbrsInv ==
  ASSUME DispatchOk, DartInv, machine' = machine, DartClearTtbrs
  PROVE  DartInv'
  <1>1. /\ dartStep = "ttbrs" /\ dartStep' = "flush" /\ dartStep \in Programming
        /\ running = "dart" /\ running' = running
        /\ UNCHANGED <<dartNode, dartIndex, dartReg, tcr, flushing>>
    BY DEF DartClearTtbrs, On, Stay, dispatchVars, Programming
  <1>2. PICK d \in Darts : d = dartIndex
    BY <1>1, OwnBase
  <1>3. ttbr' = [ttbr EXCEPT ![d] = {}] /\ ~stray' /\ ~DartSkipped(d)
    BY <1>1, <1>2, OwnBase DEF DartClearTtbrs
  <1>4. /\ ttbr' \in [Darts -> SUBSET AllTtbrs]
        /\ \A e \in Darts \ {d} : ttbr'[e] = ttbr[e]
    BY <1>3 DEF DartInv, DartTypes
  <1>5. /\ tcr' \in [Darts -> [Streams -> {"translate", "off", "bypass"}]]
        /\ flushing' \in [Darts -> BOOLEAN]
    BY <1>1 DEF DartInv, DartTypes
  <1>6. NoTranslation(d)'
    BY <1>1, <1>2, DartConstants DEF DartInv, DartProgress, NoTranslation, Programming
  <1> QED BY <1>1, <1>2, <1>3, <1>4, <1>5, <1>6, OneDart DEF Programming

LEMMA DartTlbFlushInv ==
  ASSUME DispatchOk, DartInv, machine' = machine, DartTlbFlush
  PROVE  DartInv'
  <1>1. /\ dartStep = "flush" /\ dartStep' = "flushing" /\ dartStep \in Programming
        /\ running = "dart" /\ running' = running
        /\ UNCHANGED <<dartNode, dartIndex, dartReg, tcr, ttbr>>
    BY DEF DartTlbFlush, On, Stay, dispatchVars, Programming
  <1>2. PICK d \in Darts : d = dartIndex
    BY <1>1, OwnBase
  <1>3. /\ flushing' = [flushing EXCEPT ![d] = machine.dart # "t8110"]
        /\ ~stray' /\ ~DartSkipped(d)
    BY <1>1, <1>2, OwnBase DEF DartTlbFlush
  <1>4. /\ flushing' \in [Darts -> BOOLEAN]
        /\ \A e \in Darts \ {d} : flushing'[e] = flushing[e]
    BY <1>3 DEF DartInv, DartTypes
  <1>5. /\ tcr' \in [Darts -> [Streams -> {"translate", "off", "bypass"}]]
        /\ ttbr' \in [Darts -> SUBSET AllTtbrs]
    BY <1>1 DEF DartInv, DartTypes
  <1>6. NoTranslation(d)'
    BY <1>1, <1>2, DartConstants DEF DartInv, DartProgress, NoTranslation, Programming
  <1> QED BY <1>1, <1>2, <1>3, <1>4, <1>5, <1>6, OneDart DEF Programming

LEMMA DartBypassModeInv ==
  ASSUME DispatchOk, DartInv, machine' = machine, DartBypassMode
  PROVE  DartInv'
  <1>1. /\ dartStep = "flushing" /\ dartStep' = "select" /\ dartStep \in Programming
        /\ running = "dart" /\ running' = running /\ dartIndex' = dartIndex + 1
        /\ UNCHANGED <<dartNode, dartReg, ttbr, flushing>>
    BY DEF DartBypassMode, On, Stay, dispatchVars, Programming
  <1>2. PICK d \in Darts : d = dartIndex
    BY <1>1, OwnBase
  <1>3. /\ ~stray' /\ ~DartSkipped(d)
        /\ tcr' = IF machine.bypass THEN [tcr EXCEPT ![d] = [s \in Streams |-> "bypass"]]
                                    ELSE tcr
    BY <1>1, <1>2, OwnBase DEF DartBypassMode
  <1>4. tcr \in [Darts -> [Streams -> {"translate", "off", "bypass"}]]
    BY DEF DartInv, DartTypes
  <1>5. /\ tcr' \in [Darts -> [Streams -> {"translate", "off", "bypass"}]]
        /\ \A e \in Darts \ {d} : tcr'[e] = tcr[e]
        /\ machine.bypass => \A s \in Streams : tcr'[d][s] = "bypass"
    BY <1>3, <1>4
  <1>6. NoTranslation(d)'
    <2>1. NoTranslation(d)
      BY <1>1, <1>2 DEF DartInv, DartProgress, Programming
    <2>2. CASE machine.bypass
      BY <1>5, <2>2, DartConstants DEF NoTranslation
    <2>3. CASE ~machine.bypass
      BY <1>3, <2>1, <2>3, DartConstants DEF NoTranslation
    <2> QED BY <2>2, <2>3
  <1>7. \A e \in Darts \ {d} : DartDone(e)' => DartDone(e)
    <2>1. \A e \in Darts : e < d + 1 => e < d \/ e = d
      BY DartNumbers
    <2> QED BY <1>1, <1>2, <2>1 DEF DartDone, Programming
  <1>8. \A e \in Darts \ {d} : DartSafe(e)'
    BY <1>1, <1>5, <1>7, DartConstants DEF DartInv, DartSafe, NoTranslation
  <1>9. DartSafe(d)'
    BY <1>3, <1>5, <1>6, DartConstants DEF DartSafe
  <1>10. d \in Nat /\ dartIndex' \in Nat
    BY <1>1, <1>2, DartNumbers
  <1> QED BY <1>1, <1>3, <1>5, <1>8, <1>9, <1>10, DartConstants
          DEF DartInv, DartTypes, DartLookups, DartProgress, Programming, DartSteps

\* The end of a flush, and everything else that leaves the loops where they are.
LEMMA DartFlushesInv ==
  ASSUME DispatchOk, DartInv, machine' = machine, running' = running, DartFlushes
  PROVE  DartInv'
  <1>1. PICK d \in Darts : DartHardware(d)
    BY DEF DartFlushes
  <1>2. /\ flushing' = [flushing EXCEPT ![d] = FALSE]
        /\ UNCHANGED <<dartStep, dartNode, dartIndex, dartReg, dartBypass, tcr, ttbr, stray>>
    BY <1>1 DEF DartHardware
  <1>3. /\ flushing' \in [Darts -> BOOLEAN]
        /\ \A e \in Darts : ~flushing[e] => ~flushing'[e]
    BY <1>2 DEF DartInv, DartTypes
  <1>4. \A e \in Darts : DartSafe(e)'
    BY <1>2, <1>3, DartConstants DEF DartInv, DartSafe, DartDone, NoTranslation
  <1> QED BY <1>2, <1>3, <1>4, DartConstants
          DEF DartInv, DartTypes, DartLookups, DartProgress, NoTranslation, Programming

LEMMA DartNext ==
  ASSUME DispatchOk, DartInv, [Next]_vars
  PROVE  DartInv'
  <1>1. machine' = machine
    BY NextDispatch
  <1>2. CASE Dart
    BY <1>1, <1>2, DartVendorInv, DartLookupInv, DartSelectInv, DartClearTcrsInv,
       DartClearTtbrsInv, DartTlbFlushInv, DartBypassModeInv DEF Dart, DartStep
  <1>3. CASE Hardware /\ DartFlushes
    BY <1>1, <1>3, HardwareDispatch, DartFlushesInv
  <1>4. CASE Usb \/ Pcie \/ Firmware \/ UNCHANGED vars \/ (Hardware /\ ~DartFlushes)
    <2>1. UNCHANGED dartVars
      <3>1. CASE Usb
        BY <3>1 DEF Usb, UsbStep, UsbInitialize, UsbSignal, UsbSelect, Dwc3Identify,
           Dwc3ControllerSoftReset, Dwc3XhciCoreInit, Dwc3AppleSetupCio, Dwc3SetMode,
           Dwc3SetFladj, RegisterDevice, OnlyUsb
      <3> QED BY <1>4, <3>1 DEF Pcie, Firmware, vars, Hardware
    <2>2. running = "dart" => running' = running
      <3>1. Usb \/ Pcie \/ Firmware => running # "dart"
        BY DEF Usb, UsbStep, UsbInitialize, UsbSignal, UsbSelect, Dwc3Identify,
           Dwc3ControllerSoftReset, Dwc3XhciCoreInit, Dwc3AppleSetupCio, Dwc3SetMode,
           Dwc3SetFladj, RegisterDevice, InCallback, Pcie, PcieStep, GpioInitialize,
           PcieBegin, PcieAssertPerst, PcieRequestRefclk0, PcieWaitRefclk0,
           PcieWaitRefclk1, PcieEnableRefclk, PcieReleasePerst, PcieWaitReady,
           PcieFinishPort, PcieReturn, InPort, Firmware, FirmwareStep, ConnectAll,
           OfferDevice, FirmwareIdentify, SendMessage, ReceiveMessage,
           CheckFirmwareIsLoaded, VerifyFirmware, LoadFirmwareReset, LoadFirmwareHalt,
           LoadFirmwareWrite, LoadFirmwarePoll, LoadFirmwareRun, LoadFirmwareRestart,
           CloseProtocolAndExit, XhciTakesOver, InSupported, Asking, On
      <3> QED BY <1>4, <3>1, HardwareDispatch DEF vars, dispatchVars
    <2> QED BY <1>1, <2>1, <2>2, NextDispatch, UnchangedDart
  <1> QED BY <1>2, <1>3, <1>4 DEF Next

\* The invariant of the DART driver's two loops: which base addresses have been looked
\* up, how far the current DART is, and what every finished or skipped one is like.
THEOREM DartInvHolds == Spec => [](DispatchOk /\ DartInv)
  <1>1. Init => DispatchOk /\ DartInv
    BY DartInit0
  <1>2. DispatchOk /\ DartInv /\ [Next]_vars => (DispatchOk /\ DartInv)'
    BY NextDispatch, DartNext
  <1> QED BY <1>1, <1>2, PTL DEF Spec

\* No stream translates through a table register that was cleared, and no
\* register is written through a base nobody looked up, for any number of
\* controllers, streams and missing nodes (AppleDartIoMmuDxe.c, both loops).
THEOREM DartsNeverHalfProgrammed == Spec => []NeverHalfProgrammed
  <1>1. ASSUME DispatchOk, DartInv
        PROVE  NeverHalfProgrammed
    <2> SUFFICES ASSUME NEW d \in Darts, NEW s \in Streams, tcr[d][s] = "translate"
                 PROVE  {s} \X (0 .. Nttbr - 1) \subseteq ttbr[d]
      BY <1>1 DEF NeverHalfProgrammed, DartInv
    <2>1. ttbr[d] = Streams \X (0 .. Nttbr - 1)
      BY <1>1 DEF DartInv, DartSafe, NoTranslation, AllTtbrs
    <2> QED BY <2>1
  <1> QED BY <1>1, DartInvHolds, PTL

-----------------------------------------------------------------------------

\* The Type-C controllers: what the bring-up has established at each step.
UsbSteps == {"select", "identify", "reset", "phyReset", "phyClear", "coreClear",
             "configure", "cio", "mode", "tune", "ready", "failed"}
CoreSet == [reset : BOOLEAN, usb3Reset : BOOLEAN, usb2Reset : BOOLEAN,
            configured : BOOLEAN, cio : BOOLEAN, mode : {"device", "host"},
            tuned : BOOLEAN]

UsbTypes ==
  /\ usbStep \in UsbSteps /\ usbIndex \in Nat
  /\ core \in [Controllers -> CoreSet]

\* The callback is at a controller it may touch, through its own base address.
UsbProgress ==
  usbStep # "select" =>
    /\ running # "dart"
    /\ usbIndex \in Controllers /\ ~UsbSkipped(usbIndex) /\ usbBase = usbIndex
    /\ LET c == core[usbIndex] IN
       /\ usbStep = "coreClear" => ~c.usb3Reset /\ ~c.usb2Reset
       /\ usbStep \in {"configure", "cio", "mode", "tune", "ready"} => ~c.reset
       /\ usbStep \in {"cio", "mode", "tune", "ready"} => c.configured
       /\ usbStep \in {"mode", "tune", "ready"} => c.cio
       /\ usbStep \in {"tune", "ready"} => c.mode = "host"

\* What is published was brought up, and is not touched again.
UsbSafe(c) ==
  /\ UsbSkipped(c) => core[c] = FreshCore
  /\ <<c, "NULL">> \in published =>
       /\ running # "dart" /\ c < usbIndex /\ ~UsbSkipped(c)
       /\ core[c].mode = "host" /\ core[c].configured /\ core[c].cio /\ ~core[c].reset

UsbInv ==
  /\ UsbTypes /\ UsbProgress
  /\ \A c \in Controllers : UsbSafe(c)

LEMMA UsbConstants ==
  ASSUME machine' = machine
  PROVE  /\ Controllers' = Controllers
         /\ \A c : UsbSkipped(c)' <=> UsbSkipped(c)
  BY DEF Controllers, UsbSkipped, HasNode

LEMMA UsbInit0 ==
  ASSUME Init
  PROVE  UsbInv
  BY DEF Init, UsbInit, UsbInv, UsbTypes, UsbProgress, UsbSafe, UsbSteps, CoreSet, FreshCore

LEMMA UnchangedUsb ==
  ASSUME UsbInv, machine' = machine, running # "dart" => running' # "dart",
         UNCHANGED <<usbIndex, usbStep, usbBase, core, published>>
  PROVE  UsbInv'
  BY UsbConstants DEF UsbInv, UsbTypes, UsbProgress, UsbSafe

\* A piece of the bring-up changes the core it is at and no other.
LEMMA OneCore ==
  ASSUME DispatchOk, UsbInv, machine' = machine, running' # "dart",
         usbStep # "select", NEW n \in Controllers, usbIndex = n,
         NEW k \in CoreSet, core' = [core EXCEPT ![usbBase] = k],
         usbIndex' = usbIndex, usbBase' = usbBase, published' = published,
         usbStep' \in UsbSteps \ {"select"},
         usbStep' = "coreClear" => ~k.usb3Reset /\ ~k.usb2Reset,
         usbStep' \in {"configure", "cio", "mode", "tune", "ready"} => ~k.reset,
         usbStep' \in {"cio", "mode", "tune", "ready"} => k.configured,
         usbStep' \in {"mode", "tune", "ready"} => k.cio,
         usbStep' \in {"tune", "ready"} => k.mode = "host"
  PROVE  UsbInv'
  <1>1. /\ usbBase = n /\ ~UsbSkipped(n) /\ core \in [Controllers -> CoreSet]
        /\ \A c \in Controllers : UsbSafe(c)
    BY DEF UsbInv, UsbProgress, UsbTypes
  <1>2. /\ core' \in [Controllers -> CoreSet] /\ core'[n] = k
        /\ \A c \in Controllers \ {n} : core'[c] = core[c]
    BY <1>1
  <1>3. UsbTypes'
    BY <1>2, UsbConstants DEF UsbInv, UsbTypes
  <1>4. UsbProgress'
    <2> DEFINE done == /\ usbStep' = "coreClear" => ~k.usb3Reset /\ ~k.usb2Reset
                       /\ usbStep' \in {"configure", "cio", "mode", "tune", "ready"} => ~k.reset
                       /\ usbStep' \in {"cio", "mode", "tune", "ready"} => k.configured
                       /\ usbStep' \in {"mode", "tune", "ready"} => k.cio
                       /\ usbStep' \in {"tune", "ready"} => k.mode = "host"
    <2>1. done
      OBVIOUS
    <2>2. usbIndex' = n /\ usbBase' = n /\ core'[usbIndex'] = k
      BY <1>1, <1>2
    <2> QED BY <1>1, <2>1, <2>2, UsbConstants DEF UsbProgress
  <1>5. <<n, "NULL">> \notin published
    <2>1. n \in Nat /\ ~(n < usbIndex)
      BY DartNumbers
    <2> QED BY <1>1, <2>1 DEF UsbSafe
  <1>6. \A c \in Controllers : UsbSafe(c)'
    BY <1>1, <1>2, <1>5, UsbConstants DEF UsbSafe
  <1> QED BY <1>3, <1>4, <1>6, UsbConstants DEF UsbInv

\* The facts every step of the bring-up starts from.
LEMMA AtController ==
  ASSUME DispatchOk, UsbInv, usbStep # "select"
  PROVE  /\ usbIndex \in Controllers /\ usbBase = usbIndex
         /\ core \in [Controllers -> CoreSet] /\ core[usbIndex] \in CoreSet
  BY DEF UsbInv, UsbProgress, UsbTypes

LEMMA UsbSelectInv ==
  ASSUME DispatchOk, UsbInv, machine' = machine, running' # "dart", UsbSelect
  PROVE  UsbInv'
  <1>1. usbStep = "select" /\ core' = core /\ published' = published /\ usbIndex \in Nat
    BY DEF UsbSelect, UsbInv, UsbTypes
  <1>2. CASE usbIndex \notin Controllers
    BY <1>1, <1>2, UnchangedUsb DEF UsbSelect
  <1>3. CASE usbIndex \in Controllers /\ UsbSkipped(usbIndex)
    <2>1. usbIndex' = usbIndex + 1 /\ usbStep' = usbStep /\ usbBase' = usbBase
      BY <1>3 DEF UsbSelect
    <2>2. usbIndex' \in Nat /\ \A c \in Controllers : c < usbIndex => c < usbIndex'
      BY <1>1, <2>1, DartNumbers
    <2>3. \A c \in Controllers : UsbSafe(c)'
      BY <1>1, <2>2, UsbConstants DEF UsbInv, UsbSafe
    <2> QED BY <1>1, <2>1, <2>2, <2>3, UsbConstants DEF UsbInv, UsbTypes, UsbProgress
  <1>4. CASE usbIndex \in Controllers /\ ~UsbSkipped(usbIndex)
    <2>1. usbBase' = usbIndex /\ usbStep' = "identify" /\ usbIndex' = usbIndex
      BY <1>4 DEF UsbSelect, UsbSkipped
    <2>2. UsbProgress'
      BY <1>4, <2>1, UsbConstants DEF UsbProgress
    <2>3. \A c \in Controllers : UsbSafe(c)'
      BY <1>1, <2>1, UsbConstants DEF UsbInv, UsbSafe
    <2> QED BY <1>1, <2>1, <2>2, <2>3, UsbConstants DEF UsbInv, UsbTypes, UsbSteps
  <1> QED BY <1>2, <1>3, <1>4

LEMMA Dwc3IdentifyInv ==
  ASSUME DispatchOk, UsbInv, machine' = machine, running' # "dart", Dwc3Identify
  PROVE  UsbInv'
  <1>1. /\ usbStep = "identify" /\ usbStep' \in {"reset", "failed"}
        /\ UNCHANGED <<usbIndex, usbBase, core, published>>
    BY DEF Dwc3Identify, OnlyUsb
  <1>2. core[usbIndex] \in CoreSet /\ core' = [core EXCEPT ![usbBase] = core[usbIndex]]
    BY <1>1, AtController
  <1> QED BY <1>1, <1>2, AtController, OneCore DEF UsbSteps

\* The four writes of the soft reset, in their order.
LEMMA SoftResetWrites ==
  ASSUME NEW c
  PROVE  /\ SoftReset(c)["coreReset"] = [c EXCEPT !.reset = TRUE]
         /\ SoftReset(c)["phyReset"] = [c EXCEPT !.usb3Reset = TRUE, !.usb2Reset = TRUE]
         /\ SoftReset(c)["phyClear"] = [c EXCEPT !.usb3Reset = FALSE, !.usb2Reset = FALSE]
         /\ SoftReset(c)["coreClear"] =
              [c EXCEPT !.reset = FALSE, !.configured = FALSE, !.mode = "device",
                        !.tuned = FALSE, !.cio = FALSE]
  BY DEF SoftReset

LEMMA Dwc3ControllerSoftResetInv ==
  ASSUME DispatchOk, UsbInv, machine' = machine, running' # "dart", Dwc3ControllerSoftReset
  PROVE  UsbInv'
  <1>1. PICK i \in 1..4 :
          /\ usbStep = IF i = 1 THEN "reset" ELSE SoftResetOrder[i]
          /\ core' = [core EXCEPT ![usbBase] = SoftReset(@)[SoftResetOrder[i]]]
          /\ usbStep' = IF i = 4 THEN "configure" ELSE SoftResetOrder[i + 1]
          /\ UNCHANGED <<usbIndex, usbBase, published>>
    BY DEF Dwc3ControllerSoftReset, OnlyUsb
  <1>2. SoftResetOrder[1] = "coreReset" /\ SoftResetOrder[2] = "phyReset"
        /\ SoftResetOrder[3] = "phyClear" /\ SoftResetOrder[4] = "coreClear"
    BY DEF SoftResetOrder
  <1>3. usbStep # "select"
    BY <1>1, <1>2
  <1> DEFINE c == core[usbIndex]
  <1>4. c \in CoreSet /\ core \in [Controllers -> CoreSet] /\ usbBase = usbIndex
        /\ usbIndex \in Controllers
    BY <1>3, AtController
  <1>5. CASE i = 1
    <2> DEFINE k == [c EXCEPT !.reset = TRUE]
    <2>1. usbStep' = "phyReset" /\ core' = [core EXCEPT ![usbBase] = k] /\ k \in CoreSet
      <3>1. core' = [core EXCEPT ![usbBase] = SoftReset(@)["coreReset"]]
        BY <1>1, <1>2, <1>5
      <3>2. core' = [core EXCEPT ![usbBase] = k]
        BY <1>4, <3>1, SoftResetWrites
      <3>3. k \in CoreSet
        BY <1>4 DEF CoreSet
      <3>4. usbStep' = "phyReset"
        BY <1>1, <1>2, <1>5
      <3> QED BY <3>2, <3>3, <3>4
    <2> HIDE DEF k
    <2> QED BY <1>1, <1>3, <1>4, <2>1, OneCore DEF UsbSteps
  <1>6. CASE i = 2
    <2> DEFINE k == [c EXCEPT !.usb3Reset = TRUE, !.usb2Reset = TRUE]
    <2>1. usbStep' = "phyClear" /\ core' = [core EXCEPT ![usbBase] = k] /\ k \in CoreSet
      <3>1. core' = [core EXCEPT ![usbBase] = SoftReset(@)["phyReset"]]
        BY <1>1, <1>2, <1>6
      <3>2. core' = [core EXCEPT ![usbBase] = k]
        BY <1>4, <3>1, SoftResetWrites
      <3>3. k \in CoreSet
        BY <1>4 DEF CoreSet
      <3>4. usbStep' = "phyClear"
        BY <1>1, <1>2, <1>6
      <3> QED BY <3>2, <3>3, <3>4
    <2> HIDE DEF k
    <2> QED BY <1>1, <1>3, <1>4, <2>1, OneCore DEF UsbSteps
  <1>7. CASE i = 3
    <2> DEFINE k == [c EXCEPT !.usb3Reset = FALSE, !.usb2Reset = FALSE]
    <2>1. usbStep' = "coreClear" /\ core' = [core EXCEPT ![usbBase] = k] /\ k \in CoreSet
      <3>1. core' = [core EXCEPT ![usbBase] = SoftReset(@)["phyClear"]]
        BY <1>1, <1>2, <1>7
      <3>2. core' = [core EXCEPT ![usbBase] = k]
        BY <1>4, <3>1, SoftResetWrites
      <3>3. k \in CoreSet
        BY <1>4 DEF CoreSet
      <3>4. usbStep' = "coreClear"
        BY <1>1, <1>2, <1>7
      <3> QED BY <3>2, <3>3, <3>4
    <2>2. ~k.usb3Reset /\ ~k.usb2Reset
      BY <1>4 DEF CoreSet
    <2> HIDE DEF k
    <2> QED BY <1>1, <1>3, <1>4, <2>1, <2>2, OneCore DEF UsbSteps
  <1>8. CASE i = 4
    <2> DEFINE k == [c EXCEPT !.reset = FALSE, !.configured = FALSE, !.mode = "device",
                              !.tuned = FALSE, !.cio = FALSE]
    <2>1. usbStep' = "configure" /\ core' = [core EXCEPT ![usbBase] = k] /\ k \in CoreSet
      <3>1. core' = [core EXCEPT ![usbBase] = SoftReset(@)["coreClear"]]
        BY <1>1, <1>2, <1>8
      <3>2. core' = [core EXCEPT ![usbBase] = k]
        BY <1>4, <3>1, SoftResetWrites
      <3>3. k \in CoreSet
        BY <1>4 DEF CoreSet
      <3>4. usbStep' = "configure"
        BY <1>1, <1>2, <1>8
      <3> QED BY <3>2, <3>3, <3>4
    <2>2. ~k.reset
      BY <1>4 DEF CoreSet
    <2> HIDE DEF k
    <2> QED BY <1>1, <1>3, <1>4, <2>1, <2>2, OneCore DEF UsbSteps
  <1> QED BY <1>5, <1>6, <1>7, <1>8

LEMMA Dwc3PiecesInv ==
  ASSUME DispatchOk, UsbInv, machine' = machine, running' # "dart",
         Dwc3XhciCoreInit \/ Dwc3AppleSetupCio \/ Dwc3SetMode \/ Dwc3SetFladj
  PROVE  UsbInv'
  <1>1. usbStep \in {"configure", "cio", "mode", "tune"}
        /\ UNCHANGED <<usbIndex, usbBase, published>>
    BY DEF Dwc3XhciCoreInit, Dwc3AppleSetupCio, Dwc3SetMode, Dwc3SetFladj, OnlyUsb
  <1> DEFINE c == core[usbIndex]
  <1>2. /\ c \in CoreSet /\ core \in [Controllers -> CoreSet] /\ usbBase = usbIndex
        /\ usbIndex \in Controllers /\ usbStep # "select"
    BY <1>1, AtController
  <1>3. /\ ~c.reset
        /\ usbStep # "configure" => c.configured
        /\ usbStep \in {"mode", "tune"} => c.cio
        /\ usbStep = "tune" => c.mode = "host"
    BY <1>1 DEF UsbInv, UsbProgress
  <1>4. CASE Dwc3XhciCoreInit
    <2> DEFINE k == [c EXCEPT !.configured = TRUE]
    <2>1. /\ usbStep' = "cio" /\ core' = [core EXCEPT ![usbBase] = k] /\ k \in CoreSet
          /\ ~k.reset /\ k.configured
      BY <1>2, <1>3, <1>4 DEF Dwc3XhciCoreInit, CoreSet
    <2> HIDE DEF k
    <2> QED BY <1>1, <1>2, <2>1, OneCore DEF UsbSteps
  <1>5. CASE Dwc3AppleSetupCio
    <2> DEFINE k == [c EXCEPT !.cio = TRUE]
    <2>1. /\ usbStep' = "mode" /\ core' = [core EXCEPT ![usbBase] = k] /\ k \in CoreSet
          /\ ~k.reset /\ k.configured /\ k.cio
      BY <1>2, <1>3, <1>5 DEF Dwc3AppleSetupCio, CoreSet
    <2> HIDE DEF k
    <2> QED BY <1>1, <1>2, <2>1, OneCore DEF UsbSteps
  <1>6. CASE Dwc3SetMode
    <2> DEFINE k == [c EXCEPT !.mode = "host"]
    <2>1. /\ usbStep' = "tune" /\ core' = [core EXCEPT ![usbBase] = k] /\ k \in CoreSet
          /\ ~k.reset /\ k.configured /\ k.cio /\ k.mode = "host"
      BY <1>2, <1>3, <1>6 DEF Dwc3SetMode, CoreSet
    <2> HIDE DEF k
    <2> QED BY <1>1, <1>2, <2>1, OneCore DEF UsbSteps
  <1>7. CASE Dwc3SetFladj
    <2> DEFINE k == [c EXCEPT !.tuned = TRUE]
    <2>1. /\ usbStep' = "ready" /\ core' = [core EXCEPT ![usbBase] = k] /\ k \in CoreSet
          /\ ~k.reset /\ k.configured /\ k.cio /\ k.mode = "host"
      BY <1>2, <1>3, <1>7 DEF Dwc3SetFladj, CoreSet
    <2> HIDE DEF k
    <2> QED BY <1>1, <1>2, <2>1, OneCore DEF UsbSteps
  <1> QED BY <1>4, <1>5, <1>6, <1>7

LEMMA RegisterDeviceInv ==
  ASSUME DispatchOk, UsbInv, machine' = machine, running' # "dart", RegisterDevice
  PROVE  UsbInv'
  <1>1. /\ usbStep \in {"ready", "failed"} /\ usbStep' = "select"
        /\ usbIndex' = usbIndex + 1 /\ core' = core
        /\ published' = published \cup
             {<<usbBase, IF usbStep = "ready" THEN "NULL" ELSE "DEVICE_ERROR">>}
    BY DEF RegisterDevice, OnlyUsb
  <1>2. PICK n \in Controllers : n = usbIndex /\ n = usbBase
    BY <1>1, AtController
  <1>3. /\ ~UsbSkipped(n) /\ running # "dart"
        /\ usbStep = "ready" => /\ core[n].mode = "host" /\ core[n].configured
                                /\ core[n].cio /\ ~core[n].reset
    BY <1>1, <1>2 DEF UsbInv, UsbProgress
  <1>4. usbIndex' \in Nat /\ n < usbIndex' /\ \A c \in Controllers : c < usbIndex => c < usbIndex'
    BY <1>1, <1>2, DartNumbers
  <1>5. \A c \in Controllers :
          <<c, "NULL">> \in published' => <<c, "NULL">> \in published \/ (c = n /\ usbStep = "ready")
    <2>1. CASE usbStep = "ready"
      BY <1>1, <1>2, <2>1
    <2>2. CASE usbStep = "failed"
      <3>1. published' = published \cup {<<usbBase, "DEVICE_ERROR">>}
        BY <1>1, <2>2
      <3> SUFFICES ASSUME NEW c \in Controllers, <<c, "NULL">> \in published'
                   PROVE  <<c, "NULL">> \in published \/ (c = n /\ usbStep = "ready")
        OBVIOUS
      <3>2. <<c, "NULL">> # <<usbBase, "DEVICE_ERROR">>
        OBVIOUS
      <3>3. <<c, "NULL">> \in published \cup {<<usbBase, "DEVICE_ERROR">>}
        BY <3>1
      <3>4. <<c, "NULL">> \in published
        BY <3>2, <3>3, Zenon
      <3> QED BY <3>4
    <2> QED BY <1>1, <2>1, <2>2
  <1>6. \A c \in Controllers : UsbSafe(c)'
    BY <1>1, <1>3, <1>4, <1>5, UsbConstants DEF UsbInv, UsbSafe
  <1> QED BY <1>1, <1>4, <1>6, UsbConstants DEF UsbInv, UsbTypes, UsbProgress, UsbSteps

LEMMA UsbNext ==
  ASSUME DispatchOk, UsbInv, [Next]_vars
  PROVE  UsbInv'
  <1>1. machine' = machine /\ (running # "dart" => running' # "dart")
    BY NextDispatch
  <1>2. CASE Usb
    <2>1. running' # "dart"
      BY <1>2, UsbDispatch
    <2>2. CASE UsbInitialize \/ UsbSignal
      BY <1>1, <2>2, UnchangedUsb DEF UsbInitialize, UsbSignal
    <2> QED BY <1>1, <1>2, <2>1, <2>2, UsbSelectInv, Dwc3IdentifyInv,
               Dwc3ControllerSoftResetInv, Dwc3PiecesInv, RegisterDeviceInv DEF Usb, UsbStep
  <1>3. CASE Dart \/ Pcie \/ Firmware \/ Hardware \/ UNCHANGED vars
    <2>1. UNCHANGED usbVars
      BY <1>3 DEF Dart, Pcie, Firmware, Hardware, vars
    <2> QED BY <1>1, <2>1, UnchangedUsb DEF usbVars
  <1> QED BY <1>2, <1>3 DEF Next

\* The invariant of the Type-C driver's loop, with that of the DART driver before it:
\* what each piece of the bring-up has done to the current core, and what holds of
\* every core already published.
THEOREM UsbInvHolds == Spec => [](DispatchOk /\ DartInv /\ UsbInv)
  <1>1. Init => DispatchOk /\ DartInv /\ UsbInv
    BY DartInit0, UsbInit0
  <1>2. DispatchOk /\ DartInv /\ UsbInv /\ [Next]_vars => (DispatchOk /\ DartInv /\ UsbInv)'
    BY NextDispatch, DartNext, UsbNext
  <1> QED BY <1>1, <1>2, PTL DEF Spec

\* The controllers m1n1 keeps, and those of the DFU ports, are left as they are,
\* and so are their DARTs (AppleDartIoMmuDxe.c and AppleUsbTypeCBringupDxe.c
\* decide it twice, by DART number and by controller number).
THEOREM ProxyIsUntouched == Spec => []ProxyUntouched
  <1>1. ASSUME DispatchOk, DartInv, UsbInv
        PROVE  ProxyUntouched
    <2> SUFFICES ASSUME NEW c \in Controllers, ~HasNode(c) \/ c \in {0, 2}
                 PROVE  /\ core[c] = FreshCore
                        /\ \A d \in {2 * c, 2 * c + 1} :
                             ttbr[d] = Streams \X (0 .. Nttbr - 1) /\ ~flushing[d]
      BY DEF ProxyUntouched
    <2>1. core[c] = FreshCore
      BY <1>1 DEF UsbInv, UsbSafe, UsbSkipped
    <2>2. /\ 2 * c \in Darts /\ 2 * c + 1 \in Darts
          /\ (2 * c) \div 2 = c /\ (2 * c + 1) \div 2 = c
      BY <1>1, DartNumbers
    <2>3. c \in {0, 2} => DfuDart(2 * c) /\ DfuDart(2 * c + 1)
      BY DEF DfuDart
    <2>4. DartSkipped(2 * c) /\ DartSkipped(2 * c + 1)
      BY <2>2, <2>3 DEF DartSkipped
    <2> QED BY <1>1, <2>1, <2>2, <2>4 DEF DartInv, DartSafe, AllTtbrs
  <1> QED BY <1>1, UsbInvHolds, PTL

\* A controller given to XhciDxe without an init function is configured, in host
\* mode and out of reset, and every stream of its DARTs is bypassed when it can
\* be, for any number of controllers, streams and missing nodes.
THEOREM PublishedControllersCanDma == Spec => []PublishedCanDma
  <1>1. ASSUME DispatchOk, DartInv, UsbInv
        PROVE  PublishedCanDma
    <2> SUFFICES ASSUME NEW c \in Controllers, <<c, "NULL">> \in published
                 PROVE  /\ core[c].mode = "host" /\ core[c].configured /\ core[c].cio
                        /\ ~core[c].reset
                        /\ machine.bypass =>
                             \A d \in {2 * c, 2 * c + 1}, s \in Streams : tcr[d][s] = "bypass"
      BY DEF PublishedCanDma
    <2>1. /\ core[c].mode = "host" /\ core[c].configured /\ core[c].cio /\ ~core[c].reset
          /\ running # "dart" /\ ~UsbSkipped(c)
      BY <1>1 DEF UsbInv, UsbSafe
    <2>2. /\ 2 * c \in Darts /\ 2 * c + 1 \in Darts /\ c \in Nat
          /\ (2 * c) \div 2 = c /\ (2 * c + 1) \div 2 = c
      BY <1>1, DartNumbers
    <2>3. c # 0 /\ c # 2 /\ HasNode(c)
      BY <2>1 DEF UsbSkipped
    <2>4. ~DfuDart(2 * c) /\ ~DfuDart(2 * c + 1)
      BY <2>2, <2>3 DEF DfuDart
    <2>5. ~DartSkipped(2 * c) /\ ~DartSkipped(2 * c + 1)
      BY <2>2, <2>3, <2>4 DEF DartSkipped
    <2>6. DartDone(2 * c) /\ DartDone(2 * c + 1)
      BY <2>1 DEF DartDone
    <2> QED BY <1>1, <2>1, <2>2, <2>5, <2>6 DEF DartInv, DartSafe
  <1> QED BY <1>1, UsbInvHolds, PTL

\* A core leaves its reset only when both its PHYs have left theirs
\* (Dwc3ControllerSoftReset).
THEOREM CoresLeaveResetAfterPhys == Spec => CoreAfterPhys
  <1> DEFINE A == \A c \in Controllers :
                    core[c].reset /\ ~core'[c].reset => ~core[c].usb2Reset /\ ~core[c].usb3Reset
  <1>1. ASSUME DispatchOk, UsbInv, [Next]_vars
        PROVE  [A]_vars
    <2> SUFFICES ASSUME NEW c \in Controllers, core[c].reset, ~core'[c].reset
                 PROVE  ~core[c].usb2Reset /\ ~core[c].usb3Reset
      OBVIOUS
    <2>1. core' # core
      OBVIOUS
    <2>2. Usb
      BY <1>1, <2>1 DEF Next, Dart, Pcie, Firmware, Hardware, vars, usbVars
    <2>3. usbStep # "select" /\ core \in [Controllers -> CoreSet]
          /\ core[c] \in CoreSet /\ usbBase = usbIndex /\ usbIndex \in Controllers
      <3>1. usbStep # "select"
        BY <2>1, <2>2 DEF Usb, UsbStep, UsbInitialize, UsbSignal, UsbSelect, Dwc3Identify,
           Dwc3ControllerSoftReset, SoftResetOrder, Dwc3XhciCoreInit, Dwc3AppleSetupCio,
           Dwc3SetMode, Dwc3SetFladj, RegisterDevice, OnlyUsb
      <3> QED BY <1>1, <3>1, AtController DEF UsbInv, UsbTypes
    <2>4. CASE Dwc3ControllerSoftReset
      <3>1. PICK i \in 1..4 :
              /\ usbStep = IF i = 1 THEN "reset" ELSE SoftResetOrder[i]
              /\ core' = [core EXCEPT ![usbBase] = SoftReset(@)[SoftResetOrder[i]]]
        BY <2>4 DEF Dwc3ControllerSoftReset
      <3>2. SoftResetOrder[1] = "coreReset" /\ SoftResetOrder[2] = "phyReset"
            /\ SoftResetOrder[3] = "phyClear" /\ SoftResetOrder[4] = "coreClear"
        BY DEF SoftResetOrder
      <3>3. c = usbBase
        BY <2>3, <3>1
      <3>4. core'[c] = SoftReset(core[c])[SoftResetOrder[i]]
        BY <2>3, <3>1, <3>3
      <3>5. \A k \in CoreSet : k.reset =>
              /\ SoftReset(k)["coreReset"].reset
              /\ SoftReset(k)["phyReset"].reset
              /\ SoftReset(k)["phyClear"].reset
        <4> SUFFICES ASSUME NEW k \in CoreSet, k.reset
                     PROVE  /\ SoftReset(k)["coreReset"].reset
                            /\ SoftReset(k)["phyReset"].reset
                            /\ SoftReset(k)["phyClear"].reset
          OBVIOUS
        <4>1. [k EXCEPT !.reset = TRUE].reset
          BY DEF CoreSet
        <4>2. [k EXCEPT !.usb3Reset = TRUE, !.usb2Reset = TRUE].reset
          BY DEF CoreSet
        <4>3. [k EXCEPT !.usb3Reset = FALSE, !.usb2Reset = FALSE].reset
          BY DEF CoreSet
        <4> QED BY <4>1, <4>2, <4>3, SoftResetWrites
      <3>6. i # 1 /\ i # 2 /\ i # 3
        BY <2>3, <3>2, <3>4, <3>5
      <3>7. usbStep = "coreClear"
        BY <3>1, <3>2, <3>6
      <3> QED BY <1>1, <2>3, <3>3, <3>7 DEF UsbInv, UsbProgress
    <2>5. CASE Dwc3XhciCoreInit \/ Dwc3AppleSetupCio \/ Dwc3SetMode \/ Dwc3SetFladj
      <3>1. usbStep \in {"configure", "cio", "mode", "tune"}
        BY <2>5 DEF Dwc3XhciCoreInit, Dwc3AppleSetupCio, Dwc3SetMode, Dwc3SetFladj
      <3>2. ~core[usbIndex].reset /\ \A n \in Controllers \ {usbBase} : core'[n] = core[n]
        BY <1>1, <2>3, <2>5, <3>1 DEF UsbInv, UsbProgress, Dwc3XhciCoreInit,
           Dwc3AppleSetupCio, Dwc3SetMode, Dwc3SetFladj
      <3> QED BY <2>3, <3>2
    <2>6. CASE UsbInitialize \/ UsbSignal \/ UsbSelect \/ Dwc3Identify \/ RegisterDevice
      BY <2>1, <2>6 DEF UsbInitialize, UsbSignal, UsbSelect, Dwc3Identify, RegisterDevice, OnlyUsb
    <2> QED BY <2>2, <2>4, <2>5, <2>6 DEF Usb, UsbStep
  <1> QED BY <1>1, UsbInvHolds, PTL DEF Spec, CoreAfterPhys

-----------------------------------------------------------------------------

\* The firmware helper: whom it holds, and how much of the blob is in place.
FwSteps == {"idle", "identify", "version", "reset", "halt", "write", "poll", "restart",
            "verify", "close", "takeover"}
Outside == {"idle", "takeover"}
AsmSet == [cpu : {"rom", "ram", "halted"}, ramWrite : BOOLEAN, access : BOOLEAN]

FwTypes ==
  /\ binding \in BOOLEAN /\ fwStep \in FwSteps /\ messages \in -1 .. 4
  /\ asm \in AsmSet /\ uploaded \in BOOLEAN
  /\ sram \in [0 .. 2 * FirmwareChunks -> Int \X Int]

\* Supported holds the one device it was called for; a success it reports is one the
\* controller shows, unless a release build went on after a failure.
HelperSafe ==
  /\ opened = IF fwStep \in Outside THEN {} ELSE {handle}
  /\ fwStep \notin Outside => handle \notin xhci /\ binding
  /\ messages = -1 => ~machine.debug
  /\ uploaded => fwStep \in {"verify", "close"} \cup Outside
  /\ (uploaded \/ ~binding) /\ machine.debug => asm.cpu = "ram"

\* Turns of the loop by the pair of chunks and the place in a chunk: the index of the
\* lower word, and the address of the pair of words.
Low(p, t) == Chunk * (2 * p) + t
Address(p, t) == 2 * (Chunk * p + t)
Offsets == 0 .. Chunk - 1

AtTurn(i, a) == \E p \in Nat, t \in Offsets : i = Low(p, t) /\ a = Address(p, t)

\* Every turn for an index below n has left its pair of words in place.
InPlace(n) ==
  \A p \in Nat, t \in Offsets : Low(p, t) < n => sram[Address(p, t)] = Pair(Low(p, t))

\* A debug build has its writes checked, and a blob that fits has an address for each.
Checked == machine.debug /\ BlobFits

UploadSafe ==
  /\ fwStep \in {"write", "poll"} => AtTurn(index, addr)
  /\ fwStep = "poll" => index < FirmwareChunks
  /\ machine.debug /\ fwStep \in {"reset", "halt", "write", "poll"} => asm.cpu # "ram"
  /\ Checked =>
       /\ fwStep \in {"write", "poll"} /\ ~halted => asm.access /\ asm.ramWrite
       /\ fwStep \in {"write", "poll"} => InPlace(index)
       /\ fwStep = "poll" => sram[addr] = Pair(index)
       /\ asm.cpu = "ram" \/ fwStep = "restart" => InPlace(FirmwareChunks)

FwInv == FwTypes /\ HelperSafe /\ UploadSafe

\* The code divides by the chunk and takes the remainder; what that gives.
LEMMA DivUnique ==
  ASSUME NEW c \in Nat \ {0}, NEW q \in Nat, NEW r \in 0 .. c - 1
  PROVE  (c * q + r) \div c = q /\ (c * q + r) % c = r
  OBVIOUS

LEMMA DivParts ==
  ASSUME NEW c \in Nat \ {0}, NEW w \in Nat
  PROVE  w \div c \in Nat /\ w % c \in 0 .. c - 1 /\ w = c * (w \div c) + (w % c)
  OBVIOUS

LEMMA Blocks ==
  ASSUME NEW c \in Nat \ {0}, NEW p \in Nat, NEW q \in Nat, p < q
  PROVE  c * p + c =< c * q
  OBVIOUS

\* Pairs of chunks: turns and addresses are in the same order.
LEMMA TurnOrder ==
  ASSUME NEW p \in Nat, NEW q \in Nat, NEW t \in Offsets, NEW r \in Offsets
  PROVE  /\ Low(p, t) \in Nat /\ Address(p, t) \in Nat
         /\ Address(p, t) =< 2 * Low(p, t)
         /\ p < q => /\ Low(p, t) + 2 * Chunk =< Low(q, 0) + t /\ Low(p, t) < Low(q, r)
                     /\ Address(p, t) < Address(q, r)
         /\ p = q => /\ Low(p, t) < Low(q, r) <=> t < r
                     /\ Address(p, t) = Address(q, r) => t = r
  <1>1. Chunk \in Nat \ {0} /\ t \in Nat /\ r \in Nat /\ t < Chunk /\ r < Chunk
    BY ChunkAssumption DEF Offsets
  <1>2. /\ Chunk * p \in Nat /\ Chunk * q \in Nat
        /\ Chunk * (2 * p) = 2 * (Chunk * p) /\ Chunk * (2 * q) = 2 * (Chunk * q)
    BY <1>1
  <1>3. p < q => Chunk * p + Chunk =< Chunk * q
    BY <1>1, Blocks
  <1> QED BY <1>1, <1>2, <1>3 DEF Low, Address

LEMMA TurnUnique ==
  ASSUME NEW p \in Nat, NEW q \in Nat, NEW t \in Offsets, NEW r \in Offsets,
         Low(p, t) = Low(q, r) \/ Address(p, t) = Address(q, r)
  PROVE  p = q /\ t = r
  <1>1. p < q \/ q < p \/ p = q
    OBVIOUS
  <1>2. CASE p < q
    BY <1>2, TurnOrder
  <1>3. CASE q < p
    BY <1>3, TurnOrder
  <1>4. CASE p = q
    <2>1. Chunk \in Nat \ {0} /\ Chunk * (2 * p) \in Nat /\ t \in Nat /\ r \in Nat
      BY ChunkAssumption DEF Offsets
    <2>2. Low(p, t) = Low(q, r) => t = r
      BY <1>4, <2>1 DEF Low
    <2> QED BY <1>4, <2>2, TurnOrder
  <1> QED BY <1>1, <1>2, <1>3, <1>4

\* A turn's index lies in an even chunk, and its pair is the word a chunk further on.
LEMMA TurnPair ==
  ASSUME NEW p \in Nat, NEW t \in Offsets
  PROVE  /\ ~HasBit(Low(p, t))
         /\ Pair(Low(p, t)) = <<Low(p, t), IF Low(p, t) + Chunk < FirmwareChunks
                                           THEN Low(p, t) + Chunk ELSE -1>>
  <1>1. Chunk \in Nat \ {0} /\ 2 * p \in Nat
    BY ChunkAssumption
  <1>2. Low(p, t) \div Chunk = 2 * p
    BY <1>1, DivUnique DEF Low, Offsets
  <1>3. (2 * p) % 2 = 0
    OBVIOUS
  <1>4. ~HasBit(Low(p, t))
    BY <1>2, <1>3 DEF HasBit
  <1> QED BY <1>4 DEF Pair, WithBit

\* The loop goes from turn to turn, in order, and leaves none out.
LEMMA TurnNext ==
  ASSUME NEW p \in Nat, NEW t \in Offsets
  PROVE  /\ AtTurn(NextIndex(Low(p, t)), Address(p, t) + 2)
         /\ \A q \in Nat, r \in Offsets :
               Low(q, r) < NextIndex(Low(p, t)) => Low(q, r) < Low(p, t) \/ (q = p /\ r = t)
  <1>1. Chunk \in Nat \ {0} /\ t \in Nat /\ t < Chunk /\ 2 * p \in Nat /\ p + 1 \in Nat
    BY ChunkAssumption DEF Offsets
  <1>2. CASE t + 1 < Chunk
    <2>1. t + 1 \in Offsets
      BY <1>1, <1>2 DEF Offsets
    <2>2. Low(p, t) + 1 = Low(p, t + 1) /\ Address(p, t) + 2 = Address(p, t + 1)
      BY <1>1 DEF Low, Address
    <2>3. NextIndex(Low(p, t)) = Low(p, t + 1)
      BY <2>1, <2>2, TurnPair DEF NextIndex
    <2>4. ASSUME NEW q \in Nat, NEW r \in Offsets, Low(q, r) < Low(p, t + 1)
          PROVE  Low(q, r) < Low(p, t) \/ (q = p /\ r = t)
      <3>1. Low(q, r) \in Nat /\ Low(p, t) \in Nat
        BY TurnOrder
      <3>2. Low(q, r) < Low(p, t) \/ Low(q, r) = Low(p, t)
        BY <2>2, <2>4, <3>1
      <3> QED BY <3>2, TurnUnique
    <2> QED BY <2>1, <2>2, <2>3, <2>4 DEF AtTurn
  <1>3. CASE t + 1 = Chunk
    <2>1. 0 \in Offsets
      BY <1>1 DEF Offsets
    <2>2. Low(p, t) + 1 = Chunk * (2 * p + 1) + 0
      <3>1. Chunk * (2 * p + 1) = Chunk * (2 * p) + Chunk
        BY <1>1
      <3>2. Chunk * (2 * p) \in Nat
        BY <1>1
      <3> QED BY <1>1, <1>3, <3>1, <3>2 DEF Low
    <2>3. HasBit(Low(p, t) + 1)
      <3>1. (Low(p, t) + 1) \div Chunk = 2 * p + 1
        <4>1. 2 * p + 1 \in Nat /\ 0 \in 0 .. Chunk - 1
          BY <1>1
        <4>2. (Chunk * (2 * p + 1) + 0) \div Chunk = 2 * p + 1
          BY <1>1, <4>1, DivUnique
        <4> QED BY <2>2, <4>2
      <3>2. (2 * p + 1) % 2 = 1
        BY <1>1
      <3> QED BY <3>1, <3>2 DEF HasBit
    <2>4. Low(p, t) + 1 + Chunk = Low(p + 1, 0) /\ Address(p, t) + 2 = Address(p + 1, 0)
      <3>1. /\ Chunk * (2 * (p + 1)) = Chunk * (2 * p + 1) + Chunk
            /\ Chunk * (p + 1) = Chunk * p + Chunk
            /\ Chunk * (2 * p + 1) \in Nat /\ Chunk * p \in Nat
        BY <1>1
      <3> QED BY <1>1, <1>3, <2>2, <3>1 DEF Low, Address
    <2>5. NextIndex(Low(p, t)) = Low(p + 1, 0)
      BY <2>3, <2>4 DEF NextIndex
    <2>6. ASSUME NEW q \in Nat, NEW r \in Offsets, Low(q, r) < Low(p + 1, 0)
          PROVE  Low(q, r) < Low(p, t) \/ (q = p /\ r = t)
      <3>1. ~(p + 1 < q)
        BY <1>1, <2>1, <2>6, TurnOrder
      <3>2. q # p + 1
        <4>1. SUFFICES ASSUME q = p + 1 PROVE r < 0
          BY <1>1 DEF Offsets
        <4> QED BY <1>1, <2>1, <2>6, <4>1, TurnOrder
      <3>3. q < p \/ q = p
        BY <3>1, <3>2
      <3>4. r < t \/ r = t
        BY <1>1, <1>3 DEF Offsets
      <3> QED BY <3>3, <3>4, TurnOrder
    <2> QED BY <1>1, <2>1, <2>4, <2>5, <2>6 DEF AtTurn
  <1> QED BY <1>1, <1>2, <1>3

LEMMA WordsNatural ==
  ASSUME DispatchOk
  PROVE  machine.words \in Nat /\ FirmwareChunks \in Nat
  BY MachinesAssumption DEF DispatchOk, FirmwareChunks

LEMMA SameMachine ==
  ASSUME machine' = machine
  PROVE  /\ FirmwareChunks' = FirmwareChunks
         /\ \A i : Pair(i)' = Pair(i)
         /\ sram' = sram => \A n : InPlace(n)' <=> InPlace(n)
         /\ \A i, a : AtTurn(i, a)' <=> AtTurn(i, a)
         /\ Checked' = Checked
  <1>1. FirmwareChunks' = FirmwareChunks
    BY DEF FirmwareChunks
  <1>2. BlobFits' = BlobFits
    BY <1>1 DEF BlobFits, PairAddress, HasBit
  <1> QED BY <1>1, <1>2 DEF Checked, Pair, WithBit, HasBit, InPlace, AtTurn, Low, Address, Offsets

LEMMA UnchangedFirmware ==
  ASSUME FwInv, machine' = machine, halted => halted', UNCHANGED fwVars
  PROVE  FwInv'
  <1>1. FwTypes' /\ HelperSafe'
    BY SameMachine DEF FwInv, FwTypes, HelperSafe, fwVars
  <1>2. UploadSafe'
    <2>1. UNCHANGED <<sram, index, addr, asm, fwStep>>
      BY DEF fwVars
    <2>2. AtTurn(index, addr)' <=> AtTurn(index, addr)
      BY <2>1 DEF AtTurn, Low, Address, Offsets
    <2>3. InPlace(index)' <=> InPlace(index)
      BY <2>1, SameMachine DEF InPlace, Low, Address, Offsets
    <2>4. InPlace(FirmwareChunks)' <=> InPlace(FirmwareChunks)
      BY <2>1, SameMachine DEF InPlace, Low, Address, Offsets
    <2>5. Pair(index)' = Pair(index)
      BY <2>1, SameMachine DEF Pair, WithBit, HasBit
    <2> QED BY <2>1, <2>2, <2>3, <2>4, <2>5, SameMachine DEF FwInv, UploadSafe
  <1> QED BY <1>1, <1>2 DEF FwInv

\* Steps that leave the upload alone.
LEMMA UploadKept ==
  ASSUME FwInv, machine' = machine, UNCHANGED <<sram, index, addr>>,
         fwStep' \in {"write", "poll"} => fwStep' = fwStep,
         fwStep' \in {"write", "poll"} /\ ~halted' => ~halted /\ asm' = asm,
         machine.debug /\ fwStep' \in {"reset", "halt", "write", "poll"} => asm'.cpu # "ram",
         Checked /\ (asm'.cpu = "ram" \/ fwStep' = "restart") =>
            asm.cpu = "ram" \/ fwStep = "restart" \/ InPlace(FirmwareChunks)
  PROVE  UploadSafe'
  <1>1. AtTurn(index, addr)' <=> AtTurn(index, addr)
    BY DEF AtTurn, Low, Address, Offsets
  <1>2. InPlace(index)' <=> InPlace(index)
    BY SameMachine DEF InPlace, Low, Address, Offsets
  <1>3. InPlace(FirmwareChunks)' <=> InPlace(FirmwareChunks)
    BY SameMachine DEF InPlace, Low, Address, Offsets
  <1>4. Pair(index)' = Pair(index)
    BY SameMachine DEF Pair, WithBit, HasBit
  <1> QED BY <1>1, <1>2, <1>3, <1>4, SameMachine DEF FwInv, UploadSafe

LEMMA FirmwareInit0 ==
  ASSUME Init
  PROVE  FwInv
  <1>1. machine.words \in Nat
    BY MachinesAssumption DEF Init, DispatchInit
  <1>2. /\ binding = TRUE /\ fwStep = "idle" /\ messages = 0 /\ opened = {}
        /\ asm = [cpu |-> "rom", ramWrite |-> FALSE, access |-> FALSE] /\ uploaded = FALSE
        /\ sram = [a \in 0 .. 2 * FirmwareChunks |-> Blank]
    BY DEF Init, FirmwareInit
  <1>3. Blank \in Int \X Int
    BY DEF Blank
  <1>4. sram \in [0 .. 2 * FirmwareChunks -> Int \X Int]
    BY <1>2, <1>3
  <1>a. asm \in AsmSet
    BY <1>2 DEF AsmSet
  <1>b. binding \in BOOLEAN /\ fwStep \in FwSteps /\ uploaded \in BOOLEAN
    BY <1>2, Zenon DEF FwSteps
  <1>c. messages \in -1 .. 4
    BY <1>2
  <1>5. FwTypes
    BY <1>4, <1>a, <1>b, <1>c DEF FwTypes
  <1>6. HelperSafe /\ UploadSafe
    BY <1>2 DEF HelperSafe, UploadSafe, Outside
  <1> QED BY <1>5, <1>6 DEF FwInv

\* Supported is called, identifies the device, asks for the version, and ends.
LEMMA HelperStepsInv ==
  ASSUME DispatchOk, FwInv, machine' = machine,
         \/ ConnectAll \/ OfferDevice \/ FirmwareIdentify \/ SendMessage \/ ReceiveMessage
         \/ CheckFirmwareIsLoaded \/ VerifyFirmware \/ CloseProtocolAndExit \/ XhciTakesOver
  PROVE  FwInv'
  <1> USE DEF FwTypes, HelperSafe, FwSteps, Outside, Stay, dispatchVars, Upload,
              Connection, InSupported, On, Goes
  <1>1. FwTypes' /\ HelperSafe'
    <2>0. FwTypes /\ HelperSafe /\ FirmwareChunks' = FirmwareChunks
      BY SameMachine DEF FwInv
    <2>1. CASE ConnectAll BY <2>0, <2>1 DEF ConnectAll
    <2>2. CASE OfferDevice BY <2>0, <2>2 DEF OfferDevice
    <2>3. CASE FirmwareIdentify BY <2>0, <2>3 DEF FirmwareIdentify
    <2>4. CASE SendMessage
      BY <2>0, <2>4 DEF SendMessage, Asking, MailboxFails, AssertFails
    <2>5. CASE ReceiveMessage
      BY <2>0, <2>5 DEF ReceiveMessage, Asking, MailboxFails, AssertFails
    <2>6. CASE CheckFirmwareIsLoaded
      <3>1. PICK loaded \in SaysLoaded :
               /\ uploaded' = loaded
               /\ fwStep' = IF loaded THEN "close" ELSE "reset"
        BY <2>6 DEF CheckFirmwareIsLoaded
      <3>2. fwStep = "version" /\ messages =< 0
        BY <2>6 DEF CheckFirmwareIsLoaded
      <3>3. messages \in -1 .. 4 /\ (machine.debug => messages # -1)
        BY <2>0
      <3>4. machine.debug => messages = 0
        BY <3>2, <3>3
      <3>5. loaded \in BOOLEAN /\ (machine.debug => (loaded => asm.cpu = "ram"))
        BY <3>1, <3>4, Zenon DEF SaysLoaded
      <3>6. UNCHANGED <<binding, opened, handle, xhci, messages, asm, sram, machine>>
        BY <2>6 DEF CheckFirmwareIsLoaded
      <3>7. uploaded' \in BOOLEAN /\ fwStep' \in {"close", "reset"}
            /\ (uploaded' => fwStep' = "close") /\ (uploaded' /\ machine.debug => asm.cpu = "ram")
        BY <3>1, <3>5
      <3> QED BY <2>0, <3>2, <3>6, <3>7
    <2>7. CASE VerifyFirmware BY <2>0, <2>7 DEF VerifyFirmware
    <2>8. CASE CloseProtocolAndExit BY <2>0, <2>8 DEF CloseProtocolAndExit
    <2>9. CASE XhciTakesOver BY <2>0, <2>9 DEF XhciTakesOver
    <2> QED BY <2>1, <2>2, <2>3, <2>4, <2>5, <2>6, <2>7, <2>8, <2>9
  <1>2. /\ UNCHANGED <<sram, index, addr, asm>>
        /\ fwStep' \notin {"write", "poll", "restart", "halt"}
        /\ machine.debug /\ fwStep' = "reset" => asm.cpu # "ram"
    <2>1. CASE ConnectAll \/ OfferDevice \/ FirmwareIdentify
      BY <2>1 DEF ConnectAll, OfferDevice, FirmwareIdentify
    <2>2. CASE SendMessage \/ ReceiveMessage
      BY <2>2 DEF SendMessage, ReceiveMessage, Asking
    <2>3. CASE VerifyFirmware
      BY <2>3 DEF VerifyFirmware
    <2>4. CASE CloseProtocolAndExit \/ XhciTakesOver
      BY <2>4 DEF CloseProtocolAndExit, XhciTakesOver
    <2>5. CASE CheckFirmwareIsLoaded
      <3>1. PICK loaded \in SaysLoaded : fwStep' = IF loaded THEN "close" ELSE "reset"
        BY <2>5 DEF CheckFirmwareIsLoaded
      <3>2. machine.debug => messages = 0
        BY <2>5 DEF CheckFirmwareIsLoaded, FwInv
      <3>3. machine.debug => (loaded <=> asm.cpu = "ram")
        BY <3>1, <3>2, Zenon DEF SaysLoaded
      <3>4. UNCHANGED <<sram, index, addr, asm>> /\ fwStep' \in {"close", "reset"}
        BY <2>5, <3>1 DEF CheckFirmwareIsLoaded
      <3> QED BY <3>1, <3>3, <3>4
    <2> QED BY <2>1, <2>2, <2>3, <2>4, <2>5
  <1>3. UploadSafe'
    BY <1>2, UploadKept, Zenon
  <1> QED BY <1>1, <1>3 DEF FwInv

\* The reset, the halt, and the two ends of the upload loop.
LEMMA ControllerStepsInv ==
  ASSUME DispatchOk, FwInv, machine' = machine,
         LoadFirmwareReset \/ LoadFirmwareHalt \/ LoadFirmwareRun \/ LoadFirmwareRestart
  PROVE  FwInv'
  <1> USE DEF FwTypes, HelperSafe, FwSteps, Outside, AsmSet, Stay, AssertFails, dispatchVars,
              Upload, Connection, InSupported, On, Goes, OkGoes, WaitReset, WriteRegisters
  <1>0. /\ FwTypes /\ HelperSafe /\ UploadSafe
        /\ FirmwareChunks' = FirmwareChunks /\ FirmwareChunks \in Nat
    BY SameMachine, WordsNatural DEF FwInv
  <1>1. CASE LoadFirmwareReset
    <2>1. FwTypes' /\ HelperSafe'
      BY <1>0, <1>1 DEF LoadFirmwareReset, UploadSafe
    <2>2. /\ UNCHANGED <<sram, index, addr>> /\ fwStep = "reset" /\ fwStep' \in {"reset", "halt"}
          /\ asm'.cpu \in {"rom", "halted", asm.cpu}
      BY <1>0, <1>1 DEF LoadFirmwareReset
    <2>3. machine.debug => asm.cpu # "ram" /\ asm'.cpu # "ram"
      BY <1>0, <2>2 DEF UploadSafe
    <2> QED BY <2>1, <2>2, <2>3, UploadKept DEF FwInv, Checked
  <1>2. CASE LoadFirmwareHalt
    <2>1. PICK ok \in BOOLEAN :
            /\ asm' \in AsmSet /\ asm'.cpu \in {asm.cpu, "halted"}
            /\ ok => asm' = [cpu |-> "halted", ramWrite |-> TRUE, access |-> TRUE]
            /\ OkGoes(ok, "write")
      BY <1>0, <1>2 DEF LoadFirmwareHalt
    <2>2. /\ fwStep = "halt" /\ index' = 0 /\ addr' = 0
          /\ UNCHANGED <<binding, opened, handle, xhci, messages, sram, uploaded>>
      BY <1>2 DEF LoadFirmwareHalt
    <2>3. /\ fwStep' = "write" \/ fwStep' = "halt"
          /\ machine.debug /\ fwStep' = "write" => asm'.ramWrite /\ asm'.access
          /\ machine.debug => asm.cpu # "ram" /\ asm'.cpu # "ram"
      BY <1>0, <2>1, <2>2 DEF UploadSafe
    <2>4. FwTypes' /\ HelperSafe'
      BY <1>0, <2>1, <2>2, <2>3
    <2>5. AtTurn(index', addr')
      <3>1. 0 \in Offsets /\ 0 = Low(0, 0) /\ 0 = Address(0, 0)
        BY ChunkAssumption DEF Offsets, Low, Address
      <3> QED BY <2>2, <3>1 DEF AtTurn
    <2>6. \A p \in Nat, t \in Offsets : ~(Low(p, t) < 0)
      BY TurnOrder
    <2>7. InPlace(index)'
      BY <2>2, <2>6 DEF InPlace, Low, Offsets
    <2>8. AtTurn(index, addr)'
      BY <2>5 DEF AtTurn, Low, Address, Offsets
    <2>9. UploadSafe'
      BY <2>3, <2>7, <2>8 DEF UploadSafe, Checked
    <2> QED BY <2>4, <2>9 DEF FwInv
  <1>3. CASE LoadFirmwareRun
    <2>1. /\ UNCHANGED <<sram, index, addr>> /\ asm' \in AsmSet /\ asm'.cpu = asm.cpu /\ ~halted
          /\ fwStep = "write" /\ index >= FirmwareChunks
          /\ (fwStep' = "write" /\ halted') \/ fwStep' = "restart"
          /\ UNCHANGED <<binding, opened, handle, xhci, messages, uploaded>>
      BY <1>0, <1>3 DEF LoadFirmwareRun
    <2>2. FwTypes' /\ HelperSafe'
      BY <1>0, <2>1
    <2>3. /\ machine.debug => asm.cpu # "ram"
          /\ Checked => InPlace(index)
          /\ AtTurn(index, addr)
      BY <1>0, <2>1 DEF UploadSafe
    <2>4. index \in Nat
      BY <2>3, TurnOrder DEF AtTurn
    <2>5. Checked => InPlace(FirmwareChunks)
      <3>1. \A p \in Nat, t \in Offsets : Low(p, t) \in Nat
        BY TurnOrder
      <3>2. \A p \in Nat, t \in Offsets : Low(p, t) < FirmwareChunks => Low(p, t) < index
        BY <1>0, <2>1, <2>4, <3>1
      <3> QED BY <2>3, <3>2 DEF InPlace
    <2>6. UploadSafe'
      BY <2>1, <2>3, <2>5, UploadKept
    <2> QED BY <2>2, <2>6 DEF FwInv
  <1>4. CASE LoadFirmwareRestart
    <2>1. FwTypes' /\ HelperSafe'
      <3>1. PICK ok \in BOOLEAN, cpu \in {"ram", "halted", asm.cpu}, access \in BOOLEAN :
              /\ ok => cpu = "ram"
              /\ asm' = [asm EXCEPT !.cpu = cpu, !.access = access]
              /\ OkGoes(ok, "verify")
        BY <1>4 DEF LoadFirmwareRestart
      <3>2. /\ fwStep = "restart" /\ ~halted /\ uploaded' = ~halted' /\ messages' = 4
            /\ UNCHANGED <<binding, opened, handle, xhci, sram>>
        BY <1>4 DEF LoadFirmwareRestart
      <3>3. /\ uploaded' \in BOOLEAN /\ fwStep' \in {"restart", "verify"}
            /\ uploaded' => fwStep' = "verify"
            /\ uploaded' /\ machine.debug => ok
        BY <3>1, <3>2, Zenon
      <3>4. asm' \in AsmSet /\ (ok => asm'.cpu = "ram")
        BY <1>0, <3>1
      <3> QED BY <1>0, <3>2, <3>3, <3>4
    <2>2. /\ UNCHANGED <<sram, index, addr>> /\ fwStep = "restart"
          /\ fwStep' \in {"verify", "restart"}
      BY <1>0, <1>4 DEF LoadFirmwareRestart
    <2> QED BY <2>1, <2>2, UploadKept DEF FwInv
  <1> QED BY <1>1, <1>2, <1>3, <1>4

LEMMA Wraps ==
  ASSUME NEW a \in Nat, NEW n \in Nat \ {0}
  PROVE  a % n \in 0 .. a /\ (a < n => a % n = a)
  OBVIOUS

\* Where a word of the blob belongs, in terms of the turn that writes it.
LEMMA WordPlace ==
  ASSUME DispatchOk, NEW w \in Nat, w < FirmwareChunks
  PROVE  \E p \in Nat, t \in Offsets :
           /\ w = IF HasBit(w) THEN Low(p, t) + Chunk ELSE Low(p, t)
           /\ PairAddress(w) = Address(p, t)
           /\ Low(p, t) < FirmwareChunks
  <1> DEFINE low == IF HasBit(w) THEN w - Chunk ELSE w
             pair == (low \div (2 * Chunk)) * Chunk + (low % Chunk)
             c == w \div Chunk
             p == c \div 2
             t == w % Chunk
  <1>1. Chunk \in Nat \ {0} /\ FirmwareChunks \in Nat
    BY WordsNatural, ChunkAssumption
  <1>2. c \in Nat /\ t \in 0 .. Chunk - 1 /\ w = Chunk * c + t
    BY <1>1, DivParts
  <1>3. p \in Nat /\ c = IF HasBit(w) THEN 2 * p + 1 ELSE 2 * p
    BY <1>2 DEF HasBit
  <1> HIDE DEF c, p, t
  <1>4. low = Low(p, t) /\ t \in Offsets
    <2>1. Chunk * (2 * p + 1) = Chunk * (2 * p) + Chunk /\ Chunk * (2 * p) \in Nat
      BY <1>1, <1>3
    <2> QED BY <1>1, <1>2, <1>3, <2>1 DEF Low, Offsets
  <1>5. low \div (2 * Chunk) = p /\ low % Chunk = t
    <2>1. low % Chunk = t
      <3>1. 2 * p \in Nat
        BY <1>3
      <3>2. (Chunk * (2 * p) + t) % Chunk = t
        BY <1>1, <1>2, <3>1, DivUnique
      <3> QED BY <1>4, <3>2 DEF Low
    <2>2. 2 * Chunk \in Nat \ {0} /\ t \in 0 .. (2 * Chunk) - 1 /\ low = (2 * Chunk) * p + t
      BY <1>1, <1>2, <1>3, <1>4 DEF Low
    <2>3. ((2 * Chunk) * p + t) \div (2 * Chunk) = p
      BY <1>3, <2>2, DivUnique
    <2> QED BY <2>1, <2>2, <2>3
  <1>6. PairAddress(w) = 2 * pair
    BY DEF PairAddress
  <1>7. w = IF HasBit(w) THEN low + Chunk ELSE low
    BY <1>1
  <1> HIDE DEF low
  <1>8. 2 * pair = Address(p, t)
    BY <1>1, <1>2, <1>3, <1>5 DEF Address
  <1> HIDE DEF pair
  <1>9. Low(p, t) < FirmwareChunks
    BY <1>1, <1>3, <1>4, <1>7, TurnOrder
  <1> QED BY <1>3, <1>4, <1>6, <1>7, <1>8, <1>9

\* The address of a turn's pair, where the blob fits.
LEMMA TurnFits ==
  ASSUME DispatchOk, BlobFits, NEW p \in Nat, NEW t \in Offsets, Low(p, t) < FirmwareChunks
  PROVE  Address(p, t) < AddressSpan
  <1>1. Low(p, t) \in Nat /\ FirmwareChunks \in Nat
    BY TurnOrder, WordsNatural
  <1>2. PICK q \in Nat, r \in Offsets :
          /\ Low(p, t) = IF HasBit(Low(p, t)) THEN Low(q, r) + Chunk ELSE Low(q, r)
          /\ PairAddress(Low(p, t)) = Address(q, r)
    BY <1>1, WordPlace
  <1>3. p = q /\ t = r
    BY <1>2, TurnPair, TurnUnique
  <1> QED BY <1>1, <1>2, <1>3 DEF BlobFits

\* A turn of the loop: the pair is written to its address, and the controller's answer
\* takes the loop on.
LEMMA LoadFirmwareWriteInv ==
  ASSUME DispatchOk, FwInv, machine' = machine, LoadFirmwareWrite
  PROVE  FwInv'
  <1> DEFINE at == addr % AddressSpan
  <1>1. PICK ok \in BOOLEAN :
          /\ sram' = IF ok /\ asm.access /\ asm.ramWrite THEN [sram EXCEPT ![at] = Pair(index)]
                                                          ELSE sram
          /\ OkGoes(ok, "poll")
    BY DEF LoadFirmwareWrite
  <1>2. /\ fwStep = "write" /\ fwStep' \in {"write", "poll"} /\ index < FirmwareChunks /\ ~halted
        /\ UNCHANGED <<binding, opened, handle, xhci, messages, asm, index, addr, uploaded>>
        /\ fwStep' = "write" => machine.debug /\ ~ok /\ halted'
        /\ machine.debug /\ fwStep' = "poll" => ok
        /\ FirmwareChunks' = FirmwareChunks /\ FirmwareChunks \in Nat
    BY <1>1, SameMachine, WordsNatural
    DEF LoadFirmwareWrite, InSupported, On, Goes, OkGoes, AssertFails, Connection, Stay,
        dispatchVars
  <1>3. FwTypes /\ HelperSafe /\ UploadSafe /\ AtTurn(index, addr)
        /\ (machine.debug => asm.cpu # "ram")
    BY <1>2 DEF FwInv, UploadSafe
  <1>4. PICK p \in Nat, t \in Offsets : index = Low(p, t) /\ addr = Address(p, t)
    BY <1>3 DEF AtTurn
  <1>5. /\ index \in Nat /\ addr \in Nat /\ at \in 0 .. 2 * FirmwareChunks
        /\ Pair(index) \in Int \X Int /\ (BlobFits => at = addr)
    <2>1. Low(p, t) \in Nat /\ Address(p, t) \in Nat /\ Address(p, t) =< 2 * Low(p, t)
      BY TurnOrder
    <2>2. Pair(Low(p, t)) \in Int \X Int
      BY <2>1, TurnPair, ChunkAssumption
    <2>3. at \in 0 .. addr /\ (addr < AddressSpan => at = addr)
      BY <1>4, <2>1, Wraps, ChunkAssumption
    <2>4. BlobFits => addr < AddressSpan
      BY <1>2, <1>4, TurnFits
    <2> HIDE DEF at
    <2> QED BY <1>2, <1>4, <2>1, <2>2, <2>3, <2>4
  <1> HIDE DEF at
  <1>6. FwTypes' /\ HelperSafe'
    <2>1. sram' \in [0 .. 2 * FirmwareChunks -> Int \X Int]
      BY <1>1, <1>3, <1>5 DEF FwTypes
    <2> QED BY <1>2, <1>3, <2>1 DEF FwTypes, HelperSafe, FwSteps, Outside
  <1>7. Checked /\ fwStep' = "poll" => sram'[addr] = Pair(index)
    BY <1>1, <1>2, <1>3, <1>5 DEF FwTypes, UploadSafe, Checked
  <1>8. ASSUME Checked, NEW q \in Nat, NEW r \in Offsets, Low(q, r) < index
        PROVE  sram'[Address(q, r)] = Pair(Low(q, r))
    <2>1. sram[Address(q, r)] = Pair(Low(q, r))
      BY <1>2, <1>3, <1>8 DEF UploadSafe, InPlace
    <2>2. Address(q, r) # addr
      <3>1. Low(q, r) # Low(p, t)
        BY <1>4, <1>8, TurnOrder
      <3> QED BY <1>4, <3>1, TurnUnique
    <2>3. Address(q, r) \in 0 .. 2 * FirmwareChunks
      BY <1>2, <1>4, <1>8, TurnOrder
    <2>4. at = addr
      BY <1>5, <1>8 DEF Checked
    <2> QED BY <1>1, <1>3, <2>1, <2>2, <2>3, <2>4 DEF FwTypes
  <1>9. Checked => InPlace(index)'
    BY <1>2, <1>8, SameMachine DEF InPlace, Low, Address, Offsets
  <1>10. AtTurn(index, addr)' /\ Pair(index)' = Pair(index) /\ Checked' = Checked
    BY <1>2, <1>3, SameMachine DEF AtTurn, Low, Address, Offsets, Pair, WithBit, HasBit
  <1>11. UploadSafe'
    BY <1>2, <1>3, <1>7, <1>9, <1>10 DEF UploadSafe, Checked
  <1> QED BY <1>6, <1>11 DEF FwInv

LEMMA LoadFirmwarePollInv ==
  ASSUME DispatchOk, FwInv, machine' = machine, LoadFirmwarePoll
  PROVE  FwInv'
  <1> USE DEF InSupported, On, Goes, Connection, Stay, AssertFails, dispatchVars
  <1>1. /\ fwStep = "poll" /\ fwStep' \in {"write", "verify", "poll"} /\ ~halted
        /\ messages' \in {messages, 4}
        /\ UNCHANGED <<binding, opened, handle, xhci, asm, sram, uploaded>>
        /\ fwStep' = "write" => index' = NextIndex(index) /\ addr' = addr + 2
        /\ fwStep' = "poll" => UNCHANGED <<index, addr>> /\ halted'
        /\ FirmwareChunks' = FirmwareChunks
    BY SameMachine DEF LoadFirmwarePoll
  <1>2. FwTypes /\ HelperSafe /\ UploadSafe /\ AtTurn(index, addr)
        /\ (machine.debug => asm.cpu # "ram") /\ Checked' = Checked
    BY <1>1, SameMachine DEF FwInv, UploadSafe
  <1>3. FwTypes' /\ HelperSafe'
    BY <1>1, <1>2 DEF FwTypes, HelperSafe, FwSteps, Outside
  <1>4. CASE fwStep' = "write"
    <2>1. PICK p \in Nat, t \in Offsets : index = Low(p, t) /\ addr = Address(p, t)
      BY <1>2 DEF AtTurn
    <2>2. AtTurn(index', addr')
      BY <1>1, <1>4, <2>1, TurnNext
    <2>3. AtTurn(index, addr)'
      BY <2>2 DEF AtTurn, Low, Address, Offsets
    <2>4. ASSUME Checked, NEW q \in Nat, NEW r \in Offsets, Low(q, r) < index'
          PROVE  sram[Address(q, r)] = Pair(Low(q, r))
      <3>1. Low(q, r) < index \/ (q = p /\ r = t)
        BY <1>1, <1>4, <2>1, <2>4, TurnNext
      <3> QED BY <1>1, <1>2, <2>1, <2>4, <3>1 DEF UploadSafe, InPlace
    <2>5. Checked => InPlace(index)'
      BY <1>1, <2>4, SameMachine DEF InPlace, Low, Address, Offsets
    <2>6. UploadSafe'
      BY <1>1, <1>2, <1>4, <2>3, <2>5 DEF UploadSafe, Checked
    <2> QED BY <1>3, <2>6 DEF FwInv
  <1>5. CASE fwStep' = "verify"
    <2>1. UploadSafe'
      BY <1>1, <1>2, <1>5 DEF UploadSafe, Checked
    <2> QED BY <1>3, <2>1 DEF FwInv
  <1>6. CASE fwStep' = "poll"
    BY <1>1, <1>2, <1>3, <1>6, UploadKept DEF FwInv
  <1> QED BY <1>1, <1>4, <1>5, <1>6

LEMMA FirmwareNext ==
  ASSUME DispatchOk, FwInv, [Next]_vars
  PROVE  FwInv'
  <1>1. machine' = machine
    BY NextDispatch
  <1>2. CASE Firmware
    BY <1>1, <1>2, HelperStepsInv, ControllerStepsInv, LoadFirmwareWriteInv,
       LoadFirmwarePollInv DEF Firmware, FirmwareStep
  <1>3. CASE Dart \/ Usb \/ Pcie \/ UNCHANGED vars \/ (Hardware /\ ~AsmediaAccepts)
    <2>1. UNCHANGED fwVars
      BY <1>3 DEF Dart, Usb, Pcie, vars, Hardware
    <2>2. halted => halted'
      BY <1>3 DEF Dart, DartStep, DartVendor, DartLookup, DartSelect, DartClearTcrs,
         DartClearTtbrs, DartTlbFlush, DartBypassMode, Usb, UsbStep, UsbInitialize, UsbSignal,
         UsbSelect, Dwc3Identify, Dwc3ControllerSoftReset, Dwc3XhciCoreInit,
         Dwc3AppleSetupCio, Dwc3SetMode, Dwc3SetFladj, RegisterDevice, InCallback, Pcie,
         PcieStep, GpioInitialize, PcieBegin, PcieAssertPerst, PcieRequestRefclk0,
         PcieWaitRefclk0, PcieWaitRefclk1, PcieEnableRefclk, PcieReleasePerst,
         PcieWaitReady, PcieFinishPort, PcieReturn, InPort, On, Hardware, DartFlushes,
         DartHardware, PcieAnswers, PcieHardware, Stay, dispatchVars, vars
    <2> QED BY <1>1, <2>1, <2>2, UnchangedFirmware
  <1>4. CASE AsmediaAccepts
    <2>1. UNCHANGED <<sram, index, addr, asm, fwStep, halted>>
      BY <1>4 DEF AsmediaAccepts, Stay, dispatchVars
    <2>2. FwTypes' /\ HelperSafe'
      BY <1>1, <1>4, SameMachine
      DEF AsmediaAccepts, Connection, FwInv, FwTypes, HelperSafe
    <2>3. UploadSafe'
      BY <1>1, <2>1, UploadKept DEF FwInv, UploadSafe
    <2> QED BY <2>2, <2>3 DEF FwInv
  <1> QED BY <1>2, <1>3, <1>4 DEF Next

\* The invariant of the firmware helper: whom it holds, what its report of success means,
\* and which words of the blob are in place at each turn of its upload loop.
THEOREM FwInvHolds == Spec => [](DispatchOk /\ FwInv)
  <1>1. Init => DispatchOk /\ FwInv
    BY PcieInit0, FirmwareInit0
  <1>2. DispatchOk /\ FwInv /\ [Next]_vars => (DispatchOk /\ FwInv)'
    BY NextDispatch, FirmwareNext
  <1> QED BY <1>1, <1>2, PTL DEF Spec

\* The helper holds a device only while Supported runs, never one XhciDxe manages, and in
\* a debug build it goes away only when the controller runs its firmware
\* (AppleBootTimeEmbeddedFirmwareHelperDxe.c, Supported and its two exits).
THEOREM HelperIsOutOfTheWay == Spec => []HelperStepsAside
  <1>1. FwInv => HelperStepsAside
    BY DEF FwInv, HelperSafe, Outside, HelperStepsAside
  <1> QED BY <1>1, FwInvHolds, PTL

\* A controller that runs from its code memory finds every word of the blob where it
\* looks for it, for any blob whose addresses fit their register and any size of a
\* chunk: the loop's arithmetic on its index leaves no word out and writes none over
\* another.
THEOREM FirmwareIsWhole == Spec => []FirmwareWhole
  <1>1. ASSUME DispatchOk, FwInv, Checked, asm.cpu = "ram", NEW w \in 0 .. FirmwareChunks - 1
        PROVE  sram[PairAddress(w)][IF HasBit(w) THEN 2 ELSE 1] = w
    <2>1. Chunk \in Nat \ {0} /\ FirmwareChunks \in Nat /\ w \in Nat /\ w < FirmwareChunks
      BY <1>1, WordsNatural, ChunkAssumption
    <2>2. PICK p \in Nat, t \in Offsets :
            /\ w = IF HasBit(w) THEN Low(p, t) + Chunk ELSE Low(p, t)
            /\ PairAddress(w) = Address(p, t)
            /\ Low(p, t) < FirmwareChunks
      BY <1>1, <2>1, WordPlace
    <2>3. sram[Address(p, t)] = Pair(Low(p, t))
      BY <1>1, <2>2 DEF FwInv, UploadSafe, InPlace
    <2>4. Pair(Low(p, t)) = <<Low(p, t), IF Low(p, t) + Chunk < FirmwareChunks
                                         THEN Low(p, t) + Chunk ELSE -1>>
      BY TurnPair
    <2>5. Low(p, t) \in Nat
      BY TurnOrder
    <2> QED BY <2>1, <2>2, <2>3, <2>4, <2>5
  <1>2. DispatchOk /\ FwInv => FirmwareWhole
    BY <1>1 DEF FirmwareWhole, Checked
  <1> QED BY <1>2, FwInvHolds, PTL
=============================================================================
