----------------------------- MODULE PciePorts ------------------------------
(* AppleEmbeddedGpioControllerDxe, which owns the pins, and                   *)
(* AppleSiliconPciPlatformDxe, which brings up the root ports one after the   *)
(* other: reference clocks, PERST# through a pin, the port, the link.         *)
EXTENDS DriverDispatch

VARIABLES gpio,         \* the controller: [installed, count] once set up
          pin,          \* the fields of each pin's register
          pciePort,     \* PciePortIndex of the loop
          pcieStep,     \* where AppleSiliconPciePlatformDxeSetupPciePort is
          lane          \* the registers of each port and of its PHY

pcieVars == <<gpio, pin, pciePort, pcieStep, lane>>

\* -------------------------------------------------------- the GPIO driver

\* dt_node_u32 is read into a UINT8.
PinCount == machine.pins % 256
Pins == 0 .. machine.ports          \* one PERST# pin for each port and another

GpioInitialize ==
  /\ On("gpio")
  /\ IF AppleVendor(machine.implementer) /\ machine.gpioNode
     THEN \E ok \in BOOLEAN : gpio' = [installed |-> ok, count |-> PinCount]
     ELSE UNCHANGED gpio
  /\ Return /\ UNCHANGED <<pin, pciePort, pcieStep, lane>>

\* AppleEmbeddedGpioControllerLocate, of the only controller.
GpioFound(p) == p < gpio.count

\* The register is overwritten by the new fields alone: the merged value is
\* computed and dropped, so the pull and every other field are cleared.
GpioSetRegister(p, mode, data) ==
  [pin EXCEPT ![p] = [mode |-> mode, data |-> data, pull |-> "off"]]

GpioSet(p, mode) ==
  CASE mode = "OUTPUT_0" -> GpioSetRegister(p, "out", 0)
    [] mode = "OUTPUT_1" -> GpioSetRegister(p, "out", 1)
    [] OTHER             -> GpioSetRegister(p, "in", 0)

GpioGetMode(p) == IF pin[p].mode # "out" THEN "INPUT"
                  ELSE IF pin[p].data = 1 THEN "OUTPUT_1" ELSE "OUTPUT_0"

\* -------------------------------------------------------- the root ports

Ports == 0 .. machine.ports - 1
T602X == machine.soc = "t602x"
ResetPin(p) == p + 1

IdleLane == [appclk |-> "off", phyAccess |-> FALSE, req0 |-> FALSE, ack0 |-> FALSE,
             req1 |-> FALSE, ack1 |-> FALSE, refclk |-> FALSE, portRefclk |-> FALSE,
             perstOff |-> FALSE, ready |-> FALSE, training |-> FALSE, link |-> FALSE,
             gated |-> FALSE, outcome |-> "none"]

PcieInit ==
  /\ gpio = [installed |-> FALSE, count |-> 0]
  /\ pin = [p \in Pins |-> [mode |-> "in", data |-> 0, pull |-> "up"]]
  /\ pciePort = 0 /\ pcieStep = "begin"
  /\ lane = [p \in Ports |-> IdleLane]

InPort(step) == On("pcie") /\ pciePort \in Ports /\ pcieStep = step
SetLane(field, value) == lane' = [lane EXCEPT ![pciePort][field] = value]
Proceed(step) == pcieStep' = step /\ UNCHANGED <<gpio, pciePort>> /\ Stay

\* A port that fails: the status meets an ASSERT; a release build goes on.
PortFails == /\ lane' = [lane EXCEPT ![pciePort].outcome = "failed"]
             /\ IF machine.debug
                THEN AssertFails /\ UNCHANGED <<pciePort, pcieStep>>
                ELSE pciePort' = pciePort + 1 /\ pcieStep' = "begin" /\ Stay
             /\ UNCHANGED <<gpio, pin>>

PortStays == UNCHANGED <<gpio, pciePort, pcieStep>>

\* LocateProtocol, the pin from the bridge's function-perst, which is read
\* whether it is there or not, then PORT_APPCLK.
PcieBegin ==
  /\ InPort("begin")
  /\ CASE ~gpio.installed -> PortFails
       [] gpio.installed /\ pciePort \notin machine.perst ->
            Faults /\ PortStays /\ UNCHANGED <<pin, lane>>
       [] OTHER -> SetLane("appclk", "on") /\ Proceed("assert") /\ UNCHANGED pin

\* The GPIO calls assert that the pin is one of the controller's; a release
\* build that finds none writes through an address it never looked up.
DrivePerst(mode, next) ==
  IF GpioFound(ResetPin(pciePort))
  THEN pin' = GpioSet(ResetPin(pciePort), mode) /\ Proceed(next)
  ELSE /\ UNCHANGED pin
       /\ \/ AssertFails /\ PortStays
          \/ ~machine.debug /\ Proceed(next)
          \/ ~machine.debug /\ Faults /\ PortStays

PcieAssertPerst == InPort("assert") /\ DrivePerst("OUTPUT_0", "phy") /\ UNCHANGED lane

PcieRequestRefclk0 ==
  /\ InPort("phy")
  /\ lane' = [lane EXCEPT ![pciePort].phyAccess = ~T602X, ![pciePort].req0 = TRUE]
  /\ Proceed("ack0") /\ UNCHANGED pin

\* A poll loop ends when the bit is seen, or after its last turn without it.
PcieWaitRefclk0 ==
  /\ InPort("ack0")
  /\ IF lane[pciePort].ack0
     THEN SetLane("req1", TRUE) /\ Proceed("ack1") /\ UNCHANGED pin
     ELSE PortFails

\* Mutant: the second clock is not waited for.
PcieSkipRefclk1 == /\ InPort("ack1")
                   /\ lane' = lane /\ Proceed("refclk") /\ UNCHANGED pin

PcieWaitRefclk1 ==
  /\ InPort("ack1")
  /\ IF lane[pciePort].ack1
     THEN lane' = lane /\ Proceed("refclk") /\ UNCHANGED pin
     ELSE PortFails

PcieEnableRefclk ==
  /\ InPort("refclk")
  /\ lane' = [lane EXCEPT ![pciePort].phyAccess = FALSE, ![pciePort].refclk = TRUE,
                          ![pciePort].portRefclk = ~T602X]
  /\ Proceed("release") /\ UNCHANGED pin

\* PORT_PERST first, the pin next.
PcieReleasePerst ==
  InPort("release") /\ SetLane("perstOff", TRUE) /\ DrivePerst("OUTPUT_1", "ready")

\* Mutant: the poll loop has no last turn.
PcieWaitReadyForever ==
  /\ InPort("ready") /\ lane[pciePort].ready
  /\ SetLane("training", TRUE) /\ Proceed("link") /\ UNCHANGED pin

PcieWaitReady ==
  /\ InPort("ready")
  /\ IF lane[pciePort].ready
     THEN SetLane("training", TRUE) /\ Proceed("link") /\ UNCHANGED pin
     ELSE PortFails

\* A link that stays down is no error; clock gating is enabled last.
PcieFinishPort ==
  /\ InPort("link")
  /\ lane' = [lane EXCEPT ![pciePort].gated = TRUE, ![pciePort].appclk = "gated",
                          ![pciePort].outcome = IF lane[pciePort].link THEN "up" ELSE "down"]
  /\ pciePort' = pciePort + 1 /\ pcieStep' = "begin"
  /\ Stay /\ UNCHANGED <<gpio, pin>>

\* The loop ends at the first bridge node that is missing.
PcieReturn == /\ On("pcie") /\ pciePort \notin Ports
              /\ Return /\ UNCHANGED pcieVars

\* The hardware answers what was asked of it, at any time or never; a port
\* reports that it is ready whenever it likes, whatever its slot's reset does.
PcieHardware(p) ==
  \E field \in {"ack0", "ack1", "ready", "link"} :
    /\ ~lane[p][field]
    /\ CASE field = "ack0"  -> lane[p].req0
         [] field = "ack1"  -> lane[p].req1
         [] field = "ready" -> TRUE
         [] field = "link"  -> lane[p].training
    /\ lane' = [lane EXCEPT ![p][field] = TRUE]
    /\ Stay /\ UNCHANGED <<gpio, pin, pciePort, pcieStep>>

PcieStep == GpioInitialize \/ PcieBegin \/ PcieAssertPerst \/ PcieRequestRefclk0
            \/ PcieWaitRefclk0 \/ PcieWaitRefclk1 \/ PcieEnableRefclk
            \/ PcieReleasePerst \/ PcieWaitReady \/ PcieFinishPort \/ PcieReturn
PcieAnswers == \E p \in Ports : PcieHardware(p)
=============================================================================
