---------------------------- MODULE Peripherals -----------------------------
(* The hardware drivers of one machine, from the first driver of the a priori *)
(* file to BDS: IOMMUs, pins, PCIe ports, Type-C controllers and the firmware *)
(* of the PCIe xHCI controller, with the hardware that answers them.          *)
EXTENDS UsbTypeC, XhciFirmware

vars == <<dispatchVars, dartVars, usbVars, pcieVars, fwVars>>

Init == DispatchInit /\ DartInit /\ UsbInit /\ PcieInit /\ FirmwareInit

Dart == DartStep /\ UNCHANGED <<usbVars, pcieVars, fwVars>>
Usb == UsbStep /\ UNCHANGED <<pcieVars, fwVars>>
Pcie == PcieStep /\ UNCHANGED <<dartVars, usbVars, fwVars>>
Firmware == FirmwareStep /\ UNCHANGED <<dartVars, usbVars, pcieVars>>

Hardware ==
  \/ DartFlushes /\ UNCHANGED <<usbVars, pcieVars, fwVars>>
  \/ PcieAnswers /\ UNCHANGED <<dartVars, usbVars, fwVars>>
  \/ AsmediaAccepts /\ UNCHANGED <<dartVars, usbVars, pcieVars>>

Next == Dart \/ Usb \/ Pcie \/ Firmware \/ Hardware

Spec == Init /\ [][Next]_vars

\* The drivers run on the boot processor; a DART ends every flush it starts.
\* Nothing else is asked of the hardware.
FairSpec == /\ Spec
            /\ WF_vars(Dart) /\ WF_vars(Usb) /\ WF_vars(Pcie) /\ WF_vars(Firmware)
            /\ WF_vars(DartFlushes /\ UNCHANGED <<usbVars, pcieVars, fwVars>>)

-----------------------------------------------------------------------------

\* No stream of a DART translates through a table register that was cleared,
\* and no register is written through an address nobody looked up
\* (AppleDartIoMmuDxe.c: streams first, tables next, bypass last).
NeverHalfProgrammed ==
  /\ ~stray
  /\ \A d \in Darts, s \in Streams :
       tcr[d][s] = "translate" => {s} \X (0 .. Nttbr - 1) \subseteq ttbr[d]

\* The port m1n1 talks through, and the DFU ports, keep what m1n1 set up: no
\* driver touches their DARTs or their DWC3 cores.
ProxyUntouched ==
  \A c \in Controllers :
    ~HasNode(c) \/ c \in {0, 2} =>
      /\ core[c] = FreshCore
      /\ \A d \in {2 * c, 2 * c + 1} :
           ttbr[d] = Streams \X (0 .. Nttbr - 1) /\ ~flushing[d]

\* A controller XhciDxe is given without an init function is in host mode, out
\* of reset and configured after it, and, where the DARTs can be bypassed, every
\* stream of its two DARTs is, without which its DMA would reach nothing.
PublishedCanDma ==
  \A c \in Controllers :
    <<c, "NULL">> \in published =>
      /\ core[c].mode = "host" /\ core[c].configured /\ core[c].cio /\ ~core[c].reset
      /\ machine.bypass =>
           \A d \in {2 * c, 2 * c + 1}, s \in Streams : tcr[d][s] = "bypass"

\* A DWC3 core leaves its reset only when its PHYs have left theirs.
CoreAfterPhys ==
  [][\A c \in Controllers :
       core[c].reset /\ ~core'[c].reset => ~core[c].usb2Reset /\ ~core[c].usb3Reset]_vars

\* A port takes PERST# off only with both reference clocks acknowledged and
\* enabled and the application clock on; a port given up before that stays in
\* reset, whatever the hardware answers later.
PerstWithClock ==
  \A p \in Ports :
    lane[p].perstOff => /\ lane[p].ack0 /\ lane[p].ack1 /\ lane[p].refclk
                        /\ lane[p].appclk # "off" /\ ~lane[p].phyAccess

\* A link is trained only on a port that was seen ready after PERST# was taken
\* off, at the port and, where the pin is one of the controller's, at the slot;
\* its clocks are gated only after that.
TrainsWhenReady ==
  \A p \in Ports :
    /\ lane[p].training =>
         /\ lane[p].ready /\ lane[p].perstOff
         /\ GpioFound(ResetPin(p)) => GpioGetMode(ResetPin(p)) = "OUTPUT_1"
    /\ lane[p].gated => lane[p].training

\* Both, for every port: the order in which a port is set up holds against late
\* answers of the hardware and ports that were given up.
PortsInOrder == PerstWithClock /\ TrainsWhenReady

\* Where the controller looks for word w: two chunks side by side, a pair of
\* words for each address.
PairAddress(w) ==
  LET low == IF HasBit(w) THEN w - Chunk ELSE w
  IN  2 * ((low \div (2 * Chunk)) * Chunk + (low % Chunk))

\* The blob is no longer than the SRAM's addresses reach.
BlobFits == \A w \in 0 .. FirmwareChunks - 1 : PairAddress(w) < AddressSpan

\* Whenever the controller runs from its code memory, every word of a blob that
\* fits is where the controller looks for it (AppleAsmediaLoadFirmware).  A
\* release build goes on after a failed read-back or a failed write.
FirmwareWhole ==
  machine.debug /\ BlobFits /\ asm.cpu = "ram" =>
    \A w \in 0 .. FirmwareChunks - 1 :
      sram[PairAddress(w)][IF HasBit(w) THEN 2 ELSE 1] = w

\* The helper holds a device only while Supported runs, never one XhciDxe
\* manages, and it is uninstalled only by a controller that runs its firmware.
HelperStepsAside ==
  /\ fwStep \in {"idle", "takeover"} => opened = {}
  /\ opened \cap xhci = {}
  /\ ~binding /\ machine.debug => asm.cpu = "ram"

\* The drivers end and BDS connects, or an ASSERT stopped the machine, however
\* the hardware behaves: only the DART's flush is waited for without a bound.
BringUpEnds == <>(halted \/ (running = "bds" /\ connects = MaxConnects
                             /\ fwStep = "idle" /\ pending = {}))

=============================================================================
