------------------------------ MODULE UsbTypeC ------------------------------
(* AppleUsbTypeCBringupDxe: at the end of DXE every DWC3 controller but those *)
(* of the DFU ports and of the port m1n1 keeps for its proxy is reset, put in *)
(* host mode and published as an xHCI controller.                             *)
EXTENDS AppleDart

VARIABLES usbEvent,     \* the end-of-DXE event: "none", "armed", "closed"
          usbIndex,     \* Dwc3Index
          usbStep,      \* where the callback is with the controller
          usbBase,      \* Dwc3ControllerBaseAddr: the controller it belongs to
          core,         \* the registers of each DWC3 core
          published     \* the devices registered, <<controller, init function>>

usbVars == <<usbEvent, usbIndex, usbStep, usbBase, core, published>>

\* As iBoot and m1n1 leave a core: out of reset, not yet a host.
FreshCore == [reset |-> FALSE, usb3Reset |-> FALSE, usb2Reset |-> FALSE,
              configured |-> FALSE, cio |-> FALSE, mode |-> "device",
              tuned |-> FALSE]

UsbInit == /\ usbEvent = "none" /\ usbIndex = 0 /\ usbStep = "select"
           /\ usbBase = Unset
           /\ core = [c \in Controllers |-> FreshCore]
           /\ published = {}

\* CreateEventEx, which may run out of memory; its status is the driver's.
UsbInitialize ==
  /\ On("typec")
  /\ usbEvent' \in {"none", "armed"}
  /\ Return /\ UNCHANGED <<usbIndex, usbStep, usbBase, core, published, dartVars>>

\* End of DXE signals the group; the callback closes its event first.
UsbSignal ==
  /\ On("endofdxe") /\ usbEvent # "closed"
  /\ IF usbEvent = "armed" THEN usbEvent' = "closed" /\ Stay
                           ELSE UNCHANGED usbEvent /\ Return
  /\ UNCHANGED <<usbIndex, usbStep, usbBase, core, published, dartVars>>

InCallback == On("endofdxe") /\ usbEvent = "closed"
OnlyUsb(vars) == Stay /\ UNCHANGED <<usbEvent, vars, dartVars>>

\* Mutant: only the first DFU port is spared.
UsbSkippedFirst(c) == c = 0 \/ ~HasNode(c)

\* Controllers 0 and 2 serve the DFU ports.
UsbSkipped(c) == c \in {0, 2} \/ ~HasNode(c)

UsbSelect ==
  /\ InCallback /\ usbStep = "select"
  /\ IF usbIndex \notin Controllers
     THEN Return /\ UNCHANGED <<usbIndex, usbStep, usbBase>>
     ELSE /\ Stay
          /\ IF UsbSkipped(usbIndex)
             THEN usbIndex' = usbIndex + 1 /\ UNCHANGED <<usbStep, usbBase>>
             ELSE /\ usbBase' = IF HasNode(usbIndex) THEN usbIndex ELSE usbBase
                  /\ usbStep' = "identify" /\ UNCHANGED usbIndex
  /\ UNCHANGED <<usbEvent, core, published, dartVars>>

\* GSnpsId: a core that is no DWC3 is given up, with EFI_NOT_FOUND.
Dwc3Identify ==
  /\ InCallback /\ usbStep = "identify"
  /\ usbStep' = IF usbBase \in machine.synopsys THEN "reset" ELSE "failed"
  /\ OnlyUsb(<<usbIndex, usbBase, core, published>>)

\* What each write of the soft reset does to the core and its PHYs.
SoftReset(c) ==
  [coreReset |-> [c EXCEPT !.reset = TRUE],
   phyReset  |-> [c EXCEPT !.usb3Reset = TRUE, !.usb2Reset = TRUE],
   phyClear  |-> [c EXCEPT !.usb3Reset = FALSE, !.usb2Reset = FALSE],
   coreClear |-> [c EXCEPT !.reset = FALSE, !.configured = FALSE, !.mode = "device",
                           !.tuned = FALSE, !.cio = FALSE]]

\* Mutant: the core is let go before its PHYs.
SoftResetCoreFirst == <<"coreReset", "phyReset", "coreClear", "phyClear">>

SoftResetOrder == <<"coreReset", "phyReset", "phyClear", "coreClear">>

Dwc3ControllerSoftReset ==
  \E i \in 1..4 :
    /\ InCallback /\ usbStep = IF i = 1 THEN "reset" ELSE SoftResetOrder[i]
    /\ core' = [core EXCEPT ![usbBase] = SoftReset(@)[SoftResetOrder[i]]]
    /\ usbStep' = IF i = 4 THEN "configure" ELSE SoftResetOrder[i + 1]
    /\ OnlyUsb(<<usbIndex, usbBase, published>>)

\* The rest of Dwc3XhciCoreInit: GCTL, with the errata of old revisions.
Dwc3XhciCoreInit ==
  /\ InCallback /\ usbStep = "configure"
  /\ core' = [core EXCEPT ![usbBase].configured = TRUE]
  /\ usbStep' = "cio" /\ OnlyUsb(<<usbIndex, usbBase, published>>)

Dwc3AppleSetupCio ==
  /\ InCallback /\ usbStep = "cio"
  /\ core' = [core EXCEPT ![usbBase].cio = TRUE]
  /\ usbStep' = "mode" /\ OnlyUsb(<<usbIndex, usbBase, published>>)

Dwc3SetMode ==
  /\ InCallback /\ usbStep = "mode"
  /\ core' = [core EXCEPT ![usbBase].mode = "host"]
  /\ usbStep' = "tune" /\ OnlyUsb(<<usbIndex, usbBase, published>>)

\* Frame length adjustment and burst lengths.
Dwc3SetFladj ==
  /\ InCallback /\ usbStep = "tune"
  /\ core' = [core EXCEPT ![usbBase].tuned = TRUE]
  /\ usbStep' = "ready" /\ OnlyUsb(<<usbIndex, usbBase, published>>)

\* The status of the bring-up, cast to a pointer, becomes the device's init
\* function: EFI_SUCCESS is NULL, EFI_DEVICE_ERROR is a wild pointer.
RegisterDevice ==
  /\ InCallback /\ usbStep \in {"ready", "failed"}
  /\ published' = published \cup
       {<<usbBase, IF usbStep = "ready" THEN "NULL" ELSE "DEVICE_ERROR">>}
  /\ usbIndex' = usbIndex + 1 /\ usbStep' = "select"
  /\ OnlyUsb(<<usbBase, core>>)

UsbStep == UsbInitialize \/ UsbSignal \/ UsbSelect \/ Dwc3Identify
           \/ Dwc3ControllerSoftReset \/ Dwc3XhciCoreInit \/ Dwc3AppleSetupCio
           \/ Dwc3SetMode \/ Dwc3SetFladj \/ RegisterDevice
=============================================================================
