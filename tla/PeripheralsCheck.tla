-------------------------- MODULE PeripheralsCheck --------------------------
(* Machines for TLC: an M1 laptop and a Mac Studio with four Type-C            *)
(* controllers as packaged, and desktops with the drivers that no image, or    *)
(* not every image, packages, in debug and release builds.                     *)
EXTENDS Peripherals

\* The M1 machines: two Type-C controllers, everything described.
Laptop == [packaged |-> {"typec"}, implementer |-> 97, debug |-> TRUE, soc |-> "t8103",
           controllers |-> 2, removed |-> {}, dart |-> "t8020", bypass |-> TRUE,
           streams |-> 2, synopsys |-> 0 .. 3, gpioNode |-> TRUE, pins |-> 212,
           ports |-> 0, perst |-> 0 .. 1, pci |-> <<>>, xhci |-> {"asmedia"}, words |-> 0]
Studio == [Laptop EXCEPT !.controllers = 4, !.soc = "t6000"]

\* Ports alone, and ports with the xHCI controller behind the first.
Desktop == [Laptop EXCEPT !.packaged = {"gpio", "pcie"}, !.controllers = 0, !.ports = 2]
Asmedia(words) == [Desktop EXCEPT !.pci = [asmedia |-> 0, other |-> 1], !.words = words]

\* Another vendor's processor, without any of the hardware.
NotApple == [Laptop EXCEPT !.implementer = 0, !.controllers = 0, !.debug = FALSE,
                           !.packaged = {"gpio", "pcie", "typec"}]

UsbMachines ==
  {[m EXCEPT !.removed = r, !.dart = k, !.debug = debug, !.synopsys = s,
             !.packaged = {"typec"}] :
     m \in {Laptop, Studio}, r \in {{}, {0}, {1}, {3}}, k \in {"t8020", "t8110"},
     debug \in BOOLEAN, s \in {0 .. 3, {3}}}
  \cup {[Studio EXCEPT !.bypass = FALSE], [Laptop EXCEPT !.controllers = 3],
        [NotApple EXCEPT !.debug = TRUE], NotApple}

PcieMachines ==
  {[Desktop EXCEPT !.soc = s, !.debug = debug] : s \in {"t8103", "t602x"}, debug \in BOOLEAN}
  \cup {[Desktop EXCEPT !.gpioNode = FALSE, !.debug = debug] : debug \in BOOLEAN}
  \cup {[Desktop EXCEPT !.pins = 0, !.debug = debug] : debug \in BOOLEAN}
  \cup {[Desktop EXCEPT !.perst = {0}, !.debug = debug] : debug \in BOOLEAN}
  \cup {[Desktop EXCEPT !.packaged = {"pcie"}, !.debug = FALSE],
        [Desktop EXCEPT !.pins = 2, !.debug = FALSE]}

XhciMachines == {Asmedia(w) : w \in {1, 3, 4, 7, 9}}
                \cup {[Asmedia(w) EXCEPT !.debug = FALSE] : w \in {1, 4}}

\* Everything at once.
Full == [Asmedia(3) EXCEPT !.packaged = {"gpio", "pcie", "typec"}, !.controllers = 2,
                           !.ports = 1, !.pci = [asmedia |-> 0]]

AllMachines == UsbMachines \cup PcieMachines \cup XhciMachines \cup {Full}
=============================================================================
