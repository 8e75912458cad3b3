--------------------------- MODULE DriverDispatch ---------------------------
(* The order in which the DXE dispatcher starts the platform's hardware       *)
(* drivers.  Every one of them has a TRUE dependency expression, so the a     *)
(* priori file alone decides the order: the IOMMU driver, the GPIO driver,    *)
(* the PCIe driver, the Type-C driver.  A driver runs to its end before the   *)
(* next one starts; the end-of-DXE event and BDS follow.  A failed ASSERT of  *)
(* a debug build stops the machine (PcdDebugPropertyMask 0x2f).               *)
EXTENDS Integers, FiniteSets, Sequences

\* The machines considered: records that say what the image packages and what
\* hardware the device tree describes.
CONSTANT Machines

\* (Midr >> 24) & 0x61, tested for being non-zero.
AppleVendor(implementer) == \/ implementer % 2 = 1
                            \/ (implementer \div 32) % 2 = 1
                            \/ (implementer \div 64) % 2 = 1

\* A machine with another vendor's processor has no Apple USB controllers.
ASSUME MachinesAssumption ==
  \A m \in Machines :
    /\ {m.implementer, m.controllers, m.streams, m.pins, m.ports, m.words} \subseteq Nat
    /\ {m.debug, m.bypass, m.gpioNode} \subseteq BOOLEAN
    /\ m.perst \subseteq Nat
    /\ ~AppleVendor(m.implementer) => m.controllers = 0

VARIABLES machine, running, halted

dispatchVars == <<machine, running, halted>>

Phases == <<"dart", "gpio", "pcie", "typec", "endofdxe", "bds">>

\* What follows phase p: the next driver the image packages, or a phase that
\* is no driver.
Following(p) ==
  LET at == CHOOSE i \in DOMAIN Phases : Phases[i] = p
      later == {i \in DOMAIN Phases : i > at
                   /\ Phases[i] \in machine.packaged \cup {"endofdxe", "bds"}}
  IN  Phases[CHOOSE i \in later : \A j \in later : i =< j]

DispatchInit == /\ machine \in Machines
                /\ running = "dart"
                /\ halted = FALSE

On(phase) == running = phase /\ ~halted

Return == running' = Following(running) /\ UNCHANGED <<machine, halted>>

Stay == UNCHANGED dispatchVars

\* ASSERT (FALSE): the end of a debug build.
AssertFails == machine.debug /\ halted' = TRUE /\ UNCHANGED <<machine, running>>

\* An access to memory that is not there: the end of any build.
Faults == halted' = TRUE /\ UNCHANGED <<machine, running>>

=============================================================================
