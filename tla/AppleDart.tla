----------------------------- MODULE AppleDart ------------------------------
(* AppleDartIoMmuDxe: the IOMMUs (DARTs) of the USB controllers, two for each *)
(* controller, are stripped of the tables m1n1 left and switched to bypass.   *)
(* The IOMMU protocol the file also defines is never installed.               *)
EXTENDS DriverDispatch

VARIABLES dartStep,     \* where AppleDartIoMmuDxeInitialize is
          dartNode,     \* DartNodeIndex, of the lookup loop
          dartIndex,    \* DartIndex, of both loops
          dartReg,      \* DartReg: the DART a base address belongs to
          dartBypass,   \* BypassMode of every DartInfo
          tcr,          \* what each stream of each DART does with a DMA access
          ttbr,         \* the table registers still valid, <<stream, register>>
          tlb,          \* may the DART's TLB hold translations of old tables
          flushing,     \* the busy bit of the flush command
          stray         \* a register was written through a base never looked up

dartVars == <<dartStep, dartNode, dartIndex, dartReg, dartBypass,
              tcr, ttbr, tlb, flushing, stray>>

Unset == -1

Controllers == 0 .. machine.controllers - 1
Darts == 0 .. 2 * machine.controllers - 1
Streams == 0 .. machine.streams - 1
HasNode(c) == c \in Controllers \ machine.removed
Nttbr == IF machine.dart = "t8110" THEN 1 ELSE 4

\* Mutant: the ports are numbered as DARTs.
DfuDartByPort(d) == d \in {0, 1, 2, 3}

\* The DART of a DFU port carries the serial console of the proxy.
DfuDart(d) == d \in {0, 1, 4, 5}

\* m1n1 leaves every stream translating through its tables.
DartInit ==
  /\ dartStep = "vendor" /\ dartNode = 0 /\ dartIndex = 0
  /\ dartReg = [d \in Darts |-> Unset]
  /\ dartBypass = [d \in Darts |-> FALSE]
  /\ tcr = [d \in Darts |-> [s \in Streams |-> "translate"]]
  /\ ttbr = [d \in Darts |-> Streams \X (0 .. Nttbr - 1)]
  /\ tlb = [d \in Darts |-> TRUE]
  /\ flushing = [d \in Darts |-> FALSE]
  /\ stray = FALSE

DartVendor ==
  /\ On("dart") /\ dartStep = "vendor"
  /\ IF AppleVendor(machine.implementer)
     THEN dartStep' = "lookup" /\ Stay
     ELSE UNCHANGED dartStep /\ IF machine.debug THEN AssertFails ELSE Return
  /\ UNCHANGED <<dartNode, dartIndex, dartReg, dartBypass, tcr, ttbr, tlb, flushing, stray>>

\* One turn of the lookup loop: both registers of a node, or two places left
\* unset for a node that is not there.
DartLookup ==
  /\ On("dart") /\ dartStep = "lookup"
  /\ IF dartNode = machine.controllers
     THEN dartStep' = "select" /\ dartIndex' = 0 /\ UNCHANGED <<dartNode, dartReg>>
     ELSE /\ dartReg' = IF HasNode(dartNode)
                        THEN [dartReg EXCEPT ![dartIndex] = 2 * dartNode,
                                             ![dartIndex + 1] = 2 * dartNode + 1]
                        ELSE dartReg
          /\ dartIndex' = dartIndex + 2 /\ dartNode' = dartNode + 1
          /\ UNCHANGED dartStep
  /\ Stay /\ UNCHANGED <<dartBypass, tcr, ttbr, tlb, flushing, stray>>

\* Mutant: the test for a missing node is dropped.
DartSkippedUnlooked(d) == DfuDart(d)

\* The set-up loop leaves a DART alone.
DartSkipped(d) == DfuDart(d) \/ ~HasNode(d \div 2)

DartSelect ==
  /\ On("dart") /\ dartStep = "select"
  /\ IF dartIndex \notin Darts
     THEN Return /\ UNCHANGED <<dartStep, dartIndex, dartBypass>>
     ELSE /\ Stay
          /\ IF DartSkipped(dartIndex)
             THEN dartIndex' = dartIndex + 1 /\ UNCHANGED <<dartStep, dartBypass>>
             ELSE /\ dartStep' = "tcrs"
                  /\ dartBypass' = [dartBypass EXCEPT ![dartIndex] = FALSE]
                  /\ UNCHANGED dartIndex
  /\ UNCHANGED <<dartNode, dartReg, tcr, ttbr, tlb, flushing, stray>>

\* A write to a register of DartInfo[dartIndex] of the hardware state `regs`.
Written(regs, value) == IF dartReg[dartIndex] = Unset THEN regs
                        ELSE [regs EXCEPT ![dartReg[dartIndex]] = value]
Wrote == stray' = (stray \/ dartReg[dartIndex] = Unset)

DartClearTcrs ==
  /\ On("dart") /\ dartStep = "tcrs"
  /\ tcr' = Written(tcr, [s \in Streams |-> "off"])
  /\ dartStep' = "ttbrs" /\ Wrote
  /\ Stay /\ UNCHANGED <<dartNode, dartIndex, dartReg, dartBypass, ttbr, tlb, flushing>>

DartClearTtbrs ==
  /\ On("dart") /\ dartStep = "ttbrs"
  /\ ttbr' = Written(ttbr, {})
  /\ dartStep' = "flush" /\ Wrote
  /\ Stay /\ UNCHANGED <<dartNode, dartIndex, dartReg, dartBypass, tcr, tlb, flushing>>

\* The T8110 variant writes its command to the error register (the value
\* FLUSH_ALL is used as the offset), so it starts no flush.
DartTlbFlush ==
  /\ On("dart") /\ dartStep = "flush"
  /\ flushing' = Written(flushing, machine.dart # "t8110")
  /\ dartStep' = "flushing" /\ Wrote
  /\ Stay /\ UNCHANGED <<dartNode, dartIndex, dartReg, dartBypass, tcr, ttbr, tlb>>

\* The hardware ends a flush.
DartHardware(d) ==
  /\ flushing[d]
  /\ flushing' = [flushing EXCEPT ![d] = FALSE] /\ tlb' = [tlb EXCEPT ![d] = FALSE]
  /\ Stay
  /\ UNCHANGED <<dartStep, dartNode, dartIndex, dartReg, dartBypass, tcr, ttbr, stray>>

\* The loop that polls the busy bit has no bound; the rest of the turn follows
\* when it ends.
DartBypassMode ==
  /\ On("dart") /\ dartStep = "flushing"
  /\ dartReg[dartIndex] # Unset => ~flushing[dartReg[dartIndex]]
  /\ IF machine.bypass
     THEN /\ tcr' = Written(tcr, [s \in Streams |-> "bypass"])
          /\ dartBypass' = [dartBypass EXCEPT ![dartIndex] = TRUE]
     ELSE UNCHANGED <<tcr, dartBypass>>
  /\ dartStep' = "select" /\ dartIndex' = dartIndex + 1 /\ Wrote
  /\ Stay /\ UNCHANGED <<dartNode, dartReg, ttbr, tlb, flushing>>

DartStep == DartVendor \/ DartLookup \/ DartSelect \/ DartClearTcrs
            \/ DartClearTtbrs \/ DartTlbFlush \/ DartBypassMode
DartFlushes == \E d \in Darts : DartHardware(d)
=============================================================================
