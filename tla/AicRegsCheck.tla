---------------------------- MODULE AicRegsCheck ----------------------------
(***************************************************************************)
(* The register arithmetic of AicRegs over bounded inputs: a state is one  *)
(* controller size and one source, a step picks another source.            *)
(***************************************************************************)
EXTENDS AicRegs

CONSTANTS
    Sizes,          \* numbers of supported IRQs, multiples of 32
    Dies            \* CPU dies

ASSUME SizesAssumption ==
    /\ \A m \in Sizes : m \in Nat \ {0} /\ m % 32 = 0
    /\ Dies \in Nat \ {0}

VARIABLES maxIrqs, source
sourceVars == <<maxIrqs, source>>

InitSource ==
    /\ maxIrqs \in Sizes
    /\ source = 0

NextSource ==
    /\ source < Dies * maxIrqs - 1
    /\ source' = source + 1
    /\ UNCHANGED maxIrqs

SourceSpec == InitSource /\ [][NextSource]_sourceVars

----------------------------------------------------------------------------
\* The word that a mask writes lies in the MASK_SET block of the source's own
\* die, and the word an unmask writes in its MASK_CLEAR block: the write never
\* reaches the software-trigger registers, the other block or another die.
MaskStaysInBlock ==
    LET die == (source \div maxIrqs) * DieStride(maxIrqs)
        set == SourceReg(MaskSetOffset(maxIrqs), source, maxIrqs)
        clr == SourceReg(MaskClrOffset(maxIrqs), source, maxIrqs)
    IN  /\ SwClrOffset(maxIrqs) + BlockLen(maxIrqs) + die <= set
        /\ set + 4 <= MaskClrOffset(maxIrqs) + die
        /\ MaskClrOffset(maxIrqs) + die <= clr
        /\ clr + 4 <= IrqCfgOffset + DieStride(maxIrqs) + die

=============================================================================
