------------------------------ MODULE AicRegs ------------------------------
(***************************************************************************)
(* The address arithmetic of the Apple interrupt controller driver: where  *)
(* AppleAicV2CalculateRegisterOffsets places the register blocks, which    *)
(* word and which bits a mask or an unmask writes.  Every value is an       *)
(* offset in bytes from the controller's base; a 32-bit value written is   *)
(* the set of its bits.                                                    *)
(***************************************************************************)
EXTENDS Integers

\* IRQ numbers the firmware reserves for the timers, which are wired to FIQ.
TimerSources == {17, 18, 19}

\* AIC_V2_IRQ_CFG_REG, the start of the per-die blocks.
IrqCfgOffset == 8192

BlockLen(maxIrqs) == 4 * (maxIrqs \div 32)

SwSetOffset(maxIrqs)   == IrqCfgOffset + 4 * maxIrqs
SwClrOffset(maxIrqs)   == SwSetOffset(maxIrqs) + BlockLen(maxIrqs)
MaskSetOffset(maxIrqs) == SwClrOffset(maxIrqs) + BlockLen(maxIrqs)
MaskClrOffset(maxIrqs) == MaskSetOffset(maxIrqs) + BlockLen(maxIrqs)

\* Two increments follow MASK_CLEAR before HW_STATE is recorded.
HwStateOffset(maxIrqs) ==
    MaskClrOffset(maxIrqs) + BlockLen(maxIrqs) + BlockLen(maxIrqs)

DieStride(maxIrqs) == HwStateOffset(maxIrqs) - IrqCfgOffset

\* Mutant: sixteen IRQs per word.
MaskRegOfHalfWords(irq) == 4 * (irq \div 16)

\* AIC_MASK_REG(num): the word of a block that holds the bit of an IRQ.
MaskReg(irq) == 4 * (irq \div 32)

\* AIC_MASK_BIT(num) is BIT(num) & GENMASK(4, 0): the shift is taken modulo
\* 64 on AArch64, and only the five lowest bits survive.
MaskBits(irq) == {irq % 64} \cap 0 .. 4

\* The word a mask, an unmask or a state read of a source touches, in the
\* block that starts at offset "block".
SourceReg(block, source, maxIrqs) ==
    block + (source \div maxIrqs) * DieStride(maxIrqs)
          + MaskReg(source % maxIrqs)

\* The IRQs of die 0 whose bits one write for "source" covers.  The timers'
\* sources return before the write.
MaskTargets(source, maxIrqs) ==
    IF source \in TimerSources
      THEN {}
      ELSE LET irq == source % maxIrqs
           IN  {32 * (irq \div 32) + b : b \in MaskBits(irq)}
=============================================================================
