------------------------ MODULE EmulatorDivergences -------------------------
(***************************************************************************)
(* What comments, tests and assertions of the repository say of the        *)
(* emulator and the code does not do.  Each property is violated; the      *)
(* README quotes the lines.                                                *)
(***************************************************************************)
EXTENDS Emulator

\* The value of the 8-bit register with number k.
ByteRegisterValue(k) ==
    IF IsLowRegister(k) THEN LowPart(registers[k]) ELSE HighPart(registers[k - 4])

\* `mov byte [bp + 0], cl ; Red` puts the byte register at the address: the red
\* channel is byte 0 of a pixel (Register_Memory with w = 0).
ByteStoreGoesToItsAddress ==
    [][\A i \in Current :
         /\ i.type = "MOV" /\ i.operands = "Register_Memory" /\ i.w = 0
         /\ InBounds(EffectiveAddress(i))
         => memory'[EffectiveAddress(i)] = ByteRegisterValue(i.reg)]_vars

\* "The data is addr": the address of an accumulator load is its data bytes,
\* whatever BX and SI hold (Memory_Accumulator).
AccumulatorAddressIsItsData ==
    [][\A i \in Current :
         LET addr == ToI16(CombineWord(i.data[1], i.data[2])) IN
         /\ i.operands = "Memory_Accumulator" /\ i.w = 1
         /\ InBounds(addr)
         => registers'[AX] = CombineWord(memory[addr], memory[addr + 1])]_vars

\* "1 - the REG field in the second byte identifies the destination operand": a
\* move between registers with d = 1 changes the register reg (Register_Register,
\* where neither the decoder nor the emulator looks at d).
DirectionBitNamesTheDestination ==
    [][\A i \in Current :
         i.type = "MOV" /\ i.operands = "Register_Register" /\ i.w = 1 /\ i.d = 1
         => registers'[i.reg] = registers[i.rm]]_vars

\* "Instruction not supported for emulation.": reaching an instruction that is
\* not supported ends the run (the Assert at the end of the switch).
UnsupportedInstructionEndsTheRun ==
    (status = "running" /\ \E i \in Current : Unsupported(i)) ~> (status # "running")
=============================================================================
