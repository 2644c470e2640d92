---------------------------- MODULE Disassembler ----------------------------
(***************************************************************************)
(* What main.cpp does with a file when --exec is not given: decodeAsm8086  *)
(* until it returns, then encodeAsm8086 on the same DecodingContext.  If   *)
(* the decoder does not return, there is no listing.                       *)
(***************************************************************************)
EXTENDS Encoder

DisassemblerInit == DecoderInit /\ EncoderInit

Decode == DecoderNext /\ UNCHANGED encoderVars

Encode == decoding = "done" /\ EncoderNext

DisassemblerNext == Decode \/ Encode

\* One thread runs both loops.
DisassemblerSpec ==
    /\ DisassemblerInit /\ [][DisassemblerNext]_<<decoderVars, encoderVars>>
    /\ WF_<<decoderVars, encoderVars>>(DisassemblerNext)
-----------------------------------------------------------------------------
(***************************************************************************)
(* Properties.                                                             *)
(***************************************************************************)
Listed == encoding = "done"
LabelLines == {n \in DOMAIN listing : "label" \in DOMAIN listing[n]}
InstructionLines == DOMAIN listing \ LabelLines

\* The line of instruction k (k counts from 1), and the k its target is;
\* Len(instructions) + 1 is the end of the program.
LineOf(k) == CHOOSE n \in InstructionLines :
                Cardinality(InstructionLines \cap 1..n) = k
IsTarget(k, t) == TargetOf(k) = StartOf(instructions, t)

\* Each jump finds the label the decoder stored for it, although the two work
\* out its offset apart from each other (storeShortJmpLabel, appendShortLabel).
JumpsFindTheirLabel ==
    \A n \in InstructionLines :
        listing[n].operands[1] # <<"label", FailedLabel>>

\* In a finished listing a label names one place: a jump to the start of an
\* instruction, or to the end of the program, names the label line directly
\* before it, and a jump into an instruction names a label no line defines
\* (the loop over i in encodeAsm8086).  Labels are numbered modulo 2^16: with
\* more than that the name stands at its target still, but it may stand
\* elsewhere too.
LabelsMarkTheirTargets ==
    Listed =>
      \A k \in DecodedJumps :
        LET name    == listing[LineOf(k)].operands[1][2]
            defined == {n \in LabelLines : listing[n].label = name}
            targets == {t \in 1..(Len(instructions) + 1) : IsTarget(k, t)}
            places  == {IF t = Len(instructions) + 1 THEN Len(listing)
                                                     ELSE LineOf(t) - 1 : t \in targets}
        IN  /\ places \subseteq defined
            /\ Len(jmpLabels) <= LabelNumbers => defined = places

(***************************************************************************)
(* The numbers of the listing.                                             *)
(***************************************************************************)
\* The sign-extended bytes among the numbers, and the words: of the memory
\* operand and of the immediate.
AddressIsByte(inst) == Is8bitDisplacement(inst.mod)
AddressBytes(inst) ==
    IF inst.operands \in {"Memory_Accumulator", "Accumulator_Memory"} THEN inst.data ELSE inst.disp
ImmediateIsByte(inst) == inst.w = 1 /\ inst.s = 1

WordMeant(pair, isByte) ==
    IF isByte THEN SignExtend(pair[1]) ELSE CombineWord(pair[1], pair[2])

\* Which words the listing does not give back, by the format of its numbers: in
\* the signed formats a word of 129 to 255, shown as a negative byte, and a
\* byte of -128, shown as 128; in the others every negative byte.
ShownWrong(pair, isByte) ==
    IF options \in {"NONE", "SIGNED"}
    THEN pair[2] = 0 /\ IF isByte THEN pair[1] = 128 ELSE pair[1] > 128
    ELSE isByte /\ pair[1] >= 128

OperandReadsBack(inst, operand) ==
    CASE operand[1] = "memory" ->
           ToU16(operand[4]) = WordMeant(AddressBytes(inst), AddressIsByte(inst))
             <=> ~ShownWrong(AddressBytes(inst), AddressIsByte(inst))
      [] operand[1] = "number" /\ inst.w = 1 ->
           ToU16(operand[2]) = WordMeant(inst.data, ImmediateIsByte(inst))
             <=> ~ShownWrong(inst.data, ImmediateIsByte(inst))
      [] operand[1] = "number" /\ inst.w = 0 -> operand[2] % 256 = inst.data[1]
      [] OTHER -> TRUE

\* The listing gives back the number an operand stands for, in every format,
\* width and addressing mode, except exactly those of ShownWrong: numbers are
\* written without knowing how wide they are (appendImmFromLowAndHigh).
NumbersReadBack ==
    Listed => \A k \in DOMAIN instructions :
                \A o \in DOMAIN listing[LineOf(k)].operands :
                    OperandReadsBack(instructions[k], listing[LineOf(k)].operands[o])

\* Every file is listed or ends the program: neither loop goes on for ever.
DisassemblyEnds == <>(decoding \in {"panicked", "asserted"} \/ encoding # "encoding")

\* "mov cx, 200" is what the expected output shows for the bytes B9 C8 00, in
\* the default format: a word immediate is listed as the word it is.
WordImmediatesAreListed ==
    Listed /\ options = "NONE" =>
      \A k \in DOMAIN instructions :
        LET inst == instructions[k] IN
        inst.operands = "Register_Immediate" /\ inst.w = 1 /\ inst.s = 0 =>
          ToU16(listing[LineOf(k)].operands[2][2]) = CombineWord(inst.data[1], inst.data[2])
=============================================================================
