--------------------------- MODULE MCDisassembler ---------------------------
(***************************************************************************)
(* The disassembler on all programs over a few bytes, and on one           *)
(* instruction of every class with every interesting number.               *)
(***************************************************************************)
EXTENDS Disassembler

CONSTANTS Alphabet,    \* the bytes the programs of JumpInputs are made of
          MaxBytes     \* the length of the longest of them

JumpInputs == BoundedSeq(Alphabet, MaxBytes)

\* A jump (116, je) with the displacements -2, 0 and 2: labels coincide, precede,
\* follow and fall inside instructions, which are jumps or, as 2 and 0 are
\* opcodes too, adds with a register and with memory.
JumpAlphabet == {116, 254, 0, 2}

\* Every opcode byte with the mod/reg/rm bytes of every addressing mode, the
\* reg fields 0 (add), 1, 5 (sub) and 7 (cmp), and rm 0, 6 (direct address
\* or bp) and 7; then four more bytes or fewer, so that instructions of each
\* length are complete, cut short, or followed by another.
FieldInputs ==
    LET ModRegRm == {64 * mod + 8 * reg + rm :
                       mod \in 0..3, reg \in {0, 1, 5, 7}, rm \in {0, 6, 7}}
        Rest == <<1, 130, 184, 200>>
    IN  {<<op, modRegRm>> \o SubSeq(Rest, 1, n) :
           op \in 0..255, modRegRm \in ModRegRm, n \in {0, 2, 4}}

\* The numbers around the sign of a byte and of a word.
NumberBytes == {0, 1, 127, 128, 129, 255}
Words == NumberBytes \X NumberBytes

\* A displacement byte or word and an immediate byte or word, in each class of
\* operands that shows one.
NumberInputs ==
    {<<op, modRegRm, n>> : op \in {128, 130, 131}, modRegRm \in {192, 239}, n \in NumberBytes}
    \cup {<<op, 71, n>> : op \in {0, 139, 142}, n \in NumberBytes}
    \cup {<<op, modRegRm>> \o n : op \in {3, 136, 140}, modRegRm \in {6, 135, 191}, n \in Words}
    \cup {<<op>> \o n : op \in {160, 163, 5, 185}, n \in Words}
    \cup {<<op, n>> : op \in {4, 177, 116}, n \in NumberBytes}
    \cup {<<131, 71, m, n>> : m \in NumberBytes, n \in NumberBytes}
    \cup {<<199, 7>> \o n : n \in Words}

EncodingInputs == FieldInputs \cup NumberInputs

\* mov cx, n for n around 200; mov ax, m
ImmediateInputs == {<<185, n, 0, 184, m, 0>> : n \in 196..205, m \in 1..10}
=============================================================================
