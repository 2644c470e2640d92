------------------------------ MODULE MCMachine -----------------------------
(***************************************************************************)
(* The machine with an instruction pointer of a few values, so that        *)
(* programs as long as its range are small.                                *)
(***************************************************************************)
EXTENDS Machine, SequencesExt

\* Instructions of 2, 3 and 4 bytes: mov ch, 7; mov bx, 300; cmp bx, 300;
\* mov [4], ax; and a load that faults in 8 bytes of memory, mov ax, [9].
\* None counts, so that a program that starts over comes back to its states.
StraightInstructions == {<<181, 7>>, <<187, 44, 1>>, <<129, 251, 44, 1>>,
                         <<163, 4, 0>>, <<161, 9, 0>>}
StraightPrograms == BoundedSeq({DecodeInstruction(e, 0) : e \in StraightInstructions}, 4)
=============================================================================
