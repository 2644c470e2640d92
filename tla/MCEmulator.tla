----------------------------- MODULE MCEmulator -----------------------------
(***************************************************************************)
(* The emulator on small sets of programs.  Programs are sets of byte      *)
(* sequences put through the decoder, so an instruction of a program is    *)
(* one the decoder yields.                                                 *)
(***************************************************************************)
EXTENDS EmulatorRefinement, EmulatorDivergences, Trace, SequencesExt

Decoded(encodings) == {DecodeInstruction(e, 0) : e \in encodings}

\* All programs of at most n of the instructions.
UpTo(n, encodings) == BoundedSeq(Decoded(encodings), n)

\* One program, from the encodings of its instructions.
Of(encodings) == [k \in DOMAIN encodings |-> DecodeInstruction(encodings[k], 0)]

(***************************************************************************)
(* Registers: words and both halves, with values around the carry, the     *)
(* sign and the nibble boundaries.                                         *)
(***************************************************************************)
RegisterMoves == {<<184, 1, 128>>,      \* mov ax, 0x8001
                  <<187, 255, 127>>,    \* mov bx, 0x7FFF
                  <<181, 128>>,         \* mov ch, 0x80
                  <<183, 255>>,         \* mov bh, 0xFF
                  <<136, 235>>,         \* mov bl, ch
                  <<142, 216>>,         \* mov ds, ax
                  <<140, 217>>}         \* mov cx, ds
RegisterArithmetic == {<<0, 235>>,          \* add bl, ch
                       <<1, 216>>,          \* add ax, bx
                       <<41, 200>>,         \* sub ax, cx
                       <<40, 255>>,         \* sub bh, bh
                       <<56, 253>>,         \* cmp ch, bh
                       <<57, 195>>,         \* cmp bx, ax
                       <<131, 192, 255>>,   \* add ax, -1
                       <<128, 235, 1>>,     \* sub bl, 1
                       <<131, 251, 127>>,   \* cmp bx, 127
                       <<4, 255>>,          \* add al, 0xFF
                       <<61, 2, 128>>}      \* cmp ax, 0x8002
RegisterPrograms == UpTo(3, RegisterMoves \cup RegisterArithmetic)

(***************************************************************************)
(* Memory of 8 bytes: effective addresses inside, at the last cell, past   *)
(* it and below 0; byte and word operands that overlap.                    *)
(***************************************************************************)
MemoryInstructions == {<<187, 2, 0>>,               \* mov bx, 2
                       <<190, 255, 255>>,           \* mov si, -1
                       <<189, 3, 0>>,               \* mov bp, 3
                       <<181, 200>>,                \* mov ch, 200
                       <<199, 70, 0, 255, 18>>,     \* mov word [bp], 0x12FF
                       <<198, 0, 200>>,             \* mov byte [bx+si], 200
                       <<131, 71, 1, 254>>,         \* add word [bx+1], -2
                       <<128, 108, 3, 7>>,          \* sub byte [si+3], 7
                       <<128, 70, 0, 255>>,         \* add byte [bp], 255
                       <<139, 8>>,                  \* mov cx, [bx+si]
                       <<2, 43>>,                   \* add ch, [bp+di]
                       <<57, 78, 0>>,               \* cmp [bp], cx
                       <<137, 142, 3, 0>>,          \* mov [bp+3], cx
                       <<137, 14, 7, 0>>}           \* mov [7], cx
MemoryPrograms == UpTo(3, MemoryInstructions)

\* The accumulator moves, in programs that leave BX and SI at 0.
AccumulatorInstructions == {<<184, 255, 18>>,       \* mov ax, 0x12FF
                            <<180, 77>>,            \* mov ah, 77
                            <<161, 4, 0>>,          \* mov ax, [4]
                            <<160, 5, 0>>,          \* mov al, [5]
                            <<163, 4, 0>>,          \* mov [4], ax
                            <<162, 5, 0>>,          \* mov [5], al
                            <<162, 7, 0>>,          \* mov [7], al
                            <<45, 1, 0>>}           \* sub ax, 1
AccumulatorPrograms == UpTo(3, AccumulatorInstructions)

MachinePrograms == RegisterPrograms \cup MemoryPrograms \cup AccumulatorPrograms

\* What deviates: byte stores of a register, moves to and from any segment
\* field, d = 1 between registers, accumulator moves with BX; and what is not
\* supported; next to instructions that set up their operands.
OtherInstructions == {<<185, 52, 18>>,      \* mov cx, 0x1234
                      <<187, 2, 0>>,        \* mov bx, 2
                      <<136, 15>>,          \* mov [bx], cl
                      <<0, 47>>,            \* add [bx], ch
                      <<56, 15>>,           \* cmp [bx], cl
                      <<142, 225>>,         \* mov <field 4>, cx
                      <<142, 233>>,         \* mov <field 5>, cx
                      <<142, 241>>,         \* mov <field 6>, cx
                      <<140, 233>>,         \* mov cx, <field 5>
                      <<42, 207>>,          \* sub bh, cl with d = 1
                      <<163, 3, 0>>,        \* mov [3], ax
                      <<142, 31>>,          \* mov ds, [bx]
                      <<124, 0>>}           \* jl +0
OtherPrograms == UpTo(3, OtherInstructions)

(***************************************************************************)
(* Control transfer.                                                       *)
(***************************************************************************)
ForwardInstructions == {<<184, 255, 255>>,    \* mov ax, -1
                        <<4, 1>>,             \* add al, 1
                        <<61, 0, 0>>,         \* cmp ax, 0
                        <<116, 2>>,           \* je +2
                        <<117, 0>>,           \* jne +0
                        <<122, 3>>,           \* jp +3
                        <<114, 2>>,           \* jb +2
                        <<226, 2>>,           \* loop +2
                        <<224, 3>>}           \* loopnz +3
\* mov cx, n; up to two instructions; loop back to the first of them; up to one
\* instruction or jump after the loop.  The body reads CX, compares it, or writes
\* another register.
CountedLoops ==
    LET body == {<<131, 192, 1>>, <<4, 255>>, <<61, 0, 0>>, <<137, 205>>, <<131, 249, 0>>}
        tail == {<<>>, <<<<4, 1>>>>, <<<<117, 0>>>>}
        Size(b) == Len(FlattenSeq(b))
    IN  {Of(<<<<185, n, 0>>>> \o b \o <<<<226, 254 - Size(b)>>>> \o t) :
            n \in 1..3, b \in BoundedSeq(body, 2), t \in tail}
\* mov cx, 5; cmp ax, 3; loopnz back over add ax, 1
LoopWhileNotZero == Of(<<<<185, 5, 0>>, <<131, 192, 1>>, <<61, 3, 0>>, <<224, 248>>>>)
\* mov bx, 3; sub bx, 1; jnz back to the sub
CountDownJump == Of(<<<<187, 3, 0>>, <<131, 235, 1>>, <<117, 251>>>>)
\* a jump to itself that is never taken, and one into an instruction
OddJumps == Of(<<<<116, 254>>, <<117, 1>>, <<184, 0, 0>>>>)
ControlPrograms ==
    UpTo(3, ForwardInstructions)
      \cup CountedLoops \cup {LoopWhileNotZero, CountDownJump, OddJumps}

AllPrograms == MachinePrograms \cup OtherPrograms \cup ControlPrograms

(***************************************************************************)
(* Programs for the divergences.                                           *)
(***************************************************************************)
\* mov cx, 0x1234; mov bp, 2; mov [bp + 0], cl
StorePrograms == UpTo(3, {<<185, 52, 18>>, <<189, 2, 0>>, <<136, 78, 0>>})
\* mov bx, 2; mov word [4], 0x12FF; mov ax, [4]
LoadPrograms == UpTo(3, {<<187, 2, 0>>, <<199, 6, 4, 0, 255, 18>>, <<161, 4, 0>>, <<184, 1, 0>>})
\* mov bx, 7; mov ax, bx with d = 1; mov cx, ax with d = 0
DirectionPrograms == UpTo(4, {<<187, 7, 0>>, <<139, 195>>, <<137, 193>>})
\* cmp ax, 0; jl +0; add al, 1
UnsupportedPrograms == UpTo(3, {<<61, 0, 0>>, <<124, 0>>, <<4, 1>>, <<142, 31>>})
=============================================================================
