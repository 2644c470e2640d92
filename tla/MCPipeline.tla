----------------------------- MODULE MCPipeline -----------------------------
(***************************************************************************)
(* The program on command lines around every choice main makes, with files *)
(* of every kind: empty, broken, short, with loops, with undefined names.  *)
(***************************************************************************)
EXTENDS Pipeline

Flag(name, v) == [flag |-> name, value |-> v]
Option(name) == [option |-> name]
File == Flag("f", 0)

\* The range of the dump: none given, inside the 8 bytes of memory, at both
\* ends of it, empty, reversed, past it.
Ranges == {<<>>,
           <<Flag("dump-start", 2), Flag("dump-end", 5)>>,
           <<Flag("dump-end", 3), Flag("dump-start", 2)>>,
           <<Flag("dump-start", 7)>>,
           <<Flag("dump-end", 1)>>,
           <<Flag("dump-start", 8)>>,
           <<Flag("dump-end", 0)>>,
           <<Flag("dump-start", 5), Flag("dump-end", 2)>>,
           <<Flag("dump-end", 9)>>,
           <<Flag("dump-start", 9), Flag("dump-end", 10)>>}
Formats == {<<>>} \cup {<<Flag("imm-values-fmt", n)>> : n \in {-1, 1, 2, 3, 4}}
OptionSets == {SetToSeq({Option(o) : o \in s}) : s \in SUBSET {"exec", "verbose", "dump-memory"}}
Odd == {<<>>, <<[malformed |-> "text"]>>, <<Option("unknown"), Flag("unknown", 1)>>}

\* All of one kind with some of the others.
AllCommandLines ==
    {<<File>> \o o : o \in OptionSets}
    \cup {<<File, Option("exec"), Option("verbose")>> \o f : f \in Formats}
    \cup {<<File, Option("exec"), Option("dump-memory")>> \o r : r \in Ranges}
    \cup {o \o <<File, Option("exec")>> : o \in Odd}
    \cup {<<File>> \o o \o <<Option("exec")>> : o \in Odd}
    \cup {<<>>, <<Option("exec")>>, <<Flag("dump-start", 1)>>}

\* One instruction of each class of operands, with numbers that are shown
\* rightly and wrongly, behind what gives its registers a value.
Setup == <<184, 5, 1, 187, 2, 0>>     \* mov ax, 0x0105; mov bx, 2
Classes == {<<137, 195>>,             \* mov bx, ax
            <<3, 195>>,               \* add bx, ax, with d = 1
            <<0, 231>>,               \* add bh, ah
            <<131, 192, 255>>,        \* add ax, -1
            <<138, 39>>,              \* mov ah, [bx]
            <<137, 71, 1>>,           \* mov [bx+1], ax
            <<136, 7>>,               \* mov [bx], al
            <<128, 7, 200>>,          \* add byte [bx], 200
            <<131, 111, 255, 127>>,   \* sub word [bx-1], 127
            <<129, 251, 200, 0>>,     \* cmp bx, 200
            <<44, 200>>,              \* sub al, 200
            <<161, 4, 0>>,            \* mov ax, [4]
            <<162, 4, 0>>,            \* mov [4], al
            <<142, 216>>,             \* mov ds, ax
            <<140, 195>>,             \* mov bx, es
            <<142, 240>>,             \* mov <field 6>, ax
            <<142, 31>>,              \* mov ds, [bx]
            <<139, 71, 128>>,         \* mov ax, [bx-128]
            <<124, 0>>}               \* jl +0
Files ==
    {Setup \o c : c \in Classes}
    \cup {<<161, 4, 0, 163, 2, 0>>,                    \* mov ax, [4]; mov [2], ax
          <<185, 2, 0, 4, 1, 226, 252>>,               \* mov cx, 2; add al, 1; loop to the add
          <<187, 2, 0, 128, 235, 1, 117, 251>>,        \* mov bx, 2; sub bl, 1; jne to the sub
          <<116, 254>>,                                \* je to itself
          <<>>,
          <<255>>,                                     \* no opcode
          <<128, 208, 1>>,                             \* no operation: reg is 2
          <<4, 1, 184, 1>>}                            \* add al, 1; mov ax, <cut short>
=============================================================================
