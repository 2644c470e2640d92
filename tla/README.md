# 8086-emulator: a verification project in TLA+

The program reads a binary of 8086 machine code and decodes it; then it prints
a listing, or executes the instructions, or both. This directory holds TLA+
modules that model the decoder, the listing, the emulator with its trace, and
the `main` that runs them, TLC configurations that check them on small
instances, and proofs for TLAPS.
Paths of sources below are relative to the repository.

## 1. The system

| Component | State | Operations | Talks to |
|---|---|---|---|
| opcode table (`opcodes.cpp`) | constant table | `opcodeDecode`, `getFieldDisplacements` | used by the decoder |
| decoder (`decoder.cpp` 33-39, 255-530) | `DecodingContext`: `idx`, `instructions`, `jmpLabels` | one iteration per instruction; `storeShortJmpLabel` | hands the context to encoder and emulator |
| encoder (`decoder.cpp` 41-70, 157-249, 532-658) | the text, `i`, `byteIdx` | one iteration per instruction, one past the end | reads `DecodingContext` |
| emulator (`emulator.cpp`) | `EmulationContext`: 14 registers of 16 bits, 1 MB of memory, `instructions` | `createEmulationCtx`, the loop `emulate`, `nextInst`, `emulateNext` | executes decoded instructions, never bytes: code is not in memory |
| arithmetic (`emulator.cpp` 127-133, 256-419) | a 16-bit destination, FLAGS | `emulateMov`, `emulateAdd`, `emulateSub`, `setFlag` | called by `emulateNext` |
| command line (`main.cpp` 68-158) | `CommandLineArguments` | `parseCmdArguments`, the validators | calls the library's flag parser, which calls the validators back |
| pipeline (`main.cpp` 160-287) | the contexts above, standard output | `main`, `dumpMemory`, `printRegisterState` | calls all of the above, one after the other |
| logger (`logger.cpp`) | the minimum level, one text buffer | `__log`, `writeLine` | everything prints through it |
| core initialisation (`init_core.cpp`) | the assert handler | throws: the program aborts | called by `Assert`, `Panic`, `Expect` |
| core library | - | arrays, strings, flag parser | a git submodule, not in the repository |

One thread runs everything, nothing is persisted and nothing is received while
it runs. What is hard here is not concurrency. It is

- arithmetic at widths: bytes in halves of 16-bit cells, flags from wrapped
  results, signed displacements, addresses that are *not* wrapped, an
  instruction pointer that *is*;
- protocols between loops: the decoder numbers a label, the encoder has to find
  it again and put it at the right line, the emulator finds an instruction by a
  search over the same lengths;
- ends: truncated input, jumps into instructions, a loop that ends only when no
  instruction starts at IP, builds with and without `Assert`;
- callbacks and flags: two validators that look at each other's value in an order
  the library chooses; three flags that decide five outputs; output that is lost
  when an assertion throws.

What makes each component correct:

- decoder: every byte belongs to exactly one instruction, in every encoding;
  labels are exactly the targets; it ends on any bytes.
- encoder: the listing names the program's operands and numbers, and a label
  stands where the jumps that name it go.
- emulator: an instruction of width w is about exactly its w + 1 bytes and
  touches no other; flags are those of the exact integers; IP goes to the next
  instruction or to the jump's target, modulo 65536; the loop ends when the
  program does; the trace tells every step.
- command line: what it accepts is a range and a format, in any order of the
  flags; it refuses nothing without a reason.
- pipeline: a dump stands alone on standard output; listing, trace and final
  registers are about the same execution; the program ends if what it executes does.

The hazards, line by line, are in `PROJECT.json`.

## 2. The modules

```
Word16 <- Opcodes <- Instructions <- Decoder <- Encoder <- Disassembler <- MCDisassembler
   ^                     ^    ^         ^                       ^
   |                     |    |         '-- Build               |
   |                     |    |              |                  |   CommandLine
   |                     |    '-- Machine <- MCMachine          |      ^
   |                     |           ^       |                  |      |
   |                     |           | (refinement)             |      |
   |                     |           |       v                  |      |
   '-- Alu <-------- Emulator <- EmulatorRefinement --.        Pipeline <- MCPipeline
                       ^  ^                           |           |
                       |  '--- EmulatorDivergences ---+- MCEmulator
                       '------ Trace -----------------'           |
                                 ^--------------------------------'

Instructions_proofs <- Emulator_proofs <- EmulatorRefinement_proofs
   ^     Alu_proofs <-----'   ^---------- Trace_proofs <-.
   '-------------- Disassembler_proofs <--------------- Pipeline_proofs -> CommandLine_proofs
```

An arrow points at the module that is extended; each module of proofs also
extends the module of its name. `Build` is extended by `Decoder` and `Emulator`.

- **Build**: `ASSERT_ENABLED`, what the builds differ in.
- **Word16**: `utils.h`. `u8` and `u16` are sets of naturals, the casts are
  functions on integers.
- **Opcodes**: the enumeration, the prefix search and the field table.
- **Instructions**: the `Instruction` record and `DecodeInstruction`, a function
  from bytes and an offset to a record. `StartOf` is the sum of lengths that the
  emulator's search and the encoder's `byteIdx` both compute, as a recursive
  function on positions.
- **Decoder**: the loop. `DecodeNext` is an iteration; `PanicOnOpcode`,
  `PanicOnRegField` and `AssertOnTruncation` are the ways it is left in the
  middle. Without asserts a truncated instruction takes its missing bytes from
  what follows the array in memory: any bytes (`StrayBytes`).
- **Encoder**: the loop of `encodeAsm8086`. A line is a record of what its text
  says. Two details of the text matter and are modelled by what they do: a
  number is written without its width (`AppendImm`), and the negation of the
  smallest number of a type is itself, so `-128` is written `--128`, which reads
  as 128 (`AppendSigned`).
- **Disassembler**: `main` without `--exec`: the decoder until it returns, then
  the encoder, on one context (the encoder extends the decoder's module and
  reads its variables, as `encodeAsm8086` reads the `DecodingContext`).
- **Alu**: `emulateMov`, `emulateAdd`, `emulateSub` as functions from `Dest`,
  `Source` and the old cell to the new cell and FLAGS. The code has one copy for
  words, low and high bytes; the model has one operator over the number of
  values, and `PartOf`/`WithPart` for the halves.
- **Emulator**: a step is an iteration of `emulate`. `DestCell`, `DestOf`,
  `SourceCell`, `SourceOf` are the switch over `inst.operands`; the actions are
  the switch over `inst.type`, each with the update of IP. `status` says how the
  loop was left: `stopped` (nothing at IP), `panicked` (a bad address),
  `asserted`, `undefined` (`ctx.registers` indexed past its end).
- **Machine**: the abstract specification. Registers are two bytes with a
  location each, operands are sequences of locations, results and flags are
  defined by integers (`Exact`, `FlagsOf`), the direction bit and accumulator
  addresses are as the comments of the code describe them.
- **EmulatorRefinement**: the mapping; `ImplementsMachine` is `M!Spec`, with
  steps allowed to differ only when they execute an instruction of `Deviates`.
- **Trace**: what `emulateNext` prints of an instruction with `--verbose`. The
  line is printed after the effect and before IP is set, so it is a function of
  the step: an operator over primed variables, not a variable. `RegistersRead`
  and `MemoryRead` are a reader of such a line.
- **CommandLine**: `parseCmdArguments`. The flag parser is not in the
  repository. Of it the model has what the calls rely on: `parse` stops at an
  argument it cannot read and keeps what is before it or less, `matchFlags`
  stores a flag and then calls its validator, in any order, and returns at the
  first error.
- **Pipeline**: `main`. It extends `Disassembler`, `Trace` (and so `Emulator`)
  and `CommandLine`. `main` moves the decoder's instructions into the emulator's
  context: `CreateEmulationCtx` sets `program` to `instructions`. `phase` is the
  statement of `main`; the steps of a phase are the steps of the part that is
  called, so that what is proved of a part can be used of it in `main`. `out` is
  what reaches standard output. `Crash` is the assert handler: it throws, nobody
  catches, and what the output buffer still holds is lost, so that any prefix of
  `out` may be all there is. `Undefined` is a read past `segRegTable`, past
  `ctx.registers` or past the dumped memory; nothing is said of what follows it.
- **EmulatorDivergences**: properties taken from comments, tests and assertions
  that the code does not have.
- **Instructions_proofs**, **Alu_proofs**, **Emulator_proofs**,
  **EmulatorRefinement_proofs**, **Trace_proofs**, **Disassembler_proofs**,
  **CommandLine_proofs**, **Pipeline_proofs**: the theorems (section 5).

Operators whose comment begins with `Mutant:` are deliberate faults. Nothing in
the specification refers to them; they show that the property they belong to
(see `mutants` in `PROJECT.json`) can fail.

## 3. The runs

All `pass` runs are complete searches.

| Run | Configuration | Shows |
|---|---|---|
| `labels` | `MCDisassemblerLabels` | `OnlyTheLastOverruns`, `LabelsAreTargets`, `LabelsAreStable`, `JumpsFindTheirLabel`, `LabelsMarkTheirTargets`, `DisassemblyEnds` on all sequences of up to 6 of 4 bytes, asserts off |
| `encodings` | `MCDisassemblerEncodings` | `DecoderTypeOK`, `EncoderTypeOK`, `Lossless`, `NumbersReadBack`: all 256 first bytes x 48 mod/reg/rm bytes x 3 lengths, and six bytes around the signs in every class of operands, in four formats, asserts on |
| `emulator` | `MCEmulator` | `TypeOK`, `ImplementsMachine`, `ByteInstructionsChangeOneByte`, `OnlyArithmeticSetsFlags`, `StopsAtTheEnd`, `TraceTellsTheStep` on programs of up to 3 instructions of each of five kinds (registers, memory, accumulator, control, what deviates), and on counted loops |
| `emulator_control` | `MCEmulatorControl` | `CountedProgramsEnd` on the control programs; apart from the run above because liveness is dear |
| `machine_ip` | `MCMachine` | `ShortProgramsEnd`, `FullProgramsStartOver` with an IP of 9 values |
| `pipeline` | `MCPipeline` | `PipelineTypeOK`, `DumpRangeIsOrdered`, `RefusedForAReason`, `DumpIsAlone`, `TraceLeadsToTheFinalRegisters`, `TablesAreOverrunForACause`, `ListingMeansWhatRuns`, `PipelineEnds`: command lines around every choice of `main`, with files of every kind |

What the deeper properties say:

- `ImplementsMachine`: outside `Deviates`, a step of the code is a step of the
  byte machine on exact integers. The operations, the flags and the moves of IP
  are there as the 8086 has them. The addresses are not: `Machine` has the code's
  own rule (signed registers, a sum that is not wrapped to 16 bits, the last byte
  of memory left out), so that for addresses the property shows that all classes
  of operands keep to one rule, and not that it is the 8086's.
- `TraceTellsTheStep`: a reader who follows the lines always has the emulator's
  registers, memory and flags, the half of a byte operand that did not change
  included; each line starts from the value the state had. One thing is not in
  the lines, that a loop counts CX down. `TraceLeadsToTheFinalRegisters` is the
  same over a whole run of the program: its trace ends at the registers it
  prints.
- `ListingMeansWhatRuns`: with `--verbose` the program prints a listing and then
  executes. Each has its own switch over the classes of operands
  (`decoder.cpp:157`, `emulator.cpp:428`). The property reads a listed line as a
  person would (a place, and a value of the width the line shows) and compares
  that with the place the emulator writes and the value it takes. `Misleads`
  names the exceptions: the numbers of section 4.5 and the deviations 1 and 2.
- `DumpIsAlone`: with `--exec --dump-memory` standard output has the dump or
  nothing, whatever the other flags are and however the program ends.
- `TablesAreOverrunForACause`: the segment names, the emulated registers and the
  dumped memory are read past their end only for a segment field above 3 or a
  dump end past the memory. It is about these three tables and not about all
  that C++ leaves undefined. Two things are outside it: without asserts a
  truncated file makes the decoder read past its bytes (`decoder.cpp:287`; in the
  model `StrayBytes`, any bytes), and words are stored through a `u16*` at any
  address, odd ones too (`emulator.cpp:506`, `521`, `584`; in the model two bytes
  are stored, as the x86 does).
- `LabelsMarkTheirTargets`: a jump's name always stands where the jump goes, and
  while there are no more labels than numbers it stands nowhere else.
- `CountedProgramsEnd`, `PipelineEnds`: what may go on for ever is named. These are
  jumps back other than one counted loop, and a program that leaves the range of
  IP: `nextIp` is a `u16` (`emulator.cpp:715`), so that a program of 65536 bytes
  without any jump starts over, and so may one with a jump past 65535
  (`FitsInIp` is that neither is so). `FullProgramsStartOver` is the other side of
  it, on the small IP of `Machine`.
- `RefusedForAReason`: an error of `parse` is no reason to refuse, because
  `main.cpp:131` overwrites it; and a range past the default end, such as
  `-dump-start=9 -dump-end=10` with 8 bytes, is refused or accepted by the order
  of the flags, so its reason is the default.

Bounds, and why they suffice:

- *Bytes of a program.* Labels depend on jumps and their distances only. Six
  bytes hold three jumps, and the displacements -2, 0 and 2 make labels that
  coincide, precede, follow, fall into an instruction and lie outside the
  program. With `LabelNumbers = 2` (2^16 in the code) labels run out of numbers.
- *Fields.* The decoder looks at a byte by its fields; every first byte is used,
  and every mod with rm 0, 6 and 7 and the four kinds of reg.
- *Programs of three instructions.* The state an instruction depends on is set
  by the two before it: an operand, and an address register or the flags.
  Values lie at carries, signs and nibbles. Programs are decoded from bytes, so
  no instruction is one the decoder would not yield.
- *Eight bytes of memory.* Addresses below 0, at the last cell and past it, and
  operands that overlap.
- *An IP of 9 values.* Only `Machine` has this parameter; the emulator is
  compared with it at 65536 values by `ImplementsMachine`. Instructions of 2, 3
  and 4 bytes fill 9 in several ways. The programs the emulator runs here are far
  from 65536 bytes, so its liveness properties are stated for programs that fit.

- *The pipeline.* Eight bytes stand for the megabyte, with ranges inside, at
  both ends, empty, reversed and past it. A flag is given at most once: what the
  library does with a second one is not known. Each file has one instruction of
  one class of operands behind two that give its registers a value, or is a
  loop, or is broken; all combinations of options meet all files. The buffer of
  the logger holds four lines (32 KB in the code), so that a listing is cut.
  Asserts are on: without them an unsupported instruction never ends
  (section 4.4).

Fairness: each loop runs in the only thread and has exactly one continuation, so
it goes on if it can: `WF_decoderVars(DecoderNext)` for the decoder alone,
`WF_<<decoderVars, encoderVars>>(DisassemblerNext)` for decoder and encoder,
`WF_vars(Next)` for the emulator and the machine, `WF_pipelineVars(PipelineNext)`
for `main`.
Deadlock is not checked: all these programs come to an end.

## 4. Where the code and its texts disagree

Each is a run that TLC ends with a counterexample.

1. `byte_store`: `mov [addr], r8` writes `addr + 1` (`emulator.cpp:508`). The
   test of the image program, `t-emulator.cpp:745`, puts red into byte 0 with
   exactly this instruction.
2. `accumulator_load`: `mov ax, [addr]` adds BX and SI (`emulator.cpp:563`); the
   comment at `emulator.cpp:559` calls the data the address.
3. `direction_bit`: `8B C3` executes as `mov bx, ax` (`emulator.cpp:442`);
   `opcodes.h:16` makes REG the destination when d is 1.
4. `unsupported_release`: without asserts an unsupported instruction is executed
   for ever (`emulator.cpp:712`).
5. `word_immediates`: `B9 C8 00` is listed as `mov cx, -56` (`decoder.cpp:572`);
   `data/11_ip_basic.out.txt:2` shows `mov cx, 200`. `NumbersReadBack` says for
   every class of operands and format exactly which numbers are affected.

6. `dump_only`: with `--dump-memory` and without `--exec` the listing is printed
   and no memory is dumped (`main.cpp:261`); `main.cpp:90` says that the option
   dumps memory and turns all other output off. With `--exec` it does
   (`DumpIsAlone`).

`ImplementsMachine` excludes the steps of 1, 2 and 3 and the segment fields 4 to
7, instruction by instruction (`Deviates`), and nothing else: programs that hold
such instructions are in its run. `StopsAtTheEnd` and `CountedProgramsEnd` ask
for the segment fields 0 to 3, because a move to field 4 is a jump, and
`OnlyArithmeticSetsFlags` leaves out the moves to field 5, which is FLAGS.
The model takes such moves as the code does; that they do no harm, no property
says, because they do.

Two more places where the texts leave room, with no run: `-imm-values-fmt`
(`main.cpp:97`) is not given to the emulator's context (`main.cpp:269`), so the
trace is always in the default format; and an argument that `parse` cannot read
does not stop the program (`main.cpp:126`, `main.cpp:131`).

## 5. What is proved

Every theorem is for every value of the constants: all sets of programs, files
and command lines, any size of memory, any number of labels, with and without
asserts. Every state invariant and every action property of the passing runs is
proved; what is left to TLC is liveness.

### Decoder and listing (`Disassembler_proofs`)

`DecoderInv` is inductive: the types, `OnlyTheLastOverruns`, the labels
(`LabelsFit`), and what the properties do not say and all of them need, that
`idx` is the end of the instructions decoded so far. `EncoderInv` is the same
for the listing: `byteIdx` is the end of the instructions listed so far, so that
the encoder looks a label up at the offset where the decoder stored it.
`DisassemblerInv` is both.

- `DecoderYieldsInstructions`, `ListingIsWellFormed` (`DecoderTypeOK`,
  `EncoderTypeOK`). That a decoded record is in `Instruction` needs the whole
  opcode table: `TableIs`, `OpcodesApart`, `OpcodeOfByte` (the longest-first
  search finds *the* opcode of a byte), `DecodedFields`, `DecodedIsInstruction`.
- `DecoderStaysInTheFile` (`OnlyTheLastOverruns`): an instruction is decoded only
  while `idx` is in the file, and the next starts where it ends.
- `LabelsNameTheTargets` (`LabelsAreTargets`), `LabelsStay` (`LabelsAreStable`),
  `EveryJumpIsListedWithItsLabel` (`JumpsFindTheirLabel`): each new label has the
  next number and an offset that no other has; every decoded jump's target has
  one; the target the encoder recomputes from `byteIdx` is the stored one, by
  the two halves of `DisassemblerInv` about the same sum.
- `LabelsAreWhereTheJumpsGo` (`LabelsMarkTheirTargets`). `LayoutInv` is added: there is a
  strictly increasing function from the instructions listed to lines, with the
  label of an instruction on the line before its own, a last label only at the
  end, and nothing else. `LineOf`, which finds a line by counting, is that
  function (a bijection between two finite sets), and positions are in order, so
  a label is at one place. That no two labels share a name needs no more
  labels than numbers; only the half that says "nowhere else" uses it.
  `LabelsMarkTheirTargets` itself is not inductive.
- `NumbersAreListed` (`NumbersReadBack`). `NumbersInv` says that a number of one
  byte has a zero high byte. `ImmReadsBack` is the arithmetic: for each format
  and sign, `AppendImm` reads back exactly outside `ShownWrong`. The rest goes
  class by class and finds the line with `LayoutInv`.
- `DecodingLosesNothing` (`Lossless`). `LosslessInv`: the instructions assembled
  again are a prefix of the bytes, up to the bytes that were not there.
  `DecodedBytes` is one instruction (opcode, mod/reg/rm, displacement and data
  put back), `FlattenAppend` one more of them.

### Emulator (`Emulator_proofs`, `Alu_proofs`)

- `TypeCorrect`: `Spec => []TypeOK`, which is inductive as it stands. A cell is
  a register or two adjacent bytes in memory (`DestCellType`, which needs
  `~AddressPanics` for the bound of the address and `~NoSuchRegister` for the
  register); `Dest` and `Source` have their types; `ResultTypes`: an operation
  on a word yields a word and one on a half changes only that half;
  `AdvanceType`: IP stays a word.
- `FlagsSurvive` (`OnlyArithmeticSetsFlags`): FLAGS is no operand unless a segment
  field names it, and `Advance` changes only IP.
- `StopsOnlyAtTheEnd` (`StopsAtTheEnd`). Not inductive: `IpOnBoundary` adds that
  for such a program IP is the start of an instruction, or the end, in every
  state (`StartOfGrows`: starts are in order, so at most one instruction is at
  IP and only the end has none).
- `ByteInstructionsKeepToTheirByte` (`ByteInstructionsChangeOneByte`):
  `PartsRoundTrip` for registers, `OtherHalf` and `ByteWritten` for memory.
- `AddFlagsAreExact`, `SubFlagsAreExact`: `next < original`, `original < next`
  and the tests of sign bits give the carry, zero and overflow flags of the exact
  sum and difference, for both widths.

### Refinement (`EmulatorRefinement_proofs`)

`EmulatorImplementsMachine`: `Spec => ImplementsMachine`. Initial states map to
initial states, `Stop` is `Halt`, and there is one lemma per action of the
emulator under the condition that the instruction is not in `Deviates`. The
places: a cell and a half of it are a sequence of the machine's byte locations,
of the same value. The operations: what `emulateAdd` and `emulateSub` compute in
their copies per width is `Exact`; the flags are `FlagsOf`, parity and
auxiliary carry included. The moves of IP agree because `StartOf` and the lengths are those of
the instructions both modules extend.

### Trace (`Trace_proofs`)

`TheTraceTellsEverything` (`TraceTellsTheStep`): from the registers, memory and
flags before a step and the line the step prints, `RegistersRead` and
`MemoryRead` are the state after it. `LettersTell`: the six letters are the six
flags, and the other bits of FLAGS do not change; the value the line ends with
is the cell's. The old values follow from the order of the statements: the line is
printed after the effect and before IP is set.

### Command line (`CommandLine_proofs`)

`AcceptedRangesAreOrdered`, `RefusalsHaveReasons` (`DumpRangeIsOrdered`,
`RefusedForAReason`). Neither is inductive. `ArgumentsInv` adds that the values stored are given ones or
defaults (`StoredWasSeen`), that the range is ordered *as it is* for as long as
no validator has failed, and that there is a reason as soon as one has. The
order of the flags drops out: each validator compares both ends as they
stand, so each of its calls restores the order for the values stored so far,
and the last call does so for all of them. There is one lemma per action.

### Pipeline (`Pipeline_proofs`)

A step of `main` is a step of at most one part (`StepsOfTheParts`), so the
invariants of the parts are used as they are.

- `PipelineTypes` (`PipelineTypeOK`): `PipelineInv` adds that there is no
  emulator before the file is decoded and that afterwards it runs exactly the
  decoded instructions.
- `ArgumentsInTheProgram`: the two theorems of the command line, inside `main`.
- `TheDumpIsAlone` (`DumpIsAlone`): `PrintedInv` says for every phase what may have been printed.
- `OverrunsHaveACause` (`TablesAreOverrunForACause`): `CauseInv` follows the
  end of the dump from the arguments, and an odd segment field from the
  instructions, to the place where they are used.
- `TheListingIsWhatRuns` (`ListingMeansWhatRuns`): what a reader takes the operands
  of a line to be is what the emulator writes and takes. `ListingInv` is the
  disassembler's invariant inside `main`, which sets the format between its two
  loops; `FormatInv` says that the format is one of the four. `LineIsRead` is one
  lemma per class of operands (`RegisterRegisterIsRead`, `MemoryImmediateIsRead`,
  ...), each about the place (`PlacesRead`, `AddressIsRead`), the value
  (`NumberIsTaken`) and the width a reader sees (`WidthOfPair`). They need of the
  decoder that the fields agree with the class (`FieldsAgree`: an accumulator
  opcode's register field and direction, no displacement where the line has none).
- `FollowingTheTraceGivesTheRegisters` (`TraceLeadsToTheFinalRegisters`): `TracedInv`
  says that in every phase the printed lines are a trace that leads to the
  registers the emulator has by then (`LeadTo`, a sequence of registers, one for
  each number of lines); a step adds the line that `StepIsTold` is about. That the
  property's fold computes the last of these registers is `FollowedLines`.

### Assumptions

`BuildConstants` (asserts are on or off), `DecoderConstants` (files are sequences
of bytes, what lies behind them is bytes), `EncoderConstants` (formats are the
four of the code, there is a positive number of label numbers),
`EmulatorConstants` (programs are sequences of instructions, memory has at least
two bytes), `CommandLineConstants` (command lines are sequences of arguments),
`PipelineConstants` (the memory's size is the one dump-end defaults to, and all
four formats are there). TLC evaluates each of them. Nothing is assumed of
programs beyond that: a condition of a property, such as jumps that land, is in
the property.

### How sums are proved about

`StartOf`, `FlattenSeq` and `FoldLeft` are defined by recursion over data. The provers cannot
use the induction theorems of the library (they take an operator as a
parameter), so that a recursive definition is unfolded by a least
counterexample: `LeastNumber` gives the smallest length at which a function with
the wanted equations does not exist, and the step contradicts it
(`AddsUpExists`, then `StartOfAddsUp`, `StartOfAppend`; `FlattensExists`;
`FoldExists`).

### Only model-checked

- Liveness, which is out of the prover's reach: `DisassemblyEnds`, `PipelineEnds`,
  `CountedProgramsEnd`, `ShortProgramsEnd`, `FullProgramsStartOver`.
- The properties of section 4, which are violated.

## 6. Not modelled

- Wording, colours, names of opcodes and registers, `instructionToInfoCptr`: no
  state the program reads. The logger's `muteLogger` and `shutdownLoggingSystem`
  are never called.
- The core library, apart from what its calls rely on. What it does with a flag
  given twice, or with text for a number, is not in the repository.
- Reading the file: it succeeds or fails at `Expect`.
- `hlt`, stack, string and I/O instructions: the program does not have them.

## 7. The plan

In order of importance; 1 to 7 exist.

1. `Word16`, `Opcodes`, `Instructions`, `Decoder`: what a program is.
2. `Alu`, `Emulator`: the core; type correctness and flags proved.
3. `Machine`, `EmulatorRefinement`: the abstract specification.
4. `EmulatorDivergences`: disagreements with comments and tests.
5. `Encoder`, `Disassembler`: the listing and its labels.
6. `Trace`: the lines of a verbose run against the steps they tell.
7. `CommandLine`, `Pipeline`: the composition; the accepted ranges proved.
8. Proofs: types of all components, the labels and the losslessness of the
   decoder, the layout and the numbers of the listing, the refinement, the trace
   step by step and as a whole, the listing against the execution, the dump and
   the causes of reads past the tables. Every property but liveness is proved.
