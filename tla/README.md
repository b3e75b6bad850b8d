# COR24 assembler: a TLA+ development

TLA+ modules, TLC configurations and TLAPS proofs for the COR24 cross-assembler:
the library `cor24_assembler` (`src/src`), the command line `cor24-asm`
(`src/cli`), and the emulator sources that give the assembled bytes their
meaning (`src/src/cpu`). File names without a directory are those of `src/src`.

1. Inventory · 2. How the parts interact · 3. What is hard · 4. Modules and code ·
5. Runs · 6. Fairness · 7. Where code and comments disagree · 8. Proofs ·
9. What is not modelled · 10. Plan

## 1. Inventory

| Component | Source | State it keeps | Operations | What makes it correct |
|---|---|---|---|---|
| Two-pass assembler | `assembler.rs` | `address`, `base_address`, `labels`, `forward_refs`, `output`, `lines`, `errors` | `new`, `assemble`/`assemble_at`; per line `assemble_line`, `handle_directive`, `parse_instruction`, `encode_*`; `resolve_forward_refs`; the refresh of the listing | addresses and output positions agree; every label operand holds what the label means; errors exactly for wrong sources; the listing shows the final bytes |
| Instruction encoders | `assembler.rs` (`parse_register`, `encode_*`) | none | one per group of mnemonics: bytes, or an error | the machine decodes what the author wrote |
| Instruction tables | crate `cor24_isa` (external), `cpu/decode_rom.rs` | none | encode, decode | decode inverts encode |
| Load-and-go writer | `lgo.rs` | none (a sink that may fail) | `write`, Full or Compact | a file loads back as its image, a cut file starts only a program that is whole |
| Listing writer | `listing.rs` | none | `write` | prints the assembler's lines |
| Command line | `cli/src/main.rs` | `Cli` record, files written | argument loop, `read_input`, `write_outputs`, `write_optional_extras` | exit code 0 means the artifacts asked for are whole; a failure damages one of them at most |
| CPU | `cpu/state.rs`, `cpu/executor.rs` | pc, registers, c, memory, `halted`, `intis`, counters | `step`, `run`, `reset`, `hard_reset`, `load_program` | interrupts are transparent and not nested; `run` returns |
| UART, LED, switch (IoState) | `cpu/state.rs` | `IoState` | `read_byte_exec`, `write_io`, `uart_tick`, `uart_send_rx`, `interrupt_pending` | no character lost without a flag, none transmitted twice |
| Trace ring | `cpu/state.rs` | `entries`, `head`, `capacity`, `count` | `new`, `push`, `last_n`, `all`, `clear` | holds the latest entries in order |
| Example programs | `examples/assembler/*.s`, `docs/examples/*.s`, `tests/programs` | registers and memory of the machine | their instructions, beside a host | each does what its comments say, whenever the host acts |

## 2. How the parts interact

```
 source text --> Assembler --> AssemblyResult --+--> lgo::write --> file --> loader --+
 (command line)   pass 1,       bytes, lines,   +--> listing::write                   |
                  pass 2        labels, errors  +--> raw bytes (--bin)                v
                                                                                  CpuState
        host: send_rx, switches, reset, run  --(between steps)-->  Executor::step  /  |  \
                                                                            IoState  mem  TraceBuffer
```

Everything is called, nothing is shared between threads: the assembler is one
call that runs both passes, and the host owns the `CpuState` by `&mut`. The
concurrency of the system is at the machine's own level. A host may deliver a
character, change the button or reset **between any two instructions**, and a
received character makes the machine take an interrupt between any two
instructions of the program it runs.

The integration tests of `assembler.rs` close the loop: assemble, `load_program`
at the address assembled for, `step`. What the author wrote passes through two
descriptions of the machine, the assembler's and the executor's, which share
the opcode table and nothing else.

## 3. What is hard

* **Two passes over one counter.** `address` advances by sizes, `output` by
  bytes, and every later patch computes an output index from an address.
  `.org`, `.comm`, `.word` lines with several operands and u32 wrap-around all
  touch that agreement, and the second pass skips what it cannot place silently.
* **Two copies of one rule.** The branch range is checked from `address + 4` in
  the first pass and from `fref.address + 3` in the second; labels may be
  redefined between them.
* **Two pipelines.** The assembler subtracts `address + 4` from a branch target, the
  executor adds `next_pc + 2`; the assembler advances by the bytes an encoder
  returns, the executor by the size of the opcode it decodes. A difference
  makes the machine execute operands.
* **Interrupts.** A key may fall between a poll of the transmitter and the
  store that follows, between a compare and its branch, or into the last
  instructions of an interrupt routine.
* **A one-character receiver and a transmitter that drops while busy**, with
  a countdown ticked by some ways of finishing a step and not by others.
* **A ring that wraps**, where "oldest first" changes its meaning at the push
  that fills it.
* **A sink that fails in the middle of a file**, and files loaded into memory
  that already holds something.
* **Outputs written one after another.** Any call into the operating system may
  fail, with earlier outputs already written; standard output is line buffered
  and flushed after the exit code has been chosen.

`PROJECT.json` lists each hazard with its line and the properties that cover it.

## 4. Modules and code

| Module | Stands for | Notes |
|---|---|---|
| `Assembler` | `assembler.rs` | the state machine of `struct Assembler` |
| `AssemblerProperties` | | what a reference means, and the properties |
| `AssemblerProofs`, `LinkProofs` | | theorems about `Assembler`: its counters, verdict, opcodes and listing; the operands |
| `Encoder` | `parse_register` and `encode_*` of `assembler.rs` | one operator per encoder |
| `Toolchain` | the integration tests of `assembler.rs` | composes `Assembler`, `Encoder`, `load_program` and `Executor::step` |
| `ToolchainProofs` | | theorems about `Toolchain`, on those of `LinkProofs` |
| `Cpu` | `cpu/state.rs`, `cpu/executor.rs` | CpuState, IoState, `step`, `run`, host calls |
| `CpuProofs` | | types of the machine, and lemmas about its steps that `ProgramsProofs` and `ToolchainProofs` use |
| `DecodeRom` | `cpu/decode_rom.rs` | the table, with the opcode order and the sizes the executor uses |
| `Programs` | example programs and their host | composes `Cpu`, a program and a host; properties of machine and programs |
| `Listings` | four of the example programs | what stands at each offset of their images, as assumptions the proofs read |
| `ProgramsProofs` | | theorems about `Programs`: of any program, and of the four listed |
| `RecentTrace` | | abstract specification of the trace: the list of the latest entries |
| `TraceBuffer` | `TraceBuffer` in `cpu/state.rs` | the ring; implements `RecentTrace` |
| `TraceBufferProofs` | | theorems about `TraceBuffer` |
| `Lgo` | `lgo.rs` and the external loader | writing, a failing sink, loading into a warm memory |
| `LgoProofs` | | theorems about `Lgo` |
| `Cli` | `cli/src/main.rs`, `listing.rs` | one call of `cor24-asm` |
| `CliProofs` | | theorems about `Cli` |
| `MC...` | | values for TLC |

### Assembler

The variables are the fields of the struct under their own names, plus `pc`
(which part of the call is running), `word` (a `.word` line in progress), `next`
(the reference the second pass is at) and the history `src` of the lines read.
One action is one source line: `LabelLine`, `LabelNotAlone`, `EmptyLabel`,
`Skip`, `Org`, `ByteData`, `Zero`, `Comm`, `Instruction`, `BadInstruction`,
`BranchKnown`, `BranchNumber`, `BranchForward`, `LaKnown`, `LaNumber`,
`LaForward`. A `.word` line is `WordLine` and then one step per operand
(`WordNumber`, `WordKnown`, `WordForward`), as its loop emits and records
operand by operand. `EndOfSource` starts the second pass, one step per reference
(`ResolveUndefined`, `ResolveAbsolute`, `ResolveRelative`), and `Finish` refreshes
the listing. `AssembleAt` may be called again on the same object.

A line's text is abstracted to what the code tells apart: its family, the label
it defines, the labels it names, the bytes it emits. A byte no label determines
is `Opaque`, so a patch that hits an opcode is visible. u32 arithmetic wraps at
`AddrMod`, and the i32 difference of a branch and its target wraps at the sign bit
(`Minus`); where a build with overflow checks would panic, `AddressOverflow`,
`IndexOverflow` and `OffsetOverflow` are the alternative outcome, and `New` is the
fresh assembler after it.

`Flat` says that no line read so far reserved space with `.comm`, went back with
`.org` or wrapped the counter. Properties are stated for flat sources, or for the
lines up to which a source is flat; section 7 shows what happens otherwise. `Linked`
reaches furthest: it covers every line the source is flat up to, whatever
follows, if no other line with references stands at the same addresses (`Alone`). It could
not do without: at base 0, a 4-byte instruction, then `.org 2`, `.word a`, `a:` makes the second
pass patch bytes 2 to 4, which overwrites the first line.

### Encoder

An encoder maps a list of operands to bytes or to `Rejected`. Operands are given as
what their text parses to: a register, a number, `(rb)`, `offset(rb)`, or
another name; `Encoded` selects the encoder by mnemonic, as `parse_instruction`
does. The tables of `cor24_isa` are read backwards from the decode table:
encoding gives the byte that decodes to the opcode and registers asked for, and
`EncodingAssumption` says that there is at most one.

### Toolchain

`source` is the program as its author wrote it. `Assemble` lets `Assembler` read
it line by line, with the line's own family of actions: the encoders decide
whether an instruction is rejected and how long it is, and their bytes fill
what `Assembler` leaves `Opaque`. `Load` puts the result into the machine, `Enter` starts
it at any line, `Execute` is a step of `Cpu`. A run is followed while the
program in memory is what was loaded (`Intact`) and the pc is in its code
(`OnCode`): a program may overwrite itself or run off its end, and then nothing
is claimed. The properties compare the machine with the source text (`Denotes`,
`RegistersOf`, `Constants`, `Meaning`), never with the bytes in between.

### Cpu and Programs

One action per way `Executor::step` returns: `StepHalted`, `Interrupt`,
`HaltAtZero`, `Nop`, `InvalidInstruction` and the instruction families
(`Compute`, `JumpAbsolute`, `Compare`, `Bra`, `BranchIf`, `Jal`, `Jmp`,
`LoadByte`, `LoadWord`, `Store`, `Push`, `Pop`), each with its UART tick and its
register update in the code's order. `budget` is what a `run` call may still
spend. `Programs` loads the images the assembler produces from the repository's
sources and lets a host set devices up (`Setup`), type (`Type`), press (`Press`),
run (`Call`) and reset (`MReset`) between steps. Its history variables record
characters sent and acknowledged, and the context each interrupt was taken in.

The counters `cycles` and `instructions` and the trace are not part of `Cpu`: no
instruction reads them. The cycles of an instruction matter only to `run`'s limit,
and are kept for that. A `nop` and an interrupt entry return before `uart_tick`
and do not count down a transmission: it only takes longer, and the programs are
checked for transmission times from 0 to 255.

The images are bytes, given to TLC by `MCPrograms`. `Listings` says of four of them
(`hello_uart.s`, `uart_hello.s`, `interrupt.s`, `echo.s`) which instruction the decode table finds at
each offset, with its registers, constant and target: `ListingAssumption`, which TLC
evaluates on the bytes and the table whenever it runs `MCPrograms`, and from which
the proofs about these programs start.

### TraceBuffer

`entries`, `head`, `capacity` and `count` under their names; `Push` appends until
the ring is full and then overwrites at `head`. `RecentTrace` keeps the same
entries as a sequence. The refinement mapping is the code's own reading,
`recent <- All` with `All` translated from `all` and `last_n`.

### Lgo

`Write` starts a file in one of the two modes; `Skip`, `Emit` and `Finish` are the
loop over chunks and the entry record. `Fail` is the error that leaves the file cut
in what it was writing: nothing of the record reached it, or a record of the bytes that
did, or a torn one (`Torn`: an address, an entry or a byte that lacks digits). A record is
complete without its newline, so the entry may be there although the write failed. `Overflow` is
the panic of a checked build on an address beyond a u32; a release build wraps it (`Addr`). `Load`, `LoadData`, `LoadGo`, `LoadGarbled`
and `Loaded` are the external loader, modelled from the round trips `lgo.rs` tests.
The memory survives from one file to the next. What a loader makes of a torn record, or of an
address of seven digits, is not known here, and no claim is made about it (`LoadGarbled`).

### Cli

One behaviour is one call: `argv`, whether stdout is a terminal (`tty`), the loop
over arguments (`next`, and the struct `cli`), then reading, assembling and one
output after another (`doing`, with the pieces `left` to write), to the exit
`code`. Every read, create and write has a second action in which it
fails (`ReadFails`, `CreateFails`, `WriteFails`, `WriteLineFails`,
`WriteBinFails`, and the flush in `Flush`). A message that stderr or stdout cannot
take panics, with exit code 101 instead of the one chosen (`ExitAfterMessage`, `Info`); so
does a checked build in the assembler (`AssemblerPanics`) or, with the output already
open, at the address of a record (`AddressOverflows`). An output is a sequence of pieces,
the records of a `.lgo`, the blocks of a `.bin`, the lines of a listing.
What was written to stdout after its last newline waits in `buffer`, and
`Flush`, after the exit code, writes or loses it. `Asked` reads off the argument list
what the usage text promises, independently of the loop.

## 5. Runs

| Run | Module, configuration | Checks | Bounds, and why they are enough |
|---|---|---|---|
| `assembler` | `MCAssembler` | `TypeOK`, `AddressTracksOutput`, `SlotsInOutput`, `Linked`, `ErrorsExact`, `ListingTiles`, `OpcodesKept` | 4 lines over two labels: definition, redefinition, reference before and after, with one line left for what disturbs them. Bytes of 16 values and addresses of 1024: `.zero 7` puts labels on either side of a branch's reach, addresses from the base 508 have three digits, `.comm 1023` wraps. From the base 508 a few bytes lead across the sign bit at 512, and `.org 512` from base 0 puts label and branch on either side of it. `.org 2` is backward from any but the first bytes, `.org 512` forward |
| `assembler_comm`, `assembler_hex` | `MCAssembler` | `AddressIsOffset`; `Linked` | 2 lines: the shortest counterexamples |
| `programs` | `MCPrograms` | `TypeOK`, `RxAccounted`, `OneDigitEach`, `EchoInOrder`, `Prints`, `Transparent`, `CounterCounts` | nine images, real 24-bit arithmetic; `MaxEvents = 2` characters, presses or resets at any instruction boundaries. Two are what it takes for a character to meet one still unread, an interrupt to follow one in service, or a reset to fall on a busy transmitter. Transmission times beside the default are 0 and 255 for `hello_uart.s`, and 0 and 19, the longest that is right, for `interrupt.s` |
| `programs_live` | `MCPrograms` | `Served`, `Finishes`, `LedFollows`, `RunReturns` | as above, without `interrupt.s`, whose counter makes the fair graph too large; `echo.s` has the same interrupt entry and return |
| `echo_prompt` | `MCPrograms` | `PromptShown` | `echo.s` only |
| `trace` | `MCTraceBuffer` | `TypeOK`, `LastNIsSuffix`, `KeepsLatest` | rings of 1 to 4 entries, 10 pushes (each ring wraps at least twice), clears anywhere. Entries are a symmetry set: the ring never looks at them |
| `lgo` | `MCLgo` | `TypeOK`, `LoadsImage`, `FailedLoadsNoMore` | records of 2 bytes and images of up to 3: an empty file, a short and a full last record, a zero block before or after another; 5 addresses, so an image may stop short of the end of memory or run past it, and a u32 of 8 values, which an image at base 7 overflows; any number of files into one memory |
| `lgo_digits` | `MCLgo` | `SixDigits` | as `lgo` |
| `toolchain` | `MCToolchain` | `ToolchainTypeOK`, `Lockstep`, `StopsRightly`, `Flow` | every mnemonic with no operand, one, two and three of every kind, at the boundaries of every range; every program of up to 4 lines around one label; branches at the last byte of their reach and one past it (`.zero` 123, 124, 129, 130); a subroutine, and the loop of `test_branch_loop_integration`. Bases 0 and 256, entry at any line, 6 instructions, enough for a loop of these programs to come round. Addresses wrap at 2^24, the machine's own width: no program here comes near it, and TLC's integers have 32 bits. A numeric displacement never points inside an instruction |
| `cli` | `MCCli` | `TypeOK`, `CleanExit`, `NothingUnlessAcceptable`, `DamageContained`, `TerminalClean` | every list of up to 3 of 12 arguments, and every combination of an input with the options, two outputs to one file and an output over the input included; results with and without zero blocks and blank lines, and an empty one; with and without a terminal; addresses up to 39, so that the second block of 36 bytes at `--base-addr 0x10` overflows |
| `cli_stdout` | `MCCli` | `CleanMeansWritten` | one argument list, `x.s --bin -` |

What they show, in words:

* **Assembler.** In a flat program assembled without errors every operand that
  names a label holds the label's meaning (its latest definition above, or its
  last definition if there is none), whichever pass filled it. An error is reported exactly when
  some line deserves one, and nothing of an earlier call on the same object leaks
  into the verdict. The second pass writes operands only. The listing tiles the
  output. In a program with a `.comm` or a backward `.org`, the operands of the lines before
  it are still right, unless the source comes back to their addresses.
* **Assembler and machine together.** At any base the machine executes the lines the author
  wrote: its pc is at the start of a line, what it decodes there has the operation, registers and
  constant written there, and control goes where the line says, through a
  displacement of either pass, a loaded address, a jump or a call. It stops only at a `bra` to
  itself or a zero byte at address 0.
* **Machine and programs.** Until the overflow flag is raised, what was sent is
  what was read plus what waits in the receiver. A return from an interrupt finds
  the registers, flag and place it was taken at. `interrupt.s` counts and prints one digit per
  key; `echo.s` echoes each key once and in order; the polling programs lose no
  byte for any transmission time; every run returns; a pending interrupt is
  served; the LED follows the button.
* **Trace.** The ring is the list of the latest entries.
* **Load-and-go.** A complete file loads its image and changes nothing else (a
  compact one into memory that is zero there, as its comment requires); a cut file
  loads only bytes of the image, and starts only a program that is whole: when nothing but
  the newline of the entry record is missing.
* **Command line.** Exit code 0 means that what was asked for is where it was asked for, whole (but
  for the tail of a `.bin` on standard output, section 7). Nothing is written
  unless the whole argument list is acceptable and the assembly has ended without an error. Whatever fails or panics,
  the outputs before the one that failed are whole and that one holds a prefix. A terminal
  never receives machine code.

Deadlock is checked in every run but `toolchain`, `cli` and `cli_stdout`, where the
host stops after its steps and the program ends. Every property of a passing run has a
mutant in `PROJECT.json`: an operator marked `Seeded fault` next to the
definition it replaces, with which TLC finds the property violated.

## 6. Fairness

Only `Programs` states fairness, in `MFairSpec`: weak fairness of `MStep`,
because `Executor::run` is a loop over `step` and a host that calls `step` or
`run` keeps doing so; and weak fairness of loading some program, because a
machine without one has no behaviour to speak of. Nothing is assumed of keys, presses, resets or
device settings: they may never happen. `Served` and `Finishes` exempt a host that
set `uart_never_ready`, with which a polling program polls for ever, as the field
is meant to. `LedFollows` relies on `MaxEvents`: after the last press the button
stays put.

## 7. Where code and comments disagree

Each is a run that TLC must find violated, with the comment or test quoted in `PROJECT.json`.

* `assembler_comm`: `.comm` (`assembler.rs:309`) moves `address` and emits no byte, so
  `address` is not "base_address + offset into output" (`assembler.rs:31`), and references on
  later lines are patched in the wrong place or not at all, without an error.
* `assembler_hex`: `parse_number` takes letters as the first digit although its
  comment requires a digit (`assembler.rs:430` and `:432`); `la` and `.word` try a number first, so a
  label such as `each` or `bach` assembles as a constant.
* `echo_prompt`: `echo.s` enables interrupts before it polls and stores its
  prompt; a key between the two drops the prompt its test expects.
* `cli_stdout`: `--bin -` writes to stdout without a flush (`main.rs:251`); what
  waits in the buffer is written after the exit code 0 is chosen, and lost
  silently if that fails (against `main.rs:40` and `:42`).
* `lgo_digits`: `{:06X}` is a minimum width; a base beyond 24 bits prints
  records of seven digits (`lgo.rs:50`, against `lgo.rs:6`).

## 8. Proofs

All hold for every value of the constants that satisfies the named assumptions
of their module. TLC evaluates those assumptions in the runs above, and checked
each invariant before it was proved.

| Theorem | Says | Assumes |
|---|---|---|
| `AssemblerProofs!TypeCorrect` | `Spec => []TypeOK` | `SymbolsAssumption`, `WidthAssumption`, `SourceAssumption`: the symbol values are distinct, a u32 is wider than an instruction and than a byte, operands fit u32 |
| `AssemblerProofs!AddressCorrect` | `Spec => []AddressTracksOutput` | same |
| `AssemblerProofs!SlotsCorrect` | `Spec => []SlotsInOutput` | same |
| `AssemblerProofs!OpcodesCorrect` | `Spec => OpcodesKept` | same |
| `AssemblerProofs!ErrorsCorrect` | `Spec => []ErrorsExact` | same |
| `AssemblerProofs!ListingCorrect` | `Spec => []ListingTiles` | same |
| `LinkProofs!LinkedCorrect` | `Spec => []Linked` | same, and two hypotheses: no label reads as a number, no `.word` line is longer than the address space |
| `ToolchainProofs!AssemblerCorrect` | `System => Spec`: the toolchain's assembler is `Assembler` | the assumptions of `Assembler`, `Encoder` and `Toolchain`: opcode sizes, the bytes of `nop` and `sub sp`, bytes of 8 bits |
| `ToolchainProofs!FlowCorrect` | `System => Flow` | same, and `NumericLabels = {}` and `WordsFit`: no name reads as a number, no `.word` line has a third of `AddrMod` operands |
| `ToolchainProofs!LockstepCorrect` | `System /\ [][JumpsLand]_state => []Lockstep`: for programs whose computed jumps lead to a line of code or out of it | same |
| `ToolchainProofs!StopsCorrect` | `System /\ [][JumpsLand]_state => StopsRightly` | same |
| `ToolchainProofs!DirectCorrect` | `System => []Lockstep /\ StopsRightly`, for programs whose jumps all name their targets | same, and `Direct(s)` for the programs |
| `ToolchainProofs!ToolchainTypes` | `System => []ToolchainTypeOK` | same as `FlowCorrect` but for `NumericLabels`, and `MachineAssumption`, `WordsClosed` (the decode table and the operators of the machine) and `StepsAssumption` |
| `TraceBufferProofs!TypeCorrect` | `Spec => []TypeOK` | `TraceAssumption`: capacities are positive |
| `TraceBufferProofs!KeepsCorrect` | `Spec => Recent!Spec`, the refinement | same |
| `TraceBufferProofs!LastNCorrect` | `Spec => []LastNIsSuffix` | same |
| `ProgramsProofs!RxCorrect` | `MSpec /\ [][KeepsOverflow]_allVars => []RxAccounted`: for programs that do not clear the overflow flag | `DecodeAssumption`, `HostAssumption`, `ZeroAssumption`: table, inputs and images have the types of the code, and no entry of the table writes z |
| `ProgramsProofs!TypeCorrect` | `MSpec => []TypeOK` | same, and the hypothesis `WordsClosed`: the bitwise operators and the shifts map words to words (TLC evaluates them; the provers have no exponentiation) |
| `CpuProofs!CpuTypes` | `Spec => []CpuOK`: the machine alone, with any host | `DecodeAssumption` and `WordsClosed` |
| `ProgramsProofs!PrintsCorrect` | `MSpec => []Prints` | as `ProgramsProofs!TypeCorrect`, and `ListingAssumption`, `StartAssumption`: the images of `hello_uart.s`, `uart_hello.s`, `interrupt.s` and `echo.s` are those of their sources, they are started at 0, `interrupt.s` with a transmission time up to 19 |
| `ProgramsProofs!DigitsCorrect` | `MSpec => []OneDigitEach` | same |
| `ProgramsProofs!CounterCorrect` | `MSpec => CounterCounts` | same |
| `ProgramsProofs!EchoCorrect` | `MSpec => []EchoInOrder` | same, and `CaseAssumption`: 223 clears the bit that tells a letter from its upper case |
| `ProgramsProofs!ReturnsCorrect` | `MSpec => Transparent` | same, and no program but these four |
| `LgoProofs!TypeCorrect` | `Spec => []TypeOK` | `LgoAssumption`: lines are not empty, the loader's addresses, the bases and entries are u32, an image is no longer than the u32 count |
| `LgoProofs!LoadsCorrect` | `Spec => []LoadsImage` | same |
| `LgoProofs!FailedCorrect` | `Spec => []FailedLoadsNoMore` | same |
| `CliProofs!TypeCorrect` | `Spec => []TypeOK` | `CliAssumption`: arguments are strings, a file argument is not an option, none is the value that stands for an option not set, addresses are u32, blocks are not empty |
| `CliProofs!CleanExitCorrect` | `Spec => []CleanExit` | same |
| `CliProofs!NothingCorrect` | `Spec => []NothingUnlessAcceptable` | same |
| `CliProofs!DamageCorrect` | `Spec => []DamageContained` | same |
| `CliProofs!TerminalCorrect` | `Spec => []TerminalClean` | same |

**Assembler.** `TypeOK` is inductive. `AddressTracksOutput` and `SlotsInOutput` are not:
a reference recorded in the middle of a `.word` line lies inside the output only if the
counter is still in step there, and the operands still to come must not wrap the counter. The
inductive invariant `IInv` therefore has five parts: `TypeOK`,
`AddressTracksOutput`, `SlotsInOutput`, `WordFits` (a `.word` in progress has room
for its remaining operands) and `RefsRead` (a reference names a line already read,
so that a later line does not change whether its prefix is flat). One lemma
treats each kind of line; the second pass changes bytes but never their number.

**Trace ring.** `TypeOK` carries the fact the proof turns on: a ring that is not full
has never wrapped, so `head` is its length, or 0 at the push that fills it. From
it each push maps to the abstract push (`recent` loses its first entry exactly
when the ring was full) and each clear to the abstract clear.

**Opcodes.** `OpcodesKept` follows from `IInv` and one more fact: the operand of a
reference consists of bytes a label determines from the moment it is recorded (`OperandsOpen`);
lines only add to the output and patches put bytes of addresses into it.

**Errors.** `ErrorsExact` judges a line by the whole source; the code judges a part of it at
once and the rest when it resolves references. `EInv` joins the two: the table
holds the latest definition of each label so far, references are recorded for exactly the
operands with no definition above them, and there are no errors exactly if the
lines read pass what can be judged at once and the references taken resolve. A branch deserves
an error when no offset of one byte leads to its target round the ring of addresses; the code
decides it by an i32 difference, and `ReachesFits` shows that the two agree across the sign
bit, where a release build wraps.

**Linking.** An operand whose label is defined above is right when it is emitted; any
other has a reference that names exactly that operand, and is right once
the second pass has been there. That a patch touches no other operand is a matter of
layout: a patch stays within the addresses of its line, which no other line with references
shares where `Alone` holds (in a flat program it always does), and where the source is flat
an address tells the place in the output. Both hypotheses are needed: `assembler_hex` shows
the first, and a `.word` line that wraps the counter overlaps itself.

**Listing.** While the passes run the lines tile what has been emitted, by address and size,
and a `.word` in progress begins where they end (`Tiled`). The second pass changes
bytes and no sizes, so the refresh reads each line's bytes where the line is.

**Load-and-go.** The records of a file are truthful; those written so far cover the
chunks the writer has passed but for zero blocks left out; the memory
holds the image where a record read covers it and what it held before
everywhere else. A file whose write failed has an entry record only if the writer was past
every chunk, because it is written last: so what starts is whole.

**Machine.** The images, the decode table and the device settings are constants, so `RxCorrect`
and the types hold of every program. `RxAccounted` is kept because no instruction
touches the byte in the receiver and none makes it ready again, a load that
acknowledges it appends it to `taken`, and a character that finds another
unread raises the flag. A program that clears the flag also forgets that a
character was lost, hence the hypothesis; none of the repository's writes the
status register. `TypeOK` is inductive once the fields of `IoState` are known; `CpuOK` is
the part of it that speaks of the machine alone, and serves the toolchain as well.

**Programs.** A program that is listed is executed by the prover: from its listing each
offset decodes to one instruction, and the instruction leads to the next offset. The invariants
are tables of what holds at each offset. While a program is loaded nothing
writes over its bytes (`Loaded`), because every store goes to a device, to the cell at 256 or
to the stack.

*The polling programs* (`HelloInv`, `UartInv`): at every offset the text printed so far is
the prefix that goes with it (the `i`th character is either still to be stored or has just been),
the character to print is in `r0`, and behind the poll the transmitter is free. It stays
free up to the store, because the instructions in between only tick it and no interrupt is
enabled.

*`interrupt.s`* (`DigitsInv`): the machine is in the main loop (`Main`) or in the routine,
entered from some context `x` (`Routine(x)`).

1. `Counting` is the table of the main loop: at each offset, which registers hold what, as a
   function of the cell at 256. It is a predicate of a context, not of the machine, so the
   same table says what is known of the interrupted `x` while the routine runs.
2. `Frame(x, n)` is the routine's side: `n` words of `x` are on the stack, the
   registers not pushed yet are those of `x`, and the flag is pushed and restored through `r2`.
   At the last line everything is back, which is `Transparent`, and the context returned to
   satisfies `Counting`, which gives `CounterCounts`: each store of the loop is one more than the
   last, modulo 10, or the 0 of a start.
3. The routine stores without polling. `Asked(n)`, `Owes(n)` and `Paid(n)` say that the digits
   shown are as many as the characters taken (one fewer between the load that
   acknowledges and the store), and that the transmitter is free after at most `n` more
   instructions. A store makes it busy for up to 19 ticks, the first of them its own; between it
   and the store of an interrupt taken at once lie 18 instructions, and the
   interrupt entry itself does not tick. TLC finds `OneDigitEach` violated for 20.

*`echo.s`* (`EchoInv`): the machine is in the main program (`Idle`), in the routine that
interrupted some context `x` (`Answering(x)`), or past a `!` (`Stopped`).

1. `Sent(n, k)` says what is out when `n` characters have been answered and the main program
   is at `k`: their echoes in order, and from the line after the prompt's store perhaps the
   prompt between two of them. It does not say that the prompt is out, because an interrupt
   between the poll and the store drops it (`echo_prompt`). Nor does it need to: the routine
   returns to the table of the main program (`Waiting`), which knows nothing of the transmitter.
2. In the routine, `Judging` follows the character through the tests for `!` and for a letter:
   the byte to be stored is the character, or the character with bit 5 cleared if both comparisons
   say letter. A character above 127 is sign-extended and so is no letter.
3. Behind the poll the transmitter is free up to the store: the routine is not interrupted, and the
   host can make it busy only before the first instruction. So the store is never dropped, for
   any transmission time. Between the load and the store one character is owed (`Owing`).
4. A character of value 0 is transmitted and appears in no output, so `EchoInOrder` and
   `Sent` speak of runs without one.

The theorems speak of any number of characters, button changes and resets, at any instants;
`MaxEvents` plays no part in the proofs.

**Command line.** The properties read the whole argument list at once (`Asked`), the
loop one argument after another, so the invariant says first what the struct `cli` holds
once the arguments before `next` are taken (`ArgsRead`, `LgoRead`: each field is the last
value of its option, the mode is the one asked for, the input is the only file). Which
arguments are values of options is a recursive function of the position; it is
unfolded by induction over it. From the end of the arguments on, the outputs the code
plans are the outputs asked for (`Planned`). While they are written, the outputs before
the one in progress are where they belong, whole, and that one holds what is not yet
left to write (`Progress`, for files and, in the order they were asked for, for standard output with
its buffer). A failure freezes that state (`Stopped`), success and the flush
complete it (`Written`).

**Toolchain.** The argument follows a line of the source through the two halves of the
system.

1. The encoders invert the decode table: bytes an encoder accepts decode to the
   operation, the registers and the constant of the text (`Encodes`, one lemma per
   encoder and one, `FieldValues`, on what 8 and 24 bits keep of a constant).
2. Every step of the toolchain's assembler is a step of `Assembler`
   (`AssemblerCorrect`), so its invariants hold here; `HInv` adds that what was read is
   the source, line by line, in disjoint places of the output, and that the
   bytes a label does not determine are the encoder's (`History`).
3. The machine keeps its registers and memory in order, takes no interrupt because no
   character arrives, and never frees a cell (`Machines`). While the program in
   memory is intact the bytes of each line are therefore those at its address
   (`LineInMemory`), the machine decodes the line (`DecodedAt`), and the
   displacement or address the assembler computed, undone by the machine's own
   pipeline base, is the label's meaning (`LabelRead`, which rests on `Linked`).
4. So one step from a line goes where the line says (`FollowsAt`): this is `Flow`.
   That place is the start or the end of a line, and an end inside code is the next start
   (`Landing`): the pc stays at a line, which is the inductive part of `Lockstep`
   (`AtLine`).

Only a computed jump can break step 4: `jmp`, `jal`, `la ir` with a number and a
branch to a number go to an address the text does not tie to a line. `JumpsLand` is what
the author of such a jump has to see to, and `DirectCorrect` is the case without any.
The programs of the `toolchain` run need no such hypothesis: TLC checks `Lockstep`
without it, subroutines (`jal`, `jmp (r1)`) and numeric branches included.

*Types.* `ToolchainTypeOK` joins the assembler's types, the machine's (`CpuOK`, whose
lemmas are instantiated at the toolchain's machine) and those of the glue: the lines of
a result are those of the source (`Attributed`), and the entry is one of them.

**What stays with TLC.** Out of the provers' reach: the liveness properties (fairness and
ENABLED), and what needs an induction theorem with an operator parameter. (Induction over
numbers is available where the induction can be put as the least element of a set, as
for the argument list of `Cli` and the last definition of a label.) Only model-checked:

* the liveness properties `Served`, `Finishes`, `LedFollows`, `RunReturns`.

## 9. What is not modelled

* `cor24_isa`, the encoding tables: an external crate. `Encoder` takes them as the
  inverse of the decode table; the machine takes opcode order and sizes from its use.
* The text of a line: splitting, trimming and comments. `Encoder` starts from
  operands already parsed. Operands after those an encoder looks at are ignored by the code, and
  `z` and `c` name one register; no document says what else they should mean.
* The loader of `cor24_emulator`: external; modelled in `Lgo` from its use.
* The wording of messages on stderr, and the column layout of the listing.
* The trace display and disassembler (text of an entry), `format_last`.
* Build scripts and the generator of the decode table: run by hand; the table
  itself is modelled.
* The I2C, SPI and SD-card demos: they drive peripherals outside this repository.
* Programs without interrupts, polling or input (fibonacci, multiply, ...): one
  behaviour each, which a unit test covers.

## 10. Plan

Done, in this order: the assembler (the system's core), the machine with its
programs and host, the trace ring, the load-and-go writer; the encoders and the composition
of assembler and machine; the command line. Proved: every invariant and action
property of the assembler, the trace ring, the load-and-go writer, the command line and the
toolchain; what holds of the machine for every program; and the properties of the listed
example programs.

Left: `lw` from the UART data register, which does not acknowledge, against `state.rs:37`,
if a program comes to use it.
