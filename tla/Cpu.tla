---------------------------------- MODULE Cpu ----------------------------------
(***************************************************************************)
(* The COR24 processor that gives the assembled bytes their meaning:       *)
(* CpuState and IoState of src/src/cpu/state.rs and Executor of            *)
(* src/src/cpu/executor.rs.                                                *)
(*                                                                         *)
(* One step is one call of Executor::step; the calls a host makes between  *)
(* steps (load_program, uart_send_rx, the switch, reset, hard_reset, run)  *)
(* are actions of their own.  A host holds `&mut CpuState`, so it makes    *)
(* none of them while a run is in progress.                                *)
(*                                                                         *)
(* Bytes and words have the widths of the machine.  Memory is sparse: a    *)
(* cell that was never written is not in DOMAIN mem and reads as 0.  The   *)
(* counters `cycles` and `instructions` and the trace are output only and  *)
(* left out, but for the cycles a run may still use.                       *)
(***************************************************************************)
EXTENDS Integers, Sequences

CONSTANTS
  DECODE_ROM,     \* byte -> 12 bits, opcode(5) : ra(3) : rb(3)
  Opcodes,        \* the opcodes of cor24_isa, in the order of their codes
  SizeOf,         \* and their sizes in bytes: 1, 2 or 4
  BitAnd(_, _), BitOr(_, _), BitXor(_, _)

WORD_MAX == 16777215     \* 0xFFFFFF

Byte == 0 .. 255
Word == 0 .. WORD_MAX
Undecodable == 4095

SRAM_SIZE  == 1048576
EBR_BASE   == 16703488   \* 0xFEE000
EBR_SIZE   == 8192
IO_BASE    == 16711680   \* 0xFF0000
INITIAL_SP == 16706560   \* 0xFEEC00

IO_LEDSWDAT  == IO_BASE
IO_INTENABLE == IO_BASE + 16
IO_UARTDATA  == IO_BASE + 256
IO_UARTSTAT  == IO_BASE + 257

ASSUME DecodeAssumption ==
  /\ DECODE_ROM \in [Byte -> Nat]
  /\ \A b \in Byte : DECODE_ROM[b] < 2048 \/ DECODE_ROM[b] = Undecodable
  /\ Opcodes \in Seq(STRING) /\ Len(Opcodes) = 32
  /\ SizeOf \in [{Opcodes[i] : i \in 1 .. 32} -> {1, 2, 4}]

VARIABLES
  pc, registers, c, halted, intis,
  mem,            \* memory and ebr: the cells that have been written
  io,             \* IoState
  budget          \* cycles the run in progress may still use; 0 without one

vars == <<pc, registers, c, halted, intis, mem, io, budget>>

-----------------------------------------------------------------------------
(* Words.                                                                  *)

Mask(v) == v % 16777216

Signed24(v) == IF v >= 8388608 THEN v - 16777216 ELSE v
SignExtend8(b) == IF b >= 128 THEN b + 16776960 ELSE b

WordOf(b0, b1, b2) == b0 + 256 * b1 + 65536 * b2

ShiftLeft(v, s) == IF s < 24 THEN (v % 2 ^ (24 - s)) * 2 ^ s ELSE 0
ShiftRight(v, s) == v \div 2 ^ (IF s < 24 THEN s ELSE 24)

-----------------------------------------------------------------------------
(* Memory and I/O.                                                         *)

IsIo(a)  == a >= IO_BASE
IsRam(a) == a < SRAM_SIZE \/ (EBR_BASE <= a /\ a < EBR_BASE + EBR_SIZE)

NewIo ==
  [leds |-> 1, switches |-> 1, int_enable |-> 0,
   uart_tx |-> 0, uart_tx_busy |-> FALSE, uart_tx_countdown |-> 0,
   uart_tx_busy_cycles |-> 10, uart_never_ready |-> FALSE, uart_tx_dropped |-> 0,
   uart_rx |-> 0, uart_rx_ready |-> FALSE, uart_rx_overflow |-> FALSE,
   uart_output |-> <<>>]

\* Seeded fault: TX busy reported in bit 6.
StatusBit6(d) ==
  2 + (IF d.uart_rx_ready THEN 1 ELSE 0) + (IF d.uart_rx_overflow THEN 4 ELSE 0)
    + (IF d.uart_tx_busy THEN 64 ELSE 0)

Status(d) ==
  2 + (IF d.uart_rx_ready THEN 1 ELSE 0) + (IF d.uart_rx_overflow THEN 4 ELSE 0)
    + (IF d.uart_tx_busy THEN 128 ELSE 0)

\* Seeded fault: the button's address reads the LED back.
ReadIoLed(a) ==
  CASE a = IO_LEDSWDAT  -> io.leds
    [] a = IO_INTENABLE -> io.int_enable
    [] a = IO_UARTDATA  -> io.uart_rx
    [] a = IO_UARTSTAT  -> Status(io)
    [] OTHER            -> 0

ReadIo(a) ==
  CASE a = IO_LEDSWDAT  -> io.switches
    [] a = IO_INTENABLE -> io.int_enable
    [] a = IO_UARTDATA  -> io.uart_rx
    [] a = IO_UARTSTAT  -> Status(io)
    [] OTHER            -> 0

ReadByte(addr) ==
  LET a == Mask(addr)
  IN  IF IsIo(a) THEN ReadIo(a) ELSE IF a \in DOMAIN mem THEN mem[a] ELSE 0

ReadWord(a) == WordOf(ReadByte(a), ReadByte(a + 1), ReadByte(a + 2))

\* A byte written to the transmitter: dropped while it is busy.
Transmit(d, v) ==
  IF d.uart_tx_busy
  THEN [d EXCEPT !.uart_tx_dropped = @ + 1]
  ELSE [d EXCEPT !.uart_tx = v,
                 !.uart_output = IF v = 0 THEN @ ELSE Append(@, v),
                 !.uart_tx_busy = d.uart_tx_busy_cycles > 0,
                 !.uart_tx_countdown = IF d.uart_tx_busy_cycles > 0
                                       THEN d.uart_tx_busy_cycles ELSE @]

WriteIo(d, a, v) ==
  CASE a = IO_LEDSWDAT  -> [d EXCEPT !.leds = v]
    [] a = IO_INTENABLE -> [d EXCEPT !.int_enable = v]
    [] a = IO_UARTDATA  -> Transmit(d, v)
    [] a = IO_UARTSTAT  -> IF (v \div 4) % 2 = 1
                           THEN [d EXCEPT !.uart_rx_overflow = FALSE] ELSE d
    [] OTHER            -> d

\* Bytes bs written at a and on: the cells of memory among them, and the
\* registers of the devices, lowest address first.  An address that is
\* neither ignores its byte.
MemAfter(a, bs) ==
  LET written == {x \in {Mask(a + i - 1) : i \in DOMAIN bs} : IsRam(x)}
  IN  [x \in DOMAIN mem \cup written |->
         IF x \in written THEN bs[Mask(x - a) + 1] ELSE mem[x]]

IoAfter(a, bs) ==
  LET Put(d, i) == IF i \in DOMAIN bs /\ IsIo(Mask(a + i - 1))
                   THEN WriteIo(d, Mask(a + i - 1), bs[i]) ELSE d
  IN  Put(Put(Put(io, 1), 2), 3)

BytesOf(v) == <<v % 256, (v \div 256) % 256, v \div 65536>>

\* Seeded fault: the countdown runs out and the transmitter stays busy.
TickStuck(d) ==
  IF d.uart_never_ready \/ d.uart_tx_countdown = 0 THEN d
  ELSE [d EXCEPT !.uart_tx_countdown = @ - 1]

\* uart_tick, at the end of an instruction.
Tick(d) ==
  IF d.uart_never_ready \/ d.uart_tx_countdown = 0 THEN d
  ELSE [d EXCEPT !.uart_tx_countdown = @ - 1,
                 !.uart_tx_busy = @ /\ d.uart_tx_countdown > 1]

InterruptPending == io.uart_rx_ready /\ io.int_enable % 2 = 1 /\ ~ intis

-----------------------------------------------------------------------------
(* Fetch and decode.                                                       *)

Fetched == ReadByte(pc)
Decoded == DECODE_ROM[Fetched]

op == Opcodes[1 + Decoded \div 64]
ra == (Decoded \div 8) % 8
rb == Decoded % 8

imm8    == ReadByte(pc + 1)
imm24   == WordOf(ReadByte(pc + 1), ReadByte(pc + 2), ReadByte(pc + 3))
next_pc == Mask(pc + SizeOf[op])

A == registers[ra]
B == registers[rb]

\* rb plus the signed offset of a load or store
Effective == Mask(B + SignExtend8(imm8))

\* Seeded fault: a branch target that is not wrapped to 24 bits.
TargetUnmasked == next_pc + 2 + SignExtend8(imm8)

\* The pipeline's base is two past the next instruction.
Target == Mask(next_pc + 2 + SignExtend8(imm8))

-----------------------------------------------------------------------------
(* One call of Executor::step, by the way it ends.                         *)

\* A run goes on while its steps return Ok and cycles are left.
Spend(cycles)   == budget' = IF budget > cycles THEN budget - cycles ELSE 0
ReturnFromRun   == budget' = 0

\* Seeded fault: a step of a halted machine answers Ok.
StepHaltedOk ==
  /\ halted
  /\ UNCHANGED <<pc, registers, c, halted, intis, mem, io, budget>>

StepHalted ==
  /\ halted
  /\ ReturnFromRun
  /\ UNCHANGED <<pc, registers, c, halted, intis, mem, io>>

Interrupt ==
  /\ ~ halted /\ InterruptPending
  /\ intis' = TRUE
  /\ registers' = [registers EXCEPT ![7] = pc]
  /\ pc' = registers[6]
  /\ Spend(1)
  /\ UNCHANGED <<c, halted, mem, io>>

Fetching == ~ halted /\ ~ InterruptPending

HaltAtZero ==
  /\ Fetching /\ pc = 0 /\ Fetched = 0
  /\ halted' = TRUE
  /\ ReturnFromRun
  /\ UNCHANGED <<pc, registers, c, intis, mem, io>>

\* 0xFF is not in the ROM: it uses no cycle and does not tick the UART.
Nop ==
  /\ Fetching /\ Fetched = 255
  /\ pc' = Mask(pc + 1)
  /\ Spend(0)
  /\ UNCHANGED <<registers, c, halted, intis, mem, io>>

InvalidInstruction ==
  /\ Fetching /\ Fetched # 255 /\ Decoded = Undecodable
  /\ ReturnFromRun
  /\ UNCHANGED <<pc, registers, c, halted, intis, mem, io>>

Executing ==
  /\ Fetching /\ ~ (pc = 0 /\ Fetched = 0)
  /\ Fetched # 255 /\ Decoded # Undecodable

\* The end of every executed instruction.
Retire(to, d) ==
  /\ pc' = to
  /\ io' = Tick(d)
  /\ Spend(1)

\* The end of one that writes bytes bs at address a.
RetireWriting(a, bs) ==
  /\ Retire(next_pc, IoAfter(a, bs))
  /\ mem' = MemAfter(a, bs)

-----------------------------------------------------------------------------
(* The instructions.                                                       *)

\* Seeded fault: mov from c gives the constant z.
ResultNoFlag ==
  CASE op = "AddReg" -> Mask(A + B)
    [] op = "AddImm" -> Mask(A + SignExtend8(imm8))
    [] op = "La"     -> imm24
    [] op = "Lc"     -> SignExtend8(imm8)
    [] op = "Lcu"    -> imm8
    [] op = "Mov"    -> B
    [] OTHER         -> BitAnd(A, B)

\* The value an instruction that only writes a register writes.
Result ==
  CASE op = "AddReg" -> Mask(A + B)
    [] op = "AddImm" -> Mask(A + SignExtend8(imm8))
    [] op = "And"    -> BitAnd(A, B)
    [] op = "La"     -> imm24
    [] op = "Lc"     -> SignExtend8(imm8)
    [] op = "Lcu"    -> imm8
    [] op = "Mov"    -> IF rb = 5 THEN (IF c THEN 1 ELSE 0) ELSE B
    [] op = "Mul"    -> Mask(A * B)
    [] op = "Or"     -> BitOr(A, B)
    [] op = "Shl"    -> ShiftLeft(A, B % 32)
    [] op = "Sra"    -> Mask(ShiftRight(Signed24(A), B % 32))
    [] op = "Srl"    -> ShiftRight(A, B % 32)
    [] op = "Sub"    -> Mask(A - B)
    [] op = "SubSp"  -> Mask(registers[4] - imm24)
    [] op = "Sxt"    -> SignExtend8(B % 256)
    [] op = "Xor"    -> BitXor(A, B)
    [] op = "Zxt"    -> B % 256

Computing == {"AddReg", "AddImm", "And", "La", "Lc", "Lcu", "Mov", "Mul", "Or", "Shl",
              "Sra", "Srl", "Sub", "SubSp", "Sxt", "Xor", "Zxt"}

Compute ==
  /\ Executing /\ op \in Computing /\ ~ (op = "La" /\ ra = 7)
  /\ registers' = [registers EXCEPT ![IF op = "SubSp" THEN 4 ELSE ra] = Result]
  /\ Retire(next_pc, io)
  /\ UNCHANGED <<c, halted, intis, mem>>

\* la with ir as its register is an absolute jump.
JumpAbsolute ==
  /\ Executing /\ op = "La" /\ ra = 7
  /\ Retire(imm24, io)
  /\ UNCHANGED <<registers, c, halted, intis, mem>>

Compare ==
  /\ Executing /\ op \in {"Ceq", "Cls", "Clu"}
  /\ c' = CASE op = "Ceq" -> A = B
            [] op = "Cls" -> Signed24(A) < Signed24(B)
            [] op = "Clu" -> A < B
  /\ Retire(next_pc, io)
  /\ UNCHANGED <<registers, halted, intis, mem>>

\* A bra to itself halts the machine.
Bra ==
  /\ Executing /\ op = "Bra"
  /\ halted' = (Target = pc)
  /\ pc' = Target
  /\ io' = Tick(io)
  /\ IF Target = pc THEN ReturnFromRun ELSE Spend(1)
  /\ UNCHANGED <<registers, c, intis, mem>>

BranchIf ==
  /\ Executing /\ op \in {"Brf", "Brt"}
  /\ Retire(IF c = (op = "Brt") THEN Target ELSE next_pc, io)
  /\ UNCHANGED <<registers, c, halted, intis, mem>>

Jal ==
  /\ Executing /\ op = "Jal"
  /\ registers' = [registers EXCEPT ![ra] = next_pc]
  /\ Retire(B, io)
  /\ UNCHANGED <<c, halted, intis, mem>>

\* Seeded fault: a return does not leave the interrupt state.
JmpKeepsIntis ==
  /\ Executing /\ op = "Jmp"
  /\ Retire(A, io)
  /\ UNCHANGED <<registers, c, halted, intis, mem>>

\* Through ir it returns from an interrupt.
Jmp ==
  /\ Executing /\ op = "Jmp"
  /\ intis' = (intis /\ ra # 7)
  /\ Retire(A, io)
  /\ UNCHANGED <<registers, c, halted, mem>>

\* Seeded fault: a load that does not acknowledge the character.
LoadByteNoAck ==
  /\ Executing /\ op \in {"Lb", "Lbu"}
  /\ LET v == ReadByte(Effective)
     IN  registers' = [registers EXCEPT ![ra] = IF op = "Lb" THEN SignExtend8(v) ELSE v]
  /\ Retire(next_pc, io)
  /\ UNCHANGED <<c, halted, intis, mem>>

\* A byte load from the UART data register acknowledges it.
LoadByte ==
  /\ Executing /\ op \in {"Lb", "Lbu"}
  /\ LET v == ReadByte(Effective)
     IN  registers' = [registers EXCEPT ![ra] = IF op = "Lb" THEN SignExtend8(v) ELSE v]
  /\ Retire(next_pc, [io EXCEPT !.uart_rx_ready = @ /\ Effective # IO_UARTDATA])
  /\ UNCHANGED <<c, halted, intis, mem>>

LoadWord ==
  /\ Executing /\ op = "Lw"
  /\ registers' = [registers EXCEPT ![ra] = ReadWord(Effective)]
  /\ Retire(next_pc, io)
  /\ UNCHANGED <<c, halted, intis, mem>>

Store ==
  /\ Executing /\ op \in {"Sb", "Sw"}
  /\ RetireWriting(Effective, IF op = "Sb" THEN <<A % 256>> ELSE BytesOf(A))
  /\ UNCHANGED <<registers, c, halted, intis>>

\* Seeded fault: the stack pointer moves before the read.
PopLate ==
  /\ Executing /\ op = "Pop"
  /\ registers' = [registers EXCEPT ![ra] = ReadWord(registers[4] + 3),
                                    ![4]  = Mask(registers[4] + 3)]
  /\ Retire(next_pc, io)
  /\ UNCHANGED <<c, halted, intis, mem>>

Pop ==
  /\ Executing /\ op = "Pop"
  /\ registers' = [registers EXCEPT ![ra] = ReadWord(registers[4]),
                                    ![4]  = Mask(registers[4] + 3)]
  /\ Retire(next_pc, io)
  /\ UNCHANGED <<c, halted, intis, mem>>

Push ==
  /\ Executing /\ op = "Push"
  /\ registers' = [registers EXCEPT ![4] = Mask(registers[4] - 3)]
  /\ RetireWriting(registers'[4], BytesOf(registers'[ra]))
  /\ UNCHANGED <<c, halted, intis>>

Execute ==
  \/ Compute \/ JumpAbsolute \/ Compare \/ Bra \/ BranchIf \/ Jal \/ Jmp
  \/ LoadByte \/ LoadWord \/ Store \/ Pop \/ Push

Step == StepHalted \/ Interrupt \/ HaltAtZero \/ Nop \/ InvalidInstruction \/ Execute

-----------------------------------------------------------------------------
(* What a host does between steps.                                         *)

NewRegisters == [r \in 0 .. 7 |-> IF r = 4 THEN INITIAL_SP ELSE 0]

Init ==
  /\ pc = 0 /\ registers = NewRegisters /\ c = FALSE
  /\ halted = FALSE /\ intis = FALSE
  /\ mem = <<>> /\ io = NewIo /\ budget = 0

HostHolds == budget = 0

\* load_program, of data that lies in memory.
LoadProgram(start, data) ==
  LET at == {start + i - 1 : i \in DOMAIN data}
  IN  /\ HostHolds
      /\ \A a \in at : IsRam(a)
      /\ mem' = [a \in DOMAIN mem \cup at |->
                   IF a \in at THEN data[a - start + 1] ELSE mem[a]]
      /\ UNCHANGED <<pc, registers, c, halted, intis, io, budget>>

\* The fields a host sets: where to start, how long a transmission takes, whether one ever
\* ends, the button.
SetPc(entry) ==
  /\ HostHolds
  /\ pc' = entry
  /\ UNCHANGED <<registers, c, halted, intis, mem, io, budget>>

SetBusyCycles(n) ==
  /\ HostHolds
  /\ io' = [io EXCEPT !.uart_tx_busy_cycles = n]
  /\ UNCHANGED <<pc, registers, c, halted, intis, mem, budget>>

NeverReady ==
  /\ HostHolds
  /\ io' = [io EXCEPT !.uart_never_ready = TRUE, !.uart_tx_busy = TRUE]
  /\ UNCHANGED <<pc, registers, c, halted, intis, mem, budget>>

SetSwitches(v) ==
  /\ HostHolds
  /\ io' = [io EXCEPT !.switches = v]
  /\ UNCHANGED <<pc, registers, c, halted, intis, mem, budget>>

\* Seeded fault: the overflow is not flagged.
SendRxSilent(ch) ==
  /\ HostHolds
  /\ io' = [io EXCEPT !.uart_rx = ch, !.uart_rx_ready = TRUE]
  /\ UNCHANGED <<pc, registers, c, halted, intis, mem, budget>>

\* uart_send_rx: an unread byte is overwritten, and the overflow flagged.
SendRx(ch) ==
  /\ HostHolds
  /\ io' = [io EXCEPT !.uart_rx = ch, !.uart_rx_ready = TRUE,
                      !.uart_rx_overflow = @ \/ io.uart_rx_ready]
  /\ UNCHANGED <<pc, registers, c, halted, intis, mem, budget>>

\* run: its loop ends at once when there is nothing to spend.
Run(max_cycles) ==
  /\ HostHolds
  /\ budget' = max_cycles
  /\ UNCHANGED <<pc, registers, c, halted, intis, mem, io>>

\* Memory survives a reset; every setting of the devices is lost.
Reset ==
  /\ HostHolds
  /\ pc' = 0 /\ registers' = NewRegisters /\ c' = FALSE
  /\ halted' = FALSE /\ intis' = FALSE
  /\ io' = NewIo
  /\ UNCHANGED <<mem, budget>>

HardReset ==
  /\ HostHolds
  /\ pc' = 0 /\ registers' = NewRegisters /\ c' = FALSE
  /\ halted' = FALSE /\ intis' = FALSE
  /\ io' = NewIo
  /\ mem' = <<>>
  /\ UNCHANGED budget

Host ==
  \/ \E start \in Word, data \in Seq(Byte) : LoadProgram(start, data)
  \/ \E v \in Byte : SetBusyCycles(v) \/ SetSwitches(v) \/ SendRx(v)
  \/ \E entry \in Word : SetPc(entry)
  \/ NeverReady
  \/ \E n \in Nat : Run(n)
  \/ Reset \/ HardReset

Next == Step \/ Host

Spec == Init /\ [][Next]_vars
=============================================================================
