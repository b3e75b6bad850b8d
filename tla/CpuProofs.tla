------------------------------- MODULE CpuProofs -------------------------------
(***************************************************************************)
(* What holds of the processor whatever the decode table, the program and  *)
(* the host: the types of its state are an invariant of Cpu (CpuOK), and   *)
(* what each instruction and the stack do, as facts the proofs about       *)
(* programs cite.                                                          *)
(***************************************************************************)
EXTENDS Cpu, SequenceTheorems, TLAPS

\* IoState has its fields.
Fields == DOMAIN NewIo

\* The operations on words that the provers have no arithmetic for.
WordsClosed ==
  /\ \A x, y \in Word : BitAnd(x, y) \in Word /\ BitOr(x, y) \in Word /\ BitXor(x, y) \in Word
  /\ \A x \in Word, s \in 0 .. 31 :
       /\ ShiftLeft(x, s) \in Word /\ ShiftRight(x, s) \in Word
       /\ Mask(ShiftRight(Signed24(x), s)) \in Word

DevicesOK(d) ==
  /\ DOMAIN d = Fields
  /\ {d.leds, d.switches, d.int_enable, d.uart_tx, d.uart_rx,
      d.uart_tx_busy_cycles, d.uart_tx_countdown} \subseteq Byte

CpuOK ==
  /\ pc \in Word /\ registers \in [0 .. 7 -> Word]
  /\ c \in BOOLEAN /\ halted \in BOOLEAN /\ intis \in BOOLEAN
  /\ \A a \in DOMAIN mem : IsRam(a) /\ mem[a] \in Byte
  /\ DevicesOK(io)
  /\ budget \in Nat

\* The fields by name.
LEMMA FieldsNamed ==
  /\ {"leds", "switches", "int_enable", "uart_tx", "uart_tx_busy", "uart_tx_countdown",
      "uart_tx_busy_cycles", "uart_never_ready", "uart_tx_dropped", "uart_rx",
      "uart_rx_ready", "uart_rx_overflow", "uart_output"} = Fields
BY DEF Fields, NewIo

-----------------------------------------------------------------------------
(* Words.                                                                  *)

\* A word is a number below 2^24.
LEMMA WordIs == \A x : x \in Word <=> x \in Int /\ 0 <= x /\ x < 16777216
<1>1. WORD_MAX \in Int /\ \A x \in Int : x <= WORD_MAX <=> x < 16777216
  BY SMT DEF WORD_MAX
<1> QED BY <1>1, SMT DEF Word

\* Masking makes a word of any number.
LEMMA MaskType == ASSUME NEW v \in Int PROVE Mask(v) \in Word
BY WordIs, SMT DEF Mask

\* Three bytes make a word.
LEMMA WordOfType ==
  ASSUME NEW x \in Byte, NEW y \in Byte, NEW z \in Byte
  PROVE  WordOf(x, y, z) \in Word
BY WordIs, SMT DEF WordOf, Byte

\* A byte extends to a word.
LEMMA SignExtendType == ASSUME NEW b \in Byte PROVE SignExtend8(b) \in Word
BY WordIs, SMT DEF SignExtend8, Byte

\* The bytes of a word, as they are stored.
LEMMA BytesType ==
  ASSUME NEW v \in Word
  PROVE  /\ DOMAIN BytesOf(v) = {1, 2, 3} /\ \A i \in {1, 2, 3} : BytesOf(v)[i] \in Byte
         /\ DOMAIN <<v % 256>> = {1} /\ <<v % 256>>[1] \in Byte
<1>1. v % 256 \in Byte /\ (v \div 256) % 256 \in Byte /\ v \div 65536 \in Byte
  BY WordIs, SMT DEF Byte
<1> QED BY <1>1 DEF BytesOf

-----------------------------------------------------------------------------
(* Memory and the devices.                                                 *)

\* Every address reads as a byte, memory or device.
LEMMA ReadType ==
  ASSUME CpuOK, NEW a \in Int
  PROVE  ReadByte(a) \in Byte
<1>1. /\ {io.leds, io.switches, io.int_enable, io.uart_rx} \subseteq Byte
      /\ \A x \in DOMAIN mem : mem[x] \in Byte
  BY DEF CpuOK, DevicesOK
<1>2. Status(io) \in Byte /\ 0 \in Byte
  BY SMT DEF Status, Byte
<1>3. ReadIo(Mask(a)) \in Byte
  BY <1>1, <1>2 DEF ReadIo
<1> QED BY <1>1, <1>2, <1>3 DEF ReadByte

\* The countdown stays a byte: it stops at zero.
LEMMA TickType ==
  ASSUME NEW d, DevicesOK(d)
  PROVE  DevicesOK(Tick(d))
<1>1. CASE d.uart_never_ready \/ d.uart_tx_countdown = 0
  BY <1>1 DEF Tick
<1>2. CASE ~ (d.uart_never_ready \/ d.uart_tx_countdown = 0)
  <2>1. d.uart_tx_countdown - 1 \in Byte
    BY <1>2, SMT DEF DevicesOK, Byte
  <2>2. PICK e : e = Tick(d)
    OBVIOUS
  <2>3. /\ DOMAIN e = Fields /\ e.uart_tx_countdown = d.uart_tx_countdown - 1
        /\ e.leds = d.leds /\ e.switches = d.switches /\ e.int_enable = d.int_enable
        /\ e.uart_tx = d.uart_tx /\ e.uart_rx = d.uart_rx
        /\ e.uart_tx_busy_cycles = d.uart_tx_busy_cycles
    BY <1>2, <2>2, FieldsNamed DEF Tick, DevicesOK
  <2> QED BY <2>1, <2>2, <2>3 DEF DevicesOK
<1> QED BY <1>1, <1>2

\* A byte written to any device register leaves bytes in all.
LEMMA WriteType ==
  ASSUME NEW d, DevicesOK(d), NEW a, NEW v \in Byte
  PROVE  DevicesOK(WriteIo(d, a, v))
<1>1. CASE d.uart_tx_busy
  <2>1. DevicesOK([d EXCEPT !.uart_tx_dropped = @ + 1])
    BY FieldsNamed DEF DevicesOK
  <2> QED BY <1>1, <2>1, FieldsNamed DEF WriteIo, Transmit, DevicesOK
<1>2. CASE ~ d.uart_tx_busy
  <2>1. DevicesOK(Transmit(d, v))
    <3>1. PICK e : e = Transmit(d, v)
      OBVIOUS
    <3>2. /\ DOMAIN e = Fields /\ e.uart_tx = v
          /\ e.uart_tx_countdown \in {d.uart_tx_busy_cycles, d.uart_tx_countdown}
          /\ e.leds = d.leds /\ e.switches = d.switches /\ e.int_enable = d.int_enable
          /\ e.uart_rx = d.uart_rx /\ e.uart_tx_busy_cycles = d.uart_tx_busy_cycles
      BY <1>2, <3>1, FieldsNamed DEF Transmit, DevicesOK
    <3> QED BY <3>1, <3>2 DEF DevicesOK
  <2> QED BY <2>1, FieldsNamed DEF WriteIo, DevicesOK
<1> QED BY <1>1, <1>2

\* So does a store of up to three.
LEMMA IoAfterType ==
  ASSUME DevicesOK(io), NEW a, NEW bs, \A i \in DOMAIN bs : bs[i] \in Byte
  PROVE  DevicesOK(IoAfter(a, bs))
<1> DEFINE Put(d, i) == IF i \in DOMAIN bs /\ IsIo(Mask(a + i - 1))
                        THEN WriteIo(d, Mask(a + i - 1), bs[i]) ELSE d
<1>1. ASSUME NEW d, DevicesOK(d), NEW i PROVE DevicesOK(Put(d, i))
  <2>1. CASE i \in DOMAIN bs /\ IsIo(Mask(a + i - 1))
    BY <1>1, <2>1, WriteType
  <2>2. CASE ~ (i \in DOMAIN bs /\ IsIo(Mask(a + i - 1)))
    BY <1>1, <2>2
  <2> QED BY <2>1, <2>2
<1> HIDE DEF Put
<1>2. PICK d1 : d1 = Put(io, 1)
  OBVIOUS
<1>3. PICK d2 : d2 = Put(d1, 2)
  OBVIOUS
<1>4. DevicesOK(d1)
  BY <1>1, <1>2
<1>5. DevicesOK(d2)
  BY <1>1, <1>3, <1>4
<1>6. IoAfter(a, bs) = Put(d2, 3)
  BY <1>2, <1>3 DEF IoAfter, Put
<1> QED BY <1>1, <1>5, <1>6

\* A store writes bytes, and to cells of memory only.
LEMMA MemAfterType ==
  ASSUME CpuOK, NEW a \in Word, NEW bs, DOMAIN bs \subseteq {1, 2, 3},
         \A i \in DOMAIN bs : bs[i] \in Byte
  PROVE  LET new == MemAfter(a, bs)
         IN  \A x \in DOMAIN new : IsRam(x) /\ new[x] \in Byte
<1>1. \A x \in DOMAIN mem : IsRam(x) /\ mem[x] \in Byte
  BY DEF CpuOK
<1>2. ASSUME NEW i \in DOMAIN bs
      PROVE  Mask(Mask(a + i - 1) - a) + 1 = i
  BY <1>2, WordIs, SMT DEF Mask
<1> DEFINE written == {x \in {Mask(a + i - 1) : i \in DOMAIN bs} : IsRam(x)}
<1>3. \A x \in written : IsRam(x) /\ bs[Mask(x - a) + 1] \in Byte
  BY <1>2
<1>4. MemAfter(a, bs) = [x \in DOMAIN mem \cup written |->
                           IF x \in written THEN bs[Mask(x - a) + 1] ELSE mem[x]]
  BY DEF MemAfter
<1> HIDE DEF written
<1> QED BY <1>1, <1>3, <1>4

-----------------------------------------------------------------------------
(* Fetch and decode.                                                       *)

\* What is fetched at pc, and the registers.
LEMMA FetchType ==
  ASSUME CpuOK
  PROVE  /\ Fetched \in Byte /\ imm8 \in Byte /\ imm24 \in Word /\ SignExtend8(imm8) \in Word
         /\ \A r \in 0 .. 7 : registers[r] \in Word /\ registers[r] \in Int
<1>1. pc \in Int
  BY WordIs, SMT DEF CpuOK
<1>2. /\ pc + 1 \in Int /\ pc + 2 \in Int /\ pc + 3 \in Int
  BY <1>1
<1>3. /\ ReadByte(pc) \in Byte /\ ReadByte(pc + 1) \in Byte
      /\ ReadByte(pc + 2) \in Byte /\ ReadByte(pc + 3) \in Byte
  BY <1>1, <1>2, ReadType
<1>4. \A r \in 0 .. 7 : registers[r] \in Word
  BY DEF CpuOK
<1>5. \A w \in Word : w \in Int
  BY WordIs, SMT
<1> QED BY <1>3, <1>4, <1>5, WordOfType, SignExtendType DEF Fetched, imm8, imm24

\* What an instruction that decodes refers to, and that it does not write z.
LEMMA DecodeType ==
  ASSUME CpuOK, Executing
  PROVE  /\ ra \in 0 .. 7 /\ rb \in 0 .. 7 /\ A \in Word /\ B \in Word
         /\ next_pc \in Word /\ Target \in Word /\ Effective \in Word
<1>1. Decoded \in 0 .. 2047
  <2>1. Fetched \in Byte /\ Decoded # Undecodable
    BY FetchType DEF Executing
  <2>2. Decoded \in Nat /\ Decoded < 2048
    BY <2>1, DecodeAssumption DEF Decoded
  <2> QED BY <2>2, SMT
<1>2. ra \in 0 .. 7 /\ rb \in 0 .. 7
  BY <1>1 DEF ra, rb
<1>3. A \in Word /\ B \in Word /\ B \in Int
  BY <1>2, FetchType DEF A, B
<1>4. SizeOf[op] \in Int
  <2>1. 1 + Decoded \div 64 \in 1 .. 32
    BY <1>1
  <2>2. op \in {Opcodes[i] : i \in 1 .. 32}
    BY <2>1 DEF op
  <2>3. SizeOf[op] \in {1, 2, 4}
    BY <2>2, DecodeAssumption
  <2> QED BY <2>3
<1>5. next_pc \in Word /\ next_pc \in Int
  <2>1. pc + SizeOf[op] \in Int
    BY <1>4, WordIs, SMT DEF CpuOK
  <2>2. next_pc \in Word
    BY <2>1, MaskType DEF next_pc
  <2> QED BY <2>2, WordIs, SMT
<1>6. SignExtend8(imm8) \in Int
  BY FetchType, WordIs, SMT
<1>7. Target \in Word
  <2>1. next_pc + 2 + SignExtend8(imm8) \in Int
    BY <1>5, <1>6
  <2> QED BY <2>1, MaskType DEF Target
<1>8. Effective \in Word
  <2>1. B + SignExtend8(imm8) \in Int
    BY <1>3, <1>6
  <2> QED BY <2>1, MaskType DEF Effective
<1> QED BY <1>2, <1>3, <1>5, <1>7, <1>8

\* Every result is a word.
LEMMA ResultType ==
  ASSUME WordsClosed, CpuOK, Executing, op \in Computing
  PROVE  Result \in Word
<1>1. /\ A \in Word /\ B \in Word /\ imm8 \in Byte /\ imm24 \in Word
      /\ registers[4] \in Word /\ SignExtend8(imm8) \in Word
  BY FetchType, DecodeType
<1>2. /\ A \in Int /\ B \in Int /\ imm24 \in Int /\ registers[4] \in Int
      /\ SignExtend8(imm8) \in Int
  BY <1>1, SMT DEF Word
<1>3. /\ Mask(A + B) \in Word /\ Mask(A * B) \in Word /\ Mask(A - B) \in Word
      /\ Mask(A + SignExtend8(imm8)) \in Word /\ Mask(registers[4] - imm24) \in Word
  <2>1. A + B \in Int /\ A - B \in Int /\ A + SignExtend8(imm8) \in Int
    BY <1>2
  <2>2. A * B \in Int
    BY <1>2
  <2>3. registers[4] - imm24 \in Int
    BY <1>2
  <2> QED BY <2>1, <2>2, <2>3, MaskType
<1>4. B % 256 \in Byte /\ B % 32 \in 0 .. 31
  BY <1>2, SMT DEF Byte
<1>5. /\ BitAnd(A, B) \in Word /\ BitOr(A, B) \in Word /\ BitXor(A, B) \in Word
      /\ ShiftLeft(A, B % 32) \in Word /\ ShiftRight(A, B % 32) \in Word
      /\ Mask(ShiftRight(Signed24(A), B % 32)) \in Word
  BY <1>1, <1>4 DEF WordsClosed
<1>6. SignExtend8(B % 256) \in Word
  BY <1>4, SignExtendType
<1>7. Byte \subseteq Word /\ 0 \in Word /\ 1 \in Word
  BY WordIs, SMT DEF Byte
<1> QED BY <1>1, <1>3, <1>4, <1>5, <1>6, <1>7 DEF Result, Computing

-----------------------------------------------------------------------------
(* The steps.                                                              *)

\* One register more.
LEMMA RegisterType ==
  ASSUME CpuOK, NEW r \in 0 .. 7, NEW v \in Word
  PROVE  [registers EXCEPT ![r] = v] \in [0 .. 7 -> Word]
BY DEF CpuOK

\* A step spends no more cycles than are left.
LEMMA BudgetType ==
  ASSUME CpuOK, \/ ReturnFromRun
                \/ \E n \in {0, 1} : Spend(n)
  PROVE  budget' \in Nat
<1>1. budget \in Nat
  BY DEF CpuOK
<1> QED BY <1>1 DEF ReturnFromRun, Spend

\* What is left to show of a step.
LEMMA StepTypes ==
  ASSUME CpuOK, pc' \in Word,
         registers' \in [0 .. 7 -> Word],
         c' \in BOOLEAN, halted' \in BOOLEAN, intis' \in BOOLEAN,
         \A a \in DOMAIN mem' : IsRam(a) /\ mem'[a] \in Byte,
         DevicesOK(io'), budget' \in Nat
  PROVE  CpuOK'
<1>1. DevicesOK(io)'
  BY DEF DevicesOK
<1> QED BY <1>1 DEF CpuOK

\* The steps that execute no instruction of the table.
LEMMA ControlType ==
  ASSUME CpuOK, StepHalted \/ Interrupt \/ HaltAtZero \/ Nop \/ InvalidInstruction
  PROVE  CpuOK'
<1>1. registers[6] \in Word /\ Mask(pc + 1) \in Word
  <2>1. pc + 1 \in Int
    BY WordIs, SMT DEF CpuOK
  <2> QED BY <2>1, MaskType, FetchType
<1>2. [registers EXCEPT ![7] = pc] \in [0 .. 7 -> Word]
  BY RegisterType DEF CpuOK
<1>3. budget' \in Nat
  BY BudgetType DEF StepHalted, Interrupt, HaltAtZero, Nop, InvalidInstruction
<1>4. /\ pc' \in {pc, registers[6], Mask(pc + 1)}
      /\ registers' \in {registers, [registers EXCEPT ![7] = pc]}
      /\ c' = c /\ halted' \in {halted, TRUE} /\ intis' \in {intis, TRUE}
      /\ mem' = mem /\ io' = io
  BY DEF StepHalted, Interrupt, HaltAtZero, Nop, InvalidInstruction
<1>5. /\ pc \in Word /\ registers \in [0 .. 7 -> Word]
      /\ c \in BOOLEAN /\ halted \in BOOLEAN /\ intis \in BOOLEAN
      /\ \A a \in DOMAIN mem : IsRam(a) /\ mem[a] \in Byte
      /\ DevicesOK(io)
  BY DEF CpuOK
<1> QED BY <1>1, <1>2, <1>3, <1>4, <1>5, StepTypes

\* The instructions.
LEMMA ExecuteType ==
  ASSUME WordsClosed, CpuOK, Execute
  PROVE  CpuOK'
<1>1. /\ pc \in Word /\ registers \in [0 .. 7 -> Word]
      /\ c \in BOOLEAN /\ halted \in BOOLEAN /\ intis \in BOOLEAN
      /\ \A a \in DOMAIN mem : IsRam(a) /\ mem[a] \in Byte
      /\ DevicesOK(io)
  BY DEF CpuOK
<1>2. Executing
  BY DEF Execute, Compute, JumpAbsolute, Compare, Bra, BranchIf, Jal, Jmp, LoadByte, LoadWord,
         Store, Pop, Push
<1>3. /\ ra \in 0 .. 7 /\ rb \in 0 .. 7 /\ A \in Word /\ B \in Word
      /\ next_pc \in Word /\ Target \in Word /\ Effective \in Word
      /\ imm24 \in Word /\ registers[4] \in Word
  BY <1>2, DecodeType, FetchType
<1>4. budget' \in Nat
  <2>1. ReturnFromRun \/ \E n \in {0, 1} : Spend(n)
    BY DEF Execute, Compute, JumpAbsolute, Compare, Bra, BranchIf, Jal, Jmp, LoadByte,
           LoadWord, Store, Pop, Push, RetireWriting, Retire
  <2> QED BY <2>1, BudgetType
<1>5. DevicesOK(Tick(io))
  BY <1>1, TickType
<1>6. ASSUME NEW a \in Int PROVE ReadByte(a) \in Byte /\ ReadWord(a) \in Word
  <2>1. a + 1 \in Int /\ a + 2 \in Int
    OBVIOUS
  <2>2. ReadByte(a) \in Byte /\ ReadByte(a + 1) \in Byte /\ ReadByte(a + 2) \in Byte
    BY <2>1, ReadType
  <2> QED BY <2>2, WordOfType DEF ReadWord
<1>7. Effective \in Int /\ registers[4] \in Int /\ Byte \subseteq Word
  BY <1>3, WordIs, SMT DEF Byte
<1>8. CASE Compute
  <2>1. PICK r \in 0 .. 7 : registers' = [registers EXCEPT ![r] = Result]
    <3>1. CASE op = "SubSp"
      BY <1>8, <3>1 DEF Compute
    <3>2. CASE op # "SubSp"
      BY <1>3, <1>8, <3>2 DEF Compute
    <3> QED BY <3>1, <3>2
  <2>2. Result \in Word
    BY <1>2, <1>8, ResultType DEF Compute
  <2>3. registers' \in [0 .. 7 -> Word]
    BY <2>1, <2>2, RegisterType
  <2>4. /\ pc' = next_pc /\ io' = Tick(io) /\ UNCHANGED <<c, halted, intis, mem>>
    BY <1>8 DEF Compute, Retire
  <2> QED BY <1>1, <1>3, <1>4, <1>5, <2>3, <2>4, StepTypes
<1>9. CASE JumpAbsolute \/ Compare \/ Bra \/ BranchIf \/ Jmp
  <2>1. /\ pc' \in {imm24, next_pc, Target, A} /\ io' = Tick(io)
        /\ registers' = registers /\ mem' = mem
    BY <1>9 DEF JumpAbsolute, Compare, Bra, BranchIf, Jmp, Retire
  <2>2. c' \in BOOLEAN
    <3>1. CASE Compare
      <4>1. /\ (A = B) \in BOOLEAN /\ (A < B) \in BOOLEAN
            /\ (Signed24(A) < Signed24(B)) \in BOOLEAN
        OBVIOUS
      <4>2. c' \in {(A = B), (Signed24(A) < Signed24(B)), (A < B)}
        BY <3>1 DEF Compare
      <4> QED BY <4>1, <4>2, Zenon
    <3>2. CASE ~ Compare
      BY <1>1, <1>9, <3>2 DEF JumpAbsolute, Bra, BranchIf, Jmp
    <3> QED BY <3>1, <3>2
  <2>3. halted' \in BOOLEAN /\ intis' \in BOOLEAN
    BY <1>1, <1>9 DEF JumpAbsolute, Compare, Bra, BranchIf, Jmp
  <2> QED BY <1>1, <1>3, <1>4, <1>5, <2>1, <2>2, <2>3, StepTypes
<1>10. CASE Jal
  <2>1. /\ registers' = [registers EXCEPT ![ra] = next_pc] /\ pc' = B /\ io' = Tick(io)
        /\ UNCHANGED <<c, halted, intis, mem>>
    BY <1>10 DEF Jal, Retire
  <2>2. registers' \in [0 .. 7 -> Word]
    BY <1>3, <2>1, RegisterType
  <2> QED BY <1>1, <1>3, <1>4, <1>5, <2>1, <2>2, StepTypes
<1>11. CASE LoadByte
  <2>1. PICK v : /\ v \in {SignExtend8(ReadByte(Effective)), ReadByte(Effective)}
                 /\ registers' = [registers EXCEPT ![ra] = v]
    BY <1>11 DEF LoadByte
  <2>2. v \in Word
    BY <1>6, <1>7, <2>1, SignExtendType
  <2>3. registers' \in [0 .. 7 -> Word]
    BY <1>3, <2>1, <2>2, RegisterType
  <2>4. PICK d : d = [io EXCEPT !.uart_rx_ready = @ /\ Effective # IO_UARTDATA]
    OBVIOUS
  <2>5. DevicesOK(d)
    BY <1>1, <2>4, FieldsNamed DEF DevicesOK
  <2>6. pc' = next_pc /\ io' = Tick(d) /\ UNCHANGED <<c, halted, intis, mem>>
    BY <1>11, <2>4 DEF LoadByte, Retire
  <2>7. DevicesOK(io')
    BY <2>5, <2>6, TickType
  <2> QED BY <1>1, <1>3, <1>4, <2>3, <2>6, <2>7, StepTypes
<1>12. CASE LoadWord
  <2>1. /\ registers' = [registers EXCEPT ![ra] = ReadWord(Effective)]
        /\ pc' = next_pc /\ io' = Tick(io) /\ UNCHANGED <<c, halted, intis, mem>>
    BY <1>12 DEF LoadWord, Retire
  <2>2. registers' \in [0 .. 7 -> Word]
    BY <1>3, <1>6, <1>7, <2>1, RegisterType
  <2> QED BY <1>1, <1>3, <1>4, <1>5, <2>1, <2>2, StepTypes
<1>13. CASE Pop
  <2>1. /\ registers' = [registers EXCEPT ![ra] = ReadWord(registers[4]),
                                          ![4] = Mask(registers[4] + 3)]
        /\ pc' = next_pc /\ io' = Tick(io) /\ UNCHANGED <<c, halted, intis, mem>>
    BY <1>13 DEF Pop, Retire
  <2>2. ReadWord(registers[4]) \in Word /\ Mask(registers[4] + 3) \in Word
    <3>1. registers[4] + 3 \in Int
      BY <1>7
    <3> QED BY <1>6, <1>7, <3>1, MaskType
  <2>3. registers' \in [0 .. 7 -> Word]
    BY <1>1, <1>3, <2>1, <2>2
  <2> QED BY <1>1, <1>3, <1>4, <1>5, <2>1, <2>3, StepTypes
<1>14. ASSUME NEW a \in Word, NEW v \in Word, NEW bs \in {<<v % 256>>, BytesOf(v)},
              RetireWriting(a, bs)
       PROVE  /\ pc' \in Word /\ DevicesOK(io')
              /\ \A x \in DOMAIN mem' : IsRam(x) /\ mem'[x] \in Byte
  <2>1. DOMAIN bs \subseteq {1, 2, 3} /\ \A i \in DOMAIN bs : bs[i] \in Byte
    BY BytesType
  <2>2. DevicesOK(Tick(IoAfter(a, bs)))
    BY <1>1, <2>1, IoAfterType, TickType
  <2>3. pc' = next_pc /\ io' = Tick(IoAfter(a, bs)) /\ mem' = MemAfter(a, bs)
    BY <1>14 DEF RetireWriting, Retire
  <2> QED BY <1>3, <2>1, <2>2, <2>3, MemAfterType
<1>15. CASE Store
  <2>1. /\ \E bs \in {<<A % 256>>, BytesOf(A)} : RetireWriting(Effective, bs)
        /\ UNCHANGED <<registers, c, halted, intis>>
    BY <1>15 DEF Store
  <2>2. /\ pc' \in Word /\ DevicesOK(io')
        /\ \A x \in DOMAIN mem' : IsRam(x) /\ mem'[x] \in Byte
    <3>1. PICK v : v = A
      OBVIOUS
    <3>2. PICK a : a = Effective
      OBVIOUS
    <3>3. PICK bs \in {<<v % 256>>, BytesOf(v)} : RetireWriting(a, bs)
      BY <2>1, <3>1, <3>2
    <3>4. a \in Word /\ v \in Word
      BY <1>3, <3>1, <3>2
    <3> QED BY <1>14, <3>3, <3>4, ZenonT(60)
  <2> QED BY <1>1, <1>4, <2>1, <2>2, StepTypes
<1>16. CASE Push
  <2>1. /\ registers' = [registers EXCEPT ![4] = Mask(registers[4] - 3)]
        /\ RetireWriting(registers'[4], BytesOf(registers'[ra]))
        /\ UNCHANGED <<c, halted, intis>>
    BY <1>16 DEF Push
  <2>2. registers' \in [0 .. 7 -> Word]
    <3>1. registers[4] - 3 \in Int
      BY <1>7
    <3>2. Mask(registers[4] - 3) \in Word
      BY <3>1, MaskType
    <3> QED BY <2>1, <3>2, RegisterType
  <2>3. registers'[4] \in Word /\ registers'[ra] \in Word
    BY <1>3, <2>2
  <2>4. /\ pc' \in Word /\ DevicesOK(io')
        /\ \A x \in DOMAIN mem' : IsRam(x) /\ mem'[x] \in Byte
    BY <1>14, <2>1, <2>3
  <2> QED BY <1>1, <1>4, <2>1, <2>2, <2>4, StepTypes
<1> QED BY <1>8, <1>9, <1>10, <1>11, <1>12, <1>13, <1>15, <1>16 DEF Execute

\* The state after a reset.
LEMMA FreshType ==
  /\ NewRegisters \in [0 .. 7 -> Word]
  /\ DevicesOK(NewIo)
<1>1. INITIAL_SP \in Word /\ 0 \in Word
  BY WordIs, SMT DEF INITIAL_SP
<1>2. DevicesOK(NewIo)
  BY SMT DEF DevicesOK, Fields, NewIo, Byte
<1> QED BY <1>1, <1>2 DEF NewRegisters

\* Loading bytes.
LEMMA LoadType ==
  ASSUME CpuOK, NEW start \in Int, NEW data, \A i \in DOMAIN data : i \in Int /\ data[i] \in Byte,
         LoadProgram(start, data)
  PROVE  CpuOK'
<1>1. PICK at : at = {start + i - 1 : i \in DOMAIN data}
  OBVIOUS
<1>2. /\ \A a \in at : IsRam(a)
      /\ mem' = [a \in DOMAIN mem \cup at |->
                   IF a \in at THEN data[a - start + 1] ELSE mem[a]]
      /\ UNCHANGED <<pc, registers, c, halted, intis, io, budget>>
  BY <1>1 DEF LoadProgram
<1>3. \A a \in at : data[a - start + 1] \in Byte
  <2>1. \A i \in DOMAIN data : (start + i - 1) - start + 1 = i
    OBVIOUS
  <2> QED BY <1>1, <2>1
<1>4. \A a \in DOMAIN mem' : IsRam(a) /\ mem'[a] \in Byte
  BY <1>2, <1>3 DEF CpuOK
<1> QED BY <1>2, <1>4, StepTypes DEF CpuOK

\* What a host does.
LEMMA HostTypes ==
  ASSUME CpuOK, Host
  PROVE  CpuOK'
<1>1. /\ pc \in Word /\ registers \in [0 .. 7 -> Word]
      /\ c \in BOOLEAN /\ halted \in BOOLEAN /\ intis \in BOOLEAN
      /\ \A a \in DOMAIN mem : IsRam(a) /\ mem[a] \in Byte
      /\ DevicesOK(io) /\ budget \in Nat
  BY DEF CpuOK
<1>2. ASSUME NEW start \in Word, NEW data \in Seq(Byte), LoadProgram(start, data) PROVE CpuOK'
  <2>1. start \in Int /\ \A i \in DOMAIN data : data[i] \in Byte /\ i \in Int
    BY WordIs, ElementOfSeq, LenProperties, SMT
  <2> QED BY <1>2, <2>1, LoadType
<1>3. ASSUME \/ \E v \in Byte : SetBusyCycles(v) \/ SetSwitches(v) \/ SendRx(v)
             \/ NeverReady
      PROVE  CpuOK'
  <2>1. UNCHANGED <<pc, registers, c, halted, intis, mem, budget>>
    BY <1>3 DEF SetBusyCycles, SetSwitches, SendRx, NeverReady
  <2>2. \/ \E n \in Byte : io' = [io EXCEPT !.uart_tx_busy_cycles = n]
        \/ io' = [io EXCEPT !.uart_never_ready = TRUE, !.uart_tx_busy = TRUE]
        \/ \E v \in Byte : io' = [io EXCEPT !.switches = v]
        \/ \E ch \in Byte : io' = [io EXCEPT !.uart_rx = ch, !.uart_rx_ready = TRUE,
                                             !.uart_rx_overflow = @ \/ io.uart_rx_ready]
    BY <1>3 DEF SetBusyCycles, SetSwitches, SendRx, NeverReady
  <2>3. DevicesOK(io')
    <3>1. \A n \in Byte : DevicesOK([io EXCEPT !.uart_tx_busy_cycles = n])
      BY <1>1, FieldsNamed DEF DevicesOK
    <3>2. DevicesOK([io EXCEPT !.uart_never_ready = TRUE, !.uart_tx_busy = TRUE])
      BY <1>1, FieldsNamed DEF DevicesOK
    <3>3. \A v \in Byte : DevicesOK([io EXCEPT !.switches = v])
      BY <1>1, FieldsNamed DEF DevicesOK
    <3>4. \A ch \in Byte : DevicesOK([io EXCEPT !.uart_rx = ch, !.uart_rx_ready = TRUE,
                                      !.uart_rx_overflow = @ \/ io.uart_rx_ready])
      BY <1>1, FieldsNamed DEF DevicesOK
    <3> QED BY <2>2, <3>1, <3>2, <3>3, <3>4
  <2> QED BY <1>1, <2>1, <2>3, StepTypes
<1>4. CASE (\E entry \in Word : SetPc(entry)) \/ (\E n \in Nat : Run(n))
  <2>1. /\ pc' \in Word /\ budget' \in Nat
        /\ UNCHANGED <<registers, c, halted, intis, mem, io>>
    BY <1>1, <1>4 DEF SetPc, Run
  <2> QED BY <1>1, <2>1, StepTypes
<1>5. CASE Reset \/ HardReset
  <2>1. /\ pc' = 0 /\ registers' = NewRegisters /\ c' = FALSE
        /\ halted' = FALSE /\ intis' = FALSE /\ io' = NewIo /\ mem' \in {mem, <<>>}
        /\ budget' = budget
    BY <1>5 DEF Reset, HardReset
  <2>2. \A a \in DOMAIN mem' : IsRam(a) /\ mem'[a] \in Byte
    <3>1. DOMAIN <<>> = {}
      OBVIOUS
    <3> QED BY <1>1, <2>1, <3>1
  <2>3. 0 \in Word
    BY WordIs, SMT
  <2> QED BY <1>1, <2>1, <2>2, <2>3, FreshType, StepTypes
<1> QED BY <1>2, <1>3, <1>4, <1>5 DEF Host

\* The machine after power up.
LEMMA InitTypes == Init => CpuOK
<1> SUFFICES ASSUME Init PROVE CpuOK
  OBVIOUS
<1>1. 0 \in Word /\ 0 \in Nat /\ DOMAIN <<>> = {}
  BY WordIs, SMT
<1> QED BY <1>1, FreshType DEF Init, CpuOK

\* A step of the machine or its host.
LEMMA NextTypes == ASSUME WordsClosed, CpuOK, [Next]_vars PROVE CpuOK'
<1>1. CASE Step
  BY <1>1, ControlType, ExecuteType DEF Step
<1>2. CASE UNCHANGED vars
  BY <1>2, StepTypes DEF CpuOK, vars
<1> QED BY <1>1, <1>2, HostTypes DEF Next

\* Whatever the table, the program and the host, registers and addresses are
\* words, every cell written is a byte of memory, and the devices hold bytes.
THEOREM CpuTypes == ASSUME WordsClosed PROVE Spec => []CpuOK
BY InitTypes, NextTypes, PTL DEF Spec

-----------------------------------------------------------------------------
(* Where things are.                                                       *)

\* A word is its own mask.
LEMMA MaskWord == ASSUME NEW v \in Word PROVE Mask(v) = v
BY WordIs, SMT DEF Mask

\* Memory lies below the devices.
LEMMA RamIs ==
  ASSUME NEW a \in Nat, IsRam(a)
  PROVE  a \in Word /\ a + 1 \in Word /\ ~ IsIo(a)
BY WordIs, SMT DEF IsRam, IsIo, SRAM_SIZE, EBR_BASE, EBR_SIZE, IO_BASE

\* The first addresses are memory.
LEMMA LowRam == \A a \in 0 .. 1000 : IsRam(a)
BY SMT DEF IsRam, SRAM_SIZE

\* The registers of the UART and of the interrupts, and no two are the same.
LEMMA DevicesAt ==
  /\ IO_UARTDATA \in Word /\ IO_UARTDATA + 1 \in Word /\ IO_INTENABLE \in Word
  /\ IO_UARTSTAT = IO_UARTDATA + 1
  /\ IsIo(IO_UARTDATA) /\ IsIo(IO_UARTSTAT) /\ IsIo(IO_INTENABLE)
  /\ IO_UARTDATA \notin {IO_LEDSWDAT, IO_INTENABLE, IO_UARTSTAT}
  /\ IO_INTENABLE # IO_LEDSWDAT /\ IO_UARTSTAT \notin {IO_LEDSWDAT, IO_INTENABLE}
  /\ ~ IsRam(IO_UARTDATA) /\ ~ IsRam(IO_INTENABLE)
BY WordIs, SMT DEF IO_UARTDATA, IO_UARTSTAT, IO_INTENABLE, IO_LEDSWDAT, IO_BASE, IsIo, IsRam,
                   SRAM_SIZE, EBR_BASE, EBR_SIZE

\* The stack is memory, far from the programs.
LEMMA StackAt ==
  /\ INITIAL_SP \in Word
  /\ \A n \in 1 .. 1000 : /\ INITIAL_SP - n \in Word /\ IsRam(INITIAL_SP - n)
                         /\ INITIAL_SP - n > 1000
<1>1. INITIAL_SP \in Word
  BY WordIs, SMT DEF INITIAL_SP
<1>2. ASSUME NEW n \in 1 .. 1000
      PROVE  INITIAL_SP - n \in Word /\ INITIAL_SP - n > 1000
  BY WordIs, SMT DEF INITIAL_SP
<1>3. ASSUME NEW n \in 1 .. 1000
      PROVE  EBR_BASE <= INITIAL_SP - n /\ INITIAL_SP - n < EBR_BASE + EBR_SIZE
  BY SMT DEF INITIAL_SP, EBR_BASE, EBR_SIZE
<1> QED BY <1>1, <1>2, <1>3 DEF IsRam

\* The stack pointer starts at an address.
LEMMA StackTop == INITIAL_SP \in Int
BY SMT DEF INITIAL_SP

\* How far below the top of the stack the programs push.
Depths == 3 .. 1000

\* The depths the polling programs push at are among them.
LEMMA SomeDepths == 3 \in Depths /\ 6 \in Depths
BY DEF Depths

\* A word on the stack, n below its top.
LEMMA StackCells ==
  ASSUME NEW n \in Depths
  PROVE  \E a \in Nat : /\ a = INITIAL_SP - n /\ a > 1000
                        /\ IsRam(a) /\ IsRam(a + 1) /\ IsRam(a + 2)
<1>1. PICK s \in Int : s = INITIAL_SP /\ EBR_BASE = s - 3072 /\ EBR_BASE + EBR_SIZE = s + 5120
                      /\ s > 5000
  BY SMT DEF INITIAL_SP, EBR_BASE, EBR_SIZE
<1>2. PICK a \in Nat : a = s - n /\ a > 1000
  <2>1. n \in 3 .. 1000
    BY DEF Depths
  <2> QED BY <1>1, <2>1
<1>3. \A x \in {a, a + 1, a + 2} : s - 3072 <= x /\ x < s + 5120
  <2>1. n \in 3 .. 1000
    BY DEF Depths
  <2> QED BY <1>1, <1>2, <2>1
<1>4. IsRam(a) /\ IsRam(a + 1) /\ IsRam(a + 2) /\ a > 1000
  BY <1>1, <1>2, <1>3 DEF IsRam
<1> QED BY <1>1, <1>2, <1>4

-----------------------------------------------------------------------------
(* Loads and stores.                                                       *)

\* A load from memory.
LEMMA ReadRam ==
  ASSUME NEW a \in Nat, IsRam(a)
  PROVE  ReadByte(a) = IF a \in DOMAIN mem THEN mem[a] ELSE 0
<1>1. Mask(a) = a /\ ~ IsIo(a)
  BY RamIs, MaskWord
<1> QED BY <1>1 DEF ReadByte

\* The status of the UART is negative exactly while the transmitter is busy.
LEMMA StatusSign ==
  ASSUME NEW d
  PROVE  LET v == SignExtend8(Status(d)) IN v \in Word /\ (Signed24(v) < 0 <=> d.uart_tx_busy)
<1>1. Status(d) \in 0 .. 255 /\ (Status(d) >= 128 <=> d.uart_tx_busy)
  BY SMT DEF Status
<1>2. PICK s : s = Status(d)
  OBVIOUS
<1>3. s \in Byte /\ (s >= 128 <=> d.uart_tx_busy)
  BY <1>1, <1>2 DEF Byte
<1>4. SignExtend8(s) \in Word /\ (Signed24(SignExtend8(s)) < 0 <=> s >= 128)
  BY <1>3, SignExtendType, SMT DEF SignExtend8, Signed24, Byte
<1> QED BY <1>2, <1>3, <1>4

\* A load from the UART.
LEMMA ReadUart ==
  /\ ReadByte(IO_UARTDATA) = io.uart_rx
  /\ ReadByte(IO_UARTDATA + 1) = Status(io)
<1>1. Mask(IO_UARTDATA) = IO_UARTDATA /\ Mask(IO_UARTDATA + 1) = IO_UARTSTAT
  BY DevicesAt, MaskWord
<1>2. ReadIo(IO_UARTDATA) = io.uart_rx /\ ReadIo(IO_UARTSTAT) = Status(io)
  BY DevicesAt DEF ReadIo
<1> QED BY <1>1, <1>2, DevicesAt DEF ReadByte

\* A byte written to a device register leaves memory alone.
LEMMA WriteDevice ==
  ASSUME NEW a \in Word, ~ IsRam(a), NEW v, NEW x
  PROVE  /\ x \in DOMAIN MemAfter(a, <<v>>) <=> x \in DOMAIN mem
         /\ x \in DOMAIN mem => MemAfter(a, <<v>>)[x] = mem[x]
<1>1. PICK bs : bs = <<v>>
  OBVIOUS
<1>2. DOMAIN bs = {1} /\ bs[1] = v
  BY <1>1
<1>3. Mask(a + 1 - 1) = a
  <2>1. a \in Int /\ Mask(a) = a
    BY MaskWord, WordIs, SMT
  <2>2. a + 1 - 1 = a
    BY <2>1
  <2> QED BY <2>1, <2>2
<1>4. {y \in {Mask(a + i - 1) : i \in DOMAIN bs} : IsRam(y)} = {}
  BY <1>2, <1>3
<1>5. MemAfter(a, bs) = [y \in DOMAIN mem |-> mem[y]]
  BY <1>4 DEF MemAfter
<1> QED BY <1>1, <1>5

\* One byte written: to a device register, or to a cell of memory.
LEMMA WriteOne ==
  ASSUME NEW a \in Word, NEW v
  PROVE  /\ IoAfter(a, <<v>>) = IF IsIo(a) THEN WriteIo(io, a, v) ELSE io
         /\ ~ IsRam(a) => \A x : (x \in DOMAIN MemAfter(a, <<v>>) <=> x \in DOMAIN mem)
                                 /\ (x \in DOMAIN mem => MemAfter(a, <<v>>)[x] = mem[x])
         /\ IsRam(a) => /\ DOMAIN MemAfter(a, <<v>>) = DOMAIN mem \cup {a}
                        /\ MemAfter(a, <<v>>)[a] = v
                        /\ \A x \in DOMAIN mem \ {a} : MemAfter(a, <<v>>)[x] = mem[x]
<1>1. PICK bs : bs = <<v>>
  OBVIOUS
<1>2. DOMAIN bs = {1} /\ bs[1] = v
  BY <1>1
<1>3. Mask(a + 1 - 1) = a /\ Mask(a - a) + 1 = 1
  <2>1. a \in Int /\ Mask(a) = a
    BY MaskWord, WordIs, SMT
  <2>2. Mask(0) = 0
    BY SMT DEF Mask
  <2>3. a + 1 - 1 = a /\ a - a = 0
    BY <2>1
  <2> QED BY <2>1, <2>2, <2>3
<1>4. IoAfter(a, bs) = IF IsIo(a) THEN WriteIo(io, a, v) ELSE io
  BY <1>2, <1>3 DEF IoAfter
<1>5. {Mask(a + i - 1) : i \in DOMAIN bs} = {a}
  BY <1>2, <1>3
<1>6. MemAfter(a, bs) = [x \in DOMAIN mem \cup {y \in {a} : IsRam(y)} |->
                           IF x \in {y \in {a} : IsRam(y)} THEN bs[Mask(x - a) + 1] ELSE mem[x]]
  BY <1>5 DEF MemAfter
<1>7. CASE ~ IsRam(a)
  <2>1. {y \in {a} : IsRam(y)} = {}
    BY <1>7
  <2>2. MemAfter(a, bs) = [x \in DOMAIN mem |-> mem[x]]
    BY <1>6, <2>1
  <2> QED BY <1>1, <1>4, <1>7, <2>2
<1>8. CASE IsRam(a)
  <2>1. {y \in {a} : IsRam(y)} = {a}
    BY <1>8
  <2>2. MemAfter(a, bs) = [x \in DOMAIN mem \cup {a} |->
                             IF x \in {a} THEN bs[Mask(x - a) + 1] ELSE mem[x]]
    BY <1>6, <2>1
  <2> QED BY <1>1, <1>2, <1>3, <1>4, <1>8, <2>2
<1> QED BY <1>7, <1>8

-----------------------------------------------------------------------------
(* The stack.                                                              *)

\* Memory m holds the bytes of the word v at address a.
Holds(m, a, v) ==
  /\ {a, a + 1, a + 2} \subseteq DOMAIN m
  /\ m[a] = v % 256 /\ m[a + 1] = (v \div 256) % 256 /\ m[a + 2] = v \div 65536

\* A word stored is the word loaded.
LEMMA WordBack ==
  ASSUME NEW v \in Word
  PROVE  WordOf(v % 256, (v \div 256) % 256, v \div 65536) = v
<1>1. v \in Int
  BY WordIs, SMT
<1>2. PICK q \in Int, r \in 0 .. 255 : q = v \div 256 /\ r = v % 256 /\ v = 256 * q + r
  BY <1>1, SMT
<1>3. PICK s \in Int, t \in 0 .. 255 : s = q \div 256 /\ t = q % 256 /\ q = 256 * s + t
  BY SMT
<1>4. v \div 65536 = s
  BY <1>2, <1>3, SMT
<1>5. WordOf(r, t, s) = v
  BY <1>2, <1>3, SMT DEF WordOf
<1> QED BY <1>2, <1>3, <1>4, <1>5

\* A load of a word that is there.
LEMMA ReadHeld ==
  ASSUME NEW a \in Nat, IsRam(a), IsRam(a + 1), IsRam(a + 2), NEW v \in Word, Holds(mem, a, v)
  PROVE  ReadWord(a) = v
<1>1. /\ ReadByte(a) = mem[a] /\ ReadByte(a + 1) = mem[a + 1] /\ ReadByte(a + 2) = mem[a + 2]
  <2>1. a + 1 \in Nat /\ a + 2 \in Nat
    OBVIOUS
  <2> QED BY <2>1, ReadRam DEF Holds
<1> QED BY <1>1, WordBack DEF ReadWord, Holds

\* A word written to memory goes to its three cells and to no device.
LEMMA WriteWord ==
  ASSUME NEW a \in Nat, IsRam(a), IsRam(a + 1), IsRam(a + 2), NEW v \in Word
  PROVE  LET m == MemAfter(a, BytesOf(v))
         IN  /\ IoAfter(a, BytesOf(v)) = io
             /\ DOMAIN m = DOMAIN mem \cup {a, a + 1, a + 2}
             /\ Holds(m, a, v)
             /\ \A x \in DOMAIN mem \ {a, a + 1, a + 2} : m[x] = mem[x]
<1>1. PICK bs : bs = BytesOf(v)
  OBVIOUS
<1>2. /\ DOMAIN bs = {1, 2, 3} /\ bs[1] = v % 256 /\ bs[2] = (v \div 256) % 256
      /\ bs[3] = v \div 65536
  BY <1>1 DEF BytesOf
<1>3. /\ Mask(a + 1 - 1) = a /\ Mask(a + 2 - 1) = a + 1 /\ Mask(a + 3 - 1) = a + 2
      /\ ~ IsIo(a) /\ ~ IsIo(a + 1) /\ ~ IsIo(a + 2)
  <2>1. a + 1 \in Nat /\ a + 2 \in Nat
    OBVIOUS
  <2>2. /\ a \in Word /\ a + 1 \in Word /\ a + 2 \in Word
        /\ ~ IsIo(a) /\ ~ IsIo(a + 1) /\ ~ IsIo(a + 2)
    BY <2>1, RamIs
  <2>3. a + 1 - 1 = a /\ a + 2 - 1 = a + 1 /\ a + 3 - 1 = a + 2
    OBVIOUS
  <2> QED BY <2>2, <2>3, MaskWord
<1>4. Mask(a - a) + 1 = 1 /\ Mask(a + 1 - a) + 1 = 2 /\ Mask(a + 2 - a) + 1 = 3
  <2>1. Mask(0) = 0 /\ Mask(1) = 1 /\ Mask(2) = 2
    BY SMT DEF Mask
  <2>2. a - a = 0 /\ a + 1 - a = 1 /\ a + 2 - a = 2
    OBVIOUS
  <2> QED BY <2>1, <2>2
<1>5. IoAfter(a, bs) = io
  BY <1>2, <1>3 DEF IoAfter
<1>6. {x \in {Mask(a + i - 1) : i \in DOMAIN bs} : IsRam(x)} = {a, a + 1, a + 2}
  BY <1>2, <1>3
<1>7. PICK m : m = MemAfter(a, bs)
  OBVIOUS
<1>8. m = [x \in DOMAIN mem \cup {a, a + 1, a + 2} |->
             IF x \in {a, a + 1, a + 2} THEN bs[Mask(x - a) + 1] ELSE mem[x]]
  BY <1>6, <1>7 DEF MemAfter
<1>9. /\ DOMAIN m = DOMAIN mem \cup {a, a + 1, a + 2}
      /\ m[a] = bs[1] /\ m[a + 1] = bs[2] /\ m[a + 2] = bs[3]
      /\ \A x \in DOMAIN mem \ {a, a + 1, a + 2} : m[x] = mem[x]
  BY <1>4, <1>8
<1>10. Holds(m, a, v)
  BY <1>2, <1>9 DEF Holds
<1> QED BY <1>1, <1>5, <1>7, <1>9, <1>10

-----------------------------------------------------------------------------
(* Which step an instruction is.                                           *)

\* An instruction that decodes is executed by the action of its opcode.
LEMMA Dispatch ==
  ASSUME Executing, Step
  PROVE  /\ op \in Computing /\ ~ (op = "La" /\ ra = 7) => Compute
         /\ op \in {"Ceq", "Cls", "Clu"} => Compare
         /\ op = "Bra" => Bra
         /\ op \in {"Brf", "Brt"} => BranchIf
         /\ op = "Jal" => Jal
         /\ op = "Jmp" => Jmp
         /\ op \in {"Lb", "Lbu"} => LoadByte
         /\ op \in {"Sb", "Sw"} => Store
         /\ op = "Pop" => Pop
         /\ op = "Push" => Push
<1>1. Execute
  BY DEF Step, Executing, Fetching, StepHalted, Interrupt, HaltAtZero, Nop, InvalidInstruction
<1>2. /\ Compute => op \in Computing
      /\ JumpAbsolute => op = "La" /\ ra = 7
      /\ Compare => op \in {"Ceq", "Cls", "Clu"}
      /\ (Bra => op = "Bra") /\ (BranchIf => op \in {"Brf", "Brt"})
      /\ (Jal => op = "Jal") /\ (Jmp => op = "Jmp")
      /\ (LoadByte => op \in {"Lb", "Lbu"}) /\ (LoadWord => op = "Lw")
      /\ Store => op \in {"Sb", "Sw"}
      /\ (Pop => op = "Pop") /\ (Push => op = "Push")
  BY DEF Compute, JumpAbsolute, Compare, Bra, BranchIf, Jal, Jmp, LoadByte, LoadWord, Store,
         Pop, Push
<1> QED BY <1>1, <1>2 DEF Execute, Computing
================================================================================
