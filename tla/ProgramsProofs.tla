---------------------------- MODULE ProgramsProofs ----------------------------
(***************************************************************************)
(* What holds of the machine whatever program it runs and whatever its     *)
(* host does, for any images, decode table and settings of the devices.    *)
(*                                                                         *)
(* Types: registers and addresses stay 24-bit words, memory and devices    *)
(* hold bytes, and z stays zero because no entry of the table writes it.   *)
(* TypeOK is inductive once the fields of IoState are known.               *)
(*                                                                         *)
(* Characters: the receiver loses none.  The one thing a program must not  *)
(* do is clear the overflow flag, which forgets what was lost; none of the *)
(* repository's writes the status register.  The invariant adds to         *)
(* RxAccounted what keeps it: no instruction touches the byte in the       *)
(* receiver, and none makes it ready again.                                *)
(*                                                                         *)
(* The programs of Listings, line by line: the two that poll print their   *)
(* text; interrupt.s prints one digit for each character and counts as if  *)
(* it were not interrupted; echo.s echoes each character once, in order.   *)
(* The two that are interrupted are returned to as they were left.  Their  *)
(* invariants (HelloInv, UartInv, DigitsInv, EchoInv) say for every offset *)
(* what the registers, the stack and the transmitter hold there.           *)
(***************************************************************************)
EXTENDS Listings, CpuProofs

MachineOK ==
  /\ CpuOK /\ registers[5] = 0
  /\ program \in DOMAIN Image \cup {"none"}

-----------------------------------------------------------------------------
(* Types.                                                                  *)

\* No step writes z: the register an instruction writes is not 5, and neither
\* is the stack pointer or ir.
LEMMA StepKeepsZero ==
  ASSUME CpuOK, Step
  PROVE  registers'[5] = registers[5]
<1>1. ASSUME NEW r, r # 5, NEW v
      PROVE  [registers EXCEPT ![r] = v][5] = registers[5]
  BY <1>1 DEF CpuOK
<1>2. Executing /\ op \in (Computing \ {"SubSp"}) \cup {"Jal", "Lb", "Lbu", "Lw", "Pop"} =>
        ra # 5
  BY FetchType, ZeroAssumption DEF Executing, Decoded, op, ra
<1>3. CASE StepHalted \/ Interrupt \/ HaltAtZero \/ Nop \/ InvalidInstruction
  <2>1. registers' \in {registers, [registers EXCEPT ![7] = pc]}
    BY <1>3 DEF StepHalted, Interrupt, HaltAtZero, Nop, InvalidInstruction
  <2>2. [registers EXCEPT ![7] = pc][5] = registers[5]
    BY <1>1
  <2> QED BY <2>1, <2>2
<1>4. CASE JumpAbsolute \/ Compare \/ Bra \/ BranchIf \/ Jmp \/ Store
  BY <1>4 DEF JumpAbsolute, Compare, Bra, BranchIf, Jmp, Store
<1>5. CASE Compute
  <2>1. \E v : registers' = [registers EXCEPT ![IF op = "SubSp" THEN 4 ELSE ra] = v]
    BY <1>5 DEF Compute
  <2>2. (IF op = "SubSp" THEN 4 ELSE ra) # 5
    BY <1>2, <1>5 DEF Compute
  <2> QED BY <1>1, <2>1, <2>2
<1>6. CASE Jal \/ LoadByte \/ LoadWord
  <2>1. \E v : registers' = [registers EXCEPT ![ra] = v]
    BY <1>6 DEF Jal, LoadByte, LoadWord
  <2>2. ra # 5
    BY <1>2, <1>6 DEF Jal, LoadByte, LoadWord
  <2> QED BY <1>1, <2>1, <2>2
<1>7. CASE Pop
  <2>1. \E v, w : registers' = [registers EXCEPT ![ra] = v, ![4] = w]
    BY <1>7 DEF Pop
  <2>2. ra # 5
    BY <1>2, <1>7 DEF Pop
  <2> QED BY <2>1, <2>2 DEF CpuOK
<1>8. CASE Push
  BY <1>1, <1>8 DEF Push
<1> QED BY <1>3, <1>4, <1>5, <1>6, <1>7, <1>8 DEF Step, Execute

\* What a host of programs does is what a host of the processor may do.
LEMMA HostIsHost ==
  ASSUME MachineOK, MHost
  PROVE  /\ Host /\ registers' \in {registers, NewRegisters}
         /\ program' \in DOMAIN Image \cup {"none"}
<1>1. ASSUME NEW p \in DOMAIN Image, Boot(p)
      PROVE  Host /\ registers' = registers /\ program' = p
  <2>1. LoadProgram(0, Image[p]) /\ program' = p
    BY <1>1 DEF Boot
  <2>2. 0 \in Word /\ Image[p] \in Seq(Byte)
    BY WordIs, HostAssumption, SMT
  <2>3. registers' = registers
    BY <2>1 DEF LoadProgram
  <2> QED BY <2>1, <2>2, <2>3 DEF Host
<1>2. ASSUME Running, \/ Setup
                      \/ \E ch \in Chars[program] : Type(ch)
                      \/ \E v \in Presses[program] : Press(v)
                      \/ \E n \in Budgets[program] : Call(n)
      PROVE  Host /\ registers' = registers /\ program' = program
  <2>1. /\ program \in DOMAIN Image
        /\ Chars[program] \subseteq Byte /\ Presses[program] \subseteq Byte
        /\ BusyCycles[program] \subseteq Byte
        /\ Entries[program] \subseteq Word /\ Budgets[program] \subseteq Nat
    BY <1>2, HostAssumption DEF MachineOK, Running
  <2>2. program' = program /\ registers' = registers
    BY <1>2 DEF Setup, Type, Press, Call, SetPc, SetBusyCycles, NeverReady, SendRx,
                SetSwitches, Run, history
  <2>3. \/ \E entry \in Word : SetPc(entry)
        \/ \E v \in Byte : SetBusyCycles(v) \/ SetSwitches(v) \/ SendRx(v)
        \/ NeverReady
        \/ \E n \in Nat : Run(n)
    BY <1>2, <2>1 DEF Setup, Type, Press, Call
  <2> QED BY <2>2, <2>3 DEF Host
<1>3. CASE MReset
  <2>1. /\ Reset \/ HardReset
        /\ program' \in {program, "none"}
    BY <1>3 DEF MReset
  <2>2. registers' = NewRegisters
    BY <2>1 DEF Reset, HardReset
  <2> QED BY <2>1, <2>2 DEF Host, MachineOK
<1>4. program \in DOMAIN Image \cup {"none"}
  BY DEF MachineOK
<1> QED BY <1>1, <1>2, <1>3, <1>4 DEF MHost

\* The typing invariant is inductive.
LEMMA MachineInit == MInit => MachineOK
<1> SUFFICES ASSUME MInit PROVE MachineOK
  OBVIOUS
<1>1. CpuOK /\ program = "none"
  BY InitTypes DEF MInit
<1>2. registers[5] = 0
  BY DEF MInit, Init, NewRegisters
<1> QED BY <1>1, <1>2 DEF MachineOK

\* Every step keeps the types: the machine's, the host's and a boot.
LEMMA MachineNext ==
  ASSUME WordsClosed, MachineOK, [MNext]_allVars
  PROVE  MachineOK'
<1>1. CASE MStep
  <2>1. Step /\ program' = program
    BY <1>1 DEF MStep, Observe
  <2>2. CpuOK'
    BY <2>1, NextTypes DEF MachineOK, Next
  <2> QED BY <2>1, <2>2, StepKeepsZero DEF MachineOK
<1>2. CASE MHost
  <2>1. /\ Host /\ registers' \in {registers, NewRegisters}
        /\ program' \in DOMAIN Image \cup {"none"}
    BY <1>2, HostIsHost
  <2>2. CpuOK'
    BY <2>1, HostTypes DEF MachineOK
  <2>3. registers'[5] = 0
    BY <2>1 DEF MachineOK, NewRegisters
  <2> QED BY <2>1, <2>2, <2>3 DEF MachineOK
<1>3. CASE UNCHANGED allVars
  <2>1. CpuOK'
    BY <1>3, NextTypes DEF MachineOK, allVars
  <2> QED BY <1>3, <2>1 DEF allVars, vars, history, MachineOK
<1> QED BY <1>1, <1>2, <1>3 DEF MNext

\* The invariant of every machine, for the proofs that build on it.
LEMMA MachineInvariant ==
  ASSUME WordsClosed
  PROVE  MSpec => []MachineOK
BY MachineInit, MachineNext, PTL DEF MSpec

\* Whatever the program, every register and address stays a 24-bit word, every
\* cell of memory a byte, and z zero.
THEOREM TypeCorrect ==
  ASSUME WordsClosed
  PROVE  MSpec => []TypeOK
<1>1. MachineOK => TypeOK
  BY DEF MachineOK, CpuOK, DevicesOK, TypeOK
<1> QED BY <1>1, MachineInvariant, PTL

-----------------------------------------------------------------------------
(* The receiver.                                                           *)

\* A step of the machine leaves the overflow flag raised.
KeepsOverflow == Step /\ io.uart_rx_overflow => io'.uart_rx_overflow

ReceiverOK ==
  /\ DOMAIN io = Fields
  /\ io.uart_rx \in Byte /\ io.uart_rx_ready \in BOOLEAN

HistoryOK ==
  /\ program \in DOMAIN Image \cup {"none"}
  /\ sent \in Seq(Byte) /\ taken \in Seq(Byte)

RxInv == ReceiverOK /\ HistoryOK /\ RxAccounted

\* The receiver of e is that of d.
Receives(d, e) ==
  /\ DOMAIN e = DOMAIN d
  /\ e.uart_rx = d.uart_rx
  /\ e.uart_rx_ready = d.uart_rx_ready

\* The end of a transmission does not concern the receiver.
LEMMA TickReceives ==
  ASSUME NEW d, DOMAIN d = Fields
  PROVE  Receives(d, Tick(d))
BY FieldsNamed DEF Receives, Tick

\* A write to a device register leaves the character in the receiver.
LEMMA WriteReceives ==
  ASSUME NEW d, DOMAIN d = Fields, NEW a, NEW v
  PROVE  Receives(d, WriteIo(d, a, v))
<1>1. Receives(d, Transmit(d, v))
  BY FieldsNamed DEF Receives, Transmit
<1>2. /\ Receives(d, [d EXCEPT !.leds = v]) /\ Receives(d, [d EXCEPT !.int_enable = v])
      /\ Receives(d, [d EXCEPT !.uart_rx_overflow = FALSE]) /\ Receives(d, d)
  BY FieldsNamed DEF Receives
<1> QED BY <1>1, <1>2 DEF WriteIo

\* So does a store of up to three bytes.
LEMMA StoreReceives ==
  ASSUME DOMAIN io = Fields, NEW a, NEW bs
  PROVE  Receives(io, IoAfter(a, bs))
<1> DEFINE Put(d, i) == IF i \in DOMAIN bs /\ IsIo(Mask(a + i - 1))
                        THEN WriteIo(d, Mask(a + i - 1), bs[i]) ELSE d
<1>1. ASSUME NEW d, DOMAIN d = Fields, NEW i PROVE Receives(d, Put(d, i))
  BY <1>1, WriteReceives DEF Receives
<1> HIDE DEF Put
<1>2. PICK d1 : d1 = Put(io, 1)
  OBVIOUS
<1>3. PICK d2 : d2 = Put(d1, 2)
  OBVIOUS
<1>4. DOMAIN d1 = Fields /\ Receives(io, d1)
  BY <1>1, <1>2 DEF Receives
<1>5. DOMAIN d2 = Fields /\ Receives(io, d2)
  BY <1>1, <1>3, <1>4 DEF Receives
<1>6. Receives(io, Put(d2, 3))
  BY <1>1, <1>5 DEF Receives
<1>7. IoAfter(a, bs) = Put(d2, 3)
  BY <1>2, <1>3 DEF IoAfter, Put
<1> QED BY <1>6, <1>7

\* A step leaves the byte and acknowledges it or not.
LEMMA StepReceives ==
  ASSUME ReceiverOK, Step
  PROVE  /\ ReceiverOK' /\ io'.uart_rx = io.uart_rx
         /\ io'.uart_rx_ready \in {io.uart_rx_ready, FALSE}
<1>1. CASE io' = io
  BY <1>1 DEF ReceiverOK
<1>2. ASSUME NEW d, io' = Tick(d), DOMAIN d = Fields, d.uart_rx = io.uart_rx,
             d.uart_rx_ready \in {io.uart_rx_ready, FALSE}
      PROVE  /\ ReceiverOK' /\ io'.uart_rx = io.uart_rx
             /\ io'.uart_rx_ready \in {io.uart_rx_ready, FALSE}
  <2>1. Receives(d, io')
    BY <1>2, TickReceives
  <2> QED BY <1>2, <2>1 DEF ReceiverOK, Receives
<1>3. CASE io' = Tick(io)
  BY <1>2, <1>3 DEF ReceiverOK
<1>4. CASE LoadByte
  <2>1. PICK d : d = [io EXCEPT !.uart_rx_ready = @ /\ Effective # IO_UARTDATA]
    OBVIOUS
  <2>2. io' = Tick(d)
    BY <1>4, <2>1 DEF LoadByte, Retire
  <2>3. /\ DOMAIN d = Fields /\ d.uart_rx = io.uart_rx
        /\ d.uart_rx_ready \in {io.uart_rx_ready, FALSE}
    BY <2>1, FieldsNamed DEF ReceiverOK
  <2> QED BY <1>2, <2>2, <2>3
<1>5. CASE Store \/ Push
  <2>1. PICK a, bs : io' = Tick(IoAfter(a, bs))
    BY <1>5 DEF Store, Push, RetireWriting, Retire
  <2>2. Receives(io, IoAfter(a, bs))
    BY StoreReceives DEF ReceiverOK
  <2> QED BY <1>2, <2>1, <2>2 DEF ReceiverOK, Receives
<1>6. io' = io \/ io' = Tick(io) \/ LoadByte \/ Store \/ Push
  BY DEF Step, StepHalted, Interrupt, HaltAtZero, Nop, InvalidInstruction, Execute, Compute,
         JumpAbsolute, Compare, Bra, BranchIf, Jal, Jmp, LoadWord, Pop, Retire
<1> QED BY <1>1, <1>3, <1>4, <1>5, <1>6

-----------------------------------------------------------------------------
(* The invariant.                                                          *)

\* The receiver after a reset.
LEMMA FreshReceiver ==
  /\ DOMAIN NewIo = Fields /\ NewIo.uart_rx \in Byte
  /\ NewIo.uart_rx_ready = FALSE /\ NewIo.uart_rx_overflow = FALSE
BY DEF Fields, NewIo, Byte

\* A step keeps the account: a character acknowledged is one taken.
LEMMA MachineAccounts ==
  ASSUME RxInv, KeepsOverflow, MStep
  PROVE  RxInv'
<1>1. /\ ReceiverOK' /\ io'.uart_rx = io.uart_rx
      /\ io'.uart_rx_ready \in {io.uart_rx_ready, FALSE}
  BY StepReceives DEF RxInv, MStep
<1>2. /\ sent' = sent /\ program' = program
      /\ taken' = IF io.uart_rx_ready /\ ~ io'.uart_rx_ready THEN Append(taken, io.uart_rx)
                  ELSE taken
  BY DEF MStep, Observe, Acknowledges
<1>3. /\ sent \in Seq(Byte) /\ taken \in Seq(Byte) /\ io.uart_rx \in Byte
      /\ program \in DOMAIN Image \cup {"none"}
  BY DEF RxInv, ReceiverOK, HistoryOK
<1>4. /\ Append(taken, io.uart_rx) \in Seq(Byte)
      /\ Append(taken, io.uart_rx) = taken \o <<io.uart_rx>>
      /\ Append(taken, io.uart_rx) \o <<>> = Append(taken, io.uart_rx)
  <2>1. Append(taken, io.uart_rx) \in Seq(Byte)
    BY <1>3, AppendProperties
  <2> QED BY <1>3, <2>1, AppendIsConcat, ConcatEmptySeq
<1>5. HistoryOK'
  BY <1>2, <1>3, <1>4 DEF HistoryOK
<1>6. RxAccounted'
  <2> SUFFICES ASSUME ~ io'.uart_rx_overflow
               PROVE  sent' = taken' \o (IF io'.uart_rx_ready THEN <<io'.uart_rx>> ELSE <<>>)
    BY DEF RxAccounted
  <2>1. sent = taken \o (IF io.uart_rx_ready THEN <<io.uart_rx>> ELSE <<>>)
    BY DEF KeepsOverflow, MStep, RxInv, RxAccounted
  <2>2. CASE io.uart_rx_ready /\ ~ io'.uart_rx_ready
    BY <1>2, <1>4, <2>1, <2>2
  <2>3. CASE ~ (io.uart_rx_ready /\ ~ io'.uart_rx_ready)
    <3>1. io'.uart_rx_ready <=> io.uart_rx_ready
      BY <1>1, <2>3
    <3> QED BY <1>1, <1>2, <2>1, <2>3, <3>1
  <2> QED BY <2>2, <2>3
<1> QED BY <1>1, <1>5, <1>6 DEF RxInv

\* A character that finds another one unread raises the flag.
LEMMA TypingAccounts ==
  ASSUME RxInv, Running, NEW ch \in Chars[program], Type(ch)
  PROVE  RxInv'
<1>1. ch \in Byte
  BY HostAssumption DEF RxInv, HistoryOK, Running
<1>2. /\ io' = [io EXCEPT !.uart_rx = ch, !.uart_rx_ready = TRUE,
                          !.uart_rx_overflow = @ \/ io.uart_rx_ready]
      /\ sent' = Append(sent, ch) /\ taken' = taken /\ program' = program
  BY DEF Type, SendRx
<1>3. /\ DOMAIN io' = Fields /\ io'.uart_rx = ch /\ io'.uart_rx_ready = TRUE
      /\ io'.uart_rx_overflow = (io.uart_rx_overflow \/ io.uart_rx_ready)
  BY <1>2, FieldsNamed DEF RxInv, ReceiverOK
<1>4. sent \in Seq(Byte) /\ taken \in Seq(Byte) /\ program \in DOMAIN Image \cup {"none"}
  BY DEF RxInv, HistoryOK
<1>5. Append(sent, ch) \in Seq(Byte) /\ Append(sent, ch) = sent \o <<ch>>
  BY <1>1, <1>4, AppendProperties, AppendIsConcat
<1>6. RxAccounted'
  <2> SUFFICES ASSUME ~ io'.uart_rx_overflow PROVE sent' = taken' \o <<ch>>
    BY <1>3 DEF RxAccounted
  <2>1. ~ io.uart_rx_overflow /\ ~ io.uart_rx_ready
    BY <1>3
  <2>2. sent = taken
    BY <1>4, <2>1, ConcatEmptySeq DEF RxInv, RxAccounted
  <2> QED BY <1>2, <1>5, <2>2
<1> QED BY <1>1, <1>2, <1>3, <1>4, <1>5, <1>6 DEF RxInv, ReceiverOK, HistoryOK

\* The rest of what a host does leaves the receiver alone or empties it.
LEMMA HostAccounts ==
  ASSUME RxInv, MHost
  PROVE  RxInv'
<1>1. ASSUME DOMAIN io' = Fields, io'.uart_rx = io.uart_rx,
             io'.uart_rx_ready = io.uart_rx_ready,
             io'.uart_rx_overflow = io.uart_rx_overflow,
             program' \in DOMAIN Image \cup {"none"}, UNCHANGED <<sent, taken>>
      PROVE  RxInv'
  BY <1>1 DEF RxInv, ReceiverOK, HistoryOK, RxAccounted
<1>2. ASSUME NEW p \in DOMAIN Image, Boot(p) PROVE RxInv'
  <2>1. io' = io /\ program' = p /\ UNCHANGED <<sent, taken>>
    BY <1>2 DEF Boot, LoadProgram
  <2> QED BY <1>1, <2>1 DEF RxInv, ReceiverOK
<1>3. ASSUME Setup \/ (\E v : Press(v)) \/ (\E n : Call(n)) PROVE RxInv'
  <2>1. UNCHANGED <<program, sent, taken>>
    BY <1>3 DEF Setup, Press, Call, history
  <2>2. \/ io' = io
        \/ \E n : io' = [io EXCEPT !.uart_tx_busy_cycles = n]
        \/ io' = [io EXCEPT !.uart_never_ready = TRUE, !.uart_tx_busy = TRUE]
        \/ \E v : io' = [io EXCEPT !.switches = v]
    BY <1>3 DEF Setup, Press, Call, SetPc, SetBusyCycles, NeverReady, SetSwitches, Run
  <2>3. /\ DOMAIN io' = Fields /\ io'.uart_rx = io.uart_rx
        /\ io'.uart_rx_ready = io.uart_rx_ready
        /\ io'.uart_rx_overflow = io.uart_rx_overflow
    BY <2>2, FieldsNamed DEF RxInv, ReceiverOK
  <2> QED BY <1>1, <2>1, <2>3 DEF RxInv, HistoryOK
<1>4. CASE MReset
  <2>1. io' = NewIo /\ sent' = <<>> /\ taken' = <<>> /\ program' \in {program, "none"}
    BY <1>4 DEF MReset, Reset, HardReset
  <2>2. <<>> \in Seq(Byte) /\ <<>> = <<>> \o <<>>
    BY ConcatEmptySeq
  <2> QED BY <2>1, <2>2, FreshReceiver DEF RxInv, ReceiverOK, HistoryOK, RxAccounted
<1> QED BY <1>2, <1>3, <1>4, TypingAccounts DEF MHost

\* For every program that does not clear the flag, every table and every host:
\* until the flag is raised, what was sent is what was read and then what waits.
THEOREM RxCorrect == MSpec /\ [][KeepsOverflow]_allVars => []RxAccounted
<1>1. MInit => RxInv
  <2> SUFFICES ASSUME MInit PROVE RxInv
    OBVIOUS
  <2>1. io = NewIo /\ sent = <<>> /\ taken = <<>> /\ program = "none"
    BY DEF MInit, Init
  <2>2. <<>> \in Seq(Byte) /\ <<>> = <<>> \o <<>>
    BY ConcatEmptySeq
  <2> QED BY <2>1, <2>2, FreshReceiver DEF RxInv, ReceiverOK, HistoryOK, RxAccounted
<1>2. RxInv /\ [MNext]_allVars /\ [KeepsOverflow]_allVars => RxInv'
  <2>1. ASSUME RxInv, KeepsOverflow, MNext PROVE RxInv'
    BY <2>1, MachineAccounts, HostAccounts DEF MNext
  <2>2. ASSUME RxInv, UNCHANGED allVars PROVE RxInv'
    BY <2>2 DEF allVars, vars, history, RxInv, ReceiverOK, HistoryOK, RxAccounted
  <2> QED BY <2>1, <2>2
<1>3. RxInv => RxAccounted
  BY DEF RxInv
<1> QED BY <1>1, <1>2, <1>3, PTL DEF MSpec

-----------------------------------------------------------------------------
(* Lines of a program in memory.                                           *)

Loaded(p) == \A i \in DOMAIN Image[p] : i - 1 \in DOMAIN mem /\ mem[i - 1] = Image[p][i]

\* The machine stands at offset k of program p, and takes a step.
At(p, k) ==
  /\ CpuOK /\ p \in DOMAIN Image /\ Loaded(p)
  /\ k \in Nat /\ pc = k
  /\ ~ halted /\ ~ InterruptPending /\ Step

\* What is left to say of most steps: the registers, where to, the devices.
Moves(regs, to, d) ==
  /\ registers' = regs /\ pc' = to /\ io' = Tick(d)
  /\ UNCHANGED <<c, halted, intis, mem>>

\* The machine decodes the line it stands at.
LEMMA LineRead ==
  ASSUME NEW p, NEW k, At(p, k), NEW o, NEW x, NEW y, NEW w \in {1, 2, 4}, Line(p, k, o, x, y, w)
  PROVE  /\ Executing /\ op = o /\ ra = x /\ rb = y /\ next_pc = k + w
         /\ w = 2 => imm8 = Image[p][k + 2]
         /\ w = 4 => imm24 = WordOf(Image[p][k + 2], Image[p][k + 3], Image[p][k + 4])
<1>1. PICK img : img = Image[p]
  OBVIOUS
<1>2. img \in Seq(Byte)
  BY <1>1, HostAssumption DEF At
<1>3. Len(img) \in Nat /\ DOMAIN img = 1 .. Len(img)
  BY <1>2, LenProperties
<1>4. k \in Nat /\ k + w <= Len(img)
  BY <1>1 DEF At, Line
<1>5. ASSUME NEW j \in {0, 1, 2, 3}, j < w
      PROVE  ReadByte(pc + j) = img[k + j + 1] /\ k + j + 1 \in Word
  <2>1. k + j \in Nat /\ k + j + 1 \in DOMAIN img /\ k + j + 1 - 1 = k + j
    BY <1>3, <1>4, <1>5
  <2>2. k + j \in DOMAIN mem /\ mem[k + j] = img[k + j + 1]
    BY <1>1, <2>1 DEF At, Loaded
  <2>3. IsRam(k + j) /\ pc = k
    BY <2>2 DEF At, CpuOK
  <2>4. ReadByte(k + j) = mem[k + j] /\ (k + j) + 1 \in Word
    BY <2>1, <2>2, <2>3, ReadRam, RamIs
  <2> QED BY <2>1, <2>2, <2>3, <2>4
<1>6. /\ ReadByte(pc) = img[k + 1]
      /\ w # 1 => ReadByte(pc + 1) = img[k + 2]
      /\ w = 4 => ReadByte(pc + 2) = img[k + 3] /\ ReadByte(pc + 3) = img[k + 4]
  <2>1. pc \in Int /\ pc + 0 = pc /\ k + 0 + 1 = k + 1 /\ k + 1 + 1 = k + 2
        /\ k + 2 + 1 = k + 3 /\ k + 3 + 1 = k + 4
    BY <1>4 DEF At
  <2>2. /\ ReadByte(pc + 0) = img[k + 0 + 1]
        /\ w # 1 => ReadByte(pc + 1) = img[k + 1 + 1]
        /\ w = 4 => ReadByte(pc + 2) = img[k + 2 + 1] /\ ReadByte(pc + 3) = img[k + 3 + 1]
    <3>1. 0 < w /\ (w # 1 => 1 < w) /\ (w = 4 => 2 < w /\ 3 < w)
      OBVIOUS
    <3> QED BY <1>5, <3>1
  <2> QED BY <2>1, <2>2
<1>7. k + w \in Word
  <2>1. PICK j \in {0, 1, 2, 3} : w = j + 1
    OBVIOUS
  <2>2. k + j + 1 \in Word /\ k + j + 1 = k + w
    BY <1>4, <1>5, <2>1
  <2> QED BY <2>2
<1>8. /\ Fetched = img[k + 1] /\ Fetched \notin {0, 255} /\ Decoded # Undecodable
      /\ op = o /\ ra = x /\ rb = y /\ SizeOf[o] = w
  BY <1>1, <1>6 DEF Fetched, Decoded, op, ra, rb, Line
<1>9. next_pc = k + w
  BY <1>7, <1>8, MaskWord DEF next_pc, At
<1>10. Executing
  BY <1>8 DEF Executing, Fetching, At
<1> QED BY <1>1, <1>6, <1>8, <1>9, <1>10 DEF imm8, imm24

-----------------------------------------------------------------------------
(* The instructions the programs use.                                      *)

\* lc: the constant, sign-extended.
LEMMA DoLc ==
  ASSUME NEW p, NEW k, At(p, k), NEW x \in 0 .. 6, NEW y, NEW n, Short(p, k, "Lc", x, y, n)
  PROVE  Moves([registers EXCEPT ![x] = n], k + 2, io)
<1>1. Executing /\ op = "Lc" /\ ra = x /\ next_pc = k + 2 /\ SignExtend8(imm8) = n
  BY LineRead DEF Short
<1>2. Compute /\ Result = n
  BY <1>1, Dispatch DEF At, Computing, Result
<1> QED BY <1>1, <1>2 DEF Compute, Retire, Moves

\* la, of a register other than ir.
LEMMA DoLa ==
  ASSUME NEW p, NEW k, At(p, k), NEW x \in 0 .. 6, NEW y, NEW n, Long(p, k, "La", x, y, n)
  PROVE  Moves([registers EXCEPT ![x] = n], k + 4, io)
<1>1. Executing /\ op = "La" /\ ra = x /\ next_pc = k + 4 /\ imm24 = n
  BY LineRead DEF Long
<1>2. Compute /\ Result = n
  BY <1>1, Dispatch DEF At, Computing, Result
<1> QED BY <1>1, <1>2 DEF Compute, Retire, Moves

\* mov; of c it moves the flag.
LEMMA DoMov ==
  ASSUME NEW p, NEW k, At(p, k), NEW x \in 0 .. 6, NEW y \in 0 .. 7, Plain(p, k, "Mov", x, y)
  PROVE  Moves([registers EXCEPT ![x] = IF y = 5 THEN (IF c THEN 1 ELSE 0) ELSE registers[y]],
               k + 1, io)
<1>1. Executing /\ op = "Mov" /\ ra = x /\ rb = y /\ next_pc = k + 1
  BY LineRead DEF Plain
<1>2. Compute /\ Result = IF y = 5 THEN (IF c THEN 1 ELSE 0) ELSE registers[y]
  BY <1>1, Dispatch DEF At, Computing, Result, B
<1> QED BY <1>1, <1>2 DEF Compute, Retire, Moves

\* lcu: the constant as it is.
LEMMA DoLcu ==
  ASSUME NEW p, NEW k, At(p, k), NEW x \in 0 .. 6, NEW y, NEW n, Unsigned(p, k, "Lcu", x, y, n)
  PROVE  Moves([registers EXCEPT ![x] = n], k + 2, io)
<1>1. Executing /\ op = "Lcu" /\ ra = x /\ next_pc = k + 2 /\ imm8 = n
  BY LineRead DEF Unsigned
<1>2. Compute /\ Result = n
  BY <1>1, Dispatch DEF At, Computing, Result
<1> QED BY <1>1, <1>2 DEF Compute, Retire, Moves

\* and of two registers.
LEMMA DoAnd ==
  ASSUME NEW p, NEW k, At(p, k), NEW x \in 0 .. 6, NEW y \in 0 .. 7, Plain(p, k, "And", x, y)
  PROVE  Moves([registers EXCEPT ![x] = BitAnd(registers[x], registers[y])], k + 1, io)
<1>1. Executing /\ op = "And" /\ ra = x /\ rb = y /\ next_pc = k + 1
  BY LineRead DEF Plain
<1>2. Compute /\ Result = BitAnd(registers[x], registers[y])
  BY <1>1, Dispatch DEF At, Computing, Result, A, B
<1> QED BY <1>1, <1>2 DEF Compute, Retire, Moves

\* add of two registers.
LEMMA DoAdd ==
  ASSUME NEW p, NEW k, At(p, k), NEW x \in 0 .. 6, NEW y \in 0 .. 7, Plain(p, k, "AddReg", x, y)
  PROVE  Moves([registers EXCEPT ![x] = Mask(registers[x] + registers[y])], k + 1, io)
<1>1. Executing /\ op = "AddReg" /\ ra = x /\ rb = y /\ next_pc = k + 1
  BY LineRead DEF Plain
<1>2. Compute /\ Result = Mask(registers[x] + registers[y])
  BY <1>1, Dispatch DEF At, Computing, Result, A, B
<1> QED BY <1>1, <1>2 DEF Compute, Retire, Moves

\* ceq, cls and clu only set the flag.
LEMMA DoCompare ==
  ASSUME NEW p, NEW k, At(p, k), NEW o \in {"Ceq", "Cls", "Clu"}, NEW x, NEW y, Plain(p, k, o, x, y)
  PROVE  /\ c' = CASE o = "Ceq" -> registers[x] = registers[y]
                   [] o = "Cls" -> Signed24(registers[x]) < Signed24(registers[y])
                   [] o = "Clu" -> registers[x] < registers[y]
         /\ pc' = k + 1 /\ io' = Tick(io)
         /\ UNCHANGED <<registers, halted, intis, mem>>
<1>1. Executing /\ op = o /\ ra = x /\ rb = y /\ next_pc = k + 1
  BY LineRead DEF Plain
<1>2. Compare
  BY <1>1, Dispatch DEF At
<1> QED BY <1>1, <1>2 DEF Compare, Retire, A, B

\* brt and brf, to the offset written.
LEMMA DoBranchIf ==
  ASSUME NEW p, NEW k, At(p, k), NEW o \in {"Brf", "Brt"}, NEW t, Branch(p, k, o, t)
  PROVE  Moves(registers, IF c = (o = "Brt") THEN t ELSE k + 2, io)
<1>1. Executing /\ op = o /\ next_pc = k + 2 /\ imm8 = Image[p][k + 2]
  BY LineRead DEF Branch
<1>2. Target = t
  BY <1>1 DEF Target, Branch, At
<1>3. BranchIf
  BY <1>1, Dispatch DEF At
<1> QED BY <1>1, <1>2, <1>3 DEF BranchIf, Retire, Moves

\* bra; to itself it halts.
LEMMA DoBra ==
  ASSUME NEW p, NEW k, At(p, k), NEW t, Branch(p, k, "Bra", t)
  PROVE  /\ halted' = (t = k) /\ pc' = t /\ io' = Tick(io)
         /\ UNCHANGED <<registers, c, intis, mem>>
<1>1. Executing /\ op = "Bra" /\ next_pc = k + 2 /\ imm8 = Image[p][k + 2]
  BY LineRead DEF Branch
<1>2. Target = t
  BY <1>1 DEF Target, Branch, At
<1>3. Bra
  BY <1>1, Dispatch DEF At
<1> QED BY <1>2, <1>3 DEF Bra, At

\* jal leaves the address of the next line.
LEMMA DoJal ==
  ASSUME NEW p, NEW k, At(p, k), NEW x \in 0 .. 6, NEW y \in 0 .. 7, Plain(p, k, "Jal", x, y)
  PROVE  Moves([registers EXCEPT ![x] = k + 1], registers[y], io)
<1>1. Executing /\ op = "Jal" /\ ra = x /\ rb = y /\ next_pc = k + 1
  BY LineRead DEF Plain
<1>2. Jal
  BY <1>1, Dispatch DEF At
<1> QED BY <1>1, <1>2 DEF Jal, Retire, Moves, B

\* jmp; through ir it ends the service of an interrupt.
LEMMA DoJmp ==
  ASSUME NEW p, NEW k, At(p, k), NEW x \in 0 .. 7, NEW y, Plain(p, k, "Jmp", x, y)
  PROVE  /\ Jmp /\ ra = x /\ intis' = (intis /\ x # 7) /\ pc' = registers[x] /\ io' = Tick(io)
         /\ UNCHANGED <<registers, c, halted, mem>>
<1>1. Executing /\ op = "Jmp" /\ ra = x
  BY LineRead DEF Plain
<1>2. Jmp
  BY <1>1, Dispatch DEF At
<1> QED BY <1>1, <1>2 DEF Jmp, Retire, A

\* lb; from the data register it acknowledges the character.
LEMMA DoLb ==
  ASSUME NEW p, NEW k, At(p, k), NEW x \in 0 .. 6, NEW y \in 0 .. 7, NEW n \in 0 .. 127,
         Short(p, k, "Lb", x, y, n), NEW a \in Word, a = registers[y] + n
  PROVE  Moves([registers EXCEPT ![x] = SignExtend8(ReadByte(a))], k + 2,
               [io EXCEPT !.uart_rx_ready = @ /\ a # IO_UARTDATA])
<1>1. Executing /\ op = "Lb" /\ ra = x /\ rb = y /\ next_pc = k + 2 /\ SignExtend8(imm8) = n
  BY LineRead DEF Short
<1>2. Effective = a
  BY <1>1, MaskWord DEF Effective, B
<1>3. LoadByte
  BY <1>1, Dispatch DEF At
<1> QED BY <1>1, <1>2, <1>3 DEF LoadByte, Retire, Moves

\* sb.
LEMMA DoSb ==
  ASSUME NEW p, NEW k, At(p, k), NEW x \in 0 .. 7, NEW y \in 0 .. 7,
         Short(p, k, "Sb", x, y, 0), registers[y] \in Word
  PROVE  /\ pc' = k + 2 /\ io' = Tick(IoAfter(registers[y], <<registers[x] % 256>>))
         /\ mem' = MemAfter(registers[y], <<registers[x] % 256>>)
         /\ UNCHANGED <<registers, c, halted, intis>>
<1>1. Executing /\ op = "Sb" /\ ra = x /\ rb = y /\ next_pc = k + 2 /\ SignExtend8(imm8) = 0
  BY LineRead DEF Short
<1>2. Effective = registers[y]
  <2>1. registers[y] \in Int /\ registers[y] + 0 = registers[y]
    BY WordIs, SMT
  <2> QED BY <1>1, <2>1, MaskWord DEF Effective, B
<1>3. Store
  BY <1>1, Dispatch DEF At
<1> QED BY <1>1, <1>2, <1>3 DEF Store, RetireWriting, Retire, A

\* push, of a register other than sp, on a stack in memory.
LEMMA DoPush ==
  ASSUME NEW p, NEW k, At(p, k), NEW x \in 0 .. 7 \ {4}, NEW y, Plain(p, k, "Push", x, y),
         NEW a \in Nat, registers[4] = a + 3, IsRam(a), IsRam(a + 1), IsRam(a + 2)
  PROVE  /\ registers' = [registers EXCEPT ![4] = a]
         /\ pc' = k + 1 /\ io' = Tick(io)
         /\ mem' = MemAfter(a, BytesOf(registers[x]))
         /\ UNCHANGED <<c, halted, intis>>
<1>1. Executing /\ op = "Push" /\ ra = x /\ next_pc = k + 1
  BY LineRead DEF Plain
<1>2. Push
  BY <1>1, Dispatch DEF At
<1>3. Mask(registers[4] - 3) = a
  <2>1. a \in Word /\ registers[4] - 3 = a
    BY RamIs
  <2> QED BY <2>1, MaskWord
<1>4. /\ registers' = [registers EXCEPT ![4] = a] /\ registers'[4] = a
      /\ registers'[x] = registers[x] /\ registers[x] \in Word
  BY <1>2, <1>3 DEF Push, At, CpuOK
<1>5. IoAfter(a, BytesOf(registers[x])) = io
  BY <1>4, WriteWord
<1> QED BY <1>1, <1>2, <1>4, <1>5 DEF Push, RetireWriting, Retire

\* pop, of a word that is there.
LEMMA DoPop ==
  ASSUME NEW p, NEW k, At(p, k), NEW x \in 0 .. 6 \ {4}, NEW y, Plain(p, k, "Pop", x, y),
         NEW a \in Nat, registers[4] = a, IsRam(a), IsRam(a + 1), IsRam(a + 2)
  PROVE  /\ Moves([registers EXCEPT ![x] = ReadWord(a), ![4] = a + 3], k + 1, io)
         /\ \A v \in Word : Holds(mem, a, v) => ReadWord(a) = v
<1>1. Executing /\ op = "Pop" /\ ra = x /\ next_pc = k + 1
  BY LineRead DEF Plain
<1>2. Pop
  BY <1>1, Dispatch DEF At
<1>3. Mask(a + 3) = a + 3
  <2>1. (a + 2) + 1 \in Word /\ (a + 2) + 1 = a + 3
    BY RamIs
  <2> QED BY <2>1, MaskWord
<1> QED BY <1>1, <1>2, <1>3, ReadHeld DEF Pop, Retire, Moves

-----------------------------------------------------------------------------
(* What steps leave alone.                                                 *)

\* A cell that a step does not write.
Same(x) == x \in DOMAIN mem => x \in DOMAIN mem' /\ mem'[x] = mem[x]

\* The devices after an instruction that writes none of them: only the
\* transmission in progress goes on.
Ticked(d, e) ==
  /\ DOMAIN e = Fields
  /\ e.uart_output = d.uart_output /\ e.uart_tx_dropped = d.uart_tx_dropped
  /\ e.int_enable = d.int_enable /\ e.uart_never_ready = d.uart_never_ready
  /\ e.uart_tx_busy_cycles = d.uart_tx_busy_cycles /\ e.uart_rx_ready = d.uart_rx_ready
  /\ e.uart_tx_busy => d.uart_tx_busy
  /\ d.uart_never_ready /\ d.uart_tx_busy => e.uart_tx_busy

\* An instruction's tick changes the transmission in progress only.
LEMMA TickIs == ASSUME NEW d, DOMAIN d = Fields PROVE Ticked(d, Tick(d))
BY FieldsNamed DEF Ticked, Tick

\* The acknowledgement of a character changes nothing else.
LEMMA AckIs ==
  ASSUME NEW b, DOMAIN io = Fields
  PROVE  LET e == [io EXCEPT !.uart_rx_ready = @ /\ b]
         IN  /\ DOMAIN e = Fields /\ e.uart_rx_ready = (io.uart_rx_ready /\ b)
             /\ \A f \in Fields \ {"uart_rx_ready"} : e[f] = io[f]
OBVIOUS

\* A program stays in memory while its cells are left alone.
LEMMA LoadedKept ==
  ASSUME NEW p, Loaded(p), DOMAIN Image[p] \subseteq 1 .. 256, \A x \in 0 .. 255 : Same(x)
  PROVE  Loaded(p)'
<1>1. ASSUME NEW i \in DOMAIN Image[p] PROVE i - 1 \in DOMAIN mem' /\ mem'[i - 1] = Image[p][i]
  <2>1. i - 1 \in DOMAIN mem /\ mem[i - 1] = Image[p][i]
    BY DEF Loaded
  <2>2. i \in 1 .. 256
    OBVIOUS
  <2>3. PICK j \in 0 .. 255 : j = i - 1
    BY <2>2
  <2>4. Same(j)
    OBVIOUS
  <2> QED BY <2>1, <2>3, <2>4 DEF Same
<1> QED BY <1>1 DEF Loaded

-----------------------------------------------------------------------------
(* hello_uart.s and uart_hello.s print their text.                         *)

\* The first n characters of the text have been transmitted.
Printed(p, n) ==
  /\ io.uart_output \in Seq(Nat) /\ Len(io.uart_output) = n
  /\ \A j \in 1 .. n : io.uart_output[j] = Text(p)[j]

\* Neither program enables interrupts, and neither loses a character.
Polling ==
  /\ ~ intis /\ io.int_enable = 0 /\ io.uart_tx_dropped = 0
  /\ io.uart_never_ready => io.uart_tx_busy

\* Character i of hello_uart.s: its loop reads the status (k + 2), compares
\* (k + 4), branches back while the transmitter is busy (k + 5) and stores.
HelloPut(i) ==
  LET k == 9 * i - 3
  IN  /\ pc \in {k, k + 2, k + 4, k + 5, k + 7} /\ ~ halted
      /\ registers[2] = IO_UARTDATA /\ registers[3] = INITIAL_SP - 3
      /\ pc # k => registers[0] = Text("hello_uart")[i]
      /\ pc = k + 4 => Signed24(registers[1]) < 0 \/ ~ io.uart_tx_busy
      /\ pc = k + 5 => c \/ ~ io.uart_tx_busy
      /\ pc = k + 7 => ~ io.uart_tx_busy
      /\ Printed("hello_uart", i - 1)
      /\ i > 1 => ~ io.uart_never_ready

HelloStart ==
  /\ pc \in {0, 1, 2} /\ ~ halted
  /\ registers[4] = IF pc = 0 THEN INITIAL_SP ELSE INITIAL_SP - 3
  /\ pc = 2 => registers[3] = INITIAL_SP - 3
  /\ Printed("hello_uart", 0)

HelloEnd ==
  /\ pc \in {33, 34, 35} /\ (halted => pc = 35)
  /\ pc = 33 => registers[3] = INITIAL_SP - 3
  /\ pc = 34 => registers[4] = INITIAL_SP - 3
  /\ Printed("hello_uart", 3) /\ ~ io.uart_never_ready

HelloInv ==
  program = "hello_uart" =>
    /\ Loaded("hello_uart") /\ Polling
    /\ HelloStart \/ (\E i \in 1 .. 3 : HelloPut(i)) \/ HelloEnd

\* The call of putc for character i of uart_hello.s.
HelloCall(i) ==
  LET k == 7 * i - 7
  IN  /\ pc \in {k, k + 2, k + 6} /\ ~ halted
      /\ registers[4] = INITIAL_SP
      /\ pc # k => registers[0] = Text("uart_hello")[i]
      /\ pc = k + 6 => registers[2] = 44
      /\ Printed("uart_hello", i - 1)
      /\ i > 1 => ~ io.uart_never_ready

\* putc with character i: the stack holds the return address and, until the
\* transmitter is free, the character.
Putc(i) ==
  /\ pc \in {44, 45, 46, 50, 52, 53, 55, 56, 58, 59} /\ ~ halted
  /\ pc \in {44, 59} => registers[4] = INITIAL_SP /\ registers[1] = 7 * i
  /\ pc \in {45, 56, 58} => registers[4] = INITIAL_SP - 3
  /\ pc \in {46, 50, 52, 53, 55} =>
       registers[4] = INITIAL_SP - 6 /\ Holds(mem, INITIAL_SP - 6, Text("uart_hello")[i])
  /\ pc \notin {44, 59} => Holds(mem, INITIAL_SP - 3, 7 * i)
  /\ pc \in {44, 45, 56} => registers[0] = Text("uart_hello")[i]
  /\ pc \in {50, 52, 53, 55, 56} => registers[1] = IO_UARTDATA
  /\ pc = 52 => Signed24(registers[2]) < 0 \/ ~ io.uart_tx_busy
  /\ pc = 53 => c \/ ~ io.uart_tx_busy
  /\ pc \in {55, 56} => ~ io.uart_tx_busy
  /\ IF pc \in {58, 59} THEN Printed("uart_hello", i) ELSE Printed("uart_hello", i - 1)
  /\ i > 1 \/ pc \in {58, 59} => ~ io.uart_never_ready

UartEnd == pc = 42 /\ Printed("uart_hello", 6) /\ ~ io.uart_never_ready

UartInv ==
  program = "uart_hello" =>
    /\ Loaded("uart_hello") /\ Polling
    /\ (\E i \in 1 .. 6 : HelloCall(i) \/ Putc(i)) \/ UartEnd

-----------------------------------------------------------------------------
(* What a host does to a program.                                          *)

\* Before a program is loaded the machine is as it was powered up.
Powered ==
  program = "none" =>
    /\ pc = 0 /\ registers = NewRegisters /\ c = FALSE /\ ~ halted /\ ~ intis
    /\ mem = <<>> /\ io = NewIo /\ saved = <<>> /\ taken = <<>>

\* The machine is powered up without a program,
LEMMA PoweredInit == MInit => Powered
BY DEF MInit, Init, Powered

\* and stays as it is until one is loaded.
LEMMA PoweredNext == ASSUME Powered, MachineOK, [MNext]_allVars PROVE Powered'
<1>1. CASE MStep
  BY <1>1 DEF MStep, Running, Observe, Powered
<1>2. CASE MHost
  <2>1. ASSUME NEW p \in DOMAIN Image, Boot(p) PROVE Powered'
    BY <2>1, StartAssumption DEF Powered, Boot
  <2>2. ASSUME Running, UNCHANGED program PROVE Powered'
    BY <2>2 DEF Powered, Running
  <2>3. CASE MReset
    BY <2>3 DEF MReset, Reset, HardReset, Powered, Running
  <2>4. ASSUME Setup \/ (\E ch : Type(ch)) \/ (\E v : Press(v)) \/ (\E n : Call(n))
        PROVE  UNCHANGED program
    BY <2>4 DEF Setup, Type, Press, Call, history
  <2> QED BY <1>2, <2>1, <2>2, <2>3, <2>4 DEF MHost
<1>3. CASE UNCHANGED allVars
  BY <1>3 DEF Powered, allVars, vars, history
<1> QED BY <1>1, <1>2, <1>3 DEF MNext

\* A program that is loaded is in memory.
LEMMA BootLoads ==
  ASSUME NEW p \in DOMAIN Image, Boot(p)
  PROVE  /\ Loaded(p)' /\ program' = p /\ program = "none"
         /\ \A x \in DOMAIN mem' \ DOMAIN mem : x + 1 \in DOMAIN Image[p]
         /\ UNCHANGED <<pc, registers, c, halted, intis, io, saved, taken>>
<1>1. PICK img : img = Image[p]
  OBVIOUS
<1>2. img \in Seq(Byte)
  BY <1>1, HostAssumption
<1>3. DOMAIN img = 1 .. Len(img)
  BY <1>2, LenProperties
<1>4. PICK at : at = {0 + i - 1 : i \in DOMAIN img}
  OBVIOUS
<1>5. /\ mem' = [a \in DOMAIN mem \cup at |-> IF a \in at THEN img[a - 0 + 1] ELSE mem[a]]
      /\ program' = p /\ program = "none"
      /\ UNCHANGED <<pc, registers, c, halted, intis, io, saved, taken>>
  BY <1>1, <1>4 DEF Boot, LoadProgram, Running
<1>6. ASSUME NEW i \in DOMAIN img
      PROVE  i - 1 \in DOMAIN mem' /\ mem'[i - 1] = img[i]
  <2>1. 0 + i - 1 = i - 1 /\ (i - 1) - 0 + 1 = i
    BY <1>3
  <2>2. i - 1 \in at
    BY <1>4, <2>1
  <2> QED BY <1>5, <2>1, <2>2
<1>7. \A x \in DOMAIN mem' \ DOMAIN mem : x + 1 \in DOMAIN img
  <2>1. \A i \in DOMAIN img : (0 + i - 1) + 1 = i
    BY <1>3
  <2> QED BY <1>4, <1>5, <2>1
<1> QED BY <1>1, <1>5, <1>6, <1>7 DEF Loaded

\* Between steps the host only touches the receiver, the button and, before
\* the first instruction, the settings of the transmitter.
Untouched ==
  /\ UNCHANGED <<program, pc, registers, c, halted, intis, mem, saved, taken>>
  /\ DOMAIN io' = Fields
  /\ io'.uart_output = io.uart_output /\ io'.uart_tx_dropped = io.uart_tx_dropped
  /\ io'.int_enable = io.int_enable /\ io'.uart_tx_countdown = io.uart_tx_countdown
  /\ io'.uart_rx_ready \in {io.uart_rx_ready, TRUE}
  /\ \/ io'.uart_tx_busy_cycles = io.uart_tx_busy_cycles
     \/ pc = 0 /\ io'.uart_tx_busy_cycles \in BusyCycles[program]
  /\ \/ /\ io'.uart_tx_busy = io.uart_tx_busy
        /\ io'.uart_never_ready = io.uart_never_ready
     \/ pc = 0 /\ io'.uart_tx_busy = TRUE /\ io'.uart_never_ready = TRUE

\* A reset leaves memory, and a hard reset no program.
Renewed ==
  /\ pc' = 0 /\ registers' = NewRegisters /\ c' = FALSE /\ halted' = FALSE /\ intis' = FALSE
  /\ io' = NewIo /\ saved' = <<>> /\ taken' = <<>>
  /\ (program' = program /\ mem' = mem) \/ program' = "none"

\* Whatever a host does to one of the four programs is a boot, a step that
\* leaves it alone, or a reset.
LEMMA HostSteps ==
  ASSUME MachineOK, MHost,
         program \in {"none", "hello_uart", "uart_hello", "interrupt", "echo"}
  PROVE  (\E p \in DOMAIN Image : Boot(p)) \/ Untouched \/ Renewed
<1>1. CASE Running /\ \/ Setup
                      \/ \E ch \in Chars[program] : Type(ch)
                      \/ \E v \in Presses[program] : Press(v)
                      \/ \E n \in Budgets[program] : Call(n)
  <2>1. program \in DOMAIN Image /\ Entries[program] = {} /\ DOMAIN io = Fields
    BY <1>1, StartAssumption DEF MachineOK, Running, CpuOK, DevicesOK
  <2>2. UNCHANGED <<program, pc, registers, c, halted, intis, mem, saved, taken>>
    BY <1>1, <2>1 DEF Setup, Type, Press, Call, SetPc, SetBusyCycles, NeverReady, SendRx,
                      SetSwitches, Run, history
  <2>3. \/ io' = io
        \/ pc = 0 /\ \E n \in BusyCycles[program] : io' = [io EXCEPT !.uart_tx_busy_cycles = n]
        \/ pc = 0 /\ io' = [io EXCEPT !.uart_never_ready = TRUE, !.uart_tx_busy = TRUE]
        \/ \E v : io' = [io EXCEPT !.switches = v]
        \/ \E ch : io' = [io EXCEPT !.uart_rx = ch, !.uart_rx_ready = TRUE,
                                    !.uart_rx_overflow = @ \/ io.uart_rx_ready]
    BY <1>1, <2>1 DEF Setup, Type, Press, Call, SetPc, SetBusyCycles, NeverReady, SendRx,
                      SetSwitches, Run
  <2>4. CASE io' = io
    BY <2>1, <2>2, <2>4 DEF Untouched
  <2>5. CASE pc = 0 /\ \E n \in BusyCycles[program] : io' = [io EXCEPT !.uart_tx_busy_cycles = n]
    BY <2>1, <2>2, <2>5, FieldsNamed DEF Untouched
  <2>6. CASE pc = 0 /\ io' = [io EXCEPT !.uart_never_ready = TRUE, !.uart_tx_busy = TRUE]
    BY <2>1, <2>2, <2>6, FieldsNamed DEF Untouched
  <2>7. CASE \E v : io' = [io EXCEPT !.switches = v]
    BY <2>1, <2>2, <2>7, FieldsNamed DEF Untouched
  <2>8. CASE \E ch : io' = [io EXCEPT !.uart_rx = ch, !.uart_rx_ready = TRUE,
                                      !.uart_rx_overflow = @ \/ io.uart_rx_ready]
    BY <2>1, <2>2, <2>8, FieldsNamed DEF Untouched
  <2> QED BY <2>3, <2>4, <2>5, <2>6, <2>7, <2>8
<1>2. CASE MReset
  BY <1>2 DEF MReset, Reset, HardReset, Renewed
<1> QED BY <1>1, <1>2 DEF MHost

-----------------------------------------------------------------------------
(* hello_uart.s.                                                           *)

\* The texts of the two programs that poll,
LEMMA TextIs ==
  /\ Text("hello_uart") = <<72, 105, 10>>
  /\ Text("uart_hello") = <<72, 101, 108, 108, 111, 10>>
BY DEF Text

\* and their lengths.
LEMMA TextLength ==
  /\ Text("hello_uart") \in Seq(Nat) /\ Len(Text("hello_uart")) = 3
  /\ Text("uart_hello") \in Seq(Nat) /\ Len(Text("uart_hello")) = 6
<1>1. <<72, 105, 10>> \in Seq(Nat) /\ Len(<<72, 105, 10>>) = 3
  OBVIOUS
<1>2. /\ <<72, 101, 108, 108, 111, 10>> \in Seq(Nat)
      /\ Len(<<72, 101, 108, 108, 111, 10>>) = 6
  OBVIOUS
<1> QED BY <1>1, <1>2, TextIs

\* What was printed stays printed while no character is sent,
LEMMA PrintedSame ==
  ASSUME NEW p, NEW n, Printed(p, n), io'.uart_output = io.uart_output
  PROVE  Printed(p, n)'
BY DEF Printed

\* and the next character of the text makes it one longer.
LEMMA PrintedMore ==
  ASSUME NEW p, NEW n \in Nat, Printed(p, n), NEW v \in Nat, v = Text(p)[n + 1],
         io'.uart_output = Append(io.uart_output, v)
  PROVE  Printed(p, n + 1)'
<1>1. PICK s : s = io.uart_output
  OBVIOUS
<1>2. s \in Seq(Nat) /\ Len(s) = n
  BY <1>1 DEF Printed
<1>3. /\ Append(s, v) \in Seq(Nat) /\ Len(Append(s, v)) = n + 1
      /\ Append(s, v)[n + 1] = v /\ \A j \in 1 .. n : Append(s, v)[j] = s[j]
  BY <1>2, AppendProperties
<1>4. \A j \in 1 .. n + 1 : j \in 1 .. n \/ j = n + 1
  OBVIOUS
<1> QED BY <1>1, <1>3, <1>4 DEF Printed

\* A character stored in the data register of a free transmitter is sent.
LEMMA PutUart ==
  ASSUME DOMAIN io = Fields, ~ io.uart_tx_busy, NEW v \in 1 .. 255, v % 256 = v,
         mem' = MemAfter(IO_UARTDATA, <<v>>),
         io' = Tick(IoAfter(IO_UARTDATA, <<v>>))
  PROVE  /\ io'.uart_output = Append(io.uart_output, v)
         /\ io'.uart_tx_dropped = io.uart_tx_dropped /\ io'.int_enable = io.int_enable
         /\ io'.uart_never_ready = io.uart_never_ready
         /\ \A x : Same(x)
<1>1. PICK e : e = IoAfter(IO_UARTDATA, <<v>>)
  OBVIOUS
<1>2. e = Transmit(io, v)
  BY <1>1, WriteOne, DevicesAt DEF WriteIo
<1>3. /\ DOMAIN e = Fields /\ e.uart_output = Append(io.uart_output, v)
      /\ e.uart_tx_dropped = io.uart_tx_dropped /\ e.int_enable = io.int_enable
      /\ e.uart_never_ready = io.uart_never_ready
  <2>1. PICK q : q = IF v = 0 THEN io.uart_output ELSE Append(io.uart_output, v)
    OBVIOUS
  <2>2. q = Append(io.uart_output, v)
    BY <2>1
  <2>3. e = [io EXCEPT !.uart_tx = v, !.uart_output = q,
                       !.uart_tx_busy = io.uart_tx_busy_cycles > 0,
                       !.uart_tx_countdown = IF io.uart_tx_busy_cycles > 0
                                             THEN io.uart_tx_busy_cycles
                                             ELSE io.uart_tx_countdown]
    BY <1>2, <2>1 DEF Transmit
  <2> QED BY <2>2, <2>3, FieldsNamed
<1>4. Ticked(e, io')
  BY <1>1, <1>3, TickIs
<1>5. ASSUME NEW x PROVE Same(x)
  <2>1. PICK a \in Word : a = IO_UARTDATA /\ ~ IsRam(a)
    BY DevicesAt
  <2>2. /\ x \in DOMAIN MemAfter(a, <<v>>) <=> x \in DOMAIN mem
        /\ x \in DOMAIN mem => MemAfter(a, <<v>>)[x] = mem[x]
    BY <2>1, WriteDevice
  <2> QED BY <2>1, <2>2 DEF Same
<1> QED BY <1>3, <1>4, <1>5 DEF Ticked

\* What a step that neither stores nor prints keeps.
Kept(p) ==
  /\ Loaded(p)' /\ Polling' /\ \A n : Printed(p, n) => Printed(p, n)'
  /\ io'.uart_tx_busy => io.uart_tx_busy
  /\ io'.uart_never_ready = io.uart_never_ready

\* A step that writes nothing below 256 and no register of a device but the
\* receiver's keeps the program, its polling and its text.
LEMMA KeptBy ==
  ASSUME NEW p, Loaded(p), DOMAIN Image[p] \subseteq 1 .. 256, Polling,
         \A x \in 0 .. 255 : Same(x), intis' = intis,
         NEW d, DOMAIN d = Fields, \A f \in Fields \ {"uart_rx_ready"} : d[f] = io[f],
         io' = Tick(d)
  PROVE  Kept(p)
<1>1. Ticked(d, io')
  BY TickIs
<1>2. /\ d.uart_output = io.uart_output /\ d.uart_tx_dropped = io.uart_tx_dropped
      /\ d.int_enable = io.int_enable /\ d.uart_never_ready = io.uart_never_ready
      /\ d.uart_tx_busy = io.uart_tx_busy
  BY FieldsNamed
<1>3. Loaded(p)'
  BY LoadedKept
<1>4. ASSUME NEW n, Printed(p, n) PROVE Printed(p, n)'
  BY <1>1, <1>2, <1>4, PrintedSame DEF Ticked
<1>5. Polling'
  BY <1>1, <1>2 DEF Polling, Ticked
<1> QED BY <1>1, <1>2, <1>3, <1>4, <1>5 DEF Kept, Ticked

\* and of those, the ones that leave memory alone.
LEMMA KeptQuiet ==
  ASSUME NEW p, Loaded(p), DOMAIN Image[p] \subseteq 1 .. 256, Polling, MachineOK,
         UNCHANGED <<intis, mem>>, io' = Tick(io)
  PROVE  Kept(p)
<1>1. DOMAIN io = Fields /\ \A x \in 0 .. 255 : Same(x)
  BY DEF MachineOK, CpuOK, DevicesOK, Same
<1> QED BY <1>1, KeptBy

\* A push writes its three cells of the stack, far above the program.
Pushed(a, v) ==
  /\ DOMAIN mem' = DOMAIN mem \cup {a, a + 1, a + 2} /\ Holds(mem', a, v)
  /\ \A x \in DOMAIN mem \ {a, a + 1, a + 2} : mem'[x] = mem[x]

\* The three cells a push writes lie on the stack.
LEMMA PushCells ==
  ASSUME NEW n \in Depths, NEW v \in Word, mem' = MemAfter(INITIAL_SP - n, BytesOf(v))
  PROVE  \E a \in Nat : a = INITIAL_SP - n /\ a > 1000 /\ Pushed(a, v)
<1>1. PICK a \in Nat : /\ a = INITIAL_SP - n /\ a > 1000
                      /\ IsRam(a) /\ IsRam(a + 1) /\ IsRam(a + 2)
  BY StackCells
<1>2. PICK m : m = MemAfter(a, BytesOf(v))
  OBVIOUS
<1>3. /\ DOMAIN m = DOMAIN mem \cup {a, a + 1, a + 2} /\ Holds(m, a, v)
      /\ \A x \in DOMAIN mem \ {a, a + 1, a + 2} : m[x] = mem[x]
  <2>1. IsRam(a) /\ IsRam(a + 1) /\ IsRam(a + 2)
    BY <1>1
  <2> QED BY <1>2, <2>1, WriteWord
<1>4. mem' = m
  BY <1>1, <1>2
<1>5. Pushed(a, v)
  BY ONLY <1>3, <1>4 DEF Pushed
<1> QED BY <1>1, <1>5

\* So a push keeps the program, and finds its word again.
LEMMA KeptPush ==
  ASSUME NEW p, Loaded(p), DOMAIN Image[p] \subseteq 1 .. 256, Polling, MachineOK,
         NEW n \in Depths, NEW v \in Word, mem' = MemAfter(INITIAL_SP - n, BytesOf(v)),
         intis' = intis, io' = Tick(io)
  PROVE  Kept(p) /\ Holds(mem, INITIAL_SP - n, v)'
<1>1. PICK a \in Nat : a = INITIAL_SP - n /\ a > 1000 /\ Pushed(a, v)
  <2>1. n \in Depths /\ v \in Word /\ mem' = MemAfter(INITIAL_SP - n, BytesOf(v))
    OBVIOUS
  <2> QED BY ONLY <2>1, PushCells
<1>2. ASSUME NEW x \in 0 .. 255 PROVE Same(x)
  <2>1. x \notin {a, a + 1, a + 2}
    BY <1>1
  <2> QED BY <1>1, <2>1 DEF Same, Pushed
<1>3. Kept(p)
  BY <1>2, KeptBy DEF MachineOK, CpuOK, DevicesOK
<1>4. Holds(mem', INITIAL_SP - n, v)
  BY <1>1 DEF Pushed
<1> QED BY <1>3, <1>4 DEF Holds

\* and leaves the words above it alone.
LEMMA PushBelow ==
  ASSUME NEW n \in Depths, NEW v \in Word, mem' = MemAfter(INITIAL_SP - n, BytesOf(v))
  PROVE  \A w : \A d, b \in Int :
           d = INITIAL_SP - n /\ d + 3 <= b /\ Holds(mem, b, w) => Holds(mem, b, w)'
<1>1. PICK a \in Nat : a = INITIAL_SP - n /\ a > 1000 /\ Pushed(a, v)
  BY PushCells
<1>2. ASSUME NEW d \in Int, NEW b \in Int, NEW w,
             d = INITIAL_SP - n, d + 3 <= b, Holds(mem, b, w)
      PROVE  Holds(mem, b, w)'
  <2>1. a = d
    BY <1>1, <1>2
  <2>2. /\ b \notin {d, d + 1, d + 2} /\ b + 1 \notin {d, d + 1, d + 2}
        /\ b + 2 \notin {d, d + 1, d + 2}
    BY <1>2
  <2>3. Holds(mem', b, w)
    BY <1>1, <1>2, <2>1, <2>2 DEF Holds, Pushed
  <2> QED BY <2>3 DEF Holds
<1> QED BY <1>2

\* A poll of the status register.
LEMMA DoPoll ==
  ASSUME NEW p, NEW k, At(p, k), NEW x \in 0 .. 2, NEW y \in 0 .. 2,
         Short(p, k, "Lb", x, y, 1), registers[y] = IO_UARTDATA
  PROVE  /\ pc' = k + 2 /\ UNCHANGED <<c, halted, intis, mem>>
         /\ \E v \in Word : registers' = [registers EXCEPT ![x] = v]
         /\ Signed24(registers'[x]) < 0 <=> io.uart_tx_busy
         /\ \E d : /\ io' = Tick(d) /\ DOMAIN d = Fields
                   /\ d.uart_rx_ready = (io.uart_rx_ready /\ TRUE)
                   /\ \A f \in Fields \ {"uart_rx_ready"} : d[f] = io[f]
<1>1. PICK a \in Word : a = registers[y] + 1 /\ a # IO_UARTDATA
                        /\ ReadByte(a) = Status(io)
  BY DevicesAt, ReadUart
<1>2. Moves([registers EXCEPT ![x] = SignExtend8(ReadByte(a))], k + 2,
            [io EXCEPT !.uart_rx_ready = @ /\ a # IO_UARTDATA])
  <2>1. 1 \in 0 .. 127 /\ x \in 0 .. 6 /\ y \in 0 .. 7
    OBVIOUS
  <2>2. PICK n \in 0 .. 127 : n = 1
    OBVIOUS
  <2>3. a = registers[y] + n /\ Short(p, k, "Lb", x, y, n)
    BY <1>1, <2>2
  <2> QED BY <1>1, <2>1, <2>3, DoLb
<1>3. PICK v : v = SignExtend8(Status(io))
  OBVIOUS
<1>4. v \in Word /\ (Signed24(v) < 0 <=> io.uart_tx_busy)
  BY <1>3, StatusSign
<1>5. \E d : /\ io' = Tick(d) /\ DOMAIN d = Fields
             /\ d.uart_rx_ready = (io.uart_rx_ready /\ TRUE)
             /\ \A f \in Fields \ {"uart_rx_ready"} : d[f] = io[f]
  <2>1. DOMAIN io = Fields
    BY DEF At, CpuOK, DevicesOK
  <2>2. PICK b : b = (a # IO_UARTDATA) /\ b = TRUE
    BY <1>1
  <2> QED BY <1>2, <2>1, <2>2, AckIs DEF Moves
<1>6. registers' = [registers EXCEPT ![x] = v] /\ registers'[x] = v
  <2>1. x \in DOMAIN registers
    BY DEF At, CpuOK
  <2> QED BY <1>1, <1>2, <1>3, <2>1 DEF Moves
<1> QED BY <1>2, <1>4, <1>5, <1>6 DEF Moves

\* A poll keeps the program, and tells whether the transmitter is busy.
LEMMA KeptPoll ==
  ASSUME NEW p, NEW k, At(p, k), DOMAIN Image[p] \subseteq 1 .. 256, Polling, MachineOK,
         NEW x \in {1, 2}, NEW y \in 0 .. 2, Short(p, k, "Lb", x, y, 1), registers[y] = IO_UARTDATA
  PROVE  /\ Kept(p) /\ pc' = k + 2 /\ UNCHANGED <<c, halted, intis, mem>>
         /\ \E v \in Word : registers' = [registers EXCEPT ![x] = v]
         /\ Signed24(registers'[x]) < 0 \/ ~ io'.uart_tx_busy
<1>1. x \in 0 .. 2
  OBVIOUS
<1>2. /\ pc' = k + 2 /\ UNCHANGED <<c, halted, intis, mem>>
      /\ \E v \in Word : registers' = [registers EXCEPT ![x] = v]
      /\ Signed24(registers'[x]) < 0 <=> io.uart_tx_busy
  BY <1>1, DoPoll
<1>3. PICK d : /\ io' = Tick(d) /\ DOMAIN d = Fields
               /\ \A f \in Fields \ {"uart_rx_ready"} : d[f] = io[f]
  BY <1>1, DoPoll
<1>4. Loaded(p) /\ \A z \in 0 .. 255 : Same(z)
  BY <1>2 DEF Same, At
<1>5. Kept(p)
  BY <1>2, <1>3, <1>4, KeptBy
<1> QED BY <1>2, <1>5 DEF Kept

\* The programs are short enough to lie below 256.
LEMMA ImageSize ==
  ASSUME NEW p \in DOMAIN Image, NEW n \in 0 .. 256, Len(Image[p]) = n
  PROVE  DOMAIN Image[p] \subseteq 1 .. 256
<1>1. PICK img : img = Image[p]
  OBVIOUS
<1>2. img \in Seq(Byte) /\ Len(img) = n
  BY <1>1, HostAssumption
<1>3. DOMAIN img = 1 .. n
  BY <1>2, LenProperties
<1>4. 1 .. n \subseteq 1 .. 256
  <2>1. n \in 0 .. 256
    OBVIOUS
  <2> QED BY ONLY <2>1
<1> QED BY ONLY <1>1, <1>3, <1>4

\* While a polling program runs, it is the next instruction that is executed.
LEMMA PollingAt ==
  ASSUME NEW p, p \in DOMAIN Image, Loaded(p), Polling, MachineOK, MStep, ~ halted
  PROVE  At(p, pc)
<1>1. ~ InterruptPending
  BY DEF Polling, InterruptPending
<1>2. pc \in Nat
  BY WordIs DEF MachineOK, CpuOK
<1> QED BY <1>1, <1>2 DEF At, MachineOK, MStep

\* A machine that has halted stays as it is.
LEMMA HaltedStep ==
  ASSUME MStep, halted
  PROVE  UNCHANGED <<program, pc, registers, c, halted, intis, mem, io, budget>> \/
         UNCHANGED <<program, pc, registers, c, halted, intis, mem, io>>
BY DEF MStep, Step, StepHalted, Interrupt, HaltAtZero, Nop, InvalidInstruction, Execute, Compute,
       JumpAbsolute, Compare, Bra, BranchIf, Jal, Jmp, LoadByte, LoadWord, Store, Pop, Push,
       Fetching, Executing, Observe

\* hello_uart.s lies below 256.
LEMMA HelloLines ==
  ASSUME "hello_uart" \in DOMAIN Image
  PROVE  HelloUart /\ DOMAIN Image["hello_uart"] \subseteq 1 .. 256
<1>1. HelloUart /\ Len(Image["hello_uart"]) = 37
  BY ListingAssumption DEF HelloUart
<1>2. PICK n \in 0 .. 256 : n = 37
  OBVIOUS
<1>3. Len(Image["hello_uart"]) = n
  BY <1>1, <1>2
<1> QED BY <1>1, <1>3, ImageSize

\* The first three lines set up the frame and the address of the UART.
LEMMA HelloStartStep ==
  ASSUME MachineOK, MStep, "hello_uart" \in DOMAIN Image, HelloUart, Loaded("hello_uart"),
         Polling, HelloStart
  PROVE  Loaded("hello_uart")' /\ Polling' /\ (HelloStart' \/ HelloPut(1)')
<1> DEFINE p == "hello_uart"
<1>1. At(p, pc) /\ DOMAIN Image[p] \subseteq 1 .. 256
  <2>1. ~ halted
    BY DEF HelloStart
  <2> QED BY <2>1, PollingAt, HelloLines
<1>2. registers \in [0 .. 7 -> Word]
  BY DEF MachineOK, CpuOK
<1>3. CASE pc = 0
  <2>1. PICK a \in Nat : /\ a = INITIAL_SP - 3 /\ INITIAL_SP = a + 3
                        /\ IsRam(a) /\ IsRam(a + 1) /\ IsRam(a + 2)
    BY SomeDepths, StackCells, StackTop
  <2>2. Plain(p, 0, "Push", 3, 4) /\ At(p, 0) /\ registers[4] = a + 3
    BY <1>1, <1>3, <2>1 DEF HelloUart, HelloStart
  <2>3. /\ registers' = [registers EXCEPT ![4] = a]
        /\ pc' = 0 + 1 /\ io' = Tick(io)
        /\ mem' = MemAfter(a, BytesOf(registers[3]))
        /\ UNCHANGED <<c, halted, intis>>
    <3>1. 3 \in 0 .. 7 \ {4}
      OBVIOUS
    <3> QED BY <2>1, <2>2, <3>1, DoPush
  <2>4. Kept(p)
    <3>1. /\ mem' = MemAfter(INITIAL_SP - 3, BytesOf(registers[3])) /\ registers[3] \in Word
          /\ 3 \in Depths
      BY <1>2, <2>1, <2>3, SomeDepths
    <3> QED BY <1>1, <2>3, <3>1, KeptPush
  <2>5. registers'[4] = INITIAL_SP - 3 /\ pc' = 1
    BY <1>2, <2>1, <2>3
  <2> QED BY <2>3, <2>4, <2>5 DEF HelloStart, Kept
<1>4. CASE pc = 1
  <2>1. Moves([registers EXCEPT ![3] = registers[4]], 1 + 1, io)
    <3>1. Plain(p, 1, "Mov", 3, 4) /\ At(p, 1) /\ 3 \in 0 .. 6 /\ 4 \in 0 .. 7 /\ 4 # 5
      BY <1>1, <1>4 DEF HelloUart
    <3> QED BY <3>1, DoMov
  <2>2. Kept(p)
    BY <1>1, <2>1, KeptQuiet DEF Moves
  <2> QED BY <1>2, <1>4, <2>1, <2>2 DEF HelloStart, Kept, Moves
<1>5. CASE pc = 2
  <2>1. Moves([registers EXCEPT ![2] = IO_UARTDATA], 2 + 4, io)
    <3>1. Long(p, 2, "La", 2, 7, IO_UARTDATA) /\ At(p, 2) /\ 2 \in 0 .. 6
      BY <1>1, <1>5 DEF HelloUart
    <3> QED BY <3>1, DoLa
  <2>2. Kept(p)
    BY <1>1, <2>1, KeptQuiet DEF Moves
  <2>3. 9 * 1 - 3 = 6 /\ 1 - 1 = 0
    OBVIOUS
  <2> QED BY <1>2, <1>5, <2>1, <2>2, <2>3 DEF HelloStart, HelloPut, Kept, Moves
<1> QED BY <1>3, <1>4, <1>5 DEF HelloStart

\* Character i: load it, poll, and store it once the transmitter is free.
LEMMA HelloPutStep ==
  ASSUME MachineOK, MStep, "hello_uart" \in DOMAIN Image, HelloUart, Loaded("hello_uart"),
         Polling, NEW i \in 1 .. 3, HelloPut(i)
  PROVE  Loaded("hello_uart")' /\ Polling' /\ (HelloPut(i)' \/ (i < 3 /\ HelloPut(i + 1)') \/ HelloEnd')
<1> DEFINE p == "hello_uart"
<1>1. At(p, pc) /\ DOMAIN Image[p] \subseteq 1 .. 256
  <2>1. ~ halted
    BY DEF HelloPut
  <2> QED BY <2>1, PollingAt, HelloLines
<1>2. registers \in [0 .. 7 -> Word] /\ registers[5] = 0
  BY DEF MachineOK, CpuOK
<1>3. PICK k \in Nat : k = 9 * i - 3
  OBVIOUS
<1>4. PICK v \in 1 .. 255 : v = Text(p)[i] /\ v % 256 = v
  <2>1. /\ Text(p)[1] = 72 /\ Text(p)[2] = 105 /\ Text(p)[3] = 10
    BY TextIs
  <2>2. 72 % 256 = 72 /\ 105 % 256 = 105 /\ 10 % 256 = 10
    OBVIOUS
  <2> QED BY <2>1, <2>2
<1>5. /\ Short(p, k, "Lc", 0, 7, v)
      /\ Short(p, k + 2, "Lb", 1, 2, 1)
      /\ Plain(p, k + 4, "Cls", 1, 5)
      /\ Branch(p, k + 5, "Brt", k + 2)
      /\ Short(p, k + 7, "Sb", 0, 2, 0)
  BY <1>3, <1>4 DEF HelloUart
<1>6. /\ pc \in {k, k + 2, k + 4, k + 5, k + 7} /\ ~ halted
      /\ registers[2] = IO_UARTDATA /\ registers[3] = INITIAL_SP - 3
      /\ pc # k => registers[0] = v
      /\ pc = k + 4 => Signed24(registers[1]) < 0 \/ ~ io.uart_tx_busy
      /\ pc = k + 5 => c \/ ~ io.uart_tx_busy
      /\ pc = k + 7 => ~ io.uart_tx_busy
      /\ Printed(p, i - 1)
      /\ i > 1 => ~ io.uart_never_ready
  BY <1>3, <1>4 DEF HelloPut
<1>7. ASSUME /\ pc' \in {k, k + 2, k + 4, k + 5, k + 7} /\ ~ halted'
             /\ registers'[2] = IO_UARTDATA /\ registers'[3] = INITIAL_SP - 3
             /\ pc' # k => registers'[0] = v
             /\ pc' = k + 4 => Signed24(registers'[1]) < 0 \/ ~ io'.uart_tx_busy
             /\ pc' = k + 5 => c' \/ ~ io'.uart_tx_busy
             /\ pc' = k + 7 => ~ io'.uart_tx_busy
             /\ Printed(p, i - 1)'
             /\ i > 1 => ~ io'.uart_never_ready
      PROVE  HelloPut(i)'
  BY <1>3, <1>4, <1>7 DEF HelloPut
<1>8. Printed(p, i - 1) /\ Kept(p) => Printed(p, i - 1)'
  BY DEF Kept
<1>9. CASE pc = k
  <2>1. Moves([registers EXCEPT ![0] = v], k + 2, io)
    <3>1. At(p, k) /\ 0 \in 0 .. 6
      BY <1>1, <1>9
    <3> QED BY <1>5, <3>1, DoLc
  <2>2. Kept(p)
    BY <1>1, <2>1, KeptQuiet DEF Moves
  <2>3. /\ registers'[0] = v /\ registers'[2] = registers[2] /\ registers'[3] = registers[3]
        /\ pc' = k + 2 /\ halted' = halted
    BY <1>2, <2>1 DEF Moves
  <2>4. HelloPut(i)'
    <3>1. k + 2 # k + 4 /\ k + 2 # k + 5 /\ k + 2 # k + 7
      OBVIOUS
    <3> QED BY <1>6, <1>7, <1>8, <2>2, <2>3, <3>1 DEF Kept
  <2> QED BY <2>2, <2>4 DEF Kept
<1>10. CASE pc = k + 2
  <2>1. /\ Kept(p) /\ pc' = (k + 2) + 2 /\ UNCHANGED <<c, halted, intis, mem>>
        /\ \E w \in Word : registers' = [registers EXCEPT ![1] = w]
        /\ Signed24(registers'[1]) < 0 \/ ~ io'.uart_tx_busy
    <3>1. At(p, k + 2) /\ 1 \in {1, 2} /\ 2 \in 0 .. 2
      BY <1>1, <1>10
    <3> QED BY <1>1, <1>5, <1>6, <3>1, KeptPoll
  <2>2. /\ registers'[0] = registers[0] /\ registers'[2] = registers[2]
        /\ registers'[3] = registers[3]
    BY <1>2, <2>1
  <2>3. pc' = k + 4 /\ k + 4 # k /\ k + 4 # k + 5 /\ k + 4 # k + 7 /\ k + 2 # k
    BY <2>1
  <2>4. HelloPut(i)'
    BY <1>6, <1>7, <1>8, <1>10, <2>1, <2>2, <2>3 DEF Kept
  <2> QED BY <2>1, <2>4 DEF Kept
<1>11. CASE pc = k + 4
  <2>1. /\ c' = (Signed24(registers[1]) < Signed24(registers[5]))
        /\ pc' = k + 4 + 1 /\ io' = Tick(io)
        /\ UNCHANGED <<registers, halted, intis, mem>>
    <3>1. At(p, k + 4) /\ "Cls" \in {"Ceq", "Cls", "Clu"}
      BY <1>1, <1>11
    <3> QED BY <1>5, <3>1, DoCompare
  <2>2. Kept(p)
    BY <1>1, <2>1, KeptQuiet
  <2>3. Signed24(0) = 0
    BY DEF Signed24
  <2>4. pc' = k + 5 /\ k + 5 # k /\ k + 5 # k + 4 /\ k + 5 # k + 7 /\ k + 4 # k
    BY <2>1
  <2>5. c' \/ ~ io.uart_tx_busy
    BY <1>2, <1>6, <1>11, <2>1, <2>3
  <2>6. HelloPut(i)'
    BY <1>6, <1>7, <1>8, <1>11, <2>1, <2>2, <2>4, <2>5 DEF Kept
  <2> QED BY <2>2, <2>6 DEF Kept
<1>12. CASE pc = k + 5
  <2>1. Moves(registers, IF c = ("Brt" = "Brt") THEN k + 2 ELSE k + 5 + 2, io)
    <3>1. At(p, k + 5) /\ "Brt" \in {"Brf", "Brt"}
      BY <1>1, <1>12
    <3> QED BY <1>5, <3>1, DoBranchIf
  <2>2. Kept(p)
    BY <1>1, <2>1, KeptQuiet DEF Moves
  <2>3. /\ registers' = registers /\ halted' = halted
        /\ pc' = IF c THEN k + 2 ELSE k + 7
    BY <2>1 DEF Moves, MachineOK, CpuOK
  <2>4. k + 2 # k + 4 /\ k + 2 # k + 5 /\ k + 2 # k + 7 /\ k + 7 # k /\ k + 7 # k + 4
        /\ k + 7 # k + 5 /\ k + 5 # k
    OBVIOUS
  <2>5. HelloPut(i)'
    BY <1>6, <1>7, <1>8, <1>12, <2>2, <2>3, <2>4 DEF Kept
  <2> QED BY <2>2, <2>5 DEF Kept
<1>13. CASE pc = k + 7
  <2>1. registers[2] = IO_UARTDATA /\ registers[0] = v /\ ~ io.uart_tx_busy
        /\ IO_UARTDATA \in Word
    <3>1. k + 7 # k
      OBVIOUS
    <3> QED BY <1>6, <1>13, <3>1, DevicesAt
  <2>2. /\ pc' = k + 7 + 2 /\ io' = Tick(IoAfter(IO_UARTDATA, <<v>>))
        /\ mem' = MemAfter(IO_UARTDATA, <<v>>)
        /\ UNCHANGED <<registers, c, halted, intis>>
    <3>1. At(p, k + 7) /\ 0 \in 0 .. 7 /\ 2 \in 0 .. 7
      BY <1>1, <1>13
    <3>2. /\ pc' = k + 7 + 2 /\ io' = Tick(IoAfter(registers[2], <<registers[0] % 256>>))
          /\ mem' = MemAfter(registers[2], <<registers[0] % 256>>)
          /\ UNCHANGED <<registers, c, halted, intis>>
      BY <1>5, <2>1, <3>1, DoSb
    <3> QED BY <1>4, <2>1, <3>2
  <2>3. /\ io'.uart_output = Append(io.uart_output, v)
        /\ io'.uart_tx_dropped = io.uart_tx_dropped /\ io'.int_enable = io.int_enable
        /\ io'.uart_never_ready = io.uart_never_ready
        /\ \A x : Same(x)
    <3>1. DOMAIN io = Fields
      BY DEF MachineOK, CpuOK, DevicesOK
    <3> QED BY <1>4, <2>1, <2>2, <3>1, PutUart
  <2>4. ~ io.uart_never_ready
    BY <2>1 DEF Polling
  <2>5. Loaded(p)' /\ Polling'
    <3>1. Loaded(p)'
      BY <1>1, <2>3, LoadedKept
    <3>2. Polling'
      BY <2>2, <2>3, <2>4 DEF Polling
    <3> QED BY <3>1, <3>2
  <2>6. Printed(p, i)'
    <3>1. PICK n \in Nat : n = i - 1 /\ n + 1 = i
      OBVIOUS
    <3>2. Printed(p, n) /\ v \in Nat /\ v = Text(p)[n + 1]
      BY <1>4, <1>6, <3>1
    <3>3. Printed(p, n + 1)'
      BY <2>3, <3>2, PrintedMore
    <3> QED BY <3>1, <3>3
  <2>7. CASE i < 3
    <3>1. PICK j \in 1 .. 3 : j = i + 1 /\ j > 1 /\ j - 1 = i /\ pc' = 9 * j - 3
      BY <1>3, <2>2, <2>7
    <3>2. 9 * j - 3 \in Int /\ 9 * j - 3 # 9 * j - 3 + 4 /\ 9 * j - 3 # 9 * j - 3 + 5
          /\ 9 * j - 3 # 9 * j - 3 + 7
      OBVIOUS
    <3>3. HelloPut(j)'
      BY <1>6, <2>2, <2>3, <2>4, <2>6, <3>1, <3>2 DEF HelloPut
    <3> QED BY <2>5, <2>7, <3>1, <3>3
  <2>8. CASE i = 3
    <3>1. pc' = 33
      BY <1>3, <2>2, <2>8
    <3>2. HelloEnd'
      BY <1>6, <2>2, <2>3, <2>4, <2>6, <2>8, <3>1 DEF HelloEnd
    <3> QED BY <2>5, <3>2
  <2> QED BY <2>7, <2>8
<1> QED BY <1>6, <1>9, <1>10, <1>11, <1>12, <1>13

\* The last three lines restore the frame and halt.
LEMMA HelloEndStep ==
  ASSUME MachineOK, MStep, "hello_uart" \in DOMAIN Image, HelloUart, Loaded("hello_uart"),
         Polling, HelloEnd
  PROVE  Loaded("hello_uart")' /\ Polling' /\ HelloEnd'
<1> DEFINE p == "hello_uart"
<1>1. DOMAIN Image[p] \subseteq 1 .. 256
  BY HelloLines
<1>2. registers \in [0 .. 7 -> Word]
  BY DEF MachineOK, CpuOK
<1>3. CASE halted
  <2>1. UNCHANGED <<pc, registers, c, halted, intis, mem, io>>
    BY <1>3, HaltedStep
  <2> QED BY <2>1 DEF HelloEnd, Loaded, Polling, Printed
<1>4. CASE pc = 33 /\ ~ halted
  <2>1. Moves([registers EXCEPT ![4] = registers[3]], 33 + 1, io)
    <3>1. Plain(p, 33, "Mov", 4, 3) /\ At(p, 33) /\ 4 \in 0 .. 6 /\ 3 \in 0 .. 7 /\ 3 # 5
      <4>1. At(p, pc)
        BY <1>4, PollingAt
      <4> QED BY <1>4, <4>1 DEF HelloUart
    <3> QED BY <3>1, DoMov
  <2>2. Kept(p)
    BY <1>1, <2>1, KeptQuiet DEF Moves
  <2> QED BY <1>2, <1>4, <2>1, <2>2 DEF HelloEnd, Kept, Moves
<1>5. CASE pc = 34 /\ ~ halted
  <2>1. PICK a \in Nat : a = INITIAL_SP - 3 /\ IsRam(a) /\ IsRam(a + 1) /\ IsRam(a + 2)
    BY SomeDepths, StackCells
  <2>2. Moves([registers EXCEPT ![3] = ReadWord(a), ![4] = a + 3], 34 + 1, io)
    <3>1. Plain(p, 34, "Pop", 3, 4) /\ At(p, 34) /\ 3 \in 0 .. 6 \ {4} /\ registers[4] = a
      <4>1. At(p, pc)
        BY <1>5, PollingAt
      <4> QED BY <1>5, <2>1, <4>1 DEF HelloUart, HelloEnd
    <3> QED BY <2>1, <3>1, DoPop
  <2>3. Kept(p)
    BY <1>1, <2>2, KeptQuiet DEF Moves
  <2> QED BY <1>5, <2>2, <2>3 DEF HelloEnd, Kept, Moves
<1>6. CASE pc = 35 /\ ~ halted
  <2>1. /\ pc' = 35 /\ io' = Tick(io) /\ UNCHANGED <<registers, c, intis, mem>>
    <3>1. Branch(p, 35, "Bra", 35) /\ At(p, 35)
      <4>1. At(p, pc)
        BY <1>6, PollingAt
      <4> QED BY <1>6, <4>1 DEF HelloUart
    <3> QED BY <3>1, DoBra
  <2>2. Kept(p)
    BY <1>1, <2>1, KeptQuiet
  <2> QED BY <1>6, <2>1, <2>2 DEF HelloEnd, Kept
<1> QED BY <1>3, <1>4, <1>5, <1>6 DEF HelloEnd

\* Only a boot changes the program to another one.
LEMMA ProgramKept ==
  ASSUME [MNext]_allVars, program' # "none", program' # program
  PROVE  \E p \in DOMAIN Image : Boot(p)
<1>1. CASE MStep
  BY <1>1 DEF MStep, Observe
<1>2. CASE MHost
  <2>1. Setup \/ (\E ch : Type(ch)) \/ (\E v : Press(v)) \/ (\E n : Call(n)) => UNCHANGED program
    BY DEF Setup, Type, Press, Call, history
  <2>2. MReset => program' = program \/ program' = "none"
    BY DEF MReset
  <2> QED BY <1>2, <2>1, <2>2 DEF MHost
<1>3. CASE UNCHANGED allVars
  BY <1>3 DEF allVars, history
<1> QED BY <1>1, <1>2, <1>3 DEF MNext

\* What the start of a polling program is: after a boot, or after a reset.
LEMMA PollingStart ==
  ASSUME NEW p, io' = NewIo, ~ intis'
  PROVE  Polling' /\ Printed(p, 0)'
BY DEF NewIo, Polling, Printed

\* What the host leaves of it.
LEMMA PollingUntouched ==
  ASSUME Untouched, Polling
  PROVE  /\ Polling'
         /\ \A p : Loaded(p) => Loaded(p)'
         /\ \A p, n : Printed(p, n) => Printed(p, n)'
<1>1. Polling'
  BY DEF Untouched, Polling
<1>2. ASSUME NEW p, Loaded(p) PROVE Loaded(p)'
  BY <1>2 DEF Untouched, Loaded
<1>3. ASSUME NEW p, NEW n, Printed(p, n) PROVE Printed(p, n)'
  BY <1>3, PrintedSame DEF Untouched
<1> QED BY <1>1, <1>2, <1>3

\* HelloInv is inductive.
LEMMA HelloNext ==
  ASSUME HelloInv, Powered, MachineOK, [MNext]_allVars
  PROVE  HelloInv'
<1> DEFINE p == "hello_uart"
<1> SUFFICES ASSUME program' = p PROVE Loaded(p)' /\ Polling' /\ (HelloStart \/ (\E i \in 1 .. 3 : HelloPut(i)) \/ HelloEnd)'
  BY DEF HelloInv
<1>1. CASE \E q \in DOMAIN Image : Boot(q)
  <2>1. /\ Loaded(p)' /\ program = "none"
        /\ UNCHANGED <<pc, registers, c, halted, intis, io>>
    BY <1>1, BootLoads
  <2>2. pc' = 0 /\ registers' = NewRegisters /\ ~ halted' /\ ~ intis' /\ io' = NewIo
    BY <2>1 DEF Powered
  <2>3. registers'[4] = INITIAL_SP
    BY <2>2 DEF NewRegisters
  <2> QED BY <2>1, <2>2, <2>3, PollingStart DEF HelloStart
<1>2. CASE program = p
  <2>1. /\ Loaded(p) /\ Polling /\ p \in DOMAIN Image /\ HelloUart
        /\ HelloStart \/ (\E i \in 1 .. 3 : HelloPut(i)) \/ HelloEnd
    BY <1>2, HelloLines DEF HelloInv, MachineOK
  <2>2. CASE MStep
    <3>1. CASE HelloStart
      BY <2>1, <2>2, <3>1, HelloStartStep
    <3>2. ASSUME NEW i \in 1 .. 3, HelloPut(i)
          PROVE  Loaded(p)' /\ Polling' /\ (HelloStart \/ (\E j \in 1 .. 3 : HelloPut(j)) \/ HelloEnd)'
      <4>1. Loaded(p)' /\ Polling' /\ (HelloPut(i)' \/ (i < 3 /\ HelloPut(i + 1)') \/ HelloEnd')
        BY <2>1, <2>2, <3>2, HelloPutStep
      <4>2. i < 3 => i + 1 \in 1 .. 3
        OBVIOUS
      <4> QED BY <4>1, <4>2
    <3>3. CASE HelloEnd
      BY <2>1, <2>2, <3>3, HelloEndStep
    <3> QED BY <2>1, <3>1, <3>2, <3>3
  <2>3. CASE Untouched
    <3>1. CASE HelloStart
      BY <2>1, <2>3, <3>1, PollingUntouched DEF HelloStart, Untouched
    <3>2. ASSUME NEW i \in 1 .. 3, HelloPut(i) PROVE HelloPut(i)'
      <4>1. pc # 0
        BY <3>2 DEF HelloPut
      <4>2. /\ UNCHANGED <<pc, registers, c, halted>> /\ io'.uart_tx_busy = io.uart_tx_busy
            /\ io'.uart_never_ready = io.uart_never_ready
            /\ Printed(p, i - 1) => Printed(p, i - 1)'
        BY <2>1, <2>3, <4>1, PollingUntouched DEF Untouched
      <4> QED BY <3>2, <4>2 DEF HelloPut
    <3>3. ASSUME HelloEnd PROVE HelloEnd'
      <4>1. pc # 0
        BY <3>3 DEF HelloEnd
      <4>2. /\ UNCHANGED <<pc, registers, halted>> /\ io'.uart_never_ready = io.uart_never_ready
            /\ Printed(p, 3) => Printed(p, 3)'
        BY <2>1, <2>3, <4>1, PollingUntouched DEF Untouched
      <4> QED BY <3>3, <4>2 DEF HelloEnd
    <3> QED BY <2>1, <2>3, <3>1, <3>2, <3>3, PollingUntouched
  <2>4. CASE Renewed
    <3>1. /\ pc' = 0 /\ registers' = NewRegisters /\ ~ halted' /\ ~ intis' /\ io' = NewIo
          /\ mem' = mem
      BY <2>4 DEF Renewed
    <3>2. registers'[4] = INITIAL_SP
      BY <3>1 DEF NewRegisters
    <3>3. Loaded(p)'
      BY <2>1, <3>1 DEF Loaded
    <3> QED BY <3>1, <3>2, <3>3, PollingStart DEF HelloStart
  <2>5. CASE UNCHANGED allVars
    <3>1. HelloInv'
      BY <2>5 DEF HelloInv, HelloStart, HelloPut, HelloEnd, Loaded, Polling, Printed, allVars, vars, history
    <3> QED BY <3>1 DEF HelloInv
  <2> QED BY <1>2, <2>2, <2>3, <2>4, <2>5, <1>1, HostSteps DEF MNext
<1> QED BY <1>1, <1>2, ProgramKept

\* The lines of uart_hello.s, character by character.
LEMMA UartLines ==
  ASSUME "uart_hello" \in DOMAIN Image
  PROVE  UartHello /\ DOMAIN Image["uart_hello"] \subseteq 1 .. 256
<1>1. UartHello /\ Len(Image["uart_hello"]) = 60
  BY ListingAssumption DEF UartHello
<1>2. PICK n \in 0 .. 256 : n = 60
  OBVIOUS
<1>3. Len(Image["uart_hello"]) = n
  BY <1>1, <1>2
<1> QED BY <1>1, <1>3, ImageSize

\* The characters of uart_hello.s are bytes other than 0.
LEMMA UartText ==
  ASSUME NEW i \in 1 .. 6
  PROVE  \E v \in 1 .. 255 : v = Text("uart_hello")[i] /\ v % 256 = v /\ v \in Word
<1>1. /\ Text("uart_hello")[1] = 72 /\ Text("uart_hello")[2] = 101 /\ Text("uart_hello")[3] = 108
      /\ Text("uart_hello")[4] = 108 /\ Text("uart_hello")[5] = 111 /\ Text("uart_hello")[6] = 10
  BY TextIs
<1>2. /\ 72 % 256 = 72 /\ 101 % 256 = 101 /\ 108 % 256 = 108
      /\ 111 % 256 = 111 /\ 10 % 256 = 10
  OBVIOUS
<1>3. \A v \in 1 .. 255 : v \in Word
  BY WordIs
<1> QED BY <1>1, <1>2, <1>3

\* Before putc: load the character and the address, and call.
LEMMA HelloCallStep ==
  ASSUME MachineOK, MStep, "uart_hello" \in DOMAIN Image, UartHello, Loaded("uart_hello"),
         Polling, NEW i \in 1 .. 6, HelloCall(i)
  PROVE  Loaded("uart_hello")' /\ Polling' /\ (HelloCall(i)' \/ Putc(i)')
<1> DEFINE p == "uart_hello"
<1>1. At(p, pc) /\ DOMAIN Image[p] \subseteq 1 .. 256
  <2>1. ~ halted
    BY DEF HelloCall
  <2> QED BY <2>1, PollingAt, UartLines
<1>2. registers \in [0 .. 7 -> Word]
  BY DEF MachineOK, CpuOK
<1>3. PICK k \in Nat : k = 7 * i - 7
  OBVIOUS
<1>4. PICK v \in 1 .. 255 : v = Text(p)[i]
  BY UartText
<1>5. /\ Short(p, k, "Lc", 0, 7, v)
      /\ Long(p, k + 2, "La", 2, 7, 44)
      /\ Plain(p, k + 6, "Jal", 1, 2)
  BY <1>3, <1>4 DEF UartHello
<1>6. /\ pc \in {k, k + 2, k + 6} /\ ~ halted
      /\ registers[4] = INITIAL_SP
      /\ pc # k => registers[0] = v
      /\ pc = k + 6 => registers[2] = 44
      /\ Printed(p, i - 1)
      /\ i > 1 => ~ io.uart_never_ready
  BY <1>3, <1>4 DEF HelloCall
<1>7. Printed(p, i - 1) /\ Kept(p) => Printed(p, i - 1)'
  BY DEF Kept
<1>8. CASE pc = k
  <2>1. Moves([registers EXCEPT ![0] = v], k + 2, io)
    <3>1. At(p, k) /\ 0 \in 0 .. 6
      BY <1>1, <1>8
    <3> QED BY <1>5, <3>1, DoLc
  <2>2. Kept(p)
    BY <1>1, <2>1, KeptQuiet DEF Moves
  <2>3. registers'[0] = v /\ registers'[4] = registers[4] /\ pc' = k + 2 /\ halted' = halted
    BY <1>2, <2>1 DEF Moves
  <2>4. HelloCall(i)'
    <3>1. k + 2 # k + 6
      OBVIOUS
    <3> QED BY <1>3, <1>4, <1>6, <1>7, <2>2, <2>3, <3>1 DEF Kept, HelloCall
  <2> QED BY <2>2, <2>4 DEF Kept
<1>9. CASE pc = k + 2
  <2>1. Moves([registers EXCEPT ![2] = 44], k + 2 + 4, io)
    <3>1. At(p, k + 2) /\ 2 \in 0 .. 6
      BY <1>1, <1>9
    <3> QED BY <1>5, <3>1, DoLa
  <2>2. Kept(p)
    BY <1>1, <2>1, KeptQuiet DEF Moves
  <2>3. /\ registers'[0] = registers[0] /\ registers'[2] = 44 /\ registers'[4] = registers[4]
        /\ halted' = halted
    BY <1>2, <2>1 DEF Moves
  <2>4. pc' = k + 6 /\ k + 2 # k
    BY <2>1 DEF Moves
  <2>5. HelloCall(i)'
    BY <1>3, <1>4, <1>6, <1>7, <1>9, <2>2, <2>3, <2>4 DEF Kept, HelloCall
  <2> QED BY <2>2, <2>5 DEF Kept
<1>10. CASE pc = k + 6
  <2>1. Moves([registers EXCEPT ![1] = k + 6 + 1], registers[2], io)
    <3>1. At(p, k + 6) /\ 1 \in 0 .. 6 /\ 2 \in 0 .. 7
      BY <1>1, <1>10
    <3> QED BY <1>5, <3>1, DoJal
  <2>2. Kept(p)
    BY <1>1, <2>1, KeptQuiet DEF Moves
  <2>3. k + 6 + 1 = 7 * i /\ k + 6 # k
    BY <1>3
  <2>4. registers[0] = v /\ registers[2] = 44
    BY <1>6, <1>10, <2>3
  <2>5. /\ registers'[0] = v /\ registers'[1] = 7 * i /\ registers'[4] = INITIAL_SP
        /\ pc' = 44 /\ halted' = halted
    BY <1>2, <1>6, <2>1, <2>3, <2>4 DEF Moves
  <2>6. Putc(i)'
    BY <1>4, <1>6, <1>7, <2>2, <2>5 DEF Kept, Putc
  <2> QED BY <2>2, <2>6 DEF Kept
<1> QED BY <1>6, <1>8, <1>9, <1>10

\* putc: save the return address and the character, poll, and store.
LEMMA PutcStep ==
  ASSUME MachineOK, MStep, "uart_hello" \in DOMAIN Image, UartHello, Loaded("uart_hello"),
         Polling, NEW i \in 1 .. 6, Putc(i)
  PROVE  /\ Loaded("uart_hello")' /\ Polling'
         /\ Putc(i)' \/ (i < 6 /\ HelloCall(i + 1)') \/ UartEnd'
<1> DEFINE p == "uart_hello"
<1>1. At(p, pc) /\ DOMAIN Image[p] \subseteq 1 .. 256
  <2>1. ~ halted
    BY DEF Putc
  <2> QED BY <2>1, PollingAt, UartLines
<1>2. registers \in [0 .. 7 -> Word] /\ registers[5] = 0
  BY DEF MachineOK, CpuOK
<1>3. PICK v \in 1 .. 255 : v = Text(p)[i] /\ v % 256 = v /\ v \in Word
  BY UartText
<1>4. PICK r \in Word : r = 7 * i
  BY WordIs
<1>5. PICK sp \in Int, a \in Nat, b \in Nat :
        /\ sp = INITIAL_SP /\ a = sp - 3 /\ b = sp - 6
        /\ a > 1000 /\ IsRam(a) /\ IsRam(a + 1) /\ IsRam(a + 2)
        /\ b > 1000 /\ IsRam(b) /\ IsRam(b + 1) /\ IsRam(b + 2)
  BY SomeDepths, StackCells, StackTop
<1>6. sp = a + 3 /\ a = b + 3
  BY <1>5
<1>7. /\ pc \in {44, 45, 46, 50, 52, 53, 55, 56, 58, 59} /\ ~ halted
      /\ pc \in {44, 59} => registers[4] = sp /\ registers[1] = r
      /\ pc \in {45, 56, 58} => registers[4] = a
      /\ pc \in {46, 50, 52, 53, 55} => registers[4] = b /\ Holds(mem, b, v)
      /\ pc \notin {44, 59} => Holds(mem, a, r)
      /\ pc \in {44, 45, 56} => registers[0] = v
      /\ pc \in {50, 52, 53, 55, 56} => registers[1] = IO_UARTDATA
      /\ pc = 52 => Signed24(registers[2]) < 0 \/ ~ io.uart_tx_busy
      /\ pc = 53 => c \/ ~ io.uart_tx_busy
      /\ pc \in {55, 56} => ~ io.uart_tx_busy
      /\ pc \in {58, 59} => Printed(p, i) /\ ~ io.uart_never_ready
      /\ pc \notin {58, 59} => Printed(p, i - 1)
      /\ i > 1 => ~ io.uart_never_ready
  BY <1>3, <1>4, <1>5 DEF Putc
<1>8. ASSUME /\ pc' \in {44, 45, 46, 50, 52, 53, 55, 56, 58, 59} /\ ~ halted'
             /\ pc' \in {44, 59} => registers'[4] = sp /\ registers'[1] = r
             /\ pc' \in {45, 56, 58} => registers'[4] = a
             /\ pc' \in {46, 50, 52, 53, 55} => registers'[4] = b /\ Holds(mem, b, v)'
             /\ pc' \notin {44, 59} => Holds(mem, a, r)'
             /\ pc' \in {44, 45, 56} => registers'[0] = v
             /\ pc' \in {50, 52, 53, 55, 56} => registers'[1] = IO_UARTDATA
             /\ pc' = 52 => Signed24(registers'[2]) < 0 \/ ~ io'.uart_tx_busy
             /\ pc' = 53 => c' \/ ~ io'.uart_tx_busy
             /\ pc' \in {55, 56} => ~ io'.uart_tx_busy
             /\ pc' \in {58, 59} => Printed(p, i)' /\ ~ io'.uart_never_ready
             /\ pc' \notin {58, 59} => Printed(p, i - 1)'
             /\ i > 1 => ~ io'.uart_never_ready
      PROVE  Putc(i)'
  BY <1>3, <1>4, <1>5, <1>8 DEF Putc
<1>9. /\ Kept(p) => /\ Loaded(p)' /\ Polling' /\ io'.uart_never_ready = io.uart_never_ready
                    /\ io'.uart_tx_busy => io.uart_tx_busy
                    /\ Printed(p, i - 1) => Printed(p, i - 1)'
                    /\ Printed(p, i) => Printed(p, i)'
      /\ mem' = mem => \A x, w : Holds(mem, x, w) => Holds(mem, x, w)'
  BY DEF Kept, Holds
<1>10. CASE pc = 44
  <2>1. /\ registers' = [registers EXCEPT ![4] = a]
        /\ pc' = 44 + 1 /\ io' = Tick(io) /\ mem' = MemAfter(a, BytesOf(registers[1]))
        /\ UNCHANGED <<c, halted, intis>>
    <3>1. Plain(p, 44, "Push", 1, 4) /\ At(p, 44) /\ registers[4] = a + 3 /\ 1 \in 0 .. 7 \ {4}
      BY <1>1, <1>6, <1>7, <1>10 DEF UartHello
    <3> QED BY <1>5, <3>1, DoPush
  <2>2. Kept(p) /\ Holds(mem, a, r)'
    <3>1. PICK n \in Depths : n = 3 /\ a = INITIAL_SP - n
      BY <1>5, SomeDepths
    <3>2. mem' = MemAfter(INITIAL_SP - n, BytesOf(r))
      BY <1>7, <1>10, <2>1, <3>1
    <3>3. Kept(p) /\ Holds(mem, INITIAL_SP - n, r)'
      BY <1>1, <2>1, <3>2, KeptPush
    <3> QED BY <3>1, <3>3
  <2>3. registers'[4] = a /\ registers'[0] = v /\ pc' = 45 /\ halted' = halted
    BY <1>2, <1>7, <1>10, <2>1
  <2> QED BY <1>7, <1>8, <1>9, <1>10, <2>2, <2>3
<1>11. CASE pc = 45
  <2>1. /\ registers' = [registers EXCEPT ![4] = b]
        /\ pc' = 45 + 1 /\ io' = Tick(io) /\ mem' = MemAfter(b, BytesOf(registers[0]))
        /\ UNCHANGED <<c, halted, intis>>
    <3>1. Plain(p, 45, "Push", 0, 4) /\ At(p, 45) /\ registers[4] = b + 3 /\ 0 \in 0 .. 7 \ {4}
      BY <1>1, <1>6, <1>7, <1>11 DEF UartHello
    <3> QED BY <1>5, <3>1, DoPush
  <2>2. Kept(p) /\ Holds(mem, b, v)' /\ Holds(mem, a, r)'
    <3>1. PICK n \in Depths, u \in Word : n = 6 /\ b = INITIAL_SP - n /\ u = v
      BY <1>3, <1>5, SomeDepths
    <3>2. mem' = MemAfter(INITIAL_SP - n, BytesOf(u)) /\ Holds(mem, a, r)
      BY <1>7, <1>11, <2>1, <3>1
    <3>3. Kept(p) /\ Holds(mem, INITIAL_SP - n, u)'
      BY <1>1, <2>1, <3>2, KeptPush
    <3>4. Holds(mem, a, r)'
      <4>1. b + 3 <= a /\ b = INITIAL_SP - n /\ b \in Int /\ a \in Int
        BY <1>6, <3>1
      <4> QED BY <3>2, <4>1, PushBelow
    <3> QED BY <3>1, <3>3, <3>4
  <2>3. registers'[4] = b /\ pc' = 46 /\ halted' = halted
    BY <1>2, <2>1
  <2> QED BY <1>7, <1>8, <1>9, <1>11, <2>2, <2>3
<1>12. CASE pc = 46
  <2>1. Moves([registers EXCEPT ![1] = IO_UARTDATA], 46 + 4, io)
    <3>1. Long(p, 46, "La", 1, 7, IO_UARTDATA) /\ At(p, 46) /\ 1 \in 0 .. 6
      BY <1>1, <1>12 DEF UartHello
    <3> QED BY <3>1, DoLa
  <2>2. Kept(p) /\ mem' = mem
    BY <1>1, <2>1, KeptQuiet DEF Moves
  <2>3. registers'[1] = IO_UARTDATA /\ registers'[4] = registers[4] /\ pc' = 50 /\ halted' = halted
    BY <1>2, <2>1 DEF Moves
  <2> QED BY <1>7, <1>8, <1>9, <1>12, <2>2, <2>3
<1>13. CASE pc = 50
  <2>1. /\ Kept(p) /\ pc' = 50 + 2 /\ UNCHANGED <<c, halted, intis, mem>>
        /\ \E w \in Word : registers' = [registers EXCEPT ![2] = w]
        /\ Signed24(registers'[2]) < 0 \/ ~ io'.uart_tx_busy
    <3>1. Short(p, 50, "Lb", 2, 1, 1) /\ At(p, 50) /\ 2 \in {1, 2} /\ 1 \in 0 .. 2
      BY <1>1, <1>13 DEF UartHello
    <3> QED BY <1>1, <1>7, <1>13, <3>1, KeptPoll
  <2>2. registers'[1] = registers[1] /\ registers'[4] = registers[4] /\ pc' = 52
    BY <1>2, <2>1
  <2> QED BY <1>7, <1>8, <1>9, <1>13, <2>1, <2>2
<1>14. CASE pc = 52
  <2>1. /\ c' = (Signed24(registers[2]) < Signed24(registers[5]))
        /\ pc' = 52 + 1 /\ io' = Tick(io) /\ UNCHANGED <<registers, halted, intis, mem>>
    <3>1. Plain(p, 52, "Cls", 2, 5) /\ At(p, 52) /\ "Cls" \in {"Ceq", "Cls", "Clu"}
      BY <1>1, <1>14 DEF UartHello
    <3> QED BY <3>1, DoCompare
  <2>2. Kept(p)
    BY <1>1, <2>1, KeptQuiet
  <2>3. Signed24(0) = 0
    BY DEF Signed24
  <2>4. c' \/ ~ io.uart_tx_busy
    <3>1. Signed24(registers[2]) < 0 \/ ~ io.uart_tx_busy
      BY <1>7, <1>14
    <3> QED BY <1>2, <2>1, <2>3, <3>1
  <2>5. pc' = 53
    BY <2>1
  <2> QED BY <1>7, <1>8, <1>9, <1>14, <2>1, <2>2, <2>4, <2>5
<1>15. CASE pc = 53
  <2>1. Moves(registers, IF c = ("Brt" = "Brt") THEN 50 ELSE 53 + 2, io)
    <3>1. Branch(p, 53, "Brt", 50) /\ At(p, 53) /\ "Brt" \in {"Brf", "Brt"}
      BY <1>1, <1>15 DEF UartHello
    <3> QED BY <3>1, DoBranchIf
  <2>2. Kept(p) /\ mem' = mem
    BY <1>1, <2>1, KeptQuiet DEF Moves
  <2>3. registers' = registers /\ halted' = halted /\ pc' = IF c THEN 50 ELSE 55
    BY <2>1 DEF Moves, MachineOK, CpuOK
  <2> QED BY <1>7, <1>8, <1>9, <1>15, <2>2, <2>3
<1>16. CASE pc = 55
  <2>1. /\ Moves([registers EXCEPT ![0] = ReadWord(b), ![4] = b + 3], 55 + 1, io)
        /\ ReadWord(b) = v
    <3>1. Plain(p, 55, "Pop", 0, 4) /\ At(p, 55) /\ registers[4] = b /\ 0 \in 0 .. 6 \ {4}
          /\ Holds(mem, b, v)
      BY <1>1, <1>7, <1>16 DEF UartHello
    <3> QED BY <1>3, <1>5, <3>1, DoPop
  <2>2. Kept(p) /\ mem' = mem
    BY <1>1, <2>1, KeptQuiet DEF Moves
  <2>3. /\ registers'[0] = v /\ registers'[4] = a /\ registers'[1] = registers[1]
        /\ pc' = 56 /\ halted' = halted
    BY <1>2, <1>6, <2>1 DEF Moves
  <2> QED BY <1>7, <1>8, <1>9, <1>16, <2>2, <2>3
<1>17. CASE pc = 56
  <2>1. registers[1] = IO_UARTDATA /\ registers[0] = v /\ ~ io.uart_tx_busy
        /\ IO_UARTDATA \in Word
    BY <1>7, <1>17, DevicesAt
  <2>2. /\ pc' = 56 + 2 /\ io' = Tick(IoAfter(IO_UARTDATA, <<v>>))
        /\ mem' = MemAfter(IO_UARTDATA, <<v>>) /\ UNCHANGED <<registers, c, halted, intis>>
    <3>1. Short(p, 56, "Sb", 0, 1, 0) /\ At(p, 56) /\ 0 \in 0 .. 7 /\ 1 \in 0 .. 7
      BY <1>1, <1>17 DEF UartHello
    <3>2. /\ pc' = 56 + 2 /\ io' = Tick(IoAfter(registers[1], <<registers[0] % 256>>))
          /\ mem' = MemAfter(registers[1], <<registers[0] % 256>>)
          /\ UNCHANGED <<registers, c, halted, intis>>
      BY <2>1, <3>1, DoSb
    <3> QED BY <1>3, <2>1, <3>2
  <2>3. /\ io'.uart_output = Append(io.uart_output, v)
        /\ io'.uart_tx_dropped = io.uart_tx_dropped /\ io'.int_enable = io.int_enable
        /\ io'.uart_never_ready = io.uart_never_ready
        /\ \A x : Same(x)
    <3>1. DOMAIN io = Fields
      BY DEF MachineOK, CpuOK, DevicesOK
    <3> QED BY <1>3, <2>1, <2>2, <3>1, PutUart
  <2>4. ~ io.uart_never_ready
    BY <2>1 DEF Polling
  <2>5. Loaded(p)' /\ Polling'
    <3>1. Loaded(p)'
      BY <1>1, <2>3, LoadedKept
    <3>2. Polling'
      BY <2>2, <2>3, <2>4 DEF Polling
    <3> QED BY <3>1, <3>2
  <2>6. Printed(p, i)'
    <3>1. PICK n \in Nat : n = i - 1 /\ n + 1 = i
      OBVIOUS
    <3>2. Printed(p, n) /\ v \in Nat /\ v = Text(p)[n + 1]
      BY <1>3, <1>7, <1>17, <3>1
    <3>3. Printed(p, n + 1)'
      BY <2>3, <3>2, PrintedMore
    <3> QED BY <3>1, <3>3
  <2>7. Holds(mem, a, r)'
    <3>1. Holds(mem, a, r)
      BY <1>7, <1>17
    <3> QED BY <2>3, <3>1 DEF Holds, Same
  <2>8. pc' = 58 /\ ~ halted' /\ registers'[4] = a /\ ~ io'.uart_never_ready
    BY <1>7, <1>17, <2>2, <2>3, <2>4
  <2> QED BY <1>8, <2>5, <2>6, <2>7, <2>8
<1>18. CASE pc = 58
  <2>1. /\ Moves([registers EXCEPT ![1] = ReadWord(a), ![4] = a + 3], 58 + 1, io)
        /\ ReadWord(a) = r
    <3>1. Plain(p, 58, "Pop", 1, 4) /\ At(p, 58) /\ registers[4] = a /\ 1 \in 0 .. 6 \ {4}
          /\ Holds(mem, a, r)
      BY <1>1, <1>7, <1>18 DEF UartHello
    <3> QED BY <1>4, <1>5, <3>1, DoPop
  <2>2. Kept(p)
    BY <1>1, <2>1, KeptQuiet DEF Moves
  <2>3. registers'[1] = r /\ registers'[4] = sp /\ pc' = 59 /\ halted' = halted
    BY <1>2, <1>6, <2>1 DEF Moves
  <2> QED BY <1>7, <1>8, <1>9, <1>18, <2>2, <2>3
<1>19. CASE pc = 59
  <2>1. /\ intis' = (intis /\ 1 # 7) /\ pc' = registers[1] /\ io' = Tick(io)
        /\ UNCHANGED <<registers, c, halted, mem>>
    <3>1. Plain(p, 59, "Jmp", 1, 7) /\ At(p, 59) /\ 1 \in 0 .. 7
      BY <1>1, <1>19 DEF UartHello
    <3> QED BY <3>1, DoJmp
  <2>2. Kept(p)
    <3>1. intis' = intis
      BY <2>1 DEF MachineOK, CpuOK
    <3> QED BY <1>1, <2>1, <3>1, KeptQuiet
  <2>3. /\ pc' = r /\ registers'[4] = sp /\ ~ halted' /\ Printed(p, i)'
        /\ ~ io'.uart_never_ready /\ Loaded(p)' /\ Polling'
    BY <1>7, <1>9, <1>19, <2>1, <2>2
  <2>4. CASE i < 6
    <3>1. PICK j \in 1 .. 6 : j = i + 1 /\ j - 1 = i /\ 7 * j - 7 = r
      BY <1>4, <2>4
    <3>2. r # r + 2 /\ r # r + 6
      BY <1>4
    <3>3. HelloCall(j)'
      BY <1>5, <2>3, <3>1, <3>2 DEF HelloCall
    <3> QED BY <2>3, <2>4, <3>1, <3>3
  <2>5. CASE i = 6
    <3>1. r = 42
      BY <1>4, <2>5
    <3>2. UartEnd'
      BY <2>3, <2>5, <3>1 DEF UartEnd
    <3> QED BY <2>3, <3>2
  <2> QED BY <2>4, <2>5
<1> QED BY <1>7, <1>10, <1>11, <1>12, <1>13, <1>14, <1>15, <1>16, <1>17, <1>18, <1>19

\* The end: it halts.
LEMMA UartEndStep ==
  ASSUME MachineOK, MStep, "uart_hello" \in DOMAIN Image, UartHello, Loaded("uart_hello"),
         Polling, UartEnd
  PROVE  Loaded("uart_hello")' /\ Polling' /\ UartEnd'
<1> DEFINE p == "uart_hello"
<1>1. CASE halted
  <2>1. UNCHANGED <<pc, registers, c, halted, intis, mem, io>>
    BY <1>1, HaltedStep
  <2> QED BY <2>1 DEF UartEnd, Loaded, Polling, Printed
<1>2. CASE ~ halted
  <2>1. /\ pc' = 42 /\ io' = Tick(io) /\ UNCHANGED <<registers, c, intis, mem>>
    <3>1. Branch(p, 42, "Bra", 42) /\ At(p, 42)
      <4>1. At(p, pc)
        BY <1>2, PollingAt
      <4> QED BY <4>1 DEF UartHello, UartEnd
    <3> QED BY <3>1, DoBra
  <2>2. Kept(p)
    BY <2>1, UartLines, KeptQuiet
  <2> QED BY <2>1, <2>2 DEF UartEnd, Kept
<1> QED BY <1>1, <1>2

\* UartInv is inductive.
LEMMA UartNext ==
  ASSUME UartInv, Powered, MachineOK, [MNext]_allVars
  PROVE  UartInv'
<1> DEFINE p == "uart_hello"
<1> SUFFICES ASSUME program' = p
             PROVE  Loaded(p)' /\ Polling' /\ ((\E i \in 1 .. 6 : HelloCall(i) \/ Putc(i)) \/ UartEnd)'
  BY DEF UartInv
<1>1. ASSUME Loaded(p)', pc' = 0, registers' = NewRegisters, ~ halted', ~ intis', io' = NewIo
      PROVE  Loaded(p)' /\ Polling' /\ HelloCall(1)'
  <2>1. registers'[4] = INITIAL_SP
    BY <1>1 DEF NewRegisters
  <2>2. 7 * 1 - 7 = 0 /\ 1 - 1 = 0
    OBVIOUS
  <2> QED BY <1>1, <2>1, <2>2, PollingStart DEF HelloCall
<1>2. CASE \E q \in DOMAIN Image : Boot(q)
  <2>1. /\ Loaded(p)' /\ program = "none"
        /\ UNCHANGED <<pc, registers, c, halted, intis, io>>
    BY <1>2, BootLoads
  <2>2. pc' = 0 /\ registers' = NewRegisters /\ ~ halted' /\ ~ intis' /\ io' = NewIo
    BY <2>1 DEF Powered
  <2>3. 1 \in 1 .. 6
    OBVIOUS
  <2> QED BY <1>1, <2>1, <2>2, <2>3
<1>3. CASE program = p
  <2>1. /\ Loaded(p) /\ Polling /\ p \in DOMAIN Image /\ UartHello
        /\ (\E i \in 1 .. 6 : HelloCall(i) \/ Putc(i)) \/ UartEnd
    BY <1>3, UartLines DEF UartInv, MachineOK
  <2>2. CASE MStep
    <3>1. ASSUME NEW i \in 1 .. 6, HelloCall(i)
          PROVE  Loaded(p)' /\ Polling' /\ ((\E j \in 1 .. 6 : HelloCall(j) \/ Putc(j)) \/ UartEnd)'
      BY <2>1, <2>2, <3>1, HelloCallStep
    <3>2. ASSUME NEW i \in 1 .. 6, Putc(i)
          PROVE  Loaded(p)' /\ Polling' /\ ((\E j \in 1 .. 6 : HelloCall(j) \/ Putc(j)) \/ UartEnd)'
      <4>1. Loaded(p)' /\ Polling' /\ (Putc(i)' \/ (i < 6 /\ HelloCall(i + 1)') \/ UartEnd')
        BY <2>1, <2>2, <3>2, PutcStep
      <4>2. i < 6 => i + 1 \in 1 .. 6
        OBVIOUS
      <4> QED BY <4>1, <4>2
    <3>3. CASE UartEnd
      BY <2>1, <2>2, <3>3, UartEndStep
    <3> QED BY <2>1, <3>1, <3>2, <3>3
  <2>3. CASE Untouched
    <3>1. /\ UNCHANGED <<pc, registers, c, halted, mem>>
          /\ pc # 0 => /\ io'.uart_tx_busy = io.uart_tx_busy
                       /\ io'.uart_never_ready = io.uart_never_ready
          /\ \A n : Printed(p, n) => Printed(p, n)'
      BY <2>1, <2>3, PollingUntouched DEF Untouched
    <3>2. ASSUME NEW i \in 1 .. 6, HelloCall(i) PROVE HelloCall(i)'
      <4>1. i > 1 => pc # 0
        <5>1. pc >= 7 * i - 7
          BY <3>2 DEF HelloCall
        <5> QED BY <5>1
      <4> QED BY <3>1, <3>2, <4>1 DEF HelloCall
    <3>3. ASSUME NEW i \in 1 .. 6, Putc(i) PROVE Putc(i)'
      <4>1. pc # 0
        BY <3>3 DEF Putc
      <4> QED BY <3>1, <3>3, <4>1 DEF Putc, Holds
    <3>4. ASSUME UartEnd PROVE UartEnd'
      <4>1. pc # 0
        BY <3>4 DEF UartEnd
      <4> QED BY <3>1, <3>4, <4>1 DEF UartEnd
    <3> QED BY <2>1, <2>3, <3>2, <3>3, <3>4, PollingUntouched
  <2>4. CASE Renewed
    <3>1. /\ pc' = 0 /\ registers' = NewRegisters /\ ~ halted' /\ ~ intis' /\ io' = NewIo
          /\ mem' = mem
      BY <2>4 DEF Renewed
    <3>2. Loaded(p)' /\ 1 \in 1 .. 6
      BY <2>1, <3>1 DEF Loaded
    <3> QED BY <1>1, <3>1, <3>2
  <2>5. CASE UNCHANGED allVars
    <3>1. UartInv'
      BY <2>5 DEF UartInv, HelloCall, Putc, UartEnd, Loaded, Polling, Printed, allVars, vars, history
    <3> QED BY <3>1 DEF UartInv
  <2> QED BY <1>3, <2>2, <2>3, <2>4, <2>5, <1>2, HostSteps DEF MNext
<1> QED BY <1>2, <1>3, ProgramKept

\* What has been transmitted when all n characters are is the text.
LEMMA PrintedAll ==
  ASSUME NEW p, NEW n \in Nat, Text(p) \in Seq(Nat), Len(Text(p)) = n, Printed(p, n)
  PROVE  io.uart_output = Text(p)
<1>1. PICK s \in Seq(Nat), t \in Seq(Nat) : s = io.uart_output /\ t = Text(p)
  BY DEF Printed
<1>2. Len(s) = n /\ Len(t) = n /\ \A j \in 1 .. n : s[j] = t[j]
  BY <1>1 DEF Printed
<1>3. s = t
  BY <1>2, SeqEqual
<1> QED BY <1>1, <1>3

\* Nothing of a text printed is nothing printed.
LEMMA PrintedNone ==
  ASSUME NEW p, Printed(p, 0)
  PROVE  io.uart_output = <<>>
<1>1. PICK s \in Seq(Nat) : s = io.uart_output
  BY DEF Printed
<1>2. Len(s) = 0
  BY <1>1 DEF Printed
<1>3. s = <<>>
  BY <1>2, EmptySeq
<1> QED BY <1>1, <1>3

\* The invariants say what the programs print.
LEMMA HelloPrints == HelloInv /\ UartInv => Prints
<1> SUFFICES ASSUME HelloInv, UartInv PROVE Prints
  OBVIOUS
<1>1. CASE program = "hello_uart"
  <2>1. Polling /\ (HelloStart \/ (\E i \in 1 .. 3 : HelloPut(i)) \/ HelloEnd)
    BY <1>1 DEF HelloInv
  <2>2. halted => io.uart_output = Text(program)
    <3>1. ASSUME halted PROVE Printed("hello_uart", 3)
      BY <2>1, <3>1 DEF HelloStart, HelloPut, HelloEnd
    <3>2. Text("hello_uart") \in Seq(Nat) /\ Len(Text("hello_uart")) = 3
      BY TextLength
    <3> QED BY <1>1, <3>1, <3>2, PrintedAll
  <2>3. io.uart_never_ready => io.uart_output = <<>> /\ ~ halted
    <3>1. ASSUME io.uart_never_ready PROVE Printed("hello_uart", 0) /\ ~ halted
      <4>1. CASE HelloStart
        BY <4>1 DEF HelloStart
      <4>2. ASSUME NEW i \in 1 .. 3, HelloPut(i) PROVE Printed("hello_uart", 0) /\ ~ halted
        <5>1. i = 1 /\ 1 - 1 = 0
          BY <3>1, <4>2 DEF HelloPut
        <5> QED BY <4>2, <5>1 DEF HelloPut
      <4> QED BY <2>1, <3>1, <4>1, <4>2 DEF HelloEnd
    <3> QED BY <3>1, PrintedNone
  <2> QED BY <1>1, <2>1, <2>2, <2>3 DEF Prints, Polling
<1>2. CASE program = "uart_hello"
  <2>1. Polling /\ ((\E i \in 1 .. 6 : HelloCall(i) \/ Putc(i)) \/ UartEnd)
    BY <1>2 DEF UartInv
  <2>2. halted => io.uart_output = Text(program)
    <3>1. ASSUME halted PROVE Printed("uart_hello", 6)
      BY <2>1, <3>1 DEF HelloCall, Putc, UartEnd
    <3>2. Text("uart_hello") \in Seq(Nat) /\ Len(Text("uart_hello")) = 6
      BY TextLength
    <3> QED BY <1>2, <3>1, <3>2, PrintedAll
  <2>3. io.uart_never_ready => io.uart_output = <<>> /\ ~ halted
    <3>1. ASSUME io.uart_never_ready PROVE Printed("uart_hello", 0) /\ ~ halted
      <4>1. ASSUME NEW i \in 1 .. 6, HelloCall(i) \/ Putc(i)
            PROVE  Printed("uart_hello", 0) /\ ~ halted
        <5>1. i = 1 /\ 1 - 1 = 0 /\ (Putc(i) => pc \notin {58, 59})
          BY <3>1, <4>1 DEF HelloCall, Putc
        <5> QED BY <4>1, <5>1 DEF HelloCall, Putc
      <4> QED BY <2>1, <3>1, <4>1 DEF UartEnd
    <3> QED BY <3>1, PrintedNone
  <2> QED BY <1>2, <2>1, <2>2, <2>3 DEF Prints, Polling
<1> QED BY <1>1, <1>2 DEF Prints

\* The polling programs print their whole text and then stop, for every
\* setting of the transmitter and whenever the host resets the machine,
\* types or presses the button; with a transmitter that is never ready they
\* print nothing and go on polling.
THEOREM PrintsCorrect == ASSUME WordsClosed PROVE MSpec => []Prints
<1>1. MInit => Powered /\ HelloInv /\ UartInv
  BY PoweredInit DEF MInit, HelloInv, UartInv
<1>2. /\ MachineOK /\ Powered /\ HelloInv /\ UartInv /\ [MNext]_allVars
      => (Powered /\ HelloInv /\ UartInv)'
  BY PoweredNext, HelloNext, UartNext
<1>3. HelloInv /\ UartInv => Prints
  BY HelloPrints
<1>4. MSpec => []MachineOK
  BY MachineInvariant
<1> QED BY <1>1, <1>2, <1>3, <1>4, PTL DEF MSpec

-----------------------------------------------------------------------------
(* What an interrupt and its routine do, whatever the program.             *)

\* Cells of a program and its counter that a step leaves as they are.
Steady == \A x \in 0 .. 256 : /\ x \in DOMAIN mem' <=> x \in DOMAIN mem
                              /\ x \in DOMAIN mem => mem'[x] = mem[x]

\* A line that is no return leaves the history of interrupts alone, and takes
\* a character when it acknowledges one.
LEMMA LineObserved ==
  ASSUME NEW p, NEW k, At(p, k), NEW o, NEW x, NEW y, NEW w \in {1, 2, 4}, Line(p, k, o, x, y, w),
         MStep
  PROVE  /\ program' = program /\ (o # "Jmp" => saved' = saved)
         /\ (io.uart_rx_ready => io'.uart_rx_ready) => taken' = taken
         /\ io.uart_rx_ready /\ ~ io'.uart_rx_ready => taken' = Append(taken, io.uart_rx)
<1>1. op = o
  BY LineRead
<1>2. ~ Interrupt /\ (o # "Jmp" => ~ Jmp)
  BY <1>1 DEF At, Interrupt, Jmp
<1>3. Observe
  BY DEF MStep
<1> QED BY <1>2, <1>3 DEF Observe, Acknowledges

\* The words a routine pushes, of the context x it interrupted.
Stacked(x) == <<x.registers[0], x.registers[1], x.registers[2], IF x.c THEN 1 ELSE 0>>

\* Registers that are as they were in x.
Keeps(x, R) == \A r \in R : registers[r] = x.registers[r]

\* In the routine that interrupted x, with n words pushed.
Within(x, n) ==
  /\ ~ halted /\ intis /\ saved = <<x>>
  /\ x.registers \in [0 .. 7 -> Word] /\ x.registers[4] = INITIAL_SP /\ x.c \in BOOLEAN
  /\ registers[3] = x.registers[3] /\ registers[4] = INITIAL_SP - 3 * n
  /\ registers[5] = x.registers[5] /\ registers[6] = x.registers[6] /\ registers[7] = x.pc
  /\ \A i \in 1 .. n : Holds(mem, INITIAL_SP - 3 * i, Stacked(x)[i])

\* The routine is entered with the context of the program in its frame.
LEMMA Interrupted ==
  ASSUME MachineOK, MStep, InterruptPending, ~ halted, saved = <<>>, registers[4] = INITIAL_SP
  PROVE  /\ program' = program /\ taken' = taken /\ pc' = registers[6]
         /\ UNCHANGED <<c, mem, io>>
         /\ \E x : /\ x.registers = registers /\ x.c = c /\ x.pc = pc
                   /\ Within(x, 0)' /\ Keeps(x, {0, 1, 2})'
<1>1. Interrupt
  BY DEF MStep, Step, StepHalted, HaltAtZero, Nop, InvalidInstruction, Execute, Compute,
         JumpAbsolute, Compare, Bra, BranchIf, Jal, Jmp, LoadByte, LoadWord, Store, Pop, Push,
         Executing, Fetching
<1>2. PICK x : x = [registers |-> registers, c |-> c, pc |-> pc]
  OBVIOUS
<1>3. x.registers = registers /\ x.c = c /\ x.pc = pc
  BY <1>2
<1>4. /\ intis' = TRUE /\ registers' = [registers EXCEPT ![7] = pc] /\ pc' = registers[6]
      /\ UNCHANGED <<c, halted, mem, io>>
  BY <1>1 DEF Interrupt
<1>5. program' = program /\ saved' = <<x>> /\ taken' = taken
  <2>1. taken' = taken /\ program' = program /\ saved' = <<x>> \o saved
    <3>1. ~ Jmp /\ Observe
      BY DEF Jmp, Executing, Fetching, MStep
    <3> QED BY <1>1, <1>2, <1>4, <3>1 DEF Observe, Acknowledges
  <2>2. <<x>> \in Seq({x})
    OBVIOUS
  <2>3. <<x>> \o <<>> = <<x>>
    BY <2>2, ConcatEmptySeq
  <2> QED BY <2>1, <2>3
<1>6. /\ registers' \in [0 .. 7 -> Word] /\ \A r \in 0 .. 6 : registers'[r] = registers[r]
      /\ registers'[7] = pc /\ registers \in [0 .. 7 -> Word] /\ c \in BOOLEAN
  BY <1>4 DEF MachineOK, CpuOK
<1>7. INITIAL_SP - 3 * 0 = INITIAL_SP
  BY StackTop
<1>8. Within(x, 0)'
  BY <1>3, <1>4, <1>5, <1>6, <1>7 DEF Within
<1>9. Keeps(x, {0, 1, 2})'
  BY <1>3, <1>6 DEF Keeps
<1> QED BY <1>3, <1>4, <1>5, <1>8, <1>9

\* It stays in the routine while it leaves the frame alone.
LEMMA WithinKept ==
  ASSUME NEW x, NEW n, Within(x, n), UNCHANGED <<halted, intis, saved>>,
         \A r \in 3 .. 7 : registers'[r] = registers[r],
         \A a, v : Holds(mem, a, v) => Holds(mem, a, v)'
  PROVE  Within(x, n)'
BY DEF Within

\* The words pushed are those of the context.
LEMMA WordsStacked ==
  ASSUME NEW x, NEW n, Within(x, n)
  PROVE  /\ Stacked(x)[1] = x.registers[0] /\ Stacked(x)[2] = x.registers[1]
         /\ Stacked(x)[3] = x.registers[2] /\ Stacked(x)[4] = IF x.c THEN 1 ELSE 0
         /\ \A i \in 1 .. 4 : Stacked(x)[i] \in Word
<1>1. x.registers \in [0 .. 7 -> Word]
  BY DEF Within
<1>2. 0 \in Word /\ 1 \in Word
  BY WordIs
<1>3. /\ Stacked(x)[1] = x.registers[0] /\ Stacked(x)[2] = x.registers[1]
      /\ Stacked(x)[3] = x.registers[2] /\ Stacked(x)[4] = IF x.c THEN 1 ELSE 0
  BY DEF Stacked
<1>4. \A i \in 1 .. 4 : i \in {1, 2, 3, 4}
  OBVIOUS
<1> QED BY <1>1, <1>2, <1>3, <1>4

\* Where the next word is pushed.
LEMMA FrameTop ==
  ASSUME NEW n \in 0 .. 3
  PROVE  \E a \in Nat, m \in Depths :
           /\ m = 3 * (n + 1) /\ a = INITIAL_SP - m /\ a > 1000 /\ INITIAL_SP - 3 * n = a + 3
           /\ IsRam(a) /\ IsRam(a + 1) /\ IsRam(a + 2)
<1>1. PICK s \in Int : s = INITIAL_SP
  BY StackTop
<1>2. PICK m \in Depths : m = 3 * (n + 1)
  BY DEF Depths
<1>3. PICK a \in Nat : a = INITIAL_SP - m /\ a > 1000 /\ IsRam(a) /\ IsRam(a + 1) /\ IsRam(a + 2)
  BY StackCells
<1>4. s - 3 * n = a + 3
  BY <1>1, <1>2, <1>3
<1> QED BY <1>1, <1>2, <1>3, <1>4

\* A push adds a word to the frame,
LEMMA WithinPush ==
  ASSUME MachineOK, MStep, NEW p, NEW k, At(p, k), NEW r \in {0, 1, 2}, NEW y,
         Plain(p, k, "Push", r, y), NEW x, NEW n \in 0 .. 3, Within(x, n),
         registers[r] = Stacked(x)[n + 1]
  PROVE  /\ pc' = k + 1 /\ io' = Tick(io) /\ c' = c /\ Steady /\ Within(x, n + 1)'
         /\ \A i \in {0, 1, 2} : registers'[i] = registers[i]
<1>1. PICK a \in Nat, m \in Depths :
           /\ m = 3 * (n + 1) /\ a = INITIAL_SP - m /\ a > 1000 /\ INITIAL_SP - 3 * n = a + 3
           /\ IsRam(a) /\ IsRam(a + 1) /\ IsRam(a + 2)
  BY FrameTop
<1>2. registers[4] = a + 3 /\ r \in 0 .. 7 \ {4}
  BY <1>1 DEF Within
<1>3. /\ registers' = [registers EXCEPT ![4] = a]
      /\ pc' = k + 1 /\ io' = Tick(io)
      /\ mem' = MemAfter(a, BytesOf(registers[r]))
      /\ UNCHANGED <<c, halted, intis>>
  BY <1>1, <1>2, DoPush
<1>4. PICK v \in Word : v = registers[r]
  BY <1>2 DEF MachineOK, CpuOK
<1>5. mem' = MemAfter(INITIAL_SP - m, BytesOf(v))
  BY <1>1, <1>3, <1>4
<1>6. Pushed(a, v)
  BY <1>1, <1>5, PushCells
<1>7. Steady
  <2>1. ASSUME NEW z \in 0 .. 256 PROVE z \notin {a, a + 1, a + 2}
    BY <1>1
  <2> QED BY <1>6, <2>1 DEF Pushed, Steady
<1>8. saved' = saved
  BY LineObserved DEF Plain
<1>9. ASSUME NEW i \in 1 .. n + 1 PROVE Holds(mem, INITIAL_SP - 3 * i, Stacked(x)[i])'
  <2>1. CASE i = n + 1
    BY <1>1, <1>4, <1>6, <2>1 DEF Pushed, Holds
  <2>2. CASE i \in 1 .. n
    <3>1. PICK s \in Int, b \in Int : s = INITIAL_SP /\ b = s - 3 * i
      BY StackTop
    <3>2. a + 3 <= b
      BY <1>1, <2>2, <3>1
    <3>3. Holds(mem, b, Stacked(x)[i])
      BY <2>2, <3>1 DEF Within
    <3>4. Holds(mem, b, Stacked(x)[i])'
      BY <1>1, <1>5, <3>2, <3>3, PushBelow
    <3> QED BY <3>1, <3>4
  <2> QED BY <2>1, <2>2
<1>10. registers'[4] = INITIAL_SP - 3 * (n + 1) /\ \A i \in 0 .. 7 \ {4} : registers'[i] = registers[i]
  BY <1>1, <1>3 DEF MachineOK, CpuOK
<1>11. Within(x, n + 1)'
  BY <1>3, <1>8, <1>9, <1>10 DEF Within
<1> QED BY <1>3, <1>7, <1>10, <1>11

\* and a pop takes it back.
LEMMA WithinPop ==
  ASSUME MachineOK, MStep, NEW p, NEW k, At(p, k), NEW r \in {0, 1, 2}, NEW y,
         Plain(p, k, "Pop", r, y), NEW x, NEW n \in 0 .. 3, Within(x, n + 1)
  PROVE  /\ pc' = k + 1 /\ io' = Tick(io) /\ c' = c /\ Steady /\ Within(x, n)'
         /\ registers'[r] = Stacked(x)[n + 1]
         /\ \A i \in {0, 1, 2} \ {r} : registers'[i] = registers[i]
<1>1. PICK a \in Nat, m \in Depths :
           /\ m = 3 * (n + 1) /\ a = INITIAL_SP - m /\ a > 1000 /\ INITIAL_SP - 3 * n = a + 3
           /\ IsRam(a) /\ IsRam(a + 1) /\ IsRam(a + 2)
  BY FrameTop
<1>2. registers[4] = a /\ r \in 0 .. 6 \ {4}
  BY <1>1 DEF Within
<1>3. PICK v \in Word : v = Stacked(x)[n + 1] /\ Holds(mem, a, v)
  <2>1. n + 1 \in 1 .. 4 /\ n + 1 \in 1 .. n + 1
    OBVIOUS
  <2>2. Holds(mem, INITIAL_SP - 3 * (n + 1), Stacked(x)[n + 1])
    BY <2>1 DEF Within
  <2>3. Stacked(x)[n + 1] \in Word
    BY <2>1, WordsStacked
  <2> QED BY <1>1, <2>2, <2>3
<1>4. Moves([registers EXCEPT ![r] = v, ![4] = a + 3], k + 1, io)
  BY <1>1, <1>2, <1>3, DoPop
<1>5. saved' = saved /\ Steady
  BY <1>4, LineObserved DEF Plain, Moves, Steady
<1>6. /\ registers'[4] = INITIAL_SP - 3 * n /\ registers'[r] = v
      /\ \A i \in 0 .. 7 \ {r, 4} : registers'[i] = registers[i]
      /\ UNCHANGED <<c, halted, intis, mem>> /\ pc' = k + 1 /\ io' = Tick(io)
  BY <1>1, <1>2, <1>4 DEF Moves, MachineOK, CpuOK
<1>7. ASSUME NEW i \in 1 .. n PROVE Holds(mem, INITIAL_SP - 3 * i, Stacked(x)[i])'
  <2>1. i \in 1 .. n + 1
    OBVIOUS
  <2>2. Holds(mem, INITIAL_SP - 3 * i, Stacked(x)[i])
    BY <2>1 DEF Within
  <2> QED BY <1>6, <2>2 DEF Holds
<1>8. /\ registers'[3] = registers[3] /\ registers'[5] = registers[5]
      /\ registers'[6] = registers[6] /\ registers'[7] = registers[7]
  BY <1>2, <1>6
<1>9. Within(x, n)'
  BY <1>5, <1>6, <1>7, <1>8 DEF Within
<1> QED BY <1>2, <1>3, <1>5, <1>6, <1>9

\* A return with nothing pushed finds the registers of the context.
LEMMA WithinReturn ==
  ASSUME NEW x, Within(x, 0), Keeps(x, {0, 1, 2}), Jmp, ra = 7
  PROVE  /\ pc' = x.pc /\ c' = c /\ Head(saved) = x
         /\ \A r \in 0 .. 6 : registers'[r] = x.registers[r]
<1>1. registers' = registers /\ c' = c /\ pc' = registers[7]
  BY DEF Jmp, Retire, A
<1>2. registers[4] = x.registers[4]
  <2>1. INITIAL_SP - 3 * 0 = INITIAL_SP
    BY StackTop
  <2> QED BY <2>1 DEF Within
<1>3. \A r \in 0 .. 6 : registers[r] = x.registers[r]
  <2>1. \A r \in 0 .. 6 : r \in {0, 1, 2, 3, 4, 5, 6}
    OBVIOUS
  <2> QED BY <1>2, <2>1 DEF Within, Keeps
<1>4. Head(saved) = x
  BY DEF Within
<1> QED BY <1>1, <1>3, <1>4 DEF Within

\* The return is a step back to the program.
LEMMA WithinLeft ==
  ASSUME MStep, NEW p, NEW k, At(p, k), Plain(p, k, "Jmp", 7, 7), NEW x, Within(x, 0),
         Keeps(x, {0, 1, 2})
  PROVE  /\ ~ intis' /\ saved' = <<>> /\ pc' = x.pc /\ io' = Tick(io) /\ Steady
         /\ UNCHANGED <<c, halted, mem>> /\ \A r \in 0 .. 6 : registers'[r] = x.registers[r]
<1>1. /\ Jmp /\ ra = 7 /\ ~ intis' /\ io' = Tick(io) /\ UNCHANGED <<c, halted, mem>>
  <2>1. 7 \in 0 .. 7 /\ (intis /\ 7 # 7) = FALSE
    OBVIOUS
  <2>2. /\ Jmp /\ ra = 7 /\ intis' = (intis /\ 7 # 7) /\ io' = Tick(io)
        /\ UNCHANGED <<c, halted, mem>>
    BY <2>1, DoJmp
  <2> QED BY <2>1, <2>2
<1>2. saved' = <<>>
  <2>1. saved' = Tail(saved) /\ saved = <<x>>
    BY <1>1 DEF MStep, Observe, Interrupt, Jmp, Executing, Within
  <2>2. Tail(<<x>>) = <<>>
    OBVIOUS
  <2> QED BY <2>1, <2>2
<1>3. pc' = x.pc /\ \A r \in 0 .. 6 : registers'[r] = x.registers[r]
  BY <1>1, WithinReturn
<1> QED BY <1>1, <1>2, <1>3 DEF Steady

\* A store through r1 into the data register is a transmission, and leaves
\* memory alone.
LEMMA DoTransmit ==
  ASSUME MachineOK, NEW p, NEW k, At(p, k), NEW r \in {0, 2}, Short(p, k, "Sb", r, 1, 0),
         registers[1] = IO_UARTDATA
  PROVE  \E v \in Byte :
           /\ v = registers[r] % 256 /\ pc' = k + 2 /\ io' = Tick(Transmit(io, v))
           /\ DevicesOK(Transmit(io, v)) /\ UNCHANGED <<registers, c, halted, intis>>
           /\ Steady /\ \A a, w : Holds(mem, a, w) => Holds(mem, a, w)'
<1>1. PICK v \in Byte : v = registers[r] % 256
  <2>1. registers[r] \in Word
    BY DEF MachineOK, CpuOK
  <2>2. registers[r] % 256 \in Byte
    BY <2>1, WordIs, SMT DEF Byte
  <2> QED BY <2>2
<1>2. PICK a \in Word : a = IO_UARTDATA /\ IsIo(a) /\ ~ IsRam(a)
  BY DevicesAt
<1>3. /\ pc' = k + 2 /\ io' = Tick(IoAfter(a, <<v>>)) /\ mem' = MemAfter(a, <<v>>)
      /\ UNCHANGED <<registers, c, halted, intis>>
  <2>1. r \in 0 .. 7 /\ 1 \in 0 .. 7 /\ registers[1] \in Word
    BY <1>2
  <2> QED BY <1>1, <1>2, <2>1, DoSb
<1>4. IoAfter(a, <<v>>) = Transmit(io, v) /\ DevicesOK(Transmit(io, v))
  <2>1. IoAfter(a, <<v>>) = WriteIo(io, a, v)
    BY <1>2, WriteOne
  <2>2. WriteIo(io, a, v) = Transmit(io, v)
    BY <1>2, DevicesAt DEF WriteIo
  <2>3. DevicesOK(io)
    BY DEF MachineOK, CpuOK
  <2> QED BY <2>1, <2>2, <2>3, WriteType
<1>5. \A z : /\ z \in DOMAIN mem' <=> z \in DOMAIN mem
             /\ z \in DOMAIN mem => mem'[z] = mem[z]
  BY <1>2, <1>3, WriteDevice
<1>6. Steady
  BY <1>5 DEF Steady
<1>7. \A z, w : Holds(mem, z, w) => Holds(mem, z, w)'
  BY <1>5 DEF Holds
<1> QED BY <1>1, <1>3, <1>4, <1>6, <1>7

\* A load through r1, of what that points at.
LEMMA LoadsAs ==
  ASSUME NEW p, NEW k, At(p, k), NEW r \in 0 .. 6, Short(p, k, "Lb", r, 1, 0),
         NEW a \in Word, registers[1] = a, NEW v, v = SignExtend8(ReadByte(a)),
         NEW d, d = [io EXCEPT !.uart_rx_ready = @ /\ a # IO_UARTDATA]
  PROVE  Moves([registers EXCEPT ![r] = v], k + 2, d)
<1>1. PICK n \in 0 .. 127, y \in 0 .. 7 : n = 0 /\ y = 1
  OBVIOUS
<1>2. Short(p, k, "Lb", r, y, n) /\ a = registers[y] + n
  BY <1>1, WordIs
<1>3. Moves([registers EXCEPT ![r] = SignExtend8(ReadByte(a))], k + 2,
            [io EXCEPT !.uart_rx_ready = @ /\ a # IO_UARTDATA])
  BY <1>2, DoLb
<1> QED BY <1>3

\* A store through r1 into the enable register sets that alone.
LEMMA DoEnable ==
  ASSUME MachineOK, NEW p, NEW k, At(p, k), Short(p, k, "Sb", 0, 1, 0), registers[1] = IO_INTENABLE
  PROVE  \E v \in Byte :
           /\ pc' = k + 2 /\ UNCHANGED <<registers, c, halted, intis>> /\ Steady
           /\ io' = Tick([io EXCEPT !.int_enable = v]) /\ DevicesOK([io EXCEPT !.int_enable = v])
<1>1. PICK a \in Word : a = IO_INTENABLE /\ IsIo(a) /\ ~ IsRam(a)
                        /\ a \notin {IO_LEDSWDAT, IO_UARTDATA, IO_UARTSTAT}
  BY DevicesAt
<1>2. PICK v \in Byte : v = registers[0] % 256
  <2>1. registers[0] \in Word
    BY DEF MachineOK, CpuOK
  <2>2. registers[0] % 256 \in Byte
    BY <2>1, WordIs, SMT DEF Byte
  <2> QED BY <2>2
<1>3. /\ pc' = k + 2 /\ io' = Tick(IoAfter(a, <<v>>)) /\ mem' = MemAfter(a, <<v>>)
      /\ UNCHANGED <<registers, c, halted, intis>>
  <2>1. 0 \in 0 .. 7 /\ 1 \in 0 .. 7 /\ registers[1] \in Word
    BY <1>1
  <2> QED BY <1>1, <1>2, <2>1, DoSb
<1>4. IoAfter(a, <<v>>) = [io EXCEPT !.int_enable = v]
  <2>1. IoAfter(a, <<v>>) = WriteIo(io, a, v)
    BY <1>1, WriteOne
  <2>2. WriteIo(io, a, v) = [io EXCEPT !.int_enable = v]
    BY <1>1 DEF WriteIo
  <2> QED BY <2>1, <2>2
<1>5. Steady
  BY <1>1, <1>3, WriteDevice DEF Steady
<1>6. DevicesOK([io EXCEPT !.int_enable = v])
  BY FieldsNamed DEF MachineOK, CpuOK, DevicesOK
<1> QED BY <1>3, <1>4, <1>5, <1>6

\* The opcode at offset k of p.
Code(p, k) == Opcodes[1 + DECODE_ROM[Image[p][k + 1]] \div 64]

\* It is what the machine decodes.
LEMMA CodeRead ==
  ASSUME NEW p, NEW k, At(p, k), k < Len(Image[p])
  PROVE  op = Code(p, k)
<1>1. PICK img : img = Image[p]
  OBVIOUS
<1>2. img \in Seq(Byte) /\ Len(img) \in Nat /\ DOMAIN img = 1 .. Len(img)
  BY <1>1, HostAssumption, LenProperties DEF At
<1>3. k \in Nat /\ k + 1 \in DOMAIN img /\ k + 1 - 1 = k
  BY <1>1, <1>2 DEF At
<1>4. k \in DOMAIN mem /\ mem[k] = img[k + 1] /\ IsRam(k)
  BY <1>1, <1>3 DEF At, Loaded, CpuOK
<1>5. ReadByte(pc) = img[k + 1]
  BY <1>3, <1>4, ReadRam, RamIs DEF At
<1> QED BY <1>1, <1>5 DEF op, Decoded, Fetched, Code

-----------------------------------------------------------------------------
(* interrupt.s: the main loop and its interrupt routine.                   *)

\* The main loop at k with registers r and flag f, while the counter is n.
Counting(k, r, f, n) ==
  /\ k \in {0, 4, 5, 9, 11, 13, 17, 19, 21, 23, 24, 26, 27, 29, 31}
  /\ r[4] = INITIAL_SP
  /\ k = 4 => r[0] = 33
  /\ k > 4 => r[6] = 33
  /\ k \in {9, 11} => r[1] = IO_INTENABLE
  /\ k >= 17 => r[1] = 256
  /\ k < 19 => r[2] = 0
  /\ k = 19 => r[0] = IF r[2] = 10 THEN (n + 1) % 10 ELSE 0
  /\ k \in {21, 23} => r[0] = n
  /\ k = 23 => r[2] = 1
  /\ k \in {24, 26, 27} => r[0] = n + 1
  /\ k \in {26, 27, 29, 31} => r[2] = 10
  /\ k = 27 => f = (n = 9)
  /\ k \in {29, 31} => n = 9
  /\ k = 31 => r[0] = 0

\* Unless it is never ready, the transmitter is free in n instructions,
FreeIn(d, n) ==
  ~ d.uart_never_ready =>
    /\ d.uart_tx_busy_cycles <= 19 /\ d.uart_tx_countdown <= n
    /\ d.uart_tx_busy => d.uart_tx_countdown > 0

\* and it was given n decimal digits.
Shown(d, n) ==
  ~ d.uart_never_ready =>
    /\ d.uart_output \in Seq(Nat) /\ Len(d.uart_output) = n
    /\ \A i \in 1 .. n : d.uart_output[i] \in 48 .. 57

\* Before the character is read, before its digit is stored, and after.
Asked(n) == io.uart_rx_ready /\ FreeIn(io, n) /\ Shown(io, Len(taken))
Owes(n)  == FreeIn(io, n) /\ Shown(io, Len(taken) - 1)
Paid(n)  == FreeIn(io, n) /\ Shown(io, Len(taken))

\* In the routine, with n words pushed; it keeps the flag to its end.
Frame(x, n) ==
  /\ Within(x, n) /\ c = x.c
  /\ x.pc >= 13 /\ Counting(x.pc, x.registers, x.c, Cell(256))

\* The routine, line by line.
Routine(x) ==
  \/ pc = 33 /\ Frame(x, 0) /\ Keeps(x, {0, 1, 2}) /\ Asked(12)
  \/ pc = 34 /\ Frame(x, 1) /\ Keeps(x, {1, 2}) /\ Asked(11)
  \/ pc = 35 /\ Frame(x, 2) /\ Keeps(x, {2}) /\ Asked(10)
  \/ pc = 36 /\ Frame(x, 3) /\ Asked(9)
  \/ pc = 37 /\ Frame(x, 3) /\ registers[2] = Stacked(x)[4] /\ Asked(8)
  \/ pc = 38 /\ Frame(x, 4) /\ Asked(7)
  \/ pc = 42 /\ Frame(x, 4) /\ registers[1] = IO_UARTDATA /\ Asked(6)
  \/ pc = 44 /\ Frame(x, 4) /\ Owes(5)
  \/ pc = 48 /\ Frame(x, 4) /\ registers[1] = 256 /\ Owes(4)
  \/ pc = 50 /\ Frame(x, 4) /\ registers[2] = Cell(256) /\ Owes(3)
  \/ pc = 52 /\ Frame(x, 4) /\ registers[2] = Cell(256) /\ registers[0] = 48 /\ Owes(2)
  \/ pc = 53 /\ Frame(x, 4) /\ registers[0] = 48 + Cell(256) /\ Owes(1)
  \/ pc = 57 /\ Frame(x, 4) /\ registers[0] = 48 + Cell(256) /\ registers[1] = IO_UARTDATA /\ Owes(0)
  \/ pc = 59 /\ Frame(x, 4) /\ Paid(18)
  \/ pc = 60 /\ Frame(x, 3) /\ registers[2] = Stacked(x)[4] /\ Paid(17)
  \/ pc = 61 /\ Frame(x, 3) /\ Paid(16)
  \/ pc = 62 /\ Frame(x, 2) /\ Keeps(x, {2}) /\ Paid(15)
  \/ pc = 63 /\ Frame(x, 1) /\ Keeps(x, {1, 2}) /\ Paid(14)
  \/ pc = 64 /\ Frame(x, 0) /\ Keeps(x, {0, 1, 2}) /\ Paid(13)

Main ==
  /\ ~ halted /\ ~ intis /\ saved = <<>>
  /\ Counting(pc, registers, c, Cell(256))
  /\ pc < 13 => io.int_enable = 0
  /\ Paid(12)

Resident == Loaded("interrupt") /\ Cell(256) \in 0 .. 9 /\ taken \in Seq(Byte)

DigitsInv == program = "interrupt" => Resident /\ (Main \/ \E x : Routine(x))

\* An instruction brings a transmission one nearer to its end.
LEMMA DevicesTick ==
  ASSUME NEW d, DevicesOK(d), NEW n \in Nat
  PROVE  /\ FreeIn(d, n + 1) \/ FreeIn(d, n) => FreeIn(Tick(d), n)
         /\ \A k : Shown(d, k) => Shown(Tick(d), k)
         /\ Tick(d).uart_rx_ready = d.uart_rx_ready /\ Tick(d).int_enable = d.int_enable
<1>1. Ticked(d, Tick(d))
  BY TickIs DEF DevicesOK
<1>2. d.uart_tx_countdown \in Nat
  BY DEF DevicesOK, Byte
<1>3. ASSUME FreeIn(d, n + 1) \/ FreeIn(d, n), ~ d.uart_never_ready
      PROVE  FreeIn(Tick(d), n)
  <2>1. /\ d.uart_tx_busy_cycles <= 19 /\ d.uart_tx_countdown <= n + 1
        /\ d.uart_tx_busy => d.uart_tx_countdown > 0
    BY <1>2, <1>3 DEF FreeIn
  <2>2. CASE d.uart_tx_countdown = 0
    BY <2>1, <2>2 DEF FreeIn, Tick
  <2>3. CASE d.uart_tx_countdown # 0
    <3>1. Tick(d) = [d EXCEPT !.uart_tx_countdown = d.uart_tx_countdown - 1,
                              !.uart_tx_busy = d.uart_tx_busy /\ d.uart_tx_countdown > 1]
      BY <1>3, <2>3 DEF Tick
    <3>2. PICK m, k, q : m = d.uart_tx_busy_cycles /\ k = d.uart_tx_countdown /\ q = Tick(d)
                  /\ k \in Nat
      BY <1>2
    <3>3. /\ q.uart_tx_countdown = k - 1 /\ q.uart_tx_busy_cycles = m
          /\ q.uart_tx_busy => k > 1
      BY <3>1, <3>2, FieldsNamed DEF DevicesOK
    <3>4. m <= 19 /\ k - 1 <= n /\ (q.uart_tx_busy => k - 1 > 0)
      BY <2>1, <3>2, <3>3
    <3> QED BY <3>2, <3>3, <3>4 DEF FreeIn
  <2> QED BY <2>2, <2>3
<1>4. ASSUME d.uart_never_ready PROVE FreeIn(Tick(d), n)
  BY <1>1, <1>4 DEF FreeIn, Ticked
<1> QED BY <1>1, <1>3, <1>4 DEF Shown, Ticked

\* Steady cells keep the counter and the program.
LEMMA SteadyCell ==
  ASSUME Steady
  PROVE  Cell(256)' = Cell(256) /\ (Loaded("interrupt") /\ DOMAIN Image["interrupt"] \subseteq 1 .. 256 =>
                                      Loaded("interrupt")')
<1>1. 256 \in 0 .. 256 /\ \A x \in 0 .. 255 : x \in 0 .. 256
  OBVIOUS
<1>2. Cell(256)' = Cell(256)
  BY <1>1 DEF Steady, Cell
<1>3. \A x \in 0 .. 255 : Same(x)
  BY <1>1 DEF Steady, Same
<1> QED BY <1>2, <1>3, LoadedKept

\* interrupt.s lies below 256.
LEMMA DigitsLines ==
  ASSUME "interrupt" \in DOMAIN Image
  PROVE  InterruptDigits /\ DOMAIN Image["interrupt"] \subseteq 1 .. 256
<1>1. InterruptDigits /\ Len(Image["interrupt"]) = 65
  BY ListingAssumption DEF InterruptDigits
<1>2. PICK n \in 0 .. 256 : n = 65
  OBVIOUS
<1>3. Len(Image["interrupt"]) = n
  BY <1>1, <1>2
<1> QED BY <1>1, <1>3, ImageSize

\* A step of the main loop that neither stores nor enables interrupts.
LEMMA MainQuiet ==
  ASSUME MachineOK, "interrupt" \in DOMAIN Image, Resident, Main, NEW to, NEW regs, NEW f,
         pc' = to, registers' = regs, c' = f, io' = Tick(io), taken' = taken, saved' = saved,
         UNCHANGED <<halted, intis, mem>>,
         to < 13 => pc < 13, Counting(to, regs, f, Cell(256))
  PROVE  Resident' /\ Main' /\ Cell(256)' = Cell(256)
<1>1. Steady
  BY DEF Steady
<1>2. Cell(256)' = Cell(256) /\ Loaded("interrupt")'
  BY <1>1, DigitsLines, SteadyCell DEF Resident
<1>3. Paid(12)' /\ io'.int_enable = io.int_enable
  <2>1. DevicesOK(io) /\ FreeIn(io, 12) /\ Shown(io, Len(taken)) /\ 12 \in Nat
    BY DEF MachineOK, CpuOK, Main, Paid
  <2> QED BY <2>1, DevicesTick DEF Paid
<1> QED BY <1>2, <1>3 DEF Main, Resident

\* The two stores of the main loop: interrupts are enabled,
LEMMA MainEnables ==
  ASSUME MachineOK, MStep, "interrupt" \in DOMAIN Image, InterruptDigits, Resident, Main,
         ~ InterruptPending, pc = 11
  PROVE  Resident' /\ Main' /\ program' = program /\ Cell(256)' = Cell(256)
<1> DEFINE p == "interrupt"
<1>1. Short(p, 11, "Sb", 0, 1, 0) /\ At(p, 11)
  BY DEF InterruptDigits, At, MachineOK, MStep, Main, Resident
<1>2. PICK v \in Byte :
           /\ pc' = 11 + 2 /\ UNCHANGED <<registers, c, halted, intis>> /\ Steady
           /\ io' = Tick([io EXCEPT !.int_enable = v]) /\ DevicesOK([io EXCEPT !.int_enable = v])
  <2>1. registers[1] = IO_INTENABLE
    BY DEF Main, Counting
  <2> QED BY <1>1, <2>1, DoEnable
<1>3. PICK d : d = [io EXCEPT !.int_enable = v]
  OBVIOUS
<1>4. /\ DevicesOK(d) /\ d.uart_rx_ready = io.uart_rx_ready
      /\ FreeIn(d, 12) /\ Shown(d, Len(taken))
  BY <1>2, <1>3, FieldsNamed DEF DevicesOK, MachineOK, CpuOK, FreeIn, Shown, Main, Paid
<1>5. io'.uart_rx_ready = io.uart_rx_ready /\ FreeIn(io', 12) /\ Shown(io', Len(taken))
  <2>1. io' = Tick(d) /\ 12 \in Nat
    BY <1>2, <1>3
  <2> QED BY <1>4, <2>1, DevicesTick
<1>6. program' = program /\ saved' = saved /\ taken' = taken
  BY <1>1, <1>5, LineObserved DEF Short
<1>7. Cell(256)' = Cell(256) /\ Loaded(p)'
  BY <1>2, DigitsLines, SteadyCell DEF Resident
<1>8. Counting(13, registers, c, Cell(256))
  BY DEF Main, Counting
<1> QED BY <1>2, <1>5, <1>6, <1>7, <1>8 DEF Main, Resident, Paid

\* and the counter is stored.
LEMMA MainStores ==
  ASSUME MachineOK, MStep, "interrupt" \in DOMAIN Image, InterruptDigits, Resident, Main,
         ~ InterruptPending, pc = 19
  PROVE  /\ Resident' /\ Main' /\ program' = program
         /\ Cell(256)' = IF registers[2] = 10 THEN (Cell(256) + 1) % 10 ELSE 0
<1> DEFINE p == "interrupt"
<1>1. Short(p, 19, "Sb", 0, 1, 0) /\ At(p, 19) /\ 0 \in 0 .. 7 /\ 1 \in 0 .. 7
  BY DEF InterruptDigits, At, MachineOK, MStep, Main, Resident
<1>2. PICK n \in 0 .. 9 : n = IF registers[2] = 10 THEN (Cell(256) + 1) % 10 ELSE 0
  BY DEF Resident
<1>3. registers[0] = n /\ n % 256 = n /\ registers[1] = 256 /\ 256 \in Word
  BY <1>2, WordIs DEF Main, Counting
<1>4. PICK a \in Word : a = 256 /\ IsRam(a) /\ ~ IsIo(a)
  BY <1>3, LowRam, RamIs
<1>5. /\ pc' = 21 /\ io' = Tick(IoAfter(a, <<n>>)) /\ mem' = MemAfter(a, <<n>>)
      /\ UNCHANGED <<registers, c, halted, intis>>
  BY <1>1, <1>3, <1>4, DoSb
<1>6. /\ IoAfter(a, <<n>>) = io
      /\ DOMAIN mem' = DOMAIN mem \cup {a} /\ mem'[a] = n
      /\ \A x \in DOMAIN mem \ {a} : mem'[x] = mem[x]
  BY <1>4, <1>5, WriteOne
<1>7. Cell(256)' = n
  BY <1>4, <1>6 DEF Cell
<1>8. Loaded(p)'
  <2>1. ASSUME NEW x \in 0 .. 255 PROVE Same(x)
    <3>1. x # a
      BY <1>4
    <3> QED BY <1>6, <3>1 DEF Same
  <2> QED BY <2>1, DigitsLines, LoadedKept DEF Resident
<1>9. io'.uart_rx_ready = io.uart_rx_ready /\ Paid(12)' /\ taken' = taken
  <2>1. DevicesOK(io) /\ FreeIn(io, 12) /\ Shown(io, Len(taken)) /\ 12 \in Nat /\ io' = Tick(io)
    BY <1>5, <1>6 DEF MachineOK, CpuOK, Main, Paid
  <2>2. io'.uart_rx_ready = io.uart_rx_ready /\ FreeIn(io', 12) /\ Shown(io', Len(taken))
    BY <2>1, DevicesTick
  <2>3. taken' = taken
    BY <1>1, <2>2, LineObserved DEF Short
  <2> QED BY <2>2, <2>3 DEF Paid
<1>10. program' = program /\ saved' = saved
  BY <1>1, LineObserved DEF Short
<1>11. Counting(21, registers, c, n)
  BY <1>3 DEF Main, Counting
<1> QED BY <1>2, <1>5, <1>7, <1>8, <1>9, <1>10, <1>11 DEF Main, Resident

\* A step of the main loop.
LEMMA MainStep ==
  ASSUME MachineOK, MStep, "interrupt" \in DOMAIN Image, InterruptDigits, Resident, Main,
         ~ InterruptPending
  PROVE  /\ Resident' /\ Main' /\ program' = program
         /\ Cell(256)' \in {Cell(256), IF registers[2] = 10 THEN (Cell(256) + 1) % 10 ELSE 0}
<1> DEFINE p == "interrupt"
<1>1. At(p, pc)
  <2>1. pc \in Nat
    BY WordIs DEF MachineOK, CpuOK
  <2> QED BY <2>1 DEF At, MachineOK, MStep, Main, Resident
<1>2. registers \in [0 .. 7 -> Word]
  BY DEF MachineOK, CpuOK
<1>3. PICK n \in 0 .. 9 : n = Cell(256)
  BY DEF Resident
<1>4. Counting(pc, registers, c, n)
  BY <1>3 DEF Main
<1>5. ASSUME NEW to, NEW o, NEW x, NEW y, NEW w \in {1, 2, 4}, Line(p, pc, o, x, y, w), o # "Jmp",
             pc' = to, io' = Tick(io), UNCHANGED <<halted, intis, mem>>,
             to < 13 => pc < 13, Counting(to, registers', c', n)
      PROVE  Resident' /\ Main' /\ program' = program /\ Cell(256)' = Cell(256)
  <2>1. io'.uart_rx_ready = io.uart_rx_ready
    BY <1>5, DevicesTick DEF MachineOK, CpuOK
  <2>2. program' = program /\ saved' = saved /\ taken' = taken
    BY <1>1, <1>5, <2>1, LineObserved
  <2> QED BY <1>1, <1>3, <1>5, <2>2, MainQuiet DEF At
<1>6. CASE pc = 0
  <2>1. Long(p, 0, "La", 0, 7, 33) /\ At(p, 0) /\ 0 \in 0 .. 6
    BY <1>1, <1>6 DEF InterruptDigits
  <2>2. Moves([registers EXCEPT ![0] = 33], 0 + 4, io)
    BY <2>1, DoLa
  <2>3. Counting(4, registers', c', n)
    BY <1>2, <1>4, <1>6, <2>2 DEF Counting, Moves
  <2> QED BY <1>5, <1>6, <2>1, <2>2, <2>3 DEF Long, Moves
<1>7. CASE pc = 4
  <2>1. Plain(p, 4, "Mov", 6, 0) /\ At(p, 4) /\ 6 \in 0 .. 6 /\ 0 \in 0 .. 7 /\ 0 # 5
    BY <1>1, <1>7 DEF InterruptDigits
  <2>2. Moves([registers EXCEPT ![6] = IF 0 = 5 THEN (IF c THEN 1 ELSE 0) ELSE registers[0]],
              4 + 1, io)
    BY <2>1, DoMov
  <2>3. Counting(5, registers', c', n)
    BY <1>2, <1>4, <1>7, <2>2 DEF Counting, Moves
  <2> QED BY <1>5, <1>7, <2>1, <2>2, <2>3 DEF Plain, Moves
<1>8. CASE pc = 5
  <2>1. Long(p, 5, "La", 1, 7, IO_INTENABLE) /\ At(p, 5) /\ 1 \in 0 .. 6
    BY <1>1, <1>8 DEF InterruptDigits
  <2>2. Moves([registers EXCEPT ![1] = IO_INTENABLE], 5 + 4, io)
    BY <2>1, DoLa
  <2>3. Counting(9, registers', c', n)
    BY <1>2, <1>4, <1>8, <2>2 DEF Counting, Moves
  <2> QED BY <1>5, <1>8, <2>1, <2>2, <2>3 DEF Long, Moves
<1>9. CASE pc = 9
  <2>1. Short(p, 9, "Lc", 0, 7, 1) /\ At(p, 9) /\ 0 \in 0 .. 6
    BY <1>1, <1>9 DEF InterruptDigits
  <2>2. Moves([registers EXCEPT ![0] = 1], 9 + 2, io)
    BY <2>1, DoLc
  <2>3. Counting(11, registers', c', n)
    BY <1>2, <1>4, <1>9, <2>2 DEF Counting, Moves
  <2> QED BY <1>5, <1>9, <2>1, <2>2, <2>3 DEF Short, Moves
<1>10. CASE pc = 13
  <2>1. Long(p, 13, "La", 1, 7, 256) /\ At(p, 13) /\ 1 \in 0 .. 6
    BY <1>1, <1>10 DEF InterruptDigits
  <2>2. Moves([registers EXCEPT ![1] = 256], 13 + 4, io)
    BY <2>1, DoLa
  <2>3. Counting(17, registers', c', n)
    BY <1>2, <1>4, <1>10, <2>2 DEF Counting, Moves
  <2> QED BY <1>5, <1>10, <2>1, <2>2, <2>3 DEF Long, Moves
<1>11. CASE pc = 17
  <2>1. Short(p, 17, "Lc", 0, 7, 0) /\ At(p, 17) /\ 0 \in 0 .. 6
    BY <1>1, <1>11 DEF InterruptDigits
  <2>2. Moves([registers EXCEPT ![0] = 0], 17 + 2, io)
    BY <2>1, DoLc
  <2>3. registers[2] # 10
    BY <1>4, <1>11 DEF Counting
  <2>4. Counting(19, registers', c', n)
    BY <1>2, <1>4, <1>11, <2>2, <2>3 DEF Counting, Moves
  <2> QED BY <1>5, <1>11, <2>1, <2>2, <2>4 DEF Short, Moves
<1>12. CASE pc = 21
  <2>1. Short(p, 21, "Lc", 2, 7, 1) /\ At(p, 21) /\ 2 \in 0 .. 6
    BY <1>1, <1>12 DEF InterruptDigits
  <2>2. Moves([registers EXCEPT ![2] = 1], 21 + 2, io)
    BY <2>1, DoLc
  <2>3. Counting(23, registers', c', n)
    BY <1>2, <1>4, <1>12, <2>2 DEF Counting, Moves
  <2> QED BY <1>5, <1>12, <2>1, <2>2, <2>3 DEF Short, Moves
<1>13. CASE pc = 23
  <2>1. Plain(p, 23, "AddReg", 0, 2) /\ At(p, 23) /\ 0 \in 0 .. 6 /\ 2 \in 0 .. 7
    BY <1>1, <1>13 DEF InterruptDigits
  <2>2. Moves([registers EXCEPT ![0] = Mask(registers[0] + registers[2])], 23 + 1, io)
    BY <2>1, DoAdd
  <2>3. Mask(registers[0] + registers[2]) = n + 1
    <3>1. registers[0] = n /\ registers[2] = 1 /\ n + 1 \in Word
      BY <1>4, <1>13, WordIs DEF Counting
    <3> QED BY <3>1, MaskWord
  <2>4. Counting(24, registers', c', n)
    BY <1>2, <1>4, <1>13, <2>2, <2>3 DEF Counting, Moves
  <2> QED BY <1>5, <1>13, <2>1, <2>2, <2>4 DEF Plain, Moves
<1>14. CASE pc = 24
  <2>1. Short(p, 24, "Lc", 2, 7, 10) /\ At(p, 24) /\ 2 \in 0 .. 6
    BY <1>1, <1>14 DEF InterruptDigits
  <2>2. Moves([registers EXCEPT ![2] = 10], 24 + 2, io)
    BY <2>1, DoLc
  <2>3. Counting(26, registers', c', n)
    BY <1>2, <1>4, <1>14, <2>2 DEF Counting, Moves
  <2> QED BY <1>5, <1>14, <2>1, <2>2, <2>3 DEF Short, Moves
<1>15. CASE pc = 29
  <2>1. Short(p, 29, "Lc", 0, 7, 0) /\ At(p, 29) /\ 0 \in 0 .. 6
    BY <1>1, <1>15 DEF InterruptDigits
  <2>2. Moves([registers EXCEPT ![0] = 0], 29 + 2, io)
    BY <2>1, DoLc
  <2>3. Counting(31, registers', c', n)
    BY <1>2, <1>4, <1>15, <2>2 DEF Counting, Moves
  <2> QED BY <1>5, <1>15, <2>1, <2>2, <2>3 DEF Short, Moves
<1>16. CASE pc = 26
  <2>1. Plain(p, 26, "Ceq", 0, 2) /\ At(p, 26) /\ "Ceq" \in {"Ceq", "Cls", "Clu"}
    BY <1>1, <1>16 DEF InterruptDigits
  <2>2. /\ c' = (registers[0] = registers[2]) /\ pc' = 27 /\ io' = Tick(io)
        /\ UNCHANGED <<registers, halted, intis, mem>>
    BY <2>1, DoCompare
  <2>3. Counting(27, registers', c', n)
    BY <1>4, <1>16, <2>2 DEF Counting
  <2> QED BY <1>5, <1>16, <2>1, <2>2, <2>3 DEF Plain
<1>17. CASE pc = 27
  <2>1. Branch(p, 27, "Brf", 19) /\ At(p, 27) /\ "Brf" \in {"Brf", "Brt"}
    BY <1>1, <1>17 DEF InterruptDigits
  <2>2. Moves(registers, IF c THEN 29 ELSE 19, io)
    <3>1. Moves(registers, IF c = ("Brf" = "Brt") THEN 19 ELSE 27 + 2, io) /\ c \in BOOLEAN
      BY <2>1, DoBranchIf DEF MachineOK, CpuOK
    <3>2. (IF c = ("Brf" = "Brt") THEN 19 ELSE 27 + 2) = IF c THEN 29 ELSE 19
      BY <3>1
    <3> QED BY <3>1, <3>2
  <2>3. CASE c
    <3>1. n = 9 /\ registers' = registers /\ c' = c /\ pc' = 29
      BY <1>4, <1>17, <2>2, <2>3 DEF Counting, Moves
    <3>2. Counting(29, registers, c, n)
      BY <1>4, <1>17, <3>1 DEF Counting
    <3> QED BY <1>5, <1>17, <2>1, <2>2, <3>1, <3>2 DEF Branch, Moves
  <2>4. CASE ~ c
    <3>1. n # 9 /\ registers' = registers /\ c' = c /\ pc' = 19
      BY <1>4, <1>17, <2>2, <2>4 DEF Counting, Moves
    <3>2. (n + 1) % 10 = n + 1
      BY <3>1
    <3>3. Counting(19, registers, c, n)
      BY <1>4, <1>17, <3>2 DEF Counting
    <3> QED BY <1>5, <1>17, <2>1, <2>2, <3>1, <3>3 DEF Branch, Moves
  <2> QED BY <2>3, <2>4
<1>18. CASE pc = 31
  <2>1. Branch(p, 31, "Bra", 19) /\ At(p, 31)
    BY <1>1, <1>18 DEF InterruptDigits
  <2>2. /\ halted' = (19 = 31) /\ pc' = 19 /\ io' = Tick(io)
        /\ UNCHANGED <<registers, c, intis, mem>>
    BY <2>1, DoBra
  <2>3. (n + 1) % 10 = 0
    BY <1>4, <1>18 DEF Counting
  <2>4. Counting(19, registers, c, n)
    BY <1>4, <1>18, <2>3 DEF Counting
  <2>5. halted' = halted
    BY <2>2 DEF Main, MachineOK, CpuOK
  <2> QED BY <1>5, <1>18, <2>1, <2>2, <2>4, <2>5 DEF Branch
\* interrupts are enabled
<1>19. CASE pc = 11
  BY <1>19, MainEnables
\* and the counter is stored.
<1>20. CASE pc = 19
  BY <1>20, MainStores
<1> QED BY <1>4, <1>6, <1>7, <1>8, <1>9, <1>10, <1>11, <1>12, <1>13, <1>14, <1>15, <1>16, <1>17,
           <1>18, <1>19, <1>20 DEF Counting
\* The routine is entered with the context of the main loop in its frame.
LEMMA Entered ==
  ASSUME MachineOK, MStep, "interrupt" \in DOMAIN Image, Resident, Main, InterruptPending
  PROVE  /\ Resident' /\ program' = program /\ Cell(256)' = Cell(256)
         /\ \E x : Routine(x)'
<1>1. registers[4] = INITIAL_SP /\ ~ halted /\ saved = <<>>
  BY DEF Main, Counting
<1>2. /\ program' = program /\ taken' = taken /\ pc' = registers[6]
      /\ UNCHANGED <<c, mem, io>>
  BY <1>1, Interrupted
<1>3. PICK x : /\ x.registers = registers /\ x.c = c /\ x.pc = pc
               /\ Within(x, 0)' /\ Keeps(x, {0, 1, 2})'
  BY <1>1, Interrupted
<1>4. pc >= 13 /\ registers[6] = 33
  <2>1. pc \in Nat
    BY WordIs DEF MachineOK, CpuOK
  <2>2. io.int_enable # 0
    BY DEF InterruptPending
  <2> QED BY <2>1, <2>2 DEF Main, Counting
<1>5. Cell(256)' = Cell(256) /\ Loaded("interrupt")'
  BY <1>2 DEF Cell, Resident, Loaded
<1>6. Asked(12)'
  BY <1>2 DEF Main, Paid, Asked, InterruptPending
<1>7. Frame(x, 0)'
  BY <1>2, <1>3, <1>4, <1>5 DEF Frame, Main
<1>8. Routine(x)'
  BY <1>2, <1>3, <1>4, <1>6, <1>7 DEF Routine
<1> QED BY <1>2, <1>5, <1>8 DEF Resident

\* What every line of the routine but the load and the store of the data
\* register keeps; a transmission is one instruction nearer to its end.
Onward(to) ==
  /\ Resident' /\ program' = program /\ Cell(256)' = Cell(256) /\ pc' = to
  /\ \A m \in Nat : /\ Asked(m + 1) => Asked(m)'
                    /\ Owes(m + 1) => Owes(m)'
                    /\ Paid(m + 1) => Paid(m)'

\* A line that writes no device and nothing up to the counter goes onward.
LEMMA StepsOnward ==
  ASSUME MachineOK, MStep, "interrupt" \in DOMAIN Image, Resident,
         NEW k, At("interrupt", k), NEW o, NEW x, NEW y, NEW w \in {1, 2, 4},
         Line("interrupt", k, o, x, y, w), NEW to, pc' = to, io' = Tick(io), Steady
  PROVE  Onward(to) /\ (o # "Jmp" => saved' = saved)
<1>1. Cell(256)' = Cell(256) /\ Loaded("interrupt")'
  BY DigitsLines, SteadyCell DEF Resident
<1>2. DevicesOK(io)
  BY DEF MachineOK, CpuOK
<1>3. io'.uart_rx_ready = io.uart_rx_ready
  BY <1>2, DevicesTick
<1>4. program' = program /\ taken' = taken /\ (o # "Jmp" => saved' = saved)
  BY <1>3, LineObserved
<1>5. ASSUME NEW m \in Nat
      PROVE  /\ Asked(m + 1) => Asked(m)'
             /\ Owes(m + 1) => Owes(m)'
             /\ Paid(m + 1) => Paid(m)'
  <2>1. FreeIn(io, m + 1) => FreeIn(io', m)
    BY <1>2, DevicesTick
  <2>2. \A n : Shown(io, n) => Shown(io', n)
    BY <1>2, DevicesTick
  <2> QED BY <1>3, <1>4, <2>1, <2>2 DEF Asked, Owes, Paid
<1> QED BY <1>1, <1>4, <1>5 DEF Onward, Resident

\* A line that writes one of r0 to r2.
LEMMA FrameMoves ==
  ASSUME MachineOK, MStep, "interrupt" \in DOMAIN Image, Resident,
         NEW k, At("interrupt", k), NEW o, NEW q, NEW y, NEW w \in {1, 2, 4},
         Line("interrupt", k, o, q, y, w), o # "Jmp",
         NEW x, NEW n \in 0 .. 4, Frame(x, n), NEW r \in {0, 1, 2}, NEW v, NEW to,
         Moves([registers EXCEPT ![r] = v], to, io)
  PROVE  /\ Onward(to) /\ Frame(x, n)' /\ registers'[r] = v
         /\ \A i \in {0, 1, 2} \ {r} : registers'[i] = registers[i]
<1>1. Onward(to) /\ saved' = saved
  <2>1. pc' = to /\ io' = Tick(io) /\ Steady
    BY DEF Moves, Steady
  <2> QED BY <2>1, StepsOnward
<1>2. /\ registers'[r] = v /\ \A i \in 0 .. 7 \ {r} : registers'[i] = registers[i]
      /\ UNCHANGED <<c, halted, intis, mem>>
  BY DEF Moves, MachineOK, CpuOK
<1>3. Frame(x, n)'
  BY <1>1, <1>2 DEF Frame, Within, Onward, Holds
<1> QED BY <1>1, <1>2, <1>3

\* The words pushed are those of the context.
LEMMA StackedIs ==
  ASSUME NEW x, NEW n, Frame(x, n)
  PROVE  /\ Stacked(x)[1] = x.registers[0] /\ Stacked(x)[2] = x.registers[1]
         /\ Stacked(x)[3] = x.registers[2] /\ Stacked(x)[4] = IF c THEN 1 ELSE 0
         /\ \A i \in 1 .. 4 : Stacked(x)[i] \in Word
BY WordsStacked DEF Frame

\* A push adds a word to the frame,
LEMMA FramePush ==
  ASSUME MachineOK, MStep, "interrupt" \in DOMAIN Image, Resident,
         NEW k, At("interrupt", k), NEW r \in {0, 1, 2}, NEW y, Plain("interrupt", k, "Push", r, y),
         NEW x, NEW n \in 0 .. 3, Frame(x, n), registers[r] = Stacked(x)[n + 1]
  PROVE  /\ Onward(k + 1) /\ Frame(x, n + 1)'
         /\ \A i \in {0, 1, 2} : registers'[i] = registers[i]
<1>1. /\ pc' = k + 1 /\ io' = Tick(io) /\ c' = c /\ Steady /\ Within(x, n + 1)'
      /\ \A i \in {0, 1, 2} : registers'[i] = registers[i]
  BY WithinPush DEF Frame
<1>2. Onward(k + 1)
  BY <1>1, StepsOnward DEF Plain
<1> QED BY <1>1, <1>2 DEF Frame, Onward

\* and a pop takes it back.
LEMMA FramePop ==
  ASSUME MachineOK, MStep, "interrupt" \in DOMAIN Image, Resident,
         NEW k, At("interrupt", k), NEW r \in {0, 1, 2}, NEW y, Plain("interrupt", k, "Pop", r, y),
         NEW x, NEW n \in 0 .. 3, Frame(x, n + 1)
  PROVE  /\ Onward(k + 1) /\ Frame(x, n)' /\ registers'[r] = Stacked(x)[n + 1]
         /\ \A i \in {0, 1, 2} \ {r} : registers'[i] = registers[i]
<1>1. /\ pc' = k + 1 /\ io' = Tick(io) /\ c' = c /\ Steady /\ Within(x, n)'
      /\ registers'[r] = Stacked(x)[n + 1]
      /\ \A i \in {0, 1, 2} \ {r} : registers'[i] = registers[i]
  BY WithinPop DEF Frame
<1>2. Onward(k + 1)
  BY <1>1, StepsOnward DEF Plain
<1> QED BY <1>1, <1>2 DEF Frame, Onward

\* The routine reads the character, and now owes a digit for it.
LEMMA RoutineReads ==
  ASSUME MachineOK, MStep, "interrupt" \in DOMAIN Image, Resident, At("interrupt", 42),
         Short("interrupt", 42, "Lb", 2, 1, 0),
         NEW x, Frame(x, 4), registers[1] = IO_UARTDATA, Asked(6)
  PROVE  /\ Resident' /\ program' = program /\ Cell(256)' = Cell(256)
         /\ pc' = 44 /\ Frame(x, 4)' /\ Owes(5)'
<1>1. PICK v : Moves([registers EXCEPT ![2] = v], 42 + 2, [io EXCEPT !.uart_rx_ready = FALSE])
  <2>1. PICK a \in Word : a = IO_UARTDATA /\ registers[1] = a
    BY DevicesAt
  <2>2. PICK v, d : v = SignExtend8(ReadByte(a)) /\ d = [io EXCEPT !.uart_rx_ready = @ /\ a # IO_UARTDATA]
    OBVIOUS
  <2>3. Moves([registers EXCEPT ![2] = v], 42 + 2, d)
    <3>1. 2 \in 0 .. 6
      OBVIOUS
    <3> QED BY <2>1, <2>2, <3>1, LoadsAs
  <2>4. d = [io EXCEPT !.uart_rx_ready = FALSE]
    BY <2>1, <2>2
  <2> QED BY <2>3, <2>4
<1>2. PICK d : d = [io EXCEPT !.uart_rx_ready = FALSE]
  OBVIOUS
<1>3. /\ DevicesOK(d) /\ ~ d.uart_rx_ready /\ FreeIn(d, 6) /\ Shown(d, Len(taken))
      /\ io.uart_rx_ready /\ io.uart_rx \in Byte
  BY <1>2, FieldsNamed DEF MachineOK, CpuOK, DevicesOK, Asked, FreeIn, Shown
<1>4. ~ io'.uart_rx_ready /\ FreeIn(io', 5) /\ Shown(io', Len(taken))
  <2>1. io' = Tick(d) /\ 5 \in Nat /\ 5 + 1 = 6
    BY <1>1, <1>2 DEF Moves
  <2>2. FreeIn(Tick(d), 5)
    BY <1>3, <2>1, DevicesTick
  <2> QED BY <1>3, <2>1, <2>2, DevicesTick
<1>5. program' = program /\ saved' = saved /\ taken' = Append(taken, io.uart_rx)
  BY <1>3, <1>4, LineObserved DEF Short
<1>6. taken' \in Seq(Byte) /\ Len(taken') - 1 = Len(taken)
  <2>1. Len(taken) \in Nat /\ Len(taken') = Len(taken) + 1 /\ taken' \in Seq(Byte)
    BY <1>3, <1>5, AppendProperties, LenProperties DEF Resident
  <2> QED BY <2>1
<1>7. Steady
  BY <1>1 DEF Moves, Steady
<1>8. Cell(256)' = Cell(256) /\ Loaded("interrupt")'
  BY <1>7, DigitsLines, SteadyCell DEF Resident
<1>9. /\ \A i \in 0 .. 7 \ {2} : registers'[i] = registers[i]
      /\ UNCHANGED <<c, halted, intis, mem>> /\ pc' = 44
  BY <1>1 DEF Moves, MachineOK, CpuOK
<1>10. Frame(x, 4)'
  BY <1>5, <1>8, <1>9 DEF Frame, Within, Holds
<1> QED BY <1>4, <1>5, <1>6, <1>8, <1>9, <1>10 DEF Resident, Owes

\* A digit given to a free transmitter is shown.
LEMMA DigitShown ==
  ASSUME NEW d, DevicesOK(d), NEW v \in 48 .. 57, NEW n \in Int, FreeIn(d, 0), Shown(d, n)
  PROVE  FreeIn(Transmit(d, v), 19) /\ Shown(Transmit(d, v), n + 1)
<1>1. PICK e : e = Transmit(d, v)
  OBVIOUS
<1>2. CASE d.uart_never_ready
  <2>1. e.uart_never_ready
    BY <1>1, <1>2, FieldsNamed DEF Transmit, DevicesOK
  <2> QED BY <1>1, <2>1 DEF FreeIn, Shown
<1>3. CASE ~ d.uart_never_ready
  <2>1. PICK m \in Nat, t \in Nat, out \in Seq(Nat) :
               m = d.uart_tx_busy_cycles /\ t = d.uart_tx_countdown /\ out = d.uart_output
    <3>1. d.uart_tx_busy_cycles \in Byte /\ d.uart_tx_countdown \in Byte
      BY DEF DevicesOK
    <3>2. d.uart_tx_busy_cycles \in Nat /\ d.uart_tx_countdown \in Nat
      BY <3>1 DEF Byte
    <3>3. d.uart_output \in Seq(Nat)
      BY <1>3 DEF Shown
    <3> QED BY <3>2, <3>3
  <2>2. m <= 19 /\ t = 0 /\ ~ d.uart_tx_busy
    BY <1>3, <2>1 DEF FreeIn
  <2>3. n \in Nat /\ Len(out) = n /\ \A i \in 1 .. n : out[i] \in 48 .. 57
    BY <1>3, <2>1, LenProperties DEF Shown
  <2>4. PICK q : q = IF v = 0 THEN d.uart_output ELSE Append(d.uart_output, v)
    OBVIOUS
  <2>5. v # 0 /\ v \in Nat
    OBVIOUS
  <2>6. q = Append(out, v)
    BY <2>1, <2>4, <2>5
  <2>7. e = [d EXCEPT !.uart_tx = v, !.uart_output = q, !.uart_tx_busy = m > 0,
                      !.uart_tx_countdown = IF m > 0 THEN m ELSE t]
    BY <1>1, <2>1, <2>2, <2>4 DEF Transmit
  <2>8. /\ e.uart_output = q /\ (e.uart_tx_busy <=> m > 0) /\ e.uart_tx_busy_cycles = m
        /\ e.uart_tx_countdown = IF m > 0 THEN m ELSE t
    BY <2>1, <2>7, FieldsNamed DEF DevicesOK
  <2>9. /\ q \in Seq(Nat) /\ Len(q) = n + 1 /\ q[n + 1] = v
        /\ \A i \in 1 .. n : q[i] = out[i]
    BY <2>1, <2>3, <2>5, <2>6, AppendProperties
  <2>10. \A i \in 1 .. n + 1 : q[i] \in 48 .. 57
    <3>1. \A i \in 1 .. n + 1 : i \in 1 .. n \/ i = n + 1
      OBVIOUS
    <3> QED BY <2>3, <2>9, <3>1
  <2>11. FreeIn(e, 19)
    BY <2>2, <2>8 DEF FreeIn
  <2>12. Shown(e, n + 1)
    BY <2>8, <2>9, <2>10 DEF Shown
  <2> QED BY <1>1, <2>11, <2>12
<1> QED BY <1>2, <1>3

\* It stores its digit.
LEMMA RoutineDigit ==
  ASSUME MachineOK, MStep, "interrupt" \in DOMAIN Image, Resident, At("interrupt", 57),
         Short("interrupt", 57, "Sb", 0, 1, 0),
         NEW x, Frame(x, 4), registers[1] = IO_UARTDATA, registers[0] = 48 + Cell(256), Owes(0)
  PROVE  /\ Resident' /\ program' = program /\ Cell(256)' = Cell(256)
         /\ pc' = 59 /\ Frame(x, 4)' /\ Paid(18)'
<1>1. PICK n \in 0 .. 9 : n = Cell(256)
  BY DEF Resident
<1>2. PICK v \in Byte :
           /\ v = registers[0] % 256 /\ pc' = 57 + 2 /\ io' = Tick(Transmit(io, v))
           /\ DevicesOK(Transmit(io, v)) /\ UNCHANGED <<registers, c, halted, intis>>
           /\ Steady /\ \A a, w : Holds(mem, a, w) => Holds(mem, a, w)'
  BY DoTransmit
<1>3. v \in 48 .. 57
  BY <1>1, <1>2
<1>4. PICK d : d = Transmit(io, v)
  OBVIOUS
<1>5. DevicesOK(io) /\ DevicesOK(d)
  BY <1>2, <1>4 DEF MachineOK, CpuOK
<1>6. PICK k \in Int : k = Len(taken) - 1 /\ k + 1 = Len(taken)
  BY LenProperties DEF Resident
<1>7. FreeIn(d, 19) /\ Shown(d, Len(taken))
  <2>1. FreeIn(io, 0) /\ Shown(io, k)
    BY <1>6 DEF Owes
  <2> QED BY <1>3, <1>4, <1>5, <1>6, <2>1, DigitShown
<1>8. d.uart_rx_ready = io.uart_rx_ready
  BY <1>4, <1>5, FieldsNamed DEF Transmit, DevicesOK
<1>9. /\ io'.uart_rx_ready = io.uart_rx_ready
      /\ FreeIn(io', 18) /\ Shown(io', Len(taken))
  <2>1. io' = Tick(d) /\ 18 \in Nat /\ 18 + 1 = 19
    BY <1>2, <1>4
  <2>2. FreeIn(Tick(d), 18)
    BY <1>5, <1>7, <2>1, DevicesTick
  <2> QED BY <1>5, <1>7, <1>8, <2>1, <2>2, DevicesTick
<1>10. program' = program /\ saved' = saved /\ taken' = taken
  BY <1>9, LineObserved DEF Short
<1>11. Cell(256)' = Cell(256) /\ Loaded("interrupt")'
  BY <1>2, DigitsLines, SteadyCell DEF Resident
<1>12. Frame(x, 4)'
  BY <1>2, <1>10, <1>11, WithinKept DEF Frame
<1> QED BY <1>2, <1>9, <1>10, <1>11, <1>12 DEF Resident, Paid

\* It returns to the main loop where it left it.
LEMMA RoutineReturns ==
  ASSUME MachineOK, MStep, "interrupt" \in DOMAIN Image, Resident, At("interrupt", 64),
         Plain("interrupt", 64, "Jmp", 7, 7),
         NEW x, Frame(x, 0), Keeps(x, {0, 1, 2}), Paid(13)
  PROVE  Resident' /\ program' = program /\ Cell(256)' = Cell(256) /\ Main'
<1>1. /\ ~ intis' /\ saved' = <<>> /\ pc' = x.pc /\ io' = Tick(io) /\ Steady
      /\ UNCHANGED <<c, halted, mem>> /\ \A r \in 0 .. 6 : registers'[r] = x.registers[r]
  BY WithinLeft DEF Frame
<1>2. Onward(x.pc)
  BY <1>1, StepsOnward DEF Plain
<1>3. Counting(x.pc, registers', c', Cell(256)') /\ x.pc >= 13
  <2>1. /\ Counting(x.pc, x.registers, x.c, Cell(256)) /\ c' = x.c /\ x.pc >= 13
        /\ Cell(256)' = Cell(256)
    BY <1>1, <1>2 DEF Frame, Onward
  <2>2. \A r \in {0, 1, 2, 4, 6} : registers'[r] = x.registers[r]
    BY <1>1
  <2> QED BY <2>1, <2>2 DEF Counting
<1>4. Paid(12)'
  BY <1>2 DEF Onward
<1>5. ~ halted' /\ ~ (x.pc < 13)
  <2>1. ~ halted'
    BY <1>1 DEF Frame, Within
  <2> QED BY <1>3, <2>1 DEF Counting
<1> QED BY <1>1, <1>2, <1>3, <1>4, <1>5 DEF Main, Onward

\* It loads the counter,
LEMMA RoutineLoads ==
  ASSUME MachineOK, MStep, "interrupt" \in DOMAIN Image, Resident, At("interrupt", 48),
         Short("interrupt", 48, "Lb", 2, 1, 0),
         NEW x, Frame(x, 4), registers[1] = 256, Owes(4)
  PROVE  /\ Resident' /\ program' = program /\ Cell(256)' = Cell(256)
         /\ pc' = 50 /\ Frame(x, 4)' /\ registers'[2] = Cell(256)' /\ Owes(3)'
<1>1. PICK n \in 0 .. 9 : n = Cell(256)
  BY DEF Resident
<1>2. PICK a \in Word : a = 256 /\ IsRam(a) /\ a # IO_UARTDATA /\ a \in Nat
  BY LowRam, WordIs, DevicesAt
<1>3. SignExtend8(ReadByte(a)) = n
  <2>1. ReadByte(a) = n
    BY <1>1, <1>2, ReadRam DEF Cell
  <2>2. SignExtend8(n) = n
    BY DEF SignExtend8
  <2> QED BY <2>1, <2>2
<1>4. PICK d : d = [io EXCEPT !.uart_rx_ready = @ /\ a # IO_UARTDATA]
  OBVIOUS
<1>5. Moves([registers EXCEPT ![2] = n], 48 + 2, d)
  <2>1. registers[1] = a /\ 2 \in 0 .. 6
    BY <1>2
  <2> QED BY <1>3, <1>4, <2>1, LoadsAs
<1>6. DevicesOK(d) /\ FreeIn(d, 4) /\ Shown(d, Len(taken) - 1)
  BY <1>4, FieldsNamed DEF MachineOK, CpuOK, DevicesOK, Owes, FreeIn, Shown
<1>7. io.uart_rx_ready => d.uart_rx_ready
  BY <1>2, <1>4, FieldsNamed DEF MachineOK, CpuOK, DevicesOK
<1>8. (io.uart_rx_ready => io'.uart_rx_ready) /\ FreeIn(io', 3) /\ Shown(io', Len(taken) - 1)
  <2>1. io' = Tick(d) /\ 3 \in Nat /\ 3 + 1 = 4
    BY <1>5 DEF Moves
  <2>2. FreeIn(Tick(d), 3)
    BY <1>6, <2>1, DevicesTick
  <2> QED BY <1>6, <1>7, <2>1, <2>2, DevicesTick
<1>9. program' = program /\ saved' = saved /\ taken' = taken
  BY <1>8, LineObserved DEF Short
<1>10. Steady
  BY <1>5 DEF Moves, Steady
<1>11. Cell(256)' = Cell(256) /\ Loaded("interrupt")'
  BY <1>10, DigitsLines, SteadyCell DEF Resident
<1>12. /\ registers'[2] = n /\ \A i \in 0 .. 7 \ {2} : registers'[i] = registers[i]
       /\ UNCHANGED <<c, halted, intis, mem>> /\ pc' = 50
  BY <1>5 DEF Moves, MachineOK, CpuOK
<1>13. Frame(x, 4)'
  BY <1>9, <1>11, <1>12 DEF Frame, Within, Holds
<1> QED BY <1>1, <1>8, <1>9, <1>11, <1>12, <1>13 DEF Resident, Owes

\* and gets the flag back by comparing zero with the word it was saved as.
LEMMA FrameFlag ==
  ASSUME MachineOK, MStep, "interrupt" \in DOMAIN Image, Resident,
         At("interrupt", 60), Plain("interrupt", 60, "Clu", 5, 2),
         NEW x, Frame(x, 3), registers[2] = Stacked(x)[4]
  PROVE  Onward(60 + 1) /\ Frame(x, 3)'
<1>1. /\ c' = (registers[5] < registers[2]) /\ pc' = 60 + 1 /\ io' = Tick(io)
      /\ UNCHANGED <<registers, halted, intis, mem>>
  BY DoCompare
<1>2. c' = c
  <2>1. registers[5] = 0 /\ c \in BOOLEAN /\ registers[2] = IF c THEN 1 ELSE 0
    BY StackedIs DEF MachineOK, CpuOK
  <2> QED BY <1>1, <2>1
<1>3. Onward(60 + 1) /\ saved' = saved
  <2>1. Steady
    BY <1>1 DEF Steady
  <2> QED BY <1>1, <2>1, StepsOnward DEF Plain
<1>4. Frame(x, 3)'
  BY <1>1, <1>2, <1>3 DEF Frame, Within, Onward, Holds
<1> QED BY <1>3, <1>4

\* A step of the routine leads to its next line, or back to the main loop.
LEMMA RoutineStep ==
  ASSUME MachineOK, MStep, "interrupt" \in DOMAIN Image, InterruptDigits, Resident,
         NEW x, Routine(x)
  PROVE  /\ Resident' /\ program' = program /\ Cell(256)' = Cell(256)
         /\ Main' \/ Routine(x)'
<1> DEFINE p == "interrupt"
<1>1. At(p, pc)
  <2>1. pc \in Nat
    BY WordIs DEF MachineOK, CpuOK
  <2>2. ~ halted /\ intis
    BY DEF Routine, Frame, Within
  <2> QED BY <2>1, <2>2 DEF At, MachineOK, MStep, Resident, InterruptPending
<1>2. PICK n \in 0 .. 9 : n = Cell(256)
  BY DEF Resident
<1>3. CASE pc = 33 /\ Frame(x, 0) /\ Keeps(x, {0, 1, 2}) /\ Asked(12)
  <2>1. /\ Plain(p, 33, "Push", 0, 4) /\ At(p, 33) /\ 0 \in {0, 1, 2} /\ 0 \in 0 .. 3
        /\ registers[0] = Stacked(x)[0 + 1]
    BY <1>1, <1>3, StackedIs DEF InterruptDigits, Keeps
  <2>2. /\ Onward(33 + 1) /\ Frame(x, 0 + 1)'
        /\ \A i \in {0, 1, 2} : registers'[i] = registers[i]
    BY <2>1, <1>3, FramePush
  <2>3. pc' = 34 /\ Asked(11)'
    <3>1. 11 \in Nat /\ Asked(11 + 1)
      BY <1>3
    <3> QED BY <2>2, <3>1 DEF Onward
  <2>4. Keeps(x, {1, 2})'
    BY <1>3, <2>2 DEF Keeps
  <2> QED BY <2>2, <2>3, <2>4 DEF Routine, Onward
<1>4. CASE pc = 34 /\ Frame(x, 1) /\ Keeps(x, {1, 2}) /\ Asked(11)
  <2>1. /\ Plain(p, 34, "Push", 1, 4) /\ At(p, 34) /\ 1 \in {0, 1, 2} /\ 1 \in 0 .. 3
        /\ registers[1] = Stacked(x)[1 + 1]
    BY <1>1, <1>4, StackedIs DEF InterruptDigits, Keeps
  <2>2. /\ Onward(34 + 1) /\ Frame(x, 1 + 1)'
        /\ \A i \in {0, 1, 2} : registers'[i] = registers[i]
    BY <2>1, <1>4, FramePush
  <2>3. pc' = 35 /\ Asked(10)'
    <3>1. 10 \in Nat /\ Asked(10 + 1)
      BY <1>4
    <3> QED BY <2>2, <3>1 DEF Onward
  <2>4. Keeps(x, {2})'
    BY <1>4, <2>2 DEF Keeps
  <2> QED BY <2>2, <2>3, <2>4 DEF Routine, Onward
<1>5. CASE pc = 35 /\ Frame(x, 2) /\ Keeps(x, {2}) /\ Asked(10)
  <2>1. /\ Plain(p, 35, "Push", 2, 4) /\ At(p, 35) /\ 2 \in {0, 1, 2} /\ 2 \in 0 .. 3
        /\ registers[2] = Stacked(x)[2 + 1]
    BY <1>1, <1>5, StackedIs DEF InterruptDigits, Keeps
  <2>2. /\ Onward(35 + 1) /\ Frame(x, 2 + 1)'
        /\ \A i \in {0, 1, 2} : registers'[i] = registers[i]
    BY <2>1, <1>5, FramePush
  <2>3. pc' = 36 /\ Asked(9)'
    <3>1. 9 \in Nat /\ Asked(9 + 1)
      BY <1>5
    <3> QED BY <2>2, <3>1 DEF Onward
  <2> QED BY <2>2, <2>3 DEF Routine, Onward
<1>6. CASE pc = 37 /\ Frame(x, 3) /\ registers[2] = Stacked(x)[4] /\ Asked(8)
  <2>1. /\ Plain(p, 37, "Push", 2, 4) /\ At(p, 37) /\ 2 \in {0, 1, 2} /\ 3 \in 0 .. 3
        /\ registers[2] = Stacked(x)[3 + 1]
    BY <1>1, <1>6, StackedIs DEF InterruptDigits, Keeps
  <2>2. /\ Onward(37 + 1) /\ Frame(x, 3 + 1)'
        /\ \A i \in {0, 1, 2} : registers'[i] = registers[i]
    BY <2>1, <1>6, FramePush
  <2>3. pc' = 38 /\ Asked(7)'
    <3>1. 7 \in Nat /\ Asked(7 + 1)
      BY <1>6
    <3> QED BY <2>2, <3>1 DEF Onward
  <2> QED BY <2>2, <2>3 DEF Routine, Onward
<1>7. CASE pc = 36 /\ Frame(x, 3) /\ Asked(9)
  <2>1. PICK v : v = IF c THEN 1 ELSE 0
    OBVIOUS
  <2>2. /\ Onward(36 + 1) /\ Frame(x, 3)' /\ registers'[2] = v
    <3>1. Plain(p, 36, "Mov", 2, 5) /\ At(p, 36) /\ 2 \in 0 .. 6 /\ 5 \in 0 .. 7
      BY <1>1, <1>7 DEF InterruptDigits
    <3>2. Moves([registers EXCEPT ![2] = IF 5 = 5 THEN (IF c THEN 1 ELSE 0) ELSE registers[5]],
                36 + 1, io)
      BY <3>1, DoMov
    <3>3. Moves([registers EXCEPT ![2] = v], 36 + 1, io)
      BY <2>1, <3>2
    <3>4. 2 \in {0, 1, 2} /\ 3 \in 0 .. 4 /\ 1 \in {1, 2, 4}
      OBVIOUS
    <3>5. Line(p, 36, "Mov", 2, 5, 1) /\ "Mov" # "Jmp"
      BY <3>1 DEF Plain
    <3> QED BY <3>1, <1>7, <3>3, <3>4, <3>5, FrameMoves
  <2>3. pc' = 37 /\ Asked(8)'
    <3>1. 8 \in Nat /\ Asked(8 + 1)
      BY <1>7
    <3> QED BY <2>2, <3>1 DEF Onward
  <2>4. registers'[2] = Stacked(x)[4]
    BY <1>7, <2>1, <2>2, StackedIs
  <2> QED BY <2>2, <2>3, <2>4 DEF Routine, Onward
<1>8. CASE pc = 38 /\ Frame(x, 4) /\ Asked(7)
  <2>1. Long(p, 38, "La", 1, 7, IO_UARTDATA) /\ At(p, 38) /\ 1 \in 0 .. 6
    BY <1>1, <1>8 DEF InterruptDigits
  <2>2. /\ Onward(38 + 4) /\ Frame(x, 4)' /\ registers'[1] = IO_UARTDATA
        /\ \A i \in {0, 1, 2} \ {1} : registers'[i] = registers[i]
    <3>1. Moves([registers EXCEPT ![1] = IO_UARTDATA], 38 + 4, io)
      BY <2>1, DoLa
    <3>2. 1 \in {0, 1, 2} /\ 4 \in 0 .. 4 /\ 4 \in {1, 2, 4}
      OBVIOUS
    <3> QED BY <2>1, <1>8, <3>1, <3>2, FrameMoves DEF Long
  <2>3. pc' = 42 /\ Asked(6)'
    <3>1. 6 \in Nat /\ Asked(6 + 1)
      BY <1>8
    <3> QED BY <2>2, <3>1 DEF Onward
  <2> QED BY <2>2, <2>3 DEF Routine, Onward
<1>9. CASE pc = 42 /\ Frame(x, 4) /\ registers[1] = IO_UARTDATA /\ Asked(6)
  <2>1. Short(p, 42, "Lb", 2, 1, 0) /\ At(p, 42)
    BY <1>1, <1>9 DEF InterruptDigits
  <2>2. /\ Resident' /\ program' = program /\ Cell(256)' = Cell(256)
        /\ pc' = 44 /\ Frame(x, 4)' /\ Owes(5)'
    BY <2>1, <1>9, RoutineReads
  <2> QED BY <2>2 DEF Routine
<1>10. CASE pc = 44 /\ Frame(x, 4) /\ Owes(5)
  <2>1. Long(p, 44, "La", 1, 7, 256) /\ At(p, 44) /\ 1 \in 0 .. 6
    BY <1>1, <1>10 DEF InterruptDigits
  <2>2. /\ Onward(44 + 4) /\ Frame(x, 4)' /\ registers'[1] = 256
        /\ \A i \in {0, 1, 2} \ {1} : registers'[i] = registers[i]
    <3>1. Moves([registers EXCEPT ![1] = 256], 44 + 4, io)
      BY <2>1, DoLa
    <3>2. 1 \in {0, 1, 2} /\ 4 \in 0 .. 4 /\ 4 \in {1, 2, 4}
      OBVIOUS
    <3> QED BY <2>1, <1>10, <3>1, <3>2, FrameMoves DEF Long
  <2>3. pc' = 48 /\ Owes(4)'
    <3>1. 4 \in Nat /\ Owes(4 + 1)
      BY <1>10
    <3> QED BY <2>2, <3>1 DEF Onward
  <2> QED BY <2>2, <2>3 DEF Routine, Onward
<1>11. CASE pc = 48 /\ Frame(x, 4) /\ registers[1] = 256 /\ Owes(4)
  <2>1. Short(p, 48, "Lb", 2, 1, 0) /\ At(p, 48)
    BY <1>1, <1>11 DEF InterruptDigits
  <2>2. /\ Resident' /\ program' = program /\ Cell(256)' = Cell(256)
        /\ pc' = 50 /\ Frame(x, 4)' /\ registers'[2] = Cell(256)' /\ Owes(3)'
    BY <2>1, <1>11, RoutineLoads
  <2> QED BY <2>2 DEF Routine
<1>12. CASE pc = 50 /\ Frame(x, 4) /\ registers[2] = Cell(256) /\ Owes(3)
  <2>1. Short(p, 50, "Lc", 0, 7, 48) /\ At(p, 50) /\ 0 \in 0 .. 6
    BY <1>1, <1>12 DEF InterruptDigits
  <2>2. /\ Onward(50 + 2) /\ Frame(x, 4)' /\ registers'[0] = 48
        /\ \A i \in {0, 1, 2} \ {0} : registers'[i] = registers[i]
    <3>1. Moves([registers EXCEPT ![0] = 48], 50 + 2, io)
      BY <2>1, DoLc
    <3>2. 0 \in {0, 1, 2} /\ 4 \in 0 .. 4 /\ 2 \in {1, 2, 4}
      OBVIOUS
    <3> QED BY <2>1, <1>12, <3>1, <3>2, FrameMoves DEF Short
  <2>3. pc' = 52 /\ Owes(2)'
    <3>1. 2 \in Nat /\ Owes(2 + 1)
      BY <1>12
    <3> QED BY <2>2, <3>1 DEF Onward
  <2>4. registers'[2] = Cell(256)'
    BY <1>12, <2>2 DEF Onward
  <2> QED BY <2>2, <2>3, <2>4 DEF Routine, Onward
<1>13. CASE pc = 52 /\ Frame(x, 4) /\ registers[2] = Cell(256) /\ registers[0] = 48 /\ Owes(2)
  <2>1. Plain(p, 52, "AddReg", 0, 2) /\ At(p, 52) /\ 0 \in 0 .. 6 /\ 2 \in 0 .. 7
    BY <1>1, <1>13 DEF InterruptDigits
  <2>2. /\ Onward(52 + 1) /\ Frame(x, 4)' /\ registers'[0] = Mask(registers[0] + registers[2])
        /\ \A i \in {0, 1, 2} \ {0} : registers'[i] = registers[i]
    <3>1. Moves([registers EXCEPT ![0] = Mask(registers[0] + registers[2])], 52 + 1, io)
      BY <2>1, DoAdd
    <3>2. 0 \in {0, 1, 2} /\ 4 \in 0 .. 4 /\ 1 \in {1, 2, 4}
      OBVIOUS
    <3> QED BY <2>1, <1>13, <3>1, <3>2, FrameMoves DEF Plain
  <2>3. pc' = 53 /\ Owes(1)'
    <3>1. 1 \in Nat /\ Owes(1 + 1)
      BY <1>13
    <3> QED BY <2>2, <3>1 DEF Onward
  <2>4. registers'[0] = 48 + Cell(256)'
    <3>1. 48 + n \in Word
      BY WordIs
    <3> QED BY <1>2, <1>13, <2>2, <3>1, MaskWord DEF Onward
  <2> QED BY <2>2, <2>3, <2>4 DEF Routine, Onward
<1>14. CASE pc = 53 /\ Frame(x, 4) /\ registers[0] = 48 + Cell(256) /\ Owes(1)
  <2>1. Long(p, 53, "La", 1, 7, IO_UARTDATA) /\ At(p, 53) /\ 1 \in 0 .. 6
    BY <1>1, <1>14 DEF InterruptDigits
  <2>2. /\ Onward(53 + 4) /\ Frame(x, 4)' /\ registers'[1] = IO_UARTDATA
        /\ \A i \in {0, 1, 2} \ {1} : registers'[i] = registers[i]
    <3>1. Moves([registers EXCEPT ![1] = IO_UARTDATA], 53 + 4, io)
      BY <2>1, DoLa
    <3>2. 1 \in {0, 1, 2} /\ 4 \in 0 .. 4 /\ 4 \in {1, 2, 4}
      OBVIOUS
    <3> QED BY <2>1, <1>14, <3>1, <3>2, FrameMoves DEF Long
  <2>3. pc' = 57 /\ Owes(0)'
    <3>1. 0 \in Nat /\ Owes(0 + 1)
      BY <1>14
    <3> QED BY <2>2, <3>1 DEF Onward
  <2>4. registers'[0] = 48 + Cell(256)'
    BY <1>14, <2>2 DEF Onward
  <2> QED BY <2>2, <2>3, <2>4 DEF Routine, Onward
<1>15. CASE pc = 57 /\ Frame(x, 4) /\ registers[0] = 48 + Cell(256) /\ registers[1] = IO_UARTDATA /\ Owes(0)
  <2>1. Short(p, 57, "Sb", 0, 1, 0) /\ At(p, 57)
    BY <1>1, <1>15 DEF InterruptDigits
  <2>2. /\ Resident' /\ program' = program /\ Cell(256)' = Cell(256)
        /\ pc' = 59 /\ Frame(x, 4)' /\ Paid(18)'
    BY <2>1, <1>15, RoutineDigit
  <2> QED BY <2>2 DEF Routine
<1>16. CASE pc = 59 /\ Frame(x, 4) /\ Paid(18)
  <2>1. Plain(p, 59, "Pop", 2, 4) /\ At(p, 59) /\ 2 \in {0, 1, 2} /\ 3 \in 0 .. 3 /\ Frame(x, 3 + 1)
    BY <1>1, <1>16 DEF InterruptDigits
  <2>2. /\ Onward(59 + 1) /\ Frame(x, 3)' /\ registers'[2] = Stacked(x)[3 + 1]
        /\ \A i \in {0, 1, 2} \ {2} : registers'[i] = registers[i]
    BY <2>1, <1>16, FramePop
  <2>3. pc' = 60 /\ Paid(17)'
    <3>1. 17 \in Nat /\ Paid(17 + 1)
      BY <1>16
    <3> QED BY <2>2, <3>1 DEF Onward
  <2>4. registers'[2] = Stacked(x)[4]
    BY <1>16, <2>2, StackedIs DEF Keeps
  <2> QED BY <2>2, <2>3, <2>4 DEF Routine, Onward
<1>17. CASE pc = 61 /\ Frame(x, 3) /\ Paid(16)
  <2>1. Plain(p, 61, "Pop", 2, 4) /\ At(p, 61) /\ 2 \in {0, 1, 2} /\ 2 \in 0 .. 3 /\ Frame(x, 2 + 1)
    BY <1>1, <1>17 DEF InterruptDigits
  <2>2. /\ Onward(61 + 1) /\ Frame(x, 2)' /\ registers'[2] = Stacked(x)[2 + 1]
        /\ \A i \in {0, 1, 2} \ {2} : registers'[i] = registers[i]
    BY <2>1, <1>17, FramePop
  <2>3. pc' = 62 /\ Paid(15)'
    <3>1. 15 \in Nat /\ Paid(15 + 1)
      BY <1>17
    <3> QED BY <2>2, <3>1 DEF Onward
  <2>4. Keeps(x, {2})'
    BY <1>17, <2>2, StackedIs DEF Keeps
  <2> QED BY <2>2, <2>3, <2>4 DEF Routine, Onward
<1>18. CASE pc = 62 /\ Frame(x, 2) /\ Keeps(x, {2}) /\ Paid(15)
  <2>1. Plain(p, 62, "Pop", 1, 4) /\ At(p, 62) /\ 1 \in {0, 1, 2} /\ 1 \in 0 .. 3 /\ Frame(x, 1 + 1)
    BY <1>1, <1>18 DEF InterruptDigits
  <2>2. /\ Onward(62 + 1) /\ Frame(x, 1)' /\ registers'[1] = Stacked(x)[1 + 1]
        /\ \A i \in {0, 1, 2} \ {1} : registers'[i] = registers[i]
    BY <2>1, <1>18, FramePop
  <2>3. pc' = 63 /\ Paid(14)'
    <3>1. 14 \in Nat /\ Paid(14 + 1)
      BY <1>18
    <3> QED BY <2>2, <3>1 DEF Onward
  <2>4. Keeps(x, {1, 2})'
    BY <1>18, <2>2, StackedIs DEF Keeps
  <2> QED BY <2>2, <2>3, <2>4 DEF Routine, Onward
<1>19. CASE pc = 63 /\ Frame(x, 1) /\ Keeps(x, {1, 2}) /\ Paid(14)
  <2>1. Plain(p, 63, "Pop", 0, 4) /\ At(p, 63) /\ 0 \in {0, 1, 2} /\ 0 \in 0 .. 3 /\ Frame(x, 0 + 1)
    BY <1>1, <1>19 DEF InterruptDigits
  <2>2. /\ Onward(63 + 1) /\ Frame(x, 0)' /\ registers'[0] = Stacked(x)[0 + 1]
        /\ \A i \in {0, 1, 2} \ {0} : registers'[i] = registers[i]
    BY <2>1, <1>19, FramePop
  <2>3. pc' = 64 /\ Paid(13)'
    <3>1. 13 \in Nat /\ Paid(13 + 1)
      BY <1>19
    <3> QED BY <2>2, <3>1 DEF Onward
  <2>4. Keeps(x, {0, 1, 2})'
    BY <1>19, <2>2, StackedIs DEF Keeps
  <2> QED BY <2>2, <2>3, <2>4 DEF Routine, Onward
<1>20. CASE pc = 60 /\ Frame(x, 3) /\ registers[2] = Stacked(x)[4] /\ Paid(17)
  <2>1. Plain(p, 60, "Clu", 5, 2) /\ At(p, 60)
    BY <1>1, <1>20 DEF InterruptDigits
  <2>2. Onward(60 + 1) /\ Frame(x, 3)'
    BY <2>1, <1>20, FrameFlag
  <2>3. pc' = 61 /\ Paid(16)'
    <3>1. 16 \in Nat /\ Paid(16 + 1)
      BY <1>20
    <3> QED BY <2>2, <3>1 DEF Onward
  <2> QED BY <2>2, <2>3 DEF Routine, Onward
<1>21. CASE pc = 64 /\ Frame(x, 0) /\ Keeps(x, {0, 1, 2}) /\ Paid(13)
  <2>1. Plain(p, 64, "Jmp", 7, 7) /\ At(p, 64)
    BY <1>1, <1>21 DEF InterruptDigits
  <2> QED BY <2>1, <1>21, RoutineReturns
<1> QED BY <1>3, <1>4, <1>5, <1>6, <1>7, <1>8, <1>9, <1>10, <1>11, <1>12, <1>13, <1>14, <1>15,
           <1>16, <1>17, <1>18, <1>19, <1>20, <1>21 DEF Routine

\* A start at 0 begins the main loop.
LEMMA DigitsStart ==
  ASSUME Loaded("interrupt")', Cell(256)' \in 0 .. 9, pc' = 0, registers' = NewRegisters,
         ~ halted', ~ intis', io' = NewIo, saved' = <<>>, taken' = <<>>
  PROVE  Resident' /\ Main'
<1>1. registers'[4] = INITIAL_SP /\ registers'[2] = 0
  BY DEF NewRegisters
<1>2. Counting(0, registers', c', Cell(256)')
  BY <1>1 DEF Counting
<1>3. taken' \in Seq(Byte) /\ Len(taken') = 0
  BY EmptySeq
<1>4. io'.int_enable = 0 /\ FreeIn(io', 12)
  BY DEF NewIo, FreeIn
<1>5. Shown(io', 0)
  <2>1. io'.uart_output = <<>>
    BY DEF NewIo
  <2>2. <<>> \in Seq(Nat) /\ Len(<<>>) = 0 /\ \A i \in 1 .. 0 : FALSE
    BY EmptySeq
  <2> QED BY <2>1, <2>2 DEF Shown
<1> QED BY <1>2, <1>3, <1>4, <1>5 DEF Resident, Main, Paid

\* Between steps the host takes nothing from it.
LEMMA DigitsUntouched ==
  ASSUME Untouched, program = "interrupt", "interrupt" \in DOMAIN Image, Resident,
         Main \/ \E x : Routine(x)
  PROVE  /\ Resident' /\ Cell(256)' = Cell(256)
         /\ Main' \/ (\E x : Routine(x))'
<1>1. /\ UNCHANGED <<pc, registers, c, halted, intis, mem, saved, taken>>
      /\ io'.int_enable = io.int_enable
      /\ io.uart_rx_ready => io'.uart_rx_ready
  BY DEF Untouched
<1>2. Cell(256)' = Cell(256) /\ Resident'
  BY <1>1 DEF Cell, Resident, Loaded
<1>3. \A m : (FreeIn(io, m) => FreeIn(io', m)) /\ (Shown(io, m) => Shown(io', m))
  <2>1. BusyCycles["interrupt"] \subseteq 0 .. 19
    BY StartAssumption
  <2>2. \A n \in BusyCycles["interrupt"] : n <= 19
    BY <2>1
  <2> QED BY <2>2 DEF Untouched, FreeIn, Shown
<1>4. \A m : (Asked(m) => Asked(m)') /\ (Owes(m) => Owes(m)') /\ (Paid(m) => Paid(m)')
  BY <1>1, <1>3 DEF Asked, Owes, Paid
<1>5. ASSUME Main PROVE Main'
  BY <1>1, <1>2, <1>4, <1>5 DEF Main
<1>6. ASSUME NEW x, Routine(x) PROVE Routine(x)'
  <2>1. \A n : Frame(x, n) => Frame(x, n)'
    BY <1>1, <1>2 DEF Frame, Within, Holds
  <2>2. \A R : Keeps(x, R) => Keeps(x, R)'
    BY <1>1 DEF Keeps
  <2> QED BY <1>1, <1>2, <1>4, <1>6, <2>1, <2>2 DEF Routine
<1> QED BY <1>2, <1>5, <1>6

\* DigitsInv is inductive; a step writes nothing into the counter but the next
\* digit, or 0.
LEMMA DigitsNext ==
  ASSUME DigitsInv, Powered, MachineOK, [MNext]_allVars
  PROVE  /\ DigitsInv'
         /\ program = "interrupt" /\ program' = program =>
              Cell(256)' \in {Cell(256), IF registers[2] = 10 THEN (Cell(256) + 1) % 10 ELSE 0}
<1> DEFINE p == "interrupt"
           Goal == /\ Resident' /\ (Main' \/ (\E x : Routine(x))')
                   /\ program = p =>
                        Cell(256)' \in {Cell(256), IF registers[2] = 10
                                                   THEN (Cell(256) + 1) % 10 ELSE 0}
<1> SUFFICES ASSUME program' = p PROVE Goal
  BY DEF DigitsInv
<1>1. CASE \E q \in DOMAIN Image : Boot(q)
  <2>1. /\ Loaded(p)' /\ program = "none" /\ p \in DOMAIN Image
        /\ \A x \in DOMAIN mem' \ DOMAIN mem : x + 1 \in DOMAIN Image[p]
        /\ UNCHANGED <<pc, registers, c, halted, intis, io, saved, taken>>
    BY <1>1, BootLoads
  <2>2. /\ pc' = 0 /\ registers' = NewRegisters /\ ~ halted' /\ ~ intis' /\ io' = NewIo
        /\ saved' = <<>> /\ taken' = <<>> /\ mem = <<>>
    BY <2>1 DEF Powered
  <2>3. Cell(256)' = 0
    <3>1. DOMAIN Image[p] \subseteq 1 .. 256 /\ 256 + 1 \notin 1 .. 256
      BY <2>1, DigitsLines
    <3>2. 256 \notin DOMAIN mem
      BY <2>2
    <3> QED BY <2>1, <3>1, <3>2 DEF Cell
  <2> QED BY <2>1, <2>2, <2>3, DigitsStart
<1>2. CASE program = p
  <2>1. /\ p \in DOMAIN Image /\ InterruptDigits /\ Resident
        /\ Main \/ \E x : Routine(x)
    BY <1>2, DigitsLines DEF DigitsInv, MachineOK
  <2>2. CASE MStep
    <3>1. CASE Main /\ InterruptPending
      BY <2>1, <2>2, <3>1, Entered
    <3>2. CASE Main /\ ~ InterruptPending
      BY <2>1, <2>2, <3>2, MainStep
    <3>3. ASSUME NEW x, Routine(x) PROVE Goal
      <4>1. Resident' /\ Cell(256)' = Cell(256) /\ (Main' \/ Routine(x)')
        BY <2>1, <2>2, <3>3, RoutineStep
      <4> QED BY <4>1
    <3> QED BY <2>1, <3>1, <3>2, <3>3
  <2>3. CASE Untouched
    BY <1>2, <2>1, <2>3, DigitsUntouched
  <2>4. CASE Renewed
    <3>1. /\ pc' = 0 /\ registers' = NewRegisters /\ ~ halted' /\ ~ intis' /\ io' = NewIo
          /\ mem' = mem /\ saved' = <<>> /\ taken' = <<>>
      BY <2>4 DEF Renewed
    <3>2. Loaded(p)' /\ Cell(256)' = Cell(256)
      BY <2>1, <3>1 DEF Loaded, Cell, Resident
    <3> QED BY <2>1, <3>1, <3>2, DigitsStart DEF Resident
  <2>5. CASE UNCHANGED allVars
    <3>1. UNCHANGED <<pc, registers, c, halted, intis, mem, io, saved, taken>>
      BY <2>5 DEF allVars, vars, history
    <3>2. Cell(256)' = Cell(256) /\ Resident'
      BY <2>1, <3>1 DEF Cell, Resident, Loaded
    <3>3. Main => Main'
      BY <3>1, <3>2 DEF Main, Paid
    <3>4. ASSUME NEW x, Routine(x) PROVE Routine(x)'
      <4>1. \A n : Frame(x, n) => Frame(x, n)'
        BY <3>1, <3>2 DEF Frame, Within, Holds
      <4>2. \A R : Keeps(x, R) => Keeps(x, R)'
        BY <3>1 DEF Keeps
      <4>3. \A m : (Asked(m) => Asked(m)') /\ (Owes(m) => Owes(m)') /\ (Paid(m) => Paid(m)')
        BY <3>1 DEF Asked, Owes, Paid
      <4> QED BY <3>1, <3>2, <3>4, <4>1, <4>2, <4>3 DEF Routine
    <3> QED BY <2>1, <3>2, <3>3, <3>4
  <2> QED BY <1>2, <2>2, <2>3, <2>4, <2>5, <1>1, HostSteps DEF MNext
<1> QED BY <1>1, <1>2, ProgramKept

\* In the main loop as many digits are out as characters were taken.
LEMMA DigitsShow == DigitsInv => OneDigitEach
<1> SUFFICES ASSUME DigitsInv, program = "interrupt", ~ intis, ~ io.uart_never_ready
             PROVE  /\ Len(io.uart_output) = Len(taken)
                    /\ \A i \in DOMAIN io.uart_output : io.uart_output[i] \in 48 .. 57
  BY DEF OneDigitEach
<1>1. ASSUME NEW x PROVE ~ Routine(x)
  BY DEF Routine, Frame, Within
<1>2. Shown(io, Len(taken))
  BY <1>1 DEF DigitsInv, Main, Paid
<1>3. /\ io.uart_output \in Seq(Nat) /\ Len(io.uart_output) = Len(taken)
      /\ \A i \in 1 .. Len(taken) : io.uart_output[i] \in 48 .. 57
  BY <1>2 DEF Shown
<1> QED BY <1>3, LenProperties

\* interrupt.s answers each character with one digit, and loses none: the
\* routine stores its digit without polling, and is right to, because the
\* shortest way from one store to the next is longer than a transmission
\* (BusyCycles up to 19), for every instant a character may come at.
THEOREM DigitsCorrect == ASSUME WordsClosed PROVE MSpec => []OneDigitEach
<1>1. MInit => Powered /\ DigitsInv
  BY PoweredInit DEF MInit, DigitsInv
<1>2. MachineOK /\ Powered /\ DigitsInv /\ [MNext]_allVars => (Powered /\ DigitsInv)'
  BY PoweredNext, DigitsNext
<1>3. DigitsInv => OneDigitEach
  BY DigitsShow
<1>4. MSpec => []MachineOK
  BY MachineInvariant
<1> QED BY <1>1, <1>2, <1>3, <1>4, PTL DEF MSpec

\* Its main loop counts 0 to 9 and around, whichever instructions interrupts
\* come between: the routine gives back the registers and the flag.
THEOREM CounterCorrect == ASSUME WordsClosed PROVE MSpec => CounterCounts
<1>1. MInit => Powered /\ DigitsInv
  BY PoweredInit DEF MInit, DigitsInv
<1>2. MachineOK /\ Powered /\ DigitsInv /\ [MNext]_allVars => (Powered /\ DigitsInv)'
  BY PoweredNext, DigitsNext
<1>3. MachineOK /\ Powered /\ DigitsInv /\ [MNext]_allVars =>
        ((program = "interrupt" /\ program' = program /\ Cell(256)' # Cell(256)) =>
           Cell(256)' = IF registers[2] = 10 THEN (Cell(256) + 1) % 10 ELSE 0)
  BY DigitsNext
<1>4. MSpec => []MachineOK
  BY MachineInvariant
<1> QED BY <1>1, <1>2, <1>3, <1>4, PTL DEF MSpec, CounterCounts

-----------------------------------------------------------------------------
(* echo.s: its prompt, its idle loop and its interrupt routine.            *)

\* The main program at k with registers r.
Waiting(k, r) ==
  /\ k \in {0, 4, 5, 9, 11, 13, 17, 19, 20, 22, 24, 26, 28}
  /\ r[4] = INITIAL_SP
  /\ k = 4 => r[0] = 30
  /\ k > 4 => r[6] = 30
  /\ k \in {9, 11} => r[1] = IO_INTENABLE
  /\ k \in {17, 19, 20, 22, 24} => r[1] = IO_UARTDATA
  /\ k = 24 => r[0] = Prompt

\* The first n characters are out, and from 26 on perhaps the prompt.
Sent(n, k) ==
  Visible => /\ io.uart_output \in Seq(Nat)
             /\ Echoes(n) \/ (k >= 26 /\ Prompted(n))

\* The character the routine has read, and before it is read, before it is
\* echoed, and after; x is what was interrupted.
Latest == taken[Len(taken)]
Asking(x) == io.uart_rx_ready /\ Sent(Len(taken), x.pc)
Owing(x)  == taken # <<>> /\ Sent(Len(taken) - 1, x.pc)
Done(x)   == Sent(Len(taken), x.pc)

\* The routine at k with registers r and flag f, when it has read ch: it looks
\* for '!', then for a letter, and polls a transmitter that may be busy.
Judging(k, r, f, busy, ch) ==
  /\ k \in {41, 42, 44, 45, 47, 49, 50, 52, 54, 55, 57, 58, 60, 61, 65, 67, 68, 70,
            74, 78, 80, 81, 83}
  /\ k = 41 => r[0] = SignExtend8(ch)
  /\ k \in {42, 44, 45, 47, 49, 50, 52, 54, 55, 57} => r[2] = SignExtend8(ch)
  /\ k = 49 => r[0] = 97
  /\ k = 50 => f = (SignExtend8(ch) < 97)
  /\ k \in {52, 54, 55} => SignExtend8(ch) >= 97
  /\ k = 54 => r[0] = 123
  /\ k = 55 => f = (SignExtend8(ch) < 123)
  /\ k \in {57, 58, 60} => ch \in 97 .. 122
  /\ k \in {58, 60} => r[0] = ch
  /\ k = 60 => r[1] = 223
  /\ k \in {61, 65, 67, 68, 70} => r[0] % 256 = Upper(ch)
  /\ k \in {74, 78, 80, 81, 83} => r[2] % 256 = Upper(ch)
  /\ k \in {65, 67, 68, 70, 78, 80, 81, 83} => r[1] = IO_UARTDATA
  /\ k = 67 => Signed24(r[2]) < 0 \/ ~ busy
  /\ k = 80 => Signed24(r[0]) < 0 \/ ~ busy
  /\ k \in {68, 81} => f \/ ~ busy
  /\ k \in {70, 83} => ~ busy

\* In the routine, with n words pushed.
Inside(x, n) == Within(x, n) /\ x.pc >= 13 /\ Waiting(x.pc, x.registers)

\* The routine, line by line.
Answering(x) ==
  \/ pc = 30 /\ Inside(x, 0) /\ c = x.c /\ Keeps(x, {0, 1, 2}) /\ Asking(x)
  \/ pc = 31 /\ Inside(x, 1) /\ c = x.c /\ Keeps(x, {1, 2}) /\ Asking(x)
  \/ pc = 32 /\ Inside(x, 2) /\ c = x.c /\ Keeps(x, {2}) /\ Asking(x)
  \/ pc = 33 /\ Inside(x, 3) /\ c = x.c /\ Asking(x)
  \/ pc = 34 /\ Inside(x, 3) /\ registers[2] = Stacked(x)[4] /\ Asking(x)
  \/ pc = 35 /\ Inside(x, 4) /\ Asking(x)
  \/ pc = 39 /\ Inside(x, 4) /\ registers[1] = IO_UARTDATA /\ Asking(x)
  \/ Inside(x, 4) /\ Judging(pc, registers, c, io.uart_tx_busy, Latest) /\ Owing(x)
  \/ pc = 72 /\ Inside(x, 4) /\ Done(x)
  \/ pc = 85 /\ Inside(x, 4) /\ Done(x)
  \/ pc = 86 /\ Inside(x, 3) /\ registers[2] = Stacked(x)[4] /\ Done(x)
  \/ pc = 87 /\ Inside(x, 3) /\ c = x.c /\ Done(x)
  \/ pc = 88 /\ Inside(x, 2) /\ c = x.c /\ Keeps(x, {2}) /\ Done(x)
  \/ pc = 89 /\ Inside(x, 1) /\ c = x.c /\ Keeps(x, {1, 2}) /\ Done(x)
  \/ pc = 90 /\ Inside(x, 0) /\ c = x.c /\ Keeps(x, {0, 1, 2}) /\ Done(x)

\* After a '!' it does not come back.
Stopped == pc = 91 /\ intis

Idle ==
  /\ ~ halted /\ ~ intis /\ saved = <<>>
  /\ Waiting(pc, registers)
  /\ pc < 13 => io.int_enable = 0
  /\ Sent(Len(taken), pc)

EchoThere == Loaded("echo") /\ taken \in Seq(Byte)

EchoInv == program = "echo" => EchoThere /\ (Idle \/ (\E x : Answering(x)) \/ Stopped)

\* echo.s lies below 256.
LEMMA EchoLines ==
  ASSUME "echo" \in DOMAIN Image
  PROVE  Echo /\ DOMAIN Image["echo"] \subseteq 1 .. 256
<1>1. Echo
  BY ListingAssumption
<1>2. PICK n \in 0 .. 256 : n = 93
  OBVIOUS
<1>3. Len(Image["echo"]) = n
  BY <1>1, <1>2 DEF Echo
<1>4. DOMAIN Image["echo"] \subseteq 1 .. 256
  BY <1>3, ImageSize
<1> QED BY <1>1, <1>4

\* A step that sends and reads nothing, and leaves the program in memory.
Quiet ==
  /\ program' = program /\ Loaded("echo")' /\ taken' = taken
  /\ io'.uart_output = io.uart_output /\ io'.int_enable = io.int_enable
  /\ io.uart_rx_ready => io'.uart_rx_ready
  /\ io'.uart_tx_busy => io.uart_tx_busy

\* It keeps what was sent, for the characters read before.
LEMMA QuietKeeps ==
  ASSUME taken' = taken, io'.uart_output = io.uart_output, io.uart_rx_ready => io'.uart_rx_ready
  PROVE  /\ \A k : Sent(Len(taken), k) => Sent(Len(taken), k)'
         /\ \A x : /\ Asking(x) => Asking(x)'
                   /\ Owing(x) => Owing(x)'
                   /\ Done(x) => Done(x)'
         /\ Latest' = Latest
<1>1. ASSUME NEW n, NEW k PROVE Sent(n, k) => Sent(n, k)'
  BY DEF Sent, Visible, Echoes, Prompted
<1>2. \A k : Sent(Len(taken), k) => Sent(Len(taken), k)'
  BY DEF Sent, Visible, Echoes, Prompted
<1>3. \A k : Sent(Len(taken) - 1, k) => Sent(Len(taken) - 1, k)'
  BY DEF Sent, Visible, Echoes, Prompted
<1> QED BY <1>2, <1>3 DEF Asking, Owing, Done, Latest

\* Steady cells keep the program.
LEMMA EchoStays ==
  ASSUME "echo" \in DOMAIN Image, Loaded("echo"), Steady
  PROVE  Loaded("echo")'
<1>1. ASSUME NEW x \in 0 .. 255 PROVE Same(x)
  <2>1. x \in 0 .. 256
    OBVIOUS
  <2> QED BY <2>1 DEF Steady, Same
<1> QED BY <1>1, EchoLines, LoadedKept

\* A line that writes no device is such a step.
LEMMA QuietLine ==
  ASSUME MachineOK, MStep, NEW k, At("echo", k), NEW o, NEW q, NEW y, NEW w \in {1, 2, 4},
         Line("echo", k, o, q, y, w), Steady,
         NEW d, DOMAIN d = Fields, io' = Tick(d), io.uart_rx_ready => d.uart_rx_ready,
         \A f \in Fields \ {"uart_rx_ready"} : d[f] = io[f]
  PROVE  Quiet /\ (o # "Jmp" => saved' = saved)
<1>1. Ticked(d, io')
  BY TickIs
<1>2. /\ d.uart_output = io.uart_output /\ d.int_enable = io.int_enable
      /\ d.uart_tx_busy = io.uart_tx_busy
  BY FieldsNamed
<1>3. Loaded("echo")'
  BY EchoStays DEF At
<1>4. io.uart_rx_ready => io'.uart_rx_ready
  BY <1>1 DEF Ticked
<1>5. program' = program /\ taken' = taken /\ (o # "Jmp" => saved' = saved)
  BY <1>4, LineObserved
<1> QED BY <1>1, <1>2, <1>3, <1>4, <1>5 DEF Quiet, Ticked

\* One that leaves memory and the frame alone stays in the routine.
LEMMA QuietInside ==
  ASSUME MachineOK, MStep, NEW k, At("echo", k), NEW o, NEW q, NEW y, NEW w \in {1, 2, 4},
         Line("echo", k, o, q, y, w), o # "Jmp", UNCHANGED <<halted, intis, mem>>, io' = Tick(io)
  PROVE  /\ Quiet /\ saved' = saved
         /\ (\A r \in 3 .. 7 : registers'[r] = registers[r]) =>
              \A x : \A n : Inside(x, n) => Inside(x, n)'
<1>1. Quiet /\ saved' = saved
  <2>1. DOMAIN io = Fields /\ Steady
    BY DEF MachineOK, CpuOK, DevicesOK, Steady
  <2> QED BY <2>1, QuietLine
<1>2. \A a, v : Holds(mem, a, v) => Holds(mem, a, v)'
  BY DEF Holds
<1>3. ASSUME \A r \in 3 .. 7 : registers'[r] = registers[r], NEW x, NEW n, Inside(x, n)
      PROVE  Inside(x, n)'
  BY <1>1, <1>2, <1>3, WithinKept DEF Inside
<1> QED BY <1>1, <1>3

\* A poll tells in its register whether the transmitter is busy, and stays in
\* the routine.
LEMMA QuietPoll ==
  ASSUME MachineOK, MStep, NEW k, At("echo", k), NEW r \in {0, 2}, Short("echo", k, "Lb", r, 1, 1),
         registers[1] = IO_UARTDATA
  PROVE  /\ Quiet /\ saved' = saved /\ pc' = k + 2 /\ UNCHANGED <<c, halted, intis, mem>>
         /\ \A i \in 0 .. 7 \ {r} : registers'[i] = registers[i]
         /\ Signed24(registers'[r]) < 0 \/ ~ io'.uart_tx_busy
         /\ \A x : \A n : Inside(x, n) => Inside(x, n)'
<1>1. r \in 0 .. 2 /\ 1 \in 0 .. 2 /\ r \notin 3 .. 7
  OBVIOUS
<1>2. /\ pc' = k + 2 /\ UNCHANGED <<c, halted, intis, mem>>
      /\ \E v \in Word : registers' = [registers EXCEPT ![r] = v]
      /\ Signed24(registers'[r]) < 0 <=> io.uart_tx_busy
  BY <1>1, DoPoll
<1>3. PICK d : /\ io' = Tick(d) /\ DOMAIN d = Fields
               /\ d.uart_rx_ready = (io.uart_rx_ready /\ TRUE)
               /\ \A f \in Fields \ {"uart_rx_ready"} : d[f] = io[f]
  BY <1>1, DoPoll
<1>4. Quiet /\ saved' = saved
  <2>1. Steady /\ (io.uart_rx_ready => d.uart_rx_ready)
    BY <1>2, <1>3 DEF Steady
  <2> QED BY <1>3, <2>1, QuietLine DEF Short
<1>5. \A i \in 0 .. 7 \ {r} : registers'[i] = registers[i]
  BY <1>2 DEF MachineOK, CpuOK
<1>6. \A a, v : Holds(mem, a, v) => Holds(mem, a, v)'
  BY <1>2 DEF Holds
<1>7. ASSUME NEW x, NEW n, Inside(x, n) PROVE Inside(x, n)'
  <2>1. \A i \in 3 .. 7 : registers'[i] = registers[i]
    BY <1>1, <1>5
  <2> QED BY <1>2, <1>4, <1>6, <1>7, <2>1, WithinKept DEF Inside
<1> QED BY <1>2, <1>4, <1>5, <1>7 DEF Quiet

\* The character read goes out after those before it, and after the prompt if
\* that is out.
LEMMA SentMore ==
  ASSUME taken \in Seq(Byte), taken # <<>>, taken' = taken, NEW k, Sent(Len(taken) - 1, k),
         NEW v \in Byte, v = Upper(Latest),
         io'.uart_output = IF v = 0 THEN io.uart_output ELSE Append(io.uart_output, v)
  PROVE  Sent(Len(taken), k)'
<1> SUFFICES ASSUME Visible
             PROVE  /\ io'.uart_output \in Seq(Nat)
                    /\ Echoes(Len(taken))' \/ (k >= 26 /\ Prompted(Len(taken))')
  BY DEF Sent, Visible
<1>1. PICK t \in Seq(Byte), n \in Nat \ {0}, out \in Seq(Nat) :
             t = taken /\ n = Len(t) /\ out = io.uart_output
  BY EmptySeq, LenProperties DEF Sent
<1>2. v # 0 /\ v \in Nat /\ v = Upper(t[n])
  <2>1. n \in DOMAIN t /\ t[n] # 0
    BY <1>1, LenProperties DEF Visible
  <2>2. PICK b \in Byte : b = t[n]
    BY <2>1
  <2>3. v = Upper(b)
    BY <1>1, <2>2 DEF Latest
  <2>4. Upper(b) # 0 /\ Upper(b) \in Nat
    <3>1. b \in 1 .. 255
      BY <2>1, <2>2 DEF Byte
    <3> QED BY ONLY <3>1 DEF Upper
  <2> QED BY <2>2, <2>3, <2>4
<1>3. io'.uart_output = Append(out, v)
  BY <1>1, <1>2
<1>4. /\ Append(out, v) \in Seq(Nat) /\ Len(Append(out, v)) = Len(out) + 1
      /\ Append(out, v)[Len(out) + 1] = v
      /\ \A i \in 1 .. Len(out) : Append(out, v)[i] = out[i]
  BY <1>2, AppendProperties
<1>5. PICK s \in Seq(Nat) : s = Append(out, v)
  BY <1>4
<1>6. CASE Echoes(Len(taken) - 1)
  <2>1. Len(out) = n - 1 /\ \A i \in 1 .. n - 1 : out[i] = Upper(t[i])
    BY <1>1, <1>6 DEF Echoes
  <2>2. Len(s) = n /\ s[n] = v /\ \A i \in 1 .. n - 1 : s[i] = out[i]
    BY <1>4, <1>5, <2>1
  <2>3. \A i \in 1 .. n : i \in 1 .. n - 1 \/ i = n
    OBVIOUS
  <2>4. \A i \in 1 .. n : s[i] = Upper(t[i])
    BY <1>2, <2>1, <2>2, <2>3
  <2> QED BY <1>1, <1>3, <1>5, <2>2, <2>4 DEF Echoes
<1>7. CASE k >= 26 /\ Prompted(Len(taken) - 1)
  <2>1. PICK j \in 0 .. n - 1 :
               /\ Len(out) = n /\ out[j + 1] = Prompt
               /\ \A i \in 1 .. j : out[i] = Upper(t[i])
               /\ \A i \in j + 1 .. n - 1 : out[i + 1] = Upper(t[i])
    <3>1. PICK m \in Nat : m = n - 1 /\ Prompted(m)
      BY <1>1, <1>7
    <3>2. m + 1 = n
      BY <3>1
    <3>3. /\ Len(out) = m + 1
          /\ \E j \in 0 .. m : /\ out[j + 1] = Prompt
                               /\ \A i \in 1 .. j : out[i] = Upper(t[i])
                               /\ \A i \in j + 1 .. m : out[i + 1] = Upper(t[i])
      BY <1>1, <3>1 DEF Prompted
    <3> QED BY <3>1, <3>2, <3>3
  <2>2. Len(s) = n + 1 /\ s[n + 1] = v /\ \A i \in 1 .. n : s[i] = out[i]
    BY <1>4, <1>5, <2>1
  <2>3. j \in 0 .. n /\ s[j + 1] = Prompt /\ \A i \in 1 .. j : s[i] = Upper(t[i])
    BY <2>1, <2>2
  <2>4. \A i \in j + 1 .. n : s[i + 1] = Upper(t[i])
    <3>1. \A i \in j + 1 .. n : i \in j + 1 .. n - 1 \/ i = n
      OBVIOUS
    <3>2. ASSUME NEW i \in j + 1 .. n - 1 PROVE s[i + 1] = out[i + 1]
      <4>1. i + 1 \in 1 .. n
        OBVIOUS
      <4> QED BY <2>2, <4>1
    <3> QED BY <1>2, <2>1, <2>2, <3>1, <3>2
  <2>5. \E m \in 0 .. n : /\ s[m + 1] = Prompt
                          /\ \A i \in 1 .. m : s[i] = Upper(t[i])
                          /\ \A i \in m + 1 .. n : s[i + 1] = Upper(t[i])
    BY <2>3, <2>4
  <2>6. io'.uart_output = s /\ taken' = t /\ Len(taken) = n
    BY <1>1, <1>3, <1>5
  <2>7. Len(taken') = n /\ Len(s) = n + 1 /\ s \in Seq(Nat)
    BY <1>1, <1>5, <2>2, <2>6
  <2>8. Prompted(n)'
    BY <2>5, <2>6, <2>7 DEF Prompted
  <2> QED BY <1>7, <2>6, <2>7, <2>8
<1> QED BY <1>6, <1>7 DEF Sent

\* The prompt goes out after the characters read so far, or is dropped.
LEMMA SentPrompt ==
  ASSUME taken \in Seq(Byte), taken' = taken, Sent(Len(taken), 24),
         io'.uart_output \in {io.uart_output, Append(io.uart_output, Prompt)}
  PROVE  Sent(Len(taken), 26)'
<1> SUFFICES ASSUME Visible
             PROVE  /\ io'.uart_output \in Seq(Nat)
                    /\ Echoes(Len(taken))' \/ Prompted(Len(taken))'
  BY DEF Sent, Visible
<1>1. PICK t \in Seq(Byte), n \in Nat, out \in Seq(Nat) :
             t = taken /\ n = Len(t) /\ out = io.uart_output
  BY LenProperties DEF Sent
<1>2. Len(out) = n /\ \A i \in 1 .. n : out[i] = Upper(t[i])
  BY <1>1 DEF Sent, Echoes
<1>3. CASE io'.uart_output = out
  BY <1>1, <1>2, <1>3 DEF Echoes
<1>4. CASE io'.uart_output = Append(out, Prompt)
  <2> DEFINE s == Append(out, Prompt)
  <2>1. /\ s \in Seq(Nat) /\ Len(s) = n + 1 /\ s[n + 1] = Prompt
        /\ \A i \in 1 .. n : s[i] = out[i]
    <3>1. Prompt \in Nat
      BY DEF Prompt
    <3>2. /\ s \in Seq(Nat) /\ Len(s) = Len(out) + 1 /\ s[Len(out) + 1] = Prompt
          /\ \A i \in 1 .. Len(out) : s[i] = out[i]
      BY <3>1, AppendProperties
    <3> HIDE DEF s
    <3> QED BY <1>2, <3>2
  <2>2. n \in 0 .. n /\ (\A i \in 1 .. n : s[i] = Upper(t[i])) /\ \A i \in n + 1 .. n : FALSE
    BY <1>2, <2>1
  <2> QED BY <1>1, <1>4, <2>1, <2>2 DEF Prompted
<1> QED BY <1>1, <1>3, <1>4

\* What a store into the data register makes of the devices.
LEMMA Transmitted ==
  ASSUME NEW d, DevicesOK(d), NEW v \in Byte, DevicesOK(Transmit(d, v))
  PROVE  LET e == Tick(Transmit(d, v))
         IN  /\ e.uart_rx_ready = d.uart_rx_ready /\ e.int_enable = d.int_enable
             /\ e.uart_output = IF d.uart_tx_busy \/ v = 0 THEN d.uart_output
                                                           ELSE Append(d.uart_output, v)
<1>1. PICK t : t = Transmit(d, v)
  OBVIOUS
<1>2. Ticked(t, Tick(t))
  BY <1>1, TickIs DEF DevicesOK
<1>3. /\ t.uart_rx_ready = d.uart_rx_ready /\ t.int_enable = d.int_enable
      /\ t.uart_output = IF d.uart_tx_busy \/ v = 0 THEN d.uart_output ELSE Append(d.uart_output, v)
  BY <1>1, FieldsNamed DEF Transmit, DevicesOK
<1> QED BY <1>1, <1>2, <1>3 DEF Ticked

\* A store into the data register leaves what is neither output nor busy.
LEMMA EchoPuts ==
  ASSUME MachineOK, MStep, EchoThere, NEW k, At("echo", k), NEW r \in {0, 2},
         Short("echo", k, "Sb", r, 1, 0), registers[1] = IO_UARTDATA
  PROVE  /\ EchoThere' /\ UNCHANGED <<program, taken, saved, registers, c, halted, intis>>
         /\ pc' = k + 2 /\ io'.int_enable = io.int_enable
         /\ \A x : \A n : Inside(x, n) => Inside(x, n)'
         /\ \E v \in Byte :
              /\ v = registers[r] % 256
              /\ io'.uart_output = IF io.uart_tx_busy \/ v = 0 THEN io.uart_output
                                                               ELSE Append(io.uart_output, v)
<1>1. PICK v \in Byte :
           /\ v = registers[r] % 256 /\ pc' = k + 2 /\ io' = Tick(Transmit(io, v))
           /\ DevicesOK(Transmit(io, v)) /\ UNCHANGED <<registers, c, halted, intis>>
           /\ Steady /\ \A a, w : Holds(mem, a, w) => Holds(mem, a, w)'
  BY DoTransmit
<1>2. /\ io'.uart_rx_ready = io.uart_rx_ready /\ io'.int_enable = io.int_enable
      /\ io'.uart_output = IF io.uart_tx_busy \/ v = 0 THEN io.uart_output
                                                       ELSE Append(io.uart_output, v)
  BY <1>1, Transmitted DEF MachineOK, CpuOK
<1>3. program' = program /\ saved' = saved /\ taken' = taken
  BY <1>2, LineObserved DEF Short
<1>4. EchoThere'
  BY <1>1, <1>3, EchoStays DEF EchoThere, At
<1>5. ASSUME NEW x, NEW n, Inside(x, n) PROVE Inside(x, n)'
  BY <1>1, <1>3, <1>5, WithinKept DEF Inside
<1> QED BY <1>1, <1>2, <1>3, <1>4, <1>5

\* The store of the routine pays what it owes.
LEMMA EchoSends ==
  ASSUME MachineOK, MStep, EchoThere, NEW k, At("echo", k), NEW r \in {0, 2},
         Short("echo", k, "Sb", r, 1, 0), registers[1] = IO_UARTDATA, ~ io.uart_tx_busy,
         registers[r] % 256 = Upper(Latest), NEW x, Inside(x, 4), Owing(x)
  PROVE  EchoThere' /\ program' = program /\ pc' = k + 2 /\ Inside(x, 4)' /\ Done(x)'
<1>1. /\ EchoThere' /\ program' = program /\ taken' = taken /\ pc' = k + 2 /\ Inside(x, 4)'
  BY EchoPuts
<1>2. PICK v \in Byte : /\ v = Upper(Latest)
                        /\ io'.uart_output = IF v = 0 THEN io.uart_output
                                                      ELSE Append(io.uart_output, v)
  BY EchoPuts
<1>3. Sent(Len(taken), x.pc)'
  BY <1>1, <1>2, SentMore DEF Owing, EchoThere
<1> QED BY <1>1, <1>3 DEF Done

\* The routine reads the character, and now owes its echo.
LEMMA EchoReads ==
  ASSUME MachineOK, MStep, EchoThere, At("echo", 39), Short("echo", 39, "Lb", 0, 1, 0),
         registers[1] = IO_UARTDATA, NEW x, Inside(x, 4), Asking(x)
  PROVE  /\ EchoThere' /\ program' = program /\ pc' = 41 /\ Inside(x, 4)' /\ Owing(x)'
         /\ Judging(41, registers, c, io.uart_tx_busy, Latest)'
<1>1. PICK a \in Word : a = IO_UARTDATA /\ registers[1] = a /\ ReadByte(a) = io.uart_rx
  BY DevicesAt, ReadUart
<1>2. PICK d : d = [io EXCEPT !.uart_rx_ready = @ /\ a # IO_UARTDATA]
  OBVIOUS
<1>3. Moves([registers EXCEPT ![0] = SignExtend8(io.uart_rx)], 39 + 2, d)
  <2>1. PICK v : v = SignExtend8(ReadByte(a)) /\ v = SignExtend8(io.uart_rx)
    BY <1>1
  <2>2. 0 \in 0 .. 6
    OBVIOUS
  <2>3. Moves([registers EXCEPT ![0] = v], 39 + 2, d)
    BY <1>1, <1>2, <2>1, <2>2, LoadsAs
  <2> QED BY <2>1, <2>3
<1>4. /\ DOMAIN d = Fields /\ ~ d.uart_rx_ready /\ d.uart_output = io.uart_output
      /\ io.uart_rx_ready /\ io.uart_rx \in Byte
  BY <1>1, <1>2, FieldsNamed DEF MachineOK, CpuOK, DevicesOK, Asking
<1>5. ~ io'.uart_rx_ready /\ io'.uart_output = io.uart_output
  BY <1>3, <1>4, TickIs DEF Moves, Ticked
<1>6. program' = program /\ saved' = saved /\ taken' = Append(taken, io.uart_rx)
  BY <1>4, <1>5, LineObserved DEF Short
<1>7. /\ taken' \in Seq(Byte) /\ taken' # <<>> /\ Len(taken') - 1 = Len(taken)
      /\ Latest' = io.uart_rx /\ \A i \in 1 .. Len(taken) : taken'[i] = taken[i]
  <2>1. Len(taken) \in Nat
    BY LenProperties DEF EchoThere
  <2>2. /\ taken' \in Seq(Byte) /\ taken' # <<>> /\ Len(taken') = Len(taken) + 1
        /\ \A i \in 1 .. Len(taken) : taken'[i] = taken[i]
        /\ taken'[Len(taken) + 1] = io.uart_rx
    BY <1>4, <1>6, AppendProperties DEF EchoThere
  <2> QED BY <2>1, <2>2 DEF Latest
<1>8. /\ registers'[0] = SignExtend8(io.uart_rx)
      /\ \A i \in 0 .. 7 \ {0} : registers'[i] = registers[i]
      /\ UNCHANGED <<c, halted, intis, mem>> /\ pc' = 41
  BY <1>3 DEF Moves, MachineOK, CpuOK
<1>9. EchoThere'
  <2>1. Steady
    BY <1>8 DEF Steady
  <2> QED BY <1>7, <2>1, EchoStays DEF EchoThere, At
<1>10. Inside(x, 4)'
  <2>1. \A z, w : Holds(mem, z, w) => Holds(mem, z, w)'
    BY <1>8 DEF Holds
  <2> QED BY <1>6, <1>8, <2>1, WithinKept DEF Inside
<1>11. Owing(x)'
  <2>1. PICK n \in Nat : n = Len(taken) /\ Len(taken') - 1 = n
    BY <1>7, LenProperties DEF EchoThere
  <2>2. Sent(n, x.pc)
    BY <2>1 DEF Asking
  <2>3. Visible' => Visible
    <3>1. DOMAIN taken = 1 .. n /\ DOMAIN taken' = 1 .. n + 1
      BY <1>7, <2>1, LenProperties DEF EchoThere
    <3>2. DOMAIN taken \subseteq DOMAIN taken'
      BY <2>1, <3>1
    <3> QED BY <1>7, <2>1, <3>1, <3>2 DEF Visible
  <2>4. (Echoes(n) => Echoes(n)') /\ (Prompted(n) => Prompted(n)')
    <3>1. Echoes(n) => Echoes(n)'
      BY <1>5, <1>7, <2>1 DEF Echoes
    <3>2. ASSUME NEW k \in 0 .. n PROVE /\ \A i \in 1 .. k : taken'[i] = taken[i]
                                        /\ \A i \in k + 1 .. n : taken'[i] = taken[i]
      BY <1>7, <2>1
    <3>3. Prompted(n) => Prompted(n)'
      BY <1>5, <3>2 DEF Prompted
    <3> QED BY <3>1, <3>3
  <2>5. Sent(n, x.pc)'
    BY <1>5, <2>2, <2>3, <2>4 DEF Sent
  <2> QED BY <1>7, <2>1, <2>5 DEF Owing
<1>12. Judging(41, registers, c, io.uart_tx_busy, Latest)'
  BY <1>7, <1>8 DEF Judging
<1> QED BY <1>6, <1>8, <1>9, <1>10, <1>11, <1>12

\* Which characters are letters, of a character that was sign-extended.
LEMMA CaseOf ==
  ASSUME NEW ch \in Byte
  PROVE  LET v == SignExtend8(ch)
         IN  /\ v < 97 \/ ~ (v < 123) => v % 256 = Upper(ch)
             /\ v >= 97 /\ v < 123 => ch \in 97 .. 122 /\ v = ch
             /\ v >= 97 \/ v < 97
             /\ ch \in 97 .. 122 => v = ch
BY DEF SignExtend8, Upper, Byte

\* What a line of the program that sends and reads nothing keeps.
Passing(to) ==
  /\ EchoThere' /\ program' = program /\ pc' = to /\ saved' = saved
  /\ io'.int_enable = io.int_enable /\ (io'.uart_tx_busy => io.uart_tx_busy)
  /\ Latest' = Latest /\ \A k : Sent(Len(taken), k) => Sent(Len(taken), k)'
  /\ \A x : /\ Asking(x) => Asking(x)'
            /\ Owing(x) => Owing(x)'
            /\ Done(x) => Done(x)'

\* A quiet step passes on.
LEMMA QuietPasses ==
  ASSUME Quiet, EchoThere, saved' = saved, NEW to, pc' = to
  PROVE  Passing(to)
<1>1. /\ \A k : Sent(Len(taken), k) => Sent(Len(taken), k)'
      /\ \A x : /\ Asking(x) => Asking(x)'
                /\ Owing(x) => Owing(x)'
                /\ Done(x) => Done(x)'
      /\ Latest' = Latest
  BY QuietKeeps DEF Quiet
<1> QED BY <1>1 DEF Passing, Quiet, EchoThere

\* A line that puts the constant v into register r.
Puts(k, r, v, to) ==
  /\ At("echo", k) /\ r \in {0, 1, 2}
  /\ \/ Short("echo", k, "Lc", r, 7, v) /\ to = k + 2
     \/ Unsigned("echo", k, "Lcu", r, 7, v) /\ to = k + 2
     \/ Long("echo", k, "La", r, 7, v) /\ to = k + 4

\* One that copies register y into r.
Copies(k, r, y) ==
  At("echo", k) /\ r \in {0, 2, 6} /\ y \in {0, 2} /\ Plain("echo", k, "Mov", r, y)

\* So does a line that writes one of r0 to r2 or r6,
LEMMA EchoComputes ==
  ASSUME MachineOK, MStep, EchoThere, NEW k, At("echo", k), NEW o, NEW q, NEW y,
         NEW w \in {1, 2, 4},
         Line("echo", k, o, q, y, w), o # "Jmp", NEW r \in {0, 1, 2, 6}, NEW v, NEW to,
         Moves([registers EXCEPT ![r] = v], to, io)
  PROVE  /\ Passing(to) /\ c' = c /\ halted' = halted /\ intis' = intis
         /\ registers'[r] = v /\ \A i \in 0 .. 7 \ {r} : registers'[i] = registers[i]
         /\ r # 6 => \A x : \A n : Inside(x, n) => Inside(x, n)'
<1>1. /\ registers'[r] = v /\ \A i \in 0 .. 7 \ {r} : registers'[i] = registers[i]
      /\ UNCHANGED <<c, halted, intis, mem>> /\ pc' = to /\ io' = Tick(io)
  BY DEF Moves, MachineOK, CpuOK
<1>2. /\ Quiet /\ saved' = saved
      /\ (\A i \in 3 .. 7 : registers'[i] = registers[i]) =>
           \A x : \A n : Inside(x, n) => Inside(x, n)'
  BY <1>1, QuietInside
<1>3. r # 6 => \A i \in 3 .. 7 : registers'[i] = registers[i]
  <2>1. \A i \in 3 .. 7 : i \in 0 .. 7 /\ (r # 6 => i # r)
    OBVIOUS
  <2> QED BY <1>1, <2>1
<1> QED BY <1>1, <1>2, <1>3, QuietPasses

\* a constant,
LEMMA EchoConstant ==
  ASSUME MachineOK, MStep, EchoThere, NEW k, NEW r, NEW v, NEW to, Puts(k, r, v, to)
  PROVE  /\ Passing(to) /\ UNCHANGED <<c, halted, intis>>
         /\ registers'[r] = v /\ \A i \in 0 .. 7 \ {r} : registers'[i] = registers[i]
         /\ \A x : \A n : Inside(x, n) => Inside(x, n)'
<1>1. PICK o \in {"Lc", "Lcu", "La"}, w \in {1, 2, 4} : Line("echo", k, o, r, 7, w)
  BY DEF Puts, Short, Unsigned, Long
<1>2. Moves([registers EXCEPT ![r] = v], to, io)
  <2>1. r \in 0 .. 6 /\ At("echo", k)
    BY DEF Puts
  <2> QED BY <2>1, DoLc, DoLcu, DoLa DEF Puts
<1>3. r \in {0, 1, 2, 6} /\ r # 6 /\ o # "Jmp" /\ At("echo", k)
  BY <1>1 DEF Puts
<1> QED BY <1>1, <1>2, <1>3, EchoComputes

\* a copy,
LEMMA EchoCopies ==
  ASSUME MachineOK, MStep, EchoThere, NEW k, NEW r, NEW y, Copies(k, r, y)
  PROVE  /\ Passing(k + 1) /\ UNCHANGED <<c, halted, intis>>
         /\ registers'[r] = registers[y] /\ \A i \in 0 .. 7 \ {r} : registers'[i] = registers[i]
         /\ r # 6 => \A x : \A n : Inside(x, n) => Inside(x, n)'
<1>1. /\ At("echo", k) /\ r \in 0 .. 6 /\ r \in {0, 1, 2, 6} /\ y \in 0 .. 7 /\ y # 5
      /\ Plain("echo", k, "Mov", r, y) /\ Line("echo", k, "Mov", r, y, 1)
  BY DEF Copies, Plain
<1>2. Moves([registers EXCEPT ![r] = registers[y]], k + 1, io)
  BY <1>1, DoMov
<1>3. 1 \in {1, 2, 4} /\ "Mov" # "Jmp"
  OBVIOUS
<1> QED BY <1>1, <1>2, <1>3, EchoComputes

\* a comparison and a branch.
LEMMA EchoDecides ==
  ASSUME MachineOK, MStep, EchoThere, NEW k, At("echo", k), NEW o, NEW q, NEW y,
         NEW w \in {1, 2, 4},
         Line("echo", k, o, q, y, w), o # "Jmp", NEW to, pc' = to, io' = Tick(io),
         UNCHANGED <<registers, halted, intis, mem>>
  PROVE  Passing(to) /\ \A x : \A n : Inside(x, n) => Inside(x, n)'
<1>1. Quiet /\ saved' = saved /\ \A x : \A n : Inside(x, n) => Inside(x, n)'
  BY QuietInside
<1> QED BY <1>1, QuietPasses

\* A step of the routine between the load of the character and its echo.
LEMMA JudgingStep ==
  ASSUME MachineOK, MStep, "echo" \in DOMAIN Image, EchoThere, At("echo", pc), NEW x, Inside(x, 4),
         Judging(pc, registers, c, io.uart_tx_busy, Latest), Owing(x)
  PROVE  EchoThere' /\ program' = program /\ (Answering(x)' \/ Stopped')
<1> DEFINE p == "echo"
           Judged == Judging(pc, registers, c, io.uart_tx_busy, Latest)
<1>1. Echo /\ registers \in [0 .. 7 -> Word] /\ registers[5] = 0 /\ c \in BOOLEAN
  BY EchoLines DEF MachineOK, CpuOK
<1>2. PICK ch \in Byte : ch = Latest
  <2>1. Len(taken) \in DOMAIN taken /\ taken \in Seq(Byte)
    BY EmptySeq, LenProperties DEF Owing, EchoThere
  <2> QED BY <2>1 DEF Latest
<1>3. ASSUME NEW to, Passing(to), Inside(x, 4)', Judged'
      PROVE  EchoThere' /\ program' = program /\ Answering(x)'
  BY <1>3 DEF Passing, Answering
<1>4. CASE pc = 41
  <2>1. Copies(41, 2, 0) /\ 41 + 1 = 42
    BY <1>1, <1>4 DEF Echo, Copies
  <2>2. /\ Passing(42) /\ c' = c /\ registers'[2] = registers[0] /\ Inside(x, 4)'
        /\ \A i \in 0 .. 7 \ {2} : registers'[i] = registers[i]
    BY <2>1, EchoCopies
  <2>3. Judged'
    BY <1>1, <1>2, <1>4, <2>2 DEF Judging, Passing
  <2> QED BY <1>3, <2>2, <2>3
<1>5. CASE pc = 42
  <2>1. Puts(42, 0, Bang, 44)
    BY <1>1, <1>5 DEF Echo, Puts
  <2>2. /\ Passing(44) /\ c' = c /\ registers'[0] = Bang /\ Inside(x, 4)'
        /\ \A i \in 0 .. 7 \ {0} : registers'[i] = registers[i]
    BY <2>1, EchoConstant
  <2>3. Judged'
    BY <1>1, <1>2, <1>5, <2>2 DEF Judging, Passing
  <2> QED BY <1>3, <2>2, <2>3
<1>6. CASE pc = 44
  <2>1. Plain(p, 44, "Ceq", 0, 2) /\ At(p, 44) /\ "Ceq" \in {"Ceq", "Cls", "Clu"}
    BY <1>1, <1>6 DEF Echo
  <2>2. /\ c' = (registers[0] = registers[2]) /\ pc' = 45 /\ io' = Tick(io)
        /\ UNCHANGED <<registers, halted, intis, mem>>
    BY <2>1, DoCompare
  <2>3. Passing(45) /\ Inside(x, 4)'
    BY <2>1, <2>2, EchoDecides DEF Plain
  <2>4. Judged'
    BY <1>1, <1>2, <1>6, <2>2, <2>3 DEF Judging, Passing
  <2> QED BY <1>3, <2>3, <2>4
<1>7. CASE pc = 45
  <2>1. Branch(p, 45, "Brt", 91) /\ At(p, 45) /\ "Brt" \in {"Brf", "Brt"}
    BY <1>1, <1>7 DEF Echo
  <2>2. Moves(registers, IF c THEN 91 ELSE 47, io)
    <3>1. Moves(registers, IF c = ("Brt" = "Brt") THEN 91 ELSE 45 + 2, io)
      BY <2>1, DoBranchIf
    <3>2. (IF c = ("Brt" = "Brt") THEN 91 ELSE 45 + 2) = IF c THEN 91 ELSE 47
      BY <1>1
    <3> QED BY <3>1, <3>2
  <2>3. /\ Passing(IF c THEN 91 ELSE 47) /\ Inside(x, 4)'
        /\ registers' = registers /\ c' = c /\ intis' = intis
    BY <2>1, <2>2, EchoDecides DEF Branch, Moves
  <2>4. CASE c
    BY <2>3, <2>4 DEF Passing, Stopped, Inside, Within
  <2>5. CASE ~ c
    <3>1. Judged'
      BY <1>2, <1>7, <2>3, <2>5 DEF Judging, Passing
    <3> QED BY <1>3, <2>3, <3>1
  <2> QED BY <2>4, <2>5
<1>8. CASE pc = 47
  <2>1. Puts(47, 0, 97, 49)
    BY <1>1, <1>8 DEF Echo, Puts
  <2>2. /\ Passing(49) /\ c' = c /\ registers'[0] = 97 /\ Inside(x, 4)'
        /\ \A i \in 0 .. 7 \ {0} : registers'[i] = registers[i]
    BY <2>1, EchoConstant
  <2>3. Judged'
    BY <1>1, <1>2, <1>8, <2>2 DEF Judging, Passing
  <2> QED BY <1>3, <2>2, <2>3
<1>9. CASE pc = 49
  <2>1. Plain(p, 49, "Clu", 2, 0) /\ At(p, 49) /\ "Clu" \in {"Ceq", "Cls", "Clu"}
    BY <1>1, <1>9 DEF Echo
  <2>2. /\ c' = (registers[2] < registers[0]) /\ pc' = 50 /\ io' = Tick(io)
        /\ UNCHANGED <<registers, halted, intis, mem>>
    BY <2>1, DoCompare
  <2>3. Passing(50) /\ Inside(x, 4)'
    BY <2>1, <2>2, EchoDecides DEF Plain
  <2>4. Judged'
    BY <1>1, <1>2, <1>9, <2>2, <2>3 DEF Judging, Passing
  <2> QED BY <1>3, <2>3, <2>4
<1>10. CASE pc = 50
  <2>1. Branch(p, 50, "Brt", 74) /\ At(p, 50) /\ "Brt" \in {"Brf", "Brt"}
    BY <1>1, <1>10 DEF Echo
  <2>2. Moves(registers, IF c THEN 74 ELSE 52, io)
    <3>1. Moves(registers, IF c = ("Brt" = "Brt") THEN 74 ELSE 50 + 2, io)
      BY <2>1, DoBranchIf
    <3>2. (IF c = ("Brt" = "Brt") THEN 74 ELSE 50 + 2) = IF c THEN 74 ELSE 52
      BY <1>1
    <3> QED BY <3>1, <3>2
  <2>3. /\ Passing(IF c THEN 74 ELSE 52) /\ Inside(x, 4)'
        /\ registers' = registers /\ c' = c /\ intis' = intis
    BY <2>1, <2>2, EchoDecides DEF Branch, Moves
  <2>4. registers[2] = SignExtend8(ch) /\ c = (SignExtend8(ch) < 97)
    BY <1>2, <1>10 DEF Judging
  <2>5. CASE c
    <3>1. SignExtend8(ch) % 256 = Upper(ch) /\ pc' = 74
      BY <2>3, <2>4, <2>5, CaseOf DEF Passing
    <3>2. Judged'
      BY <1>2, <2>3, <2>4, <3>1 DEF Judging, Passing
    <3> QED BY <1>3, <2>3, <3>2
  <2>6. CASE ~ c
    <3>1. SignExtend8(ch) >= 97 /\ pc' = 52
      BY <2>3, <2>4, <2>6, CaseOf DEF Passing
    <3>2. Judged'
      BY <1>2, <2>3, <2>4, <3>1 DEF Judging, Passing
    <3> QED BY <1>3, <2>3, <3>2
  <2> QED BY <2>5, <2>6
<1>11. CASE pc = 52
  <2>1. Puts(52, 0, 123, 54)
    BY <1>1, <1>11 DEF Echo, Puts
  <2>2. /\ Passing(54) /\ c' = c /\ registers'[0] = 123 /\ Inside(x, 4)'
        /\ \A i \in 0 .. 7 \ {0} : registers'[i] = registers[i]
    BY <2>1, EchoConstant
  <2>3. Judged'
    BY <1>1, <1>2, <1>11, <2>2 DEF Judging, Passing
  <2> QED BY <1>3, <2>2, <2>3
<1>12. CASE pc = 54
  <2>1. Plain(p, 54, "Clu", 2, 0) /\ At(p, 54) /\ "Clu" \in {"Ceq", "Cls", "Clu"}
    BY <1>1, <1>12 DEF Echo
  <2>2. /\ c' = (registers[2] < registers[0]) /\ pc' = 55 /\ io' = Tick(io)
        /\ UNCHANGED <<registers, halted, intis, mem>>
    BY <2>1, DoCompare
  <2>3. Passing(55) /\ Inside(x, 4)'
    BY <2>1, <2>2, EchoDecides DEF Plain
  <2>4. Judged'
    BY <1>1, <1>2, <1>12, <2>2, <2>3 DEF Judging, Passing
  <2> QED BY <1>3, <2>3, <2>4
<1>13. CASE pc = 55
  <2>1. Branch(p, 55, "Brf", 74) /\ At(p, 55) /\ "Brf" \in {"Brf", "Brt"}
    BY <1>1, <1>13 DEF Echo
  <2>2. Moves(registers, IF c THEN 57 ELSE 74, io)
    <3>1. Moves(registers, IF c = ("Brf" = "Brt") THEN 74 ELSE 55 + 2, io)
      BY <2>1, DoBranchIf
    <3>2. (IF c = ("Brf" = "Brt") THEN 74 ELSE 55 + 2) = IF c THEN 57 ELSE 74
      BY <1>1
    <3> QED BY <3>1, <3>2
  <2>3. /\ Passing(IF c THEN 57 ELSE 74) /\ Inside(x, 4)'
        /\ registers' = registers /\ c' = c /\ intis' = intis
    BY <2>1, <2>2, EchoDecides DEF Branch, Moves
  <2>4. registers[2] = SignExtend8(ch) /\ c = (SignExtend8(ch) < 123) /\ SignExtend8(ch) >= 97
    BY <1>2, <1>13 DEF Judging
  <2>5. CASE c
    <3>1. ch \in 97 .. 122 /\ pc' = 57
      BY <2>3, <2>4, <2>5, CaseOf DEF Passing
    <3>2. Judged'
      BY <1>2, <2>3, <2>4, <3>1 DEF Judging, Passing
    <3> QED BY <1>3, <2>3, <3>2
  <2>6. CASE ~ c
    <3>1. SignExtend8(ch) % 256 = Upper(ch) /\ pc' = 74
      BY <2>3, <2>4, <2>6, CaseOf DEF Passing
    <3>2. Judged'
      BY <1>2, <2>3, <2>4, <3>1 DEF Judging, Passing
    <3> QED BY <1>3, <2>3, <3>2
  <2> QED BY <2>5, <2>6
<1>14. CASE pc = 57
  <2>1. Copies(57, 0, 2) /\ 57 + 1 = 58
    BY <1>1, <1>14 DEF Echo, Copies
  <2>2. /\ Passing(58) /\ c' = c /\ registers'[0] = registers[2] /\ Inside(x, 4)'
        /\ \A i \in 0 .. 7 \ {0} : registers'[i] = registers[i]
    BY <2>1, EchoCopies
  <2>3. registers[2] = ch /\ ch \in 97 .. 122
    <3>1. ch \in 97 .. 122 /\ registers[2] = SignExtend8(ch)
      BY <1>2, <1>14 DEF Judging
    <3> QED BY <3>1, CaseOf
  <2>4. Judged'
    BY <1>2, <1>14, <2>2, <2>3 DEF Judging, Passing
  <2> QED BY <1>3, <2>2, <2>4
<1>15. CASE pc = 58
  <2>1. Puts(58, 1, 223, 60)
    BY <1>1, <1>15 DEF Echo, Puts
  <2>2. /\ Passing(60) /\ c' = c /\ registers'[1] = 223 /\ Inside(x, 4)'
        /\ \A i \in 0 .. 7 \ {1} : registers'[i] = registers[i]
    BY <2>1, EchoConstant
  <2>3. Judged'
    BY <1>1, <1>2, <1>15, <2>2 DEF Judging, Passing
  <2> QED BY <1>3, <2>2, <2>3
<1>16. CASE pc = 60
  <2>1. Plain(p, 60, "And", 0, 1) /\ At(p, 60) /\ 0 \in 0 .. 6 /\ 1 \in 0 .. 7
    BY <1>1, <1>16 DEF Echo
  <2>2. BitAnd(registers[0], registers[1]) = Upper(ch) /\ Upper(ch) % 256 = Upper(ch)
    <3>1. ch \in 97 .. 122 /\ registers[0] = ch /\ registers[1] = 223
      BY <1>2, <1>16 DEF Judging
    <3> QED BY <3>1, CaseAssumption DEF Upper
  <2>3. Moves([registers EXCEPT ![0] = Upper(ch)], 60 + 1, io)
    <3>1. Moves([registers EXCEPT ![0] = BitAnd(registers[0], registers[1])], 60 + 1, io)
      BY <2>1, DoAnd
    <3> QED BY <2>2, <3>1
  <2>4. /\ Passing(61) /\ c' = c /\ registers'[0] = Upper(ch) /\ Inside(x, 4)'
        /\ \A i \in 0 .. 7 \ {0} : registers'[i] = registers[i]
    BY <2>1, <2>3, EchoComputes DEF Plain
  <2>5. Judged'
    BY <1>2, <1>16, <2>2, <2>4 DEF Judging, Passing
  <2> QED BY <1>3, <2>4, <2>5
<1>17. CASE pc = 61
  <2>1. Puts(61, 1, IO_UARTDATA, 65)
    BY <1>1, <1>17 DEF Echo, Puts
  <2>2. /\ Passing(65) /\ c' = c /\ registers'[1] = IO_UARTDATA /\ Inside(x, 4)'
        /\ \A i \in 0 .. 7 \ {1} : registers'[i] = registers[i]
    BY <2>1, EchoConstant
  <2>3. Judged'
    BY <1>1, <1>2, <1>17, <2>2 DEF Judging, Passing
  <2> QED BY <1>3, <2>2, <2>3
<1>18. CASE pc = 65
  <2>1. Short(p, 65, "Lb", 2, 1, 1) /\ At(p, 65) /\ 2 \in {0, 2} /\ registers[1] = IO_UARTDATA
    BY <1>1, <1>18 DEF Echo, Judging
  <2>2. /\ Quiet /\ saved' = saved /\ pc' = 65 + 2 /\ c' = c /\ Inside(x, 4)'
        /\ \A i \in 0 .. 7 \ {2} : registers'[i] = registers[i]
        /\ Signed24(registers'[2]) < 0 \/ ~ io'.uart_tx_busy
    BY <2>1, QuietPoll
  <2>3. Passing(67)
    BY <2>2, QuietPasses
  <2>4. Judged'
    BY <1>2, <1>18, <2>2, <2>3 DEF Judging, Passing
  <2> QED BY <1>3, <2>2, <2>3, <2>4
<1>19. CASE pc = 67
  <2>1. Plain(p, 67, "Cls", 2, 5) /\ At(p, 67) /\ "Cls" \in {"Ceq", "Cls", "Clu"}
    BY <1>1, <1>19 DEF Echo
  <2>2. /\ c' = (Signed24(registers[2]) < 0) /\ pc' = 68 /\ io' = Tick(io)
        /\ UNCHANGED <<registers, halted, intis, mem>>
    <3>1. Signed24(registers[5]) = 0
      BY <1>1 DEF Signed24
    <3>2. /\ c' = (Signed24(registers[2]) < Signed24(registers[5])) /\ pc' = 67 + 1
          /\ io' = Tick(io)
          /\ UNCHANGED <<registers, halted, intis, mem>>
      BY <2>1, DoCompare
    <3> QED BY <3>1, <3>2
  <2>3. Passing(68) /\ Inside(x, 4)'
    BY <2>1, <2>2, EchoDecides DEF Plain
  <2>4. c' \/ ~ io'.uart_tx_busy
    <3>1. Signed24(registers[2]) < 0 \/ ~ io.uart_tx_busy
      BY <1>19 DEF Judging
    <3> QED BY <2>2, <2>3, <3>1 DEF Passing
  <2>5. Judged'
    BY <1>2, <1>19, <2>2, <2>3, <2>4 DEF Judging, Passing
  <2> QED BY <1>3, <2>3, <2>5
<1>20. CASE pc = 68
  <2>1. Branch(p, 68, "Brt", 65) /\ At(p, 68) /\ "Brt" \in {"Brf", "Brt"}
    BY <1>1, <1>20 DEF Echo
  <2>2. Moves(registers, IF c THEN 65 ELSE 70, io)
    <3>1. Moves(registers, IF c = ("Brt" = "Brt") THEN 65 ELSE 68 + 2, io)
      BY <2>1, DoBranchIf
    <3>2. (IF c = ("Brt" = "Brt") THEN 65 ELSE 68 + 2) = IF c THEN 65 ELSE 70
      BY <1>1
    <3> QED BY <3>1, <3>2
  <2>3. /\ Passing(IF c THEN 65 ELSE 70) /\ Inside(x, 4)'
        /\ registers' = registers /\ c' = c /\ intis' = intis
    BY <2>1, <2>2, EchoDecides DEF Branch, Moves
  <2>4. Judged'
    BY <1>1, <1>2, <1>20, <2>3 DEF Judging, Passing
  <2> QED BY <1>3, <2>3, <2>4
<1>21. CASE pc = 70
  <2>1. /\ Short(p, 70, "Sb", 0, 1, 0) /\ At(p, 70) /\ 0 \in {0, 2}
        /\ registers[1] = IO_UARTDATA /\ ~ io.uart_tx_busy /\ registers[0] % 256 = Upper(Latest)
    BY <1>1, <1>21 DEF Echo, Judging
  <2>2. EchoThere' /\ program' = program /\ pc' = 70 + 2 /\ Inside(x, 4)' /\ Done(x)'
    BY <2>1, EchoSends
  <2> QED BY <2>2 DEF Answering
<1>22. CASE pc = 74
  <2>1. Puts(74, 1, IO_UARTDATA, 78)
    BY <1>1, <1>22 DEF Echo, Puts
  <2>2. /\ Passing(78) /\ c' = c /\ registers'[1] = IO_UARTDATA /\ Inside(x, 4)'
        /\ \A i \in 0 .. 7 \ {1} : registers'[i] = registers[i]
    BY <2>1, EchoConstant
  <2>3. Judged'
    BY <1>1, <1>2, <1>22, <2>2 DEF Judging, Passing
  <2> QED BY <1>3, <2>2, <2>3
<1>23. CASE pc = 78
  <2>1. Short(p, 78, "Lb", 0, 1, 1) /\ At(p, 78) /\ 0 \in {0, 2} /\ registers[1] = IO_UARTDATA
    BY <1>1, <1>23 DEF Echo, Judging
  <2>2. /\ Quiet /\ saved' = saved /\ pc' = 78 + 2 /\ c' = c /\ Inside(x, 4)'
        /\ \A i \in 0 .. 7 \ {0} : registers'[i] = registers[i]
        /\ Signed24(registers'[0]) < 0 \/ ~ io'.uart_tx_busy
    BY <2>1, QuietPoll
  <2>3. Passing(80)
    BY <2>2, QuietPasses
  <2>4. Judged'
    BY <1>2, <1>23, <2>2, <2>3 DEF Judging, Passing
  <2> QED BY <1>3, <2>2, <2>3, <2>4
<1>24. CASE pc = 80
  <2>1. Plain(p, 80, "Cls", 0, 5) /\ At(p, 80) /\ "Cls" \in {"Ceq", "Cls", "Clu"}
    BY <1>1, <1>24 DEF Echo
  <2>2. /\ c' = (Signed24(registers[0]) < 0) /\ pc' = 81 /\ io' = Tick(io)
        /\ UNCHANGED <<registers, halted, intis, mem>>
    <3>1. Signed24(registers[5]) = 0
      BY <1>1 DEF Signed24
    <3>2. /\ c' = (Signed24(registers[0]) < Signed24(registers[5])) /\ pc' = 80 + 1
          /\ io' = Tick(io)
          /\ UNCHANGED <<registers, halted, intis, mem>>
      BY <2>1, DoCompare
    <3> QED BY <3>1, <3>2
  <2>3. Passing(81) /\ Inside(x, 4)'
    BY <2>1, <2>2, EchoDecides DEF Plain
  <2>4. c' \/ ~ io'.uart_tx_busy
    <3>1. Signed24(registers[0]) < 0 \/ ~ io.uart_tx_busy
      BY <1>24 DEF Judging
    <3> QED BY <2>2, <2>3, <3>1 DEF Passing
  <2>5. Judged'
    BY <1>2, <1>24, <2>2, <2>3, <2>4 DEF Judging, Passing
  <2> QED BY <1>3, <2>3, <2>5
<1>25. CASE pc = 81
  <2>1. Branch(p, 81, "Brt", 78) /\ At(p, 81) /\ "Brt" \in {"Brf", "Brt"}
    BY <1>1, <1>25 DEF Echo
  <2>2. Moves(registers, IF c THEN 78 ELSE 83, io)
    <3>1. Moves(registers, IF c = ("Brt" = "Brt") THEN 78 ELSE 81 + 2, io)
      BY <2>1, DoBranchIf
    <3>2. (IF c = ("Brt" = "Brt") THEN 78 ELSE 81 + 2) = IF c THEN 78 ELSE 83
      BY <1>1
    <3> QED BY <3>1, <3>2
  <2>3. /\ Passing(IF c THEN 78 ELSE 83) /\ Inside(x, 4)'
        /\ registers' = registers /\ c' = c /\ intis' = intis
    BY <2>1, <2>2, EchoDecides DEF Branch, Moves
  <2>4. Judged'
    BY <1>1, <1>2, <1>25, <2>3 DEF Judging, Passing
  <2> QED BY <1>3, <2>3, <2>4
<1>26. CASE pc = 83
  <2>1. /\ Short(p, 83, "Sb", 2, 1, 0) /\ At(p, 83) /\ 2 \in {0, 2}
        /\ registers[1] = IO_UARTDATA /\ ~ io.uart_tx_busy /\ registers[2] % 256 = Upper(Latest)
    BY <1>1, <1>26 DEF Echo, Judging
  <2>2. EchoThere' /\ program' = program /\ pc' = 83 + 2 /\ Inside(x, 4)' /\ Done(x)'
    BY <2>1, EchoSends
  <2> QED BY <2>2 DEF Answering
<1> QED BY <1>4, <1>5, <1>6, <1>7, <1>8, <1>9, <1>10, <1>11, <1>12, <1>13, <1>14, <1>15, <1>16,
           <1>17, <1>18, <1>19, <1>20, <1>21, <1>22, <1>23, <1>24, <1>25, <1>26 DEF Judging

\* A line that writes no device and none of the cells below 257 passes on.
LEMMA EchoSteady ==
  ASSUME MachineOK, MStep, EchoThere, NEW k, At("echo", k), NEW o, NEW q, NEW y,
         NEW w \in {1, 2, 4},
         Line("echo", k, o, q, y, w), o # "Jmp", Steady, NEW to, pc' = to, io' = Tick(io)
  PROVE  Passing(to)
<1>1. Quiet /\ saved' = saved
  <2>1. DOMAIN io = Fields
    BY DEF MachineOK, CpuOK, DevicesOK
  <2> QED BY <2>1, QuietLine
<1> QED BY <1>1, QuietPasses

\* A push in the routine,
LEMMA EchoPush ==
  ASSUME MachineOK, MStep, EchoThere, NEW k, At("echo", k), NEW r \in {0, 1, 2}, NEW y,
         Plain("echo", k, "Push", r, y), NEW x, NEW n \in 0 .. 3, Inside(x, n),
         registers[r] = Stacked(x)[n + 1]
  PROVE  /\ Passing(k + 1) /\ Inside(x, n + 1)' /\ c' = c
         /\ \A i \in {0, 1, 2} : registers'[i] = registers[i]
<1>1. /\ pc' = k + 1 /\ io' = Tick(io) /\ c' = c /\ Steady /\ Within(x, n + 1)'
      /\ \A i \in {0, 1, 2} : registers'[i] = registers[i]
  BY WithinPush DEF Inside
<1>2. Passing(k + 1)
  BY <1>1, EchoSteady DEF Plain
<1> QED BY <1>1, <1>2 DEF Inside

\* a pop,
LEMMA EchoPop ==
  ASSUME MachineOK, MStep, EchoThere, NEW k, At("echo", k), NEW r \in {0, 1, 2}, NEW y,
         Plain("echo", k, "Pop", r, y), NEW x, NEW n \in 0 .. 3, Inside(x, n + 1)
  PROVE  /\ Passing(k + 1) /\ Inside(x, n)' /\ c' = c /\ registers'[r] = Stacked(x)[n + 1]
         /\ \A i \in {0, 1, 2} \ {r} : registers'[i] = registers[i]
<1>1. /\ pc' = k + 1 /\ io' = Tick(io) /\ c' = c /\ Steady /\ Within(x, n)'
      /\ registers'[r] = Stacked(x)[n + 1]
      /\ \A i \in {0, 1, 2} \ {r} : registers'[i] = registers[i]
  BY WithinPop DEF Inside
<1>2. Passing(k + 1)
  BY <1>1, EchoSteady DEF Plain
<1> QED BY <1>1, <1>2 DEF Inside

\* and its return.
LEMMA EchoReturns ==
  ASSUME MachineOK, MStep, EchoThere, At("echo", 90), Plain("echo", 90, "Jmp", 7, 7),
         NEW x, Inside(x, 0), c = x.c, Keeps(x, {0, 1, 2}), Done(x)
  PROVE  EchoThere' /\ program' = program /\ Idle'
<1>1. /\ ~ intis' /\ saved' = <<>> /\ pc' = x.pc /\ io' = Tick(io) /\ Steady
      /\ UNCHANGED <<c, halted, mem>> /\ \A r \in 0 .. 6 : registers'[r] = x.registers[r]
  BY WithinLeft DEF Inside
<1>2. Quiet
  <2>1. DOMAIN io = Fields
    BY DEF MachineOK, CpuOK, DevicesOK
  <2> QED BY <1>1, <2>1, QuietLine DEF Plain
<1>3. Sent(Len(taken), x.pc)'
  BY <1>2, QuietKeeps DEF Quiet, Done, Sent
<1>4. Waiting(x.pc, registers') /\ ~ (x.pc < 13)
  <2>1. Waiting(x.pc, x.registers) /\ x.pc >= 13
    BY DEF Inside
  <2>2. \A r \in {0, 1, 4, 6} : registers'[r] = x.registers[r]
    BY <1>1
  <2> QED BY <2>1, <2>2 DEF Waiting
<1>5. ~ halted'
  BY <1>1 DEF Inside, Within
<1>6. Sent(Len(taken), pc)'
  BY <1>1, <1>3 DEF Sent
<1> QED BY <1>1, <1>2, <1>4, <1>5, <1>6 DEF Idle, Quiet, EchoThere

\* The routine is entered with the context of the main program in its frame.
LEMMA EchoEntered ==
  ASSUME MachineOK, MStep, EchoThere, Idle, InterruptPending
  PROVE  EchoThere' /\ program' = program /\ \E x : Answering(x)'
<1>1. registers[4] = INITIAL_SP /\ ~ halted /\ saved = <<>>
  BY DEF Idle, Waiting
<1>2. /\ program' = program /\ taken' = taken /\ pc' = registers[6] /\ UNCHANGED <<c, mem, io>>
  BY <1>1, Interrupted
<1>3. PICK x : /\ x.registers = registers /\ x.c = c /\ x.pc = pc
               /\ Within(x, 0)' /\ Keeps(x, {0, 1, 2})'
  BY <1>1, Interrupted
<1>4. pc >= 13 /\ registers[6] = 30 /\ io.uart_rx_ready
  <2>1. pc \in Nat
    BY WordIs DEF MachineOK, CpuOK
  <2>2. io.int_enable # 0
    BY DEF InterruptPending
  <2> QED BY <2>1, <2>2 DEF Idle, Waiting, InterruptPending
<1>5. EchoThere'
  BY <1>2 DEF EchoThere, Loaded
<1>6. Asking(x)'
  BY <1>2, <1>3, <1>4 DEF Idle, Asking, Sent, Visible, Echoes, Prompted
<1>7. Inside(x, 0)'
  BY <1>3, <1>4 DEF Inside, Idle
<1>8. Answering(x)'
  BY <1>2, <1>3, <1>4, <1>6, <1>7 DEF Answering
<1> QED BY <1>2, <1>5, <1>8

\* A step of the main program.
LEMMA IdleStep ==
  ASSUME MachineOK, MStep, "echo" \in DOMAIN Image, EchoThere, Idle, ~ InterruptPending
  PROVE  EchoThere' /\ program' = program /\ Idle'
<1> DEFINE p == "echo"
<1>1. At(p, pc)
  <2>1. pc \in Nat
    BY WordIs DEF MachineOK, CpuOK
  <2> QED BY <2>1 DEF At, MachineOK, MStep, Idle, EchoThere
<1>2. Echo /\ registers \in [0 .. 7 -> Word] /\ c \in BOOLEAN
  BY EchoLines DEF MachineOK, CpuOK
<1>3. Waiting(pc, registers)
  BY DEF Idle
<1>4. ASSUME NEW to \in Nat, Passing(to), halted' = halted, intis' = intis,
             to < 13 => pc < 13, to >= 26 <=> pc >= 26, Waiting(to, registers')
      PROVE  EchoThere' /\ program' = program /\ Idle'
  BY <1>4 DEF Passing, Idle, Sent
<1>5. CASE pc = 0
  <2>1. Puts(0, 0, 30, 4)
    BY <1>1, <1>2, <1>5 DEF Echo, Puts
  <2>2. /\ Passing(4) /\ halted' = halted /\ intis' = intis /\ registers'[0] = 30
        /\ \A i \in 0 .. 7 \ {0} : registers'[i] = registers[i]
    BY <2>1, EchoConstant
  <2>3. Waiting(4, registers')
    BY <1>3, <1>5, <2>2 DEF Waiting
  <2> QED BY <1>4, <1>5, <2>2, <2>3
<1>6. CASE pc = 4
  <2>1. Copies(4, 6, 0) /\ 4 + 1 = 5
    BY <1>1, <1>2, <1>6 DEF Echo, Copies
  <2>2. /\ Passing(5) /\ halted' = halted /\ intis' = intis /\ registers'[6] = registers[0]
        /\ \A i \in 0 .. 7 \ {6} : registers'[i] = registers[i]
    BY <2>1, EchoCopies
  <2>3. Waiting(5, registers')
    BY <1>3, <1>6, <2>2 DEF Waiting
  <2> QED BY <1>4, <1>6, <2>2, <2>3
<1>7. CASE pc = 5
  <2>1. Puts(5, 1, IO_INTENABLE, 9)
    BY <1>1, <1>2, <1>7 DEF Echo, Puts
  <2>2. /\ Passing(9) /\ halted' = halted /\ intis' = intis /\ registers'[1] = IO_INTENABLE
        /\ \A i \in 0 .. 7 \ {1} : registers'[i] = registers[i]
    BY <2>1, EchoConstant
  <2>3. Waiting(9, registers')
    BY <1>3, <1>7, <2>2 DEF Waiting
  <2> QED BY <1>4, <1>7, <2>2, <2>3
<1>8. CASE pc = 9
  <2>1. Puts(9, 0, 1, 11)
    BY <1>1, <1>2, <1>8 DEF Echo, Puts
  <2>2. /\ Passing(11) /\ halted' = halted /\ intis' = intis /\ registers'[0] = 1
        /\ \A i \in 0 .. 7 \ {0} : registers'[i] = registers[i]
    BY <2>1, EchoConstant
  <2>3. Waiting(11, registers')
    BY <1>3, <1>8, <2>2 DEF Waiting
  <2> QED BY <1>4, <1>8, <2>2, <2>3
<1>9. CASE pc = 13
  <2>1. Puts(13, 1, IO_UARTDATA, 17)
    BY <1>1, <1>2, <1>9 DEF Echo, Puts
  <2>2. /\ Passing(17) /\ halted' = halted /\ intis' = intis /\ registers'[1] = IO_UARTDATA
        /\ \A i \in 0 .. 7 \ {1} : registers'[i] = registers[i]
    BY <2>1, EchoConstant
  <2>3. Waiting(17, registers')
    BY <1>3, <1>9, <2>2 DEF Waiting
  <2> QED BY <1>4, <1>9, <2>2, <2>3
<1>10. CASE pc = 22
  <2>1. Puts(22, 0, Prompt, 24)
    BY <1>1, <1>2, <1>10 DEF Echo, Puts
  <2>2. /\ Passing(24) /\ halted' = halted /\ intis' = intis /\ registers'[0] = Prompt
        /\ \A i \in 0 .. 7 \ {0} : registers'[i] = registers[i]
    BY <2>1, EchoConstant
  <2>3. Waiting(24, registers')
    BY <1>3, <1>10, <2>2 DEF Waiting
  <2> QED BY <1>4, <1>10, <2>2, <2>3
<1>11. CASE pc = 26
  <2>1. Puts(26, 0, 0, 28)
    BY <1>1, <1>2, <1>11 DEF Echo, Puts
  <2>2. /\ Passing(28) /\ halted' = halted /\ intis' = intis /\ registers'[0] = 0
        /\ \A i \in 0 .. 7 \ {0} : registers'[i] = registers[i]
    BY <2>1, EchoConstant
  <2>3. Waiting(28, registers')
    BY <1>3, <1>11, <2>2 DEF Waiting
  <2> QED BY <1>4, <1>11, <2>2, <2>3
<1>12. CASE pc = 17
  <2>1. Short(p, 17, "Lb", 2, 1, 1) /\ At(p, 17) /\ 2 \in {0, 2} /\ registers[1] = IO_UARTDATA
    BY <1>1, <1>2, <1>3, <1>12 DEF Echo, Waiting
  <2>2. /\ Quiet /\ saved' = saved /\ pc' = 17 + 2 /\ UNCHANGED <<c, halted, intis, mem>>
        /\ \A i \in 0 .. 7 \ {2} : registers'[i] = registers[i]
    BY <2>1, QuietPoll
  <2>3. Passing(19)
    BY <2>2, QuietPasses
  <2>4. Waiting(19, registers')
    BY <1>3, <1>12, <2>2 DEF Waiting
  <2> QED BY <1>4, <1>12, <2>2, <2>3, <2>4
<1>13. CASE pc = 19
  <2>1. Plain(p, 19, "Cls", 2, 5) /\ At(p, 19) /\ "Cls" \in {"Ceq", "Cls", "Clu"}
    BY <1>1, <1>2, <1>13 DEF Echo
  <2>2. pc' = 20 /\ io' = Tick(io) /\ UNCHANGED <<registers, halted, intis, mem>>
    BY <2>1, DoCompare
  <2>3. Passing(20)
    BY <2>1, <2>2, EchoDecides DEF Plain
  <2>4. Waiting(20, registers')
    BY <1>3, <1>13, <2>2 DEF Waiting
  <2> QED BY <1>4, <1>13, <2>2, <2>3, <2>4
<1>14. CASE pc = 20
  <2>1. Branch(p, 20, "Brt", 17) /\ At(p, 20) /\ "Brt" \in {"Brf", "Brt"}
    BY <1>1, <1>2, <1>14 DEF Echo
  <2>2. PICK to \in {17, 22} : Moves(registers, to, io)
    <3>1. Moves(registers, IF c = ("Brt" = "Brt") THEN 17 ELSE 20 + 2, io)
      BY <2>1, DoBranchIf
    <3>2. (IF c = ("Brt" = "Brt") THEN 17 ELSE 20 + 2) \in {17, 22}
      OBVIOUS
    <3> QED BY <3>1, <3>2
  <2>3. Passing(to) /\ UNCHANGED <<registers, halted, intis>>
    BY <2>1, <2>2, EchoDecides DEF Branch, Moves
  <2>4. Waiting(to, registers')
    BY <1>3, <1>14, <2>2, <2>3 DEF Waiting
  <2> QED BY <1>4, <1>14, <2>2, <2>3, <2>4
<1>15. CASE pc = 28
  <2>1. Branch(p, 28, "Bra", 26) /\ At(p, 28)
    BY <1>1, <1>2, <1>15 DEF Echo
  <2>2. /\ halted' = (26 = 28) /\ pc' = 26 /\ io' = Tick(io)
        /\ UNCHANGED <<registers, c, intis, mem>>
    BY <2>1, DoBra
  <2>3. halted' = halted
    BY <2>2 DEF Idle, MachineOK, CpuOK
  <2>4. Passing(26)
    BY <2>1, <2>2, <2>3, EchoDecides DEF Branch
  <2>5. Waiting(26, registers')
    BY <1>3, <1>15, <2>2 DEF Waiting
  <2> QED BY <1>4, <1>15, <2>2, <2>3, <2>4, <2>5
\* Interrupts are enabled,
<1>16. CASE pc = 11
  <2>1. Short(p, 11, "Sb", 0, 1, 0) /\ At(p, 11) /\ registers[1] = IO_INTENABLE
    BY <1>1, <1>2, <1>3, <1>16 DEF Echo, Waiting
  <2>2. PICK v \in Byte :
             /\ pc' = 11 + 2 /\ UNCHANGED <<registers, c, halted, intis>> /\ Steady
             /\ io' = Tick([io EXCEPT !.int_enable = v]) /\ DevicesOK([io EXCEPT !.int_enable = v])
    BY <2>1, DoEnable
  <2>3. PICK d : d = [io EXCEPT !.int_enable = v]
    OBVIOUS
  <2>4. Ticked(d, io')
    BY <2>2, <2>3, TickIs DEF DevicesOK
  <2>5. d.uart_rx_ready = io.uart_rx_ready /\ d.uart_output = io.uart_output
    BY <2>3, FieldsNamed DEF MachineOK, CpuOK, DevicesOK
  <2>6. io'.uart_rx_ready = io.uart_rx_ready /\ io'.uart_output = io.uart_output
    BY <2>4, <2>5 DEF Ticked
  <2>7. program' = program /\ saved' = saved /\ taken' = taken
    BY <2>1, <2>6, LineObserved DEF Short
  <2>8. EchoThere'
    BY <2>2, <2>7, EchoStays DEF EchoThere
  <2>9. Sent(Len(taken), 11)'
    BY <2>6, <2>7, <1>16, QuietKeeps DEF Idle
  <2>10. Sent(Len(taken), pc)'
    BY <2>2, <2>9 DEF Sent
  <2>11. Waiting(13, registers)
    BY <1>3, <1>16 DEF Waiting
  <2> QED BY <2>2, <2>7, <2>8, <2>10, <2>11 DEF Idle
\* and the prompt is sent.
<1>17. CASE pc = 24
  <2>1. /\ Short(p, 24, "Sb", 0, 1, 0) /\ At(p, 24) /\ 0 \in {0, 2}
        /\ registers[1] = IO_UARTDATA /\ registers[0] = Prompt
    BY <1>1, <1>2, <1>3, <1>17 DEF Echo, Waiting
  <2>2. /\ EchoThere' /\ UNCHANGED <<program, taken, saved, registers, c, halted, intis>>
        /\ pc' = 24 + 2
    BY <2>1, EchoPuts
  <2>3. PICK v \in Byte :
             /\ v = registers[0] % 256
             /\ io'.uart_output = IF io.uart_tx_busy \/ v = 0 THEN io.uart_output
                                                              ELSE Append(io.uart_output, v)
    BY <2>1, EchoPuts
  <2>4. v = Prompt
    BY <2>1, <2>3 DEF Prompt
  <2>5. Sent(Len(taken), 26)'
    BY <1>17, <2>2, <2>3, <2>4, SentPrompt DEF Idle, EchoThere
  <2>6. Sent(Len(taken), pc)'
    BY <2>2, <2>5 DEF Sent
  <2>7. Waiting(26, registers)
    BY <1>3, <1>17 DEF Waiting
  <2> QED BY <2>2, <2>6, <2>7 DEF Idle
<1> QED BY <1>5, <1>6, <1>7, <1>8, <1>9, <1>10, <1>11, <1>12, <1>13, <1>14, <1>15, <1>16, <1>17,
           <1>3 DEF Waiting

\* A step of the routine leads to its next line, back to the main program, or
\* past '!'.
LEMMA AnsweringStep ==
  ASSUME MachineOK, MStep, "echo" \in DOMAIN Image, EchoThere, NEW x, Answering(x)
  PROVE  EchoThere' /\ program' = program /\ (Idle' \/ Answering(x)' \/ Stopped')
<1> DEFINE p == "echo"
<1>1. At(p, pc)
  <2>1. pc \in Nat
    BY WordIs DEF MachineOK, CpuOK
  <2>2. ~ halted /\ intis
    BY DEF Answering, Inside, Within
  <2> QED BY <2>1, <2>2 DEF At, MachineOK, MStep, EchoThere, InterruptPending
<1>2. Echo
  BY EchoLines
<1>3. \A n : Inside(x, n) => /\ Stacked(x)[1] = x.registers[0] /\ Stacked(x)[2] = x.registers[1]
                             /\ Stacked(x)[3] = x.registers[2]
                             /\ Stacked(x)[4] = IF x.c THEN 1 ELSE 0
                             /\ x.c \in BOOLEAN
  BY WordsStacked DEF Inside, Within
<1>4. ASSUME NEW to, Passing(to), Answering(x)'
      PROVE  EchoThere' /\ program' = program /\ Answering(x)'
  BY <1>4 DEF Passing
<1>5. CASE Inside(x, 4) /\ Judging(pc, registers, c, io.uart_tx_busy, Latest) /\ Owing(x)
  BY <1>1, <1>5, JudgingStep
<1>6. CASE pc = 30 /\ Inside(x, 0) /\ c = x.c /\ Keeps(x, {0, 1, 2}) /\ Asking(x)
  <2>1. /\ Plain(p, 30, "Push", 0, 4) /\ At(p, 30) /\ 0 \in {0, 1, 2} /\ 0 \in 0 .. 3
        /\ registers[0] = Stacked(x)[0 + 1]
    BY <1>1, <1>2, <1>3, <1>6 DEF Echo, Keeps
  <2>2. /\ Passing(30 + 1) /\ Inside(x, 0 + 1)' /\ c' = c
        /\ \A i \in {0, 1, 2} : registers'[i] = registers[i]
    BY <2>1, <1>6, EchoPush
  <2>3. pc' = 31 /\ Asking(x)' /\ Inside(x, 1)'
    BY <1>6, <2>2 DEF Passing
  <2>4. Keeps(x, {1, 2})'
    BY <1>6, <2>2 DEF Keeps
  <2> QED BY <1>4, <1>6, <2>2, <2>3, <2>4 DEF Answering
<1>7. CASE pc = 31 /\ Inside(x, 1) /\ c = x.c /\ Keeps(x, {1, 2}) /\ Asking(x)
  <2>1. /\ Plain(p, 31, "Push", 1, 4) /\ At(p, 31) /\ 1 \in {0, 1, 2} /\ 1 \in 0 .. 3
        /\ registers[1] = Stacked(x)[1 + 1]
    BY <1>1, <1>2, <1>3, <1>7 DEF Echo, Keeps
  <2>2. /\ Passing(31 + 1) /\ Inside(x, 1 + 1)' /\ c' = c
        /\ \A i \in {0, 1, 2} : registers'[i] = registers[i]
    BY <2>1, <1>7, EchoPush
  <2>3. pc' = 32 /\ Asking(x)' /\ Inside(x, 2)'
    BY <1>7, <2>2 DEF Passing
  <2>4. Keeps(x, {2})'
    BY <1>7, <2>2 DEF Keeps
  <2> QED BY <1>4, <1>7, <2>2, <2>3, <2>4 DEF Answering
<1>8. CASE pc = 32 /\ Inside(x, 2) /\ c = x.c /\ Keeps(x, {2}) /\ Asking(x)
  <2>1. /\ Plain(p, 32, "Push", 2, 4) /\ At(p, 32) /\ 2 \in {0, 1, 2} /\ 2 \in 0 .. 3
        /\ registers[2] = Stacked(x)[2 + 1]
    BY <1>1, <1>2, <1>3, <1>8 DEF Echo, Keeps
  <2>2. /\ Passing(32 + 1) /\ Inside(x, 2 + 1)' /\ c' = c
        /\ \A i \in {0, 1, 2} : registers'[i] = registers[i]
    BY <2>1, <1>8, EchoPush
  <2>3. pc' = 33 /\ Asking(x)' /\ Inside(x, 3)'
    BY <1>8, <2>2 DEF Passing
  <2> QED BY <1>4, <1>8, <2>2, <2>3 DEF Answering
<1>9. CASE pc = 33 /\ Inside(x, 3) /\ c = x.c /\ Asking(x)
  <2>1. PICK v : v = IF c THEN 1 ELSE 0
    OBVIOUS
  <2>2. Plain(p, 33, "Mov", 2, 5) /\ At(p, 33) /\ 2 \in 0 .. 6 /\ 5 \in 0 .. 7
    BY <1>1, <1>2, <1>9 DEF Echo
  <2>3. Moves([registers EXCEPT ![2] = v], 33 + 1, io)
    <3>1. Moves([registers EXCEPT ![2] = IF 5 = 5 THEN (IF c THEN 1 ELSE 0) ELSE registers[5]],
                33 + 1, io)
      BY <2>2, DoMov
    <3> QED BY <2>1, <3>1
  <2>4. /\ Passing(33 + 1) /\ Inside(x, 3)' /\ registers'[2] = v
    BY <2>2, <2>3, <1>9, EchoComputes DEF Plain
  <2>5. pc' = 34 /\ Asking(x)' /\ registers'[2] = Stacked(x)[4]
    BY <1>3, <1>9, <2>1, <2>4 DEF Passing
  <2> QED BY <1>4, <2>4, <2>5 DEF Answering
<1>10. CASE pc = 34 /\ Inside(x, 3) /\ registers[2] = Stacked(x)[4] /\ Asking(x)
  <2>1. /\ Plain(p, 34, "Push", 2, 4) /\ At(p, 34) /\ 2 \in {0, 1, 2} /\ 3 \in 0 .. 3
        /\ registers[2] = Stacked(x)[3 + 1]
    BY <1>1, <1>2, <1>10 DEF Echo
  <2>2. Passing(34 + 1) /\ Inside(x, 3 + 1)'
    BY <2>1, <1>10, EchoPush
  <2>3. pc' = 35 /\ Asking(x)' /\ Inside(x, 4)'
    BY <1>10, <2>2 DEF Passing
  <2> QED BY <1>4, <2>2, <2>3 DEF Answering
<1>11. CASE pc = 35 /\ Inside(x, 4) /\ Asking(x)
  <2>1. Puts(35, 1, IO_UARTDATA, 39)
    BY <1>1, <1>2, <1>11 DEF Echo, Puts
  <2>2. Passing(39) /\ registers'[1] = IO_UARTDATA /\ Inside(x, 4)'
    BY <2>1, <1>11, EchoConstant
  <2>3. pc' = 39 /\ Asking(x)'
    BY <1>11, <2>2 DEF Passing
  <2> QED BY <1>4, <2>2, <2>3 DEF Answering
<1>12. CASE pc = 39 /\ Inside(x, 4) /\ registers[1] = IO_UARTDATA /\ Asking(x)
  <2>1. Short(p, 39, "Lb", 0, 1, 0) /\ At(p, 39)
    BY <1>1, <1>2, <1>12 DEF Echo
  <2>2. /\ EchoThere' /\ program' = program /\ pc' = 41 /\ Inside(x, 4)' /\ Owing(x)'
        /\ Judging(41, registers, c, io.uart_tx_busy, Latest)'
    BY <2>1, <1>12, EchoReads
  <2> QED BY <2>2 DEF Answering
<1>13. CASE pc = 72 /\ Inside(x, 4) /\ Done(x)
  <2>1. Branch(p, 72, "Bra", 85) /\ At(p, 72)
    BY <1>1, <1>2, <1>13 DEF Echo
  <2>2. /\ halted' = FALSE /\ pc' = 85 /\ io' = Tick(io) /\ UNCHANGED <<registers, c, intis, mem>>
    <3>1. (85 = 72) = FALSE
      OBVIOUS
    <3>2. /\ halted' = (85 = 72) /\ pc' = 85 /\ io' = Tick(io)
          /\ UNCHANGED <<registers, c, intis, mem>>
      BY <2>1, DoBra
    <3> QED BY <3>1, <3>2
  <2>3. halted' = halted
    <3>1. halted = FALSE
      BY <2>1 DEF At, CpuOK
    <3> QED BY <2>2, <3>1
  <2>4. Passing(85) /\ Inside(x, 4)'
    <3>1. Line(p, 72, "Bra", 7, 7, 2) /\ "Bra" # "Jmp" /\ 2 \in {1, 2, 4}
      BY <2>1 DEF Branch
    <3>2. UNCHANGED <<registers, halted, intis, mem>>
      BY <2>2, <2>3
    <3> QED BY <2>1, <2>2, <1>13, <3>1, <3>2, EchoDecides
  <2>5. pc' = 85 /\ Done(x)'
    BY <1>13, <2>4 DEF Passing
  <2> QED BY <1>4, <2>4, <2>5 DEF Answering
<1>14. CASE pc = 85 /\ Inside(x, 4) /\ Done(x)
  <2>1. /\ Plain(p, 85, "Pop", 2, 4) /\ At(p, 85) /\ 2 \in {0, 1, 2}
        /\ 3 \in 0 .. 3 /\ Inside(x, 3 + 1)
    BY <1>1, <1>2, <1>14 DEF Echo
  <2>2. Passing(85 + 1) /\ Inside(x, 3)' /\ registers'[2] = Stacked(x)[3 + 1]
    BY <2>1, EchoPop
  <2>3. pc' = 86 /\ Done(x)' /\ registers'[2] = Stacked(x)[4]
    BY <1>14, <2>2 DEF Passing
  <2>4. Stacked(x)' = Stacked(x)
    BY DEF Stacked
  <2> QED BY <1>4, <2>2, <2>3, <2>4 DEF Answering
<1>15. CASE pc = 86 /\ Inside(x, 3) /\ registers[2] = Stacked(x)[4] /\ Done(x)
  <2>1. Plain(p, 86, "Clu", 5, 2) /\ At(p, 86) /\ "Clu" \in {"Ceq", "Cls", "Clu"}
    BY <1>1, <1>2, <1>15 DEF Echo
  <2>2. /\ c' = (registers[5] < registers[2]) /\ pc' = 87 /\ io' = Tick(io)
        /\ UNCHANGED <<registers, halted, intis, mem>>
    BY <2>1, DoCompare
  <2>3. c' = x.c
    <3>1. registers[5] = 0 /\ x.c \in BOOLEAN /\ registers[2] = IF x.c THEN 1 ELSE 0
      BY <1>3, <1>15 DEF MachineOK, CpuOK
    <3> QED BY <2>2, <3>1
  <2>4. Passing(87) /\ Inside(x, 3)'
    BY <2>1, <2>2, <1>15, EchoDecides DEF Plain
  <2>5. pc' = 87 /\ Done(x)'
    BY <1>15, <2>4 DEF Passing
  <2> QED BY <1>4, <2>3, <2>4, <2>5 DEF Answering
<1>16. CASE pc = 87 /\ Inside(x, 3) /\ c = x.c /\ Done(x)
  <2>1. /\ Plain(p, 87, "Pop", 2, 4) /\ At(p, 87) /\ 2 \in {0, 1, 2} /\ 2 \in 0 .. 3
        /\ Inside(x, 2 + 1)
    BY <1>1, <1>2, <1>16 DEF Echo
  <2>2. /\ Passing(87 + 1) /\ Inside(x, 2)' /\ c' = c /\ registers'[2] = Stacked(x)[2 + 1]
        /\ \A i \in {0, 1, 2} \ {2} : registers'[i] = registers[i]
    BY <2>1, EchoPop
  <2>3. pc' = 88 /\ Done(x)'
    BY <1>16, <2>2 DEF Passing
  <2>4. Keeps(x, {2})'
    BY <1>3, <1>16, <2>2 DEF Keeps
  <2> QED BY <1>4, <1>16, <2>2, <2>3, <2>4 DEF Answering
<1>17. CASE pc = 88 /\ Inside(x, 2) /\ c = x.c /\ Keeps(x, {2}) /\ Done(x)
  <2>1. /\ Plain(p, 88, "Pop", 1, 4) /\ At(p, 88) /\ 1 \in {0, 1, 2} /\ 1 \in 0 .. 3
        /\ Inside(x, 1 + 1)
    BY <1>1, <1>2, <1>17 DEF Echo
  <2>2. /\ Passing(88 + 1) /\ Inside(x, 1)' /\ c' = c /\ registers'[1] = Stacked(x)[1 + 1]
        /\ \A i \in {0, 1, 2} \ {1} : registers'[i] = registers[i]
    BY <2>1, EchoPop
  <2>3. pc' = 89 /\ Done(x)'
    BY <1>17, <2>2 DEF Passing
  <2>4. Keeps(x, {1, 2})'
    BY <1>3, <1>17, <2>2 DEF Keeps
  <2> QED BY <1>4, <1>17, <2>2, <2>3, <2>4 DEF Answering
<1>18. CASE pc = 89 /\ Inside(x, 1) /\ c = x.c /\ Keeps(x, {1, 2}) /\ Done(x)
  <2>1. /\ Plain(p, 89, "Pop", 0, 4) /\ At(p, 89) /\ 0 \in {0, 1, 2} /\ 0 \in 0 .. 3
        /\ Inside(x, 0 + 1)
    BY <1>1, <1>2, <1>18 DEF Echo
  <2>2. /\ Passing(89 + 1) /\ Inside(x, 0)' /\ c' = c /\ registers'[0] = Stacked(x)[0 + 1]
        /\ \A i \in {0, 1, 2} \ {0} : registers'[i] = registers[i]
    BY <2>1, EchoPop
  <2>3. pc' = 90 /\ Done(x)'
    BY <1>18, <2>2 DEF Passing
  <2>4. Keeps(x, {0, 1, 2})'
    BY <1>3, <1>18, <2>2 DEF Keeps
  <2> QED BY <1>4, <1>18, <2>2, <2>3, <2>4 DEF Answering
<1>19. CASE pc = 90 /\ Inside(x, 0) /\ c = x.c /\ Keeps(x, {0, 1, 2}) /\ Done(x)
  <2>1. Plain(p, 90, "Jmp", 7, 7) /\ At(p, 90)
    BY <1>1, <1>2, <1>19 DEF Echo
  <2> QED BY <2>1, <1>19, EchoReturns
<1> QED BY <1>5, <1>6, <1>7, <1>8, <1>9, <1>10, <1>11, <1>12, <1>13, <1>14, <1>15, <1>16,
           <1>17, <1>18, <1>19 DEF Answering

\* After a '!' it branches to itself, or is halted.
LEMMA StoppedStep ==
  ASSUME MachineOK, MStep, "echo" \in DOMAIN Image, EchoThere, Stopped
  PROVE  EchoThere' /\ program' = program /\ Stopped'
<1> DEFINE p == "echo"
<1>1. CASE halted
  <2>1. program' = program /\ UNCHANGED <<pc, registers, c, halted, intis, mem, io>>
    BY <1>1, HaltedStep
  <2>2. taken' = taken
    BY <2>1 DEF MStep, Observe, Acknowledges
  <2> QED BY <2>1, <2>2 DEF Stopped, EchoThere, Loaded
<1>2. CASE ~ halted
  <2>1. At(p, 91)
    BY <1>2 DEF At, MachineOK, MStep, EchoThere, InterruptPending, Stopped
  <2>2. Branch(p, 91, "Bra", 91)
    BY EchoLines DEF Echo
  <2>3. pc' = 91 /\ io' = Tick(io) /\ UNCHANGED <<registers, c, intis, mem>>
    BY <2>1, <2>2, DoBra
  <2>4. Quiet
    <3>1. DOMAIN io = Fields /\ Steady
      BY <2>3 DEF MachineOK, CpuOK, DevicesOK, Steady
    <3> QED BY <2>1, <2>2, <2>3, <3>1, QuietLine DEF Branch
  <2> QED BY <2>3, <2>4 DEF Stopped, Quiet, EchoThere
<1> QED BY <1>1, <1>2

\* A start at 0.
LEMMA EchoStart ==
  ASSUME Loaded("echo")', pc' = 0, registers' = NewRegisters, ~ halted', ~ intis', io' = NewIo,
         saved' = <<>>, taken' = <<>>
  PROVE  EchoThere' /\ Idle'
<1>1. Waiting(0, registers') /\ io'.int_enable = 0 /\ io'.uart_output = <<>>
  BY DEF NewRegisters, NewIo, Waiting
<1>2. taken' \in Seq(Byte) /\ Len(taken') = 0
  BY EmptySeq
<1>3. Sent(Len(taken), pc)'
  <2>1. <<>> \in Seq(Nat) /\ Len(<<>>) = 0 /\ \A i \in 1 .. 0 : FALSE
    BY EmptySeq
  <2>2. Echoes(0)'
    BY <1>1, <2>1 DEF Echoes
  <2> QED BY <1>1, <1>2, <2>1, <2>2 DEF Sent
<1> QED BY <1>1, <1>2, <1>3 DEF EchoThere, Idle

\* What the host leaves of it.
LEMMA EchoUntouched ==
  ASSUME Untouched, EchoThere
  PROVE  /\ EchoThere' /\ (Idle => Idle') /\ (Stopped => Stopped')
         /\ \A x : Answering(x) => Answering(x)'
<1>1. /\ UNCHANGED <<pc, registers, c, halted, intis, mem, saved, taken>>
      /\ io'.uart_output = io.uart_output /\ io'.int_enable = io.int_enable
      /\ io.uart_rx_ready => io'.uart_rx_ready
      /\ pc # 0 => io'.uart_tx_busy = io.uart_tx_busy
  BY DEF Untouched
<1>2. EchoThere' /\ (Stopped => Stopped')
  BY <1>1 DEF EchoThere, Stopped, Loaded
<1>3. /\ \A k : Sent(Len(taken), k) => Sent(Len(taken), k)'
      /\ \A x : /\ Asking(x) => Asking(x)'
                /\ Owing(x) => Owing(x)'
                /\ Done(x) => Done(x)'
      /\ Latest' = Latest
  BY <1>1, QuietKeeps
<1>4. Idle => Idle'
  <2>1. Sent(Len(taken), pc) => Sent(Len(taken), pc)'
    BY <1>1, <1>3 DEF Sent
  <2> QED BY <1>1, <2>1 DEF Idle
<1>5. ASSUME NEW x, Answering(x) PROVE Answering(x)'
  <2>1. \A n : Inside(x, n) => Inside(x, n)'
    BY <1>1 DEF Inside, Within, Holds
  <2>2. \A R : Keeps(x, R) => Keeps(x, R)'
    BY <1>1 DEF Keeps
  <2>3. Judging(pc, registers, c, io.uart_tx_busy, Latest) =>
          Judging(pc, registers, c, io.uart_tx_busy, Latest)'
    <3>1. Judging(pc, registers, c, io.uart_tx_busy, Latest) => pc # 0
      BY DEF Judging
    <3> QED BY <1>1, <1>3, <3>1
  <2> QED BY <1>1, <1>3, <1>5, <2>1, <2>2, <2>3 DEF Answering
<1> QED BY <1>2, <1>4, <1>5

\* EchoInv is inductive.
LEMMA EchoNext ==
  ASSUME EchoInv, Powered, MachineOK, [MNext]_allVars
  PROVE  EchoInv'
<1> DEFINE p == "echo"
           Goal == EchoThere' /\ (Idle' \/ (\E x : Answering(x))' \/ Stopped')
<1> SUFFICES ASSUME program' = p PROVE Goal
  BY DEF EchoInv
<1>1. CASE \E q \in DOMAIN Image : Boot(q)
  <2>1. /\ Loaded(p)' /\ program = "none"
        /\ UNCHANGED <<pc, registers, c, halted, intis, io, saved, taken>>
    BY <1>1, BootLoads
  <2>2. /\ pc' = 0 /\ registers' = NewRegisters /\ ~ halted' /\ ~ intis' /\ io' = NewIo
        /\ saved' = <<>> /\ taken' = <<>>
    BY <2>1 DEF Powered
  <2> QED BY <2>1, <2>2, EchoStart
<1>2. CASE program = p
  <2>1. /\ p \in DOMAIN Image /\ EchoThere
        /\ Idle \/ (\E x : Answering(x)) \/ Stopped
    BY <1>2, StartAssumption DEF EchoInv, MachineOK
  <2>2. CASE MStep
    <3>1. CASE Idle /\ InterruptPending
      BY <2>1, <2>2, <3>1, EchoEntered
    <3>2. CASE Idle /\ ~ InterruptPending
      BY <2>1, <2>2, <3>2, IdleStep
    <3>3. ASSUME NEW x, Answering(x) PROVE Goal
      <4>1. EchoThere' /\ (Idle' \/ Answering(x)' \/ Stopped')
        BY <2>1, <2>2, <3>3, AnsweringStep
      <4> QED BY <4>1
    <3>4. CASE Stopped
      BY <2>1, <2>2, <3>4, StoppedStep
    <3> QED BY <2>1, <3>1, <3>2, <3>3, <3>4
  <2>3. CASE Untouched
    BY <2>1, <2>3, EchoUntouched
  <2>4. CASE Renewed
    <3>1. /\ pc' = 0 /\ registers' = NewRegisters /\ ~ halted' /\ ~ intis' /\ io' = NewIo
          /\ mem' = mem /\ saved' = <<>> /\ taken' = <<>>
      BY <1>2, <2>1, <2>4, StartAssumption DEF Renewed
    <3>2. Loaded(p)'
      BY <2>1, <3>1 DEF Loaded, EchoThere
    <3> QED BY <3>1, <3>2, EchoStart
  <2>5. CASE UNCHANGED allVars
    <3>1. UNCHANGED <<pc, registers, c, halted, intis, mem, io, saved, taken>>
      BY <2>5 DEF allVars, vars, history
    <3>2. EchoThere' /\ (Idle => Idle') /\ (Stopped => Stopped')
      BY <2>1, <3>1 DEF EchoThere, Idle, Stopped, Loaded, Sent, Visible, Echoes, Prompted
    <3>3. ASSUME NEW x, Answering(x) PROVE Answering(x)'
      <4>1. \A n : Inside(x, n) => Inside(x, n)'
        BY <3>1 DEF Inside, Within, Holds
      <4>2. \A R : Keeps(x, R) => Keeps(x, R)'
        BY <3>1 DEF Keeps
      <4>3. /\ Asking(x) => Asking(x)'
            /\ Owing(x) => Owing(x)'
            /\ Done(x) => Done(x)'
            /\ Latest' = Latest
        BY <3>1, QuietKeeps
      <4> QED BY <3>1, <3>3, <4>1, <4>2, <4>3 DEF Answering
    <3> QED BY <2>1, <3>2, <3>3
  <2> QED BY <1>2, <2>2, <2>3, <2>4, <2>5, <1>1, HostSteps DEF MNext
<1> QED BY <1>1, <1>2, ProgramKept

\* Outside the routine what is out is what it was sent for.
LEMMA EchoShows == EchoInv => EchoInOrder
<1> SUFFICES ASSUME EchoInv, program = "echo", ~ intis, Visible
             PROVE  Echoes(Len(taken)) \/ Prompted(Len(taken))
  BY DEF EchoInOrder
<1>1. ASSUME NEW x PROVE ~ Answering(x)
  BY DEF Answering, Inside, Within
<1>2. Sent(Len(taken), pc)
  BY <1>1 DEF EchoInv, Idle, Stopped
<1> QED BY <1>2 DEF Sent

\* echo.s transmits every character it reads once, in the order they came,
\* letters in upper case, with the prompt somewhere between or not at all:
\* the routine polls before it stores, and an interrupt in the midst of the
\* prompt gives back what the poll had seen.
THEOREM EchoCorrect == ASSUME WordsClosed PROVE MSpec => []EchoInOrder
<1>1. MInit => Powered /\ EchoInv
  BY PoweredInit DEF MInit, EchoInv
<1>2. MachineOK /\ Powered /\ EchoInv /\ [MNext]_allVars => (Powered /\ EchoInv)'
  BY PoweredNext, EchoNext
<1>3. EchoInv => EchoInOrder
  BY EchoShows
<1>4. MSpec => []MachineOK
  BY MachineInvariant
<1> QED BY <1>1, <1>2, <1>3, <1>4, PTL DEF MSpec

-----------------------------------------------------------------------------
(* Returns from interrupts.                                                *)

\* The opcode of a line is the one written.
LEMMA LineCode ==
  ASSUME NEW p, NEW k, NEW o, NEW x, NEW y, NEW w, Line(p, k, o, x, y, w)
  PROVE  Code(p, k) = o
BY DEF Line, Code

\* The only line of interrupt.s that returns is the last of its routine.
LEMMA RoutineCode ==
  ASSUME NEW x, Routine(x), InterruptDigits, pc # 64
  PROVE  pc < Len(Image["interrupt"]) /\ Code("interrupt", pc) # "Jmp"
<1> DEFINE words == {33, 34, 35, 36, 37, 52, 59, 60, 61, 62, 63}
           loads == {42, 48, 50, 57}
<1>1. pc \in words \cup loads \cup {38, 44, 53} /\ pc < 65
  BY DEF Routine
<1>2. \A k \in words : Code("interrupt", k) \in {"Push", "Mov", "AddReg", "Pop", "Clu"}
  BY LineCode DEF InterruptDigits, Plain
<1>3. \A k \in loads : Code("interrupt", k) \in {"Lb", "Lc", "Sb"}
  BY LineCode DEF InterruptDigits, Short
<1>4. \A k \in {38, 44, 53} : Code("interrupt", k) = "La"
  BY LineCode DEF InterruptDigits, Long
<1>5. Len(Image["interrupt"]) = 65
  BY DEF InterruptDigits
<1> HIDE DEF words, loads
<1> QED BY <1>1, <1>2, <1>3, <1>4, <1>5

\* So it is in echo.s.
LEMMA EchoCode ==
  ASSUME Echo, pc # 90, (\E x : Answering(x)) \/ Stopped
  PROVE  pc < Len(Image["echo"]) /\ Code("echo", pc) # "Jmp"
<1> DEFINE words == {30, 31, 32, 33, 34, 41, 44, 49, 54, 57, 60, 67, 80, 85, 86, 87, 88, 89}
           loads == {39, 42, 47, 52, 65, 70, 78, 83}
           branches == {45, 50, 55, 68, 72, 81, 91}
<1>1. pc \in words \cup loads \cup branches \cup {35, 58, 61, 74} /\ pc < 93
  BY DEF Answering, Judging, Stopped
<1>2. \A k \in words : Code("echo", k) \in {"Push", "Mov", "Ceq", "Clu", "And", "Cls", "Pop"}
  BY LineCode DEF Echo, Plain
<1>3. \A k \in loads : Code("echo", k) \in {"Lb", "Lc", "Sb"}
  BY LineCode DEF Echo, Short
<1>4. \A k \in branches : Code("echo", k) \in {"Bra", "Brf", "Brt"}
  BY LineCode DEF Echo, Branch
<1>5. Code("echo", 58) = "Lcu" /\ \A k \in {35, 61, 74} : Code("echo", k) = "La"
  BY LineCode DEF Echo, Unsigned, Long
<1>6. Len(Image["echo"]) = 93
  BY DEF Echo
<1> HIDE DEF words, loads, branches
<1> QED BY <1>1, <1>2, <1>3, <1>4, <1>5, <1>6

\* The programs that poll are never interrupted.
NeverSaved == program \in {"hello_uart", "uart_hello"} => saved = <<>>

\* That is kept by every step.
LEMMA NeverSavedNext ==
  ASSUME NeverSaved, HelloInv, UartInv, Powered, MachineOK, [MNext]_allVars
  PROVE  NeverSaved'
<1> SUFFICES ASSUME program' \in {"hello_uart", "uart_hello"} PROVE saved' = <<>>
  BY DEF NeverSaved
<1>1. CASE \E q \in DOMAIN Image : Boot(q)
  BY <1>1, BootLoads DEF Powered
<1>2. CASE program = program'
  <2>1. saved = <<>> /\ Polling
    BY <1>2 DEF NeverSaved, HelloInv, UartInv
  <2>2. CASE MStep
    <3>1. ~ Interrupt
      BY <2>1 DEF Interrupt, InterruptPending, Polling
    <3> QED BY <2>1, <2>2, <3>1 DEF MStep, Observe
  <2>3. CASE MHost
    BY <1>1, <1>2, <2>1, <2>3, HostSteps DEF Untouched, Renewed
  <2>4. CASE UNCHANGED allVars
    BY <2>1, <2>4 DEF allVars, history
  <2> QED BY <2>2, <2>3, <2>4 DEF MNext
<1> QED BY <1>1, <1>2, ProgramKept

\* The return finds what the interrupt left.
LEMMA DigitsReturn ==
  ASSUME DigitsInv, MachineOK, program = "interrupt", Jmp, ra = 7, saved # <<>>
  PROVE  LET was == Head(saved)
         IN  /\ \A r \in 0 .. 6 : registers'[r] = was.registers[r]
             /\ c' = was.c /\ pc' = was.pc
<1> DEFINE p == "interrupt"
<1>1. p \in DOMAIN Image /\ InterruptDigits /\ Loaded(p)
  BY DigitsLines DEF DigitsInv, MachineOK, Resident
<1>2. PICK x : Routine(x)
  BY DEF DigitsInv, Main
<1>3. ~ halted /\ intis
  BY <1>2 DEF Routine, Frame, Within
<1>4. At(p, pc)
  <2>1. pc \in Nat
    BY WordIs DEF MachineOK, CpuOK
  <2>2. Step
    BY DEF Step, Execute
  <2> QED BY <1>1, <1>3, <2>1, <2>2 DEF At, MachineOK, InterruptPending
<1>5. pc = 64
  BY <1>1, <1>2, <1>4, RoutineCode, CodeRead DEF Jmp
<1>6. Frame(x, 0) /\ Keeps(x, {0, 1, 2})
  BY <1>2, <1>5 DEF Routine
<1> QED BY <1>6, WithinReturn DEF Frame

\* The same of echo.s, where it does not stop.
LEMMA EchoReturn ==
  ASSUME EchoInv, MachineOK, program = "echo", Jmp, ra = 7, saved # <<>>
  PROVE  LET was == Head(saved)
         IN  /\ \A r \in 0 .. 6 : registers'[r] = was.registers[r]
             /\ c' = was.c /\ pc' = was.pc
<1> DEFINE p == "echo"
<1>1. p \in DOMAIN Image /\ Echo /\ Loaded(p)
  BY EchoLines, StartAssumption DEF EchoInv, MachineOK, EchoThere
<1>2. (\E x : Answering(x)) \/ Stopped
  BY DEF EchoInv, Idle
<1>3. ~ halted /\ intis
  <2>1. ~ halted
    BY DEF Jmp, Executing, Fetching
  <2>2. ASSUME NEW x, Answering(x) PROVE intis
    BY <2>2 DEF Answering, Inside, Within
  <2> QED BY <1>2, <2>1, <2>2 DEF Stopped
<1>4. At(p, pc)
  <2>1. pc \in Nat
    BY WordIs DEF MachineOK, CpuOK
  <2>2. Step
    BY DEF Step, Execute
  <2> QED BY <1>1, <1>3, <2>1, <2>2 DEF At, MachineOK, InterruptPending
<1>5. pc = 90
  BY <1>1, <1>2, <1>4, EchoCode, CodeRead DEF Jmp
<1>6. PICK x : Answering(x)
  BY <1>2, <1>5 DEF Stopped
<1>7. Within(x, 0) /\ Keeps(x, {0, 1, 2}) /\ c = x.c
  BY <1>5, <1>6 DEF Answering, Judging, Inside
<1> QED BY <1>7, WithinReturn

\* Interrupts are transparent to interrupt.s and to echo.s, wherever they
\* come: the routine returns to the registers, the flag and the place it was
\* entered from.  (The programs that poll are never interrupted; the
\* hypothesis leaves out those that have no listing here, which enable none.)
THEOREM ReturnsCorrect ==
  ASSUME WordsClosed, DOMAIN Image \subseteq {"hello_uart", "uart_hello", "interrupt", "echo"}
  PROVE  MSpec => Transparent
<1> DEFINE AllInv == Powered /\ HelloInv /\ UartInv /\ DigitsInv /\ EchoInv /\ NeverSaved
<1>1. MInit => AllInv
  BY PoweredInit DEF MInit, HelloInv, UartInv, DigitsInv, EchoInv, NeverSaved
<1>2. MachineOK /\ AllInv /\ [MNext]_allVars => AllInv'
  BY PoweredNext, HelloNext, UartNext, DigitsNext, EchoNext, NeverSavedNext
<1>3. MachineOK /\ AllInv /\ [MNext]_allVars =>
        ((Jmp /\ ra = 7 /\ saved # <<>>) =>
           LET was == Head(saved)
           IN  /\ \A r \in 0 .. 6 : registers'[r] = was.registers[r]
               /\ c' = was.c /\ pc' = was.pc)
  <2>1. SUFFICES ASSUME MachineOK, AllInv, Jmp, ra = 7, saved # <<>>
                 PROVE  LET was == Head(saved)
                        IN  /\ \A r \in 0 .. 6 : registers'[r] = was.registers[r]
                            /\ c' = was.c /\ pc' = was.pc
    OBVIOUS
  <2>2. program \in {"interrupt", "echo"}
    BY <2>1 DEF MachineOK, Powered, NeverSaved
  <2> QED BY <2>1, <2>2, DigitsReturn, EchoReturn
<1>4. MSpec => []MachineOK
  BY MachineInvariant
<1> HIDE DEF AllInv
<1> QED BY <1>1, <1>2, <1>3, <1>4, PTL DEF MSpec, Transparent
================================================================================
