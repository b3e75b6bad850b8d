------------------------------ MODULE Toolchain ------------------------------
(***************************************************************************)
(* What an author of an assembly program relies on: the source goes        *)
(* through Assembler and Encoder, the bytes are loaded with load_program   *)
(* at the address they were assembled for, and Executor::step runs them,   *)
(* as the integration tests of assembler.rs do.  Assembler and Cpu are     *)
(* the modules of that name, unchanged; this module only hands the state   *)
(* of one to the other.                                                    *)
(*                                                                         *)
(* A source is a sequence of lines:                                        *)
(*   [label |-> l]                    "l:"                                 *)
(*   [ins |-> mnemonic, ops |-> <<>>] an instruction, operands of Encoder  *)
(*   [words |-> <<l, ...>>]           ".word l,..."                        *)
(*   [zero |-> n]                     ".zero n"                            *)
(***************************************************************************)
EXTENDS AssemblerProperties, Encoder

CONSTANTS
  SizeOf, BitAnd(_, _), BitOr(_, _), BitXor(_, _),    \* of Cpu
  Sources,        \* the programs
  MaxSteps        \* instructions a run executes

\* What the text of an operand parses to; the target of a branch or a la is a
\* number or a name.
Operand ==
  [reg : STRING] \cup [num : Int] \cup [base : STRING] \cup [off : Int, base : STRING]
    \cup [label : Labels]

Aim == [num : Int] \cup [label : Labels]

SourceText ==
  [label : Labels] \cup [words : WordLines] \cup [zero : ZeroSizes]
    \cup [ins : STRING, ops : Seq(Operand)]

ASSUME SourcesAssumption ==
  \A s \in Sources :
    /\ s \in Seq(SourceText)
    /\ \A i \in DOMAIN s : "ins" \in DOMAIN s[i] =>
         /\ (s[i].ins \in DOMAIN BranchOpcode /\ Len(s[i].ops) > 0) => s[i].ops[1] \in Aim
         /\ (s[i].ins = "la" /\ Len(s[i].ops) > 1) => s[i].ops[2] \in Aim

\* The assembler and the machine have bytes of 8 bits, and the address of the
\* one, cut to the width of the other, is still that address.
ASSUME AddressAssumption == ByteMod = 256 /\ AddrMod % 16777216 = 0

\* The instruction set: the sizes of the opcodes, and what the table says of
\* the byte of a nop and of "sub sp".
ASSUME OpcodeAssumption == DOMAIN SizeOf = {Opcodes[i] : i \in DOMAIN Opcodes}

ASSUME SizeAssumption ==
  /\ {1, 2, 4} \subseteq InstSizes
  /\ \A o \in {"AddReg", "And", "Ceq", "Cls", "Clu", "Jal", "Jmp", "Mov", "Mul", "Or", "Pop",
               "Push", "Shl", "Sra", "Srl", "Sub", "Sxt", "Xor", "Zxt"} :
       o \in DOMAIN SizeOf /\ SizeOf[o] = 1
  /\ \A o \in {"AddImm", "Bra", "Brf", "Brt", "Lb", "Lbu", "Lc", "Lcu", "Lw", "Sb", "Sw"} :
       o \in DOMAIN SizeOf /\ SizeOf[o] = 2
  /\ \A o \in {"La", "SubSp"} : o \in DOMAIN SizeOf /\ SizeOf[o] = 4

ASSUME NopAssumption == DECODE_ROM[255] = 4095

ASSUME SubSpAssumption == \A x \in BytesFor["SubSp"] : (DECODE_ROM[x] \div 8) % 8 = 4

VARIABLES
  source,         \* the program
  stage,          \* "assemble", "enter" (loaded), "run"
  steps,          \* instructions executed
  program,        \* what the host loaded
  cpu_pc, registers, c, halted, intis, mem, io, budget

Machine == INSTANCE Cpu WITH pc <- cpu_pc

\* What Cpu assumes of the tables, and the bound of a run is a number.
ASSUME MachineAssumption == Machine!DecodeAssumption

ASSUME StepsAssumption == MaxSteps \in Nat

asm   == vars
cpu   == <<cpu_pc, registers, c, halted, intis, mem, io, budget>>
state == <<asm, source, stage, steps, program, cpu>>

-----------------------------------------------------------------------------
(* The assembler reads the source.                                         *)

StartUp ==
  /\ Init
  /\ Machine!Init
  /\ source \in Sources
  /\ stage = "assemble" /\ steps = 0 /\ program = <<>>

Start ==
  /\ pc = "idle"
  /\ \E b \in Bases : AssembleAt(b)

\* A target is looked up by the Assembler; the encoder has the opcode.
ReadInstruction(mnemonic, ops) ==
  LET bytes  == Encoded(mnemonic, ops)
      target == ops[IF mnemonic = "la" THEN 2 ELSE 1]
      isBranch == mnemonic \in DOMAIN BranchOpcode
  IN  CASE bytes = Rejected -> BadInstruction
        [] bytes # Rejected /\ isBranch /\ IsLabel(target) ->
             BranchKnown(target.label) \/ BranchForward(target.label)
        [] bytes # Rejected /\ isBranch /\ ~ IsLabel(target) -> BranchNumber(Number)
        [] bytes # Rejected /\ mnemonic = "la" /\ IsLabel(target) ->
             LaKnown(target.label) \/ LaForward(target.label)
        [] bytes # Rejected /\ mnemonic = "la" /\ ~ IsLabel(target) -> LaNumber(Number)
        [] OTHER -> Instruction(Len(bytes))

ReadLine ==
  /\ Len(src) < Len(source)
  /\ LET line == source[Len(src) + 1]
     IN  \/ "label" \in DOMAIN line /\ LabelLine(line.label)
         \/ "words" \in DOMAIN line /\ WordLine(line.words)
         \/ "zero"  \in DOMAIN line /\ Zero(line.zero)
         \/ "ins"   \in DOMAIN line /\ ReadInstruction(line.ins, line.ops)

Assemble ==
  /\ stage = "assemble" /\ pc # "done"
  /\ \/ Start
     \/ ReadLine
     \/ WordKnown \/ WordForward
     \/ Len(src) = Len(source) /\ EndOfSource
     \/ SecondPass
  /\ UNCHANGED <<source, stage, steps, program, cpu>>

-----------------------------------------------------------------------------
(* The host loads the result and runs it.                                  *)

IsInstruction(i) == "ins" \in DOMAIN source[i]

EmittedBy(i) == Encoded(source[i].ins, source[i].ops)

\* The bytes of the result: those no label determines are the encoder's.
Image ==
  [p \in DOMAIN output |->
     IF output[p] # Opaque THEN output[p]
     ELSE LET i == CHOOSE j \in DOMAIN src :
                     IsInstruction(j) /\ src[j].pos < p /\ p <= src[j].pos + src[j].n
          IN  EmittedBy(i)[p - src[i].pos]]

Load ==
  /\ stage = "assemble" /\ pc = "done"
  /\ errors = <<>>
  /\ program' = Image
  /\ Machine!LoadProgram(base_address, program')
  /\ stage' = "enter"
  /\ UNCHANGED <<asm, source, steps>>

\* The lines of code: the address and the size of each.
Code == {i \in DOMAIN src : IsInstruction(i)}
EndOf(i) == src[i].at + src[i].n

\* The host starts the machine at one of them.
Enter ==
  /\ stage = "enter"
  /\ \E i \in Code : Machine!SetPc(src[i].at)
  /\ stage' = "run"
  /\ UNCHANGED <<asm, source, steps, program>>

\* The program in memory is the one that was loaded.
Intact == \A p \in DOMAIN program : mem[base_address + p - 1] = program[p]

OnCode == \E i \in Code : src[i].at <= cpu_pc /\ cpu_pc < EndOf(i)

\* A run is followed while it stays in code that is as it was loaded.
Running ==
  /\ stage = "run" /\ ~ halted
  /\ Intact /\ OnCode

Execute ==
  /\ Running
  /\ steps < MaxSteps
  /\ Machine!Step
  /\ steps' = steps + 1
  /\ UNCHANGED <<asm, source, stage, program>>

Advance == Assemble \/ Load \/ Enter \/ Execute

System == StartUp /\ [][Advance]_state

-----------------------------------------------------------------------------
(* What the author wrote, read off the source text.                        *)

Names(o) == CASE "reg" \in DOMAIN o -> <<RegisterCode[o.reg]>>
              [] "base" \in DOMAIN o -> <<RegisterCode[o.base]>>
              [] OTHER -> <<>>

Constants(o) == CASE "num" \in DOMAIN o -> {o.num}
                  [] "off" \in DOMAIN o -> {o.off}
                  [] OTHER -> {}

OperandsOf(i) == source[i].ops
Arity(i) == IF source[i].ins \in DOMAIN BranchOpcode \cup {"push", "pop", "jmp"} THEN 1 ELSE 2

\* The registers an instruction names, in the order it names them.
RegistersOf(i) ==
  IF Arity(i) = 1 THEN Names(OperandsOf(i)[1])
  ELSE Names(OperandsOf(i)[1]) \o Names(OperandsOf(i)[2])

\* The operations a mnemonic may mean, by its name in the instruction set.
Denotes ==
  [push |-> {"Push"}, pop |-> {"Pop"}, mov |-> {"Mov"}, add |-> {"AddReg", "AddImm"},
   sub |-> {"Sub", "SubSp"}, mul |-> {"Mul"}, and |-> {"And"}, or |-> {"Or"}, xor |-> {"Xor"},
   shl |-> {"Shl"}, sra |-> {"Sra"}, srl |-> {"Srl"}, ceq |-> {"Ceq"}, cls |-> {"Cls"},
   clu |-> {"Clu"}, bra |-> {"Bra"}, brf |-> {"Brf"}, brt |-> {"Brt"}, jmp |-> {"Jmp"},
   jal |-> {"Jal"}, la |-> {"La"}, lc |-> {"Lc"}, lcu |-> {"Lcu"}, lb |-> {"Lb"},
   lbu |-> {"Lbu"}, lw |-> {"Lw"}, sb |-> {"Sb"}, sw |-> {"Sw"}, sxt |-> {"Sxt"},
   zxt |-> {"Zxt"}]

\* The constant the machine takes from the bytes at its pc.
ConstantUsed ==
  CASE Machine!op \in {"La", "SubSp"} -> Machine!imm24
    [] Machine!op = "Lcu"             -> Machine!imm8
    [] OTHER                          -> Machine!SignExtend8(Machine!imm8)

\* A constant that the field of its instruction can hold.
Representable(i, v) ==
  \/ source[i].ins \in {"la", "sub", "lc", "lcu"}
  \/ -128 <= v /\ v <= 127

ReadsAs(i) ==
  /\ Machine!op \in Denotes[source[i].ins]
  /\ SubSeq(<<Machine!ra, Machine!rb>>, 1, Len(RegistersOf(i))) = RegistersOf(i)
  /\ \A v \in Constants(OperandsOf(i)[Arity(i)]) :
       Representable(i, v) => ConstantUsed = Machine!Mask(v)

-----------------------------------------------------------------------------
(* Properties.                                                             *)

\* Types of the state this module adds; the components have their own.
ToolchainTypeOK ==
  /\ stage \in {"assemble", "enter", "run"}
  /\ steps \in 0 .. MaxSteps
  /\ cpu_pc \in Machine!Word
  /\ registers \in [0 .. 7 -> Machine!Word]
  /\ \A a \in DOMAIN mem : Machine!IsRam(a) /\ mem[a] \in Machine!Byte

\* However control got there, the machine is never inside an instruction:
\* its pc is the address of a line, and what it decodes there is that line,
\* with the operation, the registers and the constant the author wrote.  It
\* fails if an encoder, the tables, a size or a label's address is wrong,
\* because the machine then executes operands or misses its target.
Lockstep ==
  Running =>
    \E i \in Code :
      /\ cpu_pc = src[i].at
      /\ IF source[i].ins = "nop" THEN Machine!Fetched = 255 ELSE ReadsAs(i)

\* The machine stops only where the source says so: on a bra to itself, or
\* on a zero byte at address 0, where add r0,r0 stops it too.
StopsRightly ==
  [][(Running /\ halted') =>
       \/ \E i \in Code :
            /\ cpu_pc = src[i].at /\ source[i].ins = "bra"
            /\ LET target == OperandsOf(i)[1]
               IN  IF IsLabel(target) THEN Meaning(i, target.label) = src[i].at
                   ELSE target.num % 256 = 252
       \/ cpu_pc = 0 /\ mem[0] = 0]_state

\* Where control goes from line i: to the label of a branch that is taken or
\* of a la into ir, to the register of a jmp or jal, otherwise to the next line.
Taken(i) == source[i].ins = "bra" \/ source[i].ins = (IF c THEN "brt" ELSE "brf")

Follows(i) ==
  LET ins == source[i].ins
      ops == OperandsOf(i)
  IN  /\ ins \in DOMAIN BranchOpcode /\ Taken(i) /\ IsLabel(ops[1]) =>
           cpu_pc' = Meaning(i, ops[1].label)
      /\ ins \in DOMAIN BranchOpcode /\ ~ Taken(i) => cpu_pc' = EndOf(i)
      /\ ins = "la" /\ IsLabel(ops[2]) =>
           IF ops[1].reg = "ir" THEN cpu_pc' = Meaning(i, ops[2].label)
           ELSE /\ registers'[RegisterCode[ops[1].reg]] = Meaning(i, ops[2].label)
                /\ cpu_pc' = EndOf(i)
      /\ ins = "jmp" => cpu_pc' = registers[RegisterCode[ops[1].base]]
      /\ ins = "jal" => /\ cpu_pc' = registers[RegisterCode[ops[2].base]]
                        /\ registers'[RegisterCode[ops[1].reg]] = EndOf(i)
      /\ ins \notin DOMAIN BranchOpcode \cup {"la", "jmp", "jal"} => cpu_pc' = EndOf(i)

\* Control flows as the source reads: the displacement and the address the
\* two passes computed, undone by the machine's pipeline base, lead to the
\* line of the label, whichever way it was defined and at any base.
Flow ==
  [][(Running /\ cpu' # cpu /\ ~ halted') =>
       \A i \in Code : cpu_pc = src[i].at => Follows(i)]_state
=============================================================================
