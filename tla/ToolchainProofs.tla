--------------------------- MODULE ToolchainProofs ---------------------------
(***************************************************************************)
(* The assembler and the machine agree on every program: what the machine  *)
(* decodes at its pc is the line the author wrote there, and control goes  *)
(* from line to line as the source reads.                                  *)
(*                                                                         *)
(* The argument runs along the toolchain.  The encoders invert the table   *)
(* of the decode ROM (Encodes), so every accepted line is bytes that read  *)
(* as the line.  The assembler within the toolchain is the one of          *)
(* Assembler.tla (AssemblerCorrect), whose links are right                 *)
(* (LinkedCorrect), and what it has read is the source, line by line,      *)
(* placed in order in the output (History). The loader puts that output at *)
(* the base, and the machine, which no interrupt reaches, only changes RAM *)
(* by its stores (Machines).  While the program is intact every line's     *)
(* bytes are therefore those at its address (LineInMemory), the machine    *)
(* decodes the line (DecodedAt), and one step of it goes where the line    *)
(* says (Follows, Landing).                                                *)
(***************************************************************************)
EXTENDS Toolchain, LinkProofs, WellFoundedInduction

-----------------------------------------------------------------------------
(* What the encoders emit.                                                 *)

\* What the table says of an instruction byte.
OpOf(x) == Opcodes[1 + DECODE_ROM[x] \div 64]
RaOf(x) == (DECODE_ROM[x] \div 8) % 8
RbOf(x) == DECODE_ROM[x] % 8

\* The constant in the bytes of an instruction, as the machine takes it.
ConstantIn(b, o) ==
  CASE o \in {"La", "SubSp"} -> Machine!WordOf(b[2], b[3], b[4])
    [] o = "Lcu"             -> b[2]
    [] OTHER                 -> Machine!SignExtend8(b[2])

\* The bytes of the instructions but nop.
InstructionByte == 0 .. 254

\* The byte x decodes to an instruction o over these registers.
Decodes(x, o, ras, rbs) ==
  DECODE_ROM[x] # 4095 /\ OpOf(x) = o /\ RaOf(x) \in ras /\ RbOf(x) \in rbs

\* What the assumptions say of the instruction byte of an opcode.
LEMMA OpcodeBytes ==
  ASSUME NEW o \in DOMAIN SizeOf
  PROVE  BytesFor[o] = {y \in 0 .. 255 : DECODE_ROM[y] # 4095 /\ Opcodes[1 + DECODE_ROM[y] \div 64] = o}
BY OpcodeAssumption DEF BytesFor

\* What an encoder emits begins with the byte of an opcode over the registers
\* it was given, and the operand's bytes follow.
LEMMA AssembledByte ==
  ASSUME NEW o \in DOMAIN SizeOf, NEW ras, NEW rbs, NEW operand,
         Assembled(o, ras, rbs, operand) # Rejected
  PROVE  \E x \in InstructionByte : /\ Decodes(x, o, ras, rbs)
                             /\ Assembled(o, ras, rbs, operand) = <<x>> \o operand
<1> DEFINE bytes == {x \in BytesFor[o] : /\ (DECODE_ROM[x] \div 8) % 8 \in ras
                                         /\ DECODE_ROM[x] % 8 \in rbs}
<1>1. bytes # {} /\ Assembled(o, ras, rbs, operand) = <<CHOOSE x \in bytes : TRUE>> \o operand
  BY DEF Assembled
<1>2. PICK x \in bytes : x = CHOOSE y \in bytes : TRUE
  BY <1>1
<1>3. BytesFor[o] = {y \in 0 .. 255 : DECODE_ROM[y] # 4095 /\ Opcodes[1 + DECODE_ROM[y] \div 64] = o}
  BY OpcodeBytes
<1>4. x \in 0 .. 255 /\ Decodes(x, o, ras, rbs)
  <2>1. x \in BytesFor[o] /\ RaOf(x) \in ras /\ RbOf(x) \in rbs
    BY <1>2 DEF RaOf, RbOf
  <2>2. x \in 0 .. 255 /\ DECODE_ROM[x] # 4095 /\ OpOf(x) = o
    BY <1>3, <2>1 DEF OpOf
  <2> QED BY <2>1, <2>2 DEF Decodes
<1>5. x # 255
  BY <1>4, NopAssumption DEF Decodes
<1>6. x \in InstructionByte
  BY <1>4, <1>5 DEF InstructionByte
<1>7. Assembled(o, ras, rbs, operand) = <<x>> \o operand
  BY <1>1, <1>2, Zenon
<1> QED BY <1>4, <1>6, <1>7

\* sub sp says which register it subtracts from.
LEMMA SubSpRegister ==
  ASSUME NEW x \in InstructionByte, NEW ras, NEW rbs, Decodes(x, "SubSp", ras, rbs)
  PROVE  RaOf(x) = 4
<1>1. "SubSp" \in DOMAIN SizeOf
  BY SizeAssumption
<1>2. x \in BytesFor["SubSp"]
  BY <1>1, OpcodeBytes DEF Decodes, OpOf, InstructionByte
<1> QED BY <1>2, SubSpAssumption DEF RaOf

\* A byte put before none or one.
LEMMA ShortBytes ==
  ASSUME NEW x \in Int, NEW y \in Int
  PROVE  /\ <<x>> \o <<>> = <<x>>
         /\ <<x>> \o <<y>> = <<x, y>>
<1>1. <<x>> \o <<>> = <<x>>
  OBVIOUS
<1>2. ASSUME NEW s \in Seq(Int), NEW t \in Seq(Int), Len(s) = 2, Len(t) = 2, s[1] = t[1], s[2] = t[2]
      PROVE  s = t
  <2>1. \A j \in 1 .. Len(s) : s[j] = t[j]
    BY <1>2
  <2> QED BY <1>2, <2>1, SeqEqual
<1>3. <<x>> \o <<y>> \in Seq(Int) /\ <<x, y>> \in Seq(Int)
  OBVIOUS
<1>4. Len(<<x>> \o <<y>>) = 2 /\ (<<x>> \o <<y>>)[1] = x /\ (<<x>> \o <<y>>)[2] = y
  OBVIOUS
<1>5. Len(<<x, y>>) = 2 /\ <<x, y>>[1] = x /\ <<x, y>>[2] = y
  OBVIOUS
<1>6. <<x>> \o <<y>> = <<x, y>>
  BY <1>2, <1>3, <1>4, <1>5
<1> QED BY <1>1, <1>6

\* A byte put before three.
LEMMA FourBytes ==
  ASSUME NEW x \in Int, NEW y \in Int, NEW z \in Int, NEW w \in Int
  PROVE  <<x>> \o <<y, z, w>> = <<x, y, z, w>>
<1>1. ASSUME NEW s \in Seq(Int), NEW t \in Seq(Int), Len(s) = 4, Len(t) = 4,
             s[1] = t[1], s[2] = t[2], s[3] = t[3], s[4] = t[4]
      PROVE  s = t
  <2>1. \A j \in 1 .. Len(s) : s[j] = t[j]
    BY <1>1
  <2> QED BY <1>1, <2>1, SeqEqual
<1>2. <<x>> \o <<y, z, w>> \in Seq(Int) /\ <<x, y, z, w>> \in Seq(Int)
  OBVIOUS
<1>3. Len(<<x>> \o <<y, z, w>>) = 4
  OBVIOUS
<1>4. (<<x>> \o <<y, z, w>>)[1] = x /\ (<<x>> \o <<y, z, w>>)[2] = y
  OBVIOUS
<1>5. (<<x>> \o <<y, z, w>>)[3] = z /\ (<<x>> \o <<y, z, w>>)[4] = w
  OBVIOUS
<1>6. /\ Len(<<x, y, z, w>>) = 4 /\ <<x, y, z, w>>[1] = x /\ <<x, y, z, w>>[2] = y
      /\ <<x, y, z, w>>[3] = z /\ <<x, y, z, w>>[4] = w
  OBVIOUS
<1> QED BY <1>1, <1>2, <1>3, <1>4, <1>5, <1>6

\* The constant survives its field: 24 bits always, 8 unsigned bits from 0 to
\* 255, 8 signed bits from -128 to 127.
LEMMA FieldValues ==
  ASSUME NEW v \in Int
  PROVE  /\ Low8(v) \in Machine!Byte
         /\ \A k \in 1 .. 3 : Bytes24(v)[k] \in Machine!Byte
         /\ Machine!WordOf(Bytes24(v)[1], Bytes24(v)[2], Bytes24(v)[3]) = Machine!Mask(v)
         /\ v \in 0 .. 255 => Low8(v) = Machine!Mask(v)
         /\ v \in -128 .. 127 => Machine!SignExtend8(Low8(v)) = Machine!Mask(v)
<1>1. Low8(v) \in Machine!Byte
  BY SMT DEF Low8, Machine!Mask, Machine!Byte
<1>2. \A k \in 1 .. 3 : Bytes24(v)[k] \in Machine!Byte
  BY DEF Bytes24, Machine!Byte
<1>3. Machine!WordOf(Bytes24(v)[1], Bytes24(v)[2], Bytes24(v)[3]) = Machine!Mask(v)
  BY SMT DEF Bytes24, Machine!WordOf, Machine!Mask
<1>4. v \in 0 .. 255 => Low8(v) = Machine!Mask(v)
  BY SMT DEF Low8, Machine!Mask
<1>5. v \in -128 .. 127 => Machine!SignExtend8(Low8(v)) = Machine!Mask(v)
  BY SMT DEF Low8, Machine!SignExtend8, Machine!Mask
<1> QED BY <1>1, <1>2, <1>3, <1>4, <1>5

\* The registers an instruction names are the first ones of the byte's two.
LEMMA SubPair ==
  ASSUME NEW a, NEW b
  PROVE  /\ SubSeq(<<a, b>>, 1, Len(<<>>)) = <<>>
         /\ SubSeq(<<a, b>>, 1, Len(<<a>>)) = <<a>>
         /\ SubSeq(<<a, b>>, 1, Len(<<a>> \o <<>>)) = <<a>> \o <<>>
         /\ SubSeq(<<a, b>>, 1, Len(<<a>> \o <<b>>)) = <<a>> \o <<b>>
<1>1. SubSeq(<<a, b>>, 1, 0) = <<>> /\ Len(<<>>) = 0
  OBVIOUS
<1>2. PICK s, S : s = <<a, b>> /\ S = {a, b}
  OBVIOUS
<1>3. s \in Seq(S) /\ Len(s) = 2 /\ s[1] = a /\ s[2] = b
  BY <1>2
<1>9. \A j \in 1 .. 2 : s[j] \in S
  BY <1>2, <1>3
<1>4. SubSeq(s, 1, 1) = <<a>>
  <2>4. \A j \in 1 .. 1 : s[j] \in S
    BY <1>9
  <2>5. /\ SubSeq(s, 1, 1) \in Seq(S)
        /\ Len(SubSeq(s, 1, 1)) = IF 1 <= 1 THEN 1 - 1 + 1 ELSE 0
        /\ \A j \in 1 .. 1 - 1 + 1 : SubSeq(s, 1, 1)[j] = s[1 + j - 1]
    BY <2>4, SubSeqProperties, SMT
  <2>1. SubSeq(s, 1, 1) \in Seq(S) /\ Len(SubSeq(s, 1, 1)) = 1 /\ SubSeq(s, 1, 1)[1] = a
    BY <1>3, <2>5
  <2>2. <<a>> \in Seq(S) /\ Len(<<a>>) = 1 /\ <<a>>[1] = a
    BY <1>2
  <2>3. \A j \in 1 .. 1 : SubSeq(s, 1, 1)[j] = <<a>>[j]
    BY <2>1, <2>2
  <2> QED BY <2>1, <2>2, <2>3, SeqEqual
<1>5. SubSeq(s, 1, 2) = s
  <2>1. SubSeq(s, 1, 2) \in Seq(S) /\ Len(SubSeq(s, 1, 2)) = 2
        /\ \A j \in 1 .. 2 : SubSeq(s, 1, 2)[j] = s[j]
    <3>1. /\ SubSeq(s, 1, 2) \in Seq(S)
          /\ Len(SubSeq(s, 1, 2)) = IF 1 <= 2 THEN 2 - 1 + 1 ELSE 0
          /\ \A j \in 1 .. 2 - 1 + 1 : SubSeq(s, 1, 2)[j] = s[1 + j - 1]
      BY <1>9, SubSeqProperties, SMT
    <3>2. \A j \in 1 .. 2 : j \in 1 .. 2 - 1 + 1 /\ 1 + j - 1 = j
      OBVIOUS
    <3>3. \A j \in 1 .. 2 : SubSeq(s, 1, 2)[j] = s[j]
      BY <3>1, <3>2, Zenon
    <3> QED BY <3>1, <3>3
  <2> QED BY <1>3, <2>1, SeqEqual
<1>6. Len(<<a>>) = 1 /\ <<a>> \o <<>> = <<a>>
  OBVIOUS
<1>7. <<a>> \o <<b>> = s /\ Len(s) = 2
  <2>1. <<a>> \o <<b>> \in Seq(S)
    BY <1>2
  <2>2. Len(<<a>> \o <<b>>) = 2 /\ (<<a>> \o <<b>>)[1] = a /\ (<<a>> \o <<b>>)[2] = b
    OBVIOUS
  <2>3. \A j \in 1 .. 2 : (<<a>> \o <<b>>)[j] = s[j]
    BY <1>3, <2>2
  <2> QED BY <1>3, <2>1, <2>2, <2>3, SeqEqual
<1>8. SubSeq(<<a, b>>, 1, 1) = <<a>> /\ SubSeq(<<a, b>>, 1, 2) = s
  BY <1>2, <1>4, <1>5, Zenon
<1> QED BY <1>1, <1>6, <1>7, <1>8, Zenon

-----------------------------------------------------------------------------
(* Operands.                                                               *)

\* An operand is of one of five kinds, told apart by its fields.
LEMMA OperandKinds ==
  ASSUME NEW o \in Operand
  PROVE  \/ DOMAIN o = {"reg"}
         \/ DOMAIN o = {"num"} /\ o.num \in Int
         \/ DOMAIN o = {"base"}
         \/ DOMAIN o = {"off", "base"} /\ o.off \in Int
         \/ DOMAIN o = {"label"} /\ o.label \in Labels
BY DEF Operand

\* A register an encoder accepts is the one the operand names.
LEMMA RegisterNamed ==
  ASSUME NEW o \in Operand, NEW r \in Register(o)
  PROVE  ~ IsNumber(o) /\ ~ IsLabel(o) /\ Names(o) = <<r>> /\ Constants(o) = {}
<1>1. "reg" \in DOMAIN o
  BY DEF Register
<1>2. DOMAIN o = {"reg"}
  BY <1>1, OperandKinds
<1>3. o.reg \in DOMAIN RegisterCode /\ r = RegisterCode[o.reg]
  BY <1>1 DEF Register, RegisterOf
<1>4. "num" \notin DOMAIN o /\ "off" \notin DOMAIN o /\ "label" \notin DOMAIN o /\ "base" \notin DOMAIN o
  BY <1>2
<1>5. ~ IsNumber(o) /\ ~ IsLabel(o)
  BY <1>4 DEF IsNumber, IsLabel
<1>6. Names(o) = <<r>>
  BY <1>1, <1>3, <1>4 DEF Names
<1>7. Constants(o) = {}
  BY <1>4 DEF Constants
<1> QED BY <1>5, <1>6, <1>7

\* The base register an encoder accepts is the one the operand names.
LEMMA BaseNamed ==
  ASSUME NEW o \in Operand, IsBase(o), NEW r \in RegisterOf(o.base)
  PROVE  Names(o) = <<r>> /\ Constants(o) = IF "off" \in DOMAIN o THEN {o.off} ELSE {}
<1>1. "base" \in DOMAIN o
  BY DEF IsBase
<1>2. "reg" \notin DOMAIN o /\ "num" \notin DOMAIN o
  BY <1>1, OperandKinds
<1>3. r = RegisterCode[o.base]
  BY DEF RegisterOf
<1> QED BY <1>1, <1>2, <1>3 DEF Names, Constants

\* A number names no register, and is the constant.
LEMMA NumberNamed ==
  ASSUME NEW o \in Operand, IsNumber(o)
  PROVE  o.num \in Int /\ Names(o) = <<>> /\ Constants(o) = {o.num}
<1>1. DOMAIN o = {"num"} /\ o.num \in Int
  BY OperandKinds DEF IsNumber
<1> QED BY <1>1 DEF Names, Constants

-----------------------------------------------------------------------------
(* One lemma for each encoder.                                             *)

\* The registers and the constants of an instruction, of its text.
ArityOf(m)       == IF m \in DOMAIN BranchOpcode \cup {"push", "pop", "jmp"} THEN 1 ELSE 2
RegistersIn(m, ops) ==
  IF ArityOf(m) = 1 THEN Names(ops[1]) ELSE Names(ops[1]) \o Names(ops[2])
Held(m, v)    == m \in {"la", "sub", "lc", "lcu"} \/ (-128 <= v /\ v <= 127)

\* An instruction of one byte has no constant.
Short(o, constants) == SizeOf[o] = 1 => constants = {}

\* The bytes b are the instruction o, of the byte x, that the text reads as.
ReadsAsOne(x, o, b, m, ops) ==
  /\ b[1] = x /\ DECODE_ROM[x] # 4095 /\ OpOf(x) = o
  /\ Len(b) = SizeOf[o]
  /\ b \in Seq(Machine!Byte)
  /\ SubSeq(<<RaOf(x), RbOf(x)>>, 1, Len(RegistersIn(m, ops))) = RegistersIn(m, ops)
  /\ \A v \in Constants(ops[ArityOf(m)]) : Held(m, v) => ConstantIn(b, o) = Machine!Mask(v)
  /\ Short(o, Constants(ops[ArityOf(m)]))

Reads(b, m, ops) ==
  \E x \in InstructionByte : \E o \in Denotes[m] : ReadsAsOne(x, o, b, m, ops)

\* Bytes with no operand, one byte, three bytes.
LEMMA Operand0 ==
  ASSUME NEW o \in DOMAIN SizeOf, NEW ras, NEW rbs,
         Assembled(o, ras, rbs, <<>>) # Rejected
  PROVE  \E x \in InstructionByte :
           Decodes(x, o, ras, rbs) /\ Assembled(o, ras, rbs, <<>>) = <<x>>
<1>1. PICK x \in InstructionByte : /\ Decodes(x, o, ras, rbs)
                                  /\ Assembled(o, ras, rbs, <<>>) = <<x>> \o <<>>
  BY AssembledByte, Zenon
<1>2. x \in Int
  BY DEF InstructionByte, Machine!Byte
<1>3. <<x>> \o <<>> = <<x>>
  BY <1>2, ShortBytes
<1> QED BY <1>1, <1>3, Zenon

\* Two-byte instructions.
LEMMA Operand1 ==
  ASSUME NEW o \in DOMAIN SizeOf, NEW ras, NEW rbs, NEW y \in Machine!Byte,
         Assembled(o, ras, rbs, <<y>>) # Rejected
  PROVE  \E x \in InstructionByte :
           Decodes(x, o, ras, rbs) /\ Assembled(o, ras, rbs, <<y>>) = <<x, y>>
<1>1. PICK x \in InstructionByte : /\ Decodes(x, o, ras, rbs)
                                  /\ Assembled(o, ras, rbs, <<y>>) = <<x>> \o <<y>>
  BY AssembledByte, Zenon
<1>2. x \in Int /\ y \in Int
  BY DEF InstructionByte, Machine!Byte
<1>3. <<x>> \o <<y>> = <<x, y>>
  BY <1>2, ShortBytes
<1> QED BY <1>1, <1>3, Zenon

\* Four-byte instructions.
LEMMA Operand3 ==
  ASSUME NEW o \in DOMAIN SizeOf, NEW ras, NEW rbs,
         NEW y \in Machine!Byte, NEW z \in Machine!Byte, NEW w \in Machine!Byte,
         Assembled(o, ras, rbs, <<y, z, w>>) # Rejected
  PROVE  \E x \in InstructionByte :
           Decodes(x, o, ras, rbs) /\ Assembled(o, ras, rbs, <<y, z, w>>) = <<x, y, z, w>>
<1>1. PICK x \in InstructionByte : /\ Decodes(x, o, ras, rbs)
                                  /\ Assembled(o, ras, rbs, <<y, z, w>>) = <<x>> \o <<y, z, w>>
  BY AssembledByte, Zenon
<1>2. x \in Int /\ y \in Int /\ z \in Int /\ w \in Int
  BY DEF InstructionByte, Machine!Byte
<1>3. <<x>> \o <<y, z, w>> = <<x, y, z, w>>
  BY <1>2, FourBytes
<1> QED BY <1>1, <1>3, Zenon

\* The sizes of the opcodes the encoders emit.
LEMMA Sizes ==
  /\ \A o \in {"AddReg", "And", "Ceq", "Cls", "Clu", "Jal", "Jmp", "Mov", "Mul", "Or", "Pop",
               "Push", "Shl", "Sra", "Srl", "Sub", "Sxt", "Xor", "Zxt"} :
       o \in DOMAIN SizeOf /\ SizeOf[o] = 1
  /\ \A o \in {"AddImm", "Bra", "Brf", "Brt", "Lb", "Lbu", "Lc", "Lcu", "Lw", "Sb", "Sw"} :
       o \in DOMAIN SizeOf /\ SizeOf[o] = 2
  /\ \A o \in {"La", "SubSp"} : o \in DOMAIN SizeOf /\ SizeOf[o] = 4
BY SizeAssumption

\* What it takes for bytes to read as the instruction.
LEMMA ReadsIntro ==
  ASSUME NEW m, NEW o \in Denotes[m], NEW ops, NEW x \in InstructionByte, NEW ras, NEW rbs,
         Decodes(x, o, ras, rbs),
         NEW b \in Seq(Machine!Byte), b[1] = x, Len(b) = SizeOf[o],
         SubSeq(<<RaOf(x), RbOf(x)>>, 1, Len(RegistersIn(m, ops))) = RegistersIn(m, ops),
         \A v \in Constants(ops[ArityOf(m)]) : Held(m, v) => ConstantIn(b, o) = Machine!Mask(v),
         Short(o, Constants(ops[ArityOf(m)]))
  PROVE  Reads(b, m, ops)
<1>1. DECODE_ROM[x] # 4095 /\ OpOf(x) = o
  BY DEF Decodes
<1>2. ReadsAsOne(x, o, b, m, ops)
  BY <1>1, SMTT(30) DEF ReadsAsOne
<1> QED BY <1>2 DEF Reads

\* The first operand, and the one after it.
LEMMA OperandTypes ==
  ASSUME NEW ops \in Seq(Operand)
  PROVE  /\ Len(ops) >= 1 => ops[1] \in Operand
         /\ Len(ops) >= 2 => ops[1] \in Operand /\ ops[2] \in Operand
OBVIOUS

\* An instruction of one byte.
LEMMA OneByte ==
  ASSUME NEW x \in InstructionByte, NEW b, b = <<x>>
  PROVE  b \in Seq(Machine!Byte) /\ Len(b) = 1 /\ b[1] = x
BY DEF InstructionByte, Machine!Byte

\* An instruction of two bytes.
LEMMA TwoBytes ==
  ASSUME NEW x \in InstructionByte, NEW y \in Machine!Byte, NEW b, b = <<x, y>>
  PROVE  b \in Seq(Machine!Byte) /\ Len(b) = 2 /\ b[1] = x /\ b[2] = y
<1>1. b \in Seq(Machine!Byte)
  BY DEF InstructionByte, Machine!Byte
<1>2. Len(b) = 2 /\ b[1] = x /\ b[2] = y
  OBVIOUS
<1> QED BY <1>1, <1>2

\* An instruction of four bytes.
LEMMA InstructionBytes ==
  ASSUME NEW x \in InstructionByte, NEW y \in Machine!Byte, NEW z \in Machine!Byte, NEW w \in Machine!Byte,
         NEW b, b = <<x, y, z, w>>
  PROVE  b \in Seq(Machine!Byte) /\ Len(b) = 4 /\ b[1] = x /\ b[2] = y /\ b[3] = z /\ b[4] = w
<1>1. b \in Seq(Machine!Byte)
  BY DEF InstructionByte, Machine!Byte
<1>2. Len(b) = 4 /\ b[1] = x /\ b[2] = y /\ b[3] = z /\ b[4] = w
  OBVIOUS
<1> QED BY <1>1, <1>2

\* Which of the three fields the machine takes the constant from.
LEMMA ConstantOf ==
  ASSUME NEW b, NEW o
  PROVE  /\ o \in {"La", "SubSp"} => ConstantIn(b, o) = Machine!WordOf(b[2], b[3], b[4])
         /\ o = "Lcu" => ConstantIn(b, o) = b[2]
         /\ o \notin {"La", "SubSp", "Lcu"} => ConstantIn(b, o) = Machine!SignExtend8(b[2])
BY DEF ConstantIn

\* An instruction of two registers.
LEMMA PairReads ==
  ASSUME NEW m, NEW o \in Denotes[m], NEW ops \in Seq(Operand), ArityOf(m) = 2,
         o \in DOMAIN SizeOf, SizeOf[o] = 1,
         NEW b, b = EncodePair(o, ops), b # Rejected
  PROVE  Reads(b, m, ops)
<1>1. Len(ops) >= 2 /\ b = Assembled(o, Register(ops[1]), Register(ops[2]), <<>>)
  BY DEF EncodePair
<1>2. PICK o1, o2 : o1 = ops[1] /\ o2 = ops[2]
  OBVIOUS
<1>3. o1 \in Operand /\ o2 \in Operand
  BY <1>1, <1>2, ElementOfSeq, LenProperties
<1>4. b = Assembled(o, Register(o1), Register(o2), <<>>)
  BY <1>1, <1>2, Zenon
<1>5. PICK x \in InstructionByte : Decodes(x, o, Register(o1), Register(o2)) /\ b = <<x>>
  <2>1. Assembled(o, Register(o1), Register(o2), <<>>) # Rejected
    BY <1>4, Zenon
  <2>2. PICK x \in InstructionByte : /\ Decodes(x, o, Register(o1), Register(o2))
                                    /\ Assembled(o, Register(o1), Register(o2), <<>>) = <<x>>
    BY <2>1, Operand0
  <2> QED BY <1>4, <2>2, Zenon
<1>6. RaOf(x) \in Register(o1) /\ RbOf(x) \in Register(o2)
  BY <1>5 DEF Decodes
<1>7. Names(o1) = <<RaOf(x)>> /\ Names(o2) = <<RbOf(x)>> /\ Constants(o2) = {}
  BY <1>3, <1>6, RegisterNamed
<1>8. RegistersIn(m, ops) = <<RaOf(x)>> \o <<RbOf(x)>> /\ Constants(ops[ArityOf(m)]) = {}
  BY <1>2, <1>7 DEF RegistersIn
<1>9. SubSeq(<<RaOf(x), RbOf(x)>>, 1, Len(RegistersIn(m, ops))) = RegistersIn(m, ops)
  BY <1>8, SubPair, Zenon
<1>10. b[1] = x /\ Len(b) = 1 /\ b \in Seq(Machine!Byte)
  BY <1>5, OneByte
<1>11. DECODE_ROM[x] # 4095 /\ OpOf(x) = o
  BY <1>5 DEF Decodes
<1>12. \A v \in Constants(ops[ArityOf(m)]) : Held(m, v) => ConstantIn(b, o) = Machine!Mask(v)
  BY <1>8
<1>13. Len(b) = SizeOf[o]
  BY <1>10
<1>14. ReadsAsOne(x, o, b, m, ops)
  BY <1>8, <1>9, <1>10, <1>11, <1>12, <1>13 DEF ReadsAsOne, Short
<1> QED BY <1>14 DEF Reads

\* push and pop.
LEMMA OneReads ==
  ASSUME NEW m, NEW o \in Denotes[m], NEW ops \in Seq(Operand), ArityOf(m) = 1, Len(ops) >= 1,
         o \in DOMAIN SizeOf, SizeOf[o] = 1,
         NEW b, b = Assembled(o, Register(ops[1]), Any, <<>>), b # Rejected
  PROVE  Reads(b, m, ops)
<1>1. ops[1] \in Operand
  BY OperandTypes
<1>2. Assembled(o, Register(ops[1]), Any, <<>>) # Rejected
  BY Zenon
<1>3. PICK x \in InstructionByte : /\ Decodes(x, o, Register(ops[1]), Any)
                                 /\ Assembled(o, Register(ops[1]), Any, <<>>) = <<x>>
  BY <1>2, Operand0
<1>4. b = <<x>>
  BY <1>3, Zenon
<1>5. RaOf(x) \in Register(ops[1])
  BY <1>3 DEF Decodes
<1>6. Names(ops[1]) = <<RaOf(x)>> /\ Constants(ops[1]) = {}
  BY <1>1, <1>5, RegisterNamed
<1>7. RegistersIn(m, ops) = <<RaOf(x)>> /\ Constants(ops[ArityOf(m)]) = {}
  BY <1>6 DEF RegistersIn
<1>8. SubSeq(<<RaOf(x), RbOf(x)>>, 1, Len(RegistersIn(m, ops))) = RegistersIn(m, ops)
  BY <1>7, SubPair, Zenon
<1>9. b \in Seq(Machine!Byte) /\ b[1] = x /\ Len(b) = SizeOf[o]
  BY <1>4, OneByte
<1>10. Short(o, Constants(ops[ArityOf(m)]))
  BY <1>7 DEF Short
<1> QED BY <1>3, <1>7, <1>8, <1>9, <1>10, ReadsIntro

\* jmp (ra)
LEMMA JmpReads ==
  ASSUME NEW ops \in Seq(Operand), NEW b, b = EncodeJmp(ops), b # Rejected
  PROVE  Reads(b, "jmp", ops)
<1>1. Len(ops) >= 1 /\ b = Assembled("Jmp", Parenthesised(ops[1]), Any, <<>>)
  BY DEF EncodeJmp
<1>2. ops[1] \in Operand /\ "Jmp" \in DOMAIN SizeOf /\ SizeOf["Jmp"] = 1
  BY <1>1, OperandTypes, Sizes
<1>3. Assembled("Jmp", Parenthesised(ops[1]), Any, <<>>) # Rejected
  BY <1>1, Zenon
<1>4. PICK x \in InstructionByte : /\ Decodes(x, "Jmp", Parenthesised(ops[1]), Any)
                                 /\ Assembled("Jmp", Parenthesised(ops[1]), Any, <<>>) = <<x>>
  BY <1>2, <1>3, Operand0
<1>5. b = <<x>>
  BY <1>1, <1>4, Zenon
<1>6. RaOf(x) \in Parenthesised(ops[1])
  BY <1>4 DEF Decodes
<1>7. IsBase(ops[1]) /\ "off" \notin DOMAIN ops[1] /\ RaOf(x) \in RegisterOf(ops[1].base)
  BY <1>6 DEF Parenthesised
<1>8. Names(ops[1]) = <<RaOf(x)>> /\ Constants(ops[1]) = {}
  BY <1>2, <1>7, BaseNamed
<1>9. ArityOf("jmp") = 1 /\ "Jmp" \in Denotes["jmp"]
  BY DEF ArityOf, Denotes
<1>10. RegistersIn("jmp", ops) = <<RaOf(x)>> /\ Constants(ops[ArityOf("jmp")]) = {}
  BY <1>8, <1>9 DEF RegistersIn
<1>11. SubSeq(<<RaOf(x), RbOf(x)>>, 1, Len(RegistersIn("jmp", ops))) = RegistersIn("jmp", ops)
  BY <1>10, SubPair, Zenon
<1>12. b \in Seq(Machine!Byte) /\ b[1] = x /\ Len(b) = SizeOf["Jmp"]
  BY <1>2, <1>5, OneByte
<1>13. Short("Jmp", Constants(ops[ArityOf("jmp")]))
  BY <1>10 DEF Short
<1> QED BY <1>4, <1>9, <1>10, <1>11, <1>12, <1>13, ReadsIntro

\* jal ra,(rb)
LEMMA JalReads ==
  ASSUME NEW ops \in Seq(Operand), NEW b, b = EncodeJal(ops), b # Rejected
  PROVE  Reads(b, "jal", ops)
<1>1. Len(ops) >= 2 /\ b = Assembled("Jal", Register(ops[1]), Parenthesised(ops[2]), <<>>)
  BY DEF EncodeJal
<1>2. /\ ops[1] \in Operand /\ ops[2] \in Operand
      /\ "Jal" \in DOMAIN SizeOf /\ SizeOf["Jal"] = 1
  BY <1>1, OperandTypes, Sizes
<1>3. Assembled("Jal", Register(ops[1]), Parenthesised(ops[2]), <<>>) # Rejected
  BY <1>1, Zenon
<1>4. PICK x \in InstructionByte :
        /\ Decodes(x, "Jal", Register(ops[1]), Parenthesised(ops[2]))
        /\ Assembled("Jal", Register(ops[1]), Parenthesised(ops[2]), <<>>) = <<x>>
  BY <1>2, <1>3, Operand0
<1>5. b = <<x>>
  BY <1>1, <1>4, Zenon
<1>6. RaOf(x) \in Register(ops[1]) /\ RbOf(x) \in Parenthesised(ops[2])
  BY <1>4 DEF Decodes
<1>7. IsBase(ops[2]) /\ "off" \notin DOMAIN ops[2] /\ RbOf(x) \in RegisterOf(ops[2].base)
  BY <1>6 DEF Parenthesised
<1>8. Names(ops[1]) = <<RaOf(x)>> /\ Names(ops[2]) = <<RbOf(x)>> /\ Constants(ops[2]) = {}
  BY <1>2, <1>6, <1>7, BaseNamed, RegisterNamed
<1>9. ArityOf("jal") = 2 /\ "Jal" \in Denotes["jal"]
  BY DEF ArityOf, Denotes, BranchOpcode
<1>10. /\ RegistersIn("jal", ops) = <<RaOf(x)>> \o <<RbOf(x)>>
       /\ Constants(ops[ArityOf("jal")]) = {}
  BY <1>8, <1>9 DEF RegistersIn
<1>11. SubSeq(<<RaOf(x), RbOf(x)>>, 1, Len(RegistersIn("jal", ops))) = RegistersIn("jal", ops)
  BY <1>10, SubPair, Zenon
<1>12. b \in Seq(Machine!Byte) /\ b[1] = x /\ Len(b) = SizeOf["Jal"]
  BY <1>2, <1>5, OneByte
<1>13. Short("Jal", Constants(ops[ArityOf("jal")]))
  BY <1>10 DEF Short
<1> QED BY <1>4, <1>9, <1>10, <1>11, <1>12, <1>13, ReadsIntro

\* A displacement; the encoder's 0 for a label is the Assembler's to replace.
LEMMA BranchReads ==
  ASSUME NEW m \in DOMAIN BranchOpcode, NEW ops \in Seq(Operand),
         Len(ops) > 0 => ops[1] \in Aim,
         NEW b, b = EncodeBranch(BranchOpcode[m], ops), b # Rejected
  PROVE  Len(ops) >= 1 /\ Reads(b, m, ops)
<1> DEFINE y == IF IsNumber(ops[1]) THEN Low8(ops[1].num) ELSE 0
<1>1. PICK o : o = BranchOpcode[m]
  OBVIOUS
<1>2. Len(ops) >= 1 /\ b = Assembled(o, Any, Any, <<y>>)
  BY <1>1 DEF EncodeBranch
<1>3. /\ o \in {"Bra", "Brf", "Brt"} /\ o \in Denotes[m] /\ o \in DOMAIN SizeOf /\ SizeOf[o] = 2
      /\ ArityOf(m) = 1
  <2>1. m \in {"bra", "brf", "brt"}
    BY DEF BranchOpcode
  <2>2. o \in {"Bra", "Brf", "Brt"} /\ o \in Denotes[m]
    BY <1>1, <2>1 DEF BranchOpcode, Denotes
  <2> QED BY <2>2, Sizes DEF ArityOf
<1>4. ops[1] \in Operand /\ ops[1] \in Aim
  BY <1>2, OperandTypes
<1>5. Names(ops[1]) = <<>>
  <2>1. DOMAIN ops[1] = {"num"} \/ DOMAIN ops[1] = {"label"}
    BY <1>4 DEF Aim
  <2> QED BY <2>1 DEF Names
<1>6. y \in Machine!Byte
  <2>1. CASE IsNumber(ops[1])
    <3>1. ops[1].num \in Int
      BY <1>4, <2>1, NumberNamed
    <3>2. Low8(ops[1].num) \in Machine!Byte
      BY <3>1, FieldValues
    <3> QED BY <2>1, <3>2
  <2>2. CASE ~ IsNumber(ops[1])
    BY <2>2 DEF Machine!Byte
  <2> QED BY <2>1, <2>2
<1>7. PICK x \in InstructionByte : Decodes(x, o, Any, Any) /\ b = <<x, y>>
  <2> HIDE DEF y
  <2>1. Assembled(o, Any, Any, <<y>>) # Rejected
    BY <1>2, Zenon
  <2>2. PICK x \in InstructionByte : /\ Decodes(x, o, Any, Any)
                                    /\ Assembled(o, Any, Any, <<y>>) = <<x, y>>
    BY <1>3, <1>6, <2>1, Operand1
  <2> QED BY <1>2, <2>2, Zenon
<1>8. RegistersIn(m, ops) = <<>>
  BY <1>3, <1>5 DEF RegistersIn
<1>9. SubSeq(<<RaOf(x), RbOf(x)>>, 1, Len(RegistersIn(m, ops))) = RegistersIn(m, ops)
  BY <1>8, SubPair, Zenon
<1>10. b \in Seq(Machine!Byte) /\ b[1] = x /\ Len(b) = SizeOf[o] /\ b[2] = y
  <2> HIDE DEF y
  <2>1. b \in Seq(Machine!Byte) /\ Len(b) = 2 /\ b[1] = x /\ b[2] = y
    BY ONLY <1>6, <1>7, TwoBytes
  <2> QED BY <1>3, <2>1
<1>11. ASSUME NEW v \in Constants(ops[ArityOf(m)]), Held(m, v)
       PROVE  ConstantIn(b, o) = Machine!Mask(v)
  <2>1. v \in Constants(ops[1])
    BY <1>3, <1>11
  <2>2. IsNumber(ops[1]) /\ v = ops[1].num /\ v \in Int
    <3>1. (DOMAIN ops[1] = {"num"} /\ ops[1].num \in Int) \/ DOMAIN ops[1] = {"label"}
      BY <1>4 DEF Aim
    <3> QED BY <2>1, <3>1 DEF Constants, IsNumber
  <2>3. y = Low8(v)
    BY <2>2
  <2>4. v \in -128 .. 127
    <3>1. m \notin {"la", "sub", "lc", "lcu"}
      BY DEF BranchOpcode
    <3>2. -128 <= v /\ v <= 127
      BY <1>11, <3>1, Zenon DEF Held
    <3>3. v \in Int
      BY <2>2, Zenon
    <3> QED BY ONLY <3>2, <3>3, SMT
  <2>5. ConstantIn(b, o) = Machine!SignExtend8(Low8(v))
    <3> HIDE DEF y
    <3>1. o \notin {"La", "SubSp", "Lcu"}
      BY <1>3
    <3> QED BY <1>10, <2>3, <3>1, ConstantOf
  <2> QED BY <2>2, <2>4, <2>5, FieldValues
<1>12. Short(o, Constants(ops[ArityOf(m)]))
  BY <1>3 DEF Short
<1> QED BY <1>2, <1>3, <1>7, <1>9, <1>10, <1>11, <1>12, ReadsIntro

\* add
LEMMA AddReads ==
  ASSUME NEW ops \in Seq(Operand), NEW b, b = EncodeAdd(ops), b # Rejected
  PROVE  Reads(b, "add", ops)
<1>1. PICK o1, o2 : o1 = ops[1] /\ o2 = ops[2]
  OBVIOUS
<1>2. Len(ops) >= 2
  <2>1. Len(ops) \in Nat
    BY LenProperties
  <2> QED BY <2>1 DEF EncodeAdd
<1>3. o1 \in Operand /\ o2 \in Operand
  BY <1>1, <1>2, OperandTypes
<1>4. ArityOf("add") = 2 /\ "AddImm" \in Denotes["add"] /\ "AddReg" \in Denotes["add"]
  BY DEF ArityOf, Denotes, BranchOpcode
<1>5. CASE ~ IsNumber(o2)
  <2>1. b = Assembled("AddReg", Register(o1), Register(o2), <<>>)
    BY <1>1, <1>2, <1>5 DEF EncodeAdd
  <2>2. b = EncodePair("AddReg", ops)
    BY <1>1, <1>2, <2>1 DEF EncodePair
  <2>3. "AddReg" \in DOMAIN SizeOf /\ SizeOf["AddReg"] = 1
    BY Sizes
  <2> QED BY <1>4, <2>2, <2>3, PairReads
<1>6. CASE IsNumber(o2)
  <2>1. PICK v : v = o2.num
    OBVIOUS
  <2>2. v \in Int /\ Names(o2) = <<>> /\ Constants(o2) = {v}
    BY <1>3, <1>6, <2>1, NumberNamed
  <2>3. b = Assembled("AddImm", Register(o1), Any, <<Low8(v)>>)
    BY <1>1, <1>2, <1>6, <2>1 DEF EncodeAdd
  <2>4. Assembled("AddImm", Register(o1), Any, <<Low8(v)>>) # Rejected
    BY <2>3, Zenon
  <2>5. "AddImm" \in DOMAIN SizeOf /\ SizeOf["AddImm"] = 2 /\ Low8(v) \in Machine!Byte
    BY <2>2, Sizes, FieldValues
  <2>6. PICK x \in InstructionByte :
          /\ Decodes(x, "AddImm", Register(o1), Any)
          /\ Assembled("AddImm", Register(o1), Any, <<Low8(v)>>) = <<x, Low8(v)>>
    BY <2>4, <2>5, Operand1
  <2>7. b = <<x, Low8(v)>>
    BY <2>3, <2>6, Zenon
  <2>8. b \in Seq(Machine!Byte) /\ Len(b) = 2 /\ b[1] = x /\ b[2] = Low8(v)
    BY ONLY <2>5, <2>7, TwoBytes
  <2>9. RaOf(x) \in Register(o1)
    BY <2>6 DEF Decodes
  <2>10. RegistersIn("add", ops) = <<RaOf(x)>> \o <<>>
    BY <1>1, <1>3, <1>4, <2>2, <2>9, RegisterNamed DEF RegistersIn
  <2>11. SubSeq(<<RaOf(x), RbOf(x)>>, 1, Len(RegistersIn("add", ops))) = RegistersIn("add", ops)
    BY <2>10, SubPair, Zenon
  <2>12. ASSUME NEW u \in Constants(ops[ArityOf("add")]), Held("add", u)
         PROVE  ConstantIn(b, "AddImm") = Machine!Mask(u)
    <3>1. u = v
      BY <1>1, <1>4, <2>2, <2>12
    <3>2. "add" \notin {"la", "sub", "lc", "lcu"}
      OBVIOUS
    <3>3. -128 <= v /\ v <= 127
      BY <2>12, <3>1, <3>2, Zenon DEF Held
    <3>4. v \in -128 .. 127
      BY ONLY <2>2, <3>3
    <3>5. ConstantIn(b, "AddImm") = Machine!SignExtend8(Low8(v))
      BY <2>8, ConstantOf
    <3> QED BY <2>2, <3>1, <3>4, <3>5, FieldValues
  <2>13. Short("AddImm", Constants(ops[ArityOf("add")]))
    BY <2>5 DEF Short
  <2> QED BY <1>4, <2>5, <2>6, <2>8, <2>11, <2>12, <2>13, ReadsIntro
<1> QED BY <1>5, <1>6

\* sub, and "sub sp,number".
LEMMA SubReads ==
  ASSUME NEW ops \in Seq(Operand), NEW b, b = EncodeSub(ops), b # Rejected
  PROVE  Reads(b, "sub", ops)
<1>1. PICK o1, o2 : o1 = ops[1] /\ o2 = ops[2]
  OBVIOUS
<1>2. Len(ops) >= 2
  <2>1. Len(ops) \in Nat
    BY LenProperties
  <2> QED BY <2>1 DEF EncodeSub
<1>3. o1 \in Operand /\ o2 \in Operand
  BY <1>1, <1>2, OperandTypes
<1>4. ArityOf("sub") = 2 /\ "SubSp" \in Denotes["sub"] /\ "Sub" \in Denotes["sub"]
  BY DEF ArityOf, Denotes, BranchOpcode
<1>5. CASE ~ (o1 = [reg |-> "sp"] /\ IsNumber(o2))
  <2>1. b = Assembled("Sub", Register(o1), Register(o2), <<>>)
    BY <1>1, <1>2, <1>5 DEF EncodeSub
  <2>2. b = EncodePair("Sub", ops)
    BY <1>1, <1>2, <2>1 DEF EncodePair
  <2>3. "Sub" \in DOMAIN SizeOf /\ SizeOf["Sub"] = 1
    BY Sizes
  <2> QED BY <1>4, <2>2, <2>3, PairReads
<1>6. CASE o1 = [reg |-> "sp"] /\ IsNumber(o2)
  <2>1. PICK v : v = o2.num
    OBVIOUS
  <2>2. v \in Int /\ Names(o2) = <<>> /\ Constants(o2) = {v}
    BY <1>3, <1>6, <2>1, NumberNamed
  <2>3. PICK y, z, w : y = Bytes24(v)[1] /\ z = Bytes24(v)[2] /\ w = Bytes24(v)[3]
    OBVIOUS
  <2>4. y \in Machine!Byte /\ z \in Machine!Byte /\ w \in Machine!Byte
    <3>1. 1 \in 1 .. 3 /\ 2 \in 1 .. 3 /\ 3 \in 1 .. 3
      OBVIOUS
    <3> QED BY <2>2, <2>3, <3>1, FieldValues
  <2>5. Bytes24(v) = <<y, z, w>>
    BY <2>3 DEF Bytes24
  <2>6. b = Assembled("SubSp", Any, Any, Bytes24(v))
    BY <1>1, <1>2, <1>6, <2>1 DEF EncodeSub
  <2>7. b = Assembled("SubSp", Any, Any, <<y, z, w>>)
    BY <2>5, <2>6, Zenon
  <2>8. Assembled("SubSp", Any, Any, <<y, z, w>>) # Rejected
    BY <2>7, Zenon
  <2>9. "SubSp" \in DOMAIN SizeOf /\ SizeOf["SubSp"] = 4
    BY Sizes
  <2>10. PICK x \in InstructionByte :
           /\ Decodes(x, "SubSp", Any, Any)
           /\ Assembled("SubSp", Any, Any, <<y, z, w>>) = <<x, y, z, w>>
    BY <2>4, <2>8, <2>9, Operand3
  <2>11. b = <<x, y, z, w>>
    BY <2>7, <2>10, Zenon
  <2>12. b \in Seq(Machine!Byte) /\ Len(b) = 4 /\ b[1] = x /\ b[2] = y /\ b[3] = z /\ b[4] = w
    BY ONLY <2>4, <2>11, InstructionBytes
  <2>13. RaOf(x) = 4
    BY <2>10, SubSpRegister
  <2>14. Names(o1) = <<RaOf(x)>>
    <3>1. 4 \in Register(o1)
      BY <1>6 DEF Register, RegisterOf, RegisterCode
    <3> QED BY <1>3, <2>13, <3>1, RegisterNamed
  <2>15. RegistersIn("sub", ops) = <<RaOf(x)>> \o <<>>
    BY <1>1, <1>4, <2>2, <2>14 DEF RegistersIn
  <2>16. SubSeq(<<RaOf(x), RbOf(x)>>, 1, Len(RegistersIn("sub", ops))) = RegistersIn("sub", ops)
    BY <2>15, SubPair, Zenon
  <2>17. ASSUME NEW u \in Constants(ops[ArityOf("sub")]), Held("sub", u)
         PROVE  ConstantIn(b, "SubSp") = Machine!Mask(u)
    <3>1. u = v
      BY <1>1, <1>4, <2>2, <2>17
    <3>2. ConstantIn(b, "SubSp") = Machine!WordOf(b[2], b[3], b[4])
      BY ConstantOf
    <3>3. b[2] = Bytes24(v)[1] /\ b[3] = Bytes24(v)[2] /\ b[4] = Bytes24(v)[3]
      BY <2>3, <2>12, Zenon
    <3>4. Machine!WordOf(Bytes24(v)[1], Bytes24(v)[2], Bytes24(v)[3]) = Machine!Mask(v)
      BY <2>2, FieldValues
    <3> QED BY <3>1, <3>2, <3>3, <3>4, Zenon
  <2>18. Short("SubSp", Constants(ops[ArityOf("sub")]))
    BY <2>9 DEF Short
  <2> QED BY <1>4, <2>9, <2>10, <2>12, <2>16, <2>17, <2>18, ReadsIntro
<1> QED BY <1>5, <1>6

\* la; the encoder's zeros for a label are the Assembler's to replace.
LEMMA LaReads ==
  ASSUME NEW ops \in Seq(Operand), Len(ops) > 1 => ops[2] \in Aim,
         NEW b, b = EncodeLa(ops), b # Rejected
  PROVE  Len(ops) >= 2 /\ Reads(b, "la", ops)
<1>1. PICK o1, o2 : o1 = ops[1] /\ o2 = ops[2]
  OBVIOUS
<1>2. Len(ops) >= 2
  <2>1. Len(ops) \in Nat
    BY LenProperties
  <2> QED BY <2>1 DEF EncodeLa
<1>3. o1 \in Operand /\ o2 \in Operand /\ o2 \in Aim
  BY <1>1, <1>2, OperandTypes
<1>4. ArityOf("la") = 2 /\ "La" \in Denotes["la"]
  BY DEF ArityOf, Denotes, BranchOpcode
<1>5. Names(o2) = <<>>
  <2>1. DOMAIN o2 = {"num"} \/ DOMAIN o2 = {"label"}
    BY <1>3 DEF Aim
  <2> QED BY <2>1 DEF Names
<1>6. PICK y, z, w : /\ y \in Machine!Byte /\ z \in Machine!Byte /\ w \in Machine!Byte
                     /\ b = Assembled("La", Register(o1), Any, <<y, z, w>>)
                     /\ IsNumber(o2) => Bytes24(o2.num) = <<y, z, w>>
  <2>1. CASE IsNumber(o2)
    <3>1. PICK v : v = o2.num
      OBVIOUS
    <3>2. v \in Int
      BY <1>3, <2>1, <3>1, NumberNamed
    <3>3. PICK y, z, w : y = Bytes24(v)[1] /\ z = Bytes24(v)[2] /\ w = Bytes24(v)[3]
      OBVIOUS
    <3>4. y \in Machine!Byte /\ z \in Machine!Byte /\ w \in Machine!Byte
      <4>1. 1 \in 1 .. 3 /\ 2 \in 1 .. 3 /\ 3 \in 1 .. 3
        OBVIOUS
      <4> QED BY <3>2, <3>3, <4>1, FieldValues
    <3>5. Bytes24(v) = <<y, z, w>>
      BY <3>3 DEF Bytes24
    <3>6. b = Assembled("La", Register(o1), Any, Bytes24(v))
      BY <1>1, <1>2, <2>1, <3>1 DEF EncodeLa
    <3>7. b = Assembled("La", Register(o1), Any, <<y, z, w>>)
      BY <3>5, <3>6, Zenon
    <3> QED BY <3>1, <3>4, <3>5, <3>7, Zenon
  <2>2. CASE ~ IsNumber(o2)
    <3>1. b = Assembled("La", Register(o1), Any, <<0, 0, 0>>)
      BY <1>1, <1>2, <2>2 DEF EncodeLa
    <3>2. 0 \in Machine!Byte
      BY DEF Machine!Byte
    <3> QED BY <2>2, <3>1, <3>2, Zenon
  <2> QED BY <2>1, <2>2
<1>7. Assembled("La", Register(o1), Any, <<y, z, w>>) # Rejected
  BY <1>6, Zenon
<1>8. "La" \in DOMAIN SizeOf /\ SizeOf["La"] = 4
  BY Sizes
<1>9. PICK x \in InstructionByte :
        /\ Decodes(x, "La", Register(o1), Any)
        /\ Assembled("La", Register(o1), Any, <<y, z, w>>) = <<x, y, z, w>>
  BY <1>6, <1>7, <1>8, Operand3
<1>10. b = <<x, y, z, w>>
  BY <1>6, <1>9, Zenon
<1>11. b \in Seq(Machine!Byte) /\ Len(b) = 4 /\ b[1] = x /\ b[2] = y /\ b[3] = z /\ b[4] = w
  BY ONLY <1>6, <1>10, InstructionBytes
<1>12. RaOf(x) \in Register(o1)
  BY <1>9 DEF Decodes
<1>13. RegistersIn("la", ops) = <<RaOf(x)>> \o <<>>
  BY <1>1, <1>3, <1>4, <1>5, <1>12, RegisterNamed DEF RegistersIn
<1>14. SubSeq(<<RaOf(x), RbOf(x)>>, 1, Len(RegistersIn("la", ops))) = RegistersIn("la", ops)
  BY <1>13, SubPair, Zenon
<1>15. ASSUME NEW u \in Constants(ops[ArityOf("la")]), Held("la", u)
       PROVE  ConstantIn(b, "La") = Machine!Mask(u)
  <2>1. u \in Constants(o2)
    BY <1>1, <1>4, <1>15
  <2>2. IsNumber(o2) /\ u = o2.num /\ u \in Int
    <3>1. (DOMAIN o2 = {"num"} /\ o2.num \in Int) \/ DOMAIN o2 = {"label"}
      BY <1>3 DEF Aim
    <3> QED BY <2>1, <3>1 DEF Constants, IsNumber
  <2>3. ConstantIn(b, "La") = Machine!WordOf(b[2], b[3], b[4])
    BY ConstantOf
  <2>4. Bytes24(u) = <<y, z, w>>
    BY <1>6, <2>2, Zenon
  <2>5. b[2] = Bytes24(u)[1] /\ b[3] = Bytes24(u)[2] /\ b[4] = Bytes24(u)[3]
    BY <1>11, <2>4
  <2>6. Machine!WordOf(Bytes24(u)[1], Bytes24(u)[2], Bytes24(u)[3]) = Machine!Mask(u)
    BY <2>2, FieldValues
  <2> QED BY <2>3, <2>5, <2>6, Zenon
<1>16. Short("La", Constants(ops[ArityOf("la")]))
  BY <1>8 DEF Short
<1> QED BY <1>2, <1>4, <1>8, <1>9, <1>11, <1>14, <1>15, <1>16, ReadsIntro

\* lc and lcu, whose immediate is checked.
LEMMA LcReads ==
  ASSUME NEW unsigned \in BOOLEAN, NEW ops \in Seq(Operand),
         NEW b, b = EncodeLc(unsigned, ops), b # Rejected
  PROVE  Reads(b, IF unsigned THEN "lcu" ELSE "lc", ops)
<1>1. PICK o1, o2, v : o1 = ops[1] /\ o2 = ops[2] /\ v = o2.num
  OBVIOUS
<1>2. PICK m, o : m = (IF unsigned THEN "lcu" ELSE "lc") /\ o = (IF unsigned THEN "Lcu" ELSE "Lc")
  OBVIOUS
<1>3. /\ Len(ops) >= 2 /\ IsNumber(o2) /\ v \in LcRange(unsigned)
      /\ b = Assembled(o, Register(o1), Any, <<Low8(v)>>)
  BY <1>1, <1>2 DEF EncodeLc
<1>4. o1 \in Operand /\ o2 \in Operand
  BY <1>1, <1>3, OperandTypes
<1>5. /\ ArityOf(m) = 2 /\ o \in Denotes[m] /\ o \in DOMAIN SizeOf /\ SizeOf[o] = 2
      /\ m \in {"lc", "lcu"}
  BY <1>2, Sizes DEF ArityOf, Denotes, BranchOpcode
<1>6. v \in Int /\ Names(o2) = <<>> /\ Constants(o2) = {v} /\ Low8(v) \in Machine!Byte
  BY <1>1, <1>3, <1>4, NumberNamed, FieldValues
<1>7. Assembled(o, Register(o1), Any, <<Low8(v)>>) # Rejected
  BY <1>3, Zenon
<1>8. PICK x \in InstructionByte :
        /\ Decodes(x, o, Register(o1), Any)
        /\ Assembled(o, Register(o1), Any, <<Low8(v)>>) = <<x, Low8(v)>>
  BY <1>5, <1>6, <1>7, Operand1
<1>9. b = <<x, Low8(v)>>
  BY <1>3, <1>8, Zenon
<1>10. b \in Seq(Machine!Byte) /\ Len(b) = 2 /\ b[1] = x /\ b[2] = Low8(v)
  BY ONLY <1>6, <1>9, TwoBytes
<1>11. RaOf(x) \in Register(o1)
  BY <1>8 DEF Decodes
<1>12. RegistersIn(m, ops) = <<RaOf(x)>> \o <<>>
  BY <1>1, <1>4, <1>5, <1>6, <1>11, RegisterNamed DEF RegistersIn
<1>13. SubSeq(<<RaOf(x), RbOf(x)>>, 1, Len(RegistersIn(m, ops))) = RegistersIn(m, ops)
  BY <1>12, SubPair, Zenon
<1>14. ConstantIn(b, o) = Machine!Mask(v)
  <2>1. CASE unsigned
    <3>1. v \in 0 .. 255 /\ ConstantIn(b, o) = b[2]
      BY <1>2, <1>3, <2>1, ConstantOf DEF LcRange
    <3>2. Low8(v) = Machine!Mask(v)
      BY <1>6, <3>1, FieldValues
    <3> QED BY <1>10, <3>1, <3>2, Zenon
  <2>2. CASE ~ unsigned
    <3>1. v \in -128 .. 127 /\ ConstantIn(b, o) = Machine!SignExtend8(b[2])
      BY <1>2, <1>3, <2>2, ConstantOf DEF LcRange
    <3>2. Machine!SignExtend8(Low8(v)) = Machine!Mask(v)
      BY <1>6, <3>1, FieldValues
    <3> QED BY <1>10, <3>1, <3>2, Zenon
  <2> QED BY <2>1, <2>2
<1>15. \A u \in Constants(ops[ArityOf(m)]) : Held(m, u) => ConstantIn(b, o) = Machine!Mask(u)
  BY <1>1, <1>5, <1>6, <1>14
<1>16. Short(o, Constants(ops[ArityOf(m)]))
  BY <1>5 DEF Short
<1>17. Reads(b, m, ops)
  BY <1>5, <1>8, <1>10, <1>13, <1>15, <1>16, ReadsIntro
<1> QED BY <1>2, <1>17, Zenon

\* A load or a store.
LEMMA LoadStoreReads ==
  ASSUME NEW m \in DOMAIN LoadStoreOpcode, NEW ops \in Seq(Operand),
         NEW b, b = EncodeLoadStore(LoadStoreOpcode[m], ops), b # Rejected
  PROVE  Reads(b, m, ops)
<1>1. PICK o1, o2, o : o1 = ops[1] /\ o2 = ops[2] /\ o = LoadStoreOpcode[m]
  OBVIOUS
<1>2. PICK y : y = IF "off" \in DOMAIN o2 THEN Low8(o2.off) ELSE 0
  OBVIOUS
<1>3. /\ Len(ops) >= 2 /\ IsBase(o2)
      /\ b = Assembled(o, Register(o1), RegisterOf(o2.base), <<y>>)
  BY <1>1, <1>2 DEF EncodeLoadStore
<1>4. o1 \in Operand /\ o2 \in Operand
  BY <1>1, <1>3, OperandTypes
<1>5. /\ ArityOf(m) = 2 /\ o \in Denotes[m] /\ o \in DOMAIN SizeOf /\ SizeOf[o] = 2
      /\ o \notin {"La", "SubSp", "Lcu"} /\ m \notin {"la", "sub", "lc", "lcu"}
  <2>1. m \in {"lb", "lbu", "lw", "sb", "sw"}
    BY DEF LoadStoreOpcode
  <2>2. o \in {"Lb", "Lbu", "Lw", "Sb", "Sw"} /\ o \in Denotes[m]
    BY <1>1, <2>1 DEF LoadStoreOpcode, Denotes
  <2>3. ArityOf(m) = 2
    BY <2>1 DEF ArityOf, BranchOpcode
  <2>4. o \in DOMAIN SizeOf /\ SizeOf[o] = 2
    BY <2>2, Sizes
  <2>5. o \notin {"La", "SubSp", "Lcu"} /\ m \notin {"la", "sub", "lc", "lcu"}
    BY <2>1, <2>2
  <2> QED BY <2>2, <2>3, <2>4, <2>5
<1>6. "off" \in DOMAIN o2 => o2.off \in Int
  BY <1>4, OperandKinds
<1>7. y \in Machine!Byte
  <2>1. CASE "off" \in DOMAIN o2
    BY <1>2, <1>6, <2>1, FieldValues
  <2>2. CASE "off" \notin DOMAIN o2
    BY <1>2, <2>2 DEF Machine!Byte
  <2> QED BY <2>1, <2>2
<1>8. Assembled(o, Register(o1), RegisterOf(o2.base), <<y>>) # Rejected
  BY <1>3, Zenon
<1>9. PICK x \in InstructionByte :
        /\ Decodes(x, o, Register(o1), RegisterOf(o2.base))
        /\ Assembled(o, Register(o1), RegisterOf(o2.base), <<y>>) = <<x, y>>
  BY <1>5, <1>7, <1>8, Operand1
<1>10. b = <<x, y>>
  BY <1>3, <1>9, Zenon
<1>11. b \in Seq(Machine!Byte) /\ Len(b) = 2 /\ b[1] = x /\ b[2] = y
  BY ONLY <1>7, <1>10, TwoBytes
<1>12. RaOf(x) \in Register(o1) /\ RbOf(x) \in RegisterOf(o2.base)
  BY <1>9 DEF Decodes
<1>13. /\ Names(o1) = <<RaOf(x)>> /\ Names(o2) = <<RbOf(x)>>
       /\ Constants(o2) = IF "off" \in DOMAIN o2 THEN {o2.off} ELSE {}
  BY <1>3, <1>4, <1>12, RegisterNamed, BaseNamed
<1>14. RegistersIn(m, ops) = <<RaOf(x)>> \o <<RbOf(x)>>
  BY <1>1, <1>5, <1>13 DEF RegistersIn
<1>15. SubSeq(<<RaOf(x), RbOf(x)>>, 1, Len(RegistersIn(m, ops))) = RegistersIn(m, ops)
  BY <1>14, SubPair, Zenon
<1>16. ASSUME NEW u \in Constants(ops[ArityOf(m)]), Held(m, u)
       PROVE  ConstantIn(b, o) = Machine!Mask(u)
  <2>1. "off" \in DOMAIN o2 /\ u = o2.off /\ u \in Int
    BY <1>1, <1>5, <1>6, <1>13, <1>16
  <2>2. -128 <= u /\ u <= 127
    BY <1>5, <1>16, Zenon DEF Held
  <2>3. u \in -128 .. 127
    <3>1. u \in Int
      BY <2>1, Zenon
    <3> QED BY ONLY <2>2, <3>1, SMT
  <2>4. y = Low8(u)
    BY <1>2, <2>1, Zenon
  <2>5. ConstantIn(b, o) = Machine!SignExtend8(Low8(u))
    BY <1>5, <1>11, <2>4, ConstantOf
  <2> QED BY <2>1, <2>3, <2>5, FieldValues
<1>17. Short(o, Constants(ops[ArityOf(m)]))
  BY <1>5 DEF Short
<1> QED BY <1>5, <1>9, <1>11, <1>15, <1>16, <1>17, ReadsIntro

\* What Encodes asks of the operands, and SourcesAssumption grants.
Typed(m, ops) ==
  /\ ops \in Seq(Operand)
  /\ (m \in DOMAIN BranchOpcode /\ Len(ops) > 0) => ops[1] \in Aim
  /\ (m = "la" /\ Len(ops) > 1) => ops[2] \in Aim

\* Whatever the instruction, the bytes its encoder emits are that instruction:
\* they decode to the operation, the registers and the constant of the text.
LEMMA Encodes ==
  ASSUME NEW m, NEW ops, Typed(m, ops), m # "nop",
         NEW b, b = Encoded(m, ops), b # Rejected
  PROVE  /\ m \in DOMAIN Denotes /\ Reads(b, m, ops)
         /\ m \in DOMAIN BranchOpcode => Len(ops) >= 1 /\ ops[1] \in Aim
         /\ m = "la" => Len(ops) >= 2 /\ ops[2] \in Aim
<1>1. ops \in Seq(Operand) /\ Len(ops) \in Nat
  BY LenProperties DEF Typed
<1>2. CASE m = "push"
  <2>1. b = EncodePush(ops)
    BY <1>2 DEF Encoded, AluOpcode, BranchOpcode, LoadStoreOpcode
  <2>2. Len(ops) >= 1 /\ b = Assembled("Push", Register(ops[1]), Any, <<>>)
    BY <1>1, <2>1 DEF EncodePush
  <2>3. "Push" \in DOMAIN SizeOf /\ SizeOf["Push"] = 1
    BY Sizes
  <2>4. ArityOf(m) = 1 /\ "Push" \in Denotes[m] /\ m \in DOMAIN Denotes
    BY <1>2 DEF ArityOf, Denotes
  <2>5. m \notin DOMAIN BranchOpcode /\ m # "la"
    BY <1>2 DEF BranchOpcode
  <2> QED BY <1>1, <2>2, <2>3, <2>4, <2>5, OneReads
<1>3. CASE m = "pop"
  <2>1. b = EncodePop(ops)
    BY <1>3 DEF Encoded, AluOpcode, BranchOpcode, LoadStoreOpcode
  <2>2. Len(ops) >= 1 /\ b = Assembled("Pop", Register(ops[1]), Any, <<>>)
    BY <1>1, <2>1 DEF EncodePop
  <2>3. "Pop" \in DOMAIN SizeOf /\ SizeOf["Pop"] = 1
    BY Sizes
  <2>4. ArityOf(m) = 1 /\ "Pop" \in Denotes[m] /\ m \in DOMAIN Denotes
    BY <1>3 DEF ArityOf, Denotes
  <2>5. m \notin DOMAIN BranchOpcode /\ m # "la"
    BY <1>3 DEF BranchOpcode
  <2> QED BY <1>1, <2>2, <2>3, <2>4, <2>5, OneReads
<1>4. CASE m \in {"mov", "mul"} \cup DOMAIN AluOpcode
  <2>1. PICK o : o = IF m = "mov" THEN "Mov" ELSE IF m = "mul" THEN "Mul" ELSE AluOpcode[m]
    OBVIOUS
  <2>2. m \in {"mov", "mul", "and", "or", "xor", "shl", "sra", "srl", "ceq", "cls", "clu", "sxt", "zxt"}
    BY <1>4 DEF AluOpcode
  <2>3. b = EncodePair(o, ops)
    <3>1. CASE m = "mov"
      BY <2>1, <3>1 DEF Encoded, EncodeMov, AluOpcode, BranchOpcode, LoadStoreOpcode
    <3>2. CASE m = "mul"
      BY <2>1, <3>2 DEF Encoded, EncodeMul, AluOpcode, BranchOpcode, LoadStoreOpcode
    <3>3. CASE m \in DOMAIN AluOpcode
      <4>1. b = EncodeAlu(AluOpcode[m], ops)
        BY <3>3 DEF Encoded, AluOpcode, BranchOpcode, LoadStoreOpcode
      <4>2. o = AluOpcode[m]
        BY <2>1, <3>3 DEF AluOpcode
      <4> QED BY <4>1, <4>2 DEF EncodeAlu
    <3> QED BY <1>4, <3>1, <3>2, <3>3
  <2>4. o \in Denotes[m] /\ m \in DOMAIN Denotes
    BY <2>1, <2>2 DEF AluOpcode, Denotes
  <2>5. o \in DOMAIN SizeOf /\ SizeOf[o] = 1
    <3>1. o \in {"Mov", "Mul", "And", "Or", "Xor", "Shl", "Sra", "Srl", "Ceq", "Cls", "Clu", "Sxt", "Zxt"}
      BY <2>1, <2>2 DEF AluOpcode
    <3> QED BY <3>1, Sizes
  <2>6. ArityOf(m) = 2 /\ m \notin DOMAIN BranchOpcode /\ m # "la"
    BY <2>2 DEF ArityOf, BranchOpcode
  <2> QED BY <1>1, <2>3, <2>4, <2>5, <2>6, PairReads
<1>5. CASE m = "add"
  <2>1. b = EncodeAdd(ops)
    BY <1>5 DEF Encoded, AluOpcode, BranchOpcode, LoadStoreOpcode
  <2>0. m \in DOMAIN Denotes /\ m \notin DOMAIN BranchOpcode /\ m # "la"
    BY <1>5 DEF Denotes, BranchOpcode
  <2> QED BY <2>0, <1>1, <1>5, <2>1, AddReads
<1>6. CASE m = "sub"
  <2>1. b = EncodeSub(ops)
    BY <1>6 DEF Encoded, AluOpcode, BranchOpcode, LoadStoreOpcode
  <2>0. m \in DOMAIN Denotes /\ m \notin DOMAIN BranchOpcode /\ m # "la"
    BY <1>6 DEF Denotes, BranchOpcode
  <2> QED BY <2>0, <1>1, <1>6, <2>1, SubReads
<1>7. CASE m = "jmp"
  <2>1. b = EncodeJmp(ops)
    BY <1>7 DEF Encoded, AluOpcode, BranchOpcode, LoadStoreOpcode
  <2>0. m \in DOMAIN Denotes /\ m \notin DOMAIN BranchOpcode /\ m # "la"
    BY <1>7 DEF Denotes, BranchOpcode
  <2> QED BY <2>0, <1>1, <1>7, <2>1, JmpReads
<1>8. CASE m = "jal"
  <2>1. b = EncodeJal(ops)
    BY <1>8 DEF Encoded, AluOpcode, BranchOpcode, LoadStoreOpcode
  <2>0. m \in DOMAIN Denotes /\ m \notin DOMAIN BranchOpcode /\ m # "la"
    BY <1>8 DEF Denotes, BranchOpcode
  <2> QED BY <2>0, <1>1, <1>8, <2>1, JalReads
<1>9. CASE m = "la"
  <2>1. b = EncodeLa(ops)
    BY <1>9 DEF Encoded, AluOpcode, BranchOpcode, LoadStoreOpcode
  <2>0. m \in DOMAIN Denotes /\ m \notin DOMAIN BranchOpcode
    BY <1>9 DEF Denotes, BranchOpcode
  <2>2. Len(ops) > 1 => ops[2] \in Aim
    BY <1>9 DEF Typed
  <2>3. Len(ops) >= 2 /\ Reads(b, "la", ops)
    BY <1>1, <2>1, <2>2, LaReads
  <2> QED BY <2>0, <1>1, <1>9, <2>1, <2>2, <2>3
<1>10. CASE m = "lc"
  <2>1. b = EncodeLc(FALSE, ops)
    BY <1>10 DEF Encoded, AluOpcode, BranchOpcode, LoadStoreOpcode
  <2>0. m \in DOMAIN Denotes /\ m \notin DOMAIN BranchOpcode /\ m # "la"
    BY <1>10 DEF Denotes, BranchOpcode
  <2>2. Reads(b, IF FALSE THEN "lcu" ELSE "lc", ops)
    BY <1>1, <2>1, LcReads
  <2> QED BY <2>0, <1>10, <2>1, <2>2
<1>11. CASE m = "lcu"
  <2>1. b = EncodeLc(TRUE, ops)
    BY <1>11 DEF Encoded, AluOpcode, BranchOpcode, LoadStoreOpcode
  <2>0. m \in DOMAIN Denotes /\ m \notin DOMAIN BranchOpcode /\ m # "la"
    BY <1>11 DEF Denotes, BranchOpcode
  <2>2. Reads(b, IF TRUE THEN "lcu" ELSE "lc", ops)
    BY <1>1, <2>1, LcReads
  <2> QED BY <2>0, <1>11, <2>1, <2>2
<1>12. CASE m \in DOMAIN BranchOpcode
  <2>1. b = EncodeBranch(BranchOpcode[m], ops)
    BY <1>12 DEF Encoded, AluOpcode, BranchOpcode, LoadStoreOpcode
  <2>2. Len(ops) > 0 => ops[1] \in Aim
    BY <1>12 DEF Typed
  <2>3. Len(ops) >= 1 /\ Reads(b, m, ops)
    BY <1>1, <1>12, <2>1, <2>2, BranchReads
  <2>4. m \in DOMAIN Denotes /\ m # "la"
    BY <1>12 DEF Denotes, BranchOpcode
  <2> QED BY <1>1, <2>2, <2>3, <2>4
<1>13. CASE m \in DOMAIN LoadStoreOpcode
  <2>1. b = EncodeLoadStore(LoadStoreOpcode[m], ops)
    BY <1>13 DEF Encoded, AluOpcode, BranchOpcode, LoadStoreOpcode
  <2>2. m \in DOMAIN Denotes /\ m \notin DOMAIN BranchOpcode /\ m # "la"
    BY <1>13 DEF Denotes, BranchOpcode, LoadStoreOpcode
  <2> QED BY <1>1, <1>13, <2>1, <2>2, LoadStoreReads
<1>14. \/ m \in {"push", "pop", "add", "sub", "jmp", "jal", "la", "lc", "lcu"}
       \/ m \in {"mov", "mul"} \cup DOMAIN AluOpcode
       \/ m \in DOMAIN BranchOpcode \/ m \in DOMAIN LoadStoreOpcode
  BY DEF Encoded
<1> QED BY <1>2, <1>3, <1>4, <1>5, <1>6, <1>7, <1>8, <1>9, <1>10, <1>11, <1>12, <1>13, <1>14

\* An instruction accepted is 1, 2 or 4 bytes: a branch 2, a la 4.
LEMMA EncodedLength ==
  ASSUME NEW m, NEW ops, Typed(m, ops), NEW b, b = Encoded(m, ops), b # Rejected
  PROVE  /\ Len(b) \in {1, 2, 4} /\ b \in Seq(Machine!Byte)
         /\ m \in DOMAIN BranchOpcode => Len(b) = 2
         /\ m = "la" => Len(b) = 4
<1>1. CASE m = "nop"
  <2>1. b = <<255>>
    BY <1>1 DEF Encoded, AluOpcode, BranchOpcode, LoadStoreOpcode
  <2>2. m \notin DOMAIN BranchOpcode /\ m # "la"
    BY <1>1 DEF BranchOpcode
  <2>3. 255 \in Machine!Byte
    BY DEF Machine!Byte
  <2>4. b \in Seq(Machine!Byte) /\ Len(b) = 1
    BY <2>1, <2>3
  <2> QED BY <2>2, <2>4
<1>2. CASE m # "nop"
  <2>1. m \in DOMAIN Denotes /\ Reads(b, m, ops)
    BY <1>2, Encodes
  <2>2. PICK x \in InstructionByte, o \in Denotes[m] : ReadsAsOne(x, o, b, m, ops)
    BY <2>1 DEF Reads
  <2>3. Len(b) = SizeOf[o] /\ b \in Seq(Machine!Byte)
    BY <2>2 DEF ReadsAsOne
  <2>4. m \in DOMAIN BranchOpcode => o \in {"Bra", "Brf", "Brt"}
    BY DEF Denotes, BranchOpcode
  <2>5. m = "la" => o \in {"La"}
    BY DEF Denotes
  <2>6. \/ o \in {"AddReg", "And", "Ceq", "Cls", "Clu", "Jal", "Jmp", "Mov", "Mul", "Or", "Pop",
                  "Push", "Shl", "Sra", "Srl", "Sub", "Sxt", "Xor", "Zxt"}
        \/ o \in {"AddImm", "Bra", "Brf", "Brt", "Lb", "Lbu", "Lc", "Lcu", "Lw", "Sb", "Sw"}
        \/ o \in {"La", "SubSp"}
    BY <2>1 DEF Denotes
  <2>7. SizeOf[o] \in {1, 2, 4}
    BY <2>6, Sizes
  <2>8. o \in {"Bra", "Brf", "Brt"} => SizeOf[o] = 2
    BY Sizes
  <2>9. o \in {"La"} => SizeOf[o] = 4
    BY Sizes
  <2> QED BY <2>3, <2>4, <2>5, <2>7, <2>8, <2>9
<1> QED BY <1>1, <1>2

-----------------------------------------------------------------------------
(* The composition drives the Assembler by its own actions.                *)

\* A line of the source is a label, a .word, a .zero or an instruction.
LEMMA LineKinds ==
  ASSUME NEW s \in Sources, NEW i \in 1 .. Len(s)
  PROVE  \/ DOMAIN s[i] = {"label"} /\ s[i].label \in Labels
         \/ DOMAIN s[i] = {"words"} /\ s[i].words \in WordLines
         \/ DOMAIN s[i] = {"zero"} /\ s[i].zero \in ZeroSizes
         \/ DOMAIN s[i] = {"ins", "ops"} /\ Typed(s[i].ins, s[i].ops)
<1>1. s \in Seq(SourceText) /\ i \in DOMAIN s
  BY SourcesAssumption, LenProperties
<1>2. s[i] \in SourceText
  BY <1>1, ElementOfSeq, LenProperties
<1>3. CASE s[i] \in [ins : STRING, ops : Seq(Operand)]
  <2>1. DOMAIN s[i] = {"ins", "ops"} /\ s[i].ops \in Seq(Operand)
    BY <1>3
  <2>2. "ins" \in DOMAIN s[i]
    BY <2>1
  <2>3. /\ (s[i].ins \in DOMAIN BranchOpcode /\ Len(s[i].ops) > 0) => s[i].ops[1] \in Aim
        /\ (s[i].ins = "la" /\ Len(s[i].ops) > 1) => s[i].ops[2] \in Aim
    BY <1>1, <2>2, SourcesAssumption
  <2> QED BY <2>1, <2>3 DEF Typed
<1>4. CASE s[i] \in [label : Labels]
  BY <1>4
<1>5. CASE s[i] \in [words : WordLines]
  BY <1>5
<1>6. CASE s[i] \in [zero : ZeroSizes]
  BY <1>6
<1> QED BY <1>2, <1>3, <1>4, <1>5, <1>6 DEF SourceText

\* Reading an instruction, case by case.
LEMMA InstructionCases ==
  ASSUME NEW m, NEW ops, Typed(m, ops), ReadInstruction(m, ops), NEW b, b = Encoded(m, ops)
  PROVE  \/ b = Rejected /\ BadInstruction
         \/ /\ b # Rejected /\ Len(b) = 2 /\ m \in DOMAIN BranchOpcode /\ IsLabel(ops[1])
            /\ ops[1].label \in Labels
            /\ BranchKnown(ops[1].label) \/ BranchForward(ops[1].label)
         \/ /\ b # Rejected /\ Len(b) = 2 /\ m \in DOMAIN BranchOpcode /\ ~ IsLabel(ops[1])
            /\ BranchNumber(Number)
         \/ /\ b # Rejected /\ Len(b) = 4 /\ m = "la" /\ IsLabel(ops[2])
            /\ ops[2].label \in Labels
            /\ LaKnown(ops[2].label) \/ LaForward(ops[2].label)
         \/ /\ b # Rejected /\ Len(b) = 4 /\ m = "la" /\ ~ IsLabel(ops[2])
            /\ LaNumber(Number)
         \/ /\ b # Rejected /\ m \notin DOMAIN BranchOpcode /\ m # "la"
            /\ Len(b) \in {1, 2, 4} /\ Instruction(Len(b))
<1>1. CASE b = Rejected
  BY <1>1 DEF ReadInstruction
<1>2. CASE b # Rejected /\ m \in DOMAIN BranchOpcode
  <2>1. m # "nop" /\ m # "la"
    BY <1>2 DEF BranchOpcode
  <2>2. Len(ops) >= 1 /\ ops[1] \in Aim /\ Len(b) = 2
    BY <1>2, <2>1, Encodes, EncodedLength
  <2>3. IsLabel(ops[1]) => ops[1].label \in Labels
    <3>1. \/ DOMAIN ops[1] = {"num"}
          \/ DOMAIN ops[1] = {"label"} /\ ops[1].label \in Labels
      BY <2>2 DEF Aim
    <3> QED BY <3>1 DEF IsLabel
  <2>4. CASE IsLabel(ops[1])
    <3>1. BranchKnown(ops[1].label) \/ BranchForward(ops[1].label)
      BY <1>2, <2>1, <2>4 DEF ReadInstruction
    <3> QED BY <1>2, <2>2, <2>3, <2>4, <3>1
  <2>5. CASE ~ IsLabel(ops[1])
    <3>1. BranchNumber(Number)
      BY <1>2, <2>1, <2>5 DEF ReadInstruction
    <3> QED BY <1>2, <2>2, <2>5, <3>1
  <2> QED BY <2>4, <2>5
<1>3. CASE b # Rejected /\ m = "la"
  <2>1. m # "nop" /\ m \notin DOMAIN BranchOpcode
    BY <1>3 DEF BranchOpcode
  <2>2. Len(ops) >= 2 /\ ops[2] \in Aim /\ Len(b) = 4
    BY <1>3, <2>1, Encodes, EncodedLength
  <2>3. IsLabel(ops[2]) => ops[2].label \in Labels
    <3>1. \/ DOMAIN ops[2] = {"num"}
          \/ DOMAIN ops[2] = {"label"} /\ ops[2].label \in Labels
      BY <2>2 DEF Aim
    <3> QED BY <3>1 DEF IsLabel
  <2>4. CASE IsLabel(ops[2])
    <3>1. LaKnown(ops[2].label) \/ LaForward(ops[2].label)
      BY <1>3, <2>1, <2>4 DEF ReadInstruction
    <3> QED BY <1>3, <2>2, <2>3, <2>4, <3>1
  <2>5. CASE ~ IsLabel(ops[2])
    <3>1. LaNumber(Number)
      BY <1>3, <2>1, <2>5 DEF ReadInstruction
    <3> QED BY <1>3, <2>2, <2>5, <3>1
  <2> QED BY <2>4, <2>5
<1>4. CASE b # Rejected /\ m \notin DOMAIN BranchOpcode /\ m # "la"
  <2>1. Instruction(Len(b))
    BY <1>4 DEF ReadInstruction
  <2>2. Len(b) \in {1, 2, 4}
    BY <1>4, EncodedLength
  <2> QED BY <1>4, <2>1, <2>2
<1> QED BY <1>1, <1>2, <1>3, <1>4

\* Every step of the first stage is a step of the Assembler.
LEMMA AssemblerSteps ==
  ASSUME source \in Sources, Assemble
  PROVE  Next
<1>1. CASE Start
  BY <1>1 DEF Start, Next
<1>2. CASE WordKnown \/ WordForward
  BY <1>2 DEF Next, FirstPass, Directive
<1>3. CASE EndOfSource \/ SecondPass
  BY <1>3 DEF Next, FirstPass
<1>4. CASE ReadLine
  <2>1. Len(src) < Len(source)
    BY <1>4 DEF ReadLine
  <2>2. Len(src) + 1 \in 1 .. Len(source)
    BY <1>4 DEF ReadLine
  <2> DEFINE line == source[Len(src) + 1]
  <2>3. \/ DOMAIN line = {"label"} /\ line.label \in Labels
        \/ DOMAIN line = {"words"} /\ line.words \in WordLines
        \/ DOMAIN line = {"zero"} /\ line.zero \in ZeroSizes
        \/ DOMAIN line = {"ins", "ops"} /\ Typed(line.ins, line.ops)
    BY <2>2, LineKinds
  <2>4. \/ "label" \in DOMAIN line /\ LabelLine(line.label)
        \/ "words" \in DOMAIN line /\ WordLine(line.words)
        \/ "zero"  \in DOMAIN line /\ Zero(line.zero)
        \/ "ins"   \in DOMAIN line /\ ReadInstruction(line.ins, line.ops)
    BY <1>4 DEF ReadLine
  <2> HIDE DEF line
  <2>5. CASE DOMAIN line = {"label"} /\ line.label \in Labels
    <3>1. LabelLine(line.label)
      BY <2>4, <2>5
    <3> QED BY <2>5, <3>1 DEF Next, FirstPass
  <2>6. CASE DOMAIN line = {"words"} /\ line.words \in WordLines
    <3>1. WordLine(line.words)
      BY <2>4, <2>6
    <3> QED BY <2>6, <3>1 DEF Next, FirstPass, Directive
  <2>7. CASE DOMAIN line = {"zero"} /\ line.zero \in ZeroSizes
    <3>1. Zero(line.zero)
      BY <2>4, <2>7
    <3> QED BY <2>7, <3>1 DEF Next, FirstPass, Directive
  <2>8. CASE DOMAIN line = {"ins", "ops"} /\ Typed(line.ins, line.ops)
    <3>1. ReadInstruction(line.ins, line.ops)
      BY <2>4, <2>8
    <3>2. {1, 2, 4} \subseteq InstSizes
      BY SizeAssumption
    <3>3. PICK b : b = Encoded(line.ins, line.ops)
      OBVIOUS
    <3>4. PICK m : m = line.ins
      OBVIOUS
    <3>5. PICK ops : ops = line.ops
      OBVIOUS
    <3>6. Typed(m, ops) /\ ReadInstruction(m, ops) /\ b = Encoded(m, ops)
      BY <2>8, <3>1, <3>3, <3>4, <3>5, Zenon
    <3>7. \/ BadInstruction
          \/ \E l \in Labels : BranchKnown(l) \/ BranchForward(l)
          \/ BranchNumber(Number)
          \/ \E l \in Labels : LaKnown(l) \/ LaForward(l)
          \/ LaNumber(Number)
          \/ \E k \in InstSizes : Instruction(k)
      BY <3>2, <3>6, InstructionCases, Zenon
    <3>8. Encode
      BY <3>7 DEF Encode, Operands
    <3> QED BY <3>8 DEF Next, FirstPass
  <2> QED BY <2>3, <2>5, <2>6, <2>7, <2>8
<1> QED BY <1>1, <1>2, <1>3, <1>4 DEF Assemble

SourceKnown == source \in Sources

\* The source stays one of the programs.
LEMMA SourceKept ==
  System => []SourceKnown
<1>1. StartUp => SourceKnown
  BY DEF StartUp, SourceKnown
<1>2. SourceKnown /\ [Advance]_state => SourceKnown'
  BY DEF Advance, Assemble, Load, Enter, Execute, state, SourceKnown
<1> QED BY <1>1, <1>2, PTL DEF System

\* Every behaviour of the composition is one of the Assembler: an invariant or
\* an action property of Assembler.tla is one of this system.
THEOREM AssemblerCorrect == System => Spec
<1>1. StartUp => Init
  BY DEF StartUp
<1>2. SourceKnown /\ [Advance]_state => [Next]_vars
  <2> SUFFICES ASSUME SourceKnown, [Advance]_state PROVE [Next]_vars
    OBVIOUS
  <2>1. CASE Assemble
    BY <2>1, AssemblerSteps DEF SourceKnown
  <2>2. CASE Load \/ Enter \/ Execute
    <3>1. UNCHANGED asm
      BY <2>2 DEF Load, Enter, Execute
    <3> QED BY <3>1 DEF asm
  <2>3. CASE UNCHANGED state
    BY <2>3 DEF state, asm
  <2> QED BY <2>1, <2>2, <2>3 DEF Advance
<1> QED BY <1>1, <1>2, SourceKept, PTL DEF System, Spec

-----------------------------------------------------------------------------
(* The history of the source: what the assembler has read is the source,   *)
(* line by line, and what it has emitted is in the order of the lines.     *)

Bytes(line) == Encoded(line.ins, line.ops)

\* The target of a branch or of a la, and whether it is a name.
Aimed(line) == line.ops[IF line.ins = "la" THEN 2 ELSE 1]

Labelled(line) ==
  (line.ins \in DOMAIN BranchOpcode \/ line.ins = "la") /\ IsLabel(Aimed(line))

Kind(m) == IF m \in DOMAIN BranchOpcode THEN "branch" ELSE IF m = "la" THEN "la" ELSE "instruction"

\* A line that an encoder accepts.
Accepted(line) == "ins" \in DOMAIN line /\ Bytes(line) # Rejected

\* What the history keeps of a line.
Records(line, op, refs, n) ==
  /\ "ins" \notin DOMAIN line => op \in {"label", "word", "zero"}
  /\ ("ins" \in DOMAIN line /\ ~ Accepted(line)) => op = "bad"
  /\ Accepted(line) => /\ op = Kind(line.ins) /\ n = Len(Bytes(line))
                       /\ Labelled(line) => refs = <<Aimed(line).label>>

\* The cells that the text of an instruction fixes: all but a label's.
FixedCells(line, cells) ==
  /\ cells[1] = Opaque
  /\ ~ Labelled(line) => \A k \in 1 .. Len(Bytes(line)) : cells[k] = Opaque

\* A line is read, and emits these cells.
ReadsLine(op, def, refs, n, cells) ==
  /\ Read(op, def, refs, n)
  /\ output' = output \o cells /\ address' = Plus(address, Len(cells))
  /\ base_address' = base_address
  /\ pc = "pass1" /\ pc' = (IF op = "word" THEN "word" ELSE "pass1")
  /\ errors' = <<>> => /\ errors = <<>>
                       /\ op # "word" => n = Len(cells)
                       /\ op # "bad"
  /\ op = "word" => cells = <<>>
  /\ op \in {"label", "word", "zero"} => \A k \in 1 .. Len(cells) : cells[k] # Opaque

\* A line that emits nothing leaves the output and the address.
LEMMA NoCells ==
  ASSUME TypeOK
  PROVE  /\ output \o <<>> = output /\ Plus(address, Len(<<>>)) = address
         /\ Len(<<>>) = 0 /\ <<>> \in Seq(Cell)
<1>1. output \o <<>> = output
  BY DEF TypeOK
<1>2. Plus(address, 0) = address
  BY WidthAssumption DEF TypeOK, Addr, Plus
<1> QED BY <1>1, <1>2

\* What a directive emits is a byte.
LEMMA ZeroCells ==
  ASSUME NEW n
  PROVE  /\ \A k \in 1 .. Len(<<>>) : <<>>[k] # Opaque
         /\ \A k \in 1 .. n : Repeat(n, 0)[k] # Opaque
<1>1. 0 # Opaque
  BY ByteNotOpaque
<1>2. \A k \in 1 .. n : Repeat(n, 0)[k] = 0
  BY DEF Repeat
<1>3. Len(<<>>) = 0
  OBVIOUS
<1> QED BY <1>1, <1>2, <1>3

\* The cells of an instruction without a label.
LEMMA OpaqueCells ==
  ASSUME NEW n \in {1, 2, 4}
  PROVE  /\ Repeat(n, Opaque) \in Seq(Cell) /\ Len(Repeat(n, Opaque)) = n
         /\ \A k \in 1 .. n : Repeat(n, Opaque)[k] = Opaque
         /\ Repeat(n, Opaque)[1] = Opaque
<1>1. Repeat(n, Opaque) \in Seq(Cell) /\ Len(Repeat(n, Opaque)) = n
  BY RepeatType, CellValues
<1>2. \A k \in 1 .. n : Repeat(n, Opaque)[k] = Opaque
  BY DEF Repeat
<1>3. 1 \in 1 .. n
  OBVIOUS
<1> QED BY <1>1, <1>2, <1>3

\* The lines that are not instructions.
LEMMA DirectiveRead ==
  ASSUME TypeOK, NEW line, "ins" \notin DOMAIN line
  PROVE  /\ \A l \in Labels : LabelLine(l) =>
              Records(line, "label", <<>>, 0) /\ ReadsLine("label", {l}, <<>>, 0, <<>>)
         /\ \A ops \in WordLines : WordLine(ops) =>
              /\ Records(line, "word", ops, 3 * Len(ops))
              /\ ReadsLine("word", {}, ops, 3 * Len(ops), <<>>)
         /\ \A n \in ZeroSizes : Zero(n) =>
              /\ Records(line, "zero", <<>>, n) /\ ReadsLine("zero", {}, <<>>, n, Repeat(n, 0))
              /\ Repeat(n, 0) \in Seq(Cell) /\ Len(Repeat(n, 0)) = n
<1>1. \A refs, n : \A op \in {"label", "word", "zero"} : Records(line, op, refs, n)
  BY DEF Records, Accepted
<1>2. ASSUME NEW l \in Labels, LabelLine(l)
      PROVE  ReadsLine("label", {l}, <<>>, 0, <<>>)
  BY <1>2, NoCells, ZeroCells DEF LabelLine, ReadsLine, Reading
<1>3. ASSUME NEW ops \in WordLines, WordLine(ops)
      PROVE  ReadsLine("word", {}, ops, 3 * Len(ops), <<>>)
  <2>1. UNCHANGED <<output, address, base_address, errors>>
    BY <1>3 DEF WordLine, code
  <2> QED BY <1>3, <2>1, NoCells, ZeroCells DEF WordLine, ReadsLine, Reading
<1>4. ASSUME NEW n \in ZeroSizes, Zero(n)
      PROVE  /\ ReadsLine("zero", {}, <<>>, n, Repeat(n, 0))
             /\ Repeat(n, 0) \in Seq(Cell) /\ Len(Repeat(n, 0)) = n
  <2>1. n \in Nat
    BY SourceAssumption DEF Addr
  <2>2. Repeat(n, 0) \in Seq(Cell) /\ Len(Repeat(n, 0)) = n
    BY <2>1, RepeatType, CellValues
  <2> QED BY <1>4, <2>2, ZeroCells DEF Zero, EmitDirective, ReadsLine, Reading
<1> QED BY <1>1, <1>2, <1>3, <1>4

\* What the history has to say of an instruction.
LEMMA RecordsIntro ==
  ASSUME NEW line, "ins" \in DOMAIN line, NEW op, NEW refs, NEW n,
         Bytes(line) = Rejected => op = "bad",
         Bytes(line) # Rejected =>
           /\ op = Kind(line.ins) /\ n = Len(Bytes(line))
           /\ Labelled(line) => refs = <<Aimed(line).label>>
  PROVE  Records(line, op, refs, n)
BY DEF Records, Accepted

\* The lines that are.
LEMMA InstructionRead ==
  ASSUME TypeOK, NEW line, "ins" \in DOMAIN line, Typed(line.ins, line.ops),
         ReadInstruction(line.ins, line.ops)
  PROVE  \E op, refs, n : \E cells \in Seq(Cell) :
           /\ ReadsLine(op, {}, refs, n, cells) /\ Records(line, op, refs, n)
           /\ (errors' = <<>> /\ Accepted(line)) => FixedCells(line, cells)
<1>1. PICK m, ops, b : m = line.ins /\ ops = line.ops /\ b = Bytes(line)
  OBVIOUS
<1>2. Typed(m, ops) /\ ReadInstruction(m, ops) /\ b = Encoded(m, ops)
  BY <1>1, Zenon DEF Bytes
<1>3. /\ Labelled(line) <=> (m \in DOMAIN BranchOpcode \/ m = "la") /\ IsLabel(Aimed(line))
      /\ m = "la" => Aimed(line) = ops[2]
      /\ m # "la" => Aimed(line) = ops[1]
  BY <1>1 DEF Labelled, Aimed
<1>4. CASE b = Rejected /\ BadInstruction
  <2>1. ReadsLine("bad", {}, <<>>, 0, <<>>) /\ ~ Accepted(line)
    <3>1. errors' # <<>>
      BY <1>4, ErrorCounts DEF BadInstruction
    <3> QED BY <1>1, <1>4, <3>1 DEF BadInstruction, ReadsLine, Reading, EmitInstruction, Accepted
  <2>2. Records(line, "bad", <<>>, 0)
    BY <2>1 DEF Records
  <2> QED BY <2>1, <2>2, NoCells
<1>5. ASSUME b # Rejected, Len(b) = 2, m \in DOMAIN BranchOpcode, IsLabel(ops[1]),
             NEW l \in Labels, l = ops[1].label, BranchKnown(l)
      PROVE  \E cells \in Seq(Cell) :
               /\ ReadsLine("branch", {}, <<l>>, 2, cells)
               /\ errors' = <<>> => cells[1] = Opaque
  <2> DEFINE offset == Displacement(labels[l], address)
  <2>1. /\ Reading /\ Read("branch", {}, <<l>>, 2)
        /\ IF FitsByte(offset)
           THEN EmitInstruction(<<Opaque, offset % ByteMod>>) /\ UNCHANGED errors
           ELSE EmitInstruction(<<>>) /\ Error(ThisLine, "tooFar")
        /\ UNCHANGED base_address /\ UNCHANGED pc
    BY <1>5 DEF BranchKnown
  <2>2. offset % ByteMod \in Cell
    <3>1. labels[l] \in Addr
      BY <1>5, SymbolsAssumption DEF BranchKnown, Defined, TypeOK
    <3>2. address \in Addr
      BY DEF TypeOK
    <3>3. Displacement(labels[l], address) \in Int
      <4>1. PICK x, y : x = labels[l] /\ y = Plus(address, 4)
        OBVIOUS
      <4>2. x \in Int /\ y \in Int /\ AddrMod \in Int
        BY <3>1, <3>2, <4>1, PlusType, CellValues, WidthAssumption DEF Addr
      <4>3. Signed(x) \in Int /\ Signed(y) \in Int
        BY <4>2 DEF Signed
      <4> QED BY <4>1, <4>2, <4>3 DEF Displacement, Minus
    <3> QED BY <3>3, ByteType DEF Cell
  <2> HIDE DEF offset
  <2>3. CASE FitsByte(offset)
    <3>1. PICK cells : cells = <<Opaque, offset % ByteMod>>
      OBVIOUS
    <3>2. cells \in Seq(Cell) /\ Len(cells) = 2 /\ cells[1] = Opaque
      BY <2>2, <3>1, CellValues
    <3>3. ReadsLine("branch", {}, <<l>>, 2, cells)
      BY <2>1, <2>3, <3>1, <3>2 DEF ReadsLine, Reading, EmitInstruction
    <3> QED BY <3>2, <3>3
  <2>4. CASE ~ FitsByte(offset)
    <3>1. errors' # <<>>
      BY <2>1, <2>4, ErrorCounts
    <3>2. ReadsLine("branch", {}, <<l>>, 2, <<>>)
      BY <2>1, <2>4, <3>1 DEF ReadsLine, Reading, EmitInstruction
    <3> QED BY <3>1, <3>2, NoCells
  <2> QED BY <2>3, <2>4
<1>6. ASSUME b # Rejected, Len(b) = 2, m \in DOMAIN BranchOpcode, IsLabel(ops[1]),
             NEW l \in Labels, l = ops[1].label, BranchForward(l)
      PROVE  \E cells \in Seq(Cell) :
               /\ ReadsLine("branch", {}, <<l>>, 2, cells)
               /\ errors' = <<>> => cells[1] = Opaque
  <2>1. PICK cells : cells = <<Opaque, 0>>
    OBVIOUS
  <2>2. cells \in Seq(Cell) /\ Len(cells) = 2 /\ cells[1] = Opaque
    BY <2>1, CellValues
  <2>3. ReadsLine("branch", {}, <<l>>, 2, cells)
    BY <1>6, <2>1, <2>2 DEF BranchForward, ReadsLine, Reading, EmitInstruction
  <2> QED BY <2>2, <2>3
<1>7. ASSUME b # Rejected, Len(b) = 4, m = "la", IsLabel(ops[2]),
             NEW l \in Labels, l = ops[2].label, LaKnown(l) \/ LaForward(l)
      PROVE  \E cells \in Seq(Cell) :
               /\ ReadsLine("la", {}, <<l>>, 4, cells)
               /\ errors' = <<>> => cells[1] = Opaque
  <2>1. PICK s \in Seq(Cell) :
          /\ Len(s) = 3 /\ Reading /\ Read("la", {}, <<l>>, 4)
          /\ EmitInstruction(<<Opaque>> \o s)
          /\ UNCHANGED <<base_address, pc, errors>>
    <3>1. CASE LaKnown(l)
      <4>1. labels[l] \in Addr
        BY <1>7, <3>1, SymbolsAssumption DEF LaKnown, Defined, TypeOK
      <4> QED BY <3>1, <4>1, Address24Type DEF LaKnown
    <3>2. CASE LaForward(l)
      <4>1. PICK k \in Int, z \in Cell : k = 3 /\ z = 0
        BY CellValues
      <4>3. /\ Repeat(k, z) \in Seq(Cell)
            /\ Len(Repeat(k, z)) = IF k > 0 THEN k ELSE 0
        BY RepeatType, Zenon
      <4>2. Repeat(k, z) \in Seq(Cell) /\ Len(Repeat(k, z)) = 3
        BY ONLY <4>1, <4>3
      <4> QED BY <3>2, <4>1, <4>2 DEF LaForward
    <3> QED BY <1>7, <3>1, <3>2
  <2>2. PICK cells : cells = <<Opaque>> \o s
    OBVIOUS
  <2>3. cells \in Seq(Cell) /\ Len(cells) = 4
    BY <2>1, <2>2, LaCells
  <2>4. cells[1] = Opaque
    BY <2>2
  <2>5. ReadsLine("la", {}, <<l>>, 4, cells)
    BY <2>1, <2>2, <2>3 DEF ReadsLine, Reading, EmitInstruction
  <2> QED BY <2>3, <2>4, <2>5
<1>8. ASSUME b # Rejected, Len(b) \in {1, 2, 4}, ~ Labelled(line), NEW op, NEW refs,
             op = Kind(m),
             Reading, Read(op, {}, refs, Len(b)), EmitInstruction(Repeat(Len(b), Opaque)),
             UNCHANGED <<base_address, pc, errors>>
      PROVE  \E n : \E cells \in Seq(Cell) :
               /\ ReadsLine(op, {}, refs, n, cells) /\ Records(line, op, refs, n)
               /\ FixedCells(line, cells)
  <2>1. PICK cells : cells = Repeat(Len(b), Opaque)
    OBVIOUS
  <2>2. /\ cells \in Seq(Cell) /\ Len(cells) = Len(b) /\ cells[1] = Opaque
        /\ \A k \in 1 .. Len(b) : cells[k] = Opaque
    BY <1>8, <2>1, OpaqueCells
  <2>6. op \notin {"label", "word", "zero", "bad"}
    BY <1>8 DEF Kind
  <2>3. ReadsLine(op, {}, refs, Len(b), cells)
    BY <1>8, <2>1, <2>2, <2>6 DEF ReadsLine, Reading, EmitInstruction
  <2>4. Records(line, op, refs, Len(b))
    BY <1>1, <1>8, RecordsIntro
  <2>5. FixedCells(line, cells)
    BY <1>1, <2>2 DEF FixedCells
  <2> QED BY <2>2, <2>3, <2>4, <2>5
<1>9. ASSUME b # Rejected, Labelled(line), NEW op, NEW l, NEW n, NEW cells \in Seq(Cell),
             ReadsLine(op, {}, <<l>>, n, cells), errors' = <<>> => cells[1] = Opaque,
             op = Kind(m), n = Len(b), l = Aimed(line).label
      PROVE  \E refs, k : \E cs \in Seq(Cell) :
               /\ ReadsLine(op, {}, refs, k, cs) /\ Records(line, op, refs, k)
               /\ (errors' = <<>> /\ Accepted(line)) => FixedCells(line, cs)
  <2>1. Records(line, op, <<l>>, n)
    BY <1>1, <1>9, RecordsIntro
  <2>2. errors' = <<>> => FixedCells(line, cells)
    BY <1>9 DEF FixedCells
  <2> QED BY <1>9, <2>1, <2>2
<1>10. CASE b # Rejected /\ Len(b) = 2 /\ m \in DOMAIN BranchOpcode
            /\ ((IsLabel(ops[1]) /\ ops[1].label \in Labels
                 /\ (BranchKnown(ops[1].label) \/ BranchForward(ops[1].label)))
                \/ (~ IsLabel(ops[1]) /\ BranchNumber(Number)))
  <2>1. m # "la" /\ Kind(m) = "branch"
    BY <1>10 DEF Kind, BranchOpcode
  <2>2. CASE IsLabel(ops[1])
    <3>1. PICK l \in Labels : l = ops[1].label
      BY <1>10, <2>2
    <3>2. BranchKnown(l) \/ BranchForward(l)
      BY <1>10, <2>2, <3>1, Zenon
    <3>3. PICK cells \in Seq(Cell) :
               /\ ReadsLine("branch", {}, <<l>>, 2, cells)
               /\ errors' = <<>> => cells[1] = Opaque
      BY <1>5, <1>6, <1>10, <2>2, <3>1, <3>2
    <3>4. Labelled(line) /\ l = Aimed(line).label
      BY <1>3, <1>10, <2>1, <2>2, <3>1
    <3> QED BY <1>9, <1>10, <2>1, <3>3, <3>4
  <2>3. CASE ~ IsLabel(ops[1])
    <3>1. ~ Labelled(line)
      BY <1>3, <2>1, <2>3
    <3>2. /\ Reading /\ Read("branch", {}, <<Number>>, Len(b))
          /\ EmitInstruction(Repeat(Len(b), Opaque))
          /\ UNCHANGED <<base_address, pc, errors>>
      BY <1>10, <2>3 DEF BranchNumber
    <3>3. PICK n : \E cells \in Seq(Cell) :
               /\ ReadsLine("branch", {}, <<Number>>, n, cells)
               /\ Records(line, "branch", <<Number>>, n)
               /\ FixedCells(line, cells)
      BY <1>8, <1>10, <2>1, <3>1, <3>2
    <3> QED BY <3>3
  <2> QED BY <2>2, <2>3
<1>11. CASE b # Rejected /\ Len(b) = 4 /\ m = "la"
            /\ ((IsLabel(ops[2]) /\ ops[2].label \in Labels
                 /\ (LaKnown(ops[2].label) \/ LaForward(ops[2].label)))
                \/ (~ IsLabel(ops[2]) /\ LaNumber(Number)))
  <2>1. m \notin DOMAIN BranchOpcode /\ Kind(m) = "la"
    BY <1>11 DEF Kind, BranchOpcode
  <2>2. CASE IsLabel(ops[2])
    <3>1. PICK l \in Labels : l = ops[2].label
      BY <1>11, <2>2
    <3>2. LaKnown(l) \/ LaForward(l)
      BY <1>11, <2>2, <3>1, Zenon
    <3>3. PICK cells \in Seq(Cell) :
               /\ ReadsLine("la", {}, <<l>>, 4, cells)
               /\ errors' = <<>> => cells[1] = Opaque
      BY <1>7, <1>11, <2>2, <3>1, <3>2
    <3>4. Labelled(line) /\ l = Aimed(line).label
      BY <1>3, <1>11, <2>1, <2>2, <3>1
    <3> QED BY <1>9, <1>11, <2>1, <3>3, <3>4
  <2>3. CASE ~ IsLabel(ops[2])
    <3>1. ~ Labelled(line)
      BY <1>3, <1>11, <2>1, <2>3
    <3>2. /\ Reading /\ Read("la", {}, <<Number>>, Len(b))
          /\ EmitInstruction(Repeat(Len(b), Opaque))
          /\ UNCHANGED <<base_address, pc, errors>>
      BY <1>11, <2>3 DEF LaNumber
    <3>3. PICK n : \E cells \in Seq(Cell) :
               /\ ReadsLine("la", {}, <<Number>>, n, cells)
               /\ Records(line, "la", <<Number>>, n)
               /\ FixedCells(line, cells)
      BY <1>8, <1>11, <2>1, <3>1, <3>2
    <3> QED BY <3>3
  <2> QED BY <2>2, <2>3
<1>12. CASE b # Rejected /\ m \notin DOMAIN BranchOpcode /\ m # "la"
            /\ Len(b) \in {1, 2, 4} /\ Instruction(Len(b))
  <2>1. Kind(m) = "instruction" /\ ~ Labelled(line)
    BY <1>3, <1>12 DEF Kind
  <2>2. /\ Reading /\ Read("instruction", {}, <<>>, Len(b))
        /\ EmitInstruction(Repeat(Len(b), Opaque))
        /\ UNCHANGED <<base_address, pc, errors>>
    BY <1>12 DEF Instruction
  <2>3. PICK n : \E cells \in Seq(Cell) :
             /\ ReadsLine("instruction", {}, <<>>, n, cells)
             /\ Records(line, "instruction", <<>>, n)
             /\ FixedCells(line, cells)
    BY <1>8, <1>12, <2>1, <2>2
  <2> QED BY <2>3
<1> QED BY <1>2, <1>4, <1>10, <1>11, <1>12, InstructionCases, ZenonT(60)

\* Whatever the line.
LEMMA LineRead ==
  ASSUME TypeOK, source \in Sources, ReadLine, NEW line, line = source[Len(src) + 1]
  PROVE  /\ Len(src) < Len(source)
         /\ \E op, def, refs, n : \E cells \in Seq(Cell) :
              /\ ReadsLine(op, def, refs, n, cells) /\ Records(line, op, refs, n)
              /\ (errors' = <<>> /\ Accepted(line)) => FixedCells(line, cells)
<1>1. Len(src) < Len(source) /\ Len(src) + 1 \in 1 .. Len(source)
  BY DEF ReadLine
<1>2. \/ DOMAIN line = {"label"} /\ line.label \in Labels
      \/ DOMAIN line = {"words"} /\ line.words \in WordLines
      \/ DOMAIN line = {"zero"} /\ line.zero \in ZeroSizes
      \/ DOMAIN line = {"ins", "ops"} /\ Typed(line.ins, line.ops)
  BY <1>1, LineKinds
<1>3. \/ "label" \in DOMAIN line /\ LabelLine(line.label)
      \/ "words" \in DOMAIN line /\ WordLine(line.words)
      \/ "zero"  \in DOMAIN line /\ Zero(line.zero)
      \/ "ins"   \in DOMAIN line /\ ReadInstruction(line.ins, line.ops)
  BY DEF ReadLine
<1>4. CASE DOMAIN line = {"ins", "ops"} /\ Typed(line.ins, line.ops)
  <2>1. "ins" \in DOMAIN line /\ ReadInstruction(line.ins, line.ops)
    BY <1>3, <1>4
  <2> QED BY <1>1, <1>4, <2>1, InstructionRead
<1>5. CASE "ins" \notin DOMAIN line
  <2>1. ~ Accepted(line)
    BY <1>5 DEF Accepted
  <2>2. CASE DOMAIN line = {"label"} /\ line.label \in Labels
    <3>1. PICK l \in Labels : l = line.label /\ LabelLine(l)
      BY <1>3, <2>2
    <3>2. Records(line, "label", <<>>, 0) /\ ReadsLine("label", {l}, <<>>, 0, <<>>)
      BY <1>5, <3>1, DirectiveRead
    <3> QED BY <1>1, <2>1, <3>2, NoCells
  <2>3. CASE DOMAIN line = {"words"} /\ line.words \in WordLines
    <3>1. PICK ops \in WordLines : ops = line.words /\ WordLine(ops)
      BY <1>3, <2>3
    <3>2. /\ Records(line, "word", ops, 3 * Len(ops))
          /\ ReadsLine("word", {}, ops, 3 * Len(ops), <<>>)
      BY <1>5, <3>1, DirectiveRead
    <3> QED BY <1>1, <2>1, <3>2, NoCells
  <2>4. CASE DOMAIN line = {"zero"} /\ line.zero \in ZeroSizes
    <3>1. PICK n \in ZeroSizes : n = line.zero /\ Zero(n)
      BY <1>3, <2>4
    <3>2. PICK cells \in Seq(Cell) : cells = Repeat(n, 0)
      BY <1>5, <3>1, DirectiveRead
    <3>3. Records(line, "zero", <<>>, n) /\ ReadsLine("zero", {}, <<>>, n, cells)
      BY <1>5, <3>1, <3>2, DirectiveRead
    <3> QED BY <1>1, <2>1, <3>3
  <2> QED BY <1>2, <1>5, <2>2, <2>3, <2>4
<1> QED BY <1>2, <1>4, <1>5

\* The source, as far as it has been read.
Transcribed ==
  /\ Len(src) <= Len(source)
  /\ \A i \in DOMAIN src : Records(source[i], src[i].op, src[i].refs, src[i].n)

\* The lines follow one another in the output; a .word may not be complete.
Chained ==
  errors = <<>> =>
    \A i \in DOMAIN src :
      /\ \A j \in DOMAIN src : i < j => src[i].pos + src[i].n <= src[j].pos
      /\ (pc = "word" /\ i = Len(src)) \/ src[i].pos + src[i].n <= Len(output)

\* Addresses count the bytes from the base, until they run out.
Placed ==
  /\ base_address + Len(output) < AddrMod => address = base_address + Len(output)
  /\ \A i \in DOMAIN src :
       /\ src[i].pos <= Len(output)
       /\ base_address + src[i].pos < AddrMod => src[i].at = base_address + src[i].pos

\* What the text fixes is left to the encoder, and no patch is over it.
Fixed ==
  (errors = <<>> /\ Flat) =>
    \A i \in DOMAIN src : Accepted(source[i]) =>
      /\ output[src[i].pos + 1] = Opaque
      /\ ~ Labelled(source[i]) =>
           \A k \in 1 .. Len(Bytes(source[i])) : output[src[i].pos + k] = Opaque

HInv == Transcribed /\ Chained /\ Placed /\ Fixed

\* The bytes of an accepted instruction.
LEMMA AcceptedBytes ==
  ASSUME NEW s \in Sources, NEW i \in 1 .. Len(s), Accepted(s[i])
  PROVE  /\ DOMAIN s[i] = {"ins", "ops"} /\ Typed(s[i].ins, s[i].ops)
         /\ Len(Bytes(s[i])) \in {1, 2, 4} /\ Bytes(s[i]) \in Seq(Machine!Byte)
         /\ s[i].ins \in DOMAIN BranchOpcode => Len(Bytes(s[i])) = 2
         /\ s[i].ins = "la" => Len(Bytes(s[i])) = 4
<1>1. "ins" \in DOMAIN s[i]
  BY DEF Accepted
<1>2. DOMAIN s[i] = {"ins", "ops"} /\ Typed(s[i].ins, s[i].ops)
  BY <1>1, LineKinds
<1>3. PICK m, ops, b : m = s[i].ins /\ ops = s[i].ops /\ b = Bytes(s[i])
  OBVIOUS
<1>4. Typed(m, ops) /\ b = Encoded(m, ops) /\ b # Rejected
  BY <1>2, <1>3, Zenon DEF Accepted, Bytes
<1>5. /\ Len(b) \in {1, 2, 4} /\ b \in Seq(Machine!Byte)
      /\ m \in DOMAIN BranchOpcode => Len(b) = 2
      /\ m = "la" => Len(b) = 4
  BY <1>4, EncodedLength
<1> QED BY <1>2, <1>3, <1>5, Zenon

\* What a line that is read leaves as it was.
LEMMA LineAdds ==
  ASSUME TypeOK, TypeOK', NEW op, NEW def, NEW refs, NEW n, NEW cells \in Seq(Cell),
         ReadsLine(op, def, refs, n, cells), NEW N, N = Len(src) + 1
  PROVE  /\ N \in Nat \ {0} /\ Len(src) \in Nat /\ DOMAIN src = 1 .. Len(src)
         /\ Len(src') = N /\ DOMAIN src' = 1 .. N
         /\ \A i \in 1 .. Len(src) : src'[i] = src[i] /\ i \in 1 .. N
         /\ \A i \in 1 .. N : i \in DOMAIN src \/ i = N
         /\ src'[N].op = op /\ src'[N].refs = refs /\ src'[N].n = n
         /\ src'[N].pos = Len(output) /\ src'[N].at = address
         /\ Len(output) \in Nat /\ Len(cells) \in Nat /\ Len(output') = Len(output) + Len(cells)
         /\ \A k \in 1 .. Len(output) : output'[k] = output[k]
         /\ \A k \in 1 .. Len(cells) : output'[Len(output) + k] = cells[k]
         /\ Flat' => Flat
<1>1. Read(op, def, refs, n) /\ output' = output \o cells
  BY DEF ReadsLine
<1>2. output \in Seq(Cell) /\ src' \in Seq(SourceLine)
  BY DEF TypeOK
<1>3. /\ Len(src) \in Nat /\ DOMAIN src = 1 .. Len(src)
      /\ Len(src') = N /\ DOMAIN src' = 1 .. N
      /\ \A i \in 1 .. Len(src) : src'[i] = src[i]
      /\ src'[N] = Entry(op, def, refs, n)
  BY <1>1, OldLines, SrcShape
<1>4. /\ src'[N].op = op /\ src'[N].refs = refs /\ src'[N].n = n
      /\ src'[N].pos = Len(output) /\ src'[N].at = address
  BY <1>3 DEF Entry
<1>5. /\ Len(output) \in Nat /\ Len(cells) \in Nat /\ Len(output') = Len(output) + Len(cells)
      /\ \A k \in 1 .. Len(output) : output'[k] = output[k]
      /\ \A k \in 1 .. Len(cells) : output'[Len(output) + k] = cells[k]
  BY <1>1, <1>2, ConcatProperties, LenProperties
<1>6. Flat' => Flat
  BY <1>1, <1>2, ReadKeepsPrefix
<1>7. /\ N \in Nat \ {0} /\ \A i \in 1 .. Len(src) : i \in 1 .. N
      /\ \A i \in 1 .. N : i \in 1 .. Len(src) \/ i = N
  BY <1>3
<1> QED BY <1>3, <1>4, <1>5, <1>6, <1>7

\* The numbers of a line.
LEMMA LineNumbers ==
  ASSUME TypeOK, NEW i \in DOMAIN src
  PROVE  src[i].pos \in Nat /\ src[i].n \in Nat /\ src[i].at \in Addr /\ i \in Nat \ {0}
<1>1. src[i] \in SourceLine /\ i \in 1 .. Len(src) /\ Len(src) \in Nat
  BY SrcShape
<1> QED BY <1>1 DEF SourceLine

\* Reading a line keeps the history.
LEMMA LineKept ==
  ASSUME TypeOK, TypeOK', source \in Sources, HInv, ReadLine, UNCHANGED source
  PROVE  HInv'
<1>1. PICK N : N = Len(src) + 1
  OBVIOUS
<1>2. PICK line : line = source[N]
  OBVIOUS
<1>3. Len(src) < Len(source)
  BY <1>1, <1>2, LineRead
<1>4. PICK op, def, refs, n : \E cells \in Seq(Cell) :
        /\ ReadsLine(op, def, refs, n, cells) /\ Records(line, op, refs, n)
        /\ (errors' = <<>> /\ Accepted(line)) => FixedCells(line, cells)
  BY <1>1, <1>2, LineRead
<1>5. PICK cells \in Seq(Cell) :
        /\ ReadsLine(op, def, refs, n, cells) /\ Records(line, op, refs, n)
        /\ (errors' = <<>> /\ Accepted(line)) => FixedCells(line, cells)
  BY <1>4
<1>6. /\ N \in Nat \ {0} /\ Len(src) \in Nat /\ DOMAIN src = 1 .. Len(src)
      /\ Len(src') = N /\ DOMAIN src' = 1 .. N
      /\ \A i \in 1 .. Len(src) : src'[i] = src[i] /\ i \in 1 .. N
      /\ \A i \in 1 .. N : i \in DOMAIN src \/ i = N
      /\ src'[N].op = op /\ src'[N].refs = refs /\ src'[N].n = n
      /\ src'[N].pos = Len(output) /\ src'[N].at = address
      /\ Len(output) \in Nat /\ Len(cells) \in Nat /\ Len(output') = Len(output) + Len(cells)
      /\ \A k \in 1 .. Len(output) : output'[k] = output[k]
      /\ \A k \in 1 .. Len(cells) : output'[Len(output) + k] = cells[k]
      /\ Flat' => Flat
  BY <1>1, <1>5, LineAdds
<1>7. /\ address' = Plus(address, Len(cells)) /\ base_address' = base_address
      /\ pc = "pass1" /\ pc' = (IF op = "word" THEN "word" ELSE "pass1")
      /\ errors' = <<>> => errors = <<>> /\ (op # "word" => n = Len(cells))
  BY <1>5 DEF ReadsLine
<1>8. Len(source) \in Nat /\ N <= Len(source)
  <2>1. Len(source) \in Nat
    BY SourcesAssumption, LenProperties
  <2> QED BY <1>1, <1>3, <1>6, <2>1
<1>9. Transcribed'
  <2>1. ASSUME NEW i \in 1 .. N
        PROVE  Records(source[i], src'[i].op, src'[i].refs, src'[i].n)
    <3>1. CASE i = N
      BY <1>2, <1>5, <1>6, <3>1
    <3>2. CASE i \in DOMAIN src
      BY <1>6, <3>2 DEF HInv, Transcribed
    <3> QED BY <1>6, <3>1, <3>2
  <2> QED BY <1>6, <1>8, <2>1 DEF Transcribed
<1>10. ASSUME NEW i \in DOMAIN src
       PROVE  /\ src'[i] = src[i] /\ i \in Nat /\ i < N
              /\ src[i].pos \in Nat /\ src[i].n \in Nat
              /\ src[i].pos <= Len(output)
              /\ errors = <<>> =>
                   /\ src[i].pos + src[i].n <= Len(output)
                   /\ \A j \in DOMAIN src : i < j => src[i].pos + src[i].n <= src[j].pos
  <2>1. src[i].pos \in Nat /\ src[i].n \in Nat /\ i \in Nat
    BY LineNumbers
  <2>2. i < N /\ src'[i] = src[i]
    BY <1>1, <1>6
  <2> QED BY <1>7, <2>1, <2>2 DEF HInv, Chained, Placed
<1>11. Chained'
  <2> SUFFICES ASSUME errors' = <<>>, NEW i \in 1 .. N
               PROVE  /\ \A j \in 1 .. N : i < j => src'[i].pos + src'[i].n <= src'[j].pos
                      /\ (pc' = "word" /\ i = N) \/ src'[i].pos + src'[i].n <= Len(output')
    BY <1>6 DEF Chained
  <2>1. CASE i = N
    <3>1. pc' = "word" \/ src'[i].pos + src'[i].n <= Len(output')
      BY <1>6, <1>7, <2>1
    <3>2. \A j \in 1 .. N : ~ (i < j)
      BY <1>6, <2>1
    <3> QED BY <2>1, <3>1, <3>2
  <2>2. CASE i \in DOMAIN src
    <3>1. src'[i].pos + src'[i].n <= Len(output) /\ src'[i].pos + src'[i].n <= Len(output')
      <4>1. errors = <<>>
        BY <1>7
      <4>2. src'[i] = src[i] /\ src[i].pos + src[i].n <= Len(output)
        BY <1>10, <2>2, <4>1
      <4>3. src[i].pos \in Nat /\ src[i].n \in Nat
        BY <1>10, <2>2
      <4>4. Len(output) \in Nat /\ Len(output') >= Len(output)
        BY <1>6
      <4> QED BY ONLY <4>2, <4>3, <4>4
    <3>2. ASSUME NEW j \in 1 .. N, i < j PROVE src'[i].pos + src'[i].n <= src'[j].pos
      <4>1. CASE j = N
        BY <1>6, <3>1, <4>1
      <4>2. CASE j \in DOMAIN src
        BY <1>7, <1>10, <2>2, <3>2, <4>2
      <4> QED BY <1>6, <4>1, <4>2
    <3> QED BY <3>1, <3>2
  <2> QED BY <1>6, <2>1, <2>2
<1>12. /\ base_address \in Nat /\ address \in Nat /\ AddrMod \in Nat
       /\ base_address + Len(output) < AddrMod => address = base_address + Len(output)
  BY WidthAssumption DEF HInv, Placed, TypeOK, Addr
<1>13. Placed'
  <2>1. base_address' + Len(output') < AddrMod => address' = base_address' + Len(output')
    <3>1. PICK o, k : o = Len(output) /\ k = Len(cells)
      OBVIOUS
    <3>2. o \in Nat /\ k \in Nat /\ Len(output') = o + k
      BY <1>6, <3>1
    <3>3. base_address + (o + k) < AddrMod => Plus(address, k) = base_address + (o + k)
      BY <1>12, <3>1, <3>2 DEF Plus
    <3>4. address' = Plus(address, k) /\ base_address' = base_address
      BY <1>7, <3>1
    <3> QED BY ONLY <3>2, <3>3, <3>4
  <2>2. ASSUME NEW i \in 1 .. N
        PROVE  /\ src'[i].pos <= Len(output')
               /\ base_address' + src'[i].pos < AddrMod => src'[i].at = base_address' + src'[i].pos
    <3>1. CASE i = N
      <4>1. src'[i].pos = Len(output) /\ src'[i].at = address /\ base_address' = base_address
        BY <1>6, <1>7, <3>1
      <4>2. Len(output) <= Len(output')
        BY <1>6
      <4> QED BY <1>12, <4>1, <4>2
    <3>2. CASE i \in DOMAIN src
      <4>1. base_address + src[i].pos < AddrMod => src[i].at = base_address + src[i].pos
        BY <3>2 DEF HInv, Placed
      <4> QED BY <1>6, <1>7, <1>10, <3>2, <4>1, SMTT(30)
    <3> QED BY <1>6, <3>1, <3>2
  <2> QED BY <1>6, <2>1, <2>2 DEF Placed
<1>14. Fixed'
  <2> SUFFICES ASSUME errors' = <<>>, Flat, NEW i \in 1 .. N, Accepted(source[i])
               PROVE  /\ output'[src'[i].pos + 1] = Opaque
                      /\ ~ Labelled(source[i]) =>
                           \A k \in 1 .. Len(Bytes(source[i])) : output'[src'[i].pos + k] = Opaque
    BY <1>6 DEF Fixed
  <2>1. PICK w : w = Len(Bytes(source[i])) /\ w \in {1, 2, 4}
    <3>1. i \in 1 .. Len(source)
      BY <1>8, <1>6
    <3> QED BY <3>1, AcceptedBytes
  <2>4. w \in {1, 2, 4}
    BY <2>1
  <2>5. 1 \in 1 .. w
    BY ONLY <2>4
  <2>2. CASE i = N
    <3>1. FixedCells(line, cells) /\ n = w /\ op # "word"
      BY <1>2, <1>5, <2>1, <2>2 DEF Records, Kind
    <3>2. Len(cells) = w /\ w = Len(Bytes(line))
      BY <1>2, <1>7, <2>1, <2>2, <3>1
    <3>3. /\ cells[1] = Opaque
          /\ ~ Labelled(line) => \A k \in 1 .. w : cells[k] = Opaque
      BY <3>1, <3>2 DEF FixedCells
    <3>4. \A k \in 1 .. w : output'[src'[i].pos + k] = cells[k]
      BY <1>6, <2>2, <3>2
    <3> QED BY <1>2, <2>1, <2>2, <2>5, <3>3, <3>4
  <2>3. CASE i \in DOMAIN src
    <3>1. errors = <<>> /\ src'[i] = src[i]
      BY <1>7, <1>10, <2>3
    <3>2. src[i].n = w
      BY <2>1, <2>3 DEF HInv, Transcribed, Records
    <3>3. /\ output[src[i].pos + 1] = Opaque
          /\ ~ Labelled(source[i]) =>
               \A k \in 1 .. w : output[src[i].pos + k] = Opaque
      BY <2>1, <2>3, <3>1 DEF HInv, Fixed
    <3>4. src[i].pos \in Nat /\ src[i].pos + w <= Len(output)
      BY <1>10, <2>3, <3>1, <3>2
    <3>5. \A k \in 1 .. w : output'[src[i].pos + k] = output[src[i].pos + k]
      <4>1. \A k \in 1 .. w : src[i].pos + k \in 1 .. Len(output)
        BY <1>6, <2>1, <3>4, SMTT(30)
      <4>2. \A k \in 1 .. Len(output) : output'[k] = output[k]
        BY <1>6
      <4> QED BY ONLY <4>1, <4>2
    <3> QED BY <2>1, <2>5, <3>1, <3>3, <3>5
  <2> QED BY <1>6, <2>2, <2>3
<1> QED BY <1>9, <1>11, <1>13, <1>14 DEF HInv

\* A step that reads no line keeps it too, if it only adds to the output or
\* patches what is not fixed.
LEMMA SameLines ==
  ASSUME TypeOK, TypeOK', source \in Sources, HInv,
         UNCHANGED <<src, base_address, source>>,
         errors' = <<>> => errors = <<>>,
         pc = "word" => src[Len(src)].op = "word",
         Len(output') >= Len(output),
         \A k \in 1 .. Len(output) : (Flat /\ output[k] = Opaque) => output'[k] = Opaque,
         /\ base_address + Len(output') < AddrMod
         /\ base_address + Len(output) < AddrMod => address = base_address + Len(output)
         => address' = base_address + Len(output'),
         \A i \in DOMAIN src : (pc = "word" /\ pc' # "word" /\ i = Len(src)) =>
           src[i].pos + src[i].n <= Len(output')
  PROVE  HInv'
<1>1. Len(output) \in Nat /\ Len(output') \in Nat /\ (Flat' <=> Flat)
  BY LenProperties DEF TypeOK, Flat, FlatUpTo
<1>2. base_address \in Nat /\ AddrMod \in Nat
  BY WidthAssumption DEF TypeOK, Addr
<1>3. Transcribed'
  BY DEF HInv, Transcribed
<1>4. Placed'
  <2>1. base_address' + Len(output') < AddrMod => address' = base_address' + Len(output')
    BY <1>1, <1>2 DEF HInv, Placed
  <2>2. ASSUME NEW i \in DOMAIN src
        PROVE  /\ src[i].pos <= Len(output')
               /\ base_address + src[i].pos < AddrMod => src[i].at = base_address + src[i].pos
    <3>1. /\ src[i].pos <= Len(output)
          /\ base_address + src[i].pos < AddrMod => src[i].at = base_address + src[i].pos
      BY DEF HInv, Placed
    <3> QED BY <1>1, <3>1, LineNumbers
  <2> QED BY <2>1, <2>2 DEF Placed
<1>5. ASSUME errors' = <<>>, NEW i \in DOMAIN src
      PROVE  /\ \A j \in DOMAIN src : i < j => src[i].pos + src[i].n <= src[j].pos
             /\ (pc = "word" /\ i = Len(src)) \/ src[i].pos + src[i].n <= Len(output)
  BY <1>5 DEF HInv, Chained
<1>6. Chained'
  <2> SUFFICES ASSUME errors' = <<>>, NEW i \in DOMAIN src
               PROVE  (pc' = "word" /\ i = Len(src)) \/ src[i].pos + src[i].n <= Len(output')
    BY <1>5 DEF Chained
  <2>1. src[i].pos + src[i].n \in Nat
    BY LineNumbers
  <2> QED BY <1>1, <1>5, <2>1
<1>7. Fixed'
  <2> SUFFICES ASSUME errors' = <<>>, Flat, NEW i \in DOMAIN src, Accepted(source[i])
               PROVE  /\ output'[src[i].pos + 1] = Opaque
                      /\ ~ Labelled(source[i]) =>
                           \A k \in 1 .. Len(Bytes(source[i])) : output'[src[i].pos + k] = Opaque
    BY <1>1 DEF Fixed
  <2>1. i \in 1 .. Len(source) /\ i \in 1 .. Len(src)
    <3>1. Len(source) \in Nat
      BY SourcesAssumption, LenProperties
    <3> QED BY <3>1, SrcShape DEF HInv, Transcribed
  <2>2. PICK w : w = Len(Bytes(source[i])) /\ w \in {1, 2, 4}
    BY <2>1, AcceptedBytes
  <2>3. w \in {1, 2, 4}
    BY <2>2
  <2>4. 1 \in 1 .. w
    BY ONLY <2>3
  <2>5. src[i].n = w /\ src[i].op # "word"
    BY <2>2 DEF HInv, Transcribed, Records, Kind
  <2>6. src[i].pos + w <= Len(output)
    BY <1>5, <2>5
  <2>7. /\ output[src[i].pos + 1] = Opaque
        /\ ~ Labelled(source[i]) => \A k \in 1 .. w : output[src[i].pos + k] = Opaque
    BY <2>2 DEF HInv, Fixed
  <2>8. \A k \in 1 .. w : src[i].pos + k \in 1 .. Len(output)
    <3>1. src[i].pos \in Nat
      BY LineNumbers
    <3> QED BY ONLY <1>1, <2>3, <2>6, <3>1
  <2> QED BY <2>2, <2>4, <2>7, <2>8
<1> QED BY <1>3, <1>4, <1>6, <1>7 DEF HInv

\* An operand of a .word: three bytes more, and the line is complete with the last.
LEMMA WordKept ==
  ASSUME TypeOK, TypeOK', EInv, LInv, source \in Sources, HInv, UNCHANGED source,
         WordKnown \/ WordForward
  PROVE  HInv'
<1>1. PICK cells \in Seq(Cell) : Len(cells) = 3 /\ EmitWord(cells)
  <2>1. CASE WordKnown
    <3>1. PICK l : l = Head(word.todo) /\ Defined(l) /\ EmitWord(Address24(labels[l]))
      BY <2>1 DEF WordKnown
    <3>2. l \in Labels /\ labels[l] \in Addr
      <4>1. l \in Operands
        <5>1. word.todo \in Seq(Operands) /\ word.todo # <<>>
          BY <2>1 DEF WordKnown, TypeOK
        <5> QED BY <3>1, <5>1
      <4>2. l \in Labels
        BY <2>1, <3>1, <4>1 DEF WordKnown, Operands, Numeric
      <4> QED BY <3>1, <4>2, SymbolsAssumption DEF Defined, TypeOK
    <3> QED BY <3>1, <3>2, Address24Type
  <2>2. CASE WordForward
    <3>1. EmitWord(Repeat(3, 0))
      BY <2>2 DEF WordForward
    <3>2. PICK k \in Int, z \in Cell : k = 3 /\ z = 0
      BY CellValues
    <3>3. /\ Repeat(k, z) \in Seq(Cell)
          /\ Len(Repeat(k, z)) = IF k > 0 THEN k ELSE 0
      BY RepeatType, Zenon
    <3>4. Repeat(k, z) \in Seq(Cell) /\ Len(Repeat(k, z)) = 3
      BY ONLY <3>2, <3>3
    <3> QED BY <3>1, <3>2, <3>4
  <2> QED BY <2>1, <2>2
<1>2. pc = "word"
  BY DEF WordKnown, WordForward
<1>3. /\ output' = output \o cells /\ address' = Plus(address, 3)
      /\ UNCHANGED <<base_address, errors, src>>
      /\ pc' # "word" => Len(word.todo) = 1
  BY <1>1, <1>2 DEF EmitWord
<1>4. /\ Len(output) \in Nat /\ Len(output') = Len(output) + 3
      /\ \A k \in 1 .. Len(output) : output'[k] = output[k]
  <2>1. output \in Seq(Cell)
    BY DEF TypeOK
  <2>2. /\ Len(output) \in Nat /\ Len(output') = Len(output) + Len(cells)
        /\ \A k \in 1 .. Len(output) : output'[k] = output[k]
    BY <1>3, <2>1, ConcatProperties, LenProperties
  <2> QED BY <1>1, <2>2
<1>5. PICK N : N = Len(src)
  OBVIOUS
<1>6. src[N].op = "word" /\ N \in DOMAIN src
  <2>1. src # <<>> /\ src \in Seq(SourceLine)
    BY <1>2 DEF TypeOK
  <2> QED BY <1>2, <1>5, <2>1 DEF EInv, Active, Judged, WordOK
<1>7. pc' # "word" => src[N].pos + src[N].n <= Len(output')
  <2> SUFFICES ASSUME pc' # "word" PROVE src[N].pos + src[N].n <= Len(output')
    OBVIOUS
  <2>1. WordAt /\ ShapeOK
    BY <1>2 DEF LInv, Active, Layout
  <2>2. src[N].n = 3 * Len(src[N].refs)
    BY <1>6, <2>1 DEF ShapeOK
  <2>3. Len(output) = src[N].pos + 3 * (Len(src[N].refs) - Len(word.todo))
    BY <1>2, <1>5, <2>1 DEF WordAt
  <2>4. Len(word.todo) = 1
    BY <1>3
  <2>5. src[N].pos \in Nat /\ Len(src[N].refs) \in Nat
    BY <1>6, LineNumbers, SrcShape
  <2> QED BY <1>4, <2>2, <2>3, <2>4, <2>5
<1>8. /\ base_address + Len(output') < AddrMod
      /\ base_address + Len(output) < AddrMod => address = base_address + Len(output)
      => address' = base_address + Len(output')
  <2>1. base_address \in Nat /\ AddrMod \in Nat /\ address \in Nat
    BY WidthAssumption DEF TypeOK, Addr
  <2> QED BY <1>3, <1>4, <2>1 DEF Plus
<1>9. \A i \in DOMAIN src : (pc = "word" /\ pc' # "word" /\ i = Len(src)) =>
        src[i].pos + src[i].n <= Len(output')
  BY <1>5, <1>7
<1>10. Len(output') >= Len(output)
  BY <1>4
<1> QED BY <1>3, <1>4, <1>5, <1>6, <1>8, <1>9, <1>10, SameLines

\* The second pass patches operands, and the end of the source changes nothing.
LEMMA SecondPassKept ==
  ASSUME IInv, OperandsOpen, TypeOK', source \in Sources, HInv, UNCHANGED source,
         EndOfSource \/ SecondPass
  PROVE  HInv'
<1>1. /\ TypeOK /\ pc # "word" /\ pc' # "word"
      /\ UNCHANGED <<src, base_address, address>> /\ Len(output') = Len(output)
  <2>1. CASE EndOfSource
    BY <2>1 DEF EndOfSource, code, IInv
  <2>2. CASE SecondPass
    <3>1. pc = "resolve"
      BY <2>2 DEF SecondPass, ResolveUndefined, ResolveAbsolute, ResolveRelative, Finish, Resolving
    <3> QED BY <2>2, <3>1, SecondPassKeeps DEF IInv
  <2> QED BY <2>1, <2>2
<1>2. errors' = <<>> => errors = <<>>
  <2>1. (\E n, k : Error(n, k)) => errors' # <<>>
    BY <1>1, ErrorCounts
  <2> QED BY <2>1 DEF EndOfSource, code, SecondPass, ResolveUndefined, ResolveAbsolute,
                      ResolveRelative, Finish
<1>3. \A k \in 1 .. Len(output) : (Flat /\ output[k] = Opaque) => output'[k] = Opaque
  <2>1. CASE EndOfSource
    BY <2>1 DEF EndOfSource, code
  <2>2. CASE SecondPass
    <3>1. pc = "resolve" /\ [Next]_vars
      BY <2>2 DEF SecondPass, ResolveUndefined, ResolveAbsolute, ResolveRelative, Finish, Resolving,
                  Next
    <3>2. DOMAIN output = 1 .. Len(output)
      BY <1>1, LenProperties DEF TypeOK
    <3> QED BY <3>1, <3>2, KeepsOpcodes
  <2> QED BY <2>1, <2>2
<1>4. Len(output) \in Nat /\ base_address \in Nat /\ AddrMod \in Nat
  BY <1>1, LenProperties, WidthAssumption DEF TypeOK, Addr
<1>5. Len(output') >= Len(output)
  BY <1>1, <1>4
<1>6. /\ base_address + Len(output') < AddrMod
      /\ base_address + Len(output) < AddrMod => address = base_address + Len(output)
      => address' = base_address + Len(output')
  BY <1>1, <1>4
<1> QED BY <1>1, <1>2, <1>3, <1>5, <1>6, SameLines

\* Nothing has been read.
LEMMA NothingRead ==
  ASSUME source \in Sources, src = <<>>, output = <<>>, address = base_address,
         base_address \in Nat
  PROVE  HInv
<1>1. Len(source) \in Nat /\ Len(src) = 0 /\ DOMAIN src = {} /\ Len(output) = 0
  BY SourcesAssumption, LenProperties
<1>2. Transcribed /\ Chained /\ Fixed
  BY <1>1 DEF Transcribed, Chained, Fixed
<1>3. Placed
  BY <1>1 DEF Placed
<1> QED BY <1>2, <1>3 DEF HInv

\* What has been read is the source and what has been emitted is its code, in
\* every reachable state.
LEMMA History ==
  ASSUME WordsFit
  PROVE  System => []HInv
<1>1. StartUp /\ SourceKnown => HInv
  BY NothingRead DEF StartUp, Init, SourceKnown
<1>2. IInv /\ OperandsOpen /\ TypeOK' /\ EInv /\ LInv /\ SourceKnown /\ HInv /\ [Advance]_state => HInv'
  <2> SUFFICES ASSUME IInv, OperandsOpen, TypeOK', EInv, LInv, source \in Sources, HInv,
                      [Advance]_state
               PROVE  HInv'
    BY DEF SourceKnown
  <2>1. CASE Load \/ Enter \/ Execute \/ UNCHANGED state
    <3>1. UNCHANGED <<pc, src, output, address, base_address, errors, source>>
      BY <2>1 DEF Load, Enter, Execute, state, asm, vars, code
    <3> QED BY <3>1 DEF HInv, Transcribed, Chained, Placed, Fixed, Flat, FlatUpTo
  <2>2. CASE Assemble
    <3>1. UNCHANGED source /\ TypeOK
      BY <2>2 DEF Assemble, IInv
    <3>2. CASE Start
      <4>1. /\ src' = <<>> /\ output' = <<>> /\ address' = base_address'
            /\ base_address' \in Nat /\ source' \in Sources
        BY <3>1, <3>2 DEF Start, AssembleAt, TypeOK, Addr
      <4>2. Len(source') \in Nat /\ Len(src') = 0 /\ DOMAIN src' = {} /\ Len(output') = 0
        BY <4>1, SourcesAssumption, LenProperties
      <4>3. Transcribed' /\ Chained' /\ Fixed'
        BY <4>2 DEF Transcribed, Chained, Fixed
      <4>4. Placed'
        <5>3. \A b \in Nat : b + 0 = b
          OBVIOUS
        <5>1. address' = base_address' + Len(output')
          BY <4>1, <4>2, <5>3, Zenon
        <5>2. \A i \in DOMAIN src' :
                /\ src'[i].pos <= Len(output')
                /\ base_address' + src'[i].pos < AddrMod => src'[i].at = base_address' + src'[i].pos
          BY <4>2
        <5> QED BY <5>1, <5>2 DEF Placed
      <4> QED BY <4>3, <4>4 DEF HInv
    <3>3. CASE ReadLine
      BY <3>1, <3>3, LineKept
    <3>4. CASE WordKnown \/ WordForward
      BY <3>1, <3>4, WordKept
    <3>5. CASE EndOfSource \/ SecondPass
      BY <3>1, <3>5, SecondPassKept
    <3> QED BY <2>2, <3>2, <3>3, <3>4, <3>5 DEF Assemble
  <2> QED BY <2>1, <2>2 DEF Advance
<1> QED BY <1>1, <1>2, AssemblerCorrect, AlwaysOpen, TypeCorrect, Judgement, Linking, SourceKept,
           PTL DEF System

-----------------------------------------------------------------------------
(* Whose the bytes are: a cell that no directive and no label determines   *)
(* is of an instruction that its encoder accepted.                         *)

Attributed ==
  errors = <<>> =>
    /\ \A i \in DOMAIN src : "ins" \in DOMAIN source[i] => Accepted(source[i])
    /\ \A p \in DOMAIN output : output[p] = Opaque =>
         \E i \in DOMAIN src :
           Accepted(source[i]) /\ src[i].pos < p /\ p <= src[i].pos + src[i].n

\* Reading a line keeps this.
LEMMA AttributedLine ==
  ASSUME TypeOK, TypeOK', source \in Sources, Attributed, ReadLine, UNCHANGED source
  PROVE  Attributed'
<1>1. PICK N, line : N = Len(src) + 1 /\ line = source[N]
  OBVIOUS
<1>2. PICK op, def, refs, n : \E cells \in Seq(Cell) :
        /\ ReadsLine(op, def, refs, n, cells) /\ Records(line, op, refs, n)
  BY <1>1, LineRead
<1>3. PICK cells \in Seq(Cell) :
        /\ ReadsLine(op, def, refs, n, cells) /\ Records(line, op, refs, n)
  BY <1>2
<1>4. /\ N \in Nat \ {0} /\ DOMAIN src = 1 .. Len(src) /\ DOMAIN src' = 1 .. N
      /\ \A i \in 1 .. Len(src) : src'[i] = src[i] /\ i \in 1 .. N
      /\ \A i \in 1 .. N : i \in DOMAIN src \/ i = N
      /\ src'[N].n = n /\ src'[N].pos = Len(output)
      /\ Len(output) \in Nat /\ Len(cells) \in Nat /\ Len(output') = Len(output) + Len(cells)
      /\ \A k \in 1 .. Len(output) : output'[k] = output[k]
      /\ \A k \in 1 .. Len(cells) : output'[Len(output) + k] = cells[k]
  BY <1>1, <1>3, LineAdds
<1>5. DOMAIN output = 1 .. Len(output) /\ DOMAIN output' = 1 .. Len(output')
  BY LenProperties DEF TypeOK
<1> SUFFICES ASSUME errors' = <<>>
             PROVE  /\ \A i \in 1 .. N : "ins" \in DOMAIN source[i] => Accepted(source[i])
                    /\ \A p \in 1 .. Len(output') : output'[p] = Opaque =>
                         \E i \in 1 .. N :
                           /\ Accepted(source[i])
                           /\ src'[i].pos < p /\ p <= src'[i].pos + src'[i].n
  BY <1>4, <1>5 DEF Attributed
<1>6. /\ errors = <<>> /\ (op # "word" => n = Len(cells)) /\ op # "bad"
      /\ op \in {"label", "word", "zero"} => \A k \in 1 .. Len(cells) : cells[k] # Opaque
  BY <1>3 DEF ReadsLine
<1>7. "ins" \in DOMAIN line => Accepted(line)
  <2>1. Records(line, op, refs, n) /\ op # "bad"
    BY <1>3, <1>6
  <2> QED BY <2>1, Zenon DEF Records
<1>10. /\ \A i \in DOMAIN src : "ins" \in DOMAIN source[i] => Accepted(source[i])
       /\ \A p \in DOMAIN output : output[p] = Opaque =>
            \E i \in DOMAIN src :
              Accepted(source[i]) /\ src[i].pos < p /\ p <= src[i].pos + src[i].n
  BY <1>6, Zenon DEF Attributed
<1>8. ASSUME NEW i \in 1 .. N, "ins" \in DOMAIN source[i] PROVE Accepted(source[i])
  <2>1. CASE i = N
    BY <1>1, <1>7, <1>8, <2>1, Zenon
  <2>2. CASE i \in DOMAIN src
    BY <1>8, <1>10, <2>2, Zenon
  <2> QED BY <1>4, <2>1, <2>2
<1>9. ASSUME NEW p \in 1 .. Len(output'), output'[p] = Opaque
      PROVE  \E i \in 1 .. N :
               Accepted(source[i]) /\ src'[i].pos < p /\ p <= src'[i].pos + src'[i].n
  <2>1. CASE p \in 1 .. Len(output)
    <3>1. output[p] = Opaque
      BY <1>4, <1>9, <2>1
    <3>2. PICK i \in 1 .. Len(src) :
            Accepted(source[i]) /\ src[i].pos < p /\ p <= src[i].pos + src[i].n
      BY <1>4, <1>5, <1>10, <2>1, <3>1, Zenon
    <3>3. src'[i] = src[i] /\ i \in 1 .. N
      BY <1>4
    <3> QED BY <3>2, <3>3
  <2>2. CASE p \notin 1 .. Len(output)
    <3>1. PICK k \in 1 .. Len(cells) : p = Len(output) + k
      <4>1. p - Len(output) \in 1 .. Len(cells) /\ p = Len(output) + (p - Len(output))
        BY <1>4, <1>9, <2>2
      <4> QED BY <4>1
    <3>2. cells[k] = Opaque
      BY <1>4, <1>9, <3>1
    <3>3. op \notin {"label", "word", "zero"}
      BY <1>6, <3>2
    <3>4. "ins" \in DOMAIN line
      <4>1. Records(line, op, refs, n)
        BY <1>3
      <4> QED BY <3>3, <4>1, Zenon DEF Records
    <3>6. Accepted(source[N]) /\ n = Len(cells)
      BY <1>1, <1>6, <1>7, <3>3, <3>4
    <3>5. src'[N].pos < p /\ p <= src'[N].pos + src'[N].n
      BY <1>4, <3>1, <3>6
    <3> QED BY <1>4, <3>5, <3>6
  <2> QED BY <2>1, <2>2
<1> QED BY <1>8, <1>9

\* So does a step that reads none and leaves no more cells open.
LEMMA AttributedSame ==
  ASSUME Attributed, UNCHANGED <<src, source>>, errors' = <<>> => errors = <<>>,
         \A p \in DOMAIN output' : output'[p] = Opaque => p \in DOMAIN output /\ output[p] = Opaque
  PROVE  Attributed'
BY DEF Attributed

\* An operand of a .word is bytes.
LEMMA AttributedWord ==
  ASSUME TypeOK, TypeOK', Attributed, UNCHANGED source, WordKnown \/ WordForward
  PROVE  Attributed'
<1>1. PICK cells \in Seq(Cell) : (\A k \in 1 .. Len(cells) : cells[k] # Opaque) /\ EmitWord(cells)
  <2>1. CASE WordKnown
    <3>1. PICK l : l = Head(word.todo) /\ ~ Numeric(l) /\ Defined(l)
                   /\ EmitWord(Address24(labels[l]))
      BY <2>1 DEF WordKnown
    <3>2. labels[l] \in Addr
      <4>1. l \in Operands
        <5>1. word.todo \in Seq(Operands) /\ word.todo # <<>>
          BY <2>1 DEF WordKnown, TypeOK
        <5> QED BY <3>1, <5>1
      <4>2. l \in Labels
        BY <3>1, <4>1 DEF Operands, Numeric
      <4> QED BY <3>1, <4>2, SymbolsAssumption DEF Defined, TypeOK
    <3>3. PICK cells \in Seq(Cell) : cells = Address24(labels[l]) /\ Len(cells) = 3
      BY <3>2, Address24Type
    <3>5. \A k \in 1 .. 3 : cells[k] # Opaque
      BY <3>2, <3>3, ByteNotOpaque
    <3> QED BY <3>1, <3>3, <3>5
  <2>2. CASE WordForward
    <3>1. PICK cells \in Seq(Cell) : cells = Repeat(3, 0) /\ Len(cells) = 3
      <4>1. PICK k \in Int, z \in Cell : k = 3 /\ z = 0
        BY CellValues
      <4>2. /\ Repeat(k, z) \in Seq(Cell)
            /\ Len(Repeat(k, z)) = IF k > 0 THEN k ELSE 0
        BY RepeatType, Zenon
      <4> QED BY ONLY <4>1, <4>2
    <3>2. \A k \in 1 .. Len(cells) : cells[k] # Opaque
      BY <3>1, ZeroCells
    <3> QED BY <2>2, <3>1, <3>2 DEF WordForward
  <2> QED BY <2>1, <2>2
<1>2. output' = output \o cells /\ UNCHANGED <<errors, src>>
  BY <1>1 DEF EmitWord
<1>3. /\ Len(output) \in Nat /\ Len(cells) \in Nat /\ Len(output') = Len(output) + Len(cells)
      /\ \A k \in 1 .. Len(output) : output'[k] = output[k]
      /\ \A k \in 1 .. Len(cells) : output'[Len(output) + k] = cells[k]
      /\ DOMAIN output = 1 .. Len(output) /\ DOMAIN output' = 1 .. Len(output')
  BY <1>2, ConcatProperties, LenProperties DEF TypeOK
<1>4. ASSUME NEW p \in 1 .. Len(output'), output'[p] = Opaque
      PROVE  p \in 1 .. Len(output) /\ output[p] = Opaque
  <2>1. CASE p \in 1 .. Len(output)
    BY <1>3, <1>4, <2>1
  <2>2. CASE p \notin 1 .. Len(output)
    <3>1. p - Len(output) \in 1 .. Len(cells) /\ p = Len(output) + (p - Len(output))
      BY <1>3, <1>4, <2>2
    <3> QED BY <1>1, <1>3, <1>4, <3>1
  <2> QED BY <2>1, <2>2
<1> QED BY <1>2, <1>3, <1>4, AttributedSame

\* What the second pass patches in is bytes.
LEMMA AttributedPatch ==
  ASSUME TypeOK, TypeOK', Attributed, UNCHANGED source, EndOfSource \/ SecondPass
  PROVE  Attributed'
<1>1. UNCHANGED src /\ (errors' = <<>> => errors = <<>>)
  <2>1. (\E n, k : Error(n, k)) => errors' # <<>>
    BY ErrorCounts
  <2> QED BY <2>1 DEF EndOfSource, code, SecondPass, ResolveUndefined, ResolveAbsolute,
                      ResolveRelative, Finish
<1>2. ASSUME NEW p \in DOMAIN output', output'[p] = Opaque
      PROVE  p \in DOMAIN output /\ output[p] = Opaque
  <2>1. CASE EndOfSource
    BY <1>2, <2>1 DEF EndOfSource, code
  <2>2. CASE SecondPass
    <3>1. DOMAIN output' = DOMAIN output
      BY <2>2 DEF SecondPass, ResolveUndefined, ResolveAbsolute, ResolveRelative, Finish
    <3> QED BY <1>2, <2>2, <3>1, OpenPatch
  <2> QED BY <2>1, <2>2
<1> QED BY <1>1, <1>2, AttributedSame

\* Every open cell is an instruction's, in every reachable state.
LEMMA Attribution == System => []Attributed
<1>1. StartUp => Attributed
  BY DEF StartUp, Init, Attributed
<1>2. TypeOK /\ TypeOK' /\ SourceKnown /\ Attributed /\ [Advance]_state => Attributed'
  <2> SUFFICES ASSUME TypeOK, TypeOK', source \in Sources, Attributed, [Advance]_state
               PROVE  Attributed'
    BY DEF SourceKnown
  <2>1. CASE Load \/ Enter \/ Execute \/ UNCHANGED state
    <3>1. UNCHANGED <<src, output, errors, source>>
      BY <2>1 DEF Load, Enter, Execute, state, asm, vars, code
    <3> QED BY <3>1 DEF Attributed
  <2>2. CASE Assemble
    <3>1. UNCHANGED source
      BY <2>2 DEF Assemble
    <3>2. CASE Start
      <4>1. src' = <<>> /\ output' = <<>>
        BY <3>2 DEF Start, AssembleAt
      <4>2. DOMAIN src' = {} /\ DOMAIN output' = {}
        BY <4>1
      <4> QED BY <4>2 DEF Attributed
    <3> QED BY <2>2, <3>1, <3>2, AttributedLine, AttributedWord, AttributedPatch DEF Assemble
  <2> QED BY <2>1, <2>2 DEF Advance
<1> QED BY <1>1, <1>2, AssemblerCorrect, TypeCorrect, SourceKept, PTL DEF System

-----------------------------------------------------------------------------
(* The machine, whatever it executes: no character arrives, so no          *)
(* interrupt does; it keeps its registers and its memory only grows.       *)

Quiet(d) == "uart_rx_ready" \in DOMAIN d /\ d.uart_rx_ready = FALSE

MachineInv == Quiet(io) /\ DOMAIN registers = 0 .. 7 /\ c \in BOOLEAN

\* Ticks and writes leave the receiver alone.
LEMMA DevicesQuiet ==
  ASSUME NEW d, Quiet(d)
  PROVE  /\ Quiet(Machine!Tick(d))
         /\ \A a, v : Quiet(Machine!WriteIo(d, a, v))
<1>1. Quiet(Machine!Tick(d))
  BY DEF Quiet, Machine!Tick
<1>2. ASSUME NEW a, NEW v PROVE Quiet(Machine!WriteIo(d, a, v))
  <2>1. Quiet(Machine!Transmit(d, v))
    BY DEF Quiet, Machine!Transmit
  <2>2. PICK d1, d2, d3 : /\ d1 = [d EXCEPT !.leds = v] /\ d2 = [d EXCEPT !.int_enable = v]
                          /\ d3 = [d EXCEPT !.uart_rx_overflow = FALSE]
    OBVIOUS
  <2>3. Quiet(d1) /\ Quiet(d2) /\ Quiet(d3)
    BY <2>2 DEF Quiet
  <2>4. PICK t : t = Machine!Transmit(d, v)
    OBVIOUS
  <2>5. Machine!WriteIo(d, a, v) \in {d1, d2, d3, t, d}
    BY <2>2, <2>4, SMT DEF Machine!WriteIo
  <2> QED BY <2>1, <2>3, <2>4, <2>5
<1> QED BY <1>1, <1>2

\* A store sends no character to the machine.
LEMMA StoresQuiet ==
  ASSUME Quiet(io), NEW a, NEW bs
  PROVE  Quiet(Machine!IoAfter(a, bs))
<1> DEFINE Put(d, i) == IF i \in DOMAIN bs /\ Machine!IsIo(Machine!Mask(a + i - 1))
                        THEN Machine!WriteIo(d, Machine!Mask(a + i - 1), bs[i]) ELSE d
<1>1. ASSUME NEW d, Quiet(d), NEW i PROVE Quiet(Put(d, i))
  BY <1>1, DevicesQuiet
<1>2. Machine!IoAfter(a, bs) = Put(Put(Put(io, 1), 2), 3)
  BY DEF Machine!IoAfter
<1> HIDE DEF Put
<1> QED BY <1>1, <1>2

\* No step of the machine breaks its invariant or frees a cell of memory.
LEMMA StepKept ==
  ASSUME MachineInv, Machine!Step
  PROVE  MachineInv' /\ DOMAIN mem \subseteq DOMAIN mem'
<1> USE DEF MachineInv
<1>1. CASE Machine!StepHalted \/ Machine!HaltAtZero \/ Machine!Nop \/ Machine!InvalidInstruction
  BY <1>1 DEF Machine!StepHalted, Machine!HaltAtZero, Machine!Nop, Machine!InvalidInstruction
<1>2. CASE Machine!Interrupt
  BY <1>2 DEF Machine!Interrupt, Machine!InterruptPending, Quiet
<1>3. ASSUME NEW d, NEW to, Quiet(d), Machine!Retire(to, d) PROVE Quiet(io')
  BY <1>3, DevicesQuiet DEF Machine!Retire
<1>4. CASE Machine!Compute
  BY <1>3, <1>4 DEF Machine!Compute
<1>5. CASE Machine!JumpAbsolute \/ Machine!BranchIf \/ Machine!Jmp
  BY <1>3, <1>5 DEF Machine!JumpAbsolute, Machine!BranchIf, Machine!Jmp
<1>6. CASE Machine!Bra
  BY <1>6, DevicesQuiet DEF Machine!Bra
<1>7. CASE Machine!Compare
  <2>1. c' \in BOOLEAN
    <3>1. \A x, y : (x < y) \in BOOLEAN
      OBVIOUS
    <3> QED BY <1>7, <3>1 DEF Machine!Compare
  <2> QED BY <1>3, <1>7, <2>1 DEF Machine!Compare
<1>8. CASE Machine!Jal \/ Machine!LoadWord \/ Machine!Pop
  BY <1>3, <1>8 DEF Machine!Jal, Machine!LoadWord, Machine!Pop
<1>9. CASE Machine!LoadByte
  <2>1. PICK d : d = [io EXCEPT !.uart_rx_ready = @ /\ Machine!Effective # Machine!IO_UARTDATA]
    OBVIOUS
  <2>2. Quiet(d)
    BY <2>1 DEF Quiet
  <2>3. Quiet(io')
    BY <1>3, <1>9, <2>1, <2>2 DEF Machine!LoadByte
  <2> QED BY <1>9, <2>3 DEF Machine!LoadByte
<1>10. ASSUME NEW a, NEW bs, Machine!RetireWriting(a, bs)
       PROVE  Quiet(io') /\ DOMAIN mem \subseteq DOMAIN mem'
  <2>1. Quiet(io')
    BY <1>3, <1>10, StoresQuiet DEF Machine!RetireWriting
  <2> QED BY <1>10, <2>1 DEF Machine!RetireWriting, Machine!MemAfter
<1>11. CASE Machine!Store \/ Machine!Push
  BY <1>10, <1>11 DEF Machine!Store, Machine!Push
<1> QED BY <1>1, <1>2, <1>4, <1>5, <1>6, <1>7, <1>8, <1>9, <1>11 DEF Machine!Step, Machine!Execute

-----------------------------------------------------------------------------
(* What is loaded, and where.                                              *)

Loaded ==
  stage # "assemble" =>
    /\ pc = "done" /\ errors = <<>> /\ program = Image
    /\ \A p \in DOMAIN output :
         Machine!IsRam(base_address + p - 1) /\ base_address + p - 1 \in DOMAIN mem

\* No step of the toolchain unloads the program.
LEMMA LoadedKept ==
  ASSUME MachineInv, Loaded, Advance
  PROVE  MachineInv' /\ Loaded'
<1>1. CASE Assemble
  <2>1. stage = "assemble" /\ UNCHANGED <<stage, cpu>>
    BY <1>1 DEF Assemble
  <2> QED BY <2>1 DEF Loaded, MachineInv, cpu
<1>2. CASE Load
  <2>1. /\ pc = "done" /\ errors = <<>> /\ program' = Image
        /\ UNCHANGED asm /\ UNCHANGED <<io, registers, c>>
    BY <1>2 DEF Load, Machine!LoadProgram
  <2>2. DOMAIN program' = DOMAIN output
    BY <2>1 DEF Image
  <2>3. \A p \in DOMAIN output :
          Machine!IsRam(base_address + p - 1) /\ base_address + p - 1 \in DOMAIN mem'
    BY <1>2, <2>2 DEF Load, Machine!LoadProgram
  <2>4. UNCHANGED <<pc, errors, output, base_address, src>> /\ UNCHANGED source
    BY <1>2, <2>1 DEF asm, vars, code, Load
  <2>5. Image' = Image
    BY <2>4 DEF Image, IsInstruction, EmittedBy
  <2>6. Loaded'
    BY <2>1, <2>3, <2>4, <2>5 DEF Loaded
  <2> QED BY <2>1, <2>6 DEF MachineInv
<1>3. CASE Enter \/ Execute
  <2>1. MachineInv' /\ DOMAIN mem \subseteq DOMAIN mem'
    <3>1. CASE Enter
      BY <1>3, <3>1 DEF Enter, Machine!SetPc, MachineInv
    <3>2. CASE Execute
      BY <1>3, <3>2, StepKept DEF Execute
    <3> QED BY <1>3, <3>1, <3>2
  <2>2. UNCHANGED <<pc, errors, output, base_address, src, source, program>>
    BY <1>3 DEF asm, vars, code, Enter, Execute
  <2>3. Image' = Image
    BY <2>2 DEF Image, IsInstruction, EmittedBy
  <2>4. stage # "assemble"
    BY <1>3 DEF Enter, Execute, Running
  <2>5. Loaded'
    BY <2>1, <2>2, <2>3, <2>4 DEF Loaded
  <2> QED BY <2>1, <2>5
<1> QED BY <1>1, <1>2, <1>3 DEF Advance

MInv == MachineInv /\ Loaded

\* Every state of a run has its machine in order and its program loaded.
LEMMA Machines == System => []MInv
<1>1. StartUp => MInv
  <2> SUFFICES ASSUME StartUp PROVE MInv
    OBVIOUS
  <2>1. io = Machine!NewIo /\ registers = Machine!NewRegisters /\ c = FALSE /\ stage = "assemble"
    BY DEF StartUp, Machine!Init
  <2>2. Quiet(Machine!NewIo)
    BY DEF Machine!NewIo, Quiet
  <2>3. DOMAIN registers = 0 .. 7
    BY <2>1 DEF Machine!NewRegisters
  <2> QED BY <2>1, <2>2, <2>3 DEF MInv, MachineInv, Loaded
<1>2. MInv /\ [Advance]_state => MInv'
  <2>1. ASSUME MInv, UNCHANGED state PROVE MInv'
    <3>1. Image' = Image
      BY <2>1 DEF Image, IsInstruction, EmittedBy, state, asm, vars, code
    <3> QED BY <2>1, <3>1 DEF MInv, MachineInv, Loaded, state, asm, vars, code, cpu
  <2> QED BY <2>1, LoadedKept DEF MInv
<1> QED BY <1>1, <1>2, PTL DEF System

-----------------------------------------------------------------------------
(* A program that was accepted and loaded.                                 *)

\* Everything the earlier invariants say, together.
Ready ==
  /\ TypeOK /\ ErrorsExact /\ Linked /\ HInv /\ MInv /\ source \in Sources
  /\ stage # "assemble"

\* No name of a source line reads as a number: an operand that does is one.
NoNumericNames == NumericLabels = {}

\* The addresses are those of the bytes, all of them below the devices.
LEMMA Addresses ==
  ASSUME Ready
  PROVE  /\ base_address \in Nat /\ Len(output) \in Nat
         /\ base_address + Len(output) < AddrMod /\ AddrMod \in Nat
         /\ address = base_address + Len(output)
         /\ Len(output) > 0 => base_address + Len(output) <= Machine!IO_BASE
         /\ DOMAIN output = 1 .. Len(output)
<1>1. output \in Seq(Cell) /\ base_address \in Addr
  BY DEF Ready, TypeOK
<1>2. Len(output) \in Nat /\ DOMAIN output = 1 .. Len(output) /\ base_address \in Nat
  BY <1>1, LenProperties DEF Addr
<1>3. AddrMod \in Nat /\ base_address < AddrMod
  BY <1>1, WidthAssumption DEF Addr
<1>4. ASSUME Len(output) > 0 PROVE base_address + Len(output) <= Machine!IO_BASE
  <2>1. Machine!IsRam(base_address + Len(output) - 1)
    BY <1>2, <1>4 DEF Ready, MInv, Loaded
  <2> QED BY <1>2, <2>1 DEF Machine!IsRam, Machine!IO_BASE, Machine!SRAM_SIZE, Machine!EBR_BASE, Machine!EBR_SIZE
<1>5. AddrMod >= 16777216
  BY <1>3, AddressAssumption, WidthAssumption
<1>6. base_address + Len(output) < AddrMod
  BY <1>2, <1>3, <1>4, <1>5 DEF Machine!IO_BASE
<1>7. address = base_address + Len(output)
  BY <1>6 DEF Ready, HInv, Placed
<1> QED BY <1>2, <1>3, <1>4, <1>6, <1>7

\* So the source is flat, and lines have the places of their bytes.
LEMMA Lines ==
  ASSUME Ready
  PROVE  /\ Flat /\ \A i \in DOMAIN src : Alone(i)
         /\ \A i \in DOMAIN src :
              /\ src[i].pos \in Nat /\ src[i].n \in Nat /\ src[i].at = base_address + src[i].pos
              /\ src[i].pos + src[i].n <= Len(output)
              /\ \A j \in DOMAIN src : i < j => src[i].pos + src[i].n <= src[j].pos
<1>1. ASSUME NEW i \in DOMAIN src
      PROVE  /\ src[i].pos \in Nat /\ src[i].n \in Nat /\ src[i].at = base_address + src[i].pos
             /\ src[i].pos + src[i].n <= Len(output)
             /\ \A j \in DOMAIN src : i < j => src[i].pos + src[i].n <= src[j].pos
  <2>1. src[i].pos \in Nat /\ src[i].n \in Nat
    BY LineNumbers DEF Ready
  <2>2. pc = "done" /\ errors = <<>>
    BY DEF Ready, MInv, Loaded
  <2>3. /\ src[i].pos + src[i].n <= Len(output)
        /\ \A j \in DOMAIN src : i < j => src[i].pos + src[i].n <= src[j].pos
    BY <2>2 DEF Ready, HInv, Chained
  <2>4. src[i].at = base_address + src[i].pos
    <3>1. base_address + src[i].pos < AddrMod
      BY <2>1, <2>3, Addresses
    <3> QED BY <3>1 DEF Ready, HInv, Placed
  <2> QED BY <2>1, <2>3, <2>4
<1>2. ASSUME NEW i \in DOMAIN src PROVE src[i].op \notin {"comm", "org"} /\ i \in 1 .. Len(source)
  <2>1. Records(source[i], src[i].op, src[i].refs, src[i].n) /\ Len(src) <= Len(source)
    BY DEF Ready, HInv, Transcribed
  <2>2. src[i].op \notin {"comm", "org"}
    BY <2>1 DEF Records, Kind, Accepted
  <2>3. i \in 1 .. Len(src) /\ Len(src) \in Nat
    BY SrcShape DEF Ready
  <2>4. Len(source) \in Nat
    BY SourcesAssumption, LenProperties DEF Ready
  <2> QED BY <2>1, <2>2, <2>3, <2>4
<1>3. ASSUME NEW i \in DOMAIN src PROVE Exact(src[i])
  <2>1. src[i].at + src[i].n < AddrMod
    BY <1>1, Addresses
  <2> QED BY <1>2, <2>1 DEF Exact
<1>4. Flat
  BY <1>3, SrcShape DEF Flat, FlatUpTo, Ready
<1>5. ASSUME NEW i \in DOMAIN src PROVE Alone(i)
  <2>1. ASSUME NEW k \in DOMAIN src, NEW x \in Cells(k)
        PROVE  \E d \in Nat : x = base_address + src[k].pos + d /\ d < src[k].n
    <3>1. PICK d \in 0 .. src[k].n - 1 : x = Plus(src[k].at, d)
      BY <2>1 DEF Cells
    <3>2. /\ d \in Nat /\ d < src[k].n
          /\ src[k].at + d = base_address + src[k].pos + d /\ src[k].at + d < AddrMod
      BY <1>1, <3>1, Addresses
    <3>3. x = base_address + src[k].pos + d
      BY <3>1, <3>2 DEF Plus
    <3> QED BY <3>2, <3>3
  <2>2. ASSUME NEW j \in DOMAIN src, j # i, NEW x, x \in Cells(i), x \in Cells(j) PROVE FALSE
    <3>1. PICK d \in Nat : x = base_address + src[i].pos + d /\ d < src[i].n
      BY <2>1, <2>2
    <3>2. PICK e \in Nat : x = base_address + src[j].pos + e /\ e < src[j].n
      BY <2>1, <2>2
    <3>3. i \in Nat /\ j \in Nat
      BY LineNumbers DEF Ready
    <3>4. base_address \in Nat /\ src[i].pos \in Nat /\ src[j].pos \in Nat
          /\ src[i].n \in Nat /\ src[j].n \in Nat
      BY <1>1, Addresses
    <3>5. /\ i < j => src[i].pos + src[i].n <= src[j].pos
          /\ j < i => src[j].pos + src[j].n <= src[i].pos
      BY <1>1
    <3> QED BY ONLY <2>2, <3>1, <3>2, <3>3, <3>4, <3>5
  <2> QED BY <2>2 DEF Alone
<1> QED BY <1>1, <1>4, <1>5

-----------------------------------------------------------------------------
(* What a label means.                                                     *)

\* A set of line numbers has a last one.
LEMMA LastExists ==
  ASSUME NEW n \in Nat, NEW S \in SUBSET (1 .. n), S # {}
  PROVE  \E j \in S : IsLatest(j, S)
<1> DEFINE T == {n - j : j \in S}
           R == {ss \in Nat \X Nat : ss[1] < ss[2]}
<1>1. IsWellFoundedOn(R, Nat)
  BY NatLessThanWellFounded DEF OpToRel
<1>2. T \in SUBSET Nat /\ T # {}
  <2>1. \A j \in S : n - j \in Nat
    OBVIOUS
  <2> QED BY <2>1
<1>3. PICK x \in T : \A y \in T : ~ (<<y, x>> \in R)
  <2> HIDE DEF R, T
  <2> QED BY <1>1, <1>2, WFMin
<1>4. PICK j \in S : x = n - j
  OBVIOUS
<1>5. ASSUME NEW i \in S PROVE i <= j
  <2>1. n - i \in T /\ n - i \in Nat /\ n - j \in Nat
    BY <1>4
  <2>2. ~ (<<n - i, n - j>> \in R)
    BY <1>3, <1>4, <2>1
  <2>3. ~ (n - i < n - j)
    BY <2>1, <2>2
  <2> QED BY <2>3
<1> QED BY <1>5 DEF IsLatest

\* A defined label stands for the address of a line.
LEMMA MeaningLine ==
  ASSUME TypeOK, NEW i \in DOMAIN src, NEW l, DefinedBy(l) # {}
  PROVE  \E j \in DOMAIN src : Meaning(i, l) = src[j].at
<1>1. PICK S : S = IF Above(i, l) # {} THEN Above(i, l) ELSE DefinedBy(l)
  OBVIOUS
<1>2. Meaning(i, l) = src[Latest(S)].at
  BY <1>1, MeaningIs
<1>3. S # {} /\ S \subseteq DOMAIN src
  BY <1>1 DEF Above, DefinedBy
<1>4. DOMAIN src = 1 .. Len(src) /\ Len(src) \in Nat
  BY SrcShape
<1>5. PICK j \in S : IsLatest(j, S)
  BY <1>3, <1>4, LastExists
<1>6. Latest(S) = j
  BY <1>3, <1>4, <1>5, LatestIs
<1> QED BY <1>2, <1>3, <1>5, <1>6

-----------------------------------------------------------------------------
(* The bytes at a line.                                                    *)

\* Every line of code was accepted; its label, if it has one, is defined.
LEMMA CodeLines ==
  ASSUME Ready, NoNumericNames, NEW i \in Code
  PROVE  /\ i \in DOMAIN src /\ Accepted(source[i])
         /\ src[i].op = Kind(source[i].ins) /\ src[i].n = Len(Bytes(source[i]))
         /\ DOMAIN source[i] = {"ins", "ops"} /\ Typed(source[i].ins, source[i].ops)
         /\ src[i].n \in {1, 2, 4}
         /\ source[i].ins \in DOMAIN BranchOpcode => src[i].n = 2
         /\ source[i].ins = "la" => src[i].n = 4
         /\ Labelled(source[i]) =>
              LET l == Aimed(source[i]).label
              IN  /\ src[i].refs = <<l>> /\ l \in References(i)
                  /\ DefinedBy(l) # {} /\ HoldsLabel(i, 1, l)
                  /\ src[i].op = "branch" => FitsByte(Displacement(Meaning(i, l), src[i].at))
<1>1. i \in DOMAIN src /\ "ins" \in DOMAIN source[i]
  BY DEF Code, IsInstruction
<1>2. Records(source[i], src[i].op, src[i].refs, src[i].n)
  BY <1>1 DEF Ready, HInv, Transcribed
<1>3. Clean(i) /\ pc = "done" /\ errors = <<>>
  BY <1>1 DEF Ready, MInv, Loaded, ErrorsExact
<1>4. Accepted(source[i])
  BY <1>1, <1>2, <1>3 DEF Records, Clean
<1>5. i \in 1 .. Len(source)
  <2>1. i \in 1 .. Len(src) /\ Len(src) \in Nat /\ Len(src) <= Len(source)
    BY <1>1, SrcShape DEF Ready, HInv, Transcribed
  <2>2. Len(source) \in Nat
    BY SourcesAssumption, LenProperties DEF Ready
  <2> QED BY <2>1, <2>2
<1>6. /\ DOMAIN source[i] = {"ins", "ops"} /\ Typed(source[i].ins, source[i].ops)
      /\ Len(Bytes(source[i])) \in {1, 2, 4}
      /\ source[i].ins \in DOMAIN BranchOpcode => Len(Bytes(source[i])) = 2
      /\ source[i].ins = "la" => Len(Bytes(source[i])) = 4
  BY <1>4, <1>5, AcceptedBytes DEF Ready
<1>7. src[i].op = Kind(source[i].ins) /\ src[i].n = Len(Bytes(source[i]))
  BY <1>2, <1>4 DEF Records
<1>8. ASSUME Labelled(source[i]), NEW l, l = Aimed(source[i]).label
      PROVE  /\ src[i].refs = <<l>> /\ l \in References(i)
             /\ DefinedBy(l) # {} /\ HoldsLabel(i, 1, l)
             /\ src[i].op = "branch" => FitsByte(Displacement(Meaning(i, l), src[i].at))
  <2>1. src[i].refs = <<l>>
    BY <1>2, <1>4, <1>8 DEF Records
  <2>2. l \in Labels
    <3>1. src[i].refs \in Seq(Operands)
      BY <1>1, SrcShape DEF Ready, SourceLine
    <3>2. PICK m, ops, t : m = source[i].ins /\ ops = source[i].ops /\ t = Aimed(source[i])
      OBVIOUS
    <3>3. Accepted(source[i]) /\ Bytes(source[i]) = Encoded(m, ops) /\ Typed(m, ops)
      BY <1>4, <1>6, <3>2, Zenon DEF Bytes
    <3>4. m \in DOMAIN BranchOpcode \/ m = "la"
      BY <1>8, <3>2 DEF Labelled
    <3>5. m # "nop"
      BY <3>4 DEF BranchOpcode
    <3>6. /\ m \in DOMAIN BranchOpcode => ops[1] \in Aim
          /\ m = "la" => ops[2] \in Aim
      BY <3>3, <3>5, Encodes DEF Accepted
    <3>7. t \in Aim
      <4>1. m \in DOMAIN BranchOpcode => m # "la"
        BY DEF BranchOpcode
      <4> QED BY <3>2, <3>4, <3>6, <4>1 DEF Aimed
    <3>8. IsLabel(t) /\ l = t.label
      BY <1>8, <3>2 DEF Labelled
    <3>9. \/ DOMAIN t = {"num"}
          \/ DOMAIN t = {"label"} /\ t.label \in Labels
      BY <3>7 DEF Aim
    <3> QED BY <3>8, <3>9 DEF IsLabel
  <2>3. 1 \in DOMAIN src[i].refs /\ src[i].refs[1] = l
    BY <2>1
  <2>4. ~ Numeric(l)
    BY <2>2, SymbolsAssumption DEF Numeric, NoNumericNames
  <2>5. l \in References(i)
    BY <2>2, <2>3, <2>4 DEF References, Symbolic
  <2>6. /\ DefinedBy(l) # {}
        /\ src[i].op = "branch" => FitsByte(Displacement(Meaning(i, l), src[i].at))
    <3>1. /\ DefinedBy(l) # {}
          /\ src[i].op = "branch" => Reaches(src[i].at, Meaning(i, l))
      BY <1>3, <2>5 DEF Clean
    <3>2. PICK j \in DOMAIN src : Meaning(i, l) = src[j].at
      BY <1>1, <3>1, MeaningLine DEF Ready
    <3>3. src[i].at \in Addr /\ Meaning(i, l) \in Addr
      BY <1>1, <3>2, LineNumbers DEF Ready
    <3> QED BY <3>1, <3>3, ReachesFits
  <2>7. HoldsLabel(i, 1, l)
    <3>1. FlatUpTo(i)
      <4>1. Flat /\ i \in 1 .. Len(src) /\ Len(src) \in Nat
        BY <1>1, Lines, SrcShape DEF Ready
      <4> QED BY <4>1 DEF Flat, FlatUpTo
    <3>2. Alone(i)
      BY <1>1, Lines
    <3> QED BY <1>1, <1>3, <2>2, <2>3, <2>6, <3>1, <3>2 DEF Ready, Linked
  <2> QED BY <2>1, <2>5, <2>6, <2>7
<1> QED BY <1>1, <1>4, <1>6, <1>7, <1>8

\* Byte k of line i, in the result.
ByteOf(i, k) ==
  IF output[src[i].pos + k] # Opaque THEN output[src[i].pos + k] ELSE Bytes(source[i])[k]

\* The machine reads the bytes of the line from its address on.
LEMMA LineInMemory ==
  ASSUME Ready, NoNumericNames, Intact, NEW i \in Code, NEW k \in 1 .. src[i].n
  PROVE  /\ Machine!ReadByte(src[i].at + k - 1) = ByteOf(i, k)
         /\ src[i].at + k - 1 \in DOMAIN mem
         /\ mem[src[i].at + k - 1] = ByteOf(i, k)
<1>1. /\ i \in DOMAIN src /\ src[i].pos \in Nat /\ src[i].n \in Nat
      /\ src[i].at = base_address + src[i].pos /\ src[i].pos + src[i].n <= Len(output)
  BY CodeLines, Lines
<1>2. PICK p : p = src[i].pos + k
  OBVIOUS
<1>3. p \in DOMAIN output /\ p \in Nat \ {0} /\ src[i].at + k - 1 = base_address + p - 1
  <2>1. src[i].pos + src[i].n <= Len(output) /\ src[i].pos \in Nat /\ src[i].n \in Nat
    BY <1>1
  <2>2. DOMAIN output = 1 .. Len(output) /\ Len(output) \in Nat
    BY Addresses
  <2>3. p \in DOMAIN output /\ p \in Nat \ {0}
    BY ONLY <1>2, <2>1, <2>2, k \in 1 .. src[i].n, SMTT(30)
  <2>4. base_address \in Nat /\ src[i].at = base_address + src[i].pos
    BY <1>1, Addresses
  <2>5. src[i].at + k - 1 = base_address + p - 1
    BY ONLY <1>2, <2>1, <2>4, k \in 1 .. src[i].n, SMTT(30)
  <2> QED BY <2>3, <2>5
<1>4. program = Image /\ Machine!IsRam(base_address + p - 1) /\ base_address + p - 1 \in DOMAIN mem
  BY <1>3 DEF Ready, MInv, Loaded
<1>5. mem[base_address + p - 1] = Image[p]
  BY <1>3, <1>4 DEF Intact, Image
<1>6. Image[p] = ByteOf(i, k)
  <2>1. CASE output[p] # Opaque
    BY <1>2, <1>3, <2>1 DEF Image, ByteOf
  <2>2. CASE output[p] = Opaque
    <3> DEFINE In(j) == IsInstruction(j) /\ src[j].pos < p /\ p <= src[j].pos + src[j].n
    <3>1. PICK j : j = CHOOSE q \in DOMAIN src : In(q)
      OBVIOUS
    <3>2. In(i)
      BY <1>1, <1>2 DEF Code, IsInstruction
    <3>3. j \in DOMAIN src /\ In(j)
      BY <1>1, <3>1, <3>2
    <3>4. j = i
      <4>1. i \in Nat /\ j \in Nat
        BY <1>1, <3>3, LineNumbers DEF Ready
      <4>2. src[j].pos \in Nat /\ src[j].n \in Nat
        BY <3>3, Lines
      <4>3. ~ (i < j)
        BY <1>1, <1>3, <3>2, <3>3, <4>2, Lines
      <4>4. ~ (j < i)
        BY <1>1, <1>3, <3>2, <3>3, <4>2, Lines
      <4> QED BY <4>1, <4>3, <4>4
    <3>5. Image[p] = EmittedBy(j)[p - src[j].pos]
      BY <1>3, <2>2, <3>1 DEF Image
    <3>6. p - src[i].pos = k
      BY <1>1, <1>2
    <3>7. Image[p] = Bytes(source[i])[k]
      BY <3>4, <3>5, <3>6 DEF EmittedBy, Bytes
    <3> QED BY <1>2, <2>2, <3>7 DEF ByteOf
  <2> QED BY <2>1, <2>2
<1>7. Machine!ReadByte(base_address + p - 1) = mem[base_address + p - 1]
  <2>1. PICK a : a = base_address + p - 1
    OBVIOUS
  <2>2. a \in Nat /\ a < Machine!IO_BASE
    BY <1>3, <1>4, <2>1, Addresses DEF Machine!IsRam, Machine!IO_BASE, Machine!SRAM_SIZE,
       Machine!EBR_BASE, Machine!EBR_SIZE
  <2>3. Machine!Mask(a) = a
    BY <2>2 DEF Machine!Mask, Machine!IO_BASE
  <2>4. ~ Machine!IsIo(a)
    BY <2>2 DEF Machine!IsIo, Machine!IO_BASE
  <2> QED BY <1>4, <2>1, <2>3, <2>4 DEF Machine!ReadByte
<1> QED BY <1>3, <1>4, <1>5, <1>6, <1>7

\* The bytes that no label determines are the encoder's.
LEMMA FixedBytes ==
  ASSUME Ready, NoNumericNames, NEW i \in Code
  PROVE  /\ ByteOf(i, 1) = Bytes(source[i])[1]
         /\ ~ Labelled(source[i]) => \A k \in 1 .. src[i].n : ByteOf(i, k) = Bytes(source[i])[k]
<1>1. Flat /\ errors = <<>>
  BY Lines DEF Ready, MInv, Loaded
<1>2. i \in DOMAIN src /\ Accepted(source[i]) /\ src[i].n = Len(Bytes(source[i]))
  BY CodeLines
<1>3. /\ output[src[i].pos + 1] = Opaque
      /\ ~ Labelled(source[i]) => \A k \in 1 .. src[i].n : output[src[i].pos + k] = Opaque
  BY <1>1, <1>2 DEF Ready, HInv, Fixed
<1> QED BY <1>3 DEF ByteOf

\* What the machine decodes at a line.
LEMMA DecodedAt ==
  ASSUME Ready, NoNumericNames, Intact, NEW i \in Code, cpu_pc = src[i].at,
         source[i].ins # "nop"
  PROVE  /\ Machine!Fetched # 255 /\ Machine!Decoded # 4095
         /\ Machine!Fetched = Bytes(source[i])[1]
         /\ Machine!op \in Denotes[source[i].ins] /\ source[i].ins \in DOMAIN Denotes
         /\ Machine!ra = RaOf(Machine!Fetched) /\ Machine!rb = RbOf(Machine!Fetched)
         /\ SizeOf[Machine!op] = src[i].n
         /\ ReadsAs(i)
<1>1. PICK m, ops, b : m = source[i].ins /\ ops = source[i].ops /\ b = Bytes(source[i])
  OBVIOUS
<1>2. /\ Typed(m, ops) /\ b = Encoded(m, ops) /\ b # Rejected /\ m # "nop"
      /\ src[i].n = Len(b) /\ src[i].n \in {1, 2, 4} /\ src[i].at \in Nat
  <2>1. /\ Typed(source[i].ins, source[i].ops) /\ Accepted(source[i])
        /\ src[i].n = Len(Bytes(source[i])) /\ src[i].n \in {1, 2, 4} /\ i \in DOMAIN src
    BY CodeLines
  <2>2. src[i].at \in Nat
    BY <2>1, LineNumbers DEF Ready, Addr
  <2> QED BY <1>1, <2>1, <2>2, Zenon DEF Accepted, Bytes
<1>3. m \in DOMAIN Denotes /\ Reads(b, m, ops)
  BY <1>2, Encodes
<1>4. PICK x \in InstructionByte, o \in Denotes[m] : ReadsAsOne(x, o, b, m, ops)
  BY <1>3 DEF Reads
<1>5. Machine!Fetched = b[1]
  <2>1. src[i].n \in {1, 2, 4}
    BY <1>2
  <2>2. 1 \in 1 .. src[i].n
    BY ONLY <2>1
  <2>3. Machine!ReadByte(src[i].at + 1 - 1) = ByteOf(i, 1)
    BY <2>2, LineInMemory
  <2>4. src[i].at + 1 - 1 = src[i].at
    BY <1>2
  <2> QED BY <1>1, <2>3, <2>4, FixedBytes DEF Machine!Fetched
<1>6. Machine!Fetched = x /\ x \in 0 .. 254
  BY <1>4, <1>5 DEF ReadsAsOne, InstructionByte
<1>7. /\ Machine!Fetched # 255 /\ Machine!Decoded # 4095
      /\ Machine!op = o /\ Machine!ra = RaOf(x) /\ Machine!rb = RbOf(x)
  BY <1>4, <1>6 DEF ReadsAsOne, Machine!Decoded, Machine!op, Machine!ra, Machine!rb, OpOf, RaOf, RbOf
<1>8. SizeOf[o] = src[i].n
  BY <1>2, <1>4 DEF ReadsAsOne
<1>9. RegistersOf(i) = RegistersIn(m, ops) /\ OperandsOf(i) = ops /\ Arity(i) = ArityOf(m)
  BY <1>1 DEF RegistersOf, RegistersIn, OperandsOf, Arity, ArityOf
<1>10. SubSeq(<<Machine!ra, Machine!rb>>, 1, Len(RegistersOf(i))) = RegistersOf(i)
  <2>1. SubSeq(<<RaOf(x), RbOf(x)>>, 1, Len(RegistersIn(m, ops))) = RegistersIn(m, ops)
    BY <1>4 DEF ReadsAsOne
  <2>2. PICK r : r = RegistersOf(i)
    OBVIOUS
  <2>3. RegistersIn(m, ops) = r
    BY <1>9, <2>2
  <2>4. <<Machine!ra, Machine!rb>> = <<RaOf(x), RbOf(x)>>
    BY <1>7
  <2>5. SubSeq(<<RaOf(x), RbOf(x)>>, 1, Len(r)) = r
    BY <2>1, <2>3
  <2>6. SubSeq(<<Machine!ra, Machine!rb>>, 1, Len(r)) = r
    BY <2>4, <2>5, Zenon
  <2> QED BY <2>2, <2>6
<1>11. ASSUME NEW v \in Constants(OperandsOf(i)[Arity(i)]), Representable(i, v)
       PROVE  ConstantUsed = Machine!Mask(v)
  <2>1. v \in Constants(ops[ArityOf(m)]) /\ Held(m, v)
    BY <1>1, <1>9, <1>11 DEF Representable, Held
  <2>2. ConstantIn(b, o) = Machine!Mask(v) /\ src[i].n # 1
    BY <1>4, <1>8, <2>1 DEF ReadsAsOne, Short
  <2>3. ~ Labelled(source[i])
    <3>1. Aimed(source[i]) = ops[ArityOf(m)] \/ ~ Labelled(source[i])
      BY <1>1 DEF Aimed, Labelled, ArityOf, BranchOpcode
    <3>2. CASE Labelled(source[i])
      <4>1. PICK t : t = ops[ArityOf(m)]
        OBVIOUS
      <4>2. IsLabel(t) /\ (m \in DOMAIN BranchOpcode \/ m = "la")
        BY <1>1, <3>1, <3>2, <4>1 DEF Labelled
      <4>3. t \in Aim
        <5>1. /\ m \in DOMAIN BranchOpcode => ops[1] \in Aim /\ ArityOf(m) = 1
              /\ m = "la" => ops[2] \in Aim /\ ArityOf(m) = 2
          BY <1>2, Encodes DEF ArityOf, BranchOpcode
        <5> QED BY <4>1, <4>2, <5>1
      <4>4. DOMAIN t = {"num"} \/ DOMAIN t = {"label"}
        BY <4>3 DEF Aim
      <4> QED BY <2>1, <4>1, <4>2, <4>4 DEF IsLabel, Constants
    <3> QED BY <3>2
  <2>4. \A k \in 1 .. src[i].n : Machine!ReadByte(src[i].at + k - 1) = b[k]
    BY <1>1, <2>3, LineInMemory, FixedBytes
  <2>5. src[i].n \in {2, 4}
    BY <1>2, <2>2
  <2>6. Machine!imm8 = b[2]
    <3>1. 2 \in 1 .. src[i].n
      BY ONLY <2>5
    <3>2. src[i].at + 2 - 1 = cpu_pc + 1
      BY <1>2
    <3>3. Machine!ReadByte(src[i].at + 2 - 1) = b[2]
      BY <2>4, <3>1
    <3> QED BY <3>2, <3>3 DEF Machine!imm8
  <2>7. src[i].n = 4 => Machine!imm24 = Machine!WordOf(b[2], b[3], b[4])
    <3> SUFFICES ASSUME src[i].n = 4 PROVE Machine!imm24 = Machine!WordOf(b[2], b[3], b[4])
      OBVIOUS
    <3>1. 3 \in 1 .. src[i].n /\ 4 \in 1 .. src[i].n
      OBVIOUS
    <3>2. src[i].at + 3 - 1 = cpu_pc + 2 /\ src[i].at + 4 - 1 = cpu_pc + 3
      BY <1>2
    <3>3. Machine!ReadByte(src[i].at + 3 - 1) = b[3] /\ Machine!ReadByte(src[i].at + 4 - 1) = b[4]
      BY <2>4, <3>1
    <3>4. Machine!ReadByte(cpu_pc + 2) = b[3] /\ Machine!ReadByte(cpu_pc + 3) = b[4]
      BY <3>2, <3>3
    <3> QED BY <2>6, <3>4 DEF Machine!imm24, Machine!imm8
  <2>8. o \in {"La", "SubSp"} => src[i].n = 4
    BY <1>8, Sizes
  <2>9. ConstantUsed = ConstantIn(b, o)
    BY <1>7, <2>6, <2>7, <2>8 DEF ConstantUsed, ConstantIn
  <2> QED BY <2>2, <2>9
<1>12. ReadsAs(i)
  BY <1>1, <1>7, <1>10, <1>11 DEF ReadsAs
<1> QED BY <1>1, <1>3, <1>5, <1>6, <1>7, <1>8, <1>12

-----------------------------------------------------------------------------
(* The instructions that transfer control.                                 *)

\* The first byte of an instruction, and the register fields it decodes to.
LEMMA HeadByte ==
  ASSUME NEW o \in DOMAIN SizeOf, NEW ras, NEW rbs, NEW operand \in Seq(Int),
         NEW b, b = Assembled(o, ras, rbs, operand), b # Rejected
  PROVE  RaOf(b[1]) \in ras /\ RbOf(b[1]) \in rbs
<1>1. Assembled(o, ras, rbs, operand) # Rejected
  BY Zenon
<1>2. PICK x \in InstructionByte : /\ Decodes(x, o, ras, rbs)
                                  /\ Assembled(o, ras, rbs, operand) = <<x>> \o operand
  BY <1>1, AssembledByte
<1>3. b = <<x>> \o operand
  BY <1>2, Zenon
<1>4. x \in Int
  BY DEF InstructionByte
<1>5. b[1] = x
  <2>1. <<x>> \in Seq(Int) /\ Len(<<x>>) = 1 /\ <<x>>[1] = x
    BY <1>4
  <2>2. \A k \in 1 .. Len(<<x>>) + Len(operand) :
          (<<x>> \o operand)[k] = IF k <= Len(<<x>>) THEN <<x>>[k] ELSE operand[k - Len(<<x>>)]
    BY <2>1, ConcatProperties
  <2>3. Len(operand) \in Nat
    BY LenProperties
  <2>4. (<<x>> \o operand)[1] = x
    <3>1. 1 \in 1 .. Len(<<x>>) + Len(operand) /\ 1 <= Len(<<x>>)
      BY <2>1, <2>3
    <3> QED BY <2>1, <2>2, <3>1, Zenon
  <2> QED BY <1>3, <2>4, Zenon
<1>6. RaOf(x) \in ras /\ RbOf(x) \in rbs
  BY <1>2 DEF Decodes
<1> QED BY <1>5, <1>6, Zenon

\* The registers of la, jmp and jal, and the displacement of a branch to a
\* number, are those the text gives.
LEMMA ControlOperands ==
  ASSUME NEW m, NEW ops, Typed(m, ops), NEW b, b = Encoded(m, ops), b # Rejected
  PROVE  /\ m = "la" => RaOf(b[1]) \in Register(ops[1])
         /\ m = "jmp" => RaOf(b[1]) \in Parenthesised(ops[1])
         /\ m = "jal" => RaOf(b[1]) \in Register(ops[1]) /\ RbOf(b[1]) \in Parenthesised(ops[2])
         /\ (m \in DOMAIN BranchOpcode /\ IsNumber(ops[1])) =>
              ops[1].num \in Int /\ b[2] = Low8(ops[1].num)
<1>1. ASSUME m = "la" PROVE RaOf(b[1]) \in Register(ops[1])
  <2>1. b = EncodeLa(ops)
    BY <1>1 DEF Encoded, AluOpcode, BranchOpcode, LoadStoreOpcode
  <2>2. PICK operand : operand = IF IsNumber(ops[2]) THEN Bytes24(ops[2].num) ELSE <<0, 0, 0>>
    OBVIOUS
  <2>3. b = Assembled("La", Register(ops[1]), Any, operand) /\ Len(ops) >= 2
    <3>1. Len(ops) \in Nat
      BY LenProperties DEF Typed
    <3> QED BY <2>1, <2>2, <3>1 DEF EncodeLa
  <2>4. operand \in Seq(Int)
    <3>1. CASE IsNumber(ops[2])
      <4>1. ops[2] \in Operand
        BY <2>3, OperandTypes DEF Typed
      <4>2. PICK v : v = ops[2].num
        OBVIOUS
      <4>3. v \in Int /\ operand = Bytes24(v)
        BY <2>2, <3>1, <4>1, <4>2, NumberNamed
      <4> QED BY <4>3 DEF Bytes24
    <3>2. CASE ~ IsNumber(ops[2])
      BY <2>2, <3>2
    <3> QED BY <3>1, <3>2
  <2>5. "La" \in DOMAIN SizeOf
    BY Sizes
  <2> QED BY <2>3, <2>4, <2>5, HeadByte
<1>2. <<>> \in Seq(Int) /\ "Jmp" \in DOMAIN SizeOf /\ "Jal" \in DOMAIN SizeOf
  BY Sizes
<1>3. ASSUME m = "jmp" PROVE RaOf(b[1]) \in Parenthesised(ops[1])
  <2>1. b = EncodeJmp(ops)
    BY <1>3 DEF Encoded, AluOpcode, BranchOpcode, LoadStoreOpcode
  <2>2. b = Assembled("Jmp", Parenthesised(ops[1]), Any, <<>>)
    BY <2>1 DEF EncodeJmp
  <2> QED BY <1>2, <2>2, HeadByte
<1>4. ASSUME m = "jal"
      PROVE  RaOf(b[1]) \in Register(ops[1]) /\ RbOf(b[1]) \in Parenthesised(ops[2])
  <2>1. b = EncodeJal(ops)
    BY <1>4 DEF Encoded, AluOpcode, BranchOpcode, LoadStoreOpcode
  <2>2. b = Assembled("Jal", Register(ops[1]), Parenthesised(ops[2]), <<>>)
    BY <2>1 DEF EncodeJal
  <2> QED BY <1>2, <2>2, HeadByte
<1>5. ASSUME m \in DOMAIN BranchOpcode, IsNumber(ops[1])
      PROVE  ops[1].num \in Int /\ b[2] = Low8(ops[1].num)
  <2>1. PICK o : o = BranchOpcode[m]
    OBVIOUS
  <2>2. b = EncodeBranch(o, ops)
    BY <1>5, <2>1 DEF Encoded, AluOpcode, BranchOpcode, LoadStoreOpcode
  <2>3. PICK v, y : v = ops[1].num /\ y = Low8(v)
    OBVIOUS
  <2>4. b = Assembled(o, Any, Any, <<y>>) /\ Len(ops) >= 1
    BY <1>5, <2>2, <2>3 DEF EncodeBranch
  <2>5. v \in Int
    <3>1. ops[1] \in Operand
      BY <2>4, OperandTypes DEF Typed
    <3> QED BY <1>5, <2>3, <3>1, NumberNamed
  <2>6. y \in Machine!Byte
    BY <2>3, <2>5, FieldValues
  <2>7. o \in DOMAIN SizeOf
    <3>1. o \in {"Bra", "Brf", "Brt"}
      BY <1>5, <2>1 DEF BranchOpcode
    <3> QED BY <3>1, Sizes
  <2>8. Assembled(o, Any, Any, <<y>>) # Rejected
    BY <2>4, Zenon
  <2>9. PICK x \in InstructionByte : Assembled(o, Any, Any, <<y>>) = <<x, y>>
    BY <2>6, <2>7, <2>8, Operand1
  <2>10. b = <<x, y>>
    BY <2>4, <2>9, Zenon
  <2> QED BY <2>3, <2>5, <2>10
<1> QED BY <1>1, <1>3, <1>4, <1>5

\* What a register set of one operand says of it.
LEMMA RegisterOperand ==
  ASSUME NEW o, NEW r
  PROVE  /\ r \in Register(o) => r = RegisterCode[o.reg] /\ o.reg \in DOMAIN RegisterCode
         /\ r \in Parenthesised(o) => r = RegisterCode[o.base] /\ o.base \in DOMAIN RegisterCode
BY DEF Register, Parenthesised, RegisterOf

\* ir alone is register 7.
LEMMA OnlyIr ==
  ASSUME NEW name \in DOMAIN RegisterCode
  PROVE  RegisterCode[name] \in 0 .. 7 /\ (RegisterCode[name] = 7 <=> name = "ir")
BY DEF RegisterCode

-----------------------------------------------------------------------------
(* A label's bytes, undone by the machine.                                 *)

\* Numbers of this size are not for every prover to see.
LEMMA IoBase == Machine!IO_BASE \in Nat
BY SMT DEF Machine!IO_BASE

\* The displacement the assembler computes leads the machine to the target.
LEMMA DisplacementUndone ==
  ASSUME NEW t \in Nat, t <= Machine!IO_BASE, NEW a \in Nat, a + 2 <= Machine!IO_BASE,
         NEW d, d = Displacement(t, a), FitsByte(d)
  PROVE  Machine!Mask(a + 2 + 2 + Machine!SignExtend8(d % 256)) = t
<1>1. PICK m : m = AddrMod
  OBVIOUS
<1>2. m \in Nat /\ m % 16777216 = 0 /\ m > 0
  BY <1>1, AddressAssumption, WidthAssumption, SMT
<1>3. PICK k \in Nat : m = 16777216 * k /\ m >= 16777216
  BY <1>2, SMT
<1>4. /\ t \in Nat /\ t <= 16711680 /\ a <= 16711678
  BY SMT DEF Machine!IO_BASE
<1>5. Plus(a, 4) = a + 4
  BY <1>1, <1>2, <1>3, <1>4, SMT DEF Plus
<1>6. \A x \in Nat : Signed(x) = x \/ Signed(x) = x - m
  BY <1>1, SMT DEF Signed
<1>7. PICK e \in -2 .. 2 : d = t - (a + 4) + e * m
  <2>1. PICK u \in Nat : u = a + 4
    BY SMT
  <2>2. PICK x \in {t, t - m} : x = Signed(t)
    BY <1>6
  <2>3. PICK y \in {u, u - m} : y = Signed(u)
    BY <1>6
  <2>4. PICK z : z = x - y
    OBVIOUS
  <2>5. z \in Int /\ z \in {t - u, t - u - m, t - u + m}
    BY ONLY <1>2, <1>4, <2>1, <2>2, <2>3, <2>4, SMT
  <2>6. d = Minus(t, u)
    BY ONLY <1>5, <2>1, d = Displacement(t, a), Zenon DEF Displacement
  <2>7. d \in {z, z - m, z + m}
    BY ONLY <1>1, <1>2, <2>2, <2>3, <2>4, <2>5, <2>6, SMT DEF Minus
  <2> QED BY ONLY <1>2, <1>4, <2>1, <2>5, <2>7, SMT
<1>8. PICK q \in Int : d = t - (a + 4) + 16777216 * q
  <2>1. e * m = 16777216 * (e * k) /\ e * k \in Int
    BY <1>3, SMT
  <2> QED BY <1>7, <2>1, SMT
<1>9. d \in Int /\ 0 - 128 <= d /\ d <= 127
  BY <1>4, <1>8, AddressAssumption, SMT DEF FitsByte
<1>10. Machine!SignExtend8(d % 256) = IF d >= 0 THEN d ELSE d + 16777216
  <2>1. d >= 0 => d % 256 = d
    BY <1>9, SMT
  <2>2. d < 0 => d % 256 = d + 256
    BY <1>9, SMT
  <2> QED BY <1>9, <2>1, <2>2, SMT DEF Machine!SignExtend8
<1>11. PICK r : r = IF d >= 0 THEN q ELSE q + 1
  OBVIOUS
<1>12. r \in Int /\ a + 2 + 2 + Machine!SignExtend8(d % 256) = t + 16777216 * r
  BY <1>4, <1>8, <1>9, <1>10, <1>11, SMT
<1>13. (t + 16777216 * r) % 16777216 = t
  BY <1>4, <1>12, SMT
<1> QED BY <1>12, <1>13, SMT DEF Machine!Mask

\* The three bytes of an address, read by the machine, are that address.
LEMMA AddressUndone ==
  ASSUME NEW t \in Nat, t <= Machine!IO_BASE
  PROVE  Machine!WordOf(Address24(t)[1], Address24(t)[2], Address24(t)[3]) = t
<1>1. Address24(t) = <<t % 256, (t \div 256) % 256, (t \div 65536) % 256>>
  BY AddressAssumption DEF Address24
<1>2. (t % 256) + 256 * ((t \div 256) % 256) + 65536 * ((t \div 65536) % 256) = t
  <2>1. t < 16777216
    BY SMT DEF Machine!IO_BASE
  <2> QED BY <2>1, SMT
<1> QED BY <1>1, <1>2 DEF Machine!WordOf

-----------------------------------------------------------------------------
(* What the machine finds at a line.                                       *)

\* A line of code ends in RAM: the machine's addresses do not wrap there.
LEMMA LineEnds ==
  ASSUME Ready, NoNumericNames, NEW i \in Code
  PROVE  /\ src[i].at \in Nat /\ src[i].n \in {1, 2, 4} /\ EndOf(i) = src[i].at + src[i].n
         /\ EndOf(i) <= Machine!IO_BASE /\ Machine!Mask(EndOf(i)) = EndOf(i)
         /\ \A j \in DOMAIN src : src[j].at \in Nat /\ src[j].at <= Machine!IO_BASE
<1>1. i \in DOMAIN src /\ src[i].n \in {1, 2, 4}
  BY CodeLines
<1>2. Len(output) > 0 /\ Len(output) \in Nat
  <2>1. src[i].pos \in Nat /\ src[i].pos + src[i].n <= Len(output) /\ Len(output) \in Nat
    BY <1>1, Lines, Addresses
  <2> QED BY <1>1, <2>1
<1>3. base_address + Len(output) <= Machine!IO_BASE /\ base_address \in Nat
  BY <1>2, Addresses
<1>4. \A j \in DOMAIN src : src[j].at \in Nat /\ src[j].at <= Machine!IO_BASE
  <2> SUFFICES ASSUME NEW j \in DOMAIN src PROVE src[j].at \in Nat /\ src[j].at <= Machine!IO_BASE
    OBVIOUS
  <2>1. /\ src[j].pos \in Nat /\ src[j].n \in Nat /\ src[j].at = base_address + src[j].pos
        /\ src[j].pos + src[j].n <= Len(output)
    BY Lines
  <2> QED BY <1>2, <1>3, <2>1, IoBase
<1>5. src[i].at + src[i].n <= Machine!IO_BASE
  <2>1. /\ src[i].pos \in Nat /\ src[i].n \in Nat /\ src[i].at = base_address + src[i].pos
        /\ src[i].pos + src[i].n <= Len(output)
    BY <1>1, Lines
  <2> QED BY <1>1, <1>2, <1>3, <2>1, IoBase
<1>6. Machine!Mask(src[i].at + src[i].n) = src[i].at + src[i].n
  <2>1. \A x \in Nat : x <= Machine!IO_BASE => Machine!Mask(x) = x
    BY SMT DEF Machine!Mask, Machine!IO_BASE
  <2>2. src[i].at + src[i].n \in Nat
    BY <1>1, <1>4
  <2> QED BY <1>5, <2>1, <2>2, Zenon
<1> QED BY <1>1, <1>4, <1>5, <1>6 DEF EndOf

\* What the machine finds at a line whose operand is a label.
LEMMA LabelRead ==
  ASSUME Ready, NoNumericNames, Intact, NEW i \in Code, cpu_pc = src[i].at,
         Labelled(source[i]), NEW l, l = Aimed(source[i]).label
  PROVE  /\ source[i].ins \in DOMAIN BranchOpcode =>
              Machine!Mask(src[i].at + 2 + 2 + Machine!SignExtend8(Machine!imm8)) = Meaning(i, l)
         /\ source[i].ins = "la" => Machine!imm24 = Meaning(i, l)
<1>1. PICK M : M = Meaning(i, l)
  OBVIOUS
<1>2. /\ i \in DOMAIN src /\ DefinedBy(l) # {} /\ HoldsLabel(i, 1, l)
      /\ src[i].op = Kind(source[i].ins)
      /\ src[i].op = "branch" => FitsByte(Displacement(M, src[i].at))
      /\ source[i].ins \in DOMAIN BranchOpcode => src[i].n = 2
      /\ source[i].ins = "la" => src[i].n = 4
  BY <1>1, CodeLines
<1>3. M \in Nat /\ M <= Machine!IO_BASE
  <2>1. \E j \in DOMAIN src : M = src[j].at
    BY <1>1, <1>2, MeaningLine DEF Ready
  <2> QED BY <2>1, LineEnds
<1>4. src[i].at \in Nat /\ src[i].at + src[i].n <= Machine!IO_BASE /\ src[i].pos \in Nat
  <2>1. src[i].pos \in Nat
    BY <1>2, Lines
  <2> QED BY <2>1, LineEnds
<1>5. ASSUME source[i].ins \in DOMAIN BranchOpcode
      PROVE  Machine!Mask(src[i].at + 2 + 2 + Machine!SignExtend8(Machine!imm8)) = M
  <2>1. src[i].op = "branch" /\ src[i].n = 2
    BY <1>2, <1>5 DEF Kind
  <2>2. PICK d : d = Displacement(M, src[i].at)
    OBVIOUS
  <2>3. output[src[i].pos + 2] = d % 256 /\ FitsByte(d)
    BY <1>1, <1>2, <2>1, <2>2, AddressAssumption DEF HoldsLabel
  <2>4. d \in Int
    <3>1. AddrMod \in Int
      BY WidthAssumption
    <3> QED BY <1>3, <1>4, <2>2, <3>1 DEF Displacement, Minus, Signed, Plus
  <2>5. d % 256 # Opaque
    <3>1. d % 256 \in 0 .. 256 - 1
      BY <2>4
    <3> QED BY <3>1, SymbolsAssumption, AddressAssumption
  <2>6. ByteOf(i, 2) = d % 256
    BY <2>3, <2>5 DEF ByteOf
  <2>7. Machine!imm8 = d % 256
    <3>1. 2 \in 1 .. src[i].n
      BY <2>1
    <3>2. Machine!ReadByte(src[i].at + 2 - 1) = ByteOf(i, 2)
      BY <3>1, LineInMemory
    <3>3. src[i].at + 2 - 1 = cpu_pc + 1
      BY <1>4
    <3> QED BY <2>6, <3>2, <3>3 DEF Machine!imm8
  <2>8. src[i].at + 2 <= Machine!IO_BASE
    BY <1>4, <2>1
  <2> QED BY <1>3, <1>4, <2>2, <2>3, <2>7, <2>8, DisplacementUndone
<1>6. ASSUME source[i].ins = "la" PROVE Machine!imm24 = M
  <2>1. src[i].op = "la" /\ src[i].n = 4
    BY <1>2, <1>6 DEF Kind, BranchOpcode
  <2>2. PICK p : p = src[i].pos
    OBVIOUS
  <2>3. SubSeq(output, p + 2, p + 4) = Address24(M)
    BY <1>1, <1>2, <2>1, <2>2 DEF HoldsLabel
  <2>4. \A k \in 1 .. 3 : output[p + 1 + k] = Address24(M)[k]
    <3>1. output \in Seq(Cell) /\ p \in Nat /\ p + 4 <= Len(output) /\ Len(output) \in Nat
      BY <1>2, <2>1, <2>2, Lines, Addresses DEF Ready, TypeOK
    <3>2. \A k \in p + 2 .. p + 4 : output[k] \in Cell
      BY <3>1, ElementOfSeq
    <3>3. p + 2 \in Nat /\ p + 4 \in Nat /\ p + 2 <= p + 4
      BY <3>1
    <3>4. \A k \in 1 .. (p + 4) - (p + 2) + 1 : SubSeq(output, p + 2, p + 4)[k] = output[p + 2 + k - 1]
      BY <3>2, <3>3, SubSeqProperties
    <3>5. \A k \in 1 .. 3 : k \in 1 .. (p + 4) - (p + 2) + 1 /\ p + 2 + k - 1 = p + 1 + k
      BY <3>1
    <3> QED BY <2>3, <3>4, <3>5
  <2>5. \A k \in 1 .. 3 : Address24(M)[k] \in 0 .. 255
    BY <1>3, AddressAssumption DEF Address24
  <2>6. \A k \in 1 .. 3 : ByteOf(i, k + 1) = Address24(M)[k]
    <3> SUFFICES ASSUME NEW k \in 1 .. 3 PROVE ByteOf(i, k + 1) = Address24(M)[k]
      OBVIOUS
    <3>1. output[p + 1 + k] = Address24(M)[k] /\ Address24(M)[k] # Opaque
      BY <2>4, <2>5, SymbolsAssumption, AddressAssumption
    <3>2. p + 1 + k = src[i].pos + (k + 1)
      BY <1>4, <2>2
    <3> QED BY <3>1, <3>2 DEF ByteOf
  <2>7. \A k \in 1 .. 3 : Machine!ReadByte(cpu_pc + k) = Address24(M)[k]
    <3> SUFFICES ASSUME NEW k \in 1 .. 3 PROVE Machine!ReadByte(cpu_pc + k) = Address24(M)[k]
      OBVIOUS
    <3>1. k + 1 \in 1 .. src[i].n /\ src[i].at + (k + 1) - 1 = cpu_pc + k
      BY <1>4, <2>1
    <3>2. Machine!ReadByte(src[i].at + (k + 1) - 1) = ByteOf(i, k + 1)
      BY <3>1, LineInMemory
    <3> QED BY <2>6, <3>1, <3>2
  <2>8. Machine!imm24 = Machine!WordOf(Address24(M)[1], Address24(M)[2], Address24(M)[3])
    <3>1. 1 \in 1 .. 3 /\ 2 \in 1 .. 3 /\ 3 \in 1 .. 3
      OBVIOUS
    <3> QED BY <2>7, <3>1 DEF Machine!imm24
  <2> QED BY <1>3, <2>8, AddressUndone
<1> QED BY <1>1, <1>5, <1>6

-----------------------------------------------------------------------------
(* One step from a line of code.                                           *)

\* Where each instruction leaves the machine.
LEMMA Outcome ==
  ASSUME Machine!Execute, NEW o, o = Machine!op, DOMAIN registers = 0 .. 7
  PROVE  /\ o \notin {"La", "Bra", "Brf", "Brt", "Jal", "Jmp"} => cpu_pc' = Machine!next_pc
         /\ (o = "La" /\ Machine!ra = 7) => cpu_pc' = Machine!imm24
         /\ (o = "La" /\ Machine!ra # 7) => cpu_pc' = Machine!next_pc
         /\ (o = "La" /\ Machine!ra # 7 /\ Machine!ra \in 0 .. 7) =>
              registers'[Machine!ra] = Machine!imm24
         /\ o = "Bra" => cpu_pc' = Machine!Target /\ halted' = (Machine!Target = cpu_pc)
         /\ o \in {"Brf", "Brt"} =>
              cpu_pc' = IF c = (o = "Brt") THEN Machine!Target ELSE Machine!next_pc
         /\ o = "Jal" => cpu_pc' = Machine!B
         /\ (o = "Jal" /\ Machine!ra \in 0 .. 7) => registers'[Machine!ra] = Machine!next_pc
         /\ o = "Jmp" => cpu_pc' = Machine!A
         /\ o # "Bra" => halted' = halted
<1>1. CASE Machine!Compute
  <2>1. /\ o \in Machine!Computing /\ cpu_pc' = Machine!next_pc /\ halted' = halted
        /\ o = "La" => Machine!ra # 7
    BY <1>1 DEF Machine!Compute, Machine!Retire
  <2>2. o \notin {"Bra", "Brf", "Brt", "Jal", "Jmp"}
    BY <2>1 DEF Machine!Computing
  <2>3. (o = "La" /\ Machine!ra \in 0 .. 7) => registers'[Machine!ra] = Machine!imm24
    <3> SUFFICES ASSUME o = "La", Machine!ra \in 0 .. 7 PROVE registers'[Machine!ra] = Machine!imm24
      OBVIOUS
    <3>1. Machine!Result = Machine!imm24
      BY DEF Machine!Result
    <3>2. registers' = [registers EXCEPT ![Machine!ra] = Machine!Result]
      BY <1>1 DEF Machine!Compute
    <3> QED BY <3>1, <3>2
  <2> QED BY <2>1, <2>2, <2>3
<1>2. CASE Machine!JumpAbsolute
  BY <1>2 DEF Machine!JumpAbsolute, Machine!Retire
<1>3. CASE Machine!Compare \/ Machine!LoadByte \/ Machine!LoadWord \/ Machine!Pop
  BY <1>3 DEF Machine!Compare, Machine!LoadByte, Machine!LoadWord, Machine!Pop, Machine!Retire
<1>4. CASE Machine!Store \/ Machine!Push
  BY <1>4 DEF Machine!Store, Machine!Push, Machine!RetireWriting, Machine!Retire
<1>5. CASE Machine!Bra
  BY <1>5 DEF Machine!Bra
<1>6. CASE Machine!BranchIf
  BY <1>6 DEF Machine!BranchIf, Machine!Retire
<1>7. CASE Machine!Jal
  <2>1. /\ o = "Jal" /\ cpu_pc' = Machine!B /\ halted' = halted
        /\ registers' = [registers EXCEPT ![Machine!ra] = Machine!next_pc]
    BY <1>7 DEF Machine!Jal, Machine!Retire
  <2> QED BY <2>1
<1>8. CASE Machine!Jmp
  BY <1>8 DEF Machine!Jmp, Machine!Retire
<1> QED BY <1>1, <1>2, <1>3, <1>4, <1>5, <1>6, <1>7, <1>8 DEF Machine!Execute

\* At a line of code a step is the end at address 0, a nop or the instruction.
LEMMA StepAt ==
  ASSUME Ready, NoNumericNames, Intact, ~ halted, NEW i \in Code, cpu_pc = src[i].at, Machine!Step
  PROVE  \/ Machine!HaltAtZero
         \/ source[i].ins = "nop" /\ Machine!Nop
         \/ source[i].ins # "nop" /\ Machine!Execute
<1>1. ~ Machine!StepHalted
  BY DEF Machine!StepHalted
<1>2. ~ Machine!Interrupt
  BY DEF Machine!Interrupt, Machine!InterruptPending, Ready, MInv, MachineInv, Quiet
<1>3. CASE source[i].ins # "nop"
  <2>1. Machine!Fetched # 255 /\ Machine!Decoded # 4095
    BY <1>3, DecodedAt
  <2>2. ~ Machine!Nop
    BY <2>1 DEF Machine!Nop
  <2>3. ~ Machine!InvalidInstruction
    BY <2>1 DEF Machine!InvalidInstruction, Machine!Undecodable
  <2> QED BY <1>1, <1>2, <1>3, <2>2, <2>3 DEF Machine!Step
<1>4. CASE source[i].ins = "nop"
  <2>1. Machine!Fetched = 255
    <3>1. Bytes(source[i]) = <<255>>
      BY <1>4 DEF Bytes, Encoded, AluOpcode, BranchOpcode, LoadStoreOpcode
    <3>2. src[i].n \in {1, 2, 4} /\ src[i].at \in Nat
      BY LineEnds
    <3>3. 1 \in 1 .. src[i].n
      BY ONLY <3>2
    <3>4. Machine!ReadByte(src[i].at + 1 - 1) = ByteOf(i, 1)
      BY <3>3, LineInMemory
    <3>5. src[i].at + 1 - 1 = cpu_pc
      BY <3>2
    <3> QED BY <3>1, <3>4, <3>5, FixedBytes DEF Machine!Fetched
  <2>2. ~ Machine!InvalidInstruction /\ ~ Machine!Execute
    BY <2>1 DEF Machine!InvalidInstruction, Machine!Execute, Machine!Executing, Machine!Compute,
       Machine!JumpAbsolute, Machine!Compare, Machine!Bra, Machine!BranchIf, Machine!Jal,
       Machine!Jmp, Machine!LoadByte, Machine!LoadWord, Machine!Store, Machine!Pop, Machine!Push
  <2> QED BY <1>1, <1>2, <1>4, <2>2 DEF Machine!Step
<1> QED BY <1>3, <1>4

\* The address after the line, and the target of a branch from it.
LEMMA NextAt ==
  ASSUME Ready, NoNumericNames, Intact, NEW i \in Code, cpu_pc = src[i].at,
         source[i].ins # "nop"
  PROVE  /\ Machine!next_pc = EndOf(i)
         /\ Machine!next_pc + 2 = EndOf(i) + 2
<1>1. SizeOf[Machine!op] = src[i].n
  BY DecodedAt
<1>2. Machine!next_pc = Machine!Mask(src[i].at + src[i].n)
  BY <1>1 DEF Machine!next_pc
<1> QED BY <1>2, LineEnds, Zenon

\* A step from line i leads where the source says.
LEMMA FollowsAt ==
  ASSUME Ready, NoNumericNames, Intact, ~ halted, NEW i \in Code, cpu_pc = src[i].at,
         Machine!Step, ~ halted'
  PROVE  Follows(i)
<1>1. PICK m, ops : m = source[i].ins /\ ops = OperandsOf(i)
  OBVIOUS
<1>2. CASE m = "nop"
  <2>1. Machine!Nop
    BY <1>1, <1>2, StepAt DEF Machine!HaltAtZero
  <2>2. src[i].n = 1
    <3>1. Bytes(source[i]) = <<255>>
      BY <1>1, <1>2 DEF Bytes, Encoded, AluOpcode, BranchOpcode, LoadStoreOpcode
    <3>2. Len(<<255>>) = 1
      OBVIOUS
    <3> QED BY <3>1, <3>2, CodeLines
  <2>3. cpu_pc' = Machine!Mask(src[i].at + 1)
    BY <2>1 DEF Machine!Nop
  <2>4. cpu_pc' = EndOf(i)
    BY <2>2, <2>3, LineEnds, Zenon
  <2>5. m \notin DOMAIN BranchOpcode /\ m \notin {"la", "jmp", "jal"}
    BY <1>2 DEF BranchOpcode
  <2> QED BY <1>1, <2>4, <2>5 DEF Follows
<1>3. CASE m # "nop"
  <2>1. PICK o, b : o = Machine!op /\ b = Bytes(source[i])
    OBVIOUS
  <2>2. Machine!Execute /\ DOMAIN registers = 0 .. 7 /\ c \in BOOLEAN
    BY <1>1, <1>3, StepAt DEF Machine!HaltAtZero, Ready, MInv, MachineInv
  <2>3. /\ o \in Denotes[m] /\ m \in DOMAIN Denotes
        /\ Machine!ra = RaOf(b[1]) /\ Machine!rb = RbOf(b[1]) /\ Machine!next_pc = EndOf(i)
    BY <1>1, <1>3, <2>1, DecodedAt, NextAt
  <2>4. Typed(m, ops) /\ b = Encoded(m, ops) /\ b # Rejected
    <3>1. Accepted(source[i]) /\ Typed(source[i].ins, source[i].ops)
      BY CodeLines
    <3> QED BY <1>1, <2>1, <3>1, Zenon DEF Accepted, Bytes, OperandsOf
  <2>5. CASE m \in DOMAIN BranchOpcode
    <3>1. m \in {"bra", "brf", "brt"} /\ m \notin {"la", "jmp", "jal"}
      BY <2>5 DEF BranchOpcode
    <3>2. /\ m = "bra" => o = "Bra"
          /\ m = "brf" => o = "Brf"
          /\ m = "brt" => o = "Brt"
      BY <2>3 DEF Denotes
    <3>3. /\ o = "Bra" => cpu_pc' = Machine!Target
          /\ o \in {"Brf", "Brt"} =>
               cpu_pc' = IF c = (o = "Brt") THEN Machine!Target ELSE Machine!next_pc
      BY <2>1, <2>2, Outcome
    <3>4. /\ Taken(i) => cpu_pc' = Machine!Target
          /\ ~ Taken(i) => cpu_pc' = EndOf(i)
      <4>1. CASE m = "bra"
        BY <1>1, <3>2, <3>3, <4>1 DEF Taken
      <4>2. CASE m = "brf"
        BY <1>1, <2>2, <2>3, <3>2, <3>3, <4>2 DEF Taken
      <4>3. CASE m = "brt"
        BY <1>1, <2>2, <2>3, <3>2, <3>3, <4>3 DEF Taken
      <4> QED BY <3>1, <4>1, <4>2, <4>3
    <3>5. ASSUME IsLabel(ops[1]) PROVE Machine!Target = Meaning(i, ops[1].label)
      <4>1. Labelled(source[i]) /\ Aimed(source[i]) = ops[1]
        BY <1>1, <2>5, <3>1, <3>5 DEF Labelled, Aimed, OperandsOf
      <4>2. Machine!Mask(src[i].at + 2 + 2 + Machine!SignExtend8(Machine!imm8))
              = Meaning(i, ops[1].label)
        BY <1>1, <2>5, <4>1, LabelRead
      <4>3. Machine!next_pc = src[i].at + 2
        BY <1>1, <2>3, <2>5, CodeLines DEF EndOf
      <4> QED BY <4>2, <4>3 DEF Machine!Target
    <3> QED BY <1>1, <2>5, <3>1, <3>4, <3>5 DEF Follows
  <2>6. CASE m = "la"
    <3>1. o = "La" /\ m \notin DOMAIN BranchOpcode
      BY <2>3, <2>6 DEF Denotes, BranchOpcode
    <3>2. Machine!ra \in Register(ops[1])
      BY <2>3, <2>4, <2>6, ControlOperands
    <3>3. /\ Machine!ra = RegisterCode[ops[1].reg] /\ Machine!ra \in 0 .. 7
          /\ Machine!ra = 7 <=> ops[1].reg = "ir"
      BY <3>2, RegisterOperand, OnlyIr
    <3>4. ASSUME IsLabel(ops[2]) PROVE Machine!imm24 = Meaning(i, ops[2].label)
      <4>1. Labelled(source[i]) /\ Aimed(source[i]) = ops[2]
        BY <1>1, <2>6, <3>4 DEF Labelled, Aimed, OperandsOf
      <4> QED BY <1>1, <2>6, <4>1, LabelRead
    <3>5. /\ Machine!ra = 7 => cpu_pc' = Machine!imm24
          /\ Machine!ra # 7 => cpu_pc' = EndOf(i) /\ registers'[Machine!ra] = Machine!imm24
      BY <2>1, <2>2, <2>3, <3>1, <3>3, Outcome
    <3> QED BY <1>1, <2>6, <3>1, <3>3, <3>4, <3>5 DEF Follows
  <2>7. CASE m = "jmp"
    <3>1. o = "Jmp" /\ m \notin DOMAIN BranchOpcode
      BY <2>3, <2>7 DEF Denotes, BranchOpcode
    <3>2. Machine!ra \in Parenthesised(ops[1])
      BY <2>3, <2>4, <2>7, ControlOperands
    <3>3. Machine!ra = RegisterCode[ops[1].base]
      BY <3>2, RegisterOperand
    <3>4. cpu_pc' = registers[Machine!ra]
      BY <2>1, <2>2, <3>1, Outcome DEF Machine!A
    <3> QED BY <1>1, <2>7, <3>1, <3>3, <3>4 DEF Follows
  <2>8. CASE m = "jal"
    <3>1. o = "Jal" /\ m \notin DOMAIN BranchOpcode
      BY <2>3, <2>8 DEF Denotes, BranchOpcode
    <3>2. Machine!ra \in Register(ops[1]) /\ Machine!rb \in Parenthesised(ops[2])
      BY <2>3, <2>4, <2>8, ControlOperands
    <3>3. /\ Machine!ra = RegisterCode[ops[1].reg] /\ Machine!ra \in 0 .. 7
          /\ Machine!rb = RegisterCode[ops[2].base]
      BY <3>2, RegisterOperand, OnlyIr
    <3>4. cpu_pc' = registers[Machine!rb] /\ registers'[Machine!ra] = EndOf(i)
      BY <2>1, <2>2, <2>3, <3>1, <3>3, Outcome DEF Machine!B
    <3> QED BY <1>1, <2>8, <3>1, <3>3, <3>4 DEF Follows
  <2>9. CASE m \notin DOMAIN BranchOpcode \cup {"la", "jmp", "jal"}
    <3>1. o \notin {"La", "Bra", "Brf", "Brt", "Jal", "Jmp"}
      BY <2>3, <2>9 DEF Denotes, BranchOpcode
    <3>2. cpu_pc' = EndOf(i)
      BY <2>1, <2>2, <2>3, <3>1, Outcome
    <3> QED BY <1>1, <2>9, <3>2 DEF Follows
  <2> QED BY <2>5, <2>6, <2>7, <2>8, <2>9
<1> QED BY <1>2, <1>3

-----------------------------------------------------------------------------
(* The control flow of every program.                                      *)

\* What a run of the toolchain keeps.
RunInv == TypeOK /\ ErrorsExact /\ Linked /\ HInv /\ MInv /\ SourceKnown

\* Every state of a run satisfies the invariants of the parts together.
LEMMA Runs ==
  ASSUME WordsFit, NoNumericNames
  PROVE  System => []RunInv
<1>1. System => Spec
  BY AssemblerCorrect
<1>2. Spec => []Linked
  BY LinkedCorrect DEF NoNumericNames
<1>3. System => []HInv
  BY History
<1> QED BY <1>1, <1>2, <1>3, TypeCorrect, ErrorsCorrect, Machines, SourceKept, PTL DEF RunInv

\* Once the program is assembled it is ready to run.
LEMMA RunsReady ==
  ASSUME RunInv, stage # "assemble"
  PROVE  Ready
BY DEF RunInv, Ready, SourceKnown

\* A run changes the machine only by a step of it.
LEMMA RunSteps ==
  ASSUME Running, [Advance]_state, cpu' # cpu
  PROVE  Execute /\ Machine!Step
<1>1. stage = "run"
  BY DEF Running
<1>2. ~ UNCHANGED state
  BY DEF state
<1> QED BY <1>1, <1>2 DEF Advance, Assemble, Load, Enter, Execute

\* Control flows as the source reads, in every program.
THEOREM FlowCorrect ==
  ASSUME WordsFit, NumericLabels = {}
  PROVE  System => Flow
<1>1. NoNumericNames
  BY DEF NoNumericNames
<1>2. RunInv /\ [Advance]_state =>
        [(Running /\ cpu' # cpu /\ ~ halted') =>
           \A i \in Code : cpu_pc = src[i].at => Follows(i)]_state
  <2> SUFFICES ASSUME RunInv, [Advance]_state, Running, cpu' # cpu, ~ halted',
                      NEW i \in Code, cpu_pc = src[i].at
               PROVE  Follows(i)
    OBVIOUS
  <2>1. Machine!Step
    BY RunSteps
  <2>2. Ready /\ Intact /\ ~ halted
    <3>1. stage # "assemble" /\ Intact /\ ~ halted
      BY DEF Running
    <3> QED BY <3>1, RunsReady
  <2> QED BY <1>1, <2>1, <2>2, FollowsAt
<1> QED BY <1>1, <1>2, Runs, PTL DEF System, Flow

-----------------------------------------------------------------------------
(* The machine is never inside an instruction.                             *)

\* A jump whose target the source does not name.
ComputedJump(i) ==
  LET ins == source[i].ins
      ops == OperandsOf(i)
  IN  \/ ins \in {"jmp", "jal"}
      \/ ins \in DOMAIN BranchOpcode /\ Taken(i) /\ ~ IsLabel(ops[1])
      \/ ins = "la" /\ ops[1].reg = "ir" /\ ~ IsLabel(ops[2])

\* What the author of such a jump has to see to: it leads to a line of code,
\* or out of the program.
JumpsLand ==
  \A i \in Code : (Running /\ Machine!Step /\ cpu_pc = src[i].at /\ ComputedJump(i)) =>
    (Running' => \E j \in Code : cpu_pc' = src[j].at)

AtLine == Running => \E i \in Code : cpu_pc = src[i].at

\* In code, the start or the end of a line is the start of a line.
LEMMA Landing ==
  ASSUME Ready, NoNumericNames, NEW j \in DOMAIN src, NEW x \in {src[j].at, src[j].at + src[j].n},
         NEW k \in Code, src[k].at <= x, x < EndOf(k)
  PROVE  src[k].at = x
<1>1. k \in DOMAIN src
  BY DEF Code
<1>2. /\ j \in Nat /\ k \in Nat
      /\ src[j].pos \in Nat /\ src[j].n \in Nat /\ src[j].at = base_address + src[j].pos
      /\ src[k].pos \in Nat /\ src[k].n \in Nat /\ src[k].at = base_address + src[k].pos
      /\ base_address \in Nat
      /\ j < k => src[j].pos + src[j].n <= src[k].pos
      /\ k < j => src[k].pos + src[k].n <= src[j].pos
  BY <1>1, Lines, LineNumbers, Addresses DEF Ready
<1>3. CASE j < k
  BY <1>2, <1>3
<1>4. CASE k <= j
  <2>1. k < j \/ k = j
    BY <1>2, <1>4
  <2>2. EndOf(k) = src[k].at + src[k].n
    BY DEF EndOf
  <2> QED BY <1>2, <2>1, <2>2
<1> QED BY <1>2, <1>3, <1>4

\* Wherever a step leads that is no computed jump, it leads to such a place.
LEMMA StepLands ==
  ASSUME Ready, NoNumericNames, Intact, ~ halted, NEW i \in Code, cpu_pc = src[i].at,
         Machine!Step, ~ halted', ~ ComputedJump(i)
  PROVE  \E j \in DOMAIN src : cpu_pc' \in {src[j].at, src[j].at + src[j].n}
<1>1. PICK m, ops : m = source[i].ins /\ ops = OperandsOf(i)
  OBVIOUS
<1>2. Follows(i) /\ i \in DOMAIN src
  BY FollowsAt DEF Code
<1>3. CASE cpu_pc' = EndOf(i)
  BY <1>2, <1>3 DEF EndOf
<1>4. ASSUME Labelled(source[i]), cpu_pc' = Meaning(i, Aimed(source[i]).label)
      PROVE  \E j \in DOMAIN src : cpu_pc' = src[j].at
  <2>1. PICK l : l = Aimed(source[i]).label
    OBVIOUS
  <2>2. DefinedBy(l) # {}
    BY <1>4, <2>1, CodeLines
  <2> QED BY <1>2, <1>4, <2>1, <2>2, MeaningLine DEF Ready
<1>5. CASE m \in DOMAIN BranchOpcode
  <2>1. m # "la"
    BY <1>5 DEF BranchOpcode
  <2>2. CASE Taken(i)
    <3>1. IsLabel(ops[1])
      BY <1>1, <1>5, <2>2 DEF ComputedJump
    <3>2. cpu_pc' = Meaning(i, ops[1].label)
      BY <1>1, <1>2, <1>5, <2>2, <3>1 DEF Follows
    <3>3. Labelled(source[i]) /\ Aimed(source[i]) = ops[1]
      BY <1>1, <1>5, <2>1, <3>1 DEF Labelled, Aimed, OperandsOf
    <3> QED BY <1>4, <3>2, <3>3
  <2>3. CASE ~ Taken(i)
    BY <1>1, <1>2, <1>3, <1>5, <2>3 DEF Follows
  <2> QED BY <2>2, <2>3
<1>6. CASE m = "la" /\ IsLabel(ops[2])
  <2>1. Labelled(source[i]) /\ Aimed(source[i]) = ops[2]
    BY <1>1, <1>6 DEF Labelled, Aimed, OperandsOf
  <2>2. cpu_pc' = Meaning(i, ops[2].label) \/ cpu_pc' = EndOf(i)
    BY <1>1, <1>2, <1>6 DEF Follows
  <2> QED BY <1>3, <1>4, <2>1, <2>2
<1>7. CASE m = "la" /\ ~ IsLabel(ops[2])
  <2>1. ops[1].reg # "ir"
    BY <1>1, <1>7 DEF ComputedJump
  <2>2. PICK o, b : o = Machine!op /\ b = Bytes(source[i])
    OBVIOUS
  <2>3. Machine!Execute /\ DOMAIN registers = 0 .. 7
    BY <1>1, <1>7, StepAt DEF Machine!HaltAtZero, Ready, MInv, MachineInv
  <2>4. o = "La" /\ Machine!ra = RaOf(b[1]) /\ Machine!next_pc = EndOf(i)
    <3>1. source[i].ins # "nop" /\ Denotes[source[i].ins] = {"La"}
      BY <1>1, <1>7 DEF Denotes
    <3>2. /\ Machine!ra = RaOf(b[1]) /\ Machine!next_pc = EndOf(i)
          /\ o \in Denotes[source[i].ins]
      BY <2>2, <3>1, DecodedAt, NextAt
    <3> QED BY <3>1, <3>2
  <2>5. Typed(m, ops) /\ b = Encoded(m, ops) /\ b # Rejected
    <3>1. Accepted(source[i]) /\ Typed(source[i].ins, source[i].ops)
      BY CodeLines
    <3> QED BY <1>1, <2>2, <3>1, Zenon DEF Accepted, Bytes, OperandsOf
  <2>6. Machine!ra \in Register(ops[1])
    BY <1>7, <2>4, <2>5, ControlOperands
  <2>7. Machine!ra # 7
    BY <2>1, <2>6, RegisterOperand, OnlyIr
  <2>8. cpu_pc' = EndOf(i)
    BY <2>2, <2>3, <2>4, <2>7, Outcome
  <2> QED BY <1>3, <2>8
<1>8. CASE m \notin DOMAIN BranchOpcode \cup {"la", "jmp", "jal"}
  BY <1>1, <1>2, <1>3, <1>8 DEF Follows
<1>9. m \notin {"jmp", "jal"}
  BY <1>1 DEF ComputedJump
<1> QED BY <1>5, <1>6, <1>7, <1>8, <1>9

\* At the line, the machine reads it.
LEMMA WrittenRead ==
  ASSUME Ready, NoNumericNames, Intact, NEW i \in Code, cpu_pc = src[i].at
  PROVE  IF source[i].ins = "nop" THEN Machine!Fetched = 255 ELSE ReadsAs(i)
<1>1. CASE source[i].ins # "nop"
  BY <1>1, DecodedAt
<1>2. CASE source[i].ins = "nop"
  <2>1. Bytes(source[i]) = <<255>>
    BY <1>2 DEF Bytes, Encoded, AluOpcode, BranchOpcode, LoadStoreOpcode
  <2>2. src[i].n \in {1, 2, 4} /\ src[i].at \in Nat
    BY LineEnds
  <2>3. 1 \in 1 .. src[i].n
    BY ONLY <2>2
  <2>4. Machine!ReadByte(src[i].at + 1 - 1) = ByteOf(i, 1)
    BY <2>3, LineInMemory
  <2>5. src[i].at + 1 - 1 = cpu_pc
    BY <2>2
  <2> QED BY <1>2, <2>1, <2>4, <2>5, FixedBytes DEF Machine!Fetched
<1> QED BY <1>1, <1>2

\* A step from a line leads to a line, or out of the program.
LEMMA AtLineKept ==
  ASSUME RunInv, NoNumericNames, AtLine, [Advance]_state, [JumpsLand]_state
  PROVE  AtLine'
<1>1. CASE UNCHANGED state
  BY <1>1 DEF AtLine, Running, Intact, OnCode, Code, IsInstruction, EndOf, state, asm, vars, code, cpu
<1>2. CASE Assemble \/ Load
  <2>1. stage' # "run"
    BY <1>2 DEF Assemble, Load
  <2> QED BY <2>1 DEF AtLine, Running
<1>3. CASE Enter
  <2>1. \E i \in Code : cpu_pc' = src[i].at
    BY <1>3 DEF Enter, Machine!SetPc
  <2>2. UNCHANGED <<src, source>>
    BY <1>3 DEF Enter, asm, vars
  <2> QED BY <2>1, <2>2 DEF AtLine, Code, IsInstruction
<1>4. CASE Execute /\ ~ UNCHANGED state
  <2> SUFFICES ASSUME Running' PROVE \E j \in Code : cpu_pc' = src'[j].at /\ Code' = Code
    BY DEF AtLine
  <2>1. UNCHANGED <<src, source>> /\ Machine!Step /\ Running
    BY <1>4 DEF Execute, asm, vars
  <2>2. Code' = Code /\ \A j : EndOf(j)' = EndOf(j)
    BY <2>1 DEF Code, IsInstruction, EndOf
  <2>3. Ready /\ Intact /\ ~ halted /\ ~ halted'
    <3>1. stage # "assemble" /\ Intact /\ ~ halted /\ ~ halted'
      BY <2>1 DEF Running
    <3> QED BY <3>1, RunsReady
  <2>4. PICK i \in Code : cpu_pc = src[i].at
    BY <2>1 DEF AtLine
  <2>5. CASE ComputedJump(i)
    <3>1. JumpsLand
      BY <1>4
    <3>2. \E j \in Code : cpu_pc' = src[j].at
      BY <2>1, <2>4, <2>5, <3>1 DEF JumpsLand
    <3> QED BY <2>1, <2>2, <3>2
  <2>6. CASE ~ ComputedJump(i)
    <3>1. PICK j \in DOMAIN src : cpu_pc' \in {src[j].at, src[j].at + src[j].n}
      BY <2>1, <2>3, <2>4, <2>6, StepLands
    <3>2. PICK k \in Code : src[k].at <= cpu_pc' /\ cpu_pc' < EndOf(k)
      BY <2>1, <2>2 DEF Running, OnCode
    <3>3. src[k].at = cpu_pc'
      <4>1. PICK x : x = cpu_pc'
        OBVIOUS
      <4>2. x \in {src[j].at, src[j].at + src[j].n} /\ src[k].at <= x /\ x < EndOf(k)
        BY <3>1, <3>2, <4>1
      <4>3. src[k].at = x
        BY <2>3, <4>2, Landing
      <4> QED BY <4>1, <4>3
    <3> QED BY <2>1, <2>2, <3>3
  <2> QED BY <2>5, <2>6
<1> QED BY <1>1, <1>2, <1>3, <1>4 DEF Advance

\* The machine is never inside an instruction.
LEMMA Aligned ==
  ASSUME WordsFit, NoNumericNames
  PROVE  System /\ [][JumpsLand]_state => []AtLine
<1>1. StartUp => AtLine
  BY DEF StartUp, AtLine, Running
<1>2. RunInv /\ AtLine /\ [Advance]_state /\ [JumpsLand]_state => AtLine'
  BY AtLineKept
<1> QED BY <1>1, <1>2, Runs, PTL DEF System

\* The machine decodes at its pc what the author wrote there, with the
\* operation, the registers and the constant, in every program whose computed
\* jumps lead to a line of code.
THEOREM LockstepCorrect ==
  ASSUME WordsFit, NumericLabels = {}
  PROVE  System /\ [][JumpsLand]_state => []Lockstep
<1>1. NoNumericNames
  BY DEF NoNumericNames
<1>2. RunInv /\ AtLine => Lockstep
  <2> SUFFICES ASSUME RunInv, AtLine, Running
               PROVE  \E i \in Code :
                        /\ cpu_pc = src[i].at
                        /\ IF source[i].ins = "nop" THEN Machine!Fetched = 255 ELSE ReadsAs(i)
    BY DEF Lockstep
  <2>1. PICK i \in Code : cpu_pc = src[i].at
    BY DEF AtLine
  <2>2. Ready /\ Intact
    BY RunsReady DEF Running
  <2> QED BY <1>1, <2>1, <2>2, WrittenRead
<1> QED BY <1>1, <1>2, Runs, Aligned, PTL

-----------------------------------------------------------------------------
(* Where a program ends.                                                   *)

\* The byte of a branch that leads the machine back to itself.
LEMMA SelfBranch ==
  ASSUME NEW a \in Nat, a <= Machine!IO_BASE, NEW y \in Nat, y < 256,
         Machine!Mask(a + 2 + 2 + Machine!SignExtend8(y)) = a
  PROVE  y = 252
<1>1. CASE y < 128
  <2>1. Machine!Mask(a + 2 + 2 + y) = a
    BY <1>1 DEF Machine!SignExtend8
  <2>2. a + 2 + 2 + y < 16777216
    BY <1>1, SMT DEF Machine!IO_BASE
  <2>3. a + 2 + 2 + y = a
    BY <2>1, <2>2, SMT DEF Machine!Mask
  <2> QED BY <2>3
<1>2. CASE y >= 128
  <2>1. Machine!Mask(a + 4 + y + 16776960) = a
    <3>1. a + 2 + 2 + (y + 16776960) = a + 4 + y + 16776960
      BY SMT
    <3> QED BY <1>2, <3>1, SMT DEF Machine!SignExtend8
  <2>2. PICK z : z = a + 4 + y + 16776960
    OBVIOUS
  <2>3. z \in Nat /\ z < 33554432 /\ z % 16777216 = a
    BY <2>1, <2>2, SMT DEF Machine!Mask, Machine!IO_BASE
  <2>4. z = a \/ z = a + 16777216
    BY <2>3, SMT
  <2> QED BY <2>2, <2>4, SMT
<1> QED BY <1>1, <1>2

\* The machine stops at a bra to itself or at a zero byte at address 0, in
\* every program whose computed jumps lead to a line of code.
THEOREM StopsCorrect ==
  ASSUME WordsFit, NumericLabels = {}
  PROVE  System /\ [][JumpsLand]_state => StopsRightly
<1> DEFINE Rightly ==
             \/ \E i \in Code :
                  /\ cpu_pc = src[i].at /\ source[i].ins = "bra"
                  /\ LET target == OperandsOf(i)[1]
                     IN  IF IsLabel(target) THEN Meaning(i, target.label) = src[i].at
                         ELSE target.num % 256 = 252
             \/ cpu_pc = 0 /\ mem[0] = 0
<1>1. NoNumericNames
  BY DEF NoNumericNames
<1>2. RunInv /\ AtLine /\ [Advance]_state => [(Running /\ halted') => Rightly]_state
  <2> SUFFICES ASSUME RunInv, AtLine, [Advance]_state, Running, halted'
               PROVE  Rightly
    OBVIOUS
  <2>1. ~ halted
    BY DEF Running
  <2>2. Machine!Step /\ halted' # halted
    <3>1. halted' # halted
      BY <2>1
    <3>2. cpu' # cpu
      BY <3>1 DEF cpu
    <3> QED BY <3>1, <3>2, RunSteps
  <2>3. Ready /\ Intact
    BY RunsReady DEF Running
  <2>4. PICK i \in Code : cpu_pc = src[i].at
    BY DEF AtLine
  <2>5. CASE Machine!HaltAtZero
    <3>1. cpu_pc = 0 /\ Machine!Fetched = 0
      BY <2>5 DEF Machine!HaltAtZero
    <3>2. src[i].n \in {1, 2, 4} /\ src[i].at \in Nat
      BY <1>1, <2>3, LineEnds
    <3>3. 1 \in 1 .. src[i].n
      BY ONLY <3>2
    <3>4. /\ Machine!ReadByte(src[i].at + 1 - 1) = ByteOf(i, 1)
          /\ mem[src[i].at + 1 - 1] = ByteOf(i, 1)
      BY <1>1, <2>3, <3>3, LineInMemory
    <3>5. src[i].at + 1 - 1 = cpu_pc
      BY <2>4, <3>2
    <3>6. mem[cpu_pc] = Machine!Fetched
      BY <3>4, <3>5 DEF Machine!Fetched
    <3> QED BY <3>1, <3>6
  <2>6. CASE Machine!Nop
    BY <2>2, <2>6 DEF Machine!Nop
  <2>7. CASE source[i].ins # "nop" /\ Machine!Execute
    <3>1. PICK m, ops, b : m = source[i].ins /\ ops = OperandsOf(i) /\ b = Bytes(source[i])
      OBVIOUS
    <3>2. DOMAIN registers = 0 .. 7
      BY <2>3 DEF Ready, MInv, MachineInv
    <3>3. Machine!op = "Bra" /\ Machine!Target = cpu_pc
      BY <2>1, <2>2, <2>7, <3>2, Outcome
    <3>4. Machine!op \in Denotes[m] /\ m \in DOMAIN Denotes /\ Machine!next_pc = EndOf(i)
      BY <1>1, <2>3, <2>4, <2>7, <3>1, DecodedAt, NextAt
    <3>5. m = "bra" /\ m \in DOMAIN BranchOpcode /\ m # "la"
      BY <3>3, <3>4 DEF Denotes, BranchOpcode
    <3>6. src[i].n = 2 /\ src[i].at \in Nat /\ src[i].at <= Machine!IO_BASE
      BY <1>1, <2>3, <3>1, <3>5, CodeLines, LineEnds
    <3>7. Machine!Target = Machine!Mask(src[i].at + 2 + 2 + Machine!SignExtend8(Machine!imm8))
      BY <3>4, <3>6 DEF Machine!Target, EndOf
    <3>8. CASE IsLabel(ops[1])
      <4>1. Labelled(source[i]) /\ Aimed(source[i]) = ops[1]
        BY <3>1, <3>5, <3>8 DEF Labelled, Aimed, OperandsOf
      <4>2. Machine!Target = Meaning(i, ops[1].label)
        BY <1>1, <2>3, <2>4, <3>1, <3>5, <3>7, <4>1, LabelRead
      <4> QED BY <2>4, <3>1, <3>3, <3>5, <3>8, <4>2
    <3>9. CASE ~ IsLabel(ops[1])
      <4>1. Typed(m, ops) /\ b = Encoded(m, ops) /\ b # Rejected
        <5>1. Accepted(source[i]) /\ Typed(source[i].ins, source[i].ops)
          BY <1>1, <2>3, CodeLines
        <5> QED BY <3>1, <5>1, Zenon DEF Accepted, Bytes, OperandsOf
      <4>2. ops[1] \in Aim
        BY <2>7, <3>1, <3>5, <4>1, Encodes
      <4>3. IsNumber(ops[1])
        BY <3>9, <4>2 DEF Aim, IsLabel, IsNumber
      <4>4. PICK y : y = Low8(ops[1].num)
        OBVIOUS
      <4>5. ops[1].num \in Int /\ b[2] = y
        BY <3>5, <4>1, <4>3, <4>4, ControlOperands
      <4>6. y \in Nat /\ y < 256 /\ y = ops[1].num % 256
        BY <4>4, <4>5 DEF Low8
      <4>7. ~ Labelled(source[i])
        BY <3>1, <3>5, <3>9 DEF Labelled, Aimed, OperandsOf
      <4>8. Machine!imm8 = y
        <5>1. 2 \in 1 .. src[i].n
          BY <3>6
        <5>2. Machine!ReadByte(src[i].at + 2 - 1) = b[2]
          BY <1>1, <2>3, <3>1, <4>7, <5>1, LineInMemory, FixedBytes
        <5>3. src[i].at + 2 - 1 = cpu_pc + 1
          BY <2>4, <3>6
        <5> QED BY <4>5, <5>2, <5>3 DEF Machine!imm8
      <4>9. y = 252
        BY <2>4, <3>3, <3>6, <3>7, <4>6, <4>8, SelfBranch
      <4>10. source[i].ins = "bra" /\ ~ IsLabel(OperandsOf(i)[1])
        BY <3>1, <3>5, <3>9
      <4>11. OperandsOf(i)[1].num % 256 = 252
        BY <3>1, <4>6, <4>9
      <4> QED BY <2>4, <4>10, <4>11, Zenon
    <3> QED BY <3>8, <3>9
  <2> QED BY <1>1, <2>1, <2>2, <2>3, <2>4, <2>5, <2>6, <2>7, StepAt
<1> QED BY <1>1, <1>2, Runs, Aligned, PTL DEF System, StopsRightly

-----------------------------------------------------------------------------
(* The programs whose every jump names its target.                         *)

\* No jmp or jal, and no branch or la into ir but to a label.
Direct(s) ==
  \A i \in 1 .. Len(s) :
    "ins" \in DOMAIN s[i] =>
      /\ s[i].ins \notin {"jmp", "jal"}
      /\ s[i].ins \in DOMAIN BranchOpcode => IsLabel(s[i].ops[1])
      /\ s[i].ins = "la" => s[i].ops[1].reg # "ir" \/ IsLabel(s[i].ops[2])

\* Such programs have no computed jump, whatever they do.
LEMMA NoComputedJump ==
  ASSUME Ready, NoNumericNames, \A s \in Sources : Direct(s), NEW i \in Code
  PROVE  ~ ComputedJump(i)
<1>1. i \in 1 .. Len(source) /\ source \in Sources /\ "ins" \in DOMAIN source[i]
  <2>1. i \in DOMAIN src /\ "ins" \in DOMAIN source[i]
    BY DEF Code, IsInstruction
  <2>2. i \in 1 .. Len(src) /\ Len(src) \in Nat /\ Len(src) <= Len(source)
    BY <2>1, SrcShape DEF Ready, HInv, Transcribed
  <2>3. Len(source) \in Nat
    BY SourcesAssumption, LenProperties DEF Ready
  <2> QED BY <2>1, <2>2, <2>3 DEF Ready
<1>2. Direct(source)
  BY <1>1
<1>3. /\ source[i].ins \notin {"jmp", "jal"}
      /\ source[i].ins \in DOMAIN BranchOpcode => IsLabel(source[i].ops[1])
      /\ source[i].ins = "la" => source[i].ops[1].reg # "ir" \/ IsLabel(source[i].ops[2])
  BY <1>1, <1>2, Zenon DEF Direct
<1> QED BY <1>3 DEF ComputedJump, OperandsOf

\* In programs whose jumps all name their targets the machine never is inside
\* an instruction, decodes every line as it was written, and stops only at a
\* bra to itself or at a zero byte at address 0: nothing is asked of the run.
THEOREM DirectCorrect ==
  ASSUME WordsFit, NumericLabels = {}, \A s \in Sources : Direct(s)
  PROVE  System => []Lockstep /\ StopsRightly
<1>1. NoNumericNames
  BY DEF NoNumericNames
<1>2. RunInv => JumpsLand
  <2> SUFFICES ASSUME RunInv, Running, NEW i \in Code PROVE ~ ComputedJump(i)
    BY DEF JumpsLand
  <2>1. stage # "assemble"
    BY DEF Running
  <2> QED BY <1>1, <2>1, RunsReady, NoComputedJump
<1>3. RunInv => [JumpsLand]_state
  BY <1>2
<1>4. System => [][JumpsLand]_state
  BY <1>1, <1>3, Runs, PTL
<1> QED BY <1>4, LockstepCorrect, StopsCorrect, PTL
-----------------------------------------------------------------------------
(* The types of the composition: the machine is the one of Cpu, so its     *)
(* own theorem holds of it as long as bytes are loaded and it is started   *)
(* at an address.                                                          *)

MP == INSTANCE CpuProofs WITH pc <- cpu_pc

\* What the instance assumes.
LEMMA MachineTables == MP!DecodeAssumption
BY MachineAssumption DEF Machine!DecodeAssumption, MP!DecodeAssumption, Machine!Byte, MP!Byte,
   Machine!Undecodable, MP!Undecodable

\* Two instances of one module are the same machine, definition by definition.

\* The arithmetic on words.
LEMMA SameWords ==
  /\ \A v : Machine!Mask(v) = MP!Mask(v)
  /\ \A v : Machine!SignExtend8(v) = MP!SignExtend8(v) /\ Machine!Signed24(v) = MP!Signed24(v)
  /\ \A x, y, z : Machine!WordOf(x, y, z) = MP!WordOf(x, y, z)
  /\ \A v, s : /\ Machine!ShiftLeft(v, s) = MP!ShiftLeft(v, s)
               /\ Machine!ShiftRight(v, s) = MP!ShiftRight(v, s)
  /\ \A v : Machine!BytesOf(v) = MP!BytesOf(v)
BY DEF Machine!Mask, MP!Mask, Machine!SignExtend8, MP!SignExtend8, Machine!Signed24, MP!Signed24,
   Machine!WordOf, MP!WordOf, Machine!ShiftLeft, MP!ShiftLeft, Machine!ShiftRight, MP!ShiftRight,
   Machine!BytesOf, MP!BytesOf

\* The memory map.
LEMMA SameAddresses ==
  /\ \A a : (Machine!IsRam(a) <=> MP!IsRam(a)) /\ (Machine!IsIo(a) <=> MP!IsIo(a))
  /\ Machine!IO_LEDSWDAT = MP!IO_LEDSWDAT /\ Machine!IO_INTENABLE = MP!IO_INTENABLE
  /\ Machine!IO_UARTDATA = MP!IO_UARTDATA /\ Machine!IO_UARTSTAT = MP!IO_UARTSTAT
  /\ Machine!Byte = MP!Byte /\ Machine!Word = MP!Word /\ Machine!Undecodable = MP!Undecodable
  /\ Machine!INITIAL_SP = MP!INITIAL_SP
<1>1. Machine!WORD_MAX = MP!WORD_MAX /\ Machine!IO_BASE = MP!IO_BASE
  BY DEF Machine!WORD_MAX, MP!WORD_MAX, Machine!IO_BASE, MP!IO_BASE
<1>2. /\ Machine!IO_LEDSWDAT = MP!IO_LEDSWDAT /\ Machine!IO_INTENABLE = MP!IO_INTENABLE
      /\ Machine!IO_UARTDATA = MP!IO_UARTDATA /\ Machine!IO_UARTSTAT = MP!IO_UARTSTAT
  BY <1>1 DEF Machine!IO_LEDSWDAT, MP!IO_LEDSWDAT, Machine!IO_INTENABLE, MP!IO_INTENABLE,
     Machine!IO_UARTDATA, MP!IO_UARTDATA, Machine!IO_UARTSTAT, MP!IO_UARTSTAT
<1>3. /\ Machine!Byte = MP!Byte /\ Machine!Undecodable = MP!Undecodable
      /\ Machine!INITIAL_SP = MP!INITIAL_SP
  BY DEF Machine!Byte, MP!Byte, Machine!Undecodable, MP!Undecodable, Machine!INITIAL_SP, MP!INITIAL_SP
<1>4. Machine!Word = MP!Word
  BY <1>1 DEF Machine!Word, MP!Word
<1>5. \A a : (Machine!IsRam(a) <=> MP!IsRam(a)) /\ (Machine!IsIo(a) <=> MP!IsIo(a))
  BY DEF Machine!IsRam, MP!IsRam, Machine!SRAM_SIZE, MP!SRAM_SIZE, Machine!EBR_BASE, MP!EBR_BASE,
     Machine!EBR_SIZE, MP!EBR_SIZE, Machine!IsIo, MP!IsIo, Machine!IO_BASE, MP!IO_BASE
<1> QED BY <1>2, <1>3, <1>4, <1>5

\* The devices.
LEMMA SameDevices ==
  /\ \A d : Machine!Tick(d) = MP!Tick(d) /\ Machine!Status(d) = MP!Status(d)
  /\ \A d, v : Machine!Transmit(d, v) = MP!Transmit(d, v)
  /\ Machine!NewIo = MP!NewIo
BY DEF Machine!Tick, MP!Tick, Machine!Status, MP!Status, Machine!Transmit, MP!Transmit,
   Machine!NewIo, MP!NewIo

\* A write to one.
LEMMA SameDevice ==
  \A d, a, v : Machine!WriteIo(d, a, v) = MP!WriteIo(d, a, v)
BY SameAddresses, SameDevices DEF Machine!WriteIo, MP!WriteIo

\* What is read.
LEMMA SameReads ==
  \A a : Machine!ReadByte(a) = MP!ReadByte(a) /\ Machine!ReadWord(a) = MP!ReadWord(a)
<1>1. \A a : Machine!ReadIo(a) = MP!ReadIo(a)
  BY SameAddresses, SameDevices DEF Machine!ReadIo, MP!ReadIo
<1>2. \A a : Machine!ReadByte(a) = MP!ReadByte(a)
  BY <1>1, SameAddresses, SameWords DEF Machine!ReadByte, MP!ReadByte
<1> QED BY <1>2, SameWords DEF Machine!ReadWord, MP!ReadWord

\* What a store leaves in memory and in the devices.
LEMMA SameWrites ==
  \A a, bs : Machine!MemAfter(a, bs) = MP!MemAfter(a, bs) /\ Machine!IoAfter(a, bs) = MP!IoAfter(a, bs)
<1>1. \A a, bs : Machine!MemAfter(a, bs) = MP!MemAfter(a, bs)
  BY SameAddresses, SameWords DEF Machine!MemAfter, MP!MemAfter
<1>2. \A a, bs : Machine!IoAfter(a, bs) = MP!IoAfter(a, bs)
  BY SameAddresses, SameWords, SameDevice DEF Machine!IoAfter, MP!IoAfter
<1> QED BY <1>1, <1>2

\* The instruction at pc, its operands and its result.
LEMMA SameFetch ==
  /\ Machine!Fetched = MP!Fetched /\ Machine!Decoded = MP!Decoded
  /\ Machine!op = MP!op /\ Machine!ra = MP!ra /\ Machine!rb = MP!rb
  /\ Machine!imm8 = MP!imm8 /\ Machine!imm24 = MP!imm24 /\ Machine!next_pc = MP!next_pc
  /\ Machine!A = MP!A /\ Machine!B = MP!B
  /\ Machine!Effective = MP!Effective /\ Machine!Target = MP!Target
  /\ Machine!Executing <=> MP!Executing
  /\ Machine!Result = MP!Result /\ Machine!Computing = MP!Computing
<1>1. Machine!Fetched = MP!Fetched
  BY SameReads DEF Machine!Fetched, MP!Fetched
<1>2. Machine!Decoded = MP!Decoded
  BY <1>1 DEF Machine!Decoded, MP!Decoded
<1>3. Machine!op = MP!op /\ Machine!ra = MP!ra /\ Machine!rb = MP!rb
  BY <1>2 DEF Machine!op, MP!op, Machine!ra, MP!ra, Machine!rb, MP!rb
<1>4. Machine!imm8 = MP!imm8 /\ Machine!imm24 = MP!imm24 /\ Machine!next_pc = MP!next_pc
  BY <1>3, SameReads, SameWords DEF Machine!imm8, MP!imm8, Machine!imm24, MP!imm24,
     Machine!next_pc, MP!next_pc
<1>5. Machine!A = MP!A /\ Machine!B = MP!B
  BY <1>3 DEF Machine!A, MP!A, Machine!B, MP!B
<1>6. Machine!Effective = MP!Effective /\ Machine!Target = MP!Target
  BY <1>4, <1>5, SameWords DEF Machine!Effective, MP!Effective, Machine!Target, MP!Target
<1>7. Machine!Executing <=> MP!Executing
  BY <1>1, <1>2, SameAddresses DEF Machine!Executing, MP!Executing, Machine!Fetching, MP!Fetching,
     Machine!InterruptPending, MP!InterruptPending
<1>8. Machine!Result = MP!Result /\ Machine!Computing = MP!Computing
  BY <1>3, <1>4, <1>5, SameWords DEF Machine!Result, MP!Result, Machine!Computing, MP!Computing
<1> QED BY <1>1, <1>2, <1>3, <1>4, <1>5, <1>6, <1>7, <1>8
\* An instruction.
LEMMA SameExecute == Machine!Execute => MP!Execute
<1> SUFFICES ASSUME Machine!Execute PROVE MP!Execute
  OBVIOUS
<1> USE SameFetch, SameAddresses, SameWords
<1>1. \A to, d : Machine!Retire(to, d) => MP!Retire(to, d)
  BY SameDevices DEF Machine!Retire, MP!Retire, Machine!Spend, MP!Spend
<1>2. \A a, bs : Machine!RetireWriting(a, bs) => MP!RetireWriting(a, bs)
  BY <1>1, SameWrites DEF Machine!RetireWriting, MP!RetireWriting
<1>3. CASE Machine!Compute
  BY <1>1, <1>3 DEF Machine!Compute, MP!Compute, MP!Execute
<1>4. CASE Machine!JumpAbsolute
  BY <1>1, <1>4 DEF Machine!JumpAbsolute, MP!JumpAbsolute, MP!Execute
<1>5. CASE Machine!Compare
  BY <1>1, <1>5 DEF Machine!Compare, MP!Compare, MP!Execute
<1>6. CASE Machine!Bra
  BY <1>6, SameDevices DEF Machine!Bra, MP!Bra, Machine!Spend, MP!Spend, Machine!ReturnFromRun,
     MP!ReturnFromRun, MP!Execute
<1>7. CASE Machine!BranchIf
  BY <1>1, <1>7 DEF Machine!BranchIf, MP!BranchIf, MP!Execute
<1>8. CASE Machine!Jal
  BY <1>1, <1>8 DEF Machine!Jal, MP!Jal, MP!Execute
<1>9. CASE Machine!Jmp
  BY <1>1, <1>9 DEF Machine!Jmp, MP!Jmp, MP!Execute
<1>10. CASE Machine!LoadByte
  BY <1>1, <1>10, SameReads DEF Machine!LoadByte, MP!LoadByte, MP!Execute
<1>11. CASE Machine!LoadWord
  BY <1>1, <1>11, SameReads DEF Machine!LoadWord, MP!LoadWord, MP!Execute
<1>12. CASE Machine!Store
  BY <1>2, <1>12 DEF Machine!Store, MP!Store, MP!Execute
<1>13. CASE Machine!Pop
  BY <1>1, <1>13, SameReads DEF Machine!Pop, MP!Pop, MP!Execute
<1>14. CASE Machine!Push
  BY <1>2, <1>14 DEF Machine!Push, MP!Push, MP!Execute
<1> QED BY <1>3, <1>4, <1>5, <1>6, <1>7, <1>8, <1>9, <1>10, <1>11, <1>12, <1>13, <1>14
        DEF Machine!Execute

\* A call of Executor::step.
LEMMA SameStep == Machine!Step => MP!Step
<1> SUFFICES ASSUME Machine!Step PROVE MP!Step
  OBVIOUS
<1> USE SameFetch, SameAddresses, SameWords DEF MP!Step
<1>1. CASE Machine!StepHalted
  BY <1>1 DEF Machine!StepHalted, MP!StepHalted, Machine!ReturnFromRun, MP!ReturnFromRun
<1>2. CASE Machine!Interrupt
  BY <1>2 DEF Machine!Interrupt, MP!Interrupt, Machine!InterruptPending, MP!InterruptPending,
     Machine!Spend, MP!Spend
<1>3. Machine!Fetching => MP!Fetching
  BY DEF Machine!Fetching, MP!Fetching, Machine!InterruptPending, MP!InterruptPending
<1>4. CASE Machine!HaltAtZero
  BY <1>3, <1>4 DEF Machine!HaltAtZero, MP!HaltAtZero, Machine!ReturnFromRun, MP!ReturnFromRun
<1>5. CASE Machine!Nop
  BY <1>3, <1>5 DEF Machine!Nop, MP!Nop, Machine!Spend, MP!Spend
<1>6. CASE Machine!InvalidInstruction
  BY <1>3, <1>6 DEF Machine!InvalidInstruction, MP!InvalidInstruction, Machine!ReturnFromRun,
     MP!ReturnFromRun
<1> QED BY <1>1, <1>2, <1>4, <1>5, <1>6, SameExecute DEF Machine!Step

\* What the toolchain's host does.
LEMMA SameHost ==
  /\ Machine!Init => MP!Init
  /\ \A start, data : Machine!LoadProgram(start, data) => MP!LoadProgram(start, data)
  /\ \A entry : Machine!SetPc(entry) => MP!SetPc(entry)
<1>1. Machine!Init => MP!Init
  BY SameDevices, SameAddresses DEF Machine!Init, MP!Init, Machine!NewRegisters, MP!NewRegisters
<1>2. \A start, data : Machine!LoadProgram(start, data) => MP!LoadProgram(start, data)
  BY SameAddresses DEF Machine!LoadProgram, MP!LoadProgram, Machine!HostHolds, MP!HostHolds
<1>3. \A entry : Machine!SetPc(entry) => MP!SetPc(entry)
  BY DEF Machine!SetPc, MP!SetPc, Machine!HostHolds, MP!HostHolds
<1> QED BY <1>1, <1>2, <1>3

\* The result is bytes: those of the assembler and those of the encoders.
LEMMA ImageBytes ==
  ASSUME TypeOK, HInv, Attributed, source \in Sources, pc = "done", errors = <<>>,
         NEW p \in DOMAIN Image
  PROVE  p \in Nat \ {0} /\ Image[p] \in Machine!Byte
<1>1. p \in DOMAIN output /\ p \in Nat \ {0} /\ output[p] \in Cell
  <2>1. output \in Seq(Cell)
    BY DEF TypeOK
  <2>2. p \in DOMAIN output
    BY DEF Image
  <2> QED BY <2>1, <2>2, LenProperties, ElementOfSeq
<1>2. CASE output[p] # Opaque
  <2>1. output[p] \in 0 .. ByteMod - 1 /\ ByteMod = 256
    BY <1>1, <1>2, AddressAssumption DEF Cell, Byte
  <2>2. Image[p] = output[p]
    BY <1>1, <1>2 DEF Image
  <2> QED BY <1>1, <2>1, <2>2 DEF Machine!Byte
<1>3. CASE output[p] = Opaque
  <2> DEFINE In(j) == IsInstruction(j) /\ src[j].pos < p /\ p <= src[j].pos + src[j].n
  <2>1. PICK i \in DOMAIN src : Accepted(source[i]) /\ src[i].pos < p /\ p <= src[i].pos + src[i].n
    BY <1>1, <1>3 DEF Attributed
  <2>2. In(i)
    BY <2>1 DEF IsInstruction, Accepted
  <2>3. PICK j : j = CHOOSE q \in DOMAIN src : In(q)
    OBVIOUS
  <2>4. j \in DOMAIN src /\ In(j)
    BY <2>1, <2>2, <2>3
  <2>5. Accepted(source[j])
    BY <2>4 DEF Attributed, IsInstruction
  <2>6. /\ j \in 1 .. Len(source) /\ src[j].n = Len(Bytes(source[j]))
        /\ src[j].pos \in Nat /\ src[j].n \in Nat
    <3>1. Len(source) \in Nat
      BY SourcesAssumption, LenProperties
    <3>2. j \in 1 .. Len(source)
      BY <2>4, <3>1, SrcShape DEF HInv, Transcribed
    <3> QED BY <2>4, <2>5, <3>2, LineNumbers DEF HInv, Transcribed, Records
  <2>7. Bytes(source[j]) \in Seq(Machine!Byte)
    BY <2>5, <2>6, AcceptedBytes
  <2>8. PICK k : k = p - src[j].pos /\ k \in 1 .. Len(Bytes(source[j]))
    BY <1>1, <2>4, <2>6
  <2>9. Image[p] = Bytes(source[j])[k]
    BY <1>1, <1>3, <2>3, <2>8 DEF Image, EmittedBy, Bytes
  <2> QED BY <1>1, <2>7, <2>8, <2>9, ElementOfSeq
<1> QED BY <1>2, <1>3

\* The address of a line of code is a word.
LEMMA EntryType ==
  ASSUME TypeOK, HInv, MInv, Attributed, source \in Sources, stage # "assemble", NEW i \in Code
  PROVE  src[i].at \in MP!Word
<1>1. i \in DOMAIN src /\ Accepted(source[i]) /\ errors = <<>> /\ pc = "done"
  BY DEF Code, IsInstruction, MInv, Loaded, Attributed
<1>2. /\ i \in 1 .. Len(source) /\ src[i].n = Len(Bytes(source[i]))
      /\ src[i].pos \in Nat /\ src[i].n \in Nat
  <2>1. Len(source) \in Nat
    BY SourcesAssumption, LenProperties
  <2>2. i \in 1 .. Len(source)
    BY <1>1, <2>1, SrcShape DEF HInv, Transcribed
  <2> QED BY <1>1, <2>2, LineNumbers DEF HInv, Transcribed, Records
<1>3. PICK q, n, len : q = src[i].pos /\ n = src[i].n /\ len = Len(output)
  OBVIOUS
<1>4. n \in {1, 2, 4} /\ q \in Nat
  BY <1>1, <1>2, <1>3, AcceptedBytes
<1>5. q + n <= len /\ len \in Nat /\ DOMAIN output = 1 .. len
  BY <1>1, <1>3, LenProperties DEF HInv, Chained, TypeOK
<1>6. q + 1 \in 1 .. len
  BY ONLY <1>4, <1>5
<1>7. base_address \in Nat /\ AddrMod \in Nat /\ AddrMod >= 16777216
  <2>1. base_address \in Nat /\ AddrMod \in Nat /\ AddrMod > 4
    BY WidthAssumption DEF TypeOK, Addr
  <2> QED BY <2>1, AddressAssumption, SMT
<1>8. PICK a \in Nat : a = base_address + q /\ a = base_address + (q + 1) - 1
  BY ONLY <1>4, <1>7
<1>9. Machine!IsRam(a)
  BY <1>1, <1>5, <1>6, <1>8 DEF MInv, Loaded
<1>10. a \in MP!Word
  BY <1>9, SameAddresses, MachineTables, MP!RamIs
<1>11. a < AddrMod
  <2>1. a < 16777216
    BY <1>9, SMT DEF Machine!IsRam, Machine!SRAM_SIZE, Machine!EBR_BASE, Machine!EBR_SIZE
  <2> QED BY ONLY <1>7, <2>1, a \in Nat
<1>12. src[i].at = a
  BY <1>1, <1>3, <1>8, <1>11 DEF HInv, Placed
<1> QED BY <1>10, <1>12

\* What the types rest on.
RunTypes == TypeOK /\ HInv /\ MInv /\ Attributed /\ SourceKnown

\* The types, and the machine's with them.
MachineTyped == stage \in {"assemble", "enter", "run"} /\ steps \in 0 .. MaxSteps /\ MP!CpuOK

\* Every step of the toolchain keeps them.
LEMMA TypesKept ==
  ASSUME MP!WordsClosed, RunTypes, MachineTyped, [Advance]_state
  PROVE  MachineTyped'
<1>1. CASE Assemble \/ UNCHANGED state
  <2>1. UNCHANGED <<stage, steps, cpu>>
    BY <1>1 DEF Assemble, state
  <2> QED BY <2>1 DEF MachineTyped, MP!CpuOK, cpu
<1>2. CASE Load
  <2>1. /\ MP!LoadProgram(base_address, Image) /\ stage' = "enter" /\ steps' = steps
        /\ pc = "done" /\ errors = <<>>
    BY <1>2, SameHost DEF Load
  <2>2. base_address \in Int /\ \A p \in DOMAIN Image : p \in Int /\ Image[p] \in MP!Byte
    BY <2>1, ImageBytes, SameAddresses DEF RunTypes, SourceKnown, TypeOK, Addr
  <2>3. MP!CpuOK'
    BY <2>1, <2>2, MachineTables, MP!LoadType DEF MachineTyped
  <2> QED BY <2>1, <2>3 DEF MachineTyped
<1>3. CASE Enter
  <2>1. PICK i \in Code : MP!SetPc(src[i].at)
    BY <1>3, SameHost DEF Enter
  <2>2. src[i].at \in MP!Word
    BY <1>3, EntryType DEF Enter, RunTypes, SourceKnown
  <2>3. MP!CpuOK'
    BY <2>1, <2>2, MachineTables, MP!HostTypes DEF MachineTyped, MP!Host
  <2> QED BY <1>3, <2>3 DEF MachineTyped, Enter
<1>4. CASE Execute
  <2>1. MP!Next
    BY <1>4, SameStep DEF Execute, MP!Next
  <2>2. MP!CpuOK'
    BY <2>1, MachineTables, MP!NextTypes DEF MachineTyped
  <2>3. steps' \in 0 .. MaxSteps
    BY <1>4, StepsAssumption DEF Execute, MachineTyped
  <2> QED BY <1>4, <2>2, <2>3 DEF MachineTyped, Execute
<1> QED BY <1>1, <1>2, <1>3, <1>4 DEF Advance

\* Whatever the program, the machine's registers hold words, its memory is
\* bytes in RAM and its pc an address: the bytes loaded are bytes, the line a
\* run enters at has a 24-bit address, and no step leaves these types.
THEOREM ToolchainTypes ==
  ASSUME WordsFit, MP!WordsClosed
  PROVE  System => []ToolchainTypeOK
<1>1. StartUp => MachineTyped
  <2> SUFFICES ASSUME StartUp PROVE MachineTyped
    OBVIOUS
  <2>1. MP!Init /\ stage = "assemble" /\ steps = 0
    BY SameHost DEF StartUp
  <2>2. MP!CpuOK
    BY <2>1, MachineTables, MP!InitTypes
  <2> QED BY <2>1, <2>2, StepsAssumption DEF MachineTyped
<1>2. RunTypes /\ MachineTyped /\ [Advance]_state => MachineTyped'
  BY TypesKept
<1>3. MachineTyped => ToolchainTypeOK
  BY SameAddresses DEF MachineTyped, ToolchainTypeOK, MP!CpuOK
<1>4. System => []RunTypes
  BY AssemblerCorrect, TypeCorrect, History, Machines, Attribution, SourceKept, PTL DEF RunTypes
<1> QED BY <1>1, <1>2, <1>3, <1>4, PTL DEF System
=============================================================================
