------------------------------- MODULE Encoder -------------------------------
(***************************************************************************)
(* The instruction encoders of src/src/assembler.rs: parse_register and    *)
(* the encode_* methods, one operator for each.  An encoder gives the      *)
(* bytes of an instruction or rejects it, in which case the method reports *)
(* one error and emits nothing.                                            *)
(*                                                                         *)
(* An operand is what its text parses to:                                  *)
(*   [reg |-> name]                a register                              *)
(*   [num |-> v]                   a number; the u32 read as an i32        *)
(*   [base |-> name]               "(rb)"                                  *)
(*   [off |-> v, base |-> name]    "offset(rb)"                            *)
(*   [label |-> l]                 any other name                          *)
(* The bytes a label determines are zero here: the Assembler module has    *)
(* them.                                                                   *)
(*                                                                         *)
(* The tables of the external crate cor24_isa are read backwards from the  *)
(* decode table, which was extracted from the hardware: encode_* returns   *)
(* the byte that decodes to the opcode and registers asked for.            *)
(***************************************************************************)
EXTENDS Integers, Sequences

CONSTANTS
  DECODE_ROM,     \* byte -> 12 bits, opcode(5) : ra(3) : rb(3)
  Opcodes         \* the opcodes of cor24_isa, in the order of their codes

\* No two bytes decode to the same instruction, or encoding would not be a function.
ASSUME EncodingAssumption ==
  \A x, y \in 0 .. 255 :
    DECODE_ROM[x] = DECODE_ROM[y] /\ DECODE_ROM[x] # 4095 => x = y

-----------------------------------------------------------------------------
(* cor24_isa::encode.                                                      *)

\* The instruction bytes of each opcode.
BytesFor ==
  [o \in {Opcodes[i] : i \in DOMAIN Opcodes} |->
     {x \in 0 .. 255 : DECODE_ROM[x] # 4095 /\ Opcodes[1 + DECODE_ROM[x] \div 64] = o}]

\* A register field the operands do not choose.
Any == 0 .. 7

Rejected == <<>>

\* The instruction byte and its operand, if there is such an instruction.
Assembled(o, as, bs, operand) ==
  LET bytes == {x \in BytesFor[o] : /\ (DECODE_ROM[x] \div 8) % 8 \in as
                                    /\ DECODE_ROM[x] % 8 \in bs}
  IN  IF bytes = {} THEN Rejected ELSE <<CHOOSE x \in bytes : TRUE>> \o operand

-----------------------------------------------------------------------------
(* Operands.                                                               *)

\* parse_register.  z and c are two names of 5.
RegisterCode == [r0 |-> 0, r1 |-> 1, r2 |-> 2, fp |-> 3, sp |-> 4,
                 z |-> 5, c |-> 5, iv |-> 6, ir |-> 7]

RegisterOf(name) == IF name \in DOMAIN RegisterCode THEN {RegisterCode[name]} ELSE {}

\* The register an operand is, as a set of at most one.
Register(o) == IF "reg" \in DOMAIN o THEN RegisterOf(o.reg) ELSE {}

IsNumber(o) == "num" \in DOMAIN o
IsLabel(o)  == "label" \in DOMAIN o
IsBase(o)   == "base" \in DOMAIN o

Low8(v)  == v % 256
Bytes24(v) == <<v % 256, (v \div 256) % 256, (v \div 65536) % 256>>

-----------------------------------------------------------------------------
(* The encoders.  Operands past those an encoder looks at are ignored.     *)

EncodePush(ops) ==
  IF Len(ops) < 1 THEN Rejected ELSE Assembled("Push", Register(ops[1]), Any, <<>>)

EncodePop(ops) ==
  IF Len(ops) < 1 THEN Rejected ELSE Assembled("Pop", Register(ops[1]), Any, <<>>)

EncodePair(o, ops) ==
  IF Len(ops) < 2 THEN Rejected
  ELSE Assembled(o, Register(ops[1]), Register(ops[2]), <<>>)

EncodeMov(ops) == EncodePair("Mov", ops)
EncodeMul(ops) == EncodePair("Mul", ops)
EncodeAlu(o, ops) == EncodePair(o, ops)

\* The immediate keeps its low 8 bits, whatever the number was.
EncodeAdd(ops) ==
  CASE Len(ops) < 2     -> Rejected
    [] Len(ops) >= 2 /\ IsNumber(ops[2]) ->
         Assembled("AddImm", Register(ops[1]), Any, <<Low8(ops[2].num)>>)
    [] OTHER -> Assembled("AddReg", Register(ops[1]), Register(ops[2]), <<>>)

\* "sub sp,number" is an instruction of its own; no other register takes one.
EncodeSub(ops) ==
  CASE Len(ops) < 2 -> Rejected
    [] Len(ops) >= 2 /\ ops[1] = [reg |-> "sp"] /\ IsNumber(ops[2]) ->
         Assembled("SubSp", Any, Any, Bytes24(ops[2].num))
    [] OTHER -> Assembled("Sub", Register(ops[1]), Register(ops[2]), <<>>)

\* A number is the offset itself, its low 8 bits.
EncodeBranch(o, ops) ==
  IF Len(ops) < 1 THEN Rejected
  ELSE Assembled(o, Any, Any, <<IF IsNumber(ops[1]) THEN Low8(ops[1].num) ELSE 0>>)

\* "(ra)" and nothing before the parenthesis.
Parenthesised(o) == IF IsBase(o) /\ "off" \notin DOMAIN o THEN RegisterOf(o.base) ELSE {}

EncodeJmp(ops) ==
  IF Len(ops) < 1 THEN Rejected ELSE Assembled("Jmp", Parenthesised(ops[1]), Any, <<>>)

EncodeJal(ops) ==
  IF Len(ops) < 2 THEN Rejected
  ELSE Assembled("Jal", Register(ops[1]), Parenthesised(ops[2]), <<>>)

EncodeLa(ops) ==
  IF Len(ops) < 2 THEN Rejected
  ELSE Assembled("La", Register(ops[1]), Any,
                 IF IsNumber(ops[2]) THEN Bytes24(ops[2].num) ELSE <<0, 0, 0>>)

LcRange(unsigned) == IF unsigned THEN 0 .. 255 ELSE -128 .. 127

EncodeLc(unsigned, ops) ==
  IF Len(ops) >= 2 /\ IsNumber(ops[2]) /\ ops[2].num \in LcRange(unsigned)
  THEN Assembled(IF unsigned THEN "Lcu" ELSE "Lc", Register(ops[1]), Any, <<Low8(ops[2].num)>>)
  ELSE Rejected

\* Seeded fault: the register of the address is encoded first.
EncodeLoadStoreSwapped(o, ops) ==
  IF Len(ops) >= 2 /\ IsBase(ops[2])
  THEN Assembled(o, RegisterOf(ops[2].base), Register(ops[1]),
                 <<IF "off" \in DOMAIN ops[2] THEN Low8(ops[2].off) ELSE 0>>)
  ELSE Rejected

\* The offset keeps its low 8 bits; without one it is 0.
EncodeLoadStore(o, ops) ==
  IF Len(ops) >= 2 /\ IsBase(ops[2])
  THEN Assembled(o, Register(ops[1]), RegisterOf(ops[2].base),
                 <<IF "off" \in DOMAIN ops[2] THEN Low8(ops[2].off) ELSE 0>>)
  ELSE Rejected

-----------------------------------------------------------------------------
(* parse_instruction.                                                      *)

AluOpcode == [and |-> "And", or |-> "Or", xor |-> "Xor", shl |-> "Shl", sra |-> "Sra",
              srl |-> "Srl", ceq |-> "Ceq", cls |-> "Cls", clu |-> "Clu",
              sxt |-> "Sxt", zxt |-> "Zxt"]
BranchOpcode == [bra |-> "Bra", brf |-> "Brf", brt |-> "Brt"]
LoadStoreOpcode == [lb |-> "Lb", lbu |-> "Lbu", lw |-> "Lw", sb |-> "Sb", sw |-> "Sw"]

Encoded(mnemonic, ops) ==
  CASE mnemonic = "push" -> EncodePush(ops)
    [] mnemonic = "pop"  -> EncodePop(ops)
    [] mnemonic = "mov"  -> EncodeMov(ops)
    [] mnemonic = "add"  -> EncodeAdd(ops)
    [] mnemonic = "sub"  -> EncodeSub(ops)
    [] mnemonic = "mul"  -> EncodeMul(ops)
    [] mnemonic = "jmp"  -> EncodeJmp(ops)
    [] mnemonic = "jal"  -> EncodeJal(ops)
    [] mnemonic = "la"   -> EncodeLa(ops)
    [] mnemonic = "lc"   -> EncodeLc(FALSE, ops)
    [] mnemonic = "lcu"  -> EncodeLc(TRUE, ops)
    [] mnemonic = "nop"  -> <<255>>
    [] mnemonic \in DOMAIN AluOpcode       -> EncodeAlu(AluOpcode[mnemonic], ops)
    [] mnemonic \in DOMAIN BranchOpcode    -> EncodeBranch(BranchOpcode[mnemonic], ops)
    [] mnemonic \in DOMAIN LoadStoreOpcode ->
         EncodeLoadStore(LoadStoreOpcode[mnemonic], ops)
    [] OTHER -> Rejected
=============================================================================
