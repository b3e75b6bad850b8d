------------------------------ MODULE Assembler ------------------------------
(***************************************************************************)
(* The two-pass COR24 assembler of src/src/assembler.rs as a state machine *)
(* over `struct Assembler`.                                                *)
(*                                                                         *)
(* One step reads one source line (assemble_line); a .word line takes one  *)
(* step per operand, as its loop does.  At the end of the source the       *)
(* second pass takes one step per forward reference                        *)
(* (resolve_forward_refs) and a last step refreshes the listing lines.     *)
(* The same Assembler object may then assemble again at another base.      *)
(*                                                                         *)
(* The text of a line is abstracted to what the assembler distinguishes:   *)
(* which directive or instruction family it is, the label it defines, the  *)
(* labels it refers to and how many bytes it emits.  A byte that no label  *)
(* determines (an opcode, a register field, a literal) is `Opaque`; bytes  *)
(* that hold a label's address or a branch offset are computed.            *)
(***************************************************************************)
EXTENDS Integers, Sequences

CONSTANTS
  Labels,         \* names the source may define and refer to
  NumericLabels,  \* those that parse_number reads as numbers ("each" is 0EACh)
  Number,         \* a numeric operand
  Opaque,         \* a byte fixed by the source text, whatever the labels are
  NoAddr,         \* the label is not in the table
  ByteMod,        \* values of a byte, 256 in the code
  AddrMod,        \* values of a u32, 2^32 in the code
  Bases,          \* base addresses assemble_at is called with
  OrgTargets,     \* operands of .org
  ByteCounts,     \* operands of .byte that parse as numbers, counted
  ZeroSizes,      \* operands of .zero
  CommSizes,      \* sizes of .comm
  InstSizes,      \* encoded sizes of instructions without a label operand
  WordLines,      \* operand lists of .word
  MaxLines        \* bound on the lines of a source

Addr     == 0 .. AddrMod - 1
Operands == Labels \cup {Number}

ASSUME SymbolsAssumption ==
  /\ NumericLabels \subseteq Labels
  /\ Number \notin Labels
  /\ NoAddr \notin Addr
  /\ Opaque \notin 0 .. ByteMod - 1

ASSUME WidthAssumption ==
  /\ ByteMod \in Nat \ {0}
  /\ AddrMod \in Nat /\ AddrMod > 4 /\ ByteMod <= AddrMod

ASSUME SourceAssumption ==
  /\ Bases \subseteq Addr /\ OrgTargets \subseteq Addr
  /\ ByteCounts \subseteq Addr /\ ZeroSizes \subseteq Addr
  /\ CommSizes \subseteq Addr /\ InstSizes \subseteq Addr
  /\ WordLines \subseteq Seq(Operands) \ {<<>>}
  /\ MaxLines \in Nat

VARIABLES
  pc,             \* what the call in progress is doing
  address,        \* self.address
  base_address,   \* self.base_address
  labels,         \* self.labels
  forward_refs,   \* self.forward_refs
  output,         \* self.output
  lines,          \* self.lines: the address and the bytes of each
  errors,         \* self.errors: the line and the kind of each
  word,           \* the .word line being read: operands left, where it started
  next,           \* the forward reference the second pass resolves next
  src             \* history: the lines read and the state each was read in

code == <<address, base_address, labels, forward_refs, output, lines, errors>>
vars == <<pc, code, word, next, src>>

-----------------------------------------------------------------------------
(* Values.                                                                 *)

Byte == 0 .. ByteMod - 1
Cell == Byte \cup {Opaque}

\* u32 addition.  A release build wraps; a debug build panics, see Overflow.
Plus(a, n) == IF a + n < AddrMod THEN a + n ELSE a + n - AddrMod

Signed(a) == IF 2 * a < AddrMod THEN a ELSE a - AddrMod

\* The three bytes of a 24-bit little-endian address.
Address24(a) ==
  << a % ByteMod, (a \div ByteMod) % ByteMod,
     (a \div (ByteMod * ByteMod)) % ByteMod >>

\* The difference of two addresses taken as i32 leaves the type.
DifferenceOverflows(x, y) ==
  LET d == Signed(x) - Signed(y)
  IN  AddrMod <= 2 * d \/ 2 * d < -AddrMod

\* i32 subtraction.  A release build wraps; see OffsetOverflow.
Minus(x, y) ==
  LET d == Signed(x) - Signed(y)
  IN  IF AddrMod <= 2 * d THEN d - AddrMod
      ELSE IF 2 * d < -AddrMod THEN d + AddrMod ELSE d

\* -128 ..= 127
FitsByte(d) == -ByteMod <= 2 * d /\ 2 * d < ByteMod

\* Seeded fault: the offset is taken from the next instruction.
DisplacementFromNext(target, instr) == Minus(target, Plus(instr, 2))

\* The offset from a branch at `instr`: the pipeline's base is instr + 4.
Displacement(target, instr) == Minus(target, Plus(instr, 4))

\* Self.output_index: an address below the base wraps around (or panics).
OutputIndex(a) ==
  IF a >= base_address THEN a - base_address ELSE a - base_address + AddrMod

Repeat(n, c) == [i \in 1 .. n |-> c]

Defined(l) == labels[l] # NoAddr
Numeric(x) == x = Number \/ x \in NumericLabels

EmptyTable == [l \in Labels |-> NoAddr]
NoWord     == [todo |-> <<>>, at |-> 0, mark |-> 0]

-----------------------------------------------------------------------------
(* Assembler::new, and a call of assemble_at on an assembler that may have *)
(* been used before.                                                       *)

Init ==
  /\ pc = "idle"
  /\ address = 0 /\ base_address = 0
  /\ labels = EmptyTable
  /\ forward_refs = <<>> /\ output = <<>> /\ lines = <<>> /\ errors = <<>>
  /\ word = NoWord /\ next = 1 /\ src = <<>>

\* Seeded fault: the references of the last call are not cleared.
AssembleAtKeepsRefs(b) ==
  /\ pc \in {"idle", "done"}
  /\ pc' = "pass1"
  /\ address' = b /\ base_address' = b
  /\ labels' = EmptyTable
  /\ output' = <<>> /\ lines' = <<>> /\ errors' = <<>>
  /\ word' = NoWord /\ next' = 1 /\ src' = <<>>
  /\ UNCHANGED forward_refs

AssembleAt(b) ==
  /\ pc \in {"idle", "done"}
  /\ pc' = "pass1"
  /\ address' = b /\ base_address' = b
  /\ labels' = EmptyTable
  /\ forward_refs' = <<>> /\ output' = <<>> /\ lines' = <<>> /\ errors' = <<>>
  /\ word' = NoWord /\ next' = 1 /\ src' = <<>>

\* A panic unwinds the call and the assembler with it; the next one is new.
New ==
  /\ pc = "panicked"
  /\ pc' = "idle"
  /\ address' = 0 /\ base_address' = 0
  /\ labels' = EmptyTable
  /\ forward_refs' = <<>> /\ output' = <<>> /\ lines' = <<>> /\ errors' = <<>>
  /\ word' = NoWord /\ next' = 1 /\ src' = <<>>

-----------------------------------------------------------------------------
(* First pass: assemble_line.                                              *)

Reading == pc = "pass1" /\ Len(src) < MaxLines

\* The history entry of the line being read: its family, the labels it
\* defines and refers to, a size or target, the address it is read at and
\* the bytes emitted before it.
Read(op, def, refs, n) ==
  src' = Append(src, [op |-> op, def |-> def, refs |-> refs, n |-> n,
                      at |-> address, pos |-> Len(output)])

Define(l) == labels' = [labels EXCEPT ![l] = address]

Error(line, kind) == errors' = Append(errors, [line |-> line, kind |-> kind])

ThisLine == Len(src) + 1

Reference(offset, l, type) ==
  [address |-> Plus(address, offset), label |-> l, ref_type |-> type,
   line_num |-> ThisLine]

\* An instruction records its line whatever it encodes to, then emits.
EmitInstruction(cells) ==
  /\ lines' = Append(lines, [address |-> address, bytes |-> cells])
  /\ output' = output \o cells
  /\ address' = Plus(address, Len(cells))

\* A directive emits first and records its line only when it emitted.
EmitDirective(cells, newAddress) ==
  /\ output' = output \o cells
  /\ address' = newAddress
  /\ lines' = IF cells = <<>> THEN lines
              ELSE Append(lines, [address |-> address, bytes |-> cells])

\* Blank and comment lines; unknown directives; .org and .zero whose operand
\* does not parse; .comm with a missing or unparsable size.
Skip ==
  /\ Reading
  /\ Read("skip", {}, <<>>, 0)
  /\ UNCHANGED <<pc, code, word, next>>

LabelLine(l) ==
  /\ Reading
  /\ Read("label", {l}, <<>>, 0)
  /\ Define(l)
  /\ lines' = Append(lines, [address |-> address, bytes |-> <<>>])
  /\ UNCHANGED <<pc, address, base_address, forward_refs, output, errors, word, next>>

\* "l: add r0,r1": the label is defined, the rest of the line is an error.
LabelNotAlone(l) ==
  /\ Reading
  /\ Read("labelNotAlone", {l}, <<>>, 0)
  /\ Define(l)
  /\ Error(ThisLine, "labelNotAlone")
  /\ UNCHANGED <<pc, address, base_address, forward_refs, output, lines, word, next>>

\* ": add r0,r1": the same error, and there is no label to define.
EmptyLabel ==
  /\ Reading
  /\ Read("labelNotAlone", {}, <<>>, 0)
  /\ Error(ThisLine, "labelNotAlone")
  /\ UNCHANGED <<pc, address, base_address, labels, forward_refs, output, lines, word, next>>

\* Seeded fault: the location counter moves and the output is not padded.
OrgUnpadded(target) ==
  /\ Reading
  /\ Read("org", {}, <<>>, target)
  /\ EmitDirective(<<>>, target)
  /\ UNCHANGED <<pc, base_address, labels, forward_refs, errors, word, next>>

\* .org pads up to the target, never truncates, and a target below the base
\* is taken as an index.
Org(target) ==
  /\ Reading
  /\ Read("org", {}, <<>>, target)
  /\ LET idx == IF target >= base_address THEN target - base_address ELSE target
     IN  EmitDirective(Repeat(idx - Len(output), 0), target)
  /\ UNCHANGED <<pc, base_address, labels, forward_refs, errors, word, next>>

ByteData(n) ==
  /\ Reading
  /\ Read("byte", {}, <<>>, n)
  /\ EmitDirective(Repeat(n, Opaque), Plus(address, n))
  /\ UNCHANGED <<pc, base_address, labels, forward_refs, errors, word, next>>

Zero(n) ==
  /\ Reading
  /\ Read("zero", {}, <<>>, n)
  /\ EmitDirective(Repeat(n, 0), Plus(address, n))
  /\ UNCHANGED <<pc, base_address, labels, forward_refs, errors, word, next>>

\* .comm reserves: the label is here, the counter moves, nothing is emitted.
Comm(l, size) ==
  /\ Reading
  /\ Read("comm", {l}, <<>>, size)
  /\ Define(l)
  /\ address' = Plus(address, size)
  /\ UNCHANGED <<pc, base_address, forward_refs, output, lines, errors, word, next>>

-----------------------------------------------------------------------------
(* A .word line: one step per operand, the listing line at the last.       *)

WordLine(operands) ==
  /\ Reading
  /\ Read("word", {}, operands, 3 * Len(operands))
  /\ word' = [todo |-> operands, at |-> address, mark |-> Len(output)]
  /\ pc' = "word"
  /\ UNCHANGED <<code, next>>

\* Seeded fault: the loop over the operands runs once too often.
EmitWordOverrun(cells) ==
  /\ output' = output \o cells
  /\ address' = Plus(address, 3)
  /\ word' = [word EXCEPT !.todo = Tail(@)]
  /\ UNCHANGED <<pc, lines, base_address, labels, errors, next, src>>

EmitWord(cells) ==
  /\ output' = output \o cells
  /\ address' = Plus(address, 3)
  /\ word' = [word EXCEPT !.todo = Tail(@)]
  /\ IF Len(word.todo) = 1
     THEN /\ pc' = "pass1"
          /\ lines' = Append(lines,
               [address |-> word.at,
                bytes |-> SubSeq(output, word.mark + 1, Len(output)) \o cells])
     ELSE UNCHANGED <<pc, lines>>
  /\ UNCHANGED <<base_address, labels, errors, next, src>>

WordNumber ==
  /\ pc = "word"
  /\ Numeric(Head(word.todo))
  /\ EmitWord(Repeat(3, Opaque))
  /\ UNCHANGED forward_refs

WordKnown ==
  /\ pc = "word"
  /\ LET l == Head(word.todo)
     IN  /\ ~ Numeric(l) /\ Defined(l)
         /\ EmitWord(Address24(labels[l]))
  /\ UNCHANGED forward_refs

WordForward ==
  /\ pc = "word"
  /\ LET l == Head(word.todo)
     IN  /\ ~ Numeric(l) /\ ~ Defined(l)
         /\ EmitWord(Repeat(3, 0))
         /\ forward_refs' = Append(forward_refs,
              [address |-> address, label |-> l, ref_type |-> "Absolute24",
               line_num |-> Len(src)])

-----------------------------------------------------------------------------
(* Instructions: parse_instruction and the encoders.                       *)

\* Every instruction, and every form of one, without a label operand.
Instruction(size) ==
  /\ Reading
  /\ Read("instruction", {}, <<>>, size)
  /\ EmitInstruction(Repeat(size, Opaque))
  /\ UNCHANGED <<pc, base_address, labels, forward_refs, errors, word, next>>

\* An unknown mnemonic, a bad operand, an unencodable register pair or an
\* out-of-range lc immediate: one error, no bytes, an empty listing line.
BadInstruction ==
  /\ Reading
  /\ Read("bad", {}, <<>>, 0)
  /\ Error(ThisLine, "badInstruction")
  /\ EmitInstruction(<<>>)
  /\ UNCHANGED <<pc, base_address, labels, forward_refs, word, next>>

\* encode_branch looks the target up before it tries it as a number.
BranchKnown(l) ==
  /\ Reading
  /\ Defined(l)
  /\ Read("branch", {}, <<l>>, 2)
  /\ LET offset == Displacement(labels[l], address)
     IN  IF FitsByte(offset)
         THEN EmitInstruction(<<Opaque, offset % ByteMod>>) /\ UNCHANGED errors
         ELSE EmitInstruction(<<>>) /\ Error(ThisLine, "tooFar")
  /\ UNCHANGED <<pc, base_address, labels, forward_refs, word, next>>

BranchNumber(x) ==
  /\ Reading
  /\ Numeric(x) /\ (x \in Labels => ~ Defined(x))
  /\ Read("branch", {}, <<x>>, 2)
  /\ EmitInstruction(Repeat(2, Opaque))
  /\ UNCHANGED <<pc, base_address, labels, forward_refs, errors, word, next>>

\* Seeded fault: the reference is recorded at the opcode.
BranchForwardAtOpcode(l) ==
  /\ Reading
  /\ ~ Numeric(l) /\ ~ Defined(l)
  /\ Read("branch", {}, <<l>>, 2)
  /\ forward_refs' = Append(forward_refs, Reference(0, l, "Relative8"))
  /\ EmitInstruction(<<Opaque, 0>>)
  /\ UNCHANGED <<pc, base_address, labels, errors, word, next>>

BranchForward(l) ==
  /\ Reading
  /\ ~ Numeric(l) /\ ~ Defined(l)
  /\ Read("branch", {}, <<l>>, 2)
  /\ forward_refs' = Append(forward_refs, Reference(1, l, "Relative8"))
  /\ EmitInstruction(<<Opaque, 0>>)
  /\ UNCHANGED <<pc, base_address, labels, errors, word, next>>

\* encode_la tries its target as a number before it looks it up.
LaNumber(x) ==
  /\ Reading
  /\ Numeric(x)
  /\ Read("la", {}, <<x>>, 4)
  /\ EmitInstruction(Repeat(4, Opaque))
  /\ UNCHANGED <<pc, base_address, labels, forward_refs, errors, word, next>>

LaKnown(l) ==
  /\ Reading
  /\ ~ Numeric(l) /\ Defined(l)
  /\ Read("la", {}, <<l>>, 4)
  /\ EmitInstruction(<<Opaque>> \o Address24(labels[l]))
  /\ UNCHANGED <<pc, base_address, labels, forward_refs, errors, word, next>>

\* Seeded fault: the reference is recorded past the operand's first byte.
LaForwardPastOperand(l) ==
  /\ Reading
  /\ ~ Numeric(l) /\ ~ Defined(l)
  /\ Read("la", {}, <<l>>, 4)
  /\ forward_refs' = Append(forward_refs, Reference(2, l, "Absolute24"))
  /\ EmitInstruction(<<Opaque>> \o Repeat(3, 0))
  /\ UNCHANGED <<pc, base_address, labels, errors, word, next>>

LaForward(l) ==
  /\ Reading
  /\ ~ Numeric(l) /\ ~ Defined(l)
  /\ Read("la", {}, <<l>>, 4)
  /\ forward_refs' = Append(forward_refs, Reference(1, l, "Absolute24"))
  /\ EmitInstruction(<<Opaque>> \o Repeat(3, 0))
  /\ UNCHANGED <<pc, base_address, labels, errors, word, next>>

EndOfSource ==
  /\ pc = "pass1"
  /\ pc' = "resolve"
  /\ UNCHANGED <<code, word, next, src>>

-----------------------------------------------------------------------------
(* Second pass: resolve_forward_refs, then the refresh of the lines.       *)

Resolving == pc = "resolve" /\ next <= Len(forward_refs)
Ref == forward_refs[next]

ResolveUndefined ==
  /\ Resolving
  /\ ~ Defined(Ref.label)
  /\ Error(Ref.line_num, "undefinedLabel")
  /\ next' = next + 1
  /\ UNCHANGED <<pc, address, base_address, labels, forward_refs, output, lines, word, src>>

\* An operand that is not wholly inside the output is left as it is, silently.
ResolveAbsolute ==
  /\ Resolving
  /\ Defined(Ref.label) /\ Ref.ref_type = "Absolute24"
  /\ LET idx   == OutputIndex(Ref.address)
         bytes == Address24(labels[Ref.label])
     IN  output' = IF idx + 2 < Len(output)
                   THEN [output EXCEPT ![idx + 1] = bytes[1], ![idx + 2] = bytes[2],
                                       ![idx + 3] = bytes[3]]
                   ELSE output
  /\ next' = next + 1
  /\ UNCHANGED <<pc, address, base_address, labels, forward_refs, lines, errors, word, src>>

\* Seeded fault: the offset is taken from the operand byte plus 2.
RelativeOffsetShort == Minus(labels[Ref.label], Plus(Ref.address, 2))

RelativeOffset == Minus(labels[Ref.label], Plus(Ref.address, 3))

ResolveRelative ==
  /\ Resolving
  /\ Defined(Ref.label) /\ Ref.ref_type = "Relative8"
  /\ IF FitsByte(RelativeOffset)
     THEN /\ LET idx == OutputIndex(Ref.address)
             IN  output' = IF idx < Len(output)
                           THEN [output EXCEPT ![idx + 1] = RelativeOffset % ByteMod]
                           ELSE output
          /\ UNCHANGED errors
     ELSE /\ Error(Ref.line_num, "tooFar")
          /\ UNCHANGED output
  /\ next' = next + 1
  /\ UNCHANGED <<pc, address, base_address, labels, forward_refs, lines, word, src>>

\* Seeded fault: the lines keep the bytes of the first pass.
RefreshedNot(line) == line

\* A line's bytes are read again at its address.
Refreshed(line) ==
  LET idx == OutputIndex(line.address)
      len == Len(line.bytes)
  IN  IF len > 0 /\ idx + len <= Len(output)
      THEN [line EXCEPT !.bytes = SubSeq(output, idx + 1, idx + len)]
      ELSE line

Finish ==
  /\ pc = "resolve" /\ next > Len(forward_refs)
  /\ pc' = "done"
  /\ lines' = [i \in DOMAIN lines |-> Refreshed(lines[i])]
  /\ UNCHANGED <<address, base_address, labels, forward_refs, output, errors, word, next, src>>

-----------------------------------------------------------------------------
(* Arithmetic that overflows in a build with overflow checks.              *)

\* The amounts the next line may add to self.address.
Advances ==
  ByteCounts \cup ZeroSizes \cup CommSizes \cup InstSizes \cup {2, 4}

AddressOverflow ==
  /\ \/ Reading /\ \E n \in Advances : address + n >= AddrMod
     \/ pc = "word" /\ address + 3 >= AddrMod
  /\ pc' = "panicked"
  /\ UNCHANGED <<code, word, next, src>>

\* addr - self.base_address below zero, in output_index and in the refresh;
\* fref.address + 3 past the top.
IndexOverflow ==
  /\ \/ /\ Resolving /\ Defined(Ref.label)
        /\ \/ Ref.ref_type = "Relative8" /\ Ref.address + 3 >= AddrMod
           \/ /\ Ref.address < base_address
              /\ Ref.ref_type = "Relative8" => FitsByte(RelativeOffset)
     \/ /\ pc = "resolve" /\ next > Len(forward_refs)
        /\ \E i \in DOMAIN lines : lines[i].bytes # <<>> /\ lines[i].address < base_address
  /\ pc' = "panicked"
  /\ UNCHANGED <<code, word, next, src>>

\* The offset of a branch whose base and target lie far apart, on either
\* side of the sign bit, in the pass that computes it.
OffsetOverflow ==
  /\ \/ /\ Reading
        /\ \E l \in Labels :
             Defined(l) /\ DifferenceOverflows(labels[l], Plus(address, 4))
     \/ /\ Resolving /\ Defined(Ref.label) /\ Ref.ref_type = "Relative8"
        /\ DifferenceOverflows(labels[Ref.label], Plus(Ref.address, 3))
  /\ pc' = "panicked"
  /\ UNCHANGED <<code, word, next, src>>

-----------------------------------------------------------------------------
Directive ==
  \/ \E t \in OrgTargets : Org(t)
  \/ \E n \in ByteCounts : ByteData(n)
  \/ \E n \in ZeroSizes : Zero(n)
  \/ \E l \in Labels, n \in CommSizes : Comm(l, n)
  \/ \E ops \in WordLines : WordLine(ops)
  \/ WordNumber \/ WordKnown \/ WordForward

Encode ==
  \/ \E n \in InstSizes : Instruction(n)
  \/ BadInstruction
  \/ \E l \in Labels : BranchKnown(l) \/ BranchForward(l) \/ LaKnown(l) \/ LaForward(l)
  \/ \E x \in Operands : BranchNumber(x) \/ LaNumber(x)

FirstPass ==
  \/ Skip
  \/ \E l \in Labels : LabelLine(l) \/ LabelNotAlone(l)
  \/ EmptyLabel
  \/ Directive
  \/ Encode
  \/ EndOfSource

SecondPass == ResolveUndefined \/ ResolveAbsolute \/ ResolveRelative \/ Finish

Next ==
  \/ \E b \in Bases : AssembleAt(b)
  \/ New
  \/ FirstPass
  \/ SecondPass
  \/ AddressOverflow
  \/ IndexOverflow
  \/ OffsetOverflow

Spec == Init /\ [][Next]_vars
=============================================================================
