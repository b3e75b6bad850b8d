--------------------------- MODULE AssemblerProofs ---------------------------
(***************************************************************************)
(* Theorems about Assembler, for any labels, widths, bases and sources:    *)
(* its types and counters, and what one call returns, the verdict, the     *)
(* bytes the second pass leaves alone, and the listing.                    *)
(*                                                                         *)
(* TypeOK is inductive by itself.  The next two theorems come from one     *)
(* invariant, IInv: the counter tracks the output, every recorded operand  *)
(* lies inside the output, a .word in progress has room for the operands   *)
(* still to come (WordFits), and a reference names a line already read     *)
(* (RefsRead).  The operand is inside because the counter that named it    *)
(* tracks the output; the last two parts are what a reference recorded in  *)
(* the middle of a .word needs.  The theorems about what a call returns    *)
(* strengthen IInv by what each property needs.                            *)
(***************************************************************************)
EXTENDS AssemblerProperties, SequenceTheorems, TLAPS

\* A value modulo the width of a byte is a byte.
LEMMA ByteType ==
  ASSUME NEW v \in Int
  PROVE  v % ByteMod \in Byte
BY WidthAssumption DEF Byte

\* Advancing the location counter wraps inside the address space.
LEMMA PlusType ==
  ASSUME NEW a \in Addr, NEW n \in Addr
  PROVE  Plus(a, n) \in Addr
BY WidthAssumption DEF Plus, Addr

\* An address makes three cells.
LEMMA Address24Type ==
  ASSUME NEW a \in Addr
  PROVE  /\ Address24(a) \in Seq(Cell)
         /\ Len(Address24(a)) = 3
         /\ \A i \in 1 .. 3 : Address24(a)[i] \in Cell
<1>1. a \in Int /\ a \div ByteMod \in Int /\ a \div (ByteMod * ByteMod) \in Int
  BY WidthAssumption DEF Addr
<1>2. \A v \in Int : v % ByteMod \in Cell
  BY ByteType DEF Cell
<1> QED BY <1>1, <1>2 DEF Address24

\* Repeat makes as many cells as asked for, and none for a negative count.
LEMMA RepeatType ==
  ASSUME NEW n \in Int, NEW c \in Cell
  PROVE  /\ Repeat(n, c) \in Seq(Cell)
         /\ Len(Repeat(n, c)) = IF n > 0 THEN n ELSE 0
<1>1. CASE n > 0
  BY <1>1, IsASeq DEF Repeat
<1>2. CASE n <= 0
  <2>1. 1 .. n = 1 .. 0
    BY <1>2
  <2>2. Repeat(n, c) = Repeat(0, c)
    BY <2>1 DEF Repeat
  <2>3. Repeat(0, c) \in Seq(Cell) /\ Len(Repeat(0, c)) = 0
    BY IsASeq DEF Repeat
  <2> QED BY <1>2, <2>2, <2>3
<1> QED BY <1>1, <1>2

\* The cells, addresses and operand list the lines below start from.
LEMMA CellValues ==
  /\ 0 \in Cell /\ Opaque \in Cell
  /\ 0 \in Addr /\ 1 \in Addr /\ 2 \in Addr /\ 3 \in Addr /\ 4 \in Addr
  /\ <<>> \in Seq(Operands)
BY WidthAssumption DEF Cell, Byte, Addr

-----------------------------------------------------------------------------
(* The steps the actions are made of, one lemma each.                      *)

\* Reading a line appends it to the source read so far.
LEMMA ReadType ==
  ASSUME TypeOK, NEW op \in Ops, NEW def \in SUBSET Labels, NEW refs \in Seq(Operands),
         NEW n \in Nat, Read(op, def, refs, n)
  PROVE  src' \in Seq(SourceLine) /\ src' # <<>>
<1> DEFINE e == [op |-> op, def |-> def, refs |-> refs, n |-> n, at |-> address,
                 pos |-> Len(output)]
<1>1. e \in SourceLine
  BY LenProperties DEF TypeOK, SourceLine
<1>2. src' = Append(src, e) /\ src \in Seq(SourceLine)
  BY DEF Read, TypeOK
<1> HIDE DEF e
<1>3. Append(src, e) \in Seq(SourceLine) /\ Len(Append(src, e)) = Len(src) + 1
      /\ Len(src) \in Nat
  BY <1>1, <1>2, AppendProperties, LenProperties
<1>4. Append(src, e) # <<>>
  BY <1>3
<1> QED BY <1>2, <1>3, <1>4

\* An instruction line keeps the listing, the output and the counter typed.
LEMMA EmitInstructionType ==
  ASSUME TypeOK, NEW cells \in Seq(Cell), Len(cells) \in Addr, EmitInstruction(cells)
  PROVE  /\ lines' \in Seq(ListingLine)
         /\ output' \in Seq(Cell)
         /\ address' \in Addr
<1>1. [address |-> address, bytes |-> cells] \in ListingLine
  BY DEF TypeOK, ListingLine
<1> QED BY <1>1, PlusType DEF EmitInstruction, TypeOK

\* So does a directive line that emits its bytes at once.
LEMMA EmitDirectiveType ==
  ASSUME TypeOK, NEW cells \in Seq(Cell), NEW to \in Addr, EmitDirective(cells, to)
  PROVE  /\ lines' \in Seq(ListingLine)
         /\ output' \in Seq(Cell)
         /\ address' \in Addr
<1>1. [address |-> address, bytes |-> cells] \in ListingLine
  BY DEF TypeOK, ListingLine
<1> QED BY <1>1 DEF EmitDirective, TypeOK

\* So does each operand of a .word, which also shortens the operands left.
LEMMA EmitWordType ==
  ASSUME TypeOK, pc = "word", NEW cells \in Seq(Cell), EmitWord(cells)
  PROVE  /\ lines' \in Seq(ListingLine)
         /\ output' \in Seq(Cell)
         /\ address' \in Addr
         /\ word' \in [todo : Seq(Operands), at : Addr, mark : Nat]
         /\ pc' \in {"word", "pass1"}
         /\ pc' = "word" => word'.todo # <<>>
<1>1. /\ word.todo \in Seq(Operands) /\ word.todo # <<>>
      /\ word.at \in Addr /\ word.mark \in Nat
  BY DEF TypeOK
<1>2. Tail(word.todo) \in Seq(Operands) /\ Len(Tail(word.todo)) = Len(word.todo) - 1
  BY <1>1, HeadTailProperties
<1>3. word' = [todo |-> Tail(word.todo), at |-> word.at, mark |-> word.mark]
  BY DEF EmitWord, TypeOK
<1>4. SubSeq(output, word.mark + 1, Len(output)) \in Seq(Cell)
  <2>1. \A i \in word.mark + 1 .. Len(output) : output[i] \in Cell
    BY <1>1, LenProperties DEF TypeOK
  <2> QED BY <1>1, <2>1, SubSeqProperties, LenProperties DEF TypeOK
<1>5. [address |-> word.at, bytes |-> SubSeq(output, word.mark + 1, Len(output)) \o cells]
        \in ListingLine
  BY <1>1, <1>4, ConcatProperties DEF ListingLine
<1>6. lines' \in Seq(ListingLine) /\ pc' \in {"word", "pass1"}
  <2>1. CASE Len(word.todo) = 1
    <3> DEFINE line == [address |-> word.at,
                        bytes |-> SubSeq(output, word.mark + 1, Len(output)) \o cells]
    <3>1. lines' = Append(lines, line) /\ pc' = "pass1"
      BY <2>1 DEF EmitWord
    <3>2. line \in ListingLine /\ lines \in Seq(ListingLine)
      BY <1>5 DEF TypeOK
    <3> HIDE DEF line
    <3> QED BY <3>1, <3>2, AppendProperties
  <2>2. CASE Len(word.todo) # 1
    BY <2>2 DEF EmitWord, TypeOK
  <2> QED BY <2>1, <2>2
<1>7. pc' = "word" => word'.todo # <<>>
  <2>1. pc' = "word" => Len(word.todo) # 1
    BY DEF EmitWord
  <2>2. Len(word.todo) \in Nat \ {0}
    BY <1>1, EmptySeq
  <2>3. pc' = "word" => Len(Tail(word.todo)) # 0
    BY <1>2, <2>1, <2>2
  <2>4. word'.todo = Tail(word.todo)
    BY <1>3
  <2> QED BY <2>3, <2>4, EmptySeq
<1>8. output' \in Seq(Cell) /\ address' \in Addr
  BY PlusType, CellValues DEF EmitWord, TypeOK
<1> QED BY <1>1, <1>2, <1>3, <1>6, <1>7, <1>8

\* Reporting an error keeps the errors typed.
LEMMA ErrorType ==
  ASSUME TypeOK, NEW line \in Nat \ {0},
         NEW kind \in {"labelNotAlone", "badInstruction", "tooFar", "undefinedLabel"},
         Error(line, kind)
  PROVE  errors' \in Seq(ErrorReport)
BY DEF Error, TypeOK, ErrorReport

\* Recording a forward reference keeps the references typed.
LEMMA ReferenceType ==
  ASSUME TypeOK, NEW offset \in Addr, NEW l \in Labels,
         NEW type \in {"Absolute24", "Relative8"}
  PROVE  Reference(offset, l, type) \in ForwardRef
BY PlusType, LenProperties DEF Reference, ForwardRef, ThisLine, TypeOK

\* The line being read has a positive number.
LEMMA ThisLineType == ASSUME TypeOK PROVE ThisLine \in Nat \ {0}
BY LenProperties DEF ThisLine, TypeOK

\* Defining labels at the counter keeps the symbol table typed.
LEMMA DefineType ==
  ASSUME TypeOK, NEW l \in Labels, Define(l)
  PROVE  labels' \in [Labels -> Addr \cup {NoAddr}]
BY DEF Define, TypeOK

\* Refreshing the listing keeps its lines typed.
LEMMA RefreshedType ==
  ASSUME TypeOK, NEW line \in ListingLine
  PROVE  Refreshed(line) \in ListingLine
<1> DEFINE idx == OutputIndex(line.address)
           len == Len(line.bytes)
<1>1. idx \in Nat /\ len \in Nat
  BY LenProperties, WidthAssumption, SMTT(30) DEF OutputIndex, ListingLine, TypeOK, Addr
<1>2. CASE len > 0 /\ idx + len <= Len(output)
  <2>1. \A i \in idx + 1 .. idx + len : output[i] \in Cell
    BY <1>1, <1>2, LenProperties, SMTT(30) DEF TypeOK
  <2>2. SubSeq(output, idx + 1, idx + len) \in Seq(Cell)
    BY <1>1, <2>1, SubSeqProperties
  <2> QED BY <1>2, <2>2 DEF Refreshed, ListingLine
<1>3. CASE ~ (len > 0 /\ idx + len <= Len(output))
  BY <1>3 DEF Refreshed
<1> QED BY <1>2, <1>3

\* TypeOK holds initially.
LEMMA InitType == Init => TypeOK
<1> SUFFICES ASSUME Init PROVE TypeOK
  OBVIOUS
<1>1. labels \in [Labels -> Addr \cup {NoAddr}]
  BY DEF Init, EmptyTable
<1>2. word \in [todo : Seq(Operands), at : Addr, mark : Nat]
  BY CellValues DEF Init, NoWord
<1> QED BY <1>1, <1>2, CellValues DEF Init, TypeOK

-----------------------------------------------------------------------------
(* Type correctness, one step per action.                                  *)

\* Every directive keeps TypeOK.
LEMMA DirectiveType ==
  ASSUME TypeOK, Directive
  PROVE  TypeOK'
<1>1. ASSUME NEW target \in OrgTargets, Org(target)
      PROVE  TypeOK'
  <2>1. target \in Addr /\ target \in Nat
    BY SourceAssumption DEF Addr
  <2>2. src' \in Seq(SourceLine)
    BY <1>1, <2>1, ReadType, CellValues DEF Org, Ops
  <2> DEFINE idx == IF target >= base_address THEN target - base_address ELSE target
  <2>3. idx - Len(output) \in Int
    BY <2>1, LenProperties, WidthAssumption DEF TypeOK, Addr
  <2>4. Repeat(idx - Len(output), 0) \in Seq(Cell)
    BY <2>3, RepeatType, CellValues
  <2>5. lines' \in Seq(ListingLine) /\ output' \in Seq(Cell) /\ address' \in Addr
    BY <1>1, <2>1, <2>4, EmitDirectiveType DEF Org
  <2> QED BY <1>1, <2>2, <2>5 DEF Org, TypeOK, Reading
<1>2. ASSUME NEW n \in ByteCounts, ByteData(n)
      PROVE  TypeOK'
  <2>1. n \in Addr /\ n \in Nat
    BY SourceAssumption DEF Addr
  <2>2. src' \in Seq(SourceLine)
    BY <1>2, <2>1, ReadType, CellValues DEF ByteData, Ops
  <2>3. Repeat(n, Opaque) \in Seq(Cell) /\ Plus(address, n) \in Addr
    BY <2>1, RepeatType, PlusType, CellValues DEF TypeOK
  <2>4. lines' \in Seq(ListingLine) /\ output' \in Seq(Cell) /\ address' \in Addr
    BY <1>2, <2>3, EmitDirectiveType DEF ByteData
  <2> QED BY <1>2, <2>2, <2>4 DEF ByteData, TypeOK, Reading
<1>3. ASSUME NEW n \in ZeroSizes, Zero(n)
      PROVE  TypeOK'
  <2>1. n \in Addr /\ n \in Nat
    BY SourceAssumption DEF Addr
  <2>2. src' \in Seq(SourceLine)
    BY <1>3, <2>1, ReadType, CellValues DEF Zero, Ops
  <2>3. Repeat(n, 0) \in Seq(Cell) /\ Plus(address, n) \in Addr
    BY <2>1, RepeatType, PlusType, CellValues, SMTT(30) DEF TypeOK
  <2>4. lines' \in Seq(ListingLine) /\ output' \in Seq(Cell) /\ address' \in Addr
    BY <1>3, <2>3, EmitDirectiveType DEF Zero
  <2> QED BY <1>3, <2>2, <2>4 DEF Zero, TypeOK, Reading
<1>4. ASSUME NEW l \in Labels, NEW n \in CommSizes, Comm(l, n)
      PROVE  TypeOK'
  <2>1. n \in Addr /\ n \in Nat
    BY SourceAssumption DEF Addr
  <2>2. src' \in Seq(SourceLine)
    BY <1>4, <2>1, ReadType, CellValues DEF Comm, Ops
  <2>3. labels' \in [Labels -> Addr \cup {NoAddr}]
    BY <1>4, DefineType DEF Comm
  <2>4. address' \in Addr
    BY <1>4, <2>1, PlusType DEF Comm, TypeOK
  <2> QED BY <1>4, <2>2, <2>3, <2>4 DEF Comm, TypeOK, Reading
<1>5. ASSUME NEW ops \in WordLines, WordLine(ops)
      PROVE  TypeOK'
  <2>1. ops \in Seq(Operands) /\ ops # <<>>
    BY SourceAssumption
  <2>2. 3 * Len(ops) \in Nat /\ Len(output) \in Nat
    BY <2>1, LenProperties DEF TypeOK
  <2>3. src' \in Seq(SourceLine)
    BY <1>5, <2>1, <2>2, ReadType DEF WordLine, Ops
  <2>4. word' = [todo |-> ops, at |-> address, mark |-> Len(output)]
    BY <1>5 DEF WordLine
  <2>5. /\ word' \in [todo : Seq(Operands), at : Addr, mark : Nat]
        /\ word'.todo # <<>>
    BY <2>1, <2>2, <2>4 DEF TypeOK
  <2>6. src' # <<>>
    BY <1>5, <2>1, <2>2, ReadType DEF WordLine, Ops
  <2> QED BY <1>5, <2>3, <2>5, <2>6 DEF WordLine, TypeOK, Reading, code
<1>6. CASE WordNumber
  <2>1. Repeat(3, Opaque) \in Seq(Cell)
    BY RepeatType, CellValues
  <2> QED BY <1>6, <2>1, EmitWordType DEF WordNumber, EmitWord, TypeOK
<1>7. CASE WordKnown
  <2>1. Head(word.todo) \in Labels /\ labels[Head(word.todo)] \in Addr
    BY <1>7, HeadTailProperties DEF WordKnown, TypeOK, Numeric, Operands, Defined
  <2>2. Address24(labels[Head(word.todo)]) \in Seq(Cell)
    BY <2>1, Address24Type
  <2> QED BY <1>7, <2>2, EmitWordType DEF WordKnown, EmitWord, TypeOK
<1>8. CASE WordForward
  <2> DEFINE l == Head(word.todo)
             r == [address |-> address, label |-> l, ref_type |-> "Absolute24",
                   line_num |-> Len(src)]
  <2>1. l \in Labels
    BY <1>8, HeadTailProperties DEF WordForward, TypeOK, Numeric, Operands
  <2>2. Repeat(3, 0) \in Seq(Cell)
    BY RepeatType, CellValues
  <2>3. r \in ForwardRef
    <3>1. Len(src) \in Nat \ {0}
      BY <1>8, EmptySeq DEF WordForward, TypeOK
    <3> QED BY <2>1, <3>1 DEF ForwardRef, TypeOK
  <2>4. forward_refs' \in Seq(ForwardRef)
    BY <1>8, <2>3, AppendProperties DEF WordForward, TypeOK
  <2> QED BY <1>8, <2>2, <2>4, EmitWordType DEF WordForward, EmitWord, TypeOK
<1> QED BY <1>1, <1>2, <1>3, <1>4, <1>5, <1>6, <1>7, <1>8 DEF Directive

\* The four bytes of a la.
LEMMA LaCells ==
  ASSUME NEW s \in Seq(Cell), Len(s) = 3
  PROVE  <<Opaque>> \o s \in Seq(Cell) /\ Len(<<Opaque>> \o s) = 4
<1> DEFINE opcode == <<Opaque>>
<1>1. opcode \in Seq(Cell) /\ Len(opcode) = 1
  BY CellValues
<1> HIDE DEF opcode
<1>2. opcode \o s \in Seq(Cell) /\ Len(opcode \o s) = Len(opcode) + Len(s)
  BY <1>1, ConcatProperties
<1>3. Len(opcode \o s) = 4
  BY <1>1, <1>2
<1> QED BY <1>2, <1>3 DEF opcode

\* Two bytes of a branch, four of a la: what an encoder hands to the line.
LEMMA OperandCells ==
  /\ <<>> \in Seq(Cell) /\ Len(<<>>) \in Addr
  /\ \A c \in Cell : <<Opaque, c>> \in Seq(Cell) /\ Len(<<Opaque, c>>) \in Addr
  /\ \A s \in Seq(Cell) : Len(s) = 3 =>
       <<Opaque>> \o s \in Seq(Cell) /\ Len(<<Opaque>> \o s) \in Addr
<1>1. <<>> \in Seq(Cell) /\ Len(<<>>) \in Addr
  BY CellValues
<1>2. \A c \in Cell : <<Opaque, c>> \in Seq(Cell) /\ Len(<<Opaque, c>>) \in Addr
  BY CellValues
<1>3. ASSUME NEW s \in Seq(Cell), Len(s) = 3
      PROVE  <<Opaque>> \o s \in Seq(Cell) /\ Len(<<Opaque>> \o s) \in Addr
  BY <1>3, LaCells, CellValues
<1> QED BY <1>1, <1>2, <1>3

\* Every instruction encoder keeps TypeOK.
LEMMA EncodeType ==
  ASSUME TypeOK, Encode
  PROVE  TypeOK'
<1> USE DEF Reading
<1>1. ASSUME NEW n \in InstSizes, Instruction(n)
      PROVE  TypeOK'
  <2>1. n \in Addr /\ n \in Nat
    BY SourceAssumption DEF Addr
  <2>2. src' \in Seq(SourceLine)
    BY <1>1, <2>1, ReadType, CellValues DEF Instruction, Ops
  <2>3. Repeat(n, Opaque) \in Seq(Cell) /\ Len(Repeat(n, Opaque)) \in Addr
    BY <2>1, RepeatType, CellValues
  <2>4. lines' \in Seq(ListingLine) /\ output' \in Seq(Cell) /\ address' \in Addr
    BY <1>1, <2>3, EmitInstructionType DEF Instruction
  <2> QED BY <1>1, <2>2, <2>4 DEF Instruction, TypeOK
<1>2. CASE BadInstruction
  <2>1. src' \in Seq(SourceLine)
    BY <1>2, ReadType, CellValues DEF BadInstruction, Ops
  <2>2. errors' \in Seq(ErrorReport)
    BY <1>2, ErrorType, ThisLineType DEF BadInstruction
  <2>3. lines' \in Seq(ListingLine) /\ output' \in Seq(Cell) /\ address' \in Addr
    BY <1>2, OperandCells, EmitInstructionType DEF BadInstruction
  <2> QED BY <1>2, <2>1, <2>2, <2>3 DEF BadInstruction, TypeOK
<1>3. ASSUME NEW l \in Labels, BranchKnown(l)
      PROVE  TypeOK'
  <2> DEFINE offset == Displacement(labels[l], address)
  <2>1. src' \in Seq(SourceLine)
    <3>1. <<l>> \in Seq(Operands)
      BY DEF Operands
    <3> QED BY <1>3, <3>1, ReadType DEF BranchKnown, Ops
  <2>2. offset \in Int
    <3>1. labels[l] \in Addr /\ Plus(address, 4) \in Addr
      BY <1>3, PlusType, CellValues DEF BranchKnown, Defined, TypeOK
    <3> QED BY <3>1, WidthAssumption DEF Displacement, Minus, Signed, Addr
  <2>3. CASE FitsByte(offset)
    <3>1. offset % ByteMod \in Cell
      BY <2>2, ByteType DEF Cell
    <3>2. EmitInstruction(<<Opaque, offset % ByteMod>>) /\ errors' = errors
      BY <1>3, <2>3 DEF BranchKnown
    <3>3. lines' \in Seq(ListingLine) /\ output' \in Seq(Cell) /\ address' \in Addr
      BY <3>1, <3>2, OperandCells, EmitInstructionType
    <3> QED BY <1>3, <2>1, <3>2, <3>3 DEF BranchKnown, TypeOK
  <2>4. CASE ~ FitsByte(offset)
    <3>1. EmitInstruction(<<>>) /\ Error(ThisLine, "tooFar")
      BY <1>3, <2>4 DEF BranchKnown
    <3>2. lines' \in Seq(ListingLine) /\ output' \in Seq(Cell) /\ address' \in Addr
      BY <3>1, OperandCells, EmitInstructionType
    <3>3. errors' \in Seq(ErrorReport)
      BY <3>1, ErrorType, ThisLineType
    <3> QED BY <1>3, <2>1, <3>2, <3>3 DEF BranchKnown, TypeOK
  <2> QED BY <2>3, <2>4
<1>4. ASSUME NEW l \in Labels, BranchForward(l)
      PROVE  TypeOK'
  <2>1. src' \in Seq(SourceLine)
    <3>1. <<l>> \in Seq(Operands)
      BY DEF Operands
    <3> QED BY <1>4, <3>1, ReadType DEF BranchForward, Ops
  <2>2. forward_refs' \in Seq(ForwardRef)
    <3>1. Reference(1, l, "Relative8") \in ForwardRef
      BY ReferenceType, CellValues
    <3> QED BY <1>4, <3>1, AppendProperties DEF BranchForward, TypeOK
  <2>3. lines' \in Seq(ListingLine) /\ output' \in Seq(Cell) /\ address' \in Addr
    BY <1>4, CellValues, OperandCells, EmitInstructionType DEF BranchForward
  <2> QED BY <1>4, <2>1, <2>2, <2>3 DEF BranchForward, TypeOK
<1>5. ASSUME NEW l \in Labels, LaKnown(l)
      PROVE  TypeOK'
  <2>1. src' \in Seq(SourceLine)
    <3>1. <<l>> \in Seq(Operands)
      BY DEF Operands
    <3> QED BY <1>5, <3>1, ReadType DEF LaKnown, Ops
  <2>2. labels[l] \in Addr
    BY <1>5 DEF LaKnown, Defined, TypeOK
  <2>3. lines' \in Seq(ListingLine) /\ output' \in Seq(Cell) /\ address' \in Addr
    BY <1>5, <2>2, Address24Type, OperandCells, EmitInstructionType DEF LaKnown
  <2> QED BY <1>5, <2>1, <2>3 DEF LaKnown, TypeOK
<1>6. ASSUME NEW l \in Labels, LaForward(l)
      PROVE  TypeOK'
  <2>1. src' \in Seq(SourceLine)
    <3>1. <<l>> \in Seq(Operands)
      BY DEF Operands
    <3> QED BY <1>6, <3>1, ReadType DEF LaForward, Ops
  <2>2. forward_refs' \in Seq(ForwardRef)
    <3>1. Reference(1, l, "Absolute24") \in ForwardRef
      BY ReferenceType, CellValues
    <3> QED BY <1>6, <3>1, AppendProperties DEF LaForward, TypeOK
  <2>3. Repeat(3, 0) \in Seq(Cell) /\ Len(Repeat(3, 0)) = 3
    <3>1. 3 \in Int /\ 3 > 0 /\ 0 \in Cell
      BY CellValues
    <3> QED BY <3>1, RepeatType
  <2>4. lines' \in Seq(ListingLine) /\ output' \in Seq(Cell) /\ address' \in Addr
    BY <1>6, <2>3, OperandCells, EmitInstructionType DEF LaForward
  <2> QED BY <1>6, <2>1, <2>2, <2>4 DEF LaForward, TypeOK
<1>7. ASSUME NEW x \in Operands, BranchNumber(x)
      PROVE  TypeOK'
  <2>1. src' \in Seq(SourceLine)
    <3>1. <<x>> \in Seq(Operands)
      OBVIOUS
    <3> QED BY <1>7, <3>1, ReadType DEF BranchNumber, Ops
  <2>2. Repeat(2, Opaque) \in Seq(Cell) /\ Len(Repeat(2, Opaque)) \in Addr
    BY RepeatType, CellValues
  <2>3. lines' \in Seq(ListingLine) /\ output' \in Seq(Cell) /\ address' \in Addr
    BY <1>7, <2>2, EmitInstructionType DEF BranchNumber
  <2> QED BY <1>7, <2>1, <2>3 DEF BranchNumber, TypeOK
<1>8. ASSUME NEW x \in Operands, LaNumber(x)
      PROVE  TypeOK'
  <2>1. src' \in Seq(SourceLine)
    <3>1. <<x>> \in Seq(Operands)
      OBVIOUS
    <3> QED BY <1>8, <3>1, ReadType DEF LaNumber, Ops
  <2>2. Repeat(4, Opaque) \in Seq(Cell) /\ Len(Repeat(4, Opaque)) \in Addr
    BY RepeatType, CellValues
  <2>3. lines' \in Seq(ListingLine) /\ output' \in Seq(Cell) /\ address' \in Addr
    BY <1>8, <2>2, EmitInstructionType DEF LaNumber
  <2> QED BY <1>8, <2>1, <2>3 DEF LaNumber, TypeOK
<1> QED BY <1>1, <1>2, <1>3, <1>4, <1>5, <1>6, <1>7, <1>8 DEF Encode

\* Every line of the first pass keeps TypeOK.
LEMMA FirstPassType ==
  ASSUME TypeOK, FirstPass
  PROVE  TypeOK'
<1> USE DEF Reading
<1>1. CASE Skip
  <2>1. src' \in Seq(SourceLine)
    BY <1>1, ReadType, CellValues DEF Skip, Ops
  <2> QED BY <1>1, <2>1 DEF Skip, TypeOK, code
<1>2. ASSUME NEW l \in Labels, LabelLine(l)
      PROVE  TypeOK'
  <2>1. src' \in Seq(SourceLine)
    BY <1>2, ReadType, CellValues DEF LabelLine, Ops
  <2>2. labels' \in [Labels -> Addr \cup {NoAddr}]
    BY <1>2, DefineType DEF LabelLine
  <2>3. lines' \in Seq(ListingLine)
    <3>1. [address |-> address, bytes |-> <<>>] \in ListingLine
      BY DEF TypeOK, ListingLine
    <3> QED BY <1>2, <3>1, AppendProperties DEF LabelLine, TypeOK
  <2> QED BY <1>2, <2>1, <2>2, <2>3 DEF LabelLine, TypeOK
<1>3. ASSUME NEW l \in Labels, LabelNotAlone(l)
      PROVE  TypeOK'
  <2>1. src' \in Seq(SourceLine)
    BY <1>3, ReadType, CellValues DEF LabelNotAlone, Ops
  <2>2. labels' \in [Labels -> Addr \cup {NoAddr}]
    BY <1>3, DefineType DEF LabelNotAlone
  <2>3. errors' \in Seq(ErrorReport)
    BY <1>3, ErrorType, ThisLineType DEF LabelNotAlone
  <2> QED BY <1>3, <2>1, <2>2, <2>3 DEF LabelNotAlone, TypeOK
<1>4. CASE EmptyLabel
  <2>1. src' \in Seq(SourceLine)
    BY <1>4, ReadType, CellValues DEF EmptyLabel, Ops
  <2>2. errors' \in Seq(ErrorReport)
    BY <1>4, ErrorType, ThisLineType DEF EmptyLabel
  <2> QED BY <1>4, <2>1, <2>2 DEF EmptyLabel, TypeOK
<1>5. CASE Directive
  BY <1>5, DirectiveType
<1>6. CASE Encode
  BY <1>6, EncodeType
<1>7. CASE EndOfSource
  BY <1>7 DEF EndOfSource, TypeOK, code
<1> QED BY <1>1, <1>2, <1>3, <1>4, <1>5, <1>6, <1>7 DEF FirstPass

\* Every step of the second pass keeps TypeOK.
LEMMA SecondPassType ==
  ASSUME TypeOK, SecondPass
  PROVE  TypeOK'
<1>1. ASSUME Resolving
      PROVE  Ref \in ForwardRef /\ next + 1 \in Nat \ {0}
  BY <1>1, ElementOfSeq, LenProperties DEF Resolving, Ref, TypeOK
<1>2. ASSUME Resolving, Defined(Ref.label)
      PROVE  labels[Ref.label] \in Addr /\ OutputIndex(Ref.address) \in Nat
  BY <1>1, <1>2, WidthAssumption, SMTT(30) DEF ForwardRef, TypeOK, Defined, OutputIndex, Addr
<1>3. CASE ResolveUndefined
  <2>1. errors' \in Seq(ErrorReport)
    BY <1>1, <1>3, ErrorType DEF ResolveUndefined, ForwardRef
  <2> QED BY <1>1, <1>3, <2>1 DEF ResolveUndefined, TypeOK, Resolving
<1>4. CASE ResolveAbsolute
  <2> DEFINE idx   == OutputIndex(Ref.address)
             bytes == Address24(labels[Ref.label])
  <2>1. idx \in Nat /\ \A i \in 1 .. 3 : bytes[i] \in Cell
    BY <1>2, <1>4, Address24Type DEF ResolveAbsolute
  <2>2. output' \in Seq(Cell)
    <3>1. CASE idx + 2 < Len(output)
      <4> DEFINE o1 == [output EXCEPT ![idx + 1] = bytes[1]]
                 o2 == [o1 EXCEPT ![idx + 2] = bytes[2]]
                 o3 == [o2 EXCEPT ![idx + 3] = bytes[3]]
      <4>0. output \in Seq(Cell) /\ Len(output) \in Nat
        BY LenProperties DEF TypeOK
      <4>1. o1 \in Seq(Cell) /\ Len(o1) = Len(output)
        BY <2>1, <3>1, <4>0, ExceptSeq
      <4>2. o2 \in Seq(Cell) /\ Len(o2) = Len(output)
        <5> HIDE DEF o1
        <5> QED BY <2>1, <3>1, <4>0, <4>1, ExceptSeq
      <4>3. o3 \in Seq(Cell)
        <5> HIDE DEF o2
        <5> QED BY <2>1, <3>1, <4>0, <4>2, ExceptSeq
      <4>4. output' = o3
        BY <1>4, <3>1 DEF ResolveAbsolute
      <4> QED BY <4>3, <4>4
    <3>2. CASE ~ (idx + 2 < Len(output))
      BY <1>4, <3>2 DEF ResolveAbsolute, TypeOK
    <3> QED BY <3>1, <3>2
  <2> QED BY <1>1, <1>4, <2>2 DEF ResolveAbsolute, TypeOK, Resolving
<1>5. CASE ResolveRelative
  <2> DEFINE idx == OutputIndex(Ref.address)
  <2>1. RelativeOffset \in Int /\ idx \in Nat /\ Ref.line_num \in Nat \ {0}
    <3>1. labels[Ref.label] \in Addr /\ Plus(Ref.address, 3) \in Addr
      BY <1>1, <1>2, <1>5, PlusType, CellValues DEF ResolveRelative, ForwardRef
    <3>2. RelativeOffset \in Int
      BY <3>1, WidthAssumption DEF RelativeOffset, Minus, Signed, Addr
    <3> QED BY <1>1, <1>2, <1>5, <3>2 DEF ResolveRelative, ForwardRef
  <2>2. RelativeOffset % ByteMod \in Cell
    BY <2>1, ByteType DEF Cell
  <2>3. output' \in Seq(Cell)
    <3>1. CASE FitsByte(RelativeOffset) /\ idx < Len(output)
      <4>1. output' = [output EXCEPT ![idx + 1] = RelativeOffset % ByteMod]
        BY <1>5, <3>1 DEF ResolveRelative
      <4>2. output \in Seq(Cell) /\ idx + 1 \in 1 .. Len(output)
        BY <2>1, <3>1, LenProperties DEF TypeOK
      <4> QED BY <2>2, <4>1, <4>2, ExceptSeq
    <3>2. CASE ~ (FitsByte(RelativeOffset) /\ idx < Len(output))
      BY <1>5, <3>2 DEF ResolveRelative, TypeOK
    <3> QED BY <3>1, <3>2
  <2>4. errors' \in Seq(ErrorReport)
    <3>1. CASE FitsByte(RelativeOffset)
      BY <1>5, <3>1 DEF ResolveRelative, TypeOK
    <3>2. CASE ~ FitsByte(RelativeOffset)
      BY <1>5, <2>1, <3>2, ErrorType DEF ResolveRelative
    <3> QED BY <3>1, <3>2
  <2> QED BY <1>1, <1>5, <2>3, <2>4 DEF ResolveRelative, TypeOK, Resolving
<1>6. CASE Finish
  <2>1. \A i \in 1 .. Len(lines) : Refreshed(lines[i]) \in ListingLine
    BY RefreshedType, ElementOfSeq DEF TypeOK
  <2>2. lines' \in Seq(ListingLine)
    BY <1>6, <2>1, IsASeq, LenProperties, SMTT(30) DEF Finish, TypeOK
  <2> QED BY <1>6, <2>2 DEF Finish, TypeOK
<1> QED BY <1>3, <1>4, <1>5, <1>6 DEF SecondPass

\* Every reachable state is well typed.
THEOREM TypeCorrect == Spec => []TypeOK
<1>1. Init => TypeOK
  BY InitType
<1>2. TypeOK /\ [Next]_vars => TypeOK'
  <2> SUFFICES ASSUME TypeOK, [Next]_vars PROVE TypeOK'
    OBVIOUS
  <2>1. ASSUME NEW b \in Bases, AssembleAt(b)
        PROVE  TypeOK'
    <3>1. b \in Addr /\ labels' \in [Labels -> Addr \cup {NoAddr}]
      BY <2>1, SourceAssumption DEF AssembleAt, EmptyTable
    <3>2. word' \in [todo : Seq(Operands), at : Addr, mark : Nat]
      BY <2>1, CellValues DEF AssembleAt, NoWord
    <3> QED BY <2>1, <3>1, <3>2 DEF AssembleAt, TypeOK
  <2>2. CASE New
    <3>1. Init'
      BY <2>2 DEF New, Init, EmptyTable, NoWord
    <3> QED BY <2>2, <3>1, CellValues DEF Init, New, TypeOK, EmptyTable, NoWord
  <2>3. CASE FirstPass
    BY <2>3, FirstPassType
  <2>4. CASE SecondPass
    BY <2>4, SecondPassType
  <2>5. CASE AddressOverflow \/ IndexOverflow \/ OffsetOverflow
    BY <2>5 DEF AddressOverflow, IndexOverflow, OffsetOverflow, TypeOK, code
  <2>6. CASE UNCHANGED vars
    BY <2>6 DEF vars, code, TypeOK
  <2> QED BY <2>1, <2>2, <2>3, <2>4, <2>5, <2>6 DEF Next
<1> QED BY <1>1, <1>2, PTL DEF Spec

-----------------------------------------------------------------------------
(* The location counter and the operands of forward references.  The two   *)
(* properties need each other's context: a .word line in progress has room *)
(* for the operands it has left, and a reference names a line that has     *)
(* been read, so later lines do not change whether its prefix is flat.     *)

WordFits ==
  (pc = "word" /\ Flat) => address + 3 * Len(word.todo) < AddrMod

RefsRead == \A i \in DOMAIN forward_refs : forward_refs[i].line_num <= Len(src)

Slot(r) ==
  FlatUpTo(r.line_num) =>
    /\ r.address >= base_address
    /\ OutputIndex(r.address) + Width(r) <= Len(output)

IInv ==
  /\ TypeOK
  /\ AddressTracksOutput
  /\ SlotsInOutput
  /\ WordFits
  /\ RefsRead

\* SlotsInOutput, one reference at a time.
LEMMA SlotsDef == SlotsInOutput <=> \A i \in DOMAIN forward_refs : Slot(forward_refs[i])
BY DEF SlotsInOutput, Slot

\* A line more leaves the lines before it as they were.
LEMMA ReadKeepsPrefix ==
  ASSUME TypeOK, NEW op, NEW def, NEW refs, NEW n, Read(op, def, refs, n),
         src' \in Seq(SourceLine)
  PROVE  /\ Len(src') = Len(src) + 1
         /\ \A k \in Nat : k <= Len(src) => (FlatUpTo(k)' <=> FlatUpTo(k))
         /\ Flat' => Flat /\ Exact([op |-> op, def |-> def, refs |-> refs, n |-> n,
                                    at |-> address, pos |-> Len(output)])
<1> DEFINE e == [op |-> op, def |-> def, refs |-> refs, n |-> n,
                 at |-> address, pos |-> Len(output)]
<1>1. src' = Append(src, e)
  BY DEF Read
<1>2. src \in Seq(SourceLine) /\ Len(src) \in Nat
  BY LenProperties DEF TypeOK
<1> HIDE DEF e
<1>3. /\ Len(src') = Len(src) + 1
      /\ \A i \in 1 .. Len(src) : src'[i] = src[i]
      /\ src'[Len(src) + 1] = e
  BY <1>1, <1>2
<1>4. \A k \in Nat : k <= Len(src) => (FlatUpTo(k)' <=> FlatUpTo(k))
  BY <1>2, <1>3 DEF FlatUpTo, Exact
<1>5. Flat' => Flat /\ Exact(e)
  <2> SUFFICES ASSUME Flat' PROVE Flat /\ Exact(e)
    OBVIOUS
  <2>1. \A i \in 1 .. Len(src) + 1 : Exact(src'[i])
    BY <1>3 DEF Flat, FlatUpTo, Exact
  <2> QED BY <1>2, <1>3, <2>1 DEF Flat, FlatUpTo
<1> QED BY <1>3, <1>4, <1>5 DEF e

\* The history is as it was, or one line longer.
OneMore ==
  /\ Len(src') >= Len(src)
  /\ \A k \in Nat : k <= Len(src) => (FlatUpTo(k)' <=> FlatUpTo(k))

\* Operands stay inside an output that does not shrink.
LEMMA SlotsKept ==
  ASSUME IInv, OneMore, TypeOK', base_address' = base_address,
         Len(output') >= Len(output), forward_refs' = forward_refs
  PROVE  SlotsInOutput' /\ RefsRead'
<1>1. \A i \in DOMAIN forward_refs :
        forward_refs[i] \in ForwardRef /\ forward_refs[i].line_num <= Len(src)
  BY ElementOfSeq, LenProperties DEF IInv, TypeOK, RefsRead
<1>2. RefsRead'
  <2>1. Len(src) \in Nat /\ Len(src') \in Nat
    BY LenProperties DEF IInv, TypeOK
  <2> QED BY <1>1, <2>1 DEF RefsRead, OneMore, ForwardRef
<1>3. ASSUME NEW i \in DOMAIN forward_refs
      PROVE  Slot(forward_refs[i])'
  <2> DEFINE r == forward_refs[i]
  <2>1. Slot(r)
    BY SlotsDef DEF IInv
  <2>2. FlatUpTo(r.line_num)' <=> FlatUpTo(r.line_num)
    BY <1>1 DEF OneMore, ForwardRef
  <2>3. /\ r'.line_num = r.line_num /\ r'.address = r.address
        /\ Width(r)' = Width(r) /\ OutputIndex(r.address)' = OutputIndex(r.address)
    BY DEF Width, OutputIndex, IInv
  <2>4. OutputIndex(r.address) \in Int /\ Width(r) \in Int
    <3>1. r.address \in Int /\ base_address \in Int /\ AddrMod \in Int
      BY <1>1, WidthAssumption DEF IInv, TypeOK, ForwardRef, Addr
    <3> QED BY <3>1 DEF OutputIndex, Width
  <2>5. Len(output) \in Nat /\ Len(output') \in Nat
    BY LenProperties DEF IInv, TypeOK
  <2> QED BY <2>1, <2>2, <2>3, <2>4, <2>5 DEF Slot
<1>4. SlotsInOutput'
  BY <1>3 DEF SlotsInOutput, Slot
<1> QED BY <1>2, <1>4

\* A reference appended with its operand inside the output keeps all operands inside.
LEMMA SlotAdded ==
  ASSUME IInv, OneMore, TypeOK', base_address' = base_address,
         Len(output') >= Len(output), NEW r \in ForwardRef,
         forward_refs' = Append(forward_refs, r), r.line_num <= Len(src'), Slot(r)'
  PROVE  SlotsInOutput' /\ RefsRead'
<1>1. forward_refs \in Seq(ForwardRef)
  BY DEF IInv, TypeOK
<1>2. /\ DOMAIN forward_refs' = 1 .. Len(forward_refs) + 1
      /\ \A i \in 1 .. Len(forward_refs) : forward_refs'[i] = forward_refs[i]
      /\ forward_refs'[Len(forward_refs) + 1] = r
      /\ Len(forward_refs) \in Nat
  BY <1>1, AppendProperties, LenProperties
<1>3. Len(src) \in Nat /\ Len(src') \in Nat /\ Len(output) \in Nat /\ Len(output') \in Nat
  BY LenProperties DEF IInv, TypeOK
<1>4. ASSUME NEW i \in 1 .. Len(forward_refs)
      PROVE  Slot(forward_refs[i])' /\ forward_refs'[i].line_num <= Len(src')
  <2>0. i \in DOMAIN forward_refs
    BY <1>1, LenProperties
  <2>1. /\ forward_refs[i] \in ForwardRef /\ forward_refs[i].line_num <= Len(src)
        /\ Slot(forward_refs[i]) /\ forward_refs'[i] = forward_refs[i]
    BY <1>1, <1>2, <2>0, ElementOfSeq, SlotsDef DEF IInv, RefsRead
  <2> DEFINE q == forward_refs[i]
  <2>2. FlatUpTo(q.line_num)' <=> FlatUpTo(q.line_num)
    BY <2>1 DEF OneMore, ForwardRef
  <2>3. q.address \in Int /\ base_address \in Int /\ AddrMod \in Int
    <3>1. q.address \in Addr
      BY <2>1 DEF ForwardRef
    <3>2. base_address \in Addr
      BY DEF IInv, TypeOK
    <3> HIDE DEF q
    <3> QED BY <3>1, <3>2, WidthAssumption DEF Addr
  <2>4. OutputIndex(q.address) \in Int /\ Width(q) \in Int
    BY <2>3 DEF OutputIndex, Width
  <2>5. /\ q'.line_num = q.line_num /\ q'.address = q.address
        /\ Width(q)' = Width(q) /\ OutputIndex(q.address)' = OutputIndex(q.address)
    BY <2>1 DEF Width, OutputIndex
  <2>6. Slot(q)'
    BY <1>3, <2>1, <2>2, <2>4, <2>5 DEF Slot
  <2>7. q.line_num \in Nat
    BY <2>1 DEF ForwardRef
  <2> QED BY <1>3, <2>1, <2>6, <2>7 DEF OneMore
<1>5. SlotsInOutput'
  BY <1>2, <1>4 DEF SlotsInOutput, Slot
<1> QED BY <1>2, <1>4, <1>5 DEF RefsRead

\* A line that moves the counter by what it emits.
LEMMA EmitTracks ==
  ASSUME IInv, TypeOK', NEW op, NEW def, NEW refs, NEW n \in Nat, NEW cells \in Seq(Cell),
         Read(op, def, refs, n), op \notin {"comm", "org"}, Len(cells) <= n,
         output' = output \o cells, address' = Plus(address, Len(cells)),
         base_address' = base_address
  PROVE  /\ AddressTracksOutput'
         /\ OneMore
         /\ Len(src') = Len(src) + 1
         /\ Len(output') = Len(output) + Len(cells)
         /\ Len(output') >= Len(output)
         /\ Flat' => /\ address + n < AddrMod
                     /\ address = base_address + Len(output)
                     /\ Flat
<1>1. Len(output') = Len(output) + Len(cells) /\ Len(cells) \in Nat /\ Len(output) \in Nat
  BY ConcatProperties, LenProperties DEF IInv, TypeOK
<1>2. /\ Len(src') = Len(src) + 1 /\ Len(src) \in Nat
      /\ \A k \in Nat : k <= Len(src) => (FlatUpTo(k)' <=> FlatUpTo(k))
      /\ Flat' => Flat /\ Exact([op |-> op, def |-> def, refs |-> refs, n |-> n,
                                 at |-> address, pos |-> Len(output)])
  BY ReadKeepsPrefix, LenProperties DEF IInv, TypeOK
<1>3. OneMore
  BY <1>2 DEF OneMore
<1>4. address \in Int /\ base_address \in Int /\ AddrMod \in Int
  BY WidthAssumption DEF IInv, TypeOK, Addr
<1>5. Flat' => /\ address + n < AddrMod
              /\ address = base_address + Len(output)
              /\ Flat
  BY <1>2 DEF Exact, IInv, AddressTracksOutput
<1>6. AddressTracksOutput'
  <2> SUFFICES ASSUME Flat' PROVE address' = base_address' + Len(output')
    BY DEF AddressTracksOutput
  <2>1. address' = address + Len(cells)
    BY <1>1, <1>4, <1>5 DEF Plus
  <2> QED BY <1>1, <1>4, <1>5, <2>1
<1> QED BY <1>1, <1>2, <1>3, <1>5, <1>6

\* A line that neither moves the counter nor emits.
LEMMA StillTracks ==
  ASSUME IInv, TypeOK', NEW op, NEW def, NEW refs, NEW n, Read(op, def, refs, n),
         UNCHANGED <<output, address, base_address>>
  PROVE  AddressTracksOutput' /\ OneMore /\ Len(output') >= Len(output)
<1>1. /\ Len(src') = Len(src) + 1 /\ Len(src) \in Nat /\ Len(output) \in Nat
      /\ \A k \in Nat : k <= Len(src) => (FlatUpTo(k)' <=> FlatUpTo(k))
      /\ Flat' => Flat
  BY ReadKeepsPrefix, LenProperties DEF IInv, TypeOK
<1> QED BY <1>1 DEF OneMore, AddressTracksOutput, IInv

\* An operand of a .word moves the counter by the three bytes it emits.
LEMMA EmitWordTracks ==
  ASSUME IInv, TypeOK', pc = "word", NEW cells \in Seq(Cell), Len(cells) = 3,
         EmitWord(cells)
  PROVE  /\ AddressTracksOutput' /\ WordFits' /\ OneMore
         /\ Len(output') = Len(output) + 3
         /\ base_address' = base_address /\ src' = src
         /\ Flat => address + 3 < AddrMod
<1>1. Len(output') = Len(output) + 3 /\ Len(output) \in Nat
  <2>1. output' = output \o cells /\ output \in Seq(Cell)
    BY DEF EmitWord, IInv, TypeOK
  <2>2. Len(output') = Len(output) + Len(cells) /\ Len(output) \in Nat
    BY <2>1, ConcatProperties, LenProperties
  <2> QED BY <2>2
<1>2. src' = src /\ base_address' = base_address /\ Len(src) \in Nat
  BY LenProperties DEF EmitWord, IInv, TypeOK
<1>3. OneMore /\ (Flat' <=> Flat)
  BY <1>2 DEF OneMore, Flat, FlatUpTo
<1>4. address \in Int /\ base_address \in Int /\ AddrMod \in Int
  BY WidthAssumption DEF IInv, TypeOK, Addr
<1>5. /\ Len(word.todo) \in Nat \ {0}
      /\ Len(word'.todo) = Len(word.todo) - 1
  <2>1. word.todo \in Seq(Operands) /\ word.todo # <<>>
    BY DEF IInv, TypeOK
  <2>2. word'.todo = Tail(word.todo)
    BY DEF EmitWord, IInv, TypeOK
  <2> QED BY <2>1, <2>2, EmptySeq, HeadTailProperties
<1>6. Flat => /\ address + 3 < AddrMod
             /\ address + 3 * Len(word.todo) < AddrMod
             /\ address = base_address + Len(output)
  BY <1>4, <1>5 DEF IInv, WordFits, AddressTracksOutput
<1>7. Flat => address' = address + 3
  BY <1>4, <1>6 DEF EmitWord, Plus
<1>8. AddressTracksOutput'
  BY <1>1, <1>2, <1>3, <1>4, <1>6, <1>7 DEF AddressTracksOutput
<1>9. WordFits'
  BY <1>3, <1>4, <1>5, <1>6, <1>7 DEF WordFits
<1> QED BY <1>1, <1>2, <1>3, <1>6, <1>8, <1>9

\* The data directives keep the inductive invariant.
LEMMA DataDirectiveInv ==
  ASSUME IInv, TypeOK', NEW op \in {"byte", "zero"}, NEW n \in Addr, NEW c \in Cell,
         Reading, pc' = pc, base_address' = base_address, forward_refs' = forward_refs,
         Read(op, {}, <<>>, n), EmitDirective(Repeat(n, c), Plus(address, n))
  PROVE  IInv'
<1>1. n \in Nat /\ Repeat(n, c) \in Seq(Cell) /\ Len(Repeat(n, c)) = n
  BY RepeatType DEF Addr
<1>2. output' = output \o Repeat(n, c) /\ address' = Plus(address, Len(Repeat(n, c)))
  BY <1>1 DEF EmitDirective
<1>3. AddressTracksOutput' /\ OneMore /\ Len(output') >= Len(output)
  BY <1>1, <1>2, EmitTracks
<1>4. SlotsInOutput' /\ RefsRead'
  BY <1>3, SlotsKept
<1>5. WordFits'
  BY DEF Reading, WordFits
<1> QED BY <1>3, <1>4, <1>5 DEF IInv

\* An instruction without a forward reference keeps it.
LEMMA InstructionInv ==
  ASSUME IInv, TypeOK', NEW op \in {"instruction", "bad", "branch", "la"}, NEW refs,
         NEW n \in Nat, NEW cells \in Seq(Cell), Len(cells) <= n,
         Reading, pc' = pc, base_address' = base_address, forward_refs' = forward_refs,
         Read(op, {}, refs, n), EmitInstruction(cells)
  PROVE  IInv'
<1>1. output' = output \o cells /\ address' = Plus(address, Len(cells))
  BY DEF EmitInstruction
<1>2. AddressTracksOutput' /\ OneMore /\ Len(output') >= Len(output)
  BY <1>1, EmitTracks
<1>3. SlotsInOutput' /\ RefsRead'
  BY <1>2, SlotsKept
<1>4. WordFits'
  BY DEF Reading, WordFits
<1> QED BY <1>2, <1>3, <1>4 DEF IInv

\* A branch or a la to a label not yet defined: the operand the reference
\* names follows the opcode.
LEMMA ForwardInv ==
  ASSUME IInv, TypeOK', NEW op \in {"branch", "la"}, NEW l \in Labels, NEW n \in Nat,
         NEW type \in {"Absolute24", "Relative8"}, NEW cells \in Seq(Cell), Len(cells) = n,
         n = IF type = "Absolute24" THEN 4 ELSE 2,
         Reading, pc' = pc, base_address' = base_address,
         forward_refs' = Append(forward_refs, Reference(1, l, type)),
         Read(op, {}, <<l>>, n), EmitInstruction(cells)
  PROVE  IInv'
<1>1. output' = output \o cells /\ address' = Plus(address, Len(cells))
  BY DEF EmitInstruction
<1>2. /\ AddressTracksOutput' /\ OneMore /\ Len(src') = Len(src) + 1
      /\ Len(output') = Len(output) + n /\ Len(output') >= Len(output)
      /\ Flat' => address + n < AddrMod /\ address = base_address + Len(output)
  <2>1. op \notin {"comm", "org"} /\ Len(cells) <= n
    OBVIOUS
  <2> QED BY <1>1, <2>1, EmitTracks
<1>3. PICK r : r = Reference(1, l, type)
  OBVIOUS
<1>4. r \in ForwardRef /\ r.line_num = Len(src) + 1
  <2>1. r \in ForwardRef
    BY <1>3, ReferenceType, CellValues DEF IInv
  <2> QED BY <1>3, <2>1 DEF Reference, ThisLine
<1>5. address \in Addr /\ base_address \in Addr /\ Len(output) \in Nat /\ AddrMod \in Nat
  BY LenProperties, WidthAssumption DEF IInv, TypeOK
<1>6. Slot(r)'
  <2> SUFFICES ASSUME FlatUpTo(r.line_num)'
               PROVE  /\ r.address >= base_address
                      /\ OutputIndex(r.address) + Width(r) <= Len(output')
    BY DEF Slot, OutputIndex, Width
  <2>1. Flat'
    BY <1>2, <1>4 DEF Flat
  <2>2. r.address = address + 1
    BY <1>2, <1>3, <1>5, <2>1 DEF Reference, Plus, Addr
  <2>3. r.ref_type = type /\ Width(r) = n - 1
    BY <1>3 DEF Reference, Width
  <2>4. OutputIndex(r.address) = Len(output) + 1
    BY <1>2, <1>5, <2>1, <2>2 DEF OutputIndex, Addr
  <2> QED BY <1>2, <1>5, <2>1, <2>2, <2>3, <2>4 DEF Addr
<1>7. forward_refs' = Append(forward_refs, r)
  BY <1>3
<1>8. r.line_num <= Len(src')
  BY <1>2, <1>4, LenProperties DEF IInv, TypeOK
<1>9. SlotsInOutput' /\ RefsRead'
  BY <1>2, <1>4, <1>6, <1>7, <1>8, SlotAdded
<1>10. WordFits'
  BY DEF Reading, WordFits
<1> QED BY <1>2, <1>9, <1>10 DEF IInv

\* A line that leaves the counter, the output and the references alone.
LEMMA StillInv ==
  ASSUME IInv, TypeOK', NEW op, NEW def, NEW refs, NEW n, Reading, pc' = pc,
         Read(op, def, refs, n), UNCHANGED <<output, address, base_address, forward_refs>>
  PROVE  IInv'
<1>1. AddressTracksOutput' /\ OneMore /\ Len(output') >= Len(output)
  BY StillTracks
<1>2. SlotsInOutput' /\ RefsRead'
  BY <1>1, SlotsKept
<1>3. WordFits'
  BY DEF Reading, WordFits
<1> QED BY <1>1, <1>2, <1>3 DEF IInv

\* .org keeps it, whether it pads, stays or goes back.
LEMMA OrgInv ==
  ASSUME IInv, TypeOK', NEW target \in OrgTargets, Org(target)
  PROVE  IInv'
<1> DEFINE idx  == IF target >= base_address THEN target - base_address ELSE target
           fill == Repeat(idx - Len(output), 0)
<1>1. /\ target \in Addr /\ base_address \in Addr /\ AddrMod \in Nat
      /\ output \in Seq(Cell) /\ Len(output) \in Nat /\ src \in Seq(SourceLine)
      /\ src' \in Seq(SourceLine)
  BY SourceAssumption, WidthAssumption, LenProperties DEF IInv, TypeOK
<1>2. idx - Len(output) \in Int
  BY <1>1 DEF Addr
<1>3. /\ fill \in Seq(Cell)
      /\ Len(fill) = IF idx - Len(output) > 0 THEN idx - Len(output) ELSE 0
  BY <1>2, RepeatType, CellValues
<1>4. /\ output' = output \o fill /\ address' = target
      /\ base_address' = base_address /\ forward_refs' = forward_refs
      /\ Read("org", {}, <<>>, target) /\ pc = "pass1" /\ pc' = pc
  BY DEF Org, EmitDirective, Reading
<1>5. /\ OneMore
      /\ Flat' => Flat /\ target >= address
  <2>1. /\ Len(src') = Len(src) + 1
        /\ \A k \in Nat : k <= Len(src) => (FlatUpTo(k)' <=> FlatUpTo(k))
        /\ Flat' => Flat /\ Exact([op |-> "org", def |-> {}, refs |-> <<>>, n |-> target,
                                   at |-> address, pos |-> Len(output)])
    BY <1>1, <1>4, ReadKeepsPrefix DEF IInv
  <2> QED BY <1>1, <2>1, LenProperties DEF OneMore, Exact
<1>6. Len(output') = Len(output) + Len(fill)
  <2> HIDE DEF fill
  <2> QED BY <1>1, <1>3, <1>4, ConcatProperties
<1>7. Len(output') >= Len(output)
  BY <1>1, <1>2, <1>3, <1>6
<1>8. AddressTracksOutput'
  <2> SUFFICES ASSUME Flat' PROVE address' = base_address' + Len(output')
    BY DEF AddressTracksOutput
  <2>1. target >= base_address + Len(output)
    BY <1>5 DEF IInv, AddressTracksOutput
  <2>2. idx = target - base_address /\ idx >= Len(output)
    BY <1>1, <2>1 DEF Addr
  <2> HIDE DEF idx, fill
  <2>3. target \in Int /\ base_address \in Int /\ Len(output) \in Int
    BY <1>1 DEF Addr
  <2>4. Len(output') = target - base_address
    BY <1>3, <1>6, <2>2, <2>3
  <2> QED BY <1>4, <2>3, <2>4
<1>9. SlotsInOutput' /\ RefsRead'
  BY <1>4, <1>5, <1>7, SlotsKept
<1>10. WordFits'
  BY <1>4 DEF WordFits
<1> QED BY <1>8, <1>9, <1>10 DEF IInv

\* .comm keeps it.
LEMMA CommInv ==
  ASSUME IInv, TypeOK', NEW l \in Labels, NEW n \in CommSizes, Comm(l, n)
  PROVE  IInv'
<1>1. /\ address \in Addr /\ AddrMod \in Nat /\ n \in Nat /\ src' \in Seq(SourceLine)
      /\ Len(src) \in Nat /\ Len(output) \in Nat
  BY SourceAssumption, WidthAssumption, LenProperties DEF IInv, TypeOK, Addr
<1>2. /\ Len(src') = Len(src) + 1
      /\ \A k \in Nat : k <= Len(src) => (FlatUpTo(k)' <=> FlatUpTo(k))
      /\ Flat' => Flat /\ Exact([op |-> "comm", def |-> {l}, refs |-> <<>>, n |-> n,
                                 at |-> address, pos |-> Len(output)])
  BY <1>1, ReadKeepsPrefix DEF IInv, Comm
<1>3. OneMore
  BY <1>1, <1>2 DEF OneMore
<1>4. Flat' => address' = address
  BY <1>1, <1>2 DEF Exact, Comm, Plus, Addr
<1>5. AddressTracksOutput'
  BY <1>2, <1>4 DEF Comm, IInv, AddressTracksOutput
<1>6. SlotsInOutput' /\ RefsRead'
  BY <1>1, <1>3, SlotsKept DEF Comm
<1>7. WordFits'
  BY DEF Comm, Reading, WordFits
<1> QED BY <1>5, <1>6, <1>7 DEF IInv

\* Starting a .word keeps it: the counter leaves room for each operand.
LEMMA WordLineInv ==
  ASSUME IInv, TypeOK', NEW ops \in WordLines, WordLine(ops)
  PROVE  IInv'
<1>1. Read("word", {}, ops, 3 * Len(ops)) /\ UNCHANGED code
  BY DEF WordLine
<1>2. AddressTracksOutput' /\ OneMore /\ Len(output') >= Len(output)
  BY <1>1, StillTracks DEF code
<1>3. SlotsInOutput' /\ RefsRead'
  BY <1>1, <1>2, SlotsKept DEF code
<1>4. src' \in Seq(SourceLine)
  BY DEF TypeOK
<1>5. Flat' => Exact([op |-> "word", def |-> {}, refs |-> ops, n |-> 3 * Len(ops),
                      at |-> address, pos |-> Len(output)])
  BY <1>1, <1>4, ReadKeepsPrefix DEF IInv
<1>6. word'.todo = ops /\ address' = address
  BY DEF WordLine, code
<1>7. WordFits'
  BY <1>5, <1>6 DEF Exact, WordFits
<1> QED BY <1>2, <1>3, <1>7 DEF IInv

\* Each operand of a .word keeps it, named label or number.
LEMMA WordStepInv ==
  ASSUME IInv, TypeOK', WordNumber \/ WordKnown \/ WordForward
  PROVE  IInv'
<1>1. CASE WordNumber \/ WordKnown
  <2>1. PICK cells \in Seq(Cell) : Len(cells) = 3 /\ EmitWord(cells)
    <3>1. CASE WordNumber
      <4>1. Repeat(3, Opaque) \in Seq(Cell) /\ Len(Repeat(3, Opaque)) = 3
        <5>1. 3 \in Int /\ 3 > 0 /\ Opaque \in Cell
          BY CellValues
        <5> QED BY <5>1, RepeatType
      <4> QED BY <3>1, <4>1 DEF WordNumber
    <3>2. CASE WordKnown
      <4>1. labels[Head(word.todo)] \in Addr
        BY <3>2, HeadTailProperties, SMTT(30) DEF WordKnown, IInv, TypeOK, Numeric, Operands, Defined
      <4> QED BY <3>2, <4>1, Address24Type DEF WordKnown
    <3> QED BY <1>1, <3>1, <3>2
  <2>2. pc = "word" /\ forward_refs' = forward_refs
    BY <1>1 DEF WordNumber, WordKnown
  <2>3. /\ AddressTracksOutput' /\ WordFits' /\ OneMore
        /\ Len(output') = Len(output) + 3 /\ base_address' = base_address
    BY <2>1, <2>2, EmitWordTracks
  <2>4. Len(output') >= Len(output)
    BY <2>3, LenProperties DEF IInv, TypeOK
  <2> QED BY <2>2, <2>3, <2>4, SlotsKept DEF IInv
<1>2. CASE WordForward
  <2>1. PICK r : r = [address |-> address, label |-> Head(word.todo),
                      ref_type |-> "Absolute24", line_num |-> Len(src)]
    OBVIOUS
  <2>2. forward_refs' = Append(forward_refs, r) /\ EmitWord(Repeat(3, 0)) /\ pc = "word"
    BY <1>2, <2>1 DEF WordForward
  <2>3. Repeat(3, 0) \in Seq(Cell) /\ Len(Repeat(3, 0)) = 3
    <3>1. 3 \in Int /\ 3 > 0 /\ 0 \in Cell
      BY CellValues
    <3> QED BY <3>1, RepeatType
  <2>4. /\ AddressTracksOutput' /\ WordFits' /\ OneMore
        /\ Len(output') = Len(output) + 3 /\ base_address' = base_address /\ src' = src
        /\ Flat => address + 3 < AddrMod
    BY <2>2, <2>3, EmitWordTracks
  <2>5. /\ Len(output) \in Nat /\ Len(src) \in Nat \ {0}
        /\ address \in Addr /\ base_address \in Addr
    BY <2>2, LenProperties, EmptySeq DEF IInv, TypeOK
  <2>6. r \in ForwardRef /\ r.line_num = Len(src)
    <3>1. Head(word.todo) \in Labels
      BY <1>2, HeadTailProperties, SMTT(30) DEF WordForward, IInv, TypeOK, Numeric, Operands
    <3> QED BY <2>1, <2>5, <3>1 DEF ForwardRef
  <2>7. Slot(r)'
    <3> SUFFICES ASSUME FlatUpTo(r.line_num)'
                 PROVE  /\ r.address >= base_address
                        /\ OutputIndex(r.address) + Width(r) <= Len(output')
      BY <2>4 DEF Slot, OutputIndex, Width
    <3>1. address = base_address + Len(output)
      <4>1. FlatUpTo(Len(src))
        BY <2>4, <2>5, <2>6 DEF OneMore
      <4> QED BY <4>1 DEF Flat, IInv, AddressTracksOutput
    <3>2. r.address = address /\ Width(r) = 3
      BY <2>1 DEF Width
    <3> QED BY <2>4, <2>5, <3>1, <3>2, WidthAssumption DEF OutputIndex, Addr
  <2>8. Len(output') >= Len(output) /\ r.line_num <= Len(src')
    BY <2>4, <2>5, <2>6
  <2> QED BY <2>2, <2>4, <2>6, <2>7, <2>8, SlotAdded DEF IInv
<1> QED BY <1>1, <1>2

\* Every instruction encoder keeps it.
LEMMA EncodeInv ==
  ASSUME IInv, TypeOK', Encode
  PROVE  IInv'
<1>1. ASSUME NEW n \in InstSizes, Instruction(n)
      PROVE  IInv'
  <2>1. n \in Nat /\ Repeat(n, Opaque) \in Seq(Cell) /\ Len(Repeat(n, Opaque)) = n
    BY SourceAssumption, RepeatType, CellValues DEF Addr
  <2> QED BY <1>1, <2>1, InstructionInv DEF Instruction
<1>2. CASE BadInstruction
  <2>1. <<>> \in Seq(Cell) /\ Len(<<>>) <= 0
    OBVIOUS
  <2> QED BY <1>2, <2>1, InstructionInv DEF BadInstruction
<1>3. ASSUME NEW l \in Labels, BranchKnown(l)
      PROVE  IInv'
  <2> DEFINE offset == Displacement(labels[l], address)
  <2>1. PICK cells \in Seq(Cell) : Len(cells) <= 2 /\ EmitInstruction(cells)
    <3>1. CASE FitsByte(offset)
      <4>1. offset \in Int
        <5>1. labels[l] \in Addr /\ Plus(address, 4) \in Addr
          BY <1>3, PlusType, CellValues DEF BranchKnown, Defined, IInv, TypeOK
        <5> QED BY <5>1, WidthAssumption DEF Displacement, Minus, Signed, Addr
      <4>2. offset % ByteMod \in Cell
        BY <4>1, ByteType DEF Cell
      <4>3. <<Opaque, offset % ByteMod>> \in Seq(Cell)
            /\ Len(<<Opaque, offset % ByteMod>>) <= 2
        BY <4>2, CellValues
      <4> QED BY <1>3, <3>1, <4>3 DEF BranchKnown
    <3>2. CASE ~ FitsByte(offset)
      <4>1. EmitInstruction(<<>>) /\ <<>> \in Seq(Cell) /\ Len(<<>>) <= 2
        BY <1>3, <3>2 DEF BranchKnown
      <4> QED BY <4>1
    <3> QED BY <3>1, <3>2
  <2> QED BY <1>3, <2>1, InstructionInv DEF BranchKnown
<1>4. ASSUME NEW l \in Labels, BranchForward(l)
      PROVE  IInv'
  <2>1. <<Opaque, 0>> \in Seq(Cell) /\ Len(<<Opaque, 0>>) = 2
    BY CellValues
  <2> QED BY <1>4, <2>1, ForwardInv DEF BranchForward
<1>5. ASSUME NEW l \in Labels, LaKnown(l)
      PROVE  IInv'
  <2>1. Address24(labels[l]) \in Seq(Cell) /\ Len(Address24(labels[l])) = 3
    BY <1>5, Address24Type DEF LaKnown, Defined, IInv, TypeOK
  <2>2. PICK cells : cells = <<Opaque>> \o Address24(labels[l])
    OBVIOUS
  <2>3. cells \in Seq(Cell) /\ Len(cells) <= 4
    BY <2>1, <2>2, LaCells
  <2> QED BY <1>5, <2>2, <2>3, InstructionInv DEF LaKnown
<1>6. ASSUME NEW l \in Labels, LaForward(l)
      PROVE  IInv'
  <2>1. Repeat(3, 0) \in Seq(Cell) /\ Len(Repeat(3, 0)) = 3
    <3>1. 3 \in Int /\ 3 > 0 /\ 0 \in Cell
      BY CellValues
    <3> QED BY <3>1, RepeatType
  <2>2. PICK cells : cells = <<Opaque>> \o Repeat(3, 0)
    OBVIOUS
  <2>3. cells \in Seq(Cell) /\ Len(cells) = 4
    BY <2>1, <2>2, LaCells
  <2> QED BY <1>6, <2>2, <2>3, ForwardInv DEF LaForward
<1>7. ASSUME NEW x \in Operands, BranchNumber(x)
      PROVE  IInv'
  <2>1. Repeat(2, Opaque) \in Seq(Cell) /\ Len(Repeat(2, Opaque)) <= 2
    BY RepeatType, CellValues
  <2> QED BY <1>7, <2>1, InstructionInv DEF BranchNumber
<1>8. ASSUME NEW x \in Operands, LaNumber(x)
      PROVE  IInv'
  <2>1. Repeat(4, Opaque) \in Seq(Cell) /\ Len(Repeat(4, Opaque)) <= 4
    BY RepeatType, CellValues
  <2> QED BY <1>8, <2>1, InstructionInv DEF LaNumber
<1> QED BY <1>1, <1>2, <1>3, <1>4, <1>5, <1>6, <1>7, <1>8 DEF Encode

\* Every line of the first pass keeps it.
LEMMA FirstPassInv ==
  ASSUME IInv, TypeOK', FirstPass
  PROVE  IInv'
<1>1. CASE Skip
  BY <1>1, StillInv DEF Skip, code
<1>2. ASSUME NEW l \in Labels, LabelLine(l) \/ LabelNotAlone(l)
      PROVE  IInv'
  BY <1>2, StillInv DEF LabelLine, LabelNotAlone
<1>3. CASE EmptyLabel
  BY <1>3, StillInv DEF EmptyLabel
<1>4. CASE Directive
  <2>1. ASSUME NEW n \in ByteCounts, ByteData(n)
        PROVE  IInv'
    BY <2>1, SourceAssumption, CellValues, DataDirectiveInv DEF ByteData
  <2>2. ASSUME NEW n \in ZeroSizes, Zero(n)
        PROVE  IInv'
    BY <2>2, SourceAssumption, CellValues, DataDirectiveInv DEF Zero
  <2> QED BY <1>4, <2>1, <2>2, OrgInv, CommInv, WordLineInv, WordStepInv DEF Directive
<1>5. CASE Encode
  BY <1>5, EncodeInv
<1>6. CASE EndOfSource
  BY <1>6 DEF EndOfSource, code, IInv, AddressTracksOutput, Flat, FlatUpTo, SlotsInOutput,
              OutputIndex, WordFits, RefsRead
<1> QED BY <1>1, <1>2, <1>3, <1>4, <1>5, <1>6 DEF FirstPass

\* The second pass changes bytes, never how many there are.
LEMMA SecondPassKeeps ==
  ASSUME TypeOK, SecondPass
  PROVE  /\ Len(output') = Len(output)
         /\ UNCHANGED <<address, base_address, forward_refs, src>>
         /\ pc' # "word"
<1>1. Len(output') = Len(output)
  <2>1. output \in Seq(Cell) /\ DOMAIN output' = DOMAIN output
    BY DEF TypeOK, SecondPass, ResolveUndefined, ResolveAbsolute, ResolveRelative, Finish
  <2>2. output' \in Seq(Cell)
    BY SecondPassType DEF TypeOK
  <2> QED BY <2>1, <2>2, LenProperties
<1> QED BY <1>1 DEF SecondPass, ResolveUndefined, ResolveAbsolute, ResolveRelative, Finish,
                    Resolving

\* Every step of the second pass keeps it.
LEMMA SecondPassInv ==
  ASSUME IInv, TypeOK', SecondPass
  PROVE  IInv'
<1>1. /\ Len(output') = Len(output) /\ pc' # "word"
      /\ UNCHANGED <<address, base_address, forward_refs, src>>
  BY SecondPassKeeps DEF IInv
<1> QED BY <1>1 DEF IInv, AddressTracksOutput, Flat, FlatUpTo, SlotsInOutput, OutputIndex,
                    WordFits, RefsRead

\* The inductive invariant holds initially.
LEMMA InitInv == ASSUME Init PROVE IInv
<1>1. TypeOK /\ src = <<>> /\ forward_refs = <<>> /\ output = <<>> /\ pc = "idle"
      /\ address = base_address /\ base_address = 0
  BY InitType DEF Init
<1> QED BY <1>1 DEF IInv, AddressTracksOutput, SlotsInOutput, WordFits, RefsRead

\* The inductive invariant holds in every reachable state.
LEMMA Invariance == Spec => []IInv
<1>1. Init => IInv
  BY InitInv
<1>2. IInv /\ TypeOK' /\ [Next]_vars => IInv'
  <2> SUFFICES ASSUME IInv, TypeOK', [Next]_vars PROVE IInv'
    OBVIOUS
  <2>1. ASSUME NEW b \in Bases, AssembleAt(b)
        PROVE  IInv'
    <3>1. /\ src' = <<>> /\ forward_refs' = <<>> /\ output' = <<>> /\ pc' = "pass1"
          /\ address' = base_address' /\ base_address' \in Addr
      BY <2>1, SourceAssumption DEF AssembleAt
    <3>2. AddressTracksOutput'
      <4>1. Len(output') = 0 /\ address' = b /\ base_address' = b
        BY <2>1, <3>1 DEF AssembleAt
      <4>2. b \in Int
        BY SourceAssumption DEF Addr
      <4>3. b = b + 0
        BY <4>2
      <4> QED BY <4>1, <4>3 DEF AddressTracksOutput
    <3>3. SlotsInOutput' /\ RefsRead' /\ WordFits'
      BY <3>1 DEF SlotsInOutput, WordFits, RefsRead
    <3> QED BY <3>2, <3>3 DEF IInv
  <2>2. CASE New
    BY <2>2 DEF New, IInv, AddressTracksOutput, SlotsInOutput, WordFits, RefsRead
  <2>3. CASE FirstPass
    BY <2>3, FirstPassInv
  <2>4. CASE SecondPass
    BY <2>4, SecondPassInv
  <2>5. CASE AddressOverflow \/ IndexOverflow \/ OffsetOverflow \/ UNCHANGED vars
    <3>1. /\ pc' \in {"panicked", pc}
          /\ UNCHANGED <<address, base_address, forward_refs, output, word, src>>
      BY <2>5 DEF AddressOverflow, IndexOverflow, OffsetOverflow, vars, code
    <3>2. Flat' <=> Flat
      BY <3>1 DEF Flat, FlatUpTo
    <3>3. AddressTracksOutput' /\ WordFits'
      BY <3>1, <3>2 DEF IInv, AddressTracksOutput, WordFits
    <3>4. SlotsInOutput' /\ RefsRead'
      BY <3>1 DEF IInv, FlatUpTo, SlotsInOutput, OutputIndex, RefsRead
    <3> QED BY <3>3, <3>4 DEF IInv
  <2> QED BY <2>1, <2>2, <2>3, <2>4, <2>5 DEF Next
<1> QED BY <1>1, <1>2, TypeCorrect, PTL DEF Spec

\* In a flat source `address` is always base_address plus the bytes emitted,
\* whatever the lines, the bases and the widths are.
THEOREM AddressCorrect == Spec => []AddressTracksOutput
<1>1. IInv => AddressTracksOutput
  BY DEF IInv
<1> QED BY <1>1, Invariance, PTL

\* No forward reference on a line the source is flat up to is ever skipped
\* for lying outside the output: its operand is inside, in both passes.
THEOREM SlotsCorrect == Spec => []SlotsInOutput
<1>1. IInv => SlotsInOutput
  BY DEF IInv
<1> QED BY <1>1, Invariance, PTL

-----------------------------------------------------------------------------
(* THE VERDICT: an error is reported exactly when a line deserves one.     *)
(*                                                                         *)
(* Clean judges a line by the whole source; the code judges a part of it   *)
(* when it reads the line and the rest when it resolves the references.    *)
(* The invariant joins the two.  The symbol table holds the latest         *)
(* definition of each label so far (TableOK).  A reference is recorded     *)
(* for every operand that names a label with no definition above it, and   *)
(* for no other (RefsComplete, RefsRight).  There are no errors exactly if *)
(* each line read passes what can be judged of it at once (AtOnce) and     *)
(* each reference taken so far resolves (VerdictOK).                       *)

Active == pc \in {"pass1", "word", "resolve"}

IsLatest(j, S) == j \in S /\ \A i \in S : i <= j

TableOK ==
  \A l \in Labels :
    \/ labels[l] = NoAddr /\ DefinedBy(l) = {}
    \/ \E j \in DefinedBy(l) : IsLatest(j, DefinedBy(l)) /\ labels[l] = src[j].at

Above(i, l) == {j \in DefinedBy(l) : j < i}

AboveOK ==
  \A i \in DOMAIN src : \A l \in Labels :
    Above(i, l) = {} \/ \E j \in Above(i, l) : IsLatest(j, Above(i, l))

\* What is known of line i when it is read.
AtOnce(i) ==
  /\ src[i].op \notin {"labelNotAlone", "bad"}
  /\ \A l \in References(i) :
       (src[i].op = "branch" /\ Above(i, l) # {}) =>
         FitsByte(Displacement(src[Latest(Above(i, l))].at, src[i].at))

\* What is known of a reference when it is resolved.
Resolves(r) ==
  /\ Defined(r.label)
  /\ r.ref_type = "Relative8" =>
       FitsByte(Minus(labels[r.label], Plus(r.address, 3)))

\* Operand m of line i names a label by name, with no definition above.
Pending(i, m) ==
  LET l == src[i].refs[m]
  IN  Symbolic(i, l) /\ Above(i, l) = {}

\* Operand m of line i is one the .word in progress has still to emit.
ToCome(i, m) ==
  pc = "word" /\ i = Len(src) /\ m > Len(src[i].refs) - Len(word.todo)

RefsComplete ==
  \A i \in DOMAIN src : \A m \in DOMAIN src[i].refs :
    (Pending(i, m) /\ ~ ToCome(i, m)) =>
      \E k \in DOMAIN forward_refs :
        forward_refs[k].line_num = i /\ forward_refs[k].label = src[i].refs[m]

Right(r) ==
  /\ r.line_num \in DOMAIN src
  /\ r.label \in References(r.line_num)
  /\ Above(r.line_num, r.label) = {}
  /\ r.ref_type = "Relative8" <=> src[r.line_num].op = "branch"
  /\ r.ref_type = "Relative8" => r.address = Plus(src[r.line_num].at, 1)

RefsRight == \A k \in DOMAIN forward_refs : Right(forward_refs[k])

WordOK ==
  pc = "word" =>
    LET e == src[Len(src)]
    IN  /\ e.op = "word" /\ e.def = {}
        /\ Len(word.todo) <= Len(e.refs)
        /\ \A m \in 1 .. Len(word.todo) :
             word.todo[m] = e.refs[Len(e.refs) - Len(word.todo) + m]

VerdictOK ==
  errors = <<>> <=>
    /\ \A i \in DOMAIN src : AtOnce(i)
    /\ \A k \in 1 .. next - 1 : Resolves(forward_refs[k])

Judged ==
  /\ TableOK /\ AboveOK /\ RefsComplete /\ RefsRight /\ WordOK /\ VerdictOK
  /\ next <= Len(forward_refs) + 1
  /\ pc # "resolve" => next = 1

EInv == TypeOK /\ ErrorsExact /\ (Active => Judged)

-----------------------------------------------------------------------------
(* The symbol table and the definitions.                                   *)

\* A set of lines has one latest at most.
LEMMA LatestIs ==
  ASSUME NEW S, S \subseteq Int, NEW j, IsLatest(j, S)
  PROVE  Latest(S) = j
<1>1. \A i \in S : IsLatest(i, S) => i = j
  BY DEF IsLatest
<1> QED BY <1>1 DEF Latest, IsLatest

\* The shape of the history.
LEMMA SrcShape ==
  ASSUME TypeOK
  PROVE  /\ Len(src) \in Nat /\ DOMAIN src = 1 .. Len(src)
         /\ \A i \in DOMAIN src :
              /\ src[i] \in SourceLine
              /\ src[i].at \in Addr /\ src[i].refs \in Seq(Operands)
              /\ DOMAIN src[i].refs = 1 .. Len(src[i].refs) /\ Len(src[i].refs) \in Nat
         /\ \A l : DefinedBy(l) \subseteq DOMAIN src /\ DefinedBy(l) \subseteq Int
<1>1. src \in Seq(SourceLine) /\ Len(src) \in Nat /\ DOMAIN src = 1 .. Len(src)
  BY LenProperties DEF TypeOK
<1>2. \A i \in DOMAIN src : src[i] \in SourceLine
  BY <1>1, ElementOfSeq
<1>3. \A i \in DOMAIN src :
        /\ src[i].at \in Addr /\ src[i].refs \in Seq(Operands)
        /\ DOMAIN src[i].refs = 1 .. Len(src[i].refs) /\ Len(src[i].refs) \in Nat
  BY <1>2, LenProperties DEF SourceLine
<1> QED BY <1>1, <1>2, <1>3 DEF DefinedBy

\* A label is in the table exactly if it has been defined, and stands for
\* its latest definition.
LEMMA TableMeans ==
  ASSUME TypeOK, TableOK, NEW l \in Labels
  PROVE  /\ Defined(l) <=> DefinedBy(l) # {}
         /\ Defined(l) => labels[l] = src[Latest(DefinedBy(l))].at
<1>1. CASE labels[l] = NoAddr /\ DefinedBy(l) = {}
  BY <1>1 DEF Defined
<1>2. ASSUME NEW j \in DefinedBy(l), IsLatest(j, DefinedBy(l)), labels[l] = src[j].at
      PROVE  Defined(l) /\ DefinedBy(l) # {} /\ labels[l] = src[Latest(DefinedBy(l))].at
  <2>1. src[j].at \in Addr /\ Latest(DefinedBy(l)) = j
    BY <1>2, SrcShape, LatestIs
  <2> QED BY <1>2, <2>1, SymbolsAssumption DEF Defined
<1> QED BY <1>1, <1>2 DEF TableOK

-----------------------------------------------------------------------------
(* Reading a line.                                                         *)

Entry(op, def, refs, n) ==
  [op |-> op, def |-> def, refs |-> refs, n |-> n, at |-> address, pos |-> Len(output)]

\* What a line more leaves as it was, and what is true of the line itself.
LEMMA OldLines ==
  ASSUME TypeOK, TypeOK', NEW op, NEW def, NEW refs, NEW n, Read(op, def, refs, n)
  PROVE  /\ Len(src') = Len(src) + 1 /\ DOMAIN src' = 1 .. Len(src) + 1
         /\ \A i \in 1 .. Len(src) : src'[i] = src[i]
         /\ src'[Len(src) + 1] = Entry(op, def, refs, n)
         /\ \A l : DefinedBy(l)' = DefinedBy(l) \cup (IF l \in def THEN {Len(src) + 1} ELSE {})
         /\ \A i \in 1 .. Len(src) : \A l : Above(i, l)' = Above(i, l)
         /\ \A l, k : k = Len(src) + 1 => Above(k, l)' = DefinedBy(l)
<1>1. Len(src) \in Nat /\ DOMAIN src = 1 .. Len(src) /\ src \in Seq(SourceLine)
  BY SrcShape DEF TypeOK
<1>2. PICK e : e = Entry(op, def, refs, n)
  OBVIOUS
<1>3. src' = Append(src, e)
  BY <1>2 DEF Read, Entry
<1>4. /\ Len(src') = Len(src) + 1 /\ DOMAIN src' = 1 .. Len(src) + 1
      /\ \A i \in 1 .. Len(src) : src'[i] = src[i]
      /\ src'[Len(src) + 1] = e
  BY <1>1, <1>3, AppendProperties, LenProperties
<1>5. e.def = def
  BY <1>2 DEF Entry
<1>6. ASSUME NEW l
      PROVE  DefinedBy(l)' = DefinedBy(l) \cup (IF l \in def THEN {Len(src) + 1} ELSE {})
  BY <1>1, <1>4, <1>5 DEF DefinedBy
<1>7. \A i \in 1 .. Len(src) : \A l : Above(i, l)' = Above(i, l)
  BY <1>1, <1>6 DEF Above
<1>8. \A l : \A i \in DefinedBy(l) : i \in 1 .. Len(src)
  BY <1>1 DEF DefinedBy
<1>9. ASSUME NEW l PROVE {j \in DefinedBy(l)' : j < Len(src) + 1} = DefinedBy(l)
  BY <1>1, <1>6, <1>8
<1> QED BY <1>2, <1>4, <1>6, <1>7, <1>9 DEF Above

\* Lines read before keep what they refer to and how they are judged.
LEMMA OldJudged ==
  ASSUME TypeOK, TypeOK', AboveOK, NEW op, NEW def, NEW refs, NEW n, Read(op, def, refs, n),
         NEW i \in 1 .. Len(src)
  PROVE  /\ References(i)' = References(i)
         /\ AtOnce(i)' <=> AtOnce(i)
         /\ \A m : Pending(i, m)' <=> Pending(i, m)
<1>1. /\ Len(src') = Len(src) + 1 /\ i \in DOMAIN src /\ i \in DOMAIN src'
      /\ src'[i] = src[i] /\ \A l : Above(i, l)' = Above(i, l)
      /\ \A l : Above(i, l) \subseteq 1 .. Len(src) /\ Above(i, l) \subseteq Int
      /\ \A j \in 1 .. Len(src) : src'[j] = src[j]
  BY OldLines, SrcShape DEF Above
<1>2. ASSUME NEW l PROVE Symbolic(i, l)' <=> Symbolic(i, l)
  <2>1. Symbolic(i, l) <=> l \in Labels /\ (Numeric(l) => src[i].op = "branch" /\ Above(i, l) # {})
    BY DEF Symbolic, Above
  <2>2. Symbolic(i, l)' <=> l \in Labels /\ (Numeric(l) => src'[i].op = "branch" /\ Above(i, l)' # {})
    BY DEF Symbolic, Above, Numeric
  <2> QED BY <1>1, <2>1, <2>2
<1>3. References(i)' = References(i)
  BY <1>1, <1>2 DEF References
<1>4. ASSUME NEW l \in Labels, Above(i, l) # {}
      PROVE  src'[Latest(Above(i, l)')].at = src[Latest(Above(i, l))].at
  <2>1. PICK j \in Above(i, l) : IsLatest(j, Above(i, l))
    BY <1>1, <1>4 DEF AboveOK
  <2>2. Latest(Above(i, l)) = j /\ Above(i, l)' = Above(i, l) /\ j \in 1 .. Len(src)
    BY <1>1, <2>1, LatestIs
  <2>3. src'[j] = src[j]
    BY <1>1, <2>2
  <2> QED BY <2>2, <2>3
<1>5. \A l \in References(i) : l \in Labels
  BY DEF References, Symbolic
<1>6. AtOnce(i)' <=> AtOnce(i)
  <2>1. AtOnce(i)' <=>
          /\ src'[i].op \notin {"labelNotAlone", "bad"}
          /\ \A l \in References(i)' :
               (src'[i].op = "branch" /\ Above(i, l)' # {}) =>
                 FitsByte(Displacement(src'[Latest(Above(i, l)')].at, src'[i].at))
    BY DEF AtOnce, FitsByte, Displacement, Minus
  <2> QED BY <1>1, <1>3, <1>4, <1>5, <2>1 DEF AtOnce
<1>7. \A m : Pending(i, m)' <=> Pending(i, m)
  BY <1>1, <1>2 DEF Pending
<1> QED BY <1>3, <1>6, <1>7

\* The line being read is judged by the table as it stands.
NewAtOnce(op, refs) ==
  /\ op \notin {"labelNotAlone", "bad"}
  /\ op = "branch" =>
       \A m \in DOMAIN refs : (refs[m] \in Labels /\ Defined(refs[m])) =>
         FitsByte(Displacement(labels[refs[m]], address))

\* What is pending on that line are the labels the table does not hold.
LEMMA NewJudged ==
  ASSUME TypeOK, TypeOK', TableOK, NEW op, NEW def, NEW refs, NEW n, Read(op, def, refs, n),
         NEW N, N = Len(src) + 1
  PROVE  /\ AtOnce(N)' <=> NewAtOnce(op, refs)
         /\ \A m \in DOMAIN refs :
              Pending(N, m)' <=> refs[m] \in Labels /\ ~ Numeric(refs[m]) /\ ~ Defined(refs[m])
         /\ \A l \in Labels : Above(N, l)' = {} \/ \E j \in Above(N, l)' : IsLatest(j, Above(N, l)')
<1>1. /\ src'[N] = Entry(op, def, refs, n) /\ \A l : Above(N, l)' = DefinedBy(l)
      /\ \A j \in 1 .. Len(src) : src'[j] = src[j]
  BY OldLines
<1>2. /\ src'[N].op = op /\ src'[N].refs = refs /\ src'[N].at = address
  BY <1>1 DEF Entry
<1>3. \A l \in Labels : Defined(l) <=> DefinedBy(l) # {}
  BY TableMeans
<1>4. ASSUME NEW l
      PROVE  Symbolic(N, l)' <=> l \in Labels /\ (Numeric(l) => op = "branch" /\ Defined(l))
  <2>1. Symbolic(N, l)' <=> l \in Labels /\ (Numeric(l) => src'[N].op = "branch" /\ Above(N, l)' # {})
    BY DEF Symbolic, Above, Numeric
  <2> QED BY <1>1, <1>2, <1>3, <2>1
<1>5. ASSUME NEW l \in Labels, Defined(l)
      PROVE  src'[Latest(Above(N, l)')].at = labels[l]
  <2>1. PICK j \in DefinedBy(l) : IsLatest(j, DefinedBy(l)) /\ labels[l] = src[j].at
    BY <1>5 DEF TableOK, Defined
  <2>2. Latest(DefinedBy(l)) = j /\ j \in 1 .. Len(src)
    BY <2>1, LatestIs, SrcShape
  <2>3. src'[j] = src[j]
    BY <1>1, <2>2
  <2> QED BY <1>1, <2>1, <2>2, <2>3
<1>6. AtOnce(N)' <=> NewAtOnce(op, refs)
  <2>1. AtOnce(N)' <=>
          /\ op \notin {"labelNotAlone", "bad"}
          /\ \A m \in DOMAIN refs : Symbolic(N, refs[m])' =>
               ((op = "branch" /\ Above(N, refs[m])' # {}) =>
                  FitsByte(Displacement(src'[Latest(Above(N, refs[m])')].at, address)))
    BY <1>2 DEF AtOnce, References, FitsByte, Displacement, Minus
  <2>2. \A m \in DOMAIN refs :
          Symbolic(N, refs[m])' <=>
            refs[m] \in Labels /\ (Numeric(refs[m]) => op = "branch" /\ Defined(refs[m]))
    BY <1>4
  <2> QED BY <1>1, <1>3, <1>5, <2>1, <2>2 DEF NewAtOnce
<1>7. ASSUME NEW m \in DOMAIN refs
      PROVE  Pending(N, m)' <=> refs[m] \in Labels /\ ~ Numeric(refs[m]) /\ ~ Defined(refs[m])
  <2>1. Pending(N, m)' <=> Symbolic(N, refs[m])' /\ Above(N, refs[m])' = {}
    BY <1>2 DEF Pending
  <2> QED BY <1>1, <1>3, <1>4, <2>1
<1>8. \A l \in Labels : Above(N, l)' = {} \/ \E j \in Above(N, l)' : IsLatest(j, Above(N, l)')
  BY <1>1 DEF TableOK
<1> QED BY <1>6, <1>7, <1>8

\* A line keeps the table right: it defines its labels where it stands.
LEMMA LineTable ==
  ASSUME TypeOK, TypeOK', TableOK, AboveOK, NEW op, NEW def, NEW refs, NEW n,
         Read(op, def, refs, n),
         labels' = [l \in Labels |-> IF l \in def THEN address ELSE labels[l]]
  PROVE  TableOK' /\ AboveOK'
<1>1. PICK N : N = Len(src) + 1
  OBVIOUS
<1>2. /\ DOMAIN src' = 1 .. N /\ \A i \in 1 .. Len(src) : src'[i] = src[i]
      /\ src'[N].at = address
      /\ \A l : DefinedBy(l)' = DefinedBy(l) \cup (IF l \in def THEN {N} ELSE {})
      /\ \A i \in 1 .. Len(src) : \A l : Above(i, l)' = Above(i, l)
  <2>1. Entry(op, def, refs, n).at = address
    BY DEF Entry
  <2> QED BY <1>1, <2>1, OldLines
<1>3. /\ Len(src) \in Nat /\ \A l : DefinedBy(l) \subseteq 1 .. Len(src)
      /\ DOMAIN src = 1 .. Len(src)
  BY SrcShape
<1>4. ASSUME NEW l \in Labels
      PROVE  \/ labels'[l] = NoAddr /\ DefinedBy(l)' = {}
             \/ \E j \in DefinedBy(l)' : IsLatest(j, DefinedBy(l)') /\ labels'[l] = src'[j].at
  <2>1. CASE l \in def
    <3>1. IsLatest(N, DefinedBy(l)')
      BY <1>1, <1>2, <1>3, <2>1 DEF IsLatest
    <3>2. labels'[l] = src'[N].at /\ N \in DefinedBy(l)'
      BY <1>2, <2>1
    <3> QED BY <3>1, <3>2
  <2>2. CASE l \notin def
    <3>1. DefinedBy(l)' = DefinedBy(l) /\ labels'[l] = labels[l]
      BY <1>2, <2>2
    <3>2. \A j \in DefinedBy(l) : src'[j] = src[j]
      BY <1>2, <1>3
    <3> QED BY <3>1, <3>2 DEF TableOK
  <2> QED BY <2>1, <2>2
<1>5. TableOK'
  BY <1>4 DEF TableOK
<1>6. ASSUME NEW i \in 1 .. N, NEW l \in Labels
      PROVE  Above(i, l)' = {} \/ \E j \in Above(i, l)' : IsLatest(j, Above(i, l)')
  <2>1. CASE i = N
    BY <1>1, <2>1, NewJudged
  <2>2. CASE i \in 1 .. Len(src)
    BY <1>2, <1>3, <2>2 DEF AboveOK
  <2> QED BY <1>1, <1>3, <2>1, <2>2
<1>7. AboveOK'
  BY <1>2, <1>6 DEF AboveOK
<1> QED BY <1>5, <1>7

\* A line keeps the verdict right if it reports an error when it must.
LEMMA LineVerdict ==
  ASSUME TypeOK, TypeOK', Judged, NEW op, NEW def, NEW refs, NEW n, Read(op, def, refs, n),
         next = 1, next' = 1, errors' = <<>> <=> errors = <<>> /\ NewAtOnce(op, refs)
  PROVE  VerdictOK'
<1>1. PICK N : N = Len(src) + 1
  OBVIOUS
<1>2. /\ DOMAIN src' = 1 .. N /\ N \in 1 .. N /\ Len(src) \in Nat /\ DOMAIN src = 1 .. Len(src)
  BY <1>1, OldLines, SrcShape
<1>3. AtOnce(N)' <=> NewAtOnce(op, refs)
  BY <1>1, NewJudged DEF Judged
<1>4. \A i \in 1 .. Len(src) : AtOnce(i)' <=> AtOnce(i)
  BY OldJudged DEF Judged
<1>5. errors = <<>> <=> \A i \in DOMAIN src : AtOnce(i)
  BY DEF Judged, VerdictOK
<1>6. errors' = <<>> <=> \A i \in DOMAIN src' : AtOnce(i)'
  <2>1. (\A i \in 1 .. N : AtOnce(i)') <=> (\A i \in 1 .. Len(src) : AtOnce(i)') /\ AtOnce(N)'
    BY <1>1, <1>2
  <2> QED BY <1>2, <1>3, <1>4, <1>5, <2>1
<1>7. 1 .. next' - 1 = {}
  OBVIOUS
<1> QED BY <1>6, <1>7 DEF VerdictOK

\* The references there are stay right.
LEMMA StaysRight ==
  ASSUME TypeOK, TypeOK', AboveOK, NEW op, NEW def, NEW refs, NEW n, Read(op, def, refs, n),
         NEW r, Right(r)
  PROVE  Right(r)'
<1>1. PICK i : i = r.line_num
  OBVIOUS
<1>2. i \in 1 .. Len(src) /\ Len(src) \in Nat
  BY <1>1, SrcShape DEF Right
<1>3. /\ References(i)' = References(i) /\ src'[i] = src[i] /\ i \in DOMAIN src'
      /\ \A l : Above(i, l)' = Above(i, l)
  BY <1>2, OldJudged, OldLines
<1> QED BY <1>1, <1>3 DEF Right, Plus

\* A line whose operands need no reference.
LEMMA LineSameRefs ==
  ASSUME TypeOK, TypeOK', Judged, NEW op, NEW def, NEW refs, NEW n, Read(op, def, refs, n),
         pc = "pass1", forward_refs' = forward_refs,
         \A m \in DOMAIN refs : refs[m] \in Labels => Numeric(refs[m]) \/ Defined(refs[m])
  PROVE  RefsRight' /\ RefsComplete'
<1>1. PICK N : N = Len(src) + 1
  OBVIOUS
<1>2. /\ DOMAIN src' = 1 .. N /\ Len(src) \in Nat /\ DOMAIN src = 1 .. Len(src)
      /\ \A i \in 1 .. Len(src) : src'[i] = src[i]
      /\ src'[N].refs = refs
  <2>1. Entry(op, def, refs, n).refs = refs
    BY DEF Entry
  <2> QED BY <1>1, <2>1, OldLines, SrcShape
<1>3. RefsRight'
  BY StaysRight DEF Judged, RefsRight
<1>4. ASSUME NEW i \in 1 .. Len(src), NEW m \in DOMAIN src[i].refs, Pending(i, m)'
      PROVE  \E k \in DOMAIN forward_refs :
               forward_refs[k].line_num = i /\ forward_refs[k].label = src[i].refs[m]
  <2>1. Pending(i, m)
    BY <1>4, OldJudged DEF Judged
  <2>2. ~ ToCome(i, m)
    BY DEF ToCome
  <2> QED BY <1>2, <2>1, <2>2 DEF Judged, RefsComplete
<1>5. ASSUME NEW m \in DOMAIN refs PROVE ~ Pending(N, m)'
  BY <1>1, NewJudged DEF Judged
<1>6. RefsComplete'
  BY <1>1, <1>2, <1>4, <1>5 DEF RefsComplete
<1> QED BY <1>3, <1>6

\* A branch or a la to a label not defined yet.
LEMMA LineNewRef ==
  ASSUME TypeOK, TypeOK', Judged, NEW op, NEW l \in Labels, NEW n, NEW type,
         Read(op, {}, <<l>>, n), pc = "pass1", ~ Numeric(l), ~ Defined(l),
         forward_refs' = Append(forward_refs, Reference(1, l, type)),
         type = "Relative8" <=> op = "branch"
  PROVE  RefsRight' /\ RefsComplete'
<1>1. PICK N : N = Len(src) + 1
  OBVIOUS
<1>2. PICK r : r = Reference(1, l, type)
  OBVIOUS
<1>3. /\ DOMAIN src' = 1 .. N /\ Len(src) \in Nat /\ DOMAIN src = 1 .. Len(src)
      /\ \A i \in 1 .. Len(src) : src'[i] = src[i]
      /\ src'[N] = Entry(op, {}, <<l>>, n)
      /\ Above(N, l)' = DefinedBy(l)
  BY <1>1, OldLines, SrcShape
<1>4. /\ DOMAIN forward_refs' = 1 .. Len(forward_refs) + 1
      /\ DOMAIN forward_refs = 1 .. Len(forward_refs) /\ Len(forward_refs) \in Nat
      /\ \A k \in 1 .. Len(forward_refs) : forward_refs'[k] = forward_refs[k]
      /\ forward_refs'[Len(forward_refs) + 1] = r
  BY <1>2, AppendProperties, LenProperties DEF TypeOK
<1>5. /\ r.line_num = N /\ r.label = l /\ r.ref_type = type /\ r.address = Plus(address, 1)
      /\ src'[N].op = op /\ src'[N].at = address /\ src'[N].refs = <<l>>
  BY <1>1, <1>2, <1>3 DEF Reference, ThisLine, Entry
<1>6. Above(N, l)' = {}
  BY <1>3, TableMeans DEF Judged
<1>7. Right(r)'
  <2>1. l \in References(N)'
    <3>1. Symbolic(N, l)'
      BY DEF Symbolic, Numeric
    <3>2. 1 \in DOMAIN src'[N].refs /\ src'[N].refs[1] = l
      BY <1>5
    <3> QED BY <3>1, <3>2 DEF References
  <2>2. N \in DOMAIN src'
    BY <1>1, <1>3
  <2> QED BY <1>5, <1>6, <2>1, <2>2 DEF Right, Plus
<1>8. \A k \in DOMAIN forward_refs : \A q : q = forward_refs[k] => Right(q)'
  BY StaysRight DEF Judged, RefsRight
<1>9. RefsRight'
  <2> SUFFICES ASSUME NEW k \in 1 .. Len(forward_refs) + 1
               PROVE  \A q : q = forward_refs'[k] => Right(q)'
    BY <1>4, ZenonT(60) DEF RefsRight, Right, Plus
  <2> QED BY <1>4, <1>7, <1>8
<1>10. ASSUME NEW i \in 1 .. N, NEW m \in DOMAIN src'[i].refs, Pending(i, m)'
       PROVE  \E k \in DOMAIN forward_refs' :
                forward_refs'[k].line_num = i /\ forward_refs'[k].label = src'[i].refs[m]
  <2>1. CASE i \in 1 .. Len(src)
    <3>1. Pending(i, m) /\ src'[i] = src[i] /\ i \in DOMAIN src
      BY <1>3, <1>10, <2>1, OldJudged DEF Judged
    <3>2. ~ ToCome(i, m)
      BY DEF ToCome
    <3>3. PICK k \in DOMAIN forward_refs :
            forward_refs[k].line_num = i /\ forward_refs[k].label = src[i].refs[m]
      BY <3>1, <3>2 DEF Judged, RefsComplete
    <3>4. k \in DOMAIN forward_refs' /\ forward_refs'[k] = forward_refs[k]
      BY <1>4
    <3> QED BY <3>1, <3>3, <3>4
  <2>2. CASE i = N
    <3>1. m = 1 /\ src'[N].refs[1] = l
      BY <1>5, <2>2
    <3>2. Len(forward_refs) + 1 \in DOMAIN forward_refs'
      BY <1>4
    <3> QED BY <1>4, <1>5, <2>2, <3>1, <3>2
  <2> QED BY <1>1, <1>3, <2>1, <2>2
<1>11. RefsComplete'
  BY <1>3, <1>10 DEF RefsComplete
<1> QED BY <1>9, <1>11

-----------------------------------------------------------------------------
(* The lines of the first pass.                                            *)

\* A line that is read whole and needs no reference.
LEMMA LineDone ==
  ASSUME EInv, TypeOK', NEW op, NEW def, NEW refs, NEW n, Read(op, def, refs, n),
         pc = "pass1", pc' = "pass1", next' = next, forward_refs' = forward_refs,
         labels' = [l \in Labels |-> IF l \in def THEN address ELSE labels[l]],
         \A m \in DOMAIN refs : refs[m] \in Labels => Numeric(refs[m]) \/ Defined(refs[m]),
         errors' = <<>> <=> errors = <<>> /\ NewAtOnce(op, refs)
  PROVE  EInv'
<1>1. TypeOK /\ Judged /\ next = 1
  BY DEF EInv, Active, Judged
<1>2. TableOK' /\ AboveOK'
  BY <1>1, LineTable DEF Judged
<1>3. VerdictOK'
  BY <1>1, LineVerdict
<1>4. RefsRight' /\ RefsComplete'
  BY <1>1, LineSameRefs
<1>5. Judged'
  BY <1>1, <1>2, <1>3, <1>4 DEF Judged, WordOK
<1> QED BY <1>5 DEF EInv, ErrorsExact

\* A line that records a reference.
LEMMA LineRecorded ==
  ASSUME EInv, TypeOK', NEW op \in {"branch", "la"}, NEW l \in Labels, NEW n, NEW type,
         Read(op, {}, <<l>>, n),
         pc = "pass1", pc' = "pass1", UNCHANGED <<next, labels, errors>>,
         ~ Numeric(l), ~ Defined(l),
         forward_refs' = Append(forward_refs, Reference(1, l, type)),
         type = "Relative8" <=> op = "branch"
  PROVE  EInv'
<1>1. TypeOK /\ Judged /\ next = 1
  BY DEF EInv, Active, Judged
<1>2. TableOK' /\ AboveOK'
  <2>1. labels' = [x \in Labels |-> IF x \in {} THEN address ELSE labels[x]]
    BY <1>1 DEF TypeOK
  <2> QED BY <1>1, <2>1, LineTable DEF Judged
<1>3. VerdictOK'
  <2>1. NewAtOnce(op, <<l>>)
    BY DEF NewAtOnce
  <2> QED BY <1>1, <2>1, LineVerdict
<1>4. RefsRight' /\ RefsComplete'
  BY <1>1, LineNewRef
<1>5. next' <= Len(forward_refs') + 1
  BY <1>1, AppendProperties, LenProperties DEF TypeOK
<1>6. Judged'
  BY <1>1, <1>2, <1>3, <1>4, <1>5 DEF Judged, WordOK
<1> QED BY <1>6 DEF EInv, ErrorsExact

\* A .word begins: all its operands are to come.
LEMMA LineWord ==
  ASSUME EInv, TypeOK', NEW ops \in WordLines, WordLine(ops)
  PROVE  EInv'
<1>1. /\ TypeOK /\ Judged /\ next = 1 /\ pc = "pass1" /\ pc' = "word"
      /\ Read("word", {}, ops, 3 * Len(ops))
      /\ UNCHANGED <<next, labels, errors, forward_refs>> /\ word'.todo = ops
  BY DEF EInv, Active, Judged, WordLine, Reading, code
<1>2. TableOK' /\ AboveOK'
  <2>1. labels' = [x \in Labels |-> IF x \in {} THEN address ELSE labels[x]]
    BY <1>1 DEF TypeOK
  <2> QED BY <1>1, <2>1, LineTable DEF Judged
<1>3. VerdictOK'
  <2>1. NewAtOnce("word", ops)
    BY DEF NewAtOnce
  <2> QED BY <1>1, <2>1, LineVerdict
<1>4. PICK N : N = Len(src) + 1
  OBVIOUS
<1>5. /\ DOMAIN src' = 1 .. N /\ Len(src') = N /\ Len(src) \in Nat /\ DOMAIN src = 1 .. Len(src)
      /\ \A i \in 1 .. Len(src) : src'[i] = src[i]
      /\ src'[N] = Entry("word", {}, ops, 3 * Len(ops))
  BY <1>1, <1>4, OldLines, SrcShape
<1>6. src'[N].op = "word" /\ src'[N].def = {} /\ src'[N].refs = ops
  BY <1>5 DEF Entry
<1>7. Len(ops) \in Nat /\ DOMAIN ops = 1 .. Len(ops)
  BY SourceAssumption, LenProperties
<1>8. WordOK'
  BY <1>1, <1>5, <1>6, <1>7 DEF WordOK
<1>9. RefsRight'
  BY <1>1, StaysRight DEF Judged, RefsRight
<1>10. ASSUME NEW i \in 1 .. Len(src), NEW m \in DOMAIN src[i].refs, Pending(i, m)'
       PROVE  \E k \in DOMAIN forward_refs :
                forward_refs[k].line_num = i /\ forward_refs[k].label = src[i].refs[m]
  <2>1. Pending(i, m)
    BY <1>1, <1>10, OldJudged DEF Judged
  <2>2. ~ ToCome(i, m)
    BY <1>1 DEF ToCome
  <2> QED BY <1>1, <1>5, <2>1, <2>2 DEF Judged, RefsComplete
<1>11. ASSUME NEW m \in DOMAIN ops PROVE ToCome(N, m)'
  BY <1>1, <1>5, <1>6, <1>7 DEF ToCome
<1>12. RefsComplete'
  BY <1>1, <1>4, <1>5, <1>6, <1>10, <1>11 DEF RefsComplete
<1>13. Judged'
  BY <1>1, <1>2, <1>3, <1>8, <1>9, <1>12 DEF Judged
<1> QED BY <1>1, <1>13 DEF EInv, ErrorsExact

-----------------------------------------------------------------------------
(* Steps that read no line.                                                *)

\* What is said of the source and the table stays as it was.
LEMMA SameHistory ==
  ASSUME src' = src, labels' = labels
  PROVE  /\ \A l : DefinedBy(l)' = DefinedBy(l)
         /\ \A i, l : Above(i, l)' = Above(i, l)
         /\ \A i, m : Pending(i, m)' <=> Pending(i, m)
         /\ \A i : AtOnce(i)' <=> AtOnce(i)
         /\ \A r : Right(r)' <=> Right(r)
         /\ \A r : Resolves(r)' <=> Resolves(r)
         /\ TableOK' <=> TableOK
         /\ AboveOK' <=> AboveOK
<1>1. \A l : DefinedBy(l)' = DefinedBy(l)
  BY DEF DefinedBy
<1>2. \A i, l : Above(i, l)' = Above(i, l)
  BY <1>1 DEF Above
<1>3. \A i, l : Symbolic(i, l)' <=> Symbolic(i, l)
  BY <1>1 DEF Symbolic, Numeric
<1>4. \A i : References(i)' = References(i)
  BY <1>3 DEF References
<1>5. \A i, m : Pending(i, m)' <=> Pending(i, m)
  BY <1>2, <1>3 DEF Pending
<1>6. \A i : AtOnce(i)' <=> AtOnce(i)
  BY <1>2, <1>4 DEF AtOnce, FitsByte, Displacement, Minus
<1>7. \A r : Right(r)' <=> Right(r)
  BY <1>2, <1>4 DEF Right, Plus
<1>8. \A r : Resolves(r)' <=> Resolves(r)
  BY DEF Resolves, Defined, FitsByte, Minus, Signed, Plus
<1>9. (TableOK' <=> TableOK) /\ (AboveOK' <=> AboveOK)
  BY <1>1, <1>2 DEF TableOK, AboveOK, IsLatest
<1> QED BY <1>1, <1>2, <1>5, <1>6, <1>7, <1>8, <1>9

\* Where the operands to come stand among all operands, before and after one
\* of them is emitted.
LEMMA OperandIndex ==
  ASSUME NEW L \in Nat, NEW t \in Nat \ {0}, t <= L
  PROVE  /\ L - t + 1 \in 1 .. L
         /\ \A k \in 1 .. t - 1 : k + 1 \in 1 .. t /\ L - t + (k + 1) = L - (t - 1) + k
         /\ \A k \in 1 .. L : k > L - t /\ k # L - t + 1 => k > L - (t - 1) /\ t # 1
OBVIOUS

\* The operand a .word emits next is the first of those to come.
LEMMA NextOperand ==
  ASSUME TypeOK, WordOK, pc = "word"
  PROVE  LET e == src[Len(src)]
             m == Len(e.refs) - Len(word.todo) + 1
         IN  /\ Len(src) \in DOMAIN src /\ e.op = "word" /\ e.def = {}
             /\ m \in DOMAIN e.refs /\ e.refs[m] = Head(word.todo)
             /\ Head(word.todo) \in Operands
<1> DEFINE e == src[Len(src)]
           m == Len(e.refs) - Len(word.todo) + 1
<1>1. /\ word.todo \in Seq(Operands) /\ word.todo # <<>> /\ src # <<>>
      /\ Len(word.todo) \in Nat \ {0} /\ Head(word.todo) = word.todo[1]
      /\ Head(word.todo) \in Operands
  BY LenProperties, HeadTailProperties, EmptySeq DEF TypeOK
<1>2. Len(src) \in DOMAIN src
  BY <1>1, SrcShape, LenProperties, EmptySeq DEF TypeOK
<1>3. DOMAIN e.refs = 1 .. Len(e.refs) /\ Len(e.refs) \in Nat
  BY <1>2, SrcShape
<1>4. /\ e.op = "word" /\ e.def = {} /\ Len(word.todo) <= Len(e.refs)
      /\ \A k \in 1 .. Len(word.todo) :
           word.todo[k] = e.refs[Len(e.refs) - Len(word.todo) + k]
  BY DEF WordOK
<1>5. word.todo[1] = e.refs[m]
  <2>1. 1 \in 1 .. Len(word.todo)
    BY <1>1
  <2> QED BY <1>4, <2>1
<1>6. m \in 1 .. Len(e.refs)
  BY <1>1, <1>3, <1>4, OperandIndex
<1> QED BY <1>1, <1>2, <1>3, <1>4, <1>5, <1>6

\* One operand of a .word: a reference is recorded for a label that is not
\* defined yet, and only for one.
LEMMA WordStepped ==
  ASSUME EInv, TypeOK', pc = "word", NEW cells, EmitWord(cells),
         NEW h, h = Head(word.todo),
         \/ (Numeric(h) \/ Defined(h)) /\ forward_refs' = forward_refs
         \/ /\ ~ Numeric(h) /\ ~ Defined(h)
            /\ forward_refs' = Append(forward_refs,
                 [address |-> address, label |-> h, ref_type |-> "Absolute24",
                  line_num |-> Len(src)])
  PROVE  EInv'
<1>1. /\ TypeOK /\ Judged /\ next = 1
      /\ UNCHANGED <<src, labels, errors, next>> /\ word'.todo = Tail(word.todo)
      /\ IF Len(word.todo) = 1 THEN pc' = "pass1" ELSE pc' = "word"
  <2>1. UNCHANGED <<src, labels, errors, next>> /\ word' = [word EXCEPT !.todo = Tail(@)]
    BY DEF EmitWord
  <2>2. word \in [todo : Seq(Operands), at : Addr, mark : Nat]
    BY DEF EInv, TypeOK
  <2> QED BY <2>1, <2>2 DEF EInv, Active, Judged, EmitWord
<1>2. TableOK' /\ AboveOK'
  BY <1>1, SameHistory DEF Judged
<1>3. VerdictOK'
  <2>1. \A i : AtOnce(i)' <=> AtOnce(i)
    BY <1>1, SameHistory
  <2>2. 1 .. next - 1 = {}
    BY <1>1
  <2> QED BY <1>1, <2>1, <2>2 DEF Judged, VerdictOK
<1>4. PICK N, e, t, m : /\ N = Len(src) /\ e = src[N] /\ t = Len(word.todo)
                        /\ m = Len(e.refs) - t + 1
  OBVIOUS
<1>5. /\ N \in DOMAIN src /\ e.op = "word" /\ e.def = {}
      /\ m \in DOMAIN e.refs /\ e.refs[m] = h /\ h \in Operands
  BY <1>1, <1>4, NextOperand DEF Judged
<1>6. /\ DOMAIN e.refs = 1 .. Len(e.refs) /\ Len(e.refs) \in Nat
      /\ t \in Nat \ {0} /\ t <= Len(e.refs)
      /\ Len(Tail(word.todo)) = t - 1
      /\ \A k \in 1 .. t - 1 : Tail(word.todo)[k] = word.todo[k + 1]
  <2>1. word.todo \in Seq(Operands) /\ word.todo # <<>>
    BY <1>1 DEF TypeOK
  <2>2. /\ t \in Nat \ {0} /\ Len(Tail(word.todo)) = t - 1
        /\ \A k \in 1 .. t - 1 : Tail(word.todo)[k] = word.todo[k + 1]
    BY <1>4, <2>1, LenProperties, HeadTailProperties, EmptySeq
  <2>3. DOMAIN e.refs = 1 .. Len(e.refs) /\ Len(e.refs) \in Nat
    BY <1>1, <1>4, <1>5, SrcShape
  <2>4. t <= Len(e.refs)
    BY <1>1, <1>4 DEF Judged, WordOK
  <2> QED BY <2>2, <2>3, <2>4
<1>7. WordOK'
  <2> SUFFICES ASSUME pc' = "word"
               PROVE  /\ t - 1 <= Len(e.refs)
                      /\ \A k \in 1 .. t - 1 :
                           Tail(word.todo)[k] = e.refs[Len(e.refs) - (t - 1) + k]
    <3>1. src'[Len(src')] = e /\ word'.todo = Tail(word.todo) /\ Len(Tail(word.todo)) = t - 1
      BY <1>1, <1>4, <1>6
    <3>2. WordOK' <=>
            (pc' = "word" =>
               /\ e.op = "word" /\ e.def = {}
               /\ t - 1 <= Len(e.refs)
               /\ \A k \in 1 .. t - 1 :
                    Tail(word.todo)[k] = e.refs[Len(e.refs) - (t - 1) + k])
      BY <3>1 DEF WordOK
    <3> QED BY <1>5, <3>2
  <2>1. \A k \in 1 .. t : word.todo[k] = e.refs[Len(e.refs) - t + k]
    BY <1>1, <1>4 DEF Judged, WordOK
  <2>2. ASSUME NEW k \in 1 .. t - 1
        PROVE  Tail(word.todo)[k] = e.refs[Len(e.refs) - (t - 1) + k]
    <3>1. k + 1 \in 1 .. t /\ Len(e.refs) - t + (k + 1) = Len(e.refs) - (t - 1) + k
      <4>1. t - 1 \in Nat /\ t \in Nat \ {0} /\ Len(e.refs) \in Nat /\ t <= Len(e.refs)
        BY <1>6
      <4>2. \A j \in 1 .. t - 1 :
              j + 1 \in 1 .. t /\ Len(e.refs) - t + (j + 1) = Len(e.refs) - (t - 1) + j
        BY <4>1, OperandIndex
      <4> QED BY <4>2
    <3>2. word.todo[k + 1] = e.refs[Len(e.refs) - t + (k + 1)]
      BY <2>1, <3>1
    <3>3. Tail(word.todo)[k] = word.todo[k + 1]
      BY <1>6
    <3> QED BY <3>1, <3>2, <3>3
  <2> QED BY <1>6, <2>2
<1>8. ASSUME NEW i \in DOMAIN src, NEW k \in DOMAIN src[i].refs,
             ~ ToCome(i, k)', ~ (i = N /\ k = m)
      PROVE  ~ ToCome(i, k)
  <2> SUFFICES ASSUME i = N, k > Len(e.refs) - t
               PROVE  FALSE
    BY <1>4 DEF ToCome
  <2>1. k \in 1 .. Len(e.refs) /\ k # m
    BY <1>4, <1>6, <1>8
  <2>2. k > Len(e.refs) - (t - 1)
    BY <1>4, <1>6, <2>1, OperandIndex
  <2>3. t # 1
    BY <1>4, <1>6, <2>1, OperandIndex
  <2>4. pc' = "word" /\ Len(word'.todo) = t - 1
    BY <1>1, <1>4, <1>6, <2>3
  <2>5. ToCome(i, k)'
    BY <1>1, <1>4, <2>2, <2>4 DEF ToCome
  <2> QED BY <1>8, <2>5
<1>9. ASSUME NEW i \in DOMAIN src, NEW k \in DOMAIN src[i].refs,
             Pending(i, k), ~ ToCome(i, k)', ~ (i = N /\ k = m)
      PROVE  \E q \in DOMAIN forward_refs :
               forward_refs[q].line_num = i /\ forward_refs[q].label = src[i].refs[k]
  <2>1. ~ ToCome(i, k)
    BY <1>8, <1>9
  <2> QED BY <1>1, <1>9, <2>1 DEF Judged, RefsComplete
<1>10. \A i, k : Pending(i, k)' <=> Pending(i, k)
  BY <1>1, SameHistory
<1>11. \A r : Right(r)' <=> Right(r)
  BY <1>1, SameHistory
<1>12. h \in Labels => Above(N, h) = DefinedBy(h)
  <2>1. \A i \in DefinedBy(h) : i # N
    BY <1>4, <1>5 DEF DefinedBy
  <2>2. \A i \in DefinedBy(h) : i < N
    BY <1>1, <1>4, <2>1, SrcShape
  <2> QED BY <2>2 DEF Above
<1>13. CASE (Numeric(h) \/ Defined(h)) /\ forward_refs' = forward_refs
  <2>1. ~ Pending(N, m)
    <3> SUFFICES ASSUME Symbolic(N, h), Above(N, h) = {}
                 PROVE  FALSE
      BY <1>4, <1>5 DEF Pending
    <3>1. h \in Labels /\ ~ Numeric(h)
      BY <1>4, <1>5 DEF Symbolic
    <3> QED BY <1>1, <1>12, <1>13, <3>1, TableMeans DEF Judged
  <2>2. RefsRight'
    BY <1>1, <1>11, <1>13 DEF Judged, RefsRight
  <2>3. RefsComplete'
    BY <1>1, <1>9, <1>10, <1>13, <2>1 DEF RefsComplete
  <2>4. Judged'
    BY <1>1, <1>2, <1>3, <1>7, <1>13, <2>2, <2>3 DEF Judged
  <2> QED BY <1>1, <2>4 DEF EInv, ErrorsExact
<1>14. ASSUME ~ Numeric(h), ~ Defined(h), NEW r,
              r = [address |-> address, label |-> h, ref_type |-> "Absolute24",
                   line_num |-> N],
              forward_refs' = Append(forward_refs, r)
       PROVE  EInv'
  <2>1. /\ DOMAIN forward_refs' = 1 .. Len(forward_refs) + 1
        /\ Len(forward_refs') = Len(forward_refs) + 1
        /\ DOMAIN forward_refs = 1 .. Len(forward_refs) /\ Len(forward_refs) \in Nat
        /\ \A k \in 1 .. Len(forward_refs) : forward_refs'[k] = forward_refs[k]
        /\ forward_refs'[Len(forward_refs) + 1] = r
    BY <1>1, <1>14, AppendProperties, LenProperties DEF TypeOK
  <2>2. h \in Labels /\ Above(N, h) = {}
    BY <1>1, <1>5, <1>12, <1>14, TableMeans DEF Judged, Numeric, Operands
  <2>3. Right(r)
    <3>1. Symbolic(N, h)
      BY <1>14, <2>2 DEF Symbolic
    <3>2. h \in References(N)
      BY <1>4, <1>5, <3>1 DEF References
    <3>3. r.line_num = N /\ r.label = h /\ r.ref_type = "Absolute24"
      BY <1>14
    <3> QED BY <1>4, <1>5, <2>2, <3>2, <3>3 DEF Right
  <2>4. RefsRight'
    <3>1. \A k \in DOMAIN forward_refs : Right(forward_refs[k])
      BY <1>1 DEF Judged, RefsRight
    <3>2. \A k \in DOMAIN forward_refs' : Right(forward_refs'[k])
      BY <2>1, <2>3, <3>1
    <3>3. \A k \in DOMAIN forward_refs' : \A q : q = forward_refs'[k] => Right(q)'
      BY <1>11, <3>2
    <3> QED BY <3>3 DEF RefsRight, Right, Plus
  <2>5. ASSUME NEW i \in DOMAIN src, NEW k \in DOMAIN src[i].refs,
               Pending(i, k), ~ ToCome(i, k)'
        PROVE  \E q \in DOMAIN forward_refs' :
                 forward_refs'[q].line_num = i /\ forward_refs'[q].label = src[i].refs[k]
    <3>1. CASE i = N /\ k = m
      <4>1. r.line_num = N /\ r.label = h
        BY <1>14
      <4>2. Len(forward_refs) + 1 \in DOMAIN forward_refs'
        BY <2>1
      <4> QED BY <1>4, <1>5, <2>1, <3>1, <4>1, <4>2
    <3>2. CASE ~ (i = N /\ k = m)
      <4>1. PICK q \in DOMAIN forward_refs :
              forward_refs[q].line_num = i /\ forward_refs[q].label = src[i].refs[k]
        BY <1>9, <2>5, <3>2
      <4> QED BY <2>1, <4>1
    <3> QED BY <3>1, <3>2
  <2>6. RefsComplete'
    BY <1>1, <1>10, <2>5 DEF RefsComplete
  <2>7. next' <= Len(forward_refs') + 1
    BY <1>1, <2>1
  <2>8. Judged'
    BY <1>1, <1>2, <1>3, <1>7, <2>4, <2>6, <2>7 DEF Judged
  <2> QED BY <1>1, <2>8 DEF EInv, ErrorsExact
<1> QED BY <1>4, <1>13, <1>14

-----------------------------------------------------------------------------
(* The first pass, action by action.                                       *)

\* A line that is read whole, defines nothing and needs no reference.
LEMMA LineQuiet ==
  ASSUME EInv, TypeOK', NEW op, NEW refs, NEW n, Read(op, {}, refs, n),
         pc = "pass1", UNCHANGED <<pc, next, forward_refs, labels>>,
         \A m \in DOMAIN refs : refs[m] \in Labels => Numeric(refs[m]) \/ Defined(refs[m]),
         errors' = <<>> <=> errors = <<>> /\ NewAtOnce(op, refs)
  PROVE  EInv'
<1>1. labels' = [l \in Labels |-> IF l \in {} THEN address ELSE labels[l]]
  BY DEF EInv, TypeOK
<1> QED BY <1>1, LineDone

\* A report leaves the assembly with errors.
LEMMA ErrorCounts ==
  ASSUME TypeOK, NEW line, NEW kind, Error(line, kind)
  PROVE  errors' # <<>>
<1>1. PICK e : e = [line |-> line, kind |-> kind]
  OBVIOUS
<1>2. errors' = Append(errors, e) /\ errors \in Seq(ErrorReport)
  BY <1>1 DEF Error, TypeOK
<1>3. Len(errors) \in Nat /\ Len(errors') = Len(errors) + 1
  BY <1>2, AppendProperties, LenProperties
<1> QED BY <1>3

\* The label a line defines, as LineDone has it.
LEMMA DefineOne ==
  ASSUME TypeOK, NEW l \in Labels, Define(l)
  PROVE  labels' = [x \in Labels |-> IF x \in {l} THEN address ELSE labels[x]]
BY DEF Define, TypeOK

\* A line with no operands.
LEMMA NoOperands ==
  ASSUME NEW op
  PROVE  /\ \A m \in DOMAIN <<>> : FALSE
         /\ op \notin {"branch", "labelNotAlone", "bad"} => NewAtOnce(op, <<>>)
BY DEF NewAtOnce

\* Every directive.
LEMMA DirectiveErrors ==
  ASSUME EInv, TypeOK', Directive
  PROVE  EInv'
<1>1. ASSUME NEW t \in OrgTargets, Org(t) PROVE EInv'
  BY <1>1, LineQuiet, NoOperands DEF Org, EmitDirective, Reading
<1>2. ASSUME NEW n \in ByteCounts, ByteData(n) PROVE EInv'
  BY <1>2, LineQuiet, NoOperands DEF ByteData, EmitDirective, Reading
<1>3. ASSUME NEW n \in ZeroSizes, Zero(n) PROVE EInv'
  BY <1>3, LineQuiet, NoOperands DEF Zero, EmitDirective, Reading
<1>4. ASSUME NEW l \in Labels, NEW n \in CommSizes, Comm(l, n) PROVE EInv'
  <2>1. labels' = [x \in Labels |-> IF x \in {l} THEN address ELSE labels[x]]
    BY <1>4, DefineOne DEF Comm, EInv
  <2> QED BY <1>4, <2>1, LineDone, NoOperands DEF Comm, Reading
<1>5. ASSUME NEW ops \in WordLines, WordLine(ops) PROVE EInv'
  BY <1>5, LineWord
<1>6. CASE WordNumber
  <2>1. PICK h : h = Head(word.todo)
    OBVIOUS
  <2> QED BY <1>6, <2>1, WordStepped DEF WordNumber
<1>7. CASE WordKnown
  <2>1. PICK h : h = Head(word.todo)
    OBVIOUS
  <2>2. EmitWord(Address24(labels[h])) /\ Defined(h) /\ forward_refs' = forward_refs
    BY <1>7, <2>1 DEF WordKnown
  <2>3. PICK cells : cells = Address24(labels[h])
    OBVIOUS
  <2> QED BY <1>7, <2>1, <2>2, <2>3, WordStepped DEF WordKnown
<1>8. CASE WordForward
  <2>1. PICK h : h = Head(word.todo)
    OBVIOUS
  <2> QED BY <1>8, <2>1, WordStepped DEF WordForward
<1> QED BY <1>1, <1>2, <1>3, <1>4, <1>5, <1>6, <1>7, <1>8 DEF Directive

\* Every instruction.
LEMMA EncodeErrors ==
  ASSUME EInv, TypeOK', Encode
  PROVE  EInv'
<1>1. ASSUME NEW n \in InstSizes, Instruction(n) PROVE EInv'
  BY <1>1, LineQuiet, NoOperands DEF Instruction, EmitInstruction, Reading
<1>2. CASE BadInstruction
  <2>1. errors' # <<>>
    BY <1>2, ErrorCounts DEF BadInstruction, EInv
  <2>2. ~ NewAtOnce("bad", <<>>)
    BY DEF NewAtOnce
  <2> QED BY <1>2, <2>1, <2>2, LineQuiet, NoOperands DEF BadInstruction, EmitInstruction, Reading
<1>3. ASSUME NEW l \in Labels, BranchKnown(l) PROVE EInv'
  <2>1. NewAtOnce("branch", <<l>>) <=> FitsByte(Displacement(labels[l], address))
    BY <1>3 DEF NewAtOnce, BranchKnown
  <2>2. errors' = <<>> <=> errors = <<>> /\ FitsByte(Displacement(labels[l], address))
    <3>1. CASE FitsByte(Displacement(labels[l], address))
      BY <1>3, <3>1 DEF BranchKnown
    <3>2. CASE ~ FitsByte(Displacement(labels[l], address))
      BY <1>3, <3>2, ErrorCounts DEF BranchKnown, EInv
    <3> QED BY <3>1, <3>2
  <2> QED BY <1>3, <2>1, <2>2, LineQuiet DEF BranchKnown, Reading
<1>4. ASSUME NEW x \in Operands, BranchNumber(x) PROVE EInv'
  <2>1. NewAtOnce("branch", <<x>>)
    BY <1>4 DEF NewAtOnce, BranchNumber
  <2>2. /\ Read("branch", {}, <<x>>, 2) /\ pc = "pass1" /\ Numeric(x)
        /\ UNCHANGED <<pc, next, forward_refs, labels, errors>>
    BY <1>4 DEF BranchNumber, Reading
  <2>3. \A m \in DOMAIN <<x>> : Numeric(<<x>>[m])
    BY <2>2
  <2> QED BY <2>1, <2>2, <2>3, LineQuiet
<1>5. ASSUME NEW x \in Operands, LaNumber(x) PROVE EInv'
  <2>1. NewAtOnce("la", <<x>>)
    BY DEF NewAtOnce
  <2> QED BY <1>5, <2>1, LineQuiet, SMTT(30) DEF LaNumber, EmitInstruction, Reading
<1>6. ASSUME NEW l \in Labels, LaKnown(l) PROVE EInv'
  <2>1. NewAtOnce("la", <<l>>)
    BY DEF NewAtOnce
  <2>2. /\ Read("la", {}, <<l>>, 4) /\ pc = "pass1"
        /\ UNCHANGED <<pc, next, forward_refs, labels, errors>>
    BY <1>6 DEF LaKnown, Reading
  <2>3. \A m \in DOMAIN <<l>> : Defined(<<l>>[m])
    BY <1>6 DEF LaKnown
  <2> QED BY <2>1, <2>2, <2>3, LineQuiet
<1>7. ASSUME NEW l \in Labels, BranchForward(l) PROVE EInv'
  BY <1>7, LineRecorded DEF BranchForward, EmitInstruction, Reading
<1>8. ASSUME NEW l \in Labels, LaForward(l) PROVE EInv'
  <2>1. /\ Read("la", {}, <<l>>, 4) /\ ~ Numeric(l) /\ ~ Defined(l) /\ pc = "pass1"
        /\ forward_refs' = Append(forward_refs, Reference(1, l, "Absolute24"))
        /\ pc' = "pass1" /\ UNCHANGED <<next, labels, errors>>
    BY <1>8 DEF LaForward, Reading
  <2>2. "la" \in {"branch", "la"} /\ ("Absolute24" = "Relative8" <=> "la" = "branch")
    OBVIOUS
  <2> QED BY <2>1, <2>2, LineRecorded
<1> QED BY <1>1, <1>2, <1>3, <1>4, <1>5, <1>6, <1>7, <1>8 DEF Encode

\* Every step of assemble_line.
LEMMA FirstPassErrors ==
  ASSUME EInv, TypeOK', FirstPass
  PROVE  EInv'
<1>1. CASE Skip
  BY <1>1, LineQuiet, NoOperands DEF Skip, Reading, code
<1>2. ASSUME NEW l \in Labels, LabelLine(l) PROVE EInv'
  <2>1. labels' = [x \in Labels |-> IF x \in {l} THEN address ELSE labels[x]]
    BY <1>2, DefineOne DEF LabelLine, EInv
  <2> QED BY <1>2, <2>1, LineDone, NoOperands DEF LabelLine, Reading
<1>3. ASSUME NEW l \in Labels, LabelNotAlone(l) PROVE EInv'
  <2>1. labels' = [x \in Labels |-> IF x \in {l} THEN address ELSE labels[x]]
    BY <1>3, DefineOne DEF LabelNotAlone, EInv
  <2>2. errors' # <<>>
    BY <1>3, ErrorCounts DEF LabelNotAlone, EInv
  <2>3. ~ NewAtOnce("labelNotAlone", <<>>)
    BY DEF NewAtOnce
  <2> QED BY <1>3, <2>1, <2>2, <2>3, LineDone, NoOperands DEF LabelNotAlone, Reading
<1>4. CASE EmptyLabel
  <2>1. errors' # <<>>
    BY <1>4, ErrorCounts DEF EmptyLabel, EInv
  <2>2. ~ NewAtOnce("labelNotAlone", <<>>)
    BY DEF NewAtOnce
  <2> QED BY <1>4, <2>1, <2>2, LineQuiet, NoOperands DEF EmptyLabel, Reading
<1>5. CASE EndOfSource
  <2>1. /\ TypeOK /\ Judged /\ UNCHANGED <<src, labels, errors, forward_refs, next>>
        /\ pc = "pass1" /\ pc' = "resolve"
    BY <1>5 DEF EndOfSource, EInv, Active, code
  <2>2. /\ \A i, m : Pending(i, m)' <=> Pending(i, m)
        /\ \A i : AtOnce(i)' <=> AtOnce(i)
        /\ \A r : Right(r)' <=> Right(r)
        /\ TableOK' /\ AboveOK'
    BY <2>1, SameHistory DEF Judged
  <2>3. RefsRight'
    BY <2>1, <2>2 DEF Judged, RefsRight
  <2>4. RefsComplete'
    <3>1. \A i, m : ~ ToCome(i, m)
      BY <2>1 DEF ToCome
    <3> QED BY <2>1, <2>2, <3>1 DEF Judged, RefsComplete
  <2>5. VerdictOK'
    <3>1. 1 .. next - 1 = {}
      BY <2>1 DEF Judged
    <3> QED BY <2>1, <2>2, <3>1 DEF Judged, VerdictOK
  <2>6. Judged'
    BY <2>1, <2>2, <2>3, <2>4, <2>5 DEF Judged, WordOK
  <2> QED BY <2>1, <2>6 DEF EInv, ErrorsExact
<1> QED
  BY <1>1, <1>2, <1>3, <1>4, <1>5, DirectiveErrors, EncodeErrors DEF FirstPass

-----------------------------------------------------------------------------
(* The second pass.                                                        *)

\* Whether a line is clean depends on the source alone.
LEMMA SameClean ==
  ASSUME src' = src, NEW i
  PROVE  Clean(i)' <=> Clean(i)
<1>1. \A l : DefinedBy(l)' = DefinedBy(l)
  BY DEF DefinedBy
<1>2. References(i)' = References(i)
  BY <1>1 DEF References, Symbolic, Numeric
<1>3. \A l : Meaning(i, l)' = Meaning(i, l)
  BY <1>1 DEF Meaning, Latest
<1> QED BY <1>1, <1>2, <1>3 DEF Clean, Reaches, FitsByte, Plus

\* The operand's address and 3 make the pipeline's base: the instruction's
\* address and 4, wrapped or not.
LEMMA PipelineBase ==
  ASSUME NEW a \in Addr
  PROVE  Plus(Plus(a, 1), 3) = Plus(a, 4)
BY WidthAssumption DEF Plus, Addr

\* The two ways a label has its meaning.
LEMMA MeaningIs ==
  ASSUME NEW i, NEW l
  PROVE  Meaning(i, l) = IF Above(i, l) # {} THEN src[Latest(Above(i, l))].at
                         ELSE src[Latest(DefinedBy(l))].at
BY DEF Meaning, Above

\* A reference resolves if its line is clean of it.
LEMMA ReferenceVerdict ==
  ASSUME TypeOK, TableOK, NEW r, Right(r), NEW i, i = r.line_num, NEW l, l = r.label
  PROVE  Resolves(r) <=>
           /\ DefinedBy(l) # {}
           /\ src[i].op = "branch" => FitsByte(Displacement(Meaning(i, l), src[i].at))
<1>1. /\ i \in DOMAIN src /\ l \in Labels /\ Above(i, l) = {}
      /\ r.ref_type = "Relative8" <=> src[i].op = "branch"
      /\ r.ref_type = "Relative8" => r.address = Plus(src[i].at, 1)
  BY DEF Right, References, Symbolic
<1>2. Meaning(i, l) = src[Latest(DefinedBy(l))].at
  BY <1>1, MeaningIs
<1>3. /\ Defined(l) <=> DefinedBy(l) # {}
      /\ Defined(l) => labels[l] = Meaning(i, l)
  BY <1>1, <1>2, TableMeans
<1>4. Plus(Plus(src[i].at, 1), 3) = Plus(src[i].at, 4)
  BY <1>1, SrcShape, PipelineBase
<1>5. ASSUME Defined(l), src[i].op = "branch"
      PROVE  Minus(labels[l], Plus(r.address, 3)) = Displacement(Meaning(i, l), src[i].at)
  BY <1>1, <1>3, <1>4, <1>5 DEF Displacement
<1> QED BY <1>1, <1>3, <1>5 DEF Resolves

\* A remainder on the ring of addresses, one turn round at most.
Turn(x, n) == IF x < 0 THEN x + n ELSE IF x < n THEN x ELSE x - n

LEMMA OneTurn ==
  ASSUME NEW n \in Nat \ {0}, NEW x \in Int, -n <= x, x < 2 * n
  PROVE  x % n = Turn(x, n)
<1>1. CASE x < 0
  BY <1>1, SMT DEF Turn
<1>2. CASE 0 <= x /\ x < n
  BY <1>2, SMT DEF Turn
<1>3. CASE n <= x
  BY <1>3, SMT DEF Turn
<1> QED BY <1>1, <1>2, <1>3

\* The wrapped i32 difference fits a byte exactly when an offset of one byte
\* leads from the base to the target.
LEMMA ReachesFits ==
  ASSUME NEW a \in Addr, NEW t \in Addr
  PROVE  Reaches(a, t) <=> FitsByte(Displacement(t, a))
<1>1. PICK n, b, u, d : n = AddrMod /\ b = ByteMod /\ u = Plus(a, 4) /\ d = Displacement(t, a)
  OBVIOUS
<1>2. n \in Nat \ {0} /\ b \in Nat \ {0} /\ b <= n /\ t \in Nat /\ t < n
  BY <1>1, WidthAssumption DEF Addr
<1>3. u \in Nat /\ u < n
  BY <1>1, WidthAssumption DEF Plus, Addr
<1>4. d \in Int /\ -n <= 2 * d /\ 2 * d < n /\ d \in {t - u, t - u - n, t - u + n}
  <2>1. PICK x : x = Signed(t) - Signed(u)
    OBVIOUS
  <2>2. x \in {t - u, t - u - n, t - u + n} /\ x \in Int /\ -n < x /\ x < n
    BY <1>1, <1>2, <1>3, <2>1 DEF Signed
  <2>3. d = IF n <= 2 * x THEN x - n ELSE IF 2 * x < -n THEN x + n ELSE x
    BY <1>1, <2>1 DEF Displacement, Minus
  <2> QED BY <1>2, <1>3, <2>2, <2>3
<1>5. \A e : FitsByte(e) <=> -b <= 2 * e /\ 2 * e < b
  BY <1>1 DEF FitsByte
<1>6. ASSUME NEW e \in Int, FitsByte(e)
      PROVE  (u + e) % n = Turn(u + e, n)
  <2>1. u + e \in Int /\ -n <= u + e /\ u + e < 2 * n
    BY <1>2, <1>3, <1>5, <1>6
  <2> QED BY ONLY <1>2, <2>1, OneTurn
<1>7. ASSUME NEW e \in -b .. b, FitsByte(e), (u + e) % n = t
      PROVE  e = d
  <2>1. e \in Int /\ -n <= 2 * e /\ 2 * e < n
    BY <1>2, <1>5, <1>7
  <2>2. e \in {t - u, t - u - n, t - u + n}
    BY <1>2, <1>3, <1>6, <1>7, <2>1 DEF Turn
  <2> QED BY ONLY <1>2, <1>3, <1>4, <2>1, <2>2
<1>8. ASSUME FitsByte(d)
      PROVE  d \in -b .. b /\ (u + d) % n = t
  <2>1. d \in -b .. b
    BY <1>2, <1>4, <1>5, <1>8
  <2> QED BY <1>2, <1>3, <1>4, <1>6, <1>8, <2>1 DEF Turn
<1>9. Reaches(a, t) <=> \E e \in -b .. b : FitsByte(e) /\ (u + e) % n = t
  BY <1>1 DEF Reaches
<1> QED BY <1>1, <1>7, <1>8, <1>9

\* What a defined label means is an address.
LEMMA MeaningAddress ==
  ASSUME TypeOK, TableOK, AboveOK, NEW i \in DOMAIN src, NEW l \in Labels, DefinedBy(l) # {}
  PROVE  Meaning(i, l) \in Addr
<1>1. CASE Above(i, l) # {}
  <2>1. PICK j \in Above(i, l) : IsLatest(j, Above(i, l))
    BY <1>1 DEF AboveOK
  <2>2. Latest(Above(i, l)) = j /\ j \in DOMAIN src
    BY <2>1, LatestIs, SrcShape DEF Above, DefinedBy
  <2> QED BY <1>1, <2>2, MeaningIs, SrcShape
<1>2. CASE Above(i, l) = {}
  <2>1. Defined(l) /\ Meaning(i, l) = labels[l]
    BY <1>2, MeaningIs, TableMeans
  <2> QED BY <2>1 DEF TypeOK, Defined
<1> QED BY <1>1, <1>2

\* Clean, with what the code computes.
LEMMA CleanFits ==
  ASSUME TypeOK, TableOK, AboveOK, NEW i \in DOMAIN src
  PROVE  Clean(i) <=>
           /\ src[i].op \notin {"labelNotAlone", "bad"}
           /\ \A l \in References(i) :
                /\ DefinedBy(l) # {}
                /\ src[i].op = "branch" => FitsByte(Displacement(Meaning(i, l), src[i].at))
<1>1. src[i].at \in Addr
  BY SrcShape DEF SourceLine
<1>2. ASSUME NEW l \in References(i), DefinedBy(l) # {}
      PROVE  Reaches(src[i].at, Meaning(i, l)) <=> FitsByte(Displacement(Meaning(i, l), src[i].at))
  <2>1. l \in Labels
    BY DEF References, Symbolic
  <2> QED BY <1>1, <1>2, <2>1, MeaningAddress, ReachesFits
<1> QED BY <1>2 DEF Clean

\* At the end of the second pass the verdict is the one Clean gives.
LEMMA VerdictClean ==
  ASSUME TypeOK, Judged, pc = "resolve", next > Len(forward_refs)
  PROVE  errors = <<>> <=> \A i \in DOMAIN src : Clean(i)
<1>1. Len(forward_refs) \in Nat /\ DOMAIN forward_refs = 1 .. Len(forward_refs)
  BY LenProperties DEF TypeOK
<1>2. 1 .. next - 1 = DOMAIN forward_refs
  BY <1>1 DEF Judged, TypeOK
<1>3. errors = <<>> <=> /\ \A i \in DOMAIN src : AtOnce(i)
                        /\ \A k \in DOMAIN forward_refs : Resolves(forward_refs[k])
  BY <1>2 DEF Judged, VerdictOK
<1>4. \A k \in DOMAIN forward_refs : Right(forward_refs[k])
  BY DEF Judged, RefsRight
<1>5. ASSUME NEW i \in DOMAIN src, NEW l \in References(i), Above(i, l) # {}
      PROVE  /\ DefinedBy(l) # {}
             /\ Meaning(i, l) = src[Latest(Above(i, l))].at
  BY <1>5, MeaningIs DEF Above
<1>6. ASSUME NEW i \in DOMAIN src, NEW l \in References(i), Above(i, l) = {}
      PROVE  \E k \in DOMAIN forward_refs :
               forward_refs[k].line_num = i /\ forward_refs[k].label = l
  <2>1. PICK m \in DOMAIN src[i].refs : l = src[i].refs[m] /\ Symbolic(i, l)
    BY DEF References
  <2>2. Pending(i, m) /\ ~ ToCome(i, m)
    BY <1>6, <2>1 DEF Pending, ToCome
  <2> QED BY <2>1, <2>2 DEF Judged, RefsComplete
<1>7. ASSUME errors = <<>>, NEW i \in DOMAIN src
      PROVE  Clean(i)
  <2>1. AtOnce(i)
    BY <1>3, <1>7
  <2>2. ASSUME NEW l \in References(i)
        PROVE  /\ DefinedBy(l) # {}
               /\ src[i].op = "branch" => FitsByte(Displacement(Meaning(i, l), src[i].at))
    <3>1. CASE Above(i, l) # {}
      BY <1>5, <2>1, <3>1 DEF AtOnce
    <3>2. CASE Above(i, l) = {}
      <4>1. PICK k \in DOMAIN forward_refs :
              forward_refs[k].line_num = i /\ forward_refs[k].label = l
        BY <1>6, <3>2
      <4>2. PICK r : r = forward_refs[k]
        OBVIOUS
      <4>3. Right(r) /\ Resolves(r) /\ r.line_num = i /\ r.label = l
        BY <1>3, <1>4, <1>7, <4>1, <4>2
      <4> QED BY <4>3, ReferenceVerdict DEF Judged
    <3> QED BY <3>1, <3>2
  <2>3. src[i].op \notin {"labelNotAlone", "bad"}
    BY <2>1 DEF AtOnce
  <2> QED BY <2>2, <2>3, CleanFits DEF Judged
<1>8. ASSUME \A i \in DOMAIN src : Clean(i)
      PROVE  errors = <<>>
  <2>1. ASSUME NEW i \in DOMAIN src PROVE AtOnce(i)
    BY <1>5, <1>8, CleanFits DEF Judged, AtOnce
  <2>2. ASSUME NEW k \in DOMAIN forward_refs, NEW r, r = forward_refs[k]
        PROVE  Resolves(r)
    <3>1. PICK i, l : i = r.line_num /\ l = r.label
      OBVIOUS
    <3>2. Right(r) /\ i \in DOMAIN src /\ l \in References(i)
      BY <1>4, <2>2, <3>1 DEF Right
    <3>3. /\ DefinedBy(l) # {}
          /\ src[i].op = "branch" => FitsByte(Displacement(Meaning(i, l), src[i].at))
      BY <1>8, <3>2, CleanFits DEF Judged
    <3> QED BY <3>1, <3>2, <3>3, ReferenceVerdict DEF Judged
  <2> QED BY <1>3, <2>1, <2>2
<1> QED BY <1>7, <1>8

\* A reference resolved: an error is reported exactly if it does not resolve.
LEMMA ResolvedOne ==
  ASSUME EInv, TypeOK', Resolving, UNCHANGED <<pc, src, labels, forward_refs, word>>,
         next' = next + 1, errors' = <<>> <=> errors = <<>> /\ Resolves(Ref)
  PROVE  EInv'
<1>1. TypeOK /\ Judged /\ pc = "resolve" /\ next \in Nat \ {0} /\ next <= Len(forward_refs)
  BY DEF EInv, Active, Resolving, TypeOK
<1>2. /\ \A i, m : Pending(i, m)' <=> Pending(i, m)
      /\ \A i : AtOnce(i)' <=> AtOnce(i)
      /\ \A r : Right(r)' <=> Right(r)
      /\ \A r : Resolves(r)' <=> Resolves(r)
      /\ TableOK' /\ AboveOK'
  BY <1>1, SameHistory DEF Judged
<1>3. RefsRight'
  BY <1>1, <1>2 DEF Judged, RefsRight
<1>4. RefsComplete'
  <2>1. \A i, m : ToCome(i, m)' <=> ToCome(i, m)
    BY DEF ToCome
  <2> QED BY <1>1, <1>2, <2>1 DEF Judged, RefsComplete
<1>5. VerdictOK'
  <2>1. \A k, q : q = forward_refs'[k] => (Resolves(q)' <=> Resolves(forward_refs[k]))
    BY <1>2
  <2>2. PICK n : n = next
    OBVIOUS
  <2>3. (\A k \in 1 .. n : Resolves(forward_refs[k])) <=>
          (\A k \in 1 .. n - 1 : Resolves(forward_refs[k])) /\ Resolves(forward_refs[n])
    BY <1>1, <2>2
  <2>4. errors' = <<>> <=> /\ \A i \in DOMAIN src : AtOnce(i)
                           /\ \A k \in 1 .. n : Resolves(forward_refs[k])
    BY <1>1, <2>2, <2>3 DEF Judged, VerdictOK, Ref
  <2>5. next' - 1 = n
    BY <1>1, <2>2
  <2>6. (\A k \in 1 .. n : Resolves(forward_refs[k])') <=>
          (\A k \in 1 .. n : Resolves(forward_refs[k]))
    BY <2>1
  <2> QED BY <1>2, <2>4, <2>5, <2>6 DEF VerdictOK
<1>6. next' <= Len(forward_refs') + 1 /\ pc' = "resolve"
  BY <1>1, LenProperties DEF TypeOK
<1>7. Judged'
  BY <1>1, <1>2, <1>3, <1>4, <1>5, <1>6 DEF Judged, WordOK
<1> QED BY <1>1, <1>6, <1>7 DEF EInv, ErrorsExact

\* Every step of resolve_forward_refs.
LEMMA SecondPassErrors ==
  ASSUME EInv, TypeOK', SecondPass
  PROVE  EInv'
<1>1. CASE ResolveUndefined
  <2>1. ~ Resolves(Ref)
    BY <1>1 DEF ResolveUndefined, Resolves
  <2>2. errors' # <<>>
    BY <1>1, ErrorCounts DEF ResolveUndefined, EInv
  <2> QED BY <1>1, <2>1, <2>2, ResolvedOne DEF ResolveUndefined
<1>2. CASE ResolveAbsolute
  <2>1. Resolves(Ref)
    BY <1>2 DEF ResolveAbsolute, Resolves
  <2> QED BY <1>2, <2>1, ResolvedOne DEF ResolveAbsolute
<1>3. CASE ResolveRelative
  <2>1. Resolves(Ref) <=> FitsByte(RelativeOffset)
    BY <1>3 DEF ResolveRelative, Resolves, RelativeOffset
  <2>2. errors' = <<>> <=> errors = <<>> /\ FitsByte(RelativeOffset)
    BY <1>3, ErrorCounts DEF ResolveRelative, EInv
  <2> QED BY <1>3, <2>1, <2>2, ResolvedOne DEF ResolveRelative
<1>4. CASE Finish
  <2>1. /\ TypeOK /\ Judged /\ pc = "resolve" /\ next > Len(forward_refs)
        /\ pc' = "done" /\ src' = src /\ errors' = errors
    BY <1>4 DEF Finish, EInv, Active
  <2>2. errors = <<>> <=> \A i \in DOMAIN src : Clean(i)
    BY <2>1, VerdictClean
  <2>3. \A i : Clean(i)' <=> Clean(i)
    BY <2>1, SameClean
  <2>4. ErrorsExact'
    BY <2>1, <2>2, <2>3 DEF ErrorsExact
  <2> QED BY <2>1, <2>4 DEF EInv, Active
<1> QED BY <1>1, <1>2, <1>3, <1>4 DEF SecondPass

-----------------------------------------------------------------------------
\* A new assembler has judged nothing.
LEMMA ErrorsInit ==
  ASSUME Init
  PROVE  EInv
BY InitType DEF EInv, ErrorsExact, Active, Init

\* A call begins with an empty source, an empty table and no errors.
LEMMA AssembleAtErrors ==
  ASSUME EInv, TypeOK', NEW b \in Bases, AssembleAt(b)
  PROVE  EInv'
<1>1. /\ pc' = "pass1" /\ src' = <<>> /\ errors' = <<>> /\ forward_refs' = <<>> /\ next' = 1
      /\ labels' = [l \in Labels |-> NoAddr]
  BY DEF AssembleAt, EmptyTable
<1>2. DOMAIN <<>> = {} /\ Len(<<>>) = 0 /\ 1 .. 0 = {}
  OBVIOUS
<1>3. TableOK'
  BY <1>1 DEF TableOK, DefinedBy
<1>4. AboveOK' /\ RefsComplete' /\ RefsRight' /\ WordOK'
  BY <1>1 DEF AboveOK, RefsComplete, RefsRight, WordOK
<1>5. VerdictOK'
  BY <1>1 DEF VerdictOK
<1>6. Judged'
  BY <1>1, <1>2, <1>3, <1>4, <1>5 DEF Judged
<1> QED BY <1>1, <1>6 DEF EInv, ErrorsExact

\* The verdict so far is right in every reachable state.
LEMMA Judgement == Spec => []EInv
<1>1. Init => EInv
  BY ErrorsInit
<1>2. EInv /\ TypeOK' /\ [Next]_vars => EInv'
  <2> SUFFICES ASSUME EInv, TypeOK', [Next]_vars PROVE EInv'
    OBVIOUS
  <2>1. ASSUME NEW b \in Bases, AssembleAt(b) PROVE EInv'
    BY <2>1, AssembleAtErrors
  <2>2. CASE New
    BY <2>2 DEF New, EInv, ErrorsExact, Active
  <2>3. CASE FirstPass
    BY <2>3, FirstPassErrors
  <2>4. CASE SecondPass
    BY <2>4, SecondPassErrors
  <2>5. CASE AddressOverflow \/ IndexOverflow \/ OffsetOverflow
    BY <2>5 DEF AddressOverflow, IndexOverflow, OffsetOverflow, EInv, ErrorsExact, Active
  <2>6. CASE UNCHANGED vars
    <3>1. /\ UNCHANGED <<pc, src, labels, errors, forward_refs, next, word>>
      BY <2>6 DEF vars, code
    <3>2. ErrorsExact'
      BY <3>1, SameClean DEF EInv, ErrorsExact
    <3>3. CASE ~ Active
      BY <3>1, <3>2, <3>3 DEF EInv, Active
    <3>4. CASE Active
      <4>1. Judged /\ TableOK' /\ AboveOK'
        BY <3>1, <3>4, SameHistory DEF EInv, Judged
      <4>2. RefsRight'
        BY <3>1, <4>1, SameHistory DEF Judged, RefsRight
      <4>3. RefsComplete'
        <5>1. \A i, m : ToCome(i, m)' <=> ToCome(i, m)
          BY <3>1 DEF ToCome
        <5> QED BY <3>1, <4>1, <5>1, SameHistory DEF Judged, RefsComplete
      <4>4. VerdictOK'
        <5>1. \A i : AtOnce(i)' <=> AtOnce(i)
          BY <3>1, SameHistory
        <5>2. \A k : (\A q : q = forward_refs'[k] => (Resolves(q)' <=> Resolves(forward_refs[k])))
          BY <3>1, SameHistory
        <5> QED BY <3>1, <4>1, <5>1, <5>2 DEF Judged, VerdictOK
      <4>5. WordOK'
        BY <3>1, <4>1 DEF Judged, WordOK
      <4>6. Judged'
        BY <3>1, <4>1, <4>2, <4>3, <4>4, <4>5 DEF Judged
      <4> QED BY <3>2, <4>6 DEF EInv
    <3> QED BY <3>3, <3>4
  <2> QED BY <2>1, <2>2, <2>3, <2>4, <2>5, <2>6 DEF Next
<1> QED BY <1>1, <1>2, TypeCorrect, PTL DEF Spec

\* An assembly reports an error exactly when a line of its source deserves
\* one, whatever the labels, the base and the lines, and whatever the same
\* Assembler has assembled before.
THEOREM ErrorsCorrect == Spec => []ErrorsExact
<1>1. EInv => ErrorsExact
  BY DEF EInv
<1> QED BY <1>1, Judgement, PTL

-----------------------------------------------------------------------------
(* OPCODES: the second pass writes operands only.                          *)
(*                                                                         *)
(* The operand a reference names is made of bytes that a label determines  *)
(* from the moment the reference is recorded (OperandsOpen): it was        *)
(* emitted as zeros, lines after it only add to the output, and a patch    *)
(* puts bytes of addresses there.  That the operand lies inside the output *)
(* is the invariant IInv.                                                  *)

\* No cell of the operand r names is fixed by the source text.
Open(r) ==
  FlatUpTo(r.line_num) =>
    \A w \in 1 .. Width(r) : output[OutputIndex(r.address) + w] # Opaque

OperandsOpen == \A i \in DOMAIN forward_refs : Open(forward_refs[i])

\* What has been emitted stays, and more may follow.
Grows ==
  /\ Len(output') >= Len(output)
  /\ \A k \in 1 .. Len(output) : output'[k] = output[k]
  /\ base_address' = base_address

\* A byte of an address or an offset is not Opaque.
LEMMA ByteNotOpaque ==
  /\ 0 # Opaque
  /\ \A v \in Int : v % ByteMod # Opaque
  /\ \A a \in Addr : \A i \in 1 .. 3 : Address24(a)[i] # Opaque
<1>1. \A b \in Byte : b # Opaque
  BY SymbolsAssumption DEF Byte
<1>2. 0 \in Byte
  BY WidthAssumption DEF Byte
<1>3. \A v \in Int : v % ByteMod # Opaque
  BY <1>1, ByteType
<1>4. ASSUME NEW a \in Addr
      PROVE  a \in Int /\ a \div ByteMod \in Int /\ a \div (ByteMod * ByteMod) \in Int
  BY WidthAssumption DEF Addr
<1>5. ASSUME NEW a \in Addr, NEW i \in 1 .. 3
      PROVE  Address24(a)[i] # Opaque
  BY <1>3, <1>4 DEF Address24
<1> QED BY <1>1, <1>2, <1>3, <1>5

\* Where the operand of a reference is.
LEMMA OperandInside ==
  ASSUME IInv, NEW i \in DOMAIN forward_refs, FlatUpTo(forward_refs[i].line_num)
  PROVE  /\ OutputIndex(forward_refs[i].address) \in Nat
         /\ OutputIndex(forward_refs[i].address) + Width(forward_refs[i]) <= Len(output)
<1>1. PICK r \in ForwardRef : r = forward_refs[i]
  BY ElementOfSeq, LenProperties DEF IInv, TypeOK
<1>2. Slot(r)
  BY <1>1, SlotsDef DEF IInv
<1>3. r.address \in Int /\ base_address \in Int /\ r.address >= base_address
      /\ OutputIndex(r.address) + Width(r) <= Len(output)
  BY <1>1, <1>2 DEF Slot, ForwardRef, Addr, IInv, TypeOK
<1>4. OutputIndex(r.address) \in Nat
  BY <1>3 DEF OutputIndex
<1> QED BY <1>1, <1>3, <1>4

\* An operand that was open stays open while the output grows.
LEMMA StaysOpen ==
  ASSUME IInv, OneMore, Grows, OperandsOpen, NEW i \in DOMAIN forward_refs
  PROVE  \A r : r = forward_refs[i] => Open(r)'
<1> SUFFICES ASSUME NEW r, r = forward_refs[i], FlatUpTo(r.line_num)'
             PROVE  (\A w \in 1 .. Width(r) : output[OutputIndex(r.address) + w] # Opaque)'
  BY DEF Open
<1>1. r \in ForwardRef /\ r.line_num <= Len(src)
  BY ElementOfSeq, LenProperties DEF IInv, TypeOK, RefsRead
<1>2. FlatUpTo(r.line_num)
  BY <1>1 DEF OneMore, ForwardRef
<1>3. OutputIndex(r.address) \in Nat /\ OutputIndex(r.address) + Width(r) <= Len(output)
  BY <1>2, OperandInside
<1>4. \A w \in 1 .. Width(r) : output[OutputIndex(r.address) + w] # Opaque
  BY <1>2 DEF OperandsOpen, Open
<1>5. OutputIndex(r.address)' = OutputIndex(r.address) /\ Width(r)' = Width(r)
  BY DEF Grows, OutputIndex, Width
<1>6. Len(output) \in Nat /\ Width(r) \in Nat
  BY LenProperties DEF IInv, TypeOK, Width
<1>7. ASSUME NEW w \in 1 .. Width(r)
      PROVE  output'[OutputIndex(r.address) + w] # Opaque
  <2>1. OutputIndex(r.address) + w \in 1 .. Len(output)
    BY <1>3, <1>6
  <2> QED BY <2>1, <1>4 DEF Grows
<1> QED BY <1>5, <1>7 DEF Width

\* Nothing is recorded: the references are those there were.
LEMMA SameRefsOpen ==
  ASSUME IInv, OneMore, Grows, OperandsOpen, forward_refs' = forward_refs
  PROVE  OperandsOpen'
<1> SUFFICES ASSUME NEW i \in DOMAIN forward_refs PROVE Open(forward_refs[i])'
  BY DEF OperandsOpen
<1>1. PICK r : r = forward_refs[i]
  OBVIOUS
<1>2. Open(r)'
  BY <1>1, StaysOpen
<1>3. r = forward_refs'[i]
  BY <1>1
<1> QED BY <1>2, <1>3 DEF Open, Width, OutputIndex

\* A reference is recorded whose operand is open.
LEMMA NewRefOpen ==
  ASSUME IInv, OneMore, Grows, OperandsOpen, NEW q,
         forward_refs' = Append(forward_refs, q), Open(q)'
  PROVE  OperandsOpen'
<1>1. /\ DOMAIN forward_refs' = 1 .. Len(forward_refs) + 1
      /\ DOMAIN forward_refs = 1 .. Len(forward_refs)
      /\ \A i \in 1 .. Len(forward_refs) : forward_refs'[i] = forward_refs[i]
      /\ forward_refs'[Len(forward_refs) + 1] = q
      /\ Len(forward_refs) \in Nat
  BY AppendProperties, LenProperties DEF IInv, TypeOK
<1> SUFFICES ASSUME NEW i \in 1 .. Len(forward_refs) + 1
             PROVE  \A r : r = forward_refs'[i] => Open(r)'
  BY <1>1 DEF OperandsOpen, Open, Width, OutputIndex
<1>2. CASE i \in 1 .. Len(forward_refs)
  BY <1>1, <1>2, StaysOpen
<1>3. CASE i = Len(forward_refs) + 1
  BY <1>1, <1>3
<1> QED BY <1>2, <1>3, <1>1

\* What the first pass does to the output and the history.
LEMMA Emits ==
  ASSUME IInv, NEW cells \in Seq(Cell), output' = output \o cells,
         base_address' = base_address
  PROVE  Grows
<1>1. /\ output \in Seq(Cell) /\ Len(output) \in Nat /\ Len(cells) \in Nat
  BY LenProperties DEF IInv, TypeOK
<1>2. /\ Len(output') = Len(output) + Len(cells)
      /\ \A k \in 1 .. Len(output) : output'[k] = output[k]
  BY <1>1, ConcatProperties
<1> QED BY <1>1, <1>2 DEF Grows

\* A line that is read is one more, after a prefix that stays as it was.
LEMMA ReadsOne ==
  ASSUME IInv, IInv', NEW op, NEW def, NEW refs, NEW n, Read(op, def, refs, n)
  PROVE  OneMore
<1>1. TypeOK /\ src' \in Seq(SourceLine) /\ Len(src) \in Nat
  BY LenProperties DEF IInv, TypeOK
<1>2. /\ Len(src') = Len(src) + 1
      /\ \A k \in Nat : k <= Len(src) => (FlatUpTo(k)' <=> FlatUpTo(k))
  BY <1>1, ReadKeepsPrefix
<1> QED BY <1>1, <1>2 DEF OneMore

\* A directive that records no reference leaves the recorded operands open.
LEMMA DirectiveOpen ==
  ASSUME IInv, IInv', OperandsOpen, Directive, forward_refs' = forward_refs
  PROVE  OperandsOpen'
<1>1. OneMore
  <2>1. (\E op, def, refs, n : Read(op, def, refs, n)) \/ src' = src
    BY DEF Directive, Org, ByteData, Zero, Comm, WordLine, WordNumber, WordKnown,
           WordForward, EmitWord
  <2>2. src' = src => OneMore
    BY LenProperties DEF OneMore, FlatUpTo, IInv, TypeOK
  <2> QED BY <2>1, <2>2, ReadsOne
<1>2. Grows
  <2>1. ASSUME NEW n \in Int, NEW c \in Cell PROVE Repeat(n, c) \in Seq(Cell)
    BY RepeatType
  <2>2. ASSUME NEW t \in OrgTargets, Org(t) PROVE Grows
    <3>1. t \in Int /\ base_address \in Int /\ Len(output) \in Int
      BY SourceAssumption, LenProperties DEF Addr, IInv, TypeOK
    <3> DEFINE idx == IF t >= base_address THEN t - base_address ELSE t
    <3>2. idx - Len(output) \in Int
      BY <3>1
    <3> QED BY <2>2, <3>2, <2>1, CellValues, Emits DEF Org, EmitDirective
  <2>3. ASSUME NEW n \in ByteCounts, ByteData(n) PROVE Grows
    <3>1. Repeat(n, Opaque) \in Seq(Cell)
      BY <2>1, SourceAssumption, CellValues DEF Addr
    <3> QED BY <2>3, <3>1, Emits DEF ByteData, EmitDirective
  <2>4. ASSUME NEW n \in ZeroSizes, Zero(n) PROVE Grows
    <3>1. Repeat(n, 0) \in Seq(Cell)
      BY <2>1, SourceAssumption, CellValues DEF Addr
    <3> QED BY <2>4, <3>1, Emits DEF Zero, EmitDirective
  <2>5. ASSUME UNCHANGED <<output, base_address>> PROVE Grows
    BY <2>5, LenProperties DEF Grows, IInv, TypeOK
  <2>6. ASSUME NEW l \in Labels, NEW n \in CommSizes, Comm(l, n) PROVE Grows
    BY <2>6, <2>5 DEF Comm
  <2>7. ASSUME NEW ops \in WordLines, WordLine(ops) PROVE Grows
    BY <2>7, <2>5 DEF WordLine, code
  <2>8. CASE WordNumber
    <3>1. Repeat(3, Opaque) \in Seq(Cell)
      BY <2>1, CellValues
    <3> QED BY <2>8, <3>1, Emits DEF WordNumber, EmitWord
  <2>9. CASE WordKnown
    <3>1. labels[Head(word.todo)] \in Addr
      BY <2>9, HeadTailProperties, SMTT(30) DEF WordKnown, IInv, TypeOK, Numeric, Operands, Defined
    <3> QED BY <2>9, <3>1, Address24Type, Emits DEF WordKnown, EmitWord
  <2>10. CASE WordForward
    <3>1. Repeat(3, 0) \in Seq(Cell)
      BY <2>1, CellValues
    <3> QED BY <2>10, <3>1, Emits DEF WordForward, EmitWord
  <2> QED BY <2>2, <2>3, <2>4, <2>6, <2>7, <2>8, <2>9, <2>10 DEF Directive
<1> QED BY <1>1, <1>2, SameRefsOpen

\* A .word records its operand where the bytes it emits will lie.
LEMMA WordForwardOpen ==
  ASSUME IInv, IInv', OperandsOpen, WordForward
  PROVE  OperandsOpen'
<1>1. PICK q : q = [address |-> address, label |-> Head(word.todo),
                    ref_type |-> "Absolute24", line_num |-> Len(src)]
  OBVIOUS
<1>2. /\ forward_refs' = Append(forward_refs, q) /\ EmitWord(Repeat(3, 0)) /\ pc = "word"
      /\ UNCHANGED <<src, base_address>> /\ output' = output \o Repeat(3, 0)
  BY <1>1 DEF WordForward, EmitWord
<1>3. /\ Repeat(3, 0) \in Seq(Cell) /\ Len(Repeat(3, 0)) = 3
      /\ \A w \in 1 .. 3 : Repeat(3, 0)[w] = 0
  BY RepeatType, CellValues DEF Repeat
<1>4. Grows
  BY <1>2, <1>3, Emits
<1>5. OneMore
  BY <1>2, LenProperties DEF OneMore, FlatUpTo, IInv, TypeOK
<1>6. Open(q)'
  <2> SUFFICES ASSUME FlatUpTo(q.line_num)', NEW w \in 1 .. 3
               PROVE  output'[OutputIndex(q.address)' + w] # Opaque
    BY <1>1 DEF Open, Width
  <2>1. address = base_address + Len(output)
    BY <1>1, <1>2 DEF Flat, FlatUpTo, IInv, AddressTracksOutput
  <2>2. address \in Int /\ base_address \in Int /\ Len(output) \in Nat /\ output \in Seq(Cell)
    BY LenProperties DEF IInv, TypeOK, Addr
  <2>3. OutputIndex(q.address)' = Len(output)
    BY <1>1, <1>2, <2>1, <2>2 DEF OutputIndex
  <2>4. output'[Len(output) + w] = 0
    BY <1>2, <1>3, <2>2, ConcatProperties
  <2> QED BY <2>3, <2>4, ByteNotOpaque
<1> QED BY <1>2, <1>4, <1>5, <1>6, NewRefOpen

\* A branch or a la records the bytes after its opcode.
LEMMA ForwardOpen ==
  ASSUME IInv, IInv', OperandsOpen, NEW op \in {"branch", "la"}, NEW l \in Labels,
         NEW type \in {"Absolute24", "Relative8"}, NEW n \in Nat,
         n = IF type = "Absolute24" THEN 4 ELSE 2,
         NEW cells \in Seq(Cell), Len(cells) = n, \A w \in 2 .. n : cells[w] = 0,
         base_address' = base_address,
         forward_refs' = Append(forward_refs, Reference(1, l, type)),
         Read(op, {}, <<l>>, n), EmitInstruction(cells)
  PROVE  OperandsOpen'
<1>1. PICK q : q = Reference(1, l, type)
  OBVIOUS
<1>2. output' = output \o cells /\ address' = Plus(address, Len(cells))
  BY DEF EmitInstruction
<1>3. /\ OneMore /\ Len(src') = Len(src) + 1
      /\ Flat' => address + n < AddrMod /\ address = base_address + Len(output)
  <2>1. op \notin {"comm", "org"} /\ Len(cells) <= n /\ TypeOK'
    BY DEF IInv
  <2> QED BY <1>2, <2>1, EmitTracks
<1>4. Grows
  BY <1>2, Emits
<1>5. q.line_num = Len(src) + 1 /\ q.address = Plus(address, 1) /\ q.ref_type = type
  BY <1>1 DEF Reference, ThisLine
<1>6. Open(q)'
  <2> SUFFICES ASSUME FlatUpTo(q.line_num)', NEW w \in 1 .. n - 1
               PROVE  output'[OutputIndex(q.address)' + w] # Opaque
    <3>1. Width(q)' = n - 1
      BY <1>5 DEF Width
    <3> QED BY <3>1 DEF Open
  <2>1. Flat'
    BY <1>3, <1>5 DEF Flat
  <2>2. /\ address \in Nat /\ base_address \in Nat /\ Len(output) \in Nat /\ output \in Seq(Cell)
        /\ AddrMod \in Nat
    BY LenProperties, WidthAssumption DEF IInv, TypeOK, Addr
  <2>3. q.address = address + 1
    BY <1>3, <1>5, <2>1, <2>2 DEF Plus
  <2>4. OutputIndex(q.address)' = Len(output) + 1
    BY <1>3, <2>1, <2>2, <2>3 DEF OutputIndex
  <2>5. /\ Len(output) + 1 + w = Len(output) + (w + 1) /\ w + 1 \in 2 .. n
        /\ w + 1 \in 1 .. Len(cells)
    BY <2>2
  <2>6. output'[Len(output) + (w + 1)] = cells[w + 1]
    BY <1>2, <2>2, <2>5, ConcatProperties
  <2> QED BY <2>4, <2>5, <2>6, ByteNotOpaque
<1>7. forward_refs' = Append(forward_refs, q)
  BY <1>1
<1> QED BY <1>3, <1>4, <1>6, <1>7, NewRefOpen

\* An instruction leaves them open, and its own if it records one.
LEMMA EncodeOpen ==
  ASSUME IInv, IInv', OperandsOpen, Encode
  PROVE  OperandsOpen'
<1>1. ASSUME NEW l \in Labels, BranchForward(l) PROVE OperandsOpen'
  <2>1. <<Opaque, 0>> \in Seq(Cell) /\ Len(<<Opaque, 0>>) = 2
        /\ \A w \in 2 .. 2 : <<Opaque, 0>>[w] = 0
    BY CellValues
  <2> QED BY <1>1, <2>1, ForwardOpen DEF BranchForward
<1>2. ASSUME NEW l \in Labels, LaForward(l) PROVE OperandsOpen'
  <2>1. Repeat(3, 0) \in Seq(Cell) /\ Len(Repeat(3, 0)) = 3
        /\ \A w \in 1 .. 3 : Repeat(3, 0)[w] = 0
    BY RepeatType, CellValues DEF Repeat
  <2>2. PICK cells : cells = <<Opaque>> \o Repeat(3, 0)
    OBVIOUS
  <2>3. cells \in Seq(Cell) /\ Len(cells) = 4
    BY <2>1, <2>2, LaCells
  <2>4. \A w \in 2 .. 4 : cells[w] = 0
    <3>1. \A w \in 2 .. 4 : cells[w] = Repeat(3, 0)[w - 1]
      BY <2>1, <2>2
    <3> QED BY <2>1, <3>1
  <2> QED BY <1>2, <2>2, <2>3, <2>4, ForwardOpen DEF LaForward
<1>3. ASSUME forward_refs' = forward_refs PROVE OperandsOpen'
  <2>1. PICK cells \in Seq(Cell) : output' = output \o cells
    <3>1. \A n \in Int : Repeat(n, Opaque) \in Seq(Cell)
      BY RepeatType, CellValues
    <3>2. CASE \E n \in InstSizes : Instruction(n)
      <4>1. PICK n \in InstSizes : Instruction(n)
        BY <3>2
      <4>2. n \in Int
        BY SourceAssumption DEF Addr
      <4>3. Repeat(n, Opaque) \in Seq(Cell) /\ output' = output \o Repeat(n, Opaque)
        BY <3>1, <4>1, <4>2 DEF Instruction, EmitInstruction
      <4> QED BY <4>3
    <3>3. CASE BadInstruction
      <4>1. output' = output \o <<>> /\ <<>> \in Seq(Cell)
        BY <3>3 DEF BadInstruction, EmitInstruction
      <4> QED BY <4>1
    <3>4. ASSUME NEW l \in Labels, BranchKnown(l)
          PROVE  \E cells \in Seq(Cell) : output' = output \o cells
      <4> DEFINE offset == Displacement(labels[l], address)
      <4>1. labels[l] \in Addr /\ Plus(address, 4) \in Addr
        BY <3>4, PlusType, CellValues DEF BranchKnown, Defined, IInv, TypeOK
      <4>2. offset \in Int
        BY <4>1, WidthAssumption DEF Displacement, Minus, Signed, Addr
      <4>3. offset % ByteMod \in Cell
        BY <4>2, ByteType DEF Cell
      <4>4. <<Opaque, offset % ByteMod>> \in Seq(Cell) /\ <<>> \in Seq(Cell)
        BY <4>3, CellValues
      <4> HIDE DEF offset
      <4>5. output' \in {output \o <<Opaque, offset % ByteMod>>, output \o <<>>}
        BY <3>4 DEF BranchKnown, EmitInstruction, offset
      <4> QED BY <4>4, <4>5
    <3>5. ASSUME NEW l \in Labels, LaKnown(l)
          PROVE  \E cells \in Seq(Cell) : output' = output \o cells
      <4>1. Address24(labels[l]) \in Seq(Cell) /\ Len(Address24(labels[l])) = 3
        BY <3>5, Address24Type DEF LaKnown, Defined, IInv, TypeOK
      <4>2. <<Opaque>> \o Address24(labels[l]) \in Seq(Cell)
        BY <4>1, LaCells
      <4> QED BY <3>5, <4>2 DEF LaKnown, EmitInstruction
    <3>6. CASE \E x \in Operands : BranchNumber(x) \/ LaNumber(x)
      <4>1. PICK n \in {2, 4} : output' = output \o Repeat(n, Opaque)
        BY <3>6 DEF BranchNumber, LaNumber, EmitInstruction
      <4>2. Repeat(n, Opaque) \in Seq(Cell)
        BY <3>1, <4>1
      <4> QED BY <4>1, <4>2
    <3>7. ASSUME NEW l \in Labels, BranchForward(l) \/ LaForward(l) PROVE FALSE
      <4>1. \E q : forward_refs' = Append(forward_refs, q)
        BY <3>7 DEF BranchForward, LaForward
      <4>2. Len(forward_refs') = Len(forward_refs) + 1 /\ Len(forward_refs) \in Nat
        BY <4>1, AppendProperties, LenProperties DEF IInv, TypeOK
      <4> QED BY <1>3, <4>2
    <3> QED BY <3>2, <3>3, <3>4, <3>5, <3>6, <3>7 DEF Encode
  <2>2. base_address' = base_address /\ \E op, def, refs, n : Read(op, def, refs, n)
    BY DEF Encode, Instruction, BadInstruction, BranchKnown, BranchForward, LaKnown, LaForward,
           BranchNumber, LaNumber
  <2>3. Grows /\ OneMore
    BY <2>1, <2>2, Emits, ReadsOne
  <2> QED BY <1>3, <2>3, SameRefsOpen
<1>4. \/ forward_refs' = forward_refs
      \/ \E l \in Labels : BranchForward(l) \/ LaForward(l)
  BY DEF Encode, Instruction, BadInstruction, BranchKnown, LaKnown, BranchNumber, LaNumber
<1> QED BY <1>1, <1>2, <1>3, <1>4

\* Every step of the first pass.
LEMMA FirstPassOpen ==
  ASSUME IInv, IInv', OperandsOpen, FirstPass
  PROVE  OperandsOpen'
<1>1. CASE Directive
  <2>1. forward_refs' = forward_refs \/ WordForward
    BY <1>1 DEF Directive, Org, ByteData, Zero, Comm, WordLine, WordNumber, WordKnown, code
  <2> QED BY <1>1, <2>1, DirectiveOpen, WordForwardOpen
<1>2. CASE Encode
  BY <1>2, EncodeOpen
<1>3. ASSUME UNCHANGED <<output, base_address, forward_refs>>, NEW op, NEW def, NEW refs, NEW n,
             Read(op, def, refs, n)
      PROVE  OperandsOpen'
  <2>1. Grows
    BY <1>3, LenProperties DEF Grows, IInv, TypeOK
  <2> QED BY <1>3, <2>1, ReadsOne, SameRefsOpen
<1>4. CASE Skip \/ EmptyLabel \/ \E l \in Labels : LabelLine(l) \/ LabelNotAlone(l)
  BY <1>3, <1>4 DEF Skip, EmptyLabel, LabelLine, LabelNotAlone, code
<1>5. CASE EndOfSource
  BY <1>5 DEF EndOfSource, code, OperandsOpen, Open, FlatUpTo, OutputIndex
<1> QED BY <1>1, <1>2, <1>4, <1>5 DEF FirstPass

\* A patch writes bytes that are not Opaque, and nothing else.
LEMMA OpenPatch ==
  ASSUME TypeOK, SecondPass
  PROVE  \A k \in DOMAIN output : output'[k] = output[k] \/ output'[k] # Opaque
<1>1. ASSUME Resolving, Defined(Ref.label)
      PROVE  Ref \in ForwardRef /\ labels[Ref.label] \in Addr
  <2>1. next \in 1 .. Len(forward_refs) /\ forward_refs \in Seq(ForwardRef)
    BY <1>1, LenProperties DEF Resolving, TypeOK
  <2>2. Ref \in ForwardRef
    BY <2>1, ElementOfSeq DEF Ref
  <2> QED BY <1>1, <2>2 DEF TypeOK, ForwardRef, Defined
<1>2. CASE ResolveAbsolute
  <2> DEFINE bytes == Address24(labels[Ref.label])
  <2>1. \A i \in 1 .. 3 : bytes[i] # Opaque
    BY <1>1, <1>2, ByteNotOpaque DEF ResolveAbsolute
  <2>2. bytes[1] # Opaque /\ bytes[2] # Opaque /\ bytes[3] # Opaque
    BY <2>1
  <2> DEFINE idx == OutputIndex(Ref.address)
  <2>3. output' = output \/
        output' = [output EXCEPT ![idx + 1] = bytes[1], ![idx + 2] = bytes[2],
                                 ![idx + 3] = bytes[3]]
    BY <1>2 DEF ResolveAbsolute
  <2> HIDE DEF bytes, idx
  <2> QED BY <2>2, <2>3
<1>3. CASE ResolveRelative
  <2>1. RelativeOffset \in Int
    <3>1. labels[Ref.label] \in Addr /\ Plus(Ref.address, 3) \in Addr
      BY <1>1, <1>3, PlusType, CellValues DEF ResolveRelative, ForwardRef
    <3> QED BY <3>1, WidthAssumption DEF RelativeOffset, Minus, Signed, Addr
  <2>2. RelativeOffset % ByteMod # Opaque
    BY <2>1, ByteNotOpaque
  <2> QED BY <1>3, <2>2 DEF ResolveRelative
<1>4. CASE ResolveUndefined \/ Finish
  BY <1>4 DEF ResolveUndefined, Finish
<1> QED BY <1>2, <1>3, <1>4 DEF SecondPass

\* Every step of the second pass.
LEMMA SecondPassOpen ==
  ASSUME IInv, IInv', OperandsOpen, SecondPass
  PROVE  OperandsOpen'
<1>1. /\ UNCHANGED <<base_address, forward_refs, src>>
  BY SecondPassKeeps DEF IInv
<1> SUFFICES ASSUME NEW i \in DOMAIN forward_refs, FlatUpTo(forward_refs[i].line_num),
                    NEW w \in 1 .. Width(forward_refs[i])
             PROVE  output'[OutputIndex(forward_refs[i].address) + w] # Opaque
  BY <1>1 DEF OperandsOpen, Open, FlatUpTo, OutputIndex, Width
<1> DEFINE k == OutputIndex(forward_refs[i].address) + w
<1>2. k \in DOMAIN output
  <2>1. Width(forward_refs[i]) \in Nat /\ Len(output) \in Nat /\ DOMAIN output = 1 .. Len(output)
    BY LenProperties DEF Width, IInv, TypeOK
  <2> QED BY <2>1, OperandInside
<1>3. output[k] # Opaque
  BY DEF OperandsOpen, Open
<1> HIDE DEF k
<1>4. output'[k] # Opaque
  BY <1>2, <1>3, OpenPatch DEF IInv
<1> QED BY <1>4 DEF k

\* The operands of all references are open in every reachable state.
LEMMA AlwaysOpen == Spec => [](IInv /\ OperandsOpen)
<1>1. Init => OperandsOpen
  BY DEF Init, OperandsOpen
<1>2. IInv /\ IInv' /\ OperandsOpen /\ [Next]_vars => OperandsOpen'
  <2> SUFFICES ASSUME IInv, IInv', OperandsOpen, [Next]_vars PROVE OperandsOpen'
    OBVIOUS
  <2>1. ASSUME forward_refs' = <<>> PROVE OperandsOpen'
    BY <2>1 DEF OperandsOpen
  <2>2. CASE New \/ \E b \in Bases : AssembleAt(b)
    BY <2>1, <2>2 DEF New, AssembleAt
  <2>3. CASE AddressOverflow \/ IndexOverflow \/ OffsetOverflow \/ UNCHANGED vars
    BY <2>3 DEF AddressOverflow, IndexOverflow, OffsetOverflow, vars, code, OperandsOpen, Open, FlatUpTo,
                OutputIndex
  <2> QED BY <2>2, <2>3, FirstPassOpen, SecondPassOpen DEF Next
<1> QED BY <1>1, <1>2, Invariance, PTL DEF Spec

\* The second pass writes into operands only, and an operand is open.
LEMMA KeepsOpcodes ==
  ASSUME IInv, OperandsOpen, [Next]_vars, pc = "resolve", Flat
  PROVE  \A k \in DOMAIN output : output[k] = Opaque => output'[k] = Opaque
<1>1. ASSUME NEW i \in DOMAIN forward_refs, NEW w \in 1 .. Width(forward_refs[i])
      PROVE  output[OutputIndex(forward_refs[i].address) + w] # Opaque
  <2>1. PICK r \in ForwardRef : r = forward_refs[i] /\ r.line_num <= Len(src)
    BY ElementOfSeq, LenProperties DEF IInv, TypeOK, RefsRead
  <2>2. r.line_num \in Nat /\ Len(src) \in Nat
    BY LenProperties DEF ForwardRef, IInv, TypeOK
  <2>3. FlatUpTo(r.line_num)
    BY <2>1, <2>2 DEF Flat, FlatUpTo
  <2> QED BY <2>1, <2>3 DEF OperandsOpen, Open
<1>2. Resolving => next \in DOMAIN forward_refs
  BY LenProperties DEF Resolving, IInv, TypeOK
<1>3. CASE ResolveAbsolute
  <2> DEFINE idx == OutputIndex(Ref.address)
  <2>1. Width(Ref) = 3 /\ Resolving
    BY <1>3 DEF ResolveAbsolute, Width
  <2>2. output[idx + 1] # Opaque /\ output[idx + 2] # Opaque /\ output[idx + 3] # Opaque
    BY <1>1, <1>2, <2>1 DEF Ref
  <2> DEFINE bytes == Address24(labels[Ref.label])
  <2>3. output' = output \/
        output' = [output EXCEPT ![idx + 1] = bytes[1], ![idx + 2] = bytes[2],
                                 ![idx + 3] = bytes[3]]
    BY <1>3 DEF ResolveAbsolute
  <2> HIDE DEF idx, bytes
  <2> QED BY <2>2, <2>3
<1>4. CASE ResolveRelative
  <2> DEFINE idx == OutputIndex(Ref.address)
  <2>1. Width(Ref) = 1 /\ Resolving
    BY <1>4 DEF ResolveRelative, Width
  <2>2. output[idx + 1] # Opaque
    BY <1>1, <1>2, <2>1 DEF Ref
  <2>3. output' = output \/ output' = [output EXCEPT ![idx + 1] = RelativeOffset % ByteMod]
    BY <1>4 DEF ResolveRelative
  <2> HIDE DEF idx
  <2> QED BY <2>2, <2>3
<1>5. CASE ResolveUndefined \/ Finish \/ AddressOverflow \/ IndexOverflow \/ OffsetOverflow \/ UNCHANGED vars
  BY <1>5 DEF ResolveUndefined, Finish, AddressOverflow, IndexOverflow, OffsetOverflow, vars, code
<1>6. CASE New \/ (\E b \in Bases : AssembleAt(b)) \/ FirstPass
  BY <1>6 DEF New, AssembleAt, FirstPass, Skip, EmptyLabel, LabelLine, LabelNotAlone, EndOfSource,
              Directive, Org, ByteData, Zero, Comm, WordLine, WordNumber, WordKnown, WordForward,
              Encode, Instruction, BadInstruction, BranchKnown, BranchForward, LaKnown, LaForward,
              BranchNumber, LaNumber, Reading
<1> QED BY <1>3, <1>4, <1>5, <1>6 DEF Next, SecondPass

\* A step of the second pass over a flat source leaves every opcode,
\* register field and literal that the first pass emitted
\* (resolve_forward_refs, assembler.rs).
THEOREM OpcodesCorrect == Spec => OpcodesKept
<1>1. IInv /\ OperandsOpen /\ [Next]_vars =>
        [pc = "resolve" /\ Flat =>
           \A k \in DOMAIN output : output[k] = Opaque => output'[k] = Opaque]_vars
  BY KeepsOpcodes
<1> QED BY <1>1, AlwaysOpen, PTL DEF Spec, OpcodesKept

-----------------------------------------------------------------------------
(* THE LISTING of a flat program tiles the output.                         *)
(*                                                                         *)
(* While the passes run the lines tile what has been emitted, by address   *)
(* and size (Tiled): a line begins where the line before it ended, and a   *)
(* .word in progress, whose line comes last, begins where they all end.    *)
(* The second pass changes bytes and no sizes, so the refresh reads each   *)
(* line's bytes where the line is.                                         *)

Busy == pc \in {"pass1", "word", "resolve"}

From(i)  == lines[i].address - base_address
Until(i) == From(i) + Len(lines[i].bytes)

\* The bytes that have a line.
Listed == IF pc = "word" THEN word.mark ELSE Len(output)

InPlace(i) ==
  /\ From(i) = IF i = 1 THEN 0 ELSE Until(i - 1)
  /\ 0 <= From(i) /\ Until(i) <= Listed

Tiled ==
  /\ \A i \in DOMAIN lines : InPlace(i)
  /\ Listed = IF lines = <<>> THEN 0 ELSE Until(Len(lines))
  /\ pc = "word" => word.at = base_address + word.mark /\ word.mark <= Len(output)

TInv == ListingTiles /\ ((Busy /\ Flat) => Tiled)

-----------------------------------------------------------------------------
\* The shape of the listing.
LEMMA LinesShape ==
  ASSUME TypeOK
  PROVE  /\ Len(lines) \in Nat /\ DOMAIN lines = 1 .. Len(lines)
         /\ base_address \in Int /\ address \in Int /\ Len(output) \in Nat
         /\ lines = <<>> <=> Len(lines) = 0
         /\ \A i \in DOMAIN lines :
              /\ lines[i] \in ListingLine /\ lines[i].address \in Nat
              /\ lines[i].bytes \in Seq(Cell) /\ Len(lines[i].bytes) \in Nat
              /\ From(i) \in Int /\ Until(i) \in Int
<1>1. lines \in Seq(ListingLine) /\ output \in Seq(Cell) /\ \A a \in Addr : a \in Nat
  BY DEF TypeOK, Addr
<1>2. /\ Len(lines) \in Nat /\ DOMAIN lines = 1 .. Len(lines)
      /\ base_address \in Int /\ address \in Int /\ Len(output) \in Nat
      /\ lines = <<>> <=> Len(lines) = 0
  BY <1>1, LenProperties, EmptySeq DEF TypeOK
<1>3. \A i \in DOMAIN lines :
        /\ lines[i] \in ListingLine /\ lines[i].address \in Nat
        /\ lines[i].bytes \in Seq(Cell) /\ Len(lines[i].bytes) \in Nat
  <2>1. \A i \in DOMAIN lines : lines[i] \in ListingLine
    BY <1>1, ElementOfSeq
  <2>2. \A e \in ListingLine : e.address \in Nat /\ e.bytes \in Seq(Cell)
    BY <1>1 DEF ListingLine
  <2> QED BY <2>1, <2>2, LenProperties
<1> QED BY <1>2, <1>3 DEF From, Until

\* A line more at the end of those that tile.
LEMMA OneLineMore ==
  ASSUME TypeOK, TypeOK', Tiled, base_address' = base_address, NEW a, NEW bytes \in Seq(Cell),
         lines' = Append(lines, [address |-> a, bytes |-> bytes]),
         a = base_address + Listed, Listed \in Nat, Listed' = Listed + Len(bytes),
         pc' # "word"
  PROVE  Tiled'
<1>1. PICK N : N = Len(lines) + 1
  OBVIOUS
<1>2. /\ lines' # <<>> /\ Len(lines') = N /\ DOMAIN lines' = 1 .. N
      /\ \A i \in 1 .. Len(lines) : lines'[i] = lines[i]
      /\ lines'[N] = [address |-> a, bytes |-> bytes]
  <2>1. lines \in Seq(ListingLine) /\ lines' \in Seq(ListingLine)
    BY DEF TypeOK
  <2>2. Len(lines) \in Nat
    BY LinesShape
  <2> QED BY <1>1, <2>1, <2>2, AppendProperties, LenProperties, EmptySeq
<1>3. Len(bytes) \in Nat
  BY LenProperties
<1>4. ASSUME NEW i \in 1 .. Len(lines)
      PROVE  From(i)' = From(i) /\ Until(i)' = Until(i) /\ i \in DOMAIN lines
  BY <1>2, <1>4, LinesShape DEF From, Until
<1>5. From(N)' = Listed /\ Until(N)' = Listed + Len(bytes)
  <2>1. base_address \in Int
    BY LinesShape
  <2> QED BY <1>2, <2>1 DEF From, Until
<1>6. Len(lines) \in Nat /\ (lines = <<>> <=> Len(lines) = 0)
  BY LinesShape
<1>7. InPlace(N)'
  <2>1. CASE N = 1
    BY <1>1, <1>3, <1>5, <1>6, <2>1 DEF InPlace, Tiled
  <2>2. CASE N # 1
    <3>1. N - 1 = Len(lines) /\ N - 1 \in 1 .. Len(lines)
      BY <1>1, <1>6, <2>2
    <3>2. Until(N - 1)' = Listed
      BY <1>4, <1>6, <3>1 DEF Tiled
    <3> QED BY <1>3, <1>5, <2>2, <3>2 DEF InPlace
  <2> QED BY <2>1, <2>2
<1>8. ASSUME NEW i \in 1 .. Len(lines)
      PROVE  InPlace(i)'
  <2>1. InPlace(i) /\ From(i) \in Int /\ Until(i) \in Int
    BY <1>4, LinesShape DEF Tiled
  <2>2. i # 1 => Until(i - 1)' = Until(i - 1)
    BY <1>4, <1>6
  <2> QED BY <1>3, <1>4, <2>1, <2>2 DEF InPlace
<1>9. \A i \in 1 .. N : i \in 1 .. Len(lines) \/ i = N
  BY <1>1, <1>6
<1> QED BY <1>2, <1>5, <1>7, <1>8, <1>9 DEF Tiled

\* No line more, and the bytes that have one are as many.
LEMMA NoLineMore ==
  ASSUME TypeOK, Tiled, UNCHANGED <<lines, base_address>>, Listed' = Listed,
         pc' = "word" => word'.at = base_address + word'.mark /\ word'.mark <= Len(output')
  PROVE  Tiled'
<1>1. \A i : From(i)' = From(i) /\ Until(i)' = Until(i)
  BY DEF From, Until
<1>2. \A i \in DOMAIN lines : InPlace(i)'
  BY <1>1 DEF Tiled, InPlace
<1> QED BY <1>1, <1>2 DEF Tiled

-----------------------------------------------------------------------------
(* The first pass.                                                         *)

\* What a line that is read leaves, and where it begins.
LEMMA LineBegins ==
  ASSUME IInv, TypeOK', TInv, pc = "pass1", Flat',
         NEW op, NEW def, NEW refs, NEW n, Read(op, def, refs, n)
  PROVE  /\ TypeOK /\ Flat /\ Tiled /\ address = base_address + Listed
         /\ Listed = Len(output) /\ Listed \in Nat
<1>1. TypeOK /\ src' \in Seq(SourceLine)
  BY DEF IInv, TypeOK
<1>2. Flat
  BY <1>1, ReadKeepsPrefix
<1>3. Tiled
  BY <1>2 DEF TInv, Busy
<1>4. address = base_address + Len(output) /\ Len(output) \in Nat
  BY <1>1, <1>2, LinesShape DEF IInv, AddressTracksOutput
<1> QED BY <1>1, <1>2, <1>3, <1>4 DEF Listed

\* A line of the source with its line of the listing.
LEMMA LineTiled ==
  ASSUME IInv, TypeOK', TInv, pc = "pass1", pc' = "pass1", base_address' = base_address,
         NEW op, NEW def, NEW refs, NEW n, Read(op, def, refs, n),
         NEW cells \in Seq(Cell), output' = output \o cells,
         lines' = Append(lines, [address |-> address, bytes |-> cells])
  PROVE  TInv'
<1> SUFFICES ASSUME Flat' PROVE Tiled'
  BY DEF TInv, ListingTiles
<1>1. /\ TypeOK /\ Tiled /\ address = base_address + Listed
      /\ Listed = Len(output) /\ Listed \in Nat
  BY LineBegins
<1>2. Len(output') = Len(output) + Len(cells)
  BY <1>1, ConcatProperties DEF TypeOK
<1>3. Listed' = Listed + Len(cells)
  BY <1>1, <1>2 DEF Listed
<1> QED BY <1>1, <1>3, OneLineMore

\* A line of the source without one.
LEMMA QuietTiled ==
  ASSUME IInv, TypeOK', TInv, pc = "pass1", pc' = "pass1",
         UNCHANGED <<base_address, lines, output>>,
         NEW op, NEW def, NEW refs, NEW n, Read(op, def, refs, n)
  PROVE  TInv'
<1> SUFFICES ASSUME Flat' PROVE Tiled'
  BY DEF TInv, ListingTiles
<1>1. TypeOK /\ Tiled
  BY LineBegins
<1>2. Listed' = Listed
  BY DEF Listed
<1> QED BY <1>1, <1>2, NoLineMore

\* A directive, which has a line if it emits.
LEMMA DirectiveTiled ==
  ASSUME IInv, TypeOK', TInv, Reading, UNCHANGED <<pc, base_address>>,
         NEW op, NEW def, NEW refs, NEW n, Read(op, def, refs, n),
         NEW k \in Int, NEW c \in Cell, NEW to, EmitDirective(Repeat(k, c), to)
  PROVE  TInv'
<1>1. PICK cells : cells = Repeat(k, c)
  OBVIOUS
<1>2. /\ cells \in Seq(Cell) /\ pc = "pass1" /\ pc' = "pass1" /\ output' = output \o cells
      /\ lines' = IF cells = <<>> THEN lines
                  ELSE Append(lines, [address |-> address, bytes |-> cells])
  BY <1>1, RepeatType DEF Reading, EmitDirective
<1>3. CASE cells = <<>>
  <2>1. output' = output
    BY <1>2, <1>3, ConcatEmptySeq DEF IInv, TypeOK
  <2> QED BY <1>2, <1>3, <2>1, QuietTiled
<1>4. CASE cells # <<>>
  BY <1>2, <1>4, LineTiled
<1> QED BY <1>3, <1>4

\* A .word begins.
LEMMA WordBeginsTiled ==
  ASSUME IInv, TypeOK', TInv, NEW ops, WordLine(ops)
  PROVE  TInv'
<1>1. /\ pc = "pass1" /\ pc' = "word" /\ Read("word", {}, ops, 3 * Len(ops))
      /\ UNCHANGED <<base_address, lines, output>>
      /\ word'.at = address /\ word'.mark = Len(output)
  BY DEF WordLine, Reading, code
<1> SUFFICES ASSUME Flat' PROVE Tiled'
  BY <1>1 DEF TInv, ListingTiles
<1>2. /\ TypeOK /\ Tiled /\ address = base_address + Listed
      /\ Listed = Len(output) /\ Listed \in Nat
  BY <1>1, LineBegins
<1>3. Listed' = Listed
  BY <1>1, <1>2 DEF Listed
<1> QED BY <1>1, <1>2, <1>3, NoLineMore

\* An operand of a .word; the line comes with the last.
LEMMA WordTiled ==
  ASSUME IInv, TypeOK', TInv, pc = "word", NEW cells \in Seq(Cell), Len(cells) = 3,
         EmitWord(cells)
  PROVE  TInv'
<1>1. TypeOK
  BY DEF IInv
<1>2. /\ UNCHANGED <<base_address, src>> /\ output' = output \o cells
      /\ word'.at = word.at /\ word'.mark = word.mark
      /\ IF Len(word.todo) = 1
         THEN /\ pc' = "pass1"
              /\ lines' = Append(lines,
                   [address |-> word.at,
                    bytes |-> SubSeq(output, word.mark + 1, Len(output)) \o cells])
         ELSE pc' = "word" /\ lines' = lines
  BY <1>1 DEF EmitWord, TypeOK
<1> SUFFICES ASSUME Flat' PROVE Tiled'
  BY <1>2 DEF TInv, ListingTiles
<1>3. Flat /\ Tiled
  <2>1. Flat
    BY <1>2 DEF Flat, FlatUpTo, Exact
  <2> QED BY <2>1 DEF TInv, Busy
<1>4. /\ Listed = word.mark /\ word.mark \in Nat /\ word.at = base_address + word.mark
      /\ word.mark <= Len(output)
  BY <1>1, <1>3 DEF Tiled, Listed, TypeOK
<1>5. Len(output') = Len(output) + 3 /\ Len(output) \in Nat
  <2>1. output \in Seq(Cell) /\ output' = output \o cells
    BY <1>1, <1>2 DEF TypeOK
  <2>2. Len(output') = Len(output) + Len(cells) /\ Len(output) \in Nat
    BY <2>1, ConcatProperties, LenProperties
  <2> QED BY <2>2
<1>6. CASE Len(word.todo) = 1
  <2>1. PICK shown : shown = SubSeq(output, word.mark + 1, Len(output))
    OBVIOUS
  <2>2. shown \in Seq(Cell) /\ Len(shown) = Len(output) - word.mark
    <3>1. \A i \in word.mark + 1 .. Len(output) : output[i] \in Cell
      <4>1. \A i \in word.mark + 1 .. Len(output) : i \in 1 .. Len(output)
        BY <1>4, <1>5
      <4> QED BY <1>1, <4>1, ElementOfSeq DEF TypeOK
    <3>2. word.mark + 1 \in Int /\ Len(output) \in Int
      BY <1>4, <1>5
    <3>3. /\ shown \in Seq(Cell)
          /\ Len(shown) = IF word.mark + 1 <= Len(output) THEN Len(output) - (word.mark + 1) + 1 ELSE 0
      BY <2>1, <3>1, <3>2, SubSeqProperties
    <3> QED BY <1>4, <1>5, <3>3
  <2>3. PICK bytes : bytes = shown \o cells
    OBVIOUS
  <2>4. bytes \in Seq(Cell) /\ Len(bytes) = Len(output) - word.mark + 3
    <3>1. bytes \in Seq(Cell) /\ Len(bytes) = Len(shown) + Len(cells)
      BY <2>2, <2>3, ConcatProperties
    <3> QED BY <2>2, <3>1
  <2>5. Listed' = Listed + Len(bytes)
    BY <1>2, <1>4, <1>5, <1>6, <2>4 DEF Listed
  <2>6. lines' = Append(lines, [address |-> word.at, bytes |-> bytes]) /\ pc' # "word"
    BY <1>2, <1>6, <2>1, <2>3
  <2> QED BY <1>1, <1>2, <1>3, <1>4, <2>4, <2>5, <2>6, OneLineMore
<1>7. CASE Len(word.todo) # 1
  <2>1. Listed' = Listed /\ word'.mark <= Len(output')
    BY <1>2, <1>4, <1>5, <1>7 DEF Listed
  <2> QED BY <1>1, <1>2, <1>3, <1>4, <1>7, <2>1, NoLineMore
<1> QED BY <1>6, <1>7

\* Every directive.
LEMMA DirectivesTiled ==
  ASSUME IInv, TypeOK', TInv, Directive
  PROVE  TInv'
<1>1. ASSUME NEW t \in OrgTargets, Org(t) PROVE TInv'
  <2>1. PICK k : k = (IF t >= base_address THEN t - base_address ELSE t) - Len(output)
    OBVIOUS
  <2>2. k \in Int
    <3>1. t \in Int /\ base_address \in Int /\ Len(output) \in Int
      BY SourceAssumption, LenProperties DEF IInv, TypeOK, Addr
    <3> QED BY <2>1, <3>1
  <2>3. /\ Reading /\ Read("org", {}, <<>>, t) /\ EmitDirective(Repeat(k, 0), t)
        /\ UNCHANGED <<pc, base_address>>
    BY <1>1, <2>1 DEF Org
  <2> QED BY <2>2, <2>3, CellValues, DirectiveTiled
<1>2. ASSUME NEW n \in ByteCounts, ByteData(n) PROVE TInv'
  <2>1. n \in Int
    BY SourceAssumption DEF Addr
  <2> QED BY <1>2, <2>1, CellValues, DirectiveTiled DEF ByteData
<1>3. ASSUME NEW n \in ZeroSizes, Zero(n) PROVE TInv'
  <2>1. n \in Int
    BY SourceAssumption DEF Addr
  <2> QED BY <1>3, <2>1, CellValues, DirectiveTiled DEF Zero
<1>4. ASSUME NEW l \in Labels, NEW n \in CommSizes, Comm(l, n) PROVE TInv'
  BY <1>4, QuietTiled DEF Comm, Reading
<1>5. ASSUME NEW ops \in WordLines, WordLine(ops) PROVE TInv'
  BY <1>5, WordBeginsTiled
<1>6. CASE WordNumber \/ WordKnown \/ WordForward
  <2>1. PICK cells \in Seq(Cell) : Len(cells) = 3 /\ EmitWord(cells) /\ pc = "word"
    <3>1. \A c \in Cell : Repeat(3, c) \in Seq(Cell) /\ Len(Repeat(3, c)) = 3
      <4>1. 3 \in Int /\ 3 > 0
        OBVIOUS
      <4> QED BY <4>1, RepeatType
    <3>2. CASE WordNumber \/ WordForward
      BY <3>1, <3>2, CellValues DEF WordNumber, WordForward
    <3>3. CASE WordKnown
      <4>1. labels[Head(word.todo)] \in Addr
        BY <3>3, HeadTailProperties, SMTT(30) DEF WordKnown, IInv, TypeOK, Numeric, Operands, Defined
      <4> QED BY <3>3, <4>1, Address24Type DEF WordKnown
    <3> QED BY <1>6, <3>2, <3>3
  <2> QED BY <2>1, WordTiled
<1> QED BY <1>1, <1>2, <1>3, <1>4, <1>5, <1>6 DEF Directive

\* Every instruction: its line is recorded whatever it encodes to.
LEMMA EncodeTiled ==
  ASSUME IInv, TypeOK', TInv, Encode
  PROVE  TInv'
<1>1. \E op, refs, n : Read(op, {}, refs, n)
  BY DEF Encode, Instruction, BadInstruction, BranchKnown, BranchForward, BranchNumber,
         LaKnown, LaForward, LaNumber
<1>2. pc = "pass1" /\ pc' = "pass1" /\ base_address' = base_address
  BY DEF Encode, Instruction, BadInstruction, BranchKnown, BranchForward, BranchNumber,
         LaKnown, LaForward, LaNumber, Reading
<1>3. \E cells \in Seq(Cell) : EmitInstruction(cells)
  <2>1. \A l \in Labels : Defined(l) => labels[l] \in Addr
    BY DEF IInv, TypeOK, Defined
  <2>2. \A n \in Addr : \A c \in Cell : Repeat(n, c) \in Seq(Cell)
    BY RepeatType DEF Addr
  <2>3. \A s \in Seq(Cell) : Len(s) = 3 => <<Opaque>> \o s \in Seq(Cell)
    BY OperandCells
  <2>4. ASSUME NEW n \in InstSizes, Instruction(n) PROVE \E cells \in Seq(Cell) : EmitInstruction(cells)
    BY <2>2, <2>4, SourceAssumption, CellValues DEF Instruction
  <2>5. ASSUME BadInstruction PROVE \E cells \in Seq(Cell) : EmitInstruction(cells)
    BY <2>5, OperandCells DEF BadInstruction
  <2>6. ASSUME NEW l \in Labels, BranchKnown(l) PROVE \E cells \in Seq(Cell) : EmitInstruction(cells)
    <3>1. PICK d : d = Displacement(labels[l], address)
      OBVIOUS
    <3>2. d \in Int
      <4>1. labels[l] \in Addr /\ address \in Addr /\ Plus(address, 4) \in Addr
        BY <2>1, <2>6, PlusType, CellValues DEF BranchKnown, IInv, TypeOK
      <4> QED BY <3>1, <4>1, WidthAssumption DEF Displacement, Minus, Signed, Addr
    <3>3. d % ByteMod \in Cell
      BY <3>2, ByteType DEF Cell
    <3>4. <<Opaque, d % ByteMod>> \in Seq(Cell)
      BY <3>3, OperandCells
    <3> QED BY <2>6, <3>1, <3>4, OperandCells DEF BranchKnown
  <2>7. ASSUME NEW l \in Labels, BranchForward(l) PROVE \E cells \in Seq(Cell) : EmitInstruction(cells)
    BY <2>7, OperandCells, CellValues DEF BranchForward
  <2>8. ASSUME NEW x \in Operands, BranchNumber(x) \/ LaNumber(x)
        PROVE  \E cells \in Seq(Cell) : EmitInstruction(cells)
    BY <2>2, <2>8, CellValues DEF BranchNumber, LaNumber
  <2>9. ASSUME NEW l \in Labels, LaKnown(l) PROVE \E cells \in Seq(Cell) : EmitInstruction(cells)
    <3>1. Address24(labels[l]) \in Seq(Cell) /\ Len(Address24(labels[l])) = 3
      BY <2>1, <2>9, Address24Type DEF LaKnown
    <3> QED BY <2>3, <2>9, <3>1 DEF LaKnown
  <2>10. ASSUME NEW l \in Labels, LaForward(l) PROVE \E cells \in Seq(Cell) : EmitInstruction(cells)
    <3>1. Repeat(3, 0) \in Seq(Cell) /\ Len(Repeat(3, 0)) = 3
      <4>1. 3 \in Int /\ 3 > 0 /\ 0 \in Cell
        BY CellValues
      <4> QED BY <4>1, RepeatType
    <3> QED BY <2>3, <2>10, <3>1 DEF LaForward
  <2> QED BY <2>4, <2>5, <2>6, <2>7, <2>8, <2>9, <2>10 DEF Encode
<1> QED BY <1>1, <1>2, <1>3, LineTiled DEF EmitInstruction

\* Every step of assemble_line.
LEMMA FirstPassTiled ==
  ASSUME IInv, TypeOK', TInv, FirstPass
  PROVE  TInv'
<1>1. CASE Skip
  BY <1>1, QuietTiled DEF Skip, code, Reading
<1>2. ASSUME NEW l \in Labels, LabelLine(l) PROVE TInv'
  <2>1. <<>> \in Seq(Cell) /\ output' = output \o <<>>
    BY <1>2, ConcatEmptySeq DEF LabelLine, IInv, TypeOK
  <2> QED BY <1>2, <2>1, LineTiled DEF LabelLine, Reading
<1>3. ASSUME NEW l \in Labels, LabelNotAlone(l) PROVE TInv'
  BY <1>3, QuietTiled DEF LabelNotAlone, Reading
<1>4. CASE EmptyLabel
  BY <1>4, QuietTiled DEF EmptyLabel, Reading
<1>5. CASE Directive
  BY <1>5, DirectivesTiled
<1>6. CASE Encode
  BY <1>6, EncodeTiled
<1>7. CASE EndOfSource
  <2>1. /\ pc = "pass1" /\ pc' = "resolve" /\ UNCHANGED <<base_address, lines, output, src>>
    BY <1>7 DEF EndOfSource, code
  <2>2. Listed' = Listed /\ (Flat' <=> Flat)
    BY <2>1 DEF Listed, Flat, FlatUpTo, Exact
  <2>3. Tiled => Tiled'
    BY <2>1, <2>2, NoLineMore DEF IInv
  <2> QED BY <2>1, <2>2, <2>3 DEF TInv, ListingTiles, Busy
<1> QED BY <1>1, <1>2, <1>3, <1>4, <1>5, <1>6, <1>7 DEF FirstPass

-----------------------------------------------------------------------------
(* The second pass.                                                        *)

\* A line in its place is refreshed from its place.
LEMMA RefreshedInPlace ==
  ASSUME TypeOK, Tiled, pc = "resolve", NEW i \in DOMAIN lines
  PROVE  /\ Refreshed(lines[i]).address = lines[i].address
         /\ Refreshed(lines[i]).bytes = SubSeq(output, From(i) + 1, Until(i))
         /\ Len(Refreshed(lines[i]).bytes) = Len(lines[i].bytes)
<1>1. PICK line : line = lines[i]
  OBVIOUS
<1>2. /\ line \in ListingLine /\ line.bytes \in Seq(Cell) /\ Len(line.bytes) \in Nat
      /\ line.address \in Nat /\ base_address \in Int /\ Len(output) \in Nat
  BY <1>1, LinesShape
<1>3. /\ 0 <= From(i) /\ Until(i) <= Len(output)
      /\ From(i) = line.address - base_address
      /\ Until(i) = From(i) + Len(line.bytes)
  BY <1>1 DEF Tiled, InPlace, Listed, From, Until
<1>4. OutputIndex(line.address) = From(i) /\ From(i) \in Nat
  BY <1>2, <1>3 DEF OutputIndex
<1>5. CASE Len(line.bytes) > 0
  <2>1. Refreshed(line) = [line EXCEPT !.bytes = SubSeq(output, From(i) + 1, Until(i))]
    BY <1>3, <1>4, <1>5 DEF Refreshed
  <2>2. Len(SubSeq(output, From(i) + 1, Until(i))) = Len(line.bytes)
    <3>1. From(i) + 1 \in Int /\ Until(i) \in Int /\ From(i) + 1 <= Until(i)
      BY <1>2, <1>3, <1>4, <1>5, SMTT(30)
    <3>2. \A k \in From(i) + 1 .. Until(i) : output[k] \in Cell
      <4>1. \A k \in From(i) + 1 .. Until(i) : k \in 1 .. Len(output)
        BY <1>2, <1>3, <1>4, SMTT(30)
      <4> QED BY <4>1, ElementOfSeq DEF TypeOK
    <3>3. Len(SubSeq(output, From(i) + 1, Until(i))) = Until(i) - (From(i) + 1) + 1
      BY <3>1, <3>2, SubSeqProperties
    <3>4. /\ From(i) \in Int /\ Until(i) = From(i) + Len(line.bytes)
          /\ Len(line.bytes) \in Int
      BY <1>2, <1>3, <1>4
    <3>5. Until(i) - (From(i) + 1) + 1 = Len(line.bytes)
      BY ONLY <3>4
    <3> QED BY ONLY <3>3, <3>5
  <2> QED BY <1>1, <1>2, <2>1, <2>2 DEF ListingLine
<1>6. CASE Len(line.bytes) = 0
  <2>1. Refreshed(line) = line
    BY <1>6 DEF Refreshed
  <2>2. line.bytes = <<>>
    BY <1>2, <1>6, EmptySeq
  <2>3. SubSeq(output, From(i) + 1, Until(i)) = <<>>
    <3>1. From(i) + 1 \in Int /\ Until(i) \in Int /\ Until(i) < From(i) + 1
      BY <1>3, <1>4, <1>6
    <3> QED BY <3>1, SubSeqEmpty
  <2> QED BY <1>1, <2>1, <2>2, <2>3
<1> QED BY <1>2, <1>5, <1>6

\* Every step of the second pass; the last one refreshes the listing.
LEMMA SecondPassTiled ==
  ASSUME IInv, TypeOK', TInv, SecondPass
  PROVE  TInv'
<1>1. TypeOK /\ UNCHANGED <<base_address, src>> /\ Len(output') = Len(output) /\ pc = "resolve"
  BY SecondPassKeeps DEF IInv, SecondPass, ResolveUndefined, ResolveAbsolute, ResolveRelative,
                         Finish, Resolving
<1>2. Flat' <=> Flat
  BY <1>1 DEF Flat, FlatUpTo, Exact
<1>3. CASE Finish
  <2> SUFFICES ASSUME Flat PROVE ListingTiles'
    BY <1>2, <1>3 DEF TInv, Busy, Finish, ListingTiles
  <2>1. Tiled
    BY <1>1 DEF TInv, Busy
  <2>2. /\ output' = output /\ lines' = [i \in DOMAIN lines |-> Refreshed(lines[i])]
        /\ DOMAIN lines' = DOMAIN lines
    BY <1>3 DEF Finish
  <2>3. Len(lines') = Len(lines) /\ (lines' = <<>> <=> lines = <<>>)
    <3>1. lines \in Seq(ListingLine) /\ lines' \in Seq(ListingLine)
      BY <1>1 DEF TypeOK
    <3> QED BY <2>2, <3>1, LenProperties, EmptySeq
  <2>4. ASSUME NEW i \in DOMAIN lines
        PROVE  /\ lines'[i].bytes = SubSeq(output, From(i) + 1, Until(i))
               /\ From(i)' = From(i) /\ Until(i)' = Until(i)
    BY <1>1, <2>1, <2>2, RefreshedInPlace DEF From, Until
  <2>5. ASSUME NEW i \in DOMAIN lines'
        PROVE  /\ lines'[i].bytes = SubSeq(output', From(i)' + 1, Until(i)')
               /\ From(i)' = IF i = 1 THEN 0 ELSE Until(i - 1)'
    <3>1. i # 1 => i - 1 \in DOMAIN lines
      BY <1>1, <2>2, LinesShape
    <3>2. From(i) = IF i = 1 THEN 0 ELSE Until(i - 1)
      BY <2>1, <2>2 DEF Tiled, InPlace
    <3> QED BY <2>2, <2>4, <3>1, <3>2
  <2>6. Len(output') = IF lines' = <<>> THEN 0 ELSE Until(Len(lines))'
    <3>1. PICK n : n = Len(lines)
      OBVIOUS
    <3>2. lines # <<>> => n \in DOMAIN lines
      BY <1>1, <3>1, LinesShape
    <3>3. Len(output) = IF lines = <<>> THEN 0 ELSE Until(n)
      BY <1>1, <2>1, <3>1 DEF Tiled, Listed
    <3>4. lines # <<>> => Until(n)' = Until(n)
      BY <2>4, <3>2
    <3>5. Until(Len(lines))' = Until(n)'
      BY <2>3, <3>1 DEF Until
    <3> QED BY <2>2, <2>3, <3>3, <3>4, <3>5
  <2>7. /\ \A i \in DOMAIN lines' :
             /\ lines'[i].bytes =
                  SubSeq(output', lines'[i].address - base_address' + 1, Until(i)')
             /\ lines'[i].address - base_address' = IF i = 1 THEN 0 ELSE Until(i - 1)'
        /\ Len(output') = IF lines' = <<>> THEN 0 ELSE Until(Len(lines))'
    BY <2>5, <2>6 DEF From
  <2> QED BY <2>7 DEF ListingTiles, From, Until
<1>4. CASE ~ Finish
  <2>1. lines' = lines /\ pc' = "resolve"
    BY <1>1, <1>4 DEF SecondPass, ResolveUndefined, ResolveAbsolute, ResolveRelative
  <2>2. Listed' = Listed
    BY <1>1, <2>1 DEF Listed
  <2>3. Tiled => Tiled'
    BY <1>1, <2>1, <2>2, NoLineMore
  <2> QED BY <1>1, <1>2, <2>1, <2>3 DEF TInv, ListingTiles, Busy
<1> QED BY <1>3, <1>4

-----------------------------------------------------------------------------
\* The lines tile what has been emitted in every reachable state.
LEMMA Tiling == Spec => []TInv
<1>1. Init => TInv
  BY DEF Init, TInv, ListingTiles, Busy
<1>2. IInv /\ TypeOK' /\ TInv /\ [Next]_vars => TInv'
  <2> SUFFICES ASSUME IInv, TypeOK', TInv, [Next]_vars PROVE TInv'
    OBVIOUS
  <2>1. ASSUME NEW b \in Bases, AssembleAt(b) PROVE TInv'
    <3>1. lines' = <<>> /\ output' = <<>> /\ pc' = "pass1"
      BY <2>1 DEF AssembleAt
    <3>2. DOMAIN <<>> = {} /\ Len(<<>>) = 0
      OBVIOUS
    <3>3. Tiled'
      BY <3>1, <3>2 DEF Tiled, Listed
    <3> QED BY <3>1, <3>3 DEF TInv, ListingTiles
  <2>2. CASE New
    BY <2>2 DEF New, TInv, ListingTiles, Busy
  <2>3. CASE FirstPass
    BY <2>3, FirstPassTiled
  <2>4. CASE SecondPass
    BY <2>4, SecondPassTiled
  <2>5. CASE AddressOverflow \/ IndexOverflow \/ OffsetOverflow
    BY <2>5 DEF AddressOverflow, IndexOverflow, OffsetOverflow, TInv, ListingTiles, Busy
  <2>6. CASE UNCHANGED vars
    <3>1. UNCHANGED <<pc, base_address, lines, output, word, src>>
      BY <2>6 DEF vars, code
    <3>2. Listed' = Listed /\ (Flat' <=> Flat)
      BY <3>1 DEF Listed, Flat, FlatUpTo, Exact
    <3>3. Tiled => Tiled'
      <4>1. pc' = "word" /\ Tiled => word'.at = base_address + word'.mark /\ word'.mark <= Len(output')
        BY <3>1 DEF Tiled
      <4> QED BY <3>1, <3>2, <4>1, NoLineMore DEF IInv
    <3>4. ListingTiles'
      BY <3>1, <3>2 DEF TInv, ListingTiles
    <3> QED BY <3>1, <3>2, <3>3, <3>4 DEF TInv, Busy
  <2> QED BY <2>1, <2>2, <2>3, <2>4, <2>5, <2>6 DEF Next
<1> QED BY <1>1, <1>2, Invariance, TypeCorrect, PTL DEF Spec

\* The listing of a flat program tiles the output and shows its final bytes,
\* for every source, base and history of calls.
THEOREM ListingCorrect == Spec => []ListingTiles
<1>1. TInv => ListingTiles
  BY DEF TInv
<1> QED BY <1>1, Tiling, PTL
=============================================================================
