----------------------------- MODULE LinkProofs -----------------------------
(***************************************************************************)
(* A program assembled without errors is linked, for any labels, widths,   *)
(* bases and sources.                                                      *)
(*                                                                         *)
(* An operand is filled in one of two ways.  If its label is defined above *)
(* its line, its bytes are right when they are emitted (KnownOK), and stay *)
(* right: no patch touches them.  Otherwise a reference is recorded for it *)
(* (ListedOK) that names exactly that operand (NamedOK), and the operand   *)
(* is right once the second pass has reached the reference (PatchedOK).    *)
(* That a patch touches no operand but its own is a matter of layout: a    *)
(* patch stays within the addresses of its line, which are not those of a  *)
(* line that is alone at its addresses, and where the source is flat an    *)
(* address tells the place in the output (PlacedOK, InsideOK).             *)
(***************************************************************************)
EXTENDS AssemblerProofs

RefOps == {"la", "word", "branch"}

\* Where operand k of line i is, from the line's start, and how wide.
Offset(i, k) == IF src[i].op = "word" THEN 3 * (k - 1) ELSE 1
Wide(i)      == IF src[i].op = "branch" THEN 1 ELSE 3

OperandAt(i, k) == Plus(src[i].at, Offset(i, k))

\* Operand k of line i is in the output; a .word may have some to come.
Emitted(i, k) == k \in DOMAIN src[i].refs /\ ~ ToCome(i, k)

\* What an operand that names l must hold.
Value(i, l) ==
  IF src[i].op = "branch"
  THEN << Displacement(Meaning(i, l), src[i].at) % ByteMod >>
  ELSE Address24(Meaning(i, l))

Holds(i, k, l) ==
  \A w \in 1 .. Wide(i) : output[src[i].pos + Offset(i, k) + w] = Value(i, l)[w]

\* Operand k of line i is the one r names.
NamedIn(r, i, k) ==
  i = r.line_num /\ src[i].refs[k] = r.label /\ r.address = OperandAt(i, k)

Settled(i) == FlatUpTo(i) /\ Alone(i)

ShapeOK ==
  \A i \in DOMAIN src :
    /\ src[i].op = "la" => Len(src[i].refs) = 1 /\ src[i].n = 4
    /\ src[i].op = "branch" => Len(src[i].refs) = 1 /\ src[i].n = 2
    /\ src[i].op = "word" =>
         src[i].n = 3 * Len(src[i].refs) /\ src[i].n < AddrMod
    /\ src[i].op \notin RefOps => src[i].refs = <<>>

PlacedOK == \A i \in DOMAIN src : FlatUpTo(i) => src[i].at = base_address + src[i].pos

InsideOK ==
  errors = <<>> =>
    \A i \in DOMAIN src : \A k \in DOMAIN src[i].refs :
      Emitted(i, k) => src[i].pos + Offset(i, k) + Wide(i) <= Len(output)

\* A .word in progress has emitted the operands that are not to come.
WordAt ==
  pc = "word" =>
    LET e == src[Len(src)]
        m == Len(e.refs) - Len(word.todo)
    IN  address = Plus(e.at, 3 * m) /\ Len(output) = e.pos + 3 * m

KnownOK ==
  errors = <<>> =>
    \A i \in DOMAIN src : Settled(i) => \A k \in DOMAIN src[i].refs :
      LET l == src[i].refs[k]
      IN  (Emitted(i, k) /\ Symbolic(i, l) /\ Above(i, l) # {}) => Holds(i, k, l)

NamedOK ==
  \A q \in DOMAIN forward_refs :
    LET r == forward_refs[q]
    IN  \E k \in DOMAIN src[r.line_num].refs : Emitted(r.line_num, k) /\ NamedIn(r, r.line_num, k)

ListedOK ==
  \A i \in DOMAIN src : \A k \in DOMAIN src[i].refs :
    (Emitted(i, k) /\ Pending(i, k)) =>
      \E q \in DOMAIN forward_refs : NamedIn(forward_refs[q], i, k)

PatchedOK ==
  errors = <<>> =>
    \A q \in 1 .. next - 1 : \A i \in DOMAIN src : Settled(i) =>
      \A k \in DOMAIN src[i].refs :
        (Emitted(i, k) /\ NamedIn(forward_refs[q], i, k)) => Holds(i, k, src[i].refs[k])

Layout == ShapeOK /\ PlacedOK /\ InsideOK /\ WordAt

Filled == KnownOK /\ NamedOK /\ ListedOK /\ PatchedOK

\* Linked, for the operands that name a label by name.
LinkedNames ==
  (pc = "done" /\ errors = <<>>) =>
    \A i \in DOMAIN src : Settled(i) => \A k \in DOMAIN src[i].refs :
      LET l == src[i].refs[k]
      IN  (Symbolic(i, l) /\ DefinedBy(l) # {}) =>
            /\ src[i].op \in RefOps
            /\ src[i].pos + Offset(i, k) + Wide(i) <= Len(output)
            /\ Holds(i, k, l)

LInv == LinkedNames /\ (Active => Layout /\ Filled)

-----------------------------------------------------------------------------
(* Reading a line: the lines before it.                                    *)

\* A line more leaves the operands of the lines before it as they were.
LEMMA OldOperands ==
  ASSUME TypeOK, TypeOK', AboveOK, NEW op, NEW def, NEW refs, NEW n, Read(op, def, refs, n),
         NEW i \in 1 .. Len(src)
  PROVE  /\ i \in DOMAIN src /\ i \in DOMAIN src' /\ src'[i] = src[i]
         /\ Wide(i)' = Wide(i)
         /\ \A k : Offset(i, k)' = Offset(i, k) /\ OperandAt(i, k)' = OperandAt(i, k)
         /\ \A l : Above(i, l)' = Above(i, l) /\ (Symbolic(i, l)' <=> Symbolic(i, l))
         /\ \A l \in Labels : Above(i, l) # {} => Value(i, l)' = Value(i, l)
         /\ FlatUpTo(i)' <=> FlatUpTo(i)
         /\ Settled(i)' => Settled(i)
<1>1. /\ i \in DOMAIN src /\ i \in DOMAIN src' /\ src'[i] = src[i]
      /\ \A l : Above(i, l)' = Above(i, l)
      /\ \A j \in 1 .. Len(src) : src'[j] = src[j]
      /\ \A l : Above(i, l) \subseteq 1 .. Len(src) /\ Above(i, l) \subseteq Int
      /\ Len(src) \in Nat
  BY OldLines, SrcShape DEF Above
<1>2. /\ Wide(i)' = Wide(i)
      /\ \A k : Offset(i, k)' = Offset(i, k) /\ OperandAt(i, k)' = OperandAt(i, k)
  BY <1>1 DEF Wide, Offset, OperandAt, Plus
<1>3. ASSUME NEW l PROVE Symbolic(i, l)' <=> Symbolic(i, l)
  <2>1. Symbolic(i, l) <=> l \in Labels /\ (Numeric(l) => src[i].op = "branch" /\ Above(i, l) # {})
    BY DEF Symbolic, Above
  <2>2. Symbolic(i, l)' <=> l \in Labels /\ (Numeric(l) => src'[i].op = "branch" /\ Above(i, l)' # {})
    BY DEF Symbolic, Above, Numeric
  <2> QED BY <1>1, <2>1, <2>2
<1>4. ASSUME NEW l \in Labels, Above(i, l) # {}
      PROVE  Value(i, l)' = Value(i, l)
  <2>1. PICK j \in Above(i, l) : IsLatest(j, Above(i, l))
    BY <1>1, <1>4 DEF AboveOK
  <2>2. Latest(Above(i, l)) = j /\ Above(i, l)' = Above(i, l) /\ src'[j] = src[j]
    BY <1>1, <2>1, LatestIs
  <2>3. Meaning(i, l) = src[Latest(Above(i, l))].at
    BY <1>4, MeaningIs
  <2>4. Meaning(i, l)' = src'[Latest(Above(i, l)')].at
    BY <1>1, <1>4 DEF Meaning, Above, Latest
  <2>5. Meaning(i, l)' = Meaning(i, l)
    BY <2>2, <2>3, <2>4
  <2> QED BY <1>1, <2>5 DEF Value, Displacement, Minus, Signed, Plus, Address24
<1>5. FlatUpTo(i)' <=> FlatUpTo(i)
  <2>1. \A j \in 1 .. i : j \in 1 .. Len(src)
    BY <1>1
  <2> QED BY <1>1, <2>1 DEF FlatUpTo, Exact
<1>6. ASSUME Alone(i)' PROVE Alone(i)
  <2> SUFFICES ASSUME NEW j \in DOMAIN src, j # i, src[j].refs # <<>>
               PROVE  Cells(i) \cap Cells(j) = {}
    BY DEF Alone
  <2>1. j \in 1 .. Len(src) /\ j \in DOMAIN src' /\ src'[j] = src[j]
    BY <1>1, OldLines, SrcShape
  <2>2. (Cells(i) \cap Cells(j) = {})'
    BY <1>1, <1>6, <2>1 DEF Alone
  <2> QED BY <1>1, <2>1, <2>2 DEF Cells, Plus
<1> QED BY <1>1, <1>2, <1>3, <1>4, <1>5, <1>6 DEF Settled

\* What is known of the line that has been read.
LEMMA NewOperands ==
  ASSUME TypeOK, TypeOK', TableOK, NEW op, NEW def, NEW refs, NEW n, Read(op, def, refs, n),
         NEW N, N = Len(src) + 1
  PROVE  /\ DOMAIN src' = 1 .. N /\ Len(src') = N /\ Len(src) \in Nat /\ DOMAIN src = 1 .. Len(src)
         /\ src'[N].op = op /\ src'[N].refs = refs /\ src'[N].n = n
         /\ src'[N].at = address /\ src'[N].pos = Len(output)
         /\ \A l : Symbolic(N, l)' <=> l \in Labels /\ (Numeric(l) => op = "branch" /\ Defined(l))
         /\ \A l \in Labels : Above(N, l)' # {} <=> Defined(l)
         /\ \A l \in Labels : Defined(l) => Meaning(N, l)' = labels[l]
         /\ FlatUpTo(N)' => Flat
<1>1. /\ DOMAIN src' = 1 .. N /\ Len(src') = N /\ Len(src) \in Nat /\ DOMAIN src = 1 .. Len(src)
      /\ src'[N] = Entry(op, def, refs, n) /\ \A l : Above(N, l)' = DefinedBy(l)
      /\ \A j \in 1 .. Len(src) : src'[j] = src[j]
  BY OldLines, SrcShape
<1>2. /\ src'[N].op = op /\ src'[N].refs = refs /\ src'[N].n = n
      /\ src'[N].at = address /\ src'[N].pos = Len(output)
  BY <1>1 DEF Entry
<1>3. \A l \in Labels : Above(N, l)' # {} <=> Defined(l)
  BY <1>1, TableMeans
<1>4. ASSUME NEW l
      PROVE  Symbolic(N, l)' <=> l \in Labels /\ (Numeric(l) => op = "branch" /\ Defined(l))
  <2>1. Symbolic(N, l)' <=> l \in Labels /\ (Numeric(l) => src'[N].op = "branch" /\ Above(N, l)' # {})
    BY DEF Symbolic, Above, Numeric
  <2> QED BY <1>1, <1>2, <1>3, <2>1
<1>5. ASSUME NEW l \in Labels, Defined(l)
      PROVE  Meaning(N, l)' = labels[l]
  <2>1. PICK j \in DefinedBy(l) : IsLatest(j, DefinedBy(l)) /\ labels[l] = src[j].at
    BY <1>5 DEF TableOK, Defined
  <2>2. Latest(DefinedBy(l)) = j /\ j \in 1 .. Len(src)
    BY <2>1, LatestIs, SrcShape
  <2>3. src'[j] = src[j] /\ Above(N, l)' = DefinedBy(l) /\ Above(N, l)' # {}
    BY <1>1, <2>1, <2>2
  <2>4. Meaning(N, l)' = src'[Latest(Above(N, l)')].at
    BY <2>3 DEF Meaning, Above, Latest
  <2> QED BY <2>1, <2>2, <2>3, <2>4
<1>6. FlatUpTo(N)' => Flat
  BY <1>1 DEF FlatUpTo, Flat, Exact
<1> QED BY <1>1, <1>2, <1>3, <1>4, <1>5, <1>6

\* The place of an operand in the output.
LEMMA OperandPlace ==
  ASSUME TypeOK, NEW i \in DOMAIN src, NEW k \in DOMAIN src[i].refs
  PROVE  /\ k \in Nat \ {0} /\ src[i].pos \in Nat /\ src[i].at \in Addr /\ src[i].n \in Nat
         /\ Offset(i, k) \in Nat /\ Wide(i) \in {1, 3}
         /\ \A w \in 1 .. Wide(i) : w \in Nat \ {0} /\ src[i].pos + Offset(i, k) + w \in Nat \ {0}
<1>1. /\ src[i] \in SourceLine /\ DOMAIN src[i].refs = 1 .. Len(src[i].refs)
      /\ Len(src[i].refs) \in Nat
  BY SrcShape
<1>2. k \in Nat \ {0} /\ src[i].pos \in Nat /\ src[i].at \in Addr /\ src[i].n \in Nat
  BY <1>1 DEF SourceLine
<1>3. Offset(i, k) \in Nat /\ Wide(i) \in {1, 3}
  BY <1>2 DEF Offset, Wide
<1> QED BY <1>2, <1>3

\* An operand holds what it held where the output stays as it was.
LEMMA HoldsStill ==
  ASSUME TypeOK, NEW i \in DOMAIN src, NEW k \in DOMAIN src[i].refs, NEW l,
         src'[i] = src[i], Wide(i)' = Wide(i), Offset(i, k)' = Offset(i, k),
         Value(i, l)' = Value(i, l), Holds(i, k, l),
         \A w \in 1 .. Wide(i) :
           output'[src[i].pos + Offset(i, k) + w] = output[src[i].pos + Offset(i, k) + w]
  PROVE  Holds(i, k, l)'
BY DEF Holds

\* A place before the end of an operand that is in the output is in it too.
LEMMA WithinOutput ==
  ASSUME NEW p \in Nat, NEW f \in Nat, NEW z \in {1, 3}, NEW len \in Nat, p + f + z <= len
  PROVE  \A w \in 1 .. z : p + f + w \in 1 .. len
OBVIOUS

\* What reading a line must do for the operands the line has: it makes room
\* for them, puts in place what is known and records what is not.
LineFills(op, refs, n, cells, N) ==
  /\ op \in {"la", "branch"} => Len(refs) = 1
  /\ op = "la" => n = 4
  /\ op = "branch" => n = 2
  /\ op = "word" => n = 3 * Len(refs) /\ n < AddrMod /\ pc' = "word"
  /\ op \notin RefOps => refs = <<>>
  /\ errors' = <<>> =>
       /\ errors = <<>>
       /\ \A k \in DOMAIN refs : Emitted(N, k)' =>
            /\ Offset(N, k)' + Wide(N)' <= Len(cells)
            /\ (Symbolic(N, refs[k])' /\ Defined(refs[k])) =>
                 \A w \in 1 .. Wide(N)' : cells[Offset(N, k)' + w] = Value(N, refs[k])'[w]

LineRecords(refs, N) ==
  /\ DOMAIN forward_refs \subseteq DOMAIN forward_refs'
  /\ \A q \in DOMAIN forward_refs : forward_refs'[q] = forward_refs[q]
  /\ \A q \in DOMAIN forward_refs' \ DOMAIN forward_refs : \A r : r = forward_refs'[q] =>
       \E k \in DOMAIN refs : Emitted(N, k)' /\ NamedIn(r, N, k)'
  /\ \A k \in DOMAIN refs : (Emitted(N, k)' /\ Pending(N, k)') =>
       \E q \in DOMAIN forward_refs' : \A r : r = forward_refs'[q] => NamedIn(r, N, k)'

\* A line more keeps the layout.
LEMMA LineLayout ==
  ASSUME IInv, TypeOK', EInv, Layout, NEW op, NEW def, NEW refs, NEW n, Read(op, def, refs, n),
         pc = "pass1", pc' \in {"pass1", "word"}, base_address' = base_address,
         NEW cells \in Seq(Cell), output' = output \o cells, NEW N, N = Len(src) + 1,
         LineFills(op, refs, n, cells, N), WordAt'
  PROVE  Layout'
<1>1. TypeOK /\ TableOK /\ AboveOK /\ AddressTracksOutput
  BY DEF IInv, EInv, Active, Judged
<1>2. /\ DOMAIN src' = 1 .. N /\ Len(src') = N /\ Len(src) \in Nat /\ DOMAIN src = 1 .. Len(src)
      /\ src'[N].op = op /\ src'[N].refs = refs /\ src'[N].n = n
      /\ src'[N].at = address /\ src'[N].pos = Len(output) /\ (FlatUpTo(N)' => Flat)
  BY <1>1, NewOperands
<1>3. ASSUME NEW i \in 1 .. Len(src)
      PROVE  /\ i \in DOMAIN src /\ src'[i] = src[i] /\ (FlatUpTo(i)' <=> FlatUpTo(i))
             /\ Wide(i)' = Wide(i) /\ \A k : Offset(i, k)' = Offset(i, k)
  BY <1>1, OldOperands
<1>4. \A i \in 1 .. N : i \in 1 .. Len(src) \/ i = N
  BY <1>2
<1>5. ShapeOK'
  <2>1. ASSUME NEW i \in 1 .. N
        PROVE  /\ src'[i].op = "la" => Len(src'[i].refs) = 1 /\ src'[i].n = 4
               /\ src'[i].op = "branch" => Len(src'[i].refs) = 1 /\ src'[i].n = 2
               /\ src'[i].op = "word" => src'[i].n = 3 * Len(src'[i].refs) /\ src'[i].n < AddrMod
               /\ src'[i].op \notin RefOps => src'[i].refs = <<>>
    <3>1. CASE i = N
      BY <1>2, <3>1 DEF LineFills
    <3>2. CASE i \in 1 .. Len(src)
      BY <1>3, <3>2, ZenonT(60) DEF Layout, ShapeOK
    <3> QED BY <1>4, <3>1, <3>2
  <2> QED BY <1>2, <2>1 DEF ShapeOK
<1>6. PlacedOK'
  <2>1. ASSUME NEW i \in 1 .. N, FlatUpTo(i)'
        PROVE  src'[i].at = base_address + src'[i].pos
    <3>1. CASE i = N
      BY <1>1, <1>2, <2>1, <3>1 DEF AddressTracksOutput
    <3>2. CASE i \in 1 .. Len(src)
      BY <1>3, <2>1, <3>2 DEF Layout, PlacedOK
    <3> QED BY <1>4, <3>1, <3>2
  <2> QED BY <1>2, <2>1 DEF PlacedOK
<1>7. Len(output) \in Nat /\ Len(cells) \in Nat /\ Len(output') = Len(output) + Len(cells)
  BY <1>1, ConcatProperties, LenProperties DEF TypeOK
<1>8. InsideOK'
  <2>1. ASSUME errors' = <<>>, NEW i \in 1 .. N, NEW k \in DOMAIN src'[i].refs, Emitted(i, k)'
        PROVE  src'[i].pos + Offset(i, k)' + Wide(i)' <= Len(output')
    <3>1. CASE i = N
      <4>1. k \in DOMAIN refs /\ src'[i].pos = Len(output) /\ Offset(N, k)' + Wide(N)' <= Len(cells)
        BY <1>2, <2>1, <3>1 DEF LineFills
      <4>2. Offset(N, k)' \in Int /\ Wide(N)' \in Int
        <5>1. src'[N] \in SourceLine
          BY <1>2, ElementOfSeq DEF TypeOK
        <5>2. refs \in Seq(Operands) /\ k \in Nat
          BY <1>2, <4>1, <5>1, LenProperties DEF SourceLine
        <5> QED BY <5>2 DEF Offset, Wide
      <4> QED BY <1>7, <3>1, <4>1, <4>2
    <3>2. CASE i \in 1 .. Len(src)
      <4>1. src'[i] = src[i] /\ i \in DOMAIN src /\ Wide(i)' = Wide(i) /\ Offset(i, k)' = Offset(i, k)
        BY <1>3, <3>2
      <4>2. Emitted(i, k) /\ errors = <<>>
        BY <2>1, <4>1 DEF Emitted, ToCome, LineFills
      <4>3. src[i].pos + Offset(i, k) + Wide(i) <= Len(output)
        BY <4>1, <4>2 DEF Layout, InsideOK, Emitted
      <4>4. src[i].pos \in Nat /\ Offset(i, k) \in Nat /\ Wide(i) \in Nat
        BY <1>1, <4>1, OperandPlace, SMTT(30)
      <4> QED BY <1>7, <4>1, <4>3, <4>4
    <3> QED BY <1>4, <3>1, <3>2
  <2> QED BY <1>2, <2>1 DEF InsideOK
<1> QED BY <1>5, <1>6, <1>8 DEF Layout

\* A line more keeps the operands right: those of the lines before it hold
\* what they held, its own are right or recorded.
LEMMA LineFilled ==
  ASSUME IInv, TypeOK', EInv, Layout, Filled, NEW op, NEW def, NEW refs, NEW n,
         Read(op, def, refs, n),
         pc = "pass1", pc' \in {"pass1", "word"}, base_address' = base_address, next' = next,
         NEW cells \in Seq(Cell), output' = output \o cells, NEW N, N = Len(src) + 1,
         LineFills(op, refs, n, cells, N), LineRecords(refs, N)
  PROVE  Filled'
<1>1. TypeOK /\ TableOK /\ AboveOK /\ next = 1
  BY DEF IInv, EInv, Active, Judged
<1>2. /\ DOMAIN src' = 1 .. N /\ Len(src') = N /\ Len(src) \in Nat /\ DOMAIN src = 1 .. Len(src)
      /\ src'[N].op = op /\ src'[N].refs = refs /\ src'[N].pos = Len(output)
      /\ \A l \in Labels : Above(N, l)' # {} <=> Defined(l)
      /\ \A l : Symbolic(N, l)' => l \in Labels
  BY <1>1, NewOperands
<1>3. ASSUME NEW i \in 1 .. Len(src)
      PROVE  /\ i \in DOMAIN src /\ i # N /\ src'[i] = src[i] /\ (Settled(i)' => Settled(i))
             /\ Wide(i)' = Wide(i)
             /\ \A k : Offset(i, k)' = Offset(i, k) /\ OperandAt(i, k)' = OperandAt(i, k)
             /\ \A l : Above(i, l)' = Above(i, l) /\ (Symbolic(i, l)' <=> Symbolic(i, l))
             /\ \A l \in Labels : Above(i, l) # {} => Value(i, l)' = Value(i, l)
             /\ \A k : Emitted(i, k)' <=> Emitted(i, k)
             /\ \A k : Pending(i, k)' <=> Pending(i, k)
             /\ \A r, k : NamedIn(r, i, k)' <=> NamedIn(r, i, k)
  <2>1. /\ i \in DOMAIN src /\ src'[i] = src[i] /\ i # N
        /\ \A k : OperandAt(i, k)' = OperandAt(i, k)
    BY <1>1, <1>2, OldOperands
  <2>2. \A k : Emitted(i, k)' <=> Emitted(i, k)
    BY <1>2, <2>1 DEF Emitted, ToCome
  <2>3. \A r, k : NamedIn(r, i, k)' <=> NamedIn(r, i, k)
    BY <2>1 DEF NamedIn
  <2> QED BY <1>1, <2>1, <2>2, <2>3, OldOperands, OldJudged
<1>4. \A i \in 1 .. N : i \in 1 .. Len(src) \/ i = N
  BY <1>2
<1>5. /\ Len(output) \in Nat /\ Len(cells) \in Nat /\ Len(output') = Len(output) + Len(cells)
      /\ \A p \in 1 .. Len(output) : output'[p] = output[p]
      /\ \A p \in 1 .. Len(cells) : output'[Len(output) + p] = cells[p]
  <2>1. output \in Seq(Cell) /\ Len(output) \in Nat /\ Len(cells) \in Nat
    BY <1>1, LenProperties DEF TypeOK
  <2>2. /\ Len(output') = Len(output) + Len(cells)
        /\ \A p \in 1 .. Len(output) + Len(cells) :
             output'[p] = IF p <= Len(output) THEN output[p] ELSE cells[p - Len(output)]
    BY <2>1, ConcatProperties
  <2> QED BY <2>1, <2>2
<1>6. KnownOK'
  <2> SUFFICES ASSUME errors' = <<>>, NEW i \in 1 .. N, Settled(i)', NEW k \in DOMAIN src'[i].refs,
                      NEW l, l = src'[i].refs[k],
                      Emitted(i, k)', Symbolic(i, l)', Above(i, l)' # {}
               PROVE  Holds(i, k, l)'
    BY <1>2 DEF KnownOK
  <2>1. errors = <<>> /\ errors' = <<>>
    BY DEF LineFills
  <2>2. CASE i = N
    <3>1. /\ k \in DOMAIN refs /\ l = refs[k] /\ Defined(l) /\ Emitted(N, k)'
      BY <1>2, <2>2
    <3>2. /\ Offset(N, k)' + Wide(N)' <= Len(cells)
          /\ \A w \in 1 .. Wide(N)' : cells[Offset(N, k)' + w] = Value(N, l)'[w]
      BY <2>1, <2>2, <3>1 DEF LineFills
    <3>3. Offset(N, k)' \in Nat /\ Wide(N)' \in Nat
      <4>1. src'[N] \in SourceLine
        BY <1>2, ElementOfSeq DEF TypeOK
      <4>2. refs \in Seq(Operands)
        BY <1>2, <4>1 DEF SourceLine
      <4>3. k \in 1 .. Len(refs) /\ Len(refs) \in Nat
        BY <3>1, <4>2, LenProperties
      <4> QED BY <4>3 DEF Offset, Wide
    <3>4. ASSUME NEW w \in 1 .. Wide(N)'
          PROVE  output'[src'[N].pos + Offset(N, k)' + w] = Value(N, l)'[w]
      <4>1. PICK o, p : o = Offset(N, k)' /\ p = o + w
        OBVIOUS
      <4>2. p \in 1 .. Len(cells) /\ src'[N].pos + Offset(N, k)' + w = Len(output) + p
        BY <1>2, <1>5, <3>2, <3>3, <4>1, SMTT(30)
      <4> QED BY <1>5, <3>2, <4>1, <4>2
    <3> QED BY <2>2, <3>4 DEF Holds
  <2>3. CASE i \in 1 .. Len(src)
    <3>1. /\ i \in DOMAIN src /\ k \in DOMAIN src[i].refs /\ l = src[i].refs[k] /\ l \in Labels
          /\ Emitted(i, k) /\ Symbolic(i, l) /\ Above(i, l) # {} /\ Settled(i)
      BY <1>3, <2>3 DEF Symbolic
    <3>2. Holds(i, k, l)
      BY <2>1, <3>1 DEF Filled, KnownOK
    <3>3. src[i].pos + Offset(i, k) + Wide(i) <= Len(output)
      BY <2>1, <3>1 DEF Layout, InsideOK
    <3>4. \A w \in 1 .. Wide(i) : src[i].pos + Offset(i, k) + w \in 1 .. Len(output)
      <4>1. /\ src[i].pos \in Nat /\ Offset(i, k) \in Nat /\ Wide(i) \in Nat
        <5>1. TypeOK /\ i \in DOMAIN src /\ k \in DOMAIN src[i].refs
          BY <1>1, <3>1
        <5>2. src[i].pos \in Nat /\ Offset(i, k) \in Nat /\ Wide(i) \in {1, 3}
          BY ONLY <5>1, OperandPlace
        <5> QED BY <5>2
      <4> QED BY ONLY <1>5, <3>3, <4>1, SMTT(30)
    <3> QED BY <1>1, <1>3, <1>5, <2>3, <3>1, <3>2, <3>4, HoldsStill
  <2> QED BY <1>4, <2>2, <2>3
<1>7. NamedOK'
  <2> SUFFICES ASSUME NEW q \in DOMAIN forward_refs', NEW r, r = forward_refs'[q]
               PROVE  \E k \in DOMAIN src'[r.line_num].refs :
                        Emitted(r.line_num, k)' /\ NamedIn(r, r.line_num, k)'
    BY DEF NamedOK, NamedIn, Emitted, ToCome, OperandAt, Plus, Offset
  <2>1. CASE q \notin DOMAIN forward_refs
    <3>1. PICK k \in DOMAIN refs : Emitted(N, k)' /\ NamedIn(r, N, k)'
      BY <2>1 DEF LineRecords
    <3> QED BY <1>2, <3>1 DEF NamedIn
  <2>2. CASE q \in DOMAIN forward_refs
    <3>1. r = forward_refs[q]
      BY <2>2 DEF LineRecords
    <3>2. PICK k : Emitted(r.line_num, k) /\ NamedIn(r, r.line_num, k)
      BY <2>2, <3>1 DEF Filled, NamedOK
    <3>3. PICK i : i = r.line_num
      OBVIOUS
    <3>4. i \in 1 .. Len(src)
      BY <1>2, <2>2, <3>1, <3>3 DEF EInv, Active, Judged, RefsRight, Right
    <3> QED BY <1>3, <3>2, <3>3, <3>4 DEF Emitted
  <2> QED BY <2>1, <2>2
<1>8. ListedOK'
  <2> SUFFICES ASSUME NEW i \in 1 .. N, NEW k \in DOMAIN src'[i].refs,
                      Emitted(i, k)', Pending(i, k)'
               PROVE  \E q \in DOMAIN forward_refs' :
                        \A r : r = forward_refs'[q] => NamedIn(r, i, k)'
    BY <1>2 DEF ListedOK, NamedIn, OperandAt, Plus, Offset
  <2>1. CASE i = N
    BY <1>2, <2>1 DEF LineRecords
  <2>2. CASE i \in 1 .. Len(src)
    <3>1. i \in DOMAIN src /\ k \in DOMAIN src[i].refs /\ Emitted(i, k) /\ Pending(i, k)
      BY <1>3, <2>2
    <3>2. PICK q \in DOMAIN forward_refs : NamedIn(forward_refs[q], i, k)
      BY <3>1 DEF Filled, ListedOK
    <3>3. q \in DOMAIN forward_refs' /\ forward_refs'[q] = forward_refs[q]
      BY DEF LineRecords
    <3> QED BY <1>3, <2>2, <3>2, <3>3
  <2> QED BY <1>4, <2>1, <2>2
<1>9. PatchedOK'
  <2>1. 1 .. next' - 1 = {}
    BY <1>1
  <2> QED BY <2>1 DEF PatchedOK
<1> QED BY <1>6, <1>7, <1>8, <1>9 DEF Filled

-----------------------------------------------------------------------------
(* Reading a line: the kinds of line.                                      *)

\* Any line keeps the invariant that does so by itself.
LEMMA LineLinked ==
  ASSUME IInv, TypeOK', EInv, LInv, NEW op, NEW def, NEW refs, NEW n, Read(op, def, refs, n),
         pc = "pass1", pc' \in {"pass1", "word"}, base_address' = base_address, next' = next,
         NEW cells \in Seq(Cell), output' = output \o cells, NEW N, N = Len(src) + 1,
         LineFills(op, refs, n, cells, N), LineRecords(refs, N), WordAt'
  PROVE  LInv'
<1>1. Layout /\ Filled
  BY DEF LInv, Active
<1>2. Layout'
  BY <1>1, LineLayout
<1>3. Filled'
  BY <1>1, LineFilled
<1> QED BY <1>2, <1>3 DEF LInv, LinkedNames

\* A line without operands.
LEMMA PlainLine ==
  ASSUME IInv, TypeOK', EInv, LInv, NEW op, op \notin RefOps, NEW def, NEW n,
         Read(op, def, <<>>, n), pc = "pass1", pc' = "pass1",
         UNCHANGED <<base_address, next, forward_refs>>,
         NEW cells \in Seq(Cell), output' = output \o cells,
         errors' = <<>> => errors = <<>>
  PROVE  LInv'
<1>1. PICK N : N = Len(src) + 1
  OBVIOUS
<1>2. LineFills(op, <<>>, n, cells, N)
  BY DEF LineFills, RefOps
<1>3. LineRecords(<<>>, N)
  BY DEF LineRecords
<1>4. WordAt'
  BY DEF WordAt
<1> QED BY <1>1, <1>2, <1>3, <1>4, LineLinked

\* A branch or a la: its operand is known, or it is a number, or it gets a
\* reference.
LEMMA OperandLine ==
  ASSUME IInv, TypeOK', EInv, LInv, NEW op \in {"la", "branch"}, NEW x, NEW n,
         n = IF op = "la" THEN 4 ELSE 2,
         Read(op, {}, <<x>>, n), pc = "pass1", pc' = "pass1",
         UNCHANGED <<base_address, next>>,
         NEW cells \in Seq(Cell), output' = output \o cells,
         errors' = <<>> =>
           /\ errors = <<>> /\ Len(cells) = n
           /\ (x \in Labels /\ Defined(x) /\ (Numeric(x) => op = "branch")) =>
                IF op = "branch" THEN cells[2] = Displacement(labels[x], address) % ByteMod
                ELSE \A w \in 1 .. 3 : cells[1 + w] = Address24(labels[x])[w],
         \/ forward_refs' = forward_refs /\ (x \in Labels => Numeric(x) \/ Defined(x))
         \/ \E type : forward_refs' = Append(forward_refs, Reference(1, x, type))
  PROVE  LInv'
<1>1. PICK N : N = Len(src) + 1
  OBVIOUS
<1>2. TypeOK /\ TableOK /\ op # "word"
  BY DEF IInv, EInv, Active, Judged
<1>3. /\ src'[N].op = op /\ src'[N].refs = <<x>> /\ src'[N].at = address
      /\ \A l : Symbolic(N, l)' <=> l \in Labels /\ (Numeric(l) => op = "branch" /\ Defined(l))
      /\ \A l \in Labels : Above(N, l)' # {} <=> Defined(l)
      /\ \A l \in Labels : Defined(l) => Meaning(N, l)' = labels[l]
  BY <1>1, <1>2, NewOperands
<1>4. \A k : Offset(N, k)' = 1 /\ OperandAt(N, k)' = Plus(address, 1)
  BY <1>2, <1>3 DEF Offset, OperandAt, Plus
<1>5. Wide(N)' = IF op = "branch" THEN 1 ELSE 3
  BY <1>3 DEF Wide
<1>6. LineFills(op, <<x>>, n, cells, N)
  <2>1. ASSUME errors' = <<>>, Symbolic(N, x)', Defined(x), NEW w \in 1 .. Wide(N)'
        PROVE  cells[1 + w] = Value(N, x)'[w]
    <3>1. /\ x \in Labels /\ (Numeric(x) => op = "branch")
          /\ Meaning(N, x)' = labels[x]
      BY <1>3, <2>1
    <3>2. CASE op = "branch"
      <4>1. w = 1 /\ cells[2] = Displacement(labels[x], address) % ByteMod
        BY <1>5, <2>1, <3>1, <3>2
      <4>2. Value(N, x)' = << Displacement(labels[x], address) % ByteMod >>
        BY <1>3, <3>1, <3>2 DEF Value, Displacement, Minus, Signed, Plus
      <4> QED BY <4>1, <4>2
    <3>3. CASE op # "branch"
      <4>1. w \in 1 .. 3 /\ cells[1 + w] = Address24(labels[x])[w]
        BY <1>5, <2>1, <3>1, <3>3
      <4>2. Value(N, x)' = Address24(labels[x])
        BY <1>3, <3>1, <3>3 DEF Value, Address24
      <4> QED BY <4>1, <4>2
    <3> QED BY <3>2, <3>3
  <2>2. ASSUME errors' = <<>> PROVE 1 + Wide(N)' <= Len(cells)
    <3>1. Len(cells) = n
      BY <2>2
    <3>2. CASE op = "branch"
      BY <1>5, <3>1, <3>2
    <3>3. CASE op # "branch"
      BY <1>5, <3>1, <3>3
    <3> QED BY <3>2, <3>3
  <2>3. Len(<<x>>) = 1 /\ DOMAIN <<x>> = {1} /\ <<x>>[1] = x
    OBVIOUS
  <2> QED BY <1>2, <1>4, <2>1, <2>2, <2>3 DEF LineFills, RefOps
<1>7. LineRecords(<<x>>, N)
  <2>1. CASE forward_refs' = forward_refs /\ (x \in Labels => Numeric(x) \/ Defined(x))
    <3>1. \A k \in DOMAIN <<x>> : ~ Pending(N, k)'
      BY <1>3, <2>1 DEF Pending
    <3> QED BY <2>1, <3>1 DEF LineRecords
  <2>2. ASSUME NEW type, NEW r, r = Reference(1, x, type),
               forward_refs' = Append(forward_refs, r)
        PROVE  LineRecords(<<x>>, N)
    <3>1. /\ DOMAIN forward_refs' = 1 .. Len(forward_refs) + 1
          /\ DOMAIN forward_refs = 1 .. Len(forward_refs) /\ Len(forward_refs) \in Nat
          /\ \A k \in 1 .. Len(forward_refs) : forward_refs'[k] = forward_refs[k]
          /\ forward_refs'[Len(forward_refs) + 1] = r
      BY <1>2, <2>2, AppendProperties, LenProperties DEF TypeOK
    <3>2. r.line_num = N /\ r.label = x /\ r.address = Plus(address, 1)
      BY <1>1, <2>2 DEF Reference, ThisLine
    <3>3. NamedIn(r, N, 1)' /\ Emitted(N, 1)'
      BY <1>3, <1>4, <3>2 DEF NamedIn, Emitted, ToCome
    <3>4. DOMAIN <<x>> = {1}
      OBVIOUS
    <3>5. \A q \in DOMAIN forward_refs' \ DOMAIN forward_refs : forward_refs'[q] = r
      <4>1. PICK L \in Nat : L = Len(forward_refs)
        BY <3>1
      <4>2. DOMAIN forward_refs' = 1 .. L + 1 /\ DOMAIN forward_refs = 1 .. L
            /\ forward_refs'[L + 1] = r
        BY ONLY <3>1, <4>1
      <4>3. \A q \in (1 .. L + 1) \ (1 .. L) : q = L + 1
        BY ONLY <4>1, SMT
      <4> QED BY ONLY <4>2, <4>3, Zenon
    <3>6. Len(forward_refs) + 1 \in DOMAIN forward_refs'
      BY <3>1
    <3> QED BY <3>1, <3>3, <3>4, <3>5, <3>6 DEF LineRecords
  <2> QED BY <2>1, <2>2
<1>8. WordAt'
  BY DEF WordAt
<1> QED BY <1>1, <1>6, <1>7, <1>8, LineLinked

\* No .word line has more operands than the address space has room for.
WordsFit == \A ops \in WordLines : 3 * Len(ops) < AddrMod

\* A .word begins: its operands are all to come.
LEMMA WordBegins ==
  ASSUME IInv, TypeOK', EInv, LInv, WordsFit, NEW ops \in WordLines, WordLine(ops)
  PROVE  LInv'
<1>1. PICK N : N = Len(src) + 1
  OBVIOUS
<1>2. /\ TypeOK /\ TableOK /\ pc = "pass1" /\ pc' = "word"
      /\ Read("word", {}, ops, 3 * Len(ops)) /\ word'.todo = ops
      /\ UNCHANGED <<base_address, next, errors, forward_refs, address, output>>
  BY DEF IInv, EInv, Active, Judged, WordLine, Reading, code
<1>3. /\ DOMAIN src' = 1 .. N /\ Len(src') = N
      /\ src'[N].op = "word" /\ src'[N].refs = ops /\ src'[N].at = address
      /\ src'[N].pos = Len(output)
  BY <1>1, <1>2, NewOperands
<1>4. Len(ops) \in Nat /\ DOMAIN ops = 1 .. Len(ops)
  BY SourceAssumption, LenProperties
<1>5. \A k \in DOMAIN ops : ~ Emitted(N, k)'
  BY <1>2, <1>3, <1>4 DEF Emitted, ToCome
<1>6. <<>> \in Seq(Cell) /\ output' = output \o <<>>
  BY <1>2, ConcatEmptySeq, CellValues DEF TypeOK
<1>7. LineFills("word", ops, 3 * Len(ops), <<>>, N)
  BY <1>2, <1>5 DEF LineFills, RefOps, WordsFit
<1>8. LineRecords(ops, N)
  BY <1>2, <1>5 DEF LineRecords
<1>9. WordAt'
  <2>1. address \in Addr /\ Len(output) \in Nat
    BY <1>2, LenProperties DEF TypeOK
  <2>2. Plus(address, 0) = address
    BY <2>1, WidthAssumption DEF Plus, Addr
  <2>3. Len(ops) - Len(ops) = 0 /\ 3 * 0 = 0
    BY <1>4
  <2> QED BY <1>2, <1>3, <2>1, <2>2, <2>3 DEF WordAt, Plus
<1> QED BY <1>1, <1>2, <1>6, <1>7, <1>8, <1>9, LineLinked

-----------------------------------------------------------------------------
(* Steps that read no line.                                                *)

\* Where an operand is and what it must hold depends on the source alone.
LEMMA SameSource ==
  ASSUME src' = src
  PROVE  /\ \A i : /\ Wide(i)' = Wide(i) /\ (FlatUpTo(i)' <=> FlatUpTo(i))
                   /\ Settled(i)' <=> Settled(i)
         /\ \A i, k : Offset(i, k)' = Offset(i, k) /\ OperandAt(i, k)' = OperandAt(i, k)
         /\ \A i, l : /\ Above(i, l)' = Above(i, l) /\ (Symbolic(i, l)' <=> Symbolic(i, l))
                      /\ Value(i, l)' = Value(i, l)
         /\ \A i, k : Pending(i, k)' <=> Pending(i, k)
         /\ \A r, i, k : NamedIn(r, i, k)' <=> NamedIn(r, i, k)
<1>1. \A i : /\ Wide(i)' = Wide(i) /\ (FlatUpTo(i)' <=> FlatUpTo(i))
             /\ Settled(i)' <=> Settled(i)
  <2>1. \A i : Wide(i)' = Wide(i) /\ (FlatUpTo(i)' <=> FlatUpTo(i))
    BY DEF Wide, FlatUpTo, Exact
  <2>2. \A i : Alone(i)' <=> Alone(i)
    BY DEF Alone, Cells, Plus
  <2> QED BY <2>1, <2>2 DEF Settled
<1>2. \A i, k : Offset(i, k)' = Offset(i, k) /\ OperandAt(i, k)' = OperandAt(i, k)
  BY DEF Offset, OperandAt, Plus
<1>3. \A l : DefinedBy(l)' = DefinedBy(l)
  BY DEF DefinedBy
<1>4. \A i, l : Above(i, l)' = Above(i, l) /\ (Symbolic(i, l)' <=> Symbolic(i, l))
  BY <1>3 DEF Above, Symbolic, Numeric
<1>5. \A i, l : Meaning(i, l)' = Meaning(i, l)
  BY <1>3 DEF Meaning, Latest
<1>6. \A i, l : Value(i, l)' = Value(i, l)
  BY <1>5 DEF Value, Displacement, Minus, Signed, Plus, Address24
<1>7. \A i, k : Pending(i, k)' <=> Pending(i, k)
  BY <1>4 DEF Pending
<1>8. \A r, i, k : NamedIn(r, i, k)' <=> NamedIn(r, i, k)
  BY <1>2 DEF NamedIn
<1> QED BY <1>1, <1>2, <1>4, <1>6, <1>7, <1>8

\* Which operands of a .word have been emitted after one more.
LEMMA OneMoreOperand ==
  ASSUME TypeOK, WordOK, pc = "word", src' = src, word'.todo = Tail(word.todo),
         IF Len(word.todo) = 1 THEN pc' = "pass1" ELSE pc' = "word",
         NEW N, N = Len(src), NEW m, m = Len(src[N].refs) - Len(word.todo) + 1
  PROVE  /\ N \in DOMAIN src /\ m \in DOMAIN src[N].refs
         /\ pc' # "word" => m = Len(src[N].refs)
         /\ pc' = "word" => Len(src[N].refs) - Len(word'.todo) = m
         /\ \A i, k : Emitted(i, k)' <=> Emitted(i, k) \/ (i = N /\ k = m)
<1>1. PICK L, t : L = Len(src[N].refs) /\ t = Len(word.todo)
  OBVIOUS
<1>2. /\ N \in DOMAIN src /\ m \in DOMAIN src[N].refs
      /\ word.todo \in Seq(Operands) /\ word.todo # <<>>
  BY NextOperand DEF TypeOK
<1>3. DOMAIN src[N].refs = 1 .. L /\ L \in Nat
  BY <1>1, <1>2, SrcShape
<1>4. t \in Nat \ {0} /\ Len(word'.todo) = t - 1
  BY <1>1, <1>2, LenProperties, HeadTailProperties, EmptySeq
<1>5. m = L - t + 1 /\ t <= L
  BY <1>1 DEF WordOK
<1>6. /\ pc' # "word" => m = L
      /\ pc' = "word" => L - Len(word'.todo) = m
  <2>1. pc' # "word" => t = 1
    BY <1>1
  <2>2. t = 1 => m = L
    BY <1>3, <1>5
  <2>3. L - (t - 1) = m
    BY ONLY <1>3, <1>4, <1>5
  <2> QED BY <1>4, <2>1, <2>2, <2>3
<1>7. ASSUME NEW k \in 1 .. L
      PROVE  ~ ToCome(N, k)' <=> ~ ToCome(N, k) \/ k = m
  <2>1. ToCome(N, k) <=> k > L - t
    BY <1>1 DEF ToCome
  <2>2. ToCome(N, k)' <=> pc' = "word" /\ k > L - (t - 1)
    BY <1>1, <1>4 DEF ToCome
  <2>3. t = 1 => ~ (k > L - (t - 1))
    BY <1>3
  <2>4. k > L - (t - 1) <=> k > L - t /\ k # m
    BY <1>3, <1>4, <1>5
  <2> QED BY <1>1, <2>1, <2>2, <2>3, <2>4
<1>8. ASSUME NEW i, i # N, NEW k
      PROVE  ~ ToCome(i, k)' /\ ~ ToCome(i, k)
  BY <1>8 DEF ToCome
<1>9. ASSUME NEW i, NEW k
      PROVE  Emitted(i, k)' <=> Emitted(i, k) \/ (i = N /\ k = m)
  <2>1. CASE i = N
    BY <1>2, <1>3, <1>7, <2>1 DEF Emitted
  <2>2. CASE i # N
    BY <1>8, <2>2 DEF Emitted
  <2> QED BY <2>1, <2>2
<1> QED BY <1>1, <1>2, <1>6, <1>9

\* The addresses of the operands of a .word: 3 and 3 more.
LEMMA NextWord ==
  ASSUME NEW a \in Addr, NEW m \in Nat \ {0}, 3 * m < AddrMod
  PROVE  Plus(Plus(a, 3 * (m - 1)), 3) = Plus(a, 3 * m)
BY WidthAssumption DEF Plus, Addr

\* One operand of a .word.
LEMMA WordEmits ==
  ASSUME IInv, TypeOK', EInv, LInv, pc = "word",
         NEW cells \in Seq(Cell), Len(cells) = 3, EmitWord(cells),
         NEW h, h = Head(word.todo),
         (h \in Labels /\ ~ Numeric(h) /\ Defined(h)) => cells = Address24(labels[h]),
         \/ forward_refs' = forward_refs /\ (h \in Labels => Numeric(h) \/ Defined(h))
         \/ \E type : forward_refs' = Append(forward_refs,
              [address |-> address, label |-> h, ref_type |-> type, line_num |-> Len(src)])
  PROVE  LInv'
<1>1. /\ TypeOK /\ Judged /\ next = 1 /\ Layout /\ Filled
      /\ UNCHANGED <<src, labels, errors, next, base_address>> /\ word'.todo = Tail(word.todo)
      /\ IF Len(word.todo) = 1 THEN pc' = "pass1" ELSE pc' = "word"
      /\ output' = output \o cells /\ address' = Plus(address, 3)
  <2>1. /\ UNCHANGED <<src, labels, errors, next, base_address>>
        /\ word' = [word EXCEPT !.todo = Tail(@)]
        /\ output' = output \o cells /\ address' = Plus(address, 3)
        /\ IF Len(word.todo) = 1 THEN pc' = "pass1" ELSE pc' = pc
    BY DEF EmitWord
  <2>2. word \in [todo : Seq(Operands), at : Addr, mark : Nat]
    BY DEF EInv, TypeOK
  <2> QED BY <2>1, <2>2 DEF EInv, Active, Judged, LInv
<1>2. PICK N, m, a, p : /\ N = Len(src) /\ m = Len(src[N].refs) - Len(word.todo) + 1
                        /\ a = src[N].at /\ p = src[N].pos
  OBVIOUS
<1>3. /\ N \in DOMAIN src /\ m \in DOMAIN src[N].refs /\ src[N].op = "word" /\ src[N].def = {}
      /\ src[N].refs[m] = h
      /\ pc' # "word" => m = Len(src[N].refs)
      /\ pc' = "word" => Len(src[N].refs) - Len(word'.todo) = m
  <2>1. WordOK
    BY <1>1 DEF Judged
  <2>2. /\ src[N].op = "word" /\ src[N].def = {} /\ src[N].refs[m] = h
    BY <1>1, <1>2, <2>1, NextOperand
  <2>3. /\ N \in DOMAIN src /\ m \in DOMAIN src[N].refs
        /\ pc' # "word" => m = Len(src[N].refs)
        /\ pc' = "word" => Len(src[N].refs) - Len(word'.todo) = m
    <3>1. /\ TypeOK /\ pc = "word" /\ src' = src /\ word'.todo = Tail(word.todo)
          /\ IF Len(word.todo) = 1 THEN pc' = "pass1" ELSE pc' = "word"
      BY <1>1
    <3> QED BY ONLY <1>2, <2>1, <3>1, OneMoreOperand
  <2> QED BY <2>2, <2>3
<1>4. \A i, k : Emitted(i, k)' <=> Emitted(i, k) \/ (i = N /\ k = m)
  BY <1>1, <1>2, OneMoreOperand, ZenonT(60) DEF Judged
<1>5. /\ m \in Nat \ {0} /\ a \in Addr /\ p \in Nat
      /\ m <= Len(src[N].refs) /\ Len(src[N].refs) \in Nat
  <2>1. TypeOK /\ N \in DOMAIN src /\ m \in DOMAIN src[N].refs
    BY <1>1, <1>3
  <2>2. m \in Nat \ {0} /\ src[N].at \in Addr /\ src[N].pos \in Nat
    BY ONLY <2>1, OperandPlace
  <2>3. DOMAIN src[N].refs = 1 .. Len(src[N].refs) /\ Len(src[N].refs) \in Nat
    BY <2>1, SrcShape
  <2>4. m <= Len(src[N].refs)
    BY ONLY <2>1, <2>3
  <2> QED BY <1>2, <2>2, <2>3, <2>4
<1>6. src[N].n = 3 * Len(src[N].refs) /\ src[N].n < AddrMod /\ 3 * m < AddrMod
  <2>1. src[N].n = 3 * Len(src[N].refs) /\ src[N].n < AddrMod
    BY <1>1, <1>3 DEF Layout, ShapeOK
  <2> QED BY <1>5, <2>1, WidthAssumption
<1>7. address = Plus(a, 3 * (m - 1)) /\ Len(output) = p + 3 * (m - 1)
  <2>1. Len(src[N].refs) - Len(word.todo) = m - 1
    <3>1. Len(word.todo) \in Nat
      BY <1>1, LenProperties DEF TypeOK
    <3> QED BY <1>2, <1>5, <3>1
  <2> QED BY <1>1, <1>2, <2>1 DEF Layout, WordAt
<1>8. address' = Plus(a, 3 * m)
  BY <1>1, <1>5, <1>6, <1>7, NextWord
<1>9. /\ Len(output) \in Nat /\ Len(output') = Len(output) + 3 /\ Len(output') = p + 3 * m
      /\ \A x \in 1 .. Len(output) : output'[x] = output[x]
      /\ \A x \in 1 .. 3 : output'[Len(output) + x] = cells[x]
  <2>1. output \in Seq(Cell) /\ Len(output) \in Nat
    BY <1>1, LenProperties DEF TypeOK
  <2>2. /\ Len(output') = Len(output) + Len(cells)
        /\ \A x \in 1 .. Len(output) + Len(cells) :
             output'[x] = IF x <= Len(output) THEN output[x] ELSE cells[x - Len(output)]
    BY <1>1, <2>1, ConcatProperties
  <2>3. Len(output) + 3 = p + 3 * m
    BY <1>5, <1>7
  <2> QED BY <2>1, <2>2, <2>3, SMTT(30)
<1>10. Offset(N, m) = 3 * (m - 1) /\ Wide(N) = 3 /\ OperandAt(N, m) = address
  BY <1>2, <1>3, <1>7 DEF Offset, Wide, OperandAt
<1>12. ShapeOK' /\ PlacedOK'
  BY <1>1, SameSource DEF Layout, ShapeOK, PlacedOK
<1>13. WordAt'
  BY <1>1, <1>2, <1>3, <1>8, <1>9 DEF WordAt, Plus
<1>14. InsideOK'
  <2> SUFFICES ASSUME errors = <<>>, NEW i \in DOMAIN src, NEW k \in DOMAIN src[i].refs,
                      Emitted(i, k) \/ (i = N /\ k = m)
               PROVE  src[i].pos + Offset(i, k) + Wide(i) <= Len(output')
    BY <1>1, <1>4, SameSource DEF InsideOK
  <2>1. CASE Emitted(i, k)
    <3>1. src[i].pos + Offset(i, k) + Wide(i) <= Len(output)
      BY <1>1, <2>1 DEF Layout, InsideOK
    <3>2. src[i].pos \in Nat /\ Offset(i, k) \in Nat /\ Wide(i) \in {1, 3}
      BY <1>1, OperandPlace
    <3> QED BY <1>9, <3>1, <3>2
  <2>2. CASE i = N /\ k = m
    <3>1. src[i].pos = p /\ Offset(i, k) = 3 * (m - 1) /\ Wide(i) = 3
      BY <1>2, <1>10, <2>2
    <3>2. p + 3 * (m - 1) + 3 = p + 3 * m
      BY ONLY <1>5
    <3> QED BY <1>9, <3>1, <3>2
  <2> QED BY <2>1, <2>2
<1>16. ASSUME NEW i \in DOMAIN src, NEW k \in DOMAIN src[i].refs, NEW l,
              errors = <<>>, Emitted(i, k), Holds(i, k, l)
       PROVE  Holds(i, k, l)'
  <2>1. src[i].pos + Offset(i, k) + Wide(i) <= Len(output)
    BY <1>1, <1>16 DEF Layout, InsideOK
  <2>2. src[i].pos \in Nat /\ Offset(i, k) \in Nat /\ Wide(i) \in {1, 3}
    BY <1>1, OperandPlace
  <2>3. \A w \in 1 .. Wide(i) : src[i].pos + Offset(i, k) + w \in 1 .. Len(output)
    <3>1. Len(output) \in Nat
      BY <1>9
    <3> QED BY ONLY <2>1, <2>2, <3>1, WithinOutput
  <2> QED BY <1>1, <1>9, <1>16, <2>3, SameSource, HoldsStill
<1>17. h \in Labels => Above(N, h) = DefinedBy(h)
  <2>1. \A i \in DefinedBy(h) : i # N
    BY <1>3 DEF DefinedBy
  <2>2. \A i \in DefinedBy(h) : i < N
    BY <1>1, <1>2, <2>1, SrcShape
  <2> QED BY <2>2 DEF Above
<1>18. ASSUME Symbolic(N, h)
       PROVE  /\ h \in Labels /\ ~ Numeric(h) /\ (Above(N, h) # {} <=> Defined(h))
              /\ Defined(h) => labels[h] = Meaning(N, h)
  <2>1. h \in Labels /\ ~ Numeric(h)
    BY <1>3, <1>18 DEF Symbolic
  <2>2. /\ Defined(h) <=> DefinedBy(h) # {}
        /\ Defined(h) => labels[h] = src[Latest(DefinedBy(h))].at
    BY <1>1, <2>1, TableMeans DEF Judged
  <2>3. Meaning(N, h) = src[Latest(DefinedBy(h))].at
    BY <1>17, <2>1, MeaningIs
  <2> QED BY <1>17, <2>1, <2>2, <2>3
<1>19. KnownOK'
  <2> SUFFICES ASSUME errors = <<>>, NEW i \in DOMAIN src, Settled(i), NEW k \in DOMAIN src[i].refs,
                      NEW l, l = src[i].refs[k], Emitted(i, k) \/ (i = N /\ k = m),
                      Symbolic(i, l), Above(i, l) # {}
               PROVE  Holds(i, k, l)'
    BY <1>1, <1>4, SameSource DEF KnownOK
  <2>1. CASE Emitted(i, k)
    <3>1. Holds(i, k, l)
      BY <1>1, <2>1 DEF Filled, KnownOK
    <3> QED BY <1>16, <2>1, <3>1
  <2>2. CASE i = N /\ k = m
    <3>1. l = h /\ cells = Address24(Meaning(N, h))
      BY <1>3, <1>18, <2>2
    <3>2. Value(N, h) = cells /\ Value(N, h)' = Value(N, h)
      BY <1>1, <1>3, <3>1, SameSource DEF Value
    <3>3. Offset(N, m)' = 3 * (m - 1) /\ Wide(N)' = 3 /\ src'[N].pos = p
      BY <1>1, <1>2, <1>10, SameSource
    <3>4. ASSUME NEW w \in 1 .. 3
          PROVE  output'[p + 3 * (m - 1) + w] = cells[w]
      BY <1>7, <1>9
    <3> QED BY <2>2, <3>1, <3>2, <3>3, <3>4 DEF Holds
  <2> QED BY <2>1, <2>2
<1>20. PatchedOK'
  <2>1. 1 .. next' - 1 = {}
    BY <1>1
  <2> QED BY <2>1 DEF PatchedOK
<1>21. ASSUME NEW q \in DOMAIN forward_refs, NEW r, r = forward_refs[q]
       PROVE  \E k \in DOMAIN src'[r.line_num].refs :
                Emitted(r.line_num, k)' /\ NamedIn(r, r.line_num, k)'
  <2>1. PICK k \in DOMAIN src[r.line_num].refs :
          Emitted(r.line_num, k) /\ NamedIn(r, r.line_num, k)
    BY <1>1, <1>21 DEF Filled, NamedOK
  <2> QED BY <1>1, <1>4, <2>1, SameSource
<1>22. ASSUME NEW i \in DOMAIN src, NEW k \in DOMAIN src[i].refs, Emitted(i, k), Pending(i, k)
       PROVE  \E q \in DOMAIN forward_refs : \A r : r = forward_refs[q] => NamedIn(r, i, k)'
  BY <1>1, <1>22, SameSource DEF Filled, ListedOK
<1>23. CASE forward_refs' = forward_refs /\ (h \in Labels => Numeric(h) \/ Defined(h))
  <2>1. NamedOK'
    BY <1>21, <1>23, ZenonT(60) DEF NamedOK, NamedIn, Emitted, ToCome, OperandAt, Plus, Offset
  <2>2. ~ Pending(N, m)
    BY <1>3, <1>18, <1>23 DEF Pending
  <2>3. ListedOK'
    <3> SUFFICES ASSUME NEW i \in DOMAIN src, NEW k \in DOMAIN src[i].refs,
                        Emitted(i, k) \/ (i = N /\ k = m), Pending(i, k)
                 PROVE  \E q \in DOMAIN forward_refs :
                          \A r : r = forward_refs'[q] => NamedIn(r, i, k)'
      BY <1>1, <1>4, <1>23, SameSource DEF ListedOK, NamedIn, OperandAt, Plus, Offset
    <3> QED BY <1>22, <1>23, <2>2
  <2> QED BY <1>12, <1>13, <1>14, <1>19, <1>20, <2>1, <2>3, <1>1
      DEF LInv, LinkedNames, Layout, Filled
<1>24. ASSUME NEW type, NEW f,
              f = [address |-> address, label |-> h, ref_type |-> type, line_num |-> N],
              forward_refs' = Append(forward_refs, f)
       PROVE  LInv'
  <2>1. /\ DOMAIN forward_refs' = 1 .. Len(forward_refs) + 1
        /\ DOMAIN forward_refs = 1 .. Len(forward_refs) /\ Len(forward_refs) \in Nat
        /\ \A k \in 1 .. Len(forward_refs) : forward_refs'[k] = forward_refs[k]
        /\ forward_refs'[Len(forward_refs) + 1] = f
    BY <1>1, <1>24, AppendProperties, LenProperties DEF TypeOK
  <2>2. f.line_num = N /\ f.label = h /\ f.address = OperandAt(N, m)
    BY <1>10, <1>24
  <2>3. NamedIn(f, N, m) /\ NamedIn(f, N, m)'
    <3>1. NamedIn(f, N, m)
      BY <1>3, <2>2 DEF NamedIn
    <3> QED BY <1>1, <3>1, SameSource
  <2>4. NamedOK'
    <3> SUFFICES ASSUME NEW q \in DOMAIN forward_refs', NEW r, r = forward_refs'[q]
                 PROVE  \E k \in DOMAIN src'[r.line_num].refs :
                          Emitted(r.line_num, k)' /\ NamedIn(r, r.line_num, k)'
      BY DEF NamedOK, NamedIn, Emitted, ToCome, OperandAt, Plus, Offset
    <3>1. CASE q \in DOMAIN forward_refs
      BY <1>21, <2>1, <3>1
    <3>2. CASE q \notin DOMAIN forward_refs
      <4>1. r = f
        BY <2>1, <3>2
      <4> QED BY <1>1, <1>3, <1>4, <2>2, <2>3, <4>1
    <3> QED BY <3>1, <3>2
  <2>5. ListedOK'
    <3> SUFFICES ASSUME NEW i \in DOMAIN src, NEW k \in DOMAIN src[i].refs,
                        Emitted(i, k) \/ (i = N /\ k = m), Pending(i, k)
                 PROVE  \E q \in DOMAIN forward_refs' :
                          \A r : r = forward_refs'[q] => NamedIn(r, i, k)'
      BY <1>1, <1>4, SameSource DEF ListedOK, NamedIn, OperandAt, Plus, Offset
    <3>1. CASE i = N /\ k = m
      <4>1. Len(forward_refs) + 1 \in DOMAIN forward_refs'
        BY <2>1
      <4> QED BY <2>1, <2>3, <3>1, <4>1
    <3>2. CASE Emitted(i, k)
      <4>1. PICK q \in DOMAIN forward_refs : \A r : r = forward_refs[q] => NamedIn(r, i, k)'
        BY <1>22, <3>2
      <4> QED BY <2>1, <4>1
    <3> QED BY <3>1, <3>2
  <2> QED BY <1>12, <1>13, <1>14, <1>19, <1>20, <2>4, <2>5, <1>1
      DEF LInv, LinkedNames, Layout, Filled
<1> QED BY <1>2, <1>23, <1>24

-----------------------------------------------------------------------------
(* The second pass.                                                        *)

\* A line's operands lie inside the line.
LEMMA OperandRange ==
  ASSUME TypeOK, Layout, NEW i \in DOMAIN src, NEW k \in DOMAIN src[i].refs
  PROVE  /\ src[i].op \in RefOps
         /\ Offset(i, k) + Wide(i) <= src[i].n /\ src[i].n < AddrMod
<1>1. /\ DOMAIN src[i].refs = 1 .. Len(src[i].refs) /\ Len(src[i].refs) \in Nat
      /\ Len(src) \in Nat /\ DOMAIN src = 1 .. Len(src)
  BY SrcShape
<1>2. src[i].op \in RefOps
  <2>1. src[i].refs # <<>>
    OBVIOUS
  <2> QED BY <2>1 DEF Layout, ShapeOK
<1>3. CASE src[i].op = "la"
  BY <1>3, WidthAssumption DEF Layout, ShapeOK, Offset, Wide
<1>4. CASE src[i].op = "branch"
  BY <1>4, WidthAssumption DEF Layout, ShapeOK, Offset, Wide
<1>5. CASE src[i].op = "word"
  <2>1. /\ src[i].n = 3 * Len(src[i].refs) /\ src[i].n < AddrMod
        /\ Offset(i, k) = 3 * (k - 1) /\ Wide(i) = 3
    BY <1>5 DEF Layout, ShapeOK, Offset, Wide
  <2>2. k \in 1 .. Len(src[i].refs)
    BY <1>1
  <2>3. Offset(i, k) + Wide(i) <= src[i].n
    BY ONLY <1>1, <2>1, <2>2
  <2> QED BY <1>2, <2>1, <2>3
<1> QED BY <1>2, <1>3, <1>4, <1>5 DEF RefOps

\* A line the source is flat up to lies inside the address space.
LEMMA FlatRange ==
  ASSUME TypeOK, Layout, NEW i \in DOMAIN src, NEW k \in DOMAIN src[i].refs, FlatUpTo(i)
  PROVE  src[i].at = base_address + src[i].pos /\ src[i].at + src[i].n < AddrMod
<1>1. i \in 1 .. i
  BY SrcShape
<1>2. Exact(src[i]) /\ src[i].op # "org"
  BY <1>1, OperandRange DEF FlatUpTo, RefOps
<1> QED BY <1>2 DEF Exact, Layout, PlacedOK

\* An operand on a line the source is flat up to is in the output where its
\* address says.
LEMMA OperandIndexed ==
  ASSUME TypeOK, Layout, NEW i \in DOMAIN src, NEW k \in DOMAIN src[i].refs, FlatUpTo(i)
  PROVE  OutputIndex(OperandAt(i, k)) = src[i].pos + Offset(i, k)
<1>1. src[i].at = base_address + src[i].pos /\ src[i].at + src[i].n < AddrMod
  BY FlatRange
<1>2. Offset(i, k) + Wide(i) <= src[i].n
  BY OperandRange
<1>3. /\ src[i].pos \in Nat /\ Offset(i, k) \in Nat /\ Wide(i) \in {1, 3}
      /\ src[i].n \in Nat /\ src[i].at \in Nat
  BY OperandPlace DEF Addr
<1>4. base_address \in Int
  BY DEF TypeOK, Addr
<1>5. OperandAt(i, k) = base_address + (src[i].pos + Offset(i, k))
  BY <1>1, <1>2, <1>3, <1>4, WidthAssumption DEF OperandAt, Plus
<1> QED BY <1>3, <1>4, <1>5 DEF OutputIndex

\* The bytes of one operand are apart from those of another, if the first is
\* on a settled line: two bytes in one place would be at one address.
LEMMA OperandsApart ==
  ASSUME TypeOK, Layout,
         NEW i \in DOMAIN src, NEW k \in DOMAIN src[i].refs,
         NEW j \in DOMAIN src, NEW m \in DOMAIN src[j].refs, Settled(j), ~ (i = j /\ k = m),
         NEW w \in 1 .. Wide(j), NEW p, p = src[j].pos + Offset(j, m) + w,
         NEW x, x = OutputIndex(OperandAt(i, k))
  PROVE  p \in Int /\ x \in Int /\ (p <= x \/ p > x + Wide(i))
<1>1. src[i].op \in RefOps /\ Offset(i, k) + Wide(i) <= src[i].n /\ src[i].n < AddrMod
  BY OperandRange
<1>2. /\ src[j].op \in RefOps /\ Offset(j, m) + Wide(j) <= src[j].n
      /\ src[j].at = base_address + src[j].pos /\ src[j].at + src[j].n < AddrMod
  BY OperandRange, FlatRange DEF Settled
<1>3. /\ src[i].pos \in Nat /\ src[i].at \in Nat /\ src[i].at < AddrMod /\ src[i].n \in Nat
      /\ Offset(i, k) \in Nat /\ Wide(i) \in {1, 3} /\ k \in Nat
  BY OperandPlace, WidthAssumption DEF Addr
<1>4. /\ src[j].pos \in Nat /\ src[j].at \in Nat /\ src[j].n \in Nat
      /\ Offset(j, m) \in Nat /\ Wide(j) \in {1, 3} /\ m \in Nat
  BY OperandPlace DEF Addr
<1>5. AddrMod \in Nat /\ base_address \in Nat /\ base_address < AddrMod
  BY WidthAssumption DEF TypeOK, Addr
<1>6. OperandAt(i, k) \in Nat /\ OperandAt(i, k) < AddrMod
  BY <1>1, <1>3, <1>5 DEF OperandAt, Plus
<1>7. p \in Int /\ x \in Int
  BY <1>4, <1>5, <1>6 DEF OutputIndex
<1>8. CASE i # j
  <2> SUFFICES ASSUME x < p, p <= x + Wide(i)
               PROVE  FALSE
    BY <1>3, <1>7
  <2> DEFINE d == Offset(j, m) + w - 1
             v == p - x - 1
             e == Offset(i, k) + v
  <2>1. d \in 0 .. src[j].n - 1 /\ p = src[j].pos + d + 1
    BY ONLY <1>2, <1>4, p = src[j].pos + Offset(j, m) + w, w \in 1 .. Wide(j)
  <2>2. v \in Nat /\ v < Wide(i) /\ p = x + v + 1
    BY <1>3, <1>7
  <2>3. e \in 0 .. src[i].n - 1 /\ e = Offset(i, k) + v
    BY <1>1, <1>3, <2>2
  <2> HIDE DEF d, v, e
  <2>4. x + v = src[j].pos + d
    BY <1>4, <1>7, <2>1, <2>2
  <2>5. Plus(src[j].at, d) = base_address + x + v
    BY <1>2, <1>4, <1>5, <1>7, <2>1, <2>2, <2>4 DEF Plus
  <2>6. base_address + x + v < AddrMod
    BY <1>2, <1>4, <1>5, <1>7, <2>1, <2>2, <2>4
  <2>7. x = OperandAt(i, k) - base_address
    BY <1>5, <1>6, <1>7, <2>2, <2>6 DEF OutputIndex
  <2>8. OperandAt(i, k) + v < AddrMod
    BY <1>5, <1>6, <2>2, <2>6, <2>7
  <2>9. Plus(src[i].at, e) = OperandAt(i, k) + v
    BY <1>1, <1>3, <1>5, <2>2, <2>3, <2>8 DEF OperandAt, Plus
  <2>10. Plus(src[j].at, d) = Plus(src[i].at, e)
    BY <1>5, <1>6, <2>2, <2>5, <2>7, <2>9
  <2>11. Plus(src[j].at, d) \in Cells(j) /\ Plus(src[i].at, e) \in Cells(i)
    BY <2>1, <2>3 DEF Cells
  <2>12. src[i].refs # <<>>
    OBVIOUS
  <2> QED BY <1>8, <2>10, <2>11, <2>12 DEF Settled, Alone
<1>9. CASE i = j
  <2>1. x = src[i].pos + Offset(i, k)
    BY <1>9, OperandIndexed DEF Settled
  <2>2. k # m /\ k \in 1 .. Len(src[i].refs) /\ m \in 1 .. Len(src[i].refs)
        /\ Len(src[i].refs) \in Nat
    BY <1>9, SrcShape
  <2>3. src[i].op = "word"
    <3>1. Len(src[i].refs) # 1
      <4> SUFFICES ASSUME Len(src[i].refs) = 1 PROVE FALSE
        OBVIOUS
      <4>1. k \in 1 .. 1 /\ m \in 1 .. 1 /\ k # m
        BY <2>2
      <4> QED BY ONLY <4>1
    <3> QED BY <1>1, <3>1 DEF Layout, ShapeOK, RefOps
  <2>4. Offset(i, k) = 3 * (k - 1) /\ Offset(j, m) = 3 * (m - 1) /\ Wide(i) = 3 /\ Wide(j) = 3
    BY <1>9, <2>3 DEF Offset, Wide
  <2>5. p = src[i].pos + 3 * (m - 1) + w /\ w \in 1 .. 3 /\ x = src[i].pos + 3 * (k - 1)
    BY <1>9, <2>1, <2>4
  <2>6. k \in Nat /\ m \in Nat /\ k # m /\ src[i].pos \in Nat
    BY <1>3, <1>4, <2>2
  <2>7. CASE m < k
    BY ONLY <2>5, <2>6, <2>7
  <2>8. CASE k < m
    BY ONLY <2>4, <2>5, <2>6, <2>8
  <2> QED BY <2>6, <2>7, <2>8
<1> QED BY <1>7, <1>8, <1>9

\* What a patch of the operand r names does to the output: it leaves the
\* other bytes alone, and if the operand is inside it puts the value there.
Patch(r, value) ==
  LET x == OutputIndex(r.address)
  IN  /\ Len(output') = Len(output)
      /\ \A p \in 1 .. Len(output) : (p <= x \/ p > x + Width(r)) => output'[p] = output[p]
      /\ x + Width(r) <= Len(output) =>
           \A w \in 1 .. Width(r) : output'[x + w] = value[w]

\* What the code writes for r.
Patched(r) ==
  IF r.ref_type = "Relative8"
  THEN << Minus(labels[r.label], Plus(r.address, 3)) % ByteMod >>
  ELSE Address24(labels[r.label])

\* The value written is what the operand must hold, and as wide.
LEMMA PatchedValue ==
  ASSUME TypeOK, TableOK, NEW r \in ForwardRef, Right(r), Resolves(r), NEW i, i = r.line_num
  PROVE  Patched(r) = Value(i, r.label) /\ Width(r) = Wide(i)
<1>1. PICK l : l = r.label
  OBVIOUS
<1>2. /\ i \in DOMAIN src /\ l \in Labels /\ Above(i, l) = {} /\ Defined(l)
      /\ r.ref_type = "Relative8" <=> src[i].op = "branch"
      /\ r.ref_type = "Relative8" => r.address = Plus(src[i].at, 1)
      /\ r.ref_type \in {"Absolute24", "Relative8"}
  BY <1>1 DEF Right, References, Symbolic, Resolves, ForwardRef
<1>3. labels[l] = Meaning(i, l)
  BY <1>2, MeaningIs, TableMeans
<1>4. CASE r.ref_type = "Relative8"
  <2>1. Plus(r.address, 3) = Plus(src[i].at, 4)
    BY <1>2, <1>4, SrcShape, PipelineBase
  <2>2. Minus(labels[l], Plus(r.address, 3)) = Displacement(Meaning(i, l), src[i].at)
    BY <1>3, <2>1 DEF Displacement
  <2> QED BY <1>1, <1>2, <1>4, <2>2 DEF Patched, Value, Width, Wide
<1>5. CASE r.ref_type = "Absolute24"
  BY <1>1, <1>2, <1>3, <1>5 DEF Patched, Value, Width, Wide
<1> QED BY <1>2, <1>4, <1>5

\* A patch fills the operand it is for.
LEMMA PatchHits ==
  ASSUME TypeOK, TableOK, Layout, errors = <<>>, pc = "resolve",
         NEW r \in ForwardRef, Right(r), Resolves(r), Patch(r, Patched(r)), src' = src,
         NEW i \in DOMAIN src, NEW k \in DOMAIN src[i].refs, Settled(i), NamedIn(r, i, k)
  PROVE  Holds(i, k, r.label)'
<1>1. i = r.line_num /\ r.address = OperandAt(i, k)
  BY DEF NamedIn
<1>2. Patched(r) = Value(i, r.label) /\ Width(r) = Wide(i)
  BY <1>1, PatchedValue
<1>3. OutputIndex(r.address) = src[i].pos + Offset(i, k)
  BY <1>1, OperandIndexed DEF Settled
<1>4. src[i].pos + Offset(i, k) + Wide(i) <= Len(output)
  BY DEF Layout, InsideOK, Emitted, ToCome
<1>5. \A w \in 1 .. Wide(i) : output'[src[i].pos + Offset(i, k) + w] = Value(i, r.label)[w]
  BY <1>2, <1>3, <1>4 DEF Patch
<1> QED BY <1>5, SameSource DEF Holds

\* A patch leaves every other operand of a settled line as it was.
LEMMA PatchMisses ==
  ASSUME TypeOK, TableOK, Layout, errors = <<>>, pc = "resolve",
         NEW r \in ForwardRef, Right(r), NEW value, Patch(r, value), src' = src,
         NEW i \in DOMAIN src, NEW k \in DOMAIN src[i].refs, NamedIn(r, i, k),
         NEW j \in DOMAIN src, NEW m \in DOMAIN src[j].refs, Settled(j), ~ (i = j /\ k = m),
         NEW l, Holds(j, m, l)
  PROVE  Holds(j, m, l)'
<1>1. i = r.line_num /\ r.address = OperandAt(i, k)
  BY DEF NamedIn
<1>2. Width(r) = Wide(i)
  BY <1>1 DEF Right, Width, Wide, ForwardRef
<1>3. src[j].pos + Offset(j, m) + Wide(j) <= Len(output)
  BY DEF Layout, InsideOK, Emitted, ToCome
<1>4. src[j].pos \in Nat /\ Offset(j, m) \in Nat /\ Wide(j) \in {1, 3}
  BY OperandPlace
<1>5. ASSUME NEW w \in 1 .. Wide(j)
      PROVE  output'[src[j].pos + Offset(j, m) + w] = output[src[j].pos + Offset(j, m) + w]
  <2>1. PICK p, x : p = src[j].pos + Offset(j, m) + w /\ x = OutputIndex(OperandAt(i, k))
    OBVIOUS
  <2>2. p <= x \/ p > x + Wide(i)
    BY <2>1, OperandsApart
  <2>3. p \in 1 .. Len(output)
    <3>1. Len(output) \in Nat
      BY LenProperties DEF TypeOK
    <3>2. p = src[j].pos + Offset(j, m) + w /\ w \in 1 .. Wide(j)
      BY <2>1
    <3> QED BY ONLY <1>3, <1>4, <3>1, <3>2
  <2>4. output'[p] = output[p]
    BY <1>1, <1>2, <2>1, <2>2, <2>3 DEF Patch
  <2> QED BY <2>1, <2>4
<1> QED BY <1>5, SameSource, HoldsStill

\* One reference resolved.
LEMMA ResolvedLink ==
  ASSUME IInv, TypeOK', EInv, LInv, Resolving,
         UNCHANGED <<pc, src, labels, base_address, address, forward_refs, word>>,
         next' = next + 1,
         errors' = <<>> => errors = <<>> /\ Resolves(Ref) /\ Patch(Ref, Patched(Ref)),
         Len(output') = Len(output)
  PROVE  LInv'
<1>1. /\ TypeOK /\ TableOK /\ Judged /\ Layout /\ Filled /\ pc = "resolve"
      /\ next \in Nat \ {0} /\ next \in DOMAIN forward_refs /\ forward_refs \in Seq(ForwardRef)
  <2>1. TypeOK /\ TableOK /\ Judged /\ Layout /\ Filled /\ pc = "resolve"
    BY DEF IInv, EInv, LInv, Active, Resolving, Judged
  <2>2. next \in Nat \ {0} /\ next <= Len(forward_refs) /\ forward_refs \in Seq(ForwardRef)
    BY <2>1 DEF Resolving, TypeOK
  <2>3. next \in DOMAIN forward_refs
    BY <2>2, LenProperties
  <2> QED BY <2>1, <2>2, <2>3
<1>2. PICK r : r = Ref
  OBVIOUS
<1>3. r \in ForwardRef /\ Right(r) /\ r = forward_refs[next]
  BY <1>1, <1>2, ElementOfSeq DEF Ref, Judged, RefsRight
<1>4. PICK i \in DOMAIN src : \E k \in DOMAIN src[i].refs : NamedIn(r, i, k)
  BY <1>1, <1>3 DEF Filled, NamedOK, Right
<1>5. PICK k \in DOMAIN src[i].refs : NamedIn(r, i, k)
  BY <1>4
<1>6. errors' = <<>> => errors = <<>> /\ Resolves(r) /\ Patch(r, Patched(r))
  BY <1>2
<1>7. \A j, m : Emitted(j, m)' <=> Emitted(j, m)
  BY DEF Emitted, ToCome
<1>8. Layout'
  BY <1>1, <1>6, <1>7, SameSource
     DEF Layout, ShapeOK, PlacedOK, InsideOK, WordAt
<1>9. NamedOK' /\ ListedOK'
  BY <1>1, <1>7, SameSource DEF Filled, NamedOK, ListedOK
<1>10. KnownOK'
  <2> SUFFICES ASSUME errors' = <<>>, NEW j \in DOMAIN src, Settled(j), NEW m \in DOMAIN src[j].refs,
                      NEW l, l = src[j].refs[m], Emitted(j, m), Symbolic(j, l), Above(j, l) # {}
               PROVE  Holds(j, m, l)'
    BY <1>7, SameSource DEF KnownOK
  <2>1. Holds(j, m, l)
    BY <1>1, <1>6 DEF Filled, KnownOK
  <2>2. ~ (i = j /\ k = m)
    BY <1>3, <1>5 DEF NamedIn, Right
  <2> QED BY <1>1, <1>3, <1>5, <1>6, <2>1, <2>2, PatchMisses
<1>11. PatchedOK'
  <2> SUFFICES ASSUME errors' = <<>>, NEW q \in 1 .. next, NEW f, f = forward_refs[q],
                      NEW j \in DOMAIN src, Settled(j), NEW m \in DOMAIN src[j].refs,
                      Emitted(j, m), NamedIn(f, j, m)
               PROVE  \A l : l = src[j].refs[m] => Holds(j, m, l)'
    <3>1. next' - 1 = next
      BY <1>1
    <3> QED BY <1>7, <3>1, SameSource DEF PatchedOK, NamedIn, Holds
  <2> SUFFICES ASSUME NEW l, l = src[j].refs[m] PROVE Holds(j, m, l)'
    OBVIOUS
  <2>1. CASE NamedIn(r, j, m)
    <3>1. l = r.label
      BY <2>1 DEF NamedIn
    <3> QED BY <1>1, <1>3, <1>6, <2>1, <3>1, PatchHits
  <2>2. CASE ~ NamedIn(r, j, m)
    <3>1. q \in 1 .. next - 1
      BY <1>1, <1>3, <2>2
    <3>2. Holds(j, m, l)
      BY <1>1, <1>6, <3>1 DEF Filled, PatchedOK
    <3>3. ~ (i = j /\ k = m)
      BY <1>5, <2>2
    <3> QED BY <1>1, <1>3, <1>5, <1>6, <3>2, <3>3, PatchMisses
  <2> QED BY <2>1, <2>2
<1> QED BY <1>1, <1>8, <1>9, <1>10, <1>11 DEF LInv, LinkedNames, Filled

-----------------------------------------------------------------------------
\* A step that touches neither the source nor the output, and takes no part
\* in a .word.
LEMMA SameState ==
  ASSUME UNCHANGED <<src, address, base_address, labels, forward_refs, output, errors, next>>,
         Layout, Filled,
         (pc' = pc /\ word' = word) \/ (pc = "pass1" /\ pc' = "resolve")
  PROVE  Layout' /\ Filled'
<1>1. \A i, k : Emitted(i, k)' <=> Emitted(i, k)
  BY DEF Emitted, ToCome
<1>3. \A i, k, l : Holds(i, k, l)' <=> Holds(i, k, l)
  BY SameSource DEF Holds
<1>4. ShapeOK' /\ PlacedOK' /\ InsideOK'
  BY <1>1, SameSource DEF Layout, ShapeOK, PlacedOK, InsideOK
<1>5. WordAt'
  BY DEF Layout, WordAt, Plus
<1>7. KnownOK'
  BY <1>1, <1>3, SameSource DEF Filled, KnownOK
<1>8. NamedOK' /\ ListedOK'
  BY <1>1, SameSource DEF Filled, NamedOK, ListedOK
<1>9. PatchedOK'
  BY <1>1, <1>3, SameSource DEF Filled, PatchedOK
<1> QED BY <1>4, <1>5, <1>7, <1>8, <1>9 DEF Layout, Filled

-----------------------------------------------------------------------------
(* Every line.                                                             *)

\* A number of bytes of one kind.
LEMMA Copies ==
  ASSUME NEW n \in Nat, NEW c \in Cell
  PROVE  Repeat(n, c) \in Seq(Cell) /\ Len(Repeat(n, c)) = n
BY RepeatType

\* A directive that emits n bytes of one kind, or fills up to a target.
LEMMA DataLinked ==
  ASSUME IInv, TypeOK', EInv, LInv, NEW op, op \notin RefOps, NEW def, NEW n, NEW k \in Int,
         NEW c \in Cell, NEW to, Reading, Read(op, def, <<>>, n), EmitDirective(Repeat(k, c), to),
         UNCHANGED <<pc, base_address, next, forward_refs, errors>>
  PROVE  LInv'
<1>1. Repeat(k, c) \in Seq(Cell)
  BY RepeatType
<1>2. output' = output \o Repeat(k, c) /\ pc = "pass1" /\ pc' = "pass1"
  BY DEF EmitDirective, Reading
<1> QED BY <1>1, <1>2, PlainLine

\* A line that emits nothing.
LEMMA QuietLinked ==
  ASSUME IInv, TypeOK', EInv, LInv, NEW op, op \notin RefOps, NEW def, NEW n,
         Reading, Read(op, def, <<>>, n), output' = output,
         UNCHANGED <<pc, base_address, next, forward_refs>>, errors' = <<>> => errors = <<>>
  PROVE  LInv'
<1>1. <<>> \in Seq(Cell) /\ output \in Seq(Cell)
  BY DEF IInv, TypeOK
<1>2. output' = output \o <<>> /\ pc = "pass1" /\ pc' = "pass1"
  BY <1>1, ConcatEmptySeq DEF Reading
<1> QED BY <1>1, <1>2, PlainLine

\* Every directive.
LEMMA DirectiveLinked ==
  ASSUME IInv, TypeOK', EInv, LInv, WordsFit, Directive
  PROVE  LInv'
<1> USE DEF RefOps
<1>1. ASSUME NEW t \in OrgTargets, Org(t) PROVE LInv'
  <2>1. PICK k : k = (IF t >= base_address THEN t - base_address ELSE t) - Len(output)
    OBVIOUS
  <2>2. k \in Int
    <3>1. t \in Int /\ base_address \in Int /\ Len(output) \in Int
      BY SourceAssumption, LenProperties DEF IInv, TypeOK, Addr
    <3> QED BY <2>1, <3>1
  <2>3. /\ Reading /\ Read("org", {}, <<>>, t) /\ EmitDirective(Repeat(k, 0), t)
        /\ UNCHANGED <<pc, base_address, next, forward_refs, errors>>
    BY <1>1, <2>1 DEF Org
  <2> QED BY <2>2, <2>3, CellValues, DataLinked
<1>2. ASSUME NEW n \in ByteCounts, ByteData(n) PROVE LInv'
  <2>1. n \in Int
    BY SourceAssumption DEF Addr
  <2> QED BY <1>2, <2>1, CellValues, DataLinked DEF ByteData
<1>3. ASSUME NEW n \in ZeroSizes, Zero(n) PROVE LInv'
  <2>1. n \in Int
    BY SourceAssumption DEF Addr
  <2> QED BY <1>3, <2>1, CellValues, DataLinked DEF Zero
<1>4. ASSUME NEW l \in Labels, NEW n \in CommSizes, Comm(l, n) PROVE LInv'
  BY <1>4, QuietLinked DEF Comm
<1>5. ASSUME NEW ops \in WordLines, WordLine(ops) PROVE LInv'
  BY <1>5, WordBegins
<1>6. PICK h : h = Head(word.todo)
  OBVIOUS
<1>7. CASE WordNumber
  <2>1. PICK cells : cells = Repeat(3, Opaque)
    OBVIOUS
  <2>2. cells \in Seq(Cell) /\ Len(cells) = 3
    BY <2>1, Copies, CellValues
  <2>3. pc = "word" /\ Numeric(h) /\ EmitWord(cells) /\ forward_refs' = forward_refs
    BY <1>6, <1>7, <2>1 DEF WordNumber
  <2> QED BY <1>6, <2>2, <2>3, WordEmits
<1>8. CASE WordKnown
  <2>1. PICK cells : cells = Address24(labels[h])
    OBVIOUS
  <2>2. /\ pc = "word" /\ ~ Numeric(h) /\ Defined(h) /\ EmitWord(cells)
        /\ forward_refs' = forward_refs
    BY <1>6, <1>8, <2>1 DEF WordKnown
  <2>3. labels[h] \in Addr
    BY <1>6, <2>2, HeadTailProperties, SMTT(30) DEF IInv, TypeOK, Numeric, Operands, Defined
  <2>4. cells \in Seq(Cell) /\ Len(cells) = 3
    BY <2>1, <2>3, Address24Type
  <2> QED BY <1>6, <2>1, <2>2, <2>4, WordEmits
<1>9. CASE WordForward
  <2>1. PICK cells : cells = Repeat(3, 0)
    OBVIOUS
  <2>2. cells \in Seq(Cell) /\ Len(cells) = 3
    BY <2>1, Copies, CellValues
  <2>3. /\ pc = "word" /\ ~ Defined(h) /\ EmitWord(cells)
        /\ forward_refs' = Append(forward_refs,
             [address |-> address, label |-> h, ref_type |-> "Absolute24", line_num |-> Len(src)])
    BY <1>6, <1>9, <2>1 DEF WordForward
  <2> QED BY <1>6, <2>2, <2>3, WordEmits
<1> QED BY <1>1, <1>2, <1>3, <1>4, <1>5, <1>7, <1>8, <1>9 DEF Directive

\* The bytes of a la behind its opcode.
LEMMA BehindOpcode ==
  ASSUME NEW s \in Seq(Cell), Len(s) = 3, NEW cells, cells = <<Opaque>> \o s
  PROVE  /\ cells \in Seq(Cell) /\ Len(cells) = 4
         /\ \A w \in 1 .. 3 : cells[1 + w] = s[w]
<1> DEFINE opcode == <<Opaque>>
<1>1. opcode \in Seq(Cell) /\ Len(opcode) = 1
  BY CellValues
<1> HIDE DEF opcode
<1>2. \A w \in 1 .. 3 : (opcode \o s)[1 + w] = s[w]
  <2>1. \A i \in 1 .. Len(opcode) + Len(s) :
          (opcode \o s)[i] = IF i <= Len(opcode) THEN opcode[i] ELSE s[i - Len(opcode)]
    BY ONLY <1>1, s \in Seq(Cell), ConcatProperties
  <2>2. \A i \in 1 .. 1 + 3 : (opcode \o s)[i] = IF i <= 1 THEN opcode[i] ELSE s[i - 1]
    BY <1>1, <2>1
  <2>3. ASSUME NEW w \in 1 .. 3 PROVE (opcode \o s)[1 + w] = s[w]
    <3>1. PICK i : i = 1 + w
      OBVIOUS
    <3>2. i \in 1 .. 1 + 3 /\ ~ (i <= 1) /\ i - 1 = w
      BY <3>1
    <3>3. (opcode \o s)[i] = s[i - 1]
      BY <2>2, <3>2
    <3> QED BY <3>1, <3>2, <3>3
  <2> QED BY <2>3
<1> QED BY <1>2, LaCells DEF opcode

\* Every instruction.
LEMMA EncodeLinked ==
  ASSUME IInv, TypeOK', EInv, LInv, Encode
  PROVE  LInv'
<1> USE DEF RefOps
<1>1. TypeOK /\ 2 \in Addr /\ 4 \in Addr
  BY CellValues DEF IInv
<1>2. ASSUME NEW n \in InstSizes, Instruction(n) PROVE LInv'
  <2>1. Repeat(n, Opaque) \in Seq(Cell)
    BY SourceAssumption, RepeatType, CellValues DEF Addr
  <2> QED BY <1>2, <2>1, PlainLine DEF Instruction, EmitInstruction, Reading
<1>3. CASE BadInstruction
  <2>1. errors' # <<>>
    BY <1>1, <1>3, ErrorCounts DEF BadInstruction
  <2>2. <<>> \in Seq(Cell)
    BY CellValues
  <2> QED BY <1>3, <2>1, <2>2, PlainLine DEF BadInstruction, EmitInstruction, Reading
<1>4. ASSUME NEW l \in Labels, BranchKnown(l) PROVE LInv'
  <2>1. PICK d : d = Displacement(labels[l], address)
    OBVIOUS
  <2>2. /\ pc = "pass1" /\ pc' = "pass1" /\ Defined(l) /\ Read("branch", {}, <<l>>, 2)
        /\ UNCHANGED <<base_address, next, forward_refs>>
    BY <1>4 DEF BranchKnown, Reading
  <2>3. CASE FitsByte(d)
    <3>1. PICK cells : cells = <<Opaque, d % ByteMod>>
      OBVIOUS
    <3>2. output' = output \o cells /\ address' = Plus(address, Len(cells)) /\ errors' = errors
      BY <1>4, <2>1, <2>3, <3>1 DEF BranchKnown, EmitInstruction
    <3>3. labels[l] \in Addr /\ address \in Addr /\ Plus(address, 4) \in Addr
      BY <1>1, <2>2, PlusType DEF TypeOK, Defined
    <3>4. d \in Int
      BY <2>1, <3>3, WidthAssumption DEF Displacement, Minus, Signed, Addr
    <3>5. cells \in Seq(Cell) /\ Len(cells) = 2 /\ cells[2] = d % ByteMod
      <4>1. d % ByteMod \in Cell /\ Opaque \in Cell
        BY <3>4, ByteType, CellValues DEF Cell
      <4> QED BY <3>1, <4>1
    <3> QED BY <2>1, <2>2, <3>2, <3>5, OperandLine
  <2>4. CASE ~ FitsByte(d)
    <3>1. errors' # <<>>
      BY <1>1, <1>4, <2>1, <2>4, ErrorCounts DEF BranchKnown
    <3>2. output' = output \o <<>> /\ <<>> \in Seq(Cell)
      BY <1>4, <2>1, <2>4, CellValues DEF BranchKnown, EmitInstruction
    <3> QED BY <2>2, <3>1, <3>2, OperandLine
  <2> QED BY <2>3, <2>4
<1>5. ASSUME NEW x \in Operands, BranchNumber(x) PROVE LInv'
  <2>1. PICK cells : cells = Repeat(2, Opaque)
    OBVIOUS
  <2>2. cells \in Seq(Cell) /\ Len(cells) = 2
    BY <2>1, Copies, CellValues
  <2>3. /\ pc = "pass1" /\ pc' = "pass1" /\ Read("branch", {}, <<x>>, 2)
        /\ Numeric(x) /\ (x \in Labels => ~ Defined(x))
        /\ UNCHANGED <<base_address, next, forward_refs, errors>>
        /\ output' = output \o cells /\ address' = Plus(address, 2)
    BY <1>5, <2>1, <2>2 DEF BranchNumber, Reading, EmitInstruction
  <2> QED BY <2>2, <2>3, OperandLine
<1>6. ASSUME NEW x \in Operands, LaNumber(x) PROVE LInv'
  <2>1. PICK cells : cells = Repeat(4, Opaque)
    OBVIOUS
  <2>2. cells \in Seq(Cell) /\ Len(cells) = 4
    BY <2>1, Copies, CellValues
  <2>3. /\ pc = "pass1" /\ pc' = "pass1" /\ Read("la", {}, <<x>>, 4) /\ Numeric(x)
        /\ UNCHANGED <<base_address, next, forward_refs, errors>>
        /\ output' = output \o cells /\ address' = Plus(address, 4)
    BY <1>6, <2>1, <2>2 DEF LaNumber, Reading, EmitInstruction
  <2> QED BY <2>2, <2>3, OperandLine
<1>7. ASSUME NEW l \in Labels, LaKnown(l) PROVE LInv'
  <2>1. PICK s : s = Address24(labels[l])
    OBVIOUS
  <2>2. PICK cells : cells = <<Opaque>> \o s
    OBVIOUS
  <2>3. /\ pc = "pass1" /\ pc' = "pass1" /\ Read("la", {}, <<l>>, 4) /\ Defined(l)
        /\ UNCHANGED <<base_address, next, forward_refs, errors>>
        /\ output' = output \o cells /\ address' = Plus(address, Len(cells))
    BY <1>7, <2>1, <2>2 DEF LaKnown, Reading, EmitInstruction
  <2>4. labels[l] \in Addr
    BY <1>1, <2>3 DEF TypeOK, Defined
  <2>5. s \in Seq(Cell) /\ Len(s) = 3
    BY <2>1, <2>4, Address24Type
  <2>6. cells \in Seq(Cell) /\ Len(cells) = 4 /\ \A w \in 1 .. 3 : cells[1 + w] = s[w]
    BY <2>2, <2>5, BehindOpcode
  <2> QED BY <2>1, <2>3, <2>6, OperandLine
<1>8. ASSUME NEW l \in Labels, BranchForward(l) PROVE LInv'
  <2>1. PICK cells : cells = <<Opaque, 0>>
    OBVIOUS
  <2>2. cells \in Seq(Cell) /\ Len(cells) = 2
    BY <2>1, CellValues
  <2>3. /\ pc = "pass1" /\ pc' = "pass1" /\ Read("branch", {}, <<l>>, 2) /\ ~ Defined(l)
        /\ UNCHANGED <<base_address, next, errors>>
        /\ forward_refs' = Append(forward_refs, Reference(1, l, "Relative8"))
        /\ output' = output \o cells /\ address' = Plus(address, 2)
    BY <1>8, <2>1, <2>2 DEF BranchForward, Reading, EmitInstruction
  <2> QED BY <2>2, <2>3, OperandLine
<1>9. ASSUME NEW l \in Labels, LaForward(l) PROVE LInv'
  <2>1. PICK s : s = Repeat(3, 0)
    OBVIOUS
  <2>2. PICK cells : cells = <<Opaque>> \o s
    OBVIOUS
  <2>3. s \in Seq(Cell) /\ Len(s) = 3
    BY <2>1, Copies, CellValues
  <2>4. cells \in Seq(Cell) /\ Len(cells) = 4
    BY <2>2, <2>3, BehindOpcode
  <2>5. /\ pc = "pass1" /\ pc' = "pass1" /\ Read("la", {}, <<l>>, 4) /\ ~ Defined(l)
        /\ UNCHANGED <<base_address, next, errors>>
        /\ forward_refs' = Append(forward_refs, Reference(1, l, "Absolute24"))
        /\ output' = output \o cells /\ address' = Plus(address, 4)
    BY <1>9, <2>1, <2>2, <2>4 DEF LaForward, Reading, EmitInstruction
  <2> QED BY <2>4, <2>5, OperandLine
<1> QED BY <1>2, <1>3, <1>4, <1>5, <1>6, <1>7, <1>8, <1>9 DEF Encode

\* Every step of assemble_line.
LEMMA FirstPassLinked ==
  ASSUME IInv, TypeOK', EInv, LInv, WordsFit, FirstPass
  PROVE  LInv'
<1> USE DEF RefOps
<1>1. CASE Skip
  BY <1>1, QuietLinked DEF Skip, code, Reading
<1>2. ASSUME NEW l \in Labels, LabelLine(l) PROVE LInv'
  BY <1>2, QuietLinked DEF LabelLine
<1>3. ASSUME NEW l \in Labels, LabelNotAlone(l) PROVE LInv'
  <2>1. errors' # <<>>
    BY <1>3, ErrorCounts DEF LabelNotAlone, IInv
  <2> QED BY <1>3, <2>1, QuietLinked DEF LabelNotAlone
<1>4. CASE EmptyLabel
  <2>1. errors' # <<>>
    BY <1>4, ErrorCounts DEF EmptyLabel, IInv
  <2> QED BY <1>4, <2>1, QuietLinked DEF EmptyLabel
<1>5. CASE Directive
  BY <1>5, DirectiveLinked
<1>6. CASE Encode
  BY <1>6, EncodeLinked
<1>7. CASE EndOfSource
  <2>1. /\ pc = "pass1" /\ pc' = "resolve" /\ Layout /\ Filled
        /\ UNCHANGED <<src, address, base_address, labels, forward_refs, output, errors, next>>
    BY <1>7 DEF EndOfSource, code, LInv, Active
  <2>2. Layout' /\ Filled'
    BY <2>1, SameState
  <2> QED BY <2>1, <2>2 DEF LInv, LinkedNames
<1> QED BY <1>1, <1>2, <1>3, <1>4, <1>5, <1>6, <1>7 DEF FirstPass

-----------------------------------------------------------------------------
(* The second pass, and the end of it.                                     *)

\* The three bytes an absolute reference is patched with.
LEMMA ThreeBytes ==
  ASSUME NEW out \in Seq(Cell), NEW x \in Nat, x + 2 < Len(out), NEW b,
         NEW new, new = [out EXCEPT ![x + 1] = b[1], ![x + 2] = b[2], ![x + 3] = b[3]]
  PROVE  /\ \A p \in 1 .. Len(out) : (p <= x \/ p > x + 3) => new[p] = out[p]
         /\ \A w \in 1 .. 3 : new[x + w] = b[w]
<1>1. DOMAIN out = 1 .. Len(out) /\ Len(out) \in Nat
  BY LenProperties
<1>2. x + 1 \in DOMAIN out /\ x + 2 \in DOMAIN out /\ x + 3 \in DOMAIN out
  BY <1>1
<1>3. \A p \in 1 .. Len(out) : (p <= x \/ p > x + 3) => new[p] = out[p]
  BY <1>1
<1>4. new[x + 1] = b[1] /\ new[x + 2] = b[2] /\ new[x + 3] = b[3]
  BY <1>1, <1>2
<1>5. \A w \in 1 .. 3 : w = 1 \/ w = 2 \/ w = 3
  OBVIOUS
<1> QED BY <1>3, <1>4, <1>5

\* The reference being resolved.
LEMMA RefShape ==
  ASSUME TypeOK, Resolving
  PROVE  /\ Ref \in ForwardRef /\ OutputIndex(Ref.address) \in Nat
         /\ output \in Seq(Cell) /\ Len(output) \in Nat /\ DOMAIN output = 1 .. Len(output)
<1>1. Ref \in ForwardRef
  BY ElementOfSeq, LenProperties DEF Resolving, Ref, TypeOK
<1>2. OutputIndex(Ref.address) \in Nat
  BY <1>1, WidthAssumption, SMTT(30) DEF ForwardRef, TypeOK, OutputIndex, Addr
<1> QED BY <1>1, <1>2, LenProperties DEF TypeOK

\* Every step of resolve_forward_refs.
LEMMA ResolveLinked ==
  ASSUME IInv, TypeOK', EInv, LInv, ResolveUndefined \/ ResolveAbsolute \/ ResolveRelative
  PROVE  LInv'
<1>1. TypeOK /\ Resolving /\ Len(output') = Len(output)
  BY SecondPassKeeps DEF IInv, SecondPass, ResolveUndefined, ResolveAbsolute, ResolveRelative
<1>2. /\ UNCHANGED <<pc, src, labels, base_address, address, forward_refs, word>>
      /\ next' = next + 1
  BY DEF ResolveUndefined, ResolveAbsolute, ResolveRelative
<1>3. PICK r, x : r = Ref /\ x = OutputIndex(r.address)
  OBVIOUS
<1>4. /\ r \in ForwardRef /\ x \in Nat
      /\ output \in Seq(Cell) /\ Len(output) \in Nat /\ DOMAIN output = 1 .. Len(output)
  BY <1>1, <1>3, RefShape
<1>5. ASSUME errors' = <<>> PROVE errors = <<>> /\ Resolves(Ref) /\ Patch(Ref, Patched(Ref))
  <2>1. CASE ResolveUndefined
    BY <1>1, <1>5, <2>1, ErrorCounts DEF ResolveUndefined
  <2>2. CASE ResolveAbsolute
    <3>1. Resolves(r) /\ errors = <<>> /\ Width(r) = 3 /\ Patched(r) = Address24(labels[r.label])
      BY <1>3, <1>5, <2>2 DEF ResolveAbsolute, Resolves, Width, Patched
    <3>2. CASE x + 2 < Len(output)
      <4>1. PICK b : b = Address24(labels[r.label])
        OBVIOUS
      <4>2. output' = [output EXCEPT ![x + 1] = b[1], ![x + 2] = b[2], ![x + 3] = b[3]]
        BY <1>3, <2>2, <3>2, <4>1 DEF ResolveAbsolute
      <4>3. /\ \A p \in 1 .. Len(output) : (p <= x \/ p > x + 3) => output'[p] = output[p]
            /\ \A w \in 1 .. 3 : output'[x + w] = b[w]
        BY <1>4, <3>2, <4>2, ThreeBytes
      <4> QED BY <1>1, <1>3, <3>1, <4>1, <4>3 DEF Patch
    <3>3. CASE ~ (x + 2 < Len(output))
      <4>1. output' = output
        BY <1>3, <2>2, <3>3 DEF ResolveAbsolute
      <4>2. ~ (x + 3 <= Len(output))
        BY <1>4, <3>3
      <4> QED BY <1>1, <1>3, <3>1, <4>1, <4>2 DEF Patch
    <3> QED BY <3>2, <3>3
  <2>3. CASE ResolveRelative
    <3>1. FitsByte(RelativeOffset)
      BY <1>1, <1>5, <2>3, ErrorCounts DEF ResolveRelative
    <3>2. PICK v : v = RelativeOffset % ByteMod
      OBVIOUS
    <3>3. /\ Resolves(r) /\ errors = <<>> /\ Width(r) = 1 /\ Patched(r) = << v >>
      BY <1>3, <1>5, <2>3, <3>1, <3>2 DEF ResolveRelative, Resolves, Width, Patched, RelativeOffset
    <3>4. CASE x < Len(output)
      <4>1. output' = [output EXCEPT ![x + 1] = v]
        BY <1>3, <2>3, <3>1, <3>2, <3>4 DEF ResolveRelative
      <4>2. \A p \in 1 .. Len(output) : (p <= x \/ p > x + 1) => output'[p] = output[p]
        BY <1>4, <4>1
      <4>3. x + 1 \in DOMAIN output
        BY <1>4, <3>4
      <4>4. \A w \in 1 .. 1 : output'[x + w] = << v >>[w]
        BY <4>1, <4>3
      <4> QED BY <1>1, <1>3, <3>3, <4>2, <4>4 DEF Patch
    <3>5. CASE ~ (x < Len(output))
      <4>1. output' = output
        BY <1>3, <2>3, <3>1, <3>5 DEF ResolveRelative
      <4>2. ~ (x + 1 <= Len(output))
        BY <1>4, <3>5
      <4> QED BY <1>1, <1>3, <3>3, <4>1, <4>2 DEF Patch
    <3> QED BY <3>4, <3>5
  <2> QED BY <2>1, <2>2, <2>3
<1> QED BY <1>1, <1>2, <1>5, ResolvedLink

\* When every reference has been resolved the program is linked.
LEMMA AllLinked ==
  ASSUME IInv, EInv, LInv, pc = "resolve", next > Len(forward_refs), errors = <<>>,
         NEW i \in DOMAIN src, Settled(i), NEW k \in DOMAIN src[i].refs,
         NEW l, l = src[i].refs[k], Symbolic(i, l)
  PROVE  /\ src[i].op \in RefOps
         /\ src[i].pos + Offset(i, k) + Wide(i) <= Len(output)
         /\ Holds(i, k, l)
<1>1. TypeOK /\ Judged /\ Layout /\ Filled
  BY DEF IInv, EInv, LInv, Active
<1>2. Emitted(i, k)
  BY DEF Emitted, ToCome
<1>3. src[i].op \in RefOps
  BY <1>1, OperandRange
<1>4. src[i].pos + Offset(i, k) + Wide(i) <= Len(output)
  BY <1>1, <1>2 DEF Layout, InsideOK
<1>5. CASE Above(i, l) # {}
  <2>1. KnownOK
    BY <1>1 DEF Filled
  <2> QED BY <1>2, <1>3, <1>4, <1>5, <2>1 DEF KnownOK
<1>6. CASE Above(i, l) = {}
  <2>1. PICK q \in DOMAIN forward_refs : NamedIn(forward_refs[q], i, k)
    BY <1>1, <1>2, <1>6 DEF Filled, ListedOK, Pending
  <2>2. q \in 1 .. next - 1
    <3>1. next \in Nat /\ Len(forward_refs) \in Nat /\ DOMAIN forward_refs = 1 .. Len(forward_refs)
      BY <1>1, LenProperties DEF TypeOK
    <3> QED BY <2>1, <3>1
  <2>3. PatchedOK
    BY <1>1 DEF Filled
  <2> QED BY <1>2, <1>3, <1>4, <2>1, <2>2, <2>3 DEF PatchedOK
<1> QED BY <1>3, <1>4, <1>5, <1>6

\* Every step of the second pass; at the last one the program is linked.
LEMMA SecondPassLinked ==
  ASSUME IInv, TypeOK', EInv, LInv, SecondPass
  PROVE  LInv'
<1>1. CASE Finish
  <2>1. /\ pc = "resolve" /\ pc' = "done" /\ next > Len(forward_refs)
        /\ UNCHANGED <<src, output, errors, address>>
    BY <1>1 DEF Finish
  <2>2. \A j, m, l : Holds(j, m, l)' <=> Holds(j, m, l)
    BY <2>1, SameSource DEF Holds
  <2> SUFFICES ASSUME errors = <<>>, NEW i \in DOMAIN src, Settled(i),
                      NEW k \in DOMAIN src[i].refs, Symbolic(i, src[i].refs[k])
               PROVE  /\ src[i].op \in RefOps
                      /\ src[i].pos + Offset(i, k) + Wide(i) <= Len(output)
                      /\ Holds(i, k, src[i].refs[k])
    BY <2>1, <2>2, SameSource DEF LInv, LinkedNames, Active
  <2> QED BY <2>1, AllLinked
<1>2. CASE ~ Finish
  BY <1>2, ResolveLinked DEF SecondPass
<1> QED BY <1>1, <1>2

-----------------------------------------------------------------------------
\* A call begins with an empty source.
LEMMA AssembleAtLinked ==
  ASSUME LInv, NEW b \in Bases, AssembleAt(b)
  PROVE  LInv'
<1>1. /\ pc' = "pass1" /\ src' = <<>> /\ forward_refs' = <<>> /\ next' = 1
  BY DEF AssembleAt
<1>2. DOMAIN <<>> = {} /\ 1 .. 1 - 1 = {}
  OBVIOUS
<1>3. Layout'
  BY <1>1, <1>2 DEF Layout, ShapeOK, PlacedOK, InsideOK, WordAt
<1>4. Filled'
  BY <1>1, <1>2 DEF Filled, KnownOK, NamedOK, ListedOK, PatchedOK
<1> QED BY <1>1, <1>3, <1>4 DEF LInv, LinkedNames

\* The invariant of the linking holds in every reachable state.
LEMMA Linking ==
  ASSUME WordsFit
  PROVE  Spec => []LInv
<1>1. Init => LInv
  BY DEF Init, LInv, LinkedNames, Active
<1>2. IInv /\ TypeOK' /\ EInv /\ LInv /\ [Next]_vars => LInv'
  <2> SUFFICES ASSUME IInv, TypeOK', EInv, LInv, [Next]_vars PROVE LInv'
    OBVIOUS
  <2>1. ASSUME NEW b \in Bases, AssembleAt(b) PROVE LInv'
    BY <2>1, AssembleAtLinked
  <2>2. CASE New
    BY <2>2 DEF New, LInv, LinkedNames, Active
  <2>3. CASE FirstPass
    BY <2>3, FirstPassLinked
  <2>4. CASE SecondPass
    BY <2>4, SecondPassLinked
  <2>5. CASE AddressOverflow \/ IndexOverflow \/ OffsetOverflow
    BY <2>5 DEF AddressOverflow, IndexOverflow, OffsetOverflow, LInv, LinkedNames, Active
  <2>6. CASE UNCHANGED vars
    <3>1. UNCHANGED <<pc, src, address, base_address, labels, forward_refs, output, errors,
                      next, word>>
      BY <2>6 DEF vars, code
    <3>2. /\ \A j, m, l : Holds(j, m, l)' <=> Holds(j, m, l)
          /\ \A l : DefinedBy(l)' = DefinedBy(l)
      BY <3>1, SameSource DEF Holds, DefinedBy
    <3>3. LinkedNames'
      BY <3>1, <3>2, SameSource DEF LInv, LinkedNames
    <3>4. Active => Layout' /\ Filled'
      BY <3>1, SameState DEF LInv
    <3> QED BY <3>1, <3>3, <3>4 DEF LInv, Active
  <2> QED BY <2>1, <2>2, <2>3, <2>4, <2>5, <2>6 DEF Next
<1> QED BY <1>1, <1>2, Invariance, Judgement, TypeCorrect, PTL DEF Spec

-----------------------------------------------------------------------------
(* From the bytes of an operand to what Linked says of it.                 *)

\* Three bytes in a row.
LEMMA ThreeInARow ==
  ASSUME NEW out \in Seq(Cell), NEW x \in Nat, x + 3 <= Len(out),
         NEW b1, NEW b2, NEW b3, out[x + 1] = b1, out[x + 2] = b2, out[x + 3] = b3
  PROVE  SubSeq(out, x + 1, x + 3) = << b1, b2, b3 >>
<1>1. DOMAIN out = 1 .. Len(out) /\ Len(out) \in Nat
  BY LenProperties
<1>2. x + 1 \in DOMAIN out /\ x + 2 \in DOMAIN out /\ x + 3 \in DOMAIN out
  BY <1>1
<1>3. b1 \in Cell /\ b2 \in Cell /\ b3 \in Cell
  BY <1>2, ElementOfSeq
<1>4. PICK t : t = << b1, b2, b3 >>
  OBVIOUS
<1>5. t \in Seq(Cell) /\ Len(t) = 3 /\ t[1] = b1 /\ t[2] = b2 /\ t[3] = b3
  BY <1>3, <1>4
<1>6. PICK u : u = SubSeq(out, x + 1, x + 3)
  OBVIOUS
<1>7. /\ u \in Seq(Cell) /\ Len(u) = 3
      /\ \A j \in 1 .. 3 : u[j] = out[x + j]
  BY <1>1, <1>2, <1>6, SubSeqProperties
<1>8. \A j \in 1 .. 3 : u[j] = t[j]
  BY <1>5, <1>7
<1>9. u = t
  BY <1>5, <1>7, <1>8, SeqEqual
<1> QED BY <1>4, <1>6, <1>9

\* Where no name reads as a number, an operand that names a label does so by
\* name, and holding the value is what Linked asks.
LEMMA NamesLinked ==
  ASSUME NumericLabels = {}, TypeOK, LinkedNames
  PROVE  Linked
<1> SUFFICES ASSUME pc = "done", errors = <<>>, NEW i \in DOMAIN src, Settled(i),
                    NEW k \in DOMAIN src[i].refs, src[i].refs[k] \in Labels,
                    DefinedBy(src[i].refs[k]) # {}
             PROVE  HoldsLabel(i, k, src[i].refs[k])
  BY DEF Linked, Settled
<1>1. PICK l : l = src[i].refs[k]
  OBVIOUS
<1>2. Symbolic(i, l)
  BY <1>1, SymbolsAssumption DEF Symbolic, Numeric
<1>3. /\ src[i].op \in RefOps
      /\ src[i].pos + Offset(i, k) + Wide(i) <= Len(output)
      /\ Holds(i, k, l)
  BY <1>1, <1>2 DEF LinkedNames
<1>4. PICK p, m, x : p = src[i].pos /\ m = Meaning(i, l) /\ x = p + Offset(i, k)
  OBVIOUS
<1>5. p \in Nat /\ k \in Nat \ {0} /\ x \in Nat /\ output \in Seq(Cell)
  BY <1>4, OperandPlace, SMTT(30) DEF TypeOK
<1>6. ASSUME src[i].op # "branch"
      PROVE  SubSeq(output, x + 1, x + 3) = Address24(m)
  <2>1. Wide(i) = 3 /\ Value(i, l) = Address24(m)
    BY <1>4, <1>6 DEF Wide, Value
  <2>2. \A w \in 1 .. 3 : output[x + w] = Address24(m)[w]
    BY <1>3, <1>4, <2>1 DEF Holds
  <2>3. x + 3 <= Len(output)
    BY <1>3, <1>4, <2>1
  <2>4. PICK b : b = Address24(m)
    OBVIOUS
  <2>5. b = << b[1], b[2], b[3] >>
    BY <2>4 DEF Address24
  <2>6. output[x + 1] = b[1] /\ output[x + 2] = b[2] /\ output[x + 3] = b[3]
    BY <2>2, <2>4
  <2>7. SubSeq(output, x + 1, x + 3) = << b[1], b[2], b[3] >>
    BY ONLY <1>5, <2>3, <2>6, ThreeInARow
  <2> QED BY <2>4, <2>5, <2>7
<1>7. CASE src[i].op = "la"
  <2>1. x = p + 1
    BY <1>4, <1>7 DEF Offset
  <2>2. x + 1 = p + 2 /\ x + 3 = p + 4
    BY <1>5, <2>1
  <2> QED BY <1>1, <1>4, <1>6, <1>7, <2>2 DEF HoldsLabel
<1>8. CASE src[i].op = "word"
  <2>1. x = p + 3 * (k - 1)
    BY <1>4, <1>8 DEF Offset
  <2>2. x + 1 = p + 3 * k - 2 /\ x + 3 = p + 3 * k
    BY <1>5, <2>1
  <2> QED BY <1>1, <1>4, <1>6, <1>8, <2>2 DEF HoldsLabel
<1>9. CASE src[i].op = "branch"
  <2>1. x = p + 1 /\ Wide(i) = 1
    BY <1>4, <1>9 DEF Offset, Wide
  <2>2. output[x + 1] = Value(i, l)[1]
    BY <1>3, <1>4, <2>1 DEF Holds
  <2>3. x + 1 = p + 2
    BY <1>5, <2>1
  <2>4. Value(i, l)[1] = Displacement(Meaning(i, l), src[i].at) % ByteMod
    BY <1>9 DEF Value
  <2> QED BY <1>1, <1>4, <1>9, <2>2, <2>3, <2>4 DEF HoldsLabel
<1> QED BY <1>3, <1>7, <1>8, <1>9 DEF RefOps

\* A program assembled without errors is linked: for every source, base and
\* history of calls, every operand that names a label, on a line the source
\* is flat up to and that stands alone at its addresses, holds what the label
\* means there, whatever .org does after the line.
THEOREM LinkedCorrect ==
  ASSUME NumericLabels = {}, WordsFit
  PROVE  Spec => []Linked
<1>1. TypeOK /\ LInv => Linked
  BY NamesLinked DEF LInv
<1> QED BY <1>1, Linking, TypeCorrect, PTL
=============================================================================
