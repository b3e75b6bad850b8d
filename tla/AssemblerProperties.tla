------------------------- MODULE AssemblerProperties -------------------------
(***************************************************************************)
(* What the assembler promises, stated over the history of the lines it    *)
(* has read: where a label is, what a reference to it must hold in the     *)
(* finished program, which programs are rejected.                          *)
(***************************************************************************)
EXTENDS Assembler

Ops == {"skip", "label", "labelNotAlone", "org", "byte", "zero", "comm", "word",
        "instruction", "bad", "branch", "la"}

SourceLine == [op : Ops, def : SUBSET Labels, refs : Seq(Operands), n : Nat,
               at : Addr, pos : Nat]

ListingLine == [address : Addr, bytes : Seq(Cell)]

ForwardRef == [address : Addr, label : Labels,
               ref_type : {"Absolute24", "Relative8"}, line_num : Nat \ {0}]

ErrorReport == [line : Nat \ {0},
                kind : {"labelNotAlone", "badInstruction", "tooFar", "undefinedLabel"}]

\* Types of the state, and the shape of a .word line in progress.
TypeOK ==
  /\ pc \in {"idle", "pass1", "word", "resolve", "done", "panicked"}
  /\ address \in Addr /\ base_address \in Addr
  /\ labels \in [Labels -> Addr \cup {NoAddr}]
  /\ forward_refs \in Seq(ForwardRef)
  /\ output \in Seq(Cell)
  /\ lines \in Seq(ListingLine)
  /\ errors \in Seq(ErrorReport)
  /\ word \in [todo : Seq(Operands), at : Addr, mark : Nat]
  /\ pc = "word" => word.todo # <<>> /\ src # <<>>
  /\ next \in Nat \ {0}
  /\ src \in Seq(SourceLine)

-----------------------------------------------------------------------------
(* Which programs keep the location counter and the output together.       *)

\* The line moved the counter by exactly what it emitted: no space reserved
\* by .comm, no .org backwards, no address past the top of a u32.
Exact(e) ==
  /\ e.op = "comm" => e.n = 0
  /\ e.op = "org"  => e.n >= e.at
  /\ e.op # "org"  => e.at + e.n < AddrMod

FlatUpTo(k) == \A i \in 1 .. k : Exact(src[i])

Flat == FlatUpTo(Len(src))

\* The addresses line i occupies, and that no other line with an operand in
\* it occupies: a .org backwards has not led the source over them again.
Cells(i) == {Plus(src[i].at, d) : d \in 0 .. src[i].n - 1}

Alone(i) ==
  \A j \in DOMAIN src :
    (j # i /\ src[j].refs # <<>>) => Cells(i) \cap Cells(j) = {}

-----------------------------------------------------------------------------
(* What a reference means, from the source alone.                          *)

Latest(S) == CHOOSE i \in S : \A j \in S : j <= i

DefinedBy(l) == {i \in DOMAIN src : l \in src[i].def}

\* The address l stands for on line i: its latest definition above the line,
\* and without one its last definition in the source.
Meaning(i, l) ==
  LET above == {j \in DefinedBy(l) : j < i}
  IN  src[Latest(IF above # {} THEN above ELSE DefinedBy(l))].at

\* Line i refers to l by name.
Symbolic(i, l) ==
  /\ l \in Labels
  /\ Numeric(l) => src[i].op = "branch" /\ \E j \in DefinedBy(l) : j < i

References(i) == {l \in {src[i].refs[k] : k \in DOMAIN src[i].refs} : Symbolic(i, l)}

\* A branch on a line at `at` can reach `target`: some offset of one byte
\* leads there from the pipeline's base, round the ring of addresses.
Reaches(at, target) ==
  \E d \in -ByteMod .. ByteMod :
    FitsByte(d) /\ (Plus(at, 4) + d) % AddrMod = target

Clean(i) ==
  /\ src[i].op \notin {"labelNotAlone", "bad"}
  /\ \A l \in References(i) :
       /\ DefinedBy(l) # {}
       /\ src[i].op = "branch" => Reaches(src[i].at, Meaning(i, l))

\* The k-th operand of line i, in the output, is what label l means there.
HoldsLabel(i, k, l) ==
  LET p == src[i].pos
  IN  \/ /\ src[i].op = "la"
         /\ SubSeq(output, p + 2, p + 4) = Address24(Meaning(i, l))
      \/ /\ src[i].op = "word"
         /\ SubSeq(output, p + 3*k - 2, p + 3*k) = Address24(Meaning(i, l))
      \/ /\ src[i].op = "branch"
         /\ output[p + 2] = Displacement(Meaning(i, l), src[i].at) % ByteMod

-----------------------------------------------------------------------------
(* Invariants.                                                             *)

\* As long as the source is flat, `address` is base_address plus an offset
\* into the output, the reading the comment on the field gives (line 31):
\* what .org, the data directives and every encoder rely on.
AddressTracksOutput == Flat => address = base_address + Len(output)

Width(r) == IF r.ref_type = "Absolute24" THEN 3 ELSE 1

\* The operand a forward reference will patch lies inside the output, if the
\* source is flat up to its line: the bounds checks with which
\* resolve_forward_refs skips a reference silently never apply to it.
SlotsInOutput ==
  \A i \in DOMAIN forward_refs :
    LET r == forward_refs[i]
    IN  FlatUpTo(r.line_num) =>
          /\ r.address >= base_address
          /\ OutputIndex(r.address) + Width(r) <= Len(output)

\* A program assembled without errors is linked: every operand that names a
\* label, on a line the source is flat up to, holds what the label means.
\* It covers both passes, all three kinds of reference, redefined labels,
\* .comm after the line, and a .org backwards after it: the operands of the
\* lines before it keep, but for those whose own addresses the source comes
\* back to, which the second pass may patch over.
Linked ==
  (pc = "done" /\ errors = <<>>) =>
    \A i \in DOMAIN src : \A k \in DOMAIN src[i].refs :
      (FlatUpTo(i) /\ Alone(i)) =>
        LET l == src[i].refs[k]
        IN  (l \in Labels /\ DefinedBy(l) # {}) => HoldsLabel(i, k, l)

\* An assembly reports an error exactly when some line deserves one: a label
\* that is not alone, an instruction that does not encode, a reference to a
\* label the source never defines, a branch that does not reach.  Nothing of
\* an earlier call on the same Assembler leaks into the verdict.
ErrorsExact ==
  pc = "done" => (errors = <<>> <=> \A i \in DOMAIN src : Clean(i))

\* The listing of a flat program tiles the output: each line shows the final
\* bytes at its address, and begins where the line before it ended.
ListingTiles ==
  (pc = "done" /\ Flat) =>
    LET end(i) == lines[i].address - base_address + Len(lines[i].bytes)
    IN  /\ \A i \in DOMAIN lines :
             /\ lines[i].bytes =
                  SubSeq(output, lines[i].address - base_address + 1, end(i))
             /\ lines[i].address - base_address = IF i = 1 THEN 0 ELSE end(i - 1)
        /\ Len(output) = IF lines = <<>> THEN 0 ELSE end(Len(lines))

-----------------------------------------------------------------------------
(* Action properties.                                                      *)

\* The second pass of a flat program writes operands only: an opcode, a
\* register field or a literal the first pass emitted is never overwritten.
OpcodesKept ==
  [][pc = "resolve" /\ Flat =>
       \A k \in DOMAIN output : output[k] = Opaque => output'[k] = Opaque]_vars

-----------------------------------------------------------------------------
(* What the comments say of every program, and the code does not do.       *)

\* assembler.rs:31 on `address`: "Current address (base_address + offset
\* into output)".  .comm reserves space and emits nothing.
AddressIsOffset == pc # "panicked" => address = base_address + Len(output)
=============================================================================
