----------------------------- MODULE MCToolchain -----------------------------
EXTENDS Toolchain, DecodeRom, Bitwise

CONSTANT loop

MCAnd(x, y) == x & y
MCOr(x, y)  == x | y
MCXor(x, y) == x ^^ y

MCWordLines == {<<loop>>}

Ins(m, ops) == [ins |-> m, ops |-> ops]
R(r)        == [reg |-> r]
N(v)        == [num |-> v]
ToA         == [label |-> loop]

\* Every mnemonic with no operand, one, two and three.
Mnemonics == DOMAIN Denotes \cup {"nop"}
Registers == {R(r) : r \in DOMAIN RegisterCode}
Numbers   == {N(v) : v \in {-129, -128, -4, 0, 127, 128, 255, 256, 70000}}
Bases_    == {[base |-> r] : r \in {"r0", "r1", "fp", "z"}}
Offsets   == {[off |-> v, base |-> r] : v \in {-128, 3, 300}, r \in {"r1", "r2", "sp"}}
First     == Registers \cup {[base |-> r] : r \in DOMAIN RegisterCode} \cup {N(1)}
Second    == Registers \cup Numbers \cup Bases_ \cup Offsets
Targets   == {N(v) : v \in {-4, 0, 127, 300}}

Straight == Mnemonics \ DOMAIN BranchOpcode

Singles ==
  {<<Ins(m, <<>>)>> : m \in Mnemonics}
    \cup {<<Ins(m, <<x>>)>> : m \in Straight, x \in First}
    \cup {<<Ins(m, <<x>>)>> : m \in DOMAIN BranchOpcode, x \in Targets}
    \cup {<<Ins(m, <<x, y>>)>> : m \in Straight \ {"la"}, x \in First, y \in Second}
    \cup {<<Ins("la", <<x, y>>)>> : x \in First, y \in Numbers}
    \cup {<<Ins(m, <<R("r0"), R("r1"), R("r2")>>)>> : m \in Straight \ {"la"}}

\* Programs around one label: every way to reach it, forwards and back.
Uses ==
  {Ins(m, <<ToA>>) : m \in DOMAIN BranchOpcode}
    \cup {Ins("la", <<R("r1"), ToA>>), Ins("la", <<R("ir"), ToA>>)}
Others == {Ins("lc", <<R("r0"), N(1)>>), Ins("ceq", <<R("r0"), R("z")>>),
           Ins("add", <<R("r0"), R("r1")>>), Ins("nop", <<>>),
           Ins("jmp", <<[base |-> "r1"]>>), [words |-> <<loop>>]}
Label == [label |-> loop]
Lines == {Label} \cup Uses \cup Others

Combined ==
  {s \in UNION {[1 .. n -> Lines] : n \in 2 .. 4} :
     Label \in {s[i] : i \in DOMAIN s}}

\* Branches at the ends of their range.
Gap(n) == [zero |-> n]
Far ==
  {<<Ins(m, <<ToA>>), Gap(n), Label, Ins("nop", <<>>)>> :
      m \in DOMAIN BranchOpcode, n \in {129, 130}}
    \cup {<<Label, Ins("nop", <<>>), Gap(n), Ins(m, <<ToA>>)>> :
      m \in DOMAIN BranchOpcode, n \in {123, 124}}

\* A subroutine, and a jump through a register.
Call ==
  {<<Ins("la", <<R(r), ToA>>), Ins("jal", <<R("r1"), [base |-> r]>>), Ins("nop", <<>>),
     Label, Ins("jmp", <<[base |-> "r1"]>>)>> : r \in {"r0", "r2"}}

\* The loop of test_branch_loop_integration (assembler.rs:1238).
Loop ==
  <<Ins("lc", <<R("r0"), N(1)>>), Label, Ins("add", <<R("r0"), N(-1)>>),
    Ins("ceq", <<R("r0"), R("z")>>), Ins("brf", <<ToA>>)>>

MCSources == {Loop} \cup Call \cup Singles \cup Combined \cup Far
=============================================================================
