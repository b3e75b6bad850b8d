------------------------------ MODULE CliProofs ------------------------------
(***************************************************************************)
(* What a call of cor24-asm leaves behind, for any argument lists, file    *)
(* names and results.                                                      *)
(*                                                                         *)
(* The argument loop is compared with what the argument list asks for:     *)
(* what `cli` holds is what the arguments before `next` say (ArgsRead,     *)
(* LgoRead), so once they are all read the outputs planned are those asked *)
(* for (Planned).  From there on the invariant counts the outputs begun:   *)
(* their files hold what they should (FilesAt), and standard output with   *)
(* what waits in its buffer and what is still to be written is what was    *)
(* asked of it so far (StdoutAt).                                          *)
(***************************************************************************)
EXTENDS Cli, SequenceTheorems, FiniteSetTheorems, WellFoundedInduction, TLAPS

-----------------------------------------------------------------------------
(* Induction, with the set of numbers that have the property.              *)

LEMMA SetInduction ==
  ASSUME NEW S, 0 \in S, \A n \in Nat : n \in S => n + 1 \in S
  PROVE  \A n \in Nat : n \in S
<1> DEFINE T == Nat \ S
           R == {ss \in Nat \X Nat : ss[1] < ss[2]}
<1> SUFFICES ASSUME T # {} PROVE FALSE
  OBVIOUS
<1>1. IsWellFoundedOn(R, Nat)
  BY NatLessThanWellFounded DEF OpToRel
<1>2. PICK x \in T : \A y \in T : ~ (<<y, x>> \in R)
  <2> HIDE DEF R
  <2> QED BY <1>1, WFMin
<1>3. x # 0 /\ x - 1 \in Nat /\ x - 1 + 1 = x
  OBVIOUS
<1>4. x - 1 \in T
  BY <1>3
<1>5. <<x - 1, x>> \in Nat \X Nat /\ x - 1 < x
  BY <1>3
<1>6. <<x - 1, x>> \in R
  BY <1>5
<1> QED BY <1>2, <1>4, <1>6

\* A set of numbers up to n has a largest element.
LEMMA MaxExists ==
  ASSUME NEW n \in Nat, NEW S \in SUBSET (1 .. n), S # {}
  PROVE  Max(S) \in S /\ \A i \in S : i <= Max(S)
<1> DEFINE P == {m \in Nat : \A T \in SUBSET (1 .. m) :
                   T # {} => \E x \in T : \A y \in T : x >= y}
<1>1. 0 \in P
  <2>1. 1 .. 0 = {}
    OBVIOUS
  <2> QED BY <2>1
<1>2. ASSUME NEW m \in Nat, m \in P
      PROVE  m + 1 \in P
  <2> SUFFICES ASSUME NEW T \in SUBSET (1 .. m + 1), T # {}
               PROVE  \E x \in T : \A y \in T : x >= y
    OBVIOUS
  <2>1. CASE m + 1 \in T
    BY <2>1
  <2>2. CASE m + 1 \notin T
    <3>1. T \in SUBSET (1 .. m)
      BY <2>2
    <3> QED BY <1>2, <3>1
  <2> QED BY <2>1, <2>2
<1>3. n \in P
  <2> HIDE DEF P
  <2> QED BY <1>1, <1>2, SetInduction
<1>4. \E x \in S : \A y \in S : x >= y
  BY <1>3
<1>5. \A y \in S : y \in Int
  OBVIOUS
<1>6. Max(S) \in S /\ \A y \in S : Max(S) >= y
  BY <1>4 DEF Max
<1> QED BY <1>5, <1>6

\* and it is the one that Max picks.
LEMMA MaxIs ==
  ASSUME NEW S \in SUBSET Int, NEW m \in S, \A i \in S : i <= m
  PROVE  Max(S) = m
<1>1. \E x \in S : \A y \in S : x >= y
  OBVIOUS
<1>2. Max(S) \in S /\ \A y \in S : Max(S) >= y
  BY <1>1 DEF Max
<1>3. m \in Int /\ Max(S) \in Int /\ Max(S) <= m /\ Max(S) >= m
  BY <1>2
<1> QED BY <1>3

-----------------------------------------------------------------------------
(* The pieces of an output.                                                *)

\* The indices kept are indices of what they are kept from.
LEMMA KeptType ==
  ASSUME NEW keep, Len(keep) \in Nat
  PROVE  Kept(keep) \in Seq(Nat)
<1> DEFINE D == Len(keep)
           Def(f, n) == f = [i \in 0 .. n |->
             IF i = 0 THEN <<>>
             ELSE IF keep[i] THEN Append(f[i - 1], i) ELSE f[i - 1]]
           P == {n \in Nat : \E f : Def(f, n) /\ f \in [0 .. n -> Seq(Nat)]}
<1>1. 0 \in P
  <2> DEFINE g == [i \in 0 .. 0 |-> <<>>]
  <2>1. Def(g, 0) /\ g \in [0 .. 0 -> Seq(Nat)]
    BY EmptySeq
  <2> QED BY <2>1
<1>2. ASSUME NEW n \in Nat, n \in P
      PROVE  n + 1 \in P
  <2>1. PICK f : Def(f, n) /\ f \in [0 .. n -> Seq(Nat)]
    BY <1>2
  <2> DEFINE last == IF keep[n + 1] THEN Append(f[n], n + 1) ELSE f[n]
             g == [i \in 0 .. n + 1 |-> IF i = n + 1 THEN last ELSE f[i]]
  <2>2. last \in Seq(Nat)
    BY <2>1, AppendProperties
  <2>3. g \in [0 .. n + 1 -> Seq(Nat)]
    BY <2>1, <2>2
  <2>4. ASSUME NEW i \in 0 .. n + 1
        PROVE  g[i] = IF i = 0 THEN <<>>
                      ELSE IF keep[i] THEN Append(g[i - 1], i) ELSE g[i - 1]
    <3>1. CASE i = n + 1
      <4>1. g[i] = last /\ i # 0 /\ i - 1 = n /\ g[i - 1] = f[n]
        BY <3>1
      <4> QED BY <3>1, <4>1
    <3>2. CASE i # n + 1
      <4>1. i \in 0 .. n /\ g[i] = f[i]
        BY <3>2
      <4>2. i # 0 => g[i - 1] = f[i - 1]
        BY <4>1
      <4>3. f[i] = IF i = 0 THEN <<>>
                   ELSE IF keep[i] THEN Append(f[i - 1], i) ELSE f[i - 1]
        BY <2>1, <4>1
      <4> QED BY <4>1, <4>2, <4>3
    <3> QED BY <3>1, <3>2
  <2>5. Def(g, n + 1)
    <3> HIDE DEF last
    <3>1. g = [i \in 0 .. n + 1 |-> g[i]]
      OBVIOUS
    <3> HIDE DEF g
    <3> QED BY <2>4, <3>1
  <2>6. n + 1 \in Nat
    OBVIOUS
  <2> HIDE DEF g, Def
  <2> QED BY <2>3, <2>5, <2>6
<1>3. D \in P
  <2> HIDE DEF P
  <2> QED BY <1>1, <1>2, SetInduction
<1>4. PICK f : Def(f, D) /\ f \in [0 .. D -> Seq(Nat)]
  BY <1>3, SMTT(30)
<1> DEFINE kept == CHOOSE f_1 : Def(f_1, D)
<1>5. Def(kept, D)
  BY <1>4
<1>6. Kept(keep) = kept[D]
  BY DEF Kept
<1> DEFINE Q == {n \in Nat : n <= D => kept[n] \in Seq(Nat)}
<1>7. 0 \in Q
  <2> HIDE DEF kept
  <2> QED BY <1>5, EmptySeq
<1>8. ASSUME NEW n \in Nat, n \in Q
      PROVE  n + 1 \in Q
  <2> SUFFICES ASSUME n + 1 <= D PROVE kept[n + 1] \in Seq(Nat)
    OBVIOUS
  <2> HIDE DEF kept
  <2>1. kept[n] \in Seq(Nat)
    BY <1>8
  <2>2. n + 1 \in 0 .. D /\ n + 1 # 0 /\ n + 1 - 1 = n
    OBVIOUS
  <2>3. \A i \in 0 .. D : kept[i] =
          IF i = 0 THEN <<>> ELSE IF keep[i] THEN Append(kept[i - 1], i) ELSE kept[i - 1]
    BY <1>5
  <2>4. kept[n + 1] = IF keep[n + 1] THEN Append(kept[n], n + 1) ELSE kept[n]
    BY <2>2, <2>3
  <2> QED BY <2>1, <2>4, AppendProperties
<1>9. D \in Q
  <2> HIDE DEF Q
  <2> QED BY <1>7, <1>8, SetInduction
<1> QED BY <1>6, <1>9

ResultType == [zero : Seq(BOOLEAN), lines : Seq(STRING)]

PieceOf(art) == [art : {art}, item : Nat, base : Nat]

\* A function on 1 .. n is a sequence.
LEMMA FunctionIsSeq ==
  ASSUME NEW S, NEW n \in Nat, NEW f \in [1 .. n -> S]
  PROVE  f \in Seq(S) /\ Len(f) = n
<1>1. f \in Seq(S)
  BY SeqDef
<1>2. DOMAIN f = 1 .. n /\ DOMAIN f = 1 .. Len(f) /\ Len(f) \in Nat
  BY <1>1, LenProperties
<1> QED BY <1>1, <1>2

\* An output is a sequence of pieces of its own kind.
LEMMA PiecesType ==
  ASSUME NEW res \in ResultType, NEW art \in {"lgo", "bin", "listing"},
         NEW mode, NEW base \in Nat
  PROVE  Pieces(res, art, mode, base) \in Seq(PieceOf(art))
<1>1. /\ res.zero \in Seq(BOOLEAN) /\ Len(res.zero) \in Nat
      /\ DOMAIN res.zero = 1 .. Len(res.zero)
  BY LenProperties DEF ResultType
<1>2. /\ res.lines \in Seq(STRING) /\ Len(res.lines) \in Nat
      /\ DOMAIN res.lines = 1 .. Len(res.lines)
  BY LenProperties DEF ResultType
<1>3. CASE art = "lgo"
  <2> DEFINE keep == [i \in DOMAIN res.zero |-> ~ (mode = "compact" /\ res.zero[i])]
             kept == Kept(keep)
             made == [k \in DOMAIN kept |-> [Piece("lgo", kept[k]) EXCEPT !.base = base]]
  <2>1. keep \in [1 .. Len(res.zero) -> BOOLEAN]
    BY <1>1
  <2>2. kept \in Seq(Nat)
    BY <1>1, <2>1, FunctionIsSeq, KeptType
  <2>3. Len(kept) \in Nat /\ DOMAIN kept = 1 .. Len(kept) /\ \A k \in DOMAIN kept : kept[k] \in Nat
    BY <2>2, LenProperties, ElementOfSeq
  <2>4. LgoPieces(res, mode, base) = made
    BY DEF LgoPieces
  <2> HIDE DEF kept
  <2>5. made \in [1 .. Len(kept) -> PieceOf(art)]
    BY <1>3, <2>3 DEF Piece, PieceOf
  <2> HIDE DEF made
  <2>6. made \in Seq(PieceOf(art))
    BY <2>3, <2>5, FunctionIsSeq
  <2> QED BY <1>3, <2>4, <2>6 DEF Pieces
<1>4. CASE art = "bin"
  <2>1. BinPieces(res) \in [1 .. Len(res.zero) -> PieceOf(art)]
    BY <1>1, <1>4 DEF BinPieces, Piece, PieceOf
  <2>2. BinPieces(res) \in Seq(PieceOf(art))
    BY <1>1, <2>1, FunctionIsSeq
  <2> QED BY <1>4, <2>2 DEF Pieces
<1>5. CASE art = "listing"
  <2> DEFINE keep == [i \in DOMAIN res.lines |-> res.lines[i] # "blank"]
             kept == Kept(keep)
             made == [k \in DOMAIN kept |-> Piece("listing", kept[k])]
  <2>1. keep \in [1 .. Len(res.lines) -> BOOLEAN]
    BY <1>2
  <2>2. kept \in Seq(Nat)
    BY <1>2, <2>1, FunctionIsSeq, KeptType
  <2>3. Len(kept) \in Nat /\ DOMAIN kept = 1 .. Len(kept) /\ \A k \in DOMAIN kept : kept[k] \in Nat
    BY <2>2, LenProperties, ElementOfSeq
  <2>4. ListingPieces(res) = made
    BY DEF ListingPieces
  <2> HIDE DEF kept
  <2>5. made \in [1 .. Len(kept) -> PieceOf(art)]
    BY <1>5, <2>3 DEF Piece, PieceOf
  <2> HIDE DEF made
  <2>6. made \in Seq(PieceOf(art))
    BY <2>3, <2>5, FunctionIsSeq
  <2> QED BY <1>5, <2>4, <2>6 DEF Pieces
<1> QED BY <1>3, <1>4, <1>5

-----------------------------------------------------------------------------
(* Which arguments are values.                                             *)

Valued == TakesPath \cup {"--base-addr"}

\* The definition of IsValue defines a function.
LEMMA ValueDef ==
  ASSUME Len(argv) \in Nat
  PROVE  /\ IsValue \in [0 .. Len(argv) -> BOOLEAN]
         /\ \A i \in 0 .. Len(argv) :
              IsValue[i] <=> (i > 1 /\ argv[i - 1] \in Valued /\ ~ IsValue[i - 1])
<1> DEFINE D == Len(argv)
           Def(f, n) == f = [i \in 0 .. n |->
             i > 1 /\ argv[i - 1] \in TakesPath \cup {"--base-addr"} /\ ~ f[i - 1]]
           P == {n \in Nat : \E f : Def(f, n)}
<1>1. 0 \in P
  <2> DEFINE g == [i \in 0 .. 0 |-> FALSE]
  <2>1. Def(g, 0)
    <3>1. \A i \in 0 .. 0 :
            g[i] = (i > 1 /\ argv[i - 1] \in TakesPath \cup {"--base-addr"} /\ ~ g[i - 1])
      <4>1. \A i \in 0 .. 0 : ~ (i > 1) /\ g[i] = FALSE
        OBVIOUS
      <4> HIDE DEF g
      <4> QED BY <4>1
    <3>2. g = [i \in 0 .. 0 |-> g[i]]
      OBVIOUS
    <3> HIDE DEF g
    <3> QED BY <3>1, <3>2
  <2> HIDE DEF g, Def
  <2> QED BY <2>1
<1>2. ASSUME NEW n \in Nat, n \in P
      PROVE  n + 1 \in P
  <2>1. PICK f : Def(f, n)
    BY <1>2
  <2> DEFINE last == n + 1 > 1 /\ argv[n] \in TakesPath \cup {"--base-addr"} /\ ~ f[n]
             g == [i \in 0 .. n + 1 |-> IF i = n + 1 THEN last ELSE f[i]]
  <2>2. ASSUME NEW i \in 0 .. n + 1
        PROVE  g[i] = (i > 1 /\ argv[i - 1] \in TakesPath \cup {"--base-addr"} /\ ~ g[i - 1])
    <3>1. CASE i = n + 1
      <4>1. g[i] = last /\ i - 1 = n
        BY <3>1
      <4>2. i > 1 => g[i - 1] = f[n]
        BY <3>1
      <4> QED BY <3>1, <4>1, <4>2
    <3>2. CASE i # n + 1
      <4>1. i \in 0 .. n /\ g[i] = f[i]
        BY <3>2
      <4>2. i > 1 => g[i - 1] = f[i - 1]
        BY <4>1
      <4>3. f[i] = (i > 1 /\ argv[i - 1] \in TakesPath \cup {"--base-addr"} /\ ~ f[i - 1])
        BY <2>1, <4>1
      <4> QED BY <4>1, <4>2, <4>3
    <3> QED BY <3>1, <3>2
  <2>3. Def(g, n + 1)
    <3> HIDE DEF last
    <3>1. g = [i \in 0 .. n + 1 |-> g[i]]
      OBVIOUS
    <3> HIDE DEF g
    <3> QED BY <2>2, <3>1
  <2>4. n + 1 \in Nat
    OBVIOUS
  <2> HIDE DEF g, Def
  <2> QED BY <2>3, <2>4
<1>3. D \in P
  <2> HIDE DEF P
  <2> QED BY <1>1, <1>2, SetInduction
<1>4. Def(IsValue, D)
  <2>1. IsValue = CHOOSE f : Def(f, D)
    BY DEF IsValue
  <2>2. \E f : Def(f, D)
    BY <1>3
  <2> HIDE DEF Def
  <2> QED BY <2>1, <2>2
<1> QED BY <1>4 DEF Valued

-----------------------------------------------------------------------------
(* The argument loop: `cli` holds what the arguments before `next` say.    *)

Infos == {"-h", "--help", "-V", "--version"}

Below(S) == {i \in Options(S) : i < next}

InputsBelow == {i \in DOMAIN argv : IsInput(argv[i]) /\ ~ IsValue[i] /\ i < next}

IsLast(m, S) == m \in S /\ \A i \in S : i <= m

\* An argument that is no value and may stand where it stands.
GoodArg(i) ==
  \/ IsInput(argv[i]) \/ argv[i] \in DOMAIN ModeOf
  \/ argv[i] \in TakesPath /\ i < Len(argv)
  \/ argv[i] = "--base-addr" /\ i < Len(argv) /\ argv[i + 1] \in DOMAIN AddressOf

PathRead(option, field) ==
  \/ field = None /\ Below({option}) = {}
  \/ \E m \in Int : /\ IsLast(m, Below({option})) /\ m + 1 < next
                    /\ field = argv[m + 1] /\ field # None

LgoRead ==
  \/ cli.lgo = [sink |-> AutoFromStem, path |-> None] /\ Below({"-o"}) = {}
  \/ \E m \in Int : /\ IsLast(m, Below({"-o"})) /\ m + 1 < next
                    /\ cli.lgo = [sink |-> "explicit", path |-> argv[m + 1]]

BaseRead ==
  \/ cli.base_addr = 0 /\ Below({"--base-addr"}) = {}
  \/ \E m \in Int : /\ IsLast(m, Below({"--base-addr"})) /\ m + 1 < next
                    /\ argv[m + 1] \in DOMAIN AddressOf
                    /\ cli.base_addr = AddressOf[argv[m + 1]]

ModeRead ==
  /\ cli.lgo_mode = "full"    <=> Below({"--lgo-full"}) # {}
  /\ cli.lgo_mode = "compact" <=> Below({"--lgo-compact"}) # {}

InputRead ==
  \/ cli.input = None /\ InputsBelow = {}
  \/ \E m \in Int : InputsBelow = {m} /\ cli.input = argv[m]

ArgsRead ==
  /\ next <= Len(argv) => ~ IsValue[next]
  /\ Below(Infos) = {}
  /\ \A i \in DOMAIN argv : (i < next /\ ~ IsValue[i]) => GoodArg(i)
  /\ PathRead("--bin", cli.bin) /\ PathRead("--listing", cli.listing)
  /\ BaseRead /\ ModeRead /\ InputRead

CliType ==
  LET Text == STRING \cup {None} IN
  [input : Text, lgo : [sink : {AutoFromStem, "explicit", None}, path : Text],
   lgo_mode : {None, "full", "compact"}, bin : Text, listing : Text, base_addr : Nat]

ArgsType ==
  /\ argv \in Argvs /\ argv \in Seq(STRING) /\ next \in 1 .. Len(argv) + 1
  /\ cli \in CliType
  /\ cli.input \in {None, Stdio} \cup DOMAIN LgoOf

\* What the argument list is does not change.
LEMMA ArgvFixed ==
  ASSUME argv' = argv
  PROVE  /\ IsValue' = IsValue
         /\ \A S : Options(S)' = Options(S)
         /\ \A i : GoodArg(i)' = GoodArg(i)
<1>1. IsValue' = IsValue
  BY DEF IsValue, TakesPath
<1>2. \A S : Options(S)' = Options(S)
  BY <1>1 DEF Options
<1>3. \A i : GoodArg(i)' = GoodArg(i)
  BY DEF GoodArg, IsInput, ModeOf, TakesPath, Stdio
<1> QED BY <1>1, <1>2, <1>3

LEMMA ArgvShape ==
  ASSUME ArgsType
  PROVE  /\ Len(argv) \in Nat /\ DOMAIN argv = 1 .. Len(argv)
         /\ next \in Nat /\ next >= 1 /\ next <= Len(argv) + 1
         /\ \A i \in DOMAIN argv : argv[i] \in STRING /\ argv[i] # None
<1>1. Len(argv) \in Nat /\ DOMAIN argv = 1 .. Len(argv)
      /\ \A i \in DOMAIN argv : argv[i] \in STRING
  BY LenProperties, ElementOfSeq DEF ArgsType
<1>2. \A i \in DOMAIN argv : argv[i] # None
  BY CliAssumption DEF ArgsType, None
<1> QED BY <1>1, <1>2 DEF ArgsType

\* One argument more is read: an option with a value takes two.
StepBy == IF argv[next] \in Valued THEN 2 ELSE 1

LEMMA BelowStep ==
  ASSUME ArgsType, next <= Len(argv), ~ IsValue[next],
         argv[next] \in Valued => next < Len(argv),
         argv' = argv, next' = next + StepBy
  PROVE  /\ next' <= Len(argv) => ~ IsValue[next']
         /\ \A S : Below(S)' = Below(S) \cup (IF argv[next] \in S THEN {next} ELSE {})
         /\ InputsBelow' = InputsBelow \cup (IF IsInput(argv[next]) THEN {next} ELSE {})
         /\ \A i \in DOMAIN argv :
              (i < next' /\ ~ IsValue[i]) => (i < next \/ i = next)
<1>1. /\ Len(argv) \in Nat /\ DOMAIN argv = 1 .. Len(argv)
      /\ next \in Nat /\ next >= 1 /\ next <= Len(argv)
  BY ArgvShape
<1>2. \A i \in 0 .. Len(argv) :
        IsValue[i] <=> (i > 1 /\ argv[i - 1] \in Valued /\ ~ IsValue[i - 1])
  BY <1>1, ValueDef
<1>3. next + 1 <= Len(argv) => (IsValue[next + 1] <=> argv[next] \in Valued)
  BY <1>1, <1>2
<1>4. (next + 2 <= Len(argv) /\ argv[next] \in Valued) => ~ IsValue[next + 2]
  BY <1>1, <1>2, <1>3
<1>5. next' <= Len(argv) => ~ IsValue[next']
  BY <1>1, <1>3, <1>4 DEF StepBy
<1>6. \A i \in DOMAIN argv : ~ IsValue[i] => (i < next' <=> (i < next \/ i = next))
  BY <1>1, <1>3 DEF StepBy
<1>7. ASSUME NEW S
      PROVE  Below(S)' = Below(S) \cup (IF argv[next] \in S THEN {next} ELSE {})
  <2>1. Below(S)' = {i \in Options(S) : i < next'}
    BY ArgvFixed DEF Below
  <2>2. next \in Options(S) <=> argv[next] \in S
    BY <1>1 DEF Options
  <2>3. \A i \in Options(S) : i < next' <=> (i < next \/ i = next)
    BY <1>6 DEF Options
  <2> QED BY <2>1, <2>2, <2>3 DEF Below
<1>8. InputsBelow' = InputsBelow \cup (IF IsInput(argv[next]) THEN {next} ELSE {})
  <2>1. InputsBelow' = {i \in DOMAIN argv : IsInput(argv[i]) /\ ~ IsValue[i] /\ i < next'}
    BY ArgvFixed DEF InputsBelow, IsInput, Stdio
  <2> QED BY <1>1, <1>6, <2>1 DEF InputsBelow
<1> QED BY <1>5, <1>6, <1>7, <1>8

Advance ==
  /\ next <= Len(argv) /\ ~ IsValue[next]
  /\ argv[next] \in Valued => next < Len(argv)
  /\ argv' = argv /\ next' = next + StepBy

\* What is last among the arguments before, when one more is read.
LEMMA LastStep ==
  ASSUME ArgsType, Advance
  PROVE  \A S : IF argv[next] \in S THEN IsLast(next, Below(S)') ELSE Below(S)' = Below(S)
<1> TAKE S
<1>1. Below(S)' = Below(S) \cup (IF argv[next] \in S THEN {next} ELSE {})
  BY BelowStep DEF Advance
<1>2. \A i \in Below(S) : i <= next
  BY ArgvShape DEF Below, Options
<1>3. next <= next
  BY ArgvShape
<1> QED BY <1>1, <1>2, <1>3 DEF IsLast

LEMMA PathStep ==
  ASSUME ArgsType, Advance, NEW o \in TakesPath, NEW f, NEW g, PathRead(o, f),
         g = IF argv[next] = o THEN argv[next + 1] ELSE f
  PROVE  \/ g = None /\ Below({o})' = {}
         \/ \E m \in Int : /\ IsLast(m, Below({o})') /\ m + 1 < next'
                           /\ g = argv[m + 1] /\ g # None
<1>1. CASE argv[next] = o
  <2>1. next \in Int /\ IsLast(next, Below({o})')
    BY <1>1, LastStep, ArgvShape DEF TakesPath
  <2>2. next + 1 < next' /\ next + 1 \in DOMAIN argv
    BY <1>1, ArgvShape DEF Advance, StepBy, Valued
  <2>3. argv[next + 1] # None
    BY <2>2, ArgvShape
  <2> QED BY <1>1, <2>1, <2>2, <2>3
<1>2. CASE argv[next] # o
  <2>1. Below({o})' = Below({o})
    BY <1>2, LastStep DEF TakesPath
  <2>2. next' > next /\ next \in Int
    BY ArgvShape DEF Advance, StepBy
  <2>3. \A m \in Int : m + 1 < next => m + 1 < next'
    BY <2>2, ArgvShape DEF Advance, StepBy
  <2> QED BY <1>2, <2>1, <2>3 DEF PathRead
<1> QED BY <1>1, <1>2

\* The parts of ArgsRead that a step does not write.
LEMMA ReadOn ==
  ASSUME ArgsType, Advance, ArgsRead, GoodArg(next), argv[next] \notin Infos
  PROVE  /\ next' <= Len(argv') => ~ IsValue'[next']
         /\ Below(Infos)' = {}
         /\ \A i \in DOMAIN argv' : (i < next' /\ ~ IsValue'[i]) => GoodArg(i)'
         /\ next' \in 1 .. Len(argv') + 1
<1>1. Below(Infos)' = {}
  BY BelowStep DEF Advance, ArgsRead
<1>2. argv' = argv /\ IsValue' = IsValue /\ \A i : GoodArg(i)' = GoodArg(i)
  BY ArgvFixed DEF Advance
<1>3. \A i \in DOMAIN argv : (i < next' /\ ~ IsValue[i]) => GoodArg(i)
  BY BelowStep DEF Advance, ArgsRead
<1>4. next' <= Len(argv) => ~ IsValue[next']
  BY BelowStep DEF Advance
<1>5. next' \in 1 .. Len(argv) + 1
  BY ArgvShape DEF Advance, StepBy
<1> QED BY <1>1, <1>2, <1>3, <1>4, <1>5

LEMMA BaseStep ==
  ASSUME ArgsType, Advance, BaseRead,
         IF argv[next] = "--base-addr"
         THEN /\ argv[next + 1] \in DOMAIN AddressOf
              /\ cli'.base_addr = AddressOf[argv[next + 1]]
         ELSE cli'.base_addr = cli.base_addr
  PROVE  BaseRead'
<1> DEFINE o == "--base-addr"
<1>0. argv' = argv
  BY DEF Advance
<1>1. CASE argv[next] = o
  <2>1. next \in Int /\ IsLast(next, Below({o})')
    BY <1>1, LastStep, ArgvShape
  <2>2. next + 1 < next'
    BY <1>1, ArgvShape DEF Advance, StepBy, Valued
  <2> QED BY <1>0, <1>1, <2>1, <2>2 DEF BaseRead
<1>2. CASE argv[next] # o
  <2>1. Below({o})' = Below({o})
    BY <1>2, LastStep
  <2>2. \A m \in Int : m + 1 < next => m + 1 < next'
    BY ArgvShape DEF Advance, StepBy
  <2> QED BY <1>0, <1>2, <2>1, <2>2 DEF BaseRead
<1> QED BY <1>1, <1>2

LEMMA LgoStep ==
  ASSUME ArgsType, Advance, LgoRead,
         cli'.lgo = IF argv[next] = "-o"
                    THEN [sink |-> "explicit", path |-> argv[next + 1]] ELSE cli.lgo
  PROVE  LgoRead'
<1> DEFINE o == "-o"
<1>0. argv' = argv
  BY DEF Advance
<1>1. CASE argv[next] = o
  <2>1. next \in Int /\ IsLast(next, Below({o})')
    BY <1>1, LastStep, ArgvShape
  <2>2. next + 1 < next'
    BY <1>1, ArgvShape DEF Advance, StepBy, Valued, TakesPath
  <2> QED BY <1>0, <1>1, <2>1, <2>2 DEF LgoRead
<1>2. CASE argv[next] # o
  <2>1. Below({o})' = Below({o})
    BY <1>2, LastStep
  <2>2. \A m \in Int : m + 1 < next => m + 1 < next'
    BY ArgvShape DEF Advance, StepBy
  <2> QED BY <1>0, <1>2, <2>1, <2>2 DEF LgoRead
<1> QED BY <1>1, <1>2

LEMMA ModeStep ==
  ASSUME ArgsType, Advance, ModeRead,
         cli'.lgo_mode = IF argv[next] \in DOMAIN ModeOf THEN ModeOf[argv[next]]
                                                         ELSE cli.lgo_mode,
         argv[next] \in DOMAIN ModeOf => cli.lgo_mode \in {None, ModeOf[argv[next]]}
  PROVE  ModeRead'
<1>1. \A S : Below(S)' = Below(S) \cup (IF argv[next] \in S THEN {next} ELSE {})
  BY BelowStep DEF Advance
<1>2. /\ Below({"--lgo-full"})' =
           Below({"--lgo-full"}) \cup (IF argv[next] \in {"--lgo-full"} THEN {next} ELSE {})
      /\ Below({"--lgo-compact"})' =
           Below({"--lgo-compact"}) \cup (IF argv[next] \in {"--lgo-compact"} THEN {next} ELSE {})
  BY <1>1
<1> QED BY <1>2 DEF ModeRead, ModeOf, None

LEMMA InputStep ==
  ASSUME ArgsType, Advance, InputRead,
         cli'.input = IF IsInput(argv[next]) THEN argv[next] ELSE cli.input,
         IsInput(argv[next]) => cli.input = None
  PROVE  InputRead'
<1>1. InputsBelow' = InputsBelow \cup (IF IsInput(argv[next]) THEN {next} ELSE {})
  BY BelowStep DEF Advance
<1>2. next \in Int /\ argv' = argv
  BY ArgvShape DEF Advance
<1>3. CASE IsInput(argv[next])
  <2>1. cli.input = None
    BY <1>3
  <2>2. \A i \in InputsBelow : argv[i] # None
    BY ArgvShape DEF InputsBelow
  <2>3. InputsBelow = {}
    BY <2>1, <2>2 DEF InputRead
  <2>4. InputsBelow' = {next}
    BY <1>1, <1>3, <2>3
  <2> QED BY <1>2, <1>3, <2>4 DEF InputRead
<1>4. CASE ~ IsInput(argv[next])
  <2>1. InputsBelow' = InputsBelow
    BY <1>1, <1>4
  <2> QED BY <1>2, <1>4, <2>1 DEF InputRead
<1> QED BY <1>3, <1>4

ArgsInv == ArgsType /\ ArgsRead /\ LgoRead

\* The strings an argument is compared with are different strings, and none
\* of them is a file.
LEMMA Distinct ==
  /\ DOMAIN ModeOf = {"--lgo-full", "--lgo-compact"}
  /\ ModeOf["--lgo-full"] = "full" /\ ModeOf["--lgo-compact"] = "compact"
  /\ \A x \in Infos \cup Valued \cup DOMAIN ModeOf : ~ IsInput(x)
  /\ \A x \in DOMAIN ModeOf : x \notin Valued \cup Infos
  /\ \A x \in Infos : x \notin Valued
<1>1. /\ DOMAIN ModeOf = {"--lgo-full", "--lgo-compact"}
      /\ ModeOf["--lgo-full"] = "full" /\ ModeOf["--lgo-compact"] = "compact"
  BY DEF ModeOf
<1>2. \A x \in Infos \cup Valued \cup DOMAIN ModeOf : x \notin DOMAIN LgoOf /\ x # "-"
  BY <1>1, CliAssumption DEF Infos, Valued, TakesPath
<1>3. \A x \in Infos \cup Valued \cup DOMAIN ModeOf : ~ IsInput(x)
  BY <1>2 DEF IsInput, Stdio
<1>4. \A x \in DOMAIN ModeOf : x \notin Valued \cup Infos
  BY <1>1 DEF Infos, Valued, TakesPath
<1>5. \A x \in Infos : x \notin Valued
  BY DEF Infos, Valued, TakesPath
<1> QED BY <1>1, <1>3, <1>4, <1>5

\* What a step of the loop has to do with each field of `cli`.
Reads ==
  /\ cli' \in CliType /\ cli'.input \in {None, Stdio} \cup DOMAIN LgoOf
  /\ cli'.lgo = IF argv[next] = "-o"
                THEN [sink |-> "explicit", path |-> argv[next + 1]] ELSE cli.lgo
  /\ cli'.bin = IF argv[next] = "--bin" THEN argv[next + 1] ELSE cli.bin
  /\ cli'.listing = IF argv[next] = "--listing" THEN argv[next + 1] ELSE cli.listing
  /\ IF argv[next] = "--base-addr"
     THEN /\ argv[next + 1] \in DOMAIN AddressOf
          /\ cli'.base_addr = AddressOf[argv[next + 1]]
     ELSE cli'.base_addr = cli.base_addr
  /\ cli'.lgo_mode = IF argv[next] \in DOMAIN ModeOf THEN ModeOf[argv[next]]
                                                     ELSE cli.lgo_mode
  /\ argv[next] \in DOMAIN ModeOf => cli.lgo_mode \in {None, ModeOf[argv[next]]}
  /\ cli'.input = IF IsInput(argv[next]) THEN argv[next] ELSE cli.input
  /\ IsInput(argv[next]) => cli.input = None

LEMMA StepReads ==
  ASSUME ArgsInv, Advance, GoodArg(next), argv[next] \notin Infos, Reads
  PROVE  ArgsInv'
<1> USE DEF ArgsInv, Reads
<1>1. argv' = argv
  BY DEF Advance
<1>2. ArgsType'
  BY <1>1, ReadOn DEF ArgsType
<1>3. PathRead("--bin", cli.bin)'
  <2>1. "--bin" \in TakesPath /\ PathRead("--bin", cli.bin)
    BY DEF TakesPath, ArgsRead
  <2>2. \/ cli'.bin = None /\ Below({"--bin"})' = {}
        \/ \E m \in Int : /\ IsLast(m, Below({"--bin"})') /\ m + 1 < next'
                          /\ cli'.bin = argv[m + 1] /\ cli'.bin # None
    BY <2>1, PathStep
  <2> QED BY <1>1, <2>2 DEF PathRead
<1>4. PathRead("--listing", cli.listing)'
  <2>1. "--listing" \in TakesPath /\ PathRead("--listing", cli.listing)
    BY DEF TakesPath, ArgsRead
  <2>2. \/ cli'.listing = None /\ Below({"--listing"})' = {}
        \/ \E m \in Int : /\ IsLast(m, Below({"--listing"})') /\ m + 1 < next'
                          /\ cli'.listing = argv[m + 1] /\ cli'.listing # None
    BY <2>1, PathStep
  <2> QED BY <1>1, <2>2 DEF PathRead
<1>5. BaseRead' /\ ModeRead' /\ InputRead'
  BY BaseStep, ModeStep, InputStep DEF ArgsRead
<1>6. LgoRead'
  BY LgoStep
<1>7. ArgsRead'
  BY <1>3, <1>4, <1>5, ReadOn DEF ArgsRead
<1> QED BY <1>2, <1>6, <1>7

LEMMA PathOptionReads ==
  ASSUME ArgsInv, PathOption
  PROVE  ArgsInv'
<1>1. argv[next] \in TakesPath /\ next < Len(argv) /\ argv[next] \in Valued
  BY DEF PathOption, Looping, Arg, HasValue, TakesPath, Valued
<1>2. /\ argv' = argv /\ next' = next + 2
      /\ cli' = CASE argv[next] = "-o" ->
                       [cli EXCEPT !.lgo = [sink |-> "explicit", path |-> argv[next + 1]]]
                  [] argv[next] = "--bin"     -> [cli EXCEPT !.bin = argv[next + 1]]
                  [] argv[next] = "--listing" -> [cli EXCEPT !.listing = argv[next + 1]]
  BY DEF PathOption, Took, Arg, Value
<1>3. ArgsType
  BY DEF ArgsInv
<1>4. Advance
  BY <1>1, <1>2, <1>3, ArgvShape DEF Advance, StepBy, ArgsRead, ArgsInv
<1>5. ~ IsInput(argv[next]) /\ argv[next] \notin DOMAIN ModeOf /\ argv[next] \notin Infos
      /\ argv[next] # "--base-addr"
  BY <1>1, Distinct DEF TakesPath, Valued
<1>6. GoodArg(next)
  BY <1>1 DEF GoodArg
<1>7. cli \in CliType /\ next + 1 \in DOMAIN argv /\ argv[next + 1] \in STRING
  BY <1>1, <1>3, ArgvShape DEF ArgsType
<1>8. Reads
  BY <1>1, <1>2, <1>3, <1>5, <1>7 DEF Reads, CliType, TakesPath, ArgsType
<1> QED BY <1>4, <1>5, <1>6, <1>8, StepReads

LEMMA ModeOptionReads ==
  ASSUME ArgsInv, ModeOption
  PROVE  ArgsInv'
<1>1. argv[next] \in {"--lgo-full", "--lgo-compact"} /\ next <= Len(argv)
      /\ cli.lgo_mode \in {None, ModeOf[argv[next]]}
  BY Distinct DEF ModeOption, Looping, Arg
<1>2. /\ argv' = argv /\ next' = next + 1
      /\ cli' = [cli EXCEPT !.lgo_mode = ModeOf[argv[next]]]
  BY DEF ModeOption, Took, Arg
<1>3. ArgsType
  BY DEF ArgsInv
<1>4. ~ IsInput(argv[next]) /\ argv[next] \in DOMAIN ModeOf
      /\ argv[next] \notin Valued \cup Infos
  BY <1>1, Distinct
<1>5. Advance
  BY <1>1, <1>2, <1>4 DEF Advance, StepBy, ArgsRead, ArgsInv
<1>6. GoodArg(next)
  BY <1>4 DEF GoodArg
<1>7. argv[next] \notin {"-o", "--bin", "--listing", "--base-addr"}
  BY <1>1
<1>8. cli \in CliType /\ ModeOf[argv[next]] \in {"full", "compact"}
  BY <1>1, <1>3, Distinct DEF ArgsType
<1>9. Reads
  BY <1>1, <1>2, <1>3, <1>4, <1>7, <1>8 DEF Reads, CliType, ArgsType
<1> QED BY <1>4, <1>5, <1>6, <1>9, StepReads

LEMMA BaseAddrReads ==
  ASSUME ArgsInv, BaseAddr
  PROVE  ArgsInv'
<1>1. argv[next] = "--base-addr" /\ next < Len(argv) /\ argv[next] \in Valued
      /\ argv[next + 1] \in DOMAIN AddressOf
  BY DEF BaseAddr, Looping, Arg, HasValue, Value, Valued
<1>2. /\ argv' = argv /\ next' = next + 2
      /\ cli' = [cli EXCEPT !.base_addr = AddressOf[argv[next + 1]]]
  BY DEF BaseAddr, Took, Arg, Value
<1>3. ArgsType
  BY DEF ArgsInv
<1>4. ~ IsInput(argv[next]) /\ argv[next] \notin DOMAIN ModeOf /\ argv[next] \notin Infos
  BY <1>1, Distinct
<1>5. Advance
  BY <1>1, <1>2, <1>3, ArgvShape DEF Advance, StepBy, ArgsRead, ArgsInv
<1>6. GoodArg(next)
  BY <1>1 DEF GoodArg
<1>7. cli \in CliType /\ AddressOf[argv[next + 1]] \in Nat
  BY <1>1, <1>3, CliAssumption DEF ArgsType
<1>8. Reads
  BY <1>1, <1>2, <1>3, <1>4, <1>7 DEF Reads, CliType, ArgsType
<1> QED BY <1>4, <1>5, <1>6, <1>8, StepReads

LEMMA InputReads ==
  ASSUME ArgsInv, Input
  PROVE  ArgsInv'
<1>1. IsInput(argv[next]) /\ next <= Len(argv) /\ cli.input = None
  BY DEF Input, Looping, Arg
<1>2. /\ argv' = argv /\ next' = next + 1
      /\ cli' = [cli EXCEPT !.input = argv[next]]
  BY DEF Input, Took, Arg
<1>3. ArgsType
  BY DEF ArgsInv
<1>4. argv[next] \notin Infos \cup Valued \cup DOMAIN ModeOf
  BY <1>1, Distinct
<1>5. Advance
  BY <1>1, <1>2, <1>4 DEF Advance, StepBy, ArgsRead, ArgsInv
<1>6. GoodArg(next)
  BY <1>1 DEF GoodArg
<1>7. cli \in CliType /\ next \in DOMAIN argv /\ argv[next] \in STRING
  BY <1>1, <1>3, ArgvShape DEF ArgsType
<1>8. argv[next] \in {Stdio} \cup DOMAIN LgoOf
  BY <1>1 DEF IsInput
<1>9. Reads
  BY <1>1, <1>2, <1>4, <1>7, <1>8 DEF Reads, CliType, Valued, TakesPath
<1> QED BY <1>4, <1>5, <1>6, <1>9, StepReads

-----------------------------------------------------------------------------
(* Once all the arguments are read, what is planned is what is asked for.  *)

IsCompact == Options({"--lgo-compact"}) # {}
BaseAsked == IF Options({"--base-addr"}) # {} THEN AddressOf[ValueOf("--base-addr")] ELSE 0

Planned ==
  /\ Plan = Asked
  /\ Mode = IF IsCompact THEN "compact" ELSE "full"
  /\ cli.base_addr = BaseAsked /\ cli.base_addr \in Nat
  /\ Acceptable /\ ~ AsksInfo

\* An option the loop has seen last is the last one there is.
LEMMA LastIsMax ==
  ASSUME ArgsInv, next > Len(argv)
  PROVE  /\ \A S : Below(S) = Options(S)
         /\ \A o, m : IsLast(m, Below({o})) => Options({o}) # {} /\ ValueOf(o) = argv[m + 1]
<1>1. \A S : Below(S) = Options(S) /\ Options(S) \subseteq Int
  BY ArgvShape DEF Below, Options, ArgsInv
<1>2. ASSUME NEW o, NEW m, IsLast(m, Below({o}))
      PROVE  Options({o}) # {} /\ ValueOf(o) = argv[m + 1]
  <2> DEFINE S == Options({o})
  <2>1. S \in SUBSET Int /\ m \in S /\ \A i \in S : i <= m
    BY <1>1, <1>2 DEF IsLast
  <2>2. Max(S) = m
    <3> HIDE DEF S
    <3> QED BY <2>1, MaxIs
  <2> QED BY <2>1, <2>2 DEF ValueOf
<1> QED BY <1>1, <1>2

LEMMA AcceptableAtEnd ==
  ASSUME ArgsInv, next > Len(argv), cli.input # None
  PROVE  /\ Acceptable /\ ~ AsksInfo
         /\ cli.input = InputAsked
<1> USE DEF ArgsInv
<1>1. InputsBelow = {i \in DOMAIN argv : IsInput(argv[i]) /\ ~ IsValue[i]}
  BY ArgvShape DEF InputsBelow
<1>2. PICK m \in Int : InputsBelow = {m} /\ cli.input = argv[m]
  BY DEF ArgsRead, InputRead
<1>3. Cardinality(InputsBelow) = 1
  BY <1>2, FS_Singleton
<1>4. \A i \in DOMAIN argv : ~ IsValue[i] => GoodArg(i)
  BY ArgvShape DEF ArgsRead
<1>5. Options({"--lgo-full"}) = {} \/ Options({"--lgo-compact"}) = {}
  BY LastIsMax DEF ArgsRead, ModeRead
<1>6. Acceptable
  BY <1>1, <1>3, <1>4, <1>5 DEF Acceptable, GoodArg
<1>7. ~ AsksInfo
  BY LastIsMax DEF ArgsRead, AsksInfo, Infos
<1>8. InputAsked = argv[m]
  <2>1. {i \in DOMAIN argv : IsInput(argv[i]) /\ ~ IsValue[i]} = {m}
    BY <1>1, <1>2
  <2>2. \A i \in DOMAIN argv : (IsInput(argv[i]) /\ ~ IsValue[i]) <=> i = m
    BY <2>1
  <2>3. m \in DOMAIN argv
    BY <2>1
  <2> QED BY <2>2, <2>3 DEF InputAsked
<1> QED BY <1>2, <1>6, <1>7, <1>8

LEMMA PlannedAtEnd ==
  ASSUME ArgsInv, EndOfArgs
  PROVE  Planned' /\ ArgsType' /\ ArgsRead'
<1> USE DEF ArgsInv
<1>1. /\ next > Len(argv) /\ cli.input # None /\ argv' = argv /\ next' = next
      /\ cli' = IF cli.bin # None /\ cli.lgo.sink = AutoFromStem
                THEN [cli EXCEPT !.lgo.sink = None] ELSE cli
  BY DEF EndOfArgs
<1>2. cli \in CliType /\ cli.lgo \in [sink : {AutoFromStem, "explicit", None}, path : STRING \cup {None}]
  BY DEF ArgsType, CliType
<1>3. /\ cli'.lgo = IF cli.bin # None /\ cli.lgo.sink = AutoFromStem
                    THEN [sink |-> None, path |-> cli.lgo.path] ELSE cli.lgo
      /\ cli' \in CliType
      /\ cli'.bin = cli.bin /\ cli'.listing = cli.listing /\ cli'.input = cli.input
      /\ cli'.lgo_mode = cli.lgo_mode /\ cli'.base_addr = cli.base_addr
  BY <1>1, <1>2 DEF CliType
<1>4. /\ IsValue' = IsValue /\ \A S : Options(S)' = Options(S) /\ \A i : GoodArg(i)' = GoodArg(i)
  BY <1>1, ArgvFixed
<1>5. /\ \A S : Below(S)' = Below(S)
      /\ InputsBelow' = InputsBelow
  BY <1>1, <1>4 DEF Below, InputsBelow, IsInput, Stdio
<1>6. ArgsType'
  BY <1>1, <1>3 DEF ArgsType
<1>7. ArgsRead'
  BY <1>1, <1>3, <1>4, <1>5
  DEF ArgsRead, PathRead, BaseRead, ModeRead, InputRead
<1>8. /\ Acceptable /\ ~ AsksInfo /\ cli.input = InputAsked
  BY <1>1, AcceptableAtEnd
<1>9. Acceptable' /\ ~ AsksInfo'
  <2>1. Acceptable' = Acceptable
    BY <1>1, <1>4 DEF Acceptable, IsInput, Stdio, ModeOf, TakesPath
  <2>2. AsksInfo' = AsksInfo
    BY <1>4 DEF AsksInfo
  <2> QED BY <1>8, <2>1, <2>2
<1>10. Asked' = Asked
  <2>1. \A o : ValueOf(o)' = ValueOf(o)
    BY <1>1, <1>4 DEF ValueOf
  <2>2. InputAsked' = InputAsked
    BY <1>1, <1>4 DEF InputAsked, IsInput, Stdio
  <2> QED BY <1>4, <2>1, <2>2 DEF Asked, AskedLgo
<1>11. /\ (IF cli.bin # None THEN Output("bin", cli.bin) ELSE <<>>) =
            (IF Options({"--bin"}) # {} THEN Output("bin", ValueOf("--bin")) ELSE <<>>)
       /\ cli.bin # None <=> Options({"--bin"}) # {}
  <2>1. PathRead("--bin", cli.bin)
    BY DEF ArgsRead
  <2> QED BY <1>1, <2>1, LastIsMax DEF PathRead
<1>12. (IF cli.listing # None THEN Output("listing", cli.listing) ELSE <<>>) =
         (IF Options({"--listing"}) # {} THEN Output("listing", ValueOf("--listing")) ELSE <<>>)
  <2>1. PathRead("--listing", cli.listing)
    BY DEF ArgsRead
  <2> QED BY <1>1, <2>1, LastIsMax DEF PathRead
<1> DEFINE lgo == CASE cli'.lgo.sink = AutoFromStem       -> Output("lgo", DefaultLgo')
                    [] cli'.lgo.sink = "explicit" -> Output("lgo", cli'.lgo.path)
                    [] cli'.lgo.sink = None       -> <<>>
<1>13. lgo = AskedLgo
  <2>1. DefaultLgo' = IF InputAsked = Stdio THEN Stdio ELSE LgoOf[InputAsked]
    BY <1>3, <1>8 DEF DefaultLgo, Stdio
  <2>2. CASE cli.lgo = [sink |-> AutoFromStem, path |-> None] /\ Below({"-o"}) = {}
    <3>1. Options({"-o"}) = {}
      BY <1>1, <2>2, LastIsMax
    <3>2. CASE cli.bin # None
      <4>1. cli'.lgo.sink = None /\ None # AutoFromStem /\ None # "explicit"
        BY <1>3, <2>2, <3>2 DEF None, AutoFromStem
      <4> QED BY <1>11, <3>1, <3>2, <4>1 DEF AskedLgo
    <3>3. CASE cli.bin = None
      <4>1. cli'.lgo.sink = AutoFromStem /\ None # AutoFromStem /\ AutoFromStem # "explicit"
        BY <1>3, <2>2, <3>3 DEF None, AutoFromStem
      <4> QED BY <1>11, <2>1, <3>1, <3>3, <4>1 DEF AskedLgo
    <3> QED BY <3>2, <3>3
  <2>3. ASSUME NEW m \in Int, IsLast(m, Below({"-o"})),
               cli.lgo = [sink |-> "explicit", path |-> argv[m + 1]]
        PROVE  lgo = AskedLgo
    <3>1. Options({"-o"}) # {} /\ ValueOf("-o") = argv[m + 1]
      BY <1>1, <2>3, LastIsMax
    <3>2. cli'.lgo.sink = "explicit" /\ cli'.lgo.path = argv[m + 1]
          /\ AutoFromStem # "explicit" /\ None # "explicit"
      BY <1>3, <2>3, SMTT(30) DEF AutoFromStem, None
    <3> QED BY <3>1, <3>2 DEF AskedLgo
  <2> QED BY <2>2, <2>3 DEF LgoRead
<1>14. Plan' = Asked
  BY <1>3, <1>11, <1>12, <1>13 DEF Plan, Asked, Output
<1>15. Mode' = IF Options({"--lgo-compact"}) # {} THEN "compact" ELSE "full"
  <2>1. /\ cli.lgo_mode = "full"    <=> Options({"--lgo-full"}) # {}
        /\ cli.lgo_mode = "compact" <=> Options({"--lgo-compact"}) # {}
    BY <1>1, LastIsMax DEF ArgsRead, ModeRead
  <2>2. cli.lgo_mode \in {None, "full", "compact"}
    BY <1>2 DEF CliType
  <2> QED BY <1>3, <2>1, <2>2 DEF Mode, None
<1>16. cli.base_addr = BaseAsked /\ cli.base_addr \in Nat
  <2>1. BaseRead
    BY DEF ArgsRead
  <2>2. cli.base_addr \in Nat
    BY <1>2 DEF CliType
  <2> QED BY <1>1, <2>1, <2>2, LastIsMax DEF BaseRead, BaseAsked
<1>17. BaseAsked' = BaseAsked /\ IsCompact' = IsCompact
  BY <1>1, <1>4 DEF BaseAsked, IsCompact, ValueOf
<1> QED BY <1>3, <1>6, <1>7, <1>9, <1>10, <1>14, <1>15, <1>16, <1>17 DEF Planned, IsCompact

-----------------------------------------------------------------------------
(* The outputs: the first m of them have been begun, and `rest` of the     *)
(* m-th is still to be written.                                            *)

SoFar(m) ==
  ((IF m >= 1 THEN ToStdout(1) ELSE <<>>) \o (IF m >= 2 THEN ToStdout(2) ELSE <<>>))
     \o (IF m >= 3 THEN ToStdout(3) ELSE <<>>)

Begun(m) == {Asked[k].to : k \in 1 .. m} \ {Stdio}

LastOf(k, m) == \A j \in 1 .. m : j > k => Asked[j].to # Asked[k].to

FilesAt(m, rest) ==
  /\ DOMAIN file = Begun(m)
  /\ m = 0 => file = <<>>
  /\ \A k \in 1 .. m : (Asked[k].to # Stdio /\ LastOf(k, m)) =>
       /\ file[Asked[k].to] \in Seq(PieceType)
       /\ Whole(k) = IF k = m THEN file[Asked[k].to] \o rest ELSE file[Asked[k].to]

\* `tail` is what standard output lacks of the first m outputs.
StdoutAt(m, tail) == (stdout \o buffer) \o tail = SoFar(m)

\* Only a .bin leaves something in the buffer, and only until the next piece.
BufferAt(m, rest) ==
  buffer # <<>> =>
    \E k \in 1 .. m :
      /\ Asked[k].art = "bin" /\ Asked[k].to = Stdio
      /\ k = m => rest = <<>>
      /\ \A j \in k + 1 .. m :
           Asked[j].to = Stdio => Whole(j) = IF j = m THEN rest ELSE <<>>

OnlyListings(m) == tty => \A k \in 1 .. m : Asked[k].to = Stdio => Asked[k].art = "listing"

Progress(m, rest) ==
  /\ FilesAt(m, rest)
  /\ StdoutAt(m, IF m >= 1 /\ Asked[m].to = Stdio THEN rest ELSE <<>>)
  /\ BufferAt(m, rest) /\ OnlyListings(m)

\* Where the program may stop: before anything was written ...
Stopped ==
  /\ file = <<>> /\ buffer = <<>> /\ stdout \in {<<>>, <<Piece("info", 0)>>}
  /\ code = 0 => AsksInfo
  /\ next <= Len(argv) => ~ Acceptable \/ AsksInfo

\* ... or with some of the outputs, all of them if the exit code is 0.
EndsAt(m, rest, tail) ==
  /\ FilesAt(m, rest) /\ StdoutAt(m, tail) /\ OnlyListings(m)
  /\ code = 0 => /\ m = Len(Asked) /\ rest = <<>>
                 /\ EndsInBin \/ (tail = <<>> /\ buffer = <<>>)

Written ==
  /\ code \in {0, 2, 101} /\ doing \in 1 .. 4
  /\ \E m \in 0 .. Len(Asked) : \E rest, tail \in Seq(PieceType) : EndsAt(m, rest, tail)

Untouched == file = <<>> /\ stdout = <<>> /\ buffer = <<>> /\ code = 0

StateType ==
  /\ phase \in {"args", "read", "assemble", "open", "write", "exit", "done"}
  /\ doing \in 0 .. 4 /\ code \in {0, 1, 2, 101}
  /\ result \in ResultType
  /\ left \in Seq(PieceType) /\ stdout \in Seq(PieceType) /\ buffer \in Seq(PieceType)

Complete == Planned /\ next > Len(argv)

Inv ==
  /\ ArgsType /\ StateType
  /\ phase = "args" => Untouched /\ ArgsInv
  /\ phase \in {"read", "assemble"} => Untouched /\ Complete
  /\ phase = "open" =>
       /\ Complete /\ code = 0 /\ doing \in 1 .. Len(Asked) + 1
       /\ Progress(doing - 1, <<>>)
  /\ phase = "write" =>
       /\ Complete /\ code = 0 /\ doing \in 1 .. Len(Asked)
       /\ Progress(doing, left)
  /\ phase \in {"exit", "done"} => Stopped \/ (Complete /\ Written)

-----------------------------------------------------------------------------
(* Sequences of pieces.                                                    *)

LEMMA WriteOne ==
  ASSUME NEW S, NEW s \in Seq(S), NEW t \in Seq(S), t # <<>>
  PROVE  /\ Append(s, Head(t)) \in Seq(S) /\ Tail(t) \in Seq(S) /\ Head(t) \in S
         /\ Append(s, Head(t)) \o Tail(t) = s \o t
<1>1. Head(t) \in S /\ Tail(t) \in Seq(S)
  BY HeadTailProperties
<1>2. Append(s, Head(t)) = s \o <<Head(t)>> /\ <<Head(t)>> \in Seq(S)
  BY <1>1, AppendIsConcat
<1>3. <<Head(t)>> \o Tail(t) = t
  <2>1. Len(t) \in Nat /\ Len(t) >= 1
    BY EmptySeq
  <2>2. t = SubSeq(t, 1, Len(t)) /\ Tail(t) = SubSeq(t, 2, Len(t)) /\ Head(t) = t[1]
    BY SubSeqFull, TailIsSubSeq, <2>1, HeadTailOfSubSeq
  <2>3. SubSeq(t, 1, Len(t)) = <<t[1]>> \o SubSeq(t, 2, Len(t))
    BY <2>1, SubSeqRecursiveFirst
  <2> QED BY <2>2, <2>3
<1>4. (s \o <<Head(t)>>) \o Tail(t) = s \o (<<Head(t)>> \o Tail(t))
  BY <1>1, <1>2, ConcatAssociative
<1> QED BY <1>1, <1>2, <1>3, <1>4, AppendProperties

LEMMA WriteSome ==
  ASSUME NEW S, NEW t \in Seq(S), NEW n \in 0 .. Len(t)
  PROVE  /\ SubSeq(t, 1, n) \in Seq(S) /\ SubSeq(t, n + 1, Len(t)) \in Seq(S)
         /\ SubSeq(t, 1, n) \o SubSeq(t, n + 1, Len(t)) = t
<1>1. Len(t) \in Nat /\ \A i \in 1 .. Len(t) : t[i] \in S
  BY LenProperties, ElementOfSeq
<1>2. SubSeq(t, 1, n) \in Seq(S)
  BY <1>1, SubSeqProperties
<1>3. SubSeq(t, n + 1, Len(t)) \in Seq(S)
  BY <1>1, SubSeqProperties
<1>4. SubSeq(t, 1, n) \o SubSeq(t, n + 1, Len(t)) = SubSeq(t, 1, Len(t))
  <2>1. 1 \in 1 .. Len(t) + 1 /\ n \in 1 - 1 .. Len(t) /\ Len(t) \in n .. Len(t)
    BY <1>1
  <2> QED BY <2>1, ConcatAdjacentSubSeq
<1> QED BY <1>2, <1>3, <1>4, SubSeqFull

\* The first part of a concatenation is a prefix of it.
LEMMA FirstIsPrefix ==
  ASSUME NEW S, NEW s \in Seq(S), NEW t \in Seq(S)
  PROVE  /\ IsPrefix(s, s \o t)
         /\ \A i \in DOMAIN s : i \in DOMAIN (s \o t) /\ (s \o t)[i] = s[i]
<1>1. /\ Len(s) \in Nat /\ Len(t) \in Nat /\ Len(s \o t) = Len(s) + Len(t)
      /\ s \o t \in Seq(S) /\ DOMAIN s = 1 .. Len(s)
      /\ DOMAIN (s \o t) = 1 .. Len(s) + Len(t)
  BY ConcatProperties, LenProperties
<1>2. \A i \in 1 .. Len(s) : (s \o t)[i] = s[i]
  BY <1>1, ConcatProperties
<1>3. SubSeq(s \o t, 1, Len(s)) = s
  <2>1. SubSeq(s \o t, 1, Len(s)) \in Seq(S) /\ Len(SubSeq(s \o t, 1, Len(s))) = Len(s)
    BY <1>1, <1>2, SubSeqProperties, ElementOfSeq
  <2>2. \A i \in 1 .. Len(s) : SubSeq(s \o t, 1, Len(s))[i] = s[i]
    BY <1>1, <1>2, SubSeqProperties, ElementOfSeq
  <2> QED BY <2>1, <2>2, SeqEqual
<1>4. SubSeq(s, 1, Len(s)) = s
  BY SubSeqFull
<1>5. IsPrefix(s, s \o t)
  BY <1>1, <1>3, <1>4 DEF IsPrefix
<1> QED BY <1>1, <1>2, <1>5

LEMMA PiecesAssociate ==
  \A x, y, z \in Seq(PieceType) : (x \o y) \o z = x \o (y \o z)
BY ConcatAssociative

-----------------------------------------------------------------------------
(* The outputs asked for.                                                  *)

LEMMA AskedShape ==
  /\ Len(Asked) \in 0 .. 3 /\ DOMAIN Asked = 1 .. Len(Asked)
  /\ \A k \in 1 .. Len(Asked) : Asked[k].art \in {"lgo", "bin", "listing"}
  /\ \A j, k \in 1 .. Len(Asked) : j # k => Asked[j].art # Asked[k].art
<1> DEFINE l == AskedLgo
           b == IF Options({"--bin"}) # {} THEN Output("bin", ValueOf("--bin")) ELSE <<>>
           s == IF Options({"--listing"}) # {} THEN Output("listing", ValueOf("--listing"))
                ELSE <<>>
<1>9. PICK x, y, z : /\ l \in {<<>>, Output("lgo", x)}
                     /\ b \in {<<>>, Output("bin", y)} /\ s \in {<<>>, Output("listing", z)}
  <2>1. \E x : l \in {<<>>, Output("lgo", x)}
    BY DEF AskedLgo
  <2>2. b \in {<<>>, Output("bin", ValueOf("--bin"))}
        /\ s \in {<<>>, Output("listing", ValueOf("--listing"))}
    OBVIOUS
  <2> HIDE DEF l, b, s
  <2> QED BY <2>1, <2>2
<1> HIDE DEF l, b, s
<1> DEFINE S == [art : {"lgo", "bin", "listing"}, to : {x, y, z}]
<1>1. /\ l \in Seq(S) /\ Len(l) \in {0, 1} /\ \A i \in 1 .. Len(l) : l[i].art = "lgo"
      /\ b \in Seq(S) /\ Len(b) \in {0, 1} /\ \A i \in 1 .. Len(b) : b[i].art = "bin"
      /\ s \in Seq(S) /\ Len(s) \in {0, 1} /\ \A i \in 1 .. Len(s) : s[i].art = "listing"
  <2>1. ASSUME NEW art \in {"lgo", "bin", "listing"}, NEW to \in {x, y, z},
               NEW q \in {<<>>, Output(art, to)}
        PROVE  q \in Seq(S) /\ Len(q) \in {0, 1} /\ \A i \in 1 .. Len(q) : q[i].art = art
    <3>1. CASE q = <<>>
      BY <3>1
    <3>2. CASE q = Output(art, to)
      <4> DEFINE r == [art |-> art, to |-> to]
      <4>1. r \in S /\ r.art = art
        OBVIOUS
      <4>2. q = <<r>>
        BY <3>2 DEF Output
      <4> HIDE DEF r, S
      <4> QED BY <4>1, <4>2
    <3> QED BY <3>1, <3>2
  <2> HIDE DEF S
  <2>2. l \in Seq(S) /\ Len(l) \in {0, 1} /\ \A i \in 1 .. Len(l) : l[i].art = "lgo"
    BY <2>1, <1>9
  <2>3. b \in Seq(S) /\ Len(b) \in {0, 1} /\ \A i \in 1 .. Len(b) : b[i].art = "bin"
    BY <2>1, <1>9
  <2>4. s \in Seq(S) /\ Len(s) \in {0, 1} /\ \A i \in 1 .. Len(s) : s[i].art = "listing"
    BY <2>1, <1>9
  <2> QED BY <2>2, <2>3, <2>4
<1> HIDE DEF S
<1>2. /\ l \o b \in Seq(S) /\ Len(l \o b) = Len(l) + Len(b)
      /\ \A i \in 1 .. Len(l) + Len(b) :
           (l \o b)[i] = IF i <= Len(l) THEN l[i] ELSE b[i - Len(l)]
  BY <1>1, ConcatProperties
<1>3. PICK all : all = l \o b \o s /\ Asked = all
  BY DEF Asked, l, b, s
<1>4. /\ all \in Seq(S) /\ Len(all) = Len(l) + Len(b) + Len(s)
      /\ \A i \in 1 .. Len(l) + Len(b) + Len(s) :
           all[i] = IF i <= Len(l) + Len(b) THEN (l \o b)[i] ELSE s[i - (Len(l) + Len(b))]
  BY <1>1, <1>2, <1>3, ConcatProperties
<1>5. DOMAIN all = 1 .. Len(all)
  BY <1>4, LenProperties
<1>6. ASSUME NEW i \in 1 .. Len(all)
      PROVE  all[i].art = IF i <= Len(l) THEN "lgo"
                          ELSE IF i <= Len(l) + Len(b) THEN "bin" ELSE "listing"
  <2>1. CASE i <= Len(l)
    BY <1>1, <1>2, <1>4, <2>1
  <2>2. CASE Len(l) < i /\ i <= Len(l) + Len(b)
    <3>1. all[i] = b[i - Len(l)] /\ i - Len(l) \in 1 .. Len(b)
      BY <1>1, <1>2, <1>4, <2>2
    <3> QED BY <1>1, <2>2, <3>1
  <2>3. CASE Len(l) + Len(b) < i
    <3>1. all[i] = s[i - (Len(l) + Len(b))] /\ i - (Len(l) + Len(b)) \in 1 .. Len(s)
      BY <1>1, <1>2, <1>4, <2>3
    <3> QED BY <1>1, <2>3, <3>1
  <2> QED BY <1>1, <2>1, <2>2, <2>3
<1> DEFINE n == Len(all)
           ll == Len(l)
           lb == Len(b)
<1>7. /\ Len(all) \in 0 .. 3
      /\ \A k \in DOMAIN all : all[k].art \in {"lgo", "bin", "listing"}
      /\ \A j, k \in DOMAIN all : j # k => all[j].art # all[k].art
  <2>1. n \in 0 .. 3 /\ n <= ll + lb + 1 /\ ll \in {0, 1} /\ lb \in {0, 1} /\ DOMAIN all = 1 .. n
    <3>1. ll \in {0, 1} /\ lb \in {0, 1} /\ Len(s) \in {0, 1}
      BY <1>1
    <3>2. n = ll + lb + Len(s)
      BY <1>4
    <3>3. DOMAIN all = 1 .. n
      BY <1>5
    <3>4. n \in 0 .. 3 /\ n <= ll + lb + 1
      <4>1. PICK x1, x2, x3 : x1 = ll /\ x2 = lb /\ x3 = Len(s)
        OBVIOUS
      <4>2. x1 \in {0, 1} /\ x2 \in {0, 1} /\ x3 \in {0, 1} /\ n = x1 + x2 + x3
        BY <3>1, <3>2, <4>1
      <4>3. x1 + x2 + x3 \in 0 .. 3 /\ x1 + x2 + x3 <= x1 + x2 + 1
        BY ONLY <4>2
      <4> QED BY <4>1, <4>2, <4>3, Zenon
    <3> QED BY <3>1, <3>3, <3>4
  <2>2. \A i \in 1 .. n : all[i].art = IF i <= ll THEN "lgo"
                          ELSE IF i <= ll + lb THEN "bin" ELSE "listing"
    BY <1>6
  <2> HIDE DEF n, ll, lb
  <2>3. ASSUME NEW j \in 1 .. n, NEW k \in 1 .. n, j # k
        PROVE  all[j].art # all[k].art
    <3>1. all[j].art = IF j <= ll THEN "lgo" ELSE IF j <= ll + lb THEN "bin" ELSE "listing"
      BY <2>2
    <3>2. all[k].art = IF k <= ll THEN "lgo" ELSE IF k <= ll + lb THEN "bin" ELSE "listing"
      BY <2>2
    <3>3. ~ (j <= ll /\ k <= ll) /\ ~ (j > ll /\ j <= ll + lb /\ k > ll /\ k <= ll + lb)
          /\ ~ (j > ll + lb /\ k > ll + lb)
      BY <2>1, <2>3
    <3>4. j \in Int /\ k \in Int /\ ll \in Int /\ lb \in Int /\ lb >= 0
      BY <2>1
    <3> QED BY <3>1, <3>2, <3>3, <3>4
  <2>4. \A k \in 1 .. n : all[k].art \in {"lgo", "bin", "listing"}
    BY <2>2
  <2> QED BY <2>1, <2>3, <2>4 DEF n
<1>8. Asked = all /\ DOMAIN all = 1 .. Len(all)
  BY <1>3, <1>5
<1>10. /\ \A k \in 1 .. Len(all) : all[k].art \in {"lgo", "bin", "listing"}
       /\ \A j, k \in 1 .. Len(all) : j # k => all[j].art # all[k].art
  BY <1>7, <1>8, Zenon
<1>11. Len(all) \in 0 .. 3
  BY <1>7
<1> QED BY <1>8, <1>10, <1>11, Zenon

LEMMA WholeType ==
  ASSUME Planned, result \in ResultType
  PROVE  /\ \A k \in 1 .. Len(Asked) : /\ Whole(k) \in Seq(PieceOf(Asked[k].art))
                                       /\ Whole(k) \in Seq(PieceType)
         /\ \A k \in {1, 2, 3} : ToStdout(k) \in Seq(PieceType)
<1>1. ASSUME NEW k \in 1 .. Len(Asked)
      PROVE  Whole(k) \in Seq(PieceOf(Asked[k].art)) /\ Whole(k) \in Seq(PieceType)
  <2>1. Asked[k].art \in {"lgo", "bin", "listing"}
    BY AskedShape
  <2>2. Whole(k) = Pieces(result, Asked[k].art, Mode, BaseAsked) /\ BaseAsked \in Nat
    BY DEF Whole, Planned, BaseAsked, IsCompact
  <2>3. Whole(k) \in Seq(PieceOf(Asked[k].art))
    BY <2>1, <2>2, PiecesType
  <2>4. PieceOf(Asked[k].art) \subseteq PieceType
    BY <2>1 DEF PieceOf, PieceType
  <2> QED BY <2>3, <2>4, SeqMonotonic
<1>2. \A k \in {1, 2, 3} : ToStdout(k) \in Seq(PieceType)
  BY <1>1, AskedShape, EmptySeq DEF ToStdout
<1> QED BY <1>1, <1>2

LEMMA SoFarShape ==
  ASSUME Planned, result \in ResultType
  PROVE  /\ SoFar(0) = <<>>
         /\ \A m \in 0 .. 3 : SoFar(m) \in Seq(PieceType)
         /\ \A m \in 0 .. 2 : SoFar(m + 1) = SoFar(m) \o ToStdout(m + 1)
         /\ SoFar(Len(Asked)) = AllToStdout
         /\ \A m \in 0 .. 3 : \E t \in Seq(PieceType) : SoFar(m) \o t = AllToStdout
<1> DEFINE P == Seq(PieceType)
           a == ToStdout(1)
           b == ToStdout(2)
           c == ToStdout(3)
<1>1. a \in P /\ b \in P /\ c \in P /\ <<>> \in P
  BY WholeType, EmptySeq
<1>2. \A s, t \in P : s \o t \in P
  BY ConcatProperties
<1>10. \A s \in P : s \o <<>> = s /\ <<>> \o s = s
  BY ConcatEmptySeq
<1>3. /\ SoFar(0) = (<<>> \o <<>>) \o <<>> /\ SoFar(1) = (a \o <<>>) \o <<>>
      /\ SoFar(2) = (a \o b) \o <<>> /\ SoFar(3) = (a \o b) \o c
      /\ AllToStdout = (a \o b) \o c
  BY DEF SoFar, AllToStdout
<1> HIDE DEF a, b, c, P
<1>4. SoFar(0) = <<>> /\ SoFar(1) = a /\ SoFar(2) = a \o b /\ SoFar(3) = (a \o b) \o c
  BY <1>1, <1>2, <1>3, <1>10
<1>5. \A m \in 0 .. 3 : SoFar(m) \in P
  <2>1. SoFar(0) \in P /\ SoFar(1) \in P /\ SoFar(2) \in P /\ SoFar(3) \in P
    <3>1. SoFar(0) \in P /\ SoFar(1) \in P
      BY <1>1, <1>4, Zenon
    <3>2. SoFar(2) \in P
      BY <1>1, <1>2, <1>4
    <3>3. SoFar(3) \in P
      <4>1. a \o b \in P
        BY <1>1, <1>2
      <4> QED BY <1>1, <1>2, <1>4, <4>1
    <3> QED BY <3>1, <3>2, <3>3
  <2>2. \A m \in 0 .. 3 : m = 0 \/ m = 1 \/ m = 2 \/ m = 3
    OBVIOUS
  <2> QED BY <2>1, <2>2
<1>6. SoFar(1) = SoFar(0) \o a /\ SoFar(2) = SoFar(1) \o b /\ SoFar(3) = SoFar(2) \o c
  BY <1>1, <1>4, <1>10
<1>7. \A m \in 0 .. 2 : SoFar(m + 1) = SoFar(m) \o ToStdout(m + 1)
  <2>1. ToStdout(1) = a /\ ToStdout(2) = b /\ ToStdout(3) = c
    BY DEF a, b, c
  <2>2. ASSUME NEW m \in 0 .. 2 PROVE SoFar(m + 1) = SoFar(m) \o ToStdout(m + 1)
    <3>1. CASE m = 0
      <4>1. m + 1 = 1
        BY <3>1
      <4> QED BY <1>6, <2>1, <3>1, <4>1, Zenon
    <3>2. CASE m = 1
      <4>1. m + 1 = 2
        BY <3>2
      <4> QED BY <1>6, <2>1, <3>2, <4>1, Zenon
    <3>3. CASE m = 2
      <4>1. m + 1 = 3
        BY <3>3
      <4> QED BY <1>6, <2>1, <3>3, <4>1, Zenon
    <3> QED BY <3>1, <3>2, <3>3
  <2> QED BY <2>2
<1>8. SoFar(Len(Asked)) = AllToStdout
  <2>1. /\ Len(Asked) < 1 => a = <<>>
        /\ Len(Asked) < 2 => b = <<>>
        /\ Len(Asked) < 3 => c = <<>>
    BY AskedShape DEF ToStdout, a, b, c
  <2>2. CASE Len(Asked) = 0
    BY <1>1, <1>3, <1>4, <1>10, <2>1, <2>2
  <2>3. CASE Len(Asked) = 1
    <3>1. b = <<>> /\ c = <<>>
      BY <2>1, <2>3
    <3> QED BY <1>3, <2>3, <3>1, Zenon
  <2>4. CASE Len(Asked) = 2
    BY <1>1, <1>2, <1>3, <1>4, <1>10, <2>1, <2>4
  <2>5. CASE Len(Asked) = 3
    BY <1>3, <2>5
  <2> QED BY <2>2, <2>3, <2>4, <2>5, AskedShape
<1>9. \A m \in 0 .. 3 : \E t \in P : SoFar(m) \o t = AllToStdout
  <2>1. (a \o b) \o c \in P /\ b \o c \in P /\ a \o b \in P
    BY <1>1, <1>2
  <2>3. SoFar(0) \o ((a \o b) \o c) = AllToStdout
    BY <1>3, <1>4, <1>10, <2>1
  <2>4. SoFar(1) \o (b \o c) = AllToStdout
    <3>1. (a \o b) \o c = a \o (b \o c)
      BY <1>1, ConcatAssociative DEF P
    <3> QED BY <1>3, <1>4, <3>1
  <2>5. SoFar(2) \o c = AllToStdout /\ SoFar(3) \o <<>> = AllToStdout
    BY <1>2, <1>1, <1>3, <1>4, <1>10, <2>1
  <2>2. \A m \in 0 .. 3 : m = 0 \/ m = 1 \/ m = 2 \/ m = 3
    OBVIOUS
  <2> QED BY <1>1, <2>1, <2>2, <2>3, <2>4, <2>5
<1> USE DEF P
<1> QED BY <1>4, <1>5, <1>7, <1>8, <1>9

\* What is asked for does not change, nor what it should hold.
LEMMA AskedFixed ==
  ASSUME argv' = argv
  PROVE  /\ Asked' = Asked /\ Acceptable' = Acceptable /\ AsksInfo' = AsksInfo
         /\ IsCompact' = IsCompact /\ BaseAsked' = BaseAsked
<1>1. /\ IsValue' = IsValue /\ \A S : Options(S)' = Options(S)
  BY ArgvFixed
<1>2. \A o : ValueOf(o)' = ValueOf(o)
  BY <1>1 DEF ValueOf
<1>3. InputAsked' = InputAsked
  BY <1>1 DEF InputAsked, IsInput, Stdio
<1>4. Asked' = Asked
  BY <1>1, <1>2, <1>3 DEF Asked, AskedLgo
<1>5. Acceptable' = Acceptable
  BY <1>1 DEF Acceptable, IsInput, Stdio, ModeOf, TakesPath
<1>6. AsksInfo' = AsksInfo
  BY <1>1 DEF AsksInfo
<1>7. BaseAsked' = BaseAsked /\ IsCompact' = IsCompact
  BY <1>1, <1>2 DEF BaseAsked, IsCompact
<1> QED BY <1>4, <1>5, <1>6, <1>7

LEMMA WholeFixed ==
  ASSUME argv' = argv, result' = result
  PROVE  /\ \A k : Whole(k)' = Whole(k) /\ ToStdout(k)' = ToStdout(k)
         /\ \A m : SoFar(m)' = SoFar(m) /\ Begun(m)' = Begun(m)
         /\ \A k, m : LastOf(k, m)' = LastOf(k, m)
         /\ EndsInBin' = EndsInBin
<1>1. Asked' = Asked /\ \A S : Options(S)' = Options(S)
  BY AskedFixed, ArgvFixed
<1>2. \A k : Whole(k)' = Whole(k)
  <2>1. \A o : ValueOf(o)' = ValueOf(o)
    BY <1>1 DEF ValueOf
  <2> QED BY <1>1, <2>1 DEF Whole
<1>3. \A k : ToStdout(k)' = ToStdout(k)
  BY <1>1, <1>2 DEF ToStdout, Stdio
<1>4. \A m : SoFar(m)' = SoFar(m) /\ Begun(m)' = Begun(m)
  BY <1>1, <1>3 DEF SoFar, Begun, Stdio
<1>5. \A k, m : LastOf(k, m)' = LastOf(k, m)
  BY <1>1 DEF LastOf
<1>6. EndsInBin' = EndsInBin
  BY <1>1, <1>2 DEF EndsInBin, Stdio
<1> QED BY <1>2, <1>3, <1>4, <1>5, <1>6

LEMMA CompleteFixed ==
  ASSUME argv' = argv, cli' = cli, next' = next, Complete
  PROVE  Complete'
<1>1. Plan' = Plan /\ Mode' = Mode
  BY DEF Plan, Mode, DefaultLgo, Stdio, None, AutoFromStem
<1> QED BY <1>1, AskedFixed DEF Complete, Planned

-----------------------------------------------------------------------------
(* What a step does to the outputs begun.                                  *)

LEMMA OutputFixed ==
  ASSUME argv' = argv, result' = result
  PROVE  \A m, rest :
           /\ file' = file => (FilesAt(m, rest)' <=> FilesAt(m, rest))
           /\ tty' = tty => (OnlyListings(m)' <=> OnlyListings(m))
           /\ (stdout' = stdout /\ buffer' = buffer) =>
                /\ StdoutAt(m, rest)' <=> StdoutAt(m, rest)
                /\ BufferAt(m, rest)' <=> BufferAt(m, rest)
<1>1. Asked' = Asked
  BY AskedFixed
<1>2. ASSUME NEW m, NEW rest, file' = file
      PROVE  FilesAt(m, rest)' <=> FilesAt(m, rest)
  BY <1>1, <1>2, WholeFixed DEF FilesAt, Stdio, PieceType
<1>3. ASSUME NEW m, tty' = tty
      PROVE  OnlyListings(m)' <=> OnlyListings(m)
  BY <1>1, <1>3 DEF OnlyListings, Stdio
<1>4. ASSUME NEW m, NEW rest, stdout' = stdout, buffer' = buffer
      PROVE  StdoutAt(m, rest)' <=> StdoutAt(m, rest)
  BY <1>4, WholeFixed DEF StdoutAt
<1>5. ASSUME NEW m, NEW rest, buffer' = buffer
      PROVE  BufferAt(m, rest)' <=> BufferAt(m, rest)
  BY <1>1, <1>5, WholeFixed DEF BufferAt, Stdio
<1> QED BY <1>2, <1>3, <1>4, <1>5

\* A file that is begun replaces what an earlier output left in it.
LEMMA BeginFile ==
  ASSUME argv' = argv, result' = result, Complete, result \in ResultType,
         NEW m \in 0 .. Len(Asked), m + 1 \in 1 .. Len(Asked),
         FilesAt(m, <<>>), Asked[m + 1].to # Stdio,
         Put(Asked[m + 1].to, <<>>), NEW rest, rest = Whole(m + 1)
  PROVE  FilesAt(m + 1, rest)'
<1> DEFINE to == Asked[m + 1].to
<1>1. Asked' = Asked /\ Len(Asked) \in 0 .. 3
  BY AskedFixed, AskedShape
<1>2. file' = [x \in DOMAIN file \cup {to} |-> IF x = to THEN <<>> ELSE file[x]]
  BY DEF Put
<1>3. Begun(m + 1) = Begun(m) \cup {to}
  <2>1. 1 .. m + 1 = (1 .. m) \cup {m + 1}
    BY <1>1
  <2> QED BY <2>1 DEF Begun
<1>4. DOMAIN file' = Begun(m + 1)'
  BY <1>2, <1>3, WholeFixed DEF FilesAt
<1>5. ASSUME NEW k \in 1 .. m + 1, Asked[k].to # Stdio, LastOf(k, m + 1)
      PROVE  /\ file'[Asked[k].to] \in Seq(PieceType)
             /\ Whole(k) = IF k = m + 1 THEN file'[Asked[k].to] \o rest ELSE file'[Asked[k].to]
  <2>1. CASE k = m + 1
    <3>1. file'[Asked[k].to] = <<>>
      BY <1>2, <2>1
    <3>2. Whole(k) = <<>> \o rest
      <4>1. rest \in Seq(PieceType)
        BY WholeType DEF Complete
      <4> QED BY <2>1, <4>1, ConcatEmptySeq
    <3> QED BY <2>1, <3>1, <3>2, EmptySeq
  <2>2. CASE k # m + 1
    <3>1. k \in 1 .. m /\ m + 1 > k /\ m + 1 \in 1 .. m + 1
      BY <1>1, <2>2
    <3>2. Asked[k].to # to
      BY <1>5, <3>1 DEF LastOf
    <3>3. LastOf(k, m)
      BY <1>1, <1>5, <3>1 DEF LastOf
    <3>4. /\ file[Asked[k].to] \in Seq(PieceType)
          /\ Whole(k) = IF k = m THEN file[Asked[k].to] \o <<>> ELSE file[Asked[k].to]
      BY <1>5, <3>1, <3>3 DEF FilesAt
    <3>5. Asked[k].to \in DOMAIN file
      BY <1>5, <3>1 DEF FilesAt, Begun
    <3>6. file'[Asked[k].to] = file[Asked[k].to]
      BY <1>2, <3>2, <3>5
    <3>7. file[Asked[k].to] \o <<>> = file[Asked[k].to]
      BY <3>4, ConcatEmptySeq
    <3> QED BY <2>2, <3>4, <3>6, <3>7
  <2> QED BY <2>1, <2>2
<1>6. m + 1 # 0
  BY <1>1
<1> QED BY <1>1, <1>4, <1>5, <1>6, WholeFixed DEF FilesAt, Stdio, PieceType

\* Standard output is no file.
LEMMA BeginStdout ==
  ASSUME Complete, NEW m \in 0 .. Len(Asked), m + 1 \in 1 .. Len(Asked),
         FilesAt(m, <<>>), Asked[m + 1].to = Stdio, NEW rest
  PROVE  FilesAt(m + 1, rest)
<1>1. Len(Asked) \in 0 .. 3 /\ m + 1 # 0
  BY AskedShape
<1>2. Begun(m + 1) = Begun(m)
  <2>1. 1 .. m + 1 = (1 .. m) \cup {m + 1}
    BY <1>1
  <2> QED BY <2>1 DEF Begun
<1>3. ASSUME NEW k \in 1 .. m + 1, Asked[k].to # Stdio, LastOf(k, m + 1)
      PROVE  /\ file[Asked[k].to] \in Seq(PieceType)
             /\ Whole(k) = IF k = m + 1 THEN file[Asked[k].to] \o rest ELSE file[Asked[k].to]
  <2>1. k # m + 1
    BY <1>3
  <2>2. k \in 1 .. m
    BY <1>1, <2>1
  <2>3. LastOf(k, m)
    BY <1>1, <1>3, <2>2 DEF LastOf
  <2>4. /\ file[Asked[k].to] \in Seq(PieceType)
        /\ Whole(k) = IF k = m THEN file[Asked[k].to] \o <<>> ELSE file[Asked[k].to]
    BY <1>3, <2>2, <2>3 DEF FilesAt
  <2>5. file[Asked[k].to] \o <<>> = file[Asked[k].to]
    BY <2>4, ConcatEmptySeq
  <2> QED BY <2>1, <2>4, <2>5
<1> QED BY <1>1, <1>2, <1>3 DEF FilesAt

LEMMA ExtendFile ==
  ASSUME argv' = argv, result' = result, NEW m \in 1 .. Len(Asked),
         NEW rest \in Seq(PieceType), rest # <<>>,
         FilesAt(m, rest), Asked[m].to # Stdio,
         Put(Asked[m].to, Append(file[Asked[m].to], Head(rest))),
         NEW less, less = Tail(rest)
  PROVE  FilesAt(m, less)'
<1> DEFINE to == Asked[m].to
<1>1. Asked' = Asked /\ Len(Asked) \in 0 .. 3
  BY AskedFixed, AskedShape
<1>2. LastOf(m, m) /\ to \in Begun(m) /\ m \in 1 .. m
  BY <1>1 DEF LastOf, Begun
<1>3. file[to] \in Seq(PieceType) /\ Whole(m) = file[to] \o rest
  BY <1>2 DEF FilesAt
<1>4. file' = [x \in DOMAIN file |-> IF x = to THEN Append(file[to], Head(rest)) ELSE file[x]]
  <2>1. DOMAIN file \cup {to} = DOMAIN file
    BY <1>2 DEF FilesAt
  <2> QED BY <2>1 DEF Put
<1>5. file'[to] = Append(file[to], Head(rest))
  BY <1>2, <1>4, SMTT(30) DEF FilesAt
<1>6. file'[to] \in Seq(PieceType) /\ Whole(m) = file'[to] \o less
  <2>1. /\ Append(file[to], Head(rest)) \in Seq(PieceType)
        /\ Append(file[to], Head(rest)) \o Tail(rest) = file[to] \o rest
    <3>1. PICK old : old = file[to]
      OBVIOUS
    <3>2. old \in Seq(PieceType)
      BY <1>3, <3>1
    <3>3. /\ Append(old, Head(rest)) \in Seq(PieceType)
          /\ Append(old, Head(rest)) \o Tail(rest) = old \o rest
      BY <3>2, WriteOne, Zenon
    <3> QED BY <3>1, <3>3, Zenon
  <2> QED BY <1>3, <1>5, <2>1
<1>7. ASSUME NEW k \in 1 .. m, Asked[k].to # Stdio, LastOf(k, m)
      PROVE  /\ file'[Asked[k].to] \in Seq(PieceType)
             /\ Whole(k) = IF k = m THEN file'[Asked[k].to] \o less ELSE file'[Asked[k].to]
  <2>1. CASE k = m
    BY <1>6, <2>1
  <2>2. CASE k # m
    <3>1. Asked[k].to # to
      BY <1>1, <1>7, <2>2 DEF LastOf
    <3>2. Asked[k].to \in DOMAIN file
      BY <1>7 DEF FilesAt, Begun
    <3>3. file'[Asked[k].to] = file[Asked[k].to]
      BY <1>4, <3>1, <3>2
    <3> QED BY <1>7, <2>2, <3>3 DEF FilesAt
  <2> QED BY <2>1, <2>2
<1>8. DOMAIN file' = Begun(m)' /\ m # 0
  BY <1>1, <1>4, WholeFixed DEF FilesAt
<1> QED BY <1>1, <1>7, <1>8, WholeFixed DEF FilesAt, Stdio, PieceType

\* While the m-th output goes to standard output, the files do not wait for it.
LEMMA FilesApart ==
  ASSUME NEW m \in 1 .. Len(Asked), NEW rest, NEW other, FilesAt(m, rest),
         Asked[m].to = Stdio
  PROVE  FilesAt(m, other)
<1>1. ASSUME NEW k \in 1 .. m, Asked[k].to # Stdio PROVE k # m
  BY <1>1
<1> QED BY <1>1 DEF FilesAt

LEMMA OnlyListingsStep ==
  ASSUME NEW m \in 0 .. Len(Asked), m + 1 \in 1 .. Len(Asked), OnlyListings(m),
         ~ (tty /\ Asked[m + 1].to = Stdio /\ Asked[m + 1].art # "listing")
  PROVE  OnlyListings(m + 1)
<1>1. \A k \in 1 .. m + 1 : k \in 1 .. m \/ k = m + 1
  BY AskedShape
<1> QED BY <1>1 DEF OnlyListings

\* The next output does not disturb what waits in the buffer.
LEMMA BufferStep ==
  ASSUME NEW m \in 0 .. Len(Asked), m + 1 \in 1 .. Len(Asked), BufferAt(m, <<>>),
         NEW rest, rest = Whole(m + 1)
  PROVE  BufferAt(m + 1, rest)
<1> SUFFICES ASSUME buffer # <<>> PROVE BufferAt(m + 1, rest)
  BY DEF BufferAt
<1>1. PICK k \in 1 .. m :
        /\ Asked[k].art = "bin" /\ Asked[k].to = Stdio
        /\ \A j \in k + 1 .. m : Asked[j].to = Stdio => Whole(j) = <<>>
  BY DEF BufferAt
<1>2. Len(Asked) \in 0 .. 3
  BY AskedShape
<1>3. k \in 1 .. m + 1 /\ k # m + 1
  BY <1>2
<1>4. ASSUME NEW j \in k + 1 .. m + 1, Asked[j].to = Stdio
      PROVE  Whole(j) = IF j = m + 1 THEN rest ELSE <<>>
  <2>1. j = m + 1 \/ j \in k + 1 .. m
    BY <1>2
  <2> QED BY <1>1, <1>4, <2>1
<1> QED BY <1>1, <1>3, <1>4 DEF BufferAt

\* A .bin finds an empty buffer.
LEMMA BufferEmpty ==
  ASSUME NEW m \in 1 .. Len(Asked), NEW rest, rest # <<>>, BufferAt(m, rest),
         Asked[m].art = "bin"
  PROVE  buffer = <<>>
<1> SUFFICES ASSUME buffer # <<>> PROVE FALSE
  OBVIOUS
<1>1. PICK k \in 1 .. m : Asked[k].art = "bin" /\ (k = m => rest = <<>>)
  BY DEF BufferAt
<1>2. k # m /\ k \in 1 .. Len(Asked)
  BY <1>1, AskedShape
<1> QED BY <1>1, <1>2, AskedShape

LEMMA BufferEnds ==
  ASSUME BufferAt(Len(Asked), <<>>), buffer # <<>>
  PROVE  EndsInBin
<1>1. PICK k \in 1 .. Len(Asked) :
        /\ Asked[k].art = "bin" /\ Asked[k].to = Stdio
        /\ \A j \in k + 1 .. Len(Asked) : Asked[j].to = Stdio => Whole(j) = <<>>
  BY DEF BufferAt
<1>2. \A j \in 1 .. Len(Asked) : j > k => j \in k + 1 .. Len(Asked)
  BY AskedShape
<1> QED BY <1>1, <1>2, AskedShape DEF EndsInBin

-----------------------------------------------------------------------------
(* The steps of the program.                                               *)

LEMMA NowIs ==
  ASSUME Complete, doing \in 1 .. Len(Asked)
  PROVE  Now = Asked[doing] /\ AllPieces = Whole(doing)
<1>1. Now = Asked[doing]
  BY DEF Complete, Planned, Now
<1> QED BY <1>1 DEF AllPieces, Whole, Complete, Planned, IsCompact, BaseAsked

\* A step that leaves argv, next and cli alone.
LEMMA ArgsTypeFixed ==
  ASSUME ArgsType, argv' = argv, next' = next, cli' = cli
  PROVE  ArgsType'
BY DEF ArgsType, CliType, AutoFromStem, None, Stdio

LEMMA StoppedInv ==
  ASSUME ArgsType, StateType, argv' = argv, next' = next, cli' = cli, result' = result,
         doing' = doing, left' = left, phase' \in {"exit", "done"}, code' \in {0, 1, 2, 101},
         file' = <<>>, buffer' = <<>>, stdout' \in {<<>>, <<Piece("info", 0)>>},
         code' = 0 => AsksInfo,
         next <= Len(argv) => ~ Acceptable \/ AsksInfo
  PROVE  Inv'
<1>1. ArgsType'
  BY ArgsTypeFixed
<1>2. <<Piece("info", 0)>> \in Seq(PieceType) /\ <<>> \in Seq(PieceType)
  <2>1. Piece("info", 0) \in PieceType
    BY DEF Piece, PieceType
  <2> QED BY <2>1
<1>3. StateType'
  BY <1>2 DEF StateType, ResultType, PieceType
<1>4. Stopped'
  <2>1. Piece("info", 0)' = Piece("info", 0)
    BY DEF Piece
  <2> QED BY AskedFixed, <2>1 DEF Stopped
<1> QED BY <1>1, <1>3, <1>4 DEF Inv

\* An argument that stands where it must not stand.
LEMMA BadArgument ==
  ASSUME ArgsType, next <= Len(argv), ~ IsValue[next], ~ GoodArg(next)
  PROVE  ~ Acceptable
<1>1. next \in DOMAIN argv
  BY ArgvShape
<1> QED BY <1>1 DEF Acceptable, GoodArg

LEMMA ModeConflictBad ==
  ASSUME ArgsInv, ModeConflict
  PROVE  ~ Acceptable
<1> USE DEF ArgsInv
<1>1. /\ argv[next] \in {"--lgo-full", "--lgo-compact"} /\ next <= Len(argv)
      /\ cli.lgo_mode \notin {None, ModeOf[argv[next]]}
  BY Distinct DEF ModeConflict, Looping, Arg
<1>2. next \in Options({argv[next]})
  BY <1>1, ArgvShape DEF Options, ArgsRead
<1>3. cli.lgo_mode \in {None, "full", "compact"}
  BY DEF ArgsType, CliType
<1>4. \A S : Below(S) \subseteq Options(S)
  BY DEF Below
<1>5. CASE argv[next] = "--lgo-full"
  <2>1. cli.lgo_mode = "compact"
    BY <1>1, <1>3, <1>5, Distinct
  <2>2. Options({"--lgo-compact"}) # {}
    BY <1>4, <2>1 DEF ArgsRead, ModeRead
  <2> QED BY <1>2, <1>5, <2>2 DEF Acceptable
<1>6. CASE argv[next] = "--lgo-compact"
  <2>1. cli.lgo_mode = "full"
    BY <1>1, <1>3, <1>6, Distinct
  <2>2. Options({"--lgo-full"}) # {}
    BY <1>4, <2>1 DEF ArgsRead, ModeRead
  <2> QED BY <1>2, <1>6, <2>2 DEF Acceptable
<1> QED BY <1>1, <1>5, <1>6

LEMMA SecondInputBad ==
  ASSUME ArgsInv, SecondInput
  PROVE  ~ Acceptable
<1> USE DEF ArgsInv
<1> DEFINE I == {i \in DOMAIN argv : IsInput(argv[i]) /\ ~ IsValue[i]}
<1>1. /\ IsInput(argv[next]) /\ next <= Len(argv) /\ cli.input # None
  BY DEF SecondInput, Looping, Arg
<1>2. next \in I
  BY <1>1, ArgvShape DEF ArgsRead
<1>3. PICK m \in Int : InputsBelow = {m}
  BY <1>1 DEF ArgsRead, InputRead
<1>4. m \in I /\ m < next
  BY <1>3 DEF InputsBelow
<1>5. ASSUME Cardinality(I) = 1 PROVE FALSE
  <2>1. IsFiniteSet(I)
    <3>1. IsFiniteSet(DOMAIN argv)
      BY ArgvShape, FS_Interval
    <3> QED BY <3>1, FS_Subset
  <2>2. \E x : I = {x}
    <3> HIDE DEF I
    <3> QED BY <1>5, <2>1, FS_Singleton
  <2> QED BY <1>2, <1>4, <2>2, ArgvShape
<1> QED BY <1>5 DEF Acceptable

\* A step of the argument loop.
LEMMA ArgumentsInv ==
  ASSUME Inv, Arguments
  PROVE  Inv'
<1>1. phase = "args" /\ Untouched /\ ArgsInv /\ ArgsType /\ StateType /\ next <= Len(argv)
      /\ next \in DOMAIN argv /\ ~ IsValue[next] /\ code = 0
  <2>1. phase = "args" /\ next <= Len(argv)
    BY DEF Arguments, Info, PathOption, MissingValue, ModeOption, ModeConflict, BaseAddr,
           BaseAddrInvalid, Input, SecondInput, UnknownOption, Looping
  <2>2. Untouched /\ ArgsInv /\ ArgsType /\ StateType
    BY <2>1 DEF Inv
  <2> QED BY <2>1, <2>2, ArgvShape DEF ArgsInv, ArgsRead, Untouched
<1> HIDE DEF Inv
<1>2. ASSUME ArgsInv', phase' = phase, result' = result, doing' = doing, left' = left,
             UNCHANGED outside, code' = code
      PROVE  Inv'
  <2>1. StateType'
    BY <1>1, <1>2 DEF StateType, outside, ResultType, PieceType
  <2>2. Untouched' /\ phase' = "args"
    BY <1>1, <1>2 DEF Untouched, outside
  <2> QED BY <1>2, <2>1, <2>2 DEF Inv, ArgsInv
<1>3. ASSUME Refuse, ~ Acceptable
      PROVE  Inv'
  <2>1. /\ argv' = argv /\ next' = next /\ cli' = cli /\ result' = result /\ doing' = doing
        /\ left' = left /\ phase' = "exit" /\ code' \in {2, 101} /\ UNCHANGED outside
    BY <1>3 DEF Refuse, Err, ExitAfterMessage
  <2>2. file' = <<>> /\ buffer' = <<>> /\ stdout' = <<>>
    BY <1>1, <2>1 DEF outside, Untouched
  <2> QED BY <1>1, <1>3, <2>1, <2>2, StoppedInv
<1>4. CASE Info
  <2>1. argv[next] \in Infos
    BY <1>4 DEF Info, Arg, Infos
  <2>2. AsksInfo
    BY <1>1, <2>1 DEF AsksInfo, Options, Infos
  <2>3. /\ argv' = argv /\ next' = next /\ cli' = cli /\ result' = result /\ doing' = doing
        /\ left' = left /\ phase' = "exit" /\ code' \in {0, 101}
        /\ file' = file /\ buffer' = buffer
        /\ stdout' \in {stdout, Append(stdout, Piece("info", 0))}
    BY <1>4 DEF Info, Exit
  <2>4. /\ file' = <<>> /\ buffer' = <<>> /\ stdout' \in {<<>>, <<Piece("info", 0)>>}
    <3>1. Append(<<>>, Piece("info", 0)) = <<Piece("info", 0)>>
      OBVIOUS
    <3> QED BY <1>1, <2>3, <3>1 DEF Untouched
  <2> QED BY <1>1, <2>2, <2>3, <2>4, StoppedInv
<1>5. CASE PathOption
  BY <1>1, <1>2, <1>5, PathOptionReads DEF PathOption, Took
<1>6. CASE ModeOption
  BY <1>1, <1>2, <1>6, ModeOptionReads DEF ModeOption, Took
<1>7. CASE BaseAddr
  BY <1>1, <1>2, <1>7, BaseAddrReads DEF BaseAddr, Took
<1>8. CASE Input
  BY <1>1, <1>2, <1>8, InputReads DEF Input, Took
<1>9. CASE MissingValue
  <2>1. argv[next] \in Valued /\ ~ (next < Len(argv)) /\ Refuse
    BY <1>9 DEF MissingValue, Arg, HasValue, Valued
  <2>2. ~ IsInput(argv[next]) /\ argv[next] \notin DOMAIN ModeOf
    BY <2>1, Distinct
  <2>3. ~ GoodArg(next)
    BY <2>1, <2>2 DEF GoodArg
  <2> QED BY <1>1, <1>3, <2>1, <2>3, BadArgument
<1>10. CASE ModeConflict
  BY <1>1, <1>3, <1>10, ModeConflictBad DEF ModeConflict
<1>11. CASE BaseAddrInvalid
  <2>1. argv[next] = "--base-addr" /\ argv[next + 1] \notin DOMAIN AddressOf /\ Refuse
    BY <1>11 DEF BaseAddrInvalid, Arg, Value
  <2>2. ~ IsInput(argv[next]) /\ argv[next] \notin DOMAIN ModeOf /\ argv[next] \notin TakesPath
    BY <2>1, Distinct DEF Valued, TakesPath
  <2>3. ~ GoodArg(next)
    BY <2>1, <2>2 DEF GoodArg
  <2> QED BY <1>1, <1>3, <2>1, <2>3, BadArgument
<1>12. CASE SecondInput
  BY <1>1, <1>3, <1>12, SecondInputBad DEF SecondInput
<1>13. CASE UnknownOption
  <2>1. ~ GoodArg(next) /\ Refuse
    BY <1>13 DEF UnknownOption, GoodArg, Arg
  <2> QED BY <1>1, <1>3, <2>1, BadArgument
<1> QED BY <1>4, <1>5, <1>6, <1>7, <1>8, <1>9, <1>10, <1>11, <1>12, <1>13 DEF Arguments

\* From the end of the arguments to the assembled result.
LEMMA AssemblyInv ==
  ASSUME Inv,
         NoInput \/ EndOfArgs \/ ReadInput \/ ReadFails \/ Errors \/ AssemblerPanics \/ Assembled
  PROVE  Inv'
<1>1. /\ phase \in {"args", "read", "assemble"} /\ Untouched /\ ArgsType /\ StateType
      /\ next > Len(argv) /\ (phase = "args" => ArgsInv) /\ (phase # "args" => Complete)
      /\ code = 0
  <2>1. /\ phase \in {"args", "read", "assemble"}
        /\ phase = "args" => next > Len(argv)
    BY DEF NoInput, EndOfArgs, ReadInput, ReadFails, Errors, AssemblerPanics, Assembled
  <2> QED BY <2>1 DEF Inv, Complete, Untouched
<1> HIDE DEF Inv
<1>2. ASSUME phase' = "exit", code' \in {1, 2, 101},
             UNCHANGED <<argv, tty, next, cli, result, doing, left, outside>>
      PROVE  Inv'
  <2>1. file' = <<>> /\ buffer' = <<>> /\ stdout' = <<>> /\ phase' = "exit"
    BY <1>1, <1>2 DEF Untouched, outside
  <2>2. ~ (next <= Len(argv)) /\ code' # 0
    BY <1>1, <1>2, ArgvShape
  <2> QED BY <1>1, <1>2, <2>1, <2>2, StoppedInv
<1>3. CASE NoInput
  BY <1>2, <1>3 DEF NoInput, Refuse, Err, ExitAfterMessage
<1>4. CASE ReadFails
  BY <1>2, <1>4 DEF ReadFails, Err, ExitAfterMessage
<1>5. CASE Errors
  BY <1>2, <1>5 DEF Errors, ExitAfterMessage
<1>6. CASE AssemblerPanics
  BY <1>2, <1>6 DEF AssemblerPanics, Exit
<1>7. ASSUME UNCHANGED <<result, doing, left, outside, code>>, phase' \in {"read", "assemble"},
             ArgsType', Complete'
      PROVE  Inv'
  <2>1. StateType'
    BY <1>1, <1>7 DEF StateType, outside, ResultType, PieceType
  <2>2. Untouched'
    BY <1>1, <1>7 DEF Untouched, outside
  <2> QED BY <1>7, <2>1, <2>2 DEF Inv
<1>8. CASE EndOfArgs
  <2>1. Planned' /\ ArgsType'
    BY <1>1, <1>8, PlannedAtEnd DEF EndOfArgs
  <2>2. Complete'
    BY <1>1, <1>8, <2>1 DEF Complete, EndOfArgs
  <2> QED BY <1>7, <1>8, <2>1, <2>2 DEF EndOfArgs
<1>9. CASE ReadInput
  <2>1. /\ argv' = argv /\ next' = next /\ cli' = cli /\ phase = "read" /\ phase' = "assemble"
        /\ UNCHANGED <<result, doing, left, outside, code>>
    BY <1>9 DEF ReadInput
  <2> QED BY <1>1, <1>7, <2>1, ArgsTypeFixed, CompleteFixed
<1>10. CASE Assembled
  <2>1. /\ argv' = argv /\ next' = next /\ cli' = cli /\ phase = "assemble" /\ phase' = "open"
        /\ result' \in Results /\ doing' = 1 /\ left' = left /\ code' = code
        /\ file' = <<>> /\ stdout' = <<>> /\ buffer' = <<>> /\ tty' = tty
    BY <1>1, <1>10 DEF Assembled, outside, Untouched
  <2>2. ArgsType' /\ Complete'
    BY <1>1, <2>1, ArgsTypeFixed, CompleteFixed
  <2>3. StateType' /\ result' \in ResultType
    BY <1>1, <2>1, CliAssumption DEF StateType, ResultType, PieceType
  <2>4. doing' \in 1 .. Len(Asked') + 1
    <3>1. Len(Asked) \in 0 .. 3 /\ Asked' = Asked
      BY <2>1, AskedShape, AskedFixed
    <3> QED BY <2>1, <3>1
  <2>5. Progress(doing - 1, <<>>)'
    <3>1. SoFar(0)' = <<>> /\ Begun(0)' = {}
      <4>1. SoFar(0)' = (<<>> \o <<>>) \o <<>>
        BY DEF SoFar
      <4>2. 1 .. 0 = {}
        OBVIOUS
      <4> QED BY <4>1, <4>2 DEF Begun
    <3>2. doing' - 1 = 0 /\ 1 .. 0 = {}
      BY <2>1
    <3>3. FilesAt(0, <<>>)'
      <4>1. DOMAIN <<>> = {}
        OBVIOUS
      <4> QED BY <2>1, <3>1, <3>2, <4>1 DEF FilesAt
    <3>4. StdoutAt(0, <<>>)'
      <4>1. (<<>> \o <<>>) \o <<>> = <<>>
        OBVIOUS
      <4> QED BY <2>1, <3>1, <4>1 DEF StdoutAt
    <3>5. BufferAt(0, <<>>)' /\ OnlyListings(0)'
      BY <2>1, <3>2 DEF BufferAt, OnlyListings
    <3>6. Progress(0, <<>>)'
      BY <3>3, <3>4, <3>5 DEF Progress
    <3> QED BY <3>2, <3>6
  <2> QED BY <1>1, <2>1, <2>2, <2>3, <2>4, <2>5 DEF Inv
<1> QED BY <1>3, <1>4, <1>5, <1>6, <1>8, <1>9, <1>10

\* The program stops with some of the outputs written.
LEMMA EndedInv ==
  ASSUME ArgsType, StateType, Complete, argv' = argv, next' = next, cli' = cli,
         result' = result, doing' = doing, left' = left, phase' \in {"exit", "done"},
         stdout' \in Seq(PieceType), buffer' \in Seq(PieceType), code' \in {0, 2, 101},
         doing \in 1 .. 4,
         NEW m \in 0 .. Len(Asked), NEW rest \in Seq(PieceType), NEW tail \in Seq(PieceType),
         EndsAt(m, rest, tail)'
  PROVE  Inv'
<1>1. ArgsType' /\ Complete'
  BY ArgsTypeFixed, CompleteFixed
<1>2. StateType'
  BY DEF StateType, ResultType, PieceType
<1>3. Written'
  <2>1. Asked' = Asked /\ (Seq(PieceType))' = Seq(PieceType)
    BY AskedFixed DEF PieceType
  <2>2. m \in 0 .. Len(Asked')
    BY <2>1
  <2>3. rest \in Seq(PieceType') /\ tail \in Seq(PieceType')
    BY DEF PieceType
  <2> QED BY <2>2, <2>3 DEF Written
<1> QED BY <1>1, <1>2, <1>3 DEF Inv

\* The program goes on with an output that has been opened.
LEMMA WritingInv ==
  ASSUME ArgsType, StateType, Complete, argv' = argv, next' = next, cli' = cli,
         result' = result, doing' = doing, phase' = "write", code' = 0,
         left' \in Seq(PieceType), stdout' \in Seq(PieceType), buffer' \in Seq(PieceType),
         doing \in 1 .. Len(Asked), Progress(doing, left)'
  PROVE  Inv'
<1>1. ArgsType' /\ Complete'
  BY ArgsTypeFixed, CompleteFixed
<1>2. StateType'
  BY DEF StateType, ResultType, PieceType
<1>3. doing' \in 1 .. Len(Asked')
  BY AskedFixed
<1> QED BY <1>1, <1>2, <1>3 DEF Inv

LEMMA OpenSteps ==
  ASSUME Inv, RefuseTty \/ Create \/ CreateFails \/ OpenStdout
  PROVE  Inv'
<1>1. /\ ArgsType /\ StateType /\ Complete /\ phase = "open" /\ code = 0
      /\ doing \in 1 .. Len(Asked) /\ Progress(doing - 1, <<>>)
      /\ argv' = argv /\ next' = next /\ cli' = cli /\ result' = result
      /\ tty' = tty /\ doing' = doing
  <2>1. phase = "open" /\ doing <= Len(Plan)
    BY DEF RefuseTty, Create, CreateFails, OpenStdout, Opening
  <2>2. ArgsType /\ StateType /\ Complete /\ code = 0 /\ doing \in 1 .. Len(Asked) + 1
        /\ Progress(doing - 1, <<>>)
    BY <2>1 DEF Inv
  <2>3. doing \in 1 .. Len(Asked)
    BY <2>1, <2>2, AskedShape DEF Complete, Planned
  <2> QED BY <2>1, <2>2, <2>3 DEF RefuseTty, Create, CreateFails, OpenStdout
<1>2. PICK m : m = doing - 1
  OBVIOUS
<1>3. m \in 0 .. Len(Asked) /\ m + 1 = doing /\ m + 1 \in 1 .. Len(Asked)
      /\ Len(Asked) \in 0 .. 3 /\ m \in 0 .. 2
  BY <1>1, <1>2, AskedShape
<1>4. FilesAt(m, <<>>) /\ StdoutAt(m, <<>>) /\ BufferAt(m, <<>>) /\ OnlyListings(m)
  <2>1. Progress(m, <<>>)
    BY <1>1, <1>2
  <2> QED BY <2>1 DEF Progress
<1>5. PICK w : w = Whole(m + 1)
  OBVIOUS
<1>6. /\ Now = Asked[m + 1] /\ AllPieces = w /\ w \in Seq(PieceType)
      /\ result \in ResultType /\ stdout \in Seq(PieceType) /\ buffer \in Seq(PieceType)
      /\ <<>> \in Seq(PieceType)
  <2>1. Now = Asked[doing] /\ AllPieces = Whole(doing)
    BY <1>1, NowIs
  <2> QED BY <1>1, <1>3, <1>5, <2>1, WholeType, EmptySeq DEF StateType, Complete
<1> HIDE DEF Inv
<1>7. CASE RefuseTty \/ CreateFails
  <2>1. /\ phase' = "exit" /\ code' \in {2, 101} /\ left' = left /\ file' = file
        /\ stdout' = stdout /\ buffer' = buffer
    BY <1>7 DEF RefuseTty, CreateFails, Err, ExitAfterMessage, outside
  <2>2. EndsAt(m, <<>>, <<>>)'
    BY <1>1, <1>4, <2>1, OutputFixed DEF EndsAt
  <2>3. doing \in 1 .. 4
    BY <1>3
  <2> QED BY <1>1, <1>3, <1>6, <2>1, <2>2, <2>3, EndedInv
<1>8. ASSUME left' = w, phase' = "write", code' = code, stdout' = stdout, buffer' = buffer,
             FilesAt(m + 1, w)',
             StdoutAt(m + 1, IF Asked[m + 1].to = Stdio THEN w ELSE <<>>),
             OnlyListings(m + 1)
      PROVE  Inv'
  <2>1. BufferAt(m + 1, w)
    BY <1>3, <1>4, <1>5, BufferStep
  <2>2. BufferAt(m + 1, w)' /\ OnlyListings(m + 1)'
    BY <1>1, <1>8, <2>1, OutputFixed
  <2>3. PICK t : t = IF Asked[m + 1].to = Stdio THEN w ELSE <<>>
    OBVIOUS
  <2>4. StdoutAt(m + 1, t)'
    BY <1>1, <1>8, <2>3, OutputFixed
  <2>5. t = (IF m + 1 >= 1 /\ Asked[m + 1].to = Stdio THEN w ELSE <<>>)'
    <3>1. m + 1 >= 1 /\ Asked' = Asked
      BY <1>1, <1>3, AskedFixed
    <3> QED BY <2>3, <3>1 DEF Stdio
  <2>6. Progress(m + 1, w)'
    BY <1>8, <2>2, <2>4, <2>5 DEF Progress
  <2>7. doing' = m + 1 /\ left' = w
    BY <1>1, <1>3, <1>8
  <2>8. Progress(doing, left)'
    BY <2>6, <2>7
  <2> QED BY <1>1, <1>6, <1>8, <2>8, WritingInv
<1>9. SoFar(m + 1) = SoFar(m) \o ToStdout(m + 1) /\ SoFar(m) \in Seq(PieceType)
  <2>1. /\ \A i \in 0 .. 3 : SoFar(i) \in Seq(PieceType)
        /\ \A i \in 0 .. 2 : SoFar(i + 1) = SoFar(i) \o ToStdout(i + 1)
    BY <1>1, <1>6, SoFarShape DEF Complete
  <2>2. m \in 0 .. 2 /\ m \in 0 .. 3
    BY <1>3
  <2> QED BY <2>1, <2>2, Zenon
<1>10. (stdout \o buffer) \o <<>> = SoFar(m) /\ stdout \o buffer = SoFar(m)
  <2>1. stdout \o buffer \in Seq(PieceType)
    BY <1>6, ConcatProperties
  <2> QED BY <1>4, <2>1, ConcatEmptySeq DEF StdoutAt
<1>11. CASE Create
  <2>1. /\ Asked[m + 1].to # Stdio /\ Put(Asked[m + 1].to, <<>>) /\ left' = w
        /\ phase' = "write" /\ code' = code /\ stdout' = stdout /\ buffer' = buffer
    BY <1>6, <1>11 DEF Create
  <2>2. FilesAt(m + 1, w)'
    BY <1>1, <1>3, <1>4, <1>5, <1>6, <2>1, BeginFile
  <2>3. StdoutAt(m + 1, <<>>)
    <3>1. ToStdout(m + 1) = <<>>
      BY <2>1 DEF ToStdout
    <3> QED BY <1>9, <1>10, <3>1, ConcatEmptySeq DEF StdoutAt
  <2>4. OnlyListings(m + 1)
    BY <1>3, <1>4, <2>1, OnlyListingsStep
  <2> QED BY <1>8, <2>1, <2>2, <2>3, <2>4
<1>12. CASE OpenStdout
  <2>1. /\ Asked[m + 1].to = Stdio /\ left' = w /\ file' = file
        /\ ~ (tty /\ Asked[m + 1].art # "listing")
        /\ phase' = "write" /\ code' = code /\ stdout' = stdout /\ buffer' = buffer
    BY <1>6, <1>12 DEF OpenStdout, Refused, outside
  <2>2. FilesAt(m + 1, w)
    BY <1>1, <1>3, <1>4, <2>1, BeginStdout
  <2>3. FilesAt(m + 1, w)'
    BY <1>1, <2>1, <2>2, OutputFixed
  <2>4. StdoutAt(m + 1, w)
    <3>1. ToStdout(m + 1) = w
      BY <1>3, <1>5, <2>1, AskedShape DEF ToStdout
    <3> QED BY <1>9, <1>10, <3>1 DEF StdoutAt
  <2>5. OnlyListings(m + 1)
    BY <1>3, <1>4, <2>1, OnlyListingsStep
  <2> QED BY <1>8, <2>1, <2>3, <2>4, <2>5
<1> QED BY <1>7, <1>11, <1>12

LEMMA WriteSteps ==
  ASSUME Inv,
         \/ WriteFile \/ WriteFails \/ WriteLine \/ WriteLineFails \/ WriteBin \/ WriteBinFails
         \/ AddressOverflows
  PROVE  Inv'
<1>1. /\ ArgsType /\ StateType /\ Complete /\ phase = "write" /\ code = 0 /\ left # <<>>
      /\ doing \in 1 .. Len(Asked) /\ Progress(doing, left)
      /\ argv' = argv /\ next' = next /\ cli' = cli /\ result' = result
      /\ tty' = tty /\ doing' = doing
  BY DEF WriteFile, WriteFails, WriteLine, WriteLineFails, WriteBin, WriteBinFails,
         AddressOverflows, Writing, Inv
<1>2. PICK m, l : m = doing /\ l = left
  OBVIOUS
<1>3. m \in 0 .. Len(Asked) /\ m \in 1 .. Len(Asked) /\ Len(Asked) \in 0 .. 3 /\ m >= 1
  BY <1>1, <1>2, AskedShape
<1>4. /\ FilesAt(m, l) /\ BufferAt(m, l) /\ OnlyListings(m)
      /\ StdoutAt(m, IF Asked[m].to = Stdio THEN l ELSE <<>>)
  <2>1. Progress(m, l)
    BY <1>1, <1>2
  <2> QED BY <1>3, <2>1 DEF Progress
<1>5. /\ Now = Asked[m] /\ l \in Seq(PieceType) /\ l # <<>> /\ Asked' = Asked
      /\ stdout \in Seq(PieceType) /\ buffer \in Seq(PieceType) /\ <<>> \in Seq(PieceType)
      /\ stdout \o buffer \in Seq(PieceType)
  BY <1>1, <1>2, NowIs, AskedFixed, EmptySeq, ConcatProperties DEF StateType
<1> HIDE DEF Inv
\* The program goes on ...
<1>6. ASSUME NEW r \in Seq(PieceType), left' = r, phase' = "write", code' = code,
             stdout' \in Seq(PieceType), buffer' \in Seq(PieceType),
             FilesAt(m, r)', BufferAt(m, r)',
             StdoutAt(m, IF Asked[m].to = Stdio THEN r ELSE <<>>)'
      PROVE  Inv'
  <2>1. OnlyListings(m)'
    BY <1>1, <1>4, OutputFixed
  <2>2. Progress(m, r)'
    BY <1>3, <1>6, <2>1 DEF Progress
  <2>3. Progress(doing, left)'
    BY <1>1, <1>2, <1>6, <2>2
  <2> QED BY <1>1, <1>6, <2>3, WritingInv
\* ... or stops.
<1>7. ASSUME NEW r \in Seq(PieceType), NEW t \in Seq(PieceType), left' = left,
             phase' = "exit", code' \in {2, 101},
             stdout' \in Seq(PieceType), buffer' \in Seq(PieceType),
             FilesAt(m, r)', StdoutAt(m, t)'
      PROVE  Inv'
  <2>1. OnlyListings(m)'
    BY <1>1, <1>4, OutputFixed
  <2>2. EndsAt(m, r, t)'
    BY <1>7, <2>1 DEF EndsAt
  <2>3. doing \in 1 .. 4
    <3>1. PICK n : n = Len(Asked)
      OBVIOUS
    <3>2. doing = m /\ m \in 1 .. n /\ n \in 0 .. 3
      BY <1>2, <1>3, <3>1
    <3> QED BY <3>2
  <2> QED BY <1>1, <1>3, <1>7, <2>2, <2>3, EndedInv
<1>8. Head(l) \in PieceType /\ Tail(l) \in Seq(PieceType)
  BY <1>5, WriteOne
<1>9. CASE WriteFile
  <2>1. /\ Asked[m].to # Stdio /\ Put(Asked[m].to, Append(file[Asked[m].to], Head(l)))
        /\ left' = Tail(l) /\ phase' = "write" /\ code' = code
        /\ stdout' = stdout /\ buffer' = buffer
    BY <1>1, <1>2, <1>5, <1>9 DEF WriteFile
  <2>2. FilesAt(m, Tail(l))'
    BY <1>1, <1>3, <1>4, <1>5, <2>1, ExtendFile
  <2>3. BufferAt(m, Tail(l))
    BY <1>4, <2>1 DEF BufferAt
  <2>4. StdoutAt(m, <<>>) /\ BufferAt(m, Tail(l))' /\ StdoutAt(m, <<>>)'
    BY <1>1, <1>4, <2>1, <2>3, OutputFixed
  <2>5. StdoutAt(m, IF Asked[m].to = Stdio THEN Tail(l) ELSE <<>>)'
    BY <1>5, <2>1, <2>4 DEF Stdio
  <2> QED BY <1>5, <1>6, <1>8, <2>1, <2>2, <2>4, <2>5
<1>10. CASE WriteFails
  <2>1. /\ Asked[m].to # Stdio /\ left' = left /\ file' = file /\ phase' = "exit"
        /\ code' \in {2, 101} /\ stdout' = stdout /\ buffer' = buffer
    BY <1>5, <1>10 DEF WriteFails, Err, ExitAfterMessage, outside
  <2>2. FilesAt(m, l)' /\ StdoutAt(m, <<>>)'
    BY <1>1, <1>4, <2>1, OutputFixed
  <2> QED BY <1>5, <1>7, <2>1, <2>2
<1>11. ASSUME Asked[m].to = Stdio, file' = file
       PROVE  /\ \A r : FilesAt(m, r)'
              /\ (stdout \o buffer) \o l = SoFar(m)
  BY <1>1, <1>3, <1>4, <1>11, FilesApart, OutputFixed DEF StdoutAt
<1>12. /\ Append(stdout \o buffer, Head(l)) \in Seq(PieceType)
       /\ Append(buffer, Head(l)) \in Seq(PieceType)
       /\ Append(stdout \o buffer, Head(l)) \o Tail(l) = (stdout \o buffer) \o l
       /\ stdout \o Append(buffer, Head(l)) = Append(stdout \o buffer, Head(l))
  <2>1. /\ Append(stdout \o buffer, Head(l)) \in Seq(PieceType)
        /\ Append(stdout \o buffer, Head(l)) \o Tail(l) = (stdout \o buffer) \o l
    <3>1. \A q \in Seq(PieceType) : /\ Append(q, Head(l)) \in Seq(PieceType)
                                    /\ Append(q, Head(l)) \o Tail(l) = q \o l
      BY <1>5, WriteOne
    <3> QED BY <1>5, <3>1, Zenon
  <2>2. /\ Append(buffer, Head(l)) = buffer \o <<Head(l)>>
        /\ Append(stdout \o buffer, Head(l)) = (stdout \o buffer) \o <<Head(l)>>
        /\ <<Head(l)>> \in Seq(PieceType)
    BY <1>5, <1>8, AppendIsConcat
  <2>3. stdout \o (buffer \o <<Head(l)>>) = (stdout \o buffer) \o <<Head(l)>>
    BY <1>5, <2>2, ConcatAssociative
  <2>4. Append(buffer, Head(l)) \in Seq(PieceType)
    BY <1>5, <1>8, AppendProperties
  <2> QED BY <2>1, <2>2, <2>3, <2>4
<1>13. CASE WriteLine
  <2>1. /\ Asked[m].to = Stdio /\ stdout' = Append(stdout \o buffer, Head(l)) /\ buffer' = <<>>
        /\ left' = Tail(l) /\ file' = file /\ phase' = "write" /\ code' = code
    BY <1>1, <1>2, <1>5, <1>13 DEF WriteLine
  <2>2. BufferAt(m, Tail(l))'
    BY <2>1 DEF BufferAt
  <2>3. StdoutAt(m, Tail(l))'
    <3>1. stdout' \o buffer' = stdout'
      BY <1>12, <2>1, ConcatEmptySeq
    <3> QED BY <1>1, <1>11, <1>12, <2>1, <3>1, WholeFixed DEF StdoutAt
  <2>4. StdoutAt(m, IF Asked[m].to = Stdio THEN Tail(l) ELSE <<>>)'
    BY <1>5, <2>1, <2>3 DEF Stdio
  <2> QED BY <1>5, <1>6, <1>8, <1>11, <1>12, <2>1, <2>2, <2>4
<1>14. CASE WriteLineFails
  <2>1. /\ Asked[m].to = Stdio /\ buffer' = Append(buffer, Head(l)) /\ stdout' = stdout
        /\ left' = left /\ file' = file /\ phase' = "exit" /\ code' \in {2, 101}
    BY <1>1, <1>2, <1>5, <1>14 DEF WriteLineFails, Err, ExitAfterMessage
  <2>2. StdoutAt(m, Tail(l))'
    BY <1>1, <1>11, <1>12, <2>1, WholeFixed DEF StdoutAt
  <2> QED BY <1>5, <1>7, <1>8, <1>11, <1>12, <2>1, <2>2
<1>15. ASSUME Asked[m].to = Stdio, Asked[m].art = "bin"
       PROVE  /\ buffer = <<>> /\ stdout \o buffer = stdout
              /\ \A n \in 0 .. Len(l) :
                   /\ SubSeq(l, 1, n) \in Seq(PieceType)
                   /\ SubSeq(l, n + 1, Len(l)) \in Seq(PieceType)
                   /\ stdout \o SubSeq(l, 1, n) \in Seq(PieceType)
                   /\ (stdout \o SubSeq(l, 1, n)) \o SubSeq(l, n + 1, Len(l)) = stdout \o l
  <2>1. buffer = <<>>
    BY <1>3, <1>4, <1>5, <1>15, BufferEmpty
  <2>2. stdout \o buffer = stdout
    BY <1>5, <2>1, ConcatEmptySeq
  <2>3. ASSUME NEW n \in 0 .. Len(l)
        PROVE  /\ SubSeq(l, 1, n) \in Seq(PieceType) /\ SubSeq(l, n + 1, Len(l)) \in Seq(PieceType)
               /\ stdout \o SubSeq(l, 1, n) \in Seq(PieceType)
               /\ (stdout \o SubSeq(l, 1, n)) \o SubSeq(l, n + 1, Len(l)) = stdout \o l
    <3>1. /\ SubSeq(l, 1, n) \in Seq(PieceType) /\ SubSeq(l, n + 1, Len(l)) \in Seq(PieceType)
          /\ SubSeq(l, 1, n) \o SubSeq(l, n + 1, Len(l)) = l
      BY <1>5, WriteSome
    <3>2. (stdout \o SubSeq(l, 1, n)) \o SubSeq(l, n + 1, Len(l))
            = stdout \o (SubSeq(l, 1, n) \o SubSeq(l, n + 1, Len(l)))
      <4>1. stdout \in Seq(PieceType)
        BY <1>5
      <4>2. SubSeq(l, 1, n) \in Seq(PieceType)
        BY <3>1
      <4>3. SubSeq(l, n + 1, Len(l)) \in Seq(PieceType)
        BY <3>1
      <4> QED BY ONLY <4>1, <4>2, <4>3, PiecesAssociate, ZenonT(60)
    <3>3. stdout \o SubSeq(l, 1, n) \in Seq(PieceType)
      BY <1>5, <3>1, ConcatProperties
    <3> QED BY <3>1, <3>2, <3>3
  <2> QED BY <2>1, <2>2, <2>3
<1>16. CASE WriteBin
  <2>1. /\ Asked[m].to = Stdio /\ Asked[m].art = "bin" /\ left' = <<>> /\ file' = file
        /\ phase' = "write" /\ code' = code
        /\ \E n \in 0 .. Len(l) : /\ stdout' = stdout \o SubSeq(l, 1, n)
                                  /\ buffer' = SubSeq(l, n + 1, Len(l))
    BY <1>1, <1>2, <1>5, <1>16 DEF WriteBin
  <2>2. PICK n \in 0 .. Len(l) : /\ stdout' = stdout \o SubSeq(l, 1, n)
                                 /\ buffer' = SubSeq(l, n + 1, Len(l))
    BY <2>1
  <2>3. stdout' \in Seq(PieceType) /\ buffer' \in Seq(PieceType) /\ stdout' \o buffer' = stdout \o l
    BY <1>15, <2>1, <2>2
  <2>4. StdoutAt(m, <<>>)'
    <3>1. stdout \o l = SoFar(m)
      BY <1>11, <1>15, <2>1
    <3>2. stdout \o l \in Seq(PieceType)
      BY <1>5, ConcatProperties
    <3>3. (stdout' \o buffer') \o <<>> = SoFar(m)
      BY <2>3, <3>1, <3>2, ConcatEmptySeq
    <3> QED BY <1>1, <3>3, WholeFixed DEF StdoutAt
  <2>5. BufferAt(m, <<>>)'
    <3>1. m \in 1 .. m /\ m + 1 .. m = {}
      BY <1>3
    <3> QED BY <1>5, <2>1, <3>1 DEF BufferAt, Stdio
  <2>6. StdoutAt(m, IF Asked[m].to = Stdio THEN <<>> ELSE <<>>)'
    BY <2>4
  <2> QED BY <1>5, <1>6, <1>11, <2>1, <2>3, <2>5, <2>6
<1>17. CASE WriteBinFails
  <2>1. /\ Asked[m].to = Stdio /\ Asked[m].art = "bin" /\ left' = left /\ file' = file
        /\ phase' = "exit" /\ code' \in {2, 101} /\ buffer' = buffer
        /\ \E n \in 0 .. Len(l) - 1 : stdout' = stdout \o SubSeq(l, 1, n)
    BY <1>1, <1>2, <1>5, <1>17 DEF WriteBinFails, Err, ExitAfterMessage
  <2>2. PICK n \in 0 .. Len(l) - 1 : stdout' = stdout \o SubSeq(l, 1, n)
    BY <2>1
  <2>3. n \in 0 .. Len(l)
    BY <1>5, LenProperties
  <2>4. PICK t : t = SubSeq(l, n + 1, Len(l))
    OBVIOUS
  <2>5. t \in Seq(PieceType) /\ stdout' \in Seq(PieceType) /\ stdout' \o t = stdout \o l
        /\ buffer' = <<>>
    BY <1>15, <2>1, <2>2, <2>3, <2>4
  <2>6. StdoutAt(m, t)'
    <3>1. stdout \o l = SoFar(m)
      BY <1>11, <1>15, <2>1
    <3>2. stdout' \o buffer' = stdout'
      BY <2>5, ConcatEmptySeq
    <3>3. (stdout' \o buffer') \o t = SoFar(m)
      BY <2>5, <3>1, <3>2
    <3> QED BY <1>1, <3>3, WholeFixed DEF StdoutAt
  <2> QED BY <1>5, <1>7, <1>11, <2>1, <2>5, <2>6
<1>18. CASE AddressOverflows
  <2>1. /\ phase' = "exit" /\ code' = 101 /\ left' = left /\ file' = file
        /\ stdout' = stdout /\ buffer' = buffer
    BY <1>18 DEF AddressOverflows, Exit, outside
  <2>2. PICK t : t = IF Asked[m].to = Stdio THEN l ELSE <<>>
    OBVIOUS
  <2>3. t \in Seq(PieceType) /\ FilesAt(m, l)' /\ StdoutAt(m, t)'
    BY <1>1, <1>4, <1>5, <2>1, <2>2, OutputFixed
  <2> QED BY <1>5, <1>7, <2>1, <2>3
<1> QED BY <1>9, <1>10, <1>13, <1>14, <1>16, <1>17, <1>18

LEMMA EndSteps ==
  ASSUME Inv, NextOutput \/ Success \/ Flush
  PROVE  Inv'
<1>1. CASE NextOutput
  <2>1. /\ ArgsType /\ StateType /\ Complete /\ code = 0 /\ left = <<>>
        /\ doing \in 1 .. Len(Asked) /\ Progress(doing, left)
        /\ argv' = argv /\ next' = next /\ cli' = cli /\ result' = result /\ tty' = tty
        /\ doing' = doing + 1 /\ left' = left /\ file' = file /\ stdout' = stdout
        /\ buffer' = buffer /\ code' = code /\ phase' = "open"
    BY <1>1 DEF NextOutput, outside, Inv
  <2> HIDE DEF Inv
  <2>2. PICK m : m = doing
    OBVIOUS
  <2>3. m \in 1 .. Len(Asked) /\ doing' - 1 = m /\ Len(Asked) \in 0 .. 3 /\ Asked' = Asked
        /\ m >= 1
    BY <2>1, <2>2, AskedShape, AskedFixed
  <2>4. FilesAt(m, <<>>) /\ StdoutAt(m, <<>>) /\ BufferAt(m, <<>>) /\ OnlyListings(m)
    <3>1. Progress(m, <<>>)
      BY <2>1, <2>2
    <3> QED BY <3>1 DEF Progress
  <2>5. FilesAt(m, <<>>)' /\ StdoutAt(m, <<>>)' /\ BufferAt(m, <<>>)' /\ OnlyListings(m)'
    BY <2>1, <2>4, OutputFixed
  <2>6. Progress(m, <<>>)'
    BY <2>5 DEF Progress
  <2>7. Progress(doing - 1, <<>>)'
    BY <2>3, <2>6
  <2>8. ArgsType' /\ Complete'
    BY <2>1, ArgsTypeFixed, CompleteFixed
  <2>9. StateType'
    <3>1. doing' \in 0 .. 4
      <4>1. PICK n : n = Len(Asked)
        OBVIOUS
      <4>2. m \in 1 .. n /\ n \in 0 .. 3 /\ doing' = m + 1
        BY <2>1, <2>2, <2>3, <4>1
      <4> QED BY <4>2
    <3> QED BY <2>1, <3>1 DEF StateType, ResultType, PieceType
  <2>10. doing' \in 1 .. Len(Asked') + 1
    BY <2>1, <2>3
  <2> QED BY <2>1, <2>7, <2>8, <2>9, <2>10 DEF Inv
<1>2. CASE Success
  <2>1. /\ ArgsType /\ StateType /\ Complete /\ phase = "open" /\ doing > Len(Plan)
        /\ doing \in 1 .. Len(Asked) + 1 /\ Progress(doing - 1, <<>>)
        /\ argv' = argv /\ next' = next /\ cli' = cli /\ result' = result /\ tty' = tty
        /\ doing' = doing /\ left' = left /\ file' = file /\ stdout' = stdout
        /\ buffer' = buffer /\ code' = 0 /\ phase' = "exit"
    BY <1>2 DEF Success, Exit, outside, Inv
  <2> HIDE DEF Inv
  <2>2. PICK m : m = Len(Asked)
    OBVIOUS
  <2>3. m \in 0 .. Len(Asked) /\ doing - 1 = m
    BY <2>1, <2>2, AskedShape DEF Complete, Planned
  <2>4. FilesAt(m, <<>>) /\ StdoutAt(m, <<>>) /\ BufferAt(m, <<>>) /\ OnlyListings(m)
    <3>1. Progress(m, <<>>)
      BY <2>1, <2>3
    <3> QED BY <3>1 DEF Progress
  <2>5. FilesAt(m, <<>>)' /\ StdoutAt(m, <<>>)' /\ OnlyListings(m)' /\ m = Len(Asked')
    BY <2>1, <2>2, <2>4, OutputFixed, AskedFixed
  <2>6. EndsInBin' \/ buffer' = <<>>
    <3>1. EndsInBin \/ buffer = <<>>
      BY <2>2, <2>4, BufferEnds
    <3> QED BY <2>1, <3>1, WholeFixed
  <2>7. EndsAt(m, <<>>, <<>>)'
    BY <2>5, <2>6 DEF EndsAt
  <2>8. <<>> \in Seq(PieceType) /\ stdout' \in Seq(PieceType) /\ buffer' \in Seq(PieceType)
    BY <2>1, EmptySeq DEF StateType
  <2>9. doing \in 1 .. 4
    BY <2>1, AskedShape
  <2> QED BY <2>1, <2>3, <2>7, <2>8, <2>9, EndedInv
<1>3. CASE Flush
  <2>1. /\ ArgsType /\ StateType /\ (Stopped \/ (Complete /\ Written))
        /\ argv' = argv /\ next' = next /\ cli' = cli /\ result' = result /\ tty' = tty
        /\ doing' = doing /\ left' = left /\ file' = file /\ code' = code
        /\ buffer' = <<>> /\ stdout' \in {stdout, stdout \o buffer} /\ phase' = "done"
    BY <1>3 DEF Flush, Inv
  <2> HIDE DEF Inv
  <2>2. stdout \in Seq(PieceType) /\ buffer \in Seq(PieceType) /\ <<>> \in Seq(PieceType)
        /\ stdout \o buffer \in Seq(PieceType) /\ stdout' \in Seq(PieceType)
    <3>1. stdout \in Seq(PieceType) /\ buffer \in Seq(PieceType)
      BY <2>1 DEF StateType
    <3>2. stdout \o buffer \in Seq(PieceType)
      BY <3>1, ConcatProperties
    <3>3. stdout' \in Seq(PieceType)
      BY <2>1, <3>1, <3>2
    <3> QED BY <3>1, <3>2, <3>3, EmptySeq
  <2>3. CASE Stopped
    <3>1. stdout \o <<>> = stdout
      BY <2>2, ConcatEmptySeq
    <3>2. /\ file' = <<>> /\ stdout' \in {<<>>, <<Piece("info", 0)>>} /\ code' \in {0, 1, 2, 101}
          /\ code' = 0 => AsksInfo
          /\ next <= Len(argv) => ~ Acceptable \/ AsksInfo
      BY <2>1, <2>3, <3>1 DEF Stopped, StateType
    <3> QED BY <2>1, <3>2, StoppedInv
  <2>4. CASE Complete /\ Written
    <3>1. PICK m \in 0 .. Len(Asked), rest \in Seq(PieceType), tail \in Seq(PieceType) :
            EndsAt(m, rest, tail)
      BY <2>4 DEF Written
    <3>2. FilesAt(m, rest)' /\ OnlyListings(m)' /\ Asked' = Asked
          /\ EndsInBin' = EndsInBin
      BY <2>1, <3>1, OutputFixed, AskedFixed, WholeFixed DEF EndsAt
    <3>3. stdout' \o buffer' = stdout'
      BY <2>1, <2>2, ConcatEmptySeq
    <3>4. (stdout \o buffer) \o tail = SoFar(m)
      BY <3>1 DEF EndsAt, StdoutAt
    <3>5. code' \in {0, 2, 101} /\ doing \in 1 .. 4
      BY <2>1, <2>4 DEF Written
    <3>6. CASE stdout' = stdout \o buffer
      <4>1. StdoutAt(m, tail)'
        BY <2>1, <3>3, <3>4, <3>6, WholeFixed DEF StdoutAt
      <4>2. EndsAt(m, rest, tail)'
        BY <2>1, <3>1, <3>2, <4>1 DEF EndsAt
      <4> QED BY <2>1, <2>2, <2>4, <3>1, <3>5, <4>2, EndedInv
    <3>7. CASE stdout' = stdout
      <4>1. PICK t : t = buffer \o tail
        OBVIOUS
      <4>2. t \in Seq(PieceType) /\ stdout \o t = (stdout \o buffer) \o tail
            /\ (tail = <<>> /\ buffer = <<>> => t = <<>>)
        <5>1. buffer \o tail \in Seq(PieceType)
          BY <2>2, <3>1, ConcatProperties
        <5>2. (stdout \o buffer) \o tail = stdout \o (buffer \o tail)
          <6>1. stdout \in Seq(PieceType) /\ buffer \in Seq(PieceType)
            BY <2>2
          <6>2. tail \in Seq(PieceType)
            BY <3>1
          <6> QED BY ONLY <6>1, <6>2, PiecesAssociate, ZenonT(60)
        <5>3. <<>> \o <<>> = <<>>
          OBVIOUS
        <5> QED BY <4>1, <5>1, <5>2, <5>3
      <4>3. StdoutAt(m, t)'
        BY <2>1, <3>3, <3>4, <3>7, <4>2, WholeFixed DEF StdoutAt
      <4>4. EndsAt(m, rest, t)'
        BY <2>1, <3>1, <3>2, <4>2, <4>3 DEF EndsAt
      <4> QED BY <2>1, <2>2, <2>4, <3>1, <3>5, <4>2, <4>4, EndedInv
    <3> QED BY <2>1, <3>6, <3>7
  <2> QED BY <2>1, <2>3, <2>4
<1> QED BY <1>1, <1>2, <1>3

LEMMA InitInv == Init => Inv
<1> SUFFICES ASSUME Init PROVE Inv
  OBVIOUS
<1>0. /\ argv \in Argvs /\ next = 1 /\ cli = NewCli /\ phase = "args" /\ result = NoResult
      /\ doing = 0 /\ left = <<>> /\ file = <<>> /\ stdout = <<>> /\ buffer = <<>> /\ code = 0
  BY DEF Init
<1>1. argv \in Seq(STRING) /\ Len(argv) \in Nat /\ DOMAIN argv = 1 .. Len(argv)
  BY <1>0, CliAssumption, LenProperties
<1>2. NewCli \in CliType /\ NewCli.input = None
  <2>1. [sink |-> AutoFromStem, path |-> None] \in
          [sink : {AutoFromStem, "explicit", None}, path : STRING \cup {None}]
    OBVIOUS
  <2> QED BY <2>1 DEF NewCli, CliType, None
<1>3. ArgsType
  BY <1>0, <1>1, <1>2 DEF ArgsType
<1>4. /\ \A S : Below(S) = {}
      /\ InputsBelow = {}
  BY <1>0, <1>1 DEF Below, Options, InputsBelow
<1>5. LgoRead
  BY <1>0, <1>4 DEF LgoRead, NewCli
<1>6. ArgsRead
  <2>1. next <= Len(argv) => ~ IsValue[next]
    BY <1>0, <1>1, ValueDef
  <2>2. \A i \in DOMAIN argv : ~ (i < next)
    BY <1>0, <1>1
  <2>3. PathRead("--bin", cli.bin) /\ PathRead("--listing", cli.listing)
    BY <1>0, <1>4 DEF PathRead, NewCli
  <2>4. BaseRead /\ ModeRead /\ InputRead
    BY <1>0, <1>4 DEF BaseRead, ModeRead, InputRead, NewCli, None
  <2> QED BY <1>0, <1>4, <2>1, <2>2, <2>3, <2>4 DEF ArgsRead
<1>7. NoResult \in ResultType /\ <<>> \in Seq(PieceType)
  BY EmptySeq DEF NoResult, ResultType
<1>8. StateType
  BY <1>0, <1>7 DEF StateType
<1> QED BY <1>0, <1>3, <1>5, <1>6, <1>8 DEF Inv, ArgsInv, Untouched

LEMMA StutterInv ==
  ASSUME Inv, UNCHANGED vars
  PROVE  Inv'
<1>1. /\ argv' = argv /\ tty' = tty /\ next' = next /\ cli' = cli /\ phase' = phase
      /\ result' = result /\ doing' = doing /\ left' = left /\ file' = file
      /\ stdout' = stdout /\ buffer' = buffer /\ code' = code
  BY DEF vars
<1>2. ArgsType' /\ (Complete => Complete')
  BY <1>1, ArgsTypeFixed, CompleteFixed DEF Inv
<1>3. StateType'
  BY <1>1 DEF Inv, StateType, ResultType, PieceType
<1>4. (Stopped => Stopped') /\ (Untouched => Untouched') /\ Asked' = Asked
  <2>1. Piece("info", 0)' = Piece("info", 0)
    BY DEF Piece
  <2> QED BY <1>1, <2>1, AskedFixed DEF Stopped, Untouched
<1>5. ArgsInv => ArgsInv'
  <2>1. /\ IsValue' = IsValue /\ \A S : Options(S)' = Options(S)
        /\ \A i : GoodArg(i)' = GoodArg(i)
    BY <1>1, ArgvFixed
  <2>2. /\ \A S : Below(S)' = Below(S)
        /\ InputsBelow' = InputsBelow
    BY <1>1, <2>1 DEF Below, InputsBelow, IsInput, Stdio
  <2>3. ArgsRead => ArgsRead'
    BY <1>1, <2>1, <2>2 DEF ArgsRead, PathRead, BaseRead, ModeRead, InputRead
  <2>4. LgoRead => LgoRead'
    BY <1>1, <2>2 DEF LgoRead, AutoFromStem, None
  <2> QED BY <1>2, <2>3, <2>4 DEF ArgsInv
<1>6. \A m, rest : Progress(m, rest) => Progress(m, rest)'
  <2> TAKE m, rest
  <2>1. PICK t : t = IF m >= 1 /\ Asked[m].to = Stdio THEN rest ELSE <<>>
    OBVIOUS
  <2>2. t = (IF m >= 1 /\ Asked[m].to = Stdio THEN rest ELSE <<>>)'
    BY <1>4, <2>1 DEF Stdio
  <2>3. Progress(m, rest) => /\ FilesAt(m, rest)' /\ StdoutAt(m, t)'
                             /\ BufferAt(m, rest)' /\ OnlyListings(m)'
    BY <1>1, <2>1, OutputFixed DEF Progress
  <2> QED BY <2>2, <2>3 DEF Progress
<1>7. Written => Written'
  <2>1. \A m, rest, tail : EndsAt(m, rest, tail) => EndsAt(m, rest, tail)'
    BY <1>1, <1>4, OutputFixed, WholeFixed DEF EndsAt
  <2> QED BY <1>1, <1>4, <2>1 DEF Written, PieceType
<1>8. PICK d, l : d = doing /\ l = left
  OBVIOUS
<1>9. phase = "open" => Progress(doing - 1, <<>>)'
  <2>1. Progress(d - 1, <<>>) => Progress(d - 1, <<>>)'
    BY <1>6
  <2>2. doing' - 1 = d - 1
    BY <1>1, <1>8
  <2> QED BY <1>8, <2>1, <2>2 DEF Inv
<1>10. phase = "write" => Progress(doing, left)'
  <2>1. Progress(d, l) => Progress(d, l)'
    BY <1>6
  <2>2. doing' = d /\ left' = l
    BY <1>1, <1>8
  <2> QED BY <1>8, <2>1, <2>2 DEF Inv
<1> QED BY <1>1, <1>2, <1>3, <1>4, <1>5, <1>7, <1>9, <1>10 DEF Inv

LEMMA StepInv ==
  ASSUME Inv, [Next]_vars
  PROVE  Inv'
<1>1. CASE Arguments
  BY <1>1, ArgumentsInv
<1>2. CASE NoInput \/ EndOfArgs \/ ReadInput \/ ReadFails \/ Errors \/ AssemblerPanics \/ Assembled
  BY <1>2, AssemblyInv
<1>3. CASE WriteOutputs
  BY <1>3, OpenSteps, WriteSteps, EndSteps DEF WriteOutputs
<1>4. CASE Flush
  BY <1>4, EndSteps
<1>5. CASE UNCHANGED vars
  BY <1>5, StutterInv
<1> QED BY <1>1, <1>2, <1>3, <1>4, <1>5 DEF Next

LEMMA Invariant == Spec => []Inv
BY InitInv, StepInv, PTL DEF Spec

-----------------------------------------------------------------------------
(* What the invariant says of the files and of standard output.            *)

\* The last of the outputs begun that went to a file.
LEMMA FileOf ==
  ASSUME NEW m \in Nat, NEW rest, FilesAt(m, rest), NEW p \in DOMAIN file,
         NEW k, k = Max({j \in 1 .. m : Asked[j].to = p})
  PROVE  /\ k \in 1 .. m /\ Asked[k].to = p /\ p # Stdio
         /\ file[p] \in Seq(PieceType)
         /\ Whole(k) = IF k = m THEN file[p] \o rest ELSE file[p]
<1> DEFINE S == {j \in 1 .. m : Asked[j].to = p}
<1>1. S # {} /\ p # Stdio
  BY DEF FilesAt, Begun
<1>2. Max(S) \in S /\ \A i \in S : i <= Max(S)
  <2>1. S \in SUBSET (1 .. m)
    OBVIOUS
  <2> HIDE DEF S
  <2> QED BY <1>1, <2>1, MaxExists
<1>3. k = Max(S)
  OBVIOUS
<1>4. k \in 1 .. m /\ Asked[k].to = p /\ \A i \in 1 .. m : Asked[i].to = p => i <= k
  BY <1>2, <1>3
<1>5. LastOf(k, m)
  BY <1>4 DEF LastOf
<1>6. /\ file[p] \in Seq(PieceType)
      /\ Whole(k) = IF k = m THEN file[p] \o rest ELSE file[p]
  BY <1>1, <1>4, <1>5 DEF FilesAt
<1> QED BY <1>1, <1>4, <1>6

\* What reached standard output is the beginning of what was asked of it.
LEMMA StdoutOf ==
  ASSUME Planned, result \in ResultType, stdout \in Seq(PieceType), buffer \in Seq(PieceType),
         NEW m \in 0 .. Len(Asked), NEW tail \in Seq(PieceType), StdoutAt(m, tail)
  PROVE  /\ IsPrefix(stdout, AllToStdout)
         /\ \A i \in DOMAIN stdout : i \in DOMAIN SoFar(m) /\ stdout[i] = SoFar(m)[i]
<1>1. m \in 0 .. 3
  BY AskedShape
<1>2. PICK t \in Seq(PieceType) : SoFar(m) \o t = AllToStdout
  BY <1>1, SoFarShape
<1>3. PICK u : u = buffer \o tail
  OBVIOUS
<1>4. u \in Seq(PieceType) /\ stdout \o u = SoFar(m)
  <2>1. u \in Seq(PieceType)
    BY <1>3, ConcatProperties
  <2>3. (stdout \o buffer) \o tail = stdout \o u
    BY <1>3, PiecesAssociate, ZenonT(60)
  <2> QED BY <2>1, <2>3 DEF StdoutAt
<1>5. PICK v : v = u \o t
  OBVIOUS
<1>6. v \in Seq(PieceType) /\ stdout \o v = AllToStdout
  <2>1. v \in Seq(PieceType)
    BY <1>2, <1>4, <1>5, ConcatProperties
  <2>2. (stdout \o u) \o t = stdout \o v
    <3>1. t \in Seq(PieceType)
      BY <1>2
    <3>2. u \in Seq(PieceType)
      BY <1>4
    <3>3. (stdout \o u) \o t = stdout \o (u \o t)
      BY <3>1, <3>2, PiecesAssociate, ZenonT(60)
    <3> QED BY ONLY <1>5, <3>3, Zenon
  <2> QED BY <1>2, <1>4, <2>1, <2>2
<1>7. IsPrefix(stdout, AllToStdout)
  <2>1. IsPrefix(stdout, stdout \o v)
    BY <1>6, FirstIsPrefix
  <2> QED BY <1>6, <2>1
<1>8. \A i \in DOMAIN stdout : i \in DOMAIN SoFar(m) /\ stdout[i] = SoFar(m)[i]
  <2>1. \A i \in DOMAIN stdout : i \in DOMAIN (stdout \o u) /\ (stdout \o u)[i] = stdout[i]
    BY <1>4, FirstIsPrefix
  <2> QED BY <1>4, <2>1
<1> QED BY <1>7, <1>8

\* A terminal is asked to take listings only.
LEMMA ListingsOf ==
  ASSUME Planned, result \in ResultType, NEW m \in 0 .. Len(Asked), OnlyListings(m), tty
  PROVE  \A i \in DOMAIN SoFar(m) : SoFar(m)[i].art = "listing"
<1> DEFINE L == Seq(PieceOf("listing"))
<1>1. ASSUME NEW k \in {1, 2, 3}, m >= k
      PROVE  ToStdout(k) \in L
  <2>1. k \in 1 .. m /\ k \in 1 .. Len(Asked)
    BY <1>1, AskedShape
  <2>2. CASE Asked[k].to = Stdio
    <3>1. Asked[k].art = "listing"
      BY <2>1, <2>2 DEF OnlyListings
    <3>2. Whole(k) \in L
      BY <2>1, <3>1, WholeType
    <3> QED BY <3>2, EmptySeq DEF ToStdout
  <2>3. CASE Asked[k].to # Stdio
    BY <2>3, EmptySeq DEF ToStdout
  <2> QED BY <2>2, <2>3
<1> DEFINE a == IF m >= 1 THEN ToStdout(1) ELSE <<>>
           b == IF m >= 2 THEN ToStdout(2) ELSE <<>>
           c == IF m >= 3 THEN ToStdout(3) ELSE <<>>
<1>2. a \in L /\ b \in L /\ c \in L
  BY <1>1, EmptySeq
<1>3. SoFar(m) = (a \o b) \o c
  BY DEF SoFar
<1> HIDE DEF a, b, c
<1>4. SoFar(m) \in L
  BY <1>2, <1>3, ConcatProperties
<1>5. \A i \in DOMAIN SoFar(m) : SoFar(m)[i] \in PieceOf("listing")
  BY <1>4, LenProperties, ElementOfSeq
<1> QED BY <1>5 DEF PieceOf

\* In every state some first outputs have been begun, or nothing was written.
LEMMA SomeBegun ==
  ASSUME Inv
  PROVE  \/ file = <<>> /\ buffer = <<>> /\ stdout \in {<<>>, <<Piece("info", 0)>>}
         \/ /\ Complete /\ code \in {0, 2, 101} /\ doing > 0
            /\ \E m \in 0 .. Len(Asked) : \E rest, tail \in Seq(PieceType) :
                 FilesAt(m, rest) /\ StdoutAt(m, tail) /\ OnlyListings(m)
<1>1. left \in Seq(PieceType) /\ <<>> \in Seq(PieceType) /\ Len(Asked) \in 0 .. 3
  BY EmptySeq, AskedShape DEF Inv, StateType
<1>2. CASE phase \in {"args", "read", "assemble"}
  BY <1>2 DEF Inv, Untouched
<1>3. CASE phase = "open"
  <2>1. Complete /\ code = 0 /\ doing \in 1 .. Len(Asked) + 1 /\ Progress(doing - 1, <<>>)
    BY <1>3 DEF Inv
  <2>2. PICK m : m = doing - 1
    OBVIOUS
  <2>3. m \in 0 .. Len(Asked)
    BY <1>1, <2>1, <2>2
  <2>4. FilesAt(m, <<>>) /\ StdoutAt(m, <<>>) /\ OnlyListings(m)
    <3>1. Progress(m, <<>>)
      BY <2>1, <2>2
    <3> QED BY <3>1 DEF Progress
  <2>5. doing > 0 /\ code \in {0, 2, 101}
    BY <2>1
  <2> QED BY <1>1, <2>1, <2>3, <2>4, <2>5
<1>4. CASE phase = "write"
  <2>1. Complete /\ code = 0 /\ doing \in 1 .. Len(Asked) /\ Progress(doing, left)
    BY <1>4 DEF Inv
  <2>2. PICK m, l, t : m = doing /\ l = left
                       /\ t = IF m >= 1 /\ Asked[m].to = Stdio THEN l ELSE <<>>
    OBVIOUS
  <2>3. m \in 0 .. Len(Asked) /\ l \in Seq(PieceType) /\ t \in Seq(PieceType)
    BY <1>1, <2>1, <2>2
  <2>4. FilesAt(m, l) /\ StdoutAt(m, t) /\ OnlyListings(m)
    <3>1. Progress(m, l)
      BY <2>1, <2>2
    <3> QED BY <2>2, <3>1 DEF Progress
  <2>5. doing > 0 /\ code \in {0, 2, 101}
    BY <2>1
  <2> QED BY <2>1, <2>3, <2>4, <2>5
<1>5. CASE phase \in {"exit", "done"}
  <2>1. Stopped \/ (Complete /\ Written)
    BY <1>5 DEF Inv
  <2>2. ASSUME Written
        PROVE  doing > 0 /\ code \in {0, 2, 101}
    BY <2>2 DEF Written
  <2> QED BY <2>1, <2>2 DEF Stopped, Written, EndsAt
<1> QED BY <1>2, <1>3, <1>4, <1>5 DEF Inv, StateType

-----------------------------------------------------------------------------
(* The properties.                                                         *)

\* The state has its type, for any argument lists; every file that exists was
\* asked for, and standard output is not one of them.
THEOREM TypeCorrect == Spec => []TypeOK
<1>1. ASSUME Inv PROVE TypeOK
  <2>1. ArgsType /\ StateType
    BY <1>1 DEF Inv
  <2>2. \A p \in DOMAIN file : p # Stdio /\ file[p] \in Seq(PieceType)
    <3>1. CASE file = <<>>
      BY <3>1
    <3>2. ASSUME NEW m \in 0 .. Len(Asked), NEW rest, FilesAt(m, rest)
          PROVE  \A p \in DOMAIN file : p # Stdio /\ file[p] \in Seq(PieceType)
      <4>1. m \in Nat
        BY AskedShape
      <4> QED BY <3>2, <4>1, FileOf
    <3> QED BY <1>1, <3>1, <3>2, SomeBegun
  <2>3. /\ cli.lgo.sink \in {AutoFromStem, "explicit", None} /\ cli.lgo_mode \in {None, "full", "compact"}
    BY <2>1 DEF ArgsType, CliType
  <2> QED BY <2>1, <2>2, <2>3 DEF TypeOK, ArgsType, StateType
<1> QED BY <1>1, Invariant, PTL

\* Exit code 0 means that every output is where it was asked for and whole.
THEOREM CleanExitCorrect == Spec => []CleanExit
<1>1. ASSUME Inv PROVE CleanExit
  <2> SUFFICES ASSUME Finished, code = 0, ~ AsksInfo
               PROVE  /\ \A k \in DOMAIN Asked : (Asked[k].to # Stdio /\ FinalTo(k)) =>
                           /\ Asked[k].to \in DOMAIN file
                           /\ file[Asked[k].to] = Whole(k)
                      /\ EndsInBin \/ stdout = AllToStdout
    BY DEF CleanExit
  <2>1. Complete /\ Written /\ StateType
    BY <1>1 DEF Inv, Finished, Stopped
  <2>2. PICK m \in 0 .. Len(Asked), rest \in Seq(PieceType), tail \in Seq(PieceType) :
          EndsAt(m, rest, tail)
    BY <2>1 DEF Written
  <2>3. /\ m = Len(Asked) /\ rest = <<>> /\ FilesAt(m, <<>>) /\ StdoutAt(m, tail)
        /\ EndsInBin \/ (tail = <<>> /\ buffer = <<>>)
    BY <2>2 DEF EndsAt
  <2>4. ASSUME NEW k \in DOMAIN Asked, Asked[k].to # Stdio, FinalTo(k)
        PROVE  Asked[k].to \in DOMAIN file /\ file[Asked[k].to] = Whole(k)
    <3>1. k \in 1 .. m /\ LastOf(k, m) /\ DOMAIN Asked = 1 .. m
      BY <2>3, <2>4, AskedShape DEF LastOf, FinalTo
    <3>2. Asked[k].to \in DOMAIN file
      BY <2>3, <2>4, <3>1 DEF FilesAt, Begun
    <3>3. /\ file[Asked[k].to] \in Seq(PieceType)
          /\ Whole(k) = IF k = m THEN file[Asked[k].to] \o <<>> ELSE file[Asked[k].to]
      BY <2>3, <2>4, <3>1 DEF FilesAt
    <3>4. file[Asked[k].to] \o <<>> = file[Asked[k].to]
      BY <3>3, ConcatEmptySeq
    <3> QED BY <3>2, <3>3, <3>4
  <2>5. EndsInBin \/ stdout = AllToStdout
    <3>1. SUFFICES ASSUME tail = <<>>, buffer = <<>> PROVE stdout = AllToStdout
      BY <2>3
    <3>2. stdout \in Seq(PieceType) /\ result \in ResultType
      BY <2>1 DEF StateType
    <3>3. (stdout \o <<>>) \o <<>> = stdout
      BY <3>2, ConcatEmptySeq
    <3>4. SoFar(m) = AllToStdout
      BY <2>1, <2>3, <3>2, SoFarShape DEF Complete
    <3> QED BY <2>3, <3>1, <3>3, <3>4 DEF StdoutAt
  <2> QED BY <2>4, <2>5
<1> QED BY <1>1, Invariant, PTL

\* Nothing is written for a list that is not acceptable or before an assembly
\* has ended without an error, whichever build it is and whether or not the
\* messages can be written; and an acceptable list is read to its end.
THEOREM NothingCorrect == Spec => []NothingUnlessAcceptable
<1>1. ASSUME Inv PROVE NothingUnlessAcceptable
  <2>1. file # <<>> \/ buffer # <<>> \/ stdout \notin {<<>>, <<Piece("info", 0)>>} =>
          Acceptable /\ doing > 0 /\ code # 1
    BY <1>1, SomeBegun DEF Complete, Planned
  <2>2. Finished /\ Acceptable /\ ~ AsksInfo => next > Len(argv)
    <3>1. ArgsType
      BY <1>1 DEF Inv
    <3> QED BY <1>1, <3>1, ArgvShape DEF Inv, Finished, Stopped, Complete
  <2> QED BY <2>1, <2>2 DEF NothingUnlessAcceptable
<1> QED BY <1>1, Invariant, PTL

\* Wherever the program stops, the outputs before the last one begun are
\* whole and that one holds the beginning of what it should.
THEOREM DamageCorrect == Spec => []DamageContained
<1>1. ASSUME Inv PROVE DamageContained
  <2>1. StateType
    BY <1>1 DEF Inv
  <2>2. CASE file = <<>> /\ stdout \in {<<>>, <<Piece("info", 0)>>}
    BY <2>2 DEF DamageContained
  <2>3. ASSUME Complete, NEW m \in 0 .. Len(Asked), NEW rest \in Seq(PieceType),
               NEW tail \in Seq(PieceType), FilesAt(m, rest), StdoutAt(m, tail)
        PROVE  DamageContained
    <3>1. IsPrefix(stdout, AllToStdout)
      BY <2>1, <2>3, StdoutOf DEF StateType, Complete
    <3>2. ASSUME file # <<>>
          PROVE  m \in DOMAIN Asked /\ m \in Nat
      BY <2>3, <3>2, AskedShape DEF FilesAt
    <3>3. DOMAIN file = {Asked[k].to : k \in 1 .. m} \ {Stdio}
      BY <2>3 DEF FilesAt, Begun
    <3>4. ASSUME NEW p \in DOMAIN file, m \in Nat
          PROVE  LET k == Max({j \in 1 .. m : Asked[j].to = p}) IN
                 /\ IsPrefix(file[p], Whole(k))
                 /\ k < m => file[p] = Whole(k)
      <4>1. PICK k : k = Max({j \in 1 .. m : Asked[j].to = p})
        OBVIOUS
      <4>2. /\ k \in 1 .. m /\ file[p] \in Seq(PieceType)
            /\ Whole(k) = IF k = m THEN file[p] \o rest ELSE file[p]
        BY <2>3, <3>4, <4>1, FileOf
      <4>3. IsPrefix(file[p], file[p] \o rest)
        BY <4>2, FirstIsPrefix
      <4>4. IsPrefix(file[p], file[p])
        <5>1. file[p] \o <<>> = file[p] /\ <<>> \in Seq(PieceType)
          BY <4>2, ConcatEmptySeq, EmptySeq
        <5>2. IsPrefix(file[p], file[p] \o <<>>)
          BY <4>2, <5>1, FirstIsPrefix
        <5> QED BY <5>1, <5>2
      <4>5. IsPrefix(file[p], Whole(k)) /\ (k < m => file[p] = Whole(k))
        BY <3>4, <4>2, <4>3, <4>4
      <4> QED BY <4>1, <4>5
    <3> QED BY <3>1, <3>2, <3>3, <3>4 DEF DamageContained
  <2> QED BY <1>1, <2>2, <2>3, SomeBegun
<1> QED BY <1>1, Invariant, PTL

\* A terminal gets listings and the usage text, nothing else.
THEOREM TerminalCorrect == Spec => []TerminalClean
<1>1. ASSUME Inv PROVE TerminalClean
  <2> SUFFICES ASSUME tty
               PROVE  /\ \A i \in DOMAIN stdout : stdout[i].art \in {"listing", "info"}
                      /\ (Finished /\ code = 0 /\ ~ AsksInfo) =>
                           \A k \in DOMAIN Asked : Asked[k].to = Stdio => Asked[k].art = "listing"
    BY DEF TerminalClean
  <2>1. StateType
    BY <1>1 DEF Inv
  <2>2. \A i \in DOMAIN stdout : stdout[i].art \in {"listing", "info"}
    <3>1. CASE stdout = <<>>
      BY <3>1
    <3>2. CASE stdout = <<Piece("info", 0)>>
      BY <3>2 DEF Piece
    <3>3. ASSUME Complete, NEW m \in 0 .. Len(Asked), NEW tail \in Seq(PieceType),
                 StdoutAt(m, tail), OnlyListings(m)
          PROVE  \A i \in DOMAIN stdout : stdout[i].art \in {"listing", "info"}
      <4>1. \A i \in DOMAIN stdout : i \in DOMAIN SoFar(m) /\ stdout[i] = SoFar(m)[i]
        BY <2>1, <3>3, StdoutOf DEF StateType, Complete
      <4>2. \A i \in DOMAIN SoFar(m) : SoFar(m)[i].art = "listing"
        BY <2>1, <3>3, ListingsOf DEF StateType, Complete
      <4> QED BY <4>1, <4>2
    <3> QED BY <1>1, <3>1, <3>2, <3>3, SomeBegun
  <2>3. ASSUME Finished, code = 0, ~ AsksInfo
        PROVE  \A k \in DOMAIN Asked : Asked[k].to = Stdio => Asked[k].art = "listing"
    <3>1. Written
      BY <1>1, <2>3 DEF Inv, Finished, Stopped
    <3>2. OnlyListings(Len(Asked))
      BY <2>3, <3>1 DEF Written, EndsAt
    <3> QED BY <3>2, AskedShape DEF OnlyListings
  <2> QED BY <2>2, <2>3
<1> QED BY <1>1, Invariant, PTL

=============================================================================
