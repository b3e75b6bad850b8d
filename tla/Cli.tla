--------------------------------- MODULE Cli ---------------------------------
(***************************************************************************)
(* The command line of src/cli/src/main.rs: one call of cor24-asm, from    *)
(* its arguments to its exit code, with the files it creates and what      *)
(* reaches its standard output; and the listing writer of                  *)
(* src/src/listing.rs.                                                     *)
(*                                                                         *)
(* One step takes one option with its value, reads the input, assembles,   *)
(* opens an output or writes one piece of it.  Anything the operating      *)
(* system does for the program may fail instead, once or again: reading,   *)
(* creating, writing, a message on stderr, the flush of stdout when the    *)
(* process ends.  A panic ends the process with exit code 101.             *)
(*                                                                         *)
(* An output is a sequence of pieces: the records of a .lgo, the blocks of *)
(* a .bin, the lines of a listing.  Rust's stdout is line buffered: what   *)
(* is written after the last newline waits in `buffer`.                    *)
(***************************************************************************)
EXTENDS Integers, Sequences, SequencesExt

CONSTANTS
  Argvs,          \* argument lists, of strings
  LgoOf,          \* the file arguments, each with its extension replaced by lgo
  AddressOf,      \* what parse_numeric_addr makes of those it accepts
  Results,        \* of assemblies without errors: which blocks are zero, the lines
  BYTES_PER_LINE, \* in a block of the .lgo
  AddrMod         \* 2^32: addresses are u32

\* An argument that begins with a dash is an option or standard input, never a
\* file, and no path is the value that stands for an Option not set.
ASSUME CliAssumption ==
  /\ Argvs \subseteq Seq(STRING)
  /\ \A a \in Argvs : \A i \in DOMAIN a : a[i] # "none"
  /\ DOMAIN LgoOf \subseteq STRING
  /\ \A x \in DOMAIN LgoOf : LgoOf[x] \in STRING
  /\ DOMAIN LgoOf \cap {"-h", "--help", "-V", "--version", "-o", "--bin", "--listing",
                        "--lgo-full", "--lgo-compact", "--base-addr", "-", "none"} = {}
  /\ BYTES_PER_LINE \in Nat \ {0} /\ AddrMod \in Nat
  /\ \A x \in DOMAIN AddressOf : AddressOf[x] \in 0 .. AddrMod - 1
  /\ Results \subseteq [zero : Seq(BOOLEAN), lines : Seq(STRING)]

VARIABLES
  argv,
  tty,            \* stdout is a terminal
  next,           \* the argument the loop takes next
  cli,            \* struct Cli
  phase,          \* what run() is doing
  result,         \* the AssemblyResult
  doing,          \* the output being written, an index into Plan
  left,           \* the pieces of it that are still to be written
  file,           \* the files touched, and what they hold
  stdout,         \* what has reached standard output
  buffer,         \* what waits in it
  code            \* the exit code

vars == <<argv, tty, next, cli, phase, result, doing, left, file, stdout, buffer, code>>

-----------------------------------------------------------------------------
(* Values.                                                                 *)

AutoFromStem == "auto"       \* LgoSink::AutoFromStem
None         == "none"       \* LgoSink::None, and an Option that is not set
Stdio        == "-"

NewCli ==
  [input |-> None, lgo |-> [sink |-> AutoFromStem, path |-> None], lgo_mode |-> None,
   bin |-> None, listing |-> None, base_addr |-> 0]

NoResult == [zero |-> <<>>, lines |-> <<>>]

Piece(art, i) == [art |-> art, item |-> i, base |-> 0]

\* The indices a loop with a `continue` gets to, in order.
Kept(keep) ==
  LET kept[n \in 0 .. Len(keep)] ==
        IF n = 0 THEN <<>> ELSE IF keep[n] THEN Append(kept[n - 1], n) ELSE kept[n - 1]
  IN  kept[Len(keep)]

\* lgo::write without an entry: a record for each block, compact or full.
LgoPieces(res, mode, base) ==
  LET kept == Kept([i \in DOMAIN res.zero |-> ~ (mode = "compact" /\ res.zero[i])])
  IN  [k \in DOMAIN kept |-> [Piece("lgo", kept[k]) EXCEPT !.base = base]]

BinPieces(res) == [i \in DOMAIN res.zero |-> Piece("bin", i)]

\* listing::write: a line that has bytes or source text.
ListingPieces(res) ==
  LET printed == Kept([i \in DOMAIN res.lines |-> res.lines[i] # "blank"])
  IN  [k \in DOMAIN printed |-> Piece("listing", printed[k])]

Pieces(res, art, mode, base) ==
  CASE art = "lgo"     -> LgoPieces(res, mode, base)
    [] art = "bin"     -> BinPieces(res)
    [] art = "listing" -> ListingPieces(res)

-----------------------------------------------------------------------------
(* Exits.                                                                  *)

Exit(n) == phase' = "exit" /\ code' = n

\* eprintln! panics when stderr cannot take the message.
ExitAfterMessage(n) == phase' = "exit" /\ code' \in {n, 101}

\* Err(e) reaches main.
Err == ExitAfterMessage(2)

-----------------------------------------------------------------------------
(* The argument loop of run().                                             *)

Init ==
  /\ argv \in Argvs /\ tty \in BOOLEAN
  /\ next = 1 /\ cli = NewCli /\ phase = "args"
  /\ result = NoResult /\ doing = 0 /\ left = <<>>
  /\ file = <<>> /\ stdout = <<>> /\ buffer = <<>> /\ code = 0

outside == <<file, stdout, buffer>>

Looping == phase = "args" /\ next <= Len(argv)
Arg     == argv[next]
HasValue == next < Len(argv)
Value    == argv[next + 1]

Took(n, new) ==
  /\ cli' = new /\ next' = next + n
  /\ UNCHANGED <<argv, tty, phase, result, doing, left, outside, code>>

Refuse ==
  /\ Err
  /\ UNCHANGED <<argv, tty, next, cli, result, doing, left, outside>>

\* println! of the usage or the version; it panics when stdout cannot take it.
Info ==
  /\ Looping
  /\ Arg \in {"-h", "--help", "-V", "--version"}
  /\ \/ Exit(0) /\ stdout' = Append(stdout, Piece("info", 0))
     \/ Exit(101) /\ UNCHANGED stdout
  /\ UNCHANGED <<argv, tty, next, cli, result, doing, left, file, buffer>>

TakesPath == {"-o", "--bin", "--listing"}

\* Seeded fault: an argument is lost after --bin.
PathOptionShort ==
  /\ Looping /\ HasValue
  /\ \/ Arg = "-o"        /\ Took(2, [cli EXCEPT !.lgo = [sink |-> "explicit", path |-> Value]])
     \/ Arg = "--bin"     /\ Took(3, [cli EXCEPT !.bin = Value])
     \/ Arg = "--listing" /\ Took(2, [cli EXCEPT !.listing = Value])

\* The value is the next argument, whatever it looks like.
PathOption ==
  /\ Looping /\ HasValue
  /\ \/ Arg = "-o"        /\ Took(2, [cli EXCEPT !.lgo = [sink |-> "explicit", path |-> Value]])
     \/ Arg = "--bin"     /\ Took(2, [cli EXCEPT !.bin = Value])
     \/ Arg = "--listing" /\ Took(2, [cli EXCEPT !.listing = Value])

MissingValue ==
  /\ Looping /\ ~ HasValue
  /\ Arg \in TakesPath \cup {"--base-addr"}
  /\ Refuse

ModeOf == [x \in {"--lgo-full", "--lgo-compact"} |-> IF x = "--lgo-full" THEN "full" ELSE "compact"]

ModeOption ==
  /\ Looping
  /\ Arg \in DOMAIN ModeOf
  /\ cli.lgo_mode \in {None, ModeOf[Arg]}
  /\ Took(1, [cli EXCEPT !.lgo_mode = ModeOf[Arg]])

ModeConflict ==
  /\ Looping
  /\ Arg \in DOMAIN ModeOf
  /\ cli.lgo_mode \notin {None, ModeOf[Arg]}
  /\ Refuse

BaseAddr ==
  /\ Looping /\ HasValue
  /\ Arg = "--base-addr" /\ Value \in DOMAIN AddressOf
  /\ Took(2, [cli EXCEPT !.base_addr = AddressOf[Value]])

BaseAddrInvalid ==
  /\ Looping /\ HasValue
  /\ Arg = "--base-addr" /\ Value \notin DOMAIN AddressOf
  /\ Refuse

IsInput(x) == x = Stdio \/ x \in DOMAIN LgoOf

Input ==
  /\ Looping
  /\ IsInput(Arg) /\ cli.input = None
  /\ Took(1, [cli EXCEPT !.input = Arg])

\* Seeded fault: the second input replaces the first.
SecondInputWins ==
  /\ Looping
  /\ IsInput(Arg) /\ cli.input # None
  /\ Took(1, [cli EXCEPT !.input = Arg])

SecondInput ==
  /\ Looping
  /\ IsInput(Arg) /\ cli.input # None
  /\ Refuse

UnknownOption ==
  /\ Looping
  /\ Arg \notin {"-h", "--help", "-V", "--version", "--base-addr"} \cup TakesPath \cup DOMAIN ModeOf
  /\ ~ IsInput(Arg)
  /\ Refuse

Arguments ==
  \/ Info \/ PathOption \/ MissingValue \/ ModeOption \/ ModeConflict
  \/ BaseAddr \/ BaseAddrInvalid \/ Input \/ SecondInput \/ UnknownOption

NoInput ==
  /\ phase = "args" /\ next > Len(argv)
  /\ cli.input = None
  /\ Refuse

\* --bin without -o suppresses the default .lgo.
EndOfArgs ==
  /\ phase = "args" /\ next > Len(argv)
  /\ cli.input # None
  /\ cli' = IF cli.bin # None /\ cli.lgo.sink = AutoFromStem
            THEN [cli EXCEPT !.lgo.sink = None] ELSE cli
  /\ phase' = "read"
  /\ UNCHANGED <<argv, tty, next, result, doing, left, outside, code>>

-----------------------------------------------------------------------------
(* read_input and the assembly.                                            *)

ReadInput ==
  /\ phase = "read"
  /\ phase' = "assemble"
  /\ UNCHANGED <<argv, tty, next, cli, result, doing, left, outside, code>>

ReadFails ==
  /\ phase = "read"
  /\ Err
  /\ UNCHANGED <<argv, tty, next, cli, result, doing, left, outside>>

\* The errors go to stderr, one to a line.
Errors ==
  /\ phase = "assemble"
  /\ ExitAfterMessage(1)
  /\ UNCHANGED <<argv, tty, next, cli, result, doing, left, outside>>

\* A build with overflow checks panics where a u32 overflows.
AssemblerPanics ==
  /\ phase = "assemble"
  /\ Exit(101)
  /\ UNCHANGED <<argv, tty, next, cli, result, doing, left, outside>>

Assembled ==
  /\ phase = "assemble"
  /\ result' \in Results
  /\ phase' = "open" /\ doing' = 1
  /\ UNCHANGED <<argv, tty, next, cli, left, outside, code>>

-----------------------------------------------------------------------------
(* write_outputs, then write_optional_extras.                              *)

Output(art, to) == <<[art |-> art, to |-> to]>>

DefaultLgo == IF cli.input = Stdio THEN Stdio ELSE LgoOf[cli.input]

\* The outputs in the order of the code.
Plan ==
  (CASE cli.lgo.sink = AutoFromStem -> Output("lgo", DefaultLgo)
     [] cli.lgo.sink = "explicit"   -> Output("lgo", cli.lgo.path)
     [] cli.lgo.sink = None         -> <<>>)
  \o (IF cli.bin # None THEN Output("bin", cli.bin) ELSE <<>>)
  \o (IF cli.listing # None THEN Output("listing", cli.listing) ELSE <<>>)

Now == Plan[doing]
Mode == IF cli.lgo_mode = None THEN "full" ELSE cli.lgo_mode
AllPieces == Pieces(result, Now.art, Mode, cli.base_addr)

Opening == phase = "open" /\ doing <= Len(Plan)

\* Seeded fault: a listing may go to a terminal and a .bin too.
RefusedOnlyLgo == Now.to = Stdio /\ tty /\ Now.art = "lgo"

\* refuse_tty, for all but a listing.
Refused == Now.to = Stdio /\ tty /\ Now.art # "listing"

RefuseTty ==
  /\ Opening /\ Refused
  /\ Err
  /\ UNCHANGED <<argv, tty, next, cli, result, doing, left, outside>>

Put(p, pieces) ==
  file' = [x \in DOMAIN file \cup {p} |-> IF x = p THEN pieces ELSE file[x]]

\* Seeded fault: a file is extended.
CreateAppends ==
  /\ Opening /\ Now.to # Stdio
  /\ Put(Now.to, IF Now.to \in DOMAIN file THEN file[Now.to] ELSE <<>>)
  /\ left' = AllPieces
  /\ phase' = "write"
  /\ UNCHANGED <<argv, tty, next, cli, result, doing, stdout, buffer, code>>

\* File::create empties the file.
Create ==
  /\ Opening /\ Now.to # Stdio
  /\ Put(Now.to, <<>>)
  /\ left' = AllPieces
  /\ phase' = "write"
  /\ UNCHANGED <<argv, tty, next, cli, result, doing, stdout, buffer, code>>

CreateFails ==
  /\ Opening /\ Now.to # Stdio
  /\ Err
  /\ UNCHANGED <<argv, tty, next, cli, result, doing, left, outside>>

OpenStdout ==
  /\ Opening /\ Now.to = Stdio /\ ~ Refused
  /\ left' = AllPieces
  /\ phase' = "write"
  /\ UNCHANGED <<argv, tty, next, cli, result, doing, outside, code>>

Writing == phase = "write" /\ left # <<>>

WriteFile ==
  /\ Writing /\ Now.to # Stdio
  /\ Put(Now.to, Append(file[Now.to], Head(left)))
  /\ left' = Tail(left)
  /\ UNCHANGED <<argv, tty, next, cli, phase, result, doing, stdout, buffer, code>>

\* Seeded fault: an error while writing is not passed on.
WriteFailsSilent ==
  /\ Writing /\ Now.to # Stdio
  /\ phase' = "open" /\ doing' = doing + 1 /\ left' = <<>>
  /\ UNCHANGED <<argv, tty, next, cli, result, outside, code>>

\* What was written before stays in the file; a part of the piece it stops in
\* counts as none of it.
WriteFails ==
  /\ Writing /\ Now.to # Stdio
  /\ Err
  /\ UNCHANGED <<argv, tty, next, cli, result, doing, left, outside>>

\* A piece that ends in a newline takes what waits with it; when that fails
\* it all stays in the buffer.
WriteLine ==
  /\ Writing /\ Now.to = Stdio /\ Now.art # "bin"
  /\ stdout' = Append(stdout \o buffer, Head(left))
  /\ buffer' = <<>>
  /\ left' = Tail(left)
  /\ UNCHANGED <<argv, tty, next, cli, phase, result, doing, file, code>>

WriteLineFails ==
  /\ Writing /\ Now.to = Stdio /\ Now.art # "bin"
  /\ buffer' = Append(buffer, Head(left))
  /\ Err
  /\ UNCHANGED <<argv, tty, next, cli, result, doing, left, file, stdout>>

\* write_all of a .bin: up to its last newline byte, wherever that is, it is
\* written; the rest waits.
WriteBin ==
  /\ Writing /\ Now.to = Stdio /\ Now.art = "bin"
  /\ \E n \in 0 .. Len(left) :
       /\ stdout' = stdout \o SubSeq(left, 1, n)
       /\ buffer' = SubSeq(left, n + 1, Len(left))
  /\ left' = <<>>
  /\ UNCHANGED <<argv, tty, next, cli, phase, result, doing, file, code>>

WriteBinFails ==
  /\ Writing /\ Now.to = Stdio /\ Now.art = "bin"
  /\ \E n \in 0 .. Len(left) - 1 : stdout' = stdout \o SubSeq(left, 1, n)
  /\ Err
  /\ UNCHANGED <<argv, tty, next, cli, result, doing, left, file, buffer>>

\* The address of a record, base_addr + the offset of its block, is computed
\* after the output was opened: a build with overflow checks panics on it.
AddressOverflows ==
  /\ Writing /\ Now.art = "lgo"
  /\ Head(left).base + BYTES_PER_LINE * (Head(left).item - 1) >= AddrMod
  /\ Exit(101)
  /\ UNCHANGED <<argv, tty, next, cli, result, doing, left, outside>>

NextOutput ==
  /\ phase = "write" /\ left = <<>>
  /\ phase' = "open" /\ doing' = doing + 1
  /\ UNCHANGED <<argv, tty, next, cli, result, left, outside, code>>

Success ==
  /\ phase = "open" /\ doing > Len(Plan)
  /\ Exit(0)
  /\ UNCHANGED <<argv, tty, next, cli, result, doing, left, outside>>

\* The runtime flushes stdout after main has returned and ignores failure.
Flush ==
  /\ phase = "exit"
  /\ phase' = "done"
  /\ buffer' = <<>>
  /\ stdout' \in {stdout, stdout \o buffer}
  /\ UNCHANGED <<argv, tty, next, cli, result, doing, left, file, code>>

WriteOutputs ==
  \/ RefuseTty \/ Create \/ CreateFails \/ OpenStdout
  \/ WriteFile \/ WriteFails \/ WriteLine \/ WriteLineFails \/ WriteBin \/ WriteBinFails
  \/ AddressOverflows \/ NextOutput \/ Success

Next ==
  \/ Arguments \/ NoInput \/ EndOfArgs
  \/ ReadInput \/ ReadFails \/ Errors \/ AssemblerPanics \/ Assembled
  \/ WriteOutputs
  \/ Flush

Spec == Init /\ [][Next]_vars

-----------------------------------------------------------------------------
(* What the arguments ask for, read off the usage text: an option's value  *)
(* is the argument after it, the last of a kind counts, -o names the .lgo, *)
(* --bin alone means no .lgo, and without either it is <stem>.lgo next to  *)
(* the input, or standard output for standard input.                       *)

\* Argument i is the value of the option before it.
IsValue[i \in 0 .. Len(argv)] ==
  i > 1 /\ argv[i - 1] \in TakesPath \cup {"--base-addr"} /\ ~ IsValue[i - 1]

Options(S) == {i \in DOMAIN argv : argv[i] \in S /\ ~ IsValue[i]}

ValueOf(option) == argv[Max(Options({option})) + 1]

InputAsked == argv[CHOOSE i \in DOMAIN argv : IsInput(argv[i]) /\ ~ IsValue[i]]

AskedLgo ==
  CASE Options({"-o"}) # {}    -> Output("lgo", ValueOf("-o"))
    [] Options({"-o"}) = {} /\ Options({"--bin"}) # {} -> <<>>
    [] OTHER -> Output("lgo", IF InputAsked = Stdio THEN Stdio ELSE LgoOf[InputAsked])

Asked ==
  AskedLgo
    \o (IF Options({"--bin"}) # {} THEN Output("bin", ValueOf("--bin")) ELSE <<>>)
    \o (IF Options({"--listing"}) # {} THEN Output("listing", ValueOf("--listing")) ELSE <<>>)

\* The whole of the k-th output asked for.
Whole(k) ==
  Pieces(result, Asked[k].art,
         IF Options({"--lgo-compact"}) # {} THEN "compact" ELSE "full",
         IF Options({"--base-addr"}) # {} THEN AddressOf[ValueOf("--base-addr")] ELSE 0)

AsksInfo == Options({"-h", "--help", "-V", "--version"}) # {}

Acceptable ==
  /\ Cardinality({i \in DOMAIN argv : IsInput(argv[i]) /\ ~ IsValue[i]}) = 1
  /\ \A i \in DOMAIN argv : ~ IsValue[i] =>
       \/ IsInput(argv[i]) \/ argv[i] \in DOMAIN ModeOf
       \/ argv[i] \in TakesPath /\ i < Len(argv)
       \/ argv[i] = "--base-addr" /\ i < Len(argv) /\ argv[i + 1] \in DOMAIN AddressOf
  /\ Options({"--lgo-full"}) = {} \/ Options({"--lgo-compact"}) = {}

\* Output k is the last to go to its file.
FinalTo(k) == \A j \in DOMAIN Asked : j > k => Asked[j].to # Asked[k].to

-----------------------------------------------------------------------------
(* Properties.                                                             *)

PieceType == [art : {"lgo", "bin", "listing", "info"}, item : Nat, base : Nat]

\* Types of the state.
TypeOK ==
  /\ phase \in {"args", "read", "assemble", "open", "write", "exit", "done"}
  /\ next \in 1 .. Len(argv) + 1
  /\ cli.input \in {None, Stdio} \cup DOMAIN LgoOf
  /\ cli.lgo.sink \in {AutoFromStem, "explicit", None}
  /\ cli.lgo_mode \in {None, "full", "compact"}
  /\ doing \in 0 .. 4
  /\ left \in Seq(PieceType)
  /\ \A p \in DOMAIN file : p # Stdio /\ file[p] \in Seq(PieceType)
  /\ stdout \in Seq(PieceType) /\ buffer \in Seq(PieceType)
  /\ code \in {0, 1, 2, 101}

Finished == phase = "done"

\* The bytes after the last newline of a .bin are the last thing written.
EndsInBin ==
  \E k \in DOMAIN Asked :
    /\ Asked[k].art = "bin" /\ Asked[k].to = Stdio
    /\ \A j \in DOMAIN Asked : j > k /\ Asked[j].to = Stdio => Whole(j) = <<>>

\* All that was asked of standard output, in order.
ToStdout(k) == IF k \in DOMAIN Asked /\ Asked[k].to = Stdio THEN Whole(k) ELSE <<>>
AllToStdout == ToStdout(1) \o ToStdout(2) \o ToStdout(3)

\* Exit code 0 without a request for help: every artifact the arguments ask
\* for is where they ask for it, whole, at the base and in the mode they ask
\* for, unless a later one was sent to the same file.  No failure on the way
\* is swallowed, whichever of the outputs it hits; a .bin at the end of
\* standard output is the exception, see CleanMeansWritten.
CleanExit ==
  (Finished /\ code = 0 /\ ~ AsksInfo) =>
    /\ \A k \in DOMAIN Asked :
         (Asked[k].to # Stdio /\ FinalTo(k)) =>
           /\ Asked[k].to \in DOMAIN file
           /\ file[Asked[k].to] = Whole(k)
    /\ EndsInBin \/ stdout = AllToStdout

\* Nothing is written unless the whole argument list is acceptable, also what
\* follows the input, and an assembly has ended without an error: until then
\* the files of an earlier call survive, also when a message cannot be
\* written.  And no acceptable list is refused.
NothingUnlessAcceptable ==
  /\ file # <<>> \/ buffer # <<>> \/ stdout \notin {<<>>, <<Piece("info", 0)>>} =>
       Acceptable /\ doing > 0 /\ code # 1
  /\ Finished /\ Acceptable /\ ~ AsksInfo => next > Len(argv)

\* Whatever stops the program, of the outputs asked for some first ones were
\* begun; of those all but the last one begun are whole, and that one holds a
\* prefix of what it should.  Standard output has its pieces in that order
\* too, though a part of them waits in a buffer while files are written.
DamageContained ==
  /\ file # <<>> =>
       \E m \in DOMAIN Asked :
         LET begun     == {Asked[k].to : k \in 1 .. m} \ {Stdio}
             LastTo(p) == Max({k \in 1 .. m : Asked[k].to = p})
         IN  /\ DOMAIN file = begun
             /\ \A p \in begun :
                  /\ IsPrefix(file[p], Whole(LastTo(p)))
                  /\ LastTo(p) < m => file[p] = Whole(LastTo(p))
  /\ stdout \in {<<>>, <<Piece("info", 0)>>} \/ IsPrefix(stdout, AllToStdout)

\* A terminal never gets machine code or load records, not by the flush of a
\* buffer either, and a call that asks for it does not end with exit code 0.
TerminalClean ==
  tty =>
    /\ \A i \in DOMAIN stdout : stdout[i].art \in {"listing", "info"}
    /\ (Finished /\ code = 0 /\ ~ AsksInfo) =>
         \A k \in DOMAIN Asked : Asked[k].to = Stdio => Asked[k].art = "listing"

-----------------------------------------------------------------------------
(* What the usage text says and the program does not do.                   *)

\* main.rs:40: exit code 0 is a clean assembly, 2 is for IO errors.  What of
\* a .bin waits in the buffer of stdout is written after the exit code has
\* been chosen, and its failure is not seen.
CleanMeansWritten ==
  (Finished /\ code = 0 /\ ~ AsksInfo) => stdout = AllToStdout
=============================================================================
