---------------------------------- MODULE Lgo ----------------------------------
(***************************************************************************)
(* The load-and-go file between the assembler and a machine: write of      *)
(* src/src/lgo.rs, record by record, and the loader that reads the file    *)
(* back, cor24_emulator::loader, as the tests of lgo.rs use it.            *)
(*                                                                         *)
(* A machine is loaded again and again without being cleared: what it held *)
(* before matters to a file that leaves out the blocks of zeros.  A write  *)
(* to the sink may fail at any byte and ends the file there.               *)
(*                                                                         *)
(* Hex digits are not modelled: a record is its address and its bytes, or  *)
(* the entry address, or torn: its address, its entry or one of its bytes  *)
(* lacks digits.  The end of a line is not part of the record before it.   *)
(***************************************************************************)
EXTENDS Integers, Sequences

CONSTANTS
  BYTES_PER_LINE,   \* data bytes of a record
  Limit,            \* number of addresses six hex digits can name
  AddrMod,          \* number of values of a u32
  Value,            \* byte values
  Images,           \* the byte sequences written
  Bases,            \* base addresses
  Entry             \* entry addresses

ASSUME LgoAssumption ==
  /\ BYTES_PER_LINE \in Nat \ {0}
  /\ Limit \in Nat \ {0} /\ AddrMod \in Nat /\ Limit <= AddrMod
  /\ 0 \in Value /\ Images \subseteq Seq(Value)
  /\ \A bs \in Images : Len(bs) <= AddrMod
  /\ Bases \subseteq 0 .. AddrMod - 1 /\ Entry \subseteq 0 .. AddrMod - 1

VARIABLES
  phase,                         \* "idle", "writing", "closed", "loading", "loaded", "garbled"
  bytes, base_addr, entry, mode, \* the arguments of write
  chunk_idx, file, result,       \* its loop, what reached the sink, what it returned
  next, start_addr,              \* the loader's next record, the entry it found
  memory, before                 \* the machine's memory, and as it was before this load

args   == <<bytes, base_addr, entry, mode>>
writer == <<args, chunk_idx, file, result>>
loader == <<next, start_addr, memory, before>>
vars   == <<phase, writer, loader>>

Address == 0 .. Limit - 1
NoEntry == -1

Data(addr, bs) == [addr |-> addr, data |-> bs]
Go(addr)       == [go |-> addr]
Torn           == [torn |-> TRUE]
IsData(record) == "addr" \in DOMAIN record
IsGo(record)   == "go" \in DOMAIN record

Init ==
  /\ phase = "idle"
  /\ bytes = <<>> /\ base_addr = 0 /\ entry = NoEntry /\ mode = "Full"
  /\ chunk_idx = 0 /\ file = <<>> /\ result = "Ok"
  /\ next = 1 /\ start_addr = NoEntry
  /\ memory = [a \in Address |-> 0] /\ before = [a \in Address |-> 0]

-----------------------------------------------------------------------------
(* The writer.                                                             *)

\* The file is created, and so emptied, before write is called.  Nothing of
\* an earlier load lasts but the memory.
Write(bs, base, e, md) ==
  /\ phase \in {"idle", "loaded", "garbled"}
  /\ phase' = "writing"
  /\ bytes' = bs /\ base_addr' = base /\ entry' = e /\ mode' = md
  /\ chunk_idx' = 0 /\ file' = <<>> /\ result' = "Ok"
  /\ next' = 1 /\ start_addr' = NoEntry /\ before' = memory
  /\ UNCHANGED memory

Done(i)    == i * BYTES_PER_LINE >= Len(bytes)

\* Seeded fault: a chunk takes in the byte at which the next one begins.
ChunkEndInclusive ==
  IF Done(chunk_idx + 1) THEN Len(bytes) ELSE (chunk_idx + 1) * BYTES_PER_LINE + 1

ChunkEnd   == IF Done(chunk_idx + 1) THEN Len(bytes) ELSE (chunk_idx + 1) * BYTES_PER_LINE
Chunk      == SubSeq(bytes, chunk_idx * BYTES_PER_LINE + 1, ChunkEnd)
AllZero(bs) == \A i \in DOMAIN bs : bs[i] = 0

\* The sum as it is, and as a u32: a release build wraps, see Overflow.
Sum        == base_addr + chunk_idx * BYTES_PER_LINE
Addr       == Sum % AddrMod

Writing == phase = "writing" /\ ~ Done(chunk_idx)

\* Seeded fault: a block is skipped when its first byte is zero.
SkippedByFirst == mode = "Compact" /\ Chunk[1] = 0

Skipped == mode = "Compact" /\ AllZero(Chunk)

Skip ==
  /\ Writing /\ Skipped
  /\ chunk_idx' = chunk_idx + 1
  /\ UNCHANGED <<phase, args, file, result, loader>>

Emit ==
  /\ Writing /\ ~ Skipped
  /\ file' = Append(file, Data(Addr, Chunk))
  /\ chunk_idx' = chunk_idx + 1
  /\ UNCHANGED <<phase, args, result, loader>>

Finish ==
  /\ phase = "writing" /\ Done(chunk_idx)
  /\ file' = IF entry = NoEntry THEN file ELSE Append(file, Go(entry))
  /\ phase' = "closed"
  /\ UNCHANGED <<args, chunk_idx, result, loader>>

\* In a checked build a record's address beyond a u32 panics before it is
\* written.
Overflow ==
  /\ Writing /\ ~ Skipped /\ Sum >= AddrMod
  /\ phase' = "closed" /\ result' = "Panic"
  /\ UNCHANGED <<args, chunk_idx, file, loader>>

\* Seeded fault: an error of the sink is kept for the end of the loop.
FailGoesOn(n) ==
  /\ Writing /\ ~ Skipped /\ n <= Len(Chunk)
  /\ file' = Append(file, Data(Addr, SubSeq(Chunk, 1, n)))
  /\ chunk_idx' = chunk_idx + 1 /\ result' = "Err"
  /\ UNCHANGED <<phase, args, loader>>

\* What a failing write may leave: nothing of its record, a torn one, or r.
Cut(r) == {file, Append(file, Torn), Append(file, r)}

\* The sink fails in the record under way, which has n bytes by then, or in
\* the entry; it may be only the end of the line that is missing.  `?`
\* returns the error and the file stays as it is.
Fail(n) ==
  /\ phase = "writing"
  /\ \/ /\ Writing /\ ~ Skipped /\ n <= Len(Chunk)
        /\ file' \in Cut(Data(Addr, SubSeq(Chunk, 1, n)))
     \/ /\ Done(chunk_idx) /\ entry # NoEntry /\ n = 0
        /\ file' \in Cut(Go(entry))
  /\ phase' = "closed" /\ result' = "Err"
  /\ UNCHANGED <<args, chunk_idx, loader>>

-----------------------------------------------------------------------------
(* The loader.                                                             *)

Load ==
  /\ phase = "closed"
  /\ phase' = "loading"
  /\ UNCHANGED <<writer, loader>>

Loading == phase = "loading" /\ next <= Len(file)
Record  == file[next]

\* Bytes go to 24-bit addresses, and what no record names is not touched.
LoadData ==
  /\ Loading /\ IsData(Record) /\ Record.addr < Limit
  /\ memory' = [a \in Address |->
       LET i == ((a - Record.addr) % Limit) + 1
       IN  IF i \in DOMAIN Record.data THEN Record.data[i] ELSE memory[a]]
  /\ next' = next + 1
  /\ UNCHANGED <<phase, writer, start_addr, before>>

LoadGo ==
  /\ Loading /\ IsGo(Record) /\ Record.go < Limit
  /\ start_addr' = Record.go
  /\ next' = next + 1
  /\ UNCHANGED <<phase, writer, memory, before>>

\* An address of seven digits shifts all that follows it, and a torn record
\* is whatever the loader makes of it: no claim is made.
LoadGarbled ==
  /\ Loading
  /\ \/ IsData(Record) /\ Record.addr >= Limit
     \/ IsGo(Record) /\ Record.go >= Limit
     \/ Record = Torn
  /\ phase' = "garbled"
  /\ UNCHANGED <<writer, loader>>

Loaded ==
  /\ phase = "loading" /\ next > Len(file)
  /\ phase' = "loaded"
  /\ UNCHANGED <<writer, loader>>

Next ==
  \/ \E bs \in Images, base \in Bases, e \in Entry \cup {NoEntry}, md \in {"Full", "Compact"} :
       Write(bs, base, e, md)
  \/ Skip \/ Emit \/ Finish \/ Overflow
  \/ \E n \in 0 .. BYTES_PER_LINE : Fail(n)
  \/ Load \/ LoadData \/ LoadGo \/ LoadGarbled \/ Loaded

Spec == Init /\ [][Next]_vars

-----------------------------------------------------------------------------
(* Properties.                                                             *)

\* Types of the state: a record has at most BYTES_PER_LINE bytes.
TypeOK ==
  /\ bytes \in Images \cup {<<>>} /\ base_addr \in Bases \cup {0}
  /\ chunk_idx \in Nat /\ next \in 1 .. Len(file) + 1
  /\ memory \in [Address -> Value] /\ before \in [Address -> Value]
  /\ start_addr \in Address \cup {NoEntry}
  /\ \A k \in DOMAIN file : IsData(file[k]) =>
       file[k].addr \in 0 .. AddrMod - 1 /\ Len(file[k].data) <= BYTES_PER_LINE

InImage(a) == a - base_addr + 1 \in DOMAIN bytes
ImageAt(a) == bytes[a - base_addr + 1]
Fits       == base_addr + Len(bytes) <= Limit

Cleared == \A a \in Address : InImage(a) => before[a] = 0

\* A file written to its end loads the image and its entry, and touches
\* nothing else: a full one into any memory, a compact one ("NOT safe on
\* warm reload") into memory that is zero where the image goes.
LoadsImage ==
  (phase = "loaded" /\ result = "Ok" /\ Fits /\ (mode = "Compact" => Cleared)) =>
    /\ \A a \in Address : memory[a] = IF InImage(a) THEN ImageAt(a) ELSE before[a]
    /\ start_addr = entry

\* What is left of a file whose write failed loads nothing that is not the
\* image's, and starts a program only if all of it is there: an entry that
\* lacks nothing but the end of its line comes after every other record.
FailedLoadsNoMore ==
  (phase = "loaded" /\ result # "Ok" /\ Fits) =>
    /\ \A a \in Address : memory[a] = before[a] \/ (InImage(a) /\ memory[a] = ImageAt(a))
    /\ start_addr # NoEntry =>
         /\ start_addr = entry
         /\ (mode = "Compact" => Cleared) =>
              \A a \in Address : InImage(a) => memory[a] = ImageAt(a)

\* "L<AAAAAA><HH>... load hex bytes at the given 24-bit address" (lgo.rs:6):
\* every record's address has six digits.
SixDigits ==
  \A i \in DOMAIN file : IsData(file[i]) => file[i].addr < Limit
=============================================================================
