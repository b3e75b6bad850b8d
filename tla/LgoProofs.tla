------------------------------ MODULE LgoProofs ------------------------------
(***************************************************************************)
(* Proofs about Lgo, for every image, base, entry, record size and address *)
(* space: what a complete file loads and what a cut one does not.          *)
(*                                                                         *)
(* The invariant says four things.  Every record in the file is truthful:  *)
(* its bytes are the image's at its address.  The records written so far   *)
(* cover the chunks the writer has passed, but for the zero blocks of a    *)
(* compact file.  A file with an entry is covered whole, however its write *)
(* ended.  The memory being loaded holds the image where a record read so  *)
(* far covers it, and what it held before everywhere else.                 *)
(***************************************************************************)
EXTENDS Lgo, SequenceTheorems, TLAPS

-----------------------------------------------------------------------------
(* The invariant.                                                          *)

DataRecord == [addr : Nat, data : Seq(Value)]
GoRecord   == [go : Nat]
FileRecord == DataRecord \cup GoRecord \cup {Torn}

Typing ==
  /\ phase \in {"idle", "writing", "closed", "loading", "loaded", "garbled"}
  /\ bytes \in Seq(Value) /\ base_addr \in Nat
  /\ entry \in Nat \cup {NoEntry} /\ mode \in {"Full", "Compact"}
  /\ chunk_idx \in Nat /\ file \in Seq(FileRecord) /\ result \in {"Ok", "Err", "Panic"}
  /\ next \in Nat \ {0}

\* The record's bytes are the image's.
Truthful(r) ==
  /\ r.addr >= base_addr
  /\ \A i \in 1 .. Len(r.data) :
       /\ r.addr - base_addr + i \in 1 .. Len(bytes)
       /\ r.data[i] = bytes[r.addr - base_addr + i]

RecordsOK ==
  \A k \in 1 .. Len(file) :
    /\ IsGo(file[k]) => file[k].go = entry /\ entry # NoEntry
    /\ (IsData(file[k]) /\ Fits) => Truthful(file[k])

\* Record k has the j-th byte of the image.
Holds(k, j) ==
  /\ IsData(file[k])
  /\ j - (file[k].addr - base_addr) \in 1 .. Len(file[k].data)

Covered(j) ==
  \/ mode = "Compact" /\ bytes[j] = 0
  \/ \E k \in 1 .. Len(file) : Holds(k, j)

CoveredUpTo(n) == Fits => \A j \in 1 .. Len(bytes) : j <= n => Covered(j)

WritingOK ==
  phase = "writing" =>
    /\ result = "Ok"
    /\ \A k \in 1 .. Len(file) : ~ IsGo(file[k])
    /\ CoveredUpTo(chunk_idx * BYTES_PER_LINE)

HasEntry == \E k \in 1 .. Len(file) : IsGo(file[k])

CompleteOK ==
  phase \in {"closed", "loading", "loaded"} =>
    /\ (result = "Ok" \/ HasEntry) => CoveredUpTo(Len(bytes))
    /\ (result = "Ok" /\ entry # NoEntry) => HasEntry

FreshOK ==
  phase \in {"idle", "writing", "closed"} =>
    memory = before /\ next = 1 /\ start_addr = NoEntry

HeldBefore(n, a) == \E k \in 1 .. n : Holds(k, a - base_addr + 1)

MemoryOK ==
  (phase \in {"loading", "loaded"} /\ Fits) =>
    \A a \in Address : memory[a] = IF HeldBefore(next - 1, a) THEN ImageAt(a) ELSE before[a]

StartOK ==
  phase \in {"loading", "loaded"} =>
    start_addr = IF \E k \in 1 .. next - 1 : IsGo(file[k]) THEN entry ELSE NoEntry

EndOK == phase = "loaded" => next > Len(file)

Inv ==
  /\ Typing /\ TypeOK
  /\ RecordsOK /\ WritingOK /\ CompleteOK /\ FreshOK
  /\ MemoryOK /\ StartOK /\ EndOK

-----------------------------------------------------------------------------
(* Arithmetic and sequences.                                               *)

\* The remainder of a difference of two addresses.
LEMMA Remainder ==
  ASSUME NEW n \in Nat \ {0}, NEW x \in Int, -n < x, x < n
  PROVE  x % n = IF x >= 0 THEN x ELSE x + n
<1>1. CASE x >= 0
  BY <1>1, SMT
<1>2. CASE x < 0
  BY <1>2, SMT
<1> QED BY <1>1, <1>2

\* The chunk under way is a part of the image: where it lies, and that it
\* reaches as far as the next one begins.
LEMMA ChunkFacts ==
  ASSUME Typing, ~ Done(chunk_idx)
  PROVE  /\ chunk_idx * BYTES_PER_LINE \in Nat
         /\ ChunkEnd \in Nat
         /\ chunk_idx * BYTES_PER_LINE < ChunkEnd /\ ChunkEnd <= Len(bytes)
         /\ Chunk \in Seq(Value)
         /\ Len(Chunk) = ChunkEnd - chunk_idx * BYTES_PER_LINE
         /\ \A i \in 1 .. Len(Chunk) : Chunk[i] = bytes[chunk_idx * BYTES_PER_LINE + i]
         /\ \A j \in 1 .. Len(bytes) :
              j <= (chunk_idx + 1) * BYTES_PER_LINE => j <= ChunkEnd
         /\ Len(Chunk) <= BYTES_PER_LINE
<1> DEFINE from == chunk_idx * BYTES_PER_LINE
<1>1. chunk_idx \in Nat /\ BYTES_PER_LINE \in Nat \ {0} /\ bytes \in Seq(Value)
      /\ Len(bytes) \in Nat
  BY LgoAssumption DEF Typing
<1>2. from \in Nat /\ (chunk_idx + 1) * BYTES_PER_LINE = from + BYTES_PER_LINE
  BY <1>1, SMT
<1>3. from < Len(bytes)
  BY <1>1, <1>2 DEF Done
<1>4. /\ ChunkEnd \in Nat /\ from < ChunkEnd /\ ChunkEnd <= Len(bytes)
      /\ ChunkEnd <= from + BYTES_PER_LINE
      /\ \A j \in 1 .. Len(bytes) : j <= from + BYTES_PER_LINE => j <= ChunkEnd
  BY <1>1, <1>2, <1>3 DEF ChunkEnd, Done
<1>5. /\ SubSeq(bytes, from + 1, ChunkEnd) \in Seq(Value)
      /\ Len(SubSeq(bytes, from + 1, ChunkEnd)) = ChunkEnd - from
      /\ \A i \in 1 .. ChunkEnd - from : SubSeq(bytes, from + 1, ChunkEnd)[i] = bytes[from + i]
  BY <1>1, <1>2, <1>4, SubSeqProperties
<1>6. /\ Chunk \in Seq(Value) /\ Len(Chunk) = ChunkEnd - from
      /\ \A i \in 1 .. Len(Chunk) : Chunk[i] = bytes[from + i]
      /\ Len(Chunk) <= BYTES_PER_LINE
  <2>1. Chunk = SubSeq(bytes, from + 1, ChunkEnd)
    BY DEF Chunk
  <2> HIDE DEF from
  <2> QED BY <2>1, <1>1, <1>2, <1>4, <1>5
<1>7. from = chunk_idx * BYTES_PER_LINE
  OBVIOUS
<1> HIDE DEF from
<1> QED BY <1>2, <1>3, <1>4, <1>6, <1>7

\* The two kinds of record.
LEMMA RecordFacts ==
  /\ \A a, d : IsData(Data(a, d)) /\ Data(a, d).addr = a /\ Data(a, d).data = d
  /\ \A a : IsGo(Go(a)) /\ Go(a).go = a
  /\ \A r \in DataRecord : IsData(r) /\ ~ IsGo(r)
  /\ \A r \in GoRecord : IsGo(r) /\ ~ IsData(r)
  /\ ~ IsGo(Torn) /\ ~ IsData(Torn)
BY DEF IsGo, IsData, Torn, Data, Go, DataRecord, GoRecord

\* A record that has an address is one of data.
LEMMA DataInFile ==
  ASSUME Typing, NEW k \in 1 .. Len(file), IsData(file[k])
  PROVE  file[k] \in DataRecord
BY RecordFacts DEF Typing, FileRecord

\* A record is added at the end of the file.
LEMMA Appended ==
  ASSUME Typing, NEW r \in FileRecord, file' = Append(file, r)
  PROVE  /\ file' \in Seq(FileRecord) /\ Len(file') = Len(file) + 1
         /\ Len(file) \in Nat
         /\ \A k \in 1 .. Len(file) : file'[k] = file[k]
         /\ file'[Len(file) + 1] = r
BY AppendProperties DEF Typing

\* A byte a record has is one of the image's, and the same.
LEMMA HoldsImage ==
  ASSUME Typing, RecordsOK, Fits, NEW k \in 1 .. Len(file), NEW j \in Int, Holds(k, j)
  PROVE  j \in 1 .. Len(bytes)
<1>1. file[k] \in DataRecord
  BY DataInFile DEF Holds
<1>2. Truthful(file[k])
  BY DEF RecordsOK, Holds
<1>3. file[k].addr \in Nat /\ base_addr \in Nat
  BY <1>1 DEF DataRecord, Typing
<1> QED BY <1>2, <1>3 DEF Holds, Truthful

-----------------------------------------------------------------------------
(* The steps of the writer.                                                *)

\* Before the first call there is no file.
LEMMA InvInit == Init => Inv
<1> SUFFICES ASSUME Init PROVE Inv
  OBVIOUS
<1>1. Typing /\ TypeOK
  BY LgoAssumption DEF Init, Typing, TypeOK, NoEntry
<1>2. RecordsOK /\ WritingOK /\ CompleteOK /\ FreshOK
  BY DEF Init, RecordsOK, WritingOK, CompleteOK, FreshOK
<1>3. MemoryOK /\ StartOK /\ EndOK
  BY DEF Init, MemoryOK, StartOK, EndOK
<1> QED BY <1>1, <1>2, <1>3 DEF Inv

\* A call begins with an empty file.
LEMMA InvWrite ==
  ASSUME Inv, NEW bs \in Images, NEW base \in Bases, NEW e \in Entry \cup {NoEntry},
         NEW md \in {"Full", "Compact"}, Write(bs, base, e, md)
  PROVE  Inv'
<1>1. (Typing /\ TypeOK)'
  BY LgoAssumption DEF Inv, Write, Typing, TypeOK, NoEntry
<1>2. (RecordsOK /\ WritingOK /\ CompleteOK /\ FreshOK)'
  <2>1. bytes' \in Seq(Value) /\ BYTES_PER_LINE \in Nat \ {0} /\ chunk_idx' = 0
    BY LgoAssumption DEF Write
  <2>2. WritingOK'
    BY <2>1 DEF Write, WritingOK, CoveredUpTo
  <2> QED BY <2>2 DEF Write, RecordsOK, CompleteOK, FreshOK
<1>3. (MemoryOK /\ StartOK /\ EndOK)'
  BY DEF Write, MemoryOK, StartOK, EndOK
<1> QED BY <1>1, <1>2, <1>3 DEF Inv

\* What the steps of the loop and after it leave alone.
LEMMA LoaderStays ==
  ASSUME Inv, phase = "writing", phase' \in {"writing", "closed"}, UNCHANGED <<args, loader>>
  PROVE  (FreshOK /\ MemoryOK /\ StartOK /\ EndOK)'
BY DEF Inv, args, loader, FreshOK, MemoryOK, StartOK, EndOK

\* A chunk that is skipped need not be covered.
LEMMA InvSkip ==
  ASSUME Inv, Skip
  PROVE  Inv'
<1> USE DEF args, loader
<1>1. Typing /\ ~ Done(chunk_idx) /\ phase = "writing" /\ Skipped
  BY DEF Inv, Skip, Writing
<1>2. (Typing /\ TypeOK)'
  BY DEF Inv, Skip, Typing, TypeOK
<1>3. (RecordsOK /\ CompleteOK)'
  BY <1>1 DEF Inv, Skip, RecordsOK, CompleteOK, Truthful, Fits
<1>4. WritingOK'
  <2>1. ASSUME Fits, NEW j \in 1 .. Len(bytes), j <= (chunk_idx + 1) * BYTES_PER_LINE
        PROVE  Covered(j)
    <3>1. CASE j <= chunk_idx * BYTES_PER_LINE
      BY <2>1, <3>1, <1>1 DEF Inv, WritingOK, CoveredUpTo
    <3>2. CASE j > chunk_idx * BYTES_PER_LINE
      <4> DEFINE from == chunk_idx * BYTES_PER_LINE
      <4>1. from \in Nat /\ j <= ChunkEnd /\ ChunkEnd \in Nat
            /\ Len(Chunk) = ChunkEnd - from /\ Chunk \in Seq(Value)
            /\ \A i \in 1 .. Len(Chunk) : Chunk[i] = bytes[from + i]
        BY <2>1, <1>1, ChunkFacts
      <4>2. j > from
        BY <3>2
      <4> HIDE DEF from
      <4>3. j - from \in 1 .. Len(Chunk) /\ from + (j - from) = j
        BY <4>1, <4>2
      <4>4. Chunk[j - from] = bytes[j]
        BY <4>1, <4>3
      <4>5. Chunk[j - from] = 0 /\ mode = "Compact"
        BY <4>1, <4>3, <1>1 DEF Skipped, AllZero
      <4> QED BY <4>4, <4>5 DEF Covered
    <3> QED BY <3>1, <3>2, <1>1, ChunkFacts
  <2> QED BY <2>1, <1>1 DEF Inv, Skip, WritingOK, CoveredUpTo, Covered, Holds, Fits
<1>5. (FreshOK /\ MemoryOK /\ StartOK /\ EndOK)'
  BY <1>1, LoaderStays DEF Skip
<1> QED BY <1>2, <1>3, <1>4, <1>5 DEF Inv

\* The address of a record is a u32, and that of its chunk if the image fits.
LEMMA RecordAddress ==
  ASSUME Typing, ~ Done(chunk_idx)
  PROVE  /\ Addr \in 0 .. AddrMod - 1
         /\ Fits => Addr = base_addr + chunk_idx * BYTES_PER_LINE
<1>1. PICK x, m : x = Sum /\ m = AddrMod
  OBVIOUS
<1>2. chunk_idx * BYTES_PER_LINE \in Nat /\ chunk_idx * BYTES_PER_LINE < Len(bytes)
  BY ChunkFacts DEF Typing
<1>3. x \in Nat /\ m \in Nat \ {0}
  BY <1>1, <1>2, LgoAssumption DEF Typing, Sum
<1>4. x % m \in 0 .. m - 1
  BY ONLY <1>3, SMT
<1>5. ASSUME Fits PROVE x % m = x
  <2>1. x < m
    BY <1>1, <1>2, <1>5, LgoAssumption DEF Typing, Sum, Fits
  <2> QED BY ONLY <1>3, <2>1, Remainder
<1> QED BY <1>1, <1>4, <1>5 DEF Addr, Sum

\* A record of the first n bytes of the chunk is truthful.
LEMMA PartTruthful ==
  ASSUME Typing, ~ Done(chunk_idx), NEW d \in Seq(Value), Len(d) <= Len(Chunk),
         \A i \in 1 .. Len(d) : d[i] = Chunk[i]
  PROVE  /\ Data(Addr, d) \in DataRecord
         /\ Fits => Truthful(Data(Addr, d))
<1> DEFINE from == chunk_idx * BYTES_PER_LINE
           r    == Data(Addr, d)
<1>1. from \in Nat /\ ChunkEnd \in Nat /\ ChunkEnd <= Len(bytes) /\ from < ChunkEnd
      /\ Len(Chunk) = ChunkEnd - from
      /\ \A i \in 1 .. Len(Chunk) : Chunk[i] = bytes[from + i]
  BY ChunkFacts
<1>2. /\ Addr \in Nat /\ (Fits => Addr = base_addr + from)
      /\ base_addr \in Nat /\ Len(bytes) \in Nat /\ Len(d) \in Nat
  BY RecordAddress, LgoAssumption DEF Typing
<1>3. r.addr = Addr /\ r.data = d
  BY RecordFacts
<1> HIDE DEF from
<1>4. r \in DataRecord
  BY <1>1, <1>2 DEF Data, DataRecord
<1> HIDE DEF r
<1>5. ASSUME NEW i \in 1 .. Len(d)
      PROVE  /\ base_addr + from - base_addr + i \in 1 .. Len(bytes)
             /\ d[i] = bytes[base_addr + from - base_addr + i]
  <2>1. i \in 1 .. Len(Chunk) /\ from + i \in 1 .. Len(bytes)
        /\ base_addr + from - base_addr + i = from + i
    BY <1>1, <1>2
  <2> QED BY <2>1, <1>1
<1>6. base_addr + from >= base_addr
  BY <1>1, <1>2
<1>7. Fits => Truthful(r)
  BY <1>1, <1>2, <1>3, <1>5, <1>6 DEF Truthful
<1> QED BY <1>4, <1>7 DEF r

\* A file that grows by one record keeps its types and its truth, and covers
\* what it covered.
LEMMA Grows ==
  ASSUME Inv, phase = "writing", NEW r \in FileRecord, file' = Append(file, r),
         IsData(r) => /\ Len(r.data) <= BYTES_PER_LINE /\ r.addr \in 0 .. AddrMod - 1
                      /\ Fits => Truthful(r),
         IsGo(r) => r.go = entry /\ entry # NoEntry,
         phase' \in {"writing", "closed"}, chunk_idx' \in Nat, result' \in {"Ok", "Err"},
         UNCHANGED <<args, loader>>
  PROVE  /\ (Typing /\ TypeOK /\ RecordsOK)'
         /\ Len(file') = Len(file) + 1 /\ Len(file) \in Nat
         /\ \A k \in 1 .. Len(file) : file'[k] = file[k] /\ ~ IsGo(file[k])
         /\ file'[Len(file) + 1] = r
         /\ \A j \in 1 .. Len(bytes) : Covered(j) => Covered(j)'
<1> USE DEF args, loader
<1>0. PICK n \in Nat : n = Len(file)
  BY DEF Inv, Typing
<1>1. Typing /\ TypeOK /\ RecordsOK /\ next = 1 /\ \A k \in 1 .. n : ~ IsGo(file[k])
  BY <1>0 DEF Inv, WritingOK, FreshOK
<1>2. /\ file' \in Seq(FileRecord) /\ Len(file') = n + 1
      /\ \A k \in 1 .. n : file'[k] = file[k]
      /\ file'[n + 1] = r
      /\ DOMAIN file' = 1 .. n + 1 /\ DOMAIN file = 1 .. n
  <2>1. /\ file' \in Seq(FileRecord) /\ Len(file') = n + 1
        /\ \A k \in 1 .. n : file'[k] = file[k]
        /\ file'[n + 1] = r
    BY <1>0, <1>1, Appended
  <2> QED BY <1>0, <1>1, <2>1 DEF Typing
<1>3. \A k \in 1 .. n + 1 : k \in 1 .. n \/ k = n + 1
  BY <1>0
<1>4. Typing'
  BY <1>1, <1>2 DEF Typing
<1>5. TypeOK'
  <2>1. \A k \in DOMAIN file' : IsData(file'[k]) =>
          file'[k].addr \in 0 .. AddrMod - 1 /\ Len(file'[k].data) <= BYTES_PER_LINE
    BY <1>1, <1>2, <1>3 DEF TypeOK
  <2>2. next' \in 1 .. Len(file') + 1
    BY <1>0, <1>1, <1>2
  <2> QED BY <1>1, <2>1, <2>2 DEF TypeOK
<1>6. RecordsOK'
  <2> SUFFICES ASSUME NEW k \in 1 .. n + 1
               PROVE  /\ IsGo(file'[k]) => file'[k].go = entry /\ entry # NoEntry
                      /\ (IsData(file'[k]) /\ Fits) => Truthful(file'[k])
    BY <1>2 DEF RecordsOK, Truthful, Fits
  <2>1. CASE k \in 1 .. n
    BY <2>1, <1>0, <1>1, <1>2 DEF RecordsOK
  <2>2. CASE k = n + 1
    BY <2>2, <1>2
  <2> QED BY <2>1, <2>2, <1>3
<1>7. ASSUME NEW j \in 1 .. Len(bytes), Covered(j) PROVE Covered(j)'
  <2>1. CASE mode = "Compact" /\ bytes[j] = 0
    BY <2>1 DEF Covered
  <2>2. ASSUME NEW k \in 1 .. n, Holds(k, j) PROVE Holds(k, j)' /\ k \in 1 .. n + 1
    BY <2>2, <1>2 DEF Holds
  <2> QED BY <1>0, <1>2, <1>7, <2>1, <2>2 DEF Covered
<1> QED BY <1>0, <1>1, <1>2, <1>4, <1>5, <1>6, <1>7

\* A record emitted says what its chunk holds and covers it.
LEMMA InvEmit ==
  ASSUME Inv, Emit
  PROVE  Inv'
<1> USE DEF args, loader
<1> DEFINE r == Data(Addr, Chunk)
<1>0. PICK n \in Nat : n = Len(file)
  BY DEF Inv, Typing
<1>1. Typing /\ ~ Done(chunk_idx) /\ phase = "writing" /\ result = "Ok"
  BY DEF Inv, Emit, Writing, WritingOK
<1>2. Chunk \in Seq(Value) /\ Len(Chunk) \in Nat /\ Len(Chunk) <= BYTES_PER_LINE
  BY <1>1, ChunkFacts
<1>3. r \in FileRecord /\ (Fits => Truthful(r)) /\ IsData(r) /\ ~ IsGo(r)
  BY <1>1, <1>2, PartTruthful, RecordFacts DEF FileRecord
<1>5. /\ r.addr = Addr /\ r.data = Chunk /\ Addr \in 0 .. AddrMod - 1
      /\ Fits => Addr = base_addr + chunk_idx * BYTES_PER_LINE
  BY <1>1, RecordFacts, RecordAddress
<1>6. UNCHANGED <<phase, bytes, base_addr, entry, mode, result, next, memory, before, start_addr>>
      /\ chunk_idx' = chunk_idx + 1 /\ file' = Append(file, r)
  BY DEF Emit
<1> HIDE DEF r
<1>7. chunk_idx' \in Nat
  BY <1>1, <1>6 DEF Typing
<1>8. /\ (Typing /\ TypeOK /\ RecordsOK)'
      /\ Len(file') = n + 1
      /\ \A k \in 1 .. n : file'[k] = file[k] /\ ~ IsGo(file[k])
      /\ file'[n + 1] = r
      /\ \A j \in 1 .. Len(bytes) : Covered(j) => Covered(j)'
  BY <1>0, <1>1, <1>2, <1>3, <1>5, <1>6, <1>7, Grows
<1>9. WritingOK'
  <2>1. ASSUME Fits, NEW j \in 1 .. Len(bytes), j <= (chunk_idx + 1) * BYTES_PER_LINE
        PROVE  Covered(j)'
    <3>1. CASE j > chunk_idx * BYTES_PER_LINE
      <4> DEFINE from == chunk_idx * BYTES_PER_LINE
      <4>1. from \in Nat /\ j <= ChunkEnd /\ ChunkEnd \in Nat /\ Len(Chunk) = ChunkEnd - from
        BY <2>1, <1>1, ChunkFacts
      <4>2. j > from /\ Addr = base_addr + from /\ base_addr \in Nat
        BY <2>1, <3>1, <1>1, <1>5 DEF Typing
      <4> HIDE DEF from
      <4>3. j - (r.addr - base_addr) \in 1 .. Len(r.data)
        BY <4>1, <4>2, <1>5
      <4>4. Holds(n + 1, j)' /\ n + 1 \in 1 .. Len(file')
        BY <4>3, <1>3, <1>6, <1>8 DEF Holds
      <4> QED BY <4>4 DEF Covered
    <3>2. CASE j <= chunk_idx * BYTES_PER_LINE
      BY <2>1, <3>2, <1>1, <1>8 DEF Inv, WritingOK, CoveredUpTo
    <3> QED BY <3>1, <3>2, <1>1, ChunkFacts
  <2>2. \A k \in 1 .. Len(file') : ~ IsGo(file'[k])
    <3>1. \A k \in 1 .. n + 1 : k \in 1 .. n \/ k = n + 1
      BY <1>0
    <3> QED BY <3>1, <1>3, <1>8
  <2> QED BY <1>1, <2>1, <2>2, <1>6 DEF WritingOK, CoveredUpTo, Fits
<1>10. CompleteOK'
  BY <1>1, <1>6 DEF CompleteOK
<1>11. (FreshOK /\ MemoryOK /\ StartOK /\ EndOK)'
  BY <1>1, <1>6, LoaderStays
<1> QED BY <1>8, <1>9, <1>10, <1>11 DEF Inv

\* After the loop all of the image is covered.
LEMMA AllCovered ==
  ASSUME Inv, phase = "writing", Done(chunk_idx)
  PROVE  CoveredUpTo(Len(bytes))
<1>1. Len(bytes) \in Nat /\ chunk_idx * BYTES_PER_LINE >= Len(bytes)
      /\ chunk_idx * BYTES_PER_LINE \in Nat
  BY LgoAssumption DEF Inv, Typing, Done
<1> QED BY <1>1 DEF Inv, WritingOK, CoveredUpTo

\* A file that is closed as it is.
LEMMA ClosedAsIs ==
  ASSUME Inv, phase = "writing", phase' = "closed", UNCHANGED <<args, chunk_idx, file, loader>>,
         result' \in {"Ok", "Err", "Panic"},
         result' = "Ok" => Done(chunk_idx) /\ entry = NoEntry
  PROVE  Inv'
<1> USE DEF args, loader
<1>1. Typing /\ TypeOK /\ RecordsOK /\ ~ HasEntry
  BY DEF Inv, WritingOK, HasEntry
<1>2. (Typing /\ TypeOK /\ RecordsOK)'
  BY <1>1 DEF Typing, TypeOK, RecordsOK, Truthful, Fits
<1>3. CompleteOK'
  <2>1. ~ HasEntry'
    BY <1>1 DEF HasEntry
  <2>2. result' = "Ok" => CoveredUpTo(Len(bytes))
    BY AllCovered
  <2>3. CoveredUpTo(Len(bytes)) => CoveredUpTo(Len(bytes))'
    BY DEF CoveredUpTo, Covered, Holds, Fits
  <2> QED BY <2>1, <2>2, <2>3 DEF CompleteOK
<1>4. (WritingOK /\ FreshOK /\ MemoryOK /\ StartOK /\ EndOK)'
  BY LoaderStays DEF WritingOK
<1> QED BY <1>2, <1>3, <1>4 DEF Inv

\* A file that is closed after its entry.
LEMMA ClosedByGo ==
  ASSUME Inv, phase = "writing", phase' = "closed", Done(chunk_idx), entry # NoEntry,
         file' = Append(file, Go(entry)), result' \in {"Ok", "Err"},
         UNCHANGED <<args, chunk_idx, loader>>
  PROVE  Inv'
<1> USE DEF args, loader
<1> DEFINE r == Go(entry)
<1>1. Typing /\ entry \in Nat /\ chunk_idx' \in Nat
  BY DEF Inv, Typing
<1>2. r \in FileRecord /\ IsGo(r) /\ ~ IsData(r) /\ r.go = entry
  BY <1>1, RecordFacts DEF Go, GoRecord, FileRecord
<1> HIDE DEF r
<1>3. /\ (Typing /\ TypeOK /\ RecordsOK)'
      /\ Len(file') = Len(file) + 1 /\ Len(file) \in Nat
      /\ file'[Len(file) + 1] = r
      /\ \A j \in 1 .. Len(bytes) : Covered(j) => Covered(j)'
  <2>1. file' = Append(file, r)
    BY DEF r
  <2> QED BY <1>1, <1>2, <2>1, Grows
<1>4. CompleteOK'
  <2>1. HasEntry'
    BY <1>2, <1>3 DEF HasEntry
  <2>2. CoveredUpTo(Len(bytes))'
    BY <1>3, AllCovered DEF CoveredUpTo, Fits
  <2> QED BY <2>1, <2>2 DEF CompleteOK
<1>5. (WritingOK /\ FreshOK /\ MemoryOK /\ StartOK /\ EndOK)'
  BY LoaderStays DEF WritingOK
<1> QED BY <1>3, <1>4, <1>5 DEF Inv

\* A file whose last record is cut short.
LEMMA ClosedCut ==
  ASSUME Inv, phase = "writing", phase' = "closed", NEW r \in FileRecord, ~ IsGo(r),
         IsData(r) => /\ Len(r.data) <= BYTES_PER_LINE /\ r.addr \in 0 .. AddrMod - 1
                      /\ Fits => Truthful(r),
         file' = Append(file, r), result' = "Err",
         UNCHANGED <<args, chunk_idx, loader>>
  PROVE  Inv'
<1> USE DEF args, loader
<1>1. chunk_idx' \in Nat
  BY DEF Inv, Typing
<1>2. /\ (Typing /\ TypeOK /\ RecordsOK)'
      /\ Len(file') = Len(file) + 1 /\ Len(file) \in Nat
      /\ \A k \in 1 .. Len(file) : file'[k] = file[k] /\ ~ IsGo(file[k])
      /\ file'[Len(file) + 1] = r
  BY <1>1, Grows
<1>3. CompleteOK'
  <2>1. \A k \in 1 .. Len(file) + 1 : k \in 1 .. Len(file) \/ k = Len(file) + 1
    BY <1>2
  <2>2. ~ HasEntry'
    BY <1>2, <2>1 DEF HasEntry
  <2> QED BY <2>2 DEF CompleteOK
<1>4. (WritingOK /\ FreshOK /\ MemoryOK /\ StartOK /\ EndOK)'
  BY LoaderStays DEF WritingOK
<1> QED BY <1>2, <1>3, <1>4 DEF Inv

\* At the end every chunk that must be is covered; the entry record is last.
LEMMA InvFinish ==
  ASSUME Inv, Finish
  PROVE  Inv'
<1>1. /\ phase = "writing" /\ phase' = "closed" /\ Done(chunk_idx) /\ result' = "Ok"
      /\ UNCHANGED <<args, chunk_idx, loader>>
  BY DEF Inv, Finish, WritingOK
<1>2. CASE entry = NoEntry
  BY <1>1, <1>2, ClosedAsIs DEF Finish
<1>3. CASE entry # NoEntry
  BY <1>1, <1>3, ClosedByGo DEF Finish
<1> QED BY <1>2, <1>3

\* A panic leaves the records written before it.
LEMMA InvOverflow ==
  ASSUME Inv, Overflow
  PROVE  Inv'
BY ClosedAsIs DEF Overflow, Writing

\* What an error leaves is truthful too, and has an entry only after all else.
LEMMA InvFail ==
  ASSUME Inv, NEW n \in 0 .. BYTES_PER_LINE, Fail(n)
  PROVE  Inv'
<1>1. /\ Typing /\ phase = "writing" /\ phase' = "closed" /\ result' = "Err"
      /\ UNCHANGED <<args, chunk_idx, loader>>
  BY DEF Inv, Fail
<1>2. CASE file' = file
  BY <1>1, <1>2, ClosedAsIs
<1>3. CASE file' = Append(file, Torn)
  <2>1. Torn \in FileRecord /\ ~ IsGo(Torn) /\ ~ IsData(Torn)
    BY RecordFacts DEF FileRecord
  <2> QED BY <1>1, <1>3, <2>1, ClosedCut
<1>4. CASE Done(chunk_idx) /\ entry # NoEntry /\ file' = Append(file, Go(entry))
  BY <1>1, <1>4, ClosedByGo
<1>5. CASE Writing /\ n <= Len(Chunk) /\ file' = Append(file, Data(Addr, SubSeq(Chunk, 1, n)))
  <2> DEFINE d == SubSeq(Chunk, 1, n)
             r == Data(Addr, d)
  <2>1. /\ ~ Done(chunk_idx) /\ n \in Nat /\ Chunk \in Seq(Value) /\ Len(Chunk) \in Nat
        /\ Len(Chunk) <= BYTES_PER_LINE
    BY <1>1, <1>5, ChunkFacts, LgoAssumption DEF Writing
  <2>2. d \in Seq(Value) /\ Len(d) = n /\ \A i \in 1 .. n : d[i] = Chunk[i]
    BY <1>5, <2>1, SubSeqProperties
  <2> HIDE DEF d
  <2>3. r \in FileRecord /\ (Fits => Truthful(r)) /\ ~ IsGo(r)
    <3>1. Len(d) <= Len(Chunk) /\ \A i \in 1 .. Len(d) : d[i] = Chunk[i]
      BY <1>5, <2>1, <2>2
    <3>2. r \in DataRecord /\ (Fits => Truthful(r))
      BY <1>1, <2>1, <2>2, <3>1, PartTruthful
    <3> QED BY <3>2, RecordFacts DEF FileRecord
  <2>4. Len(r.data) <= BYTES_PER_LINE /\ r.addr \in 0 .. AddrMod - 1
    <3>1. r.data = d /\ r.addr = Addr
      BY RecordFacts
    <3>2. BYTES_PER_LINE \in Nat
      BY LgoAssumption
    <3> QED BY <1>1, <1>5, <2>1, <2>2, <3>1, <3>2, RecordAddress
  <2>5. file' = Append(file, r)
    BY <1>5 DEF d
  <2> HIDE DEF r
  <2> QED BY <1>1, <2>3, <2>4, <2>5, ClosedCut
<1> QED BY <1>2, <1>3, <1>4, <1>5 DEF Fail, Cut

-----------------------------------------------------------------------------
(* The steps of the loader.                                                *)

\* What the file says does not change while it is read.
LEMMA WriterStays ==
  ASSUME Inv, phase \in {"closed", "loading"}, phase' \in {"loading", "loaded"},
         UNCHANGED writer
  PROVE  (RecordsOK /\ WritingOK /\ CompleteOK /\ FreshOK)'
<1> USE DEF args, writer
<1>1. (RecordsOK /\ WritingOK /\ FreshOK)'
  BY DEF Inv, RecordsOK, Truthful, Fits, WritingOK, FreshOK
<1>2. CompleteOK'
  BY DEF Inv, CompleteOK, HasEntry, CoveredUpTo, Covered, Holds, Fits
<1> QED BY <1>1, <1>2

\* Loading begins with the memory it finds.
LEMMA InvLoad ==
  ASSUME Inv, Load
  PROVE  Inv'
<1> USE DEF args, writer, loader
<1>1. (RecordsOK /\ WritingOK /\ CompleteOK /\ FreshOK)'
  BY WriterStays DEF Load
<1>2. (Typing /\ TypeOK)'
  BY DEF Inv, Load, Typing, TypeOK
<1>3. next' = 1 /\ memory' = before' /\ start_addr' = NoEntry
  BY DEF Inv, Load, FreshOK
<1>4. (MemoryOK /\ StartOK /\ EndOK)'
  BY <1>3 DEF Load, MemoryOK, HeldBefore, StartOK, EndOK
<1> QED BY <1>1, <1>2, <1>4 DEF Inv

\* Which byte of a record an address gets, its distance taken on the ring of
\* addresses: a record of an image that fits is not wrapped round.
LEMMA RecordByte ==
  ASSUME Typing, RecordsOK, Fits, NEW k \in 1 .. Len(file), IsData(file[k]),
         file[k].addr < Limit, NEW a \in Address
  PROVE  LET i == ((a - file[k].addr) % Limit) + 1
         IN  IF i \in DOMAIN file[k].data
             THEN Holds(k, a - base_addr + 1) /\ file[k].data[i] = ImageAt(a)
             ELSE ~ Holds(k, a - base_addr + 1)
<1>1. file[k] \in DataRecord /\ Truthful(file[k])
  BY DataInFile DEF RecordsOK
<1>2. PICK r \in DataRecord : r = file[k]
  BY <1>1
<1>3. r.addr \in Nat /\ r.data \in Seq(Value) /\ DOMAIN r.data = 1 .. Len(r.data)
      /\ Len(r.data) \in Nat
  BY <1>2 DEF DataRecord
<1> DEFINE x == a - r.addr
           i == (x % Limit) + 1
<1>4. /\ Limit \in Nat \ {0} /\ base_addr \in Nat /\ Len(bytes) \in Nat
      /\ base_addr + Len(bytes) <= Limit /\ r.addr < Limit
      /\ a \in Nat /\ a < Limit
  BY <1>2, LgoAssumption DEF Typing, Fits, Address
<1>5. x \in Int /\ -Limit < x /\ x < Limit
  BY <1>3, <1>4, SMTT(30)
<1>6. i = IF x >= 0 THEN x + 1 ELSE x + Limit + 1
  BY <1>4, <1>5, Remainder
<1>7. x = a - r.addr
  OBVIOUS
<1> HIDE DEF i, x
<1>8. \A n \in 1 .. Len(r.data) :
        /\ r.addr - base_addr + n \in 1 .. Len(bytes)
        /\ r.data[n] = bytes[r.addr - base_addr + n]
  BY <1>1, <1>2 DEF Truthful
<1>9. Holds(k, a - base_addr + 1) <=> (a - base_addr + 1) - (r.addr - base_addr) \in 1 .. Len(r.data)
  BY <1>2 DEF Holds
<1>10. (a - base_addr + 1) - (r.addr - base_addr) = x + 1
  BY <1>3, <1>4, <1>7, SMTT(30)
<1>11. CASE i \in DOMAIN r.data
  <2>1. r.addr - base_addr + i \in 1 .. Len(bytes) /\ r.data[i] = bytes[r.addr - base_addr + i]
    BY <1>3, <1>8, <1>11
  <2>2. i = x + 1
    <3>1. CASE x < 0
      <4>1. i = x + Limit + 1 /\ i \in Int
        BY <3>1, <1>4, <1>5, <1>6
      <4>2. r.addr - base_addr + i = a + Limit + 1 - base_addr
        <5>1. r.addr \in Int /\ base_addr \in Int /\ Limit \in Int /\ x \in Int /\ a \in Int
          BY <1>3, <1>4, <1>5
        <5>2. r.addr + x = a
          BY <5>1, <1>7
        <5> QED BY ONLY <5>1, <5>2, <4>1
      <4>3. r.addr - base_addr + i <= Len(bytes)
        BY <2>1, <1>4
      <4> QED BY <4>2, <4>3, <1>4
    <3> QED BY <3>1, <1>5, <1>6
  <2>3. r.addr - base_addr + i = a - base_addr + 1
    BY <2>2, <1>3, <1>4, <1>7, SMTT(30)
  <2>4. r.data[i] = ImageAt(a)
    BY <2>1, <2>3 DEF ImageAt
  <2>5. Holds(k, a - base_addr + 1)
    BY <2>2, <1>3, <1>9, <1>10, <1>11
  <2> QED BY <2>4, <2>5, <1>2, <1>11 DEF i, x
<1>12. CASE i \notin DOMAIN r.data
  <2>1. x + 1 \notin 1 .. Len(r.data)
    BY <1>3, <1>5, <1>6, <1>12
  <2>2. ~ Holds(k, a - base_addr + 1)
    BY <2>1, <1>9, <1>10
  <2> QED BY <2>2, <1>2, <1>12 DEF i, x
<1> QED BY <1>11, <1>12

\* A record read puts the image where it covers, and nothing elsewhere.
LEMMA InvLoadData ==
  ASSUME Inv, LoadData
  PROVE  Inv'
<1> USE DEF args, writer
<1>1. /\ Typing /\ TypeOK /\ RecordsOK /\ next \in 1 .. Len(file) /\ phase = "loading"
      /\ IsData(file[next]) /\ file[next].addr < Limit /\ next' = next + 1
      /\ UNCHANGED <<phase, writer, start_addr, before>>
  BY DEF Inv, LoadData, Loading, Record, TypeOK
<1>2. file[next] \in DataRecord /\ ~ IsGo(file[next])
  BY <1>1, DataInFile, RecordFacts
<1>3. \A a \in Address : memory'[a] =
        LET i == ((a - file[next].addr) % Limit) + 1
        IN  IF i \in DOMAIN file[next].data THEN file[next].data[i] ELSE memory[a]
  BY DEF LoadData, Record
<1>4. memory' \in [Address -> Value]
  <2>1. \A i \in DOMAIN file[next].data : file[next].data[i] \in Value
    BY <1>2 DEF DataRecord
  <2>2. \A a \in Address : memory[a] \in Value
    BY <1>1 DEF TypeOK
  <2> QED BY <2>1, <2>2 DEF LoadData, Record
<1>5. (Typing /\ TypeOK)'
  BY <1>1, <1>4 DEF Typing, TypeOK
<1>6. (RecordsOK /\ WritingOK /\ CompleteOK /\ FreshOK)'
  BY <1>1, WriterStays
<1>7. next \in Nat /\ next' - 1 = next /\ Len(file) \in Nat
  BY <1>1 DEF Typing
<1>8. MemoryOK'
  <2> SUFFICES ASSUME Fits, NEW a \in Address
               PROVE  memory'[a] = IF HeldBefore(next, a) THEN ImageAt(a) ELSE before[a]
    BY <1>1, <1>7 DEF MemoryOK, Fits, HeldBefore, Holds, ImageAt
  <2>1. memory[a] = IF HeldBefore(next - 1, a) THEN ImageAt(a) ELSE before[a]
    BY <1>1 DEF Inv, MemoryOK
  <2>2. HeldBefore(next, a) <=> HeldBefore(next - 1, a) \/ Holds(next, a - base_addr + 1)
    BY <1>7, <1>1 DEF HeldBefore
  <2>3. LET i == ((a - file[next].addr) % Limit) + 1
        IN  IF i \in DOMAIN file[next].data
            THEN Holds(next, a - base_addr + 1) /\ file[next].data[i] = ImageAt(a)
            ELSE ~ Holds(next, a - base_addr + 1)
    BY <1>1, RecordByte
  <2> QED BY <2>1, <2>2, <2>3, <1>3
<1>9. (StartOK /\ EndOK)'
  BY <1>1, <1>2, <1>7 DEF Inv, StartOK, EndOK
<1> QED BY <1>5, <1>6, <1>8, <1>9 DEF Inv

\* The entry record moves no memory.
LEMMA InvLoadGo ==
  ASSUME Inv, LoadGo
  PROVE  Inv'
<1> USE DEF args, writer
<1>1. /\ Typing /\ TypeOK /\ RecordsOK /\ next \in 1 .. Len(file) /\ phase = "loading"
      /\ IsGo(file[next]) /\ file[next].go < Limit /\ next' = next + 1
      /\ UNCHANGED <<phase, writer, memory, before>> /\ start_addr' = file[next].go
  BY DEF Inv, LoadGo, Loading, Record, TypeOK
<1>2. next \in Nat /\ next' - 1 = next /\ Len(file) \in Nat /\ ~ IsData(file[next])
  BY <1>1, DataInFile, RecordFacts DEF Typing
<1>3. file[next].go = entry /\ entry \in Nat
  BY <1>1 DEF RecordsOK, Typing
<1>4. (Typing /\ TypeOK)'
  BY <1>1, <1>2, <1>3, LgoAssumption DEF Typing, TypeOK, Address
<1>5. (RecordsOK /\ WritingOK /\ CompleteOK /\ FreshOK)'
  BY <1>1, WriterStays
<1>6. MemoryOK'
  <2> SUFFICES ASSUME Fits, NEW a \in Address
               PROVE  memory[a] = IF HeldBefore(next, a) THEN ImageAt(a) ELSE before[a]
    BY <1>1, <1>2 DEF MemoryOK, Fits, HeldBefore, Holds, ImageAt
  <2>1. HeldBefore(next, a) <=> HeldBefore(next - 1, a)
    BY <1>1, <1>2 DEF HeldBefore, Holds
  <2> QED BY <2>1, <1>1 DEF Inv, MemoryOK
<1>7. (StartOK /\ EndOK)'
  BY <1>1, <1>2, <1>3 DEF StartOK, EndOK
<1> QED BY <1>4, <1>5, <1>6, <1>7 DEF Inv

\* A file with an address of seven digits is given up: nothing is said of it.
LEMMA InvLoadGarbled ==
  ASSUME Inv, LoadGarbled
  PROVE  Inv'
<1> USE DEF args, writer, loader
<1>1. /\ Typing /\ TypeOK /\ RecordsOK /\ phase' = "garbled" /\ UNCHANGED <<writer, loader>>
  BY DEF Inv, LoadGarbled
<1>2. (Typing /\ TypeOK)'
  BY <1>1 DEF Typing, TypeOK
<1>3. RecordsOK'
  BY <1>1 DEF RecordsOK, Truthful, Fits
<1>4. (WritingOK /\ CompleteOK /\ FreshOK /\ MemoryOK /\ StartOK /\ EndOK)'
  BY <1>1 DEF WritingOK, CompleteOK, FreshOK, MemoryOK, StartOK, EndOK
<1> QED BY <1>2, <1>3, <1>4 DEF Inv

\* The file has been read to its end.
LEMMA InvLoaded ==
  ASSUME Inv, Loaded
  PROVE  Inv'
<1> USE DEF args, writer, loader
<1>1. /\ Typing /\ TypeOK /\ phase = "loading" /\ phase' = "loaded" /\ UNCHANGED <<writer, loader>>
      /\ next > Len(file)
  BY DEF Inv, Loaded
<1>2. (Typing /\ TypeOK)'
  BY <1>1 DEF Typing, TypeOK
<1>3. (RecordsOK /\ WritingOK /\ CompleteOK /\ FreshOK)'
  BY <1>1, WriterStays
<1>4. (MemoryOK /\ StartOK /\ EndOK)'
  BY <1>1 DEF Inv, MemoryOK, Fits, HeldBefore, Holds, ImageAt, StartOK, EndOK
<1> QED BY <1>2, <1>3, <1>4 DEF Inv

-----------------------------------------------------------------------------
(* The theorems.                                                           *)

\* Every step.
LEMMA InvStep == Inv /\ [Next]_vars => Inv'
<1> SUFFICES ASSUME Inv, [Next]_vars PROVE Inv'
  OBVIOUS
<1>1. ASSUME NEW bs \in Images, NEW base \in Bases, NEW e \in Entry \cup {NoEntry},
             NEW md \in {"Full", "Compact"}, Write(bs, base, e, md)
      PROVE  Inv'
  BY <1>1, InvWrite
<1>2. CASE Skip
  BY <1>2, InvSkip
<1>3. CASE Emit
  BY <1>3, InvEmit
<1>4. CASE Finish
  BY <1>4, InvFinish
<1>5. ASSUME NEW n \in 0 .. BYTES_PER_LINE, Fail(n) PROVE Inv'
  BY <1>5, InvFail
<1>6. CASE Load
  BY <1>6, InvLoad
<1>7. CASE LoadData
  BY <1>7, InvLoadData
<1>8. CASE LoadGo
  BY <1>8, InvLoadGo
<1>9. CASE LoadGarbled
  BY <1>9, InvLoadGarbled
<1>10. CASE Loaded
  BY <1>10, InvLoaded
<1>11. CASE Overflow
  BY <1>11, InvOverflow
<1>12. CASE UNCHANGED vars
  BY <1>12 DEF vars, writer, loader, args, Inv, Typing, TypeOK, RecordsOK, Truthful, WritingOK,
     CompleteOK, HasEntry, CoveredUpTo, Covered, Holds, FreshOK, MemoryOK, Fits, HeldBefore, ImageAt,
     StartOK, EndOK
<1> QED BY <1>1, <1>2, <1>3, <1>4, <1>5, <1>6, <1>7, <1>8, <1>9, <1>10, <1>11, <1>12
     DEF Next

\* The invariant holds in every behaviour.
LEMMA Invariant == Spec => []Inv
BY InvInit, InvStep, PTL DEF Spec

\* The variables of the writer and the loader keep their types.
THEOREM TypeCorrect == Spec => []TypeOK
<1>1. Inv => TypeOK
  BY DEF Inv
<1> QED BY <1>1, Invariant, PTL

\* At the end of the file every record has been read.
LEMMA AllRead ==
  ASSUME Inv, phase = "loaded"
  PROVE  next - 1 = Len(file) /\ Len(file) \in Nat
BY DEF Inv, EndOK, TypeOK, Typing

\* A byte outside the image is in no record.
LEMMA Outside ==
  ASSUME Inv, Fits, NEW n \in Nat, n <= Len(file), NEW a \in Address, HeldBefore(n, a)
  PROVE  InImage(a)
<1>1. a - base_addr + 1 \in Int /\ DOMAIN bytes = 1 .. Len(bytes) /\ Len(file) \in Nat
  BY LgoAssumption DEF Inv, Typing, Address
<1>2. PICK k \in 1 .. n : Holds(k, a - base_addr + 1)
  BY DEF HeldBefore
<1> QED BY <1>1, <1>2, HoldsImage DEF Inv, InImage

\* What is in memory once the file has been read, if the image fits.
LEMMA InMemory ==
  ASSUME Inv, phase = "loaded", Fits, NEW a \in Address
  PROVE  /\ memory[a] = before[a] \/ (InImage(a) /\ memory[a] = ImageAt(a))
         /\ ~ InImage(a) => memory[a] = before[a]
         /\ (InImage(a) /\ CoveredUpTo(Len(bytes)) /\ (mode = "Compact" => Cleared))
              => memory[a] = ImageAt(a)
<1>1. next - 1 = Len(file) /\ Len(file) \in Nat
  BY AllRead
<1>2. memory[a] = IF HeldBefore(Len(file), a) THEN ImageAt(a) ELSE before[a]
  BY <1>1 DEF Inv, MemoryOK
<1>3. HeldBefore(Len(file), a) => InImage(a)
  BY <1>1, Outside
<1>4. ASSUME InImage(a), CoveredUpTo(Len(bytes)), mode = "Compact" => Cleared,
             ~ HeldBefore(Len(file), a)
      PROVE  before[a] = ImageAt(a)
  <2>1. a - base_addr + 1 \in 1 .. Len(bytes) /\ Len(bytes) \in Nat
    BY <1>4 DEF Inv, Typing, InImage
  <2>2. Covered(a - base_addr + 1)
    BY <1>4, <2>1 DEF CoveredUpTo
  <2>3. mode = "Compact" /\ ImageAt(a) = 0
    BY <1>4, <2>2 DEF Covered, HeldBefore, ImageAt
  <2> QED BY <1>4, <2>3 DEF Cleared
<1> QED BY <1>2, <1>3, <1>4

\* A file written to its end loads the image and its entry and nothing else:
\* a full one into any memory, a compact one into memory that is zero there
\* (write and its mode, lgo.rs; the warm reload it warns of).
THEOREM LoadsCorrect == Spec => []LoadsImage
<1>1. ASSUME Inv PROVE LoadsImage
  <2> SUFFICES ASSUME phase = "loaded", result = "Ok", Fits, mode = "Compact" => Cleared
               PROVE  /\ \A a \in Address :
                           memory[a] = IF InImage(a) THEN ImageAt(a) ELSE before[a]
                      /\ start_addr = entry
    BY DEF LoadsImage
  <2>1. CoveredUpTo(Len(bytes)) /\ (entry # NoEntry => HasEntry)
    BY <1>1 DEF Inv, CompleteOK
  <2>2. \A a \in Address : memory[a] = IF InImage(a) THEN ImageAt(a) ELSE before[a]
    BY <1>1, <2>1, InMemory
  <2>3. start_addr = entry
    BY <1>1, <2>1, AllRead DEF Inv, StartOK, HasEntry, RecordsOK
  <2> QED BY <2>2, <2>3
<1> QED BY <1>1, Invariant, PTL

\* What is left of a file whose write failed loads only bytes of the image,
\* at their own addresses, and starts a program only if all of it is loaded:
\* the entry is the last record written (`?` in write, lgo.rs).
THEOREM FailedCorrect == Spec => []FailedLoadsNoMore
<1>1. ASSUME Inv PROVE FailedLoadsNoMore
  <2> SUFFICES ASSUME phase = "loaded", result # "Ok", Fits
               PROVE  /\ \A a \in Address :
                           memory[a] = before[a] \/ (InImage(a) /\ memory[a] = ImageAt(a))
                      /\ start_addr # NoEntry =>
                           /\ start_addr = entry
                           /\ (mode = "Compact" => Cleared) =>
                                \A a \in Address : InImage(a) => memory[a] = ImageAt(a)
    BY DEF FailedLoadsNoMore
  <2>1. \A a \in Address : memory[a] = before[a] \/ (InImage(a) /\ memory[a] = ImageAt(a))
    BY <1>1, InMemory
  <2>2. ASSUME start_addr # NoEntry PROVE start_addr = entry /\ HasEntry
    BY <1>1, <2>2, AllRead DEF Inv, StartOK, HasEntry
  <2>3. ASSUME start_addr # NoEntry PROVE CoveredUpTo(Len(bytes))
    BY <1>1, <2>2, <2>3 DEF Inv, CompleteOK
  <2> QED BY <1>1, <2>1, <2>2, <2>3, InMemory
<1> QED BY <1>1, Invariant, PTL
=============================================================================
