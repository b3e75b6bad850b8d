------------------------------ MODULE TraceBuffer ------------------------------
(***************************************************************************)
(* TraceBuffer of src/src/cpu/state.rs: a ring of the latest instructions. *)
(* The processor pushes one entry per instruction executed, a reset clears *)
(* it, and a host reads it between steps; it has one owner and no lock.    *)
(*                                                                         *)
(* Indices are the code's, from 0.  A buffer made with room for nothing    *)
(* panics at its first push; the code only makes buffers of 200.           *)
(***************************************************************************)
EXTENDS Integers, Sequences

CONSTANTS
  Entry,        \* records of executed instructions
  Capacities,   \* the capacities a buffer may be made with
  MaxCount      \* bound on the entries recorded between two clears

ASSUME TraceAssumption == Capacities \subseteq Nat \ {0} /\ MaxCount \in Nat

VARIABLES entries, head, capacity, count

vars == <<entries, head, capacity, count>>

\* TraceBuffer::new
Init ==
  /\ capacity \in Capacities
  /\ entries = <<>> /\ head = 0 /\ count = 0

Len0 == Len(entries)
Lesser(m, n) == IF m < n THEN m ELSE n

\* Seeded fault: the next place does not wrap.
PushUnwrapped(entry) ==
  /\ count < MaxCount
  /\ entries' = IF Len0 < capacity THEN Append(entries, entry)
                                   ELSE [entries EXCEPT ![head + 1] = entry]
  /\ head' = head + 1
  /\ count' = count + 1
  /\ UNCHANGED capacity

Push(entry) ==
  /\ count < MaxCount
  /\ entries' = IF Len0 < capacity THEN Append(entries, entry)
                                   ELSE [entries EXCEPT ![head + 1] = entry]
  /\ head' = (head + 1) % capacity
  /\ count' = count + 1
  /\ UNCHANGED capacity

\* Seeded fault: the place of the next entry survives a clear.
ClearKeepsHead ==
  /\ entries' = <<>> /\ count' = 0
  /\ UNCHANGED <<head, capacity>>

Clear ==
  /\ entries' = <<>> /\ head' = 0 /\ count' = 0
  /\ UNCHANGED capacity

Next == Clear \/ \E entry \in Entry : Push(entry)

Spec == Init /\ [][Next]_vars

\* Seeded fault: a full ring is read from its oldest entry.
SlotOldest(n, i) ==
  IF Len0 < capacity THEN Len0 - n + i ELSE (head + i) % capacity

\* The index of the i-th of the last n entries, n at most their number.
Slot(n, i) ==
  IF Len0 < capacity THEN Len0 - n + i ELSE (head + capacity - n + i) % capacity

LastN(n) ==
  LET m == Lesser(n, Len0)
  IN  [i \in 1 .. m |-> entries[Slot(m, i - 1) + 1]]

All == LastN(Len0)

-----------------------------------------------------------------------------
(* Properties.                                                             *)

\* The fields stay in step: a ring that is not full has never wrapped, so
\* its next place is its length and its count is its length.
TypeOK ==
  /\ capacity \in Capacities
  /\ entries \in Seq(Entry) /\ Len0 <= capacity
  /\ head \in 0 .. capacity - 1 /\ count \in Nat /\ count >= Len0
  /\ Len0 < capacity => head = Len0 /\ count = Len0

\* The last n entries are the end of all of them, for every n a host may ask
\* for: last_n and all agree on the order in a ring that has wrapped.
LastNIsSuffix ==
  \A n \in 0 .. capacity + 1 :
    LastN(n) = SubSeq(All, Len0 - Lesser(n, Len0) + 1, Len0)

\* The ring implements the list of the latest entries: read through `all`,
\* each push appends its entry and drops at most the oldest, across every
\* wrap and clear.
Recent == INSTANCE RecentTrace WITH recent <- All, total <- count

KeepsLatest == Recent!Spec
=============================================================================
