------------------------------ MODULE RecentTrace ------------------------------
(***************************************************************************)
(* What a trace buffer promises: the latest entries in the order they were *)
(* recorded, as many as it has room for, and how many there ever were.     *)
(***************************************************************************)
EXTENDS Integers, Sequences

CONSTANTS
  Entry,        \* records of executed instructions
  Capacities,   \* the capacities a buffer may be made with
  MaxCount      \* bound on the entries recorded between two clears

VARIABLES capacity, recent, total

Latest(s, n) == SubSeq(s, Len(s) - n + 1, Len(s))

Init ==
  /\ capacity \in Capacities
  /\ recent = <<>> /\ total = 0

Record(e) ==
  /\ total < MaxCount
  /\ recent' = IF Len(recent) < capacity THEN Append(recent, e)
                                         ELSE Append(Tail(recent), e)
  /\ total' = total + 1
  /\ UNCHANGED capacity

Forget ==
  /\ recent' = <<>> /\ total' = 0
  /\ UNCHANGED capacity

Next == Forget \/ \E e \in Entry : Record(e)

Spec == Init /\ [][Next]_<<capacity, recent, total>>
=============================================================================
