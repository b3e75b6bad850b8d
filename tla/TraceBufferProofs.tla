--------------------------- MODULE TraceBufferProofs ---------------------------
(***************************************************************************)
(* The ring of TraceBuffer keeps the latest entries, for every capacity    *)
(* and every sequence of pushes and clears.  The inductive invariant is    *)
(* TypeOK: its last conjunct, that a ring which is not full has never      *)
(* wrapped, is what makes the two ways of finding a slot agree at the push *)
(* that fills it.  Remainders are taken of numbers below twice the         *)
(* capacity only, so one lemma replaces % by a comparison.                 *)
(***************************************************************************)
EXTENDS TraceBuffer, SequenceTheorems, TLAPS

\* A remainder of a number below twice the modulus takes it off at most once.
LEMMA WrapOnce ==
  \A C \in Nat \ {0} : \A x \in 0 .. 2 * C - 1 :
    x % C = IF x < C THEN x ELSE x - C
<1> SUFFICES ASSUME NEW C \in Nat \ {0}, NEW x \in 0 .. 2 * C - 1
             PROVE  x % C = IF x < C THEN x ELSE x - C
  OBVIOUS
<1>1. CASE x < C
  BY <1>1, SMT
<1>2. CASE x >= C
  BY <1>2, SMT
<1> QED  BY <1>1, <1>2, SMT

\* A value of a sequence replaced by another of its kind.
LEMMA ReplaceType ==
  ASSUME NEW S, NEW s \in Seq(S), NEW k \in 1 .. Len(s), NEW e \in S
  PROVE  /\ [s EXCEPT ![k] = e] \in Seq(S)
         /\ Len([s EXCEPT ![k] = e]) = Len(s)
  BY SMT

\* The fields of the buffer are well typed and in step in every reachable
\* state: a ring that is not full has never wrapped (push, clear).
THEOREM TypeCorrect == Spec => []TypeOK
<1>1. Init => TypeOK
  BY TraceAssumption, SMT DEF Init, TypeOK, Len0
<1>2. TypeOK /\ [Next]_vars => TypeOK'
  <2> SUFFICES ASSUME TypeOK, [Next]_vars
               PROVE  TypeOK'
    OBVIOUS
  <2> USE TraceAssumption
  <2>1. CASE Clear
    BY <2>1, SMT DEF Clear, TypeOK, Len0
  <2>2. ASSUME NEW entry \in Entry, Push(entry)
        PROVE  TypeOK'
    <3> DEFINE wrapped == (head + 1) % capacity
    <3>1. /\ capacity \in Nat \ {0} /\ head \in Nat /\ head < capacity
          /\ entries \in Seq(Entry) /\ Len(entries) \in Nat /\ Len(entries) <= capacity
          /\ count \in Nat /\ Len(entries) <= count
      BY SMT DEF TypeOK, Len0
    <3>2. wrapped = IF head + 1 < capacity THEN head + 1 ELSE head + 1 - capacity
      <4>1. head + 1 \in 0 .. 2 * capacity - 1
        BY <3>1, SMT
      <4>2. PICK C \in Nat \ {0} : C = capacity
        BY <3>1
      <4>3. PICK x \in 0 .. 2 * C - 1 : x = head + 1
        BY <4>1, <4>2
      <4>4. x % C = IF x < C THEN x ELSE x - C
        BY WrapOnce
      <4> QED  BY <3>1, <4>2, <4>3, <4>4 DEF wrapped
    <3>3. capacity' = capacity /\ head' = wrapped /\ count' = count + 1
      BY <2>2 DEF Push
    <3> HIDE DEF wrapped
    <3>4. CASE Len(entries) < capacity
      <4>1. entries' = Append(entries, entry)
        BY <2>2, <3>4 DEF Push, Len0
      <4>2. entries' \in Seq(Entry) /\ Len(entries') = Len(entries) + 1
        BY <4>1, <3>1, SMT
      <4>3. head = Len(entries) /\ count = Len(entries)
        BY <3>4 DEF TypeOK, Len0
      <4> QED  BY <4>2, <4>3, <3>1, <3>2, <3>3, <3>4, SMT DEF TypeOK, Len0
    <3>5. CASE ~ (Len(entries) < capacity)
      <4>1. entries' = [entries EXCEPT ![head + 1] = entry]
        BY <2>2, <3>5 DEF Push, Len0
      <4>2. head + 1 \in 1 .. Len(entries)
        BY <3>1, <3>5, SMT
      <4>3. entries' \in Seq(Entry) /\ Len(entries') = Len(entries)
        BY <4>1, <4>2, <3>1, <2>2, ReplaceType
      <4>4. Len(entries') = capacity
        BY <4>3, <3>1, <3>5, SMT
      <4> QED  BY <4>3, <4>4, <3>1, <3>2, <3>3, SMT DEF TypeOK, Len0
    <3> QED  BY <3>4, <3>5
  <2>3. CASE UNCHANGED vars
    BY <2>3 DEF vars, TypeOK, Len0
  <2> QED  BY <2>1, <2>2, <2>3 DEF Next
<1> QED  BY <1>1, <1>2, PTL DEF Spec

-----------------------------------------------------------------------------
(* Reading the ring, of any contents s, next place h and capacity C.       *)

RingRead(s, h, C, n) ==
  LET m == Lesser(n, Len(s))
  IN  [i \in 1 .. m |-> s[(IF Len(s) < C THEN Len(s) - m + (i - 1)
                                       ELSE (h + C - m + (i - 1)) % C) + 1]]

\* The place in s of its j-th oldest entry.
Place(s, h, C, j) ==
  IF Len(s) < C THEN j ELSE IF h + j <= C THEN h + j ELSE h + j - C

IsRing(s, h, C) ==
  /\ C \in Nat \ {0} /\ s \in Seq(Entry) /\ Len(s) <= C
  /\ h \in 0 .. C - 1 /\ (Len(s) < C => h = Len(s))

\* Reading n entries gives the last n in the order of their places (last_n).
LEMMA ReadPlaces ==
  ASSUME NEW s, NEW h, NEW C, IsRing(s, h, C), NEW n \in Nat
  PROVE  /\ RingRead(s, h, C, n) \in Seq(Entry)
         /\ Len(RingRead(s, h, C, n)) = Lesser(n, Len(s))
         /\ \A i \in 1 .. Lesser(n, Len(s)) :
              RingRead(s, h, C, n)[i] = s[Place(s, h, C, Len(s) - Lesser(n, Len(s)) + i)]
         /\ \A j \in 1 .. Len(s) : Place(s, h, C, j) \in 1 .. Len(s)
<1> DEFINE m == Lesser(n, Len(s))
           from(i) == IF Len(s) < C THEN Len(s) - m + (i - 1)
                                    ELSE (h + C - m + (i - 1)) % C
<1>1. /\ C \in Nat \ {0} /\ Len(s) \in Nat /\ Len(s) <= C /\ h \in Nat /\ h < C
      /\ Len(s) < C => h = Len(s)
  BY SMT DEF IsRing
<1>2. m \in Nat /\ m <= Len(s)
  BY <1>1, SMT DEF Lesser
<1>3. \A j \in 1 .. Len(s) : Place(s, h, C, j) \in 1 .. Len(s)
  BY <1>1, SMT DEF Place
<1>4. RingRead(s, h, C, n) = [i \in 1 .. m |-> s[from(i) + 1]]
  BY DEF RingRead
<1> HIDE DEF m
<1>5. ASSUME NEW i \in 1 .. m
      PROVE  from(i) + 1 = Place(s, h, C, Len(s) - m + i) /\ Len(s) - m + i \in 1 .. Len(s)
  <2>1. CASE Len(s) < C
    BY <2>1, <1>1, <1>2, SMT DEF Place
  <2>2. CASE ~ (Len(s) < C)
    <3> DEFINE x == h + C - m + (i - 1)
    <3>1. Len(s) = C /\ x \in 0 .. 2 * C - 1
      BY <2>2, <1>1, <1>2, SMT
    <3>2. x % C = IF x < C THEN x ELSE x - C
      BY <3>1, <1>1, WrapOnce
    <3>3. from(i) = x % C
      BY <2>2
    <3>4. from(i) = IF x < C THEN x ELSE x - C
      BY <3>2, <3>3
    <3> HIDE DEF from
    <3> QED  BY <3>1, <3>4, <1>1, <1>2, SMT DEF Place
  <2> QED  BY <2>1, <2>2
<1> HIDE DEF from
<1>6. \A i \in 1 .. m : s[from(i) + 1] \in Entry
  <2> TAKE i \in 1 .. m
  <2>1. from(i) + 1 \in 1 .. Len(s)
    BY <1>3, <1>5
  <2> QED  BY <2>1, SMT DEF IsRing
<1>7. RingRead(s, h, C, n) \in Seq(Entry) /\ Len(RingRead(s, h, C, n)) = m
  BY <1>2, <1>4, <1>6, SMT
<1>8. \A i \in 1 .. m : RingRead(s, h, C, n)[i] = s[Place(s, h, C, Len(s) - m + i)]
  BY <1>4, <1>5
<1> QED  BY <1>3, <1>7, <1>8 DEF m

\* The whole of a ring.
LEMMA ReadAll ==
  ASSUME NEW s, NEW h, NEW C, IsRing(s, h, C)
  PROVE  /\ RingRead(s, h, C, Len(s)) \in Seq(Entry)
         /\ Len(RingRead(s, h, C, Len(s))) = Len(s)
         /\ \A i \in 1 .. Len(s) :
              RingRead(s, h, C, Len(s))[i] = s[Place(s, h, C, i)]
<1>1. Len(s) \in Nat /\ Lesser(Len(s), Len(s)) = Len(s)
  BY SMT DEF IsRing, Lesser
<1>2. \A i \in 1 .. Len(s) : Len(s) - Len(s) + i = i
  BY <1>1, SMT
<1> QED  BY <1>1, <1>2, ReadPlaces

\* Two sequences of one length and the same elements are equal.
LEMMA SameElements ==
  ASSUME NEW S, NEW s \in Seq(S), NEW t \in Seq(S), Len(s) = Len(t),
         \A i \in 1 .. Len(s) : s[i] = t[i]
  PROVE  s = t
  BY SMT

\* Contents t and next place k after entry e is pushed onto s and h.
Pushed(s, h, C, e, t, k) ==
  /\ t = IF Len(s) < C THEN Append(s, e) ELSE [s EXCEPT ![h + 1] = e]
  /\ k = IF h + 1 < C THEN h + 1 ELSE 0

\* A push appends its entry to what is read, and drops the oldest of a ring
\* that was full (push).
LEMMA PushReads ==
  ASSUME NEW s, NEW h, NEW C, IsRing(s, h, C), NEW e \in Entry, NEW t, NEW k,
         Pushed(s, h, C, e, t, k)
  PROVE  RingRead(t, k, C, Len(t)) =
           IF Len(s) < C THEN Append(RingRead(s, h, C, Len(s)), e)
                         ELSE Append(Tail(RingRead(s, h, C, Len(s))), e)
<1> DEFINE all == RingRead(s, h, C, Len(s))
           after == RingRead(t, k, C, Len(t))
<1>1. /\ C \in Nat \ {0} /\ Len(s) \in Nat /\ Len(s) <= C /\ h \in Nat /\ h < C
      /\ Len(s) < C => h = Len(s)
      /\ s \in Seq(Entry)
  BY SMT DEF IsRing
<1>2. /\ all \in Seq(Entry) /\ Len(all) = Len(s)
      /\ \A i \in 1 .. Len(s) : all[i] = s[Place(s, h, C, i)]
  BY ReadAll
<1> USE DEF Pushed
<1>0. ASSUME IsRing(t, k, C)
      PROVE  /\ after \in Seq(Entry) /\ Len(after) = Len(t)
             /\ \A i \in 1 .. Len(t) : after[i] = t[Place(t, k, C, i)]
  BY ONLY <1>0, ReadAll
<1> HIDE DEF all, after
<1>3. CASE Len(s) < C
  <2>1. /\ t \in Seq(Entry) /\ Len(t) = Len(s) + 1 /\ t[Len(s) + 1] = e
        /\ \A i \in 1 .. Len(s) : t[i] = s[i]
    BY <1>1, <1>3, SMT
  <2>2. IsRing(t, k, C)
    BY <1>1, <1>3, <2>1, SMT DEF IsRing
  <2>3. /\ after \in Seq(Entry) /\ Len(after) = Len(s) + 1
        /\ \A i \in 1 .. Len(s) + 1 : after[i] = t[Place(t, k, C, i)]
    <3>1. /\ after \in Seq(Entry) /\ Len(after) = Len(t)
          /\ \A i \in 1 .. Len(t) : after[i] = t[Place(t, k, C, i)]
      BY <2>2, <1>0
    <3> QED  BY <3>1, <2>1
  <2>4. \A i \in 1 .. Len(s) + 1 : Place(t, k, C, i) = i
    BY <1>1, <1>3, <2>1, SMT DEF Place
  <2>5. \A i \in 1 .. Len(s) : all[i] = s[i]
    BY <1>2, <1>3 DEF Place
  <2>6. /\ Append(all, e) \in Seq(Entry) /\ Len(Append(all, e)) = Len(s) + 1
        /\ \A i \in 1 .. Len(s) : Append(all, e)[i] = all[i]
        /\ Append(all, e)[Len(s) + 1] = e
    BY <1>1, <1>2, SMT
  <2>7. \A i \in 1 .. Len(s) + 1 : after[i] = Append(all, e)[i]
    <3> TAKE i \in 1 .. Len(s) + 1
    <3>1. after[i] = t[i]
      BY <2>3, <2>4
    <3>2. CASE i = Len(s) + 1
      BY <3>1, <3>2, <2>1, <2>6
    <3>3. CASE i # Len(s) + 1
      <4>1. i \in 1 .. Len(s)
        BY <3>3, <1>1, SMT
      <4> QED  BY <3>1, <4>1, <2>1, <2>5, <2>6
    <3> QED  BY <3>2, <3>3
  <2>8. after = Append(all, e)
    BY <2>3, <2>6, <2>7, SameElements
  <2> QED  BY <1>3, <2>8 DEF all, after
<1>4. CASE ~ (Len(s) < C)
  <2>1. Len(s) = C /\ h + 1 \in 1 .. Len(s)
    BY <1>1, <1>4, SMT
  <2>2. t = [s EXCEPT ![h + 1] = e]
    BY <1>4
  <2>3. t \in Seq(Entry) /\ Len(t) = C
    BY <2>1, <2>2, <1>1, ReplaceType
  <2>4. t[h + 1] = e /\ \A j \in 1 .. C : j # h + 1 => t[j] = s[j]
    BY <2>1, <2>2, <1>1, SMT
  <2>5. IsRing(t, k, C)
    BY <1>1, <2>3, SMT DEF IsRing
  <2>6. /\ after \in Seq(Entry) /\ Len(after) = C
        /\ \A i \in 1 .. C : after[i] = t[Place(t, k, C, i)]
    <3>1. /\ after \in Seq(Entry) /\ Len(after) = Len(t)
          /\ \A i \in 1 .. Len(t) : after[i] = t[Place(t, k, C, i)]
      BY <2>5, <1>0
    <3> QED  BY <3>1, <2>3
  <2>7. Tail(all) \in Seq(Entry) /\ Len(Tail(all)) = C - 1
        /\ \A i \in 1 .. C - 1 : Tail(all)[i] = all[i + 1]
    BY <1>1, <1>2, <2>1, SMT
  <2> DEFINE rest == Tail(all)
  <2> HIDE DEF rest
  <2>8. /\ Append(rest, e) \in Seq(Entry) /\ Len(Append(rest, e)) = C
        /\ \A i \in 1 .. C - 1 : Append(rest, e)[i] = rest[i]
        /\ Append(rest, e)[C] = e
    BY <1>1, <2>7, SMT DEF rest
  <2>9. \A i \in 1 .. C : after[i] = Append(rest, e)[i]
    <3> TAKE i \in 1 .. C
    <3>1. after[i] = t[Place(t, k, C, i)]
      BY <2>6
    <3>2. CASE i = C
      <4>1. Place(t, k, C, i) = h + 1
        BY <3>2, <1>1, <2>3, SMT DEF Place
      <4> QED  BY <3>1, <3>2, <4>1, <2>4, <2>8
    <3>3. CASE i # C
      <4>1. i \in 1 .. C - 1 /\ i + 1 \in 1 .. Len(s)
        BY <3>3, <2>1, <1>1, SMT
      <4>2. /\ Place(t, k, C, i) = Place(s, h, C, i + 1)
            /\ Place(t, k, C, i) \in 1 .. C /\ Place(t, k, C, i) # h + 1
        BY <4>1, <1>1, <2>1, <2>3, SMT DEF Place
      <4>3. after[i] = s[Place(s, h, C, i + 1)]
        BY <3>1, <4>2, <2>4
      <4>4. after[i] = all[i + 1]
        BY <4>3, <4>1, <1>2
      <4> QED  BY <4>4, <4>1, <2>7, <2>8 DEF rest
    <3> QED  BY <3>2, <3>3
  <2>10. after = Append(rest, e)
    BY <2>6, <2>8, <2>9, SameElements
  <2> QED  BY <1>4, <2>10 DEF all, after, rest
<1> QED  BY <1>3, <1>4

-----------------------------------------------------------------------------
(* The buffer's own fields.                                                *)

\* A well-typed buffer is a ring.
LEMMA Ring == TypeOK => IsRing(entries, head, capacity)
  BY TraceAssumption, SMT DEF TypeOK, IsRing, Len0

\* Reading the buffer is reading the ring in its fields (last_n, all).
LEMMA LastNReads == \A n : LastN(n) = RingRead(entries, head, capacity, n)
  BY DEF LastN, Slot, Len0, RingRead

\* The ring implements the list of the latest entries: for any capacity, what
\* `all` returns changes at a push by the new entry at its end and at most
\* the oldest at its front, and at a clear becomes empty.
THEOREM KeepsCorrect == Spec => KeepsLatest
<1>1. Init => Recent!Init
  <2> SUFFICES ASSUME Init PROVE Recent!Init
    OBVIOUS
  <2>1. All = <<>>
    <3>1. Len(entries) = 0 /\ Lesser(0, 0) = 0
      BY SMT DEF Init, Lesser
    <3>2. All = [i \in 1 .. 0 |-> entries[Slot(0, i - 1) + 1]]
      BY <3>1 DEF All, LastN, Len0
    <3> QED  BY <3>2, SMT
  <2> QED  BY <2>1 DEF Init, Recent!Init
<1>2. TypeOK /\ [Next]_vars => [Recent!Next]_<<capacity, All, count>>
  <2> SUFFICES ASSUME TypeOK, [Next]_vars
               PROVE  [Recent!Next]_<<capacity, All, count>>
    OBVIOUS
  <2>0. All = RingRead(entries, head, capacity, Len(entries))
    BY LastNReads DEF All, Len0
  <2>1. CASE Clear
    <3>1. Len(entries') = 0 /\ Lesser(0, 0) = 0
      BY <2>1, SMT DEF Clear, Lesser
    <3>2. All' = [i \in 1 .. 0 |-> entries'[Slot(0, i - 1)' + 1]]
      BY <3>1 DEF All, LastN, Len0
    <3>3. All' = <<>>
      BY <3>2, SMT
    <3> QED  BY <2>1, <3>3 DEF Clear, Recent!Next, Recent!Forget
  <2>2. ASSUME NEW entry \in Entry, Push(entry)
        PROVE  Recent!Next
    <3>1. IsRing(entries, head, capacity)
      BY Ring
    <3>2. All' = RingRead(entries', head', capacity, Len(entries'))
      BY <2>2 DEF All, LastN, Slot, Len0, RingRead, Push
    <3>3. head' = IF head + 1 < capacity THEN head + 1 ELSE 0
      <4>1. /\ capacity \in Nat \ {0} /\ head \in Nat /\ head < capacity
            /\ head + 1 \in 0 .. 2 * capacity - 1
        BY <3>1, SMT DEF IsRing
      <4>2. PICK C \in Nat \ {0} : C = capacity
        BY <4>1
      <4>3. PICK x \in 0 .. 2 * C - 1 : x = head + 1
        BY <4>1, <4>2
      <4>4. x % C = IF x < C THEN x ELSE x - C
        BY WrapOnce
      <4>5. head' = (head + 1) % capacity
        BY <2>2 DEF Push
      <4> QED  BY <4>1, <4>2, <4>3, <4>4, <4>5, SMT
    <3>4. entries' = IF Len(entries) < capacity THEN Append(entries, entry)
                                                ELSE [entries EXCEPT ![head + 1] = entry]
      BY <2>2 DEF Push, Len0
    <3>5. All' = IF Len(entries) < capacity THEN Append(All, entry)
                                            ELSE Append(Tail(All), entry)
      <4>1. PICK t, k : t = entries' /\ k = head'
        OBVIOUS
      <4>2. RingRead(t, k, capacity, Len(t)) =
              IF Len(entries) < capacity
              THEN Append(RingRead(entries, head, capacity, Len(entries)), entry)
              ELSE Append(Tail(RingRead(entries, head, capacity, Len(entries))), entry)
        <5>1. PICK C, s, h : C = capacity /\ s = entries /\ h = head
          OBVIOUS
        <5>2. IsRing(s, h, C) /\ Pushed(s, h, C, entry, t, k)
          BY <5>1, <4>1, <3>1, <3>3, <3>4 DEF Pushed
        <5>3. RingRead(t, k, C, Len(t)) =
                IF Len(s) < C THEN Append(RingRead(s, h, C, Len(s)), entry)
                              ELSE Append(Tail(RingRead(s, h, C, Len(s))), entry)
          BY <5>2, PushReads
        <5> QED  BY <5>1, <5>3
      <4> QED  BY <2>0, <3>2, <4>1, <4>2
    <3>6. Len(All) = Len(entries)
      BY <2>0, <3>1, ReadAll
    <3>7. Recent!Record(entry)
      BY <2>2, <3>5, <3>6 DEF Push, Recent!Record
    <3> QED  BY <3>7 DEF Recent!Next
  <2>3. CASE UNCHANGED vars
    <3>1. All' = All
      BY <2>3 DEF vars, All, LastN, Slot, Len0
    <3> QED  BY <2>3, <3>1 DEF vars
  <2> QED  BY <2>1, <2>2, <2>3 DEF Next
<1> QED  BY <1>1, <1>2, TypeCorrect, PTL DEF Spec, KeepsLatest, Recent!Spec

\* The last n entries of a ring are the end of all of them.
LEMMA ReadSuffix ==
  ASSUME NEW s, NEW h, NEW C, IsRing(s, h, C), NEW n \in Nat
  PROVE  RingRead(s, h, C, n) =
           SubSeq(RingRead(s, h, C, Len(s)), Len(s) - Lesser(n, Len(s)) + 1, Len(s))
<1> DEFINE m == Lesser(n, Len(s))
           all == RingRead(s, h, C, Len(s))
           last == RingRead(s, h, C, n)
           end == SubSeq(all, Len(s) - m + 1, Len(s))
<1>1. /\ all \in Seq(Entry) /\ Len(all) = Len(s)
      /\ \A i \in 1 .. Len(s) : all[i] = s[Place(s, h, C, i)]
  BY ReadAll
<1>2. /\ last \in Seq(Entry) /\ Len(last) = m
      /\ \A i \in 1 .. m : last[i] = s[Place(s, h, C, Len(s) - m + i)]
  BY ReadPlaces
<1>3. Len(s) \in Nat /\ m \in Nat /\ m <= Len(s)
  BY SMT DEF Lesser, IsRing
<1> HIDE DEF m, all, last
<1>4. /\ end \in Seq(Entry) /\ Len(end) = m
      /\ \A i \in 1 .. m : end[i] = all[Len(s) - m + i]
  <2>1. \A i \in Len(s) - m + 1 .. Len(s) : all[i] \in Entry
    BY <1>1, <1>3, SMT
  <2>2. /\ end \in Seq(Entry)
        /\ Len(end) = IF Len(s) - m + 1 <= Len(s) THEN Len(s) - (Len(s) - m + 1) + 1 ELSE 0
        /\ \A i \in 1 .. Len(s) - (Len(s) - m + 1) + 1 :
             end[i] = all[(Len(s) - m + 1) + i - 1]
    <3>1. Len(s) - m + 1 \in Int /\ Len(s) \in Int
      BY <1>3, SMT
    <3> QED  BY <2>1, <3>1, SubSeqProperties
  <2>3. \A i \in 1 .. m : (Len(s) - m + 1) + i - 1 = Len(s) - m + i
    BY <1>3, SMT
  <2>4. Len(s) - (Len(s) - m + 1) + 1 = m
    BY <1>3, SMT
  <2> HIDE DEF end
  <2> QED  BY <2>2, <2>3, <2>4, <1>3, SMT
<1>5. \A i \in 1 .. m : Len(s) - m + i \in 1 .. Len(s)
  BY <1>3, SMT
<1> HIDE DEF end
<1>6. last = end
  BY <1>1, <1>2, <1>4, <1>5, SameElements
<1> QED  BY <1>6 DEF m, all, last, end

\* A host that asks for the last n entries gets the end of all of them, for
\* any capacity and however often the ring has wrapped (last_n).
THEOREM LastNCorrect == Spec => []LastNIsSuffix
<1>1. TypeOK => LastNIsSuffix
  <2> SUFFICES ASSUME TypeOK, NEW n \in 0 .. capacity + 1
               PROVE  LastN(n) = SubSeq(All, Len0 - Lesser(n, Len0) + 1, Len0)
    BY DEF LastNIsSuffix
  <2>1. n \in Nat
    BY TraceAssumption, SMT DEF TypeOK
  <2>2. PICK s, h, C : s = entries /\ h = head /\ C = capacity
    OBVIOUS
  <2>3. IsRing(s, h, C)
    BY <2>2, Ring
  <2>4. RingRead(s, h, C, n) =
          SubSeq(RingRead(s, h, C, Len(s)), Len(s) - Lesser(n, Len(s)) + 1, Len(s))
    BY <2>1, <2>3, ReadSuffix
  <2> QED  BY <2>2, <2>4, LastNReads DEF All, Len0
<1> QED  BY <1>1, TypeCorrect, PTL
=============================================================================
