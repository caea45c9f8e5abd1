------------------------- MODULE ClientSetupProofs -------------------------
(***************************************************************************)
(* Proofs about ClientSetup and the components it puts together.           *)
(*                                                                         *)
(* TestPlan, for a hostlist of any length: in a round a host is in at most *)
(* one pair, because the rotation only permutes the slots; over a          *)
(* tournament every two hosts meet exactly once, because the slots and the *)
(* rounds have a closed form.                                              *)
(*                                                                         *)
(* Retry, for any deadline, ceiling of the delay and length of an attempt: *)
(* when the loop gives up and how long it may take.                        *)
(*                                                                         *)
(* The set-up, for any configurations and lookup answers: the address      *)
(* picked, the end after a signal, and that its plan is TestPlan's.        *)
(***************************************************************************)
EXTENDS ClientSetup, SequenceTheorems, FiniteSetTheorems, TLAPS

-----------------------------------------------------------------------------
(* The plan: the slots.                                                    *)

\* The bye makes the number of slots even, and there is nothing else in a slot
\* than a host or the bye.
LEMMA SlotCount ==
  ASSUME n \in 2 .. MaxHosts
  PROVE  /\ n \in Nat /\ Len0 \in Nat /\ Len0 >= 2 /\ Len0 % 2 = 0
         /\ Entries \ {None} \subseteq Hosts
BY PlanAssumption DEF Len0, Entries, None, Hosts

\* Mirroring is an involution without a fixed point.
LEMMA OppositeFacts ==
  ASSUME n \in 2 .. MaxHosts, NEW i \in Slots
  PROVE  Opposite(i) \in Slots /\ Opposite(Opposite(i)) = i /\ Opposite(i) # i
BY SlotCount DEF Opposite, Slots

\* The slot an entry comes from in a rotation.
Source(i) == IF Len0 = 2 \/ i = 0 THEN i ELSE IF i = 1 THEN Len0 - 1 ELSE i - 1

\* No two slots are filled from the same one.
LEMMA SourceFacts ==
  ASSUME n \in 2 .. MaxHosts
  PROVE  /\ \A i \in Slots : Source(i) \in Slots
         /\ \A i, j \in Slots : Source(i) = Source(j) => i = j
BY SlotCount DEF Source, Slots

\* pop and insert(1) fill every slot from its source.
LEMMA RotatedSource ==
  ASSUME TypeOK
  PROVE  Rotated = [i \in Slots |-> arr[Source(i)]]
<1>1. CASE Len0 > 2
  <2>1. \A i \in Slots : (IF i = 0 THEN arr[0] ELSE IF i = 1 THEN arr[Len0 - 1] ELSE arr[i - 1])
                           = arr[Source(i)]
    BY <1>1 DEF Source
  <2> QED BY <1>1, <2>1 DEF Rotated
<1>2. CASE Len0 = 2
  <2>1. \A i \in Slots : Source(i) = i
    BY <1>2 DEF Source
  <2> QED BY <1>2, <2>1 DEF Rotated, TypeOK
<1> QED BY <1>1, <1>2, SlotCount DEF TypeOK

\* So they permute the slots.
LEMMA RotatedFacts ==
  ASSUME TypeOK, SlotsDistinct
  PROVE  /\ Rotated \in [Slots -> Entries]
         /\ \A i, j \in Slots : Rotated[i] = Rotated[j] => i = j
<1>1. Rotated = [i \in Slots |-> arr[Source(i)]]
  BY RotatedSource
<1>2. \A i \in Slots : Source(i) \in Slots
  BY SourceFacts DEF TypeOK
<1>3. Rotated \in [Slots -> Entries]
  BY <1>1, <1>2 DEF TypeOK
<1>4. ASSUME NEW i \in Slots, NEW j \in Slots, Rotated[i] = Rotated[j] PROVE i = j
  <2>1. arr[Source(i)] = arr[Source(j)]
    BY <1>1, <1>4
  <2>2. Source(i) = Source(j)
    BY <1>2, <2>1 DEF SlotsDistinct
  <2> QED BY <2>2, SourceFacts DEF TypeOK
<1> QED BY <1>3, <1>4

-----------------------------------------------------------------------------
(* The pairs of a round.                                                   *)

\* Every pair is read from a slot and its mirror.
LEMMA PairSlots ==
  ASSUME TypeOK, NEW p \in Pairs
  PROVE  /\ p \in Hosts \X Hosts
         /\ \E i \in Slots : arr[i] = p[1] /\ arr[Opposite(i)] = p[2]
<1>1. PICK i \in 0 .. Len0 \div 2 - 1 : p = <<arr[i], arr[Opposite(i)]>>
  BY DEF Pairs
<1>2. p[1] = arr[i] /\ p[2] = arr[Opposite(i)] /\ p[1] # None /\ p[2] # None
  BY <1>1 DEF Pairs
<1>3. i \in Slots
  BY SlotCount DEF Slots, TypeOK
<1>4. Opposite(i) \in Slots
  BY <1>3, OppositeFacts DEF TypeOK
<1>5. arr[i] \in Entries /\ arr[Opposite(i)] \in Entries
  BY <1>3, <1>4 DEF TypeOK
<1>6. arr[i] \in Hosts /\ arr[Opposite(i)] \in Hosts
  BY <1>2, <1>5, SlotCount DEF TypeOK
<1> QED BY <1>1, <1>2, <1>3, <1>6

\* A target of a host is in the slot opposite the host's own.
LEMMA TargetSlot ==
  ASSUME TypeOK, NEW h, NEW t \in Targets(Pairs, h)
  PROVE  \E i \in Slots : arr[i] = h /\ arr[Opposite(i)] = t
<1>1. CASE <<h, t>> \in Pairs
  BY <1>1, PairSlots
<1>2. CASE <<t, h>> \in Pairs
  <2>1. PICK i \in Slots : arr[i] = t /\ arr[Opposite(i)] = h
    BY <1>2, PairSlots
  <2> QED BY <2>1, OppositeFacts DEF TypeOK
<1> QED BY <1>1, <1>2 DEF Targets

\* assignments_for_pairs gives the pairs of one iteration at most one target per
\* host, and gives it back to the target.
LEMMA OnePairNow ==
  ASSUME TypeOK, SlotsDistinct, NEW h \in Hosts, NEW t \in Targets(Pairs, h)
  PROVE  t # h /\ Targets(Pairs, h) = {t} /\ Targets(Pairs, t) = {h}
<1>1. PICK i \in Slots : arr[i] = h /\ arr[Opposite(i)] = t
  BY TargetSlot
<1>2. Opposite(i) \in Slots /\ Opposite(Opposite(i)) = i /\ Opposite(i) # i
  BY OppositeFacts DEF TypeOK
<1>3. t # h
  BY <1>1, <1>2 DEF SlotsDistinct
<1>4. ASSUME NEW u \in Targets(Pairs, h) PROVE u = t
  <2>1. PICK j \in Slots : arr[j] = h /\ arr[Opposite(j)] = u
    BY TargetSlot
  <2> QED BY <1>1, <2>1 DEF SlotsDistinct
<1>5. h \in Targets(Pairs, t)
  BY DEF Targets
<1>6. ASSUME NEW u \in Targets(Pairs, t) PROVE u = h
  <2>1. PICK j \in Slots : arr[j] = t /\ arr[Opposite(j)] = u
    BY TargetSlot
  <2>2. j = Opposite(i)
    BY <1>1, <1>2, <2>1 DEF SlotsDistinct
  <2> QED BY <1>1, <1>2, <2>1, <2>2
<1> QED BY <1>3, <1>4, <1>5, <1>6

-----------------------------------------------------------------------------
(* The schedule in closed form.                                            *)

\* Without a rotation every slot holds its own number; one more rotation takes
\* what is in a slot's source.
LEMMA TurnedFacts ==
  ASSUME n \in 2 .. MaxHosts
  PROVE  /\ \A i \in Slots : Turned(0, i) = i
         /\ \A k \in 0 .. Len0 - 2 : \A i \in Slots : Turned(k + 1, i) = Turned(k, Source(i))
         /\ \A k \in 0 .. Len0 - 1 : \A i \in Slots : Turned(k, i) \in Slots
         /\ \A k \in 0 .. Len0 - 1 : \A i, j \in Slots : Turned(k, i) = Turned(k, j) => i = j
BY SlotCount DEF Turned, Source, Slots

\* A target of a host after k rotations is in the slot opposite the host's own.
LEMMA TargetTurned ==
  ASSUME n \in 2 .. MaxHosts, NEW k, NEW h, NEW t \in Targets(PairsAfter(k), h)
  PROVE  \E i \in Slots : Turned(k, i) = h /\ Turned(k, Opposite(i)) = t
<1>1. ASSUME NEW a, NEW b, <<a, b>> \in PairsAfter(k)
      PROVE  \E i \in Slots : Turned(k, i) = a /\ Turned(k, Opposite(i)) = b
  <2>1. PICK i \in 0 .. Len0 \div 2 - 1 : <<a, b>> = <<Turned(k, i), Turned(k, Opposite(i))>>
    BY <1>1 DEF PairsAfter
  <2>2. i \in Slots
    BY SlotCount DEF Slots
  <2> QED BY <2>1, <2>2
<1>2. CASE <<h, t>> \in PairsAfter(k)
  BY <1>1, <1>2
<1>3. CASE <<t, h>> \in PairsAfter(k)
  <2>1. PICK i \in Slots : Turned(k, i) = t /\ Turned(k, Opposite(i)) = h
    BY <1>1, <1>3
  <2> QED BY <2>1, OppositeFacts
<1> QED BY <1>2, <1>3 DEF Targets

\* Two hosts that are opposite after k rotations are so after no other number of
\* them: the sum of their slots turns by two, and the slots that turn are odd in
\* number.
LEMMA MeetOnce ==
  ASSUME n \in 2 .. MaxHosts, NEW k \in 0 .. Len0 - 2, NEW l \in 0 .. Len0 - 2,
         NEW i \in Slots, NEW j \in Slots,
         Turned(k, i) = Turned(l, j), Turned(k, Opposite(i)) = Turned(l, Opposite(j))
  PROVE  k = l
<1>1. PICK q \in Nat \ {0} : Len0 = 2 * q
  BY SlotCount
<1>2. /\ i \in 0 .. 2 * q - 1 /\ j \in 0 .. 2 * q - 1
      /\ k \in 0 .. 2 * q - 2 /\ l \in 0 .. 2 * q - 2
  BY <1>1 DEF Slots
<1>3. /\ Opposite(i) = 2 * q - 1 - i /\ Opposite(j) = 2 * q - 1 - j
  BY <1>1 DEF Opposite
<1> DEFINE T(r, s) == IF s = 0 THEN 0 ELSE IF s > r THEN s - r ELSE s - r + 2 * q - 1
<1>4. T(k, i) = T(l, j) /\ T(k, 2 * q - 1 - i) = T(l, 2 * q - 1 - j)
  BY <1>1, <1>2, <1>3 DEF Turned
<1> QED BY <1>2, <1>4

\* Hosts in opposite slots are each other's target.
LEMMA OppositeMeet ==
  ASSUME n \in 2 .. MaxHosts, NEW k, NEW h \in Hosts, NEW t \in Hosts, NEW i \in Slots,
         Turned(k, i) = h, Turned(k, Opposite(i)) = t
  PROVE  t \in Targets(PairsAfter(k), h)
<1>1. h # None /\ t # None
  BY SlotCount DEF Hosts, None
<1>2. Opposite(Opposite(i)) = i
  BY OppositeFacts
<1>3. i \in 0 .. Len0 \div 2 - 1 \/ Opposite(i) \in 0 .. Len0 \div 2 - 1
  BY SlotCount DEF Slots, Opposite
<1>4. CASE i \in 0 .. Len0 \div 2 - 1
  <2>1. <<h, t>> \in PairsAfter(k)
    BY <1>1, <1>4 DEF PairsAfter
  <2> QED BY <2>1 DEF Targets
<1>5. CASE Opposite(i) \in 0 .. Len0 \div 2 - 1
  <2>1. <<t, h>> \in PairsAfter(k)
    BY <1>1, <1>2, <1>5 DEF PairsAfter
  <2> QED BY <2>1 DEF Targets
<1> QED BY <1>3, <1>4, <1>5

\* Any two hosts are opposite after some number of rotations.  If one of them never
\* moves, the number brings the other to the last slot; if both move, it brings the
\* sum of their slots to a multiple of the slots that turn, and of two consecutive
\* multiples one has the right parity.
LEMMA MeetSometime ==
  ASSUME n \in 2 .. MaxHosts, NEW h \in Hosts, NEW t \in Hosts, h # t
  PROVE  \E k \in 0 .. Len0 - 2 : t \in Targets(PairsAfter(k), h)
<1>1. PICK q \in Nat \ {0} : Len0 = 2 * q
  BY SlotCount
<1>2. h \in 0 .. 2 * q - 1 /\ t \in 0 .. 2 * q - 1
  BY <1>1, SlotCount DEF Hosts, Len0
<1> DEFINE T(r, s) == IF s = 0 THEN 0 ELSE IF s > r THEN s - r ELSE s - r + 2 * q - 1
<1>3. \A r, s : Turned(r, s) = T(r, s)
  BY <1>1 DEF Turned
<1>4. \E k \in 0 .. 2 * q - 2, i \in 0 .. 2 * q - 1 : T(k, i) = h /\ T(k, 2 * q - 1 - i) = t
  <2>1. CASE h = 0
    <3>1. T(2 * q - 1 - t, 0) = h /\ T(2 * q - 1 - t, 2 * q - 1) = t
      BY <1>2, <2>1
    <3> HIDE DEF T
    <3>2. 2 * q - 1 - t \in 0 .. 2 * q - 2 /\ 0 \in 0 .. 2 * q - 1 /\ 2 * q - 1 - 0 = 2 * q - 1
      BY <1>2, <2>1
    <3> QED BY <3>1, <3>2
  <2>2. CASE t = 0
    <3>1. T(2 * q - 1 - h, 0) = t /\ T(2 * q - 1 - h, 2 * q - 1) = h
      BY <1>2, <2>2
    <3> HIDE DEF T
    <3>2. /\ 2 * q - 1 - h \in 0 .. 2 * q - 2 /\ 2 * q - 1 \in 0 .. 2 * q - 1
          /\ 2 * q - 1 - (2 * q - 1) = 0
      BY <1>2, <2>2
    <3> QED BY <3>1, <3>2
  <2>3. CASE h # 0 /\ t # 0
    <3>1. \E k \in 0 .. 2 * q - 2 : \/ h + t + 2 * k = 2 * q - 1
                                    \/ h + t + 2 * k = 2 * (2 * q - 1)
                                    \/ h + t + 2 * k = 3 * (2 * q - 1)
      <4> DEFINE e == h + t
      <4>1. PICK half \in Nat : e = 2 * half \/ e = 2 * half + 1
        <5>1. e \div 2 \in Nat /\ (e = 2 * (e \div 2) \/ e = 2 * (e \div 2) + 1)
          BY <1>2
        <5> QED BY <5>1
      <4>2. CASE e = 2 * half
        <5>1. (2 * q - 1) - half \in 0 .. 2 * q - 2 /\ h + t + 2 * ((2 * q - 1) - half) = 2 * (2 * q - 1)
          BY <1>2, <2>3, <4>2
        <5> QED BY <5>1
      <4>3. CASE e = 2 * half + 1 /\ half <= q - 1
        <5>1. q - 1 - half \in 0 .. 2 * q - 2 /\ h + t + 2 * (q - 1 - half) = 2 * q - 1
          BY <1>2, <2>3, <4>3
        <5> QED BY <5>1
      <4>4. CASE e = 2 * half + 1 /\ half > q - 1
        <5>1. /\ 3 * q - 2 - half \in 0 .. 2 * q - 2
              /\ h + t + 2 * (3 * q - 2 - half) = 3 * (2 * q - 1)
          BY <1>2, <2>3, <4>4
        <5> QED BY <5>1
      <4> QED BY <4>1, <4>2, <4>3, <4>4
    <3>2. PICK k \in 0 .. 2 * q - 2 : \/ h + t + 2 * k = 2 * q - 1
                                     \/ h + t + 2 * k = 2 * (2 * q - 1)
                                     \/ h + t + 2 * k = 3 * (2 * q - 1)
      BY <3>1
    <3> DEFINE i == IF h + k <= 2 * q - 1 THEN h + k ELSE h + k - (2 * q - 1)
    <3>3. i \in 0 .. 2 * q - 1
      BY <1>2, <2>3
    <3>4. T(k, i) = h
      BY <1>2, <2>3
    <3>5. T(k, 2 * q - 1 - i) = t
      BY <1>2, <2>3, <3>2
    <3> HIDE DEF i, T
    <3> QED BY <3>3, <3>4, <3>5
  <2> QED BY <2>1, <2>2, <2>3
<1> HIDE DEF T
<1>5. PICK k \in 0 .. 2 * q - 2, i \in 0 .. 2 * q - 1 : T(k, i) = h /\ T(k, 2 * q - 1 - i) = t
  BY <1>4
<1>6. i \in Slots /\ Opposite(i) = 2 * q - 1 - i /\ k \in 0 .. Len0 - 2
  BY <1>1 DEF Slots, Opposite
<1>7. Turned(k, i) = h /\ Turned(k, Opposite(i)) = t
  BY <1>3, <1>5, <1>6
<1> QED BY <1>6, <1>7, OppositeMeet

\* A round has a pair for every slot of the first half, but for the bye's.
LEMMA PairCount ==
  ASSUME n \in 2 .. MaxHosts, NEW k \in 0 .. Len0 - 2
  PROVE  Cardinality(PairsAfter(k)) = n \div 2
<1> DEFINE H == 0 .. Len0 \div 2 - 1
           I == {i \in H : Turned(k, i) # None /\ Turned(k, Opposite(i)) # None}
           f == [i \in I |-> <<Turned(k, i), Turned(k, Opposite(i))>>]
<1>1. H \subseteq Slots /\ Len0 \div 2 \in Nat /\ Len0 = 2 * (Len0 \div 2)
  BY SlotCount DEF Slots
<1>2. IsFiniteSet(H) /\ Cardinality(H) = Len0 \div 2
  <2>1. Len0 \div 2 - 1 \in Int /\ 0 \in Int /\ Len0 \div 2 >= 1
    BY <1>1, SlotCount
  <2> QED BY <1>1, <2>1, FS_Interval
<1>3. IsFiniteSet(I) /\ Cardinality(I) = n \div 2
  <2>1. CASE n % 2 = 0
    <3>1. Len0 = n /\ None \notin Slots
      BY <2>1, SlotCount DEF Len0, None, Slots
    <3>2. I = H
      BY <1>1, <3>1, TurnedFacts, OppositeFacts
    <3> QED BY <1>2, <3>1, <3>2
  <2>2. CASE n % 2 = 1
    <3>1. Len0 = n + 1 /\ None = Len0 - 1 /\ n \div 2 = Len0 \div 2 - 1
      BY <2>2, SlotCount DEF Len0, None
    <3> DEFINE z == IF k = 0 THEN Len0 - 1 ELSE k
    <3>2. z \in Slots /\ Turned(k, z) = None
      BY <3>1, SlotCount DEF Slots, Turned
    <3>3. \A i \in Slots : Turned(k, i) = None => i = z
      <4>1. k \in 0 .. Len0 - 1
        BY SlotCount
      <4> HIDE DEF z
      <4> QED BY <3>2, <4>1, TurnedFacts
    <3>4. PICK b \in H : b = z \/ Opposite(b) = z
      <4>1. Opposite(z) \in Slots /\ Opposite(Opposite(z)) = z
        BY <3>2, OppositeFacts
      <4>2. z \in H \/ Opposite(z) \in H
        BY <1>1, <3>2 DEF Opposite, Slots
      <4> QED BY <4>1, <4>2
    <3>5. I = H \ {b}
      <4>1. ASSUME NEW i \in H PROVE (i = z \/ Opposite(i) = z) <=> i = b
        BY <1>1, <3>4, OppositeFacts DEF Opposite, Slots
      <4>2. \A i \in H : Opposite(i) \in Slots /\ i \in Slots
        BY <1>1, OppositeFacts
      <4> QED BY <3>2, <3>3, <4>1, <4>2
    <3> HIDE DEF H, I
    <3>6. IsFiniteSet(I) /\ Cardinality(I) = Len0 \div 2 - 1
      BY <1>2, <3>4, <3>5, FS_RemoveElement
    <3> QED BY <3>1, <3>6
  <2> QED BY <2>1, <2>2, SlotCount
<1>4. f \in Bijection(I, PairsAfter(k))
  <2>1. f \in [I -> PairsAfter(k)]
    BY DEF PairsAfter
  <2>2. ASSUME NEW a \in I, NEW b \in I, f[a] = f[b] PROVE a = b
    <3>1. Turned(k, a) = Turned(k, b)
      BY <2>2
    <3> QED BY <1>1, <3>1, TurnedFacts
  <2>3. ASSUME NEW p \in PairsAfter(k) PROVE \E i \in I : f[i] = p
    BY DEF PairsAfter
  <2> QED BY <2>1, <2>2, <2>3 DEF Bijection, Injection, Surjection, IsInjective
<1> HIDE DEF I, f
<1>5. ExistsBijection(I, PairsAfter(k))
  BY <1>4 DEF ExistsBijection
<1> QED BY <1>3, <1>5, FS_Bijection

-----------------------------------------------------------------------------
(* The theorems about the plan.                                            *)

\* The schedule starts with every host in its own slot.
LEMMA InitIInv == Init => IInv
<1> SUFFICES ASSUME Init PROVE IInv
  OBVIOUS
<1>1. rounds \in Seq(SUBSET (Hosts \X Hosts)) /\ Len(rounds) = 0
  BY EmptySeq DEF Init
<1>2. n \in 2 .. MaxHosts /\ arr = [i \in Slots |-> i]
  BY DEF Init
<1>3. TypeOK
  BY <1>1, <1>2, SlotCount DEF TypeOK, Slots, Entries
<1>4. SlotsDistinct
  BY <1>2 DEF SlotsDistinct
<1>5. Schedule
  BY <1>1, <1>2, TurnedFacts DEF Schedule
<1> QED BY <1>1, <1>3, <1>4, <1>5 DEF IInv, OnePairPerRound

\* An iteration of round_robin_rounds keeps the slots a permutation and adds a
\* round of disjoint pairs.
LEMMA NextRoundIInv == ASSUME IInv, NextRound PROVE IInv'
<1> DEFINE m == Len(rounds)
<1>1. n' = n /\ arr' = Rotated /\ rounds' = Append(rounds, Pairs) /\ m < Len0 - 1
  BY DEF NextRound
<1>2. UNCHANGED <<Hosts, Len0, Slots, Entries>>
  BY <1>1 DEF Hosts, Len0, Slots, Entries
<1>3. Pairs \in SUBSET (Hosts \X Hosts)
  BY PairSlots DEF IInv
<1>4. m \in Nat /\ Len0 \in Nat
  BY SlotCount DEF IInv, TypeOK
<1>5. /\ rounds' \in Seq(SUBSET (Hosts \X Hosts)) /\ Len(rounds') = m + 1
      /\ \A r \in 1 .. m : rounds'[r] = rounds[r]
      /\ rounds'[m + 1] = Pairs
  BY <1>1, <1>3, AppendProperties DEF IInv, TypeOK
<1>6. TypeOK'
  BY <1>1, <1>2, <1>4, <1>5, RotatedFacts DEF IInv, TypeOK
<1>7. SlotsDistinct'
  BY <1>1, <1>2, RotatedFacts DEF IInv, SlotsDistinct
<1>8. OnePairPerRound'
  <2>1. OnePairAmong(Pairs)
    BY OnePairNow DEF IInv, OnePairAmong
  <2>2. ASSUME NEW r \in 1 .. m + 1 PROVE OnePairAmong(rounds'[r])
    BY <1>4, <1>5, <2>1, <2>2 DEF IInv, OnePairPerRound
  <2> QED BY <1>2, <1>5, <2>2, ZenonT(60) DEF OnePairPerRound, OnePairAmong, Targets
<1>9. Schedule'
  <2>1. arr = [i \in Slots |-> Turned(m, i)] /\ n \in 2 .. MaxHosts /\ m \in 0 .. Len0 - 2
    BY <1>1, <1>4 DEF IInv, TypeOK, Schedule
  <2>2. Pairs = PairsAfter(m)
    <3>1. \A i \in 0 .. Len0 \div 2 - 1 : i \in Slots /\ Opposite(i) \in Slots
      BY <2>1, SlotCount DEF Slots, Opposite
    <3>2. {<<arr[i], arr[Opposite(i)]>> : i \in 0 .. Len0 \div 2 - 1}
            = {<<Turned(m, i), Turned(m, Opposite(i))>> : i \in 0 .. Len0 \div 2 - 1}
      BY <2>1, <3>1
    <3> QED BY <3>2 DEF Pairs, PairsAfter
  <2>3. Rotated = [i \in Slots |-> Turned(m + 1, i)]
    <3>1. Rotated = [i \in Slots |-> arr[Source(i)]]
      BY RotatedSource DEF IInv
    <3>2. \A i \in Slots : arr[Source(i)] = Turned(m + 1, i)
      BY <2>1, TurnedFacts, SourceFacts
    <3> QED BY <3>1, <3>2
  <2>4. \A k, i : Turned(k, i)' = Turned(k, i)
    BY <1>2 DEF Turned
  <2>5. \A k : PairsAfter(k)' = PairsAfter(k)
    BY <1>1, <1>2 DEF PairsAfter, Turned, Opposite, None
  <2>6. arr' = [i \in Slots |-> Turned(Len(rounds), i)]'
    BY <1>1, <1>2, <1>5, <2>3, <2>4
  <2>7. ASSUME NEW r \in 1 .. m + 1 PROVE rounds'[r] = PairsAfter(r - 1)
    <3>1. CASE r \in 1 .. m
      BY <1>5, <3>1 DEF IInv, Schedule
    <3>2. CASE r = m + 1
      BY <1>4, <1>5, <2>2, <3>2
    <3> QED BY <1>4, <3>1, <3>2
  <2> QED BY <1>5, <2>5, <2>6, <2>7 DEF Schedule
<1> QED BY <1>6, <1>7, <1>8, <1>9 DEF IInv

\* The inductive invariant is kept by every step.
LEMMA NextIInv == IInv /\ [Next]_vars => IInv'
<1>1. ASSUME IInv, UNCHANGED vars PROVE IInv'
  <2>1. UNCHANGED <<n, arr, rounds>>
    BY <1>1 DEF vars
  <2>2. UNCHANGED <<Hosts, Len0, Slots, Entries>>
    BY <2>1 DEF Hosts, Len0, Slots, Entries
  <2>3. TypeOK'
    BY <1>1, <2>1, <2>2 DEF IInv, TypeOK
  <2>4. SlotsDistinct'
    BY <1>1, <2>1, <2>2 DEF IInv, SlotsDistinct
  <2>5. OnePairPerRound'
    <3>1. rounds' = rounds
      BY <2>1
    <3>2. ASSUME NEW r \in 1 .. Len(rounds') PROVE OnePairAmong(rounds'[r])
      BY <1>1, <3>1, <3>2 DEF IInv, OnePairPerRound
    <3> QED BY <2>2, <3>2, ZenonT(60) DEF OnePairPerRound, OnePairAmong, Targets
  <2>6. Schedule'
    <3>1. \A k, i : Turned(k, i)' = Turned(k, i)
      BY <2>2 DEF Turned
    <3>2. \A k : PairsAfter(k)' = PairsAfter(k)
      BY <2>1, <2>2 DEF PairsAfter, Turned, Opposite, None
    <3> QED BY <1>1, <2>1, <2>2, <3>1, <3>2 DEF IInv, Schedule
  <2> QED BY <2>3, <2>4, <2>5, <2>6 DEF IInv
<1> QED BY <1>1, NextRoundIInv DEF Next

\* The inductive invariant of the schedule holds for a hostlist of any length.
THEOREM Invariance == Spec => []IInv
BY InitIInv, NextIInv, PTL DEF Spec

\* The slots always hold hosts and the bye, and the rounds pairs of hosts.
THEOREM TypeCorrect == Spec => []TypeOK
<1>1. IInv => TypeOK
  BY DEF IInv
<1> QED BY <1>1, Invariance, PTL

\* In no round, of a hostlist of any length, is a host in two pairs or in a pair
\* with itself.
THEOREM OnePairPerRoundCorrect == Spec => []OnePairPerRound
<1>1. IInv => OnePairPerRound
  BY DEF IInv
<1> QED BY <1>1, Invariance, PTL

\* No two hosts meet twice, and a finished tournament covers what a mesh covers in
\* the number of rounds and pairs the doc comment gives, for a hostlist of any
\* length: each round is the one the closed form gives (testplan.rs 5-10, 38-58).
THEOREM FullCoverCorrect == Spec => []FullCover
<1>1. IInv => FullCover
  <2> SUFFICES ASSUME IInv PROVE FullCover
    OBVIOUS
  <2> DEFINE m == Len(rounds)
  <2>1. /\ n \in 2 .. MaxHosts /\ m \in Nat /\ m <= Len0 - 1 /\ Len0 \in Nat /\ n \in Nat
        /\ \A r \in 1 .. m : rounds[r] = PairsAfter(r - 1) /\ r - 1 \in 0 .. Len0 - 2
    BY SlotCount DEF IInv, TypeOK, Schedule
  <2>2. MeetAtMostOnce
    <3> SUFFICES ASSUME NEW r1 \in 1 .. m, NEW r2 \in 1 .. m, NEW h \in Hosts, NEW t,
                        t \in Targets(rounds[r1], h), t \in Targets(rounds[r2], h)
                 PROVE  r1 = r2
      BY DEF MeetAtMostOnce
    <3>1. PICK i \in Slots : Turned(r1 - 1, i) = h /\ Turned(r1 - 1, Opposite(i)) = t
      BY <2>1, TargetTurned
    <3>2. PICK j \in Slots : Turned(r2 - 1, j) = h /\ Turned(r2 - 1, Opposite(j)) = t
      BY <2>1, TargetTurned
    <3>3. r1 - 1 = r2 - 1
      BY <2>1, <3>1, <3>2, MeetOnce
    <3> QED BY <2>1, <3>3
  <2>3. ASSUME m = Len0 - 1
        PROVE  /\ m = IF n % 2 = 0 THEN n - 1 ELSE n
               /\ \A r \in 1 .. m : Cardinality(rounds[r]) = n \div 2
               /\ \A h \in Hosts : UNION {Targets(rounds[r], h) : r \in 1 .. m} = MeshTargets(h)
    <3>1. m = IF n % 2 = 0 THEN n - 1 ELSE n
      BY <2>1, <2>3 DEF Len0
    <3>2. \A r \in 1 .. m : Cardinality(rounds[r]) = n \div 2
      BY <2>1, PairCount
    <3>3. ASSUME NEW h \in Hosts
          PROVE  UNION {Targets(rounds[r], h) : r \in 1 .. m} = MeshTargets(h)
      <4>1. ASSUME NEW r \in 1 .. m, NEW t \in Targets(rounds[r], h) PROVE t \in MeshTargets(h)
        BY <4>1 DEF IInv, OnePairPerRound, OnePairAmong, MeshTargets, Targets
      <4>2. ASSUME NEW t \in MeshTargets(h) PROVE \E r \in 1 .. m : t \in Targets(rounds[r], h)
        <5>1. PICK k \in 0 .. Len0 - 2 : t \in Targets(PairsAfter(k), h)
          BY <2>1, MeetSometime DEF MeshTargets
        <5>2. k + 1 \in 1 .. m /\ (k + 1) - 1 = k
          BY <2>1, <2>3
        <5>3. rounds[k + 1] = PairsAfter(k)
          BY <2>1, <5>2
        <5> QED BY <5>1, <5>2, <5>3
      <4> QED BY <4>1, <4>2
    <3> QED BY <3>1, <3>2, <3>3
  <2> QED BY <2>2, <2>3 DEF FullCover
<1> QED BY <1>1, Invariance, PTL

-----------------------------------------------------------------------------
(* The retry loop.                                                         *)

\* Each host's loop starts within all bounds.
LEMMA RetryStartInv ==
  ASSUME token \in BOOLEAN, RetryStart
  PROVE  RetryInv
<1>1. RetryTypeOK
  <2>1. there \in BOOLEAN /\ missed \in BOOLEAN
    BY DEF RetryStart
  <2>2. /\ elapsed \in Nat /\ steady \in Nat /\ delay \in 1 .. MaxDelay /\ left \in 0 .. MaxDelay
        /\ spent \in 0 .. MaxAttempt /\ since \in 0 .. MaxAttempt
    BY RetryAssumption DEF RetryStart
  <2>3. at \in {"top", "attempt", "sleep"} \cup Ended
    BY DEF RetryStart
  <2> QED BY <2>1, <2>2, <2>3 DEF RetryTypeOK
<1>2. OnTime /\ Patient /\ Heeded /\ RetryBounds
  BY RetryAssumption DEF RetryStart, OnTime, Patient, Heeded, RetryBounds, Ended
<1> QED BY <1>1, <1>2 DEF RetryInv
\* A loop that was started afresh for the next host inherits only the token: when
\* it is cancelled, the next look at it ends the loop.
LEMMA AfreshInv ==
  ASSUME RetryInv, RetryAfresh
  PROVE  RetryInv'
<1> USE RetryAssumption DEF RetryInv
<1>1. token' \in BOOLEAN /\ there' \in BOOLEAN /\ missed' \in BOOLEAN
  BY DEF RetryAfresh, RetryTypeOK
<1>2. /\ at' = "top" /\ elapsed' = 0 /\ delay' = 1 /\ left' = 0 /\ spent' = 0 /\ steady' = 0
      /\ since' \in 0 .. MaxAttempt
  BY DEF RetryAfresh, RetryTypeOK
<1>3. RetryTypeOK'
  BY <1>1, <1>2 DEF RetryTypeOK
<1>4. Heeded'
  BY <1>2 DEF RetryAfresh, Heeded
<1>5. OnTime'
  BY <1>2 DEF OnTime
<1>6. Patient'
  <2>1. steady' <= MaxAttempt + MaxDelay
    BY <1>2
  <2> QED BY <1>2, <2>1 DEF Patient
<1>7. RetryBounds'
  <2>1. steady' <= MaxAttempt + MaxDelay + MaxAttempt
    BY <1>2
  <2> QED BY <1>2, <2>1 DEF RetryBounds
<1> QED BY <1>3, <1>4, <1>5, <1>6, <1>7

\* The top of the loop: a cancelled token ends it, so an attempt begins with a
\* token that is not; and an attempt that begins without the other side has
\* missed it.
LEMMA CheckTokenInv ==
  ASSUME RetryInv, CheckToken
  PROVE  RetryInv'
<1> USE RetryAssumption DEF RetryInv
<1>1. /\ at = "top" /\ at' \in {"cancelled", "attempt"} /\ spent' = 0
      /\ UNCHANGED <<token, elapsed, delay, left, there, steady, since>>
  BY DEF CheckToken
<1>2. missed' \in BOOLEAN /\ missed' = ~there /\ (at' = "attempt" => ~token)
  BY DEF CheckToken, RetryTypeOK
<1>3. RetryTypeOK'
  <2>1. at' \in {"top", "attempt", "sleep"} \cup Ended
    BY <1>1 DEF Ended
  <2>2. spent' \in 0 .. MaxAttempt
    BY <1>1
  <2> QED BY <1>1, <1>2, <2>1, <2>2 DEF RetryTypeOK
<1>4. OnTime'
  <2>1. elapsed < Deadline + MaxDelay /\ elapsed \in Nat
    BY <1>1 DEF OnTime, RetryTypeOK
  <2>2. elapsed < Deadline + MaxDelay + 0
    BY <2>1
  <2> QED BY <1>1, <2>2 DEF OnTime
<1>5. Patient'
  <2>1. steady <= MaxAttempt + MaxDelay /\ steady \in Nat /\ (~there => steady = 0)
    BY <1>1 DEF Patient, RetryTypeOK
  <2>2. steady <= MaxAttempt + MaxDelay + 0 /\ 0 <= 0
    BY <2>1
  <2> QED BY <1>1, <1>2, <2>1, <2>2 DEF Patient
<1>6. Heeded'
  <2>1. 0 <= 0
    OBVIOUS
  <2> QED BY <1>1, <1>2, <2>1 DEF Heeded
<1>7. RetryBounds'
  <2>1. steady <= MaxAttempt + MaxDelay /\ steady \in Nat
    BY <1>1 DEF Patient, RetryTypeOK
  <2>2. steady <= MaxAttempt + MaxDelay + MaxAttempt
    BY <2>1
  <2> QED BY <1>1, <2>2 DEF RetryBounds, Ended
<1> QED BY <1>3, <1>4, <1>5, <1>6, <1>7

\* A failed attempt looks at the deadline, and gives up or sleeps.
LEMMA FailInv ==
  ASSUME RetryInv, Fail
  PROVE  RetryInv'
<1> USE RetryAssumption DEF RetryInv
<1>1. at = "attempt" /\ UNCHANGED <<token, elapsed, delay, spent, there, missed, steady, since>>
  BY DEF Fail
<1>2. /\ elapsed \in Nat /\ steady \in Nat /\ delay \in 1 .. MaxDelay /\ left \in 0 .. MaxDelay
      /\ spent \in 0 .. MaxAttempt /\ elapsed < Deadline + MaxDelay + spent /\ steady <= spent
  BY <1>1 DEF Fail, RetryTypeOK, OnTime, Patient
<1>3. Heeded'
  <2>1. at' # "attempt"
    BY DEF Fail
  <2> QED BY <1>1, <2>1 DEF Heeded
<1>4. CASE elapsed >= Deadline
  <2>1. at' = "gave up" /\ left' = left
    BY <1>4 DEF Fail
  <2>2. RetryTypeOK'
    BY <1>1, <2>1 DEF RetryTypeOK, Ended
  <2>3. OnTime' /\ Patient'
    BY <1>1, <2>1 DEF OnTime, Patient
  <2>4. /\ elapsed' >= Deadline /\ elapsed' < Deadline + MaxDelay + MaxAttempt
        /\ steady' <= MaxAttempt
    BY <1>1, <1>2, <1>4
  <2>5. RetryBounds'
    BY <2>1, <2>4 DEF RetryBounds, Ended
  <2> QED BY <1>3, <2>2, <2>3, <2>5
<1>5. CASE ~(elapsed >= Deadline)
  <2>1. at' = "sleep" /\ left' = delay
    BY <1>5 DEF Fail
  <2>2. left' \in 0 .. MaxDelay
    BY <1>2, <2>1
  <2>3. RetryTypeOK'
    BY <1>1, <2>1, <2>2 DEF RetryTypeOK, Ended
  <2>4. /\ elapsed' + left' < Deadline + MaxDelay
        /\ steady' + left' <= MaxAttempt + MaxDelay
        /\ steady' <= MaxAttempt + MaxDelay + MaxAttempt
    BY <1>1, <1>2, <1>5, <2>1
  <2>5. OnTime'
    BY <2>1, <2>4 DEF OnTime
  <2>6. ~there' => steady' = 0
    BY <1>1 DEF Patient
  <2>7. Patient'
    BY <2>1, <2>4, <2>6 DEF Patient
  <2>8. RetryBounds'
    BY <2>1, <2>4 DEF RetryBounds
  <2> QED BY <1>3, <2>3, <2>5, <2>7, <2>8
<1> QED BY <1>4, <1>5

\* A sleep ends: the delay doubles up to its ceiling.
LEMMA WakeInv ==
  ASSUME RetryInv, Wake
  PROVE  RetryInv'
<1> USE RetryAssumption DEF RetryInv
<1>1. /\ at = "sleep" /\ left = 0 /\ at' = "top"
      /\ UNCHANGED <<token, elapsed, left, spent, there, missed, steady, since>>
      /\ delay' = IF 2 * delay < MaxDelay THEN 2 * delay ELSE MaxDelay
  BY DEF Wake
<1>2. RetryTypeOK'
  <2>1. delay' \in 1 .. MaxDelay
    BY <1>1 DEF RetryTypeOK
  <2> QED BY <1>1, <2>1 DEF RetryTypeOK
<1>3. OnTime'
  BY <1>1 DEF OnTime, RetryTypeOK
<1>4. steady <= MaxAttempt + MaxDelay /\ steady <= MaxAttempt + MaxDelay + MaxAttempt
  BY <1>1 DEF Patient, RetryTypeOK
<1>5. Patient' /\ Heeded' /\ RetryBounds'
  BY <1>1, <1>4 DEF Patient, Heeded, RetryBounds
<1> QED BY <1>2, <1>3, <1>5

\* Time passes in an attempt or in a sleep.
LEMMA PassInv ==
  ASSUME RetryInv, Pass
  PROVE  RetryInv'
<1> USE RetryAssumption DEF RetryInv
<1>1. /\ UNCHANGED <<token, at, delay, there, missed>> /\ elapsed' = elapsed + 1
      /\ \/ at = "attempt" /\ spent < MaxAttempt /\ spent' = spent + 1 /\ left' = left
         \/ at = "sleep" /\ left > 0 /\ left' = left - 1 /\ spent' = spent
  BY DEF Pass
<1>2. (there /\ steady' = steady + 1) \/ (~there /\ steady' = 0)
  BY DEF Pass
<1>3. (token /\ at = "attempt" /\ since' = since + 1) \/ (since' = since)
  BY DEF Pass
<1>4. steady' = steady + 1 \/ steady' = 0
  BY <1>2
<1>5. (at = "attempt" /\ since' = since + 1) \/ since' = since
  BY <1>3
<1>6. /\ elapsed' \in Nat /\ steady' \in Nat /\ left' \in 0 .. MaxDelay /\ spent' \in 0 .. MaxAttempt
  BY <1>1, <1>4 DEF RetryTypeOK
<1>7. since' \in 0 .. MaxAttempt /\ (at' = "attempt" => since' <= spent')
  BY <1>1, <1>5 DEF RetryTypeOK, Heeded
<1>8. RetryTypeOK'
  BY <1>1, <1>6, <1>7 DEF RetryTypeOK
<1>9. OnTime'
  BY <1>1 DEF OnTime, RetryTypeOK
<1>10. Heeded'
  <2>1. ~token' => since' = 0
    BY <1>1, <1>3 DEF Heeded
  <2> QED BY <1>7, <2>1 DEF Heeded
<1>11. Patient'
  <2>1. ~there' => steady' = 0
    BY <1>1, <1>2
  <2>2. at' = "attempt" => steady' <= MaxAttempt + MaxDelay + spent'
    BY <1>1, <1>4 DEF RetryTypeOK, Patient
  <2>3. at' = "sleep" => steady' + left' <= MaxAttempt + MaxDelay
    BY <1>1, <1>4 DEF RetryTypeOK, Patient
  <2>4. ASSUME at' = "attempt", missed' PROVE steady' <= spent'
    <3>1. at = "attempt" /\ steady <= spent
      BY <1>1, <2>4 DEF Patient
    <3> QED BY <1>1, <1>4, <3>1 DEF RetryTypeOK
  <2>5. at' # "top"
    BY <1>1
  <2> QED BY <2>1, <2>2, <2>3, <2>4, <2>5 DEF Patient
<1>12. RetryBounds'
  <2>1. at' = at /\ at \in {"attempt", "sleep"}
    BY <1>1
  <2>2. /\ steady' \in Nat /\ left' \in 0 .. MaxDelay /\ spent' \in 0 .. MaxAttempt
        /\ \/ steady' <= MaxAttempt + MaxDelay + spent'
           \/ steady' + left' <= MaxAttempt + MaxDelay
    BY <1>6, <1>11, <2>1 DEF Patient
  <2>3. steady' <= MaxAttempt + MaxDelay + MaxAttempt
    <3>1. \A s, l, p, d, a \in Nat : l <= d /\ p <= a /\ (s <= a + d + p \/ s + l <= a + d)
                                     => s <= a + d + a
      OBVIOUS
    <3>2. /\ left' \in Nat /\ left' <= MaxDelay /\ spent' \in Nat /\ spent' <= MaxAttempt
          /\ MaxDelay \in Nat /\ MaxAttempt \in Nat
      BY <2>2
    <3> QED BY <2>2, <3>1, <3>2
  <2> QED BY <2>1, <2>3 DEF RetryBounds
<1> QED BY <1>8, <1>9, <1>10, <1>11, <1>12

\* The loop returns, the other side comes or goes, or the token is cancelled: no
\* time passes.
LEMMA InstantInv ==
  ASSUME RetryInv, Succeed \/ WakeCancelled \/ Comes \/ Goes \/ Cancel
  PROVE  RetryInv'
<1> USE RetryAssumption DEF RetryInv
<1>1. UNCHANGED <<elapsed, delay, left, spent, since>>
  BY DEF Succeed, WakeCancelled, Comes, Goes, Cancel
<1>2. at' = at \/ at' \in {"ok", "cancelled"}
  BY DEF Succeed, WakeCancelled, Comes, Goes, Cancel
<1>3. steady' = steady \/ (steady' = 0 /\ at \notin Ended)
  BY DEF Succeed, WakeCancelled, Comes, Goes, Cancel
<1>4. token' \in BOOLEAN /\ there' \in BOOLEAN /\ missed' \in BOOLEAN
  BY DEF RetryTypeOK, Succeed, WakeCancelled, Comes, Goes, Cancel
<1>5. RetryTypeOK'
  <2>1. steady' \in Nat /\ steady' <= steady
    BY <1>3 DEF RetryTypeOK
  <2>2. at' \in {"top", "attempt", "sleep"} \cup Ended
    BY <1>2 DEF RetryTypeOK, Ended
  <2> QED BY <1>1, <1>4, <2>1, <2>2 DEF RetryTypeOK
<1>6. OnTime'
  BY <1>1, <1>2 DEF OnTime
<1>7. Heeded'
  <2>1. ~token' => ~token
    BY DEF RetryTypeOK, Succeed, WakeCancelled, Comes, Goes, Cancel
  <2> QED BY <1>1, <1>2, <2>1 DEF Heeded
<1>8. Patient'
  <2>1. /\ at' = "top" => steady' <= MaxAttempt + MaxDelay
        /\ at' = "attempt" => steady' <= MaxAttempt + MaxDelay + spent'
        /\ at' = "sleep" => steady' + left' <= MaxAttempt + MaxDelay
    BY <1>1, <1>2, <1>3 DEF Patient, RetryTypeOK
  <2>2. ~there' => steady' = 0
    BY DEF Patient, RetryTypeOK, Succeed, WakeCancelled, Comes, Goes, Cancel
  <2>3. ASSUME at' = "attempt", missed' PROVE steady' <= spent'
    <3>1. steady' = 0 \/ (missed /\ steady' = steady)
      BY <2>3 DEF Succeed, WakeCancelled, Comes, Goes, Cancel
    <3>2. steady' = 0 \/ steady' <= spent
      BY <1>2, <2>3, <3>1 DEF Patient
    <3> QED BY <1>1, <3>2 DEF RetryTypeOK
  <2> QED BY <2>1, <2>2, <2>3 DEF Patient
<1>9. RetryBounds'
  <2>1. ASSUME at' = "gave up" PROVE at = "gave up" /\ steady' = steady
    BY <1>2, <1>3, <2>1 DEF Ended
  <2>2. ASSUME at' \notin Ended PROVE steady' <= MaxAttempt + MaxDelay + MaxAttempt
    <3>1. at \notin Ended
      BY <1>2, <2>2 DEF Ended
    <3>2. steady \in Nat /\ steady <= MaxAttempt + MaxDelay + MaxAttempt
      BY <3>1 DEF RetryBounds, RetryTypeOK
    <3>3. 0 <= MaxAttempt + MaxDelay + MaxAttempt
      OBVIOUS
    <3> QED BY <1>3, <3>2, <3>3
  <2> QED BY <1>1, <2>1, <2>2 DEF RetryBounds
<1> QED BY <1>5, <1>6, <1>7, <1>8, <1>9

-----------------------------------------------------------------------------
(* The address of a host.                                                  *)

\* ToSet of a sequence of addresses is a set of addresses.
LEMMA MatchingFacts ==
  ASSUME NEW answer \in Answers
  PROVE  Matching(answer) \subseteq [v : {"v4", "v6"}, loop : BOOLEAN]
<1>1. answer \in Seq([v : {"v4", "v6"}, loop : BOOLEAN])
  BY SetupAssumption
<1>2. \A i \in 1 .. Len(answer) : answer[i] \in [v : {"v4", "v6"}, loop : BOOLEAN]
  BY <1>1, ElementOfSeq
<1> QED BY <1>1, <1>2 DEF Matching, ToSet

\* pick_addr returns one of the matching addresses, and a loopback one only if
\* there is no other.
LEMMA PickAddrFacts ==
  ASSUME NEW answer \in Answers, Matching(answer) # {}
  PROVE  /\ PickAddr(answer) \in Matching(answer)
         /\ PickAddr(answer).loop => \A a \in Matching(answer) : a.loop
<1> DEFINE M == Matching(answer)
           I == {i \in 1 .. 4 : Preference[i] \in M}
<1>1. /\ Preference[1] = [v |-> "v4", loop |-> FALSE] /\ Preference[2] = [v |-> "v6", loop |-> FALSE]
      /\ Preference[3] = [v |-> "v4", loop |-> TRUE] /\ Preference[4] = [v |-> "v6", loop |-> TRUE]
  BY DEF Preference
<1>2. ASSUME NEW a \in M PROVE \E i \in 1 .. 4 : Preference[i] = a
  <2>1. PICK u \in {"v4", "v6"}, l \in BOOLEAN : a = [v |-> u, loop |-> l]
    BY MatchingFacts
  <2>2. CASE u = "v4"
    <3>1. a = Preference[1] \/ a = Preference[3]
      BY <1>1, <2>1, <2>2
    <3> QED BY <3>1
  <2>3. CASE u = "v6"
    <3>1. a = Preference[2] \/ a = Preference[4]
      BY <1>1, <2>1, <2>3
    <3> QED BY <3>1
  <2> QED BY <2>1, <2>2, <2>3
<1>3. PICK i \in I : \A j \in I : i <= j
  <2>1. I # {}
    BY <1>2
  <2> QED BY <2>1
<1>4. Min(I) = i
  <2>1. \A x \in I : (\A y \in I : x <= y) => x = i
    BY <1>3
  <2> QED BY <1>3, <2>1 DEF Min
<1>5. PickAddr(answer) = Preference[i] /\ Preference[i] \in M
  BY <1>4 DEF PickAddr
<1>6. ASSUME Preference[i].loop, NEW a \in M PROVE a.loop
  <2>1. i \in {3, 4}
    BY <1>1, <1>6
  <2>2. PICK j \in 1 .. 4 : Preference[j] = a
    BY <1>2
  <2>3. j \in {3, 4}
    BY <1>3, <2>1, <2>2
  <2> QED BY <1>1, <2>2, <2>3
<1> QED BY <1>5, <1>6
-----------------------------------------------------------------------------
(* The set-up.                                                             *)

\* Before the first lookup.
LEMMA SetupStarts == SetupInit => SetupInv
<1> SUFFICES ASSUME SetupInit PROVE SetupInv
  OBVIOUS
<1>1. token \in BOOLEAN /\ RetryStart
  BY DEF SetupInit
<1>2. config \in Configs /\ resolved = <<>>
  BY DEF SetupInit
<1> QED BY <1>1, <1>2, RetryStartInv DEF SetupInv, AddressesUsable

\* A lookup that succeeds leaves an address picked from its answer.
LEMMA ResolveOkInv ==
  ASSUME SetupInv, ResolveOk
  PROVE  SetupInv'
<1>1. RetryInv'
  BY InstantInv DEF ResolveOk, SetupInv
<1>2. config' = config
  BY DEF ResolveOk
<1>3. PICK answer \in Answers : Matching(answer) # {} /\ resolved' = <<answer, PickAddr(answer)>>
  BY DEF ResolveOk, Resolves
<1>4. resolved'[1] = answer /\ resolved'[2] = PickAddr(answer)
  BY <1>3
<1>5. {a \in ToSet(resolved'[1]) : config'.family \in {"any", a.v}} = Matching(answer)
  BY <1>2, <1>4 DEF Matching
<1>6. AddressesUsable'
  BY <1>3, <1>4, <1>5, PickAddrFacts DEF AddressesUsable
<1> QED BY <1>1, <1>2, <1>6 DEF SetupInv

\* Every step of the set-up.
LEMMA SetupNextInv == SetupInv /\ [SetupNext]_allvars => SetupInv'
<1> SUFFICES ASSUME SetupInv, [SetupNext]_allvars PROVE SetupInv'
  OBVIOUS
<1>1. CASE ResolveOk
  BY <1>1, ResolveOkInv
<1>2. CASE ~ResolveOk
  <2>1. config' = config /\ resolved' = resolved
    BY <1>2 DEF SetupNext, ConfigRefused, ConfigRead, LoopStep, ConnectOk, NextHost, SetupFails,
       Signal, PlanRound, allvars, setup
  <2>2. AddressesUsable'
    BY <2>1 DEF SetupInv, AddressesUsable
  <2>3. RetryInv'
    <3>1. CASE LoopStep
      BY <3>1, CheckTokenInv, FailInv, WakeInv, PassInv, InstantInv DEF LoopStep, SetupInv
    <3>2. CASE ConnectOk \/ Signal
      BY <3>2, InstantInv DEF ConnectOk, Signal, SetupInv
    <3>3. CASE NextHost
      BY <3>3, AfreshInv DEF NextHost, SetupInv
    <3>4. CASE UNCHANGED retry
      BY <3>4, ZenonT(60) DEF retry, SetupInv, RetryInv, RetryTypeOK, OnTime, Patient, Heeded, RetryBounds
    <3> QED BY <1>2, <3>1, <3>2, <3>3, <3>4 DEF SetupNext, ConfigRefused, ConfigRead, SetupFails,
            PlanRound, allvars
  <2> QED BY <2>1, <2>2, <2>3 DEF SetupInv
<1> QED BY <1>1, <1>2

\* The set-up never leaves its invariant (netutil.rs 133-168, 217-295; client.rs
\* 41-77).
THEOREM SetupInvariance == SetupSpec => []SetupInv
BY SetupStarts, SetupNextInv, PTL DEF SetupSpec

\* The retry loop gives up neither early nor late nor on a peer it could have
\* reached, and reaches one that stays within the attempt it came in, a delay and
\* an attempt, for every deadline, ceiling and length of an attempt (netutil.rs
\* 224-243, 271-294).
THEOREM RetryBoundsCorrect == SetupSpec => []RetryBounds
<1>1. SetupInv => RetryBounds
  BY DEF SetupInv, RetryInv
<1> QED BY <1>1, SetupInvariance, PTL

\* Every host gets an address of the right family, and a loopback one only if the
\* lookup had no other, whatever lookups answer (netutil.rs 131-169).
THEOREM AddressesUsableCorrect == SetupSpec => []AddressesUsable
<1>1. SetupInv => AddressesUsable
  BY DEF SetupInv
<1> QED BY <1>1, SetupInvariance, PTL

\* A signal ends the set-up within the attempt it came in, however many hosts are
\* left (netutil.rs 226-228, 237-240; client.rs 42-77).
THEOREM SignalEndsSetupCorrect == SetupSpec => []SignalEndsSetup
<1>1. SetupInv => SignalEndsSetup
  <2> SUFFICES ASSUME SetupInv PROVE since <= MaxAttempt
    BY DEF SignalEndsSetup
  <2>1. since \in 0 .. MaxAttempt
    BY DEF SetupInv, RetryInv, RetryTypeOK
  <2> QED BY <2>1, RetryAssumption
<1> QED BY <1>1, SetupInvariance, PTL

-----------------------------------------------------------------------------
(* The plan of a set-up.                                                   *)

\* The set-up computes the plan of the hostlist it read, as TestPlan does: its
\* rounds are those of round_robin_rounds (testplan.rs 11-36).
THEOREM SetupRunsPlan == SetupSpec => Spec
<1>1. SetupInit => Init
  <2> SUFFICES ASSUME SetupInit PROVE Init
    OBVIOUS
  <2>1. n \in 2 .. MaxHosts
    <3>1. expanded = ExpandHostlist(config.items) /\ config \in Configs
      BY DEF SetupInit
    <3>2. Len(expanded.hosts) \in 0 .. MaxHosts
      BY <3>1, SetupAssumption
    <3>3. Valid => Len(expanded.hosts) >= 2
      BY DEF Valid
    <3>4. (n = Len(expanded.hosts) /\ Valid) \/ n = 2
      BY DEF SetupInit
    <3> QED BY <3>2, <3>3, <3>4, PlanAssumption
  <2> QED BY <2>1 DEF SetupInit, Init
<1>2. [SetupNext]_allvars => [Next]_vars
  BY DEF SetupNext, ConfigRefused, ConfigRead, LoopStep, ResolveOk, ConnectOk, NextHost, SetupFails,
     Signal, PlanRound, Next, allvars
<1> QED BY <1>1, <1>2, PTL DEF SetupSpec, Spec

\* So in every round of a set-up's plan a host is in at most one pair, no two hosts
\* meet twice, and a finished plan covers what a mesh run covers.
THEOREM SetupPlanCorrect == SetupSpec => [](OnePairPerRound /\ FullCover)
BY SetupRunsPlan, OnePairPerRoundCorrect, FullCoverCorrect, PTL
=============================================================================
