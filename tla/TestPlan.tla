------------------------------ MODULE TestPlan ------------------------------
(***************************************************************************)
(* The test plan (testplan.rs): the round-robin schedule of the pairs      *)
(* type, one round per iteration of round_robin_rounds, the assignment     *)
(* each server gets in a round, and the assignments of the mesh type.      *)
(*                                                                         *)
(* Hosts are their indices in the hostlist (Config keeps it free of        *)
(* duplicates, config.rs 307-319, so a name and its index are the same     *)
(* thing to `position').  Slots are numbered from 0 as in the code.        *)
(***************************************************************************)
EXTENDS Integers, Sequences, FiniteSets

CONSTANT MaxHosts   \* bound: the length of the hostlist

ASSUME PlanAssumption == MaxHosts \in Nat /\ MaxHosts >= 2

VARIABLES n,      \* hosts in the hostlist; Config::validate wants at least two
          arr,    \* the slots: a host, or None
          rounds  \* the rounds computed so far, each a set of pairs

vars == <<n, arr, rounds>>

Hosts == 0 .. n - 1
None  == n                                \* the bye of an odd hostlist
Len0  == IF n % 2 = 1 THEN n + 1 ELSE n   \* arr.len()
Slots == 0 .. Len0 - 1

\* Hosts and None together; every slot holds one of them.
Entries == 0 .. Len0 - 1

Init ==
  /\ n \in 2 .. MaxHosts
  /\ arr = [i \in Slots |-> i]
  /\ rounds = <<>>

\* The bug: the mirrored slot is off by one.
OppositeShifted(i) == (Len0 - i) % Len0

\* Slot i plays the slot opposite.
Opposite(i) == Len0 - 1 - i

\* The bug: the bye is not filtered out.
PairsUnfiltered == {<<arr[i], arr[Opposite(i)]>> : i \in 0 .. Len0 \div 2 - 1}

\* The pairs of the round, without the one that has the bye.
Pairs ==
  {p \in {<<arr[i], arr[Opposite(i)]>> : i \in 0 .. Len0 \div 2 - 1} :
     p[1] # None /\ p[2] # None}

\* The bug: the last slot is copied to slot 1 and the rest not shifted.
RotatedNoShift == [i \in Slots |-> IF i = 1 THEN arr[Len0 - 1] ELSE arr[i]]

\* arr[0] stays; the last slot is popped and inserted at 1.
Rotated ==
  IF Len0 > 2
  THEN [i \in Slots |-> IF i = 0 THEN arr[0] ELSE IF i = 1 THEN arr[Len0 - 1] ELSE arr[i - 1]]
  ELSE arr

\* One iteration of round_robin_rounds; there are n - 1 of them.
NextRound ==
  /\ Len(rounds) < Len0 - 1
  /\ rounds' = Append(rounds, Pairs)
  /\ arr' = Rotated
  /\ UNCHANGED n

Next == NextRound

Spec == Init /\ [][Next]_vars

\* assignments_for_pairs: the targets of host h in a round.
Targets(pairs, h) ==
  {t \in Hosts : <<h, t>> \in pairs \/ <<t, h>> \in pairs}

\* assignments_mesh.
MeshTargets(h) == Hosts \ {h}

-----------------------------------------------------------------------------
(* Properties.                                                             *)

TypeOK ==
  /\ n \in 2 .. MaxHosts
  /\ arr \in [Slots -> Entries]
  /\ rounds \in Seq(SUBSET (Hosts \X Hosts)) /\ Len(rounds) <= Len0 - 1

\* A host has at most one target among the pairs, never itself, and its target
\* has it in return.
OnePairAmong(pairs) ==
  \A h \in Hosts : \A t \in Targets(pairs, h) :
    t # h /\ Targets(pairs, h) = {t} /\ Targets(pairs, t) = {h}

\* "a host is in at most one pair" per round (testplan.rs 5-7).
OnePairPerRound == \A r \in 1 .. Len(rounds) : OnePairAmong(rounds[r])

\* No two hosts meet in two rounds.
MeetAtMostOnce ==
  \A r1, r2 \in 1 .. Len(rounds), h \in Hosts :
    r1 # r2 => Targets(rounds[r1], h) \cap Targets(rounds[r2], h) = {}

\* No pair comes twice, and a finished tournament covers what a mesh run covers:
\* every host has met every other, in the number of rounds and pairs the doc
\* comment gives (testplan.rs 5-10, 38-58).
FullCover ==
  /\ MeetAtMostOnce
  /\ Len(rounds) = Len0 - 1 =>
       /\ Len(rounds) = IF n % 2 = 0 THEN n - 1 ELSE n
       /\ \A r \in 1 .. Len(rounds) : Cardinality(rounds[r]) = n \div 2
       /\ \A h \in Hosts :
            UNION {Targets(rounds[r], h) : r \in 1 .. Len(rounds)} = MeshTargets(h)

-----------------------------------------------------------------------------
(* The inductive invariant of ClientSetupProofs.                           *)

\* The rotation loses no host and doubles none.
SlotsDistinct == \A i, j \in Slots : arr[i] = arr[j] => i = j

\* What slot i holds after k rotations: the entries of slots 1 and up go round.
Turned(k, i) == IF i = 0 THEN 0 ELSE IF i > k THEN i - k ELSE i - k + Len0 - 1

\* The pairs of the round after k rotations.
PairsAfter(k) ==
  {p \in {<<Turned(k, i), Turned(k, Opposite(i))>> : i \in 0 .. Len0 \div 2 - 1} :
     p[1] # None /\ p[2] # None}

\* The slots and the rounds in closed form.
Schedule ==
  /\ arr = [i \in Slots |-> Turned(Len(rounds), i)]
  /\ \A r \in 1 .. Len(rounds) : rounds[r] = PairsAfter(r - 1)

IInv == TypeOK /\ SlotsDistinct /\ OnePairPerRound /\ Schedule
=============================================================================
