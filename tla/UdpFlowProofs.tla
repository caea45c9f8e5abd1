--------------------------- MODULE UdpFlowProofs ---------------------------
(***************************************************************************)
(* Proofs about UdpFlow, for any number of workers, of chunks and of       *)
(* tests: every number drawn is on one datagram, in one worker's hand or   *)
(* spent on a failed write, packets_sent claims no datagram that was not   *)
(* sent, and the drops the receiver counts are the gaps plus the late      *)
(* arrivals, whatever the network does.                                    *)
(*                                                                         *)
(* The two ends share only the set of datagrams sent, so the invariant has *)
(* a sender's half and a receiver's half, and each step disturbs one.      *)
(***************************************************************************)
EXTENDS UdpFlow, SequenceTheorems, FiniteSetTheorems, TLAPS

-----------------------------------------------------------------------------
(* Counting.                                                               *)

\* The sets the sender's counters are compared with are finite.
LEMMA SenderFinite ==
  ASSUME IsFiniteSet(sent)
  PROVE  /\ IsFiniteSet(SentIn(stest)) /\ Cardinality(SentIn(stest)) \in Nat
         /\ IsFiniteSet(Sending) /\ Cardinality(Sending) \in Nat
         /\ IsFiniteSet(OpenChunks) /\ Cardinality(OpenChunks) \in Nat
<1>1. SentIn(stest) \in SUBSET sent
  BY DEF SentIn
<1>2. IsFiniteSet(SentIn(stest))
  BY <1>1, FS_Subset
<1>3. Sending \in SUBSET Workers
  BY DEF Sending
<1>4. IsFiniteSet(Sending)
  BY <1>3, UdpAssumption, FS_Subset
<1>5. IsFiniteSet(1 .. Chunks)
  BY UdpAssumption, FS_Interval
<1>6. IsFiniteSet(Workers \X (1 .. Chunks))
  BY <1>5, UdpAssumption, FS_Product
<1>7. OpenChunks \in SUBSET (Workers \X (1 .. Chunks))
  BY DEF OpenChunks
<1>8. IsFiniteSet(OpenChunks)
  BY <1>6, <1>7, FS_Subset
<1> QED BY <1>2, <1>4, <1>8, FS_CardinalityType

\* A smaller set of open chunks has a smaller count.
LEMMA FewerOpen ==
  ASSUME IsFiniteSet(sent), OpenChunks' \subseteq OpenChunks
  PROVE  Cardinality(OpenChunks') \in Nat /\ Cardinality(OpenChunks') <= Cardinality(OpenChunks)
<1>1. IsFiniteSet(OpenChunks') /\ Cardinality(OpenChunks') <= Cardinality(OpenChunks)
  BY SenderFinite, FS_Subset
<1> QED BY <1>1, FS_CardinalityType

\* The chunks one worker has sent of its payload are as many as its offset says.
LEMMA ChunksOf ==
  ASSUME NEW w, NEW m \in Nat
  PROVE  IsFiniteSet({w} \X (1 .. m)) /\ Cardinality({w} \X (1 .. m)) = m
<1>1. IsFiniteSet({w}) /\ Cardinality({w}) = 1
  BY FS_Singleton
<1>2. IsFiniteSet(1 .. m) /\ Cardinality(1 .. m) = m
  BY FS_Interval
<1>3. /\ IsFiniteSet({w} \X (1 .. m))
      /\ Cardinality({w} \X (1 .. m)) = Cardinality({w}) * Cardinality(1 .. m)
  BY <1>1, <1>2, FS_Product
<1> QED BY <1>1, <1>2, <1>3

\* failed stays within the numbers drawn.
LEMMA FailedTyped ==
  ASSUME NumbersCounted', next_seq' \in 0 .. MaxSeq, failed' \in Nat
  PROVE  failed' \in 0 .. MaxSeq
<1>1. SentIn(stest)' \in SUBSET sent'
  BY DEF SentIn
<1>2. IsFiniteSet(SentIn(stest)')
  BY <1>1, FS_Subset DEF NumbersCounted
<1>3. Sending' \in SUBSET Workers
  BY DEF Sending
<1>4. IsFiniteSet(Sending')
  BY <1>3, UdpAssumption, FS_Subset
<1>5. Cardinality(SentIn(stest)') \in Nat /\ Cardinality(Sending') \in Nat
  BY <1>2, <1>4, FS_CardinalityType
<1> QED BY <1>5, UdpAssumption DEF NumbersCounted

-----------------------------------------------------------------------------
(* The sender's steps.                                                     *)

\* The next payload opens no chunk yet.
LEMMA BeginPayloadStep ==
  ASSUME IInv, NEW w \in Workers, BeginPayload(w)
  PROVE  TypeOK' /\ SenderInv'
<1> USE DEF IInv, SenderInv
<1>1. /\ UNCHANGED <<stest, cancelled, next_seq, held, sent_pkts, failed, sent, receiverVars>>
      /\ wpc[w] = "top" /\ wpc' = [wpc EXCEPT ![w] = "chunk"] /\ offset' = [offset EXCEPT ![w] = 0]
  BY DEF BeginPayload
<1>2. TypeOK'
  BY <1>1, UdpAssumption DEF TypeOK, receiverVars
<1>3. Sending' = Sending /\ SentIn(stest)' = SentIn(stest)
  BY <1>1 DEF TypeOK, Sending, SentIn
<1>4. NumbersUnique' /\ NumbersCounted'
  BY <1>1, <1>3 DEF NumbersUnique, NumbersCounted
<1>5. OpenChunks' = OpenChunks
  BY <1>1, UdpAssumption DEF TypeOK, OpenChunks
<1>6. PacketsCounted'
  BY <1>1, <1>3, <1>5, UdpAssumption DEF TypeOK, PacketsCounted
<1> QED BY <1>2, <1>4, <1>6

\* A payload cut short leaves its open chunks uncounted.
LEMMA SeesCancelStep ==
  ASSUME IInv, NEW w \in Workers, SeesCancel(w)
  PROVE  TypeOK' /\ SenderInv'
<1> USE DEF IInv, SenderInv
<1>1. /\ UNCHANGED <<stest, cancelled, next_seq, offset, held, sent_pkts, failed, sent, receiverVars>>
      /\ wpc[w] \in {"top", "chunk"} /\ wpc' = [wpc EXCEPT ![w] = "done"]
  BY DEF SeesCancel
<1>2. TypeOK'
  BY <1>1 DEF TypeOK, receiverVars
<1>3. Sending' = Sending /\ SentIn(stest)' = SentIn(stest)
  BY <1>1 DEF TypeOK, Sending, SentIn
<1>4. NumbersUnique' /\ NumbersCounted'
  BY <1>1, <1>3 DEF NumbersUnique, NumbersCounted
<1>5. OpenChunks' \subseteq OpenChunks
  BY <1>1 DEF TypeOK, OpenChunks
<1>6. Cardinality(OpenChunks') \in Nat /\ Cardinality(OpenChunks') <= Cardinality(OpenChunks)
  BY <1>5, FewerOpen DEF NumbersCounted
<1>7. PacketsCounted'
  BY <1>1, <1>3, <1>6, SenderFinite, SMTT(60) DEF TypeOK, PacketsCounted, NumbersCounted
<1> QED BY <1>2, <1>4, <1>7

\* A number is drawn: it is above every number in use, and in one more hand.
LEMMA FetchSeqStep ==
  ASSUME IInv, NEW w \in Workers, FetchSeq(w)
  PROVE  TypeOK' /\ SenderInv'
<1> USE DEF IInv, SenderInv
<1>1. /\ UNCHANGED <<stest, cancelled, offset, sent_pkts, failed, sent, receiverVars>>
      /\ wpc[w] = "chunk" /\ wpc' = [wpc EXCEPT ![w] = "send"]
      /\ next_seq < MaxSeq /\ next_seq \in Nat
      /\ held' = [held EXCEPT ![w] = next_seq] /\ next_seq' = next_seq + 1
  BY UdpAssumption DEF FetchSeq, TypeOK
<1>2. TypeOK'
  BY <1>1, UdpAssumption DEF TypeOK, receiverVars, Seqs
<1>3. Sending' = Sending \cup {w} /\ w \notin Sending /\ SentIn(stest)' = SentIn(stest)
  BY <1>1 DEF TypeOK, Sending, SentIn
<1>4. held'[w] = next_seq /\ \A v \in Sending : held'[v] = held[v]
  BY <1>1, <1>3 DEF TypeOK, Sending
<1>5. NumbersUnique'
  <2>1. \A p \in sent' : p.test <= stest' /\ (p.test = stest' => p.seq < next_seq')
    BY <1>1 DEF NumbersUnique, TypeOK, Datagrams, Seqs
  <2>2. \A v \in Sending' : /\ held'[v] \in 0 .. next_seq' - 1
                            /\ \A p \in SentIn(stest)' : p.seq # held'[v]
    <3> SUFFICES ASSUME NEW v \in Sending'
                 PROVE  /\ held'[v] \in 0 .. next_seq' - 1
                        /\ \A p \in SentIn(stest) : p.seq # held'[v]
      BY <1>3
    <3>1. CASE v = w
      <4>1. \A p \in SentIn(stest) : p.seq < next_seq /\ p.seq \in Int
        BY UdpAssumption DEF NumbersUnique, SentIn, TypeOK, Datagrams, Seqs
      <4> QED BY <1>1, <1>4, <3>1, <4>1
    <3>2. CASE v # w
      <4>1. v \in Sending
        BY <1>3, <3>2
      <4> QED BY <1>1, <1>4, <4>1 DEF NumbersUnique
    <3> QED BY <3>1, <3>2
  <2>3. \A u, v \in Sending' : held'[u] = held'[v] => u = v
    <3>1. \A v \in Sending : held'[v] # next_seq
      BY <1>1, <1>4 DEF NumbersUnique
    <3> QED BY <1>3, <1>4, <3>1 DEF NumbersUnique
  <2> QED BY <1>1, <2>1, <2>2, <2>3 DEF NumbersUnique
<1>6. NumbersCounted'
  <2>1. Cardinality(Sending') = Cardinality(Sending) + 1
    BY <1>3, SenderFinite, FS_AddElement DEF NumbersCounted
  <2> QED BY <1>1, <1>3, <2>1, SenderFinite, SMTT(60) DEF NumbersCounted, TypeOK
<1>7. PacketsCounted'
  <2>1. OpenChunks' = OpenChunks
    BY <1>1 DEF TypeOK, OpenChunks
  <2> QED BY <1>1, <1>3, <2>1 DEF TypeOK, PacketsCounted
<1> QED BY <1>2, <1>5, <1>6, <1>7

\* A failed send spends the number and gives the payload up.
LEMMA SendFailStep ==
  ASSUME IInv, NEW w \in Workers, SendFail(w)
  PROVE  TypeOK' /\ SenderInv'
<1> USE DEF IInv, SenderInv
<1>1. /\ UNCHANGED <<stest, cancelled, next_seq, offset, sent_pkts, sent, receiverVars>>
      /\ wpc[w] = "send" /\ wpc' = [wpc EXCEPT ![w] = "top"]
      /\ held' = [held EXCEPT ![w] = NoSeq] /\ failed' = failed + 1
  BY DEF SendFail
<1>2. Sending' = Sending \ {w} /\ w \in Sending /\ SentIn(stest)' = SentIn(stest)
  BY <1>1 DEF TypeOK, Sending, SentIn
<1>3. \A v \in Sending' : v \in Sending /\ held'[v] = held[v]
  BY <1>1, <1>2 DEF TypeOK
<1>4. NumbersUnique'
  BY <1>1, <1>2, <1>3 DEF NumbersUnique
<1>5. NumbersCounted'
  <2>1. Cardinality(Sending') = Cardinality(Sending) - 1
    BY <1>2, SenderFinite, FS_RemoveElement DEF NumbersCounted
  <2> QED BY <1>1, <1>2, <2>1, SenderFinite, UdpAssumption, SMTT(60) DEF NumbersCounted, TypeOK
<1>6. PacketsCounted'
  <2>1. OpenChunks' \subseteq OpenChunks
    BY <1>1 DEF TypeOK, OpenChunks
  <2>2. Cardinality(OpenChunks') \in Nat /\ Cardinality(OpenChunks') <= Cardinality(OpenChunks)
    BY <2>1, FewerOpen DEF NumbersCounted
  <2> QED BY <1>1, <1>2, <2>2, SenderFinite, SMTT(60) DEF TypeOK, PacketsCounted, NumbersCounted
<1>7. TypeOK'
  <2>1. failed' \in 0 .. MaxSeq
    BY <1>1, <1>5, FailedTyped, UdpAssumption DEF TypeOK
  <2> QED BY <1>1, <2>1 DEF TypeOK, receiverVars
<1> QED BY <1>4, <1>5, <1>6, <1>7

\* A sent chunk moves its number from the hand to a datagram; the last chunk of a
\* payload turns its open chunks into counted packets.
LEMMA SendOkStep ==
  ASSUME IInv, NEW w \in Workers, SendOk(w)
  PROVE  TypeOK' /\ SenderInv'
<1> USE DEF IInv, SenderInv
<1> PICK d : d = [test |-> stest, seq |-> held[w], worker |-> w]
  OBVIOUS
<1>1. /\ UNCHANGED <<stest, cancelled, next_seq, failed, receiverVars>>
      /\ wpc[w] = "send" /\ wpc' = [wpc EXCEPT ![w] = IF LastChunk(w) THEN "top" ELSE "chunk"]
      /\ held' = [held EXCEPT ![w] = NoSeq] /\ sent' = sent \cup {d}
      /\ offset' = [offset EXCEPT ![w] = @ + 1]
      /\ sent_pkts' = sent_pkts + (IF LastChunk(w) THEN Chunks ELSE 0)
  BY DEF SendOk
<1>2. Sending' = Sending \ {w} /\ w \in Sending
  BY <1>1 DEF TypeOK, Sending
<1>3. /\ held[w] \in 0 .. next_seq - 1 /\ next_seq \in 0 .. MaxSeq
      /\ \A p \in SentIn(stest) : p.seq # held[w]
  BY <1>2 DEF NumbersUnique, TypeOK
<1>4. d \in Datagrams /\ d.test = stest /\ d.seq = held[w] /\ d \notin SentIn(stest)
  BY <1>3, UdpAssumption DEF TypeOK, Datagrams, Seqs
<1>5. SentIn(stest)' = SentIn(stest) \cup {d}
  BY <1>1, <1>4 DEF SentIn
<1>6. IsFiniteSet(sent) /\ IsFiniteSet(sent')
  BY <1>1, FS_AddElement DEF NumbersCounted
<1>7. Cardinality(SentIn(stest)') = Cardinality(SentIn(stest)) + 1
  BY <1>4, <1>5, <1>6, SenderFinite, FS_AddElement
<1>8. offset[w] \in Nat /\ offset[w] < Chunks
  BY <1>1, UdpAssumption DEF TypeOK, PacketsCounted
<1>9. TypeOK'
  <2>1. sent' \subseteq Datagrams
    BY <1>1, <1>4 DEF TypeOK
  <2>2. offset' \in [Workers -> 0 .. Chunks] /\ sent_pkts' \in Nat
    BY <1>1, <1>8, UdpAssumption DEF TypeOK
  <2>3. held' \in [Workers -> Seqs \cup {NoSeq}] /\ wpc' \in [Workers -> {"top", "chunk", "send", "done"}]
    BY <1>1 DEF TypeOK
  <2> QED BY <1>1, <2>1, <2>2, <2>3 DEF TypeOK, receiverVars
<1>10. NumbersUnique'
  <2>1. \A v \in Sending' : v \in Sending /\ v # w /\ held'[v] = held[v]
    BY <1>1, <1>2 DEF TypeOK
  <2>2. \A p \in sent' : p.test <= stest' /\ (p.test = stest' => p.seq < next_seq')
    BY <1>1, <1>3, <1>4 DEF NumbersUnique, TypeOK, Tests
  <2>3. \A p, q \in sent' : (p.test = q.test /\ p.seq = q.seq) => p = q
    <3>1. \A p \in sent : ~(p.test = d.test /\ p.seq = d.seq)
      BY <1>3, <1>4 DEF SentIn
    <3> QED BY <1>1, <3>1 DEF NumbersUnique
  <2>4. \A v \in Sending' : /\ held'[v] \in 0 .. next_seq' - 1
                            /\ \A p \in SentIn(stest)' : p.seq # held'[v]
    BY <1>1, <1>2, <1>4, <1>5, <2>1 DEF NumbersUnique
  <2>5. \A u, v \in Sending' : held'[u] = held'[v] => u = v
    BY <2>1 DEF NumbersUnique
  <2> QED BY <2>2, <2>3, <2>4, <2>5 DEF NumbersUnique
<1>11. NumbersCounted'
  <2>1. Cardinality(Sending') = Cardinality(Sending) - 1
    BY <1>2, <1>6, SenderFinite, FS_RemoveElement
  <2> QED BY <1>1, <1>6, <1>7, <2>1, SenderFinite, UdpAssumption DEF NumbersCounted, TypeOK
<1>12. PacketsCounted'
  <2>1. \A v \in Workers : wpc'[v] \in {"chunk", "send"} => offset'[v] < Chunks
    BY <1>1, <1>8, UdpAssumption DEF PacketsCounted, TypeOK, LastChunk
  <2>2. sent_pkts' + Cardinality(OpenChunks') <= Cardinality(SentIn(stest)')
    <3>1. CASE ~LastChunk(w)
      <4>1. OpenChunks' = OpenChunks \cup {<<w, offset[w] + 1>>}
        BY <1>1, <1>8, <3>1, UdpAssumption DEF OpenChunks, TypeOK
      <4>2. <<w, offset[w] + 1>> \notin OpenChunks
        BY <1>8 DEF OpenChunks
      <4>3. Cardinality(OpenChunks') = Cardinality(OpenChunks) + 1
        BY <1>6, <4>1, <4>2, SenderFinite, FS_AddElement
      <4> QED BY <1>1, <1>6, <1>7, <3>1, <4>3, SenderFinite, SMTT(60) DEF PacketsCounted, TypeOK
    <3>2. CASE LastChunk(w)
      <4> DEFINE mine == {w} \X (1 .. offset[w])
      <4>1. mine \subseteq OpenChunks
        BY <1>1, <1>8, UdpAssumption DEF OpenChunks
      <4>2. OpenChunks' = OpenChunks \ mine
        BY <1>1, <1>8, <3>2, UdpAssumption DEF OpenChunks, TypeOK
      <4>3. Cardinality(mine) = offset[w]
        BY <1>8, ChunksOf
      <4> HIDE DEF mine
      <4>4. OpenChunks \cap mine = mine
        BY <4>1
      <4>5. Cardinality(OpenChunks \ mine) = Cardinality(OpenChunks) - Cardinality(OpenChunks \cap mine)
        BY <1>6, SenderFinite, FS_Difference
      <4>6. Cardinality(OpenChunks') = Cardinality(OpenChunks) - (Chunks - 1)
        <5>1. offset[w] = Chunks - 1
          BY <1>8, <3>2, UdpAssumption DEF LastChunk
        <5>2. Cardinality(OpenChunks') = Cardinality(OpenChunks) - Cardinality(mine)
          BY <4>2, <4>4, <4>5, Zenon
        <5> QED BY <4>3, <5>1, <5>2
      <4> QED BY <1>1, <1>6, <1>7, <3>2, <4>6, SenderFinite, UdpAssumption, SMTT(60) DEF PacketsCounted, TypeOK
    <3> QED BY <3>1, <3>2
  <2> QED BY <2>1, <2>2 DEF PacketsCounted
<1> QED BY <1>9, <1>10, <1>11, <1>12

\* A cancelled sender's next test draws its numbers from zero; no datagram of it
\* has been sent.
LEMMA SenderTestStep ==
  ASSUME IInv, Cancel \/ SenderRestart
  PROVE  TypeOK' /\ SenderInv'
<1> USE DEF IInv, SenderInv
<1>1. CASE Cancel
  <2>1. UNCHANGED <<stest, next_seq, wpc, offset, held, sent_pkts, failed, sent, receiverVars>>
    BY <1>1 DEF Cancel
  <2>2. TypeOK'
    BY <1>1, <2>1 DEF Cancel, TypeOK, receiverVars
  <2>3. Sending' = Sending /\ SentIn(stest)' = SentIn(stest) /\ OpenChunks' = OpenChunks
    BY <2>1 DEF Sending, SentIn, OpenChunks
  <2> QED BY <2>1, <2>2, <2>3 DEF NumbersUnique, NumbersCounted, PacketsCounted
<1>2. CASE SenderRestart
  <2>1. /\ UNCHANGED <<sent, receiverVars>> /\ stest < MaxTests /\ stest' = stest + 1
        /\ next_seq' = 0 /\ sent_pkts' = 0 /\ failed' = 0
        /\ wpc' = [w \in Workers |-> "top"] /\ offset' = [w \in Workers |-> 0]
        /\ held' = [w \in Workers |-> NoSeq]
    BY <1>2 DEF SenderRestart
  <2>2. TypeOK'
    <3>1. cancelled' \in BOOLEAN
      BY <1>2 DEF SenderRestart
    <3>2. stest' \in Tests /\ next_seq' \in 0 .. MaxSeq /\ sent_pkts' \in Nat /\ failed' \in 0 .. MaxSeq
      BY <2>1, UdpAssumption DEF TypeOK, Tests
    <3>3. offset' \in [Workers -> 0 .. Chunks] /\ held' \in [Workers -> Seqs \cup {NoSeq}]
      BY <2>1, UdpAssumption
    <3>4. wpc' \in [Workers -> {"top", "chunk", "send", "done"}]
      BY <2>1
    <3> QED BY <2>1, <3>1, <3>2, <3>3, <3>4 DEF TypeOK, receiverVars
  <2>3. \A p \in sent : p.test < stest' /\ p.test # stest'
    BY <2>1 DEF NumbersUnique, TypeOK, Datagrams, Tests
  <2>4. Sending' = {} /\ SentIn(stest)' = {} /\ OpenChunks' = {}
    BY <2>1, <2>3 DEF Sending, SentIn, OpenChunks
  <2>5. Cardinality(Sending') = 0 /\ Cardinality(SentIn(stest)') = 0 /\ Cardinality(OpenChunks') = 0
    BY <2>4, FS_EmptySet
  <2>6. NumbersUnique'
    BY <2>1, <2>3, <2>4 DEF NumbersUnique, TypeOK, Datagrams, Tests
  <2>7. NumbersCounted' /\ PacketsCounted'
    BY <2>1, <2>5, UdpAssumption DEF NumbersCounted, PacketsCounted
  <2> QED BY <2>2, <2>6, <2>7
<1> QED BY <1>1, <1>2

-----------------------------------------------------------------------------
(* The receiver's steps.                                                   *)

\* The greatest element of a set of integers is the one CHOOSE finds.
LEMMA GreatestIs ==
  ASSUME NEW S \in SUBSET Int, NEW m \in S, \A r \in S : r <= m
  PROVE  (CHOOSE s \in S : \A r \in S : r <= s) = m
<1>1. \A s \in S : (\A r \in S : r <= s) => s = m
  OBVIOUS
<1> QED BY <1>1

\* What was heard are numbers of datagrams; the first of them is among them, and
\* the highest is one below the slot.
LEMMA HeardFacts ==
  ASSUME TypeOK, Expecting
  PROVE  /\ HeardSeqs \in SUBSET Seqs /\ Len(heard) \in Nat
         /\ \A i \in 1 .. Len(heard) : heard[i].seq \in HeardSeqs
         /\ heard = <<>> <=> Len(heard) = 0
         /\ heard # <<>> => First \in HeardSeqs /\ Top = expected - 1 /\ expected \in Nat
<1>1. Len(heard) \in Nat /\ (heard = <<>> <=> Len(heard) = 0)
  BY EmptySeq, LenProperties DEF TypeOK
<1>2. \A i \in 1 .. Len(heard) : heard[i] \in Datagrams
  BY ElementOfSeq DEF TypeOK
<1>3. \A i \in 1 .. Len(heard) : heard[i].seq \in Seqs /\ heard[i].seq \in HeardSeqs
  BY <1>2 DEF Datagrams, HeardSeqs
<1>4. HeardSeqs \in SUBSET Seqs
  BY <1>3 DEF HeardSeqs
<1>5. ASSUME heard # <<>> PROVE First \in HeardSeqs /\ Top = expected - 1 /\ expected \in Nat
  <2>1. 1 \in 1 .. Len(heard)
    BY <1>1, <1>5
  <2>2. First \in HeardSeqs
    BY <1>3, <2>1 DEF First
  <2>3. expected - 1 \in HeardSeqs /\ \A r \in HeardSeqs : r < expected
    BY <1>5 DEF Expecting
  <2>4. HeardSeqs \in SUBSET Int /\ expected \in Int /\ 0 <= expected - 1
    BY <1>4, <2>3, UdpAssumption DEF Seqs, TypeOK, NoSeq
  <2>5. \A r \in HeardSeqs : r <= expected - 1
    BY <2>3, <2>4
  <2>6. Top = expected - 1
    BY <2>3, <2>4, <2>5, GreatestIs DEF Top
  <2> QED BY <2>2, <2>4, <2>6
<1> QED BY <1>1, <1>3, <1>4, <1>5

\* A number that was missing and one that came late are two different numbers
\* between the first and the highest, so the two counts together are bounded.
LEMMA GapCount ==
  ASSUME NEW a \in Nat, NEW b \in Nat, NEW M \in SUBSET (a .. b), NEW L \in SUBSET (a .. b),
         M \cap L = {}
  PROVE  /\ IsFiniteSet(M) /\ IsFiniteSet(L)
         /\ Cardinality(M) \in Nat /\ Cardinality(L) \in Nat
         /\ Cardinality(M) + Cardinality(L) <= b + 1
<1>1. IsFiniteSet(a .. b) /\ Cardinality(a .. b) <= b + 1
  <2>1. a \in Int /\ b \in Int
    OBVIOUS
  <2>2. IsFiniteSet(a .. b) /\ Cardinality(a .. b) = IF a > b THEN 0 ELSE b - a + 1
    BY <2>1, FS_Interval
  <2> QED BY <2>2
<1>2. IsFiniteSet(M) /\ IsFiniteSet(L)
  BY <1>1, FS_Subset
<1>3. Cardinality(M) \in Nat /\ Cardinality(L) \in Nat
  BY <1>2, FS_CardinalityType
<1>4. Cardinality(M \cup L) = Cardinality(M) + Cardinality(L) - Cardinality({})
  BY <1>2, FS_Union
<1>5. Cardinality({}) = 0
  BY FS_EmptySet
<1>6. M \cup L \in SUBSET (a .. b)
  OBVIOUS
<1>7. Cardinality(M \cup L) <= Cardinality(a .. b)
  BY <1>1, <1>6, FS_Subset
<1>8. Cardinality(a .. b) \in Nat
  BY <1>1, FS_CardinalityType
<1> QED BY <1>1, <1>2, <1>3, <1>4, <1>5, <1>7, <1>8

\* What a delivery adds to what was heard.
LEMMA HearOne ==
  ASSUME TypeOK, Expecting, NEW p \in sent, Deliver(p)
  PROVE  /\ p \in Datagrams /\ p.seq \in Seqs
         /\ heard' \in Seq(Datagrams) /\ Len(heard') = Len(heard) + 1
         /\ HeardSeqs' = HeardSeqs \cup {p.seq}
         /\ First' = IF heard = <<>> THEN p.seq ELSE First
         /\ \A s : ArrivedLate(s)' <=>
                     \/ ArrivedLate(s)
                     \/ s = p.seq /\ s \notin HeardSeqs /\ \E r \in HeardSeqs : r > s
<1> DEFINE n == Len(heard)
<1>1. p \in Datagrams /\ p.seq \in Seqs
  BY DEF TypeOK, Datagrams
<1>2. /\ heard' \in Seq(Datagrams) /\ Len(heard') = n + 1 /\ n \in Nat
      /\ \A i \in 1 .. n : heard'[i] = heard[i]
      /\ heard'[n + 1] = p
  BY <1>1, AppendProperties, LenProperties DEF TypeOK, Deliver
<1>3. HeardSeqs' = HeardSeqs \cup {p.seq}
  BY <1>2 DEF HeardSeqs
<1>4. First' = IF heard = <<>> THEN p.seq ELSE First
  BY <1>2, HeardFacts DEF First
<1>5. ASSUME NEW s
      PROVE  ArrivedLate(s)' <=>
               \/ ArrivedLate(s)
               \/ s = p.seq /\ s \notin HeardSeqs /\ \E r \in HeardSeqs : r > s
  <2>1. \A i \in 1 .. n : /\ i \in 1 .. n + 1
                          /\ \A j \in 1 .. i - 1 : j \in 1 .. n /\ heard'[j] = heard[j]
    BY <1>2
  <2>2. ASSUME ArrivedLate(s) PROVE ArrivedLate(s)'
    BY <1>2, <2>1, <2>2 DEF ArrivedLate
  <2>3. ASSUME s = p.seq, s \notin HeardSeqs, NEW r \in HeardSeqs, r > s PROVE ArrivedLate(s)'
    <3>1. n + 1 \in 1 .. n + 1 /\ \A j \in 1 .. (n + 1) - 1 : j \in 1 .. n /\ heard'[j] = heard[j]
      BY <1>2
    <3>2. \A j \in 1 .. n : heard[j].seq # s
      BY <2>3 DEF HeardSeqs
    <3>3. \E j \in 1 .. n : heard[j].seq = r
      BY DEF HeardSeqs
    <3>4. \E j \in 1 .. (n + 1) - 1 : heard'[j].seq > s
      BY <1>2, <2>3, <3>3
    <3> QED BY <1>2, <2>3, <3>1, <3>2, <3>4 DEF ArrivedLate
  <2>4. ASSUME ArrivedLate(s)', ~ArrivedLate(s)
        PROVE  s = p.seq /\ s \notin HeardSeqs /\ \E r \in HeardSeqs : r > s
    <3>1. PICK i \in 1 .. n + 1 : /\ heard'[i].seq = s
                                  /\ \A j \in 1 .. i - 1 : heard'[j].seq # s
                                  /\ \E j \in 1 .. i - 1 : heard'[j].seq > s
      BY <1>2, <2>4 DEF ArrivedLate
    <3>2. i \notin 1 .. n
      BY <1>2, <2>1, <2>4, <3>1 DEF ArrivedLate
    <3>3. i = n + 1
      BY <1>2, <3>2
    <3>4. (\A j \in 1 .. n : heard[j].seq # s) /\ (\E j \in 1 .. n : heard[j].seq > s)
      BY <1>2, <3>1, <3>3
    <3> QED BY <1>2, <3>1, <3>3, <3>4 DEF HeardSeqs
  <2> QED BY <2>2, <2>3, <2>4
<1> QED BY <1>1, <1>2, <1>3, <1>4, <1>5

\* A delivered datagram moves the slot past it and counts what it skips, or was
\* heard before, or came late: then its number is one gap fewer and one late
\* arrival more.
LEMMA DeliverStep ==
  ASSUME IInv, NEW p \in sent, Deliver(p)
  PROVE  Expecting' /\ DropsAreGaps' /\ dropped' \in 0 .. MaxSeq
<1> USE DEF IInv, ReceiverInv
<1> DEFINE q == p.seq
<1>1. /\ q \in Seqs /\ q \in Nat
      /\ heard' \in Seq(Datagrams) /\ Len(heard') = Len(heard) + 1
      /\ HeardSeqs' = HeardSeqs \cup {q}
      /\ First' = IF heard = <<>> THEN q ELSE First
      /\ \A s : ArrivedLate(s)' <=>
                  \/ ArrivedLate(s)
                  \/ s = q /\ s \notin HeardSeqs /\ \E r \in HeardSeqs : r > s
  BY HearOne, UdpAssumption DEF Seqs
<1>2. NoteSeq(q)
  BY DEF Deliver
<1> HIDE DEF q
<1>3. HeardSeqs \in SUBSET Nat /\ \A r \in HeardSeqs : r < MaxSeq
  BY HeardFacts, UdpAssumption DEF Seqs
<1>4. heard' # <<>> /\ HeardSeqs' \in SUBSET Int
  BY <1>1, <1>3, HeardFacts, EmptySeq
<1>5. CASE heard = <<>>
  <2>1. HeardSeqs = {} /\ \A s : ~ArrivedLate(s)
    BY <1>5, HeardFacts DEF HeardSeqs, ArrivedLate
  <2>2. HeardSeqs' = {q} /\ First' = q /\ \A s : ~ArrivedLate(s)'
    BY <1>1, <1>5, <2>1
  <2>3. expected' = q + 1 /\ dropped' = 0
    BY <1>2, <1>5 DEF Expecting, NoteSeq
  <2>4. Top' = q
    BY <1>1, <1>4, <2>2, GreatestIs DEF Top
  <2>5. Missing' = {} /\ Late' = {}
    BY <1>1, <2>2, <2>4 DEF Missing, Late
  <2>6. DropsAreGaps'
    BY <2>3, <2>5, FS_EmptySet DEF DropsAreGaps
  <2>7. Expecting'
    BY <1>1, <1>4, <2>2, <2>3 DEF Expecting
  <2> QED BY <2>3, <2>6, <2>7, UdpAssumption
<1>6. CASE heard # <<>>
  <2> DEFINE f == First
             t == Top
  <2>1. /\ f \in HeardSeqs /\ t \in HeardSeqs /\ t = expected - 1 /\ expected \in Nat
        /\ expected # NoSeq /\ \A r \in HeardSeqs : r <= t
    BY <1>3, <1>6, HeardFacts DEF Expecting, NoSeq
  <2>2. f \in Nat /\ t \in Nat /\ f <= t /\ First' = f
    BY <1>1, <1>3, <1>6, <2>1
  <2>3. \A s \in Missing : s \notin Late /\ s \notin HeardSeqs
    BY DEF Missing, Late, ArrivedLate, HeardSeqs
  <2>4. Missing \in SUBSET (f .. t) /\ Late \in SUBSET (f .. t) /\ Missing \cap Late = {}
    BY <2>3 DEF Missing, Late
  <2>5. /\ IsFiniteSet(Missing) /\ IsFiniteSet(Late)
        /\ Cardinality(Missing) \in Nat /\ Cardinality(Late) \in Nat
    BY <2>2, <2>4, GapCount
  <2>6. dropped = Cardinality(Missing) + Cardinality(Late)
    BY <1>6 DEF DropsAreGaps
  <2>7. \A s : ArrivedLate(s) => s \in HeardSeqs
    BY DEF ArrivedLate, HeardSeqs
  <2>8. CASE q >= expected
    <3>1. expected' = q + 1 /\ dropped' = dropped + (q - expected)
      BY <1>2, <2>1, <2>8 DEF NoteSeq
    <3>2. t < q /\ \A r \in HeardSeqs' : r <= q
      BY <1>1, <1>3, <2>1, <2>8
    <3>3. Top' = q
      BY <1>1, <1>4, <3>2, GreatestIs DEF Top
    <3>4. Late' = Late
      <4>1. \A s : ArrivedLate(s)' <=> ArrivedLate(s)
        BY <1>1, <1>3, <2>1, <3>2
      <4>2. \A s : ArrivedLate(s) => (s \in f .. q <=> s \in f .. t)
        BY <1>1, <1>3, <2>1, <2>2, <2>7, <3>2
      <4> QED BY <2>2, <3>3, <4>1, <4>2 DEF Late
    <3>5. Missing' = Missing \cup (expected .. q - 1) /\ Missing \cap (expected .. q - 1) = {}
      <4>1. \A s \in f .. q : s \notin HeardSeqs' <=> (s \in f .. t /\ s \notin HeardSeqs)
                                                       \/ s \in expected .. q - 1
        BY <1>1, <1>3, <2>1, <2>2, <3>2
      <4>2. \A s \in (f .. t) \cup (expected .. q - 1) : s \in f .. q
        BY <1>1, <2>1, <2>2, <3>2
      <4>3. Missing' = {s \in f .. q : s \notin HeardSeqs'}
        BY <2>2, <3>3 DEF Missing
      <4>4. Missing = {s \in f .. t : s \notin HeardSeqs}
        BY DEF Missing
      <4>5. (f .. t) \cap (expected .. q - 1) = {}
        BY <1>1, <2>1, <2>2
      <4> QED BY <4>1, <4>2, <4>3, <4>4, <4>5
    <3>6. IsFiniteSet(expected .. q - 1) /\ Cardinality(expected .. q - 1) = q - expected
      <4>1. expected \in Int /\ q - 1 \in Int /\ q \in Int
        BY <1>1, <2>1
      <4>2. /\ IsFiniteSet(expected .. q - 1)
            /\ Cardinality(expected .. q - 1) =
                 IF expected > q - 1 THEN 0 ELSE (q - 1) - expected + 1
        BY <4>1, FS_Interval
      <4> QED BY <2>8, <4>1, <4>2
    <3>7. Cardinality(Missing') = Cardinality(Missing) + (q - expected)
      <4> DEFINE gap == expected .. q - 1
      <4>1. Missing' = Missing \cup gap /\ Missing \cap gap = {} /\ Cardinality(gap) = q - expected
            /\ IsFiniteSet(gap)
        BY <3>5, <3>6
      <4> HIDE DEF gap
      <4>2. Cardinality(Missing \cup gap) =
              Cardinality(Missing) + Cardinality(gap) - Cardinality(Missing \cap gap)
        BY <2>5, <4>1, FS_Union
      <4>3. Cardinality(Missing \cap gap) = 0
        BY <4>1, FS_EmptySet
      <4> QED BY <1>1, <2>1, <2>5, <4>1, <4>2, <4>3
    <3>8. DropsAreGaps'
      BY <1>1, <2>1, <2>5, <2>6, <3>1, <3>4, <3>7, SMTT(60) DEF DropsAreGaps
    <3>9. Expecting'
      BY <1>1, <1>3, <1>4, <3>1, <3>2 DEF Expecting
    <3>10. dropped' <= q + 1 /\ dropped' \in Nat
      <4>1. Missing' \in SUBSET (f .. q) /\ Late' \in SUBSET (f .. q) /\ Missing' \cap Late' = {}
        <5>1. Missing' \in SUBSET (f .. q) /\ Late' \in SUBSET (f .. q)
          BY <2>2, <3>3 DEF Missing, Late
        <5>2. \A s \in Late' : s \in HeardSeqs'
          BY <1>1, <2>7, <3>4 DEF Late
        <5>3. \A s \in Missing' : s \notin HeardSeqs'
          BY DEF Missing
        <5> QED BY <5>1, <5>2, <5>3
      <4>2. Cardinality(Missing') + Cardinality(Late') <= q + 1
        BY <1>1, <2>2, <4>1, GapCount
      <4> QED BY <1>1, <2>1, <2>5, <2>6, <2>8, <3>1, <3>4, <3>7, <4>2, SMTT(60)
    <3> QED BY <1>1, <3>8, <3>9, <3>10, UdpAssumption DEF Seqs
  <2>9. CASE q < expected
    <3>1. expected' = expected /\ dropped' = dropped
      BY <1>1, <1>2, <2>1, <2>9 DEF NoteSeq
    <3>2. t \in HeardSeqs' /\ \A r \in HeardSeqs' : r <= t
      BY <1>1, <2>1, <2>9
    <3>3. Top' = t
      BY <1>4, <2>2, <3>2, GreatestIs DEF Top
    <3>4. /\ Missing' = {s \in f .. t : s \notin HeardSeqs'}
          /\ Late' = {s \in f .. t : ArrivedLate(s)'}
      BY <2>2, <3>3 DEF Missing, Late
    <3>5. Expecting' /\ dropped' \in 0 .. MaxSeq
      BY <1>1, <1>4, <2>1, <2>2, <3>1, <3>2 DEF Expecting, TypeOK
    <3>6. CASE q \in HeardSeqs \/ q \notin f .. t
      <4>1. Missing' = Missing /\ Late' = Late
        BY <1>1, <3>4, <3>6 DEF Missing, Late
      <4> QED BY <2>6, <3>1, <3>5, <4>1 DEF DropsAreGaps
    <3>7. CASE q \notin HeardSeqs /\ q \in f .. t
      <4>1. t > q
        BY <1>1, <2>1, <2>2, <3>7
      <4>2. Missing' = Missing \ {q} /\ q \in Missing
        BY <1>1, <3>4, <3>7 DEF Missing
      <4>3. Late' = Late \cup {q} /\ q \notin Late
        BY <1>1, <2>1, <2>7, <3>4, <3>7, <4>1 DEF Late
      <4>4. Cardinality(Missing') = Cardinality(Missing) - 1
        BY <2>5, <4>2, FS_RemoveElement
      <4>5. Cardinality(Late') = Cardinality(Late) + 1
        BY <2>5, <4>3, FS_AddElement
      <4> QED BY <2>5, <2>6, <3>1, <3>5, <4>4, <4>5 DEF DropsAreGaps
    <3> QED BY <3>6, <3>7
  <2> QED BY <1>1, <2>1, <2>8, <2>9
<1> QED BY <1>5, <1>6

\* The receiver's next test has heard nothing.
LEMMA ReceiverRestartStep ==
  ASSUME IInv, ReceiverRestart
  PROVE  IInv'
<1> USE DEF IInv
<1>1. /\ UNCHANGED <<stest, cancelled, next_seq, wpc, offset, held, sent_pkts, failed, sent>>
      /\ rtest' = rtest + 1 /\ rtest < MaxTests
      /\ expected' = NoSeq /\ dropped' = 0 /\ heard' = <<>>
  BY DEF ReceiverRestart, senderVars
<1>2. TypeOK'
  <2>1. rtest' \in Tests /\ dropped' \in 0 .. MaxSeq /\ expected' \in Seqs \cup {NoSeq, MaxSeq}
    BY <1>1, UdpAssumption DEF TypeOK, Tests
  <2>2. heard' \in Seq(Datagrams) /\ Len(heard') <= MaxRecv
    BY <1>1, EmptySeq, UdpAssumption
  <2> QED BY <1>1, <2>1, <2>2 DEF TypeOK
<1>3. Sending' = Sending /\ SentIn(stest)' = SentIn(stest) /\ OpenChunks' = OpenChunks
  BY <1>1 DEF Sending, SentIn, OpenChunks
<1>4. SenderInv'
  BY <1>1, <1>3 DEF SenderInv, NumbersUnique, NumbersCounted, PacketsCounted
<1>5. ReceiverInv'
  BY <1>1 DEF ReceiverInv, Expecting, DropsAreGaps
<1> QED BY <1>2, <1>4, <1>5

-----------------------------------------------------------------------------
(* The theorems.                                                           *)

\* In the first test nothing was drawn, sent or heard.
LEMMA InitIInv == Init => IInv
<1> SUFFICES ASSUME Init PROVE IInv
  OBVIOUS
<1>1. TypeOK
  <2>1. cancelled \in BOOLEAN
    BY DEF Init
  <2>2. /\ stest \in Tests /\ next_seq \in 0 .. MaxSeq /\ sent_pkts \in Nat /\ failed \in 0 .. MaxSeq
        /\ rtest \in Tests /\ dropped \in 0 .. MaxSeq /\ expected \in Seqs \cup {NoSeq, MaxSeq}
    BY UdpAssumption DEF Init, Tests
  <2>3. offset \in [Workers -> 0 .. Chunks] /\ held \in [Workers -> Seqs \cup {NoSeq}]
    BY UdpAssumption DEF Init
  <2>4. heard \in Seq(Datagrams) /\ Len(heard) <= MaxRecv
    BY EmptySeq, UdpAssumption DEF Init
  <2>5. wpc \in [Workers -> {"top", "chunk", "send", "done"}] /\ sent \subseteq Datagrams
    BY DEF Init
  <2> QED BY <2>1, <2>2, <2>3, <2>4, <2>5 DEF TypeOK
<1>2. SentIn(stest) = {} /\ Sending = {} /\ OpenChunks = {}
  BY DEF Init, SentIn, Sending, OpenChunks
<1>3. NumbersUnique
  BY <1>2 DEF Init, NumbersUnique
<1>4. NumbersCounted /\ PacketsCounted
  <2>1. IsFiniteSet(sent) /\ Cardinality(SentIn(stest)) = 0 /\ Cardinality(Sending) = 0
        /\ Cardinality(OpenChunks) = 0
    BY <1>2, FS_EmptySet DEF Init
  <2>2. \A w \in Workers : wpc[w] = "top"
    BY DEF Init
  <2> QED BY <2>1, <2>2 DEF Init, NumbersCounted, PacketsCounted
<1>5. ReceiverInv
  BY DEF Init, ReceiverInv, Expecting, DropsAreGaps
<1> QED BY <1>1, <1>3, <1>4, <1>5 DEF IInv, SenderInv

\* What the receiver knows depends on what it heard, not on the sender.
LEMMA ReceiverKeeps ==
  ASSUME ReceiverInv, UNCHANGED receiverVars
  PROVE  ReceiverInv'
<1> USE DEF receiverVars
<1>1. HeardSeqs' = HeardSeqs /\ First' = First /\ \A s : ArrivedLate(s)' <=> ArrivedLate(s)
  BY DEF HeardSeqs, First, ArrivedLate
<1>2. Top' = Top
  BY <1>1 DEF Top
<1>3. Missing' = Missing /\ Late' = Late
  BY <1>1, <1>2 DEF Missing, Late
<1> QED BY <1>1, <1>3 DEF ReceiverInv, Expecting, DropsAreGaps

\* The inductive invariant is kept by every step.
LEMMA NextIInv == IInv /\ [Next]_vars => IInv'
<1> SUFFICES ASSUME IInv, [Next]_vars PROVE IInv'
  OBVIOUS
<1>1. CASE (\E w \in Workers : WorkerNext(w)) \/ Cancel \/ SenderRestart
  <2>1. UNCHANGED receiverVars
    BY <1>1 DEF WorkerNext, BeginPayload, SeesCancel, FetchSeq, SendOk, SendFail, Cancel,
       SenderRestart
  <2>2. TypeOK' /\ SenderInv'
    BY <1>1, BeginPayloadStep, SeesCancelStep, FetchSeqStep, SendOkStep, SendFailStep,
       SenderTestStep DEF WorkerNext
  <2> QED BY <2>1, <2>2, ReceiverKeeps DEF IInv
<1>2. CASE ReceiverRestart
  BY <1>2, ReceiverRestartStep
<1>3. ASSUME NEW p \in sent, Deliver(p) PROVE IInv'
  <2> USE DEF IInv
  <2>1. UNCHANGED <<stest, cancelled, next_seq, wpc, offset, held, sent_pkts, failed, sent, rtest>>
    BY <1>3 DEF Deliver, senderVars
  <2>2. Expecting' /\ DropsAreGaps' /\ dropped' \in 0 .. MaxSeq
    BY <1>3, DeliverStep
  <2>3. heard' \in Seq(Datagrams) /\ Len(heard') <= MaxRecv /\ p.seq \in Seqs
    <3>1. Len(heard') = Len(heard) + 1 /\ Len(heard) < MaxRecv /\ Len(heard) \in Nat
      BY <1>3, HearOne, HeardFacts DEF Deliver, ReceiverInv
    <3> QED BY <1>3, <3>1, HearOne, UdpAssumption DEF ReceiverInv
  <2>4. expected' \in Seqs \cup {NoSeq, MaxSeq}
    BY <1>3, <2>3, UdpAssumption, SMTT(60) DEF Deliver, NoteSeq, TypeOK, Seqs
  <2>5. TypeOK'
    BY <2>1, <2>2, <2>3, <2>4 DEF TypeOK
  <2>6. Sending' = Sending /\ SentIn(stest)' = SentIn(stest) /\ OpenChunks' = OpenChunks
    BY <2>1 DEF Sending, SentIn, OpenChunks
  <2>7. SenderInv'
    BY <2>1, <2>6 DEF SenderInv, NumbersUnique, NumbersCounted, PacketsCounted
  <2> QED BY <2>2, <2>5, <2>7 DEF ReceiverInv
<1>4. CASE UNCHANGED vars
  <2> USE <1>4 DEF vars, senderVars, IInv
  <2>1. TypeOK' /\ ReceiverInv'
    BY ReceiverKeeps DEF TypeOK, receiverVars
  <2>2. Sending' = Sending /\ SentIn(stest)' = SentIn(stest) /\ OpenChunks' = OpenChunks
    BY DEF Sending, SentIn, OpenChunks
  <2>3. SenderInv'
    BY <2>2 DEF SenderInv, NumbersUnique, NumbersCounted, PacketsCounted
  <2> QED BY <2>1, <2>3
<1> QED BY <1>1, <1>2, <1>3, <1>4 DEF Next

\* The inductive invariant of the UDP data plane holds in every behaviour.
THEOREM Invariance == Spec => []IInv
BY InitIInv, NextIInv, PTL DEF Spec

\* Every variable keeps its type; neither end counts more drops in a test than
\* numbers were drawn.
THEOREM TypeCorrect == Spec => []TypeOK
<1>1. IInv => TypeOK
  BY DEF IInv
<1> QED BY <1>1, Invariance, PTL

\* Every number drawn is on one datagram, in one worker's hand or spent on a
\* failed write, and packets_sent claims no datagram that was not handed to the
\* socket, for any number of workers (udp_send_loop).
THEOREM SeqsAccountedCorrect == Spec => []SeqsAccounted
<1>1. IInv => SeqsAccounted
  <2> SUFFICES ASSUME IInv PROVE SeqsAccounted
    OBVIOUS
  <2>1. sent_pkts <= Cardinality(SentIn(stest))
    BY SenderFinite DEF IInv, SenderInv, TypeOK, PacketsCounted, NumbersCounted
  <2> QED BY <2>1 DEF IInv, SenderInv, NumbersUnique, NumbersCounted, SeqsAccounted
<1> QED BY <1>1, Invariance, PTL

\* The drops a test reports are the numbers missing from what it heard plus those
\* that came late, for every order, loss and duplication (note_seq).
THEOREM DropsAreGapsCorrect == Spec => []DropsAreGaps
<1>1. IInv => DropsAreGaps
  BY DEF IInv, ReceiverInv
<1> QED BY <1>1, Invariance, PTL
=============================================================================
