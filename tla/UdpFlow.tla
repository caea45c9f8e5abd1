------------------------------ MODULE UdpFlow ------------------------------
(***************************************************************************)
(* The UDP data plane from one server to another (dataplane.rs: spawn_udp, *)
(* udp_send_loop, udp_recv_loop, note_seq), over the tests the two of them *)
(* go through.                                                             *)
(*                                                                         *)
(* The workers of the sender draw the numbers of their datagrams from one  *)
(* atomic per destination and send them through one socket.  The network   *)
(* loses, delays, reorders and duplicates.  The receiver keeps one         *)
(* `expected' slot per sender and counts a drop for every number a         *)
(* datagram skips.                                                         *)
(*                                                                         *)
(* A datagram carries no test number.  A new test has a new socket on the  *)
(* same port, new counters, numbers from zero and an empty slot; the two   *)
(* ends start it one after the other, and datagrams of the old one are     *)
(* still under way.                                                        *)
(***************************************************************************)
EXTENDS Integers, Sequences, FiniteSets

CONSTANTS Workers,   \* the worker tasks of one target
          Chunks,    \* datagrams per payload
          MaxTests,  \* bound: tests started
          MaxSeq,    \* bound: numbers drawn in one test
          MaxRecv    \* bound: datagrams received in one test

ASSUME UdpAssumption == /\ IsFiniteSet(Workers)
                        /\ Chunks \in Nat \ {0}
                        /\ MaxTests \in Nat \ {0}
                        /\ MaxSeq \in Nat
                        /\ MaxRecv \in Nat

Tests == 1 .. MaxTests
Seqs  == 0 .. MaxSeq - 1
NoSeq == -1

Datagrams == [test : Tests, seq : Seqs, worker : Workers]

VARIABLES
  stest,     \* the sender's test
  cancelled, \* its token
  next_seq,  \* seqs[dest_id]
  wpc,       \* worker: "top" of the loop, "chunk" loop, "send" in send_to, "done"
  offset,    \* worker: chunks of the current payload sent
  held,      \* worker: the number fetched for the datagram being sent
  sent,      \* datagrams given to the network, by all tests: any of them may yet be
             \* delivered, or has been lost
  sent_pkts, \* packets_sent of this test
  failed,    \* packets_dropped of this test at the sender
  rtest,     \* the receiver's test
  expected,  \* its slot for this sender, NoSeq for None
  dropped,   \* packets_dropped of this test at the receiver
  heard      \* the datagrams received in this test, oldest first

senderVars   == <<stest, cancelled, next_seq, wpc, offset, held, sent_pkts, failed>>
receiverVars == <<rtest, expected, dropped, heard>>
vars == <<senderVars, sent, receiverVars>>

TypeOK ==
  /\ stest \in Tests
  /\ cancelled \in BOOLEAN
  /\ next_seq \in 0 .. MaxSeq
  /\ wpc \in [Workers -> {"top", "chunk", "send", "done"}]
  /\ offset \in [Workers -> 0 .. Chunks]
  /\ held \in [Workers -> Seqs \cup {NoSeq}]
  /\ sent \subseteq Datagrams
  /\ sent_pkts \in Nat
  /\ failed \in 0 .. MaxSeq
  /\ rtest \in Tests
  /\ expected \in Seqs \cup {NoSeq, MaxSeq}
  /\ dropped \in 0 .. MaxSeq
  /\ heard \in Seq(Datagrams) /\ Len(heard) <= MaxRecv

\* Both ends have started the first test.
Init ==
  /\ stest = 1 /\ cancelled = FALSE /\ next_seq = 0
  /\ wpc = [w \in Workers |-> "top"] /\ offset = [w \in Workers |-> 0]
  /\ held = [w \in Workers |-> NoSeq]
  /\ sent = {} /\ sent_pkts = 0 /\ failed = 0
  /\ rtest = 1 /\ expected = NoSeq /\ dropped = 0 /\ heard = <<>>

-----------------------------------------------------------------------------
(* udp_send_loop of one worker.                                            *)

\* The bug: the offset is not taken back for the next payload.
BeginPayloadKeepsOffset(w) ==
  /\ wpc[w] = "top" /\ ~cancelled
  /\ wpc' = [wpc EXCEPT ![w] = "chunk"]
  /\ UNCHANGED <<stest, cancelled, next_seq, offset, held, sent_pkts, failed, sent, receiverVars>>

\* Top of the loop: the next payload, from its first chunk.
BeginPayload(w) ==
  /\ wpc[w] = "top" /\ ~cancelled
  /\ wpc' = [wpc EXCEPT ![w] = "chunk"]
  /\ offset' = [offset EXCEPT ![w] = 0]
  /\ UNCHANGED <<stest, cancelled, next_seq, held, sent_pkts, failed, sent, receiverVars>>

\* The token is looked at before every payload and before every chunk; a payload
\* cut short is not counted.
SeesCancel(w) ==
  /\ wpc[w] \in {"top", "chunk"} /\ cancelled
  /\ wpc' = [wpc EXCEPT ![w] = "done"]
  /\ UNCHANGED <<stest, cancelled, next_seq, offset, held, sent_pkts, failed, sent,
                 receiverVars>>

\* The bug: a load and a store in the place of fetch_add, seen where the store
\* has not happened yet.
FetchSeqLoads(w) ==
  /\ wpc[w] = "chunk" /\ ~cancelled /\ next_seq < MaxSeq
  /\ held' = [held EXCEPT ![w] = next_seq]
  /\ next_seq' = (IF \E v \in Workers : wpc[v] = "send" THEN next_seq ELSE next_seq + 1)
  /\ wpc' = [wpc EXCEPT ![w] = "send"]
  /\ UNCHANGED <<stest, cancelled, offset, sent_pkts, failed, sent, receiverVars>>

\* fetch_add on the destination's counter.
FetchSeq(w) ==
  /\ wpc[w] = "chunk" /\ ~cancelled /\ next_seq < MaxSeq
  /\ held' = [held EXCEPT ![w] = next_seq]
  /\ next_seq' = next_seq + 1
  /\ wpc' = [wpc EXCEPT ![w] = "send"]
  /\ UNCHANGED <<stest, cancelled, offset, sent_pkts, failed, sent, receiverVars>>

LastChunk(w) == offset[w] + 1 = Chunks

\* send_to succeeds; with the last chunk the payload's datagrams are counted.
SendOk(w) ==
  /\ wpc[w] = "send"
  /\ sent' = sent \cup {[test |-> stest, seq |-> held[w], worker |-> w]}
  /\ offset' = [offset EXCEPT ![w] = @ + 1]
  /\ held' = [held EXCEPT ![w] = NoSeq]
  /\ wpc' = [wpc EXCEPT ![w] = IF LastChunk(w) THEN "top" ELSE "chunk"]
  /\ sent_pkts' = sent_pkts + (IF LastChunk(w) THEN Chunks ELSE 0)
  /\ UNCHANGED <<stest, cancelled, next_seq, failed, receiverVars>>

\* send_to fails: one drop, the number is spent, the rest of the payload given up.
SendFail(w) ==
  /\ wpc[w] = "send"
  /\ failed' = failed + 1
  /\ held' = [held EXCEPT ![w] = NoSeq]
  /\ wpc' = [wpc EXCEPT ![w] = "top"]
  /\ UNCHANGED <<stest, cancelled, next_seq, offset, sent_pkts, sent, receiverVars>>

-----------------------------------------------------------------------------
(* The sender's test ends and the next one starts (RunningTest::stop, then *)
(* spawn_udp).                                                             *)

Cancel ==
  /\ ~cancelled
  /\ cancelled' = TRUE
  /\ UNCHANGED <<stest, next_seq, wpc, offset, held, sent_pkts, failed, sent, receiverVars>>

\* The workers have ended or were aborted, whatever they held; new ones start.
\* The client starts a round when every server has acknowledged the one before.
SenderRestart ==
  /\ cancelled /\ stest < MaxTests /\ stest <= rtest
  /\ stest' = stest + 1 /\ cancelled' = FALSE
  /\ next_seq' = 0 /\ sent_pkts' = 0 /\ failed' = 0
  /\ wpc' = [w \in Workers |-> "top"] /\ offset' = [w \in Workers |-> 0]
  /\ held' = [w \in Workers |-> NoSeq]
  /\ UNCHANGED <<sent, receiverVars>>

-----------------------------------------------------------------------------
(* udp_recv_loop of the receiver.                                          *)

\* The bug: the slot moves to the number received, not past it.
NoteSeqNoStep(seq) ==
  IF expected = NoSeq THEN expected' = seq /\ dropped' = dropped
  ELSE IF seq >= expected THEN expected' = seq /\ dropped' = dropped + (seq - expected)
  ELSE UNCHANGED <<expected, dropped>>

\* note_seq and the drops added from its result.  The first number a test hears
\* is taken as it comes; a number below the expected one is late, and ignored.
NoteSeq(seq) ==
  IF expected = NoSeq THEN expected' = seq + 1 /\ dropped' = dropped
  ELSE IF seq >= expected THEN expected' = seq + 1 /\ dropped' = dropped + (seq - expected)
  ELSE UNCHANGED <<expected, dropped>>

\* Any datagram sent is delivered: late, after others, once more, or never.
Deliver(p) ==
  /\ p \in sent /\ Len(heard) < MaxRecv
  /\ heard' = Append(heard, p)
  /\ NoteSeq(p.seq)
  /\ UNCHANGED <<senderVars, sent, rtest>>

\* The receiver's side of a new test: a new socket on the same port, new slots.
ReceiverRestart ==
  /\ rtest < MaxTests /\ rtest <= stest
  /\ rtest' = rtest + 1
  /\ expected' = NoSeq /\ dropped' = 0 /\ heard' = <<>>
  /\ UNCHANGED <<senderVars, sent>>

-----------------------------------------------------------------------------
WorkerNext(w) ==
  BeginPayload(w) \/ SeesCancel(w) \/ FetchSeq(w) \/ SendOk(w) \/ SendFail(w)

Next ==
  \/ \E w \in Workers : WorkerNext(w)
  \/ Cancel \/ SenderRestart \/ ReceiverRestart
  \/ \E p \in sent : Deliver(p)

Spec == Init /\ [][Next]_vars

-----------------------------------------------------------------------------
(* Properties.                                                             *)

SentIn(t) == {p \in sent : p.test = t}
Sending   == {w \in Workers : wpc[w] = "send"}

\* Numbers are drawn once: every number of the running test is on exactly one
\* datagram, or in the hand of one worker, or was spent on a failed write; a gap
\* the receiver sees is a datagram that was lost or never sent, not a number two
\* workers share.  And packets_sent never claims a datagram that was not handed to
\* the socket (dataplane.rs 428-464).
SeqsAccounted ==
  /\ Cardinality(SentIn(stest)) + Cardinality(Sending) + failed = next_seq
  /\ \A p, q \in sent : (p.test = q.test /\ p.seq = q.seq) => p = q
  /\ sent_pkts <= Cardinality(SentIn(stest))

HeardSeqs == {heard[i].seq : i \in 1 .. Len(heard)}

\* What the receiver could know of the numbers between the first one it heard and
\* the highest: those it never heard, and those it heard only after a higher one.
First == heard[1].seq
Top   == CHOOSE s \in HeardSeqs : \A r \in HeardSeqs : r <= s
Missing == {s \in First .. Top : s \notin HeardSeqs}
ArrivedLate(s) ==
  \E i \in 1 .. Len(heard) : /\ heard[i].seq = s
                             /\ \A j \in 1 .. i - 1 : heard[j].seq # s
                             /\ \E j \in 1 .. i - 1 : heard[j].seq > s
Late == {s \in First .. Top : ArrivedLate(s)}

\* The drops a test reports are the numbers missing from what it heard plus the
\* ones that came late, however datagrams were lost, reordered, duplicated or
\* left over from an earlier test (dataplane.rs 341-361, 389-394).
DropsAreGaps ==
  heard # <<>> => dropped = Cardinality(Missing) + Cardinality(Late)

-----------------------------------------------------------------------------
(* The inductive invariant of UdpFlowProofs.                               *)

\* A number of the running test is below the counter and in one place: on one
\* datagram or in one worker's hand.
NumbersUnique ==
  /\ \A p \in sent : p.test <= stest /\ (p.test = stest => p.seq < next_seq)
  /\ \A p, q \in sent : (p.test = q.test /\ p.seq = q.seq) => p = q
  /\ \A w \in Sending : held[w] \in 0 .. next_seq - 1 /\ \A p \in SentIn(stest) : p.seq # held[w]
  /\ \A v, w \in Sending : held[v] = held[w] => v = w

NumbersCounted ==
  /\ IsFiniteSet(sent)
  /\ Cardinality(SentIn(stest)) + Cardinality(Sending) + failed = next_seq

\* The chunks handed to the socket that packets_sent does not count yet.
OpenChunks ==
  {c \in Workers \X (1 .. Chunks) : wpc[c[1]] \in {"chunk", "send"} /\ c[2] <= offset[c[1]]}

PacketsCounted ==
  /\ \A w \in Workers : wpc[w] \in {"chunk", "send"} => offset[w] < Chunks
  /\ sent_pkts + Cardinality(OpenChunks) <= Cardinality(SentIn(stest))

\* The slot is one past the highest number heard.
Expecting ==
  /\ heard = <<>> => expected = NoSeq /\ dropped = 0
  /\ heard # <<>> => expected - 1 \in HeardSeqs /\ \A r \in HeardSeqs : r < expected

SenderInv   == NumbersUnique /\ NumbersCounted /\ PacketsCounted
ReceiverInv == Expecting /\ DropsAreGaps
IInv == TypeOK /\ SenderInv /\ ReceiverInv
=============================================================================
