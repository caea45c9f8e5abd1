--------------------------- MODULE TcpFlowProofs ---------------------------
(***************************************************************************)
(* Proofs about TcpFlow, for any number of workers and of tests: in a      *)
(* round both servers run, a worker falls silent only because it gave up   *)
(* or because it had reached the listener of the peer's previous test, and *)
(* the drops are exactly the workers lost to a failed write.               *)
(*                                                                         *)
(* A connection is followed from the listener that took it to its reset:   *)
(* it is reset only when that listener's test is over.                     *)
(***************************************************************************)
EXTENDS TcpFlow, FiniteSetTheorems, TLAPS

\* The failed workers are some of the workers.
LEMMA FailedFinite ==
  /\ IsFiniteSet(Workers) /\ Cardinality(Workers) \in Nat
  /\ IsFiniteSet(Failed) /\ Cardinality(Failed) \in 0 .. Cardinality(Workers)
<1>1. IsFiniteSet(Workers) /\ Cardinality(Workers) \in Nat
  BY TcpAssumption, FS_CardinalityType
<1>2. Failed \in SUBSET Workers
  BY DEF Failed
<1>3. IsFiniteSet(Failed) /\ Cardinality(Failed) <= Cardinality(Workers)
  BY <1>1, <1>2, FS_Subset
<1>4. Cardinality(Failed) \in Nat
  BY <1>3, FS_CardinalityType
<1> QED BY <1>1, <1>3, <1>4

\* In the first test nobody is connected and nobody has failed.
LEMMA InitIInv == Init => IInv
<1> SUFFICES ASSUME Init PROVE IInv
  OBVIOUS
<1>1. Failed = {}
  BY DEF Init, Failed
<1>2. DropIsAWorker
  BY <1>1, FS_EmptySet DEF Init, DropIsAWorker
<1>3. TypeOK
  <2>1. scancel \in BOOLEAN
    BY DEF Init
  <2>2. stest \in Tests /\ rtest \in Tests /\ drops \in 0 .. Cardinality(Workers)
    BY TcpAssumption, FailedFinite DEF Init, Tests
  <2>3. writes \in [Workers -> 0 .. MaxWrites] /\ ctest \in [Workers -> 0 .. MaxTests]
    BY TcpAssumption DEF Init
  <2> QED BY <2>1, <2>2, <2>3 DEF Init, TypeOK
<1>4. DeadWorker /\ Connections /\ NextTestComes
  BY TcpAssumption DEF Init, DeadWorker, Connections, NextTestComes
<1> QED BY <1>2, <1>3, <1>4 DEF IInv

\* The count of drops is a type-correct number whenever it counts the failed.
LEMMA DropsTyped ==
  ASSUME DropIsAWorker'
  PROVE  drops' \in 0 .. Cardinality(Workers)
<1>1. Failed' \in SUBSET Workers
  BY DEF Failed
<1>2. IsFiniteSet(Failed') /\ Cardinality(Failed') <= Cardinality(Workers)
  BY <1>1, FailedFinite, FS_Subset
<1>3. Cardinality(Failed') \in Nat
  BY <1>2, FS_CardinalityType
<1> QED BY <1>2, <1>3, FailedFinite DEF DropIsAWorker

-----------------------------------------------------------------------------
(* The sender's steps.                                                     *)

\* A worker connects to whichever listener is there.
LEMMA ConnectStep ==
  ASSUME IInv, NEW w \in Workers, Connect(w)
  PROVE  IInv'
<1> USE DEF IInv, TypeOK, Connect, receiverVars
<1>1. Failed' = Failed
  BY DEF Failed
<1>2. DropIsAWorker'
  BY <1>1 DEF DropIsAWorker
<1>3. TypeOK'
  BY <1>2, DropsTyped, TcpAssumption DEF Tests
<1>4. DeadWorker'
  BY DEF DeadWorker
<1>5. Connections'
  BY TcpAssumption DEF Connections, Listening, Cancelled, Tests
<1>6. NextTestComes'
  BY DEF NextTestComes
<1> QED BY <1>2, <1>3, <1>4, <1>5, <1>6

\* A worker that gives up dies without a drop.
LEMMA GiveUpStep ==
  ASSUME IInv, NEW w \in Workers, GiveUp(w)
  PROVE  IInv'
<1> USE DEF IInv, TypeOK, GiveUp, receiverVars, connVars
<1>1. Failed' = Failed
  BY DEF Failed
<1>2. DropIsAWorker'
  BY <1>1 DEF DropIsAWorker
<1>3. TypeOK'
  BY <1>2, DropsTyped, TcpAssumption DEF Tests
<1>4. DeadWorker'
  BY DEF DeadWorker
<1>5. Connections' /\ NextTestComes'
  BY DEF Connections, Listening, Cancelled, NextTestComes
<1> QED BY <1>2, <1>3, <1>4, <1>5

\* A write changes what was sent and nothing else.
LEMMA WriteStep ==
  ASSUME IInv, NEW w \in Workers, Write(w)
  PROVE  IInv'
<1> USE DEF IInv, TypeOK, Write, receiverVars, connVars
<1>1. DropIsAWorker' /\ DeadWorker' /\ Connections' /\ NextTestComes'
  BY DEF DropIsAWorker, Failed, DeadWorker, Connections, Listening, Cancelled, NextTestComes
<1>2. TypeOK'
  BY <1>1, DropsTyped, TcpAssumption DEF Tests
<1> QED BY <1>1, <1>2

\* A failed write costs one drop and the worker, which had not died before.
LEMMA WriteFailsStep ==
  ASSUME IInv, NEW w \in Workers, WriteFails(w)
  PROVE  IInv'
<1> USE DEF IInv, TypeOK, WriteFails, receiverVars, connVars
<1>1. Failed' = Failed \cup {w} /\ w \notin Failed
  BY DEF Failed, DeadWorker
<1>2. Cardinality(Failed \cup {w}) = Cardinality(Failed) + 1
  BY <1>1, FailedFinite, FS_AddElement
<1>3. DropIsAWorker'
  BY <1>1, <1>2 DEF DropIsAWorker
<1>4. TypeOK'
  BY <1>3, DropsTyped, TcpAssumption DEF Tests
<1>5. DeadWorker'
  BY DEF DeadWorker
<1>6. Connections' /\ NextTestComes'
  BY DEF Connections, Listening, Cancelled, NextTestComes
<1> QED BY <1>3, <1>4, <1>5, <1>6

\* A cancelled worker drops its stream; the dead ones stay as they are.
LEMMA WorkerCancelledStep ==
  ASSUME IInv, NEW w \in Workers, WorkerCancelled(w)
  PROVE  IInv'
<1> USE DEF IInv, TypeOK, WorkerCancelled, receiverVars
<1>1. Failed' = Failed
  BY DEF Failed
<1>2. DropIsAWorker'
  BY <1>1 DEF DropIsAWorker
<1>3. TypeOK'
  BY <1>2, DropsTyped, TcpAssumption DEF Tests
<1>4. DeadWorker'
  BY DEF DeadWorker
<1>5. Connections' /\ NextTestComes'
  BY DEF Connections, Listening, Cancelled, NextTestComes
<1> QED BY <1>2, <1>3, <1>4, <1>5

\* The sender's test is cancelled, or the next one starts with fresh workers.
LEMMA SenderStep ==
  ASSUME IInv, SenderCancel \/ SenderStart
  PROVE  IInv'
<1>1. CASE SenderCancel
  <2> USE <1>1 DEF IInv, TypeOK, SenderCancel, receiverVars, connVars
  <2>1. DropIsAWorker' /\ DeadWorker' /\ Connections' /\ NextTestComes'
    BY DEF DropIsAWorker, Failed, DeadWorker, Connections, Listening, Cancelled, NextTestComes
  <2>2. TypeOK'
    BY <2>1, DropsTyped, TcpAssumption DEF Tests
  <2> QED BY <2>1, <2>2
<1>2. CASE SenderStart
  <2> USE <1>2 DEF IInv, TypeOK, SenderStart, receiverVars
  <2>1. Failed' = {}
    BY DEF Failed
  <2>2. DropIsAWorker'
    BY <2>1, FS_EmptySet DEF DropIsAWorker
  <2>3. TypeOK'
    <3>1. scancel' \in BOOLEAN
      OBVIOUS
    <3>2. stest' \in Tests /\ rtest' \in Tests /\ drops' \in 0 .. Cardinality(Workers)
      BY <2>2, DropsTyped, TcpAssumption DEF Tests
    <3>3. writes' \in [Workers -> 0 .. MaxWrites] /\ ctest' \in [Workers -> 0 .. MaxTests]
      BY TcpAssumption
    <3> QED BY <3>1, <3>2, <3>3
  <2>4. DeadWorker' /\ Connections' /\ NextTestComes'
    BY TcpAssumption DEF DeadWorker, Connections, NextTestComes, Tests
  <2> QED BY <2>2, <2>3, <2>4
<1> QED BY <1>1, <1>2

-----------------------------------------------------------------------------
(* The receiver's steps.                                                   *)

\* A connection is accepted, or its receive loop sees the cancellation.
LEMMA ConnectionStep ==
  ASSUME IInv, NEW w \in Workers, Accept(w) \/ RecvEnds(w)
  PROVE  IInv'
<1> USE DEF IInv, TypeOK, Accept, RecvEnds, senderVars, receiverVars
<1>1. DropIsAWorker' /\ NextTestComes'
  BY DEF DropIsAWorker, Failed, NextTestComes
<1>2. TypeOK'
  BY <1>1, DropsTyped, TcpAssumption DEF Tests
<1>3. DeadWorker'
  BY DEF DeadWorker
<1>4. Connections'
  BY DEF Connections, Listening, Cancelled
<1> QED BY <1>1, <1>2, <1>3, <1>4

\* The receiver's test goes down and the next one comes up: what the old listener
\* left in its backlog is reset, and what it had taken is now a test behind.
LEMMA ReceiverStep ==
  ASSUME IInv, ReceiverCancel \/ ReceiverDown \/ ReceiverStart
  PROVE  IInv'
<1> USE DEF IInv, TypeOK, ReceiverCancel, ReceiverDown, ReceiverStart, senderVars, connVars
<1>1. DropIsAWorker' /\ NextTestComes'
  BY DEF DropIsAWorker, Failed, NextTestComes
<1>2. TypeOK'
  BY <1>1, DropsTyped, TcpAssumption DEF Tests, NextTestComes
<1>3. DeadWorker'
  BY DEF DeadWorker
<1>4. Connections'
  <2>1. CASE ReceiverCancel
    BY <2>1 DEF Connections, Listening, Cancelled
  <2>2. CASE ReceiverDown
    BY <2>2 DEF Connections, Listening, Cancelled
  <2>3. CASE ReceiverStart
    BY <2>3, TcpAssumption DEF Connections, Listening, Cancelled, Tests
  <2> QED BY <2>1, <2>2, <2>3
<1> QED BY <1>1, <1>2, <1>3, <1>4

-----------------------------------------------------------------------------
(* The theorems.                                                           *)

\* The inductive invariant is kept by every step.
LEMMA NextIInv == IInv /\ [Next]_vars => IInv'
<1>1. ASSUME IInv, UNCHANGED vars PROVE IInv'
  BY <1>1 DEF vars, senderVars, receiverVars, connVars, IInv, TypeOK, DropIsAWorker, Failed,
     DeadWorker, Connections, Listening, Cancelled, NextTestComes
<1> QED
  BY <1>1, ConnectStep, GiveUpStep, WriteStep, WriteFailsStep, WorkerCancelledStep, SenderStep,
     ConnectionStep, ReceiverStep DEF Next, WorkerNext

\* The inductive invariant of the TCP data plane holds in every behaviour.
THEOREM Invariance == Spec => []IInv
BY InitIInv, NextIInv, PTL DEF Spec

\* Every variable keeps its type; a test never counts more drops than it has
\* workers, because a failed write ends its worker (tcp_send_loop).
THEOREM TypeCorrect == Spec => []TypeOK
<1>1. IInv => TypeOK
  BY DEF IInv
<1> QED BY <1>1, Invariance, PTL

\* packets_dropped of a TCP test counts the workers it has lost to a failed
\* write, each once; a worker whose connect deadline passed is not counted.
THEOREM DropIsAWorkerCorrect == Spec => []DropIsAWorker
<1>1. IInv => DropIsAWorker
  BY DEF IInv
<1> QED BY <1>1, Invariance, PTL

\* In a round both servers run, a worker is silent only because it never reached
\* the peer or because the listener of the peer's previous test had taken its
\* connection (tcp_accept_loop, tcp_recv_loop, tcp_send_loop).
THEOREM SilencedByOldListenerCorrect == Spec => []SilencedByOldListener
<1>1. IInv => SilencedByOldListener
  BY DEF IInv, TypeOK, SilencedByOldListener, InRound, DeadWorker, Connections, Cancelled
<1> QED BY <1>1, Invariance, PTL
=============================================================================
