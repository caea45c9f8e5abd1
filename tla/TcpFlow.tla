------------------------------ MODULE TcpFlow ------------------------------
(***************************************************************************)
(* The TCP data plane from one server to another (dataplane.rs: spawn_tcp, *)
(* tcp_accept_loop, tcp_recv_loop, tcp_send_loop; netutil.rs:              *)
(* connect_tcp_dest), over the tests the two of them go through.           *)
(*                                                                         *)
(* Both servers get a Start per round, but not at the same instant: a      *)
(* worker of the new test may find the listener of the peer's old one.  A  *)
(* connection therefore carries the test of the listener it went to, next  *)
(* to the test of the worker that made it.                                 *)
(***************************************************************************)
EXTENDS Integers, FiniteSets

CONSTANTS Workers,   \* the worker tasks of one target
          MaxTests,  \* bound: tests started
          MaxWrites  \* bound: payloads a worker writes in one test

ASSUME TcpAssumption == /\ IsFiniteSet(Workers)
                        /\ MaxTests \in Nat \ {0}
                        /\ MaxWrites \in Nat

Tests == 1 .. MaxTests

VARIABLES
  stest,     \* the sender's test
  scancel,   \* its token
  wpc,       \* worker: "connect" in connect_tcp_dest, "send", or over: "dead" after an
             \* error, "done" after cancellation
  gaveup,    \* workers whose connect deadline passed
  writes,    \* worker: payloads written and counted by add_sent
  drops,     \* packets_dropped of the sender's test
  rtest,     \* the receiver's test
  rstate,    \* "up", "stopping": cancelled, the listener still bound, "down"
  conn,      \* worker's connection: "none", "queued" in the backlog, "open", "reset"
  ctest      \* the receiver's test whose listener took it

senderVars   == <<stest, scancel, wpc, gaveup, writes, drops>>
receiverVars == <<rtest, rstate>>
connVars     == <<conn, ctest>>
vars == <<senderVars, receiverVars, connVars>>

TypeOK ==
  /\ stest \in Tests
  /\ scancel \in BOOLEAN
  /\ wpc \in [Workers -> {"connect", "send", "dead", "done"}]
  /\ gaveup \subseteq Workers
  /\ writes \in [Workers -> 0 .. MaxWrites]
  /\ drops \in 0 .. Cardinality(Workers)
  /\ rtest \in Tests
  /\ rstate \in {"up", "stopping", "down"}
  /\ conn \in [Workers -> {"none", "queued", "open", "reset"}]
  /\ ctest \in [Workers -> 0 .. MaxTests]

\* Both ends have started the first test.
Init ==
  /\ stest = 1 /\ scancel = FALSE
  /\ wpc = [w \in Workers |-> "connect"] /\ gaveup = {}
  /\ writes = [w \in Workers |-> 0] /\ drops = 0
  /\ rtest = 1 /\ rstate = "up"
  /\ conn = [w \in Workers |-> "none"] /\ ctest = [w \in Workers |-> 0]

Listening == rstate \in {"up", "stopping"}

-----------------------------------------------------------------------------
(* tcp_send_loop of one worker.                                            *)

\* TcpStream::connect succeeds: the kernel completes the handshake and queues the
\* connection, whichever test the listener belongs to.
Connect(w) ==
  /\ wpc[w] = "connect" /\ Listening
  /\ conn' = [conn EXCEPT ![w] = "queued"] /\ ctest' = [ctest EXCEPT ![w] = rtest]
  /\ wpc' = [wpc EXCEPT ![w] = "send"]
  /\ UNCHANGED <<stest, scancel, gaveup, writes, drops, receiverVars>>

\* Refused, and thirty seconds have passed since the first try.  Every other
\* refusal is followed by a delay and another try.
GiveUp(w) ==
  /\ wpc[w] = "connect" /\ ~Listening
  /\ wpc' = [wpc EXCEPT ![w] = "dead"] /\ gaveup' = gaveup \cup {w}
  /\ UNCHANGED <<stest, scancel, writes, drops, receiverVars, connVars>>

\* write_all returns Ok: the kernel took the payload, the peer need not have read.
Write(w) ==
  /\ wpc[w] = "send" /\ ~scancel /\ conn[w] \in {"queued", "open"} /\ writes[w] < MaxWrites
  /\ writes' = [writes EXCEPT ![w] = @ + 1]
  /\ UNCHANGED <<stest, scancel, wpc, gaveup, drops, receiverVars, connVars>>

\* The bug: a failed write is counted and tried again.
WriteFailsRetry(w) ==
  /\ wpc[w] = "send" /\ ~scancel /\ conn[w] = "reset" /\ drops <= Cardinality(Workers)
  /\ drops' = drops + 1
  /\ UNCHANGED <<stest, scancel, wpc, gaveup, writes, receiverVars, connVars>>

\* write_all fails: one drop, and the worker returns for the rest of the test.
WriteFails(w) ==
  /\ wpc[w] = "send" /\ ~scancel /\ conn[w] = "reset"
  /\ drops' = drops + 1
  /\ wpc' = [wpc EXCEPT ![w] = "dead"]
  /\ UNCHANGED <<stest, scancel, gaveup, writes, receiverVars, connVars>>

\* Cancelled in the connect loop or between two writes; the stream is dropped.
WorkerCancelled(w) ==
  /\ scancel /\ wpc[w] \in {"connect", "send"}
  /\ wpc' = [wpc EXCEPT ![w] = "done"]
  /\ conn' = [conn EXCEPT ![w] = "none"]
  /\ UNCHANGED <<stest, scancel, gaveup, writes, drops, receiverVars, ctest>>

-----------------------------------------------------------------------------
(* The sender's test ends and the next one starts.                         *)

SenderCancel ==
  /\ ~scancel
  /\ scancel' = TRUE
  /\ UNCHANGED <<stest, wpc, gaveup, writes, drops, receiverVars, connVars>>

\* The workers have ended or were aborted; new ones start.  The client begins a
\* round when every server has acknowledged the one before.
SenderStart ==
  /\ scancel /\ stest < MaxTests /\ stest <= rtest
  /\ stest' = stest + 1 /\ scancel' = FALSE
  /\ wpc' = [w \in Workers |-> "connect"] /\ gaveup' = {}
  /\ writes' = [w \in Workers |-> 0] /\ drops' = 0
  /\ conn' = [w \in Workers |-> "none"] /\ ctest' = [w \in Workers |-> 0]
  /\ UNCHANGED receiverVars

-----------------------------------------------------------------------------
(* The receiver: tcp_accept_loop and the tcp_recv_loop tasks.              *)

\* The accept loop takes a connection, even one last time after cancellation.
Accept(w) ==
  /\ conn[w] = "queued" /\ Listening /\ ctest[w] = rtest
  /\ conn' = [conn EXCEPT ![w] = "open"]
  /\ UNCHANGED <<senderVars, receiverVars, ctest>>

\* The receiver task's test is cancelled.
Cancelled(w) == ctest[w] < rtest \/ rstate # "up"

\* The bug: the receive loop also ends when there was nothing to read for a while.
RecvEndsIdle(w) ==
  /\ conn[w] = "open"
  /\ conn' = [conn EXCEPT ![w] = "reset"]
  /\ UNCHANGED <<senderVars, receiverVars, ctest>>

\* The bug: the receive loop does not watch the token.
RecvEndsNever(w) == FALSE

\* tcp_recv_loop sees its token and drops the stream.
RecvEnds(w) ==
  /\ conn[w] = "open" /\ Cancelled(w)
  /\ conn' = [conn EXCEPT ![w] = "reset"]
  /\ UNCHANGED <<senderVars, receiverVars, ctest>>

\* RunningTest::stop cancels the test, when the client begins a round that both
\* servers' Acks of the one before have allowed.
ReceiverCancel ==
  /\ rstate = "up" /\ rtest < MaxTests /\ rtest <= stest
  /\ rstate' = "stopping"
  /\ UNCHANGED <<senderVars, rtest, connVars>>

\* The accept loop has ended: the listener closes and resets its backlog.
ReceiverDown ==
  /\ rstate = "stopping"
  /\ rstate' = "down"
  /\ conn' = [w \in Workers |-> IF conn[w] = "queued" THEN "reset" ELSE conn[w]]
  /\ UNCHANGED <<senderVars, rtest, ctest>>

ReceiverStart ==
  /\ rstate = "down"
  /\ rtest' = rtest + 1 /\ rstate' = "up"
  /\ UNCHANGED <<senderVars, connVars>>

-----------------------------------------------------------------------------
WorkerNext(w) ==
  Connect(w) \/ GiveUp(w) \/ Write(w) \/ WriteFails(w) \/ WorkerCancelled(w)

Next ==
  \/ \E w \in Workers : WorkerNext(w) \/ Accept(w) \/ RecvEnds(w)
  \/ SenderCancel \/ SenderStart
  \/ ReceiverCancel \/ ReceiverDown \/ ReceiverStart

Spec == Init /\ [][Next]_vars

\* The tasks of both servers run, and a stopped test comes down.  When the next
\* test starts is the client's affair.
FairSpec ==
  /\ Spec
  /\ WF_vars(ReceiverDown)
  /\ \A w \in Workers : /\ WF_vars(Accept(w))
                        /\ WF_vars(RecvEnds(w))
                        /\ WF_vars(WriteFails(w) \/ WorkerCancelled(w))

-----------------------------------------------------------------------------
(* Properties.                                                             *)

\* Both servers have acknowledged the Start of the same round and neither was
\* stopped since.
InRound == stest = rtest /\ rstate = "up" /\ ~scancel

\* What can silence a worker in a round both servers run: it never reached the
\* peer, or it had connected to the listener of the peer's previous test.  A
\* connection that the peer's listener of the same round took is not lost
\* (dataplane.rs 147-247).
SilencedByOldListener ==
  InRound => \A w \in Workers :
               (wpc[w] = "dead" \/ conn[w] = "reset") => (w \in gaveup \/ ctest[w] < rtest)

\* A worker does not go on writing to a test that is over: if the peer has moved
\* past the test that took its connection, it ends (dataplane.rs 189-203,
\* 223-244).
StaleWorkerEnds ==
  \A w \in Workers :
    (wpc[w] = "send" /\ ctest[w] < rtest) ~> (wpc[w] # "send" \/ ctest[w] = rtest)

\* "round-robin of disjoint pairs so every host is tested against every other"
\* (README.md 68-69): in a round both servers have acknowledged, no worker has
\* given its target up because of a connection of that very round.
AckedPairIsTested ==
  InRound => \A w \in Workers : wpc[w] = "dead" => w \in gaveup

-----------------------------------------------------------------------------
(* The inductive invariant of TcpFlowProofs.                               *)

\* The workers a failed write has ended.
Failed == {w \in Workers : wpc[w] = "dead"} \ gaveup

\* Every drop is a worker the test has lost, and no worker is lost twice.
DropIsAWorker == drops = Cardinality(Failed)

\* Only a dead worker gave up, and one that did not was reset.
DeadWorker ==
  \A w \in Workers : /\ w \in gaveup => wpc[w] = "dead"
                     /\ wpc[w] = "dead" => w \in gaveup \/ conn[w] = "reset"

\* A connection waits at the listener that took it; one that was reset lost the
\* receiver's test it belongs to.
Connections ==
  \A w \in Workers : /\ ctest[w] <= rtest
                     /\ conn[w] = "queued" => Listening /\ ctest[w] = rtest
                     /\ conn[w] = "reset" => Cancelled(w)

\* A test is only cancelled for a next one.
NextTestComes == rstate # "up" => rtest < MaxTests

IInv == TypeOK /\ DropIsAWorker /\ DeadWorker /\ Connections /\ NextTestComes
=============================================================================
