--------------------------- MODULE ServerSession ---------------------------
(***************************************************************************)
(* The server process of tperf: the accept loop (`run'), the control       *)
(* session it serves inline (`handle_conn'), the test a Start launches     *)
(* (`start_test': data-plane tasks and the metrics loop in one JoinSet,    *)
(* receivers spawned outside it), and `RunningTest::stop', which cancels,  *)
(* waits at most two seconds for the metrics loop, aborts and joins.       *)
(*                                                                         *)
(* Each handled Start has a generation number; the model keeps its tasks   *)
(* as sets indexed by generation, so that two generations CAN be alive at  *)
(* once: that they never are is a property, not a choice of state.         *)
(*                                                                         *)
(* The server-to-client half of the control socket is the history of the   *)
(* frames written and the number the client has taken; a frame fits while  *)
(* fewer than Cap are outstanding.  A frame the server began and was       *)
(* killed in the middle of is a "torn" frame: bytes that stay on the       *)
(* stream and that no reader can step over.                                *)
(***************************************************************************)
EXTENDS Integers, Sequences, FiniteSets

CONSTANTS MaxConns,   \* bound: control connections ever accepted
          MaxReqs,    \* bound: requests ever sent, over all connections
          MaxWin,     \* bound: windows one test writes to one connection
          Cap,        \* frames the control socket holds unread
          Udp         \* network = "udp": no receivers, every task holds the port

ASSUME SessionAssumption == /\ MaxConns \in Nat \ {0}
                            /\ MaxReqs \in Nat
                            /\ MaxWin \in Nat
                            /\ Cap \in Nat \ {0}
                            /\ Udp \in BOOLEAN

Gens == 1 .. MaxReqs

\* What the client may send.  "other" is any decodable frame that is neither
\* Start nor Stop.
Requests == {"start", "stop", "other"}

\* The I/O tasks start_test puts in the JoinSet: "listen" is tcp_accept_loop or
\* udp_recv_loop, "send" stands for all workers.
IoKinds == {"listen", "send"}
IoTasks == Gens \X IoKinds

Replies == {"start", "stop", "error"}
Frames  == [kind : Replies \cup {"window", "torn"}, gen : 0 .. MaxReqs]

VARIABLES
  conns,     \* connections accepted so far
  sent,      \* requests the clients have sent so far
  open,      \* the current client still holds its end of the connection
  inbox,     \* requests sent and not yet read by read_frame
  wire,      \* every frame written on the current connection
  taken,     \* how many of them the client has read
  pc,        \* where run/handle_conn/stop is awaiting
  todo,      \* what follows: after stop/join, or which reply is being written
  gen,       \* generation of the latest handled Start
  test,      \* handle_conn's `test': 0 is None
  local,     \* the RunningTest a local variable owns (t), 0 if none
  cancelled, \* generations whose CancellationToken was cancelled
  io,        \* live I/O tasks of JoinSets
  mloop,     \* metrics_loop task of each generation
  recvs      \* generations with live tcp_recv_loop tasks (detached)

session == <<pc, todo, gen, test, local>>
stream  == <<wire, taken>>
client  == <<conns, sent, open>>
tasks   == <<cancelled, io, mloop, recvs>>
vars    == <<client, inbox, stream, session, tasks>>

MLoopStates == {"none", "wait", "emit", "write", "done"}

TypeOK ==
  /\ conns \in 0 .. MaxConns
  /\ sent \in 0 .. MaxReqs
  /\ open \in BOOLEAN
  /\ inbox \in Seq(Requests)
  /\ wire \in Seq(Frames)
  /\ taken \in 0 .. Len(wire)
  /\ pc \in {"accept", "read", "stop", "join", "start", "reply"}
  /\ todo \in Replies \cup {"none", "accept"}
  /\ gen \in 0 .. MaxReqs
  /\ test \in 0 .. MaxReqs
  /\ local \in 0 .. MaxReqs
  /\ cancelled \subseteq Gens
  /\ io \subseteq IoTasks
  /\ mloop \in [Gens -> MLoopStates]
  /\ recvs \subseteq Gens

Init ==
  /\ conns = 0 /\ sent = 0 /\ open = FALSE
  /\ inbox = <<>> /\ wire = <<>> /\ taken = 0
  /\ pc = "accept" /\ todo = "none"
  /\ gen = 0 /\ test = 0 /\ local = 0
  /\ cancelled = {} /\ io = {} /\ recvs = {}
  /\ mloop = [g \in Gens |-> "none"]

-----------------------------------------------------------------------------
Room == Len(wire) - taken < Cap

Written(kind, g) == wire' = Append(wire, [kind |-> kind, gen |-> g])

MLoopAlive(g) == mloop[g] \notin {"none", "done"}

\* The generations that still have a task in a JoinSet.  A metrics loop that
\* returned leaves nothing behind.
IoAlive(g) == \E k \in IoKinds : <<g, k>> \in io
Alive == {g \in Gens : IoAlive(g) \/ MLoopAlive(g)}

\* The mutex around the write half (write_frame_locked).
Locked == \E g \in Gens : mloop[g] = "write"

\* The data port is bound by the listener (TCP) or by every task that shares
\* the socket (UDP).
PortHeld == \E g \in Gens, k \in IoKinds : <<g, k>> \in io /\ (Udp \/ k = "listen")

-----------------------------------------------------------------------------
(* The client's end of the connection, as client.rs uses it.               *)

\* The bug: state of the old connection carried into the new one.
AcceptKeepsTaken ==
  /\ pc = "accept" /\ conns < MaxConns
  /\ conns' = conns + 1
  /\ open' = TRUE
  /\ inbox' = <<>> /\ wire' = <<>>
  /\ pc' = "read" /\ todo' = "none"
  /\ UNCHANGED <<sent, taken, gen, test, local, tasks>>

\* The client connects and the server's accept loop takes the connection.
\* Requests already queued on a connection that waited in the backlog are the
\* same as requests sent right after this step.
Accept ==
  /\ pc = "accept" /\ conns < MaxConns
  /\ conns' = conns + 1
  /\ open' = TRUE
  /\ inbox' = <<>> /\ wire' = <<>> /\ taken' = 0
  /\ pc' = "read" /\ todo' = "none"
  /\ UNCHANGED <<sent, gen, test, local, tasks>>

ClientSend(r) ==
  /\ open /\ sent < MaxReqs
  /\ sent' = sent + 1
  /\ inbox' = Append(inbox, r)
  /\ UNCHANGED <<conns, open, stream, session, tasks>>

ClientRead ==
  /\ open /\ taken < Len(wire)
  /\ taken' = taken + 1
  /\ UNCHANGED <<client, inbox, wire, session, tasks>>

\* The client process exits, is killed, or shuts its writers down.
ClientClose ==
  /\ open
  /\ open' = FALSE
  /\ UNCHANGED <<conns, sent, inbox, stream, session, tasks>>

-----------------------------------------------------------------------------
(* handle_conn.                                                            *)

\* `test.take()', and t.stop() up to its first await, when there is a test;
\* otherwise straight on to `next'.
StopThen(next, where) ==
  IF test # 0
  THEN /\ pc' = "stop" /\ todo' = next
       /\ test' = 0 /\ local' = test
       /\ cancelled' = cancelled \cup {test}
  ELSE /\ pc' = where /\ todo' = next
       /\ UNCHANGED <<test, local, cancelled>>

\* The bug this guards against: a Start that forgets the running test.
ReadStartKeepsTest ==
  /\ pc = "read" /\ inbox # <<>> /\ Head(inbox) = "start"
  /\ inbox' = Tail(inbox)
  /\ gen' = gen + 1
  /\ pc' = "start" /\ todo' = "start"
  /\ UNCHANGED <<client, stream, test, local, tasks>>

ReadStart ==
  /\ pc = "read" /\ inbox # <<>> /\ Head(inbox) = "start"
  /\ inbox' = Tail(inbox)
  /\ gen' = gen + 1
  /\ StopThen("start", "start")
  /\ UNCHANGED <<client, stream, io, mloop, recvs>>

ReadStop ==
  /\ pc = "read" /\ inbox # <<>> /\ Head(inbox) = "stop"
  /\ inbox' = Tail(inbox)
  /\ StopThen("stop", "reply")
  /\ UNCHANGED <<client, stream, gen, io, mloop, recvs>>

ReadOther ==
  /\ pc = "read" /\ inbox # <<>> /\ Head(inbox) = "other"
  /\ inbox' = Tail(inbox)
  /\ UNCHANGED <<client, stream, session, tasks>>

\* read_frame fails: end of stream, or a reset that discards what was queued.  A frame
\* that cannot be decoded would end the session in the same way, but the client writes
\* its requests whole for as long as it is there.
ReadClosed ==
  /\ pc = "read" /\ ~open
  /\ StopThen("accept", "accept")
  /\ UNCHANGED <<client, inbox, stream, gen, io, mloop, recvs>>

\* The bug: no timeout around the wait for metrics_done.
StopWaitDoneOnly ==
  /\ pc = "stop" /\ mloop[local] = "done"
  /\ pc' = "join"
  /\ UNCHANGED <<client, inbox, stream, todo, gen, test, local, tasks>>

\* RunningTest::stop awaits metrics_done for at most two seconds: it goes on
\* when the metrics loop is done, and it may go on when it is not.
StopWait ==
  /\ pc = "stop"
  /\ pc' = "join"
  /\ UNCHANGED <<client, inbox, stream, todo, gen, test, local, tasks>>

\* abort_all: an I/O task of the test being joined is dropped at its await.
AbortIo(k) ==
  /\ pc = "join" /\ <<local, k>> \in io
  /\ io' = io \ {<<local, k>>}
  /\ UNCHANGED <<client, inbox, stream, session, cancelled, mloop, recvs>>

\* abort_all on the metrics loop.  Dropped inside write_frame when the socket
\* is full, it leaves the beginning of its frame on the stream, or nothing if
\* not one byte had been accepted; the lock is released either way.
AbortMetrics ==
  /\ pc = "join" /\ MLoopAlive(local)
  /\ mloop' = [mloop EXCEPT ![local] = "done"]
  /\ \/ UNCHANGED wire
     \/ mloop[local] = "write" /\ ~Room /\ Written("torn", local)
  /\ UNCHANGED <<client, inbox, taken, session, cancelled, io, recvs>>

\* The bug: stop() that aborts without joining.
JoinNothing ==
  /\ pc = "join"
  /\ local' = 0
  /\ pc' = IF todo = "stop" THEN "reply" ELSE todo
  /\ UNCHANGED <<client, inbox, stream, todo, gen, test, tasks>>

\* join_next returned None: stop() is over, its caller goes on.
JoinDone ==
  /\ pc = "join" /\ local \notin Alive
  /\ local' = 0
  /\ pc' = IF todo = "stop" THEN "reply" ELSE todo
  /\ UNCHANGED <<client, inbox, stream, todo, gen, test, tasks>>

\* start_test succeeds: the port could be bound, the tasks are spawned; the
\* RunningTest is still a local of handle_conn until its Ack is written.
StartTestOk ==
  /\ pc = "start" /\ ~PortHeld
  /\ io' = io \cup ({gen} \X IoKinds)
  /\ mloop' = [mloop EXCEPT ![gen] = "wait"]
  /\ local' = gen
  /\ pc' = "reply" /\ todo' = "start"
  /\ UNCHANGED <<client, inbox, stream, gen, test, cancelled, recvs>>

\* start_test fails (config, bind, resolution) before it spawns anything.
StartTestErr ==
  /\ pc = "start"
  /\ pc' = "reply" /\ todo' = "error"
  /\ UNCHANGED <<client, inbox, stream, gen, test, local, tasks>>

\* The reply is written whole, under the lock.  After the Ack of a Start the
\* test moves into `test'.
ReplyWrite ==
  /\ pc = "reply" /\ ~Locked /\ Room
  /\ Written(todo, gen)
  /\ pc' = "read" /\ todo' = "none"
  /\ test' = local /\ local' = 0
  /\ UNCHANGED <<client, inbox, taken, gen, tasks>>

\* The bug: handle_conn returns the error of a Start's Ack without t.stop().
ReplyFailLeavesTest ==
  /\ pc = "reply" /\ ~Locked /\ ~open
  /\ pc' = (IF todo = "error" THEN "read" ELSE "accept")
  /\ todo' = "none" /\ local' = 0
  /\ UNCHANGED <<client, inbox, stream, gen, test, tasks>>

\* The write fails because the client is gone.  The Ack of a Start: stop the
\* new test, then return.  The Ack of a Stop: return.  An Error: ignored.
ReplyFail ==
  /\ pc = "reply" /\ ~Locked /\ ~open
  /\ \/ /\ todo = "start"
        /\ pc' = "stop" /\ todo' = "accept"
        /\ cancelled' = cancelled \cup {local}
     \/ /\ todo = "stop"
        /\ pc' = "accept" /\ todo' = "none"
        /\ UNCHANGED cancelled
     \/ /\ todo = "error"
        /\ pc' = "read" /\ todo' = "none"
        /\ UNCHANGED cancelled
  /\ UNCHANGED <<client, inbox, stream, gen, test, local, io, mloop, recvs>>

-----------------------------------------------------------------------------
(* metrics_loop of generation g.                                           *)

\* The windows of g on this connection, for the bound MaxWin only.
WindowsOf(g) == Cardinality({i \in 1 .. Len(wire) : wire[i] = [kind |-> "window", gen |-> g]})

\* wait_until_mono looks at the deadline before it looks at the token, so a
\* mark that has passed is emitted even by a cancelled loop.
DeadlineHit(g) ==
  /\ mloop[g] = "wait" /\ WindowsOf(g) < MaxWin
  /\ mloop' = [mloop EXCEPT ![g] = "emit"]
  /\ UNCHANGED <<client, inbox, stream, session, cancelled, io, recvs>>

SeesCancel(g) ==
  /\ mloop[g] = "wait" /\ g \in cancelled
  /\ mloop' = [mloop EXCEPT ![g] = "done"]
  /\ UNCHANGED <<client, inbox, stream, session, cancelled, io, recvs>>

\* emit_window has its snapshot and takes the lock.
WriteBegin(g) ==
  /\ mloop[g] = "emit" /\ ~Locked
  /\ mloop' = [mloop EXCEPT ![g] = "write"]
  /\ UNCHANGED <<client, inbox, stream, session, cancelled, io, recvs>>

AfterWindow(g) == IF g \in cancelled THEN "done" ELSE "wait"

WriteEnd(g) ==
  /\ mloop[g] = "write" /\ Room
  /\ Written("window", g)
  /\ mloop' = [mloop EXCEPT ![g] = AfterWindow(g)]
  /\ UNCHANGED <<client, inbox, taken, session, cancelled, io, recvs>>

\* The bug: a window write that is retried until the client takes it.
WriteFailRetries(g) ==
  /\ mloop[g] = "write" /\ ~open
  /\ UNCHANGED vars

\* `let _ = write_frame_locked(..)': a failed window is dropped.
WriteFail(g) ==
  /\ mloop[g] = "write" /\ ~open
  /\ mloop' = [mloop EXCEPT ![g] = AfterWindow(g)]
  /\ UNCHANGED <<client, inbox, stream, session, cancelled, io, recvs>>

-----------------------------------------------------------------------------
(* The data plane, as far as task lifetimes go.                            *)

\* An I/O task returns: all workers after a write error or on cancellation, the
\* listener only on cancellation.
IoEnds(g, k) ==
  /\ <<g, k>> \in io /\ (k = "send" \/ g \in cancelled)
  /\ io' = io \ {<<g, k>>}
  /\ UNCHANGED <<client, inbox, stream, session, cancelled, mloop, recvs>>

\* tcp_accept_loop accepts a peer and spawns tcp_recv_loop outside the JoinSet.
\* The select! may still pick this branch when the token is cancelled.
PeerConnects(g) ==
  /\ ~Udp /\ <<g, "listen">> \in io
  /\ recvs' = recvs \cup {g}
  /\ UNCHANGED <<client, inbox, stream, session, cancelled, io, mloop>>

\* The receivers of g end: their peers closed, or they saw the cancelled token.
ReceiversEnd(g) ==
  /\ g \in recvs
  /\ recvs' = recvs \ {g}
  /\ UNCHANGED <<client, inbox, stream, session, cancelled, io, mloop>>

-----------------------------------------------------------------------------
ClientNext == Accept \/ (\E r \in Requests : ClientSend(r)) \/ ClientRead \/ ClientClose

SessionNext ==
  \/ ReadStart \/ ReadStop \/ ReadOther \/ ReadClosed
  \/ StopWait \/ (\E k \in IoKinds : AbortIo(k)) \/ AbortMetrics \/ JoinDone
  \/ StartTestOk \/ StartTestErr
  \/ ReplyWrite \/ ReplyFail

MetricsNext(g) ==
  \/ DeadlineHit(g) \/ SeesCancel(g) \/ WriteBegin(g) \/ WriteEnd(g) \/ WriteFail(g)

DataNext(g) ==
  (\E k \in IoKinds : IoEnds(g, k)) \/ PeerConnects(g) \/ ReceiversEnd(g)

Next == ClientNext \/ SessionNext \/ (\E g \in Gens : MetricsNext(g) \/ DataNext(g))

Spec == Init /\ [][Next]_vars

(***************************************************************************)
(* Fairness of the server alone: the tokio runtime polls every ready task, *)
(* the two-second timer fires, an aborted task is dropped, a write to a    *)
(* socket with room completes and one to a closed peer fails.  Nothing is  *)
(* assumed of the client: it may stop reading for ever.  A metrics loop    *)
(* that is not cancelled owes nothing, and a test may fail to start.  The  *)
(* reply competes with the windows of the running test for a tokio Mutex,  *)
(* which is a FIFO queue: strong fairness.                                 *)
(***************************************************************************)
ServerFairness ==
  /\ WF_vars(ReadStart \/ ReadStop \/ ReadOther \/ ReadClosed)
  /\ WF_vars(StopWait)
  /\ \A k \in IoKinds : WF_vars(AbortIo(k))
  /\ WF_vars(AbortMetrics)
  /\ WF_vars(JoinDone)
  /\ WF_vars(StartTestOk \/ StartTestErr)
  /\ SF_vars(ReplyWrite \/ ReplyFail)
  /\ \A g \in Gens : /\ WF_vars(WriteBegin(g))
                     /\ WF_vars(WriteEnd(g) \/ WriteFail(g))
                     /\ WF_vars(g \in cancelled /\ SeesCancel(g))
                     /\ WF_vars(g \in cancelled /\ ReceiversEnd(g))

FairSpec == Spec /\ ServerFairness

\* The client of client.rs: its pump reads every frame until it closes.  This is
\* a hypothesis of one property, not a part of the specification.
ClientReads == WF_vars(ClientRead)

-----------------------------------------------------------------------------
(* Properties.                                                             *)

\* A server runs one test at a time: the tasks a JoinSet still holds all belong
\* to the test handle_conn stores, to the one stop() is tearing down, or to the
\* one whose Ack is being written (server.rs 72-108).
OneTest == \A g \in Alive : g = test \/ g = local

\* No task outlives its owner: when the accept loop waits for the next client,
\* and when start_test is about to bind the data port, every earlier test is
\* gone, so a Start never meets its predecessor's listener (server.rs 74-77,
\* 87-88, 114-116).
NoOrphanTest == pc \in {"accept", "start"} => Alive = {}

\* What a reply promises: after the Ack of a Stop nothing of the tests started
\* before it is alive, and after the reply to a Start nothing of the tests
\* before that one is (server.rs 53-57, 74-77, 103-107).
AckMeansQuiet ==
  \A i \in 1 .. Len(wire) : \A g \in Alive :
    /\ wire[i].kind = "stop" => g > wire[i].gen
    /\ wire[i].kind \in {"start", "error"} => g >= wire[i].gen

\* A window is never attributed to the wrong test: on the stream, no window of
\* a generation follows the Ack of the Stop that ended it or the reply to a
\* later Start (server.rs 53-57, emit_window after cancellation 194-206).
StreamOrder ==
  \A i, j \in 1 .. Len(wire) :
    (i < j /\ wire[j].kind = "window") =>
      /\ wire[i].kind = "stop" => wire[j].gen > wire[i].gen
      /\ wire[i].kind \in {"start", "error"} => wire[j].gen >= wire[i].gen

\* Detached receivers belong to the running test or hold a cancelled token:
\* none can count traffic for ever (dataplane.rs 161-166, server.rs 52).
ReceiversOwned == \A g \in recvs : g \in cancelled \/ g = test \/ g = local

\* Whatever the client does with its end of the socket, even if it never reads
\* again, a cancelled test ends: its I/O tasks, its metrics loop blocked in a
\* write, and its detached receivers (server.rs 51-58).
CancelledTestDies ==
  \A g \in Gens : (g \in cancelled) ~> (g \notin Alive /\ g \notin recvs)

\* If the client goes away, by a close or an exit, the server returns to its
\* accept loop with nothing running, ready for the next client (server.rs
\* 67-71, 87-90, 114-117).
ServerComesBack ==
  (~open) ~> (open \/ (pc = "accept" /\ Alive = {}))

\* A client whose pump keeps reading is always answered: every request is
\* consumed and its reply written, or the connection ends (server.rs 71-113).
SessionResponsive ==
  ClientReads =>
    ((pc # "read" \/ inbox # <<>>) ~> (pc = "accept" \/ (pc = "read" /\ inbox = <<>>)))

\* The client prints every window a server streams to it (README.md 3-5, 84):
\* a window written whole is never behind a torn frame, where read_frame cannot
\* find it.
WindowsReadable ==
  \A i, j \in 1 .. Len(wire) :
    (i < j /\ wire[j].kind = "window") => wire[i].kind # "torn"

-----------------------------------------------------------------------------
(* The promise: this server implements SessionContract.                    *)

\* The request being served, as the client sees it.  The end of a session,
\* stop() on the way back to the accept loop included, serves no request.
Serving ==
  IF pc \in {"accept", "read"} \/ todo = "accept" THEN "none"
  ELSE IF pc = "reply" /\ todo # "stop"
       THEN IF todo = "start" THEN "started" ELSE "refused"
       ELSE todo

\* A test exists for the client while its metrics loop may write windows.
Testing == {g \in Gens : MLoopAlive(g)}

Contract == INSTANCE SessionContract WITH
  on <- pc # "accept", up <- open, pending <- inbox, serving <- Serving,
  tests <- Testing, stream <- wire

\* Every step of the server, of its tasks and of the client's end is a step of
\* the contract or changes nothing the client can see: whatever the timing of
\* cancellation, abort, a blocked write or a lost client, requests are served in
\* order, tests follow one another, and replies and windows are true (server.rs
\* 51-117, 150-207).
ImplementsContract == Contract!Spec

-----------------------------------------------------------------------------
(* The inductive invariant of ServerSessionProofs.                         *)

\* Every queued request was sent, so generations stay within Gens.
GenBound == gen + Len(inbox) <= sent

\* Which of the two owners holds a test where, and of which generation.
Ownership ==
  /\ test # 0 => test = gen
  /\ pc \in {"accept", "start"} => test = 0 /\ local = 0
  /\ pc = "start" => todo = "start"
  /\ pc = "read" => local = 0
  /\ pc \in {"stop", "join"} =>
       /\ test = 0 /\ local # 0 /\ local \in cancelled
       /\ todo \in {"start", "stop", "accept"}
       /\ local = IF todo = "start" THEN gen - 1 ELSE gen
  /\ pc = "reply" =>
       /\ test = 0 /\ todo \in Replies
       /\ local = IF todo = "start" THEN gen ELSE 0
  /\ (pc \in {"start", "stop", "join", "reply"} /\ todo = "start") => gen # 0

\* Frames carry generations handled so far, and replies to the Start being
\* handled are not written before its tasks exist.
FrameGens ==
  \A i \in 1 .. Len(wire) :
    /\ wire[i].gen <= gen
    /\ (wire[i].kind \in Replies /\ pc \in {"stop", "join", "start"} /\ todo = "start")
         => wire[i].gen < gen

IInv == /\ TypeOK /\ GenBound /\ Ownership /\ FrameGens
        /\ OneTest /\ AckMeansQuiet /\ StreamOrder /\ ReceiversOwned

\* What the refinement needs besides: the token of a test that stop() has not
\* taken up is not cancelled, and a session ends only when its client is gone.
Tokens ==
  /\ \A g \in cancelled : g <= gen
  /\ test \notin cancelled
  /\ todo \in {"start", "error"} => gen \notin cancelled

SessionEnds == (pc = "accept" \/ todo = "accept") => ~open

\* The metrics loop of a test whose token is not cancelled has not ended.
LoopLives ==
  /\ test # 0 => MLoopAlive(test)
  /\ (pc = "reply" /\ todo = "start") => MLoopAlive(local)

RInv == IInv /\ Tokens /\ SessionEnds /\ LoopLives
=============================================================================
