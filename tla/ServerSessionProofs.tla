------------------------ MODULE ServerSessionProofs ------------------------
(***************************************************************************)
(* Proofs about ServerSession, for every value of its constants.  IInv is  *)
(* inductive; the safety properties the runs check are conjuncts of it or  *)
(* follow from its parts.  RInv adds which tokens are cancelled and that a *)
(* session ends only without its client; under it each action is a step of *)
(* SessionContract or a stutter.                                           *)
(***************************************************************************)
EXTENDS ServerSession, SequenceTheorems, TLAPS

-----------------------------------------------------------------------------
(* Facts about the operators the actions are built from.                   *)

\* Appending a frame keeps the type of the stream and everything before it.
LEMMA WrittenFacts ==
  ASSUME wire \in Seq(Frames), NEW f \in Frames
  PROVE  /\ Append(wire, f) \in Seq(Frames)
         /\ Len(Append(wire, f)) = Len(wire) + 1
         /\ \A i \in 1 .. Len(wire) : Append(wire, f)[i] = wire[i]
         /\ Append(wire, f)[Len(wire) + 1] = f
BY AppendProperties

\* A step that changes neither the I/O tasks nor the metrics loops leaves the
\* same generations alive.
LEMMA AliveSame ==
  ASSUME UNCHANGED <<io, mloop>>
  PROVE  Alive' = Alive
BY DEF Alive, IoAlive, MLoopAlive

-----------------------------------------------------------------------------
(* Type correctness.                                                       *)

\* The server starts with an empty stream, no test and nothing handled, so the
\* type and ownership parts of the invariant hold (run, handle_conn).
LEMMA InitType ==
  ASSUME Init PROVE TypeOK /\ GenBound /\ Ownership
<1>1. inbox \in Seq(Requests) /\ Len(inbox) = 0 /\ wire \in Seq(Frames) /\ Len(wire) = 0
  BY EmptySeq DEF Init
<1>2. mloop \in [Gens -> MLoopStates]
  BY DEF Init, MLoopStates
<1>3. /\ conns \in 0 .. MaxConns /\ sent \in 0 .. MaxReqs /\ taken \in 0 .. Len(wire)
      /\ gen \in 0 .. MaxReqs /\ test \in 0 .. MaxReqs /\ local \in 0 .. MaxReqs
  BY <1>1, SessionAssumption DEF Init
<1>4. open \in BOOLEAN /\ cancelled \subseteq Gens /\ io \subseteq IoTasks /\ recvs \subseteq Gens
  BY DEF Init
<1>5. TypeOK
  BY <1>1, <1>2, <1>3, <1>4 DEF Init, TypeOK
<1> QED BY <1>1, <1>5 DEF Init, GenBound, Ownership

\* test.take() with stop() keeps the types of the variables it moves.
LEMMA StopThenType ==
  ASSUME TypeOK, Ownership,
         NEW next \in Replies \cup {"accept"}, NEW where \in {"accept", "start", "reply"},
         StopThen(next, where)
  PROVE  /\ pc' \in {"stop", "accept", "start", "reply"}
         /\ todo' \in Replies \cup {"accept"}
         /\ test' \in 0 .. MaxReqs /\ local' \in 0 .. MaxReqs
         /\ cancelled' \subseteq Gens
<1>1. CASE test # 0
  <2>1. test \in Gens
    BY <1>1 DEF TypeOK, Gens
  <2>2. /\ pc' = "stop" /\ todo' = next /\ test' = 0 /\ local' = test
        /\ cancelled' = cancelled \cup {test}
    BY <1>1 DEF StopThen
  <2> QED BY <2>1, <2>2, SessionAssumption DEF TypeOK
<1>2. CASE test = 0
  BY <1>2 DEF StopThen, TypeOK
<1> QED BY <1>1, <1>2

\* Every step keeps the type invariant, and with it the bound on generations:
\* each handled Start was a queued request.
LEMMA TypeStep ==
  ASSUME TypeOK, GenBound, Ownership, Next
  PROVE  TypeOK' /\ GenBound'
<1> USE SessionAssumption
<1>1. CASE Accept
  BY <1>1 DEF Accept, TypeOK, GenBound, Requests, Frames, tasks
<1>2. ASSUME NEW r \in Requests, ClientSend(r) PROVE TypeOK' /\ GenBound'
  BY <1>2, AppendProperties DEF ClientSend, TypeOK, GenBound, stream, session, tasks
<1>3. CASE ClientRead
  BY <1>3 DEF ClientRead, TypeOK, GenBound, client, session, tasks
<1>4. CASE ClientClose
  BY <1>4 DEF ClientClose, TypeOK, GenBound, stream, session, tasks
<1> DEFINE Popped == inbox' = Tail(inbox) /\ inbox # <<>>
<1>5. ASSUME TypeOK, Popped
      PROVE  /\ inbox' \in Seq(Requests)
             /\ Len(inbox') = Len(inbox) - 1
  BY <1>5, HeadTailProperties DEF TypeOK
<1>6. CASE ReadStart
  <2>1. /\ inbox' \in Seq(Requests) /\ Len(inbox') = Len(inbox) - 1 /\ gen' = gen + 1
    BY <1>5, <1>6 DEF ReadStart
  <2>2. gen' + Len(inbox') <= sent /\ gen' \in 0 .. MaxReqs
    BY <2>1, LenProperties DEF TypeOK, GenBound
  <2>3. UNCHANGED <<client, stream, io, mloop, recvs>> /\ StopThen("start", "start")
    BY <1>6 DEF ReadStart
  <2> QED BY <2>1, <2>2, <2>3, StopThenType DEF TypeOK, GenBound, client, stream, Replies
<1>7. CASE ReadStop
  <2>1. /\ inbox' \in Seq(Requests) /\ Len(inbox') = Len(inbox) - 1
    BY <1>5, <1>7 DEF ReadStop
  <2>2. UNCHANGED <<client, stream, gen, io, mloop, recvs>> /\ StopThen("stop", "reply")
    BY <1>7 DEF ReadStop
  <2> QED BY <2>1, <2>2, StopThenType DEF TypeOK, GenBound, client, stream, Replies
<1>8. CASE ReadOther
  <2>1. /\ inbox' \in Seq(Requests) /\ Len(inbox') = Len(inbox) - 1
    BY <1>5, <1>8 DEF ReadOther
  <2> QED BY <1>8, <2>1 DEF ReadOther, TypeOK, GenBound, client, stream, session, tasks
<1>9. CASE ReadClosed
  <2>1. UNCHANGED <<client, inbox, stream, gen, io, mloop, recvs>> /\ StopThen("accept", "accept")
    BY <1>9 DEF ReadClosed
  <2> QED BY <2>1, StopThenType DEF TypeOK, GenBound, client, stream, Replies
<1>10. CASE StopWait
  BY <1>10 DEF StopWait, TypeOK, GenBound, client, stream, tasks
<1>11. ASSUME NEW k \in IoKinds, AbortIo(k) PROVE TypeOK' /\ GenBound'
  BY <1>11 DEF AbortIo, TypeOK, GenBound, client, stream, session
<1>12. CASE AbortMetrics
  <2>1. local \in Gens /\ mloop' \in [Gens -> MLoopStates]
    BY <1>12 DEF AbortMetrics, TypeOK, Ownership, Gens, MLoopStates
  <2>2. wire' = wire \/ wire' = Append(wire, [kind |-> "torn", gen |-> local])
    BY <1>12 DEF AbortMetrics, Written
  <2>3. [kind |-> "torn", gen |-> local] \in Frames
    BY DEF Frames, TypeOK
  <2>4. wire' \in Seq(Frames) /\ taken \in 0 .. Len(wire')
    BY <2>2, <2>3, WrittenFacts, SMTT(60) DEF TypeOK
  <2> QED BY <1>12, <2>1, <2>4 DEF AbortMetrics, TypeOK, GenBound, client, session
<1>13. CASE JoinDone
  BY <1>13 DEF JoinDone, TypeOK, GenBound, Ownership, client, stream, tasks
<1>14. CASE StartTestOk
  <2>1. gen \in Gens
    BY <1>14 DEF StartTestOk, TypeOK, Ownership, Gens
  <2>2. io' \subseteq IoTasks /\ mloop' \in [Gens -> MLoopStates]
    BY <1>14, <2>1 DEF StartTestOk, TypeOK, IoTasks, MLoopStates
  <2> QED BY <1>14, <2>2 DEF StartTestOk, TypeOK, GenBound, Replies, client, stream
<1>15. CASE StartTestErr
  BY <1>15 DEF StartTestErr, TypeOK, GenBound, Replies, client, stream, tasks
<1>16. CASE ReplyWrite
  <2>1. [kind |-> todo, gen |-> gen] \in Frames
    BY <1>16 DEF ReplyWrite, Ownership, Frames, TypeOK
  <2>2. wire' \in Seq(Frames) /\ taken \in 0 .. Len(wire')
    BY <1>16, <2>1, WrittenFacts DEF ReplyWrite, Written, TypeOK
  <2> QED BY <1>16, <2>2 DEF ReplyWrite, TypeOK, GenBound, client, tasks
<1>17. CASE ReplyFail
  <2>1. UNCHANGED <<client, inbox, stream, gen, test, local, io, mloop, recvs>>
    BY <1>17 DEF ReplyFail
  <2>2. pc' \in {"stop", "accept", "read"} /\ todo' \in {"accept", "none"}
    BY <1>17 DEF ReplyFail
  <2>3. cancelled' \subseteq Gens
    <3>1. CASE todo = "start"
      <4>1. local \in Gens
        BY <1>17, <3>1 DEF ReplyFail, Ownership, TypeOK, Gens
      <4>2. cancelled' = cancelled \cup {local}
        BY <1>17, <3>1 DEF ReplyFail
      <4> QED BY <4>1, <4>2 DEF TypeOK
    <3>2. CASE todo # "start"
      BY <1>17, <3>2 DEF ReplyFail, TypeOK
    <3> QED BY <3>1, <3>2
  <2> QED BY <2>1, <2>2, <2>3 DEF TypeOK, GenBound, client, stream
<1>18. ASSUME NEW g \in Gens, MetricsNext(g) PROVE TypeOK' /\ GenBound'
  <2>1. CASE DeadlineHit(g) \/ SeesCancel(g) \/ WriteBegin(g) \/ WriteFail(g)
    BY <2>1 DEF DeadlineHit, SeesCancel, WriteBegin, WriteFail, AfterWindow, TypeOK,
       GenBound, MLoopStates, client, stream, session
  <2>2. CASE WriteEnd(g)
    <3>1. [kind |-> "window", gen |-> g] \in Frames
      BY DEF Frames, Gens
    <3>2. wire' \in Seq(Frames) /\ taken \in 0 .. Len(wire')
      BY <2>2, <3>1, WrittenFacts DEF WriteEnd, Written, TypeOK
    <3>3. mloop' \in [Gens -> MLoopStates]
      BY <2>2 DEF WriteEnd, AfterWindow, TypeOK, MLoopStates
    <3> QED BY <2>2, <3>2, <3>3 DEF WriteEnd, TypeOK, GenBound, client, session
  <2> QED BY <1>18, <2>1, <2>2 DEF MetricsNext
<1>19. ASSUME NEW g \in Gens, DataNext(g) PROVE TypeOK' /\ GenBound'
  BY <1>19 DEF DataNext, IoEnds, PeerConnects, ReceiversEnd, TypeOK, GenBound, client,
     stream, session
<1> QED
  BY <1>1, <1>2, <1>3, <1>4, <1>6, <1>7, <1>8, <1>9, <1>10, <1>11, <1>12, <1>13, <1>14,
     <1>15, <1>16, <1>17, <1>18, <1>19 DEF Next, ClientNext, SessionNext

-----------------------------------------------------------------------------
(* Who owns the running test.                                              *)

\* test.take() hands the test to the local of stop(), already cancelled.
LEMMA StopThenOwnership ==
  ASSUME TypeOK, Ownership, pc = "read",
         NEW next \in {"start", "stop", "accept"}, NEW where \in {"accept", "start", "reply"},
         where = "start" => next = "start",
         where = "reply" => next = "stop",
         where = "accept" => next = "accept",
         StopThen(next, where), gen' = IF next = "start" THEN gen + 1 ELSE gen
  PROVE  Ownership'
<1>1. CASE test # 0
  BY <1>1 DEF StopThen, TypeOK, Ownership
<1>2. CASE test = 0
  BY <1>2 DEF StopThen, TypeOK, Ownership, Replies
<1> QED BY <1>1, <1>2

\* Every step keeps track of which of `test' and the locals owns the RunningTest.
LEMMA OwnershipStep ==
  ASSUME TypeOK, Ownership, Next
  PROVE  Ownership'
<1>1. CASE UNCHANGED session /\ cancelled' = cancelled
  BY <1>1 DEF session, Ownership
<1>2. CASE Accept
  BY <1>2 DEF Accept, Ownership, tasks
<1>3. CASE ReadStart
  BY <1>3, StopThenOwnership DEF ReadStart
<1>4. CASE ReadStop
  BY <1>4, StopThenOwnership DEF ReadStop
<1>5. CASE ReadClosed
  BY <1>5, StopThenOwnership DEF ReadClosed
<1>6. CASE StopWait
  BY <1>6 DEF StopWait, Ownership, tasks
<1>7. CASE JoinDone
  BY <1>7 DEF JoinDone, Ownership, tasks, TypeOK, Replies
<1>8. CASE StartTestOk
  BY <1>8 DEF StartTestOk, Ownership, Replies
<1>9. CASE StartTestErr
  BY <1>9 DEF StartTestErr, Ownership, Replies, tasks
<1>10. CASE ReplyWrite
  BY <1>10 DEF ReplyWrite, Ownership, tasks
<1>11. CASE ReplyFail
  BY <1>11 DEF ReplyFail, Ownership, Replies
<1>12. CASE ClientNext
  BY <1>1, <1>2, <1>12 DEF ClientNext, ClientSend, ClientRead, ClientClose, tasks
<1>13. CASE SessionNext
  BY <1>1, <1>3, <1>4, <1>5, <1>6, <1>7, <1>8, <1>9, <1>10, <1>11, <1>13
     DEF SessionNext, ReadOther, AbortIo, AbortMetrics, tasks
<1>14. CASE \E g \in Gens : MetricsNext(g) \/ DataNext(g)
  BY <1>1, <1>14 DEF MetricsNext, DataNext, DeadlineHit, SeesCancel, WriteBegin, WriteEnd,
     WriteFail, IoEnds, PeerConnects, ReceiversEnd
<1> QED BY <1>12, <1>13, <1>14 DEF Next

\* A step moves a test from one owner to the other, or stop() ends with the
\* local that owned it.
LEMMA OwnersMove ==
  ASSUME TypeOK, Ownership, Next,
         NEW g \in Gens, g = test \/ g = local
  PROVE  g = test' \/ g = local' \/ (JoinDone /\ g = local)
<1> USE DEF Gens
<1>1. CASE UNCHANGED session
  BY <1>1 DEF session
<1>2. CASE ReadStart
  BY <1>2 DEF ReadStart, StopThen, Ownership
<1>3. CASE ReadStop
  BY <1>3 DEF ReadStop, StopThen, Ownership
<1>4. CASE ReadClosed
  BY <1>4 DEF ReadClosed, StopThen, Ownership
<1>5. CASE StartTestOk
  BY <1>5 DEF StartTestOk, Ownership
<1>6. CASE ReplyWrite
  BY <1>6 DEF ReplyWrite, Ownership
<1>7. CASE JoinDone
  BY <1>7 DEF JoinDone, Ownership
<1>8. CASE Accept \/ StopWait \/ StartTestErr \/ ReplyFail
  BY <1>8 DEF Accept, StopWait, StartTestErr, ReplyFail
<1>9. CASE ClientNext
  BY <1>1, <1>8, <1>9 DEF ClientNext, ClientSend, ClientRead, ClientClose
<1>10. CASE SessionNext
  BY <1>1, <1>2, <1>3, <1>4, <1>5, <1>6, <1>7, <1>8, <1>10
     DEF SessionNext, ReadOther, AbortIo, AbortMetrics
<1>11. CASE \E h \in Gens : MetricsNext(h) \/ DataNext(h)
  BY <1>1, <1>11 DEF MetricsNext, DataNext, DeadlineHit, SeesCancel, WriteBegin, WriteEnd,
     WriteFail, IoEnds, PeerConnects, ReceiversEnd
<1> QED BY <1>9, <1>10, <1>11 DEF Next

-----------------------------------------------------------------------------
(* Which generations are alive.                                            *)

\* Only a successful start_test brings a generation to life.
LEMMA AliveStep ==
  ASSUME TypeOK, Ownership, Next,
         NEW g \in Alive'
  PROVE  g \in Alive \/ (StartTestOk /\ g = gen)
<1>0. g \in Gens /\ (IoAlive(g)' \/ MLoopAlive(g)')
  BY DEF Alive
<1>1. CASE UNCHANGED <<io, mloop>>
  BY <1>1, AliveSame
<1>2. ASSUME io' \subseteq io, MLoopAlive(g)' => MLoopAlive(g)
      PROVE  g \in Alive
  BY <1>0, <1>2 DEF Alive, IoAlive
<1>3. CASE \E k \in IoKinds : AbortIo(k)
  BY <1>2, <1>3 DEF AbortIo, MLoopAlive
<1>4. CASE AbortMetrics
  BY <1>0, <1>2, <1>4 DEF AbortMetrics, MLoopAlive, TypeOK
<1>5. CASE StartTestOk
  <2>1. CASE g = gen
    BY <1>5, <2>1
  <2>2. CASE g # gen
    <3>1. MLoopAlive(g)' => MLoopAlive(g)
      BY <1>0, <1>5, <2>2 DEF StartTestOk, MLoopAlive, TypeOK
    <3>2. IoAlive(g)' => IoAlive(g)
      BY <1>5, <2>2 DEF StartTestOk, IoAlive
    <3> QED BY <1>0, <3>1, <3>2 DEF Alive
  <2> QED BY <2>1, <2>2
<1>6. ASSUME NEW h \in Gens, MetricsNext(h) PROVE g \in Alive
  <2>1. io' = io
    BY <1>6 DEF MetricsNext, DeadlineHit, SeesCancel, WriteBegin, WriteEnd, WriteFail
  <2>2. MLoopAlive(g)' => MLoopAlive(g)
    BY <1>0, <1>6 DEF MetricsNext, DeadlineHit, SeesCancel, WriteBegin, WriteEnd, WriteFail,
       MLoopAlive, TypeOK
  <2> QED BY <1>2, <2>1, <2>2
<1>7. ASSUME NEW h \in Gens, DataNext(h) PROVE g \in Alive
  <2>1. io' \subseteq io /\ mloop' = mloop
    BY <1>7 DEF DataNext, IoEnds, PeerConnects, ReceiversEnd
  <2> QED BY <1>2, <2>1 DEF MLoopAlive
<1>8. CASE ClientNext
  BY <1>1, <1>8 DEF ClientNext, Accept, ClientSend, ClientRead, ClientClose, tasks
<1>9. CASE SessionNext
  BY <1>1, <1>3, <1>4, <1>5, <1>9 DEF SessionNext, ReadStart, ReadStop, ReadOther,
     ReadClosed, StopWait, JoinDone, StartTestErr, ReplyWrite, ReplyFail, tasks
<1> QED BY <1>6, <1>7, <1>8, <1>9 DEF Next

\* What a step appends to the stream, and on whose behalf.
LEMMA WireStep ==
  ASSUME TypeOK, Ownership, OneTest, Next
  PROVE  \/ wire' = <<>>
         \/ wire' = wire
         \/ \E f \in Frames :
              /\ wire' = Append(wire, f)
              /\ f.gen <= gen
              /\ \/ f.kind = "torn"
                 \/ f.kind = "window" /\ f.gen \in Alive
                 \/ ReplyWrite /\ f = [kind |-> todo, gen |-> gen]
<1>1. CASE wire' = wire
  BY <1>1
<1>2. CASE Accept
  BY <1>2 DEF Accept
<1>3. CASE AbortMetrics
  <2>1. [kind |-> "torn", gen |-> local] \in Frames
    BY DEF Frames, TypeOK
  <2>2. local <= gen
    BY <1>3 DEF AbortMetrics, Ownership, TypeOK
  <2> QED BY <1>3, <2>1, <2>2 DEF AbortMetrics, Written
<1>4. CASE ReplyWrite
  <2>1. [kind |-> todo, gen |-> gen] \in Frames
    BY <1>4 DEF ReplyWrite, Ownership, Frames, TypeOK
  <2>2. gen <= gen
    BY DEF TypeOK
  <2> QED BY <1>4, <2>1, <2>2 DEF ReplyWrite, Written
<1>5. ASSUME NEW g \in Gens, WriteEnd(g)
      PROVE  \E f \in Frames : /\ wire' = Append(wire, f)
                               /\ f.gen <= gen
                               /\ f.kind = "window" /\ f.gen \in Alive
  <2>1. g \in Alive
    BY <1>5 DEF WriteEnd, Alive, MLoopAlive
  <2>2. g <= gen
    BY <2>1 DEF OneTest, Ownership, TypeOK, Gens
  <2>3. [kind |-> "window", gen |-> g] \in Frames
    BY DEF Frames, Gens
  <2> QED BY <1>5, <2>1, <2>2, <2>3 DEF WriteEnd, Written
<1>6. CASE ClientNext
  BY <1>1, <1>2, <1>6 DEF ClientNext, ClientSend, ClientRead, ClientClose, stream
<1>7. CASE SessionNext
  BY <1>1, <1>3, <1>4, <1>7 DEF SessionNext, ReadStart, ReadStop, ReadOther, ReadClosed,
     StopWait, AbortIo, JoinDone, StartTestOk, StartTestErr, ReplyFail, stream
<1>8. CASE \E g \in Gens : MetricsNext(g) \/ DataNext(g)
  BY <1>1, <1>5, <1>8 DEF MetricsNext, DataNext, DeadlineHit, SeesCancel, WriteBegin,
     WriteFail, IoEnds, PeerConnects, ReceiversEnd, stream
<1> QED BY <1>6, <1>7, <1>8 DEF Next

-----------------------------------------------------------------------------
(* Preservation of the safety conjuncts of IInv.                           *)

\* No step lets two tests be alive: start_test runs when nobody owns one, and
\* ownership is given up only when the JoinSet is empty.
LEMMA OneTestStep ==
  ASSUME TypeOK, Ownership, OneTest, Next
  PROVE  OneTest'
<1> SUFFICES ASSUME NEW g \in Alive' PROVE g = test' \/ g = local'
  BY DEF OneTest
<1>1. g \in Gens
  BY DEF Alive
<1>2. CASE StartTestOk /\ g = gen
  BY <1>2 DEF StartTestOk
<1>3. CASE g \in Alive
  <2>1. g = test \/ g = local
    BY <1>3 DEF OneTest
  <2>2. ~(JoinDone /\ g = local)
    BY <1>3 DEF JoinDone
  <2> QED BY <1>1, <2>1, <2>2, OwnersMove
<1> QED BY <1>2, <1>3, AliveStep

\* Where no local or stored test exists, nothing is alive.
LEMMA NoOwnerNoTask ==
  ASSUME OneTest, test = 0, local = 0
  PROVE  Alive = {}
BY DEF OneTest, Alive, Gens

\* Every frame written carries a generation handled before it, and no reply to a
\* Start is written before start_test returned.
LEMMA FrameGensStep ==
  ASSUME TypeOK, Ownership, OneTest, FrameGens, Next
  PROVE  FrameGens'
<1> DEFINE Starting == pc \in {"stop", "join", "start"} /\ todo = "start"
<1>0. gen' = gen \/ (ReadStart /\ gen' = gen + 1)
  BY DEF Next, ClientNext, SessionNext, MetricsNext, DataNext, Accept, ClientSend, ClientRead,
     ClientClose, ReadStart, ReadStop, ReadOther, ReadClosed, StopWait, AbortIo, AbortMetrics,
     JoinDone, StartTestOk, StartTestErr, ReplyWrite, ReplyFail, DeadlineHit, SeesCancel,
     WriteBegin, WriteEnd, WriteFail, IoEnds, PeerConnects, ReceiversEnd, session
<1>1. gen' \in Nat /\ gen \in Nat /\ (gen' = gen \/ (ReadStart /\ gen' = gen + 1))
  BY <1>0 DEF TypeOK
<1>2. Starting' => Starting \/ ReadStart
  BY ZenonT(60) DEF Next, ClientNext, SessionNext, MetricsNext, DataNext, Accept, ClientSend, ClientRead,
     ClientClose, ReadStart, ReadStop, ReadOther, ReadClosed, StopWait, AbortIo, AbortMetrics,
     JoinDone, StartTestOk, StartTestErr, ReplyWrite, ReplyFail, DeadlineHit, SeesCancel,
     WriteBegin, WriteEnd, WriteFail, IoEnds, PeerConnects, ReceiversEnd, session, StopThen
<1>3. \A i \in 1 .. Len(wire) :
        wire[i].gen \in Nat /\ wire[i].gen <= gen
        /\ ((wire[i].kind \in Replies /\ Starting) => wire[i].gen < gen)
  <2> SUFFICES ASSUME NEW i \in 1 .. Len(wire)
               PROVE  wire[i].gen \in Nat
    BY DEF FrameGens
  <2>1. wire[i] \in Frames
    BY ElementOfSeq DEF TypeOK
  <2> QED BY <2>1 DEF Frames
<1>4. \A i \in 1 .. Len(wire) :
        wire[i].gen <= gen' /\ ((wire[i].kind \in Replies /\ Starting') => wire[i].gen < gen')
  <2> SUFFICES ASSUME NEW i \in 1 .. Len(wire)
               PROVE  /\ wire[i].gen <= gen'
                      /\ (wire[i].kind \in Replies /\ Starting') => wire[i].gen < gen'
    OBVIOUS
  <2>1. wire[i].gen \in Nat /\ wire[i].gen <= gen
        /\ ((wire[i].kind \in Replies /\ Starting) => wire[i].gen < gen)
    BY <1>3
  <2>2. CASE gen' = gen /\ ~ReadStart
    BY <1>1, <1>2, <2>1, <2>2
  <2>3. CASE ReadStart /\ gen' = gen + 1
    BY <1>1, <2>1, <2>3
  <2>4. ReadStart => gen' = gen + 1
    BY DEF ReadStart
  <2> QED BY <1>1, <2>2, <2>3, <2>4
<1>5. CASE wire' = <<>>
  BY <1>5 DEF FrameGens
<1>6. CASE wire' = wire
  BY <1>4, <1>6 DEF FrameGens
<1>7. ASSUME NEW f \in Frames, wire' = Append(wire, f), f.gen <= gen,
             f.kind \in {"torn", "window"} \/ ReplyWrite
      PROVE  FrameGens'
  <2>1. f.kind \in Replies => ~Starting'
    BY <1>7 DEF ReplyWrite, Replies
  <2>2. f.gen \in Nat /\ f.gen <= gen'
    BY <1>1, <1>7 DEF Frames
  <2>3. \A i \in 1 .. Len(wire') : i \in 1 .. Len(wire) \/ i = Len(wire) + 1
    BY <1>7, WrittenFacts, SMTT(60) DEF TypeOK
  <2> QED BY <1>4, <1>7, <2>1, <2>2, <2>3, WrittenFacts DEF FrameGens, TypeOK
<1> QED BY <1>5, <1>6, <1>7, WireStep

\* A reply is written only when the tests it declares over are not alive, and no
\* later step brings one of them back.
LEMMA AckMeansQuietStep ==
  ASSUME TypeOK, Ownership, OneTest, FrameGens, AckMeansQuiet, Next
  PROVE  AckMeansQuiet'
<1> DEFINE Quiet(f, g) == /\ f.kind = "stop" => g > f.gen
                          /\ f.kind \in {"start", "error"} => g >= f.gen
<1>1. \A i \in 1 .. Len(wire) : wire[i] \in Frames
  BY ElementOfSeq DEF TypeOK
\* Old frames: nothing new came to life but the generation being started.
<1>2. ASSUME NEW i \in 1 .. Len(wire), NEW g \in Alive' PROVE Quiet(wire[i], g)
  <2>1. CASE g \in Alive
    BY <2>1 DEF AckMeansQuiet
  <2>2. CASE StartTestOk /\ g = gen
    <3>1. wire[i].kind \in Replies => wire[i].gen < gen
      BY <2>2 DEF StartTestOk, Ownership, FrameGens
    <3>2. wire[i].gen \in Nat /\ gen \in Nat
      BY <1>1, SMTT(60) DEF Frames, TypeOK
    <3> QED BY <2>2, <3>1, <3>2 DEF Replies
  <2> QED BY <2>1, <2>2, AliveStep
\* The reply just written: an Ack of Stop and an Error have nothing alive
\* behind them, an Ack of Start only its own test.
<1>3. ASSUME ReplyWrite, NEW g \in Alive' PROVE Quiet([kind |-> todo, gen |-> gen], g)
  <2>1. g \in Alive
    BY <1>3, AliveSame DEF ReplyWrite, tasks
  <2>2. CASE todo = "start"
    BY <1>3, <2>1, <2>2 DEF ReplyWrite, Ownership, OneTest, Alive, Gens, TypeOK
  <2>3. CASE todo # "start"
    BY <1>3, <2>1, <2>3, NoOwnerNoTask DEF ReplyWrite, Ownership
  <2> QED BY <2>2, <2>3
<1>4. CASE wire' = <<>>
  BY <1>4 DEF AckMeansQuiet
<1>5. CASE wire' = wire
  BY <1>2, <1>5 DEF AckMeansQuiet
<1>6. ASSUME NEW f \in Frames, wire' = Append(wire, f),
             f.kind \in {"torn", "window"} \/ (ReplyWrite /\ f = [kind |-> todo, gen |-> gen])
      PROVE  AckMeansQuiet'
  <2>1. \A g \in Alive' : Quiet(f, g)
    BY <1>3, <1>6
  <2>2. \A i \in 1 .. Len(wire') : i \in 1 .. Len(wire) \/ i = Len(wire) + 1
    BY <1>6, WrittenFacts DEF TypeOK
  <2>3. \A i \in 1 .. Len(wire') : \A g \in Alive' : Quiet(wire'[i], g)
    BY <1>2, <1>6, <2>1, <2>2, WrittenFacts DEF TypeOK
  <2> QED BY <2>3 DEF AckMeansQuiet
<1> QED BY <1>4, <1>5, <1>6, WireStep

\* A window is only appended by a live test, which no earlier reply has declared
\* over.
LEMMA StreamOrderStep ==
  ASSUME TypeOK, Ownership, OneTest, AckMeansQuiet, StreamOrder, Next
  PROVE  StreamOrder'
<1>1. CASE wire' = <<>>
  BY <1>1 DEF StreamOrder
<1>2. CASE wire' = wire
  BY <1>2 DEF StreamOrder
<1>3. ASSUME NEW f \in Frames, wire' = Append(wire, f), f.kind = "window" => f.gen \in Alive
      PROVE  StreamOrder'
  <2>1. \A i \in 1 .. Len(wire') : i \in 1 .. Len(wire) \/ i = Len(wire) + 1
    BY <1>3, WrittenFacts DEF TypeOK
  <2> SUFFICES ASSUME NEW i \in 1 .. Len(wire'), NEW j \in 1 .. Len(wire'),
                      i < j, wire'[j].kind = "window"
               PROVE  /\ wire'[i].kind = "stop" => wire'[j].gen > wire'[i].gen
                      /\ wire'[i].kind \in {"start", "error"} => wire'[j].gen >= wire'[i].gen
    BY DEF StreamOrder
  <2>2. i \in 1 .. Len(wire)
    BY <1>3, <2>1, WrittenFacts DEF TypeOK
  <2>3. CASE j \in 1 .. Len(wire)
    BY <1>3, <2>2, <2>3, WrittenFacts DEF StreamOrder, TypeOK
  <2>4. CASE j = Len(wire) + 1
    <3>1. wire'[j] = f /\ wire'[i] = wire[i]
      BY <1>3, <2>2, <2>4, WrittenFacts DEF TypeOK
    <3> QED BY <1>3, <2>2, <3>1 DEF AckMeansQuiet
  <2> QED BY <2>1, <2>3, <2>4
<1>4. ASSUME ReplyWrite PROVE todo # "window"
  BY <1>4 DEF ReplyWrite, Ownership, Replies
<1> QED BY <1>1, <1>2, <1>3, <1>4, WireStep

\* A detached receiver belongs to a live listener when it is spawned, and loses
\* its owner only to a cancellation.
LEMMA ReceiversOwnedStep ==
  ASSUME TypeOK, Ownership, OneTest, ReceiversOwned, Next
  PROVE  ReceiversOwned'
<1>1. cancelled \subseteq cancelled'
  BY DEF Next, ClientNext, SessionNext, MetricsNext, DataNext, Accept, ClientSend, ClientRead,
     ClientClose, ReadStart, ReadStop, ReadOther, ReadClosed, StopWait, AbortIo, AbortMetrics,
     JoinDone, StartTestOk, StartTestErr, ReplyWrite, ReplyFail, DeadlineHit, SeesCancel,
     WriteBegin, WriteEnd, WriteFail, IoEnds, PeerConnects, ReceiversEnd, tasks, StopThen
<1>2. \A g \in recvs' : g \in recvs \/ g \in Alive
  <2>1. ASSUME NEW h \in Gens, PeerConnects(h) PROVE h \in Alive
    BY <2>1 DEF PeerConnects, Alive, IoAlive, IoKinds
  <2>2. CASE \E h \in Gens : PeerConnects(h)
    BY <2>1, <2>2 DEF PeerConnects
  <2>3. CASE ~(\E h \in Gens : PeerConnects(h))
    BY <2>3 DEF Next, ClientNext, SessionNext, MetricsNext, DataNext, Accept, ClientSend,
       ClientRead, ClientClose, ReadStart, ReadStop, ReadOther, ReadClosed, StopWait, AbortIo,
       AbortMetrics, JoinDone, StartTestOk, StartTestErr, ReplyWrite, ReplyFail, DeadlineHit,
       SeesCancel, WriteBegin, WriteEnd, WriteFail, IoEnds, ReceiversEnd, tasks
  <2> QED BY <2>2, <2>3
<1> SUFFICES ASSUME NEW g \in recvs', g \notin cancelled'
             PROVE  g = test' \/ g = local'
  BY DEF ReceiversOwned
<1>3. g \in Gens /\ (g = test \/ g = local)
  BY <1>1, <1>2 DEF ReceiversOwned, OneTest, TypeOK, Alive
<1>4. ~(JoinDone /\ g = local)
  BY <1>1 DEF JoinDone, Ownership
<1> QED BY <1>3, <1>4, OwnersMove

-----------------------------------------------------------------------------
(* The inductive invariant.                                                *)

\* The inductive invariant holds initially.
LEMMA InitIInv == Init => IInv
<1> SUFFICES ASSUME Init PROVE IInv
  OBVIOUS
<1>1. TypeOK /\ GenBound /\ Ownership
  BY InitType
<1>2. Alive = {} /\ recvs = {} /\ Len(wire) = 0
  BY EmptySeq DEF Init, Alive, IoAlive, MLoopAlive
<1> QED BY <1>1, <1>2 DEF IInv, FrameGens, OneTest, AckMeansQuiet, StreamOrder, ReceiversOwned

\* The inductive invariant speaks of nothing but the variables.
LEMMA StutterIInv == ASSUME IInv, UNCHANGED vars PROVE IInv'
<1>1. UNCHANGED <<conns, sent, open, inbox, wire, taken, pc, todo, gen, test, local,
                  cancelled, io, mloop, recvs>>
  BY DEF vars, client, stream, session, tasks
<1>2. Alive' = Alive
  BY <1>1, AliveSame
<1>3. TypeOK' /\ GenBound' /\ Ownership' /\ FrameGens'
  BY <1>1 DEF IInv, TypeOK, GenBound, Ownership, FrameGens
<1>4. OneTest' /\ AckMeansQuiet' /\ StreamOrder' /\ ReceiversOwned'
  BY <1>1, <1>2 DEF IInv, OneTest, AckMeansQuiet, StreamOrder, ReceiversOwned
<1> QED BY <1>3, <1>4 DEF IInv

\* The inductive invariant is kept by every step.
LEMMA NextIInv == IInv /\ [Next]_vars => IInv'
<1> SUFFICES ASSUME IInv, [Next]_vars PROVE IInv'
  OBVIOUS
<1>1. CASE UNCHANGED vars
  BY <1>1, StutterIInv
<1>2. CASE Next
  BY <1>2, TypeStep, OwnershipStep, FrameGensStep, OneTestStep, AckMeansQuietStep,
     StreamOrderStep, ReceiversOwnedStep DEF IInv
<1> QED BY <1>1, <1>2

\* The inductive invariant of the server session holds in every behaviour.
THEOREM Invariance == Spec => []IInv
BY InitIInv, NextIInv, PTL DEF Spec

\* Every variable of the server session keeps its type, for any number of
\* connections, requests and frames in flight.
THEOREM TypeCorrect == Spec => []TypeOK
<1>1. IInv => TypeOK
  BY DEF IInv
<1> QED BY <1>1, Invariance, PTL

\* handle_conn never has the tasks of two tests alive, whatever the order of
\* requests, disconnects, timeouts and failed writes.
THEOREM OneTestCorrect == Spec => []OneTest
<1>1. IInv => OneTest
  BY DEF IInv
<1> QED BY <1>1, Invariance, PTL

\* No task of an earlier test survives into the accept loop, or into the bind
\* of the next test.
THEOREM NoOrphanTestCorrect == Spec => []NoOrphanTest
<1>1. IInv => NoOrphanTest
  BY NoOwnerNoTask DEF IInv, NoOrphanTest, Ownership
<1> QED BY <1>1, Invariance, PTL

\* An acknowledged Stop, and an answered Start, leave nothing of the previous
\* test running.
THEOREM AckMeansQuietCorrect == Spec => []AckMeansQuiet
<1>1. IInv => AckMeansQuiet
  BY DEF IInv
<1> QED BY <1>1, Invariance, PTL

\* No window of an ended test follows the reply that ended it on the stream.
THEOREM StreamOrderCorrect == Spec => []StreamOrder
<1>1. IInv => StreamOrder
  BY DEF IInv
<1> QED BY <1>1, Invariance, PTL

\* A detached receiver always has an owner or a cancelled token.
THEOREM ReceiversOwnedCorrect == Spec => []ReceiversOwned
<1>1. IInv => ReceiversOwned
  BY DEF IInv
<1> QED BY <1>1, Invariance, PTL

-----------------------------------------------------------------------------
(* The refinement: an invariant that also says which tokens are cancelled. *)

\* test.take() with stop() cancels the token of the test it took and no other.
LEMMA StopThenTokens ==
  ASSUME TypeOK, Ownership, Tokens, pc = "read",
         NEW next \in {"start", "stop", "accept"}, NEW where,
         StopThen(next, where), gen' = IF next = "start" THEN gen + 1 ELSE gen
  PROVE  Tokens'
<1>0. gen \in Nat /\ gen' \in Nat /\ gen <= gen' /\ cancelled \subseteq Nat \ {0}
  BY SessionAssumption DEF TypeOK, Gens
<1>1. CASE test # 0
  <2>1. test' = 0 /\ cancelled' = cancelled \cup {test} /\ todo' = next /\ test = gen
    BY <1>1 DEF StopThen, Ownership
  <2>2. \A g \in cancelled' : g <= gen /\ g # 0
    BY <1>0, <1>1, <2>1 DEF Tokens
  <2>3. next = "start" => gen' \notin cancelled'
    BY <1>0, <2>2
  <2> QED BY <1>0, <2>1, <2>2, <2>3 DEF Tokens
<1>2. CASE test = 0
  <2>1. test' = 0 /\ cancelled' = cancelled /\ todo' = next
    BY <1>2 DEF StopThen
  <2>2. \A g \in cancelled : g <= gen /\ g # 0
    BY <1>0 DEF Tokens
  <2>3. next = "start" => gen' \notin cancelled
    BY <1>0, <2>2
  <2> QED BY <1>0, <2>1, <2>2, <2>3 DEF Tokens
<1> QED BY <1>1, <1>2

\* Only stop() cancels a token, the token of the test it takes.
LEMMA TokensStep ==
  ASSUME IInv, Tokens, Next
  PROVE  Tokens'
<1> USE DEF Gens
<1>0. TypeOK /\ Ownership
  BY DEF IInv
<1>1. CASE UNCHANGED <<gen, test, todo, cancelled>>
  BY <1>1 DEF Tokens
<1>2. CASE Accept
  BY <1>0, <1>2 DEF Accept, Tokens, tasks
<1>3. CASE ReadStart
  BY <1>0, <1>3, StopThenTokens DEF ReadStart
<1>4. CASE ReadStop
  BY <1>0, <1>4, StopThenTokens DEF ReadStop
<1>5. CASE ReadClosed
  BY <1>0, <1>5, StopThenTokens DEF ReadClosed
<1>6. CASE StartTestOk
  BY <1>0, <1>6 DEF StartTestOk, Tokens, Ownership
<1>7. CASE StartTestErr
  BY <1>0, <1>7 DEF StartTestErr, Tokens, Ownership, tasks
<1>8. CASE ReplyWrite
  BY <1>0, <1>8 DEF ReplyWrite, Tokens, Ownership, TypeOK, tasks, Replies
<1>9. CASE ReplyFail
  <2>1. test' = 0 /\ test = 0 /\ gen' = gen /\ todo' \in {"accept", "none"}
    BY <1>0, <1>9 DEF ReplyFail, Ownership
  <2>2. cancelled' = cancelled \/ (gen # 0 /\ cancelled' = cancelled \cup {gen})
    BY <1>0, <1>9 DEF ReplyFail, Ownership
  <2>3. gen \in Nat
    BY <1>0, SessionAssumption DEF TypeOK
  <2> QED BY <2>1, <2>2, <2>3 DEF Tokens
<1>10. CASE ClientNext
  BY <1>1, <1>2, <1>10 DEF ClientNext, ClientSend, ClientRead, ClientClose, session, tasks
<1>11. CASE SessionNext
  BY <1>1, <1>3, <1>4, <1>5, <1>6, <1>7, <1>8, <1>9, <1>11
     DEF SessionNext, ReadOther, StopWait, AbortIo, AbortMetrics, JoinDone, session, tasks
<1>12. CASE \E g \in Gens : MetricsNext(g) \/ DataNext(g)
  BY <1>1, <1>12 DEF MetricsNext, DataNext, DeadlineHit, SeesCancel, WriteBegin, WriteEnd,
     WriteFail, IoEnds, PeerConnects, ReceiversEnd, session
<1> QED BY <1>10, <1>11, <1>12 DEF Next

\* handle_conn returns only after a read or a write failed, that is, when the
\* client has closed its end.
LEMMA SessionEndsStep ==
  ASSUME IInv, SessionEnds, Next
  PROVE  SessionEnds'
<1>0. Ownership
  BY DEF IInv
<1>1. CASE UNCHANGED <<pc, todo>> /\ (open' = open \/ ~open')
  BY <1>1 DEF SessionEnds
<1>2. CASE Accept
  BY <1>2 DEF Accept, SessionEnds
<1>3. CASE ReadStart \/ ReadStop \/ ReadClosed
  BY <1>0, <1>3 DEF ReadStart, ReadStop, ReadClosed, StopThen, SessionEnds, client
<1>4. CASE StopWait
  BY <1>4 DEF StopWait, SessionEnds, client
<1>5. CASE JoinDone
  BY <1>0, <1>5 DEF JoinDone, SessionEnds, Ownership, client
<1>6. CASE StartTestOk \/ StartTestErr \/ ReplyWrite \/ ReplyFail
  BY <1>6 DEF StartTestOk, StartTestErr, ReplyWrite, ReplyFail, SessionEnds, client
<1>7. CASE ClientNext
  BY <1>1, <1>2, <1>7 DEF ClientNext, ClientSend, ClientRead, ClientClose, session, client
<1>8. CASE SessionNext
  BY <1>1, <1>3, <1>4, <1>5, <1>6, <1>8
     DEF SessionNext, ReadOther, AbortIo, AbortMetrics, session, client
<1>9. CASE \E g \in Gens : MetricsNext(g) \/ DataNext(g)
  BY <1>1, <1>9 DEF MetricsNext, DataNext, DeadlineHit, SeesCancel, WriteBegin, WriteEnd,
     WriteFail, IoEnds, PeerConnects, ReceiversEnd, session, client
<1> QED BY <1>7, <1>8, <1>9 DEF Next

\* A metrics loop ends only after its token is cancelled, so a test that is
\* running or about to be acknowledged still has its loop.
LEMMA LoopLivesStep ==
  ASSUME IInv, Tokens, LoopLives, Next
  PROVE  LoopLives'
<1> USE DEF Gens
<1>0. TypeOK /\ Ownership
  BY DEF IInv
<1>1. CASE UNCHANGED <<test, local, mloop, pc, todo>>
  BY <1>1 DEF LoopLives, MLoopAlive
<1>2. CASE Accept \/ StopWait \/ StartTestErr
  BY <1>0, <1>2 DEF Accept, StopWait, StartTestErr, Ownership, LoopLives, MLoopAlive, tasks
<1>3. CASE ReadStart \/ ReadStop \/ ReadClosed
  BY <1>0, <1>3 DEF ReadStart, ReadStop, ReadClosed, StopThen, Ownership, LoopLives, MLoopAlive
<1>4. CASE AbortMetrics
  BY <1>0, <1>4 DEF AbortMetrics, Ownership, LoopLives, MLoopAlive, session
<1>5. CASE JoinDone
  BY <1>0, <1>5 DEF JoinDone, Ownership, LoopLives, MLoopAlive, tasks
<1>6. CASE StartTestOk
  <2>1. gen \in Gens /\ test' = 0 /\ local' = gen
    BY <1>0, <1>6 DEF StartTestOk, Ownership, TypeOK
  <2>2. mloop'[gen] = "wait"
    BY <1>0, <1>6, <2>1 DEF StartTestOk, TypeOK
  <2> QED BY <2>1, <2>2 DEF LoopLives, MLoopAlive
<1>7. CASE ReplyWrite
  BY <1>0, <1>7 DEF ReplyWrite, Ownership, LoopLives, MLoopAlive, tasks
<1>8. CASE ReplyFail
  BY <1>0, <1>8 DEF ReplyFail, Ownership, LoopLives, MLoopAlive
<1>9. ASSUME NEW g \in Gens, MetricsNext(g) PROVE LoopLives'
  <2>1. UNCHANGED <<test, local, pc, todo>>
    BY <1>9 DEF MetricsNext, DeadlineHit, SeesCancel, WriteBegin, WriteEnd, WriteFail, session
  <2>2. ASSUME NEW h \in Gens, h \notin cancelled, MLoopAlive(h) PROVE MLoopAlive(h)'
    BY <1>0, <1>9, <2>2 DEF MetricsNext, DeadlineHit, SeesCancel, WriteBegin, WriteEnd,
       WriteFail, AfterWindow, MLoopAlive, TypeOK
  <2>3. test # 0 => test \in Gens /\ test \notin cancelled
    BY <1>0 DEF TypeOK, Tokens
  <2>4. (pc = "reply" /\ todo = "start") => local \in Gens /\ local \notin cancelled
    BY <1>0 DEF TypeOK, Tokens, Ownership
  <2> QED BY <2>1, <2>2, <2>3, <2>4 DEF LoopLives, MLoopAlive
<1>10. ASSUME NEW g \in Gens, DataNext(g) PROVE LoopLives'
  BY <1>1, <1>10 DEF DataNext, IoEnds, PeerConnects, ReceiversEnd, session
<1>11. CASE ClientNext
  BY <1>1, <1>2, <1>11 DEF ClientNext, ClientSend, ClientRead, ClientClose, session, tasks
<1>12. CASE SessionNext
  BY <1>1, <1>2, <1>3, <1>4, <1>5, <1>6, <1>7, <1>8, <1>12
     DEF SessionNext, ReadOther, AbortIo, session, tasks
<1> QED BY <1>9, <1>10, <1>11, <1>12 DEF Next

\* RInv is inductive.
LEMMA RefinementInvariant == Spec => []RInv
<1>1. Init => RInv
  BY InitIInv DEF Init, RInv, Tokens, SessionEnds, LoopLives
<1>2. RInv /\ [Next]_vars => RInv'
  <2> SUFFICES ASSUME RInv, [Next]_vars PROVE RInv'
    OBVIOUS
  <2>1. IInv'
    BY NextIInv DEF RInv
  <2>2. CASE Next
    BY <2>1, <2>2, TokensStep, SessionEndsStep, LoopLivesStep DEF RInv
  <2>3. CASE UNCHANGED vars
    BY <2>1, <2>3 DEF RInv, Tokens, SessionEnds, LoopLives, MLoopAlive, vars, client, session, tasks
  <2> QED BY <2>2, <2>3
<1> QED BY <1>1, <1>2, PTL DEF Spec

-----------------------------------------------------------------------------
(* Each step is a step of the contract.                                    *)

\* A step that leaves the metrics loops alone leaves the same tests.
LEMMA TestingSame ==
  ASSUME UNCHANGED mloop
  PROVE  Testing' = Testing
BY DEF Testing, MLoopAlive

\* A test the client can see belongs to an owner, and none exists without one.
LEMMA TestingOwned ==
  ASSUME IInv
  PROVE  /\ \A g \in Testing : g \in Gens /\ (g = test \/ g = local)
         /\ (test = 0 /\ local = 0) => Testing = {}
<1>1. Testing \subseteq Alive
  BY DEF Testing, Alive
<1>2. \A g \in Testing : g \in Gens /\ (g = test \/ g = local)
  BY <1>1 DEF IInv, OneTest, Testing
<1> QED BY <1>2 DEF Gens

\* While a reply to a successful Start is owed, exactly its test exists.
LEMMA TestingStarted ==
  ASSUME RInv, pc = "reply"
  PROVE  Testing = IF todo = "start" THEN {gen} ELSE {}
<1>1. test = 0 /\ local = IF todo = "start" THEN gen ELSE 0
  BY DEF RInv, IInv, Ownership
<1>2. CASE todo = "start"
  <2>1. gen \in Gens
    BY <1>2 DEF RInv, IInv, Ownership, TypeOK, Gens
  <2>2. gen \in Testing
    BY <1>1, <1>2, <2>1 DEF RInv, LoopLives, Testing
  <2> QED BY <1>1, <1>2, <2>2, TestingOwned DEF RInv, Gens
<1>3. CASE todo # "start"
  BY <1>1, <1>3, TestingOwned DEF RInv
<1> QED BY <1>2, <1>3

\* The client's own steps are those of the contract.
LEMMA ClientRefines ==
  ASSUME RInv, ClientNext
  PROVE  [Contract!Next]_(Contract!vars)
<1>0. TypeOK /\ Ownership
  BY DEF RInv, IInv
<1>1. CASE Accept
  <2>1. Testing = {} /\ Testing' = Testing
    BY <1>0, <1>1, TestingOwned, TestingSame DEF RInv, Accept, Ownership, tasks
  <2>2. Serving = "none" /\ Serving' = "none"
    BY <1>1 DEF Accept, Serving
  <2>3. Contract!Connect
    BY <1>1, <2>1, <2>2 DEF Accept, Contract!Connect
  <2> QED BY <2>3 DEF Contract!Next
<1>2. ASSUME NEW r \in Requests, ClientSend(r) PROVE [Contract!Next]_(Contract!vars)
  <2>1. Testing' = Testing /\ Serving' = Serving
    BY <1>2, TestingSame DEF ClientSend, session, tasks, Serving
  <2>2. Contract!Ask
    BY <1>2, <2>1 DEF ClientSend, Contract!Ask, Requests, session, stream
  <2> QED BY <2>2 DEF Contract!Next
<1>3. CASE ClientRead
  <2>1. Testing' = Testing /\ Serving' = Serving
    BY <1>3, TestingSame DEF ClientRead, session, tasks, Serving
  <2> QED BY <1>3, <2>1 DEF ClientRead, Contract!vars, session, client
<1>4. CASE ClientClose
  <2>1. Testing' = Testing /\ Serving' = Serving
    BY <1>4, TestingSame DEF ClientClose, session, tasks, Serving
  <2>2. Contract!HangUp
    BY <1>4, <2>1 DEF ClientClose, Contract!HangUp, session, stream
  <2> QED BY <2>2 DEF Contract!Next
<1> QED BY <1>1, <1>2, <1>3, <1>4 DEF ClientNext

\* A request taken from the socket is one taken up in order; the end of the
\* stream ends the session, at once when no test runs.
LEMMA ReadRefines ==
  ASSUME RInv, ReadStart \/ ReadStop \/ ReadOther \/ ReadClosed
  PROVE  [Contract!Next]_(Contract!vars)
<1>0. TypeOK /\ Ownership
  BY DEF RInv, IInv
<1>1. pc = "read" /\ Serving = "none" /\ Testing' = Testing
  BY TestingSame DEF ReadStart, ReadStop, ReadOther, ReadClosed, Serving, tasks
<1>2. CASE ReadStart
  <2>1. Serving' = "start" /\ pc' # "accept"
    BY <1>2 DEF ReadStart, StopThen, Serving
  <2>2. Contract!Take
    BY <1>1, <1>2, <2>1 DEF ReadStart, Contract!Take, client, stream
  <2> QED BY <2>2 DEF Contract!Next
<1>3. CASE ReadStop
  <2>1. Serving' = "stop" /\ pc' # "accept"
    BY <1>3 DEF ReadStop, StopThen, Serving
  <2>2. Contract!Take
    BY <1>1, <1>3, <2>1 DEF ReadStop, Contract!Take, client, stream
  <2> QED BY <2>2 DEF Contract!Next
<1>4. CASE ReadOther
  <2>1. Serving' = "none" /\ pc' # "accept"
    BY <1>4 DEF ReadOther, Serving, session
  <2>2. Contract!Take
    BY <1>1, <1>4, <2>1 DEF ReadOther, Contract!Take, client, stream, session
  <2> QED BY <2>2 DEF Contract!Next
<1>5. CASE ReadClosed
  <2>1. Serving' = "none"
    BY <1>5 DEF ReadClosed, StopThen, Serving
  <2>2. CASE test # 0
    <3>1. pc' # "accept"
      BY <1>5, <2>2 DEF ReadClosed, StopThen
    <3> QED BY <1>1, <1>5, <2>1, <3>1 DEF ReadClosed, Contract!vars, client, stream
  <2>3. CASE test = 0
    <3>1. Testing = {} /\ pc' = "accept"
      BY <1>0, <1>1, <1>5, <2>3, TestingOwned DEF RInv, Ownership, ReadClosed, StopThen
    <3>2. Contract!Over
      BY <1>1, <1>5, <2>1, <3>1 DEF ReadClosed, Contract!Over, client, stream
    <3> QED BY <3>2 DEF Contract!Next
  <2> QED BY <2>2, <2>3
<1> QED BY <1>2, <1>3, <1>4, <1>5

\* stop(): nothing the client sees until the metrics loop ends, which it may,
\* and the caller goes on only when the test is gone.
LEMMA StopRefines ==
  ASSUME RInv, StopWait \/ (\E k \in IoKinds : AbortIo(k)) \/ JoinDone
  PROVE  [Contract!Next]_(Contract!vars)
<1>0. TypeOK /\ Ownership /\ SessionEnds
  BY DEF RInv, IInv
<1>1. Testing' = Testing
  BY TestingSame DEF StopWait, AbortIo, JoinDone, tasks
<1>2. CASE StopWait
  <2>1. Serving' = Serving
    BY <1>2 DEF StopWait, Serving
  <2> QED BY <1>1, <1>2, <2>1 DEF StopWait, Contract!vars, client, stream
<1>3. CASE \E k \in IoKinds : AbortIo(k)
  <2>1. Serving' = Serving
    BY <1>3 DEF AbortIo, Serving, session
  <2> QED BY <1>1, <1>3, <2>1 DEF AbortIo, Contract!vars, client, stream, session
<1>4. CASE JoinDone
  <2>1. Testing = {}
    <3>1. test = 0 /\ local \notin Testing
      BY <1>0, <1>4 DEF JoinDone, Ownership, Testing, Alive
    <3> QED BY <3>1, TestingOwned DEF RInv, Gens
  <2>2. Serving' = Serving
    BY <1>0, <1>4 DEF JoinDone, Serving, Ownership
  <2>3. CASE todo = "accept"
    <3>1. Serving = "none" /\ ~open
      BY <1>0, <2>3 DEF Serving, SessionEnds
    <3>2. Contract!Over
      BY <1>1, <1>4, <2>1, <2>2, <2>3, <3>1 DEF JoinDone, Contract!Over, client, stream
    <3> QED BY <3>2 DEF Contract!Next
  <2>4. CASE todo # "accept"
    <3>1. pc # "accept" /\ pc' # "accept"
      BY <1>0, <1>4, <2>4 DEF JoinDone, Ownership
    <3> QED BY <1>1, <1>4, <2>2, <3>1 DEF JoinDone, Contract!vars, client, stream
  <2> QED BY <2>3, <2>4
<1> QED BY <1>2, <1>3, <1>4

\* start_test begins the test or refuses it, after its predecessor is gone.
LEMMA StartRefines ==
  ASSUME RInv, StartTestOk \/ StartTestErr
  PROVE  [Contract!Next]_(Contract!vars)
<1>0. TypeOK /\ Ownership
  BY DEF RInv, IInv
<1>1. pc = "start" /\ Serving = "start" /\ Testing = {} /\ gen \in Gens
  <2>1. pc = "start" /\ todo = "start" /\ test = 0 /\ local = 0 /\ gen # 0
    BY <1>0 DEF StartTestOk, StartTestErr, Ownership
  <2>2. Serving = "start"
    BY <2>1 DEF Serving
  <2>3. gen \in Gens
    BY <1>0, <2>1 DEF TypeOK, Gens
  <2> QED BY <2>1, <2>2, <2>3, TestingOwned DEF RInv
<1>2. CASE StartTestOk
  <2>1. Serving' = "started"
    BY <1>2 DEF StartTestOk, Serving
  <2>2. Testing' = {gen}
    <3>1. \A g \in Gens : MLoopAlive(g)' <=> (g = gen \/ MLoopAlive(g))
      BY <1>0, <1>1, <1>2 DEF StartTestOk, MLoopAlive, TypeOK
    <3> QED BY <1>1, <3>1 DEF Testing
  <2>3. Contract!Begin
    BY <1>1, <1>2, <2>1, <2>2 DEF StartTestOk, Contract!Begin, client, stream
  <2> QED BY <2>3 DEF Contract!Next
<1>3. CASE StartTestErr
  <2>1. Serving' = "refused"
    BY <1>3 DEF StartTestErr, Serving
  <2>2. Testing' = {}
    BY <1>1, <1>3, TestingSame DEF StartTestErr, tasks
  <2>3. Contract!Begin
    BY <1>1, <1>3, <2>1, <2>2 DEF StartTestErr, Contract!Begin, client, stream
  <2> QED BY <2>3 DEF Contract!Next
<1> QED BY <1>2, <1>3

\* A reply written is true when written; one that cannot be delivered is lost
\* with its client.
LEMMA ReplyRefines ==
  ASSUME RInv, ReplyWrite \/ ReplyFail
  PROVE  [Contract!Next]_(Contract!vars)
<1>0. TypeOK /\ Ownership /\ todo \in Replies
  BY DEF RInv, IInv, Ownership, ReplyWrite, ReplyFail
<1>1. pc = "reply" /\ Testing = (IF todo = "start" THEN {gen} ELSE {}) /\ Testing' = Testing
  BY TestingStarted, TestingSame DEF ReplyWrite, ReplyFail, tasks
<1>2. /\ Serving \in {"started", "refused", "stop"}
      /\ todo = Contract!ReplyTo[Serving] /\ (Serving = "started" <=> todo = "start")
  BY <1>0, <1>1 DEF Serving, Contract!ReplyTo, Replies
<1>3. CASE ReplyWrite
  <2>1. Serving' = "none" /\ pc' # "accept"
    BY <1>3 DEF ReplyWrite, Serving
  <2>2. Contract!Reply
    BY <1>1, <1>2, <1>3, <2>1 DEF ReplyWrite, Written, Contract!Reply, Contract!Owed, client
  <2> QED BY <2>2 DEF Contract!Next
<1>4. CASE ReplyFail
  <2>1. Serving' = "none" /\ (pc' = "accept" => todo = "stop")
    BY <1>4 DEF ReplyFail, Serving
  <2>2. Contract!Lose
    BY <1>1, <1>2, <1>4, <2>1 DEF ReplyFail, Contract!Lose, Contract!Owed, client, stream
  <2> QED BY <2>2 DEF Contract!Next
<1> QED BY <1>3, <1>4

\* A test whose token is cancelled is the one stop() is tearing down: the
\* contract lets it end, and it is the only one.
LEMMA CancelledMayEnd ==
  ASSUME RInv, NEW g \in Testing, g \in cancelled
  PROVE  Contract!MayEnd /\ Testing = {g} /\ pc # "reply"
<1>0. TypeOK /\ Ownership /\ Tokens /\ SessionEnds /\ g \in Gens
  BY TestingOwned DEF RInv, IInv
<1>1. g = local /\ local # 0
  BY <1>0, TestingOwned DEF RInv, Tokens, Gens
<1>2. pc \in {"stop", "join"}
  BY <1>0, <1>1 DEF Ownership, TypeOK, Tokens
<1>3. test = 0 /\ todo \in {"start", "stop", "accept"}
  BY <1>0, <1>2 DEF Ownership
<1>4. Contract!MayEnd
  BY <1>0, <1>2, <1>3 DEF Contract!MayEnd, Serving, SessionEnds
<1>5. Testing = {g}
  BY <1>1, <1>3, TestingOwned DEF RInv, Gens
<1> QED BY <1>2, <1>4, <1>5

\* What happens to the set of tests when one metrics loop moves.
LEMMA LoopMoves ==
  ASSUME TypeOK, NEW g \in Testing, NEW s \in MLoopStates,
         mloop' = [mloop EXCEPT ![g] = s]
  PROVE  Testing' = IF s \in {"none", "done"} THEN Testing \ {g} ELSE Testing
<1>1. g \in Gens /\ MLoopAlive(g)
  BY DEF Testing
<1>2. \A h \in Gens : MLoopAlive(h)' <=> IF h = g THEN s \notin {"none", "done"} ELSE MLoopAlive(h)
  BY <1>1 DEF MLoopAlive, TypeOK
<1> QED BY <1>1, <1>2 DEF Testing

\* abort_all ends the test, and may leave the beginning of a frame behind.
LEMMA AbortRefines ==
  ASSUME RInv, AbortMetrics
  PROVE  [Contract!Next]_(Contract!vars)
<1>0. TypeOK /\ Ownership
  BY DEF RInv, IInv
<1>1. local \in Testing /\ local \in cancelled
  BY <1>0 DEF AbortMetrics, Ownership, TypeOK, Testing, Gens
<1>2. Contract!MayEnd /\ Testing = {local}
  BY <1>1, CancelledMayEnd
<1>3. Testing' = {}
  BY <1>0, <1>1, <1>2, LoopMoves DEF AbortMetrics, MLoopStates
<1>4. Serving' = Serving /\ UNCHANGED <<pc, open, inbox, gen>>
  BY DEF AbortMetrics, Serving, session, client
<1>5. CASE UNCHANGED wire
  <2>1. Contract!End
    BY <1>2, <1>3, <1>4, <1>5 DEF Contract!End
  <2> QED BY <2>1 DEF Contract!Next
<1>6. CASE Written("torn", local)
  <2>1. Contract!Frame
    BY <1>1, <1>2, <1>3, <1>4, <1>6 DEF Written, Contract!Frame
  <2> QED BY <2>1 DEF Contract!Next
<1> QED BY <1>5, <1>6 DEF AbortMetrics

\* The metrics loop writes windows only of a test that exists, and returns only
\* when the test may end.
LEMMA MetricsRefines ==
  ASSUME RInv, NEW g \in Gens, MetricsNext(g)
  PROVE  [Contract!Next]_(Contract!vars)
<1>0. TypeOK
  BY DEF RInv, IInv
<1>1. g \in Testing
  BY DEF MetricsNext, DeadlineHit, SeesCancel, WriteBegin, WriteEnd, WriteFail, Testing, MLoopAlive
<1>2. Serving' = Serving /\ UNCHANGED <<pc, open, inbox, gen>>
  BY DEF MetricsNext, DeadlineHit, SeesCancel, WriteBegin, WriteEnd, WriteFail, Serving,
     session, client
<1>3. CASE DeadlineHit(g) \/ WriteBegin(g)
  <2>1. Testing' = Testing
    BY <1>0, <1>1, <1>3, LoopMoves DEF DeadlineHit, WriteBegin, MLoopStates
  <2> QED BY <1>2, <1>3, <2>1 DEF DeadlineHit, WriteBegin, stream, Contract!vars
<1>4. CASE SeesCancel(g) \/ WriteFail(g)
  <2>1. UNCHANGED wire
    BY <1>4 DEF SeesCancel, WriteFail, stream
  <2>2. CASE g \in cancelled
    <3>1. Testing' = Testing \ {g}
      BY <1>0, <1>1, <1>4, <2>2, LoopMoves DEF SeesCancel, WriteFail, AfterWindow, MLoopStates
    <3>2. Contract!End
      BY <1>1, <1>2, <2>1, <2>2, <3>1, CancelledMayEnd DEF Contract!End
    <3> QED BY <3>2 DEF Contract!Next
  <2>3. CASE g \notin cancelled
    <3>1. Testing' = Testing
      BY <1>0, <1>1, <1>4, <2>3, LoopMoves DEF SeesCancel, WriteFail, AfterWindow, MLoopStates
    <3> QED BY <1>2, <2>1, <3>1 DEF Contract!vars
  <2> QED BY <2>2, <2>3
<1>5. CASE WriteEnd(g)
  <2>1. Testing' = (IF g \in cancelled THEN Testing \ {g} ELSE Testing) /\ Written("window", g)
    BY <1>0, <1>1, <1>5, LoopMoves DEF WriteEnd, AfterWindow, MLoopStates
  <2>2. g \in cancelled => Contract!MayEnd /\ Testing \ {g} = {}
    BY <1>1, CancelledMayEnd
  <2>3. Contract!Frame
    BY <1>1, <1>2, <2>1, <2>2 DEF Written, Contract!Frame
  <2> QED BY <2>3 DEF Contract!Next
<1> QED BY <1>3, <1>4, <1>5 DEF MetricsNext

\* The data plane is invisible to the client.
LEMMA DataRefines ==
  ASSUME RInv, NEW g \in Gens, DataNext(g)
  PROVE  [Contract!Next]_(Contract!vars)
<1>1. Testing' = Testing
  BY TestingSame DEF DataNext, IoEnds, PeerConnects, ReceiversEnd
<1>2. Serving' = Serving /\ UNCHANGED <<pc, open, inbox, gen, wire>>
  BY DEF DataNext, IoEnds, PeerConnects, ReceiversEnd, Serving, session, client, stream
<1> QED BY <1>1, <1>2 DEF Contract!vars

\* The server session implements its contract: what a client can observe of a
\* server, for any number of connections and requests and any socket capacity,
\* is a behaviour of SessionContract (server.rs run, handle_conn, stop).
THEOREM SessionImplementsContract == Spec => ImplementsContract
<1>1. Init => Contract!Init
  BY DEF Init, Contract!Init, Serving, Testing, MLoopAlive
<1>2. RInv /\ [Next]_vars => [Contract!Next]_(Contract!vars)
  <2> SUFFICES ASSUME RInv, [Next]_vars PROVE [Contract!Next]_(Contract!vars)
    OBVIOUS
  <2>1. CASE UNCHANGED vars
    <3>1. UNCHANGED <<pc, todo, open, inbox, gen, mloop, wire>>
      BY <2>1 DEF vars, client, stream, session, tasks
    <3>2. Testing' = Testing /\ Serving' = Serving
      BY <3>1, TestingSame DEF Serving
    <3> QED BY <3>1, <3>2 DEF Contract!vars
  <2>2. CASE ClientNext
    BY <2>2, ClientRefines
  <2>3. CASE SessionNext
    BY <2>3, ReadRefines, StopRefines, StartRefines, ReplyRefines, AbortRefines DEF SessionNext
  <2>4. CASE \E g \in Gens : MetricsNext(g) \/ DataNext(g)
    BY <2>4, MetricsRefines, DataRefines
  <2> QED BY <2>1, <2>2, <2>3, <2>4 DEF Next
<1> QED BY <1>1, <1>2, RefinementInvariant, PTL DEF Spec, ImplementsContract, Contract!Spec
=============================================================================
