------------------------- MODULE RoundDriverProofs -------------------------
(***************************************************************************)
(* Proofs about RoundDriver, for any number of servers and of rounds and   *)
(* any durations with Window + Lateness < Traffic: while no wait was cut   *)
(* short, the traffic of a round finds every server in it, and a round     *)
(* whose sleep ran out has a full window from every server.                *)
(*                                                                         *)
(* An Ack carries no round number, so the argument has to show that none   *)
(* outlives its round.  Each server is followed from the Start it is sent  *)
(* to the Ack that is counted for it; when the counter reaches N, every    *)
(* server is one of those counted.                                         *)
(***************************************************************************)
EXTENDS RoundDriver, SequenceTheorems, FiniteSetTheorems, TLAPS

-----------------------------------------------------------------------------
(* Frames on their way.                                                    *)

\* What an appended frame does to the Acks on their way.
LEMMA AppendAcks ==
  ASSUME NEW q \in Seq(Down), NEW m \in Down
  PROVE  /\ Append(q, m) \in Seq(Down)
         /\ NoAckIn(q) => OneAckIn(Append(q, m))
         /\ NoAckIn(q) /\ m.kind # "ack" => NoAckIn(Append(q, m))
         /\ OneAckIn(q) /\ m.kind # "ack" => OneAckIn(Append(q, m))
<1>1. /\ Append(q, m) \in Seq(Down) /\ Len(Append(q, m)) = Len(q) + 1
      /\ \A i \in 1 .. Len(q) : Append(q, m)[i] = q[i]
      /\ Append(q, m)[Len(q) + 1] = m
  BY AppendProperties
<1>2. Len(q) \in Nat
  BY LenProperties
<1>3. NoAckIn(q) => OneAckIn(Append(q, m))
  BY <1>1, <1>2 DEF NoAckIn, OneAckIn
<1>4. NoAckIn(q) /\ m.kind # "ack" => NoAckIn(Append(q, m))
  BY <1>1, <1>2 DEF NoAckIn
<1>5. OneAckIn(q) /\ m.kind # "ack" => OneAckIn(Append(q, m))
  BY <1>1, <1>2 DEF OneAckIn
<1> QED BY <1>1, <1>3, <1>4, <1>5

\* What taking the first frame does to them.
LEMMA TailAcks ==
  ASSUME NEW q \in Seq(Down), q # <<>>
  PROVE  /\ Tail(q) \in Seq(Down)
         /\ NoAckIn(q) => NoAckIn(Tail(q)) /\ Head(q).kind # "ack"
         /\ OneAckIn(q) => OneAckIn(Tail(q))
         /\ OneAckIn(q) /\ Head(q).kind = "ack" => NoAckIn(Tail(q))
<1>1. /\ Tail(q) \in Seq(Down) /\ Len(Tail(q)) = Len(q) - 1
      /\ \A i \in 1 .. Len(Tail(q)) : Tail(q)[i] = q[i + 1]
      /\ Head(q) = q[1]
  BY HeadTailProperties
<1>2. Len(q) \in Nat \ {0}
  BY LenProperties, EmptySeq
<1>3. \A i \in 1 .. Len(Tail(q)) : i + 1 \in 1 .. Len(q) /\ i + 1 # 1
  BY <1>1, <1>2
<1>4. NoAckIn(q) => NoAckIn(Tail(q)) /\ Head(q).kind # "ack"
  BY <1>1, <1>2, <1>3 DEF NoAckIn
<1>5. OneAckIn(q) => OneAckIn(Tail(q))
  BY <1>1, <1>2, <1>3 DEF OneAckIn
<1>6. OneAckIn(q) /\ Head(q).kind = "ack" => NoAckIn(Tail(q))
  BY <1>1, <1>2, <1>3 DEF OneAckIn, NoAckIn
<1> QED BY <1>1, <1>4, <1>5, <1>6

\* A frame is well formed when its round is one that was begun.
LEMMA Frames ==
  /\ [kind |-> "stop", round |-> 0] \in Up
  /\ [kind |-> "stopped", round |-> 0] \in Down
  /\ \A r \in Rounds : /\ [kind |-> "start", round |-> r] \in Up
                       /\ [kind |-> "ack", round |-> r] \in Down
                       /\ [kind |-> "error", round |-> r] \in Down
                       /\ [kind |-> "window", round |-> r] \in Down
BY DEF Up, Down

\* A request at the head of a connection is well formed, and what follows it is a
\* sequence of requests.
LEMMA HeadUp ==
  ASSUME TypeOK, NEW s \in Servers, c2s[s] # <<>>
  PROVE  /\ Tail(c2s[s]) \in Seq(Up) /\ Head(c2s[s]) \in Up
         /\ Head(c2s[s]).kind = "start" => Head(c2s[s]).round \in Rounds
<1>1. Tail(c2s[s]) \in Seq(Up) /\ Head(c2s[s]) \in Up
  BY HeadTailProperties DEF TypeOK
<1> QED BY <1>1 DEF Up

-----------------------------------------------------------------------------
(* Types.                                                                  *)

\* The client's steps keep the types.
LEMMA ClientTypes ==
  ASSUME TypeOK, RoundBegun, ClientNext
  PROVE  TypeOK'
<1> USE DriverAssumption
<1>1. UNCHANGED <<s2c, got_start, pump, spc, cur, running, mark, emitted>>
  BY DEF ClientNext, Signal, BeginRound, SendStart, AllSent, AcksComplete, AcksTimeout,
     AcksCancelled, TrafficOver, Leave, SendStop, pumpVars, serverVars
<1>2. sigint' \in BOOLEAN
  BY DEF TypeOK, ClientNext, Signal, BeginRound, SendStart, AllSent, AcksComplete, AcksTimeout,
     AcksCancelled, TrafficOver, Leave, SendStop
<1>3. cpc' \in {"begin", "send", "acks", "traffic", "stop", "done"} /\ round' \in 0 .. MaxRounds
  BY DEF TypeOK, ClientNext, Signal, BeginRound, SendStart, AllSent, AcksComplete, AcksTimeout,
     AcksCancelled, TrafficOver, Leave, SendStop
<1>4. next_srv' \in 1 .. N + 1 /\ start_acks' \in Nat
  BY DEF TypeOK, ClientNext, Signal, BeginRound, SendStart, AllSent, AcksComplete, AcksTimeout,
     AcksCancelled, TrafficOver, Leave, SendStop
<1>5. timer' \in 0 .. (Traffic + AckDeadline)
  BY DEF TypeOK, ClientNext, Signal, BeginRound, SendStart, AllSent, AcksComplete, AcksTimeout,
     AcksCancelled, TrafficOver, Leave, SendStop
<1>6. short' \subseteq Rounds /\ full' \subseteq Rounds
  <2>1. cpc \in {"acks", "traffic"} => round \in Rounds
    BY DEF TypeOK, RoundBegun, Rounds
  <2>2. short' = short \/ (cpc = "acks" /\ short' = short \cup {round})
    BY DEF ClientNext, Signal, BeginRound, SendStart, AllSent, AcksComplete, AcksTimeout,
       AcksCancelled, TrafficOver, Leave, SendStop
  <2>3. full' = full \/ (cpc = "traffic" /\ full' = full \cup {round})
    BY DEF ClientNext, Signal, BeginRound, SendStart, AllSent, AcksComplete, AcksTimeout,
       AcksCancelled, TrafficOver, Leave, SendStop
  <2> QED BY <2>1, <2>2, <2>3 DEF TypeOK
<1>7. c2s' \in [Servers -> Seq(Up)]
  <2>1. CASE UNCHANGED c2s
    BY <2>1 DEF TypeOK
  <2>2. ASSUME NEW m \in Up, next_srv \in Servers, To(next_srv, m) PROVE c2s' \in [Servers -> Seq(Up)]
    <3>1. Append(c2s[next_srv], m) \in Seq(Up)
      BY <2>2, AppendProperties DEF TypeOK
    <3> QED BY <2>2, <3>1 DEF TypeOK, To
  <2>3. CASE SendStart
    <3>1. round \in Rounds /\ next_srv \in Servers
      BY <2>3 DEF SendStart, TypeOK, RoundBegun, Rounds, Servers
    <3> QED BY <2>2, <2>3, <3>1, Frames DEF SendStart
  <2>4. CASE SendStop
    <3>1. next_srv <= N => next_srv \in Servers
      BY DEF TypeOK, Servers
    <3> QED BY <2>1, <2>2, <2>4, <3>1, Frames DEF SendStop
  <2> QED
    BY <2>1, <2>3, <2>4 DEF ClientNext, Signal, BeginRound, AllSent, AcksComplete, AcksTimeout,
       AcksCancelled, TrafficOver, Leave
<1> QED BY <1>1, <1>2, <1>3, <1>4, <1>5, <1>6, <1>7 DEF TypeOK

\* The pumps' steps keep the types.
LEMMA PumpTypes ==
  ASSUME TypeOK, NEW s \in Servers, PumpNext(s)
  PROVE  TypeOK'
<1>1. UNCHANGED <<clientVars, c2s, serverVars>> /\ s2c[s] # <<>> /\ Popped(s)
  BY DEF PumpNext, PumpAck, PumpEnds, PumpOther
<1>2. Tail(s2c[s]) \in Seq(Down)
  BY <1>1, TailAcks DEF TypeOK
<1>3. s2c' \in [Servers -> Seq(Down)]
  BY <1>1, <1>2 DEF TypeOK, Popped
<1>4. start_acks' \in Nat
  BY DEF TypeOK, PumpNext, PumpAck, PumpEnds, PumpOther
<1>5. got_start' \in [Servers -> BOOLEAN] /\ pump' \in [Servers -> BOOLEAN]
  BY DEF TypeOK, PumpNext, PumpAck, PumpEnds, PumpOther, pumpVars
<1> QED BY <1>1, <1>3, <1>4, <1>5 DEF TypeOK, clientVars, serverVars

\* The servers' steps keep the types.
LEMMA ServerTypes ==
  ASSUME TypeOK, RoundBegun, NEW s \in Servers, ServerNext(s)
  PROVE  TypeOK'
<1> USE DriverAssumption
<1>1. UNCHANGED <<clientVars, start_acks, pumpVars>>
  BY DEF ServerNext, SrvStart, SrvStarted, SrvStartFails, SrvStop, SrvWindow
<1>2. c2s' \in [Servers -> Seq(Up)]
  BY HeadUp, ZenonT(60) DEF TypeOK, ServerNext, SrvStart, SrvStarted, SrvStartFails, SrvStop, SrvWindow
<1>3. s2c' \in [Servers -> Seq(Down)]
  <2>1. ASSUME NEW m \in Down, From(s, m) PROVE s2c' \in [Servers -> Seq(Down)]
    <3>1. Append(s2c[s], m) \in Seq(Down)
      BY AppendProperties DEF TypeOK
    <3> QED BY <2>1, <3>1 DEF TypeOK, From
  <2>2. spc[s] = "starting" => cur[s] \in Rounds
    BY DEF TypeOK, RoundBegun, Rounds
  <2>3. WindowDue(s) => running[s] \in Rounds
    BY DEF TypeOK, WindowDue, Rounds
  <2>4. CASE SrvStart(s)
    BY <2>4 DEF TypeOK, SrvStart
  <2> QED
    BY <2>1, <2>2, <2>3, <2>4, Frames DEF ServerNext, SrvStarted, SrvStartFails, SrvStop, SrvWindow
<1>4. spc' \in [Servers -> {"idle", "starting"}]
  BY ZenonT(60) DEF TypeOK, ServerNext, SrvStart, SrvStarted, SrvStartFails, SrvStop, SrvWindow
<1>5. /\ cur' \in [Servers -> 0 .. MaxRounds] /\ running' \in [Servers -> 0 .. MaxRounds]
      /\ mark' \in [Servers -> 0 .. (Window + Lateness)]
  <2>1. CASE SrvStart(s)
    <3>1. Head(c2s[s]).round \in 0 .. MaxRounds
      BY <2>1, HeadUp DEF SrvStart, Rounds
    <3>2. 0 \in 0 .. MaxRounds /\ 0 \in 0 .. Window
      OBVIOUS
    <3> QED BY <2>1, <3>1, <3>2 DEF TypeOK, SrvStart
  <2>2. CASE SrvStarted(s)
    <3>1. Window \in 0 .. Window /\ cur[s] \in 0 .. MaxRounds
      BY DEF TypeOK
    <3> QED BY <2>2, <3>1 DEF TypeOK, SrvStarted
  <2>3. CASE SrvStop(s)
    <3>1. 0 \in 0 .. MaxRounds /\ 0 \in 0 .. Window
      OBVIOUS
    <3> QED BY <2>3, <3>1 DEF TypeOK, SrvStop
  <2> QED BY <2>1, <2>2, <2>3 DEF TypeOK, ServerNext, SrvStartFails, SrvWindow
<1>6. emitted' \subseteq Servers \X Rounds
  BY DEF TypeOK, Rounds, WindowDue, ServerNext, SrvStart, SrvStarted, SrvStartFails, SrvStop,
     SrvWindow
<1> QED BY <1>1, <1>2, <1>3, <1>4, <1>5, <1>6 DEF TypeOK, clientVars, pumpVars

\* Time keeps the types.
LEMMA TickTypes ==
  ASSUME TypeOK, Tick
  PROVE  TypeOK'
<1>1. timer' \in 0 .. (Traffic + AckDeadline)
  BY DriverAssumption DEF TypeOK, Tick
<1>2. mark' \in [Servers -> 0 .. (Window + Lateness)]
  BY DriverAssumption, SMTT(60) DEF TypeOK, Tick
<1> QED BY <1>1, <1>2 DEF TypeOK, Tick, pumpVars

-----------------------------------------------------------------------------
(* Counting.                                                               *)

\* The servers are finitely many, and so are the counted ones.
LEMMA CountedFinite ==
  /\ IsFiniteSet(Servers) /\ Cardinality(Servers) = N
  /\ IsFiniteSet(Counted) /\ Cardinality(Counted) \in Nat /\ Cardinality(Counted) <= N
  /\ Cardinality(Counted) = N => Counted = Servers
<1>1. IsFiniteSet(Servers) /\ Cardinality(Servers) = N
  BY DriverAssumption, FS_Interval DEF Servers
<1>2. Counted \in SUBSET Servers
  BY DEF Counted
<1>3. /\ IsFiniteSet(Counted) /\ Cardinality(Counted) <= N
      /\ Cardinality(Counted) = N => Counted = Servers
  BY <1>1, <1>2, FS_Subset
<1>4. Cardinality(Counted) \in Nat
  BY <1>3, FS_CardinalityType
<1> QED BY <1>1, <1>3, <1>4

\* A step that uncounts no server does not lower the number of counted ones.
LEMMA CountGrows ==
  ASSUME Counted \subseteq Counted'
  PROVE  /\ Cardinality(Counted') \in Nat /\ Cardinality(Counted) <= Cardinality(Counted')
         /\ \A s \in Counted' : s \notin Counted => Cardinality(Counted) + 1 <= Cardinality(Counted')
<1>1. Counted' \in SUBSET Servers
  BY DEF Counted
<1>2. IsFiniteSet(Counted')
  BY <1>1, CountedFinite, FS_Subset
<1>3. Cardinality(Counted') \in Nat
  BY <1>2, FS_CardinalityType
<1>4. Cardinality(Counted) <= Cardinality(Counted')
  BY <1>2, FS_Subset
<1>5. ASSUME NEW s \in Counted', s \notin Counted
      PROVE  Cardinality(Counted) + 1 <= Cardinality(Counted')
  <2>1. IsFiniteSet(Counted \cup {s}) /\ Cardinality(Counted \cup {s}) = Cardinality(Counted) + 1
    BY <1>5, CountedFinite, FS_AddElement
  <2>2. Counted \cup {s} \in SUBSET (Counted')
    BY <1>5
  <2> QED BY <1>2, <2>1, <2>2, FS_Subset
<1> QED BY <1>3, <1>4, <1>5

\* When as many Acks as servers were counted, every server is in the round.
LEMMA AllCounted ==
  ASSUME TypeOK, AcksOfThisRound, short = {}, cpc \in {"send", "acks"}, start_acks >= N
  PROVE  \A s \in Servers : Rest(s) /\ running[s] = round
<1>1. Counted = Servers
  BY CountedFinite, DriverAssumption DEF TypeOK, AcksOfThisRound
<1> QED BY <1>1 DEF Counted

-----------------------------------------------------------------------------
(* The steps of one server and of its pump.                                *)

\* The part of the invariant a step of one server or of its pump can disturb.
Track == OnTrack /\ AcksOfThisRound /\ WindowComing /\ RoundComplete

\* A step at one server keeps the servers on track if it leaves a resting server
\* at rest, a server that was sent its Start on its way, and counts no Ack that
\* is not this server's of this round.
LEMMA LocalStep ==
  ASSUME TypeOK, TypeOK', Track, NEW s \in Servers,
         UNCHANGED clientVars, emitted \subseteq emitted',
         \A t \in Servers \ {s} : /\ c2s'[t] = c2s[t] /\ s2c'[t] = s2c[t] /\ spc'[t] = spc[t]
                                  /\ cur'[t] = cur[t] /\ running'[t] = running[t]
                                  /\ mark'[t] = mark[t],
         Rest(s) => Rest(s)' /\ running'[s] = running[s] /\ mark'[s] = mark[s],
         Sent(s) => Sent(s)',
         \/ start_acks' = start_acks
         \/ /\ start_acks' = start_acks + 1 /\ ~Rest(s)
            /\ Sent(s) => Rest(s)' /\ running'[s] = round
  PROVE  Track'
<1> USE DEF Track, clientVars
<1>1. \A t \in Servers \ {s} : /\ Rest(t) => Rest(t)'
                               /\ Sent(t) => Sent(t)'
  BY DEF Rest, Sent
<1>2. OnTrack'
  <2> SUFFICES ASSUME short = {} PROVE OnTrack'
    BY DEF OnTrack
  <2>1. (cpc = "begin" /\ ~sigint) \/ cpc = "traffic" =>
           \A t \in Servers : Rest(t)' /\ running'[t] = round
    BY <1>1 DEF OnTrack
  <2>2. cpc = "send" => \A t \in Servers : /\ t < next_srv => Sent(t)'
                                           /\ ~(t < next_srv) => Rest(t)' /\ running'[t] < round
    BY <1>1 DEF OnTrack
  <2>3. cpc = "acks" => \A t \in Servers : Sent(t)'
    BY <1>1 DEF OnTrack
  <2> QED BY <2>1, <2>2, <2>3 DEF OnTrack
<1>3. AcksOfThisRound'
  <2> SUFFICES ASSUME short = {}, cpc \in {"send", "acks"}
               PROVE  start_acks' <= Cardinality(Counted')
    BY DEF AcksOfThisRound
  <2>1. Counted \subseteq Counted'
    BY <1>1 DEF Counted
  <2>2. CASE start_acks' = start_acks
    BY <2>1, <2>2, CountGrows, CountedFinite, SMTT(60) DEF AcksOfThisRound, TypeOK
  <2>3. CASE start_acks' = start_acks + 1 /\ ~Rest(s) /\ (Sent(s) => Rest(s)' /\ running'[s] = round)
    <3>1. Sent(s)
      BY <2>3 DEF OnTrack
    <3>2. s \in Counted' /\ s \notin Counted
      BY <2>3, <3>1 DEF Counted
    <3> QED BY <2>1, <2>3, <3>2, CountGrows, CountedFinite, SMTT(60) DEF AcksOfThisRound, TypeOK
  <2> QED BY <2>2, <2>3
<1>4. WindowComing'
  BY DEF WindowComing, OnTrack
<1>5. RoundComplete'
  BY DEF RoundComplete
<1> QED BY <1>2, <1>3, <1>4, <1>5

\* The pump takes an Ack, which is counted, or another frame, which is not.
LEMMA PumpStep ==
  ASSUME IInv, NEW s \in Servers, PumpNext(s)
  PROVE  IInv'
<1>1. TypeOK'
  BY PumpTypes DEF IInv
<1>2. UNCHANGED <<clientVars, c2s, serverVars>> /\ s2c[s] # <<>> /\ Popped(s)
  BY DEF PumpNext, PumpAck, PumpEnds, PumpOther
<1>3. s2c'[s] = Tail(s2c[s]) /\ \A t \in Servers \ {s} : s2c'[t] = s2c[t]
  BY <1>2 DEF IInv, TypeOK, Popped
<1>4. /\ NoAckIn(s2c[s]) => NoAckIn(s2c'[s]) /\ FrameKind(s) # "ack"
      /\ OneAckIn(s2c[s]) => OneAckIn(s2c'[s])
      /\ OneAckIn(s2c[s]) /\ FrameKind(s) = "ack" => NoAckIn(s2c'[s])
  BY <1>2, <1>3, TailAcks DEF IInv, TypeOK, FrameKind
<1>5. Rest(s) => Rest(s)'
  BY <1>2, <1>4 DEF Rest, serverVars
<1>6. Sent(s) => Sent(s)'
  BY <1>2, <1>4, <1>5 DEF Sent, serverVars, clientVars
<1>7. \/ start_acks' = start_acks
      \/ /\ start_acks' = start_acks + 1 /\ ~Rest(s)
         /\ Sent(s) => Rest(s)' /\ running'[s] = round
  <2>1. CASE PumpAck(s)
    <3>1. ~NoAckIn(s2c[s]) /\ FrameKind(s) = "ack" /\ start_acks' = start_acks + 1
      BY <1>4, <2>1 DEF PumpAck
    <3> QED BY <1>2, <1>4, <3>1 DEF Sent, Rest, serverVars
  <2>2. CASE PumpEnds(s) \/ PumpOther(s)
    BY <2>2 DEF PumpEnds, PumpOther
  <2> QED BY <2>1, <2>2 DEF PumpNext
<1>8. Track'
  BY <1>1, <1>2, <1>3, <1>5, <1>6, <1>7, LocalStep DEF IInv, Track, serverVars
<1>9. RoundBegun'
  BY <1>2 DEF IInv, RoundBegun, clientVars, serverVars
<1> QED BY <1>1, <1>8, <1>9 DEF IInv, Track

\* A server reads its Start, has started or failed to, stops, or emits a window.
LEMMA ServerStep ==
  ASSUME IInv, NEW s \in Servers, ServerNext(s)
  PROVE  IInv'
<1> USE DEF IInv
<1>1. TypeOK'
  BY ServerTypes
<1>2. UNCHANGED <<clientVars, start_acks, pumpVars>> /\ emitted \subseteq emitted'
  BY DEF ServerNext, SrvStart, SrvStarted, SrvStartFails, SrvStop, SrvWindow
<1>3. \A t \in Servers \ {s} : /\ c2s'[t] = c2s[t] /\ s2c'[t] = s2c[t] /\ spc'[t] = spc[t]
                               /\ cur'[t] = cur[t] /\ running'[t] = running[t]
                               /\ mark'[t] = mark[t]
  BY ZenonT(60) DEF TypeOK, From, ServerNext, SrvStart, SrvStarted, SrvStartFails, SrvStop, SrvWindow
<1>4. RoundBegun'
  <2>1. \A t \in Servers : spc'[t] = "starting" => cur'[t] > 0
    <3>1. CASE SrvStart(s)
      <4>1. Head(c2s[s]).round \in Rounds
        BY <3>1, HeadUp DEF SrvStart
      <4>2. cur'[s] = Head(c2s[s]).round
        BY <3>1 DEF SrvStart, TypeOK
      <4>3. cur'[s] > 0
        BY <4>1, <4>2, DriverAssumption DEF Rounds
      <4> QED BY <1>3, <4>3 DEF RoundBegun
    <3>2. CASE ~SrvStart(s)
      <4>1. cur' = cur /\ (spc'[s] = "starting" => spc[s] = "starting")
        BY <3>2 DEF TypeOK, ServerNext, SrvStarted, SrvStartFails, SrvStop, SrvWindow
      <4> QED BY <1>3, <4>1 DEF RoundBegun
    <3> QED BY <3>1, <3>2
  <2> QED BY <1>2, <2>1 DEF RoundBegun, clientVars
<1>5. /\ Rest(s) => Rest(s)' /\ running'[s] = running[s] /\ mark'[s] = mark[s]
      /\ Sent(s) => Sent(s)'
  <2>1. CASE SrvStart(s)
    <3>1. ~Rest(s)
      BY <2>1 DEF SrvStart, Rest
    <3>2. ASSUME Sent(s) PROVE Sent(s)'
      <4>1. c2s[s] = <<[kind |-> "start", round |-> round]>> /\ NoAckIn(s2c[s])
        BY <2>1, <3>1, <3>2 DEF SrvStart, Sent
      <4>2. c2s'[s] = <<>> /\ spc'[s] = "starting" /\ cur'[s] = round /\ s2c'[s] = s2c[s]
        BY <2>1, <4>1 DEF SrvStart, TypeOK
      <4> QED BY <1>2, <4>1, <4>2 DEF Sent, clientVars
    <3> QED BY <3>1, <3>2
  <2>2. CASE SrvStarted(s) \/ SrvStartFails(s)
    <3>1. ~Rest(s)
      BY <2>2 DEF SrvStarted, SrvStartFails, Rest
    <3>2. ASSUME Sent(s) PROVE Sent(s)'
      <4>1. c2s[s] = <<>> /\ cur[s] = round /\ NoAckIn(s2c[s])
        BY <2>2, <3>1, <3>2 DEF SrvStarted, SrvStartFails, Sent
      <4>2. cur[s] \in Rounds
        BY <2>2 DEF TypeOK, RoundBegun, Rounds, SrvStarted, SrvStartFails
      <4>3. CASE SrvStarted(s)
        <5>1. /\ c2s'[s] = <<>> /\ spc'[s] = "idle" /\ running'[s] = round
              /\ s2c'[s] = Append(s2c[s], [kind |-> "ack", round |-> cur[s]])
          BY <4>1, <4>3 DEF SrvStarted, From, TypeOK
        <5>2. OneAckIn(s2c'[s])
          BY <4>1, <4>2, <5>1, AppendAcks, Frames DEF TypeOK
        <5> QED BY <1>2, <5>1, <5>2 DEF Sent, clientVars
      <4>4. CASE SrvStartFails(s)
        <5>1. /\ c2s'[s] = <<>> /\ spc'[s] = "idle"
              /\ s2c'[s] = Append(s2c[s], [kind |-> "error", round |-> cur[s]])
          BY <4>1, <4>4 DEF SrvStartFails, From, TypeOK
        <5>2. NoAckIn(s2c'[s])
          BY <4>1, <4>2, <5>1, AppendAcks, Frames DEF TypeOK
        <5> QED BY <5>1, <5>2 DEF Sent, Rest
      <4> QED BY <2>2, <4>3, <4>4
    <3> QED BY <3>1, <3>2
  <2>3. CASE SrvStop(s)
    <3>1. ~Rest(s) /\ ~Sent(s)
      BY <2>3 DEF SrvStop, Rest, Sent
    <3> QED BY <3>1
  <2>4. CASE SrvWindow(s)
    <3>1. running[s] \in Rounds
      BY <2>4 DEF SrvWindow, WindowDue, TypeOK, Rounds
    <3>2. s2c'[s] = Append(s2c[s], [kind |-> "window", round |-> running[s]])
      BY <2>4 DEF SrvWindow, From, TypeOK
    <3>3. /\ NoAckIn(s2c[s]) => NoAckIn(s2c'[s])
          /\ OneAckIn(s2c[s]) => OneAckIn(s2c'[s])
      BY <3>1, <3>2, AppendAcks, Frames DEF TypeOK
    <3>4. Rest(s) => Rest(s)'
      BY <2>4, <3>3 DEF Rest, SrvWindow
    <3>5. Sent(s) => Sent(s)'
      BY <1>2, <2>4, <3>3, <3>4 DEF Sent, SrvWindow, clientVars
    <3> QED BY <2>4, <3>4, <3>5 DEF SrvWindow
  <2> QED BY <2>1, <2>2, <2>3, <2>4 DEF ServerNext
<1>6. Track'
  BY <1>1, <1>2, <1>3, <1>5, LocalStep DEF Track
<1> QED BY <1>1, <1>4, <1>6 DEF Track

-----------------------------------------------------------------------------
(* The client's steps and time.                                            *)

\* At the start every server is at rest, in no round.
LEMMA InitIInv == Init => IInv
<1> SUFFICES ASSUME Init PROVE IInv
  OBVIOUS
<1> USE DriverAssumption
<1>1. TypeOK
  <2>1. sigint \in BOOLEAN /\ got_start \in [Servers -> BOOLEAN] /\ pump \in [Servers -> BOOLEAN]
    BY DEF Init
  <2>2. c2s \in [Servers -> Seq(Up)] /\ s2c \in [Servers -> Seq(Down)]
    BY EmptySeq DEF Init
  <2>3. /\ round \in 0 .. MaxRounds /\ next_srv \in 1 .. N + 1 /\ start_acks \in Nat
        /\ timer \in 0 .. (Traffic + AckDeadline)
    BY DEF Init
  <2>4. /\ cur \in [Servers -> 0 .. MaxRounds] /\ running \in [Servers -> 0 .. MaxRounds]
        /\ mark \in [Servers -> 0 .. (Window + Lateness)]
    BY DEF Init
  <2>5. spc \in [Servers -> {"idle", "starting"}]
    BY DEF Init
  <2> QED BY <2>1, <2>2, <2>3, <2>4, <2>5 DEF Init, TypeOK
<1>2. \A s \in Servers : Rest(s) /\ running[s] = round
  BY EmptySeq DEF Init, Rest, NoAckIn
<1>3. OnTrack
  BY <1>2 DEF Init, OnTrack
<1>4. RoundBegun /\ AcksOfThisRound /\ WindowComing /\ RoundComplete
  BY DEF Init, RoundBegun, AcksOfThisRound, WindowComing, RoundComplete
<1> QED BY <1>1, <1>3, <1>4 DEF IInv

\* Time passes: no mark is passed without its window, and the sleep is longer
\* than the way to the mark.
LEMMA TickStep ==
  ASSUME IInv, Tick
  PROVE  IInv'
<1> USE DEF IInv
<1>1. TypeOK'
  BY TickTypes
<1>2. UNCHANGED <<cpc, round, next_srv, sigint, short, full, start_acks, c2s, s2c, spc, cur, running,
                  emitted>>
  BY DEF Tick
<1>3. RoundBegun' /\ RoundComplete'
  BY <1>2 DEF RoundBegun, RoundComplete
<1>4. \A s \in Servers : (Rest(s)' <=> Rest(s)) /\ (Sent(s)' <=> Sent(s))
  BY <1>2 DEF Rest, Sent
<1>5. OnTrack'
  BY <1>2, <1>4 DEF OnTrack
<1>6. Counted' = Counted
  BY <1>2, <1>4 DEF Counted
<1>7. AcksOfThisRound'
  BY <1>2, <1>6 DEF AcksOfThisRound
<1>8. WindowComing'
  <2> SUFFICES ASSUME short = {}, cpc = "traffic", NEW s \in Servers, <<s, round>> \notin emitted
               PROVE  mark'[s] < timer'
    BY <1>2 DEF WindowComing
  <2>1. mark[s] < timer /\ running[s] = round /\ round > 0
    BY DEF WindowComing, OnTrack, RoundBegun
  <2>2. mark[s] > 0 /\ mark[s] \in Nat /\ timer \in Nat
    BY <2>1, DriverAssumption DEF Tick, WindowDue, TypeOK
  <2>3. mark'[s] = mark[s] - 1 /\ timer' = timer - 1
    BY <2>1, <2>2 DEF Tick
  <2> QED BY <2>1, <2>2, <2>3
<1> QED BY <1>1, <1>3, <1>5, <1>7, <1>8

\* What the client's steps leave to the servers.
LEMMA ClientFrame ==
  ASSUME ClientNext
  PROVE  UNCHANGED <<s2c, spc, cur, running, mark, emitted>>
BY DEF ClientNext, Signal, BeginRound, SendStart, AllSent, AcksComplete, AcksTimeout,
   AcksCancelled, TrafficOver, Leave, SendStop, serverVars

\* A new round: every server rests in the round before, and the counter is zero.
LEMMA BeginRoundStep ==
  ASSUME IInv, BeginRound
  PROVE  IInv'
<1> USE DEF IInv
<1>1. ClientNext
  BY DEF ClientNext
<1>2. TypeOK'
  BY <1>1, ClientTypes
<1>3. UNCHANGED <<s2c, spc, cur, running, mark, emitted, c2s, short, full>>
  BY <1>1, ClientFrame DEF BeginRound
<1>4. cpc' = "send" /\ round' = round + 1 /\ next_srv' = 1 /\ start_acks' = 0 /\ round \in Nat
  BY DEF BeginRound, TypeOK
<1>5. RoundBegun'
  BY <1>3, <1>4 DEF RoundBegun
<1>6. short = {} => \A s \in Servers : Rest(s)' /\ running'[s] < round'
  BY <1>3, <1>4 DEF OnTrack, BeginRound, Rest
<1>7. OnTrack'
  BY <1>3, <1>4, <1>6, DriverAssumption DEF OnTrack, Servers
<1>8. AcksOfThisRound'
  <2>1. Counted' \in SUBSET Servers
    BY DEF Counted
  <2>2. Cardinality(Counted') \in Nat
    BY <2>1, CountedFinite, FS_Subset, FS_CardinalityType
  <2> QED BY <1>4, <2>2 DEF AcksOfThisRound
<1>9. WindowComing' /\ RoundComplete'
  BY <1>3, <1>4 DEF WindowComing, RoundComplete
<1> QED BY <1>2, <1>5, <1>7, <1>8, <1>9

\* The broadcast reaches one more server, which rested in an earlier round and was
\* not counted.
LEMMA SendStartStep ==
  ASSUME IInv, SendStart
  PROVE  IInv'
<1> USE DEF IInv
<1>1. ClientNext
  BY DEF ClientNext
<1>2. TypeOK'
  BY <1>1, ClientTypes
<1>3. UNCHANGED <<s2c, spc, cur, running, mark, emitted, cpc, round, sigint, short, full, start_acks>>
  BY <1>1, ClientFrame DEF SendStart
<1> PICK n \in Servers : n = next_srv
  BY DEF SendStart, TypeOK, Servers
<1>4. /\ cpc = "send" /\ next_srv' = n + 1
      /\ \A s \in Servers : s # n => c2s'[s] = c2s[s]
      /\ c2s'[n] = Append(c2s[n], [kind |-> "start", round |-> round])
  BY DEF SendStart, To, TypeOK
<1>5. \A s \in Servers : s # n => (Rest(s)' <=> Rest(s)) /\ (Sent(s)' <=> Sent(s))
  BY <1>3, <1>4 DEF Rest, Sent
<1>6. short = {} => Rest(n) /\ running[n] < round
  BY <1>4 DEF OnTrack, TypeOK, Servers
<1>7. short = {} => Sent(n)'
  <2>1. Append(<< >>, [kind |-> "start", round |-> round]) = <<[kind |-> "start", round |-> round]>>
    OBVIOUS
  <2> QED BY <1>3, <1>4, <1>6, <2>1 DEF Rest, Sent
<1>8. OnTrack'
  <2> SUFFICES ASSUME short = {}, NEW s \in Servers
               PROVE  IF s < next_srv' THEN Sent(s)' ELSE Rest(s)' /\ running'[s] < round'
    BY <1>3, <1>4 DEF OnTrack
  <2>1. CASE s = n
    BY <1>4, <1>7, <2>1 DEF Servers
  <2>2. CASE s # n
    <3>1. s < next_srv' <=> s < n
      BY <1>4, <2>2 DEF Servers
    <3> QED BY <1>3, <1>4, <1>5, <2>2, <3>1 DEF OnTrack
  <2> QED BY <2>1, <2>2
<1>9. AcksOfThisRound'
  <2> SUFFICES ASSUME short = {} PROVE start_acks <= Cardinality(Counted')
    BY <1>3 DEF AcksOfThisRound
  <2>1. n \notin Counted
    BY <1>4, <1>6 DEF Counted, TypeOK, Servers
  <2>2. Counted \subseteq Counted'
    BY <1>3, <1>5, <2>1 DEF Counted
  <2> QED BY <1>4, <2>2, CountGrows, CountedFinite DEF AcksOfThisRound, TypeOK
<1>10. RoundBegun' /\ WindowComing' /\ RoundComplete'
  BY <1>3, <1>4 DEF RoundBegun, WindowComing, RoundComplete
<1> QED BY <1>2, <1>8, <1>9, <1>10

\* The traffic of a round begins: either every server is counted, or the round
\* joins the short ones.
LEMMA TrafficBegins ==
  ASSUME IInv, AcksComplete \/ AcksTimeout
  PROVE  IInv'
<1> USE DEF IInv
<1>1. ClientNext
  BY DEF ClientNext
<1>2. TypeOK'
  BY <1>1, ClientTypes
<1>3. UNCHANGED <<s2c, spc, cur, running, mark, emitted, round, sigint, full, start_acks, c2s>>
  BY <1>1, ClientFrame DEF AcksComplete, AcksTimeout
<1>4. cpc = "acks" /\ cpc' = "traffic" /\ timer' = Traffic
  BY DEF AcksComplete, AcksTimeout
<1>5. RoundBegun'
  BY <1>3, <1>4 DEF RoundBegun
<1>6. short' = {} => short = {} /\ \A s \in Servers : Rest(s)' /\ running'[s] = round'
  <2>1. CASE AcksComplete
    <3>1. short' = {} => \A s \in Servers : Rest(s) /\ running[s] = round
      BY <1>4, <2>1, AllCounted DEF AcksComplete
    <3> QED BY <1>3, <2>1, <3>1 DEF AcksComplete, Rest
  <2>2. CASE AcksTimeout
    BY <2>2 DEF AcksTimeout
  <2> QED BY <2>1, <2>2
<1>7. OnTrack'
  BY <1>4, <1>6 DEF OnTrack
<1>8. WindowComing'
  BY <1>2, <1>4, DriverAssumption, SMTT(60) DEF WindowComing, TypeOK
<1>9. AcksOfThisRound' /\ RoundComplete'
  BY <1>3, <1>4, <1>6 DEF AcksOfThisRound, RoundComplete
<1> QED BY <1>2, <1>5, <1>7, <1>8, <1>9

\* The traffic of a round ends: when its sleep ran out, every window has come.
LEMMA TrafficOverStep ==
  ASSUME IInv, TrafficOver
  PROVE  IInv'
<1> USE DEF IInv
<1>1. ClientNext
  BY DEF ClientNext
<1>2. TypeOK'
  BY <1>1, ClientTypes
<1>3. UNCHANGED <<s2c, spc, cur, running, mark, emitted, round, sigint, short, start_acks, c2s>>
  BY <1>1, ClientFrame DEF TrafficOver
<1>4. cpc = "traffic" /\ cpc' = "begin"
  BY DEF TrafficOver
<1>5. RoundComplete'
  <2> SUFFICES ASSUME short = {}, NEW r \in full', NEW s \in Servers PROVE <<s, r>> \in emitted
    BY <1>3 DEF RoundComplete
  <2>1. CASE r \in full
    BY <2>1 DEF RoundComplete
  <2>2. CASE r \notin full
    <3>1. r = round /\ timer = 0 /\ mark[s] \in Nat
      BY <2>2, DriverAssumption DEF TrafficOver, TypeOK
    <3> QED BY <1>4, <3>1 DEF WindowComing
  <2> QED BY <2>1, <2>2
<1>6. \A s \in Servers : Rest(s)' <=> Rest(s)
  BY <1>3 DEF Rest
<1>7. OnTrack'
  BY <1>3, <1>4, <1>6 DEF OnTrack
<1>8. RoundBegun' /\ AcksOfThisRound' /\ WindowComing'
  BY <1>3, <1>4 DEF RoundBegun, AcksOfThisRound, WindowComing
<1> QED BY <1>2, <1>5, <1>7, <1>8

\* The other steps of the client: a signal, the end of the broadcast, and the way
\* out once the token is cancelled.
LEMMA OtherClientStep ==
  ASSUME IInv, Signal \/ AllSent \/ AcksCancelled \/ Leave \/ SendStop
  PROVE  IInv'
<1> USE DEF IInv
<1>1. ClientNext
  BY DEF ClientNext
<1>2. TypeOK'
  BY <1>1, ClientTypes
<1>3. UNCHANGED <<s2c, spc, cur, running, mark, emitted, round, short, full, start_acks>>
  BY <1>1, ClientFrame DEF Signal, AllSent, AcksCancelled, Leave, SendStop
<1>4. RoundBegun' /\ RoundComplete'
  BY <1>3 DEF RoundBegun, RoundComplete, Signal, AllSent, AcksCancelled, Leave, SendStop
<1>5. CASE Signal \/ AllSent
  <2>1. UNCHANGED <<c2s, next_srv>>
    BY <1>5 DEF Signal, AllSent
  <2>2. \A s \in Servers : (Rest(s)' <=> Rest(s)) /\ (Sent(s)' <=> Sent(s))
    BY <1>3, <2>1 DEF Rest, Sent
  <2>3. Counted' = Counted
    BY <1>3, <2>2 DEF Counted
  <2>4. CASE Signal
    <3>1. cpc' = cpc /\ timer' = timer /\ (~sigint' => ~sigint)
      BY <2>4 DEF Signal
    <3>2. OnTrack'
      BY <1>3, <2>1, <2>2, <3>1 DEF OnTrack
    <3>3. AcksOfThisRound' /\ WindowComing'
      BY <1>3, <2>3, <3>1 DEF AcksOfThisRound, WindowComing
    <3> QED BY <1>2, <1>4, <3>2, <3>3
  <2>5. CASE AllSent
    <3>1. cpc = "send" /\ cpc' = "acks" /\ \A s \in Servers : s < next_srv
      BY <2>5, DriverAssumption DEF AllSent, TypeOK, Servers
    <3>2. OnTrack'
      BY <1>3, <2>2, <3>1 DEF OnTrack
    <3>3. AcksOfThisRound' /\ WindowComing'
      BY <1>3, <2>3, <3>1 DEF AcksOfThisRound, WindowComing
    <3> QED BY <1>2, <1>4, <3>2, <3>3
  <2> QED BY <1>5, <2>4, <2>5
<1>6. CASE AcksCancelled \/ Leave \/ SendStop
  <2>1. cpc' \in {"stop", "done"} \/ (cpc' = "begin" /\ sigint')
    BY <1>6 DEF AcksCancelled, Leave, SendStop
  <2>2. OnTrack' /\ AcksOfThisRound' /\ WindowComing'
    BY <2>1 DEF OnTrack, AcksOfThisRound, WindowComing
  <2> QED BY <1>2, <1>4, <2>2
<1> QED BY <1>5, <1>6

-----------------------------------------------------------------------------
(* The theorems.                                                           *)

\* The inductive invariant is kept by every step.
LEMMA NextIInv == IInv /\ [Next]_vars => IInv'
<1>1. ASSUME IInv, UNCHANGED vars PROVE IInv'
  <2> USE <1>1 DEF vars, clientVars, pumpVars, serverVars, IInv
  <2>1. TypeOK' /\ RoundBegun' /\ WindowComing' /\ RoundComplete'
    BY DEF TypeOK, RoundBegun, WindowComing, RoundComplete
  <2>2. \A s \in Servers : (Rest(s)' <=> Rest(s)) /\ (Sent(s)' <=> Sent(s))
    BY DEF Rest, Sent
  <2>3. OnTrack'
    BY <2>2 DEF OnTrack
  <2>4. Counted' = Counted
    BY <2>2 DEF Counted
  <2>5. AcksOfThisRound'
    BY <2>4 DEF AcksOfThisRound
  <2> QED BY <2>1, <2>3, <2>5
<1>2. ASSUME IInv, ClientNext PROVE IInv'
  BY <1>2, BeginRoundStep, SendStartStep, TrafficBegins, TrafficOverStep, OtherClientStep
     DEF ClientNext
<1> QED BY <1>1, <1>2, TickStep, PumpStep, ServerStep DEF Next

\* The inductive invariant of the pairs driver holds in every behaviour.
THEOREM Invariance == Spec => []IInv
BY InitIInv, NextIInv, PTL DEF Spec

\* Every variable keeps its type: the broadcast stays within the writers, and
\* every frame on a connection carries a round that was begun.
THEOREM TypeCorrect == Spec => []TypeOK
<1>1. IInv => TypeOK
  BY DEF IInv
<1> QED BY <1>1, Invariance, PTL

\* Acks carry no round number, yet while no wait was cut short the counter never
\* exceeds the servers that run this round (send_starts, pump_server).
THEOREM AcksOfThisRoundCorrect == Spec => []AcksOfThisRound
<1>1. IInv => AcksOfThisRound
  BY DEF IInv
<1> QED BY <1>1, Invariance, PTL

\* While no wait was cut short, traffic is measured with every server in the
\* round, for any number of servers and however long a Start takes (wait_round).
THEOREM InStepCorrect == Spec => []InStep
<1>1. IInv => InStep
  BY DEF IInv, OnTrack, Rest, InStep
<1> QED BY <1>1, Invariance, PTL

\* While no wait was cut short, a round whose traffic ran out has a full window
\* from every server, for any lateness of the metrics loops that the slack of
\* wait_round covers.
THEOREM RoundCompleteCorrect == Spec => []RoundComplete
<1>1. IInv => RoundComplete
  BY DEF IInv
<1> QED BY <1>1, Invariance, PTL
=============================================================================
