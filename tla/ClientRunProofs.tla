-------------------------- MODULE ClientRunProofs --------------------------
(***************************************************************************)
(* Proofs about ClientRun, for any number of servers, broadcasts and       *)
(* windows and any socket capacity: a run that reports success has stored  *)
(* every window it printed, and, unless its drain was cut short, every     *)
(* window its servers streamed.                                            *)
(*                                                                         *)
(* Windows are conserved on two queues.  An emitted one is on its way or   *)
(* printed; a printed one is queued or stored.  The Ack of the Stop is     *)
(* behind every window of its server, and the Shutdown event behind every  *)
(* window of the run.                                                      *)
(***************************************************************************)
EXTENDS ClientRun, SequenceTheorems, FiniteSetTheorems, TLAPS

-----------------------------------------------------------------------------
(* Counting the frames or events of one kind in a queue.                   *)

\* A count is a natural number, and zero in an empty queue.
LEMMA CountNat ==
  ASSUME NEW S, NEW q \in Seq(S), NEW x
  PROVE  /\ IsFiniteSet({i \in 1 .. Len(q) : q[i] = x})
         /\ Count(q, x) \in Nat
         /\ q = <<>> => Count(q, x) = 0
<1>1. Len(q) \in Nat /\ (q = <<>> => Len(q) = 0)
  BY LenProperties, EmptySeq
<1>2. IsFiniteSet(1 .. Len(q))
  BY <1>1, FS_Interval
<1>3. {i \in 1 .. Len(q) : q[i] = x} \in SUBSET (1 .. Len(q))
  OBVIOUS
<1>4. IsFiniteSet({i \in 1 .. Len(q) : q[i] = x})
  BY <1>2, <1>3, FS_Subset
<1>5. Count(q, x) \in Nat
  BY <1>4, FS_CardinalityType DEF Count
<1>6. ASSUME q = <<>> PROVE Count(q, x) = 0
  <2>1. {i \in 1 .. Len(q) : q[i] = x} = {}
    BY <1>1, <1>6
  <2> QED BY <2>1, FS_EmptySet DEF Count
<1> QED BY <1>4, <1>5, <1>6

\* Appending one element adds it to its count and to no other.
LEMMA CountAppend ==
  ASSUME NEW S, NEW q \in Seq(S), NEW m \in S, NEW x
  PROVE  /\ m = x => Count(Append(q, m), x) = Count(q, x) + 1
         /\ m # x => Count(Append(q, m), x) = Count(q, x)
<1> DEFINE n == Len(q)
           I == {i \in 1 .. n : q[i] = x}
           J == {i \in 1 .. Len(Append(q, m)) : Append(q, m)[i] = x}
<1>1. /\ Len(Append(q, m)) = n + 1 /\ n \in Nat
      /\ \A i \in 1 .. n : Append(q, m)[i] = q[i]
      /\ Append(q, m)[n + 1] = m
  BY AppendProperties, LenProperties
<1>2. IsFiniteSet(I)
  BY CountNat
<1>3. CASE m = x
  <2>1. J = I \cup {n + 1} /\ n + 1 \notin I
    BY <1>1, <1>3
  <2> HIDE DEF I, J
  <2>2. Cardinality(J) = Cardinality(I) + 1
    BY <1>2, <2>1, FS_AddElement
  <2> QED BY <1>3, <2>2 DEF Count, I, J
<1>4. CASE m # x
  <2>1. J = I
    BY <1>1, <1>4
  <2> QED BY <1>4, <2>1 DEF Count
<1> QED BY <1>3, <1>4

\* Taking the first element takes it from its count and from no other.
LEMMA CountTail ==
  ASSUME NEW S, NEW q \in Seq(S), q # <<>>, NEW x
  PROVE  /\ Head(q) \in S /\ Tail(q) \in Seq(S)
         /\ Head(q) = x => Count(q, x) = Count(Tail(q), x) + 1
         /\ Head(q) # x => Count(q, x) = Count(Tail(q), x)
<1> DEFINE n == Len(q)
           I == {i \in 1 .. Len(Tail(q)) : Tail(q)[i] = x}
           J == {i \in 2 .. n : q[i] = x}
           K == {i \in 1 .. n : q[i] = x}
           f == [i \in I |-> i + 1]
<1>1. /\ Len(Tail(q)) = n - 1 /\ n \in Nat \ {0} /\ Tail(q) \in Seq(S) /\ Head(q) \in S
      /\ \A i \in 1 .. n - 1 : Tail(q)[i] = q[i + 1]
      /\ Head(q) = q[1]
  BY HeadTailProperties, LenProperties, EmptySeq
<1>2. IsFiniteSet(I) /\ IsFiniteSet(K)
  BY <1>1, CountNat, ZenonT(60)
<1>3. f \in Bijection(I, J)
  <2>1. f \in [I -> J]
    BY <1>1
  <2>2. \A a, b \in I : f[a] = f[b] => a = b
    OBVIOUS
  <2>3. \A j \in J : \E i \in I : f[i] = j
    <3> SUFFICES ASSUME NEW j \in J PROVE \E i \in I : f[i] = j
      OBVIOUS
    <3>1. j - 1 \in I /\ (j - 1) + 1 = j
      BY <1>1
    <3>2. f[j - 1] = j
      BY <3>1
    <3> QED BY <3>1, <3>2
  <2> QED BY <2>1, <2>2, <2>3 DEF Bijection, Injection, Surjection, IsInjective
<1>4. IsFiniteSet(J) /\ Cardinality(J) = Cardinality(I)
  <2>1. ExistsBijection(I, J)
    BY <1>3 DEF ExistsBijection
  <2> HIDE DEF I, J
  <2> QED BY <1>2, <2>1, FS_Bijection
<1>5. CASE Head(q) = x
  <2>1. K = J \cup {1} /\ 1 \notin J
    BY <1>1, <1>5
  <2> HIDE DEF I, J, K
  <2>2. Cardinality(K) = Cardinality(I) + 1
    BY <1>4, <2>1, FS_AddElement
  <2> QED BY <1>1, <1>5, <2>2 DEF Count, I, K
<1>6. CASE Head(q) # x
  <2>1. K = J
    BY <1>1, <1>6
  <2> HIDE DEF I, J, K
  <2> QED BY <1>1, <1>4, <1>6, <2>1 DEF Count, I, K
<1> QED BY <1>1, <1>5, <1>6

-----------------------------------------------------------------------------
(* What is last in a queue.                                                *)

\* Nothing is in an empty queue.
LEMMA EmptyLast ==
  ASSUME NEW x
  PROVE  ~Has(<<>>, x) /\ OnlyLast(<<>>, x)
BY EmptySeq DEF Has, OnlyLast

\* An appended element is the last one; what was there before is not.
LEMMA AppendLast ==
  ASSUME NEW S, NEW q \in Seq(S), NEW m \in S, NEW x
  PROVE  /\ Append(q, m) \in Seq(S) /\ Len(Append(q, m)) = Len(q) + 1 /\ Len(q) \in Nat
         /\ Has(Append(q, m), x) <=> Has(q, x) \/ m = x
         /\ ~Has(q, x) => OnlyLast(Append(q, m), x)
<1>1. /\ Append(q, m) \in Seq(S) /\ Len(Append(q, m)) = Len(q) + 1 /\ Len(q) \in Nat
      /\ \A i \in 1 .. Len(q) : Append(q, m)[i] = q[i]
      /\ Append(q, m)[Len(q) + 1] = m
  BY AppendProperties, LenProperties
<1>2. Has(Append(q, m), x) <=> Has(q, x) \/ m = x
  BY <1>1 DEF Has
<1>3. ~Has(q, x) => OnlyLast(Append(q, m), x)
  BY <1>1 DEF Has, OnlyLast
<1> QED BY <1>1, <1>2, <1>3

\* When the first element of a queue can only be the last, nothing is left.
LEMMA TailLast ==
  ASSUME NEW S, NEW q \in Seq(S), q # <<>>, NEW x
  PROVE  /\ Tail(q) \in Seq(S) /\ Len(Tail(q)) = Len(q) - 1 /\ Len(q) \in Nat
         /\ Has(Tail(q), x) => Has(q, x)
         /\ Head(q) = x => Has(q, x)
         /\ OnlyLast(q, x) => OnlyLast(Tail(q), x)
         /\ OnlyLast(q, x) /\ Head(q) = x => Tail(q) = <<>>
<1>1. /\ Tail(q) \in Seq(S) /\ Len(Tail(q)) = Len(q) - 1 /\ Len(q) \in Nat \ {0}
      /\ \A i \in 1 .. Len(q) - 1 : Tail(q)[i] = q[i + 1]
      /\ Head(q) = q[1]
  BY HeadTailProperties, LenProperties, EmptySeq
<1>2. \A i \in 1 .. Len(q) - 1 : i + 1 \in 1 .. Len(q)
  BY <1>1
<1>3. Has(Tail(q), x) => Has(q, x)
  BY <1>1, <1>2 DEF Has
<1>4. Head(q) = x => Has(q, x)
  BY <1>1 DEF Has
<1>a. \A n \in Nat \ {0} : \A i \in Nat : (i + 1 = n => i = n - 1) /\ (n = 1 => n - 1 = 0)
  OBVIOUS
<1>5. ASSUME OnlyLast(q, x) PROVE OnlyLast(Tail(q), x)
  <2> SUFFICES ASSUME NEW i \in 1 .. Len(Tail(q)), Tail(q)[i] = x PROVE i = Len(Tail(q))
    BY DEF OnlyLast
  <2>1. i \in 1 .. Len(q) - 1 /\ i \in Nat
    BY <1>1
  <2>2. i + 1 \in 1 .. Len(q) /\ q[i + 1] = x
    BY <1>1, <1>2, <2>1
  <2>3. i + 1 = Len(q)
    BY <1>5, <2>2 DEF OnlyLast
  <2> QED BY <1>1, <1>a, <2>1, <2>3, Zenon
<1>6. ASSUME OnlyLast(q, x), Head(q) = x PROVE Len(Tail(q)) = 0
  <2>1. 1 \in 1 .. Len(q) /\ q[1] = x
    BY <1>1, <1>6
  <2>2. Len(q) = 1
    BY <1>6, <2>1 DEF OnlyLast
  <2> QED BY <1>1, <1>a, <2>2, Zenon
<1>7. Len(Tail(q)) = 0 => Tail(q) = <<>>
  BY <1>1, EmptySeq
<1> QED BY <1>1, <1>3, <1>4, <1>5, <1>6, <1>7

-----------------------------------------------------------------------------
(* The invariant.                                                          *)

\* At the start every queue is empty and nothing was emitted.
LEMMA InitIInv == Init => IInv
<1> SUFFICES ASSUME Init PROVE IInv
  OBVIOUS
<1> USE RunAssumption
<1>1. TypeOK
  <2>1. /\ sigint \in BOOLEAN /\ timedout \in BOOLEAN
        /\ got_start \in [Servers -> BOOLEAN] /\ bailed \in [Servers -> BOOLEAN]
        /\ garbled \in [Servers -> BOOLEAN]
    BY DEF Init
  <2>2. /\ c2s \in [Servers -> Seq({"start", "stop"})]
        /\ s2c \in [Servers -> Seq({"ack", "error", "window", "stopped", "torn"})]
        /\ dbq \in Seq(Servers \cup {Shutdown})
        /\ \A s \in Servers : Len(c2s[s]) <= Cap /\ Len(s2c[s]) <= Cap + 1
    BY EmptySeq DEF Init
  <2>3. /\ next_srv \in 1 .. N + 1 /\ starts \in 0 .. MaxStarts
        /\ printed \in [Servers -> 0 .. MaxWin] /\ stored \in [Servers -> 0 .. MaxWin]
        /\ emitted \in [Servers -> 0 .. MaxWin]
    BY DEF Init
  <2>4. /\ phase \in Phases /\ rc \in {"none", "ok", "err"}
        /\ db \in {"open", "recv", "ok", "failed", "killed"}
    BY DEF Init, Phases
  <2>5. /\ conn \in [Servers -> {"none", "up", "closed"}]
        /\ pump \in [Servers -> {"none", "run", "done"}]
        /\ srv \in [Servers -> {"idle", "test", "ended", "dead"}]
    BY DEF Init
  <2> QED BY <2>1, <2>2, <2>3, <2>4, <2>5 DEF TypeOK
<1>2. PumpsOver /\ ShutdownLast
  BY EmptyLast DEF Init, PumpsOver, ShutdownLast
<1>3. ASSUME NEW s \in Servers PROVE Queued(s) /\ Streamed(s) /\ StopLast(s) /\ PumpEnd(s)
  <2>1. /\ stored[s] = 0 /\ printed[s] = 0 /\ emitted[s] = 0 /\ dbq = <<>> /\ s2c[s] = <<>>
        /\ c2s[s] = <<>> /\ pump[s] = "none"
    BY DEF Init
  <2>2. Count(dbq, s) = 0 /\ Count(s2c[s], "window") = 0
    BY <1>1, <2>1, CountNat, ZenonT(60) DEF TypeOK
  <2> QED BY <2>1, <2>2, EmptyLast DEF Queued, Streamed, StopLast, PumpEnd
<1> QED BY <1>1, <1>2, <1>3 DEF IInv

\* The main task's own steps before the drain is over: they touch the phase, the
\* loop index, the requests and, when the drain times out, the pumps.
Forward ==
  \/ Signal \/ Resolved \/ Connect \/ BeginStarts \/ SendStart \/ StartsSent \/ BeginStop
  \/ SendStop \/ Drained \/ DrainTimeout

\* They leave alone what was streamed, printed and stored.
LEMMA ForwardFrame ==
  ASSUME Forward
  PROVE  /\ UNCHANGED <<rc, s2c, got_start, bailed, garbled, printed, dbq, db, stored, srv, emitted>>
         /\ phase # "exited"
         /\ phase' = phase \/ (phase \notin {"dbjoin", "exited"} /\ phase' \notin {"dbjoin", "exited"})
BY DEF Forward, Signal, Resolved, Connect, BeginStarts, SendStart, StartsSent, BeginStop, SendStop,
   Drained, DrainTimeout, pumpVars, dbVars, srvVars

\* They keep the types.
LEMMA ForwardTypes ==
  ASSUME TypeOK, Forward
  PROVE  TypeOK'
<1> USE RunAssumption
<1>1. UNCHANGED <<rc, s2c, got_start, bailed, garbled, printed, dbq, db, stored, srv, emitted>>
  BY ForwardFrame
<1>2. sigint' \in BOOLEAN /\ timedout' \in BOOLEAN
  BY DEF TypeOK, Forward, Signal, Resolved, Connect, BeginStarts, SendStart, StartsSent, BeginStop,
     SendStop, Drained, DrainTimeout
<1>3. phase' \in Phases
  BY DEF TypeOK, Phases, Forward, Signal, Resolved, Connect, BeginStarts, SendStart, StartsSent,
     BeginStop, SendStop, Drained, DrainTimeout
<1>4. next_srv' \in 1 .. N + 1 /\ starts' \in 0 .. MaxStarts
  BY SMTT(60) DEF TypeOK, Forward, Signal, Resolved, Connect, BeginStarts, SendStart, StartsSent, BeginStop,
     SendStop, Drained, DrainTimeout
<1>5. conn' \in [Servers -> {"none", "up", "closed"}] /\ pump' \in [Servers -> {"none", "run", "done"}]
  BY ZenonT(60) DEF TypeOK, Forward, Signal, Resolved, Connect, BeginStarts, SendStart, StartsSent, BeginStop,
     SendStop, Drained, DrainTimeout, pumpVars
<1>6. /\ c2s' \in [Servers -> Seq({"start", "stop"})]
      /\ \A s \in Servers : Len(c2s'[s]) <= Cap
  <2>1. CASE UNCHANGED c2s
    BY <2>1 DEF TypeOK
  <2>2. ASSUME NEW m \in {"start", "stop"}, next_srv <= N, Fits(next_srv),
               c2s' = [c2s EXCEPT ![next_srv] = Append(@, m)]
        PROVE  /\ c2s' \in [Servers -> Seq({"start", "stop"})]
               /\ \A s \in Servers : Len(c2s'[s]) <= Cap
    <3>1. next_srv \in Servers
      BY <2>2 DEF TypeOK, Servers
    <3>2. /\ Append(c2s[next_srv], m) \in Seq({"start", "stop"})
          /\ Len(Append(c2s[next_srv], m)) <= Cap
      BY <2>2, <3>1, AppendLast DEF TypeOK, Fits
    <3> QED BY <2>2, <3>1, <3>2 DEF TypeOK
  <2> QED
    BY <2>1, <2>2 DEF Forward, Signal, Resolved, Connect, BeginStarts, SendStart, StartsSent,
       BeginStop, SendStop, Drained, DrainTimeout
<1> QED BY <1>1, <1>2, <1>3, <1>4, <1>5, <1>6 DEF TypeOK

\* A server whose Stop was sent is sent nothing more, so a silent one stays silent.
LEMMA ForwardSilent ==
  ASSUME TypeOK, Forward, NEW s \in Servers
  PROVE  /\ StopSent(s) => StopSent(s)' /\ c2s'[s] = c2s[s]
         /\ Silent(s) => Silent(s)'
<1>1. ASSUME StopSent(s) PROVE StopSent(s)' /\ c2s'[s] = c2s[s]
  <2>1. CASE SendStop
    <3>1. phase = "stop" /\ s < next_srv /\ next_srv \in Int /\ s \in Int
      BY <1>1, <2>1, RunAssumption DEF SendStop, StopSent, TypeOK, Servers
    <3>2. c2s'[s] = c2s[s]
      BY <2>1, <3>1, SMTT(60) DEF SendStop, TypeOK
    <3>3. phase' = "drain" \/ (phase' = "stop" /\ s < next_srv')
      BY <2>1, <3>1 DEF SendStop
    <3> QED BY <3>2, <3>3 DEF StopSent
  <2>2. CASE Signal \/ Drained \/ DrainTimeout
    BY <1>1, <2>2 DEF Signal, Drained, DrainTimeout, StopSent
  <2>3. CASE Resolved \/ Connect \/ BeginStarts \/ SendStart \/ StartsSent \/ BeginStop
    BY <1>1, <2>3 DEF Resolved, Connect, BeginStarts, SendStart, StartsSent, BeginStop, StopSent
  <2> QED BY <2>1, <2>2, <2>3 DEF Forward
<1>2. srv' = srv
  BY ForwardFrame
<1> QED BY <1>1, <1>2 DEF Silent

\* A request is only sent to a server whose Stop was not: a Stop is the last one.
LEMMA ForwardStopLast ==
  ASSUME TypeOK, Forward, NEW s \in Servers, StopLast(s)
  PROVE  StopLast(s)'
<1>1. s2c' = s2c
  BY ForwardFrame
<1>2. OnlyLast(s2c'[s], "stopped") /\ (Has(s2c'[s], "stopped") => Silent(s)')
  BY <1>1, ForwardSilent DEF StopLast
<1>3. OnlyLast(c2s'[s], "stop") /\ (Has(c2s'[s], "stop") => StopSent(s)')
  <2>1. CASE c2s'[s] = c2s[s]
    BY <2>1, ForwardSilent DEF StopLast
  <2>2. CASE c2s'[s] # c2s[s]
    <3>1. ~Has(c2s[s], "stop")
      BY <2>2, ForwardSilent DEF StopLast
    <3>2. PICK m \in {"start", "stop"} : /\ c2s'[s] = Append(c2s[s], m)
                                         /\ m = "stop" => StopSent(s)'
      <4>1. CASE SendStart
        BY <2>2, <4>1 DEF SendStart, TypeOK
      <4>2. CASE SendStop
        <5>1. /\ c2s' = [c2s EXCEPT ![next_srv] = Append(@, "stop")]
              /\ next_srv' = next_srv + 1 /\ phase' = "stop"
          BY <2>2, <4>2 DEF SendStop
        <5>2. s = next_srv /\ c2s'[s] = Append(c2s[s], "stop")
          BY <2>2, <5>1 DEF TypeOK
        <5>3. s < next_srv'
          BY <5>1, <5>2, RunAssumption DEF TypeOK
        <5>4. StopSent(s)'
          BY <5>1, <5>3 DEF StopSent
        <5> QED BY <5>2, <5>4
      <4>3. CASE ~SendStart /\ ~SendStop
        BY <2>2, <4>3 DEF Forward, Signal, Resolved, Connect, BeginStarts, StartsSent, BeginStop,
           Drained, DrainTimeout
      <4> QED BY <4>1, <4>2, <4>3
    <3>3. /\ Has(Append(c2s[s], m), "stop") <=> Has(c2s[s], "stop") \/ m = "stop"
          /\ OnlyLast(Append(c2s[s], m), "stop")
      <4>1. c2s[s] \in Seq({"start", "stop"})
        BY DEF TypeOK
      <4> QED BY <3>1, <4>1, AppendLast, ZenonT(60)
    <3> QED BY <3>1, <3>2, <3>3
  <2> QED BY <2>1, <2>2
<1> QED BY <1>2, <1>3 DEF StopLast

\* The steps of the main task before the drain is over.
LEMMA ForwardStep ==
  ASSUME IInv, Forward
  PROVE  IInv'
<1> USE DEF IInv
<1>1. TypeOK'
  BY ForwardTypes
<1>2. /\ UNCHANGED <<rc, s2c, got_start, bailed, garbled, printed, dbq, db, stored, srv, emitted>>
      /\ phase # "exited"
      /\ phase' = phase \/ (phase \notin {"dbjoin", "exited"} /\ phase' \notin {"dbjoin", "exited"})
  BY ForwardFrame
<1>3. rc = "none" /\ rc' = "none" /\ phase' # "exited"
  BY <1>2 DEF PumpsOver
<1>4. PumpsOver'
  <2>1. ASSUME phase' \in {"close", "dbjoin"} PROVE \A s \in Servers : pump'[s] = "done"
    <3>1. CASE Drained
      BY <3>1 DEF Drained, pumpVars
    <3>2. CASE DrainTimeout
      BY <3>2 DEF DrainTimeout
    <3>3. CASE ~Drained /\ ~DrainTimeout
      <4>1. Signal
        BY <2>1, <3>3 DEF Forward, Resolved, Connect, BeginStarts, SendStart, StartsSent, BeginStop,
           SendStop
      <4> QED BY <2>1, <4>1 DEF Signal, PumpsOver, pumpVars
    <3> QED BY <3>1, <3>2, <3>3
  <2> QED BY <1>3, <2>1 DEF PumpsOver
<1>5. ShutdownLast'
  BY <1>2 DEF ShutdownLast
<1>6. ASSUME NEW s \in Servers PROVE Queued(s)' /\ Streamed(s)' /\ StopLast(s)' /\ PumpEnd(s)'
  <2>1. Queued(s)' /\ Streamed(s)'
    BY <1>2 DEF Queued, Streamed
  <2>2. StopLast(s)'
    BY ForwardStopLast
  <2>3. PumpEnd(s)'
    <3>1. CASE DrainTimeout
      BY <3>1 DEF DrainTimeout, PumpEnd
    <3>2. CASE ~DrainTimeout
      <4>1. timedout' = timedout /\ (pump'[s] = "done" => pump[s] = "done")
        BY <3>2 DEF Forward, Signal, Resolved, Connect, BeginStarts, SendStart, StartsSent,
           BeginStop, SendStop, Drained, TypeOK, pumpVars
      <4> QED BY <1>2, <4>1, ForwardSilent DEF PumpEnd
    <3> QED BY <3>1, <3>2
  <2> QED BY <2>1, <2>2, <2>3
<1> QED BY <1>1, <1>4, <1>5, <1>6

-----------------------------------------------------------------------------
(* The end of the run.                                                     *)

\* The run leaves its set-up or its broadcast with an error, or joins the sqlite
\* thread and reports its result.
LEMMA ExitStep ==
  ASSUME IInv, SetupFails \/ SendStartFails \/ DbJoined
  PROVE  IInv'
<1> USE DEF IInv
<1>1. UNCHANGED <<next_srv, starts, sigint, timedout, c2s, s2c, got_start, bailed, garbled, printed, dbq,
                  stored, srv, emitted>>
  BY DEF SetupFails, SendStartFails, DbJoined, srvVars
<1>2. PICK code \in {"ok", "err"} : Exit(code) /\ (code = "ok" => phase = "dbjoin" /\ db = "ok")
  BY DEF SetupFails, SendStartFails, DbJoined
<1>3. /\ phase' = "exited" /\ rc' = code
      /\ \A s \in Servers : pump'[s] = IF pump[s] = "run" THEN "done" ELSE pump[s]
      /\ db' = IF db \in {"ok", "failed"} THEN db ELSE "killed"
  BY <1>2 DEF Exit, DbDone
<1>4. phase \in {"resolve", "connect", "start", "dbjoin"}
  BY DEF SetupFails, SendStartFails, DbJoined
<1>5. TypeOK'
  <2>1. conn' \in [Servers -> {"none", "up", "closed"}]
    BY <1>2 DEF Exit, TypeOK
  <2>2. pump' \in [Servers -> {"none", "run", "done"}]
    BY <1>2 DEF Exit, TypeOK
  <2>3. phase' \in Phases /\ db' \in {"open", "recv", "ok", "failed", "killed"}
    BY <1>3 DEF Phases, TypeOK
  <2>4. rc' \in {"none", "ok", "err"}
    BY <1>2, <1>3
  <2> QED BY <1>1, <2>1, <2>2, <2>3, <2>4 DEF TypeOK
<1>6. PumpsOver'
  BY <1>2, <1>3 DEF PumpsOver
<1>7. ShutdownLast'
  BY <1>1, <1>3 DEF ShutdownLast
<1>8. ASSUME NEW s \in Servers PROVE Queued(s)' /\ Streamed(s)' /\ StopLast(s)' /\ PumpEnd(s)'
  <2>1. Queued(s)' /\ Streamed(s)'
    BY <1>1, <1>3 DEF Queued, Streamed
  <2>2. StopSent(s)' /\ (Silent(s) => Silent(s)')
    BY <1>1, <1>3 DEF StopSent, Silent
  <2>3. StopLast(s)'
    BY <1>1, <2>2 DEF StopLast
  <2>4. PumpEnd(s)'
    <3>1. CASE code = "err"
      BY <1>3, <3>1 DEF PumpEnd
    <3>2. CASE code = "ok"
      <4>1. pump[s] = "done" /\ rc # "err"
        BY <1>2, <1>4, <3>2 DEF PumpsOver
      <4> QED BY <1>1, <2>2, <4>1 DEF PumpEnd
    <3> QED BY <3>1, <3>2
  <2> QED BY <2>1, <2>3, <2>4
<1> QED BY <1>5, <1>6, <1>7, <1>8

\* The Shutdown event goes behind everything the pumps, which have all ended, had
\* sent.
LEMMA CloseAllStep ==
  ASSUME IInv, CloseAll
  PROVE  IInv'
<1> USE DEF IInv
<1>1. /\ UNCHANGED <<next_srv, starts, sigint, rc, timedout, c2s, s2c, pump, got_start, bailed, garbled,
                     printed, db, stored, srv, emitted>>
      /\ phase = "close" /\ phase' = "dbjoin"
      /\ conn' = [s \in Servers |-> "closed"]
      /\ dbq' = IF db \in {"ok", "failed"} THEN dbq ELSE Append(dbq, Shutdown)
  BY DEF CloseAll, Sent, DbDone, pumpVars, srvVars
<1>2. ~Has(dbq, Shutdown) /\ db # "ok"
  BY <1>1 DEF ShutdownLast
<1>3. /\ dbq' \in Seq(Servers \cup {Shutdown})
      /\ OnlyLast(dbq', Shutdown)
  <2>1. CASE db = "failed"
    BY <1>1, <2>1 DEF TypeOK, ShutdownLast
  <2>2. CASE db # "failed"
    <3>1. dbq' = Append(dbq, Shutdown)
      BY <1>1, <1>2, <2>2
    <3>2. dbq \in Seq(Servers \cup {Shutdown}) /\ Shutdown \in Servers \cup {Shutdown}
      BY DEF TypeOK
    <3>3. /\ Append(dbq, Shutdown) \in Seq(Servers \cup {Shutdown})
          /\ OnlyLast(Append(dbq, Shutdown), Shutdown)
      BY <1>2, <3>2, AppendLast, Zenon
    <3> QED BY <3>1, <3>3, Zenon
  <2> QED BY <2>1, <2>2
<1>4. \A s \in Servers : Count(dbq', s) = Count(dbq, s)
  <2> SUFFICES ASSUME NEW s \in Servers PROVE Count(dbq', s) = Count(dbq, s)
    OBVIOUS
  <2>1. s # Shutdown
    BY DEF Servers, Shutdown
  <2>2. Count(Append(dbq, Shutdown), s) = Count(dbq, s)
    <3>1. dbq \in Seq(Servers \cup {Shutdown}) /\ Shutdown \in Servers \cup {Shutdown}
      BY DEF TypeOK
    <3> QED BY <2>1, <3>1, CountAppend, Zenon
  <2> QED BY <1>1, <2>2
<1>5. TypeOK'
  <2>1. conn' \in [Servers -> {"none", "up", "closed"}] /\ phase' \in Phases
    BY <1>1 DEF Phases
  <2> QED BY <1>1, <1>3, <2>1 DEF TypeOK
<1>6. PumpsOver'
  BY <1>1 DEF PumpsOver
<1>7. ShutdownLast'
  BY <1>1, <1>2, <1>3 DEF ShutdownLast
<1>8. ASSUME NEW s \in Servers PROVE Queued(s)' /\ Streamed(s)' /\ StopLast(s)' /\ PumpEnd(s)'
  <2>1. Queued(s)' /\ Streamed(s)'
    BY <1>1, <1>4 DEF Queued, Streamed
  <2>2. StopSent(s)' /\ (Silent(s) => Silent(s)')
    BY <1>1 DEF StopSent, Silent
  <2> QED BY <1>1, <2>1, <2>2 DEF StopLast, PumpEnd
<1> QED BY <1>5, <1>6, <1>7, <1>8
-----------------------------------------------------------------------------
(* The pumps.                                                              *)

\* Counts in the two queues are natural numbers.
LEMMA CountsNat ==
  ASSUME TypeOK, NEW s \in Servers
  PROVE  Count(dbq, s) \in Nat /\ Count(s2c[s], "window") \in Nat
<1>1. dbq \in Seq(Servers \cup {Shutdown})
  BY DEF TypeOK
<1>2. s2c[s] \in Seq({"ack", "error", "window", "stopped", "torn"})
  BY DEF TypeOK
<1>3. Count(dbq, s) \in Nat
  BY <1>1, CountNat, Zenon
<1>4. Count(s2c[s], "window") \in Nat
  BY <1>2, CountNat, Zenon
<1> QED BY <1>3, <1>4

\* The first frame of one server's stream is taken, as itself or as part of a torn one.
Taken(s, kind) ==
  /\ s2c[s] # <<>> /\ Head(s2c[s]) = kind
  /\ s2c' = [s2c EXCEPT ![s] = Tail(@)]

\* read_frame takes the first frame of one server's stream: a window leaves its
\* count, and when it was the Ack of the Stop nothing is left.
LEMMA FrameTaken ==
  ASSUME TypeOK, NEW s \in Servers, NEW kind \in {"ack", "error", "window", "stopped", "torn"},
         Frame(s, kind) \/ Taken(s, kind)
  PROVE  /\ s2c' \in [Servers -> Seq({"ack", "error", "window", "stopped", "torn"})]
         /\ \A t \in Servers : Len(s2c'[t]) <= Cap + 1
         /\ \A t \in Servers \ {s} : s2c'[t] = s2c[t]
         /\ kind = "window" => Count(s2c[s], "window") = Count(s2c'[s], "window") + 1
         /\ kind # "window" => Count(s2c[s], "window") = Count(s2c'[s], "window")
         /\ Has(s2c'[s], "stopped") => Has(s2c[s], "stopped")
         /\ kind = "stopped" => Has(s2c[s], "stopped")
         /\ OnlyLast(s2c[s], "stopped") => OnlyLast(s2c'[s], "stopped")
         /\ OnlyLast(s2c[s], "stopped") /\ kind = "stopped" => s2c'[s] = <<>>
<1> DEFINE q == s2c[s]
<1>1. q \in Seq({"ack", "error", "window", "stopped", "torn"}) /\ q # <<>> /\ Head(q) = kind
  BY DEF TypeOK, Frame, Taken
<1>2. s2c' = [s2c EXCEPT ![s] = Tail(q)] /\ s2c'[s] = Tail(q)
  BY DEF TypeOK, Frame, Taken
<1>3. /\ Tail(q) \in Seq({"ack", "error", "window", "stopped", "torn"})
      /\ Len(Tail(q)) = Len(q) - 1 /\ Len(q) \in Nat
      /\ Has(Tail(q), "stopped") => Has(q, "stopped")
      /\ Head(q) = "stopped" => Has(q, "stopped")
      /\ OnlyLast(q, "stopped") => OnlyLast(Tail(q), "stopped")
      /\ OnlyLast(q, "stopped") /\ Head(q) = "stopped" => Tail(q) = <<>>
  <2> HIDE DEF q
  <2> QED BY <1>1, TailLast, Zenon
<1>4. /\ Head(q) = "window" => Count(q, "window") = Count(Tail(q), "window") + 1
      /\ Head(q) # "window" => Count(q, "window") = Count(Tail(q), "window")
  <2> HIDE DEF q
  <2> QED BY <1>1, CountTail, Zenon
<1>5. Len(Tail(q)) <= Cap + 1
  <2>1. Len(q) <= Cap + 1
    BY DEF TypeOK
  <2> HIDE DEF q
  <2>2. \A n \in Nat : \A m : m = n - 1 /\ n <= Cap + 1 => m <= Cap + 1
    BY RunAssumption
  <2> QED BY <1>3, <2>1, <2>2, Zenon
<1>6. /\ s2c' \in [Servers -> Seq({"ack", "error", "window", "stopped", "torn"})]
      /\ \A t \in Servers : Len(s2c'[t]) <= Cap + 1
      /\ \A t \in Servers \ {s} : s2c'[t] = s2c[t]
  <2>1. s2c' \in [Servers -> Seq({"ack", "error", "window", "stopped", "torn"})]
    BY <1>2, <1>3 DEF TypeOK
  <2>2. \A t \in Servers \ {s} : s2c'[t] = s2c[t]
    BY <1>2 DEF TypeOK
  <2> QED BY <1>2, <1>5, <2>1, <2>2 DEF TypeOK
<1> HIDE DEF q
<1>7. kind = Head(q) /\ s2c[s] = q
  BY <1>1 DEF q
<1> QED BY <1>2, <1>3, <1>4, <1>6, <1>7, Zenon

\* A pump touches its own stream, its own flags and the queue of the sqlite
\* thread; while one runs the drain is not over.
LEMMA PumpFrame ==
  ASSUME IInv, NEW s \in Servers, PumpNext(s)
  PROVE  /\ UNCHANGED <<phase, next_srv, starts, sigint, rc, timedout, conn, c2s, db, stored, srv,
                        emitted>>
         /\ \A t \in Servers \ {s} : /\ s2c'[t] = s2c[t] /\ pump'[t] = pump[t]
                                     /\ bailed'[t] = bailed[t] /\ garbled'[t] = garbled[t]
                                     /\ printed'[t] = printed[t]
         /\ \A t \in Servers : (Silent(t)' <=> Silent(t)) /\ (StopSent(t)' <=> StopSent(t))
         /\ pump[s] = "run" /\ rc = "none" /\ db # "ok"
         /\ phase \notin {"close", "dbjoin", "exited"}
<1> USE DEF IInv
<1>1. UNCHANGED <<phase, next_srv, starts, sigint, rc, timedout, conn, c2s, db, stored, srv, emitted>>
  BY DEF PumpNext, PumpAck, PumpWindow, PumpStopped, PumpError,
     PumpTorn, PumpGarbage, PumpEof, mainVars, dbVars, srvVars
<1>2. \A t \in Servers \ {s} : s2c'[t] = s2c[t] /\ pump'[t] = pump[t] /\ printed'[t] = printed[t]
  BY DEF PumpNext, PumpAck, PumpWindow, PumpStopped, PumpError,
     PumpTorn, PumpGarbage, PumpEof, Frame, TypeOK
<1>3. \A t \in Servers \ {s} : bailed'[t] = bailed[t] /\ garbled'[t] = garbled[t]
  BY DEF PumpNext, PumpAck, PumpWindow, PumpStopped, PumpError,
     PumpTorn, PumpGarbage, PumpEof, TypeOK
<1>4. \A t \in Servers : (Silent(t)' <=> Silent(t)) /\ (StopSent(t)' <=> StopSent(t))
  BY <1>1 DEF Silent, StopSent
<1>5. pump[s] = "run"
  BY DEF PumpNext, PumpAck, PumpWindow, PumpStopped, PumpError,
     PumpTorn, PumpGarbage, PumpEof, Frame
<1>6. phase \notin {"close", "dbjoin", "exited"}
  BY <1>5 DEF PumpsOver
<1>7. rc = "none" /\ db # "ok"
  BY <1>6 DEF PumpsOver, ShutdownLast
<1> QED BY <1>1, <1>2, <1>3, <1>4, <1>5, <1>6, <1>7
\* A window taken from the stream is printed, unless a torn frame is before it: the
\* two together do not change, or shrink.
LEMMA PumpStreamed ==
  ASSUME IInv, NEW s \in Servers, PumpNext(s)
  PROVE  /\ s2c' \in [Servers -> Seq({"ack", "error", "window", "stopped", "torn"})]
         /\ \A t \in Servers : Len(s2c'[t]) <= Cap + 1
         /\ OnlyLast(s2c'[s], "stopped") /\ (Has(s2c'[s], "stopped") => Has(s2c[s], "stopped"))
         /\ printed' \in [Servers -> 0 .. MaxWin]
         /\ ~garbled'[s] => /\ ~garbled[s]
                            /\ printed'[s] + Count(s2c'[s], "window") = printed[s] + Count(s2c[s], "window")
         /\ printed'[s] + Count(s2c'[s], "window") <= printed[s] + Count(s2c[s], "window")
<1> USE DEF IInv
<1> DEFINE Kinds == {"ack", "error", "window", "stopped", "torn"}
           Before == printed[s] + Count(s2c[s], "window")
           After == printed'[s] + Count(s2c'[s], "window")
<1>1. OnlyLast(s2c[s], "stopped") /\ garbled \in [Servers -> BOOLEAN]
  BY DEF StopLast, TypeOK
<1>a. Before \in Nat
  <2>1. printed[s] \in Nat /\ Count(s2c[s], "window") \in Nat
    BY CountsNat DEF TypeOK
  <2> QED BY <2>1
<1>2. CASE PumpEof(s)
  <2>1. UNCHANGED <<s2c, printed, garbled>>
    BY <1>2 DEF PumpEof
  <2>2. After = Before
    BY <2>1
  <2>3. After <= Before
    BY <1>a, <2>2
  <2> QED BY <1>1, <2>1, <2>2, <2>3 DEF TypeOK
<1>3. CASE PumpAck(s) \/ PumpStopped(s) \/ PumpError(s) \/ PumpTorn(s)
  <2>1. PICK kind \in Kinds : Frame(s, kind) /\ kind # "window" /\ printed' = printed
    BY <1>3 DEF PumpAck, PumpStopped, PumpError, PumpTorn
  <2>2. printed' \in [Servers -> 0 .. MaxWin]
    BY <2>1 DEF TypeOK
  <2>3. Count(s2c[s], "window") = Count(s2c'[s], "window")
    BY <2>1, FrameTaken
  <2>4. After = Before
    BY <2>1, <2>3
  <2>5. After <= Before
    BY <1>a, <2>4
  <2>6. ~garbled[s]
    BY <2>1 DEF Frame
  <2> QED BY <1>1, <2>1, <2>2, <2>4, <2>5, <2>6, FrameTaken
<1>5. CASE PumpGarbage(s)
  <2>1. PICK kind \in Kinds : Taken(s, kind) /\ printed' = printed /\ garbled[s] /\ garbled' = garbled
    <3>1. s2c[s] \in Seq(Kinds) /\ s2c[s] # <<>>
      BY <1>5 DEF PumpGarbage, TypeOK
    <3>2. Head(s2c[s]) \in Kinds
      <4> HIDE DEF Kinds
      <4> QED BY <3>1, CountTail, Zenon
    <3> QED BY <1>5, <3>2 DEF PumpGarbage, Taken
  <2>2. printed' \in [Servers -> 0 .. MaxWin]
    BY <2>1 DEF TypeOK
  <2>3. /\ s2c'[s] \in Seq(Kinds)
        /\ \/ Count(s2c[s], "window") = Count(s2c'[s], "window")
           \/ Count(s2c[s], "window") = Count(s2c'[s], "window") + 1
    BY <2>1, FrameTaken
  <2>4. Count(s2c'[s], "window") \in Nat
    <3> HIDE DEF Kinds
    <3> QED BY <2>3, CountNat, Zenon
  <2>5. printed'[s] \in Nat /\ printed'[s] = printed[s]
    BY <2>1 DEF TypeOK
  <2>6. After <= Before
    BY <2>3, <2>4, <2>5
  <2> QED BY <1>1, <2>1, <2>2, <2>6, FrameTaken
<1>4. CASE PumpWindow(s)
  <2>1. Frame(s, "window") /\ printed' = [printed EXCEPT ![s] = @ + 1]
    BY <1>4 DEF PumpWindow
  <2>2. /\ s2c' \in [Servers -> Seq(Kinds)]
        /\ \A t \in Servers : Len(s2c'[t]) <= Cap + 1
        /\ OnlyLast(s2c'[s], "stopped") /\ (Has(s2c'[s], "stopped") => Has(s2c[s], "stopped"))
        /\ Count(s2c[s], "window") = Count(s2c'[s], "window") + 1
    BY <1>1, <2>1, FrameTaken
  <2>3. Count(s2c'[s], "window") \in Nat
    <3>1. s2c'[s] \in Seq(Kinds)
      BY <2>2
    <3> QED BY <3>1, CountNat, Zenon
  <2>4. printed[s] + Count(s2c[s], "window") <= emitted[s]
    BY DEF Streamed
  <2>5. printed[s] \in 0 .. MaxWin /\ emitted[s] \in 0 .. MaxWin /\ MaxWin \in Nat
    BY RunAssumption DEF TypeOK
  <2>6. printed[s] + 1 \in 0 .. MaxWin
    BY <2>2, <2>3, <2>4, <2>5
  <2>7. printed' \in [Servers -> 0 .. MaxWin] /\ printed'[s] = printed[s] + 1
    BY <2>1, <2>6 DEF TypeOK
  <2>8. After = Before
    <3>1. \A a, b \in Nat : (a + 1) + b = a + (b + 1)
      OBVIOUS
    <3>2. printed[s] \in Nat
      BY <2>5
    <3> QED BY <2>2, <2>3, <2>7, <3>1, <3>2, Zenon
  <2>9. After <= Before
    BY <1>a, <2>8
  <2>10. ~garbled[s]
    BY <2>1 DEF Frame
  <2> QED BY <2>2, <2>7, <2>8, <2>9, <2>10
<1> QED BY <1>2, <1>3, <1>4, <1>5 DEF PumpNext

\* What is printed is sent: both grow together, and the Shutdown event is not yet
\* in the queue.
LEMMA PumpQueued ==
  ASSUME IInv, NEW s \in Servers, PumpNext(s)
  PROVE  /\ dbq' \in Seq(Servers \cup {Shutdown}) /\ ~Has(dbq', Shutdown)
         /\ OnlyLast(dbq', Shutdown)
         /\ \A t \in Servers : Queued(t)'
<1> USE DEF IInv
<1> DEFINE Events == Servers \cup {Shutdown}
<1>1. /\ ~Has(dbq, Shutdown) /\ OnlyLast(dbq, Shutdown) /\ dbq \in Seq(Events)
      /\ db' = db /\ stored' = stored /\ db # "ok"
  BY PumpFrame DEF ShutdownLast, TypeOK
<1>2. CASE dbq' = dbq /\ printed' = printed
  BY <1>1, <1>2 DEF Queued
<1>3. CASE PumpWindow(s)
  <2>1. printed' = [printed EXCEPT ![s] = @ + 1] /\ printed \in [Servers -> Nat]
    BY <1>3 DEF PumpWindow, TypeOK
  <2>2. CASE db = "failed"
    <3>1. dbq' = dbq
      BY <1>3, <2>2 DEF PumpWindow, Sent, DbDone
    <3>2. ASSUME NEW t \in Servers PROVE Queued(t)'
      <4>1. stored[t] + Count(dbq, t) <= printed[t] /\ printed'[t] \in {printed[t], printed[t] + 1}
        BY <2>1 DEF Queued
      <4>2. Count(dbq, t) \in Nat /\ stored[t] \in Nat /\ printed[t] \in Nat
        BY <2>1, CountsNat, SMTT(60) DEF TypeOK
      <4>3. stored[t] + Count(dbq, t) <= printed'[t]
        BY <4>1, <4>2
      <4> QED BY <1>1, <2>2, <3>1, <4>3 DEF Queued
    <3> QED BY <1>1, <3>1, <3>2
  <2>3. CASE db # "failed"
    <3>1. dbq' = Append(dbq, s) /\ s \in Events /\ s # Shutdown
      BY <1>1, <1>3, <2>3 DEF PumpWindow, Sent, DbDone, Servers, Shutdown
    <3>2. /\ Append(dbq, s) \in Seq(Events)
          /\ Has(Append(dbq, s), Shutdown) <=> Has(dbq, Shutdown) \/ s = Shutdown
          /\ OnlyLast(Append(dbq, s), Shutdown)
      <4> HIDE DEF Events
      <4> QED BY <1>1, <3>1, AppendLast, Zenon
    <3>3. ASSUME NEW t \in Servers PROVE Queued(t)'
      <4>1. /\ s = t => Count(Append(dbq, s), t) = Count(dbq, t) + 1
            /\ s # t => Count(Append(dbq, s), t) = Count(dbq, t)
        <5> HIDE DEF Events
        <5> QED BY <1>1, <3>1, CountAppend, Zenon
      <4>2. /\ s = t => printed'[t] = printed[t] + 1
            /\ s # t => printed'[t] = printed[t]
        BY <2>1
      <4>3. Count(dbq, t) \in Nat /\ stored[t] \in Nat /\ printed[t] \in Nat
        BY <2>1, CountsNat, SMTT(60) DEF TypeOK
      <4>4. stored[t] + Count(dbq, t) = printed[t]
        BY <2>3 DEF Queued
      <4>5. stored[t] + Count(dbq', t) = printed'[t] /\ printed'[t] \in Nat
        BY <3>1, <4>1, <4>2, <4>3, <4>4
      <4> QED BY <1>1, <4>5 DEF Queued
    <3> QED BY <1>1, <3>1, <3>2, <3>3
  <2> QED BY <2>2, <2>3
<1> QED BY <1>2, <1>3 DEF PumpNext, PumpAck, PumpStopped, PumpError,
     PumpTorn, PumpGarbage, PumpEof, dbVars

\* A pump ends on an Error, behind a torn frame, on the Ack of the Stop, behind which
\* nothing comes, or when its server is gone and everything it sent has been read.
LEMMA PumpEnds ==
  ASSUME IInv, NEW s \in Servers, PumpNext(s)
  PROVE  PumpEnd(s)'
<1> USE DEF IInv
<1>1. /\ pump[s] = "run" /\ pump \in [Servers -> {"none", "run", "done"}]
      /\ (Silent(s)' <=> Silent(s)) /\ srv' = srv
  BY PumpFrame DEF TypeOK
<1>2. CASE PumpAck(s) \/ PumpWindow(s) \/ PumpTorn(s)
  BY <1>1, <1>2 DEF PumpAck, PumpWindow, PumpTorn, PumpEnd
<1>6. CASE PumpGarbage(s)
  BY <1>6 DEF PumpGarbage, PumpEnd
<1>3. CASE PumpStopped(s)
  <2>1. Frame(s, "stopped")
    BY <1>3 DEF PumpStopped
  <2>2. s2c'[s] = <<>> /\ Has(s2c[s], "stopped")
    BY <2>1, FrameTaken DEF StopLast
  <2>3. Count(s2c'[s], "window") = 0
    <3>1. <<>> \in Seq({"ack", "error", "window", "stopped", "torn"})
      BY EmptySeq
    <3> QED BY <2>2, <3>1, CountNat, Zenon
  <2>4. Silent(s)'
    BY <1>1, <2>2 DEF StopLast
  <2> QED BY <2>3, <2>4 DEF PumpEnd
<1>4. CASE PumpError(s)
  <2>1. CASE got_start[s]
    <3>1. pump'[s] = "run"
      BY <1>1, <1>4, <2>1 DEF PumpError
    <3> QED BY <3>1 DEF PumpEnd
  <2>2. CASE ~got_start[s]
    <3>1. bailed'[s]
      BY <1>4, <2>2 DEF PumpError, TypeOK
    <3> QED BY <3>1 DEF PumpEnd
  <2> QED BY <2>1, <2>2
<1>5. CASE PumpEof(s)
  <2>1. s2c'[s] = <<>> /\ srv'[s] \in {"dead", "ended"}
    BY <1>5 DEF PumpEof, srvVars
  <2>2. Count(s2c'[s], "window") = 0
    <3>1. <<>> \in Seq({"ack", "error", "window", "stopped", "torn"})
      BY EmptySeq
    <3> QED BY <2>1, <3>1, CountNat, Zenon
  <2> QED BY <2>1, <2>2 DEF PumpEnd, Silent
<1> QED BY <1>2, <1>3, <1>4, <1>5, <1>6 DEF PumpNext

\* The steps of a pump.
LEMMA PumpStep ==
  ASSUME IInv, NEW s \in Servers, PumpNext(s)
  PROVE  IInv'
<1> USE DEF IInv
<1>1. /\ UNCHANGED <<phase, next_srv, starts, sigint, rc, timedout, conn, c2s, db, stored, srv, emitted>>
      /\ \A t \in Servers \ {s} : /\ s2c'[t] = s2c[t] /\ pump'[t] = pump[t]
                                  /\ bailed'[t] = bailed[t] /\ garbled'[t] = garbled[t]
                                  /\ printed'[t] = printed[t]
      /\ \A t \in Servers : (Silent(t)' <=> Silent(t)) /\ (StopSent(t)' <=> StopSent(t))
      /\ rc = "none" /\ phase \notin {"close", "dbjoin", "exited"}
  BY PumpFrame
<1>2. TypeOK'
  <2>1. /\ got_start' \in [Servers -> BOOLEAN] /\ bailed' \in [Servers -> BOOLEAN]
        /\ garbled' \in [Servers -> BOOLEAN]
    BY DEF PumpNext, PumpAck, PumpWindow, PumpStopped, PumpError,
     PumpTorn, PumpGarbage, PumpEof, TypeOK
  <2>2. pump' \in [Servers -> {"none", "run", "done"}]
    BY ZenonT(60) DEF PumpNext, PumpAck, PumpWindow, PumpStopped, PumpError,
     PumpTorn, PumpGarbage, PumpEof, TypeOK
  <2> QED BY <1>1, <2>1, <2>2, PumpStreamed, PumpQueued DEF TypeOK
<1>3. PumpsOver' /\ ShutdownLast'
  BY <1>1, PumpQueued, PumpFrame DEF PumpsOver, ShutdownLast
<1>4. ASSUME NEW t \in Servers PROVE Streamed(t)' /\ StopLast(t)' /\ PumpEnd(t)'
  <2>1. CASE t # s
    BY <1>1, <2>1 DEF Streamed, StopLast, PumpEnd
  <2>2. CASE t = s
    <3>1. Streamed(s)'
      <4> DEFINE a == printed'[s] + Count(s2c'[s], "window")
                 b == printed[s] + Count(s2c[s], "window")
      <4>1. a <= b /\ (~garbled'[s] => ~garbled[s] /\ a = b)
        BY PumpStreamed
      <4>2. b <= emitted[s] /\ (srv[s] # "dead" /\ ~garbled[s] => b = emitted[s])
        BY DEF Streamed
      <4>3. a \in Int /\ b \in Int /\ emitted[s] \in Int
        <5>1. printed[s] \in Int /\ emitted[s] \in Int /\ Count(s2c[s], "window") \in Int
          BY CountsNat, SMTT(60) DEF TypeOK
        <5>2. printed'[s] \in Int /\ Count(s2c'[s], "window") \in Int
          <6>1. printed'[s] \in Int
            BY PumpStreamed
          <6>2. s2c'[s] \in Seq({"ack", "error", "window", "stopped", "torn"})
            BY PumpStreamed
          <6>3. Count(s2c'[s], "window") \in Nat
            BY <6>2, CountNat, Zenon
          <6> QED BY <6>1, <6>3
        <5> QED BY <5>1, <5>2
      <4>4. a <= emitted[s] /\ (srv[s] # "dead" /\ ~garbled'[s] => a = emitted[s])
        <5> HIDE DEF a, b
        <5> QED BY <4>1, <4>2, <4>3
      <4> QED BY <1>1, <4>4 DEF Streamed
    <3>2. StopLast(s)'
      BY <1>1, PumpStreamed DEF StopLast
    <3> QED BY <2>2, <3>1, <3>2, PumpEnds
  <2> QED BY <2>1, <2>2
<1> QED BY <1>2, <1>3, <1>4, PumpQueued
-----------------------------------------------------------------------------
(* The sqlite thread.                                                      *)

\* The thread takes the first event: a window leaves the queue for its table, and
\* behind the Shutdown event there is nothing.
LEMMA DbTakes ==
  ASSUME IInv, DbInsert \/ DbShutdown
  PROVE  /\ dbq' \in Seq(Servers \cup {Shutdown})
         /\ OnlyLast(dbq', Shutdown) /\ (Has(dbq', Shutdown) => Has(dbq, Shutdown))
         /\ DbShutdown => Has(dbq, Shutdown) /\ dbq' = <<>>
         /\ stored' \in [Servers -> 0 .. MaxWin]
         /\ \A s \in Servers : Queued(s)'
<1> USE DEF IInv
<1> DEFINE Events == Servers \cup {Shutdown}
<1>1. /\ dbq \in Seq(Events) /\ dbq # <<>> /\ dbq' = Tail(dbq) /\ OnlyLast(dbq, Shutdown)
      /\ db = "recv" /\ db' # "failed" /\ printed' = printed
  BY DEF DbInsert, DbShutdown, TypeOK, ShutdownLast, pumpVars
<1>2. /\ Tail(dbq) \in Seq(Events)
      /\ Has(Tail(dbq), Shutdown) => Has(dbq, Shutdown)
      /\ Head(dbq) = Shutdown => Has(dbq, Shutdown)
      /\ OnlyLast(Tail(dbq), Shutdown)
      /\ Head(dbq) = Shutdown => Tail(dbq) = <<>>
  <2> HIDE DEF Events
  <2> QED BY <1>1, TailLast, Zenon
<1>3. Head(dbq) \in Events
  <2> HIDE DEF Events
  <2> QED BY <1>1, CountTail, Zenon
<1>4. \A s \in Servers : /\ Head(dbq) = s => Count(dbq, s) = Count(Tail(dbq), s) + 1
                         /\ Head(dbq) # s => Count(dbq, s) = Count(Tail(dbq), s)
                         /\ Count(Tail(dbq), s) \in Nat
  <2> SUFFICES ASSUME NEW s \in Servers
               PROVE  /\ Head(dbq) = s => Count(dbq, s) = Count(Tail(dbq), s) + 1
                      /\ Head(dbq) # s => Count(dbq, s) = Count(Tail(dbq), s)
                      /\ Count(Tail(dbq), s) \in Nat
    OBVIOUS
  <2> HIDE DEF Events
  <2>1. /\ Head(dbq) = s => Count(dbq, s) = Count(Tail(dbq), s) + 1
        /\ Head(dbq) # s => Count(dbq, s) = Count(Tail(dbq), s)
    BY <1>1, CountTail, Zenon
  <2>2. Count(Tail(dbq), s) \in Nat
    BY <1>2, CountNat, Zenon
  <2> QED BY <2>1, <2>2
<1>5. \A s \in Servers : /\ stored[s] + Count(dbq, s) = printed[s]
                         /\ stored[s] \in Nat /\ printed[s] \in 0 .. MaxWin
  BY <1>1 DEF Queued, TypeOK
<1>6. CASE DbShutdown
  <2>1. Head(dbq) = Shutdown /\ stored' = stored
    BY <1>6 DEF DbShutdown
  <2>2. ASSUME NEW s \in Servers PROVE Queued(s)'
    <3>1. Head(dbq) # s
      BY <2>1 DEF Servers, Shutdown
    <3>2. stored'[s] + Count(dbq', s) = printed'[s]
      BY <1>1, <1>4, <1>5, <2>1, <3>1
    <3> QED BY <1>1, <1>5, <3>2 DEF Queued
  <2>3. stored' \in [Servers -> 0 .. MaxWin]
    BY <2>1 DEF TypeOK
  <2> QED BY <1>1, <1>2, <2>1, <2>2, <2>3
<1>7. CASE DbInsert
  <2>1. PICK h \in Servers : h = Head(dbq) /\ stored' = [stored EXCEPT ![h] = @ + 1]
    BY <1>3, <1>7 DEF DbInsert
  <2>2. ~DbShutdown
    BY <1>7 DEF DbInsert, DbShutdown
  <2>3. stored[h] + 1 \in 0 .. MaxWin
    <3>1. Count(dbq, h) = Count(Tail(dbq), h) + 1 /\ Count(Tail(dbq), h) \in Nat
      BY <1>4, <2>1
    <3>2. stored[h] + (Count(Tail(dbq), h) + 1) = printed[h]
      BY <1>5, <3>1
    <3>3. \A a, b \in Nat : \A c \in 0 .. MaxWin : a + (b + 1) = c => a + 1 \in 0 .. MaxWin
      BY RunAssumption
    <3> QED BY <1>5, <3>1, <3>2, <3>3
  <2>4. stored' \in [Servers -> 0 .. MaxWin]
    BY <2>1, <2>3 DEF TypeOK
  <2>5. ASSUME NEW s \in Servers PROVE Queued(s)'
    <3>1. stored'[s] + Count(Tail(dbq), s) = stored[s] + Count(dbq, s)
      <4>1. CASE s = h
        <5>1. \A a, b \in Nat : (a + 1) + b = a + (b + 1)
          OBVIOUS
        <5>2. stored'[s] = stored[s] + 1
          BY <2>1, <4>1 DEF TypeOK
        <5>3. Count(dbq, s) = Count(Tail(dbq), s) + 1 /\ Count(Tail(dbq), s) \in Nat
          BY <1>4, <2>1, <4>1
        <5> QED BY <1>5, <5>1, <5>2, <5>3, Zenon
      <4>2. CASE s # h
        BY <1>4, <2>1, <4>2 DEF TypeOK
      <4> QED BY <4>1, <4>2
    <3>2. stored'[s] + Count(dbq', s) = printed'[s]
      BY <1>1, <1>5, <3>1
    <3> QED BY <1>1, <1>5, <3>2 DEF Queued
  <2> QED BY <1>1, <1>2, <2>2, <2>4, <2>5
<1> QED BY <1>6, <1>7

\* The steps of the sqlite thread.
LEMMA DbStep ==
  ASSUME IInv, DbNext
  PROVE  IInv'
<1> USE DEF IInv
<1>1. UNCHANGED <<phase, next_srv, starts, sigint, rc, timedout, conn, c2s, s2c, pump, got_start,
                  bailed, garbled, printed, srv, emitted>>
  BY DEF DbNext, DbReady, DbInsert, DbShutdown, DbFails, mainVars, pumpVars, srvVars
<1>2. db \in {"open", "recv"} /\ rc # "ok"
  BY DEF DbNext, DbReady, DbInsert, DbShutdown, DbFails, PumpsOver
<1>3. /\ dbq' \in Seq(Servers \cup {Shutdown}) /\ stored' \in [Servers -> 0 .. MaxWin]
      /\ db' \in {"open", "recv", "ok", "failed", "killed"}
      /\ ShutdownLast'
      /\ \A s \in Servers : Queued(s)'
  <2>1. CASE DbReady
    BY <1>1, <2>1 DEF DbReady, ShutdownLast, Queued, TypeOK
  <2>2. CASE DbInsert
    <3>1. db' = "recv"
      BY <2>2 DEF DbInsert
    <3> QED BY <1>1, <2>2, <3>1, DbTakes DEF ShutdownLast
  <2>3. CASE DbShutdown
    <3>1. db' = "ok"
      BY <2>3 DEF DbShutdown
    <3> QED BY <1>1, <2>3, <3>1, DbTakes DEF ShutdownLast
  <2>4. CASE DbFails
    <3>1. db' = "failed" /\ dbq' = <<>> /\ stored' = stored
      BY <2>4 DEF DbFails
    <3>2. dbq' \in Seq(Servers \cup {Shutdown}) /\ stored' \in [Servers -> 0 .. MaxWin]
      BY <3>1, EmptySeq DEF TypeOK
    <3>3. ShutdownLast'
      BY <3>1, EmptyLast DEF ShutdownLast
    <3>4. ASSUME NEW s \in Servers PROVE Queued(s)'
      <4>1. Count(dbq', s) = 0
        BY <3>1, <3>2, CountNat, Zenon
      <4>2. /\ stored[s] + Count(dbq, s) <= printed[s] /\ Count(dbq, s) \in Nat
            /\ stored[s] \in Nat /\ printed[s] \in Nat
        BY CountsNat, SMTT(60) DEF Queued, TypeOK
      <4>3. stored[s] + 0 <= printed[s]
        BY <4>2
      <4> QED BY <1>1, <3>1, <4>1, <4>3 DEF Queued
    <3> QED BY <3>1, <3>2, <3>3, <3>4
  <2> QED BY <2>1, <2>2, <2>3, <2>4 DEF DbNext
<1>4. TypeOK'
  BY <1>1, <1>3 DEF TypeOK
<1>5. PumpsOver'
  BY <1>1, <1>2 DEF PumpsOver
<1>6. ASSUME NEW s \in Servers PROVE Streamed(s)' /\ StopLast(s)' /\ PumpEnd(s)'
  BY <1>1 DEF Streamed, StopLast, PumpEnd, Silent, StopSent
<1> QED BY <1>3, <1>4, <1>5, <1>6
-----------------------------------------------------------------------------
(* The servers.                                                            *)

\* A server takes the first request; when it is the Stop, nothing is behind it.
LEMMA RequestTaken ==
  ASSUME TypeOK, NEW s \in Servers, NEW r \in {"start", "stop"}, Request(s, r)
  PROVE  /\ c2s' \in [Servers -> Seq({"start", "stop"})]
         /\ \A t \in Servers : Len(c2s'[t]) <= Cap
         /\ \A t \in Servers \ {s} : c2s'[t] = c2s[t]
         /\ Has(c2s'[s], "stop") => Has(c2s[s], "stop")
         /\ r = "stop" => Has(c2s[s], "stop")
         /\ OnlyLast(c2s[s], "stop") => OnlyLast(c2s'[s], "stop")
         /\ OnlyLast(c2s[s], "stop") /\ r = "stop" => c2s'[s] = <<>>
<1> DEFINE q == c2s[s]
<1>1. q \in Seq({"start", "stop"}) /\ q # <<>> /\ Head(q) = r
  BY DEF TypeOK, Request
<1>2. c2s' = [c2s EXCEPT ![s] = Tail(q)] /\ c2s'[s] = Tail(q)
  BY DEF TypeOK, Request
<1>3. /\ Tail(q) \in Seq({"start", "stop"})
      /\ Len(Tail(q)) = Len(q) - 1 /\ Len(q) \in Nat
      /\ Has(Tail(q), "stop") => Has(q, "stop")
      /\ Head(q) = "stop" => Has(q, "stop")
      /\ OnlyLast(q, "stop") => OnlyLast(Tail(q), "stop")
      /\ OnlyLast(q, "stop") /\ Head(q) = "stop" => Tail(q) = <<>>
  <2> HIDE DEF q
  <2> QED BY <1>1, TailLast, Zenon
<1>4. Len(Tail(q)) <= Cap
  <2>1. Len(q) <= Cap
    BY DEF TypeOK
  <2> HIDE DEF q
  <2>2. \A n \in Nat : \A m : m = n - 1 /\ n <= Cap => m <= Cap
    BY RunAssumption
  <2> QED BY <1>3, <2>1, <2>2, Zenon
<1>5. /\ c2s' \in [Servers -> Seq({"start", "stop"})]
      /\ \A t \in Servers : Len(c2s'[t]) <= Cap
      /\ \A t \in Servers \ {s} : c2s'[t] = c2s[t]
  <2>1. c2s' \in [Servers -> Seq({"start", "stop"})]
    BY <1>2, <1>3 DEF TypeOK
  <2>2. \A t \in Servers \ {s} : c2s'[t] = c2s[t]
    BY <1>2 DEF TypeOK
  <2> QED BY <1>2, <1>4, <2>1, <2>2 DEF TypeOK
<1> HIDE DEF q
<1>6. r = Head(q) /\ c2s[s] = q
  BY <1>1 DEF q
<1> QED BY <1>2, <1>3, <1>5, <1>6, Zenon

\* A frame is written behind what is on the stream, the last one maybe in part.
Written(s, kind) ==
  /\ Len(s2c[s]) <= Cap
  /\ s2c' = [s2c EXCEPT ![s] = Append(@, kind)]

\* It goes behind everything on the stream.
LEMMA ReplySent ==
  ASSUME TypeOK, NEW s \in Servers, NEW kind \in {"ack", "error", "window", "stopped", "torn"},
         Reply(s, kind) \/ Written(s, kind)
  PROVE  /\ s2c' \in [Servers -> Seq({"ack", "error", "window", "stopped", "torn"})]
         /\ \A t \in Servers : Len(s2c'[t]) <= Cap + 1
         /\ \A t \in Servers \ {s} : s2c'[t] = s2c[t]
         /\ kind = "window" => Count(s2c'[s], "window") = Count(s2c[s], "window") + 1
         /\ kind # "window" => Count(s2c'[s], "window") = Count(s2c[s], "window")
         /\ Has(s2c'[s], "stopped") <=> Has(s2c[s], "stopped") \/ kind = "stopped"
         /\ ~Has(s2c[s], "stopped") => OnlyLast(s2c'[s], "stopped")
<1> DEFINE q == s2c[s]
<1>1. q \in Seq({"ack", "error", "window", "stopped", "torn"}) /\ Len(q) <= Cap
  BY SMTT(60), RunAssumption, LenProperties DEF TypeOK, Reply, Written
<1>2. s2c' = [s2c EXCEPT ![s] = Append(q, kind)] /\ s2c'[s] = Append(q, kind)
  BY DEF TypeOK, Reply, Written
<1>3. /\ Append(q, kind) \in Seq({"ack", "error", "window", "stopped", "torn"})
      /\ Len(Append(q, kind)) = Len(q) + 1 /\ Len(q) \in Nat
      /\ Has(Append(q, kind), "stopped") <=> Has(q, "stopped") \/ kind = "stopped"
      /\ ~Has(q, "stopped") => OnlyLast(Append(q, kind), "stopped")
  <2> HIDE DEF q
  <2>1. /\ Append(q, kind) \in Seq({"ack", "error", "window", "stopped", "torn"})
        /\ Len(Append(q, kind)) = Len(q) + 1 /\ Len(q) \in Nat
    BY <1>1, AppendLast
  <2>2. Has(Append(q, kind), "stopped") <=> Has(q, "stopped") \/ kind = "stopped"
    BY <1>1, AppendLast
  <2>3. ~Has(q, "stopped") => OnlyLast(Append(q, kind), "stopped")
    BY <1>1, AppendLast
  <2> QED BY <2>1, <2>2, <2>3
<1>4. /\ kind = "window" => Count(Append(q, kind), "window") = Count(q, "window") + 1
      /\ kind # "window" => Count(Append(q, kind), "window") = Count(q, "window")
  <2> HIDE DEF q
  <2> QED BY <1>1, CountAppend, Zenon
<1>5. Len(Append(q, kind)) <= Cap + 1
  <2> HIDE DEF q
  <2>1. \A n \in Nat : n <= Cap => n + 1 <= Cap + 1
    BY RunAssumption
  <2> QED BY <1>1, <1>3, <2>1, Zenon
<1>6. /\ s2c' \in [Servers -> Seq({"ack", "error", "window", "stopped", "torn"})]
      /\ \A t \in Servers : Len(s2c'[t]) <= Cap + 1
      /\ \A t \in Servers \ {s} : s2c'[t] = s2c[t]
  <2>1. s2c' \in [Servers -> Seq({"ack", "error", "window", "stopped", "torn"})]
    BY <1>2, <1>3 DEF TypeOK
  <2>2. \A t \in Servers \ {s} : s2c'[t] = s2c[t]
    BY <1>2 DEF TypeOK
  <2> QED BY <1>2, <1>5, <2>1, <2>2 DEF TypeOK
<1> HIDE DEF q
<1>7. s2c[s] = q
  BY DEF q
<1> QED BY <1>2, <1>3, <1>4, <1>6, <1>7, Zenon

\* A server touches its own state and its own two streams.
LEMMA SrvFrame ==
  ASSUME TypeOK, NEW s \in Servers, SrvNext(s)
  PROVE  /\ UNCHANGED <<phase, next_srv, starts, sigint, rc, timedout, conn, pump, got_start, bailed, garbled,
                        printed, dbq, db, stored>>
         /\ \A t \in Servers : StopSent(t)' <=> StopSent(t)
         /\ c2s' \in [Servers -> Seq({"start", "stop"})]
         /\ s2c' \in [Servers -> Seq({"ack", "error", "window", "stopped", "torn"})]
         /\ \A t \in Servers : Len(c2s'[t]) <= Cap /\ Len(s2c'[t]) <= Cap + 1
         /\ srv' \in [Servers -> {"idle", "test", "ended", "dead"}]
         /\ emitted' \in [Servers -> 0 .. MaxWin]
         /\ \A t \in Servers \ {s} : /\ c2s'[t] = c2s[t] /\ s2c'[t] = s2c[t]
                                     /\ srv'[t] = srv[t] /\ emitted'[t] = emitted[t]
         /\ srv[s] \in {"idle", "test"}
<1> DEFINE C(q) == /\ q \in [Servers -> Seq({"start", "stop"})]
                   /\ \A t \in Servers : Len(q[t]) <= Cap
                   /\ \A t \in Servers \ {s} : q[t] = c2s[t]
           R(q) == /\ q \in [Servers -> Seq({"ack", "error", "window", "stopped", "torn"})]
                   /\ \A t \in Servers : Len(q[t]) <= Cap + 1
                   /\ \A t \in Servers \ {s} : q[t] = s2c[t]
<1>1. UNCHANGED <<phase, next_srv, starts, sigint, rc, timedout, conn, pump, got_start, bailed, garbled,
                  printed, dbq, db, stored>>
  BY DEF SrvNext, SrvStart, SrvStop, SrvWindow, SrvTears, SrvEof, SrvDies, mainVars, pumpVars, dbVars
<1>2. \A t \in Servers : StopSent(t)' <=> StopSent(t)
  BY <1>1 DEF StopSent
<1>3. C(c2s')
  <2>1. C(c2s)
    BY DEF TypeOK
  <2>2. ASSUME NEW r \in {"start", "stop"}, Request(s, r) PROVE C(c2s')
    BY <2>2, RequestTaken
  <2> QED BY <2>1, <2>2 DEF SrvNext, SrvStart, SrvStop, SrvWindow, SrvTears, SrvEof, SrvDies
<1>4. R(s2c')
  <2>1. R(s2c)
    BY DEF TypeOK
  <2>2. ASSUME NEW kind \in {"ack", "error", "window", "stopped", "torn"},
               Reply(s, kind) \/ Written(s, kind)
        PROVE  R(s2c')
    BY <2>2, ReplySent
  <2>4. ASSUME SrvTears(s) PROVE R(s2c')
    BY <2>2, <2>4, RunAssumption DEF SrvTears, Written
  <2>3. ASSUME s2c' = [s2c EXCEPT ![s] = <<>>] PROVE R(s2c')
    <3>1. <<>> \in Seq({"ack", "error", "window", "stopped", "torn"}) /\ Len(<<>>) <= Cap + 1
      BY EmptySeq, RunAssumption
    <3> QED BY <2>3, <3>1 DEF TypeOK
  <2> HIDE DEF R
  <2> QED BY <2>1, <2>2, <2>3, <2>4 DEF SrvNext, SrvStart, SrvStop, SrvWindow, SrvEof, SrvDies
<1>5. srv[s] \in {"idle", "test"}
  BY DEF SrvNext, SrvStart, SrvStop, SrvWindow, SrvTears, SrvEof, SrvDies, Request
<1>6. /\ srv' \in [Servers -> {"idle", "test", "ended", "dead"}]
      /\ \A t \in Servers \ {s} : srv'[t] = srv[t]
  BY ZenonT(60) DEF SrvNext, SrvStart, SrvStop, SrvWindow, SrvTears, SrvEof, SrvDies, TypeOK
<1>7. /\ emitted' \in [Servers -> 0 .. MaxWin]
      /\ \A t \in Servers \ {s} : emitted'[t] = emitted[t]
  <2>1. CASE emitted' = emitted
    BY <2>1 DEF TypeOK
  <2>2. CASE SrvWindow(s)
    <3>1. emitted' = [emitted EXCEPT ![s] = @ + 1] /\ emitted[s] < MaxWin
      BY <2>2 DEF SrvWindow
    <3>2. emitted[s] + 1 \in 0 .. MaxWin
      BY <3>1, RunAssumption DEF TypeOK
    <3> QED BY <3>1, <3>2 DEF TypeOK
  <2> QED BY <2>1, <2>2 DEF SrvNext, SrvStart, SrvStop, SrvTears, SrvEof, SrvDies
<1> QED BY <1>1, <1>2, <1>3, <1>4, <1>5, <1>6, <1>7
\* The three parts of the invariant about a server keep when it answers a request,
\* writes a window or tears one: it was not silent before, so no Ack of a Stop is on its
\* stream and no pump has read everything.
LEMMA SrvAnswers ==
  ASSUME IInv, NEW s \in Servers, SrvStart(s) \/ SrvStop(s) \/ SrvWindow(s) \/ SrvTears(s)
  PROVE  Streamed(s)' /\ StopLast(s)' /\ PumpEnd(s)'
<1> USE DEF IInv
<1>1. SrvNext(s)
  BY DEF SrvNext
<1>2. /\ UNCHANGED <<rc, timedout, pump, bailed, garbled, printed>>
      /\ (StopSent(s)' <=> StopSent(s)) /\ srv[s] \in {"idle", "test"}
  BY <1>1, SrvFrame
<1>3. ~Silent(s)
  BY <1>2 DEF SrvStart, SrvStop, SrvWindow, SrvTears, Request, Silent
<1>4. ~Has(s2c[s], "stopped") /\ OnlyLast(c2s[s], "stop")
  BY <1>3 DEF StopLast
<1>5. PumpEnd(s)'
  BY <1>2, <1>3 DEF PumpEnd
<1>6. srv'[s] \in {"idle", "test"}
  BY <1>2 DEF SrvStart, SrvStop, SrvWindow, SrvTears, TypeOK
<1>7. /\ printed[s] + Count(s2c[s], "window") <= emitted[s]
      /\ ~garbled[s] => printed[s] + Count(s2c[s], "window") = emitted[s]
  BY <1>2 DEF Streamed
<1>8. /\ Count(s2c[s], "window") \in Nat /\ printed[s] \in Nat /\ emitted[s] \in Nat
  BY CountsNat, SMTT(60) DEF TypeOK
<1>9. CASE SrvStart(s)
  <2>1. PICK kind \in {"ack", "error"} : Request(s, "start") /\ Reply(s, kind) /\ emitted' = emitted
    BY <1>9 DEF SrvStart
  <2>2. kind \in {"ack", "error", "window", "stopped", "torn"} /\ kind # "window" /\ kind # "stopped"
    BY <2>1
  <2>3. /\ Count(s2c'[s], "window") = Count(s2c[s], "window")
        /\ ~Has(s2c'[s], "stopped") /\ OnlyLast(s2c'[s], "stopped")
    BY <1>4, <2>1, <2>2, ReplySent
  <2>4. OnlyLast(c2s'[s], "stop") /\ (Has(c2s'[s], "stop") => Has(c2s[s], "stop"))
    BY <1>4, <2>1, RequestTaken
  <2>5. Streamed(s)'
    BY <1>2, <1>7, <1>8, <2>1, <2>3 DEF Streamed
  <2>6. StopLast(s)'
    BY <1>2, <2>3, <2>4 DEF StopLast
  <2> QED BY <1>5, <2>5, <2>6
<1>10. CASE SrvStop(s)
  <2>1. /\ Request(s, "stop") /\ Reply(s, "stopped") /\ emitted' = emitted
        /\ srv'[s] = "idle"
    BY <1>10 DEF SrvStop, TypeOK
  <2>2. Count(s2c'[s], "window") = Count(s2c[s], "window") /\ OnlyLast(s2c'[s], "stopped")
    BY <1>4, <2>1, ReplySent
  <2>3. c2s'[s] = <<>> /\ Has(c2s[s], "stop")
    BY <1>4, <2>1, RequestTaken
  <2>4. StopSent(s)'
    BY <1>2, <2>3 DEF StopLast
  <2>5. Silent(s)'
    BY <2>1, <2>3, <2>4 DEF Silent
  <2>6. ~Has(c2s'[s], "stop") /\ OnlyLast(c2s'[s], "stop")
    BY <2>3, EmptyLast
  <2>7. Streamed(s)'
    BY <1>2, <1>7, <1>8, <2>1, <2>2 DEF Streamed
  <2>8. StopLast(s)'
    BY <2>2, <2>5, <2>6 DEF StopLast
  <2> QED BY <1>5, <2>7, <2>8
<1>11. CASE SrvWindow(s)
  <2>1. Reply(s, "window") /\ emitted'[s] = emitted[s] + 1 /\ c2s' = c2s
    BY <1>11 DEF SrvWindow, TypeOK
  <2>2. /\ Count(s2c'[s], "window") = Count(s2c[s], "window") + 1
        /\ ~Has(s2c'[s], "stopped") /\ OnlyLast(s2c'[s], "stopped")
    BY <1>4, <2>1, ReplySent
  <2>3. /\ printed[s] + Count(s2c'[s], "window") <= emitted'[s]
        /\ ~garbled[s] => printed[s] + Count(s2c'[s], "window") = emitted'[s]
    <3> DEFINE a == printed[s]
               b == Count(s2c[s], "window")
               e == emitted[s]
    <3>1. a + b <= e /\ (~garbled[s] => a + b = e) /\ a \in Nat /\ b \in Nat /\ e \in Nat
      BY <1>7, <1>8
    <3>2. printed[s] + Count(s2c'[s], "window") = a + (b + 1) /\ emitted'[s] = e + 1
      BY <2>1, <2>2, Zenon
    <3> HIDE DEF a, b, e
    <3>3. a + (b + 1) <= e + 1 /\ (~garbled[s] => a + (b + 1) = e + 1)
      BY <3>1
    <3> QED BY <3>2, <3>3, Zenon
  <2>4. Streamed(s)'
    BY <1>2, <2>3 DEF Streamed
  <2>5. StopLast(s)'
    BY <1>2, <2>1, <2>2 DEF StopLast
  <2> QED BY <1>5, <2>4, <2>5
<1>12. CASE SrvTears(s)
  <2>1. /\ Written(s, "torn") /\ emitted' = emitted /\ c2s' = c2s
    BY <1>12, RunAssumption DEF SrvTears, Written
  <2>2. /\ Count(s2c'[s], "window") = Count(s2c[s], "window")
        /\ ~Has(s2c'[s], "stopped") /\ OnlyLast(s2c'[s], "stopped")
    BY <1>4, <2>1, ReplySent
  <2>3. Streamed(s)'
    BY <1>2, <1>7, <1>8, <2>1, <2>2 DEF Streamed
  <2>4. StopLast(s)'
    BY <1>2, <2>1, <2>2 DEF StopLast
  <2> QED BY <1>5, <2>3, <2>4
<1> QED BY <1>9, <1>10, <1>11, <1>12

\* The same when its session ends or its process dies: it sends nothing more.
LEMMA SrvGone ==
  ASSUME IInv, NEW s \in Servers, SrvEof(s) \/ SrvDies(s)
  PROVE  Streamed(s)' /\ StopLast(s)' /\ PumpEnd(s)'
<1> USE DEF IInv
<1>1. SrvNext(s)
  BY DEF SrvNext
<1>2. /\ UNCHANGED <<rc, timedout, pump, bailed, garbled, printed, c2s, emitted>>
      /\ (StopSent(s)' <=> StopSent(s)) /\ srv[s] \in {"idle", "test"}
  BY <1>1, SrvFrame DEF SrvEof, SrvDies
<1>3. srv'[s] \in {"ended", "dead"}
  BY DEF SrvEof, SrvDies, TypeOK
<1>4. Silent(s) => Silent(s)'
  BY <1>2, <1>3 DEF Silent
<1>5. CASE s2c'[s] = s2c[s]
  BY <1>2, <1>3, <1>4, <1>5 DEF Streamed, StopLast, PumpEnd
<1>6. CASE s2c'[s] # s2c[s]
  <2>1. s2c'[s] = <<>> /\ srv'[s] = "dead"
    BY <1>6 DEF SrvEof, SrvDies, TypeOK
  <2>2. Count(s2c'[s], "window") = 0
    <3>1. <<>> \in Seq({"ack", "error", "window", "stopped", "torn"})
      BY EmptySeq
    <3> QED BY <2>1, <3>1, CountNat, Zenon
  <2>3. /\ printed[s] + Count(s2c[s], "window") <= emitted[s] /\ Count(s2c[s], "window") \in Nat
        /\ printed[s] \in Nat /\ emitted[s] \in Nat
    BY CountsNat, SMTT(60) DEF Streamed, TypeOK
  <2>4. printed[s] + 0 <= emitted[s]
    BY <2>3
  <2>5. Streamed(s)'
    BY <1>2, <2>1, <2>2, <2>4 DEF Streamed
  <2>6. ~Has(s2c'[s], "stopped") /\ OnlyLast(s2c'[s], "stopped")
    BY <2>1, EmptyLast
  <2>7. StopLast(s)'
    BY <1>2, <2>6 DEF StopLast
  <2> QED BY <2>1, <2>5, <2>7 DEF PumpEnd
<1> QED BY <1>5, <1>6

\* The steps of a server.
LEMMA SrvStep ==
  ASSUME IInv, NEW s \in Servers, SrvNext(s)
  PROVE  IInv'
<1> USE DEF IInv
<1>1. /\ UNCHANGED <<phase, next_srv, starts, sigint, rc, timedout, conn, pump, got_start, bailed, garbled,
                     printed, dbq, db, stored>>
      /\ \A t \in Servers : StopSent(t)' <=> StopSent(t)
      /\ \A t \in Servers \ {s} : /\ c2s'[t] = c2s[t] /\ s2c'[t] = s2c[t]
                                  /\ srv'[t] = srv[t] /\ emitted'[t] = emitted[t]
  BY SrvFrame
<1>2. TypeOK'
  BY <1>1, SrvFrame DEF TypeOK
<1>3. PumpsOver' /\ ShutdownLast'
  BY <1>1 DEF PumpsOver, ShutdownLast
<1>4. ASSUME NEW t \in Servers PROVE Queued(t)' /\ Streamed(t)' /\ StopLast(t)' /\ PumpEnd(t)'
  <2>1. Queued(t)'
    BY <1>1 DEF Queued
  <2>2. CASE t # s
    <3>1. Silent(t)' <=> Silent(t)
      BY <1>1, <2>2 DEF Silent
    <3> QED BY <1>1, <2>1, <2>2, <3>1 DEF Streamed, StopLast, PumpEnd
  <2>3. CASE t = s
    BY <2>1, <2>3, SrvAnswers, SrvGone DEF SrvNext
  <2> QED BY <2>2, <2>3
<1> QED BY <1>2, <1>3, <1>4

-----------------------------------------------------------------------------
(* The theorems.                                                           *)

\* Every step keeps the invariant.
LEMMA NextIInv == IInv /\ [Next]_vars => IInv'
<1> SUFFICES ASSUME IInv, [Next]_vars PROVE IInv'
  OBVIOUS
<1>1. CASE Signal \/ MainNext
  <2>1. Forward \/ SetupFails \/ SendStartFails \/ DbJoined \/ CloseAll
    BY <1>1 DEF MainNext, Forward
  <2> QED BY <2>1, ForwardStep, ExitStep, CloseAllStep
<1>2. CASE DbNext
  BY <1>2, DbStep
<1>3. ASSUME NEW s \in Servers, PumpNext(s) \/ SrvNext(s) PROVE IInv'
  BY <1>3, PumpStep, SrvStep
<1>4. CASE UNCHANGED vars
  <2>1. UNCHANGED <<phase, next_srv, starts, sigint, rc, timedout, conn, c2s, s2c, pump, got_start,
                    bailed, garbled, printed, dbq, db, stored, srv, emitted>>
    BY <1>4 DEF vars, mainVars, pumpVars, dbVars, srvVars
  <2>2. TypeOK' /\ PumpsOver' /\ ShutdownLast'
    BY <2>1 DEF IInv, TypeOK, PumpsOver, ShutdownLast
  <2>3. \A s \in Servers : Queued(s)' /\ Streamed(s)' /\ StopLast(s)' /\ PumpEnd(s)'
    BY <2>1 DEF IInv, Queued, Streamed, StopLast, PumpEnd, Silent, StopSent
  <2> QED BY <2>2, <2>3 DEF IInv
<1> QED BY <1>1, <1>2, <1>3, <1>4 DEF Next

\* Success means that the sqlite thread ended on the Shutdown event, with nothing
\* left in its queue: what was printed is stored.
LEMMA AllStored ==
  ASSUME IInv, rc = "ok"
  PROVE  stored = printed
<1>1. db = "ok" /\ dbq = <<>>
  BY DEF IInv, PumpsOver, ShutdownLast
<1>2. ASSUME NEW s \in Servers PROVE stored[s] = printed[s]
  <2>1. dbq \in Seq(Servers \cup {Shutdown})
    BY DEF IInv, TypeOK
  <2>2. Count(dbq, s) = 0
    BY <1>1, <2>1, CountNat, Zenon
  <2>3. stored[s] + 0 = printed[s] /\ stored[s] \in Nat
    BY <1>1, <2>2 DEF IInv, Queued, TypeOK
  <2> QED BY <2>3
<1>3. stored \in [Servers -> 0 .. MaxWin] /\ printed \in [Servers -> 0 .. MaxWin]
  BY DEF IInv, TypeOK
<1> QED BY <1>2, <1>3

\* The invariant holds throughout the run of the client (client.rs, db.rs).
THEOREM Invariance == Spec => []IInv
BY InitIInv, NextIInv, PTL DEF Spec

\* Every variable keeps its type: no control socket holds more than it has room
\* for, and what is printed and stored stays within what a server may emit
\* (client.rs 92-115, 215-253).
THEOREM TypeCorrect == Spec => []TypeOK
<1>1. IInv => TypeOK
  BY DEF IInv
<1> QED BY <1>1, Invariance, PTL

\* A run that reports success has stored every window it printed, for any number
\* of servers and windows: the Shutdown event is behind every window, and an error
\* of the sqlite thread is the run's (client.rs 100-115, db.rs 113-118, 131-147).
THEOREM PrintedIsStoredCorrect == Spec => []PrintedIsStored
<1>1. IInv => PrintedIsStored
  BY AllStored DEF PrintedIsStored
<1> QED BY <1>1, Invariance, PTL

\* A run that reports success and whose drain was not cut short has stored every
\* window its servers streamed whole, but for servers that died, pumps that ended on
\* an Error and pumps that met a torn frame: any other pump ends behind the Ack of
\* the Stop, and that Ack is behind every window (client.rs 92-115, 215-253;
\* server.rs 53-57).
THEOREM StreamedIsStoredCorrect == Spec => []StreamedIsStored
<1>1. IInv => StreamedIsStored
  <2> SUFFICES ASSUME IInv, rc = "ok", ~timedout, NEW s \in Servers,
                      srv[s] # "dead", ~bailed[s], ~garbled[s]
               PROVE  stored[s] = emitted[s]
    BY DEF StreamedIsStored
  <2>1. pump[s] = "done"
    BY DEF IInv, PumpsOver
  <2>2. Count(s2c[s], "window") = 0
    BY <2>1 DEF IInv, PumpEnd
  <2>3. printed[s] + 0 = emitted[s] /\ printed[s] \in Nat
    BY <2>2 DEF IInv, Streamed, TypeOK
  <2> QED BY <2>3, AllStored
<1> QED BY <1>1, Invariance, PTL
=============================================================================
