---------------------------- MODULE RoundDriver ----------------------------
(***************************************************************************)
(* The pairs driver of the client (client.rs: run_pair_rounds, send_starts,*)
(* wait_round and the Ack counting of pump_server) and the servers it      *)
(* drives, against a clock.                                                *)
(*                                                                         *)
(* A round is one broadcast of Start, a wait until `need' start Acks have  *)
(* been counted or the deadline has passed, and a stretch of traffic.  The *)
(* Acks carry no round number: pump_server adds one to a shared counter    *)
(* that send_starts resets to zero.                                        *)
(*                                                                         *)
(* A server here is what ServerSession promises (requests in order, one    *)
(* test at a time, no window of a test after the reply that replaced it)   *)
(* plus time: how long a Start takes is unbounded, and the first window of *)
(* a test comes up to Lateness after its place, because the metrics loop   *)
(* is first polled, which sets its origin, some time after start_test has  *)
(* spawned it, and woken some time after the mark.                         *)
(*                                                                         *)
(* Time is kept as remaining ticks, so that the model has no clock to      *)
(* bound.  Messages may take any time.                                     *)
(***************************************************************************)
EXTENDS Integers, Sequences, FiniteSets

CONSTANTS N,            \* servers in the hostlist
          Window,       \* WINDOW_NS in ticks
          Lateness,     \* bound: how late a metrics loop is polled and woken, in ticks
          Traffic,      \* PAIR_ROUND_SECS plus the slack of wait_round
          AckDeadline,  \* the 15 s deadline of wait_round
          MaxRounds     \* bound: rounds driven

ASSUME DriverAssumption == /\ N \in Nat \ {0}
                           /\ Window \in Nat \ {0}
                           /\ Lateness \in Nat
                           /\ Traffic \in Nat /\ Traffic > Window + Lateness
                           /\ AckDeadline \in Nat
                           /\ MaxRounds \in Nat

Servers == 1 .. N
Rounds  == 1 .. MaxRounds

VARIABLES
  cpc,        \* where run_pair_rounds, send_starts or wait_round is
  round,      \* rounds begun
  next_srv,   \* next server to be sent a Start or a Stop
  start_acks, \* the shared counter
  timer,      \* ticks left of the client's current sleep or deadline
  sigint,     \* the CancellationToken the signal task cancels
  short,      \* rounds whose wait gave up before `need' Acks
  full,       \* rounds whose wait saw `need' Acks and whose traffic ran out
  c2s, s2c,   \* control connections, per server
  got_start,  \* pump_server's got_start
  pump,       \* pump_server is still reading
  spc,        \* server: "idle" in read_frame, "starting" in start_test
  cur,        \* server: round of the Start it handled last
  running,    \* server: round whose test runs, 0 if none
  mark,       \* server: ticks until its test's first window is taken
  emitted     \* <<server, round>> whose first full window was emitted

clientVars == <<cpc, round, next_srv, timer, sigint, short, full>>
pumpVars   == <<got_start, pump>>
serverVars == <<spc, cur, running, mark, emitted>>
vars == <<clientVars, start_acks, c2s, s2c, pumpVars, serverVars>>

Up   == [kind : {"start"}, round : Rounds] \cup {[kind |-> "stop", round |-> 0]}
Down == [kind : {"ack", "error", "window"}, round : Rounds] \cup {[kind |-> "stopped", round |-> 0]}

TypeOK ==
  /\ cpc \in {"begin", "send", "acks", "traffic", "stop", "done"}
  /\ round \in 0 .. MaxRounds
  /\ next_srv \in 1 .. N + 1
  /\ start_acks \in Nat
  /\ timer \in 0 .. (Traffic + AckDeadline)
  /\ sigint \in BOOLEAN
  /\ short \subseteq Rounds
  /\ full \subseteq Rounds
  /\ c2s \in [Servers -> Seq(Up)]
  /\ s2c \in [Servers -> Seq(Down)]
  /\ got_start \in [Servers -> BOOLEAN]
  /\ pump \in [Servers -> BOOLEAN]
  /\ spc \in [Servers -> {"idle", "starting"}]
  /\ cur \in [Servers -> 0 .. MaxRounds]
  /\ running \in [Servers -> 0 .. MaxRounds]
  /\ mark \in [Servers -> 0 .. (Window + Lateness)]
  /\ emitted \subseteq Servers \X Rounds

Init ==
  /\ cpc = "begin" /\ round = 0 /\ next_srv = 1 /\ start_acks = 0 /\ timer = 0
  /\ sigint = FALSE /\ short = {} /\ full = {}
  /\ c2s = [s \in Servers |-> <<>>] /\ s2c = [s \in Servers |-> <<>>]
  /\ got_start = [s \in Servers |-> FALSE] /\ pump = [s \in Servers |-> TRUE]
  /\ spc = [s \in Servers |-> "idle"] /\ cur = [s \in Servers |-> 0]
  /\ running = [s \in Servers |-> 0] /\ mark = [s \in Servers |-> 0]
  /\ emitted = {}

To(s, m)   == c2s' = [c2s EXCEPT ![s] = Append(@, m)]
From(s, m) == s2c' = [s2c EXCEPT ![s] = Append(@, m)]

-----------------------------------------------------------------------------
(* Time.                                                                   *)

\* The loop of the running test has come to its first window.  Later windows of a
\* test add nothing to the properties and are left out.
WindowDue(s) == running[s] # 0 /\ mark[s] = 0 /\ <<s, running[s]>> \notin emitted

\* Time passes when no window is due: no loop is later than Lateness.
Tick ==
  /\ \A s \in Servers : ~WindowDue(s)
  /\ timer > 0 \/ \E s \in Servers : mark[s] > 0
  /\ timer' = (IF timer > 0 THEN timer - 1 ELSE 0)
  /\ mark' = [s \in Servers |-> IF mark[s] > 0 THEN mark[s] - 1 ELSE 0]
  /\ UNCHANGED <<cpc, round, next_srv, sigint, short, full, start_acks, c2s, s2c, pumpVars,
                 spc, cur, running, emitted>>

-----------------------------------------------------------------------------
(* The client's main task.                                                 *)

\* SIGINT or SIGTERM.
Signal ==
  /\ ~sigint /\ cpc # "done"
  /\ sigint' = TRUE
  /\ UNCHANGED <<cpc, round, next_srv, timer, short, full, start_acks, c2s, s2c, pumpVars,
                 serverVars>>

\* The bug: the counter is not reset between rounds.
BeginRoundKeepsAcks ==
  /\ cpc = "begin" /\ ~sigint /\ round < MaxRounds
  /\ round' = round + 1
  /\ cpc' = "send" /\ next_srv' = 1
  /\ UNCHANGED <<timer, sigint, short, full, start_acks, c2s, s2c, pumpVars, serverVars>>

\* Top of the round loop, not cancelled; send_starts resets the counter.
BeginRound ==
  /\ cpc = "begin" /\ ~sigint /\ round < MaxRounds
  /\ round' = round + 1
  /\ cpc' = "send" /\ next_srv' = 1
  /\ start_acks' = 0
  /\ UNCHANGED <<timer, sigint, short, full, c2s, s2c, pumpVars, serverVars>>

\* The bug: the broadcast runs one past the last writer.
SendStartPastEnd ==
  /\ cpc = "send" /\ next_srv <= N + 1
  /\ IF next_srv <= N THEN To(next_srv, [kind |-> "start", round |-> round]) ELSE UNCHANGED c2s
  /\ next_srv' = next_srv + 1
  /\ UNCHANGED <<cpc, round, timer, sigint, short, full, start_acks, s2c, pumpVars, serverVars>>

\* send_starts writes the Start of one server.
SendStart ==
  /\ cpc = "send" /\ next_srv <= N
  /\ To(next_srv, [kind |-> "start", round |-> round])
  /\ next_srv' = next_srv + 1
  /\ UNCHANGED <<cpc, round, timer, sigint, short, full, start_acks, s2c, pumpVars, serverVars>>

\* send_starts returns; wait_round sets its deadline.
AllSent ==
  /\ cpc = "send" /\ next_srv > N
  /\ cpc' = "acks" /\ timer' = AckDeadline
  /\ UNCHANGED <<round, next_srv, sigint, short, full, start_acks, c2s, s2c, pumpVars, serverVars>>

\* A poll of wait_round finds `need' Acks: on to the traffic sleep.
AcksComplete ==
  /\ cpc = "acks" /\ start_acks >= N
  /\ cpc' = "traffic" /\ timer' = Traffic
  /\ UNCHANGED <<round, next_srv, sigint, short, full, start_acks, c2s, s2c, pumpVars, serverVars>>

\* The bug: no deadline on the Acks.
AcksTimeoutNever == FALSE

\* A poll finds too few Acks and the deadline passed: "(continuing)".
AcksTimeout ==
  /\ cpc = "acks" /\ start_acks < N /\ ~sigint /\ timer = 0
  /\ cpc' = "traffic" /\ timer' = Traffic
  /\ short' = short \cup {round}
  /\ UNCHANGED <<round, next_srv, sigint, full, start_acks, c2s, s2c, pumpVars, serverVars>>

\* The bug: the token is not looked at while Acks are awaited.
AcksCancelledNever == FALSE

\* wait_round returns on the token while it waits for Acks.
AcksCancelled ==
  /\ cpc = "acks" /\ start_acks < N /\ sigint
  /\ cpc' = "begin"
  /\ UNCHANGED <<round, next_srv, timer, sigint, short, full, start_acks, c2s, s2c, pumpVars,
                 serverVars>>

\* The bug: the slack is missing and the sleep ends with the window.
TrafficOverEarly ==
  /\ cpc = "traffic" /\ (sigint \/ timer <= Traffic - Window)
  /\ cpc' = "begin"
  /\ full' = IF timer <= Traffic - Window /\ round \notin short THEN full \cup {round} ELSE full
  /\ UNCHANGED <<round, next_srv, timer, sigint, short, start_acks, c2s, s2c, pumpVars, serverVars>>

\* The traffic sleep runs out, or the token ends it.
TrafficOver ==
  /\ cpc = "traffic" /\ (sigint \/ timer = 0)
  /\ cpc' = "begin"
  /\ full' = IF timer = 0 /\ round \notin short THEN full \cup {round} ELSE full
  /\ UNCHANGED <<round, next_srv, timer, sigint, short, start_acks, c2s, s2c, pumpVars, serverVars>>

\* The round loops end on the token; run goes on to its Stop broadcast.
Leave ==
  /\ cpc = "begin" /\ sigint
  /\ cpc' = "stop" /\ next_srv' = 1
  /\ UNCHANGED <<round, timer, sigint, short, full, start_acks, c2s, s2c, pumpVars, serverVars>>

SendStop ==
  /\ cpc = "stop"
  /\ IF next_srv <= N
     THEN To(next_srv, [kind |-> "stop", round |-> 0]) /\ next_srv' = next_srv + 1 /\ cpc' = "stop"
     ELSE cpc' = "done" /\ UNCHANGED <<c2s, next_srv>>
  /\ UNCHANGED <<round, timer, sigint, short, full, start_acks, s2c, pumpVars, serverVars>>

-----------------------------------------------------------------------------
(* pump_server.                                                            *)

Popped(s) == s2c' = [s2c EXCEPT ![s] = Tail(@)]
FrameKind(s) == Head(s2c[s]).kind

PumpAck(s) ==
  /\ pump[s] /\ s2c[s] # <<>> /\ FrameKind(s) = "ack"
  /\ Popped(s)
  /\ got_start' = [got_start EXCEPT ![s] = TRUE]
  /\ start_acks' = start_acks + 1
  /\ UNCHANGED <<clientVars, c2s, pump, serverVars>>

\* The Ack of a Stop ends the pump; so does an Error before any Ack of a Start.
PumpEnds(s) ==
  /\ pump[s] /\ s2c[s] # <<>>
  /\ FrameKind(s) = "stopped" \/ (FrameKind(s) = "error" /\ ~got_start[s])
  /\ Popped(s)
  /\ pump' = [pump EXCEPT ![s] = FALSE]
  /\ UNCHANGED <<clientVars, start_acks, c2s, got_start, serverVars>>

\* A window (printed and stored), or an Error after some Ack (printed).
PumpOther(s) ==
  /\ pump[s] /\ s2c[s] # <<>>
  /\ FrameKind(s) = "window" \/ (FrameKind(s) = "error" /\ got_start[s])
  /\ Popped(s)
  /\ UNCHANGED <<clientVars, start_acks, c2s, pumpVars, serverVars>>

-----------------------------------------------------------------------------
(* A server.                                                               *)

\* handle_conn reads a Start: the running test is stopped first.
SrvStart(s) ==
  /\ spc[s] = "idle" /\ c2s[s] # <<>> /\ Head(c2s[s]).kind = "start"
  /\ c2s' = [c2s EXCEPT ![s] = Tail(@)]
  /\ cur' = [cur EXCEPT ![s] = Head(c2s[s]).round]
  /\ running' = [running EXCEPT ![s] = 0] /\ mark' = [mark EXCEPT ![s] = 0]
  /\ spc' = [spc EXCEPT ![s] = "starting"]
  /\ UNCHANGED <<clientVars, start_acks, s2c, pumpVars, emitted>>

\* start_test returns Ok and the Ack is written.  The metrics loop is only spawned: it
\* reads its origin when it is polled, before the Ack or after it.
SrvStarted(s) ==
  /\ spc[s] = "starting"
  /\ spc' = [spc EXCEPT ![s] = "idle"]
  /\ running' = [running EXCEPT ![s] = cur[s]]
  /\ \E late \in 0 .. Lateness : mark' = [mark EXCEPT ![s] = Window + late]
  /\ From(s, [kind |-> "ack", round |-> cur[s]])
  /\ UNCHANGED <<clientVars, start_acks, c2s, pumpVars, cur, emitted>>

SrvStartFails(s) ==
  /\ spc[s] = "starting"
  /\ spc' = [spc EXCEPT ![s] = "idle"]
  /\ From(s, [kind |-> "error", round |-> cur[s]])
  /\ UNCHANGED <<clientVars, start_acks, c2s, pumpVars, cur, running, mark, emitted>>

SrvStop(s) ==
  /\ spc[s] = "idle" /\ c2s[s] # <<>> /\ Head(c2s[s]).kind = "stop"
  /\ c2s' = [c2s EXCEPT ![s] = Tail(@)]
  /\ running' = [running EXCEPT ![s] = 0] /\ mark' = [mark EXCEPT ![s] = 0]
  /\ From(s, [kind |-> "stopped", round |-> 0])
  /\ UNCHANGED <<clientVars, start_acks, pumpVars, spc, cur, emitted>>

\* metrics_loop at its first mark, or late.
SrvWindow(s) ==
  /\ WindowDue(s)
  /\ emitted' = emitted \cup {<<s, running[s]>>}
  /\ From(s, [kind |-> "window", round |-> running[s]])
  /\ UNCHANGED <<clientVars, start_acks, c2s, pumpVars, spc, cur, running, mark>>

-----------------------------------------------------------------------------
ClientNext ==
  \/ Signal \/ BeginRound \/ SendStart \/ AllSent \/ AcksComplete \/ AcksTimeout
  \/ AcksCancelled \/ TrafficOver \/ Leave \/ SendStop

PumpNext(s) == PumpAck(s) \/ PumpEnds(s) \/ PumpOther(s)

ServerNext(s) == SrvStart(s) \/ SrvStarted(s) \/ SrvStartFails(s) \/ SrvStop(s) \/ SrvWindow(s)

Next == Tick \/ ClientNext \/ (\E s \in Servers : PumpNext(s) \/ ServerNext(s))

Spec == Init /\ [][Next]_vars

\* The client's tasks run, the clock moves, and metrics loops take their windows.
\* Nothing is assumed of the servers' Starts, nor of the network.
FairSpec ==
  /\ Spec
  /\ WF_vars(BeginRound \/ SendStart \/ AllSent \/ AcksComplete \/ AcksTimeout
             \/ AcksCancelled \/ TrafficOver \/ Leave \/ SendStop)
  /\ WF_vars(Tick)
  /\ \A s \in Servers : WF_vars(SrvWindow(s))

-----------------------------------------------------------------------------
(* Properties.                                                             *)

\* While every wait so far has seen its Acks, the traffic of a round is measured
\* with every server running that round's test: no server lags in an earlier
\* round or is still starting (client.rs 172, 188-211, 224-227).
InStep ==
  (short = {} /\ cpc = "traffic") =>
    \A s \in Servers : running[s] = round /\ spc[s] = "idle"

\* While every wait so far has seen its Acks, a round that ran its traffic out
\* has a full window from every server whose loop is polled and woken within the
\* slack that Traffic leaves after a window (client.rs 206-211).
RoundComplete == short = {} => \A r \in full, s \in Servers : <<s, r>> \in emitted

\* Servers that never answer do not stop the tournament: from every round the
\* driver moves on (client.rs 194-200).
RoundsAdvance ==
  \A r \in 1 .. (MaxRounds - 1) : (round = r) ~> (round > r \/ cpc = "done")

\* A signal ends the rounds wherever they are (client.rs 146-151, 191-193, 203,
\* 209-212).
SignalStops == sigint ~> (cpc = "done")

\* "1s of traffic plus a short slack so the server can close and emit the full
\* 1s metric window before we tear the round down" (client.rs 206-207): a round
\* whose wait counted `need' Acks and whose sleep ran out has a full window from
\* every server, whatever happened in earlier rounds.
AckedRoundEmits == \A r \in full, s \in Servers : <<s, r>> \in emitted

-----------------------------------------------------------------------------
(* The inductive invariant of RoundDriverProofs.                           *)

NoAckIn(q)  == \A i \in 1 .. Len(q) : q[i].kind # "ack"
OneAckIn(q) == \A i, j \in 1 .. Len(q) : q[i].kind = "ack" /\ q[j].kind = "ack" => i = j

\* A round is under way between its broadcast and the end of its traffic.
RoundBegun ==
  /\ cpc \in {"send", "acks", "traffic"} => round > 0
  /\ \A s \in Servers : spc[s] = "starting" => cur[s] > 0

\* A server with nothing to read, nothing to start and no Ack on its way.
Rest(s) == c2s[s] = <<>> /\ spc[s] = "idle" /\ NoAckIn(s2c[s])

\* A server that was sent the Start of this round: it has yet to read it, it is
\* starting, it runs the round and its Ack is on its way, or it is at rest.
Sent(s) ==
  \/ /\ c2s[s] = <<[kind |-> "start", round |-> round]>> /\ spc[s] = "idle"
     /\ NoAckIn(s2c[s])
  \/ c2s[s] = <<>> /\ spc[s] = "starting" /\ cur[s] = round /\ NoAckIn(s2c[s])
  \/ c2s[s] = <<>> /\ spc[s] = "idle" /\ running[s] = round /\ OneAckIn(s2c[s])
  \/ Rest(s)

\* While no wait was cut short, no Ack outlives its round.
OnTrack ==
  short = {} =>
    /\ (cpc = "begin" /\ ~sigint) \/ cpc = "traffic" =>
         \A s \in Servers : Rest(s) /\ running[s] = round
    /\ cpc = "send" => \A s \in Servers : IF s < next_srv THEN Sent(s)
                                          ELSE Rest(s) /\ running[s] < round
    /\ cpc = "acks" => \A s \in Servers : Sent(s)

\* The servers whose Ack of this round has been counted.
Counted == {s \in Servers : Rest(s) /\ running[s] = round}

\* While no wait was cut short, the counter holds Acks of this round only.
AcksOfThisRound ==
  (short = {} /\ cpc \in {"send", "acks"}) => start_acks <= Cardinality(Counted)

\* While no wait was cut short, each server's first window comes before the end
\* of the traffic sleep.
WindowComing ==
  (short = {} /\ cpc = "traffic") =>
    \A s \in Servers : mark[s] < timer \/ <<s, round>> \in emitted

IInv == TypeOK /\ RoundBegun /\ OnTrack /\ AcksOfThisRound /\ WindowComing /\ RoundComplete
=============================================================================
