----------------------------- MODULE ClientRun -----------------------------
(***************************************************************************)
(* One run of the client (client.rs `run', send_starts, pump_server; db.rs *)
(* Db::create, insert, shutdown and the sqlite thread): connect to every   *)
(* server, broadcast Starts, pump the windows the servers stream back into *)
(* the database, and on a signal stop the servers, drain the pumps, close  *)
(* the connections and the database.                                       *)
(*                                                                         *)
(* A server is what ServerSession promises on its stream: it handles       *)
(* requests in order, and no window of a test follows the Ack of the Stop  *)
(* that ended it.  It may refuse a Start with an Error, it may tear a      *)
(* window that the end of its test finds blocked, and it may die.          *)
(* A control socket that is full blocks its writer: a server whose reply   *)
(* nobody reads handles nothing more, and a Start or Stop that does not    *)
(* fit has no timeout and does not watch the token.  Time appears only as  *)
(* timeouts that may fire.                                                 *)
(***************************************************************************)
EXTENDS Integers, Sequences, FiniteSets

CONSTANTS N,          \* servers in the hostlist
          MaxStarts,  \* bound: Start broadcasts (1 is a mesh run)
          MaxWin,     \* bound: windows a server emits
          Cap,        \* frames a control socket holds in each direction
          MaySetupFail, MayRefuse, MayDie, MayDbFail,
                      \* which failures the environment produces
          Stalling    \* servers whose control socket may be full for two seconds

ASSUME RunAssumption == /\ N \in Nat \ {0}
                        /\ MaxStarts \in Nat \ {0}
                        /\ MaxWin \in Nat /\ Cap \in Nat \ {0}
                        /\ {MaySetupFail, MayRefuse, MayDie, MayDbFail} \subseteq BOOLEAN
                        /\ Stalling \subseteq Nat

Servers == 1 .. N

VARIABLES
  phase,     \* where `run' is
  next_srv,  \* loop index over the hostlist
  starts,    \* Start broadcasts made
  sigint,    \* the signal task cancelled the token
  rc,        \* what `run' returned
  timedout,  \* the drain timed out
  conn,      \* "none", "up", or "closed" by the client's shutdown or exit
  c2s, s2c,  \* frames in flight
  pump,      \* pump_server: "none", "run", "done"
  got_start, \* its got_start
  bailed,    \* it ended on an Error
  garbled,   \* it has met a torn frame: its reads are out of step with the frames
  printed,   \* windows printed, per server
  dbq,       \* the mpsc channel to the sqlite thread
  db,        \* sqlite thread: "open" (creating), "recv", "ok", "failed", "killed"
  stored,    \* rows inserted, per server
  srv,       \* server session: "idle", "test", "ended" by EOF, "dead" process
  emitted    \* windows written to the control stream, per server

dbVars   == <<dbq, db, stored>>
pumpVars == <<pump, got_start, bailed, garbled, printed>>
srvVars  == <<srv, emitted>>
mainVars == <<phase, next_srv, starts, sigint, rc, timedout, conn>>
vars == <<mainVars, c2s, s2c, pumpVars, dbVars, srvVars>>

Phases == {"resolve", "connect", "start", "run", "stop", "drain", "close", "dbjoin", "exited"}
Shutdown == 0    \* Event::Shutdown; Event::Metric of server s is s

TypeOK ==
  /\ phase \in Phases
  /\ next_srv \in 1 .. N + 1
  /\ starts \in 0 .. MaxStarts
  /\ sigint \in BOOLEAN
  /\ rc \in {"none", "ok", "err"}
  /\ timedout \in BOOLEAN
  /\ conn \in [Servers -> {"none", "up", "closed"}]
  /\ c2s \in [Servers -> Seq({"start", "stop"})]
  /\ s2c \in [Servers -> Seq({"ack", "error", "window", "stopped", "torn"})]
  /\ \A s \in Servers : Len(c2s[s]) <= Cap /\ Len(s2c[s]) <= Cap + 1
  /\ pump \in [Servers -> {"none", "run", "done"}]
  /\ got_start \in [Servers -> BOOLEAN]
  /\ bailed \in [Servers -> BOOLEAN]
  /\ garbled \in [Servers -> BOOLEAN]
  /\ printed \in [Servers -> 0 .. MaxWin]
  /\ dbq \in Seq(Servers \cup {Shutdown})
  /\ db \in {"open", "recv", "ok", "failed", "killed"}
  /\ stored \in [Servers -> 0 .. MaxWin]
  /\ srv \in [Servers -> {"idle", "test", "ended", "dead"}]
  /\ emitted \in [Servers -> 0 .. MaxWin]

\* Db::create has removed the old files and spawned the sqlite thread.
Init ==
  /\ phase = "resolve" /\ next_srv = 1 /\ starts = 0
  /\ sigint = FALSE /\ rc = "none" /\ timedout = FALSE
  /\ conn = [s \in Servers |-> "none"]
  /\ c2s = [s \in Servers |-> <<>>] /\ s2c = [s \in Servers |-> <<>>]
  /\ pump = [s \in Servers |-> "none"] /\ got_start = [s \in Servers |-> FALSE]
  /\ bailed = [s \in Servers |-> FALSE] /\ garbled = [s \in Servers |-> FALSE]
  /\ printed = [s \in Servers |-> 0]
  /\ dbq = <<>> /\ db = "open" /\ stored = [s \in Servers |-> 0]
  /\ srv = [s \in Servers |-> "idle"] /\ emitted = [s \in Servers |-> 0]

-----------------------------------------------------------------------------
(* `run', the main task.                                                   *)

DbDone == db \in {"ok", "failed"}

\* `run' returns and the process exits: sockets close, tasks and the sqlite
\* thread die with it.
Exit(code) ==
  /\ phase' = "exited" /\ rc' = code
  /\ conn' = [s \in Servers |-> IF conn[s] = "up" THEN "closed" ELSE conn[s]]
  /\ pump' = [s \in Servers |-> IF pump[s] = "run" THEN "done" ELSE pump[s]]
  /\ db' = IF DbDone THEN db ELSE "killed"

Signal ==
  /\ ~sigint /\ phase # "exited"
  /\ sigint' = TRUE
  /\ UNCHANGED <<phase, next_srv, starts, rc, timedout, conn, c2s, s2c, pumpVars, dbVars, srvVars>>

\* All test addresses resolved.
Resolved ==
  /\ phase = "resolve"
  /\ phase' = "connect"
  /\ UNCHANGED <<next_srv, starts, sigint, rc, timedout, conn, c2s, s2c, pumpVars, dbVars, srvVars>>

\* resolve_retry or connect_tcp_retry gives up: its deadline, or the token.
SetupFails ==
  /\ phase \in {"resolve", "connect"} /\ next_srv <= N
  /\ sigint \/ MaySetupFail \/ srv[next_srv] = "dead"
  /\ Exit("err")
  /\ UNCHANGED <<next_srv, starts, sigint, timedout, c2s, s2c, got_start, bailed, garbled, printed,
                 dbq, stored, srvVars>>

\* One server connected, its pump spawned.
Connect ==
  /\ phase = "connect" /\ next_srv <= N /\ srv[next_srv] # "dead"
  /\ conn' = [conn EXCEPT ![next_srv] = "up"]
  /\ pump' = [pump EXCEPT ![next_srv] = "run"]
  /\ next_srv' = next_srv + 1
  /\ UNCHANGED <<phase, starts, sigint, rc, timedout, c2s, s2c, got_start, bailed, garbled, printed,
                 dbVars, srvVars>>

\* A Start broadcast begins: the only one of a mesh run, or one of a pairs run,
\* whose round loops check the token first.
BeginStarts ==
  /\ \/ phase = "connect" /\ next_srv > N
     \/ phase = "run" /\ ~sigint
  /\ starts < MaxStarts
  /\ starts' = starts + 1
  /\ phase' = "start" /\ next_srv' = 1
  /\ UNCHANGED <<sigint, rc, timedout, conn, c2s, s2c, pumpVars, dbVars, srvVars>>

\* write_frame to a server has room.
Fits(s) == Len(c2s[s]) < Cap

\* The bug: the broadcast runs one past the last writer.
SendStartPastEnd ==
  /\ phase = "start" /\ next_srv <= N + 1
  /\ c2s' = [s \in Servers |-> IF s = next_srv THEN Append(c2s[s], "start") ELSE c2s[s]]
  /\ next_srv' = next_srv + 1
  /\ UNCHANGED <<phase, starts, sigint, rc, timedout, conn, s2c, pumpVars, dbVars, srvVars>>

\* send_starts writes the Start of one server, and waits until it fits.
SendStart ==
  /\ phase = "start" /\ next_srv <= N /\ Fits(next_srv)
  /\ c2s' = [c2s EXCEPT ![next_srv] = Append(@, "start")]
  /\ next_srv' = next_srv + 1
  /\ UNCHANGED <<phase, starts, sigint, rc, timedout, conn, s2c, pumpVars, dbVars, srvVars>>

\* A Start cannot be written: `?' takes run out without Stop, drain or
\* Db::shutdown.
SendStartFails ==
  /\ phase = "start" /\ next_srv <= N /\ srv[next_srv] = "dead"
  /\ Exit("err")
  /\ UNCHANGED <<next_srv, starts, sigint, timedout, c2s, s2c, got_start, bailed, garbled, printed,
                 dbq, stored, srvVars>>

StartsSent ==
  /\ phase = "start" /\ next_srv > N
  /\ phase' = "run"
  /\ UNCHANGED <<next_srv, starts, sigint, rc, timedout, conn, c2s, s2c, pumpVars, dbVars, srvVars>>

BeginStop ==
  /\ phase = "run" /\ sigint
  /\ phase' = "stop" /\ next_srv' = 1
  /\ UNCHANGED <<starts, sigint, rc, timedout, conn, c2s, s2c, pumpVars, dbVars, srvVars>>

\* One Stop; a write error is reported and the broadcast goes on.
SendStop ==
  /\ phase = "stop"
  /\ \/ /\ next_srv <= N /\ Fits(next_srv)
        /\ c2s' = [c2s EXCEPT ![next_srv] = Append(@, "stop")]
        /\ next_srv' = next_srv + 1 /\ phase' = "stop"
     \/ /\ next_srv <= N /\ srv[next_srv] = "dead"
        /\ next_srv' = next_srv + 1 /\ phase' = "stop" /\ UNCHANGED c2s
     \/ next_srv > N /\ phase' = "drain" /\ UNCHANGED <<c2s, next_srv>>
  /\ UNCHANGED <<starts, sigint, rc, timedout, conn, s2c, pumpVars, dbVars, srvVars>>

\* The bug: the drain does not wait for the pumps.
DrainedAtOnce ==
  /\ phase = "drain"
  /\ phase' = "close"
  /\ UNCHANGED <<next_srv, starts, sigint, rc, timedout, conn, c2s, s2c, pumpVars, dbVars, srvVars>>

\* Every pump has ended within five seconds.
Drained ==
  /\ phase = "drain" /\ \A s \in Servers : pump[s] = "done"
  /\ phase' = "close"
  /\ UNCHANGED <<next_srv, starts, sigint, rc, timedout, conn, c2s, s2c, pumpVars, dbVars, srvVars>>

\* The bug: no timeout around the drain.
DrainTimeoutNever == FALSE

\* Five seconds have passed: the pumps are aborted at their reads.
DrainTimeout ==
  /\ phase = "drain" /\ \E s \in Servers : pump[s] # "done"
  /\ phase' = "close" /\ timedout' = TRUE
  /\ pump' = [s \in Servers |-> "done"]
  /\ UNCHANGED <<next_srv, starts, sigint, rc, conn, c2s, s2c, got_start, bailed, garbled, printed,
                 dbVars, srvVars>>

Sent(ev) == dbq' = IF DbDone THEN dbq ELSE Append(dbq, ev)

\* The writers are shut down; Db::shutdown sends its Shutdown event.
CloseAll ==
  /\ phase = "close"
  /\ conn' = [s \in Servers |-> "closed"]
  /\ Sent(Shutdown)
  /\ phase' = "dbjoin"
  /\ UNCHANGED <<next_srv, starts, sigint, rc, timedout, c2s, s2c, pumpVars, db, stored, srvVars>>

\* The bug: the thread's own result is not propagated.
DbJoinedIgnored ==
  /\ phase = "dbjoin" /\ DbDone
  /\ Exit("ok")
  /\ UNCHANGED <<next_srv, starts, sigint, timedout, c2s, s2c, got_start, bailed, garbled, printed,
                 dbq, stored, srvVars>>

\* The sqlite thread is joined and its result is the result of the run.
DbJoined ==
  /\ phase = "dbjoin" /\ DbDone
  /\ Exit(IF db = "ok" THEN "ok" ELSE "err")
  /\ UNCHANGED <<next_srv, starts, sigint, timedout, c2s, s2c, got_start, bailed, garbled, printed,
                 dbq, stored, srvVars>>

-----------------------------------------------------------------------------
(* pump_server.                                                            *)

\* read_frame returns a frame the server wrote.
Frame(s, kind) ==
  /\ pump[s] = "run" /\ ~garbled[s] /\ s2c[s] # <<>> /\ Head(s2c[s]) = kind
  /\ s2c' = [s2c EXCEPT ![s] = Tail(@)]

PumpAck(s) ==
  /\ Frame(s, "ack")
  /\ got_start' = [got_start EXCEPT ![s] = TRUE]
  /\ UNCHANGED <<mainVars, c2s, pump, bailed, garbled, printed, dbVars, srvVars>>

\* Printed and sent to the sqlite thread with no await in between; a send to a
\* thread that has ended is ignored.
PumpWindow(s) ==
  /\ Frame(s, "window")
  /\ printed' = [printed EXCEPT ![s] = @ + 1]
  /\ Sent(s)
  /\ UNCHANGED <<mainVars, c2s, pump, got_start, bailed, garbled, db, stored, srvVars>>

PumpStopped(s) ==
  /\ Frame(s, "stopped")
  /\ pump' = [pump EXCEPT ![s] = "done"]
  /\ UNCHANGED <<mainVars, c2s, got_start, bailed, garbled, printed, dbVars, srvVars>>

\* An Error ends the pump unless a Start was acknowledged before.
PumpError(s) ==
  /\ Frame(s, "error")
  /\ pump' = [pump EXCEPT ![s] = IF got_start[s] THEN "run" ELSE "done"]
  /\ bailed' = [bailed EXCEPT ![s] = ~got_start[s]]
  /\ UNCHANGED <<mainVars, c2s, got_start, garbled, printed, dbVars, srvVars>>

\* read_frame meets what was written of a torn frame and waits for the rest of it.
PumpTorn(s) ==
  /\ Frame(s, "torn")
  /\ garbled' = [garbled EXCEPT ![s] = TRUE]
  /\ UNCHANGED <<mainVars, c2s, pump, got_start, bailed, printed, dbVars, srvVars>>

\* The rest is taken from the frames that follow, whatever they are: as long as it
\* is not complete nothing happens, and then it does not decode and ends the pump.
PumpGarbage(s) ==
  /\ pump[s] = "run" /\ garbled[s] /\ s2c[s] # <<>>
  /\ s2c' = [s2c EXCEPT ![s] = Tail(@)]
  /\ pump' \in {pump, [pump EXCEPT ![s] = "done"]}
  /\ UNCHANGED <<mainVars, c2s, got_start, bailed, garbled, printed, dbVars, srvVars>>

\* The server is gone and everything it sent has been read.
PumpEof(s) ==
  /\ pump[s] = "run" /\ s2c[s] = <<>> /\ srv[s] \in {"dead", "ended"}
  /\ pump' = [pump EXCEPT ![s] = "done"]
  /\ UNCHANGED <<mainVars, c2s, s2c, got_start, bailed, garbled, printed, dbVars, srvVars>>

-----------------------------------------------------------------------------
(* The sqlite thread.                                                      *)

\* The file is open, the schema and the config row are written.
DbReady ==
  /\ db = "open"
  /\ db' = "recv"
  /\ UNCHANGED <<mainVars, c2s, s2c, pumpVars, dbq, stored, srvVars>>

DbInsert ==
  /\ db = "recv" /\ dbq # <<>> /\ Head(dbq) # Shutdown
  /\ stored' = [stored EXCEPT ![Head(dbq)] = @ + 1]
  /\ dbq' = Tail(dbq)
  /\ UNCHANGED <<mainVars, c2s, s2c, pumpVars, db, srvVars>>

DbShutdown ==
  /\ db = "recv" /\ dbq # <<>> /\ Head(dbq) = Shutdown
  /\ db' = "ok" /\ dbq' = Tail(dbq)
  /\ UNCHANGED <<mainVars, c2s, s2c, pumpVars, stored, srvVars>>

\* Opening or inserting fails: the thread returns its error and the receiver is
\* dropped with everything queued.
DbFails ==
  /\ MayDbFail
  /\ db = "open" \/ (db = "recv" /\ dbq # <<>> /\ Head(dbq) # Shutdown)
  /\ db' = "failed" /\ dbq' = <<>>
  /\ UNCHANGED <<mainVars, c2s, s2c, pumpVars, stored, srvVars>>

-----------------------------------------------------------------------------
(* The servers.                                                            *)

Request(s, r) ==
  /\ srv[s] \in {"idle", "test"} /\ c2s[s] # <<>> /\ Head(c2s[s]) = r
  /\ c2s' = [c2s EXCEPT ![s] = Tail(@)]

\* write_frame_locked, once it fits.
Reply(s, kind) == /\ Len(s2c[s]) < Cap
                  /\ s2c' = [s2c EXCEPT ![s] = Append(@, kind)]

SrvStart(s) ==
  /\ Request(s, "start")
  /\ \/ srv' = [srv EXCEPT ![s] = "test"] /\ Reply(s, "ack")
     \/ MayRefuse /\ srv' = [srv EXCEPT ![s] = "idle"] /\ Reply(s, "error")
  /\ UNCHANGED <<mainVars, pumpVars, dbVars, emitted>>

SrvStop(s) ==
  /\ Request(s, "stop")
  /\ srv' = [srv EXCEPT ![s] = "idle"] /\ Reply(s, "stopped")
  /\ UNCHANGED <<mainVars, pumpVars, dbVars, emitted>>

SrvWindow(s) ==
  /\ srv[s] = "test" /\ conn[s] = "up" /\ emitted[s] < MaxWin
  /\ emitted' = [emitted EXCEPT ![s] = @ + 1] /\ Reply(s, "window")
  /\ UNCHANGED <<mainVars, c2s, pumpVars, dbVars, srv>>

\* A Start or Stop ends the test whose window has been blocked for two seconds: the
\* metrics task is aborted in its write, and the request is answered behind the torn
\* frame.
SrvTears(s) ==
  /\ s \in Stalling /\ srv[s] = "test" /\ conn[s] = "up" /\ c2s[s] # <<>> /\ Len(s2c[s]) = Cap
  /\ srv' = [srv EXCEPT ![s] = "idle"]
  /\ s2c' = [s2c EXCEPT ![s] = Append(@, "torn")]
  /\ UNCHANGED <<mainVars, c2s, pumpVars, dbVars, emitted>>

\* The bug: the running test is not stopped when the connection ends.
SrvEofIgnored(s) ==
  /\ srv[s] = "idle" /\ conn[s] = "closed"
  /\ srv' = [srv EXCEPT ![s] = "ended"]
  /\ UNCHANGED <<mainVars, c2s, s2c, pumpVars, dbVars, emitted>>

\* read_frame meets the end of the stream, or a reset that discards requests:
\* the session stops its test and ends.
SrvEof(s) ==
  /\ srv[s] \in {"idle", "test"} /\ conn[s] = "closed"
  /\ srv' = [srv EXCEPT ![s] = "ended"]
  /\ UNCHANGED <<mainVars, c2s, s2c, pumpVars, dbVars, emitted>>

\* The server process dies; what it had sent may be lost with it.
SrvDies(s) ==
  /\ MayDie /\ srv[s] \in {"idle", "test"}
  /\ srv' = [srv EXCEPT ![s] = "dead"]
  /\ s2c' \in {s2c, [s2c EXCEPT ![s] = <<>>]}
  /\ UNCHANGED <<mainVars, c2s, pumpVars, dbVars, emitted>>

-----------------------------------------------------------------------------
MainNext ==
  \/ Resolved \/ SetupFails \/ Connect \/ BeginStarts \/ SendStart \/ SendStartFails
  \/ StartsSent \/ BeginStop \/ SendStop \/ Drained \/ DrainTimeout \/ CloseAll \/ DbJoined

PumpNext(s) ==
  \/ PumpAck(s) \/ PumpWindow(s) \/ PumpStopped(s) \/ PumpError(s)
  \/ PumpTorn(s) \/ PumpGarbage(s) \/ PumpEof(s)

DbNext == DbReady \/ DbInsert \/ DbShutdown \/ DbFails

SrvNext(s) ==
  SrvStart(s) \/ SrvStop(s) \/ SrvWindow(s) \/ SrvTears(s) \/ SrvEof(s) \/ SrvDies(s)

Next == Signal \/ MainNext \/ DbNext \/ (\E s \in Servers : PumpNext(s) \/ SrvNext(s))

Spec == Init /\ [][Next]_vars

\* The client's own tasks and thread run and its timers fire; a server notices
\* the end of its connection, and a Start it can answer is answered: a write into
\* a full socket waits for that.  A Stop may take for ever.
FairSpec ==
  /\ Spec
  /\ WF_vars(MainNext)
  /\ WF_vars(DbNext)
  /\ \A s \in Servers : WF_vars(PumpNext(s)) /\ WF_vars(SrvStart(s)) /\ WF_vars(SrvEof(s))

-----------------------------------------------------------------------------
(* Properties.                                                             *)

\* A run that reports success has stored every window it printed: the pumps end
\* before the Shutdown event, and an error of the sqlite thread becomes the
\* run's error (client.rs 100-115, db.rs 113-118, 131-147).
PrintedIsStored == rc = "ok" => stored = printed

\* A run that reports success and whose drain was not cut short has stored every
\* window its servers streamed whole, but for servers that died, servers whose pump
\* ended on an Error, and servers whose pump met a torn frame: the Ack of the Stop is
\* behind the last window (client.rs 92-115, 215-253).  Behind a torn frame nothing
\* decodes, and the pump ends while the server streams on (server.rs 53-57,
\* client.rs 246-249).
StreamedIsStored ==
  (rc = "ok" /\ ~timedout) =>
    \A s \in Servers : srv[s] = "dead" \/ bailed[s] \/ garbled[s] \/ stored[s] = emitted[s]

\* However the client ends, and whatever it had sent, no server keeps a test
\* running (client.rs 92-115, main.rs; server.rs 67-71, 114-117).
ServersReleased == (phase = "exited") ~> (\A s \in Servers : srv[s] # "test")

\* A signal ends the run: no round, full socket, silent or dead server holds it up,
\* unless a pump ended early, on an Error or on what followed a torn frame.  Nobody
\* reads that server's replies any more; its session blocks, and in the end the
\* client's next Start or Stop blocks with it (client.rs 41-48, 84, 92-108, 173-184,
\* 237-249).  A pump that is still taking the rest of a torn frame holds up nothing.
SignalEnds ==
  sigint ~> \/ phase = "exited"
            \/ \E s \in Servers : bailed[s] \/ (garbled[s] /\ pump[s] = "done")

\* "The client prints one line per window per server, and appends the same data"
\* (README.md 84): a successful run whose drain was not cut short, with no server
\* lost, has stored every window that was streamed to it.
EveryWindowStored ==
  (rc = "ok" /\ ~timedout /\ \A s \in Servers : srv[s] # "dead") => stored = emitted

-----------------------------------------------------------------------------
(* The inductive invariant of ClientRunProofs.                             *)

Count(q, x)    == Cardinality({i \in 1 .. Len(q) : q[i] = x})
Has(q, x)      == \E i \in 1 .. Len(q) : q[i] = x
OnlyLast(q, x) == \A i \in 1 .. Len(q) : q[i] = x => i = Len(q)

\* No pump reads once the drain is over, and success means that the sqlite thread
\* ended well after every pump.
PumpsOver ==
  /\ phase \in {"close", "dbjoin"} => \A s \in Servers : pump[s] = "done"
  /\ phase = "exited" => \A s \in Servers : pump[s] # "run"
  /\ rc # "none" => phase = "exited"
  /\ rc = "ok" => db = "ok" /\ \A s \in Servers : pump[s] = "done"

\* A printed window is stored or queued, unless the thread failed.
Queued(s) ==
  /\ stored[s] + Count(dbq, s) <= printed[s]
  /\ db # "failed" => stored[s] + Count(dbq, s) = printed[s]

\* The Shutdown event is sent after the drain and is the last one.
ShutdownLast ==
  /\ OnlyLast(dbq, Shutdown)
  /\ Has(dbq, Shutdown) => phase \in {"dbjoin", "exited"}
  /\ db = "ok" => dbq = <<>> /\ phase \in {"dbjoin", "exited"}

\* An emitted window is printed or on its way, unless the server died or the window
\* was taken for the rest of a torn frame.
Streamed(s) ==
  /\ printed[s] + Count(s2c[s], "window") <= emitted[s]
  /\ srv[s] # "dead" /\ ~garbled[s] => printed[s] + Count(s2c[s], "window") = emitted[s]

\* The broadcast of Stops is past this server.
StopSent(s) ==
  phase \in {"drain", "close", "dbjoin", "exited"} \/ (phase = "stop" /\ s < next_srv)

\* A server that will send nothing more on this connection.
Silent(s) == srv[s] = "ended" \/ (StopSent(s) /\ c2s[s] = <<>> /\ srv[s] # "test")

\* A Stop is the last request, and its Ack the last frame.
StopLast(s) ==
  /\ OnlyLast(c2s[s], "stop") /\ (Has(c2s[s], "stop") => StopSent(s))
  /\ OnlyLast(s2c[s], "stopped") /\ (Has(s2c[s], "stopped") => Silent(s))

\* Why a pump has ended: on an Error, behind a torn frame, aborted, or with
\* everything read.
PumpEnd(s) ==
  pump[s] = "done" =>
    \/ bailed[s] \/ garbled[s] \/ timedout \/ rc = "err" \/ srv[s] = "dead"
    \/ Silent(s) /\ Count(s2c[s], "window") = 0

IInv == /\ TypeOK /\ PumpsOver /\ ShutdownLast
        /\ \A s \in Servers : Queued(s) /\ Streamed(s) /\ StopLast(s) /\ PumpEnd(s)
=============================================================================
