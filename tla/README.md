# A TLA+ verification development for tperf

tperf measures bandwidth: one client drives N servers over control
connections, the servers send traffic to each other and stream one-second
metric windows back, and the client prints, stores and analyses them. These
modules model its configuration and set-up, its control session, its measuring
loop and counters, its rounds, its shutdown, its two data planes and its
analysis. TLC checks them on small instances. TLAPS proves all but one of the
invariants that TLC checks, and that the control session implements an abstract
contract, for every value of the constants.

Sources are cited as `server.rs 51-58`, meaning those lines of `src/src/server.rs`.

## 1. The system

### Components

| Component | State | Operations | Talks to |
|---|---|---|---|
| Server session (`server.rs`: `run`, `handle_conn`, `start_test`, `RunningTest::stop`) | the one accepted connection, `test: Option<RunningTest>` (token, `metrics_done`, `JoinSet`), the mutex around the write half | accept; `Start`, `Stop`, other message, end of stream; cancel, wait two seconds, abort, join; spawn; reply | client (frames), metrics loop (token, oneshot, abort, write lock), data plane (token, abort, the bound port) |
| Metrics loop (`server.rs`: `metrics_loop`, `wait_until_mono`, `emit_window`) | `origin`, `window_i`, `mono_start`, `prev_*` snapshots | sleep, spin, snapshot, write, leave | clock, counters, the control stream |
| Rounds driver (`client.rs`: `run_pair_rounds`, `send_starts`, `wait_round`) | round, the shared atomic `start_acks`, deadlines | broadcast `Start`, poll for Acks, sleep for the traffic, stop | servers, pumps (the counter), the signal (token) |
| Client run (`client.rs`: `run`, `pump_server`; `db.rs`: `Db`, `DbHandle`) | connections, one pump per server with `got_start`, the channel and thread of sqlite | resolve, connect, start, wait for the signal, stop, drain, close, shut the database down | servers, sqlite thread (mpsc channel, join) |
| Test plan (`testplan.rs`) | the slots of the round-robin | one round, rotation, assignments | client |
| TCP data plane (`dataplane.rs`: `spawn_tcp`, accept, receive and send loops) | listener, connections, workers | connect with retries, write, accept, read | the peer servers, counters |
| UDP data plane (`dataplane.rs`: `spawn_udp`, receive and send loops, `note_seq`) | one socket, an atomic sequence per destination, an `expected` slot per sender | send a payload in chunks, count gaps | the peer servers, counters |
| Counters (`metrics.rs`) | five relaxed atomics for the total and per peer | add, snapshot, delta, build a window | data plane, metrics loop |
| Control framing (`proto.rs`) | none | length-prefixed JSON frames, the write lock | session, pumps |
| Retry and resolution (`netutil.rs`) | deadline, delay | resolve or connect with back-off, choose an address | client, data plane |
| Configuration (`config.rs`) | none | read TOML, validate, expand `{a..b}` | everything |
| Analysis (`analyze.rs`) | none | load the database, aggregate, report | the database |
| Command line (`main.rs`), container test and release scripts | none | dispatch | |

### What is hard, and what makes each part correct

* **Session.** A handler runs while the old test's tasks are still alive. A test
  has abortable tasks in a `JoinSet`, receivers outside it, and a metrics loop
  that may hold the write lock of the connection its successor needs. It is
  correct when at most one test is alive, a reply means that what it replaces is
  gone, the stream never attributes a window to the wrong test, and a client that
  stops reading or vanishes cannot keep the server busy.
* **Metrics loop.** Late wake-ups, long writes, cancellation at any instant. It
  is correct when windows tile the test, never end early and do not drift, and
  when a cancelled loop ends after at most one more window.
* **Rounds.** Servers start at different times, Acks may come late or never. It
  is correct when a round's traffic is measured with every server in that round,
  every completed round yields a window per server, and neither a silent server
  nor a signal blocks it.
* **Client run.** Every step can fail and the process has several ways out. It is
  correct when a run that reports success has stored what it printed and what was
  streamed, and when no server is left testing.
* **Set-up.** Hosts come and go while the client looks for them, one after another. It
  is correct when the hostlist is what the file spells, a retry loop neither gives up
  early nor late nor dawdles, a signal costs no more than the attempt in progress, and
  a host's address is one the other machines can use.
* **Plan.** Each round is a set of disjoint pairs and every pair comes exactly once.
* **Counters and analysis.** Totals and shares are read one atomic at a time while
  they change; windows start late and are put into wall-clock seconds. They are correct
  when the differences do not build up, what was sent is reported once, and the
  statistics are consistent.
* **Data planes.** Two servers restart at different moments, the network does as it
  likes. They are correct when numbers are drawn once, counts are not overstated,
  drops are the gaps, and a worker is not silenced in a round both servers run.

`PROJECT.json` lists every hazard at its line with the properties aimed at it.

## 2. Modules

| Module | Models | Notes |
|---|---|---|
| `SessionContract` | what a server promises the client of its control connection | abstract: no tasks, timeouts, sockets |
| `ServerSession` | server session, with the control stream | tests are numbered by a generation, so that two *can* be alive at once |
| `MetricsLoop` | metrics loop against a clock | lateness and write time are parameters |
| `RoundDriver` | rounds driver, Ack counting, N servers with time | takes the session's guarantees as the behaviour of a server |
| `Counters` | the atomics of one server, the snapshots and windows taken of them | one step per add and per load |
| `Analyze` | `load` and `print_report` as pure operators | exact fractions for `f64` |
| `Report` | composes `Counters`, other servers' rows and `Analyze` | from an add to the printed report |
| `ClientRun` | the whole client run with sqlite, N servers | no time, timeouts may fire; sockets hold `Cap` frames |
| `HostList` | hostlist expansion, and a reference definition of it | operators; `ExpandPattern` and `Digits` are recursive functions |
| `Retry` | the loop of `resolve_retry` and `connect_tcp_dest` | against a clock and a peer that comes and goes |
| `TestPlan` | the schedule | one step per round |
| `ClientSetup`, `MCClientSetup` | composes `HostList`, `Retry` and `TestPlan`: from the configuration file to the schedule | the MC module has the files and the answers of lookups |
| `UdpFlow`, `MCUdpFlow` | one directed UDP flow over several tests | the MC module declares the symmetry of the workers, sound because only invariants are checked |
| `TcpFlow` | one directed TCP flow over several tests | |
| `ServerSessionProofs`, `MetricsLoopProofs`, `RoundDriverProofs`, `ClientRunProofs`, `ClientSetupProofs`, `UdpFlowProofs`, `TcpFlowProofs`, `ReportProofs` | theorems | each extends its component and `TLAPS`; `ClientSetupProofs` also has those of `TestPlan` and `Retry`, `ReportProofs` those of `Counters` and `Analyze` |

In every module a variable is named after the field or local it stands for, an
action carries the code path it models in the comment above it, and operators
whose comment begins with "The bug:" are mutated forms of the operator below
them. They belong to no specification: each shows that a property can be broken
by a plausible slip in that code.

### ServerSession

`pc` is the await `run`/`handle_conn`/`stop` is at: `accept`, `read`
(`read_frame`), `stop` (the two-second wait), `join` (`abort_all` and
`join_next`), `start` (`start_test`), `reply` (`write_frame_locked`). `todo` is
what follows: the reply being written or what `stop` was called for. `test` is
the `Option` of `handle_conn`, and `local` the `RunningTest` a local variable
owns, because `test.take()` and the Ack written before `test = Some(t)` open
exactly the gap in which an error return could lose a test. `io`, `mloop`,
`recvs` are the live tasks per generation. The server-to-client half is a history
(`wire`) with a read index (`taken`); a frame fits while fewer than `Cap` are
outstanding. A task dropped in `write_frame` leaves a `torn` frame or nothing.
The client is arbitrary: it sends any request at any time, reads or not, closes.

### SessionContract, and the mapping

The contract keeps a queue of requests, the request being served, the set of tests
(at most one) and the stream. Requests are served in order; a test ends only because
a request replaces or stops it or because the client is gone; its frames, whole or
torn, appear only while it exists; a Stop is acknowledged when nothing runs, a
Start when its test runs, an Error when none does. `ServerSession` maps to it with
`Serving` (what `pc`, `todo` and `local` say of the request in hand) and `Testing`
(the generations whose metrics loop is alive and may still write). Waiting, aborting, joining, the
data plane's tasks, the lock and the client's reads are stuttering steps.
`RoundDriver` and `ClientRun` build their servers from these promises.

### MetricsLoop

`Tick` moves the clock, but not past `Deadline + MaxLate` while the loop waits
and not past `MaxWrite` ticks of a write: these two constants *are* the
assumption on the scheduler and the socket. `CancelSeen` is possible from the sleep
even after the mark (the `select!` does not look at the clock), but not from the
top of the loop, which looks at the clock first.

### RoundDriver

Remaining ticks instead of a clock: `timer` for the client's current deadline or
sleep, `mark[s]` until a server's first window is taken. `start_test` only spawns the
metrics loop, which reads its origin when it is polled, perhaps after the Ack, and may
be woken late: a first window comes up to `Lateness` after its place, and time does not
pass one that is due. Everything else (a message, a `start_test`) takes any time. `short` holds the rounds whose wait gave up, `full`
those whose wait saw its Acks and whose sleep ran out.

### ClientRun

`phase` follows `run`. Every `?` is an action that ends in `Exit("err")`: the
process exits, so sockets close and the sqlite thread is killed wherever it is.
`dbq` is the channel; `db` the thread: `open` while it creates the schema,
`recv`, then `ok`, `failed` or `killed`. A pump's print and `db.insert` are one
action because there is no await between them. Failures of the environment
(set-up, a refused Start, a dead server, the database) are switched by constants.
A control socket holds `Cap` frames in each direction: a Start or Stop waits for
room, a server whose reply does not fit handles nothing more. A window that is
aborted half-written (`ServerSession`'s torn frame) is here a frame `torn` in a full
socket of one of the `Stalling` servers. `garbled` says that one was written: from its
place on, the pump reads nothing it can decode and ends (`client.rs 246-249`), while the
server goes on with its next test.

### Counters, Analyze, Report

`val` is the `AtomStats` of the total and of every host. An add call puts one
`fetch_add` per cell into `pending`, and they become visible in any order, as
`Relaxed` allows; `snapshot_all` is one `Load` per cell, in any order. `slack` is a
history: how many add calls each snapshot overlapped. `Row` is what
`insert_metric` stores of a window, `LoadTable` what `analyze` makes of the table.
A window ends when the loop reaches the clock: at its mark, or any time (`Lates`) after
it when the wake-up or the last window's write took long, and never at the very instant
the one before it ended, since the clock moves between two reads.
The real-time clock is assumed to run with the monotonic one; where in a second the
test began is arbitrary. Sends and receives stand for the five fields, since
every property speaks of one field at a time.

### HostList, Retry, ClientSetup

A pattern is a sequence of literal parts, ranges and unclosed braces, a name a
sequence of symbols, so that `{1..11}{1..11}` spells `111` twice here as in the
program. `Spelled` is the reference: the k-th name of a pattern has the digits of k in
mixed radix. In `Retry`, `there` says whether the other side can be reached now, and
an attempt fails only if it was away at some moment of the attempt. `ClientSetup` runs
one loop per host, first for the lookups, then for the connects.

### TestPlan

Hosts are their index in the hostlist, which `expand_hostlist` keeps free of
duplicates. A step is one iteration of `round_robin_rounds`; `Targets` is
`assignments_for_pairs`, `MeshTargets` is `assignments_mesh`.

### UdpFlow and TcpFlow

One directed flow between two servers, over several tests, each end starting its
next test when it handles its own `Start`. The guard that keeps the two ends
within one round of each other (`stest <= rtest` and the like) is what the
client does when no wait for Acks gives up, `InStep` of `RoundDriver`. In
`UdpFlow` there is no network variable: any datagram ever sent may be delivered
at any time, again, or never. In `TcpFlow` a connection remembers whose
listener took it.

## 3. What TLC checks

| Run | Module / cfg | Checks | Shows |
|---|---|---|---|
| `session` | ServerSession | TypeOK, OneTest, NoOrphanTest, AckMeansQuiet, ReceiversOwned; ImplementsContract, CancelledTestDies, ServerComesBack, SessionResponsive | one test at a time; the session implements its contract; a client that never reads again cannot keep a test alive, one that leaves frees the server, one that reads is answered |
| `session_torn` | ServerSessionTorn | WindowsReadable *(violated)* | an aborted write leaves a cut frame on a connection still in use |
| `metrics` | MetricsLoop | Tiled, NoDrift, OneLateWindow; LoopEnds | windows tile, on the grid; a cancelled loop ends after at most one snapshot |
| `report` | Report | SharesAddUp, SentIsReported, ReportOrdered, CrowdedAfterStall | shares and totals stay together over a test; what was sent is reported once; statistics are consistent; a second of the total counts a server more than once only after a stall |
| `rounds` | RoundDriver | TypeOK, InStep, RoundComplete; RoundsAdvance, SignalStops | servers are in step while every wait saw its Acks; silent servers do not block the driver |
| `rounds_stale` | RoundDriverStale | AckedRoundEmits *(violated)* | a late Ack is counted for the next round |
| `client` | ClientRun | TypeOK, PrintedIsStored, StreamedIsStored; ServersReleased, SignalEnds | success means stored; a signal ends the run, full sockets included, unless a pump ended early, on an Error or at a torn frame; however the client ends, servers are released |
| `client_bail` | ClientRunBail | EveryWindowStored *(violated)* | a pump that ended on an Error loses later windows |
| `plan` | MCClientSetup | TypeOK, OnePairPerRound, FullCover, ExpansionExact, RetryBounds, AddressesUsable, SignalEndsSetup | hostlists mean what they spell; retries keep to their deadline; a signal ends the set-up within an attempt; the schedule of 2 to 17 hosts |
| `udp` | MCUdpFlow | TypeOK, SeqsAccounted, DropsAreGaps | what UDP counts mean |
| `tcp` | TcpFlow | TypeOK, SilencedByOldListener; StaleWorkerEnds | the only two ways a worker is silenced; none writes for ever to a test that is over |
| `tcp_old` | TcpFlowOldListener | AckedPairIsTested *(violated)* | a worker can be silenced for a whole round |

Safety and liveness of a component are checked in one run, under its fair
specification: fairness removes no reachable state.

Deadlock checking is off in every run: all of them are bounded, and the systems
may stop (a client that sends nothing more, a finished schedule, an exited
process). What must not stop is stated as liveness.

### Bounds, and why they are enough

* `ServerSession`: two connections, three requests over both, one window per
  test and connection, one frame in the socket. Three requests allow Start, Stop,
  Start and a test behind two others; the second connection meets what the first
  left; one frame of room makes every window write block. 0.3 million states (1.7
  million with two windows, which show nothing else). The safety part is also
  proved without any bound, and for UDP.
* `MetricsLoop`: a window of three ticks, so that a wake-up or a write is late by
  a fraction of a window, and a write as long as a window, so that a mark is over
  when the loop returns to it; four marks.
* `RoundDriver`: two servers, two rounds, a window of one tick, a tick of
  lateness and a traffic of three, just more than both. 0.7 million states. The stale Ack needs two rounds; a third shows nothing else.
* `Report`: two hosts, two add calls, so that an add can overlap the first, the
  latest or no snapshot; four windows of three ticks that end at once or four ticks
  late. Four is more than a window: the windows after a stall follow each other at
  once, a tick long, three of them begin in one second, and `MinWindow` leaves them
  out. 4.7 million states.
* `ClientRun`: two servers (one fails while the other does not), three Start
  broadcasts, one window each, and sockets that hold one frame: with a third Start a
  request stays in a full socket behind a reply that nobody reads. One of the servers may
  tear frames, so that a garbled stream stands beside a whole one; both doing so (2.4
  million states, not part of the runs) show nothing else. 0.9 million states.
* `ClientSetup`: files for 2 to 17 hosts (both parities and many rotations), with
  padded, descending, double and following ranges, and six files that are refused. The
  deadline is twice the longest delay, so that the delay reaches its ceiling; an
  attempt takes up to a tick; hosts come and go freely. 0.9 million states.
* `UdpFlow`: two workers that compete for numbers, payloads of two chunks, so that
  a payload can fail half-way, two tests, three numbers, three receptions: enough
  for a gap, a late datagram, a duplicate and a leftover. 1.6 million states.
* `TcpFlow`: three workers, three tests; a connection can be two tests old.

### Fairness, and why the code justifies it

* `ServerSession`: weak fairness of each task's next step (tokio polls ready
  tasks), of the two-second timer, of aborts and joins, of a write that has room
  and of one that meets a closed peer. The reply and the windows compete for a
  tokio `Mutex`, a FIFO queue, hence strong fairness of the reply. Nothing is
  assumed of the client; that its pump reads (`client.rs 221`) is a hypothesis of
  `SessionResponsive` alone. A test's windows owe nothing, but its cancelled loop does.
* `MetricsLoop`: the loop is polled and its write ends; that a write may *not* end
  is in `ServerSession`.
* `RoundDriver`: the client's own tasks and timers run; of the servers only metrics
  loops no later than `Lateness` are assumed. The model lets the control sockets take every Start
  and Stop, a limit of what `SignalStops` says; full sockets are in `ClientRun`.
* `ClientRun`: the client's own tasks, timers and thread run. Of a server, that it
  answers a Start it has room to answer (`SessionResponsive`), and that it notices
  the end of its connection. A Stop may go unanswered for ever, which is what the
  five-second drain is for.
* `TcpFlow`: accept, receive and send tasks run, and a stopped listener closes.
  When a next test starts is up to the client and not fair.

### What the violated runs say

1. `session_torn`: `RunningTest::stop` aborts a metrics loop blocked in
   `write_frame` (`server.rs 53-56`); the cut frame stays on the connection that
   the session goes on using, and what follows cannot be decoded. `ClientRun` has
   what this does to the run: the pump of that server ends, its later windows are
   lost although the run ends in success (the exception in `StreamedIsStored`), and
   nobody reads its replies any more (the one in `SignalEnds`).
2. `rounds_stale`: Acks carry no round, so one that arrives after
   `start_acks.store(0)` counts for the next round, which then tears a test down
   before its first mark.
3. `client_bail`: an Error before the first Ack ends a server's pump for the whole
   run, but not the Starts it is sent.
4. `tcp_old`: a worker can connect to the listener of the peer's previous test
   and be reset with it; it does not connect again in that round.

More observations, which no run of their own shows:

* The rounds of four hosts are those of `README.md:69-70` in the opposite order
  (`testplan.rs 24-25`).
* A UDP datagram names no test: a leftover of the previous test with a high number can
  fill the empty slot of the new one, and then the new test's own gaps below that
  number are not counted (`dataplane.rs 341-347`). `DropsAreGaps` speaks of whatever
  the test heard and describes this faithfully.
* Marks are on a fixed grid and a window starts where the last snapshot was taken
  (`server.rs 183, 281`), so a late window is followed by one that is shorter than a
  second, although `README.md:80-81` says "you should not see `window=0.66s` lines".
  `NoDrift` and `Tiled` are what does hold.
* The same shift moves the start of a window across a wall-clock second: two windows of
  one server are added up in one second and none in the next, where the
  comment of `analyze.rs 194` has one rate of every server per second. After a stall of
  some seconds the windows that are due are taken at once, and as many of them may fall
  into one second. `CrowdedAfterStall` says how far behind the loop must have been for
  that; nothing in the code bounds it. The comment of `analyze.rs 195-196` calls the total's
  average duration-weighted; lines 202-204 replace it by the mean of the seconds' sums.
* The exceptions in `SignalEnds` are needed. Once a pump has ended on an Error, or on a
  torn frame (for which its server's socket must have been full for two seconds), nobody
  reads that server's replies; its session blocks in one when the socket is full, and
  after that the client's next Start or Stop to it blocks for ever, signal or not
  (`client.rs 94-95, 174-182`). TLC shows it with `Cap = 1` and three Starts; with real
  socket buffers it takes hours.

## 4. What is proved

The invariance proofs follow one line: an inductive invariant (`IInv`; `SetupInv`;
`CountersInv`, `SharesInv` and `SentInv`) is stated at the end of the component's
module and tried with TLC, `Init => IInv` and `IInv /\ [Next]_vars => IInv'` are proved
action by action, and each theorem `Spec => []Inv` follows from `IInv => Inv`.

**ServerSessionProofs**, under `SessionAssumption` (bounds are natural numbers,
at least one connection and one frame of room): `TypeCorrect`, `OneTestCorrect`,
`NoOrphanTestCorrect`, `AckMeansQuietCorrect`, `StreamOrderCorrect`,
`ReceiversOwnedCorrect`. The properties are not inductive alone. `Ownership` says
which of `test` and `local` holds a test at each `pc` and of which generation;
without it, `JoinDone` could drop the wrong test. `FrameGens` bounds the
generations on the stream, so that a new test is younger than every frame already
written; `GenBound` keeps generations within the requests sent. The heart is
`JoinDone`: `stop` gives its test up only when nothing of it is alive.

In the same module, under the same assumption: `SessionImplementsContract`,
`Spec => ImplementsContract`. `Init` maps to the contract's `Init`, and under `RInv`
every action maps to one action of the contract or to a stutter; there is one lemma
per action. `RInv` adds three facts to `IInv` that the mapping needs: `Tokens`, that no test is
cancelled before `stop` has taken it up (only a cancelled loop ends by itself, which
for a test still in use would be a step the contract does not have); `SessionEnds`, that
a session is over only when its client is gone; and `LoopLives`, that a test that
nobody stops still has its metrics loop. `StreamOrder`, part of `IInv`, is what the
contract says of the stream in one formula; TLC checks the contract in its place.

**MetricsLoopProofs**, under `LoopAssumption`: `TypeCorrect`, `TiledCorrect`,
`NeverEarlyCorrect`, `NoDriftCorrect`. `Bookkeeping` ties `window_i`, `mono_start`
and `prev_total` to the last window, `PendingFollows` says the same of the
window being written, and `OnTime` says where the clock can be relative to the mark.
`NoDrift` needs `MaxWrite <= Window`: with longer writes it is false.
`OneLateWindowCorrect` needs no such bound; it rests on `NoneLateYet`: a cancelled loop
that has not ended has still to take the one window it may.

**RoundDriverProofs**, under `DriverAssumption` (at least one server, and a traffic
time longer than a window and the lateness together: a second and a tenth against a
second, so a tenth of a second for the lateness, `client.rs 208`):
`InStepCorrect`, `RoundCompleteCorrect`, `AcksOfThisRoundCorrect` and `TypeCorrect`,
for any number of servers and rounds. The client only counts Acks, so what matters is
whose they are. `OnTrack` places every server of a round in one of four stages (Start
unread, starting, running with its Ack on the way, at rest), and says that a round
begins with no Ack under way; from it `AcksOfThisRound` bounds the counter by the
servers whose Ack of this round was read. A counter that reaches `N` therefore means
that all `N` servers run the round. `WindowComing` carries that through the sleep:
each server's mark is ahead of the sleep's end, or its window is out. All of it is
conditional on `short = {}`, and `rounds_stale` shows that it must be.

**ClientRunProofs**, under `RunAssumption`: `PrintedIsStoredCorrect`,
`StreamedIsStoredCorrect` and `TypeCorrect`, for any number of servers, Starts and
windows and any socket size, with every failure switched on or off and any servers
tearing frames. Two equations are kept per server: printed windows are stored or queued
(`Queued`), emitted ones printed or in the socket, unless the stream is garbled
(`Streamed`). They give the properties once the queues are known to be empty at the end, which is a matter of order: `ShutdownLast`, that
the Shutdown event is behind every window because no pump is left to send one
(`PumpsOver`); `StopLast`, that a Stop is the last request and its Ack the last frame;
and `PumpEnd`, the list of reasons for which a pump can have ended.

**ClientSetupProofs**, on the plan, under `PlanAssumption`: `TypeCorrect`,
`OnePairPerRoundCorrect` and `FullCoverCorrect`, for a hostlist of any length.
`SlotsDistinct`, that the rotation permutes the slots, is enough for the second.
`FullCover` needs to know where every host is: `Schedule` gives the slots after k
rotations, and so the rounds, in closed form. `MeetSometime` then finds for two hosts
the round in which they are opposite, by solving for k modulo the number of rounds;
`MeetOnce` shows that there is only one; `PairCount` is the size of a round.

On the set-up, under `RetryAssumption` and `SetupAssumption` (the configurations ask
for a known family and expand to at most `MaxHosts` hosts; a lookup answers with a
sequence of addresses): `RetryBoundsCorrect`, `AddressesUsableCorrect`,
`SignalEndsSetupCorrect`. `OnTime` bounds the clock at each point of the loop, `Patient`
how long the other side can have been there unnoticed, `Heeded` the age of a cancelled
token; none of the three bounds is inductive without the remaining sleep (`left`) and
the attempt's own time (`spent`). `SetupRunsPlan`, `SetupSpec => Spec` of the plan,
carries the theorems about the schedule over to the whole set-up (`SetupPlanCorrect`).

**UdpFlowProofs**, under `UdpAssumption`: `SeqsAccountedCorrect`, `DropsAreGapsCorrect`
and `TypeCorrect`, for any number of workers, chunks, tests and receptions.
`NumbersUnique` adds to `SeqsAccounted` that numbers are below the counter and that a
number in a worker's hand is on no datagram; `OpenChunks` counts the chunks that
`packets_sent` is still to claim. On the receiving side `Expecting` says that the slot
is one past the highest number heard. `DropsAreGaps` is then kept by a reception in
order, by a gap, which adds exactly the missing numbers, and by a late or repeated
datagram, which moves a number from `Missing` to `Late` or changes neither.

**TcpFlowProofs**, under `TcpAssumption`: `SilencedByOldListenerCorrect`,
`DropIsAWorkerCorrect` and `TypeCorrect`. `Connections` ties a connection to the listener
that took it: a queued one to the test that is up, a reset one to a test that is over.

**ReportProofs**, under `CountersAssumption` and `ReportAssumption` (a finite hostlist), for
any hostlist, traffic, number of windows, length of a second and lateness: all four invariants of the run `report`, and `DeltaExactCorrect`.

* `CrowdedAfterStallCorrect`, `DeltaExactCorrect`. `Grid` says that the k-th window does
  not end before its mark, chains starts to ends and has no window empty; so window j
  begins at its place on the grid or later, and an earlier one can share its second only
  by being late itself. No bound on the lateness is needed. `Monotone`, that a base is
  not above its snapshot nor a snapshot above its counter, holds through a snapshot taken
  cell by cell, because a cell not loaded yet still shows its last value. It makes the
  saturating subtraction of `Snap::delta` exact.
* `SharesAddUpCorrect`, from `SharesInv`. `Flights` says that an add call has at most two
  `fetch_add`s outstanding, one of the total and one of a host. `Balance` then accounts
  for the `Gap` between the total's atomic and the hosts' together: traffic of no host,
  and calls half visible. `Overlap` carries that into a snapshot read cell by cell while
  adds land: it is off by at most one for each call it overlapped, counting those under
  way when it began. `Telescope` adds the windows up: their unexplained parts cancel
  but for the first snapshot's and the latest one's, however many windows there are.
* `SentIsReportedCorrect`, from `SentInv` as well. `Told` says that the windows of a
  host add up to its latest snapshot less the first. In the analysis, samples and windows too
  short to be any are all the windows (`ShownAndDropped`), no two windows become one row
  (`RowsDiffer`, from the grid), and the other server's rows are not among a pair's
  (`SamplesOf`).
* `ReportOrderedCorrect`. Fractions with positive denominators are ordered (`RateOrder`),
  so finitely many have extremes; a bound on each sample is one on the weighted average
  (`SumBound`), and a bound on each second's rate is one on the mean of the seconds
  (`SumRatesBound`, over the common denominator). `WorseOrder` shows that the order of
  `print_report` compares any two pairs and is transitive, `SortedList` that a finite set
  can then be sorted; what is cut off the sorted list is not worse than what is on it.

The sums in these properties are folds of the community modules, defined by recursion
over sets, and no induction theorem can be used on them. The laws needed (any member may be
taken out first, one value changed, zeros left out, disjoint sets joined, a set
renamed) are proved from the well-foundedness of strict inclusion on finite
sets: `Smallest` gives, of the subsets for which a law fails, one without a smaller one, and
taking a member out of it is the contradiction. `SumExists` and `SumUnique` show in the same way that
the recursive definition has exactly one solution.

### Only model-checked

* All liveness: fairness and `ENABLED` are outside the prover's reach.
* `ExpansionExact`. It compares two recursive definitions over patterns of any length,
  `expand_pattern`'s and the mixed-radix count of `NthName`, each with folds over sequences
  and the recursion of `Digits` inside it. The argument by a smallest failing case would
  have to be made for each of them in turn; the run checks it on patterns of each shape
  that the code distinguishes.
* The four violated properties, which are shown by a counterexample.

## 5. What is not modelled

* The database schema, the removal of old database files, sqlite itself.
* Byte formats: the JSON frames, `MAX_FRAME`, the UDP header; TOML.
* CPU and memory sampling, formatting, the clock calls. The rounding of `f64`.
* `parse_size` (floating point), host and port splitting, a range inside another
  pair of braces, interface addresses, socket options, DNS itself.
* Steps of the real-time clock.
* The command line's dispatch, and the scripts: no state.
* Several clients at once: the server serves one connection after another, and
  those in the backlog are new connections of `ServerSession`.

## 6. Plan

Done so far, in this order: session, metrics loop, rounds, client run, plan, the two
data planes, the proofs of the session, the loop and the plan; then the contract and
its refinement, counters and analysis, configuration, retries and set-up, and the
control sockets' limit in the client run; then the proofs of the rounds, the client
run, the schedule, the set-up, both data planes, the windows of the report, and the
sums and orders of the report.

Left to model: a mesh run whose servers start at different times, and when the
connect deadline of a worker suffices (`TcpFlow` has the rounds of a pairs run);
`add_drop` next to the other counters.

Left to prove: an abstract specification of the client run (windows move from emitted
to printed to stored, and success comes last) with `ClientRun` as its implementation;
that the servers of `RoundDriver` and `ClientRun` do no more than `SessionContract`
allows; `ExpansionExact`.
