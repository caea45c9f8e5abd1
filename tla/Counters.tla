------------------------------ MODULE Counters ------------------------------
(***************************************************************************)
(* The counters of one server (metrics.rs): AtomStats for the total and    *)
(* for every host of the hostlist, added to by the data plane's tasks and  *)
(* read by emit_window, all with Relaxed atomics and no lock.              *)
(*                                                                         *)
(* An add to the total and the add to the peer are two operations, and a   *)
(* snapshot is one load per cell.  Relaxed orders nothing between cells,   *)
(* so pending adds become visible, and loads happen, in any order.  The    *)
(* fields of one cell are loaded in one step: every property here is about *)
(* one field at a time.                                                    *)
(***************************************************************************)
EXTENDS Integers, Sequences, FiniteSets, FiniteSetsExt

CONSTANTS Hosts,     \* the hostlist
          Self,      \* the server these counters belong to
          Total,     \* the cell of the total
          MaxOps,    \* bound: add_sent and add_recv calls
          MaxRows,   \* bound: windows
          Second,    \* WINDOW_NS in ticks
          Lates      \* bound: how late a window may be taken, in ticks

ASSUME CountersAssumption == /\ IsFiniteSet(Hosts) /\ Self \in Hosts /\ Total \notin Hosts
                             /\ MaxOps \in Nat /\ MaxRows \in Nat
                             /\ Second \in Nat \ {0} /\ Lates \subseteq Nat

Cells  == Hosts \cup {Total}
Fields == {"sent", "recv"}
Zero   == [c \in Cells |-> [f \in Fields |-> 0]]

VARIABLES
  val,      \* the atomics: cell -> field -> value
  ops,      \* add calls made so far
  pending,  \* their fetch_adds not yet visible: <<op, field, cell>>
  stray,    \* history: per field, adds of traffic that belongs to no host
  pc,       \* metrics_loop: "first" and "load" (in snapshot_all), "wait", "done"
  loads,    \* cells snapshot_all has not loaded yet
  snap,     \* what it loaded
  prev,     \* prev_total and prev_peers
  end,      \* mono_end of the window being built
  rows,     \* the windows built, oldest first
  slack     \* history, of the first and of the latest snapshot: the add calls it
            \* overlapped, and the stray adds before it

adders == <<val, ops, pending, stray>>
reader == <<pc, loads, snap, prev, end, rows, slack>>
vars   == <<adders, reader>>

\* Add calls of which something is not yet visible.
InFlight == {p[1] : p \in pending}

Init ==
  /\ val = Zero /\ ops = 0 /\ pending = {} /\ stray = [f \in Fields |-> 0]
  /\ pc = "first" /\ loads = Cells /\ snap = Zero /\ prev = Zero /\ end = 0
  /\ rows = <<>>
  /\ LET s == [over |-> 0, stray |-> stray] IN slack = [first |-> s, load |-> s]

-----------------------------------------------------------------------------
(* The data plane.                                                         *)

\* An add call that begins while a snapshot is being taken overlaps it.
Overlaps == IF pc = "wait" THEN slack ELSE [slack EXCEPT ![pc].over = @ + 1]

\* The counters live as long as the test.
CanAdd == pc # "done" /\ ops < MaxOps

\* add_sent on the total and on the target, one call each of the send loop.
AddSent(h) ==
  /\ CanAdd /\ h # Self
  /\ ops' = ops + 1
  /\ pending' = pending \cup {<<ops', "sent", c>> : c \in {Total, h}}
  /\ slack' = Overlaps
  /\ UNCHANGED <<val, stray, pc, loads, snap, prev, end, rows>>

\* add_recv: the host is found by address or by the id in the packet, and no
\* server is a target of its own.
AddRecv(h) ==
  /\ CanAdd /\ h # Self
  /\ ops' = ops + 1
  /\ pending' = pending \cup {<<ops', "recv", c>> : c \in {Total, h}}
  /\ slack' = Overlaps
  /\ UNCHANGED <<val, stray, pc, loads, snap, prev, end, rows>>

\* Traffic of an address or id the hostlist does not have is in the total only.
AddStray ==
  /\ CanAdd
  /\ ops' = ops + 1
  /\ pending' = pending \cup {<<ops', "recv", Total>>}
  /\ stray' = [stray EXCEPT !["recv"] = @ + 1]
  /\ slack' = Overlaps
  /\ UNCHANGED <<val, pc, loads, snap, prev, end, rows>>

\* A fetch_add becomes visible.
Land ==
  /\ pc # "done"
  /\ \E p \in pending :
       /\ val' = [val EXCEPT ![p[3]][p[2]] = @ + 1]
       /\ pending' = pending \ {p}
  /\ UNCHANGED <<ops, stray, reader>>

-----------------------------------------------------------------------------
(* metrics_loop and emit_window.                                           *)

\* snapshot_all: one cell.
Load ==
  /\ pc \in {"first", "load"}
  /\ \E c \in loads :
       /\ snap' = [snap EXCEPT ![c] = val[c]]
       /\ loads' = loads \ {c}
  /\ UNCHANGED <<adders, pc, prev, end, rows, slack>>

\* The first snapshot is the base of the first window.
Based ==
  /\ pc = "first" /\ loads = {}
  /\ prev' = snap /\ pc' = "wait"
  /\ UNCHANGED <<adders, loads, snap, end, rows, slack>>

\* Where the last window ended: mono_start.
LastEnd == IF rows = <<>> THEN 0 ELSE rows[Len(rows)].start + rows[Len(rows)].dur

\* The bug: the first window's mark is the origin.
WindowEndsEarly ==
  /\ pc = "wait" /\ Len(rows) < MaxRows
  /\ \E late \in Lates : end' = Max({Len(rows) * Second, LastEnd + 1}) + late
  /\ pc' = "load" /\ loads' = Cells
  /\ slack' = [slack EXCEPT !["load"] = [over |-> Cardinality(InFlight), stray |-> stray]]
  /\ UNCHANGED <<adders, snap, prev, rows>>

\* The loop reaches the clock at the mark, or any time later: it was woken late, or
\* the last window's write took long.  When the mark is long past, the next window
\* follows at once; the clock has moved since the last one ended.  It is read before
\* the counters.
WindowEnds ==
  /\ pc = "wait" /\ Len(rows) < MaxRows
  /\ \E late \in Lates : end' = Max({(Len(rows) + 1) * Second, LastEnd + 1}) + late
  /\ pc' = "load" /\ loads' = Cells
  /\ slack' = [slack EXCEPT !["load"] = [over |-> Cardinality(InFlight), stray |-> stray]]
  /\ UNCHANGED <<adders, snap, prev, rows>>

\* Snap::delta, field by field, saturating at zero.
Delta(a, b) == [f \in Fields |-> IF b[f] > a[f] THEN b[f] - a[f] ELSE 0]

\* The bug: hosts the server sent nothing to are left out.
BuildWindowSentOnly(start, stop, from, to) ==
  LET d == [c \in Cells |-> Delta(from[c], to[c])]
  IN  [start |-> start, dur |-> stop - start, total |-> d[Total],
       peers |-> [h \in {x \in Hosts : d[x]["sent"] > 0} |-> d[h]]]

\* build_window: hosts with nothing to report are left out.
BuildWindow(start, stop, from, to) ==
  LET d == [c \in Cells |-> Delta(from[c], to[c])]
  IN  [start |-> start, dur |-> stop - start, total |-> d[Total],
       peers |-> [h \in {x \in Hosts : \E f \in Fields : d[x][f] > 0} |-> d[h]]]

\* The bug: after a window the hosts' base stays where it was.
EmitWindowKeepsPeers ==
  /\ pc = "load" /\ loads = {}
  /\ rows' = Append(rows, BuildWindow(LastEnd, end, prev, snap))
  /\ prev' = [prev EXCEPT ![Total] = snap[Total]] /\ pc' = "wait"
  /\ UNCHANGED <<adders, loads, snap, end, slack>>

EmitWindow ==
  /\ pc = "load" /\ loads = {}
  /\ rows' = Append(rows, BuildWindow(LastEnd, end, prev, snap))
  /\ prev' = snap /\ pc' = "wait"
  /\ UNCHANGED <<adders, loads, snap, end, slack>>

\* Cancelled between two windows: what was counted since the last is dropped, with
\* the locals of the loop and the adds that nobody will see.
Cancelled ==
  /\ pc = "wait"
  /\ pc' = "done"
  /\ pending' = {} /\ prev' = Zero /\ end' = 0
  /\ UNCHANGED <<val, ops, stray, loads, snap, rows, slack>>

CountersNext ==
  \/ \E h \in Hosts : AddSent(h) \/ AddRecv(h)
  \/ AddStray \/ Land \/ Load \/ Based \/ WindowEnds \/ EmitWindow \/ Cancelled

-----------------------------------------------------------------------------
(* Properties.                                                             *)

\* What the windows so far leave unexplained of a field: the totals less the
\* hosts' shares.
Shares(w, f)   == SumFunction([h \in DOMAIN w.peers |-> w.peers[h][f]])
Unexplained(f) == SumFunction([k \in 1 .. Len(rows) |-> rows[k].total[f] - Shares(rows[k], f)])

\* A window's total and its hosts' shares are read one atomic at a time while
\* they change, so they need not agree; but the difference never builds up over
\* a test: however many windows, it is the traffic of no host, give or take the
\* add calls that were in progress during the first and the latest snapshot
\* (metrics.rs 62-72, 95-99, 214-233; server.rs 253-282).
SharesAddUp ==
  (pc # "load" /\ rows # <<>>) =>
    \A f \in Fields :
      LET strays == slack["load"].stray[f] - slack["first"].stray[f]
          over   == slack["load"].over + slack["first"].over
      IN  Unexplained(f) \in (strays - over) .. (strays + over)

-----------------------------------------------------------------------------
(* The inductive invariant of ReportProofs.                                *)

Figures == [Fields -> Nat]
Counts  == [Cells -> Figures]

CountersOK ==
  /\ pc \in {"first", "load", "wait", "done"} /\ loads \subseteq Cells
  /\ val \in Counts /\ snap \in Counts /\ prev \in Counts
  /\ ops \in Nat /\ pending \subseteq Nat \X Fields \X Cells
  /\ end \in Nat
  /\ rows \in Seq({rows[k] : k \in 1 .. Len(rows)})
  /\ \A k \in 1 .. Len(rows) : rows[k].start \in Nat /\ rows[k].dur \in Nat

\* No counter goes back between two snapshots: a cell that is not loaded yet still
\* shows what it showed in the last one.
Monotone ==
  \A c \in Cells, f \in Fields : prev[c][f] <= snap[c][f] /\ snap[c][f] <= val[c][f]

\* Where a row ends.
EndOf(w) == w.start + w.dur

\* The k-th window does not end before its mark, none is empty, and each begins where
\* the one before it ended.
Grid ==
  /\ \A k \in 1 .. Len(rows) :
       /\ k * Second <= EndOf(rows[k]) /\ rows[k].dur > 0
       /\ rows[k].start = IF k = 1 THEN 0 ELSE EndOf(rows[k - 1])
       /\ \A i \in 1 .. k - 1 : EndOf(rows[i]) <= rows[k].start
  /\ pc = "load" => (Len(rows) + 1) * Second <= end /\ LastEnd < end

\* Snap::delta saturates at zero, but never has to: what a window says of a cell is
\* what was added to it between the two snapshots, so windows laid end to end lose
\* nothing (metrics.rs 62-72).
DeltaExact ==
  \A c \in Cells, f \in Fields : prev[c][f] + Delta(prev[c], snap[c])[f] = snap[c][f]

CountersInv == CountersOK /\ Monotone /\ Grid

\* How far the total is ahead of the hosts together.
Gap(c, f) == c[Total][f] - SumFunction([h \in Hosts |-> c[h][f]])

\* An add call has at most two fetch_adds outstanding, both of one field: one of the
\* total, one of a host.
Flights ==
  /\ pending \subseteq (1 .. ops) \X Fields \X Cells
  /\ \A p, q \in pending : p[1] = q[1] =>
       p[2] = q[2] /\ ((p[3] = Total <=> q[3] = Total) => p = q)

\* Add calls of a field that only miss in the total, and that only miss in a host.
OnlyTotal(f) == {i \in InFlight : \A p \in pending : p[1] = i => p[2] = f /\ p[3] = Total}
OnlyHost(f)  == {i \in InFlight : \A p \in pending : p[1] = i => p[2] = f /\ p[3] # Total}

\* What the atomics do not explain of the total is the traffic of no host and what
\* is half visible.
Balance ==
  pc # "done" => \A f \in Fields :
    Gap(val, f) = stray[f] + Cardinality(OnlyHost(f)) - Cardinality(OnlyTotal(f))

\* What the snapshot in progress will have read, if nothing lands any more.
Shown == [c \in Cells |-> IF c \in loads THEN val[c] ELSE snap[c]]

\* A snapshot is off by at most one for each add call it overlapped: by nothing for
\* one that has not landed at all, and in one direction only for one half landed.
Overlap ==
  pc \in {"first", "load"} =>
    LET s == slack[pc]
        over == s.over - Cardinality(InFlight)
    IN  /\ over >= 0
        /\ \A f \in Fields :
             /\ Gap(Shown, f) - s.stray[f] <= Cardinality(OnlyHost(f)) + over
             /\ s.stray[f] - Gap(Shown, f) <= Cardinality(OnlyTotal(f)) + over

Within(d, n) == d <= n /\ -d <= n

\* The windows' unexplained parts telescope: together they are what the base of the
\* next window leaves unexplained, less that of the first snapshot.
Telescope ==
  /\ pc = "first" => rows = <<>>
  /\ pc = "wait" => prev = snap
  /\ pc = "done" => SharesAddUp
  /\ \A f \in Fields :
       /\ pc \in {"wait", "load"} =>
            Within(Gap(prev, f) - Unexplained(f) - slack["first"].stray[f], slack["first"].over)
       /\ pc = "wait" /\ rows # <<>> =>
            Within(Gap(prev, f) - slack["load"].stray[f], slack["load"].over)

HistoryOK ==
  /\ stray \in Figures
  /\ slack \in [{"first", "load"} -> [over : Nat, stray : Figures]]
  /\ \A k \in 1 .. Len(rows) :
       /\ rows[k].total \in Figures /\ DOMAIN rows[k].peers \subseteq Hosts
       /\ rows[k].peers \in [DOMAIN rows[k].peers -> Figures]

\* Add calls of a field whose fetch_add on a cell is outstanding.
Missing(f, c) == {i \in 1 .. ops : <<i, f, c>> \in pending}

\* The first snapshot overlaps every call there was, and shows no more than those.
Counted ==
  pc = "first" =>
    /\ slack["first"].over = ops
    /\ \A c \in Cells, f \in Fields : val[c][f] + Cardinality(Missing(f, c)) <= ops

\* What the windows say was sent to a host.
SentIn(w, h) == IF h \in DOMAIN w.peers THEN w.peers[h]["sent"] ELSE 0
SentSoFar(h) == SumFunction([k \in 1 .. Len(rows) |-> SentIn(rows[k], h)])

\* It is what the latest window's snapshot shows, but for what the first one showed.
Told ==
  pc # "first" => \A h \in Hosts :
    LET latest == IF pc = "done" THEN snap[h]["sent"] ELSE prev[h]["sent"]
    IN  SentSoFar(h) <= latest /\ latest - SentSoFar(h) <= slack["first"].over

SharesInv == HistoryOK /\ Flights /\ Balance /\ Overlap /\ Telescope
=============================================================================
