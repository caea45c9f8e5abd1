---------------------------- MODULE MetricsLoop ----------------------------
(***************************************************************************)
(* The metrics loop of one test (server.rs, metrics_loop, wait_until_mono, *)
(* emit_window) against a clock.  Window i is due at the grid mark         *)
(* origin + i * Window; it is measured from the end of window i - 1 to the *)
(* instant the task actually looks at the clock, which is at the mark at   *)
(* the earliest and may be later: the task is woken late, or the write of  *)
(* the previous window to the control socket held it up.                   *)
(*                                                                         *)
(* The counters are the data plane's monotone AtomStats; one abstract      *)
(* counter stands for each of them.                                        *)
(***************************************************************************)
EXTENDS Integers, Sequences

CONSTANTS Window,    \* WINDOW_NS in clock ticks
          MaxLate,   \* bound: ticks past a mark before the loop must be scheduled
          MaxWrite,  \* bound: ticks a window's write to the control socket may take
          MaxTime,   \* bound: the clock
          MaxCount   \* bound: the traffic counter

ASSUME LoopAssumption == /\ Window \in Nat \ {0}
                         /\ MaxLate \in Nat
                         /\ MaxWrite \in Nat
                         /\ MaxTime \in Nat
                         /\ MaxCount \in Nat

VARIABLES
  now,         \* CLOCK_MONOTONIC, from the loop's origin
  counter,     \* bytes counted so far by the data plane
  cancelled,   \* the test's CancellationToken
  cancel_at,   \* when it was cancelled (0 before)
  pc,          \* "wait": top of wait_until_mono; "sleep": in its select! or spin;
               \* "write": in write_frame_locked; "done"
  since,       \* how long the current write has lasted
  window_i,    \* index of the window being waited for
  mono_start,  \* where the next window starts
  prev_total,  \* the counter at the last completed emit_window
  pending,     \* the window being written
  windows      \* the windows emitted, oldest first

vars == <<now, counter, cancelled, cancel_at, pc, since, window_i, mono_start, prev_total,
          pending, windows>>

WindowRec == [start : 0 .. MaxTime, end : 0 .. MaxTime,
              delta : 0 .. MaxCount, total : 0 .. MaxCount]
NoWindow  == [start |-> 0, end |-> 0, delta |-> 0, total |-> 0]

TypeOK ==
  /\ now \in 0 .. MaxTime
  /\ counter \in 0 .. MaxCount
  /\ cancelled \in BOOLEAN
  /\ cancel_at \in 0 .. MaxTime
  /\ pc \in {"wait", "sleep", "write", "done"}
  /\ since \in 0 .. MaxWrite
  /\ window_i \in Nat \ {0}
  /\ mono_start \in 0 .. MaxTime
  /\ prev_total \in 0 .. MaxCount
  /\ pending \in WindowRec
  /\ windows \in Seq(WindowRec)

\* Traffic may have been counted before the loop takes its first snapshot.
Init ==
  /\ now = 0 /\ cancelled = FALSE /\ cancel_at = 0
  /\ counter \in 0 .. MaxCount
  /\ pc = "wait" /\ since = 0 /\ window_i = 1 /\ mono_start = 0
  /\ prev_total = counter
  /\ pending = NoWindow /\ windows = <<>>

\* The bug: each deadline one window after the previous snapshot.
DeadlineFromLast == mono_start + Window

\* The next mark of the grid.
Deadline == window_i * Window

-----------------------------------------------------------------------------
\* The clock, and with it how late the loop may be scheduled and how long a
\* write may last.
Tick ==
  /\ now < MaxTime
  /\ pc \in {"wait", "sleep"} => now < Deadline + MaxLate
  /\ pc = "write" => since < MaxWrite
  /\ now' = now + 1
  /\ since' = IF pc = "write" THEN since + 1 ELSE 0
  /\ UNCHANGED <<counter, cancelled, cancel_at, pc, window_i, mono_start, prev_total,
                 pending, windows>>

\* AtomStats::add_*: the data plane counts, at any time.
Traffic ==
  /\ counter < MaxCount
  /\ counter' = counter + 1
  /\ UNCHANGED <<now, cancelled, cancel_at, pc, since, window_i, mono_start, prev_total,
                 pending, windows>>

Cancel ==
  /\ ~cancelled
  /\ cancelled' = TRUE /\ cancel_at' = now
  /\ UNCHANGED <<now, counter, pc, since, window_i, mono_start, prev_total, pending, windows>>

\* wait_until_mono returns true: the clock is read before the token at the top of
\* the loop, and the spin reads only the clock once the mark has passed.  Then
\* emit_window takes its snapshot.
Snapshot ==
  /\ pc \in {"wait", "sleep"} /\ now >= Deadline
  /\ pending' = [start |-> mono_start, end |-> now,
                 delta |-> counter - prev_total, total |-> counter]
  /\ pc' = "write" /\ since' = 0
  /\ UNCHANGED <<now, counter, cancelled, cancel_at, window_i, mono_start, prev_total, windows>>

\* The mark is ahead and the token not cancelled: sleep, then spin.
Sleep ==
  /\ pc = "wait" /\ now < Deadline /\ ~cancelled
  /\ pc' = "sleep"
  /\ UNCHANGED <<now, counter, cancelled, cancel_at, since, window_i, mono_start, prev_total,
                 pending, windows>>

\* The bug: the sleep does not watch the token.
CancelSeenAtTop ==
  /\ cancelled
  /\ pc = "wait" /\ now < Deadline
  /\ pc' = "done"
  /\ UNCHANGED <<now, counter, cancelled, cancel_at, since, window_i, mono_start, prev_total,
                 pending, windows>>

\* wait_until_mono returns false.  The select! returns on the token without
\* another look at the clock, so a loop woken late may drop a window that was due.
CancelSeen ==
  /\ cancelled
  /\ pc = "sleep" \/ (pc = "wait" /\ now < Deadline)
  /\ pc' = "done"
  /\ UNCHANGED <<now, counter, cancelled, cancel_at, since, window_i, mono_start, prev_total,
                 pending, windows>>

\* The bug: the totals are taken again after the write instead of keeping the
\* snapshot the window was built from.
WindowSentResnaps ==
  /\ pc = "write"
  /\ windows' = Append(windows, pending)
  /\ prev_total' = counter /\ mono_start' = pending.end
  /\ window_i' = window_i + 1 /\ since' = 0
  /\ pc' = IF cancelled THEN "done" ELSE "wait"
  /\ UNCHANGED <<now, counter, cancelled, cancel_at, pending>>

\* The bug: the loop does not look at the token after a window.
WindowSentIgnoresCancel ==
  /\ pc = "write"
  /\ windows' = Append(windows, pending)
  /\ prev_total' = pending.total /\ mono_start' = pending.end
  /\ window_i' = window_i + 1 /\ since' = 0
  /\ pc' = "wait"
  /\ UNCHANGED <<now, counter, cancelled, cancel_at, pending>>

\* The write is over (its result is ignored): the snapshot becomes the base of
\* the next window, and a cancelled loop ends here.
WindowSent ==
  /\ pc = "write"
  /\ windows' = Append(windows, pending)
  /\ prev_total' = pending.total /\ mono_start' = pending.end
  /\ window_i' = window_i + 1 /\ since' = 0
  /\ pc' = IF cancelled THEN "done" ELSE "wait"
  /\ UNCHANGED <<now, counter, cancelled, cancel_at, pending>>

Next == Tick \/ Traffic \/ Cancel \/ Snapshot \/ Sleep \/ CancelSeen \/ WindowSent

Spec == Init /\ [][Next]_vars

\* The runtime polls the loop; its write ends (the test's stop() aborts one that
\* does not, which ServerSession models).
FairSpec == Spec /\ WF_vars(Snapshot \/ Sleep \/ CancelSeen) /\ WF_vars(WindowSent)

-----------------------------------------------------------------------------
(* Properties.                                                             *)

\* Windows tile the test: the first starts at the loop's origin, each starts
\* where the one before ended, and counts exactly the traffic between the two
\* snapshots, so nothing is counted twice or lost between two windows
\* (emit_window, server.rs 250-282).
Tiled ==
  \A k \in 1 .. Len(windows) :
    /\ windows[k].start = IF k = 1 THEN 0 ELSE windows[k - 1].end
    /\ k > 1 => windows[k].delta = windows[k].total - windows[k - 1].total

\* No window ends before its mark on the grid (server.rs 183-190, 212-237).
NeverEarly == \A k \in 1 .. Len(windows) : windows[k].end >= k * Window

\* As long as no write lasts longer than a window, lateness does not add up: the
\* k-th window ends within MaxLate of its mark however late the earlier ones
\* were (server.rs 183, the grid from `origin').
NoDrift ==
  MaxWrite <= Window =>
    \A k \in 1 .. Len(windows) : windows[k].end <= k * Window + MaxLate

\* After its token is cancelled the loop takes at most one more snapshot
\* (server.rs 194-206, 215-221).
OneLateWindow ==
  cancelled => \A i, j \in 1 .. Len(windows) :
                 (windows[i].end > cancel_at /\ windows[j].end > cancel_at) => i = j

\* A cancelled loop ends (server.rs 187-190, 203-206).
LoopEnds == cancelled ~> pc = "done"

-----------------------------------------------------------------------------
(* The inductive invariant of MetricsLoopProofs.                           *)

\* window_i counts the windows, and mono_start and prev_total are the end of the
\* last one.
Bookkeeping ==
  /\ Len(windows) = window_i - 1
  /\ mono_start = IF window_i = 1 THEN 0 ELSE windows[window_i - 1].end
  /\ window_i > 1 => prev_total = windows[window_i - 1].total
  /\ mono_start <= now /\ prev_total <= counter

\* The window being written follows the last one and was not taken early.
PendingFollows ==
  pc = "write" =>
    /\ pending.start = mono_start
    /\ Deadline <= pending.end /\ pending.end <= now
    /\ pending.delta = pending.total - prev_total
    /\ pending.total <= counter

\* Where the clock can be, relative to the mark, while writes fit in a window.
OnTime ==
  MaxWrite <= Window =>
    /\ pc \in {"wait", "sleep"} => now <= Deadline + MaxLate
    /\ pc = "write" => now <= pending.end + since /\ pending.end <= Deadline + MaxLate

IInv == TypeOK /\ Bookkeeping /\ PendingFollows /\ OnTime /\ Tiled /\ NeverEarly /\ NoDrift

\* No window ends in the future, and a cancelled loop that has not ended has yet
\* to emit the window it may take after its cancellation.
NoneLateYet ==
  /\ \A k \in 1 .. Len(windows) : windows[k].end <= now
  /\ (cancelled /\ pc # "done") => \A k \in 1 .. Len(windows) : windows[k].end <= cancel_at
=============================================================================
