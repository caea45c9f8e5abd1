------------------------- MODULE MetricsLoopProofs -------------------------
(***************************************************************************)
(* Proofs about MetricsLoop, for every value of its constants: windows     *)
(* tile the test, none ends before its mark, and lateness does not add up. *)
(*                                                                         *)
(* Only two steps matter: Snapshot, which builds the window being written  *)
(* from the base the last one left, and WindowSent, which makes it the     *)
(* last one.  Every other step moves the clock, the counter or the token.  *)
(***************************************************************************)
EXTENDS MetricsLoop, SequenceTheorems, TLAPS

-----------------------------------------------------------------------------
(* The grid.                                                               *)

\* Consecutive marks are one window apart.
LEMMA MarkStep ==
  ASSUME NEW i \in Nat, NEW w \in Nat
  PROVE  (i + 1) * w = i * w + w /\ i * w \in Nat
OBVIOUS

\* What appending the finished window does to the list of windows.
LEMMA SentFacts ==
  ASSUME TypeOK
  PROVE  /\ Append(windows, pending) \in Seq(WindowRec)
         /\ Len(Append(windows, pending)) = Len(windows) + 1
         /\ \A k \in 1 .. Len(windows) : Append(windows, pending)[k] = windows[k]
         /\ Append(windows, pending)[Len(windows) + 1] = pending
BY AppendProperties DEF TypeOK

\* A window taken now is a well-formed record, because the counter only grows.
LEMMA SnapshotRec ==
  ASSUME TypeOK, Bookkeeping
  PROVE  [start |-> mono_start, end |-> now, delta |-> counter - prev_total, total |-> counter]
           \in WindowRec
<1>1. counter - prev_total \in 0 .. MaxCount
  BY LoopAssumption DEF TypeOK, Bookkeeping
<1> QED BY <1>1 DEF TypeOK, WindowRec

-----------------------------------------------------------------------------
(* The steps.                                                              *)

\* The loop starts at its origin, before the first mark, with no window.
LEMMA InitIInv == Init => IInv
<1> SUFFICES ASSUME Init PROVE IInv
  OBVIOUS
<1>1. windows \in Seq(WindowRec) /\ Len(windows) = 0
  BY EmptySeq DEF Init
<1>2. NoWindow \in WindowRec
  BY LoopAssumption DEF NoWindow, WindowRec
<1>3. TypeOK
  <2>1. cancelled \in BOOLEAN
    BY DEF Init
  <2>2. /\ now \in 0 .. MaxTime /\ cancel_at \in 0 .. MaxTime /\ mono_start \in 0 .. MaxTime
        /\ since \in 0 .. MaxWrite /\ window_i \in Nat \ {0}
        /\ counter \in 0 .. MaxCount /\ prev_total \in 0 .. MaxCount
    BY LoopAssumption DEF Init
  <2>3. pc \in {"wait", "sleep", "write", "done"} /\ pending \in WindowRec
    BY <1>2 DEF Init
  <2> QED BY <1>1, <2>1, <2>2, <2>3 DEF TypeOK
<1>4. Bookkeeping /\ PendingFollows
  BY <1>1, <1>3 DEF Init, TypeOK, Bookkeeping, PendingFollows
<1>5. OnTime
  <2>1. Deadline = Window /\ now = 0 /\ pc = "wait"
    BY LoopAssumption DEF Init, Deadline
  <2> QED BY <2>1, LoopAssumption DEF OnTime
<1>6. Tiled /\ NeverEarly /\ NoDrift
  BY <1>1 DEF Tiled, NeverEarly, NoDrift
<1> QED BY <1>3, <1>4, <1>5, <1>6 DEF IInv

\* Time, traffic and the token do not touch the windows.
LEMMA EnvironmentStep ==
  ASSUME IInv, Tick \/ Traffic \/ Cancel
  PROVE  IInv'
<1>1. UNCHANGED <<pc, window_i, mono_start, prev_total, pending, windows>>
  BY DEF Tick, Traffic, Cancel
<1>2. TypeOK'
  <2>1. cancelled' \in BOOLEAN
    BY DEF IInv, TypeOK, Tick, Traffic, Cancel
  <2>2. now' \in 0 .. MaxTime /\ cancel_at' \in 0 .. MaxTime
    BY LoopAssumption DEF IInv, TypeOK, Tick, Traffic, Cancel
  <2>3. since' \in 0 .. MaxWrite
    BY LoopAssumption DEF IInv, TypeOK, Tick, Traffic, Cancel
  <2>4. counter' \in 0 .. MaxCount
    BY LoopAssumption DEF IInv, TypeOK, Tick, Traffic, Cancel
  <2> QED BY <1>1, <2>1, <2>2, <2>3, <2>4 DEF IInv, TypeOK
<1>3. now <= now' /\ counter <= counter'
  BY DEF IInv, TypeOK, Tick, Traffic, Cancel
<1>4. Bookkeeping'
  BY <1>1, <1>2, <1>3, SMTT(60) DEF IInv, Bookkeeping, TypeOK
<1>5. PendingFollows'
  <2>1. Deadline' = Deadline
    BY <1>1 DEF Deadline
  <2>2. pending.end \in Nat /\ pending.total \in Nat /\ now \in Nat /\ now' \in Nat
        /\ counter \in Nat /\ counter' \in Nat
    BY <1>2 DEF IInv, TypeOK, WindowRec
  <2> QED BY <1>1, <1>3, <2>1, <2>2 DEF IInv, PendingFollows
<1>6. OnTime'
  <2>1. CASE Tick
    BY <1>1, <2>1, LoopAssumption, MarkStep, SMTT(60) DEF IInv, OnTime, Deadline, Tick, TypeOK, WindowRec
  <2>2. CASE Traffic \/ Cancel
    <3>1. now' = now /\ since' = since
      BY <2>2 DEF Traffic, Cancel
    <3> QED BY <1>1, <3>1 DEF IInv, OnTime, Deadline
  <2> QED BY <2>1, <2>2
<1>7. Tiled' /\ NeverEarly' /\ NoDrift'
  BY <1>1 DEF IInv, Tiled, NeverEarly, NoDrift
<1> QED BY <1>2, <1>4, <1>5, <1>6, <1>7 DEF IInv

\* wait_until_mono going to sleep or giving up changes only the control point.
LEMMA WaitStep ==
  ASSUME IInv, Sleep \/ CancelSeen
  PROVE  IInv'
<1>1. UNCHANGED <<now, counter, cancelled, cancel_at, since, window_i, mono_start, prev_total,
                  pending, windows>>
  BY DEF Sleep, CancelSeen
<1>2. pc' \in {"sleep", "done"} /\ pc \in {"wait", "sleep"}
  BY DEF Sleep, CancelSeen
<1>3. TypeOK'
  BY <1>1, <1>2 DEF IInv, TypeOK
<1>4. Bookkeeping' /\ PendingFollows' /\ OnTime'
  BY <1>1, <1>2 DEF IInv, Bookkeeping, PendingFollows, OnTime, Deadline
<1>5. Tiled' /\ NeverEarly' /\ NoDrift'
  BY <1>1 DEF IInv, Tiled, NeverEarly, NoDrift
<1> QED BY <1>3, <1>4, <1>5 DEF IInv

\* emit_window's snapshot continues where the last window ended, at the mark or
\* after it.
LEMMA SnapshotStep ==
  ASSUME IInv, Snapshot
  PROVE  IInv'
<1>1. UNCHANGED <<now, counter, cancelled, cancel_at, window_i, mono_start, prev_total, windows>>
  BY DEF Snapshot
<1>2. /\ pending' = [start |-> mono_start, end |-> now,
                     delta |-> counter - prev_total, total |-> counter]
      /\ pc' = "write" /\ since' = 0 /\ pc \in {"wait", "sleep"} /\ Deadline <= now
  BY DEF Snapshot, IInv, TypeOK, Deadline
<1>3. TypeOK'
  BY <1>1, <1>2, SnapshotRec, LoopAssumption DEF IInv, TypeOK
<1>4. /\ pending'.start = mono_start /\ pending'.end = now
      /\ pending'.delta = counter - prev_total /\ pending'.total = counter
  BY <1>2
<1>5. Bookkeeping'
  BY <1>1 DEF IInv, Bookkeeping
<1>6. PendingFollows'
  BY <1>1, <1>2, <1>4 DEF IInv, TypeOK, PendingFollows, Deadline
<1>7. OnTime'
  BY <1>1, <1>2, <1>4 DEF IInv, TypeOK, OnTime, Deadline
<1>8. Tiled' /\ NeverEarly' /\ NoDrift'
  BY <1>1 DEF IInv, Tiled, NeverEarly, NoDrift
<1> QED BY <1>3, <1>5, <1>6, <1>7, <1>8 DEF IInv

\* The window written becomes the last one and the base of the next.
LEMMA WindowSentStep ==
  ASSUME IInv, WindowSent
  PROVE  IInv'
<1> DEFINE n == Len(windows)
<1>1. /\ windows' = Append(windows, pending) /\ window_i' = window_i + 1 /\ since' = 0
      /\ prev_total' = pending.total /\ mono_start' = pending.end
      /\ pc = "write" /\ pc' \in {"wait", "done"}
      /\ UNCHANGED <<now, counter, cancelled, cancel_at, pending>>
  BY DEF WindowSent
<1>2. n = window_i - 1 /\ n \in Nat /\ window_i \in Nat
  BY DEF IInv, Bookkeeping, TypeOK
<1>3. /\ windows' \in Seq(WindowRec) /\ Len(windows') = n + 1
      /\ \A k \in 1 .. n : windows'[k] = windows[k]
      /\ windows'[n + 1] = pending
  BY <1>1, SentFacts DEF IInv
<1>4. /\ pending \in WindowRec /\ pending.start = mono_start
      /\ Deadline <= pending.end /\ pending.end <= now
      /\ pending.delta = pending.total - prev_total /\ pending.total <= counter
  BY <1>1 DEF IInv, TypeOK, PendingFollows
<1>5. TypeOK'
  BY <1>1, <1>3, <1>4, LoopAssumption, SMTT(60) DEF IInv, TypeOK, WindowRec
<1>6. Bookkeeping'
  BY <1>1, <1>2, <1>3, <1>4 DEF IInv, Bookkeeping
<1>7. PendingFollows'
  BY <1>1 DEF PendingFollows
<1>8. Deadline' = Deadline + Window
  BY <1>1, <1>2, LoopAssumption, MarkStep DEF Deadline
<1>9. OnTime'
  <2> SUFFICES ASSUME MaxWrite <= Window, pc' = "wait"
               PROVE  now' <= Deadline' + MaxLate
    BY <1>1 DEF OnTime
  <2>1. now <= pending.end + since /\ pending.end <= Deadline + MaxLate /\ since <= MaxWrite
    BY <1>1 DEF IInv, OnTime, TypeOK
  <2>2. Deadline \in Nat
    BY <1>2, LoopAssumption, MarkStep DEF Deadline
  <2>3. now \in Int /\ since \in Int /\ pending.end \in Int
    BY <1>4 DEF IInv, TypeOK, WindowRec
  <2> QED BY <1>1, <1>8, <2>1, <2>2, <2>3, LoopAssumption
<1>10. Tiled'
  <2> SUFFICES ASSUME NEW k \in 1 .. n + 1
               PROVE  /\ windows'[k].start = IF k = 1 THEN 0 ELSE windows'[k - 1].end
                      /\ k > 1 => windows'[k].delta = windows'[k].total - windows'[k - 1].total
    BY <1>3 DEF Tiled
  <2>1. CASE k \in 1 .. n
    <3>1. windows'[k] = windows[k] /\ (k > 1 => windows'[k - 1] = windows[k - 1])
      BY <1>2, <1>3, <2>1
    <3> QED BY <2>1, <3>1 DEF IInv, Tiled
  <2>2. CASE k = n + 1
    <3>1. windows'[k] = pending /\ (k > 1 => windows'[k - 1] = windows[n])
      BY <1>2, <1>3, <2>2
    <3> QED BY <1>2, <1>4, <2>2, <3>1 DEF IInv, Bookkeeping
  <2> QED BY <1>2, <2>1, <2>2
<1>11. NeverEarly'
  <2>1. pending.end >= (n + 1) * Window
    BY <1>2, <1>4, LoopAssumption DEF Deadline, WindowRec
  <2> QED BY <1>2, <1>3, <2>1 DEF IInv, NeverEarly
<1>12. NoDrift'
  <2>1. MaxWrite <= Window => pending.end <= (n + 1) * Window + MaxLate
    BY <1>1, <1>2 DEF IInv, OnTime, Deadline
  <2> QED BY <1>2, <1>3, <2>1 DEF IInv, NoDrift
<1> QED BY <1>5, <1>6, <1>7, <1>9, <1>10, <1>11, <1>12 DEF IInv

-----------------------------------------------------------------------------
(* The theorems.                                                           *)

\* The inductive invariant is kept by every step.
LEMMA NextIInv == IInv /\ [Next]_vars => IInv'
<1>1. ASSUME IInv, UNCHANGED vars PROVE IInv'
  BY <1>1 DEF vars, IInv, TypeOK, Bookkeeping, PendingFollows, OnTime, Deadline, Tiled,
     NeverEarly, NoDrift
<1> QED BY <1>1, EnvironmentStep, WaitStep, SnapshotStep, WindowSentStep DEF Next

\* The inductive invariant of the metrics loop holds in every behaviour.
THEOREM Invariance == Spec => []IInv
BY InitIInv, NextIInv, PTL DEF Spec

\* Every variable of the loop keeps its type; a window's counts are never
\* negative.
THEOREM TypeCorrect == Spec => []TypeOK
<1>1. IInv => TypeOK
  BY DEF IInv
<1> QED BY <1>1, Invariance, PTL

\* Windows tile the test, for any lateness and any traffic: nothing is counted
\* twice or lost between two windows.
THEOREM TiledCorrect == Spec => []Tiled
<1>1. IInv => Tiled
  BY DEF IInv
<1> QED BY <1>1, Invariance, PTL

\* No window is closed before its mark on the grid.
THEOREM NeverEarlyCorrect == Spec => []NeverEarly
<1>1. IInv => NeverEarly
  BY DEF IInv
<1> QED BY <1>1, Invariance, PTL

\* While writes fit in a window, lateness does not add up from window to window.
THEOREM NoDriftCorrect == Spec => []NoDrift
<1>1. IInv => NoDrift
  BY DEF IInv
<1> QED BY <1>1, Invariance, PTL

-----------------------------------------------------------------------------
(* After the cancellation.                                                 *)

\* Every step keeps the windows taken after the cancellation to one: the loop
\* looks at its token between two windows.
LEMMA NextLate ==
  ASSUME IInv, NoneLateYet, OneLateWindow, [Next]_vars
  PROVE  NoneLateYet' /\ OneLateWindow'
<1> USE DEF IInv, TypeOK, NoneLateYet, OneLateWindow
<1>e. now \in Int /\ cancel_at \in Int /\ \A k \in 1 .. Len(windows) : windows[k].end \in Int
  <2>1. now \in Int /\ cancel_at \in Int
    BY LoopAssumption
  <2>2. \A k \in 1 .. Len(windows) : windows[k] \in WindowRec
    BY ElementOfSeq
  <2>3. \A k \in 1 .. Len(windows) : windows[k].end \in 0 .. MaxTime
    BY <2>2 DEF WindowRec
  <2> QED BY <2>1, <2>3, LoopAssumption
<1>1. CASE UNCHANGED vars
  BY <1>1 DEF vars
<1>2. CASE Tick
  <2>1. UNCHANGED <<windows, cancelled, cancel_at, pc>> /\ now' = now + 1
    BY <1>2 DEF Tick
  <2>2. \A k \in 1 .. Len(windows) : windows[k].end <= now'
    BY <1>e, <2>1
  <2> QED BY <2>1, <2>2
<1>3. CASE Traffic
  BY <1>3 DEF Traffic
<1>4. CASE Cancel
  <2>1. UNCHANGED <<windows, now>> /\ cancel_at' = now
    BY <1>4 DEF Cancel
  <2>2. \A k \in 1 .. Len(windows) : windows[k].end <= cancel_at' /\ ~(windows[k].end > cancel_at')
    BY <1>e, <2>1
  <2> QED BY <2>1, <2>2
<1>5. CASE Snapshot \/ Sleep \/ CancelSeen
  <2>1. UNCHANGED <<windows, now, cancelled, cancel_at>> /\ pc # "done"
    BY <1>5 DEF Snapshot, Sleep, CancelSeen
  <2> QED BY <2>1
<1>6. CASE WindowSent
  <2> DEFINE n == Len(windows)
  <2>1. /\ windows' = Append(windows, pending) /\ pc = "write"
        /\ pc' = (IF cancelled THEN "done" ELSE "wait")
        /\ UNCHANGED <<now, cancelled, cancel_at>>
    BY <1>6 DEF WindowSent
  <2>2. /\ Len(windows') = n + 1 /\ n \in Nat
        /\ \A k \in 1 .. n : windows'[k] = windows[k]
        /\ windows'[n + 1] = pending /\ pending.end <= now
    BY <2>1, SentFacts DEF PendingFollows
  <2>3. \A k \in 1 .. n + 1 : windows'[k].end <= now
    BY <2>2
  <2>4. NoneLateYet'
    BY <2>1, <2>2, <2>3
  <2>5. ASSUME cancelled, NEW i \in 1 .. n + 1, windows'[i].end > cancel_at PROVE i = n + 1
    <3>1. i \in 1 .. n => windows[i].end <= cancel_at
      BY <2>1, <2>5
    <3> QED BY <1>e, <2>2, <2>5, <3>1, SMTT(60)
  <2>6. OneLateWindow'
    BY <2>1, <2>2, <2>5
  <2> QED BY <2>4, <2>6
<1> QED BY <1>1, <1>2, <1>3, <1>4, <1>5, <1>6 DEF Next

\* After its token is cancelled the loop takes at most one more snapshot, however
\* long its writes last (metrics_loop, wait_until_mono).
THEOREM OneLateWindowCorrect == Spec => []OneLateWindow
<1>1. Init => NoneLateYet /\ OneLateWindow
  BY EmptySeq DEF Init, NoneLateYet, OneLateWindow
<1>2. IInv /\ NoneLateYet /\ OneLateWindow /\ [Next]_vars => NoneLateYet' /\ OneLateWindow'
  BY NextLate
<1> QED BY <1>1, <1>2, Invariance, PTL DEF Spec
=============================================================================
