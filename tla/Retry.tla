------------------------------- MODULE Retry --------------------------------
(***************************************************************************)
(* The retry loop of netutil.rs: resolve_retry and connect_tcp_dest are    *)
(* the same loop around a lookup or a connect.  The deadline is looked at  *)
(* only after a failed attempt, the token only before an attempt and       *)
(* during a sleep; an attempt itself is bounded by the kernel or the       *)
(* resolver alone.                                                         *)
(*                                                                         *)
(* The other side (a server that is starting, a name that is not there     *)
(* yet) comes and goes.  An attempt may succeed when it is there, and      *)
(* fails only if it was away at some moment of the attempt.                *)
(***************************************************************************)
EXTENDS Integers

CONSTANTS Deadline,    \* the caller's deadline, in ticks of the first delay
          MaxDelay,    \* the delay's ceiling: 400 ms
          MaxAttempt   \* bound: how long one attempt may last

ASSUME RetryAssumption == /\ Deadline \in Nat
                          /\ MaxDelay \in Nat \ {0}
                          /\ MaxAttempt \in Nat

VARIABLES
  token,    \* the CancellationToken
  at,       \* "top" of the loop, in an "attempt", in the "sleep", or how it ended
  elapsed,  \* start.elapsed()
  delay,    \* the next sleep
  left,     \* what remains of the current sleep
  spent,    \* how long the current attempt has lasted
  there,    \* the other side is there
  missed,   \* it was away at some moment of the current attempt
  steady,   \* history: how long it has been there without a break
  since     \* history: how long ago the token was cancelled

retry == <<token, at, elapsed, delay, left, spent, there, missed, steady, since>>

Ended == {"ok", "gave up", "cancelled"}

RetryStart ==
  /\ at = "top" /\ elapsed = 0 /\ delay = 1 /\ left = 0 /\ spent = 0
  /\ there \in BOOLEAN /\ missed = FALSE /\ steady = 0 /\ since = 0

\* The bug: the token is looked at only in the sleep.
CheckTokenNot ==
  /\ at = "top"
  /\ at' = "attempt"
  /\ spent' = 0 /\ missed' = ~there
  /\ UNCHANGED <<token, elapsed, delay, left, there, steady, since>>

\* The top of the loop.
CheckToken ==
  /\ at = "top"
  /\ at' = IF token THEN "cancelled" ELSE "attempt"
  /\ spent' = 0 /\ missed' = ~there
  /\ UNCHANGED <<token, elapsed, delay, left, there, steady, since>>

Succeed ==
  /\ at = "attempt" /\ there
  /\ at' = "ok"
  /\ UNCHANGED <<token, elapsed, delay, left, spent, there, missed, steady, since>>

Fail ==
  /\ at = "attempt" /\ missed
  /\ IF elapsed >= Deadline
     THEN at' = "gave up" /\ left' = left
     ELSE at' = "sleep" /\ left' = delay
  /\ UNCHANGED <<token, elapsed, delay, spent, there, missed, steady, since>>

\* The bug: the delay doubles without a ceiling.
WakeUncapped ==
  /\ at = "sleep" /\ left = 0
  /\ at' = "top"
  /\ delay' = 2 * delay
  /\ UNCHANGED <<token, elapsed, left, spent, there, missed, steady, since>>

Wake ==
  /\ at = "sleep" /\ left = 0
  /\ at' = "top"
  /\ delay' = IF 2 * delay < MaxDelay THEN 2 * delay ELSE MaxDelay
  /\ UNCHANGED <<token, elapsed, left, spent, there, missed, steady, since>>

WakeCancelled ==
  /\ at = "sleep" /\ token
  /\ at' = "cancelled"
  /\ UNCHANGED <<token, elapsed, delay, left, spent, there, missed, steady, since>>

\* Time passes in an attempt or in a sleep, which a cancelled token ends at once.
Pass ==
  /\ \/ at = "attempt" /\ spent < MaxAttempt /\ spent' = spent + 1 /\ left' = left
     \/ at = "sleep" /\ ~token /\ left > 0 /\ left' = left - 1 /\ spent' = spent
  /\ elapsed' = elapsed + 1
  /\ steady' = IF there THEN steady + 1 ELSE 0
  /\ since' = IF token THEN since + 1 ELSE since
  /\ UNCHANGED <<token, at, delay, there, missed>>

Comes == /\ ~there /\ at \notin Ended
         /\ there' = TRUE /\ steady' = 0
         /\ UNCHANGED <<token, at, elapsed, delay, left, spent, missed, since>>

Goes == /\ there /\ at \notin Ended
        /\ there' = FALSE /\ steady' = 0 /\ missed' = TRUE
        /\ UNCHANGED <<token, at, elapsed, delay, left, spent, since>>

\* Ctrl+C, or the end of the test the retry belongs to.
Cancel == /\ ~token /\ token' = TRUE
          /\ UNCHANGED <<at, elapsed, delay, left, spent, there, missed, steady, since>>

-----------------------------------------------------------------------------
(* Properties.                                                             *)

\* The loop gives up neither early nor late nor on a peer it could have reached:
\* not before the deadline, not more than a delay and an attempt after it, and
\* not while the peer has been there for longer than an attempt lasts.  And it
\* does not dawdle: a peer that stays is reached within the attempt it came in, a
\* delay and an attempt (netutil.rs 224-243, 271-294).
RetryBounds ==
  /\ at = "gave up" => /\ elapsed >= Deadline
                       /\ elapsed < Deadline + MaxDelay + MaxAttempt
                       /\ steady <= MaxAttempt
  /\ at \notin Ended => steady <= MaxAttempt + MaxDelay + MaxAttempt

-----------------------------------------------------------------------------
(* The inductive invariant of ClientSetupProofs.                           *)

RetryTypeOK ==
  /\ token \in BOOLEAN /\ there \in BOOLEAN /\ missed \in BOOLEAN
  /\ at \in {"top", "attempt", "sleep"} \cup Ended
  /\ elapsed \in Nat /\ steady \in Nat
  /\ delay \in 1 .. MaxDelay /\ left \in 0 .. MaxDelay
  /\ spent \in 0 .. MaxAttempt /\ since \in 0 .. MaxAttempt

\* How late the loop may be.
OnTime ==
  /\ at = "top" => elapsed < Deadline + MaxDelay
  /\ at = "attempt" => elapsed < Deadline + MaxDelay + spent
  /\ at = "sleep" => elapsed + left < Deadline + MaxDelay

\* How long the other side may have been there: an attempt that missed it began,
\* or lost it, before it last came.
Patient ==
  /\ ~there => steady = 0
  /\ at = "top" => steady <= MaxAttempt + MaxDelay
  /\ at = "attempt" => /\ missed => steady <= spent
                       /\ steady <= MaxAttempt + MaxDelay + spent
  /\ at = "sleep" => steady + left <= MaxAttempt + MaxDelay

\* A cancelled token is older than no attempt.
Heeded ==
  /\ ~token => since = 0
  /\ at = "attempt" => since <= spent

RetryInv == RetryTypeOK /\ OnTime /\ Patient /\ Heeded /\ RetryBounds
=============================================================================
