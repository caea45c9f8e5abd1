-------------------------- MODULE SessionContract --------------------------
(***************************************************************************)
(* What a tperf server promises the client that holds its control          *)
(* connection, with nothing of how it keeps the promise: no tasks, no      *)
(* cancellation, no timeouts, no socket capacity.                          *)
(*                                                                         *)
(* One session at a time; requests are served one after another, in the    *)
(* order sent; at most one test exists; a test ends only because a request *)
(* replaces or stops it or because the client is gone; it begins only once *)
(* its predecessor has ended; its windows appear on the stream only while  *)
(* it exists; a Stop is acknowledged only when nothing runs, a Start only  *)
(* when its test does and refused only when none does.                     *)
(***************************************************************************)
EXTENDS Naturals, Sequences

VARIABLES
  on,       \* a session is being served
  up,       \* its client is still there
  pending,  \* requests sent and not yet taken up
  serving,  \* the request being served and how far: see Servings
  gen,      \* Starts taken up so far: the number of the latest test
  tests,    \* the tests that exist
  stream    \* every frame written to the client of this session

vars == <<on, up, pending, serving, gen, tests, stream>>

\* "start" and "stop" as taken up; "started" and "refused" are a Start whose
\* test began, or did not, and whose reply is still owed.
Servings == {"none", "start", "started", "refused", "stop"}

ReplyTo == [started |-> "start", refused |-> "error", stop |-> "stop"]

Init ==
  /\ on = FALSE /\ up = FALSE /\ pending = <<>> /\ serving = "none"
  /\ gen = 0 /\ tests = {} /\ stream = <<>>

Connect ==
  /\ ~on /\ tests = {}
  /\ on' = TRUE /\ up' = TRUE /\ pending' = <<>> /\ stream' = <<>>
  /\ UNCHANGED <<serving, gen, tests>>

Ask ==
  /\ up
  /\ \E r \in {"start", "stop", "other"} : pending' = Append(pending, r)
  /\ UNCHANGED <<on, up, serving, gen, tests, stream>>

HangUp ==
  /\ up' = FALSE
  /\ UNCHANGED <<on, pending, serving, gen, tests, stream>>

Take ==
  /\ on /\ serving = "none" /\ pending # <<>>
  /\ pending' = Tail(pending)
  /\ \/ Head(pending) = "start" /\ serving' = "start" /\ gen' = gen + 1
     \/ Head(pending) = "stop"  /\ serving' = "stop"  /\ gen' = gen
     \/ Head(pending) = "other" /\ serving' = "none"  /\ gen' = gen
  /\ UNCHANGED <<on, up, tests, stream>>

\* A test may end: it is being replaced or stopped, or its client is gone.
MayEnd == serving \in {"start", "stop"} \/ (~up /\ serving = "none")

End ==
  /\ MayEnd /\ tests' = {}
  /\ UNCHANGED <<on, up, pending, serving, gen, stream>>

Begin ==
  /\ serving = "start" /\ tests = {}
  /\ \/ serving' = "started" /\ tests' = {gen}
     \/ serving' = "refused" /\ tests' = {}
  /\ UNCHANGED <<on, up, pending, gen, stream>>

\* A frame of a test: a window, or the beginning of one that was cut off when
\* the test was ended.  The last frame of a test may end it.
Frame ==
  /\ \E g \in tests :
       \/ /\ stream' = Append(stream, [kind |-> "window", gen |-> g])
          /\ tests' = tests \/ (MayEnd /\ tests' = {})
       \/ /\ stream' = Append(stream, [kind |-> "torn", gen |-> g])
          /\ MayEnd /\ tests' = {}
  /\ UNCHANGED <<on, up, pending, serving, gen>>

Owed == serving \in {"started", "refused", "stop"}

Reply ==
  /\ Owed /\ tests = (IF serving = "started" THEN {gen} ELSE {})
  /\ stream' = Append(stream, [kind |-> ReplyTo[serving], gen |-> gen])
  /\ serving' = "none"
  /\ UNCHANGED <<on, up, pending, gen, tests>>

\* The reply cannot be delivered; the session may end at once if nothing runs.
Lose ==
  /\ Owed /\ ~up
  /\ serving' = "none"
  /\ on' = on \/ (tests = {} /\ on' = FALSE)
  /\ UNCHANGED <<up, pending, gen, tests, stream>>

Over ==
  /\ on /\ ~up /\ serving = "none" /\ tests = {}
  /\ on' = FALSE
  /\ UNCHANGED <<up, pending, serving, gen, tests, stream>>

Next == Connect \/ Ask \/ HangUp \/ Take \/ End \/ Begin \/ Frame \/ Reply \/ Lose \/ Over

Spec == Init /\ [][Next]_vars
=============================================================================
