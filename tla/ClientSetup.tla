---------------------------- MODULE ClientSetup -----------------------------
(***************************************************************************)
(* What the client does before the first Start (main.rs, config.rs and the *)
(* first half of client.rs run): it reads the configuration (HostList),    *)
(* resolves every host's test address and connects to every host's control *)
(* port, one after the other, each with a retry loop (Retry), and then     *)
(* computes the rounds of a pairs run (TestPlan).                          *)
(***************************************************************************)
EXTENDS TestPlan, HostList, Retry

CONSTANTS Configs,   \* the configuration files: [items, checks, family]; the family of
                     \* the test address is "v4", "v6", or "any" for a name
          Answers    \* what a lookup may return: sequences of [v, loop]

\* MaxHosts bounds the hostlists of the configurations.
ASSUME SetupAssumption ==
  /\ \A c \in Configs : /\ c.family \in {"any", "v4", "v6"}
                        /\ Len(ExpandHostlist(c.items).hosts) \in 0 .. MaxHosts
  /\ Answers \subseteq Seq([v : {"v4", "v6"}, loop : BOOLEAN])

VARIABLES config,    \* the configuration file
          expanded,  \* what expand_hostlist made of its hostlist
          phase,     \* "config", "resolve", "connect", "plan", "failed"
          host,      \* the host being resolved or connected to
          resolved   \* the latest answer of a lookup and the address picked

setup == <<config, expanded, phase, host, resolved>>
allvars == <<vars, retry, setup>>

\* Config::from_toml and validate: `checks' stands for the tag, the workers, the
\* payload size and the two addresses.
Valid == expanded.ok /\ config.checks /\ Len(expanded.hosts) >= 2

\* n, arr and rounds are computed from the hostlist; a configuration that is
\* refused plans nothing.
SetupInit ==
  /\ config \in Configs /\ expanded = ExpandHostlist(config.items)
  /\ phase = "config" /\ host = 0 /\ resolved = <<>>
  /\ n = IF Valid THEN Len(expanded.hosts) ELSE 2
  /\ arr = [i \in Slots |-> i] /\ rounds = <<>>
  /\ token = FALSE /\ RetryStart

ConfigRefused ==
  /\ phase = "config" /\ ~Valid
  /\ phase' = "failed"
  /\ UNCHANGED <<vars, retry, config, expanded, host, resolved>>

ConfigRead ==
  /\ phase = "config" /\ Valid
  /\ phase' = "resolve"
  /\ UNCHANGED <<vars, retry, config, expanded, host, resolved>>

-----------------------------------------------------------------------------
(* resolve_one.                                                            *)

\* The addresses of an answer that are of the test address's family.
Matching(answer) == {a \in ToSet(answer) : config.family \in {"any", a.v}}

\* What pick_addr looks for: IPv4 first, but any address of another machine
\* before a loopback one.
Preference == <<[v |-> "v4", loop |-> FALSE], [v |-> "v6", loop |-> FALSE],
                [v |-> "v4", loop |-> TRUE], [v |-> "v6", loop |-> TRUE]>>

\* The bug: the preference order is applied before the family filter.
PickAddrUnfiltered(answer) ==
  Preference[Min({i \in 1 .. 4 : Preference[i] \in ToSet(answer)})]

\* pick_addr, of an answer with a matching address.
PickAddr(answer) ==
  Preference[Min({i \in 1 .. 4 : Preference[i] \in Matching(answer)})]

\* The lookup succeeds with a usable address.  An answer without one is a failed
\* attempt like any other.
Resolves ==
  /\ phase = "resolve" /\ at = "attempt" /\ there
  /\ \E answer \in Answers :
       /\ Matching(answer) # {}
       /\ resolved' = <<answer, PickAddr(answer)>>

-----------------------------------------------------------------------------
\* The next host, with a loop of its own.
RetryAfresh ==
  /\ at' = "top" /\ elapsed' = 0 /\ delay' = 1 /\ left' = 0 /\ spent' = 0
  /\ there' \in BOOLEAN /\ missed' = FALSE /\ steady' = 0
  /\ UNCHANGED <<token, since>>

Retrying == phase \in {"resolve", "connect"}

\* A step of the loop, of time or of the other side.
LoopStep ==
  /\ Retrying
  /\ CheckToken \/ Fail \/ Wake \/ WakeCancelled \/ Pass \/ Comes \/ Goes
  /\ UNCHANGED <<vars, setup>>

ResolveOk == Resolves /\ Succeed /\ UNCHANGED <<vars, config, expanded, phase, host>>

ConnectOk == phase = "connect" /\ Succeed /\ UNCHANGED <<vars, setup>>

\* The loop returned a result: on to the next host, to the connects, to the plan.
NextHost ==
  /\ Retrying /\ at = "ok"
  /\ IF host < n - 1 THEN host' = host + 1 /\ phase' = phase
     ELSE host' = 0 /\ phase' = IF phase = "resolve" THEN "connect" ELSE "plan"
  /\ RetryAfresh
  /\ UNCHANGED <<vars, config, expanded, resolved>>

\* It returned an error, and so does run.
SetupFails ==
  /\ Retrying /\ at \in {"gave up", "cancelled"}
  /\ phase' = "failed"
  /\ UNCHANGED <<vars, retry, config, expanded, host, resolved>>

Signal ==
  /\ Retrying
  /\ Cancel
  /\ UNCHANGED <<vars, setup>>

PlanRound ==
  /\ phase = "plan" /\ NextRound
  /\ UNCHANGED <<retry, setup>>

SetupNext ==
  \/ ConfigRefused \/ ConfigRead \/ LoopStep \/ ResolveOk \/ ConnectOk
  \/ NextHost \/ SetupFails \/ Signal \/ PlanRound

SetupSpec == SetupInit /\ [][SetupNext]_allvars

-----------------------------------------------------------------------------
(* Properties.                                                             *)

\* The hostlist a run uses is what its configuration file spells (config.rs
\* 307-402).
ExpansionExact == phase = "config" => expanded = Spelled(config.items)

\* Every host gets an address of the test address's family, and a loopback
\* address only if the lookup had no other of that family: fill_resolved hands
\* it to the other machines (netutil.rs 131-169, client.rs 50-59, testplan.rs
\* 88-95).  Each host's address is picked on its own, so the latest is enough.
AddressesUsable ==
  resolved # <<>> =>
    LET fits == {a \in ToSet(resolved[1]) : config.family \in {"any", a.v}}
    IN  /\ resolved[2] \in fits
        /\ resolved[2].loop => \A a \in fits : a.loop

\* A signal ends the set-up, however many hosts are left and whatever they do,
\* within the attempt it came in: a cancelled loop returns before its next attempt
\* or out of its sleep, and a result that comes after the signal leads to no
\* attempt at the next host (netutil.rs 226-228, 237-240; client.rs 42-77).
SignalEndsSetup == Retrying => since <= MaxAttempt
-----------------------------------------------------------------------------
(* The inductive invariant of ClientSetupProofs; the plan has its own.     *)

SetupInv == RetryInv /\ config \in Configs /\ AddressesUsable
=============================================================================
