------------------------------- MODULE Report -------------------------------
(***************************************************************************)
(* From the counters to the report: one server's test, add by add and      *)
(* window by window (Counters), the rows of the other servers, and         *)
(* `tperf analyze' over all of them (Analyze).  How rows travel from a     *)
(* server to the database is ClientRun.                                    *)
(***************************************************************************)
EXTENDS Counters, Analyze

CONSTANT Other   \* a server whose rows are taken as given

ASSUME ReportAssumption == /\ TicksPerSecond = Second
                           /\ MinWindow \in Nat \ {0} /\ WorstCount \in Nat
                           /\ Other \in Hosts \ {Self}

VARIABLE report   \* what analyze printed, NoReport before it ran or if it failed

allvars == <<vars, report>>

\* Where in a wall-clock second the test may have begun.
Phases == 0 .. Second - 1

NoReport == [ok |-> FALSE]

ReportInit == Init /\ report = NoReport

Step == CountersNext /\ UNCHANGED report

\* The row the client stores for a window of this server.
Row(w, phase) ==
  [server |-> Self, wall |-> phase + w.start, dur |-> w.dur, sent |-> w.total["sent"],
   peers |-> [h \in DOMAIN w.peers |-> w.peers[h]["sent"]]]

\* Rows of the other server: full windows, late, short, idle, and one in which it
\* only received.
OtherRow(wall, dur, peers) ==
  [server |-> Other, wall |-> wall, dur |-> dur, peers |-> peers,
   sent |-> SumFunction(peers)]

OtherTables ==
  LET all(n) == [h \in Hosts \ {Other} |-> n]
      one(n) == [h \in {Self} |-> n]
  IN  {{},
       {OtherRow(0, Second, all(1)), OtherRow(Second, Second + 1, one(0)),
        OtherRow(2 * Second + 1, MinWindow - 1, all(1)), OtherRow(3 * Second, Second, one(3))}}

Table(phase) == {Row(rows[k], phase) : k \in 1 .. Len(rows)}

\* `tperf analyze', after the test.
Analysed ==
  /\ pc = "done" /\ ~report.ok
  /\ \E phase \in Phases, others \in OtherTables :
       report' = LoadTable(Table(phase) \cup others)
  /\ UNCHANGED vars

Next == Step \/ Analysed
Spec == ReportInit /\ [][Next]_allvars

-----------------------------------------------------------------------------
(* Properties.                                                             *)

\* What the report says a server sent to a host is what its data plane counted:
\* the bytes behind the pair's average, those of its windows too short to be
\* samples, and those after the last window are, together, all that was counted
\* since the test's first snapshot, each once (metrics.rs 62-72; server.rs
\* 253-282; analyze.rs 163-183).
SentIsReported ==
  report.ok =>
    \A h \in Hosts \ {Self} :
      LET ours == {r \in Table(0) : h \in DOMAIN r.peers}
          short == {r \in ours : r.dur < MinWindow}
          shown == IF <<Self, h>> \in DOMAIN report.pairs
                   THEN report.pairs[<<Self, h>>].avg[1] ELSE 0
          dropped == SumFunction([r \in short |-> r.peers[h]])
      IN  /\ shown + dropped <= val[h]["sent"]
          /\ shown + dropped >= snap[h]["sent"] - slack["first"].over

\* The report is consistent: for every pair and for the total the average lies
\* between the extremes, a pair is shown only with traffic, and no pair left off
\* the list of the worst has a lower average than one on it (analyze.rs 24-54,
\* 187-206, 272-287).
ReportOrdered ==
  report.ok =>
    /\ \A s \in {report.pairs[p] : p \in DOMAIN report.pairs} \cup {report.total} :
         LeqRate(s.min, s.avg) /\ LeqRate(s.avg, s.max) /\ s.min[1] > 0
    /\ \A p \in DOMAIN report.pairs : \A k \in 1 .. Len(report.worst) :
         p \notin ToSet(report.worst) =>
           LeqRate(report.pairs[report.worst[k]].avg, report.pairs[p].avg)

\* How long after its place on the grid a window begins.
Late(k) == rows[k].start - (k - 1) * Second

\* A second of the total holds several windows of one server only when they were
\* behind: two need one that began late, three one that began more than a second
\* late, and so on, for however long a wake-up or a write may hold the loop up.  So
\* windows taken on time count once per second, and what a stall crowds into one
\* second is missing from the seconds before it (analyze.rs 179-183; the grid of
\* server.rs 183, the clock of 250 after the write of 277).
CrowdedAfterStall ==
  \A phase \in Phases : \A j \in 1 .. Len(rows) : \A i \in 1 .. j - 1 :
    Bucket(Row(rows[i], phase)) = Bucket(Row(rows[j], phase)) =>
      Late(i) > (j - i - 1) * Second

\* A report is of this server's windows, all there will be, and of one table of the
\* other's.
Reported ==
  \/ report = NoReport
  \/ /\ pc = "done"
     /\ \E phase \in Phases, others \in OtherTables :
          report = LoadTable(Table(phase) \cup others)

SentInv == Counted /\ Told /\ Reported
=============================================================================
