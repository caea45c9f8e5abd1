------------------------------ MODULE Analyze -------------------------------
(***************************************************************************)
(* `tperf analyze' (analyze.rs, load and print_report): what it computes   *)
(* from the rows of the metrics table.  A row is                           *)
(*   [server, wall, dur, sent, peers]  with peers : host -> bytes sent.    *)
(* Rates are exact fractions <<bytes, ticks>> of positive denominator; the *)
(* program's are f64, whose rounding is left out.  A table is a set of     *)
(* rows: the order they are read in shows in nothing that is reported.     *)
(***************************************************************************)
EXTENDS Integers, Sequences, SequencesExt

CONSTANTS MinWindow,  \* MIN_WINDOW_NS in ticks
          TicksPerSecond,
          WorstCount  \* how many of the worst pairs are listed: five

-----------------------------------------------------------------------------
(* bps and its arithmetic.                                                 *)

Bps(bytes, dur) == <<bytes, dur>>
LeqRate(a, b) == a[1] * b[2] <= b[1] * a[2]
LessRate(a, b) == ~LeqRate(b, a)
AddRate(a, b) == <<a[1] * b[2] + b[1] * a[2], a[2] * b[2]>>
SumRates(F) == FoldFunction(AddRate, <<0, 1>>, F)
MinRate(S) == CHOOSE r \in S : \A q \in S : LeqRate(r, q)
MaxRate(S) == CHOOSE r \in S : \A q \in S : LeqRate(q, r)

\* The bug: the average divided by the last window instead of by all of them.
FromSamplesLastDuration(samples) ==
  LET rate(k) == Bps(samples[k][1], samples[k][2])
  IN  [min |-> MinRate({rate(k) : k \in DOMAIN samples}),
       max |-> MaxRate({rate(k) : k \in DOMAIN samples}),
       avg |-> <<SumFunction([k \in DOMAIN samples |-> samples[k][1]]),
                 samples[CHOOSE k \in DOMAIN samples : TRUE][2]>>]

\* RateStats::from_samples of a nonempty function to (bytes, duration): extremes
\* of the windows' rates, and the average weighted by duration.
FromSamples(samples) ==
  LET rate(k) == Bps(samples[k][1], samples[k][2])
  IN  [min |-> MinRate({rate(k) : k \in DOMAIN samples}),
       max |-> MaxRate({rate(k) : k \in DOMAIN samples}),
       avg |-> <<SumFunction([k \in DOMAIN samples |-> samples[k][1]]),
                 SumFunction([k \in DOMAIN samples |-> samples[k][2]])>>]

-----------------------------------------------------------------------------
(* load.                                                                   *)

\* A row is a sample of the pair server -> dst when the server sent to it in a
\* window that is not a flush slice.
Kept(row, dst) ==
  dst # row.server /\ row.peers[dst] > 0 /\ row.dur >= MinWindow

RowsOf(table, pair) ==
  {row \in table : row.server = pair[1] /\ pair[2] \in DOMAIN row.peers /\ Kept(row, pair[2])}

Directed(table) == UNION {{row.server} \X DOMAIN row.peers : row \in table}

\* pair_samples, and the statistics of the pairs that have any.
PairStats(table) ==
  [pair \in {p \in Directed(table) : RowsOf(table, p) # {}} |->
     FromSamples([row \in RowsOf(table, pair) |-> <<row.peers[pair[2]], row.dur>>])]

TotalRows(table) == {row \in table : row.dur >= MinWindow /\ row.sent > 0}

\* The second a window starts in.
Bucket(row) == row.wall \div TicksPerSecond

\* bucket_bps: the send rates of the windows that start in a second, summed.
Buckets(table) ==
  LET rows == TotalRows(table)
  IN  [b \in {Bucket(row) : row \in rows} |->
         SumRates([row \in {r \in rows : Bucket(r) = b} |-> Bps(row.sent, row.dur)])]

\* The total: extremes and mean of the seconds' sums.
TotalStats(table) ==
  LET sums == Buckets(table)
      all  == SumRates(sums)
      rates == {sums[b] : b \in DOMAIN sums}
  IN  [min |-> MinRate(rates), max |-> MaxRate(rates),
       avg |-> <<all[1], all[2] * Cardinality(DOMAIN sums)>>]

\* print_report's order: lowest average first, then lowest minimum.
Worse(a, b) ==
  LessRate(a.avg, b.avg) \/ (~LessRate(b.avg, a.avg) /\ LessRate(a.min, b.min))

\* The worst pairs as listed: all of them sorted, those that tie in any order, and the
\* list cut off.
WorstPairs(stats) ==
  LET pairs  == DOMAIN stats
      sorted == CHOOSE s \in [1 .. Cardinality(pairs) -> pairs] :
                  /\ ToSet(s) = pairs
                  /\ \A i, j \in DOMAIN s : i < j => ~Worse(stats[s[j]], stats[s[i]])
  IN  SubSeq(sorted, 1, Min({WorstCount, Cardinality(pairs)}))

\* No row with anything sent: load fails and nothing is reported.
LoadTable(table) ==
  IF TotalRows(table) = {} THEN [ok |-> FALSE]
  ELSE [ok |-> TRUE, pairs |-> PairStats(table), total |-> TotalStats(table),
        worst |-> WorstPairs(PairStats(table))]
=============================================================================
