--------------------------- MODULE MCClientSetup ---------------------------
(* Configurations, lookup answers and host counts for ClientSetup.         *)
EXTENDS ClientSetup

File(items) == [items |-> items, checks |-> TRUE, family |-> "any"]

\* One file per number of hosts up to MaxHosts.
Counted ==
  {File(IF k <= 9 THEN << <<Text(<<"n">>), Span(1, k, 0)>> >>
        ELSE << <<Text(<<"n">>), Span(1, 9, 0)>>, <<Text(<<"m">>), Span(k - 9, 1, 0)>> >>) :
     k \in 2 .. MaxHosts}

\* Padding, two ranges, a literal after a range; the test address's families.
Accepted ==
  {File(<< <<Text(<<"n">>), Span(9, 11, 2)>> >>),
   File(<< <<Span(1, 2, 0), Text(<<"-">>), Span(2, 1, 3)>>, <<Text(<<"n">>)>> >>)}
  \cup {[File(<< <<Text(<<"n">>), Span(1, 2, 0)>> >>) EXCEPT !.family = f] : f \in {"v4", "v6"}}

\* One host; a host written twice; two ranges that spell a name twice; a range
\* beyond the limit; a brace never closed; another field that is not valid.
Refused ==
  {File(<< <<Text(<<"n">>)>> >>),
   File(<< <<Text(<<"n">>), Span(1, 3, 0)>>, <<Text(<<"n", "2">>)>> >>),
   File(<< <<Span(1, 11, 0), Span(1, 11, 0)>> >>),
   File(<< <<Span(1, RangeLimit + 1, 0)>> >>),
   File(<< <<Span(1, 3, 0), Unclosed, Text(<<"n">>)>> >>),
   [File(<< <<Text(<<"n">>), Span(1, 2, 0)>> >>) EXCEPT !.checks = FALSE]}

MCConfigs == Counted \cup Accepted \cup Refused

MCAnswers ==
  LET addr(v, l) == [v |-> v, loop |-> l]
  IN  {<<addr("v4", TRUE), addr("v6", FALSE)>>,
       <<addr("v6", TRUE), addr("v4", TRUE)>>,
       <<addr("v6", FALSE), addr("v4", FALSE)>>,
       <<addr("v4", FALSE)>>}
=============================================================================
