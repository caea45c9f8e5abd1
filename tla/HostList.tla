------------------------------ MODULE HostList ------------------------------
(***************************************************************************)
(* The hostlist of a configuration file (config.rs, expand_hostlist): each *)
(* pattern's {a..b} ranges are expanded, leftmost first, numbers keep the  *)
(* width of a zero-padded start, and a name that comes up twice is an      *)
(* error.                                                                  *)
(*                                                                         *)
(* A pattern is a sequence of parts: [text], the symbols of literal text,  *)
(* brace groups that are no range included; [lo, hi, width], a range, with *)
(* width 0 when its start token has no leading zero; and "{", a brace that *)
(* is never closed.  A name is a sequence of symbols, digits one by one:   *)
(* two ranges side by side may spell one name in two ways.                 *)
(***************************************************************************)
EXTENDS Integers, Sequences, SequencesExt

CONSTANT RangeLimit   \* numbers one range may have: 10 000

Text(symbols)       == [kind |-> "text", text |-> symbols]
Span(lo, hi, width) == [kind |-> "range", lo |-> lo, hi |-> hi, width |-> width]
Unclosed            == [kind |-> "open"]

Parts == {Unclosed} \cup [kind : {"text"}, text : Seq(STRING)]
         \cup [kind : {"range"}, lo : Nat, hi : Nat, width : Nat]

Rejected       == [ok |-> FALSE, hosts |-> <<>>]
Expanded(hosts) == [ok |-> TRUE, hosts |-> hosts]

Digit(d) == <<"0", "1", "2", "3", "4", "5", "6", "7", "8", "9">>[d + 1]

Digits[num \in Nat] ==
  IF num < 10 THEN <<Digit(num)>> ELSE Append(Digits[num \div 10], Digit(num % 10))

\* A number in decimal, with leading zeros up to the width.
Decimal(num, width) == [k \in 1 .. width - Len(Digits[num]) |-> "0"] \o Digits[num]

\* The numbers of a range, downwards when it is written downwards.
Numbers(r) ==
  IF r.lo <= r.hi THEN [k \in 1 .. r.hi - r.lo + 1 |-> r.lo + k - 1]
                  ELSE [k \in 1 .. r.lo - r.hi + 1 |-> r.lo - k + 1]

RangesOf(pat) == {i \in 1 .. Len(pat) : pat[i].kind = "range"}

\* out.extend(..?): more hosts after those so far, unless either is an error.
Extend(out, more) == IF out.ok /\ more.ok THEN Expanded(out.hosts \o more.hosts) ELSE Rejected

Concat(seqs) == FoldLeft(LAMBDA out, more : out \o more, <<>>, seqs)

\* expand_pattern: the leftmost range is replaced by each of its numbers in turn
\* and the rest expanded again; find_range fails on a brace that is not closed.
ExpandPattern[pat \in Seq(Parts)] ==
  IF RangesOf(pat) = {}
  THEN IF \E i \in 1 .. Len(pat) : pat[i].kind = "open" THEN Rejected
       ELSE Expanded(<<Concat([i \in 1 .. Len(pat) |-> pat[i].text])>>)
  ELSE LET i    == Min(RangesOf(pat))
           with(num) == [pat EXCEPT ![i] = Text(Decimal(num, pat[i].width))]
           nums == Numbers(pat[i])
       IN  IF Len(nums) > RangeLimit THEN Rejected
           ELSE FoldLeft(LAMBDA out, num : Extend(out, ExpandPattern[with(num)]),
                         Expanded(<<>>), nums)

\* The bug: duplicates looked for within each item only.
ExpandHostlistPerItem(items) ==
  FoldLeft(LAMBDA out, item :
             LET more == ExpandPattern[item]
             IN  IF IsInjective(more.hosts) THEN Extend(out, more) ELSE Rejected,
           Expanded(<<>>), items)

\* expand_hostlist: all items in order; a host seen twice rejects the list.
ExpandHostlist(items) ==
  LET every == FoldLeft(LAMBDA out, item : Extend(out, ExpandPattern[item]),
                        Expanded(<<>>), items)
  IN  IF IsInjective(every.hosts) THEN every ELSE Rejected

-----------------------------------------------------------------------------
(* The reference: what a list of patterns means, without recursion.        *)

\* How many names come from a choice at the ranges after part i.
Below(pat, i) ==
  FoldSet(LAMBDA j, acc : acc * Len(Numbers(pat[j])), 1, {j \in RangesOf(pat) : j > i})

\* The k-th name of a pattern, counting from 0: its ranges are the digits of k,
\* the leftmost the most significant.
NthName(pat, k) ==
  Concat([i \in 1 .. Len(pat) |->
    IF pat[i].kind # "range" THEN pat[i].text
    ELSE LET nums == Numbers(pat[i])
         IN  Decimal(nums[((k \div Below(pat, i)) % Len(nums)) + 1], pat[i].width)])

NamesOf(pat) == [k \in 1 .. Below(pat, 0) |-> NthName(pat, k - 1)]

WellFormed(items) ==
  \A i \in 1 .. Len(items) : \A j \in 1 .. Len(items[i]) :
    /\ items[i][j].kind # "open"
    /\ items[i][j].kind = "range" => Len(Numbers(items[i][j])) <= RangeLimit

\* Exactly the names the patterns spell, in order, if the list is well formed and
\* spells no name twice.
Spelled(items) ==
  LET names == Concat([i \in 1 .. Len(items) |-> NamesOf(items[i])])
  IN  IF WellFormed(items) /\ IsInjective(names) THEN Expanded(names) ELSE Rejected
=============================================================================
