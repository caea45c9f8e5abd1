---------------------------- MODULE ReportProofs ----------------------------
(***************************************************************************)
(* Proofs about the counters, the windows and the report made from them,   *)
(* for any hostlist, any traffic, any number of windows and any length of  *)
(* a second: that a window's differences are exact, that hosts and totals  *)
(* stay together over a test, that what was sent is reported once, that    *)
(* the report's statistics are consistent, and that windows crowd into one *)
(* second of its total only after a stall, however long one lasts.  In     *)
(* order: sums, the base invariant, the gap between total and hosts, what  *)
(* the windows tell, what analyze makes of them, rates and their order,    *)
(* and the theorems.                                                       *)
(***************************************************************************)
EXTENDS Report, SequenceTheorems, FiniteSetTheorems, TLAPS

-----------------------------------------------------------------------------
(* Arithmetic of the grid.                                                 *)

\* The later of two moments.
LEMMA Later ==
  ASSUME NEW a \in Nat, NEW b \in Nat
  PROVE  Max({a, b}) \in Nat /\ a <= Max({a, b}) /\ b <= Max({a, b})
<1>1. \E x \in {a, b} : \A y \in {a, b} : x >= y
  <2>1. a >= b \/ b >= a
    OBVIOUS
  <2>. QED
    BY <2>1
<1>2. Max({a, b}) \in {a, b} /\ \A y \in {a, b} : Max({a, b}) >= y
  BY <1>1 DEF Max
<1>. QED
  BY <1>2

\* Two moments a second or more apart are in different seconds.
LEMMA DivGap ==
  ASSUME NEW S \in Nat \ {0}, NEW a \in Nat, NEW b \in Nat, b >= a + S
  PROVE  a \div S # b \div S
<1>1. a = S * (a \div S) + (a % S) /\ a % S \in 0 .. S - 1 /\ a \div S \in Int
  OBVIOUS
<1>2. b = S * (b \div S) + (b % S) /\ b % S \in 0 .. S - 1 /\ b \div S \in Int
  OBVIOUS
<1>. QED
  BY <1>1, <1>2

-----------------------------------------------------------------------------
(* Sums.  Nothing here is proved by induction: a law that failed for a     *)
(* finite set would fail for one of which no smaller subset fails it, and  *)
(* one member taken out of that one shows that it does not.                *)

\* The two sums of the model, of integers and of rates, with their recursive function
\* taken apart.
Nought(of) == IF of = "integers" THEN 0 ELSE <<0, 1>>
Plus(of, a, b) == IF of = "integers" THEN a + b ELSE AddRate(a, b)
Pick(s) == CHOOSE x \in s : TRUE
SumBody(of, fn, g, s) ==
  IF s = {} THEN Nought(of) ELSE Plus(of, fn[Pick(s)], g[s \ {Pick(s)}])
IsSum(of, fn, S, g) == g = [s \in SUBSET S |-> SumBody(of, fn, g, s)]
Partial(of, fn, S) == CHOOSE g : IsSum(of, fn, S, g)

SumRatesOnSet(fn, S) == FoldFunctionOnSet(AddRate, <<0, 1>>, fn, S)

LEMMA SumIsPartial ==
  ASSUME NEW fn, NEW S
  PROVE  /\ SumFunctionOnSet(fn, S) = Partial("integers", fn, S)[S]
         /\ SumRatesOnSet(fn, S) = Partial("rates", fn, S)[S]
<1>1. SumFunctionOnSet(fn, S) = Partial("integers", fn, S)[S]
  BY DEF SumFunctionOnSet, FoldFunctionOnSet, MapThenFoldSet, Partial, IsSum, SumBody, Pick,
         Nought, Plus
<1>2. SumRatesOnSet(fn, S) = Partial("rates", fn, S)[S]
  BY DEF SumRatesOnSet, FoldFunctionOnSet, MapThenFoldSet, Partial, IsSum, SumBody, Pick,
         Nought, Plus
<1>. QED
  BY <1>1, <1>2

LEMMA PickIn == ASSUME NEW s, s # {} PROVE Pick(s) \in s
BY DEF Pick

\* Among finite sets some have no smaller one beside them.
LEMMA Smallest ==
  ASSUME NEW S, IsFiniteSet(S), NEW B, B \subseteq SUBSET S, B # {}
  PROVE  \E T \in B : \A U \in B : U \subseteq T => U = T
<1>1. B \subseteq FiniteSubsetsOf(S)
  BY FS_FiniteSubsetsOfFinite
<1>2. IsWellFoundedOn(StrictSubsetOrdering(S), FiniteSubsetsOf(S))
  BY FS_StrictSubsetOrderingWellFounded
<1>3. \E T \in B : \A U \in B : ~(<<U, T>> \in StrictSubsetOrdering(S))
  BY <1>1, <1>2, WFMin
<1>. QED
  BY <1>3 DEF StrictSubsetOrdering

\* What a table of partial sums holds for a set.
LEMMA TableEntry ==
  ASSUME NEW of, NEW fn, NEW S, NEW g, IsSum(of, fn, S, g), NEW s \in SUBSET S
  PROVE  g[s] = SumBody(of, fn, g, s)
BY DEF IsSum

\* Two tables of partial sums agree where both are defined.
LEMMA SumUnique ==
  ASSUME NEW of, NEW fn, NEW S, NEW T, IsFiniteSet(S), S \subseteq T, NEW g, NEW h,
         IsSum(of, fn, S, g), IsSum(of, fn, T, h)
  PROVE  \A s \in SUBSET S : g[s] = h[s]
<1>. DEFINE B == {s \in SUBSET S : g[s] # h[s]}
<1>. SUFFICES ASSUME B # {} PROVE FALSE
  OBVIOUS
<1>0. B \subseteq SUBSET S
  OBVIOUS
<1>1. PICK s \in B : \A u \in B : u \subseteq s => u = s
  <2>. HIDE DEF B
  <2>. QED
    BY <1>0, Smallest
<1>2. s \in SUBSET S /\ g[s] # h[s]
  OBVIOUS
<1>3. g[s] = SumBody(of, fn, g, s) /\ h[s] = SumBody(of, fn, h, s)
  BY <1>2 DEF IsSum
<1>4. s # {}
  BY <1>2, <1>3 DEF SumBody
<1>5. s \ {Pick(s)} \notin B
  BY <1>1, <1>4, PickIn
<1>6. g[s \ {Pick(s)}] = h[s \ {Pick(s)}]
  BY <1>2, <1>5
<1>. QED
  BY <1>2, <1>3, <1>6 DEF SumBody

\* There is a table of partial sums.
LEMMA SumExists ==
  ASSUME NEW of, NEW fn, NEW S, IsFiniteSet(S)
  PROVE  IsSum(of, fn, S, Partial(of, fn, S))
<1>. DEFINE B == {T \in SUBSET S : ~IsSum(of, fn, T, Partial(of, fn, T))}
<1>. SUFFICES ASSUME B # {} PROVE FALSE
  OBVIOUS
<1>0. B \subseteq SUBSET S
  OBVIOUS
<1>1. PICK T \in B : \A U \in B : U \subseteq T => U = T
  <2>. HIDE DEF B
  <2>. QED
    BY <1>0, Smallest
<1>2. \A U \in SUBSET T : U # T => IsSum(of, fn, U, Partial(of, fn, U)) /\ IsFiniteSet(U)
  BY <1>1, FS_Subset
<1>. DEFINE h == [s \in SUBSET T |-> IF s = {} THEN Nought(of) ELSE
               Plus(of, fn[Pick(s)], Partial(of, fn, s \ {Pick(s)})[s \ {Pick(s)}])]
<1>3. ASSUME NEW s \in SUBSET T, s # {}
      PROVE  h[s \ {Pick(s)}] = Partial(of, fn, s \ {Pick(s)})[s \ {Pick(s)}]
  <2>. DEFINE u == s \ {Pick(s)}
              v == u \ {Pick(u)}
  <2>1. u \in SUBSET T /\ u # T
    BY <1>3, PickIn
  <2>2. Partial(of, fn, u)[u] = SumBody(of, fn, Partial(of, fn, u), u)
    <3>1. IsSum(of, fn, u, Partial(of, fn, u)) /\ u \in SUBSET u
      BY <1>2, <2>1
    <3>. HIDE DEF u
    <3>. QED
      BY <3>1, TableEntry
  <2>3. CASE u = {}
    BY <2>1, <2>2, <2>3 DEF SumBody
  <2>4. CASE u # {}
    <3>1. v \in SUBSET T /\ v # T /\ v \subseteq u
      BY <2>1, <2>4, PickIn
    <3>2. Partial(of, fn, u)[v] = Partial(of, fn, v)[v]
      BY <1>2, <2>1, <3>1, SumUnique
    <3>3. h[u] = Plus(of, fn[Pick(u)], Partial(of, fn, v)[v])
      BY <2>1, <2>4
    <3>4. Partial(of, fn, u)[u] = Plus(of, fn[Pick(u)], Partial(of, fn, u)[v])
      BY <2>2, <2>4 DEF SumBody
    <3>. QED
      BY <3>2, <3>3, <3>4
  <2>. QED
    BY <2>3, <2>4
<1>4. IsSum(of, fn, T, h)
  <2>1. \A s \in SUBSET T : h[s] = SumBody(of, fn, h, s)
    BY <1>3 DEF SumBody
  <2>2. h = [s \in SUBSET T |-> h[s]]
    OBVIOUS
  <2>. HIDE DEF h
  <2>. QED
    BY <2>1, <2>2 DEF IsSum
<1>5. IsSum(of, fn, T, Partial(of, fn, T))
  BY <1>4 DEF Partial
<1>. QED
  BY <1>5

\* A sum over a set: its picked member and the rest.
LEMMA PartialStep ==
  ASSUME NEW of, NEW fn, NEW S, IsFiniteSet(S)
  PROVE  Partial(of, fn, S)[S] =
           IF S = {} THEN Nought(of)
           ELSE Plus(of, fn[Pick(S)], Partial(of, fn, S \ {Pick(S)})[S \ {Pick(S)}])
<1>. DEFINE R == S \ {Pick(S)}
<1>1. IsSum(of, fn, S, Partial(of, fn, S)) /\ S \in SUBSET S
  BY SumExists
<1>2. Partial(of, fn, S)[S] = SumBody(of, fn, Partial(of, fn, S), S)
  BY <1>1, TableEntry
<1>3. R \subseteq S /\ IsFiniteSet(R)
  BY FS_Subset
<1>4. Partial(of, fn, S)[R] = Partial(of, fn, R)[R]
  <2>1. IsSum(of, fn, R, Partial(of, fn, R)) /\ R \in SUBSET R
    BY <1>3, SumExists
  <2>2. \A g, h : IsSum(of, fn, R, g) /\ IsSum(of, fn, S, h) => \A s \in SUBSET R : g[s] = h[s]
    <3>. HIDE DEF R
    <3>. QED
      BY <1>3, SumUnique
  <2>. QED
    BY <1>1, <2>1, <2>2
<1>. QED
  BY <1>2, <1>4 DEF SumBody

LEMMA SumStep ==
  ASSUME NEW fn, NEW S, IsFiniteSet(S)
  PROVE  SumFunctionOnSet(fn, S) =
           IF S = {} THEN 0
           ELSE fn[Pick(S)] + SumFunctionOnSet(fn, S \ {Pick(S)})
BY PartialStep, SumIsPartial DEF Nought, Plus

LEMMA SumRatesStep ==
  ASSUME NEW fn, NEW S, IsFiniteSet(S)
  PROVE  SumRatesOnSet(fn, S) =
           IF S = {} THEN <<0, 1>>
           ELSE AddRate(fn[Pick(S)], SumRatesOnSet(fn, S \ {Pick(S)}))
BY PartialStep, SumIsPartial DEF Nought, Plus

LEMMA SumNone ==
  ASSUME NEW fn
  PROVE  SumFunctionOnSet(fn, {}) = 0
BY SumStep, FS_EmptySet

\* Of integers, the sum is one, and any member may be taken out first.
LEMMA SumRemove ==
  ASSUME NEW fn, NEW S, IsFiniteSet(S), \A x \in S : fn[x] \in Int
  PROVE  /\ SumFunctionOnSet(fn, S) \in Int
         /\ \A x \in S : SumFunctionOnSet(fn, S) = fn[x] + SumFunctionOnSet(fn, S \ {x})
<1>. DEFINE Sum(T) == SumFunctionOnSet(fn, T)
            Good(T) == /\ Sum(T) \in Int
                       /\ \A x \in T : Sum(T) = fn[x] + Sum(T \ {x})
            B == {T \in SUBSET S : ~Good(T)}
<1>. SUFFICES ASSUME B # {} PROVE FALSE
  OBVIOUS
<1>1. B \subseteq SUBSET S
  OBVIOUS
<1>2. PICK T \in B : \A U \in B : U \subseteq T => U = T
  <2>. HIDE DEF B
  <2>. QED
    BY <1>1, Smallest
<1>3. T \in SUBSET S /\ ~Good(T) /\ IsFiniteSet(T)
  BY FS_Subset
<1>4. \A U \in SUBSET T : U # T => Good(U)
  BY <1>2, <1>3
<1>5. \A U \in SUBSET T : Sum(U) = IF U = {} THEN 0 ELSE fn[Pick(U)] + Sum(U \ {Pick(U)})
  BY <1>3, SumStep, FS_Subset
<1>. HIDE DEF Sum, B
<1>6. CASE T = {}
  <2>1. Sum(T) = 0
    BY <1>5, <1>6
  <2>2. \A x \in T : FALSE
    BY <1>6
  <2>. QED
    BY <1>3, <2>1, <2>2
<1>7. CASE T # {}
  <2>. DEFINE p == Pick(T)
              R == T \ {p}
  <2>1. p \in T /\ fn[p] \in Int
    BY <1>3, <1>7, PickIn
  <2>2. Good(R)
    BY <1>4, <2>1
  <2>3. Sum(T) = fn[p] + Sum(R)
    BY <1>5, <1>7
  <2>4. ASSUME NEW x \in T, x # p PROVE Sum(T) = fn[x] + Sum(T \ {x})
    <3>1. Good(T \ {x})
      BY <1>4
    <3>2. Sum(R) = fn[x] + Sum(R \ {x})
      BY <2>2, <2>4
    <3>3. Sum(T \ {x}) = fn[p] + Sum((T \ {x}) \ {p})
      BY <2>1, <2>4, <3>1
    <3>4. (T \ {x}) \ {p} = R \ {x} /\ R \ {x} \in SUBSET T /\ R \ {x} # T
      BY <2>1
    <3>5. Sum(R \ {x}) \in Int /\ fn[x] \in Int
      BY <1>3, <1>4, <3>4
    <3>6. Sum(T \ {x}) = fn[p] + Sum(R \ {x})
      BY <3>3, <3>4
    <3>. HIDE DEF p, R
    <3>. QED
      BY <2>1, <2>3, <3>2, <3>5, <3>6
  <2>5. Sum(T) \in Int
    BY <2>1, <2>2, <2>3
  <2>. QED
    BY <1>3, <2>3, <2>4, <2>5
<1>. QED
  BY <1>6, <1>7

\* Sums of the same values are the same.
LEMMA SumSame ==
  ASSUME NEW fn, NEW gn, NEW S, IsFiniteSet(S), \A x \in S : fn[x] = gn[x]
  PROVE  SumFunctionOnSet(fn, S) = SumFunctionOnSet(gn, S)
<1>. DEFINE Good(T) == SumFunctionOnSet(fn, T) = SumFunctionOnSet(gn, T)
            B == {T \in SUBSET S : ~Good(T)}
<1>. SUFFICES ASSUME B # {} PROVE FALSE
  OBVIOUS
<1>1. B \subseteq SUBSET S
  OBVIOUS
<1>2. PICK T \in B : \A U \in B : U \subseteq T => U = T
  <2>. HIDE DEF B
  <2>. QED
    BY <1>1, Smallest
<1>3. T \in SUBSET S /\ ~Good(T) /\ IsFiniteSet(T)
  BY FS_Subset
<1>4. T # {}
  BY <1>3, SumNone
<1>5. Pick(T) \in T /\ T \ {Pick(T)} \in SUBSET S /\ T \ {Pick(T)} # T
  BY <1>3, <1>4, PickIn
<1>6. Good(T \ {Pick(T)})
  BY <1>2, <1>5
<1>. QED
  BY <1>3, <1>4, <1>5, <1>6, SumStep

\* One value changed.
LEMMA SumBump ==
  ASSUME NEW fn, NEW gn, NEW S, IsFiniteSet(S), NEW x \in S,
         \A y \in S : fn[y] \in Int /\ gn[y] \in Int,
         \A y \in S \ {x} : gn[y] = fn[y]
  PROVE  SumFunctionOnSet(gn, S) = SumFunctionOnSet(fn, S) + (gn[x] - fn[x])
<1>. DEFINE R == S \ {x}
<1>1. /\ SumFunctionOnSet(fn, S) = fn[x] + SumFunctionOnSet(fn, R)
      /\ SumFunctionOnSet(gn, S) = gn[x] + SumFunctionOnSet(gn, R)
  BY SumRemove
<1>2. IsFiniteSet(R) /\ \A y \in R : fn[y] \in Int /\ gn[y] = fn[y]
  BY FS_Subset
<1>. HIDE DEF R
<1>3. SumFunctionOnSet(gn, R) = SumFunctionOnSet(fn, R) /\ SumFunctionOnSet(fn, R) \in Int
  BY <1>2, SumSame, SumRemove
<1>. QED
  BY <1>1, <1>3

\* The sum of differences is the difference of the sums.
LEMMA SumMinus ==
  ASSUME NEW fn, NEW gn, NEW hn, NEW S, IsFiniteSet(S),
         \A x \in S : fn[x] \in Int /\ gn[x] \in Int /\ hn[x] = fn[x] - gn[x]
  PROVE  SumFunctionOnSet(hn, S) = SumFunctionOnSet(fn, S) - SumFunctionOnSet(gn, S)
<1>. DEFINE Good(T) == SumFunctionOnSet(hn, T) = SumFunctionOnSet(fn, T) - SumFunctionOnSet(gn, T)
            B == {T \in SUBSET S : ~Good(T)}
<1>. SUFFICES ASSUME B # {} PROVE FALSE
  OBVIOUS
<1>1. B \subseteq SUBSET S
  OBVIOUS
<1>2. PICK T \in B : \A U \in B : U \subseteq T => U = T
  <2>. HIDE DEF B
  <2>. QED
    BY <1>1, Smallest
<1>3. T \in SUBSET S /\ ~Good(T) /\ IsFiniteSet(T)
  BY FS_Subset
<1>4. T # {}
  BY <1>3, SumNone
<1>. DEFINE p == Pick(T)
            R == T \ {p}
<1>5. p \in T /\ R \in SUBSET S /\ R # T /\ R \subseteq T /\ IsFiniteSet(R)
  BY <1>3, <1>4, PickIn, FS_Subset
<1>6. Good(R)
  BY <1>2, <1>5
<1>7. /\ SumFunctionOnSet(fn, T) = fn[p] + SumFunctionOnSet(fn, R)
      /\ SumFunctionOnSet(gn, T) = gn[p] + SumFunctionOnSet(gn, R)
      /\ SumFunctionOnSet(hn, T) = hn[p] + SumFunctionOnSet(hn, R)
  BY <1>3, <1>4, SumStep
<1>8. fn[p] \in Int /\ gn[p] \in Int /\ hn[p] = fn[p] - gn[p]
  BY <1>3, <1>5
<1>9. SumFunctionOnSet(fn, R) \in Int /\ SumFunctionOnSet(gn, R) \in Int
  <2>1. \A x \in R : fn[x] \in Int /\ gn[x] \in Int
    BY <1>5
  <2>. HIDE DEF R
  <2>. QED
    BY <1>5, <2>1, SumRemove
<1>. HIDE DEF p, R
<1>. QED
  BY <1>3, <1>6, <1>7, <1>8, <1>9

\* Zeros may be left out.
LEMMA SumZeros ==
  ASSUME NEW fn, NEW S, IsFiniteSet(S), NEW R \in SUBSET S,
         \A x \in S : fn[x] \in Int, \A x \in S \ R : fn[x] = 0
  PROVE  SumFunctionOnSet(fn, R) = SumFunctionOnSet(fn, S)
<1>. DEFINE B == {T \in SUBSET S : R \subseteq T /\ SumFunctionOnSet(fn, T) # SumFunctionOnSet(fn, R)}
<1>. SUFFICES ASSUME B # {} PROVE FALSE
  OBVIOUS
<1>1. B \subseteq SUBSET S
  OBVIOUS
<1>2. PICK T \in B : \A U \in B : U \subseteq T => U = T
  <2>. HIDE DEF B
  <2>. QED
    BY <1>1, Smallest
<1>3. /\ T \in SUBSET S /\ R \subseteq T /\ SumFunctionOnSet(fn, T) # SumFunctionOnSet(fn, R)
      /\ IsFiniteSet(T)
  BY FS_Subset
<1>4. PICK x \in T : x \notin R
  BY <1>3
<1>5. T \ {x} \in SUBSET S /\ R \subseteq T \ {x} /\ T \ {x} # T /\ IsFiniteSet(T \ {x})
  BY <1>3, <1>4, FS_Subset
<1>6. SumFunctionOnSet(fn, T \ {x}) = SumFunctionOnSet(fn, R)
  BY <1>2, <1>5
<1>7. fn[x] = 0 /\ \A y \in T : fn[y] \in Int
  BY <1>3, <1>4
<1>8. SumFunctionOnSet(fn, T) = fn[x] + SumFunctionOnSet(fn, T \ {x})
  BY <1>3, <1>7, SumRemove
<1>9. SumFunctionOnSet(fn, T \ {x}) \in Int
  <2>1. \A y \in T \ {x} : fn[y] \in Int
    BY <1>7
  <2>. QED
    BY <1>5, <2>1, SumRemove
<1>. QED
  BY <1>3, <1>6, <1>7, <1>8, <1>9

\* Of two sets without a common member, the sums add up.
LEMMA SumJoin ==
  ASSUME NEW fn, NEW S, NEW T, IsFiniteSet(S), IsFiniteSet(T), S \cap T = {},
         \A x \in S \cup T : fn[x] \in Int
  PROVE  SumFunctionOnSet(fn, S \cup T) = SumFunctionOnSet(fn, S) + SumFunctionOnSet(fn, T)
<1>. DEFINE Sum(R) == SumFunctionOnSet(fn, R)
            Good(R) == Sum(S \cup R) = Sum(S) + Sum(R)
            B == {R \in SUBSET T : ~Good(R)}
<1>. SUFFICES ASSUME B # {} PROVE FALSE
  OBVIOUS
<1>1. B \subseteq SUBSET T
  OBVIOUS
<1>2. PICK R \in B : \A U \in B : U \subseteq R => U = R
  <2>. HIDE DEF B
  <2>. QED
    BY <1>1, Smallest
<1>3. R \in SUBSET T /\ ~Good(R) /\ IsFiniteSet(R) /\ IsFiniteSet(S \cup R)
  BY FS_Subset, FS_Union
<1>4. Sum(S) \in Int
  BY SumRemove
<1>5. R # {}
  <2>. SUFFICES ASSUME R = {} PROVE FALSE
    OBVIOUS
  <2>1. Sum(R) = 0
    BY SumNone
  <2>2. S \cup R = S
    OBVIOUS
  <2>3. Sum(S \cup R) = Sum(S)
    BY <2>2
  <2>. HIDE DEF Sum
  <2>. QED
    BY <1>3, <1>4, <2>1, <2>3
<1>6. PICK x \in R : x \notin S
  BY <1>3, <1>5
<1>7. R \ {x} \in SUBSET T /\ R \ {x} # R /\ (S \cup R) \ {x} = S \cup (R \ {x})
  BY <1>3, <1>6
<1>8. Good(R \ {x})
  BY <1>2, <1>7
<1>9. /\ \A y \in R : fn[y] \in Int
      /\ \A y \in S \cup R : fn[y] \in Int
      /\ \A y \in R \ {x} : fn[y] \in Int
      /\ fn[x] \in Int /\ x \in S \cup R /\ IsFiniteSet(R \ {x})
  BY <1>3, <1>6, FS_Subset
<1>10. Sum(R) = fn[x] + Sum(R \ {x})
  BY <1>3, <1>9, SumRemove
<1>11. Sum(S \cup R) = fn[x] + Sum((S \cup R) \ {x})
  <2>. DEFINE Q == S \cup R
  <2>1. IsFiniteSet(Q) /\ x \in Q /\ \A y \in Q : fn[y] \in Int
    BY <1>3, <1>9
  <2>. HIDE DEF Q
  <2>2. Sum(Q) = fn[x] + Sum(Q \ {x})
    BY <2>1, SumRemove
  <2>. QED
    BY <2>2 DEF Q
<1>12. Sum(R \ {x}) \in Int
  <2>. DEFINE Q == R \ {x}
  <2>1. IsFiniteSet(Q) /\ \A y \in Q : fn[y] \in Int
    BY <1>9
  <2>. HIDE DEF Q
  <2>2. Sum(Q) \in Int
    BY <2>1, SumRemove
  <2>. QED
    BY <2>2 DEF Q
<1>13. Sum((S \cup R) \ {x}) = Sum(S \cup (R \ {x}))
  BY <1>7
<1>14. Sum(S \cup (R \ {x})) = Sum(S) + Sum(R \ {x}) /\ fn[x] \in Int
  BY <1>8, <1>9
<1>15. Sum(S \cup R) # Sum(S) + Sum(R)
  BY <1>3
<1>. HIDE DEF Sum
<1>. QED
  BY <1>4, <1>10, <1>11, <1>12, <1>13, <1>14, <1>15

\* A sum over what a function returns is a sum over its arguments, if it returns nothing
\* twice.
LEMMA SumImage ==
  ASSUME NEW fn, NEW gn, NEW F, NEW K, IsFiniteSet(K),
         \A k \in K : fn[k] \in Int /\ gn[F[k]] = fn[k],
         \A k, j \in K : F[k] = F[j] => k = j
  PROVE  SumFunctionOnSet(gn, {F[k] : k \in K}) = SumFunctionOnSet(fn, K)
<1>. DEFINE Of(R) == {F[k] : k \in R}
            Good(R) == IsFiniteSet(Of(R)) /\ SumFunctionOnSet(gn, Of(R)) = SumFunctionOnSet(fn, R)
            B == {R \in SUBSET K : ~Good(R)}
<1>. SUFFICES ASSUME B # {} PROVE FALSE
  OBVIOUS
<1>1. B \subseteq SUBSET K
  OBVIOUS
<1>2. PICK R \in B : \A U \in B : U \subseteq R => U = R
  <2>. HIDE DEF B
  <2>. QED
    BY <1>1, Smallest
<1>3. R \in SUBSET K /\ ~Good(R) /\ IsFiniteSet(R)
  BY FS_Subset
<1>4. R # {}
  <2>1. Of({}) = {}
    OBVIOUS
  <2>2. Good({})
    BY <2>1, SumNone, FS_EmptySet
  <2>. QED
    BY <1>3, <2>2
<1>5. PICK x \in R : TRUE
  BY <1>4
<1>6. R \ {x} \in SUBSET K /\ R \ {x} # R /\ IsFiniteSet(R \ {x})
  BY <1>3, FS_Subset
<1>7. Good(R \ {x})
  BY <1>2, <1>6
<1>8. F[x] \in Of(R) /\ Of(R) \ {F[x]} = Of(R \ {x})
  BY <1>3
<1>9. IsFiniteSet(Of(R)) /\ \A y \in Of(R) : gn[y] \in Int
  <2>1. Of(R) = Of(R \ {x}) \cup {F[x]}
    BY <1>8
  <2>2. IsFiniteSet(Of(R \ {x}))
    BY <1>7
  <2>3. IsFiniteSet(Of(R \ {x}) \cup {F[x]})
    BY <2>2, FS_AddElement
  <2>4. \A y \in Of(R) : \E k \in R : y = F[k]
    OBVIOUS
  <2>5. \A y \in Of(R) : gn[y] \in Int
    BY <1>3, <2>4
  <2>. QED
    BY <2>1, <2>3, <2>5
<1>10. SumFunctionOnSet(fn, R) = fn[x] + SumFunctionOnSet(fn, R \ {x})
  BY <1>3, SumRemove
<1>11. SumFunctionOnSet(gn, Of(R)) = gn[F[x]] + SumFunctionOnSet(gn, Of(R \ {x}))
  <2>. DEFINE Q == Of(R)
  <2>1. IsFiniteSet(Q) /\ F[x] \in Q /\ \A y \in Q : gn[y] \in Int
    BY <1>8, <1>9
  <2>. HIDE DEF Q
  <2>2. SumFunctionOnSet(gn, Q) = gn[F[x]] + SumFunctionOnSet(gn, Q \ {F[x]})
    BY <2>1, SumRemove
  <2>. QED
    BY <1>8, <2>2 DEF Q
<1>. QED
  BY <1>3, <1>7, <1>9, <1>10, <1>11

\* The sum over one more index of a sequence.
LEMMA SumLast ==
  ASSUME NEW fn, NEW gn, NEW n \in Nat, \A k \in 1 .. n : fn[k] \in Int /\ gn[k] = fn[k],
         gn[n + 1] \in Int
  PROVE  SumFunctionOnSet(gn, 1 .. n + 1) = SumFunctionOnSet(fn, 1 .. n) + gn[n + 1]
<1>1. IsFiniteSet(1 .. n) /\ IsFiniteSet(1 .. n + 1)
  BY FS_Interval
<1>2. n + 1 \in 1 .. n + 1 /\ (1 .. n + 1) \ {n + 1} = 1 .. n
  OBVIOUS
<1>3. \A k \in 1 .. n + 1 : gn[k] \in Int
  <2>1. \A k \in 1 .. n + 1 : k \in 1 .. n \/ k = n + 1
    OBVIOUS
  <2>. QED
    BY <2>1
<1>4. SumFunctionOnSet(gn, 1 .. n + 1) = gn[n + 1] + SumFunctionOnSet(gn, 1 .. n)
  <2>. DEFINE S == 1 .. n + 1
  <2>1. IsFiniteSet(S) /\ n + 1 \in S /\ S \ {n + 1} = 1 .. n /\ \A k \in S : gn[k] \in Int
    BY <1>1, <1>2, <1>3
  <2>. HIDE DEF S
  <2>2. SumFunctionOnSet(gn, S) = gn[n + 1] + SumFunctionOnSet(gn, S \ {n + 1})
    BY <2>1, SumRemove
  <2>. QED
    BY <2>1, <2>2 DEF S
<1>5. SumFunctionOnSet(gn, 1 .. n) = SumFunctionOnSet(fn, 1 .. n) /\ SumFunctionOnSet(fn, 1 .. n) \in Int
  BY <1>1, SumSame, SumRemove
<1>. QED
  BY <1>4, <1>5

-----------------------------------------------------------------------------
(* The first state, and steps that leave the windows alone.                *)

LEMMA InitCounters ==
  ASSUME Init
  PROVE  CountersInv
<1>1. Zero \in Counts /\ \A c \in Cells, f \in Fields : Zero[c][f] = 0
  BY DEF Zero, Counts, Figures
<1>2. CountersOK
  BY <1>1 DEF Init, CountersOK
<1>3. Monotone
  BY <1>1 DEF Init, Monotone
<1>4. Grid
  BY DEF Init, Grid
<1>. QED
  BY <1>2, <1>3, <1>4 DEF CountersInv

\* An add call only adds to what is pending.
LEMMA AddKeeps ==
  ASSUME CountersInv, UNCHANGED <<val, pc, loads, snap, prev, end, rows>>,
         ops' \in Nat, pending' \subseteq Nat \X Fields \X Cells
  PROVE  CountersInv'
<1>1. CountersOK'
  BY DEF CountersInv, CountersOK
<1>2. Monotone'
  BY DEF CountersInv, Monotone
<1>3. Grid'
  BY DEF CountersInv, Grid, EndOf, LastEnd
<1>. QED
  BY <1>1, <1>2, <1>3 DEF CountersInv

\* A fetch_add only raises one field of one cell.
LEMMA LandKeeps ==
  ASSUME CountersInv, NEW c \in Cells, NEW f \in Fields,
         val' = [val EXCEPT ![c][f] = @ + 1],
         pending' \subseteq pending, UNCHANGED <<ops, pc, loads, snap, prev, end, rows>>
  PROVE  CountersInv'
<1>1. val \in Counts /\ snap \in Counts
  BY DEF CountersInv, CountersOK
<1>2. val' \in Counts
  BY <1>1 DEF Counts, Figures
<1>3. \A d \in Cells, g \in Fields : val[d][g] <= val'[d][g]
  BY <1>1 DEF Counts, Figures
<1>4. CountersOK'
  BY <1>2 DEF CountersInv, CountersOK
<1>5. Monotone'
  <2>. SUFFICES ASSUME NEW d \in Cells, NEW g \in Fields
                PROVE  prev[d][g] <= snap[d][g] /\ snap[d][g] <= val'[d][g]
    BY DEF Monotone
  <2>1. prev[d][g] <= snap[d][g] /\ snap[d][g] <= val[d][g]
    BY DEF CountersInv, Monotone
  <2>2. val[d][g] \in Nat /\ val'[d][g] \in Nat /\ snap[d][g] \in Nat
    BY <1>1, <1>2 DEF Counts, Figures
  <2>. QED
    BY <2>1, <2>2, <1>3
<1>6. Grid'
  BY DEF CountersInv, Grid, EndOf, LastEnd
<1>. QED
  BY <1>4, <1>5, <1>6 DEF CountersInv
\* snapshot_all loads a value that is not behind the one it loaded last.
LEMMA LoadKeeps ==
  ASSUME CountersInv, Load
  PROVE  CountersInv'
<1>1. PICK c \in loads : snap' = [snap EXCEPT ![c] = val[c]] /\ loads' = loads \ {c}
  BY DEF Load
<1>2. UNCHANGED <<val, ops, pending, pc, prev, end, rows>>
  BY DEF Load, adders
<1>3. c \in Cells /\ val \in Counts /\ snap \in Counts /\ prev \in Counts
  BY DEF CountersInv, CountersOK
<1>4. snap' \in Counts
  BY <1>1, <1>3 DEF Counts
<1>5. CountersOK'
  BY <1>1, <1>2, <1>4 DEF CountersInv, CountersOK
<1>6. Monotone'
  <2>. SUFFICES ASSUME NEW d \in Cells, NEW g \in Fields
                PROVE  prev[d][g] <= snap'[d][g] /\ snap'[d][g] <= val[d][g]
    BY <1>2 DEF Monotone
  <2>1. prev[d][g] <= snap[d][g] /\ snap[d][g] <= val[d][g]
    BY DEF CountersInv, Monotone
  <2>2. val[d][g] \in Nat /\ prev[d][g] \in Nat /\ snap[d][g] \in Nat
    BY <1>3 DEF Counts, Figures
  <2>3. snap'[d] = IF d = c THEN val[d] ELSE snap[d]
    BY <1>1, <1>3 DEF Counts
  <2>. QED
    BY <2>1, <2>2, <2>3
<1>7. Grid'
  BY <1>2 DEF CountersInv, Grid, EndOf, LastEnd
<1>. QED
  BY <1>5, <1>6, <1>7 DEF CountersInv

\* The first snapshot becomes the base.
LEMMA BasedKeeps ==
  ASSUME CountersInv, Based
  PROVE  CountersInv'
<1>1. /\ prev' = snap /\ pc' = "wait"
      /\ UNCHANGED <<val, ops, pending, loads, snap, end, rows>>
  BY DEF Based, adders
<1>2. val \in Counts /\ snap \in Counts
  BY DEF CountersInv, CountersOK
<1>3. CountersOK'
  BY <1>1 DEF CountersInv, CountersOK
<1>4. Monotone'
  <2>1. \A d \in Cells, g \in Fields : snap[d][g] \in Nat
    BY <1>2 DEF Counts, Figures
  <2>. QED
    BY <1>1, <2>1 DEF CountersInv, Monotone
<1>5. Grid'
  BY <1>1 DEF CountersInv, Grid, EndOf, LastEnd
<1>. QED
  BY <1>3, <1>4, <1>5 DEF CountersInv

\* Cancelled drops the loop's locals.
LEMMA CancelledKeeps ==
  ASSUME CountersInv, Cancelled
  PROVE  CountersInv'
<1>1. /\ prev' = Zero /\ pc' = "done" /\ pending' = {} /\ end' = 0
      /\ UNCHANGED <<val, ops, loads, snap, rows>>
  BY DEF Cancelled
<1>2. Zero \in Counts /\ \A c \in Cells, f \in Fields : Zero[c][f] = 0
  BY DEF Zero, Counts, Figures
<1>3. CountersOK'
  BY <1>1, <1>2 DEF CountersInv, CountersOK
<1>4. Monotone'
  <2>1. \A d \in Cells, g \in Fields : snap[d][g] \in Nat
    BY DEF CountersInv, CountersOK, Counts, Figures
  <2>. QED
    BY <1>1, <1>2, <2>1 DEF CountersInv, Monotone
<1>5. Grid'
  BY <1>1 DEF CountersInv, Grid, EndOf, LastEnd
<1>. QED
  BY <1>3, <1>4, <1>5 DEF CountersInv

\* Where the last window ended: at the start of the test, or at the end of a row of
\* the grid.
LEMMA LastEndOf ==
  ASSUME CountersInv
  PROVE  /\ Len(rows) = 0 => LastEnd = 0
         /\ Len(rows) > 0 => Len(rows) \in 1 .. Len(rows) /\ LastEnd = EndOf(rows[Len(rows)])
         /\ LastEnd \in Nat
<1>. DEFINE R == {rows[k] : k \in 1 .. Len(rows)}
<1>1. rows \in Seq(R) /\ \A k \in 1 .. Len(rows) : rows[k].start \in Nat /\ rows[k].dur \in Nat
  BY DEF CountersInv, CountersOK
<1>. HIDE DEF R
<1>2. Len(rows) \in Nat /\ (rows = <<>> <=> Len(rows) = 0)
  BY <1>1, EmptySeq
<1>3. CASE Len(rows) = 0
  BY <1>2, <1>3 DEF LastEnd
<1>4. CASE Len(rows) > 0
  <2>1. Len(rows) \in 1 .. Len(rows)
    BY <1>2, <1>4
  <2>2. LastEnd = EndOf(rows[Len(rows)])
    BY <1>2, <1>4 DEF LastEnd, EndOf
  <2>3. rows[Len(rows)].start \in Nat /\ rows[Len(rows)].dur \in Nat
    BY <1>1, <2>1
  <2>. QED
    BY <1>4, <2>1, <2>2, <2>3 DEF EndOf
<1>. QED
  BY <1>2, <1>3, <1>4

\* A window ends at its mark or behind it, and after the one before it.
LEMMA WindowEndsKeeps ==
  ASSUME CountersInv, WindowEnds
  PROVE  CountersInv'
<1>. DEFINE mark == (Len(rows) + 1) * Second
            soonest == Max({mark, LastEnd + 1})
<1>1. PICK late \in Lates : end' = soonest + late
  BY DEF WindowEnds
<1>2. /\ pc' = "load" /\ loads' = Cells
      /\ UNCHANGED <<val, ops, pending, snap, prev, rows>>
  BY DEF WindowEnds, adders
<1>3. mark \in Nat /\ late \in Nat
  BY CountersAssumption, LenProperties DEF CountersInv, CountersOK
<1>4. LastEnd \in Nat
  BY LastEndOf
<1>. HIDE DEF mark
<1>5. soonest \in Nat /\ mark <= soonest /\ LastEnd + 1 <= soonest
  BY <1>3, <1>4, Later
<1>. HIDE DEF soonest
<1>6. end' \in Nat /\ mark <= end' /\ LastEnd < end'
  BY <1>1, <1>3, <1>4, <1>5
<1>7. CountersOK'
  BY <1>2, <1>6 DEF CountersInv, CountersOK
<1>8. Monotone'
  BY <1>2 DEF CountersInv, Monotone
<1>9. Grid'
  <2>1. LastEnd' = LastEnd
    BY <1>2 DEF LastEnd
  <2>. QED
    BY <1>2, <1>6, <2>1 DEF CountersInv, Grid, EndOf, mark
<1>. QED
  BY <1>7, <1>8, <1>9 DEF CountersInv

\* A window is written where the last one ended, and ends no sooner than its mark.
LEMMA EmitWindowKeeps ==
  ASSUME CountersInv, EmitWindow
  PROVE  CountersInv'
<1>. DEFINE w == BuildWindow(LastEnd, end, prev, snap)
            n == Len(rows)
            R == {rows[k] : k \in 1 .. Len(rows)}
            T == R \cup {w}
<1>1. /\ rows' = Append(rows, w) /\ prev' = snap /\ pc' = "wait" /\ pc = "load"
      /\ UNCHANGED <<val, ops, pending, loads, snap, end>>
  BY DEF EmitWindow, adders
<1>2. w.start = LastEnd /\ w.dur = end - LastEnd
  BY DEF BuildWindow
<1>3. rows \in Seq(R) /\ \A k \in 1 .. n : rows[k].start \in Nat /\ rows[k].dur \in Nat
  BY DEF CountersInv, CountersOK
<1>4. /\ \A k \in 1 .. n : /\ k * Second <= EndOf(rows[k]) /\ rows[k].dur > 0
                           /\ rows[k].start = IF k = 1 THEN 0 ELSE EndOf(rows[k - 1])
                           /\ \A i \in 1 .. k - 1 : EndOf(rows[i]) <= rows[k].start
      /\ (n + 1) * Second <= end /\ LastEnd < end
  BY <1>1 DEF CountersInv, Grid
<1>5. R \subseteq T /\ w \in T
  OBVIOUS
<1>. HIDE DEF w, R, T
<1>6. rows \in Seq(T)
  BY <1>3, <1>5, SeqMonotonic
<1>7. /\ rows' \in Seq(T) /\ Len(rows') = n + 1 /\ n \in Nat
      /\ \A k \in 1 .. n : rows'[k] = rows[k]
      /\ rows'[n + 1] = w
  BY <1>1, <1>5, <1>6, AppendProperties, LenProperties
<1>. HIDE DEF n
<1>8. Second \in Nat /\ end \in Nat /\ LastEnd \in Nat
  BY CountersAssumption, LastEndOf DEF CountersInv, CountersOK
<1>10. w.start \in Nat /\ w.dur \in Nat /\ w.dur > 0 /\ EndOf(w) = end
  BY <1>2, <1>4, <1>8 DEF EndOf
<1>11. \A k \in 1 .. n + 1 : k \in 1 .. n \/ k = n + 1
  BY <1>7
<1>12. CountersOK'
  <2>1. \A k \in 1 .. n + 1 : rows'[k].start \in Nat /\ rows'[k].dur \in Nat
    BY <1>3, <1>7, <1>10, <1>11
  <2>2. rows' \in Seq({rows'[k] : k \in 1 .. n + 1})
    <3>. DEFINE X == {rows'[j] : j \in 1 .. n + 1}
    <3>1. rows' \in [1 .. n + 1 -> T]
      BY <1>7, LenProperties
    <3>2. \A k \in 1 .. n + 1 : rows'[k] \in X
      OBVIOUS
    <3>. HIDE DEF X
    <3>3. rows' \in [1 .. n + 1 -> X] /\ n + 1 \in Nat
      BY <1>7, <3>1, <3>2
    <3>4. rows' \in Seq(X)
      BY <3>3, SeqDef
    <3>. QED
      BY <3>4 DEF X
  <2>3. /\ snap \in Counts /\ val \in Counts /\ loads \subseteq Cells /\ ops \in Nat
        /\ pending \subseteq Nat \X Fields \X Cells
    BY DEF CountersInv, CountersOK
  <2>. QED
    BY <1>1, <1>7, <1>8, <2>1, <2>2, <2>3 DEF CountersOK
<1>13. Monotone'
  <2>1. \A d \in Cells, g \in Fields : snap[d][g] \in Nat
    BY DEF CountersInv, CountersOK, Counts, Figures
  <2>. QED
    BY <1>1, <2>1 DEF CountersInv, Monotone
<1>14. Grid'
  <2>. SUFFICES ASSUME NEW k \in 1 .. n + 1
                PROVE  /\ k * Second <= EndOf(rows'[k]) /\ rows'[k].dur > 0
                       /\ rows'[k].start = IF k = 1 THEN 0 ELSE EndOf(rows'[k - 1])
                       /\ \A i \in 1 .. k - 1 : EndOf(rows'[i]) <= rows'[k].start
    BY <1>1, <1>7 DEF Grid, EndOf
  <2>1. CASE k \in 1 .. n
    <3>1. rows'[k] = rows[k] /\ (k # 1 => rows'[k - 1] = rows[k - 1])
      BY <1>7, <2>1
    <3>2. \A i \in 1 .. k - 1 : rows'[i] = rows[i]
      BY <1>7, <2>1
    <3>. QED
      BY <1>4, <2>1, <3>1, <3>2
  <2>2. CASE k = n + 1
    <3>1. k * Second <= EndOf(rows'[k]) /\ rows'[k].dur > 0
      BY <1>4, <1>7, <1>10, <2>2
    <3>2. CASE n = 0
      <4>1. rows'[k].start = 0 /\ k = 1
        BY <1>2, <1>7, <2>2, <3>2, LastEndOf DEF n
      <4>2. 1 .. k - 1 = {}
        BY <4>1
      <4>. QED
        BY <3>1, <4>1, <4>2
    <3>3. CASE n > 0
      <4>1. n \in 1 .. n /\ LastEnd = EndOf(rows[n])
        BY <3>3, LastEndOf DEF n
      <4>2. k # 1 /\ k - 1 = n /\ rows'[k - 1] = rows[n] /\ rows'[k].start = LastEnd
        BY <1>2, <1>7, <2>2, <3>3, <4>1
      <4>3. ASSUME NEW i \in 1 .. n
            PROVE  EndOf(rows[i]) <= LastEnd
        <5>1. rows[i].start \in Nat /\ rows[i].dur \in Nat
              /\ rows[n].start \in Nat /\ rows[n].dur \in Nat
          BY <1>3, <4>1
        <5>2. EndOf(rows[i]) \in Nat /\ rows[n].start <= EndOf(rows[n])
          BY <5>1 DEF EndOf
        <5>3. i = n \/ i \in 1 .. n - 1
          BY <1>7
        <5>4. CASE i = n
          BY <4>1, <5>2, <5>4
        <5>5. CASE i \in 1 .. n - 1
          <6>1. EndOf(rows[i]) <= rows[n].start
            BY <1>4, <4>1, <5>5
          <6>. QED
            BY <1>8, <4>1, <5>1, <5>2, <6>1
        <5>. QED
          BY <5>3, <5>4, <5>5
      <4>4. \A i \in 1 .. k - 1 : EndOf(rows'[i]) <= rows'[k].start
        BY <1>7, <4>2, <4>3
      <4>. QED
        BY <3>1, <4>1, <4>2, <4>4
    <3>. QED
      BY <1>7, <3>2, <3>3
  <2>. QED
    BY <1>11, <2>1, <2>2
<1>. QED
  BY <1>12, <1>13, <1>14 DEF CountersInv
-----------------------------------------------------------------------------
(* Add calls in flight, and the gap between the total and the hosts.       *)

\* What is counted of the calls in flight is finite.
LEMMA FlightsFinite ==
  ASSUME ops \in Nat, Flights
  PROVE  /\ IsFiniteSet(InFlight) /\ InFlight \subseteq 1 .. ops
         /\ \A f \in Fields : IsFiniteSet(OnlyTotal(f)) /\ IsFiniteSet(OnlyHost(f))
<1>1. InFlight \subseteq 1 .. ops /\ IsFiniteSet(1 .. ops)
  BY FS_Interval DEF InFlight, Flights
<1>2. IsFiniteSet(InFlight)
  BY <1>1, FS_Subset
<1>3. \A f \in Fields : OnlyTotal(f) \subseteq InFlight /\ OnlyHost(f) \subseteq InFlight
  BY DEF OnlyTotal, OnlyHost
<1>. QED
  BY <1>1, <1>2, <1>3, FS_Subset

\* A call that begins is in flight, and half visible only if it is of no host.
LEMMA AddFlights ==
  ASSUME ops \in Nat, Flights, NEW f \in Fields, NEW C \in SUBSET Cells, Total \in C,
         \A c, d \in C \ {Total} : c = d,
         ops' = ops + 1, pending' = pending \cup {<<ops', f, c>> : c \in C}
  PROVE  /\ Flights'
         /\ Cardinality(InFlight)' = Cardinality(InFlight) + 1
         /\ \A g \in Fields :
              /\ Cardinality(OnlyHost(g))' = Cardinality(OnlyHost(g))
              /\ Cardinality(OnlyTotal(g))' =
                   Cardinality(OnlyTotal(g)) + IF g = f /\ C = {Total} THEN 1 ELSE 0
<1>. DEFINE n == ops + 1
            New == {<<n, f, c>> : c \in C}
<1>1. n \notin 1 .. ops /\ 1 .. ops \subseteq 1 .. n /\ n \in 1 .. n
  OBVIOUS
<1>2. pending' = pending \cup New /\ \A p \in New : p[1] = n /\ p[2] = f /\ p[3] \in C
  OBVIOUS
<1>3. \A p \in pending : p[1] \in 1 .. ops /\ p[2] \in Fields /\ p[3] \in Cells /\ p[1] # n
  BY <1>1 DEF Flights
<1>4. \A p, q \in New : (p[3] = Total <=> q[3] = Total) => p = q
  <2>. SUFFICES ASSUME NEW c \in C, NEW d \in C, c = Total <=> d = Total PROVE c = d
    OBVIOUS
  <2>. QED
    OBVIOUS
<1>5. <<n, f, Total>> \in New /\ New \subseteq (1 .. n) \X Fields \X Cells
  BY <1>1
<1>. HIDE DEF n, New
<1>6. Flights'
  <2>1. pending' \subseteq (1 .. n) \X Fields \X Cells
    BY <1>1, <1>2, <1>5 DEF Flights
  <2>2. ASSUME NEW p \in pending', NEW q \in pending', p[1] = q[1]
        PROVE  p[2] = q[2] /\ ((p[3] = Total <=> q[3] = Total) => p = q)
    <3>1. CASE p \in pending /\ q \in pending
      BY <2>2, <3>1 DEF Flights
    <3>2. CASE p \in New /\ q \in New
      BY <1>2, <1>4, <3>2
    <3>. QED
      BY <1>2, <1>3, <2>2, <3>1, <3>2
  <2>. QED
    BY <2>1, <2>2 DEF Flights, n
<1>7. InFlight' = InFlight \cup {n} /\ n \notin InFlight
  <2>1. InFlight' = {p[1] : p \in pending} \cup {p[1] : p \in New}
    BY <1>2 DEF InFlight
  <2>2. {p[1] : p \in New} = {n}
    BY <1>2, <1>5
  <2>. QED
    BY <1>3, <2>1, <2>2 DEF InFlight
<1>8. \A i \in InFlight : \A p \in pending' : p[1] = i => p \in pending
  BY <1>2, <1>7
<1>9. ASSUME NEW g \in Fields
      PROVE  /\ OnlyHost(g)' = OnlyHost(g)
             /\ OnlyTotal(g)' = OnlyTotal(g) \cup (IF g = f /\ C = {Total} THEN {n} ELSE {})
  <2>1. \A i \in InFlight : i \in OnlyHost(g)' <=> i \in OnlyHost(g)
    BY <1>2, <1>7, <1>8 DEF OnlyHost
  <2>2. \A i \in InFlight : i \in OnlyTotal(g)' <=> i \in OnlyTotal(g)
    BY <1>2, <1>7, <1>8 DEF OnlyTotal
  <2>3. n \notin OnlyHost(g)'
    BY <1>2, <1>5 DEF OnlyHost
  <2>4. n \in OnlyTotal(g)' <=> g = f /\ C = {Total}
    <3>1. CASE g = f /\ C = {Total}
      BY <1>2, <1>3, <1>7, <3>1 DEF OnlyTotal
    <3>2. CASE g # f
      BY <1>2, <1>5, <3>2 DEF OnlyTotal
    <3>3. CASE C # {Total}
      <4>1. PICK c \in C : c # Total
        BY <3>3
      <4>2. <<n, f, c>> \in New
        BY DEF New
      <4>. QED
        BY <1>2, <3>3, <4>1, <4>2 DEF OnlyTotal
    <3>. QED
      BY <3>1, <3>2, <3>3
  <2>5. OnlyHost(g)' \subseteq InFlight \cup {n} /\ OnlyTotal(g)' \subseteq InFlight \cup {n}
    BY <1>7 DEF OnlyHost, OnlyTotal
  <2>6. OnlyHost(g) \subseteq InFlight /\ OnlyTotal(g) \subseteq InFlight
    BY DEF OnlyHost, OnlyTotal
  <2>. QED
    BY <2>1, <2>2, <2>3, <2>4, <2>5, <2>6, Zenon
<1>10. \A g \in Fields : n \notin OnlyTotal(g)
  BY <1>7 DEF OnlyTotal
<1>11. Cardinality(InFlight)' = Cardinality(InFlight) + 1
  BY <1>7, FlightsFinite, FS_AddElement
<1>12. ASSUME NEW g \in Fields
       PROVE  Cardinality(OnlyTotal(g))' =
                Cardinality(OnlyTotal(g)) + IF g = f /\ C = {Total} THEN 1 ELSE 0
  <2>1. IsFiniteSet(OnlyTotal(g)) /\ Cardinality(OnlyTotal(g)) \in Nat
    BY FlightsFinite, FS_CardinalityType
  <2>2. CASE g = f /\ C = {Total}
    <3>1. OnlyTotal(g)' = OnlyTotal(g) \cup {n} /\ n \notin OnlyTotal(g)
      BY <1>9, <1>10, <2>2
    <3>2. Cardinality(OnlyTotal(g) \cup {n}) = Cardinality(OnlyTotal(g)) + 1
      BY <2>1, <3>1, FS_AddElement
    <3>. QED
      BY <2>2, <3>1, <3>2
  <2>3. CASE ~(g = f /\ C = {Total})
    <3>1. OnlyTotal(g)' = OnlyTotal(g)
      BY <1>9, <2>3
    <3>. QED
      BY <2>1, <2>3, <3>1
  <2>. QED
    BY <2>2, <2>3
<1>. QED
  BY <1>6, <1>9, <1>11, <1>12

\* A fetch_add that lands makes a call half visible or, if it was the last of the
\* call, takes it out of flight.
LEMMA LandFlights ==
  ASSUME ops \in Nat, Flights, NEW p \in pending, ops' = ops, pending' = pending \ {p}
  PROVE  /\ Flights'
         /\ \A g \in Fields : g # p[2] =>
              /\ Cardinality(OnlyHost(g))' = Cardinality(OnlyHost(g))
              /\ Cardinality(OnlyTotal(g))' = Cardinality(OnlyTotal(g))
         /\ LET host == Cardinality(OnlyHost(p[2]))
                total == Cardinality(OnlyTotal(p[2]))
            IN  \/ /\ Cardinality(InFlight)' = Cardinality(InFlight) - 1
                   /\ host' = host - (IF p[3] = Total THEN 0 ELSE 1)
                   /\ total' = total - (IF p[3] = Total THEN 1 ELSE 0)
                \/ /\ Cardinality(InFlight)' = Cardinality(InFlight)
                   /\ host' = host + (IF p[3] = Total THEN 1 ELSE 0)
                   /\ total' = total + (IF p[3] = Total THEN 0 ELSE 1)
<1>. DEFINE i == p[1]  f == p[2]
<1>1. /\ i \in InFlight /\ f \in Fields /\ p[3] \in Cells
      /\ \A q \in pending : q[1] = i =>
           q[2] = f /\ ((q[3] = Total <=> p[3] = Total) => q = p)
  BY DEF Flights, InFlight
<1>2. Flights'
  BY DEF Flights
<1>3. \A j \in InFlight : j # i => /\ j \in InFlight'
                                  /\ \A q \in pending : q[1] = j => q \in pending'
  BY DEF InFlight
<1>4. InFlight' \subseteq InFlight /\ pending' \subseteq pending
  BY DEF InFlight
<1>5. \A g \in Fields, j \in InFlight : j # i =>
        /\ j \in OnlyHost(g)' <=> j \in OnlyHost(g)
        /\ j \in OnlyTotal(g)' <=> j \in OnlyTotal(g)
  BY <1>3, <1>4 DEF OnlyHost, OnlyTotal
<1>6. \A g \in Fields : /\ OnlyHost(g) \subseteq InFlight /\ OnlyTotal(g) \subseteq InFlight
                        /\ OnlyHost(g)' \subseteq InFlight' /\ OnlyTotal(g)' \subseteq InFlight'
  BY DEF OnlyHost, OnlyTotal
<1>7. /\ IsFiniteSet(InFlight) /\ Cardinality(InFlight) \in Nat
      /\ \A g \in Fields : /\ IsFiniteSet(OnlyHost(g)) /\ IsFiniteSet(OnlyTotal(g))
                           /\ Cardinality(OnlyHost(g)) \in Nat /\ Cardinality(OnlyTotal(g)) \in Nat
  BY FlightsFinite, FS_CardinalityType
<1>8. ASSUME NEW g \in Fields, g # f
      PROVE  OnlyHost(g)' = OnlyHost(g) /\ OnlyTotal(g)' = OnlyTotal(g)
  <2>1. i \notin OnlyHost(g) /\ i \notin OnlyTotal(g)
    BY <1>1, <1>8 DEF OnlyHost, OnlyTotal
  <2>2. i \notin OnlyHost(g)' /\ i \notin OnlyTotal(g)'
    <3>1. ASSUME i \in InFlight' PROVE \E q \in pending' : q[1] = i /\ q[2] = f
      BY <1>1, <1>4, <3>1 DEF InFlight
    <3>. QED
      BY <1>8, <3>1 DEF OnlyHost, OnlyTotal
  <2>3. /\ OnlyHost(g) \subseteq InFlight /\ OnlyTotal(g) \subseteq InFlight
        /\ OnlyHost(g)' \subseteq InFlight /\ OnlyTotal(g)' \subseteq InFlight
    BY <1>4, <1>6
  <2>4. \A j \in InFlight : j # i => /\ j \in OnlyHost(g)' <=> j \in OnlyHost(g)
                                     /\ j \in OnlyTotal(g)' <=> j \in OnlyTotal(g)
    BY <1>5
  <2>. HIDE DEF i
  <2>. QED
    BY <2>1, <2>2, <2>3, <2>4
<1>. HIDE DEF i, f
<1>9. CASE \A q \in pending : q[1] = i => q = p
  <2>1. i \notin InFlight'
    BY <1>9 DEF InFlight
  <2>2. InFlight' = InFlight \ {i}
    BY <1>3, <1>4, <2>1
  <2>3. OnlyHost(f)' = OnlyHost(f) \ {i} /\ OnlyTotal(f)' = OnlyTotal(f) \ {i}
    BY <1>1, <1>4, <1>5, <1>6, <2>2
  <2>4. /\ i \in OnlyTotal(f) <=> p[3] = Total
        /\ i \in OnlyHost(f) <=> p[3] # Total
    BY <1>1, <1>9 DEF OnlyHost, OnlyTotal, i, f
  <2>5. /\ Cardinality(InFlight \ {i}) = Cardinality(InFlight) - 1
        /\ Cardinality(OnlyHost(f) \ {i}) = Cardinality(OnlyHost(f)) - (IF p[3] = Total THEN 0 ELSE 1)
        /\ Cardinality(OnlyTotal(f) \ {i}) = Cardinality(OnlyTotal(f)) - (IF p[3] = Total THEN 1 ELSE 0)
    <3>1. \A S : IsFiniteSet(S) => Cardinality(S \ {i}) =
                    IF i \in S THEN Cardinality(S) - 1 ELSE Cardinality(S)
      BY FS_RemoveElement
    <3>2. /\ Cardinality(OnlyHost(f)) \in Nat /\ Cardinality(OnlyTotal(f)) \in Nat
          /\ IsFiniteSet(OnlyHost(f)) /\ IsFiniteSet(OnlyTotal(f))
      BY <1>1, <1>7
    <3>3. Cardinality(InFlight \ {i}) = Cardinality(InFlight) - 1
      BY <1>1, <1>7, <3>1
    <3>4. CASE p[3] = Total
      BY <2>4, <3>1, <3>2, <3>3, <3>4
    <3>5. CASE p[3] # Total
      BY <2>4, <3>1, <3>2, <3>3, <3>5
    <3>. QED
      BY <3>4, <3>5
  <2>. QED
    BY <1>2, <1>8, <2>2, <2>3, <2>5 DEF f
<1>10. CASE \E q \in pending : q[1] = i /\ q # p
  <2>1. PICK q \in pending : q[1] = i /\ q # p
    BY <1>10
  <2>2. q \in pending' /\ q[2] = f /\ ~(q[3] = Total <=> p[3] = Total)
    BY <1>1, <2>1
  <2>3. i \in InFlight' /\ InFlight' = InFlight
    BY <1>3, <1>4, <2>1, <2>2 DEF InFlight
  <2>4. \A r \in pending' : r[1] = i => r = q
    <3>. SUFFICES ASSUME NEW r \in pending', r[1] = i PROVE r = q
      OBVIOUS
    <3>1. r \in pending /\ r # p /\ ~(r[3] = Total <=> p[3] = Total)
      BY <1>1
    <3>2. r[3] = Total <=> q[3] = Total
      BY <2>2, <3>1
    <3>. QED
      BY <2>1, <3>1, <3>2 DEF Flights
  <2>5. i \notin OnlyHost(f) /\ i \notin OnlyTotal(f)
    BY <2>1, <2>2 DEF OnlyHost, OnlyTotal, i
  <2>6. /\ i \in OnlyHost(f)' <=> p[3] = Total
        /\ i \in OnlyTotal(f)' <=> p[3] # Total
    BY <2>1, <2>2, <2>3, <2>4 DEF OnlyHost, OnlyTotal
  <2>7. /\ OnlyHost(f)' = OnlyHost(f) \cup (IF p[3] = Total THEN {i} ELSE {})
        /\ OnlyTotal(f)' = OnlyTotal(f) \cup (IF p[3] = Total THEN {} ELSE {i})
    BY <1>1, <1>4, <1>5, <1>6, <2>5, <2>6, Zenon
  <2>8. /\ Cardinality(OnlyHost(f) \cup {i}) = Cardinality(OnlyHost(f)) + 1
        /\ Cardinality(OnlyTotal(f) \cup {i}) = Cardinality(OnlyTotal(f)) + 1
    BY <1>1, <1>7, <2>5, FS_AddElement
  <2>9. CASE p[3] = Total
    <3>1. OnlyHost(f)' = OnlyHost(f) \cup {i} /\ OnlyTotal(f)' = OnlyTotal(f)
      BY <2>7, <2>9
    <3>2. Cardinality(OnlyTotal(f)) \in Nat
      BY <1>1, <1>7
    <3>. QED
      BY <1>2, <1>8, <2>3, <2>8, <2>9, <3>1, <3>2 DEF f
  <2>10. CASE p[3] # Total
    <3>1. OnlyTotal(f)' = OnlyTotal(f) \cup {i} /\ OnlyHost(f)' = OnlyHost(f)
      BY <2>7, <2>10
    <3>2. Cardinality(OnlyHost(f)) \in Nat
      BY <1>1, <1>7
    <3>. QED
      BY <1>2, <1>8, <2>3, <2>8, <2>10, <3>1, <3>2 DEF f
  <2>. QED
    BY <2>9, <2>10
<1>. QED
  BY <1>9, <1>10

\* The gap is a number, and the hosts' sum in it a sum over Hosts.
LEMMA GapType ==
  ASSUME NEW c \in Counts, NEW f \in Fields
  PROVE  /\ Gap(c, f) = c[Total][f] - SumFunctionOnSet([h \in Hosts |-> c[h][f]], Hosts)
         /\ Gap(c, f) \in Int
         /\ \A h \in Hosts : c[h][f] \in Nat
<1>1. \A h \in Hosts \cup {Total} : c[h][f] \in Nat
  BY DEF Counts, Figures, Cells
<1>. DEFINE fn == [h \in Hosts |-> c[h][f]]
<1>2. \A h \in Hosts : fn[h] \in Nat /\ fn[h] \in Int
  BY <1>1
<1>3. SumFunction(fn) = SumFunctionOnSet(fn, Hosts)
  BY DEF SumFunction
<1>4. Gap(c, f) = c[Total][f] - SumFunction(fn)
  BY DEF Gap
<1>. HIDE DEF fn
<1>5. SumFunctionOnSet(fn, Hosts) \in Int
  BY <1>2, SumRemove, CountersAssumption
<1>6. Gap(c, f) \in Int
  BY <1>1, <1>3, <1>4, <1>5
<1>. QED
  BY <1>2, <1>3, <1>4, <1>6 DEF fn

\* A fetch_add changes the gap of its field by one, and of no other.
LEMMA GapBump ==
  ASSUME NEW c \in Counts, NEW d \in Cells, NEW f \in Fields, NEW g \in Fields
  PROVE  /\ [c EXCEPT ![d][f] = @ + 1] \in Counts
         /\ Gap([c EXCEPT ![d][f] = @ + 1], g) =
              Gap(c, g) + (IF g # f THEN 0 ELSE IF d = Total THEN 1 ELSE -1)
<1>. DEFINE e == [c EXCEPT ![d][f] = @ + 1]
            fn == [h \in Hosts |-> c[h][g]]
            gn == [h \in Hosts |-> e[h][g]]
<1>. SUFFICES
       /\ e \in Counts
       /\ Gap(e, g) = Gap(c, g) + (IF g # f THEN 0 ELSE IF d = Total THEN 1 ELSE -1)
  OBVIOUS
<1>1. e \in Counts
  BY DEF Counts, Figures
<1>2. /\ Gap(c, g) = c[Total][g] - SumFunctionOnSet(fn, Hosts)
      /\ Gap(e, g) = e[Total][g] - SumFunctionOnSet(gn, Hosts)
      /\ Gap(c, g) \in Int /\ Gap(e, g) \in Int
      /\ \A h \in Hosts : fn[h] \in Int /\ gn[h] \in Int
  <2>1. /\ Gap(c, g) = c[Total][g] - SumFunctionOnSet(fn, Hosts)
        /\ Gap(c, g) \in Int /\ \A h \in Hosts : c[h][g] \in Nat
    BY GapType
  <2>2. /\ Gap(e, g) = e[Total][g] - SumFunctionOnSet(gn, Hosts)
        /\ Gap(e, g) \in Int /\ \A h \in Hosts : e[h][g] \in Nat
    BY <1>1, GapType
  <2>. QED
    BY <2>1, <2>2
<1>3. \A h \in Cells : /\ c[h][g] \in Nat
                       /\ e[h][g] = IF h = d /\ g = f THEN c[h][g] + 1 ELSE c[h][g]
  BY DEF Counts, Figures
<1>4. \A h \in Hosts : fn[h] = c[h][g] /\ gn[h] = e[h][g] /\ h \in Cells /\ h # Total
  BY CountersAssumption DEF Cells
<1>5. Total \in Cells /\ IsFiniteSet(Hosts)
  BY CountersAssumption DEF Cells
<1>. HIDE DEF e, fn, gn
<1>6. SumFunctionOnSet(fn, Hosts) \in Int
  BY <1>2, <1>5, SumRemove
<1>7. CASE d \in Hosts /\ g = f
  <2>1. \A h \in Hosts \ {d} : gn[h] = fn[h]
    BY <1>3, <1>4
  <2>2. SumFunctionOnSet(gn, Hosts) = SumFunctionOnSet(fn, Hosts) + (gn[d] - fn[d])
    BY <1>2, <1>5, <1>7, <2>1, SumBump
  <2>3. gn[d] - fn[d] = 1 /\ e[Total][g] = c[Total][g] /\ d # Total /\ c[Total][g] \in Nat
    BY <1>3, <1>4, <1>5, <1>7
  <2>. QED
    BY <1>1, <1>2, <1>6, <1>7, <2>2, <2>3
<1>8. CASE d = Total \/ g # f
  <2>1. \A h \in Hosts : gn[h] = fn[h]
    BY <1>3, <1>4, <1>8
  <2>2. SumFunctionOnSet(gn, Hosts) = SumFunctionOnSet(fn, Hosts)
    BY <1>5, <2>1, SumSame
  <2>3. e[Total][g] = c[Total][g] + (IF g = f /\ d = Total THEN 1 ELSE 0) /\ c[Total][g] \in Nat
    BY <1>3, <1>5
  <2>. QED
    BY <1>1, <1>2, <1>6, <1>8, <2>2, <2>3
<1>. QED
  BY <1>7, <1>8 DEF Cells

\* What the windows leave unexplained is a number.
LEMMA UnexplainedType ==
  ASSUME CountersOK, HistoryOK, NEW f \in Fields
  PROVE  /\ \A k \in 1 .. Len(rows) : rows[k].total[f] - Shares(rows[k], f) \in Int
         /\ Unexplained(f) = SumFunctionOnSet([k \in 1 .. Len(rows) |->
                               rows[k].total[f] - Shares(rows[k], f)], 1 .. Len(rows))
         /\ Unexplained(f) \in Int
<1>1. Len(rows) \in Nat
  BY LenProperties DEF CountersOK
<1>2. ASSUME NEW k \in 1 .. Len(rows)
      PROVE  rows[k].total[f] - Shares(rows[k], f) \in Int
  <2>. DEFINE P == DOMAIN rows[k].peers
              fn == [h \in P |-> rows[k].peers[h][f]]
  <2>1. rows[k].total[f] \in Nat
    BY DEF HistoryOK, Figures
  <2>2. \A h \in P : fn[h] \in Int
    BY DEF HistoryOK, Figures
  <2>3. IsFiniteSet(P)
    BY FS_Subset, CountersAssumption DEF HistoryOK
  <2>4. Shares(rows[k], f) = SumFunctionOnSet(fn, P)
    BY DEF Shares, SumFunction
  <2>. HIDE DEF fn, P
  <2>5. SumFunctionOnSet(fn, P) \in Int
    BY <2>2, <2>3, SumRemove
  <2>. QED
    BY <2>1, <2>4, <2>5
<1>. DEFINE gn == [k \in 1 .. Len(rows) |-> rows[k].total[f] - Shares(rows[k], f)]
            S == 1 .. Len(rows)
<1>3. Unexplained(f) = SumFunctionOnSet(gn, S)
  BY DEF Unexplained, SumFunction
<1>4. IsFiniteSet(S) /\ \A k \in S : gn[k] \in Int
  BY <1>1, <1>2, FS_Interval
<1>5. SumFunctionOnSet(gn, S) \in Int
  <2>. HIDE DEF gn, S
  <2>. QED
    BY <1>4, SumRemove
<1>. QED
  BY <1>2, <1>3, <1>5

\* What the parts of the invariant are made of are numbers.
LEMMA SharesTypes ==
  ASSUME CountersOK, HistoryOK, Flights, NEW f \in Fields
  PROVE  /\ Gap(val, f) \in Int /\ Gap(prev, f) \in Int /\ Gap(snap, f) \in Int
         /\ Shown \in Counts /\ Gap(Shown, f) \in Int
         /\ Unexplained(f) \in Int /\ stray[f] \in Nat
         /\ \A s \in {"first", "load"} : slack[s].over \in Nat /\ slack[s].stray[f] \in Nat
         /\ Cardinality(InFlight) \in Nat
         /\ Cardinality(OnlyHost(f)) \in Nat /\ Cardinality(OnlyTotal(f)) \in Nat
         /\ Cardinality(OnlyHost(f)) <= Cardinality(InFlight)
         /\ Cardinality(OnlyTotal(f)) <= Cardinality(InFlight)
<1>1. val \in Counts /\ snap \in Counts /\ prev \in Counts /\ ops \in Nat
  BY DEF CountersOK
<1>2. Shown \in Counts
  BY <1>1 DEF Shown, Counts
<1>3. /\ stray[f] \in Nat
      /\ \A s \in {"first", "load"} : slack[s].over \in Nat /\ slack[s].stray[f] \in Nat
  BY DEF HistoryOK, Figures
<1>4. IsFiniteSet(InFlight) /\ OnlyHost(f) \subseteq InFlight /\ OnlyTotal(f) \subseteq InFlight
  BY <1>1, FlightsFinite DEF OnlyHost, OnlyTotal
<1>5. /\ Cardinality(InFlight) \in Nat
      /\ Cardinality(OnlyHost(f)) \in Nat /\ Cardinality(OnlyTotal(f)) \in Nat
      /\ Cardinality(OnlyHost(f)) <= Cardinality(InFlight)
      /\ Cardinality(OnlyTotal(f)) <= Cardinality(InFlight)
  BY <1>4, FS_Subset, FS_CardinalityType
<1>. QED
  BY <1>1, <1>2, <1>3, <1>5, GapType, UnexplainedType

\* Where no snapshot is in progress the hosts' shares add up.
LEMMA AddUp ==
  ASSUME CountersOK, SharesInv
  PROVE  SharesAddUp
<1>1. CASE pc = "done"
  BY <1>1 DEF SharesInv, Telescope
<1>2. CASE pc = "first"
  BY <1>2 DEF SharesInv, Telescope, SharesAddUp
<1>3. CASE pc = "load"
  BY <1>3 DEF SharesAddUp
<1>4. CASE pc = "wait"
  <2>. SUFFICES ASSUME rows # <<>>, NEW f \in Fields
                PROVE  LET strays == slack["load"].stray[f] - slack["first"].stray[f]
                           over   == slack["load"].over + slack["first"].over
                       IN  Unexplained(f) \in (strays - over) .. (strays + over)
    BY DEF SharesAddUp
  <2>1. /\ Gap(prev, f) \in Int /\ Unexplained(f) \in Int
        /\ \A s \in {"first", "load"} : slack[s].over \in Nat /\ slack[s].stray[f] \in Nat
    BY SharesTypes DEF SharesInv
  <2>2. /\ Within(Gap(prev, f) - Unexplained(f) - slack["first"].stray[f], slack["first"].over)
        /\ Within(Gap(prev, f) - slack["load"].stray[f], slack["load"].over)
    BY <1>4 DEF SharesInv, Telescope
  <2>3. \A g, u, a, b, m, n \in Int :
          Within(g - u - a, m) /\ Within(g - b, n) => u \in ((b - a) - (n + m)) .. ((b - a) + (n + m))
    BY DEF Within
  <2>4. /\ slack["load"].stray[f] \in Int /\ slack["first"].stray[f] \in Int
        /\ slack["load"].over \in Int /\ slack["first"].over \in Int
    BY <2>1
  <2>5. Unexplained(f) \in
          ((slack["load"].stray[f] - slack["first"].stray[f])
             - (slack["load"].over + slack["first"].over)) ..
          ((slack["load"].stray[f] - slack["first"].stray[f])
             + (slack["load"].over + slack["first"].over))
    BY <2>1, <2>2, <2>3, <2>4
  <2>. QED
    BY <2>5
<1>. QED
  BY <1>1, <1>2, <1>3, <1>4 DEF CountersOK

\* A call that begins is visible nowhere, and overlaps the snapshot in progress.
LEMMA AddShares ==
  ASSUME CountersInv, SharesInv, pc # "done",
         NEW f \in Fields, NEW C \in SUBSET Cells, Total \in C,
         \A c, d \in C \ {Total} : c = d,
         ops' = ops + 1, pending' = pending \cup {<<ops', f, c>> : c \in C},
         stray' \in Figures,
         \A g \in Fields : stray'[g] = stray[g] + IF g = f /\ C = {Total} THEN 1 ELSE 0,
         slack' = Overlaps, UNCHANGED <<val, pc, loads, snap, prev, end, rows>>
  PROVE  SharesInv'
<1>1. CountersOK /\ HistoryOK /\ Flights /\ Balance /\ Overlap /\ Telescope /\ ops \in Nat
      /\ pc \in {"first", "load", "wait"}
  BY DEF CountersInv, SharesInv, CountersOK
<1>2. /\ Flights'
      /\ Cardinality(InFlight)' = Cardinality(InFlight) + 1
      /\ \A g \in Fields :
           /\ Cardinality(OnlyHost(g))' = Cardinality(OnlyHost(g))
           /\ Cardinality(OnlyTotal(g))' =
                Cardinality(OnlyTotal(g)) + IF g = f /\ C = {Total} THEN 1 ELSE 0
  BY <1>1, AddFlights
<1>3. \A g \in Fields : /\ Gap(val, g)' = Gap(val, g) /\ Gap(prev, g)' = Gap(prev, g)
                        /\ Gap(Shown, g)' = Gap(Shown, g) /\ Unexplained(g)' = Unexplained(g)
  BY DEF Gap, Shown, Unexplained, Shares
<1>4. CASE pc = "wait"
  <2>1. slack' = slack
    BY <1>4 DEF Overlaps
  <2>2. HistoryOK'
    BY <1>1, <2>1 DEF HistoryOK
  <2>3. Balance'
    <3>. SUFFICES ASSUME NEW g \in Fields
                  PROVE  Gap(val, g)' = stray'[g] + Cardinality(OnlyHost(g))'
                                        - Cardinality(OnlyTotal(g))'
      BY DEF Balance
    <3>1. Gap(val, g) = stray[g] + Cardinality(OnlyHost(g)) - Cardinality(OnlyTotal(g))
      BY <1>1 DEF Balance
    <3>. QED
      BY <1>1, <1>2, <1>3, <3>1, SharesTypes
  <2>4. Overlap'
    BY <1>4 DEF Overlap
  <2>5. Telescope'
    BY <1>1, <1>3, <1>4, <2>1 DEF Telescope
  <2>. QED
    BY <1>2, <2>2, <2>3, <2>4, <2>5 DEF SharesInv
<1>5. CASE pc \in {"first", "load"}
  <2>1. /\ slack[pc].over \in Nat
        /\ slack' = [slack EXCEPT ![pc].over = @ + 1]
        /\ slack' \in [{"first", "load"} -> [over : Nat, stray : Figures]]
        /\ slack'[pc].over = slack[pc].over + 1 /\ slack'[pc].stray = slack[pc].stray
        /\ \A s \in {"first", "load"} \ {pc} : slack'[s] = slack[s]
    <3>1. slack' = [slack EXCEPT ![pc].over = @ + 1]
      BY <1>5 DEF Overlaps
    <3>2. slack \in [{"first", "load"} -> [over : Nat, stray : Figures]]
      BY <1>1 DEF HistoryOK
    <3>3. slack[pc].over \in Nat
      BY <1>5, <3>2
    <3>. QED
      BY <1>5, <3>1, <3>2, <3>3
  <2>2. HistoryOK'
    BY <1>1, <2>1 DEF HistoryOK
  <2>3. Balance'
    <3>. SUFFICES ASSUME NEW g \in Fields
                  PROVE  Gap(val, g)' = stray'[g] + Cardinality(OnlyHost(g))'
                                        - Cardinality(OnlyTotal(g))'
      BY DEF Balance
    <3>1. Gap(val, g) = stray[g] + Cardinality(OnlyHost(g)) - Cardinality(OnlyTotal(g))
      BY <1>1 DEF Balance
    <3>. QED
      BY <1>1, <1>2, <1>3, <3>1, SharesTypes
  <2>4. Overlap'
    <3>1. slack[pc].over - Cardinality(InFlight) >= 0
      BY <1>1, <1>5 DEF Overlap
    <3>2. Cardinality(InFlight) \in Nat
      BY <1>1, FlightsFinite, FS_CardinalityType
    <3>3. slack'[pc].over - Cardinality(InFlight)' = slack[pc].over - Cardinality(InFlight)
      BY <1>2, <2>1, <3>2
    <3>4. ASSUME NEW g \in Fields
          PROVE  LET over == slack[pc].over - Cardinality(InFlight)
                 IN  /\ Gap(Shown, g)' - slack'[pc].stray[g] <= Cardinality(OnlyHost(g))' + over
                     /\ slack'[pc].stray[g] - Gap(Shown, g)' <= Cardinality(OnlyTotal(g))' + over
      <4>1. LET over == slack[pc].over - Cardinality(InFlight)
            IN  /\ Gap(Shown, g) - slack[pc].stray[g] <= Cardinality(OnlyHost(g)) + over
                /\ slack[pc].stray[g] - Gap(Shown, g) <= Cardinality(OnlyTotal(g)) + over
        BY <1>1, <1>5 DEF Overlap
      <4>2. /\ slack[pc].stray[g] \in Nat /\ Gap(Shown, g) \in Int
            /\ Cardinality(OnlyTotal(g)) \in Nat
        BY <1>1, <1>5, SharesTypes
      <4>. QED
        BY <1>2, <1>3, <2>1, <3>2, <4>1, <4>2
    <3>. QED
      BY <3>1, <3>3, <3>4 DEF Overlap
  <2>5. Telescope'
    <3>1. pc = "first" => rows' = <<>>
      BY <1>1 DEF Telescope
    <3>2. ASSUME pc = "load", NEW g \in Fields
          PROVE  Within(Gap(prev, g) - Unexplained(g) - slack["first"].stray[g], slack["first"].over)'
      <4>1. slack'["first"] = slack["first"]
        BY <2>1, <3>2
      <4>. QED
        BY <1>1, <1>3, <3>2, <4>1 DEF Telescope
    <3>. QED
      BY <1>5, <3>1, <3>2 DEF Telescope
  <2>. QED
    BY <1>2, <2>2, <2>3, <2>4, <2>5 DEF SharesInv
<1>. QED
  BY <1>1, <1>4, <1>5

\* A fetch_add that lands: a call still in flight is now half visible, one that is
\* not is one the snapshot may be off by.
LEMMA LandShares ==
  ASSUME CountersInv, SharesInv, pc # "done", NEW p \in pending,
         val' = [val EXCEPT ![p[3]][p[2]] = @ + 1], pending' = pending \ {p},
         UNCHANGED <<ops, stray, pc, loads, snap, prev, end, rows, slack>>
  PROVE  SharesInv'
<1>. DEFINE d == p[3]  f == p[2]
<1>1. /\ CountersOK /\ HistoryOK /\ Flights /\ Balance /\ Overlap /\ Telescope /\ ops \in Nat
      /\ pc \in {"first", "load", "wait"} /\ val \in Counts /\ snap \in Counts
  BY DEF CountersInv, SharesInv, CountersOK
<1>2. d \in Cells /\ f \in Fields
  BY <1>1 DEF Flights
<1>3. /\ Flights'
      /\ \A g \in Fields : g # f =>
           /\ Cardinality(OnlyHost(g))' = Cardinality(OnlyHost(g))
           /\ Cardinality(OnlyTotal(g))' = Cardinality(OnlyTotal(g))
      /\ \/ /\ Cardinality(InFlight)' = Cardinality(InFlight) - 1
            /\ Cardinality(OnlyHost(f))' = Cardinality(OnlyHost(f)) - (IF d = Total THEN 0 ELSE 1)
            /\ Cardinality(OnlyTotal(f))' = Cardinality(OnlyTotal(f)) - (IF d = Total THEN 1 ELSE 0)
         \/ /\ Cardinality(InFlight)' = Cardinality(InFlight)
            /\ Cardinality(OnlyHost(f))' = Cardinality(OnlyHost(f)) + (IF d = Total THEN 1 ELSE 0)
            /\ Cardinality(OnlyTotal(f))' = Cardinality(OnlyTotal(f)) + (IF d = Total THEN 0 ELSE 1)
  BY <1>1, LandFlights
<1>. HIDE DEF d, f
<1>4. val' = [val EXCEPT ![d][f] = @ + 1]
  BY DEF d, f
<1>. DEFINE G(g) == Gap(val', g)
<1>5. \A g \in Fields :
        G(g) = Gap(val, g) + (IF g # f THEN 0 ELSE IF d = Total THEN 1 ELSE -1)
  <2>1. val \in Counts
    BY <1>1
  <2>2. \A c \in Counts, g \in Fields : Gap([c EXCEPT ![d][f] = @ + 1], g)
          = Gap(c, g) + (IF g # f THEN 0 ELSE IF d = Total THEN 1 ELSE -1)
    BY <1>2, GapBump
  <2>3. \A g \in Fields : Gap([val EXCEPT ![d][f] = @ + 1], g)
          = Gap(val, g) + (IF g # f THEN 0 ELSE IF d = Total THEN 1 ELSE -1)
    BY <2>1, <2>2
  <2>. QED
    BY <1>4, <2>3
<1>. HIDE DEF G
<1>6. \A g \in Fields :
        \/ Gap(Shown, g)' = Gap(Shown, g)
        \/ Gap(Shown, g)' = Gap(Shown, g) + (IF g # f THEN 0 ELSE IF d = Total THEN 1 ELSE -1)
  <2>1. CASE d \notin loads
    <3>1. \A c \in Cells : c \in loads => val'[c] = val[c]
      BY <1>1, <1>2, <1>4, <2>1 DEF Counts
    <3>2. Shown' = Shown
      BY <3>1 DEF Shown
    <3>. QED
      BY <3>2 DEF Gap
  <2>2. CASE d \in loads
    <3>1. Shown' = [Shown EXCEPT ![d][f] = @ + 1]
      <4>1. /\ Shown = [c \in Cells |-> IF c \in loads THEN val[c] ELSE snap[c]]
            /\ Shown' = [c \in Cells |-> IF c \in loads THEN val'[c] ELSE snap[c]]
        BY DEF Shown
      <4>2. \A c \in Cells : val'[c] = IF c = d THEN [val[d] EXCEPT ![f] = @ + 1] ELSE val[c]
        BY <1>1, <1>2, <1>4 DEF Counts
      <4>3. Shown[d] = val[d]
        BY <1>2, <2>2, <4>1
      <4>4. \A c \in Cells : Shown'[c] = IF c = d THEN [Shown[d] EXCEPT ![f] = @ + 1] ELSE Shown[c]
        BY <2>2, <4>1, <4>2, <4>3
      <4>5. [Shown EXCEPT ![d][f] = @ + 1] = [c \in Cells |-> IF c = d THEN [Shown[d] EXCEPT ![f] = @ + 1] ELSE Shown[c]]
        BY <1>2, <4>1
      <4>6. Shown' = [c \in Cells |-> Shown'[c]]
        BY <4>1
      <4>. QED
        BY <4>4, <4>5, <4>6
    <3>2. Shown \in Counts
      BY <1>1 DEF Shown, Counts
    <3>3. \A g \in Fields :
            Gap(Shown', g) = Gap(Shown, g) + (IF g # f THEN 0 ELSE IF d = Total THEN 1 ELSE -1)
      <4>1. \A g \in Fields : Gap([Shown EXCEPT ![d][f] = @ + 1], g)
                               = Gap(Shown, g) + (IF g # f THEN 0 ELSE IF d = Total THEN 1 ELSE -1)
        BY <1>2, <3>2, GapBump
      <4>. QED
        BY <3>1, <4>1
    <3>4. \A g \in Fields : Gap(Shown', g) = Gap(Shown, g)'
      BY DEF Gap
    <3>. QED
      BY <3>3, <3>4
  <2>. QED
    BY <2>1, <2>2
<1>7. \A g \in Fields : Gap(prev, g)' = Gap(prev, g) /\ Unexplained(g)' = Unexplained(g)
  BY DEF Gap, Unexplained, Shares
<1>8. HistoryOK'
  BY <1>1 DEF HistoryOK
<1>9. Balance'
  <2>. SUFFICES ASSUME NEW g \in Fields
                PROVE  G(g) = stray[g] + Cardinality(OnlyHost(g))'
                                      - Cardinality(OnlyTotal(g))'
    BY DEF Balance, Gap, G
  <2>1. Gap(val, g) = stray[g] + Cardinality(OnlyHost(g)) - Cardinality(OnlyTotal(g))
    BY <1>1 DEF Balance
  <2>2. /\ Gap(val, g) \in Int /\ stray[g] \in Nat
        /\ Cardinality(OnlyHost(g)) \in Nat /\ Cardinality(OnlyTotal(g)) \in Nat
    BY <1>1, SharesTypes
  <2>3. CASE g # f
    <3>1. /\ Cardinality(OnlyHost(g))' = Cardinality(OnlyHost(g))
          /\ Cardinality(OnlyTotal(g))' = Cardinality(OnlyTotal(g))
      BY <1>3, <2>3
    <3>2. G(g) = Gap(val, g)
      BY <1>5, <2>2, <2>3
    <3>. QED
      BY <2>1, <3>1, <3>2
  <2>4. CASE g = f /\ d = Total
    BY <1>3, <1>5, <2>1, <2>2, <2>4
  <2>5. CASE g = f /\ d # Total
    BY <1>3, <1>5, <2>1, <2>2, <2>5
  <2>. QED
    BY <2>3, <2>4, <2>5
<1>10. Overlap'
  <2>. SUFFICES ASSUME pc \in {"first", "load"}
                PROVE  /\ slack[pc].over - Cardinality(InFlight)' >= 0
                       /\ \A g \in Fields :
                            LET over == slack[pc].over - Cardinality(InFlight)'
                            IN  /\ Gap(Shown, g)' - slack[pc].stray[g] <= Cardinality(OnlyHost(g))' + over
                                /\ slack[pc].stray[g] - Gap(Shown, g)' <= Cardinality(OnlyTotal(g))' + over
    BY DEF Overlap
  <2>1. slack[pc].over - Cardinality(InFlight) >= 0
    BY <1>1 DEF Overlap
  <2>2. slack[pc].over \in Nat /\ Cardinality(InFlight) \in Nat
    BY <1>1, <1>2, SharesTypes
  <2>3. slack[pc].over - Cardinality(InFlight)' >= 0
    BY <1>3, <2>1, <2>2
  <2>4. ASSUME NEW g \in Fields
        PROVE  /\ Gap(Shown, g)' - slack[pc].stray[g]
                    <= Cardinality(OnlyHost(g))' + (slack[pc].over - Cardinality(InFlight)')
               /\ slack[pc].stray[g] - Gap(Shown, g)'
                    <= Cardinality(OnlyTotal(g))' + (slack[pc].over - Cardinality(InFlight)')
    <3>1. /\ Gap(Shown, g) - slack[pc].stray[g]
               <= Cardinality(OnlyHost(g)) + (slack[pc].over - Cardinality(InFlight))
          /\ slack[pc].stray[g] - Gap(Shown, g)
               <= Cardinality(OnlyTotal(g)) + (slack[pc].over - Cardinality(InFlight))
      BY <1>1 DEF Overlap
    <3>2. /\ Gap(Shown, g) \in Int /\ slack[pc].stray[g] \in Nat
          /\ Cardinality(OnlyHost(g)) \in Nat /\ Cardinality(OnlyTotal(g)) \in Nat
      BY <1>1, SharesTypes
    <3>3. CASE g # f
      BY <1>3, <1>6, <2>2, <3>1, <3>2, <3>3
    <3>4. CASE g = f /\ d = Total
      BY <1>3, <1>6, <2>2, <3>1, <3>2, <3>4
    <3>5. CASE g = f /\ d # Total
      BY <1>3, <1>6, <2>2, <3>1, <3>2, <3>5
    <3>. QED
      BY <3>3, <3>4, <3>5
  <2>. QED
    BY <2>3, <2>4
<1>11. Telescope'
  BY <1>1, <1>7 DEF Telescope
<1>. QED
  BY <1>3, <1>8, <1>9, <1>10, <1>11 DEF SharesInv

\* What is not pending and not read stays as it was.
LEMMA FramedShares ==
  ASSUME SharesInv, UNCHANGED <<val, ops, pending, stray, pc, loads, snap, prev, end, rows, slack>>
  PROVE  SharesInv'
<1>1. \A f \in Fields : /\ Gap(val, f)' = Gap(val, f) /\ Gap(prev, f)' = Gap(prev, f)
                        /\ Gap(Shown, f)' = Gap(Shown, f) /\ Unexplained(f)' = Unexplained(f)
                        /\ OnlyHost(f)' = OnlyHost(f) /\ OnlyTotal(f)' = OnlyTotal(f)
  BY DEF Gap, Shown, Unexplained, Shares, OnlyHost, OnlyTotal, InFlight
<1>2. InFlight' = InFlight
  BY DEF InFlight
<1>3. HistoryOK' /\ Flights'
  BY DEF SharesInv, HistoryOK, Flights
<1>4. Balance'
  BY <1>1 DEF SharesInv, Balance
<1>5. Overlap'
  BY <1>1, <1>2 DEF SharesInv, Overlap
<1>6. Telescope'
  BY <1>1 DEF SharesInv, Telescope, SharesAddUp
<1>. QED
  BY <1>3, <1>4, <1>5, <1>6 DEF SharesInv

\* Loading a cell does not change what the snapshot will have read.
LEMMA LoadShares ==
  ASSUME CountersInv, SharesInv, Load
  PROVE  SharesInv'
<1>1. PICK c \in loads : snap' = [snap EXCEPT ![c] = val[c]] /\ loads' = loads \ {c}
  BY DEF Load
<1>2. pc \in {"first", "load"} /\ UNCHANGED <<val, ops, pending, stray, pc, prev, end, rows, slack>>
  BY DEF Load, adders
<1>3. c \in Cells /\ snap \in Counts /\ loads \subseteq Cells
  BY DEF CountersInv, CountersOK
<1>4. Shown' = Shown
  <2>1. \A x \in Cells : (IF x \in loads' THEN val[x] ELSE snap'[x])
                           = (IF x \in loads THEN val[x] ELSE snap[x])
    BY <1>1, <1>3 DEF Counts
  <2>. QED
    BY <1>2, <2>1 DEF Shown
<1>5. \A f \in Fields : /\ Gap(val, f)' = Gap(val, f) /\ Gap(prev, f)' = Gap(prev, f)
                        /\ Gap(Shown, f)' = Gap(Shown, f) /\ Unexplained(f)' = Unexplained(f)
                        /\ OnlyHost(f)' = OnlyHost(f) /\ OnlyTotal(f)' = OnlyTotal(f)
  BY <1>2, <1>4 DEF Gap, Unexplained, Shares, OnlyHost, OnlyTotal, InFlight
<1>6. InFlight' = InFlight
  BY <1>2 DEF InFlight
<1>7. HistoryOK' /\ Flights'
  BY <1>2 DEF SharesInv, HistoryOK, Flights
<1>8. Balance'
  BY <1>2, <1>5 DEF SharesInv, Balance
<1>9. Overlap'
  BY <1>2, <1>5, <1>6 DEF SharesInv, Overlap
<1>10. Telescope'
  BY <1>2, <1>5 DEF SharesInv, Telescope
<1>. QED
  BY <1>7, <1>8, <1>9, <1>10 DEF SharesInv

\* A snapshot that is complete is off by no more than the calls it overlapped.
LEMMA SnapshotOff ==
  ASSUME CountersInv, SharesInv, pc \in {"first", "load"}, loads = {}, NEW f \in Fields
  PROVE  Within(Gap(snap, f) - slack[pc].stray[f], slack[pc].over)
<1>1. CountersOK /\ HistoryOK /\ Flights /\ Overlap /\ snap \in Counts
  BY DEF CountersInv, SharesInv, CountersOK
<1>2. Shown = snap
  BY <1>1 DEF Shown, Counts
<1>3. /\ Gap(snap, f) - slack[pc].stray[f]
           <= Cardinality(OnlyHost(f)) + (slack[pc].over - Cardinality(InFlight))
      /\ slack[pc].stray[f] - Gap(snap, f)
           <= Cardinality(OnlyTotal(f)) + (slack[pc].over - Cardinality(InFlight))
  BY <1>1, <1>2 DEF Overlap
<1>. QED
  BY <1>1, <1>3, SharesTypes DEF Within

\* The first snapshot is where the windows' sum starts.
LEMMA BasedShares ==
  ASSUME CountersInv, SharesInv, Based
  PROVE  SharesInv'
<1>1. /\ pc = "first" /\ loads = {} /\ prev' = snap /\ pc' = "wait"
      /\ UNCHANGED <<val, ops, pending, stray, loads, snap, end, rows, slack>>
  BY DEF Based, adders
<1>2. rows = <<>>
  BY <1>1 DEF SharesInv, Telescope
<1>3. \A f \in Fields : /\ Gap(val, f)' = Gap(val, f) /\ Gap(prev, f)' = Gap(snap, f)
                        /\ Unexplained(f)' = Unexplained(f)
                        /\ OnlyHost(f)' = OnlyHost(f) /\ OnlyTotal(f)' = OnlyTotal(f)
  BY <1>1 DEF Gap, Unexplained, Shares, OnlyHost, OnlyTotal, InFlight
<1>4. HistoryOK' /\ Flights'
  BY <1>1 DEF SharesInv, HistoryOK, Flights
<1>5. Balance'
  BY <1>1, <1>3 DEF SharesInv, Balance
<1>6. Overlap'
  BY <1>1 DEF Overlap
<1>7. Telescope'
  <2>1. ASSUME NEW f \in Fields
        PROVE  Within(Gap(prev, f) - Unexplained(f) - slack["first"].stray[f], slack["first"].over)'
    <3>1. Unexplained(f) = 0
      <4>1. Len(rows) = 0 /\ 1 .. 0 = {}
        BY <1>2
      <4>. QED
        BY <4>1, SumNone, UnexplainedType DEF CountersInv, SharesInv
    <3>2. Within(Gap(snap, f) - slack["first"].stray[f], slack["first"].over)
      BY <1>1, SnapshotOff
    <3>3. Gap(snap, f) \in Int
      BY SharesTypes DEF CountersInv, SharesInv
    <3>. QED
      BY <1>1, <1>3, <3>1, <3>2, <3>3 DEF Within
  <2>. QED
    BY <1>1, <1>2, <2>1 DEF Telescope
<1>. QED
  BY <1>4, <1>5, <1>6, <1>7 DEF SharesInv

\* A window begins: the snapshot can be off only by the calls now in flight.
LEMMA WindowEndsShares ==
  ASSUME CountersInv, SharesInv, WindowEnds
  PROVE  SharesInv'
<1>1. /\ pc = "wait" /\ pc' = "load" /\ loads' = Cells
      /\ slack' = [slack EXCEPT !["load"] = [over |-> Cardinality(InFlight), stray |-> stray]]
      /\ UNCHANGED <<val, ops, pending, stray, snap, prev, rows>>
  BY DEF WindowEnds, adders
<1>2. /\ CountersOK /\ HistoryOK /\ Flights /\ Balance /\ Telescope
      /\ val \in Counts /\ ops \in Nat
  BY DEF CountersInv, SharesInv, CountersOK
<1>3. Cardinality(InFlight) \in Nat /\ stray \in Figures
  BY <1>2, FlightsFinite, FS_CardinalityType DEF HistoryOK
<1>4. /\ slack' \in [{"first", "load"} -> [over : Nat, stray : Figures]]
      /\ slack'["first"] = slack["first"]
      /\ slack'["load"].over = Cardinality(InFlight) /\ slack'["load"].stray = stray
  BY <1>1, <1>2, <1>3 DEF HistoryOK
<1>5. \A f \in Fields : /\ Gap(val, f)' = Gap(val, f) /\ Gap(prev, f)' = Gap(prev, f)
                        /\ Unexplained(f)' = Unexplained(f)
                        /\ OnlyHost(f)' = OnlyHost(f) /\ OnlyTotal(f)' = OnlyTotal(f)
  BY <1>1 DEF Gap, Unexplained, Shares, OnlyHost, OnlyTotal, InFlight
<1>6. InFlight' = InFlight
  BY <1>1 DEF InFlight
<1>7. Shown' = val
  BY <1>1, <1>2 DEF Shown, Counts
<1>8. HistoryOK' /\ Flights'
  BY <1>1, <1>2, <1>4 DEF HistoryOK, Flights
<1>9. Balance'
  BY <1>1, <1>2, <1>5 DEF Balance
<1>10. Overlap'
  <2>1. ASSUME NEW f \in Fields
        PROVE  /\ Gap(Shown', f) - stray[f] <= Cardinality(OnlyHost(f)) + 0
               /\ stray[f] - Gap(Shown', f) <= Cardinality(OnlyTotal(f)) + 0
    <3>1. Gap(val, f) = stray[f] + Cardinality(OnlyHost(f)) - Cardinality(OnlyTotal(f))
      BY <1>1, <1>2 DEF Balance
    <3>2. /\ stray[f] \in Nat /\ Gap(val, f) \in Int
          /\ Cardinality(OnlyHost(f)) \in Nat /\ Cardinality(OnlyTotal(f)) \in Nat
      BY <1>2, SharesTypes
    <3>. QED
      BY <1>7, <3>1, <3>2
  <2>2. \A f \in Fields : Gap(Shown, f)' = Gap(Shown', f)
    BY <1>1 DEF Gap
  <2>3. slack'["load"].over - Cardinality(InFlight') = 0
    BY <1>3, <1>4, <1>6
  <2>. QED
    BY <1>1, <1>4, <1>5, <2>1, <2>2, <2>3 DEF Overlap
<1>11. Telescope'
  BY <1>1, <1>2, <1>4, <1>5 DEF Telescope
<1>. QED
  BY <1>8, <1>9, <1>10, <1>11 DEF SharesInv

\* What a window leaves unexplained is what the gap grew by between its snapshots.
LEMMA WindowGap ==
  ASSUME CountersInv, NEW start, NEW stop, NEW f \in Fields
  PROVE  LET w == BuildWindow(start, stop, prev, snap)
         IN  /\ w.total \in Figures /\ DOMAIN w.peers \subseteq Hosts
             /\ w.peers \in [DOMAIN w.peers -> Figures]
             /\ \A h \in Hosts : (IF h \in DOMAIN w.peers THEN w.peers[h][f] ELSE 0)
                                   = snap[h][f] - prev[h][f]
             /\ w.total[f] - Shares(w, f) = Gap(snap, f) - Gap(prev, f)
<1>. DEFINE w == BuildWindow(start, stop, prev, snap)
            d == [c \in Cells |-> Delta(prev[c], snap[c])]
            P == {x \in Hosts : \E g \in Fields : d[x][g] > 0}
            fn == [h \in P |-> d[h][f]]
            gn == [h \in Hosts |-> snap[h][f] - prev[h][f]]
            sn == [h \in Hosts |-> snap[h][f]]
            pn == [h \in Hosts |-> prev[h][f]]
<1>1. \A c \in Cells, g \in Fields : /\ d[c][g] = snap[c][g] - prev[c][g] /\ d[c][g] \in Nat
                                     /\ snap[c][g] \in Nat /\ prev[c][g] \in Nat
                                     /\ d[c] \in Figures
  <2>. SUFFICES ASSUME NEW c \in Cells, NEW g \in Fields
                PROVE  /\ d[c][g] = snap[c][g] - prev[c][g] /\ d[c][g] \in Nat
                       /\ snap[c][g] \in Nat /\ prev[c][g] \in Nat
                       /\ d[c] \in Figures
    OBVIOUS
  <2>1. \A i \in Fields : prev[c][i] <= snap[c][i] /\ prev[c][i] \in Nat /\ snap[c][i] \in Nat
    BY DEF CountersInv, Monotone, CountersOK, Counts, Figures
  <2>2. d[c] = [i \in Fields |-> IF snap[c][i] > prev[c][i] THEN snap[c][i] - prev[c][i] ELSE 0]
    BY DEF Delta
  <2>3. \A i \in Fields : d[c][i] = snap[c][i] - prev[c][i] /\ d[c][i] \in Nat
    BY <2>1, <2>2
  <2>4. d[c] \in Figures
    BY <2>2, <2>3 DEF Figures
  <2>. QED
    BY <2>1, <2>3, <2>4
<1>2. Total \in Cells /\ Hosts \subseteq Cells /\ P \subseteq Hosts
      /\ IsFiniteSet(Hosts) /\ IsFiniteSet(P)
  BY CountersAssumption, FS_Subset DEF Cells
<1>3. w.total = d[Total] /\ w.peers = [h \in P |-> d[h]] /\ DOMAIN w.peers = P
  BY DEF BuildWindow
<1>4. Shares(w, f) = SumFunctionOnSet([h \in P |-> w.peers[h][f]], P)
  BY <1>3 DEF Shares, SumFunction
<1>5. [h \in P |-> w.peers[h][f]] = fn
  BY <1>3
<1>6. /\ \A h \in Hosts : /\ gn[h] = sn[h] - pn[h] /\ gn[h] = d[h][f] /\ gn[h] \in Int
                          /\ sn[h] \in Int /\ pn[h] \in Int
      /\ \A h \in P : fn[h] = gn[h]
      /\ \A h \in Hosts \ P : gn[h] = 0
  BY <1>1, <1>2
<1>7. prev \in Counts /\ snap \in Counts
  BY DEF CountersInv, CountersOK
<1>8. /\ Gap(prev, f) = prev[Total][f] - SumFunctionOnSet(pn, Hosts)
      /\ Gap(snap, f) = snap[Total][f] - SumFunctionOnSet(sn, Hosts)
  BY <1>7, GapType
<1>9. \A h \in Hosts : (IF h \in DOMAIN w.peers THEN w.peers[h][f] ELSE 0) = snap[h][f] - prev[h][f]
  BY <1>3, <1>6
<1>10. w.total \in Figures /\ w.peers \in [DOMAIN w.peers -> Figures] /\ DOMAIN w.peers \subseteq Hosts
  BY <1>1, <1>2, <1>3
<1>11. d[Total][f] = snap[Total][f] - prev[Total][f] /\ snap[Total][f] \in Nat /\ prev[Total][f] \in Nat
  BY <1>1, <1>2
<1>. HIDE DEF w, d, P, fn, gn, sn, pn
<1>12. SumFunctionOnSet(fn, P) = SumFunctionOnSet(gn, P)
  BY <1>2, <1>6, SumSame
<1>13. SumFunctionOnSet(gn, P) = SumFunctionOnSet(gn, Hosts)
  BY <1>2, <1>6, SumZeros
<1>14. SumFunctionOnSet(gn, Hosts) = SumFunctionOnSet(sn, Hosts) - SumFunctionOnSet(pn, Hosts)
  BY <1>2, <1>6, SumMinus
<1>15. SumFunctionOnSet(sn, Hosts) \in Int /\ SumFunctionOnSet(pn, Hosts) \in Int
  BY <1>2, <1>6, SumRemove
<1>16. w.total[f] - Shares(w, f) = Gap(snap, f) - Gap(prev, f)
  BY <1>3, <1>4, <1>5, <1>8, <1>11, <1>12, <1>13, <1>14, <1>15
<1>. QED
  BY <1>9, <1>10, <1>16 DEF w

\* A window written moves the base by what the window leaves unexplained.
LEMMA EmitWindowShares ==
  ASSUME CountersInv, SharesInv, EmitWindow
  PROVE  SharesInv'
<1>. DEFINE w == BuildWindow(LastEnd, end, prev, snap)
            n == Len(rows)
            R == {rows[k] : k \in 1 .. Len(rows)}
            T == R \cup {w}
<1>1. /\ rows' = Append(rows, w) /\ prev' = snap /\ pc' = "wait" /\ pc = "load" /\ loads = {}
      /\ UNCHANGED <<val, ops, pending, stray, loads, snap, end, slack>>
  BY DEF EmitWindow, adders
<1>2. /\ CountersOK /\ HistoryOK /\ Flights /\ Balance /\ Telescope
      /\ rows \in Seq(R)
  BY DEF CountersInv, SharesInv, CountersOK
<1>3. /\ w.total \in Figures /\ DOMAIN w.peers \subseteq Hosts
      /\ w.peers \in [DOMAIN w.peers -> Figures]
      /\ \A f \in Fields : w.total[f] - Shares(w, f) = Gap(snap, f) - Gap(prev, f)
  <2>1. "sent" \in Fields
    BY DEF Fields
  <2>. QED
    BY <2>1, WindowGap
<1>4. R \subseteq T /\ w \in T
  OBVIOUS
<1>. HIDE DEF w, R, T
<1>5. rows \in Seq(T)
  BY <1>2, <1>4, SeqMonotonic
<1>6. /\ rows' \in Seq(T) /\ Len(rows') = n + 1 /\ n \in Nat
      /\ \A k \in 1 .. n : rows'[k] = rows[k]
      /\ rows'[n + 1] = w
  BY <1>1, <1>4, <1>5, AppendProperties, LenProperties
<1>7. \A k \in 1 .. n + 1 : k \in 1 .. n \/ k = n + 1
  BY <1>6
<1>8. HistoryOK'
  <2>. SUFFICES ASSUME NEW k \in 1 .. n + 1
                PROVE  /\ rows'[k].total \in Figures /\ DOMAIN rows'[k].peers \subseteq Hosts
                       /\ rows'[k].peers \in [DOMAIN rows'[k].peers -> Figures]
    BY <1>1, <1>2, <1>6 DEF HistoryOK
  <2>1. CASE k \in 1 .. n
    BY <1>2, <1>6, <2>1 DEF HistoryOK
  <2>2. CASE k = n + 1
    BY <1>3, <1>6, <2>2
  <2>. QED
    BY <1>7, <2>1, <2>2
<1>9. Flights' /\ Balance' /\ Overlap'
  <2>1. \A f \in Fields : /\ Gap(val, f)' = Gap(val, f)
                          /\ OnlyHost(f)' = OnlyHost(f) /\ OnlyTotal(f)' = OnlyTotal(f)
    BY <1>1 DEF Gap, OnlyHost, OnlyTotal, InFlight
  <2>. QED
    BY <1>1, <1>2, <2>1 DEF Flights, Balance, Overlap
<1>10. ASSUME NEW f \in Fields
       PROVE  /\ Gap(prev, f)' = Gap(snap, f)
              /\ Unexplained(f)' = Unexplained(f) + (Gap(snap, f) - Gap(prev, f))
  <2>. DEFINE fn == [k \in 1 .. n |-> rows[k].total[f] - Shares(rows[k], f)]
              gn == [k \in 1 .. n + 1 |-> rows'[k].total[f] - Shares(rows'[k], f)]
  <2>1. Unexplained(f) = SumFunctionOnSet(fn, 1 .. n) /\ \A k \in 1 .. n : fn[k] \in Int
    BY <1>2, UnexplainedType
  <2>2. Unexplained(f)' = SumFunctionOnSet(gn, 1 .. n + 1)
    BY <1>6 DEF Unexplained, SumFunction, Shares
  <2>3. /\ \A k \in 1 .. n : gn[k] = fn[k]
        /\ gn[n + 1] = Gap(snap, f) - Gap(prev, f)
    <3>1. n + 1 \in 1 .. n + 1 /\ \A k \in 1 .. n : k \in 1 .. n + 1
      BY <1>6
    <3>. QED
      BY <1>3, <1>6, <3>1
  <2>4. Gap(snap, f) - Gap(prev, f) \in Int
    BY <1>2, SharesTypes
  <2>5. Gap(prev, f)' = Gap(snap, f)
    BY <1>1 DEF Gap
  <2>. HIDE DEF fn, gn, n
  <2>6. SumFunctionOnSet(gn, 1 .. n + 1) = SumFunctionOnSet(fn, 1 .. n) + gn[n + 1]
    BY <1>6, <2>1, <2>3, <2>4, SumLast
  <2>. QED
    BY <2>1, <2>2, <2>3, <2>5, <2>6
<1>11. Telescope'
  <2>1. ASSUME NEW f \in Fields
        PROVE  /\ Within(Gap(prev, f) - Unexplained(f) - slack["first"].stray[f], slack["first"].over)'
               /\ Within(Gap(prev, f) - slack["load"].stray[f], slack["load"].over)'
    <3>1. Within(Gap(prev, f) - Unexplained(f) - slack["first"].stray[f], slack["first"].over)
      BY <1>1, <1>2 DEF Telescope
    <3>2. Within(Gap(snap, f) - slack["load"].stray[f], slack["load"].over)
      BY <1>1, SnapshotOff
    <3>3. /\ Gap(snap, f) \in Int /\ Gap(prev, f) \in Int /\ Unexplained(f) \in Int
          /\ slack["first"].stray[f] \in Nat
      BY <1>2, SharesTypes
    <3>4. Gap(snap, f) - (Unexplained(f) + (Gap(snap, f) - Gap(prev, f))) - slack["first"].stray[f]
            = Gap(prev, f) - Unexplained(f) - slack["first"].stray[f]
      BY <3>3
    <3>. QED
      BY <1>1, <1>10, <3>1, <3>2, <3>4 DEF Within
  <2>. QED
    BY <1>1, <2>1 DEF Telescope
<1>. QED
  BY <1>8, <1>9, <1>11 DEF SharesInv

\* At the end of the test what was found stands.
LEMMA CancelledShares ==
  ASSUME CountersInv, SharesInv, Cancelled
  PROVE  SharesInv'
<1>1. /\ pc = "wait" /\ pc' = "done" /\ pending' = {}
      /\ UNCHANGED <<ops, stray, rows, slack>>
  BY DEF Cancelled
<1>2. HistoryOK' /\ Flights'
  BY <1>1 DEF SharesInv, HistoryOK, Flights
<1>3. Balance' /\ Overlap'
  BY <1>1 DEF Balance, Overlap
<1>4. Telescope'
  <2>1. SharesAddUp
    BY AddUp DEF CountersInv
  <2>2. \A f \in Fields : Unexplained(f)' = Unexplained(f)
    BY <1>1 DEF Unexplained, Shares
  <2>3. SharesAddUp'
    BY <1>1, <2>1, <2>2 DEF SharesAddUp
  <2>. QED
    BY <1>1, <2>3 DEF Telescope
<1>. QED
  BY <1>2, <1>3, <1>4 DEF SharesInv

\* Nothing is counted yet.
LEMMA InitShares ==
  ASSUME Init
  PROVE  SharesInv
<1>1. /\ val = Zero /\ snap = Zero /\ pending = {} /\ pc = "first" /\ rows = <<>>
      /\ stray = [f \in Fields |-> 0] /\ slack["first"] = [over |-> 0, stray |-> stray]
      /\ slack \in [{"first", "load"} -> [over : Nat, stray : Figures]]
  BY DEF Init, Figures
<1>2. Zero \in Counts /\ Shown = Zero
  BY <1>1 DEF Zero, Counts, Figures, Shown
<1>3. InFlight = {} /\ \A f \in Fields : OnlyHost(f) = {} /\ OnlyTotal(f) = {}
  BY <1>1 DEF InFlight, OnlyHost, OnlyTotal
<1>4. \A f \in Fields : Gap(Zero, f) = 0
  <2>. SUFFICES ASSUME NEW f \in Fields PROVE Gap(Zero, f) = 0
    OBVIOUS
  <2>. DEFINE fn == [h \in Hosts |-> Zero[h][f]]
  <2>1. \A h \in Hosts \cup {Total} : Zero[h][f] = 0
    BY DEF Zero, Cells
  <2>2. Gap(Zero, f) = 0 - SumFunctionOnSet(fn, Hosts)
    BY <1>2, <2>1, GapType
  <2>3. \A h \in Hosts : fn[h] = 0 /\ fn[h] \in Int
    BY <2>1
  <2>. HIDE DEF fn
  <2>4. SumFunctionOnSet(fn, {}) = SumFunctionOnSet(fn, Hosts)
    BY <2>3, CountersAssumption, SumZeros
  <2>. QED
    BY <2>2, <2>4, SumNone
<1>5. HistoryOK
  <2>1. Len(rows) = 0
    BY <1>1
  <2>. QED
    BY <1>1, <2>1 DEF HistoryOK, Figures
<1>6. Flights
  BY <1>1 DEF Flights
<1>7. Balance /\ Overlap
  <2>1. /\ Cardinality(InFlight) = 0
        /\ \A f \in Fields : /\ Cardinality(OnlyHost(f)) = 0 /\ Cardinality(OnlyTotal(f)) = 0
                            /\ Gap(val, f) = 0 /\ Gap(Shown, f) = 0 /\ stray[f] = 0
    BY <1>1, <1>2, <1>3, <1>4, FS_EmptySet
  <2>2. Balance
    BY <2>1 DEF Balance
  <2>3. slack[pc].over = 0 /\ \A f \in Fields : slack[pc].stray[f] = 0
    BY <1>1, <2>1
  <2>4. Overlap
    BY <2>1, <2>3 DEF Overlap
  <2>. QED
    BY <2>2, <2>4
<1>8. Telescope
  BY <1>1 DEF Telescope
<1>. QED
  BY <1>5, <1>6, <1>7, <1>8 DEF SharesInv

-----------------------------------------------------------------------------
(* What was sent to a host, in the windows.                                *)

\* What the windows say was sent to a host is a number.
LEMMA SentType ==
  ASSUME CountersOK, HistoryOK, NEW h \in Hosts
  PROVE  /\ \A k \in 1 .. Len(rows) : SentIn(rows[k], h) \in Nat
         /\ SentSoFar(h) = SumFunctionOnSet([k \in 1 .. Len(rows) |-> SentIn(rows[k], h)],
                                            1 .. Len(rows))
         /\ SentSoFar(h) \in Int
<1>. DEFINE S == 1 .. Len(rows)
            fn == [k \in S |-> SentIn(rows[k], h)]
<1>1. \A k \in S : SentIn(rows[k], h) \in Nat
  BY DEF HistoryOK, SentIn, Figures, Fields
<1>2. SentSoFar(h) = SumFunctionOnSet(fn, S)
  BY DEF SentSoFar, SumFunction
<1>3. Len(rows) \in Nat
  BY LenProperties DEF CountersOK
<1>4. IsFiniteSet(S) /\ \A k \in S : fn[k] \in Int
  BY <1>1, <1>3, FS_Interval
<1>5. SumFunctionOnSet(fn, S) \in Int
  <2>. HIDE DEF fn, S
  <2>. QED
    BY <1>4, SumRemove
<1>. QED
  BY <1>1, <1>2, <1>5

\* Steps that write no window and leave the base of the next one.
LEMMA ToldFramed ==
  ASSUME Told, pc # "first", slack'["first"] = slack["first"],
         UNCHANGED <<pc, snap, prev, rows>>
  PROVE  Told'
<1>1. \A h \in Hosts : SentSoFar(h)' = SentSoFar(h)
  BY DEF SentSoFar, SentIn
<1>. QED
  BY <1>1 DEF Told

\* A call that begins is one more that the first snapshot may show.
LEMMA AddCounted ==
  ASSUME CountersInv, HistoryOK, Flights, Counted, NEW f \in Fields, NEW C \in SUBSET Cells,
         ops' = ops + 1, pending' = pending \cup {<<ops', f, c>> : c \in C},
         slack' = Overlaps, UNCHANGED <<val, pc>>
  PROVE  Counted'
<1>. SUFFICES ASSUME pc = "first"
              PROVE  /\ slack'["first"].over = ops'
                     /\ \A c \in Cells, g \in Fields :
                          val[c][g] + Cardinality(Missing(g, c))' <= ops'
  BY DEF Counted
<1>1. ops \in Nat /\ val \in Counts
  BY DEF CountersInv, CountersOK
<1>2. slack["first"].over = ops
  BY DEF Counted
<1>3. slack'["first"].over = ops'
  BY <1>2 DEF Overlaps, HistoryOK
<1>4. ASSUME NEW c \in Cells, NEW g \in Fields
      PROVE  val[c][g] + Cardinality(Missing(g, c))' <= ops'
  <2>1. val[c][g] + Cardinality(Missing(g, c)) <= ops /\ val[c][g] \in Nat
    BY <1>1 DEF Counted, Counts, Figures
  <2>2. IsFiniteSet(Missing(g, c))
    <3>1. Missing(g, c) \subseteq 1 .. ops /\ IsFiniteSet(1 .. ops)
      BY <1>1, FS_Interval DEF Missing
    <3>. QED
      BY <3>1, FS_Subset
  <2>3. Missing(g, c)' \subseteq Missing(g, c) \cup {ops + 1}
    <3>. SUFFICES ASSUME NEW i \in 1 .. ops', <<i, g, c>> \in pending', i # ops + 1
                  PROVE  i \in 1 .. ops /\ <<i, g, c>> \in pending
      BY DEF Missing
    <3>. QED
      BY <1>1
  <2>4. /\ IsFiniteSet(Missing(g, c) \cup {ops + 1})
        /\ Cardinality(Missing(g, c) \cup {ops + 1}) <= Cardinality(Missing(g, c)) + 1
        /\ Cardinality(Missing(g, c)) \in Nat
    <3>1. Cardinality(Missing(g, c)) \in Nat
      BY <2>2, FS_CardinalityType
    <3>2. /\ IsFiniteSet(Missing(g, c) \cup {ops + 1})
          /\ Cardinality(Missing(g, c) \cup {ops + 1}) =
               IF ops + 1 \in Missing(g, c) THEN Cardinality(Missing(g, c))
               ELSE Cardinality(Missing(g, c)) + 1
      BY <2>2, FS_AddElement
    <3>. QED
      BY <3>1, <3>2
  <2>5. Cardinality(Missing(g, c)') <= Cardinality(Missing(g, c) \cup {ops + 1})
    BY <2>3, <2>4, FS_Subset
  <2>6. Cardinality(Missing(g, c)') \in Nat /\ Cardinality(Missing(g, c) \cup {ops + 1}) \in Nat
    BY <2>3, <2>4, FS_Subset, FS_CardinalityType
  <2>. QED
    BY <1>1, <2>1, <2>4, <2>5, <2>6
<1>. QED
  BY <1>3, <1>4

\* A fetch_add that lands is no longer outstanding.
LEMMA LandCounted ==
  ASSUME CountersInv, Flights, Counted, NEW p \in pending,
         val' = [val EXCEPT ![p[3]][p[2]] = @ + 1], pending' = pending \ {p},
         UNCHANGED <<ops, pc, slack>>
  PROVE  Counted'
<1>. DEFINE i == p[1]  f == p[2]  d == p[3]
<1>1. ops \in Nat /\ val \in Counts
  BY DEF CountersInv, CountersOK
<1>2. i \in 1 .. ops /\ f \in Fields /\ d \in Cells /\ p = <<i, f, d>>
  BY DEF Flights
<1>3. val' = [val EXCEPT ![d][f] = @ + 1] /\ pending' = pending \ {<<i, f, d>>} /\ <<i, f, d>> \in pending
  BY <1>2
<1>. HIDE DEF i, f, d
<1>. SUFFICES ASSUME pc = "first", NEW c \in Cells, NEW g \in Fields
              PROVE  val'[c][g] + Cardinality(Missing(g, c))' <= ops
  BY DEF Counted
<1>4. val[c][g] + Cardinality(Missing(g, c)) <= ops /\ val[c][g] \in Nat
  BY <1>1 DEF Counted, Counts, Figures
<1>5. IsFiniteSet(Missing(g, c)) /\ Cardinality(Missing(g, c)) \in Nat
  <2>1. Missing(g, c) \subseteq 1 .. ops /\ IsFiniteSet(1 .. ops)
    BY <1>1, FS_Interval DEF Missing
  <2>. QED
    BY <2>1, FS_Subset, FS_CardinalityType
<1>6. val'[c][g] = IF c = d /\ g = f THEN val[c][g] + 1 ELSE val[c][g]
  BY <1>1, <1>2, <1>3 DEF Counts, Figures
<1>7. CASE c = d /\ g = f
  <2>1. Missing(g, c)' = Missing(g, c) \ {i}
    BY <1>3, <1>7 DEF Missing
  <2>2. i \in Missing(g, c)
    BY <1>2, <1>3, <1>7 DEF Missing
  <2>3. Cardinality(Missing(g, c) \ {i}) = Cardinality(Missing(g, c)) - 1
    BY <1>5, <2>2, FS_RemoveElement
  <2>. QED
    BY <1>1, <1>4, <1>5, <1>6, <1>7, <2>1, <2>3
<1>8. CASE ~(c = d /\ g = f)
  <2>1. Missing(g, c)' = Missing(g, c)
    BY <1>3, <1>8 DEF Missing
  <2>. QED
    BY <1>4, <1>6, <1>8, <2>1
<1>. QED
  BY <1>7, <1>8

\* The first snapshot may show only what was called before it was complete.
LEMMA BasedTold ==
  ASSUME CountersInv, SharesInv, Counted, Based
  PROVE  Told'
<1>1. /\ pc = "first" /\ prev' = snap /\ pc' = "wait" /\ UNCHANGED <<rows, slack>>
  BY DEF Based
<1>2. rows = <<>>
  BY <1>1 DEF SharesInv, Telescope
<1>3. CountersOK /\ HistoryOK /\ val \in Counts /\ snap \in Counts /\ ops \in Nat
  BY DEF CountersInv, SharesInv, CountersOK
<1>. SUFFICES ASSUME NEW h \in Hosts
              PROVE  /\ SentSoFar(h)' <= snap[h]["sent"]
                     /\ snap[h]["sent"] - SentSoFar(h)' <= slack["first"].over
  BY <1>1 DEF Told
<1>4. SentSoFar(h)' = SentSoFar(h)
  BY <1>1 DEF SentSoFar, SentIn
<1>5. SentSoFar(h) = 0
  <2>1. Len(rows) = 0 /\ 1 .. 0 = {}
    BY <1>2
  <2>. QED
    BY <1>3, <2>1, SentType, SumNone
<1>6. h \in Cells /\ "sent" \in Fields
  BY DEF Cells, Fields
<1>7. snap[h]["sent"] \in Nat /\ val[h]["sent"] \in Nat /\ snap[h]["sent"] <= val[h]["sent"]
  BY <1>3, <1>6 DEF CountersInv, Monotone, Counts, Figures
<1>8. val[h]["sent"] <= ops
  <2>1. val[h]["sent"] + Cardinality(Missing("sent", h)) <= ops
    BY <1>1, <1>6 DEF Counted
  <2>2. Missing("sent", h) \subseteq 1 .. ops /\ IsFiniteSet(1 .. ops)
    BY <1>3, FS_Interval DEF Missing
  <2>3. Cardinality(Missing("sent", h)) \in Nat
    BY <2>2, FS_Subset, FS_CardinalityType
  <2>. QED
    BY <1>3, <1>7, <2>1, <2>3
<1>9. slack["first"].over = ops
  BY <1>1 DEF Counted
<1>. QED
  BY <1>3, <1>4, <1>5, <1>7, <1>8, <1>9

\* A window says of a host what the snapshots differ by.
LEMMA EmitWindowTold ==
  ASSUME CountersInv, SharesInv, Told, EmitWindow
  PROVE  Told'
<1>. DEFINE w == BuildWindow(LastEnd, end, prev, snap)
            n == Len(rows)
            T == {rows[k] : k \in 1 .. Len(rows)} \cup {w}
<1>1. /\ rows' = Append(rows, w) /\ prev' = snap /\ pc' = "wait" /\ pc = "load"
      /\ UNCHANGED slack
  BY DEF EmitWindow
<1>2. CountersOK /\ HistoryOK /\ rows \in Seq({rows[k] : k \in 1 .. Len(rows)})
  BY DEF CountersInv, SharesInv, CountersOK
<1>3. \A h \in Hosts : SentIn(w, h) = snap[h]["sent"] - prev[h]["sent"]
  BY WindowGap DEF SentIn, Fields
<1>4. w \in T /\ {rows[k] : k \in 1 .. Len(rows)} \subseteq T
  OBVIOUS
<1>. HIDE DEF w, T
<1>5. rows \in Seq(T)
  BY <1>2, <1>4, SeqMonotonic
<1>6. /\ Len(rows') = n + 1 /\ n \in Nat
      /\ \A k \in 1 .. n : rows'[k] = rows[k]
      /\ rows'[n + 1] = w
  BY <1>1, <1>4, <1>5, AppendProperties, LenProperties
<1>. SUFFICES ASSUME NEW h \in Hosts
              PROVE  /\ SentSoFar(h)' <= snap[h]["sent"]
                     /\ snap[h]["sent"] - SentSoFar(h)' <= slack["first"].over
  BY <1>1 DEF Told
<1>. DEFINE fn == [k \in 1 .. n |-> SentIn(rows[k], h)]
            gn == [k \in 1 .. n + 1 |-> SentIn(rows'[k], h)]
<1>7. SentSoFar(h) = SumFunctionOnSet(fn, 1 .. n) /\ SentSoFar(h) \in Int /\ \A k \in 1 .. n : fn[k] \in Int
  <2>1. \A k \in 1 .. n : SentIn(rows[k], h) \in Nat
    BY <1>2, SentType
  <2>2. \A k \in 1 .. n : fn[k] \in Int
    BY <2>1
  <2>3. SentSoFar(h) = SumFunctionOnSet(fn, 1 .. n) /\ SentSoFar(h) \in Int
    BY <1>2, SentType
  <2>. QED
    BY <2>2, <2>3
<1>8. SentSoFar(h)' = SumFunctionOnSet(gn, 1 .. n + 1)
  BY <1>6 DEF SentSoFar, SumFunction, SentIn
<1>9. snap[h]["sent"] \in Nat /\ prev[h]["sent"] \in Nat /\ slack["first"].over \in Nat
  BY DEF CountersInv, CountersOK, Counts, Figures, Cells, Fields, SharesInv, HistoryOK
<1>10. /\ \A k \in 1 .. n : gn[k] = fn[k]
       /\ gn[n + 1] = snap[h]["sent"] - prev[h]["sent"] /\ gn[n + 1] \in Int
  <2>1. n + 1 \in 1 .. n + 1 /\ \A k \in 1 .. n : k \in 1 .. n + 1
    BY <1>6
  <2>2. gn[n + 1] = snap[h]["sent"] - prev[h]["sent"]
    BY <1>3, <1>6, <2>1
  <2>. QED
    BY <1>6, <1>9, <2>1, <2>2
<1>11. /\ SentSoFar(h) <= prev[h]["sent"]
       /\ prev[h]["sent"] - SentSoFar(h) <= slack["first"].over
  BY <1>1 DEF Told
<1>. HIDE DEF fn, gn, n
<1>12. SumFunctionOnSet(gn, 1 .. n + 1) = SumFunctionOnSet(fn, 1 .. n) + gn[n + 1]
  BY <1>6, <1>7, <1>10, SumLast
<1>. QED
  BY <1>7, <1>8, <1>9, <1>10, <1>11, <1>12

\* The end of the test drops nothing that was snapshot.
LEMMA CancelledTold ==
  ASSUME SharesInv, Told, Cancelled
  PROVE  Told'
<1>1. pc = "wait" /\ pc' = "done" /\ prev = snap /\ UNCHANGED <<rows, slack, snap>>
  BY DEF Cancelled, SharesInv, Telescope
<1>2. \A h \in Hosts : SentSoFar(h)' = SentSoFar(h)
  BY <1>1 DEF SentSoFar, SentIn
<1>. QED
  BY <1>1, <1>2 DEF Told

\* Nothing is known yet.
LEMMA InitSent ==
  ASSUME ReportInit
  PROVE  SentInv
<1>1. /\ pc = "first" /\ val = Zero /\ ops = 0 /\ pending = {} /\ report = NoReport
      /\ slack["first"].over = 0
  BY DEF ReportInit, Init
<1>2. \A c \in Cells, f \in Fields : Zero[c][f] = 0
  BY DEF Zero
<1>3. \A c \in Cells, f \in Fields : Missing(f, c) = {}
  BY <1>1 DEF Missing
<1>4. Counted
  BY <1>1, <1>2, <1>3, FS_EmptySet DEF Counted
<1>5. Told /\ Reported
  BY <1>1 DEF Told, Reported
<1>. QED
  BY <1>4, <1>5 DEF SentInv

\* Every step preserves what the windows say was sent.
LEMMA ToldStep ==
  ASSUME CountersInv, SharesInv, Counted, Told, [Next]_allvars
  PROVE  Counted' /\ Told'
<1>1. HistoryOK /\ Flights /\ slack \in [{"first", "load"} -> [over : Nat, stray : Figures]]
  BY DEF SharesInv, HistoryOK
<1>2. ASSUME NEW f \in Fields, NEW C \in SUBSET Cells, ops' = ops + 1, slack' = Overlaps,
             pending' = pending \cup {<<ops', f, c>> : c \in C},
             UNCHANGED <<val, pc, loads, snap, prev, end, rows>>, pc # "done"
      PROVE  Counted' /\ Told'
  <2>1. Counted'
    BY <1>1, <1>2, AddCounted
  <2>2. CASE pc = "first"
    BY <1>2, <2>1, <2>2 DEF Told
  <2>3. CASE pc # "first"
    <3>1. pc \in {"wait", "load"}
      BY <1>2, <2>3 DEF CountersInv, CountersOK
    <3>2. slack'["first"] = slack["first"]
      BY <1>1, <1>2, <3>1 DEF Overlaps
    <3>. QED
      BY <1>2, <2>1, <2>3, <3>2, ToldFramed
  <2>. QED
    BY <2>2, <2>3
<1>3. CASE \E h \in Hosts : AddSent(h) \/ AddRecv(h)
  <2>1. PICK h \in Hosts : AddSent(h) \/ AddRecv(h)
    BY <1>3
  <2>. DEFINE C == {Total, h}
  <2>2. PICK f \in Fields :
          /\ pc # "done" /\ ops' = ops + 1 /\ slack' = Overlaps
          /\ pending' = pending \cup {<<ops', f, c>> : c \in C}
          /\ UNCHANGED <<val, pc, loads, snap, prev, end, rows>>
    <3>1. CASE AddSent(h)
      BY <3>1 DEF AddSent, CanAdd, Fields
    <3>2. CASE AddRecv(h)
      BY <3>2 DEF AddRecv, CanAdd, Fields
    <3>. QED
      BY <2>1, <3>1, <3>2
  <2>3. C \in SUBSET Cells
    BY DEF Cells
  <2>. HIDE DEF C
  <2>. QED
    BY <1>2, <2>2, <2>3
<1>4. CASE AddStray
  <2>. DEFINE C == {Total}
  <2>1. /\ pc # "done" /\ ops' = ops + 1 /\ slack' = Overlaps
        /\ pending' = pending \cup {<<ops', "recv", c>> : c \in C} /\ "recv" \in Fields
        /\ UNCHANGED <<val, pc, loads, snap, prev, end, rows>>
    <3>1. {<<ops', "recv", c>> : c \in C} = {<<ops', "recv", Total>>}
      OBVIOUS
    <3>. QED
      BY <1>4, <3>1 DEF AddStray, CanAdd, Fields
  <2>2. C \in SUBSET Cells
    BY DEF Cells
  <2>. HIDE DEF C
  <2>. QED
    BY <1>2, <2>1, <2>2
<1>5. CASE Land
  <2>1. PICK p \in pending : /\ val' = [val EXCEPT ![p[3]][p[2]] = @ + 1]
                             /\ pending' = pending \ {p}
    BY <1>5 DEF Land
  <2>2. UNCHANGED <<ops, stray, pc, loads, snap, prev, end, rows, slack>>
    BY <1>5 DEF Land, reader
  <2>3. Counted'
    BY <1>1, <2>1, <2>2, LandCounted
  <2>4. Told'
    <3>1. CASE pc = "first"
      BY <2>2, <3>1 DEF Told
    <3>. QED
      BY <2>2, <3>1, ToldFramed
  <2>. QED
    BY <2>3, <2>4
<1>6. ASSUME UNCHANGED <<val, ops, pending, pc, prev, rows, slack>>, pc = "done" => snap' = snap
      PROVE  Counted' /\ Told'
  <2>1. Counted'
    BY <1>6 DEF Counted, Missing
  <2>2. \A h \in Hosts : SentSoFar(h)' = SentSoFar(h)
    BY <1>6 DEF SentSoFar, SentIn
  <2>3. Told'
    BY <1>6, <2>2 DEF Told
  <2>. QED
    BY <2>1, <2>3
<1>7. CASE Load
  BY <1>6, <1>7 DEF Load, adders
<1>8. CASE Analysed \/ UNCHANGED allvars
  BY <1>6, <1>8 DEF Analysed, allvars, vars, adders, reader
<1>9. CASE Based
  BY <1>9, BasedTold DEF Based, Counted
<1>10. CASE WindowEnds
  <2>1. /\ pc = "wait" /\ pc' = "load" /\ slack'["first"] = slack["first"]
        /\ UNCHANGED <<snap, prev, rows>>
    BY <1>1, <1>10 DEF WindowEnds
  <2>2. \A h \in Hosts : SentSoFar(h)' = SentSoFar(h)
    BY <2>1 DEF SentSoFar, SentIn
  <2>. QED
    BY <2>1, <2>2 DEF Told, Counted
<1>11. CASE EmitWindow
  BY <1>11, EmitWindowTold DEF EmitWindow, Counted
<1>12. CASE Cancelled
  BY <1>12, CancelledTold DEF Cancelled, Counted
<1>. QED
  BY <1>3, <1>4, <1>5, <1>7, <1>8, <1>9, <1>10, <1>11, <1>12 DEF Next, Step, CountersNext

\* A report is made once, when nothing of the test moves any more.
LEMMA ReportedStep ==
  ASSUME CountersOK, Reported, [Next]_allvars
  PROVE  Reported'
<1>1. CASE Step
  <2>1. pc # "done"
    BY <1>1 DEF Step, CountersNext, AddSent, AddRecv, AddStray, CanAdd, Land, Load, Based,
                WindowEnds, EmitWindow, Cancelled
  <2>2. report = NoReport /\ report' = report
    BY <1>1, <2>1 DEF Step, Reported
  <2>. QED
    BY <2>2 DEF Reported, NoReport
<1>2. CASE Analysed
  <2>1. PICK phase \in Phases, others \in OtherTables :
          report' = LoadTable(Table(phase) \cup others)
    BY <1>2 DEF Analysed
  <2>2. pc' = "done" /\ rows' = rows
    BY <1>2 DEF Analysed, vars, reader
  <2>3. Table(phase)' = Table(phase)
    BY <2>2 DEF Table
  <2>. QED
    BY <2>1, <2>2, <2>3 DEF Reported
<1>3. CASE UNCHANGED allvars
  <2>1. UNCHANGED <<pc, rows, report>>
    BY <1>3 DEF allvars, vars, reader
  <2>2. \A phase \in Phases : Table(phase)' = Table(phase)
    BY <2>1 DEF Table
  <2>. QED
    BY <2>1, <2>2 DEF Reported
<1>. QED
  BY <1>1, <1>2, <1>3 DEF Next

-----------------------------------------------------------------------------
(* What the report says was sent to a host.                                *)

\* No window is empty, so no two begin at once.
LEMMA StartsDiffer ==
  ASSUME CountersInv, NEW k \in 1 .. Len(rows), NEW j \in 1 .. Len(rows),
         rows[k].start = rows[j].start
  PROVE  k = j
<1>1. Len(rows) \in Nat
  BY LenProperties DEF CountersInv, CountersOK
<1>2. \A i \in 1 .. Len(rows) : rows[i].start \in Nat /\ rows[i].dur \in Nat /\ rows[i].dur > 0
  BY DEF CountersInv, CountersOK, Grid
<1>3. ASSUME NEW a \in 1 .. Len(rows), NEW b \in 1 .. Len(rows), a < b
      PROVE  rows[a].start < rows[b].start
  <2>1. a \in 1 .. b - 1
    BY <1>1, <1>3
  <2>2. EndOf(rows[a]) <= rows[b].start
    BY <2>1 DEF CountersInv, Grid
  <2>3. /\ rows[a].start \in Nat /\ rows[a].dur \in Nat /\ rows[a].dur > 0
        /\ rows[b].start \in Nat
    BY <1>2
  <2>. QED
    BY <2>2, <2>3 DEF EndOf
<1>4. rows[k].start \in Nat
  BY <1>2
<1>5. ~(k < j) /\ ~(j < k)
  BY <1>3, <1>4
<1>. QED
  BY <1>1, <1>5

\* A row in the table keeps what the window said.
LEMMA RowOf ==
  ASSUME NEW w, NEW phase
  PROVE  /\ Row(w, phase).server = Self /\ Row(w, phase).dur = w.dur
         /\ Row(w, phase).wall = phase + w.start
         /\ DOMAIN Row(w, phase).peers = DOMAIN w.peers
         /\ \A h \in DOMAIN w.peers : Row(w, phase).peers[h] = w.peers[h]["sent"]
BY DEF Row

\* The rows of the other server are its own.
LEMMA OthersOwn ==
  ASSUME NEW others \in OtherTables, NEW row \in others
  PROVE  row.server = Other
BY DEF OtherTables, OtherRow

\* No two windows give the same row.
LEMMA RowsDiffer ==
  ASSUME CountersInv, NEW phase \in Nat, NEW k \in 1 .. Len(rows), NEW j \in 1 .. Len(rows),
         Row(rows[k], phase) = Row(rows[j], phase)
  PROVE  k = j
<1>1. phase + rows[k].start = phase + rows[j].start
  BY RowOf
<1>2. rows[k].start \in Nat /\ rows[j].start \in Nat
  BY DEF CountersInv, CountersOK
<1>. QED
  BY <1>1, <1>2, StartsDiffer

\* The samples of a pair from this server are its windows with anything to tell.
LEMMA SamplesOf ==
  ASSUME CountersInv, NEW phase \in Phases, NEW others \in OtherTables,
         NEW h \in Hosts \ {Self}
  PROVE  LET K == {k \in 1 .. Len(rows) : /\ h \in DOMAIN rows[k].peers
                                          /\ rows[k].peers[h]["sent"] > 0
                                          /\ rows[k].dur >= MinWindow}
         IN  RowsOf(Table(phase) \cup others, <<Self, h>>) = {Row(rows[k], phase) : k \in K}
<1>. DEFINE K == {k \in 1 .. Len(rows) : /\ h \in DOMAIN rows[k].peers
                                         /\ rows[k].peers[h]["sent"] > 0
                                         /\ rows[k].dur >= MinWindow}
            T == Table(phase) \cup others
            Is(row) == row.server = Self /\ h \in DOMAIN row.peers /\ Kept(row, h)
<1>1. RowsOf(T, <<Self, h>>) = {row \in T : Is(row)}
  BY DEF RowsOf
<1>2. \A row \in others : ~Is(row)
  BY OthersOwn, ReportAssumption
<1>3. ASSUME NEW k \in 1 .. Len(rows)
      PROVE  Is(Row(rows[k], phase)) <=> k \in K
  <2>1. h # Self
    OBVIOUS
  <2>. QED
    BY <2>1, RowOf DEF Kept
<1>4. \A row \in Table(phase) : \E k \in 1 .. Len(rows) : row = Row(rows[k], phase)
  BY DEF Table
<1>5. \A k \in 1 .. Len(rows) : Row(rows[k], phase) \in T
  BY DEF Table
<1>6. K \subseteq 1 .. Len(rows)
  OBVIOUS
<1>. HIDE DEF Is, K
<1>7. {row \in T : Is(row)} = {Row(rows[k], phase) : k \in K}
  BY <1>2, <1>3, <1>4, <1>5, <1>6
<1>. QED
  BY <1>1, <1>7 DEF K

\* The bytes behind a pair's average are those of its samples.
LEMMA ShownIs ==
  ASSUME CountersInv, HistoryOK, NEW phase \in Phases, NEW others \in OtherTables,
         NEW h \in Hosts \ {Self}, NEW r, r = LoadTable(Table(phase) \cup others), r.ok
  PROVE  LET K == {k \in 1 .. Len(rows) : /\ h \in DOMAIN rows[k].peers
                                          /\ rows[k].peers[h]["sent"] > 0
                                          /\ rows[k].dur >= MinWindow}
         IN  (IF <<Self, h>> \in DOMAIN r.pairs THEN r.pairs[<<Self, h>>].avg[1] ELSE 0)
               = SumFunctionOnSet([k \in 1 .. Len(rows) |-> SentIn(rows[k], h)], K)
<1>. DEFINE n == Len(rows)
            K == {k \in 1 .. n : /\ h \in DOMAIN rows[k].peers
                                 /\ rows[k].peers[h]["sent"] > 0
                                 /\ rows[k].dur >= MinWindow}
            T == Table(phase) \cup others
            pair == <<Self, h>>
            mine == RowsOf(T, pair)
            fn == [k \in 1 .. n |-> SentIn(rows[k], h)]
            samples == [row \in mine |-> <<row.peers[pair[2]], row.dur>>]
            gn == [row \in mine |-> samples[row][1]]
            F == [k \in 1 .. n |-> Row(rows[k], phase)]
<1>1. mine = {Row(rows[k], phase) : k \in K}
  BY SamplesOf
<1>2. K \subseteq 1 .. n /\ {Row(rows[k], phase) : k \in K} = {F[k] : k \in K}
  OBVIOUS
<1>3. IsFiniteSet(K)
  <2>1. n \in Nat
    BY LenProperties DEF CountersInv, CountersOK
  <2>2. IsFiniteSet(1 .. n)
    BY <2>1, FS_Interval
  <2>. QED
    BY <1>2, <2>2, FS_Subset
<1>4. \A k \in K : fn[k] \in Int
  <2>1. \A k \in 1 .. n : SentIn(rows[k], h) \in Nat
    BY SentType DEF CountersInv
  <2>. QED
    BY <1>2, <2>1
<1>5. \A k \in K : gn[F[k]] = fn[k]
  <2>. SUFFICES ASSUME NEW k \in K PROVE gn[F[k]] = fn[k]
    OBVIOUS
  <2>1. F[k] \in mine /\ F[k] = Row(rows[k], phase) /\ pair[2] = h
    BY <1>1, <1>2
  <2>2. gn[F[k]] = F[k].peers[h]
    BY <2>1
  <2>3. h \in DOMAIN rows[k].peers
    OBVIOUS
  <2>4. F[k].peers[h] = rows[k].peers[h]["sent"]
    BY <2>1, <2>3, RowOf
  <2>5. fn[k] = rows[k].peers[h]["sent"]
    BY <2>3 DEF SentIn
  <2>. QED
    BY <2>2, <2>4, <2>5
<1>6. \A k, j \in K : F[k] = F[j] => k = j
  <2>1. phase \in Nat
    BY CountersAssumption DEF Phases
  <2>. QED
    BY <1>2, <2>1, RowsDiffer
<1>7. r.pairs = PairStats(T)
  BY DEF LoadTable
<1>8. pair \in DOMAIN r.pairs <=> mine # {}
  <2>1. DOMAIN PairStats(T) = {p \in Directed(T) : RowsOf(T, p) # {}}
    BY DEF PairStats
  <2>2. mine # {} => pair \in Directed(T)
    <3>. SUFFICES ASSUME NEW row \in mine PROVE pair \in Directed(T)
      OBVIOUS
    <3>1. row \in T /\ row.server = Self /\ h \in DOMAIN row.peers
      BY DEF RowsOf
    <3>2. pair \in {row.server} \X DOMAIN row.peers
      BY <3>1
    <3>. QED
      BY <3>1, <3>2 DEF Directed
  <2>. QED
    BY <1>7, <2>1, <2>2
<1>9. CASE mine = {}
  <2>1. K = {}
    BY <1>1, <1>9
  <2>. QED
    BY <1>8, <1>9, <2>1, SumNone
<1>10. CASE mine # {}
  <2>1. r.pairs[pair] = FromSamples(samples)
    BY <1>7, <1>8, <1>10 DEF PairStats
  <2>2. FromSamples(samples).avg[1] = SumFunction([k \in DOMAIN samples |-> samples[k][1]])
    BY DEF FromSamples
  <2>3. DOMAIN samples = mine
    OBVIOUS
  <2>4. SumFunction([k \in DOMAIN samples |-> samples[k][1]]) = SumFunctionOnSet(gn, mine)
    BY DEF SumFunction
  <2>. HIDE DEF gn, mine, fn, F, samples, K
  <2>5. SumFunctionOnSet(gn, {F[k] : k \in K}) = SumFunctionOnSet(fn, K)
    BY <1>3, <1>4, <1>5, <1>6, SumImage
  <2>6. r.pairs[pair].avg[1] = SumFunctionOnSet(fn, K)
    BY <1>1, <1>2, <2>1, <2>2, <2>4, <2>5
  <2>. QED
    BY <1>8, <1>10, <2>6 DEF fn, K
<1>. QED
  BY <1>9, <1>10

\* The bytes of the windows too short to be samples.
LEMMA DroppedIs ==
  ASSUME CountersInv, HistoryOK, NEW h \in Hosts
  PROVE  LET short == {r \in {r \in Table(0) : h \in DOMAIN r.peers} : r.dur < MinWindow}
             K == {k \in 1 .. Len(rows) : h \in DOMAIN rows[k].peers /\ rows[k].dur < MinWindow}
         IN  SumFunction([r \in short |-> r.peers[h]])
               = SumFunctionOnSet([k \in 1 .. Len(rows) |-> SentIn(rows[k], h)], K)
<1>. DEFINE n == Len(rows)
            short == {r \in {r \in Table(0) : h \in DOMAIN r.peers} : r.dur < MinWindow}
            K == {k \in 1 .. n : h \in DOMAIN rows[k].peers /\ rows[k].dur < MinWindow}
            fn == [k \in 1 .. n |-> SentIn(rows[k], h)]
            gn == [r \in short |-> r.peers[h]]
            F == [k \in 1 .. n |-> Row(rows[k], 0)]
<1>1. K \subseteq 1 .. n
  OBVIOUS
<1>2. short = {F[k] : k \in K}
  <2>1. \A r \in Table(0) : \E k \in 1 .. n : r = F[k]
    BY DEF Table
  <2>2. \A k \in 1 .. n : F[k] \in Table(0) /\ F[k] = Row(rows[k], 0)
    BY DEF Table
  <2>3. \A k \in 1 .. n : F[k] \in short <=> k \in K
    BY <2>2, RowOf
  <2>4. \A r \in short : \E k \in 1 .. n : r = F[k]
    BY <2>1
  <2>. HIDE DEF F, K, short
  <2>. QED
    BY <1>1, <2>3, <2>4
<1>3. IsFiniteSet(K)
  <2>1. n \in Nat
    BY LenProperties DEF CountersInv, CountersOK
  <2>2. IsFiniteSet(1 .. n)
    BY <2>1, FS_Interval
  <2>. QED
    BY <1>1, <2>2, FS_Subset
<1>4. \A k \in K : fn[k] \in Int
  <2>1. \A k \in 1 .. n : SentIn(rows[k], h) \in Nat
    BY SentType DEF CountersInv
  <2>. QED
    BY <1>1, <2>1
<1>5. \A k \in K : gn[F[k]] = fn[k]
  <2>. SUFFICES ASSUME NEW k \in K PROVE gn[F[k]] = fn[k]
    OBVIOUS
  <2>1. F[k] \in short
    BY <1>2
  <2>2. F[k] = Row(rows[k], 0) /\ h \in DOMAIN rows[k].peers
    BY <1>1
  <2>. QED
    BY <2>1, <2>2, RowOf DEF SentIn
<1>6. \A k, j \in K : F[k] = F[j] => k = j
  BY <1>1, RowsDiffer
<1>7. SumFunction(gn) = SumFunctionOnSet(gn, short)
  BY DEF SumFunction
<1>8. SumFunctionOnSet(gn, short) = SumFunctionOnSet(fn, K)
  <2>. HIDE DEF gn, fn, F, K, short
  <2>1. SumFunctionOnSet(gn, {F[k] : k \in K}) = SumFunctionOnSet(fn, K)
    BY <1>3, <1>4, <1>5, <1>6, SumImage
  <2>. QED
    BY <1>2, <2>1
<1>. QED
  BY <1>7, <1>8

\* Samples and short windows are, together, all that was sent, each window once.
LEMMA ShownAndDropped ==
  ASSUME CountersInv, HistoryOK, NEW h \in Hosts
  PROVE  LET A == {k \in 1 .. Len(rows) : /\ h \in DOMAIN rows[k].peers
                                          /\ rows[k].peers[h]["sent"] > 0
                                          /\ rows[k].dur >= MinWindow}
             B == {k \in 1 .. Len(rows) : h \in DOMAIN rows[k].peers /\ rows[k].dur < MinWindow}
             fn == [k \in 1 .. Len(rows) |-> SentIn(rows[k], h)]
         IN  SumFunctionOnSet(fn, A) + SumFunctionOnSet(fn, B) = SentSoFar(h)
<1>. DEFINE S == 1 .. Len(rows)
            A == {k \in S : /\ h \in DOMAIN rows[k].peers
                            /\ rows[k].peers[h]["sent"] > 0
                            /\ rows[k].dur >= MinWindow}
            B == {k \in S : h \in DOMAIN rows[k].peers /\ rows[k].dur < MinWindow}
            fn == [k \in S |-> SentIn(rows[k], h)]
<1>1. \A k \in S : SentIn(rows[k], h) \in Nat
  BY SentType DEF CountersInv
<1>2. \A k \in S : fn[k] \in Int /\ fn[k] = SentIn(rows[k], h)
  BY <1>1
<1>3. IsFiniteSet(S)
  BY LenProperties, FS_Interval DEF CountersInv, CountersOK
<1>4. A \subseteq S /\ B \subseteq S /\ A \cup B \subseteq S /\ IsFiniteSet(A) /\ IsFiniteSet(B)
  BY <1>3, FS_Subset
<1>5. \A k \in S : rows[k].dur \in Nat
  BY DEF CountersInv, CountersOK
<1>6. A \cap B = {}
  BY <1>5, ReportAssumption
<1>7. \A k \in S \ (A \cup B) : fn[k] = 0
  <2>. SUFFICES ASSUME NEW k \in S, k \notin A, k \notin B PROVE SentIn(rows[k], h) = 0
    BY <1>2
  <2>1. CASE h \notin DOMAIN rows[k].peers
    BY <2>1 DEF SentIn
  <2>2. CASE h \in DOMAIN rows[k].peers
    <3>1. rows[k].dur >= MinWindow
      BY <1>5, <2>2, ReportAssumption
    <3>2. ~(rows[k].peers[h]["sent"] > 0)
      BY <2>2, <3>1
    <3>3. SentIn(rows[k], h) = rows[k].peers[h]["sent"]
      BY <2>2 DEF SentIn
    <3>. QED
      BY <1>1, <3>2, <3>3
  <2>. QED
    BY <2>1, <2>2
<1>8. SentSoFar(h) = SumFunctionOnSet(fn, S)
  BY SentType DEF CountersInv
<1>. HIDE DEF fn, A, B, S
<1>9. SumFunctionOnSet(fn, A \cup B) = SumFunctionOnSet(fn, S)
  <2>. DEFINE R == A \cup B
  <2>1. R \in SUBSET S /\ \A k \in S \ R : fn[k] = 0
    BY <1>4, <1>7
  <2>. HIDE DEF R
  <2>2. SumFunctionOnSet(fn, R) = SumFunctionOnSet(fn, S)
    BY <1>2, <1>3, <2>1, SumZeros
  <2>. QED
    BY <2>2 DEF R
<1>10. SumFunctionOnSet(fn, A \cup B) = SumFunctionOnSet(fn, A) + SumFunctionOnSet(fn, B)
  BY <1>2, <1>4, <1>6, SumJoin
<1>11. SumFunctionOnSet(fn, A) + SumFunctionOnSet(fn, B) = SentSoFar(h)
  BY <1>8, <1>9, <1>10
<1>. QED
  BY <1>11 DEF fn, A, B, S

-----------------------------------------------------------------------------
(* Orders and rates.                                                       *)

\* A finite set has a first member in any order of all its members, ties included.
LEMMA FirstOf ==
  ASSUME NEW S, IsFiniteSet(S), S # {}, NEW R,
         \A x, y \in S : <<x, y>> \in R \/ <<y, x>> \in R,
         \A x, y, z \in S : <<x, y>> \in R /\ <<y, z>> \in R => <<x, z>> \in R
  PROVE  \E x \in S : \A y \in S : <<x, y>> \in R
<1>. DEFINE First(T, x) == \A y \in T : <<x, y>> \in R
            B == {T \in SUBSET S : T # {} /\ ~\E x \in T : First(T, x)}
<1>. SUFFICES ASSUME B # {} PROVE FALSE
  OBVIOUS
<1>1. B \subseteq SUBSET S
  OBVIOUS
<1>2. PICK T \in B : \A U \in B : U \subseteq T => U = T
  <2>. HIDE DEF B
  <2>. QED
    BY <1>1, Smallest
<1>3. T \in SUBSET S /\ T # {} /\ ~\E x \in T : First(T, x)
  OBVIOUS
<1>4. PICK x \in T : TRUE
  BY <1>3
<1>5. T \ {x} # {}
  BY <1>3, <1>4
<1>6. T \ {x} \notin B
  <2>1. T \ {x} \subseteq T /\ T \ {x} # T
    BY <1>4
  <2>. HIDE DEF B
  <2>. QED
    BY <1>2, <2>1
<1>7. PICK m \in T \ {x} : First(T \ {x}, m)
  BY <1>3, <1>5, <1>6
<1>8. CASE <<m, x>> \in R
  BY <1>3, <1>7, <1>8
<1>9. CASE <<x, m>> \in R
  <2>1. \A y \in T \ {x} : <<x, y>> \in R
    BY <1>3, <1>7, <1>9
  <2>2. <<x, x>> \in R
    BY <1>3
  <2>. QED
    BY <1>3, <2>1, <2>2
<1>. QED
  BY <1>3, <1>7, <1>8, <1>9

\* What a function makes of a finite set is finite.
LEMMA ImageFinite ==
  ASSUME NEW K, IsFiniteSet(K), NEW F
  PROVE  IsFiniteSet({F[k] : k \in K})
<1>. DEFINE G == [k \in K |-> F[k]]
<1>1. G \in Surjection(K, {F[k] : k \in K})
  BY DEF Surjection
<1>. QED
  BY <1>1, FS_Surjection

Rates == Int \X (Nat \ {0})

\* Products keep an order, and one of positive factors can be undone.
LEMMA Times ==
  ASSUME NEW x \in Int, NEW y \in Int, NEW n \in Nat
  PROVE  /\ x <= y => x * n <= y * n
         /\ n > 0 /\ x * n <= y * n => x <= y
<1>1. \A a, b \in Int : a <= b => a * n <= b * n
  <2>. SUFFICES ASSUME NEW a \in Int, NEW b \in Int, a <= b PROVE a * n <= b * n
    OBVIOUS
  <2>. DEFINE d == b - a
  <2>1. d \in Nat /\ d * n \in Nat /\ b = a + d
    OBVIOUS
  <2>2. (a + d) * n = a * n + d * n /\ a * n \in Int
    OBVIOUS
  <2>. HIDE DEF d
  <2>. QED
    BY <2>1, <2>2
<1>2. ASSUME n > 0, x * n <= y * n, y < x PROVE FALSE
  <2>1. (y + 1) * n <= x * n
    BY <1>1, <1>2
  <2>2. (y + 1) * n = y * n + n /\ y * n \in Int
    OBVIOUS
  <2>. QED
    BY <1>2, <2>1, <2>2
<1>. QED
  BY <1>1, <1>2

\* Rates are ordered.
LEMMA RateOrder ==
  ASSUME NEW a \in Rates, NEW b \in Rates, NEW c \in Rates
  PROVE  /\ LeqRate(a, b) \/ LeqRate(b, a)
         /\ LeqRate(a, b) /\ LeqRate(b, c) => LeqRate(a, c)
<1>. DEFINE a1 == a[1]  a2 == a[2]  b1 == b[1]  b2 == b[2]  c1 == c[1]  c2 == c[2]
<1>1. /\ a1 \in Int /\ b1 \in Int /\ c1 \in Int
      /\ a2 \in Nat \ {0} /\ b2 \in Nat \ {0} /\ c2 \in Nat \ {0}
  BY DEF Rates
<1>2. /\ LeqRate(a, b) <=> a1 * b2 <= b1 * a2
      /\ LeqRate(b, a) <=> b1 * a2 <= a1 * b2
      /\ LeqRate(b, c) <=> b1 * c2 <= c1 * b2
      /\ LeqRate(a, c) <=> a1 * c2 <= c1 * a2
  BY DEF LeqRate
<1>. HIDE DEF a1, a2, b1, b2, c1, c2
<1>3. a1 * b2 \in Int /\ b1 * a2 \in Int /\ b1 * c2 \in Int /\ c1 * b2 \in Int
      /\ a1 * c2 \in Int /\ c1 * a2 \in Int
  BY <1>1
<1>4. ASSUME a1 * b2 <= b1 * a2, b1 * c2 <= c1 * b2
      PROVE  a1 * c2 <= c1 * a2
  <2>1. (a1 * b2) * c2 <= (b1 * a2) * c2
    BY <1>1, <1>3, <1>4, Times
  <2>2. (b1 * c2) * a2 <= (c1 * b2) * a2
    BY <1>1, <1>3, <1>4, Times
  <2>3. /\ (a1 * b2) * c2 = (a1 * c2) * b2
        /\ (b1 * a2) * c2 = (b1 * c2) * a2
        /\ (c1 * b2) * a2 = (c1 * a2) * b2
    BY <1>1
  <2>4. (a1 * c2) * b2 <= (c1 * a2) * b2
    <3>1. (a1 * b2) * c2 \in Int /\ (b1 * a2) * c2 \in Int /\ (c1 * b2) * a2 \in Int
      BY <1>1
    <3>. QED
      BY <2>1, <2>2, <2>3, <3>1
  <2>. QED
    BY <1>1, <1>3, <2>4, Times
<1>. QED
  BY <1>2, <1>3, <1>4

\* The least and the greatest of finitely many rates.
LEMMA Extremes ==
  ASSUME NEW S \in SUBSET Rates, IsFiniteSet(S), S # {}
  PROVE  /\ MinRate(S) \in S /\ \A q \in S : LeqRate(MinRate(S), q)
         /\ MaxRate(S) \in S /\ \A q \in S : LeqRate(q, MaxRate(S))
<1>1. \E r \in S : \A q \in S : LeqRate(r, q)
  <2>. DEFINE R == {p \in S \X S : LeqRate(p[1], p[2])}
  <2>1. \A x, y \in S : <<x, y>> \in R <=> LeqRate(x, y)
    OBVIOUS
  <2>2. /\ \A x, y \in S : <<x, y>> \in R \/ <<y, x>> \in R
        /\ \A x, y, z \in S : <<x, y>> \in R /\ <<y, z>> \in R => <<x, z>> \in R
    <3>. HIDE DEF R
    <3>. QED
      BY <2>1, RateOrder
  <2>. HIDE DEF R
  <2>3. \E x \in S : \A y \in S : <<x, y>> \in R
    BY <2>2, FirstOf
  <2>. QED
    BY <2>1, <2>3
<1>2. \E r \in S : \A q \in S : LeqRate(q, r)
  <2>. DEFINE R == {p \in S \X S : LeqRate(p[2], p[1])}
  <2>1. \A x, y \in S : <<x, y>> \in R <=> LeqRate(y, x)
    OBVIOUS
  <2>2. /\ \A x, y \in S : <<x, y>> \in R \/ <<y, x>> \in R
        /\ \A x, y, z \in S : <<x, y>> \in R /\ <<y, z>> \in R => <<x, z>> \in R
    <3>. HIDE DEF R
    <3>. QED
      BY <2>1, RateOrder
  <2>. HIDE DEF R
  <2>3. \E x \in S : \A y \in S : <<x, y>> \in R
    BY <2>2, FirstOf
  <2>. QED
    BY <2>1, <2>3
<1>. QED
  BY <1>1, <1>2 DEF MinRate, MaxRate

\* A bound on every term is one on the sum.
LEMMA SumBound ==
  ASSUME NEW fn, NEW gn, NEW S, IsFiniteSet(S), NEW c \in Int, NEW e \in Int,
         \A x \in S : fn[x] \in Int /\ gn[x] \in Int /\ c * fn[x] <= e * gn[x]
  PROVE  c * SumFunctionOnSet(fn, S) <= e * SumFunctionOnSet(gn, S)
<1>. DEFINE Good(T) == c * SumFunctionOnSet(fn, T) <= e * SumFunctionOnSet(gn, T)
            B == {T \in SUBSET S : ~Good(T)}
<1>. SUFFICES ASSUME B # {} PROVE FALSE
  OBVIOUS
<1>1. B \subseteq SUBSET S
  OBVIOUS
<1>2. PICK T \in B : \A U \in B : U \subseteq T => U = T
  <2>. HIDE DEF B
  <2>. QED
    BY <1>1, Smallest
<1>3. T \in SUBSET S /\ ~Good(T) /\ IsFiniteSet(T)
  BY FS_Subset
<1>4. T # {}
  <2>1. c * 0 = 0 /\ e * 0 = 0
    OBVIOUS
  <2>2. Good({})
    BY <2>1, SumNone
  <2>. HIDE DEF Good
  <2>. QED
    BY <1>3, <2>2
<1>. DEFINE p == Pick(T)
            R == T \ {p}
            F == SumFunctionOnSet(fn, R)
            G == SumFunctionOnSet(gn, R)
<1>5. p \in T /\ R \in SUBSET S /\ R # T /\ R \subseteq T /\ IsFiniteSet(R)
  BY <1>3, <1>4, PickIn, FS_Subset
<1>6. c * F <= e * G
  BY <1>2, <1>5
<1>7. SumFunctionOnSet(fn, T) = fn[p] + F /\ SumFunctionOnSet(gn, T) = gn[p] + G
  BY <1>3, <1>4, SumStep
<1>8. fn[p] \in Int /\ gn[p] \in Int /\ c * fn[p] <= e * gn[p]
  BY <1>3, <1>5
<1>9. F \in Int /\ G \in Int
  <2>1. \A x \in R : fn[x] \in Int /\ gn[x] \in Int
    BY <1>5
  <2>. HIDE DEF R
  <2>. QED
    BY <1>5, <2>1, SumRemove
<1>10. ~(c * (fn[p] + F) <= e * (gn[p] + G))
  BY <1>3, <1>7
<1>. HIDE DEF p, R, F, G
<1>11. c * (fn[p] + F) = c * fn[p] + c * F /\ e * (gn[p] + G) = e * gn[p] + e * G
  BY <1>8, <1>9
<1>12. c * fn[p] \in Int /\ c * F \in Int /\ e * gn[p] \in Int /\ e * G \in Int
  BY <1>8, <1>9
<1>. QED
  BY <1>6, <1>8, <1>10, <1>11, <1>12

\* A sum of positive terms is positive.
LEMMA SumPositive ==
  ASSUME NEW fn, NEW S, IsFiniteSet(S), S # {}, \A x \in S : fn[x] \in Nat \ {0}
  PROVE  SumFunctionOnSet(fn, S) \in Nat \ {0}
<1>1. PICK x \in S : TRUE
  OBVIOUS
<1>. DEFINE one == [y \in S |-> IF y = x THEN 1 ELSE 0]
            zero == [y \in S |-> 0]
<1>2. \A y \in S : zero[y] \in Int /\ one[y] \in Int /\ fn[y] \in Int /\ 1 * one[y] <= 1 * fn[y]
  OBVIOUS
<1>3. one[x] = 1 /\ zero[x] = 0 /\ \A y \in S \ {x} : one[y] = zero[y]
  BY <1>1
<1>4. \A y \in S : zero[y] = 0
  OBVIOUS
<1>. HIDE DEF one, zero
<1>5. SumFunctionOnSet(one, S) = SumFunctionOnSet(zero, S) + (1 - 0)
  BY <1>1, <1>2, <1>3, SumBump
<1>6. SumFunctionOnSet(zero, {}) = SumFunctionOnSet(zero, S)
  BY <1>2, <1>4, SumZeros
<1>7. SumFunctionOnSet(one, S) = 1
  BY <1>5, <1>6, SumNone
<1>8. 1 * SumFunctionOnSet(one, S) <= 1 * SumFunctionOnSet(fn, S)
  BY <1>2, SumBound
<1>9. SumFunctionOnSet(fn, S) \in Int
  BY <1>2, SumRemove
<1>. QED
  BY <1>7, <1>8, <1>9

\* A product of positive numbers is positive.
LEMMA Positive ==
  ASSUME NEW a \in Nat \ {0}, NEW b \in Nat \ {0}
  PROVE  a * b \in Nat \ {0}
<1>1. 1 * b <= a * b
  BY Times
<1>2. a * b \in Int /\ 1 * b = b
  OBVIOUS
<1>. QED
  BY <1>1, <1>2

\* Rates that are not negative, and what adding a positive one makes of one.
LEMMA AddRateType ==
  ASSUME NEW a \in (Nat \ {0}) \X (Nat \ {0}), NEW b \in Nat \X (Nat \ {0})
  PROVE  AddRate(a, b) \in (Nat \ {0}) \X (Nat \ {0})
<1>. DEFINE a1 == a[1]  a2 == a[2]  b1 == b[1]  b2 == b[2]
<1>1. a1 \in Nat \ {0} /\ a2 \in Nat \ {0} /\ b1 \in Nat /\ b2 \in Nat \ {0}
  OBVIOUS
<1>2. AddRate(a, b) = <<a1 * b2 + b1 * a2, a2 * b2>>
  BY DEF AddRate
<1>. HIDE DEF a1, a2, b1, b2
<1>3. a1 * b2 \in Nat \ {0} /\ a2 * b2 \in Nat \ {0}
  BY <1>1, Positive
<1>4. b1 * a2 \in Nat
  BY <1>1
<1>5. a1 * b2 + b1 * a2 \in Nat \ {0}
  BY <1>3, <1>4
<1>. QED
  BY <1>2, <1>3, <1>5

\* A sum of positive rates is one.
LEMMA SumRatesType ==
  ASSUME NEW fn, NEW S, IsFiniteSet(S),
         \A x \in S : fn[x] \in (Nat \ {0}) \X (Nat \ {0})
  PROVE  /\ SumRatesOnSet(fn, S) \in Nat \X (Nat \ {0})
         /\ S # {} => SumRatesOnSet(fn, S) \in (Nat \ {0}) \X (Nat \ {0})
<1>. DEFINE Good(T) == /\ SumRatesOnSet(fn, T) \in Nat \X (Nat \ {0})
                       /\ T # {} => SumRatesOnSet(fn, T) \in (Nat \ {0}) \X (Nat \ {0})
            B == {T \in SUBSET S : ~Good(T)}
<1>. SUFFICES ASSUME B # {} PROVE FALSE
  OBVIOUS
<1>1. B \subseteq SUBSET S
  OBVIOUS
<1>2. PICK T \in B : \A U \in B : U \subseteq T => U = T
  <2>. HIDE DEF B
  <2>. QED
    BY <1>1, Smallest
<1>3. T \in SUBSET S /\ ~Good(T) /\ IsFiniteSet(T)
  BY FS_Subset
<1>4. T # {}
  <2>1. SumRatesOnSet(fn, {}) = <<0, 1>>
    BY SumRatesStep, FS_EmptySet
  <2>. QED
    BY <1>3, <2>1
<1>. DEFINE p == Pick(T)
            R == T \ {p}
<1>5. p \in T /\ R \in SUBSET S /\ R # T /\ R \subseteq T
  BY <1>3, <1>4, PickIn
<1>6. Good(R)
  <2>. HIDE DEF R, Good
  <2>. QED
    BY <1>2, <1>5
<1>7. SumRatesOnSet(fn, T) = AddRate(fn[p], SumRatesOnSet(fn, R))
  BY <1>3, <1>4, SumRatesStep
<1>8. fn[p] \in (Nat \ {0}) \X (Nat \ {0})
  BY <1>3, <1>5
<1>9. AddRate(fn[p], SumRatesOnSet(fn, R)) \in (Nat \ {0}) \X (Nat \ {0})
  <2>. HIDE DEF p, R
  <2>. QED
    BY <1>6, <1>8, AddRateType
<1>10. (Nat \ {0}) \X (Nat \ {0}) \subseteq Nat \X (Nat \ {0})
  OBVIOUS
<1>. QED
  BY <1>3, <1>7, <1>9, <1>10

\* A bound on every one of some positive rates is one on their mean.
LEMMA SumRatesBound ==
  ASSUME NEW fn, NEW S, IsFiniteSet(S), NEW c \in Int, NEW e \in Int,
         \A x \in S : fn[x] \in (Nat \ {0}) \X (Nat \ {0}) /\ c * fn[x][2] <= e * fn[x][1]
  PROVE  c * (SumRatesOnSet(fn, S)[2] * Cardinality(S)) <= e * SumRatesOnSet(fn, S)[1]
<1>. DEFINE Good(T) == c * (SumRatesOnSet(fn, T)[2] * Cardinality(T)) <= e * SumRatesOnSet(fn, T)[1]
            B == {T \in SUBSET S : ~Good(T)}
<1>. SUFFICES ASSUME B # {} PROVE FALSE
  OBVIOUS
<1>1. B \subseteq SUBSET S
  OBVIOUS
<1>2. PICK T \in B : \A U \in B : U \subseteq T => U = T
  <2>. HIDE DEF B
  <2>. QED
    BY <1>1, Smallest
<1>3. T \in SUBSET S /\ ~Good(T) /\ IsFiniteSet(T)
  BY FS_Subset
<1>4. T # {}
  <2>1. SumRatesOnSet(fn, {}) = <<0, 1>> /\ Cardinality({}) = 0
    BY SumRatesStep, FS_EmptySet
  <2>2. c * (1 * 0) <= e * 0
    OBVIOUS
  <2>3. Good({})
    BY <2>1, <2>2
  <2>. HIDE DEF Good
  <2>. QED
    BY <1>3, <2>3
<1>. DEFINE p == Pick(T)
            R == T \ {p}
            f1 == fn[p][1]
            f2 == fn[p][2]
            r1 == SumRatesOnSet(fn, R)[1]
            r2 == SumRatesOnSet(fn, R)[2]
            n == Cardinality(R)
<1>5. p \in T /\ R \in SUBSET S /\ R # T /\ R \subseteq T /\ IsFiniteSet(R)
  BY <1>3, <1>4, PickIn, FS_Subset
<1>6. c * (r2 * n) <= e * r1
  <2>1. Good(R)
    <3>. HIDE DEF R, Good
    <3>. QED
      BY <1>2, <1>5
  <2>. QED
    BY <2>1
<1>7. SumRatesOnSet(fn, T) = <<f1 * r2 + r1 * f2, f2 * r2>>
  BY <1>3, <1>4, SumRatesStep DEF AddRate
<1>8. f1 \in Nat \ {0} /\ f2 \in Nat \ {0} /\ c * f2 <= e * f1
  BY <1>3, <1>5
<1>9. r1 \in Nat /\ r2 \in Nat \ {0}
  <2>1. \A x \in R : fn[x] \in (Nat \ {0}) \X (Nat \ {0})
    BY <1>5
  <2>2. SumRatesOnSet(fn, R) \in Nat \X (Nat \ {0})
    <3>. HIDE DEF R
    <3>. QED
      BY <1>5, <2>1, SumRatesType
  <2>. QED
    BY <2>2
<1>10. Cardinality(T) = n + 1 /\ n \in Nat
  BY <1>3, <1>5, FS_RemoveElement, FS_CardinalityType
<1>11. ~(c * ((f2 * r2) * (n + 1)) <= e * (f1 * r2 + r1 * f2))
  BY <1>3, <1>7, <1>10
<1>. HIDE DEF p, R, f1, f2, r1, r2, n
<1>12. (c * f2) * r2 <= (e * f1) * r2
  <2>1. c * f2 \in Int /\ e * f1 \in Int
    BY <1>8
  <2>. QED
    BY <1>8, <1>9, <2>1, Times
<1>13. (c * (r2 * n)) * f2 <= (e * r1) * f2
  <2>1. c * (r2 * n) \in Int /\ e * r1 \in Int
    BY <1>9, <1>10
  <2>. QED
    BY <1>6, <1>8, <2>1, Times
<1>14. /\ c * ((f2 * r2) * (n + 1)) = (c * f2) * r2 + (c * (r2 * n)) * f2
       /\ e * (f1 * r2 + r1 * f2) = (e * f1) * r2 + (e * r1) * f2
  BY <1>8, <1>9, <1>10
<1>15. /\ (c * f2) * r2 \in Int /\ (c * (r2 * n)) * f2 \in Int
       /\ (e * f1) * r2 \in Int /\ (e * r1) * f2 \in Int
  BY <1>8, <1>9, <1>10
<1>. QED
  BY <1>11, <1>12, <1>13, <1>14, <1>15

\* A statistic whose average lies between its extremes, of positive rates.
Ordered(s) ==
  /\ s.min \in Rates /\ s.avg \in Rates
  /\ LeqRate(s.min, s.avg) /\ LeqRate(s.avg, s.max) /\ s.min[1] > 0

\* The statistics of any samples are ordered.
LEMMA FromSamplesOrdered ==
  ASSUME NEW samples, IsFiniteSet(DOMAIN samples), DOMAIN samples # {},
         \A k \in DOMAIN samples : samples[k] \in (Nat \ {0}) \X (Nat \ {0})
  PROVE  Ordered(FromSamples(samples))
<1>. DEFINE K == DOMAIN samples
            S == {Bps(samples[k][1], samples[k][2]) : k \in K}
            fn == [k \in K |-> samples[k][1]]
            gn == [k \in K |-> samples[k][2]]
            A == SumFunctionOnSet(fn, K)
            D == SumFunctionOnSet(gn, K)
            m == MinRate(S)
            M == MaxRate(S)
<1>0. IsFiniteSet(K) /\ K # {}
  OBVIOUS
<1>1. /\ FromSamples(samples).min = m /\ FromSamples(samples).max = M
      /\ FromSamples(samples).avg = <<A, D>>
  BY DEF FromSamples, SumFunction
<1>2. \A k \in K : /\ samples[k] = <<fn[k], gn[k]>>
                   /\ fn[k] \in Nat \ {0} /\ gn[k] \in Nat \ {0}
  OBVIOUS
<1>3. S = {samples[k] : k \in K}
  BY <1>2 DEF Bps
<1>4. S \in SUBSET ((Nat \ {0}) \X (Nat \ {0})) /\ S # {} /\ IsFiniteSet(S)
  <2>1. IsFiniteSet({samples[k] : k \in K})
    <3>. HIDE DEF K
    <3>. QED
      BY <1>0, ImageFinite
  <2>2. S # {} /\ \A q \in S : q \in (Nat \ {0}) \X (Nat \ {0})
    BY <1>3
  <2>. HIDE DEF S
  <2>. QED
    BY <1>3, <2>1, <2>2
<1>5. S \in SUBSET Rates
  BY <1>4 DEF Rates
<1>. HIDE DEF S, fn, gn
<1>6. /\ m \in S /\ \A q \in S : LeqRate(m, q)
      /\ M \in S /\ \A q \in S : LeqRate(q, M)
  BY <1>4, <1>5, Extremes
<1>7. A \in Nat \ {0} /\ D \in Nat \ {0}
  BY <1>2, SumPositive
<1>8. /\ m[1] \in Nat \ {0} /\ m[2] \in Nat \ {0}
      /\ M[1] \in Nat \ {0} /\ M[2] \in Nat \ {0}
  BY <1>4, <1>6
<1>9. \A k \in K : m[1] * gn[k] <= m[2] * fn[k] /\ M[2] * fn[k] <= M[1] * gn[k]
  <2>. SUFFICES ASSUME NEW k \in K
                PROVE  m[1] * gn[k] <= m[2] * fn[k] /\ M[2] * fn[k] <= M[1] * gn[k]
    OBVIOUS
  <2>1. LeqRate(m, samples[k]) /\ LeqRate(samples[k], M)
    BY <1>3, <1>6
  <2>2. m[1] * gn[k] <= fn[k] * m[2] /\ fn[k] * M[2] <= M[1] * gn[k]
    BY <1>2, <2>1 DEF LeqRate
  <2>3. fn[k] \in Nat /\ gn[k] \in Nat
    BY <1>2
  <2>4. fn[k] * m[2] = m[2] * fn[k] /\ fn[k] * M[2] = M[2] * fn[k]
    BY <1>8, <2>3
  <2>. QED
    BY <2>2, <2>4
<1>. HIDE DEF m, M
<1>10. m[1] * D <= m[2] * A /\ M[2] * A <= M[1] * D
  <2>1. m[1] \in Int /\ m[2] \in Int /\ M[1] \in Int /\ M[2] \in Int
    BY <1>8
  <2>2. \A k \in K : fn[k] \in Int /\ gn[k] \in Int
    BY <1>2
  <2>. HIDE DEF K
  <2>3. m[1] * D <= m[2] * A
    BY <1>0, <1>9, <2>1, <2>2, SumBound
  <2>4. M[2] * A <= M[1] * D
    BY <1>0, <1>9, <2>1, <2>2, SumBound
  <2>. QED
    BY <2>3, <2>4
<1>. HIDE DEF A, D
<1>11. A * m[2] = m[2] * A /\ A * M[2] = M[2] * A
  BY <1>7, <1>8
<1>12. LeqRate(m, <<A, D>>) /\ LeqRate(<<A, D>>, M)
  BY <1>10, <1>11 DEF LeqRate
<1>13. m \in Rates /\ <<A, D>> \in Rates /\ m[1] > 0
  BY <1>5, <1>6, <1>7, <1>8 DEF Rates
<1>. QED
  BY <1>1, <1>12, <1>13 DEF Ordered

\* Rows as they come from the servers.
TableOK(T) ==
  /\ IsFiniteSet(T)
  /\ \A row \in T :
       /\ row.server \in Hosts /\ row.dur \in Int /\ row.sent \in Int
       /\ DOMAIN row.peers \subseteq Hosts
       /\ \A h \in DOMAIN row.peers : row.peers[h] \in Nat

LEMMA TableTyped ==
  ASSUME CountersInv, HistoryOK, NEW phase \in Phases, NEW others \in OtherTables
  PROVE  TableOK(Table(phase) \cup others)
<1>. DEFINE OK(row) == /\ row.server \in Hosts /\ row.dur \in Int /\ row.sent \in Int
                       /\ DOMAIN row.peers \subseteq Hosts
                       /\ \A h \in DOMAIN row.peers : row.peers[h] \in Nat
            F == [k \in 1 .. Len(rows) |-> Row(rows[k], phase)]
<1>1. Table(phase) = {F[k] : k \in 1 .. Len(rows)}
  BY DEF Table
<1>2. IsFiniteSet(Table(phase))
  <2>1. IsFiniteSet(1 .. Len(rows))
    BY LenProperties, FS_Interval DEF CountersInv, CountersOK
  <2>. HIDE DEF F
  <2>. QED
    BY <1>1, <2>1, ImageFinite
<1>3. \A k \in 1 .. Len(rows) : OK(Row(rows[k], phase))
  <2>. SUFFICES ASSUME NEW k \in 1 .. Len(rows) PROVE OK(Row(rows[k], phase))
    OBVIOUS
  <2>. DEFINE w == rows[k]
  <2>1. /\ w.dur \in Nat /\ w.total \in Figures /\ DOMAIN w.peers \subseteq Hosts
        /\ w.peers \in [DOMAIN w.peers -> Figures]
    BY DEF HistoryOK, CountersInv, CountersOK
  <2>2. w.total["sent"] \in Nat /\ \A h \in DOMAIN w.peers : w.peers[h]["sent"] \in Nat
    BY <2>1 DEF Figures, Fields
  <2>3. Row(w, phase).sent = w.total["sent"]
    BY DEF Row
  <2>4. Self \in Hosts
    BY CountersAssumption
  <2>. HIDE DEF w
  <2>. QED
    BY <2>1, <2>2, <2>3, <2>4, RowOf DEF w
<1>4. /\ IsFiniteSet(others)
      /\ \A row \in others : \E wall, dur \in Int :
           \E D \in SUBSET Hosts : \E n \in Nat : row = OtherRow(wall, dur, [h \in D |-> n])
  <2>. DEFINE all(n) == [h \in Hosts \ {Other} |-> n]
              one(n) == [h \in {Self} |-> n]
              a == OtherRow(0, Second, all(1))
              b == OtherRow(Second, Second + 1, one(0))
              c == OtherRow(2 * Second + 1, MinWindow - 1, all(1))
              d == OtherRow(3 * Second, Second, one(3))
  <2>1. others = {} \/ others = {a, b, c, d}
    BY DEF OtherTables
  <2>2. IsFiniteSet({}) /\ IsFiniteSet({a, b, c, d})
    <3>1. {a, b, c, d} = {a} \cup ({b} \cup ({c} \cup {d}))
      OBVIOUS
    <3>. HIDE DEF a, b, c, d
    <3>2. IsFiniteSet({c} \cup {d})
      BY FS_Singleton, FS_Union
    <3>3. IsFiniteSet({b} \cup ({c} \cup {d}))
      BY <3>2, FS_Singleton, FS_Union
    <3>4. IsFiniteSet({a} \cup ({b} \cup ({c} \cup {d})))
      BY <3>3, FS_Singleton, FS_Union
    <3>. QED
      BY <3>1, <3>4, FS_EmptySet
  <2>3. /\ 0 \in Int /\ Second \in Int /\ Second + 1 \in Int /\ 2 * Second + 1 \in Int
        /\ MinWindow - 1 \in Int /\ 3 * Second \in Int
        /\ {Self} \in SUBSET Hosts /\ Hosts \ {Other} \in SUBSET Hosts
        /\ 0 \in Nat /\ 1 \in Nat /\ 3 \in Nat
    BY CountersAssumption, ReportAssumption
  <2>4. ASSUME NEW row \in {a, b, c, d}
        PROVE  \E wall, dur \in Int :
                 \E D \in SUBSET Hosts : \E n \in Nat : row = OtherRow(wall, dur, [h \in D |-> n])
    <3>. USE <2>3
    <3>1. CASE row = a
      <4>. WITNESS 0 \in Int, Second \in Int
      <4>. WITNESS Hosts \ {Other} \in SUBSET Hosts
      <4>. WITNESS 1 \in Nat
      <4>. QED
        BY <3>1
    <3>2. CASE row = b
      <4>. WITNESS Second \in Int, Second + 1 \in Int
      <4>. WITNESS {Self} \in SUBSET Hosts
      <4>. WITNESS 0 \in Nat
      <4>. QED
        BY <3>2
    <3>3. CASE row = c
      <4>. WITNESS 2 * Second + 1 \in Int, MinWindow - 1 \in Int
      <4>. WITNESS Hosts \ {Other} \in SUBSET Hosts
      <4>. WITNESS 1 \in Nat
      <4>. QED
        BY <3>3
    <3>4. CASE row = d
      <4>. WITNESS 3 * Second \in Int, Second \in Int
      <4>. WITNESS {Self} \in SUBSET Hosts
      <4>. WITNESS 3 \in Nat
      <4>. QED
        BY <3>4
    <3>. QED
      BY <3>1, <3>2, <3>3, <3>4
  <2>. HIDE DEF a, b, c, d
  <2>. QED
    BY <2>1, <2>2, <2>4
<1>5. \A row \in others : OK(row)
  <2>. SUFFICES ASSUME NEW row \in others PROVE OK(row)
    OBVIOUS
  <2>1. PICK wall \in Int, dur \in Int, D \in SUBSET Hosts, n \in Nat :
          row = OtherRow(wall, dur, [h \in D |-> n])
    BY <1>4
  <2>. DEFINE fn == [h \in D |-> n]
  <2>2. SumFunction(fn) \in Int
    <3>1. SumFunction(fn) = SumFunctionOnSet(fn, D) /\ \A h \in D : fn[h] \in Int
      BY DEF SumFunction
    <3>2. IsFiniteSet(D)
      BY CountersAssumption, FS_Subset
    <3>. HIDE DEF fn
    <3>. QED
      BY <3>1, <3>2, SumRemove
  <2>3. /\ row.server = Other /\ row.dur = dur /\ row.peers = fn
        /\ row.sent = SumFunction(fn)
    BY <2>1 DEF OtherRow
  <2>. QED
    BY <2>2, <2>3, ReportAssumption
<1>6. \A row \in Table(phase) : OK(row)
  <2>. HIDE DEF OK
  <2>. QED
    BY <1>3 DEF Table
<1>7. IsFiniteSet(Table(phase) \cup others)
  BY <1>2, <1>4, FS_Union
<1>. QED
  BY <1>5, <1>6, <1>7 DEF TableOK

\* The pairs shown are of servers and hosts of the hostlist, and their statistics are
\* ordered.
LEMMA PairsOrdered ==
  ASSUME NEW T, TableOK(T)
  PROVE  /\ IsFiniteSet(DOMAIN PairStats(T))
         /\ \A p \in DOMAIN PairStats(T) : Ordered(PairStats(T)[p])
<1>1. DOMAIN PairStats(T) = {p \in Directed(T) : RowsOf(T, p) # {}}
  BY DEF PairStats
<1>2. Directed(T) \subseteq Hosts \X Hosts
  BY DEF Directed, TableOK
<1>3. IsFiniteSet(DOMAIN PairStats(T))
  <2>1. IsFiniteSet(Hosts \X Hosts)
    BY CountersAssumption, FS_Product
  <2>. QED
    BY <1>1, <1>2, <2>1, FS_Subset
<1>4. ASSUME NEW p \in DOMAIN PairStats(T)
      PROVE  Ordered(PairStats(T)[p])
  <2>. DEFINE mine == RowsOf(T, p)
              samples == [row \in mine |-> <<row.peers[p[2]], row.dur>>]
  <2>1. PairStats(T)[p] = FromSamples(samples)
    BY <1>4 DEF PairStats
  <2>2. mine # {}
    BY <1>1, <1>4
  <2>3. IsFiniteSet(mine)
    BY FS_Subset DEF RowsOf, TableOK
  <2>4. ASSUME NEW row \in mine
        PROVE  row.peers[p[2]] \in Nat \ {0} /\ row.dur \in Nat \ {0}
    <3>1. row \in T /\ p[2] \in DOMAIN row.peers /\ row.peers[p[2]] > 0 /\ row.dur >= MinWindow
      BY DEF RowsOf, Kept
    <3>2. row.dur \in Int /\ row.peers[p[2]] \in Nat
      BY <3>1 DEF TableOK
    <3>. QED
      BY <3>1, <3>2, ReportAssumption
  <2>5. DOMAIN samples = mine /\ \A row \in mine : samples[row] \in (Nat \ {0}) \X (Nat \ {0})
    BY <2>4
  <2>. HIDE DEF samples, mine
  <2>6. Ordered(FromSamples(samples))
    BY <2>2, <2>3, <2>5, FromSamplesOrdered
  <2>. QED
    BY <2>1, <2>6
<1>. QED
  BY <1>3, <1>4

\* So is the total's.
LEMMA TotalOrdered ==
  ASSUME NEW T, TableOK(T), TotalRows(T) # {}
  PROVE  Ordered(TotalStats(T))
<1>. DEFINE sent == TotalRows(T)
            Bs == {Bucket(row) : row \in sent}
            In(b) == {r \in sent : Bucket(r) = b}
            bps(b) == [row \in In(b) |-> Bps(row.sent, row.dur)]
            sums == Buckets(T)
            rates == {sums[b] : b \in Bs}
            all == SumRatesOnSet(sums, Bs)
            n == Cardinality(Bs)
            m == MinRate(rates)
            M == MaxRate(rates)
<1>1. /\ DOMAIN sums = Bs
      /\ \A b \in Bs : sums[b] = SumRatesOnSet(bps(b), In(b))
  BY DEF Buckets, SumRates, FoldFunction, SumRatesOnSet
<1>2. IsFiniteSet(sent) /\ sent # {}
  BY FS_Subset DEF TotalRows, TableOK
<1>3. IsFiniteSet(Bs) /\ Bs # {} /\ n \in Nat \ {0}
  <2>. DEFINE F == [row \in sent |-> Bucket(row)]
  <2>1. Bs = {F[row] : row \in sent}
    OBVIOUS
  <2>2. IsFiniteSet(Bs)
    <3>. HIDE DEF F, sent, Bs
    <3>. QED
      BY <1>2, <2>1, ImageFinite
  <2>3. Bs # {}
    BY <1>2
  <2>. HIDE DEF Bs
  <2>. QED
    BY <2>2, <2>3, FS_CardinalityType, FS_EmptySet
<1>4. ASSUME NEW b \in Bs PROVE sums[b] \in (Nat \ {0}) \X (Nat \ {0})
  <2>1. In(b) # {} /\ IsFiniteSet(In(b))
    BY <1>2, FS_Subset
  <2>2. \A row \in In(b) : bps(b)[row] \in (Nat \ {0}) \X (Nat \ {0})
    <3>. SUFFICES ASSUME NEW row \in In(b)
                  PROVE  Bps(row.sent, row.dur) \in (Nat \ {0}) \X (Nat \ {0})
      OBVIOUS
    <3>1. row \in T /\ row.dur >= MinWindow /\ row.sent > 0
      BY DEF TotalRows
    <3>2. row.dur \in Nat \ {0} /\ row.sent \in Nat \ {0}
      BY <3>1, ReportAssumption DEF TableOK
    <3>. QED
      BY <3>2 DEF Bps
  <2>. DEFINE gn == bps(b)
              R == In(b)
  <2>3. R # {} /\ IsFiniteSet(R) /\ \A row \in R : gn[row] \in (Nat \ {0}) \X (Nat \ {0})
    BY <2>1, <2>2
  <2>4. sums[b] = SumRatesOnSet(gn, R)
    BY <1>1, <1>4
  <2>. HIDE DEF gn, R, sums
  <2>. QED
    BY <2>3, <2>4, SumRatesType
<1>5. /\ TotalStats(T).min = m /\ TotalStats(T).max = M
      /\ TotalStats(T).avg = <<all[1], all[2] * n>>
  <2>1. SumRates(sums) = all
    BY <1>1 DEF SumRates, FoldFunction, SumRatesOnSet
  <2>. QED
    BY <1>1, <2>1 DEF TotalStats
<1>. HIDE DEF Bs, In, bps, sums, sent
<1>6. rates \in SUBSET ((Nat \ {0}) \X (Nat \ {0})) /\ rates # {} /\ IsFiniteSet(rates)
  BY <1>3, <1>4, ImageFinite
<1>7. rates \in SUBSET Rates
  BY <1>6 DEF Rates
<1>8. \A b \in Bs : sums[b] \in rates
  OBVIOUS
<1>. HIDE DEF rates
<1>9. /\ m \in rates /\ \A q \in rates : LeqRate(m, q)
      /\ M \in rates /\ \A q \in rates : LeqRate(q, M)
  BY <1>6, <1>7, Extremes
<1>10. /\ m[1] \in Nat \ {0} /\ m[2] \in Nat \ {0}
       /\ M[1] \in Nat \ {0} /\ M[2] \in Nat \ {0}
  BY <1>6, <1>9
<1>11. all[1] \in Nat \ {0} /\ all[2] \in Nat \ {0}
  <2>1. all \in (Nat \ {0}) \X (Nat \ {0})
    BY <1>3, <1>4, SumRatesType
  <2>. QED
    BY <2>1
<1>12. ASSUME NEW b \in Bs
       PROVE  /\ m[1] * sums[b][2] <= m[2] * sums[b][1]
              /\ (-M[1]) * sums[b][2] <= (-M[2]) * sums[b][1]
  <2>1. /\ m[1] * sums[b][2] <= sums[b][1] * m[2]
        /\ sums[b][1] * M[2] <= M[1] * sums[b][2]
    BY <1>8, <1>9 DEF LeqRate
  <2>. DEFINE s1 == sums[b][1]  s2 == sums[b][2]
  <2>2. s1 \in Nat /\ s2 \in Nat
    BY <1>4
  <2>. HIDE DEF s1, s2, m, M
  <2>3. s1 * m[2] = m[2] * s1 /\ (-M[1]) * s2 = -(M[1] * s2) /\ (-M[2]) * s1 = -(s1 * M[2])
    BY <1>10, <2>2
  <2>4. M[1] * s2 \in Int /\ s1 * M[2] \in Int /\ m[1] * s2 <= s1 * m[2] /\ s1 * M[2] <= M[1] * s2
    BY <1>10, <2>1, <2>2 DEF s1, s2
  <2>5. m[1] * s2 <= m[2] * s1 /\ (-M[1]) * s2 <= (-M[2]) * s1
    BY <2>3, <2>4
  <2>. QED
    BY <2>5 DEF s1, s2
<1>. HIDE DEF m, M
<1>13. /\ m[1] * (all[2] * n) <= m[2] * all[1]
       /\ (-M[1]) * (all[2] * n) <= (-M[2]) * all[1]
  <2>1. m[1] \in Int /\ m[2] \in Int /\ -M[1] \in Int /\ -M[2] \in Int
    BY <1>10
  <2>. QED
    BY <1>3, <1>4, <1>12, <2>1, SumRatesBound
<1>. HIDE DEF all, n
<1>. DEFINE a1 == all[1]  d == all[2] * n
<1>14. a1 \in Nat \ {0} /\ d \in Nat \ {0}
  BY <1>3, <1>11, Positive
<1>15. m[1] * d <= m[2] * a1 /\ (-M[1]) * d <= (-M[2]) * a1
  BY <1>13
<1>. HIDE DEF a1, d
<1>16. m[1] * d <= a1 * m[2] /\ a1 * M[2] <= M[1] * d
  <2>1. m[2] * a1 = a1 * m[2] /\ (-M[1]) * d = -(M[1] * d) /\ (-M[2]) * a1 = -(a1 * M[2])
    BY <1>10, <1>14
  <2>2. M[1] * d \in Int /\ a1 * M[2] \in Int
    BY <1>10, <1>14
  <2>. QED
    BY <1>15, <2>1, <2>2
<1>17. LeqRate(m, <<a1, d>>) /\ LeqRate(<<a1, d>>, M)
  BY <1>16 DEF LeqRate
<1>18. m \in Rates /\ <<a1, d>> \in Rates /\ m[1] > 0
  BY <1>7, <1>9, <1>10, <1>14 DEF Rates
<1>. QED
  BY <1>5, <1>17, <1>18 DEF Ordered, a1, d

\* A finite set can be listed in any order of all its members, ties included.
LEMMA SortedList ==
  ASSUME NEW S, IsFiniteSet(S), NEW R,
         \A x, y \in S : <<x, y>> \in R \/ <<y, x>> \in R,
         \A x, y, z \in S : <<x, y>> \in R /\ <<y, z>> \in R => <<x, z>> \in R
  PROVE  \E s \in [1 .. Cardinality(S) -> S] :
            /\ {s[i] : i \in 1 .. Cardinality(S)} = S
            /\ \A i, j \in 1 .. Cardinality(S) : i < j => <<s[i], s[j]>> \in R
<1>. DEFINE Lists(T, s) == /\ s \in [1 .. Cardinality(T) -> T]
                           /\ {s[i] : i \in 1 .. Cardinality(T)} = T
                           /\ \A i, j \in 1 .. Cardinality(T) : i < j => <<s[i], s[j]>> \in R
            B == {T \in SUBSET S : ~\E s : Lists(T, s)}
<1>. SUFFICES ASSUME B # {} PROVE FALSE
  <2>1. S \in SUBSET S /\ S \notin B
    OBVIOUS
  <2>2. \E s : Lists(S, s)
    BY <2>1
  <2>. QED
    BY <2>2
<1>1. B \subseteq SUBSET S
  OBVIOUS
<1>2. PICK T \in B : \A U \in B : U \subseteq T => U = T
  <2>. HIDE DEF B
  <2>. QED
    BY <1>1, Smallest
<1>3. T \in SUBSET S /\ ~(\E s : Lists(T, s)) /\ IsFiniteSet(T)
  BY FS_Subset
<1>4. T # {}
  <2>1. Cardinality({}) = 0
    BY FS_EmptySet
  <2>. DEFINE none == [i \in 1 .. 0 |-> i]
  <2>2. 1 .. 0 = {}
    OBVIOUS
  <2>3. Lists({}, none)
    BY <2>1, <2>2
  <2>. HIDE DEF Lists
  <2>. QED
    BY <1>3, <2>3
<1>5. PICK x \in T : \A y \in T : <<x, y>> \in R
  <2>1. /\ \A a, b \in T : <<a, b>> \in R \/ <<b, a>> \in R
        /\ \A a, b, c \in T : <<a, b>> \in R /\ <<b, c>> \in R => <<a, c>> \in R
    BY <1>3
  <2>. QED
    BY <1>3, <1>4, <2>1, FirstOf
<1>. DEFINE U == T \ {x}
            n == Cardinality(U)
<1>6. U \in SUBSET S /\ U \subseteq T /\ U # T
  BY <1>3, <1>5
<1>7. PICK u : Lists(U, u)
  <2>1. U \notin B
    <3>. HIDE DEF U, B
    <3>. QED
      BY <1>2, <1>6
  <2>. HIDE DEF Lists
  <2>. QED
    BY <1>6, <2>1
<1>8. Cardinality(T) = n + 1 /\ n \in Nat
  BY <1>3, <1>5, FS_RemoveElement, FS_Subset, FS_CardinalityType
<1>9. /\ u \in [1 .. n -> U] /\ {u[i] : i \in 1 .. n} = U
      /\ \A i, j \in 1 .. n : i < j => <<u[i], u[j]>> \in R
  BY <1>7
<1>. DEFINE s == [i \in 1 .. n + 1 |-> IF i = 1 THEN x ELSE u[i - 1]]
<1>. HIDE DEF n
<1>10. /\ s[1] = x
       /\ \A i \in 1 .. n + 1 : i # 1 => i - 1 \in 1 .. n /\ s[i] = u[i - 1]
       /\ \A i \in 1 .. n : i + 1 \in 1 .. n + 1 /\ s[i + 1] = u[i]
  BY <1>8
<1>11. s \in [1 .. n + 1 -> T]
  <2>1. \A i \in 1 .. n + 1 : s[i] \in T
    BY <1>5, <1>6, <1>9, <1>10
  <2>. QED
    BY <2>1
<1>12. {s[i] : i \in 1 .. n + 1} = T
  <2>1. \A y \in T : \E i \in 1 .. n + 1 : y = s[i]
    <3>. SUFFICES ASSUME NEW y \in T PROVE \E i \in 1 .. n + 1 : y = s[i]
      OBVIOUS
    <3>1. CASE y = x
      <4>1. 1 \in 1 .. n + 1
        BY <1>8
      <4>. QED
        BY <1>10, <3>1, <4>1
    <3>2. CASE y # x
      <4>1. PICK i \in 1 .. n : y = u[i]
        BY <1>9, <3>2
      <4>. QED
        BY <1>10, <4>1
    <3>. QED
      BY <3>1, <3>2
  <2>. HIDE DEF s
  <2>. QED
    BY <1>11, <2>1
<1>13. ASSUME NEW i \in 1 .. n + 1, NEW j \in 1 .. n + 1, i < j
       PROVE  <<s[i], s[j]>> \in R
  <2>1. j # 1 /\ j - 1 \in 1 .. n /\ s[j] = u[j - 1]
    BY <1>8, <1>10, <1>13
  <2>2. s[j] \in T
    BY <1>11
  <2>3. CASE i = 1
    BY <1>5, <1>10, <2>2, <2>3
  <2>4. CASE i # 1
    <3>1. i - 1 \in 1 .. n /\ s[i] = u[i - 1] /\ i - 1 < j - 1
      BY <1>8, <1>10, <1>13, <2>4
    <3>. QED
      BY <1>9, <2>1, <3>1
  <2>. QED
    BY <2>3, <2>4
<1>14. Lists(T, s)
  <2>. HIDE DEF s
  <2>. QED
    BY <1>8, <1>11, <1>12, <1>13
<1>. QED
  BY <1>3, <1>14

\* print_report's order is one of all the pairs.
LEMMA WorseOrder ==
  ASSUME NEW a, NEW b, NEW c, Ordered(a), Ordered(b), Ordered(c)
  PROVE  /\ ~Worse(b, a) \/ ~Worse(a, b)
         /\ ~Worse(b, a) /\ ~Worse(c, b) => ~Worse(c, a)
         /\ ~Worse(b, a) => LeqRate(a.avg, b.avg)
<1>1. /\ a.avg \in Rates /\ b.avg \in Rates /\ c.avg \in Rates
      /\ a.min \in Rates /\ b.min \in Rates /\ c.min \in Rates
  BY DEF Ordered
<1>2. \A x, y, z \in Rates : /\ LeqRate(x, y) \/ LeqRate(y, x)
                             /\ LeqRate(x, y) /\ LeqRate(y, z) => LeqRate(x, z)
  BY RateOrder
<1>. QED
  BY <1>1, <1>2 DEF Worse, LessRate

\* No pair left off the list has a lower average than one on it.
LEMMA WorstOrdered ==
  ASSUME NEW stats, IsFiniteSet(DOMAIN stats), \A p \in DOMAIN stats : Ordered(stats[p]),
         NEW p \in DOMAIN stats, NEW k \in 1 .. Len(WorstPairs(stats)),
         p \notin ToSet(WorstPairs(stats))
  PROVE  LeqRate(stats[WorstPairs(stats)[k]].avg, stats[p].avg)
<1>. DEFINE D == DOMAIN stats
            n == Cardinality(D)
            Sorted(s) == /\ ToSet(s) = D
                         /\ \A i, j \in DOMAIN s : i < j => ~Worse(stats[s[j]], stats[s[i]])
            sorted == CHOOSE s \in [1 .. n -> D] : Sorted(s)
            m == Min({WorstCount, n})
            worst == SubSeq(sorted, 1, m)
<1>1. WorstPairs(stats) = worst
  BY DEF WorstPairs
<1>2. n \in Nat
  BY FS_CardinalityType
<1>3. \E s \in [1 .. n -> D] : Sorted(s)
  <2>. DEFINE R == {q \in D \X D : ~Worse(stats[q[2]], stats[q[1]])}
  <2>1. \A x, y \in D : <<x, y>> \in R <=> ~Worse(stats[y], stats[x])
    OBVIOUS
  <2>2. /\ \A x, y \in D : <<x, y>> \in R \/ <<y, x>> \in R
        /\ \A x, y, z \in D : <<x, y>> \in R /\ <<y, z>> \in R => <<x, z>> \in R
    <3>1. \A x \in D : Ordered(stats[x])
      OBVIOUS
    <3>. HIDE DEF R, D
    <3>. QED
      BY <2>1, <3>1, WorseOrder
  <2>3. IsFiniteSet(D)
    OBVIOUS
  <2>4. PICK s \in [1 .. n -> D] :
          /\ {s[i] : i \in 1 .. n} = D
          /\ \A i, j \in 1 .. n : i < j => <<s[i], s[j]>> \in R
    <3>. HIDE DEF R, D
    <3>. QED
      BY <2>2, <2>3, SortedList
  <2>5. Sorted(s)
    <3>1. DOMAIN s = 1 .. n
      OBVIOUS
    <3>2. ToSet(s) = D
      BY <2>4, <3>1 DEF ToSet
    <3>3. \A i, j \in 1 .. n : i < j => ~Worse(stats[s[j]], stats[s[i]])
      <4>. HIDE DEF R, D
      <4>. QED
        BY <2>1, <2>4
    <3>. QED
      BY <3>1, <3>2, <3>3
  <2>. QED
    BY <2>5
<1>4. sorted \in [1 .. n -> D] /\ Sorted(sorted)
  <2>. HIDE DEF Sorted
  <2>. QED
    BY <1>3
<1>. HIDE DEF sorted
<1>5. /\ DOMAIN sorted = 1 .. n /\ {sorted[i] : i \in 1 .. n} = D
      /\ \A i, j \in 1 .. n : i < j => ~Worse(stats[sorted[j]], stats[sorted[i]])
  BY <1>4 DEF ToSet
<1>6. m \in Nat /\ m <= n
  <2>1. WorstCount \in Nat
    BY ReportAssumption
  <2>. HIDE DEF n
  <2>. QED
    BY <1>2, <2>1, SMTT(60) DEF Min
<1>. HIDE DEF m, n
<1>7. /\ Len(worst) = m /\ \A i \in 1 .. m : worst[i] = sorted[i]
      /\ worst \in Seq(D)
  <2>1. \A i \in 1 .. m : sorted[i] \in D
    BY <1>2, <1>4, <1>6
  <2>2. /\ SubSeq(sorted, 1, m) \in Seq(D)
        /\ Len(SubSeq(sorted, 1, m)) = IF 1 <= m THEN m - 1 + 1 ELSE 0
        /\ \A i \in 1 .. m - 1 + 1 : SubSeq(sorted, 1, m)[i] = sorted[1 + i - 1]
    <3>. HIDE DEF D
    <3>. QED
      BY <1>6, <2>1, SubSeqProperties
  <2>3. m - 1 + 1 = m /\ \A i \in 1 .. m : 1 + i - 1 = i
    BY <1>6
  <2>. HIDE DEF D
  <2>. QED
    BY <1>6, <2>2, <2>3
<1>8. DOMAIN worst = 1 .. m
  BY <1>7, LenProperties
<1>9. PICK j \in 1 .. n : p = sorted[j]
  BY <1>5
<1>. HIDE DEF worst
<1>10. j \notin 1 .. m
  <2>1. ToSet(worst) = {worst[i] : i \in 1 .. m}
    BY <1>8 DEF ToSet
  <2>. QED
    BY <1>1, <1>7, <1>9, <2>1
<1>11. k \in 1 .. m /\ k \in 1 .. n /\ k < j
  BY <1>1, <1>2, <1>6, <1>7, <1>9, <1>10
<1>12. ~Worse(stats[p], stats[sorted[k]]) /\ sorted[k] \in D
  BY <1>4, <1>5, <1>9, <1>11
<1>13. LeqRate(stats[sorted[k]].avg, stats[p].avg)
  BY <1>12, WorseOrder
<1>. QED
  BY <1>1, <1>7, <1>11, <1>13

-----------------------------------------------------------------------------
(* Every step, and the theorems.                                           *)

\* Every step of the data plane, of the metrics loop and of analyze preserves the
\* invariant.
LEMMA CountersStep ==
  ASSUME CountersInv, [Next]_allvars
  PROVE  CountersInv'
<1>1. ops \in Nat /\ pending \subseteq Nat \X Fields \X Cells
  BY DEF CountersInv, CountersOK
<1>2. CASE \E h \in Hosts : AddSent(h) \/ AddRecv(h)
  <2>1. PICK h \in Hosts : AddSent(h) \/ AddRecv(h)
    BY <1>2
  <2>2. PICK f \in Fields : /\ pending' = pending \cup {<<ops', f, c>> : c \in {Total, h}}
                            /\ ops' = ops + 1
                            /\ UNCHANGED <<val, pc, loads, snap, prev, end, rows>>
    <3>1. CASE AddSent(h)
      BY <3>1 DEF AddSent, Fields
    <3>2. CASE AddRecv(h)
      BY <3>2 DEF AddRecv, Fields
    <3>. QED
      BY <2>1, <3>1, <3>2
  <2>3. ops' \in Nat /\ {Total, h} \subseteq Cells
    BY <1>1, <2>2 DEF Cells
  <2>4. pending' \subseteq Nat \X Fields \X Cells
    BY <1>1, <2>2, <2>3
  <2>. QED
    BY <2>2, <2>3, <2>4, AddKeeps
<1>3. CASE AddStray
  <2>1. /\ pending' = pending \cup {<<ops', "recv", Total>>} /\ ops' = ops + 1
        /\ UNCHANGED <<val, pc, loads, snap, prev, end, rows>>
    BY <1>3 DEF AddStray
  <2>2. ops' \in Nat /\ "recv" \in Fields /\ Total \in Cells
    BY <1>1, <2>1 DEF Fields, Cells
  <2>3. pending' \subseteq Nat \X Fields \X Cells
    BY <1>1, <2>1, <2>2
  <2>. QED
    BY <2>1, <2>2, <2>3, AddKeeps
<1>4. CASE Land
  <2>1. PICK p \in pending : /\ val' = [val EXCEPT ![p[3]][p[2]] = @ + 1]
                             /\ pending' = pending \ {p}
    BY <1>4 DEF Land
  <2>2. UNCHANGED <<ops, pc, loads, snap, prev, end, rows>>
    BY <1>4 DEF Land, reader
  <2>3. p[2] \in Fields /\ p[3] \in Cells
    BY <1>1, <2>1
  <2>. QED
    BY <2>1, <2>2, <2>3, LandKeeps
<1>5. CASE Analysed \/ UNCHANGED allvars
  <2>1. UNCHANGED <<val, ops, pending, pc, loads, snap, prev, end, rows>>
    BY <1>5 DEF Analysed, allvars, vars, adders, reader
  <2>. QED
    BY <1>1, <2>1, AddKeeps
<1>. QED
  BY <1>2, <1>3, <1>4, <1>5, LoadKeeps, BasedKeeps, WindowEndsKeeps, EmitWindowKeeps,
     CancelledKeeps DEF Next, Step, CountersNext

\* The counters only grow, a snapshot lies between the one before it and the counters,
\* and the windows lie on the grid, for any hostlist, any traffic and any number of
\* windows (metrics.rs 62-99; server.rs 176-213, 240-283).
THEOREM Invariance == Spec => []CountersInv
<1>1. ReportInit => CountersInv
  BY InitCounters DEF ReportInit
<1>2. CountersInv /\ [Next]_allvars => CountersInv'
  BY CountersStep
<1>. QED
  BY <1>1, <1>2, PTL DEF Spec

\* Snap::delta never has to saturate: although snapshots are taken cell by cell while
\* the data plane adds, what a window says of a cell is exactly what its atomic gained
\* between two snapshots (metrics.rs 62-72).
THEOREM DeltaExactCorrect == Spec => []DeltaExact
<1>1. CountersInv => DeltaExact
  <2>. SUFFICES ASSUME CountersInv, NEW c \in Cells, NEW f \in Fields
                PROVE  prev[c][f] + Delta(prev[c], snap[c])[f] = snap[c][f]
    BY DEF DeltaExact
  <2>1. prev[c][f] \in Nat /\ snap[c][f] \in Nat
    BY DEF CountersInv, CountersOK, Counts, Figures
  <2>2. prev[c][f] <= snap[c][f]
    BY DEF CountersInv, Monotone
  <2>3. Delta(prev[c], snap[c])[f] = IF snap[c][f] > prev[c][f] THEN snap[c][f] - prev[c][f] ELSE 0
    BY DEF Delta
  <2>. QED
    BY <2>1, <2>2, <2>3
<1>. QED
  BY <1>1, Invariance, PTL

\* Every step preserves what the sums rest on.
LEMMA SharesStep ==
  ASSUME CountersInv, SharesInv, [Next]_allvars
  PROVE  SharesInv'
<1>1. HistoryOK /\ stray \in Figures /\ ops \in Nat
  BY DEF SharesInv, HistoryOK, CountersInv, CountersOK
<1>2. CASE \E h \in Hosts : AddSent(h) \/ AddRecv(h)
  <2>1. PICK h \in Hosts : AddSent(h) \/ AddRecv(h)
    BY <1>2
  <2>2. PICK f \in Fields :
          /\ pc # "done" /\ ops' = ops + 1 /\ slack' = Overlaps /\ stray' = stray
          /\ pending' = pending \cup {<<ops', f, c>> : c \in {Total, h}}
          /\ UNCHANGED <<val, pc, loads, snap, prev, end, rows>>
    <3>1. CASE AddSent(h)
      BY <3>1 DEF AddSent, CanAdd, Fields
    <3>2. CASE AddRecv(h)
      BY <3>2 DEF AddRecv, CanAdd, Fields
    <3>. QED
      BY <2>1, <3>1, <3>2
  <2>. DEFINE C == {Total, h}
  <2>3. /\ C \in SUBSET Cells /\ Total \in C /\ C # {Total}
        /\ \A c, d \in C \ {Total} : c = d
    BY CountersAssumption DEF Cells
  <2>4. \A g \in Fields : stray'[g] = stray[g] + IF g = f /\ C = {Total} THEN 1 ELSE 0
    BY <1>1, <2>2, <2>3 DEF Figures
  <2>5. pending' = pending \cup {<<ops', f, c>> : c \in C} /\ stray' \in Figures
    BY <1>1, <2>2
  <2>. HIDE DEF C
  <2>. QED
    BY <2>2, <2>3, <2>4, <2>5, AddShares
<1>3. CASE AddStray
  <2>. DEFINE C == {Total}
  <2>1. /\ pc # "done" /\ ops' = ops + 1 /\ slack' = Overlaps
        /\ pending' = pending \cup {<<ops', "recv", c>> : c \in C}
        /\ stray' = [stray EXCEPT !["recv"] = @ + 1] /\ "recv" \in Fields
        /\ UNCHANGED <<val, pc, loads, snap, prev, end, rows>>
    <3>1. {<<ops', "recv", c>> : c \in C} = {<<ops', "recv", Total>>}
      OBVIOUS
    <3>. QED
      BY <1>3, <3>1 DEF AddStray, CanAdd, Fields
  <2>2. /\ C \in SUBSET Cells /\ Total \in C /\ C = {Total}
        /\ \A c, d \in C \ {Total} : c = d
    BY DEF Cells
  <2>3. /\ stray' \in Figures
        /\ \A g \in Fields : stray'[g] = stray[g] + IF g = "recv" /\ C = {Total} THEN 1 ELSE 0
    BY <1>1, <2>1 DEF Figures
  <2>. HIDE DEF C
  <2>. QED
    BY <2>1, <2>2, <2>3, AddShares
<1>4. CASE Land
  <2>1. PICK p \in pending : /\ val' = [val EXCEPT ![p[3]][p[2]] = @ + 1]
                             /\ pending' = pending \ {p}
    BY <1>4 DEF Land
  <2>2. pc # "done" /\ UNCHANGED <<ops, stray, pc, loads, snap, prev, end, rows, slack>>
    BY <1>4 DEF Land, reader
  <2>. QED
    BY <2>1, <2>2, LandShares
<1>5. CASE Analysed \/ UNCHANGED allvars
  <2>1. UNCHANGED <<val, ops, pending, stray, pc, loads, snap, prev, end, rows, slack>>
    BY <1>5 DEF Analysed, allvars, vars, adders, reader
  <2>. QED
    BY <2>1, FramedShares
<1>. QED
  BY <1>2, <1>3, <1>4, <1>5, LoadShares, BasedShares, WindowEndsShares, EmitWindowShares,
     CancelledShares DEF Next, Step, CountersNext

\* The gap between the total and the hosts is, at any moment, traffic of no host and
\* calls half visible; a snapshot adds to it at most the calls it overlapped, and the
\* windows' unexplained parts telescope (metrics.rs 62-99, 214-233).
THEOREM SharesInvariance == Spec => []SharesInv
<1>1. ReportInit => CountersInv /\ SharesInv
  BY InitCounters, InitShares DEF ReportInit
<1>2. CountersInv /\ SharesInv /\ [Next]_allvars => CountersInv' /\ SharesInv'
  BY CountersStep, SharesStep
<1>. QED
  BY <1>1, <1>2, PTL DEF Spec

\* However many windows a test has, what its totals say beyond its hosts' shares is the
\* traffic of no host, give or take the add calls in progress during two snapshots, the
\* first and the latest: the error of reading atomic by atomic never builds up
\* (metrics.rs 62-72, 95-99, 214-233; server.rs 253-282).
THEOREM SharesAddUpCorrect == Spec => []SharesAddUp
<1>1. CountersInv /\ SharesInv => SharesAddUp
  BY AddUp DEF CountersInv
<1>. QED
  BY <1>1, Invariance, SharesInvariance, PTL

\* What the windows say was sent to a host is what the latest snapshot shows of it, but
\* for what the first snapshot showed, and a report is made of just these windows
\* (metrics.rs 62-72; server.rs 253-282; analyze.rs 163-206).
THEOREM SentInvariance == Spec => []SentInv
<1>1. ReportInit => CountersInv /\ SharesInv /\ SentInv
  BY InitCounters, InitShares, InitSent DEF ReportInit
<1>2. CountersInv /\ SharesInv /\ SentInv /\ [Next]_allvars
        => CountersInv' /\ SharesInv' /\ SentInv'
  BY CountersStep, SharesStep, ToldStep, ReportedStep DEF SentInv, CountersInv
<1>. QED
  BY <1>1, <1>2, PTL DEF Spec

\* What the report says this server sent to a host, with what its short windows sent, is
\* what its data plane counted: no byte twice, and none missing but those the first
\* snapshot had already seen and those after the last window, for any hostlist, any
\* traffic and any windows (metrics.rs 62-72; server.rs 253-282; analyze.rs 163-183).
THEOREM SentIsReportedCorrect == Spec => []SentIsReported
<1>1. CountersInv /\ SharesInv /\ SentInv => SentIsReported
  <2>. SUFFICES ASSUME CountersInv, SharesInv, SentInv, report.ok, NEW h \in Hosts \ {Self}
                PROVE  LET ours == {r \in Table(0) : h \in DOMAIN r.peers}
                           short == {r \in ours : r.dur < MinWindow}
                           shown == IF <<Self, h>> \in DOMAIN report.pairs
                                    THEN report.pairs[<<Self, h>>].avg[1] ELSE 0
                           dropped == SumFunction([r \in short |-> r.peers[h]])
                       IN  /\ shown + dropped <= val[h]["sent"]
                           /\ shown + dropped >= snap[h]["sent"] - slack["first"].over
    BY DEF SentIsReported
  <2>. DEFINE A == {k \in 1 .. Len(rows) : /\ h \in DOMAIN rows[k].peers
                                           /\ rows[k].peers[h]["sent"] > 0
                                           /\ rows[k].dur >= MinWindow}
              B == {k \in 1 .. Len(rows) : h \in DOMAIN rows[k].peers /\ rows[k].dur < MinWindow}
              fn == [k \in 1 .. Len(rows) |-> SentIn(rows[k], h)]
              short == {r \in {r \in Table(0) : h \in DOMAIN r.peers} : r.dur < MinWindow}
              shown == IF <<Self, h>> \in DOMAIN report.pairs
                       THEN report.pairs[<<Self, h>>].avg[1] ELSE 0
              dropped == SumFunction([r \in short |-> r.peers[h]])
  <2>1. HistoryOK /\ CountersOK /\ h \in Hosts /\ h \in Cells /\ "sent" \in Fields
    BY DEF SharesInv, CountersInv, Cells, Fields
  <2>2. PICK phase \in Phases, others \in OtherTables :
          pc = "done" /\ report = LoadTable(Table(phase) \cup others)
    BY DEF SentInv, Reported, NoReport
  <2>3. shown = SumFunctionOnSet(fn, A)
    BY <2>1, <2>2, ShownIs
  <2>4. dropped = SumFunctionOnSet(fn, B)
    BY <2>1, DroppedIs
  <2>5. SumFunctionOnSet(fn, A) + SumFunctionOnSet(fn, B) = SentSoFar(h)
    BY <2>1, ShownAndDropped
  <2>6. /\ SentSoFar(h) <= snap[h]["sent"]
        /\ snap[h]["sent"] - SentSoFar(h) <= slack["first"].over
    BY <2>1, <2>2 DEF SentInv, Told
  <2>7. snap[h]["sent"] <= val[h]["sent"]
    BY <2>1 DEF CountersInv, Monotone
  <2>8. /\ SentSoFar(h) \in Int /\ slack["first"].over \in Nat
        /\ snap[h]["sent"] \in Nat /\ val[h]["sent"] \in Nat
    <3>1. SentSoFar(h) \in Int
      BY <2>1, SentType
    <3>2. slack["first"].over \in Nat
      BY <2>1 DEF HistoryOK
    <3>3. snap[h]["sent"] \in Nat /\ val[h]["sent"] \in Nat
      BY <2>1 DEF CountersOK, Counts, Figures
    <3>. QED
      BY <3>1, <3>2, <3>3
  <2>9. shown + dropped = SentSoFar(h)
    BY <2>3, <2>4, <2>5
  <2>. HIDE DEF shown, dropped, fn, A, B
  <2>10. shown + dropped <= val[h]["sent"] /\ shown + dropped >= snap[h]["sent"] - slack["first"].over
    BY <2>6, <2>7, <2>8, <2>9
  <2>. QED
    BY <2>10 DEF shown, dropped
<1>. QED
  BY <1>1, Invariance, SharesInvariance, SentInvariance, PTL

\* What the report shows is consistent, whatever the windows, the other server's rows and
\* the number of pairs: averages lie between their extremes, a pair is shown only with
\* traffic, and the list of the worst leaves out none that is worse than one it names
\* (analyze.rs 24-54, 187-206, 272-287).
THEOREM ReportOrderedCorrect == Spec => []ReportOrdered
<1>1. CountersInv /\ SharesInv /\ SentInv => ReportOrdered
  <2>. SUFFICES ASSUME CountersInv, SharesInv, SentInv, report.ok PROVE ReportOrdered
    BY DEF ReportOrdered
  <2>1. HistoryOK
    BY DEF SharesInv
  <2>2. PICK phase \in Phases, others \in OtherTables :
          report = LoadTable(Table(phase) \cup others)
    BY DEF SentInv, Reported, NoReport
  <2>. DEFINE T == Table(phase) \cup others
  <2>3. TableOK(T)
    BY <2>1, TableTyped
  <2>. HIDE DEF T
  <2>4. /\ TotalRows(T) # {}
        /\ report.pairs = PairStats(T) /\ report.total = TotalStats(T)
        /\ report.worst = WorstPairs(PairStats(T))
    BY <2>2 DEF LoadTable, T
  <2>5. /\ IsFiniteSet(DOMAIN report.pairs) /\ Ordered(report.total)
        /\ \A p \in DOMAIN report.pairs : Ordered(report.pairs[p])
    BY <2>3, <2>4, PairsOrdered, TotalOrdered
  <2>6. \A s \in {report.pairs[p] : p \in DOMAIN report.pairs} \cup {report.total} :
          LeqRate(s.min, s.avg) /\ LeqRate(s.avg, s.max) /\ s.min[1] > 0
    BY <2>5 DEF Ordered
  <2>7. \A p \in DOMAIN report.pairs : \A k \in 1 .. Len(report.worst) :
          p \notin ToSet(report.worst) =>
            LeqRate(report.pairs[report.worst[k]].avg, report.pairs[p].avg)
    BY <2>4, <2>5, WorstOrdered
  <2>. QED
    BY <2>6, <2>7 DEF ReportOrdered
<1>. QED
  BY <1>1, Invariance, SharesInvariance, SentInvariance, PTL

\* Windows of one server share a second of the report's total only when those before the
\* last of them began late, by a second for every one between, wherever in a second the
\* test began; for any lateness, that of a write longer than a window included
\* (analyze.rs 179-183; server.rs 183, 250, 277).
THEOREM CrowdedAfterStallCorrect == Spec => []CrowdedAfterStall
<1>1. CountersInv => CrowdedAfterStall
  <2>. SUFFICES ASSUME CountersInv, NEW phase \in Phases,
                       NEW j \in 1 .. Len(rows), NEW i \in 1 .. j - 1,
                       Bucket(Row(rows[i], phase)) = Bucket(Row(rows[j], phase))
                PROVE  Late(i) > (j - i - 1) * Second
    BY DEF CrowdedAfterStall
  <2>. DEFINE a == rows[i].start  b == rows[j].start
  <2>1. Second \in Nat \ {0} /\ TicksPerSecond = Second /\ phase \in Nat
    BY CountersAssumption, ReportAssumption DEF Phases
  <2>2. Len(rows) \in Nat
    BY LenProperties DEF CountersInv, CountersOK
  <2>3. /\ i \in 1 .. Len(rows) /\ j - 1 \in 1 .. Len(rows) /\ j # 1
        /\ i \in Nat /\ j \in Nat /\ i + 1 <= j
    BY <2>2
  <2>4. a \in Nat /\ b \in Nat
    BY <2>3 DEF CountersInv, CountersOK
  <2>5. b = EndOf(rows[j - 1]) /\ (j - 1) * Second <= b
    BY <2>3 DEF CountersInv, Grid
  <2>6. /\ Bucket(Row(rows[i], phase)) = (phase + a) \div Second
        /\ Bucket(Row(rows[j], phase)) = (phase + b) \div Second
    BY <2>1 DEF Bucket, Row
  <2>7. phase + a \in Nat /\ phase + b \in Nat
    BY <2>1, <2>4
  <2>8. phase + b < (phase + a) + Second
    <3>1. \A x, y \in Nat : y >= x + Second => x \div Second # y \div Second
      BY <2>1, DivGap
    <3>2. ~(phase + b >= (phase + a) + Second)
      BY <2>6, <2>7, <3>1, Zenon
    <3>. QED
      BY <2>1, <2>7, <3>2
  <2>9. (j - 1) * Second = (i - 1) * Second + (j - i - 1) * Second + Second
    BY <2>1, <2>3
  <2>10. /\ (j - 1) * Second \in Int /\ (i - 1) * Second \in Int
         /\ (j - i - 1) * Second \in Int
    BY <2>1, <2>3
  <2>11. a > (i - 1) * Second + (j - i - 1) * Second
    BY <2>1, <2>4, <2>5, <2>8, <2>9, <2>10
  <2>. QED
    BY <2>4, <2>10, <2>11 DEF Late
<1>. QED
  BY <1>1, Invariance, PTL
=============================================================================
