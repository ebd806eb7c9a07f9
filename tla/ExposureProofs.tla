--------------------------- MODULE ExposureProofs ---------------------------
(***************************************************************************)
(* For any number of markets, orders, parts and prices, and any caps: the  *)
(* mirror follows the exchange in every market that is not astray; and     *)
(* what it holds keeps to the caps, as long as every order was answered    *)
(* for before the next was sized.                                          *)
(***************************************************************************)
EXTENDS Exposure, FiniteSetTheorems, TLAPS

-----------------------------------------------------------------------------
(* Induction over finite sets, and the sum of a function. *)

\* A set Good of sets, which a finite set enters when all the sets with one element
\* less are in it, holds every subset of U.
LEMMA SubsetInduction ==
    ASSUME NEW U, IsFiniteSet(U), NEW Good,
           \A s \in SUBSET U : (\A x \in s : s \ {x} \in Good) => s \in Good
    PROVE  SUBSET U \subseteq Good
<1> DEFINE Bad == (SUBSET U) \ Good
<1> SUFFICES ASSUME Bad # {} PROVE FALSE
  OBVIOUS
<1>1. Bad \subseteq FiniteSubsetsOf(U)
  BY FS_Subset DEF FiniteSubsetsOf
<1>2. PICK s \in Bad : \A t \in Bad : ~ (<<t, s>> \in StrictSubsetOrdering(U))
  BY <1>1, FS_StrictSubsetOrderingWellFounded, WFMin, Zenon
<1>3. ASSUME NEW x \in s PROVE s \ {x} \in Good
  <2>1. s \ {x} \in SUBSET U /\ s \ {x} # s /\ s \ {x} \subseteq s
    OBVIOUS
  <2>2. <<s \ {x}, s>> \in StrictSubsetOrdering(U)
    BY <2>1 DEF StrictSubsetOrdering
  <2> QED
    BY <1>2, <2>1, <2>2
<1> QED
  BY <1>2, <1>3

\* The element that the library's fold takes first.
First(s) == CHOOSE x \in s : TRUE

SumEquation(F, S, sum) ==
    sum = [s \in SUBSET S |-> IF s = {} THEN 0 ELSE F[First(s)] + sum[s \ {First(s)}]]

Sum(F, S) == SumFunctionOnSet(F, S)

\* The element chosen is one of the set.
LEMMA FirstIn == ASSUME NEW s, s # {} PROVE First(s) \in s
BY DEF First

\* The library's sum is the solution of the equation it chooses, at the whole set.
LEMMA SumIs == ASSUME NEW F, NEW S
               PROVE  Sum(F, S) = (CHOOSE sum : SumEquation(F, S, sum))[S]
BY Zenon DEF Sum, First, SumFunctionOnSet, FoldFunctionOnSet, MapThenFoldSet, SumEquation

\* Two solutions of the equation agree where both are defined.
LEMMA SumAgrees ==
    ASSUME NEW F, NEW A, IsFiniteSet(A), NEW B, NEW g, SumEquation(F, A, g),
           NEW h, SumEquation(F, B, h), NEW r \in SUBSET A, r \in SUBSET B
    PROVE  g[r] = h[r]
<1> DEFINE Good == {s \in SUBSET r : g[s] = h[s]}
<1>1. IsFiniteSet(r)
  BY FS_Subset
<1>2. ASSUME NEW s \in SUBSET r, \A x \in s : s \ {x} \in Good PROVE s \in Good
  <2>1. s \in SUBSET A /\ s \in SUBSET B
    OBVIOUS
  <2>2. g[s] = (IF s = {} THEN 0 ELSE F[First(s)] + g[s \ {First(s)}])
    BY <2>1, Zenon DEF SumEquation
  <2>3. h[s] = (IF s = {} THEN 0 ELSE F[First(s)] + h[s \ {First(s)}])
    BY <2>1, Zenon DEF SumEquation
  <2>4. CASE s = {}
    BY <2>2, <2>3, <2>4
  <2>5. CASE s # {}
    <3>1. g[s \ {First(s)}] = h[s \ {First(s)}]
      BY <1>2, <2>5, FirstIn
    <3> QED
      BY <2>2, <2>3, <2>5, <3>1
  <2> QED
    BY <2>4, <2>5
<1> HIDE DEF Good
<1>3. SUBSET r \subseteq Good
  BY <1>1, <1>2, SubsetInduction
<1> QED
  BY <1>3 DEF Good

\* There is one for every finite set.
LEMMA SumExists ==
    ASSUME NEW F, NEW U, IsFiniteSet(U) PROVE \E sum : SumEquation(F, U, sum)
<1> DEFINE Good == {s \in SUBSET U : \E sum : SumEquation(F, s, sum)}
<1>1. ASSUME NEW s \in SUBSET U, \A x \in s : s \ {x} \in Good PROVE s \in Good
  <2>1. CASE s = {}
    <3>1. SumEquation(F, {}, [e \in SUBSET {} |-> 0])
      BY DEF SumEquation
    <3> QED
      BY <2>1, <3>1
  <2>2. CASE s # {}
    <3> DEFINE g(x) == CHOOSE sum : SumEquation(F, s \ {x}, sum)
               other(e) == CHOOSE x \in s \ e : TRUE
               h == [e \in SUBSET s |->
                       IF e = s THEN F[First(s)] + g(First(s))[s \ {First(s)}]
                       ELSE g(other(e))[e]]
    <3>1. \A x \in s : SumEquation(F, s \ {x}, g(x)) /\ IsFiniteSet(s \ {x})
      BY <1>1, FS_Subset
    <3>2. \A e \in SUBSET s : e # s => other(e) \in s \ e
      OBVIOUS
    <3> HIDE DEF g, other
    <3>3. ASSUME NEW e \in SUBSET s
          PROVE  h[e] = IF e = {} THEN 0 ELSE F[First(e)] + h[e \ {First(e)}]
      <4>1. CASE e = s
        <5>1. First(s) \in s /\ s \ {First(s)} # s /\ s \ {First(s)} \in SUBSET s
          BY <2>2, FirstIn
        <5>2. other(s \ {First(s)}) = First(s)
          BY <3>2, <5>1
        <5>3. h[s \ {First(s)}] = g(First(s))[s \ {First(s)}]
          BY <5>1, <5>2
        <5> QED
          BY <2>2, <4>1, <5>3
      <4>2. CASE e # s /\ e = {}
        <5>1. SumEquation(F, s \ {other(e)}, g(other(e))) /\ e \in SUBSET (s \ {other(e)})
          BY <3>1, <3>2, <4>2
        <5>2. g(other(e))[e] = 0
          BY <4>2, <5>1, Zenon DEF SumEquation
        <5> QED
          BY <4>2, <5>2
      <4>3. CASE e # s /\ e # {}
        <5> DEFINE f == e \ {First(e)}
        <5>1. First(e) \in e /\ f \in SUBSET s /\ f # s
          BY <4>3, FirstIn
        <5>2. SumEquation(F, s \ {other(e)}, g(other(e))) /\ e \in SUBSET (s \ {other(e)})
          BY <3>1, <3>2, <4>3
        <5>3. g(other(e))[e] = F[First(e)] + g(other(e))[f]
          BY <4>3, <5>2, Zenon DEF SumEquation
        <5>4. SumEquation(F, s \ {other(f)}, g(other(f))) /\ f \in SUBSET (s \ {other(f)})
          <6> HIDE DEF f
          <6>1. other(f) \in s \ f
            BY <3>2, <5>1
          <6> QED
            BY <3>1, <5>1, <6>1
        <5>5. g(other(e))[f] = g(other(f))[f]
          <6>1. IsFiniteSet(s \ {other(e)}) /\ f \in SUBSET (s \ {other(e)})
            BY <3>1, <3>2, <4>3, <5>2
          <6> HIDE DEF f
          <6> QED
            BY <5>2, <5>4, <6>1, SumAgrees
        <5>6. h[e] = g(other(e))[e] /\ h[f] = g(other(f))[f]
          BY <4>3, <5>1
        <5> QED
          BY <4>3, <5>3, <5>5, <5>6
      <4> QED
        BY <4>1, <4>2, <4>3
    <3>4. h = [e \in SUBSET s |-> h[e]]
      OBVIOUS
    <3> HIDE DEF h
    <3>5. SumEquation(F, s, h)
      BY <3>3, <3>4 DEF SumEquation
    <3> QED
      BY <3>5
  <2> QED
    BY <2>1, <2>2
<1> HIDE DEF Good
<1>2. SUBSET U \subseteq Good
  BY <1>1, SubsetInduction
<1> QED
  BY <1>2 DEF Good

\* So a sum can be taken apart, first at the element the fold chooses ...
LEMMA SumSplits ==
    ASSUME NEW F, NEW S, IsFiniteSet(S)
    PROVE  /\ S = {} => Sum(F, S) = 0
           /\ S # {} => Sum(F, S) = F[First(S)] + Sum(F, S \ {First(S)})
<1> DEFINE r == S \ {First(S)}
           g == CHOOSE sum : SumEquation(F, S, sum)
           h == CHOOSE sum : SumEquation(F, r, sum)
<1>1. IsFiniteSet(r) /\ r \in SUBSET S /\ r \in SUBSET r
  BY FS_Subset
<1>2. SumEquation(F, S, g) /\ SumEquation(F, r, h)
  <2> HIDE DEF r
  <2> QED
    BY <1>1, SumExists
<1>3. Sum(F, S) = g[S] /\ Sum(F, r) = h[r]
  BY SumIs
<1> HIDE DEF g, h
<1>4. g[S] = IF S = {} THEN 0 ELSE F[First(S)] + g[r]
  BY <1>2, Zenon DEF SumEquation
<1>5. g[r] = h[r]
  <2> HIDE DEF r
  <2> QED
    BY <1>1, <1>2, SumAgrees
<1> QED
  BY <1>3, <1>4, <1>5

\* Integers add up to an integer ...
LEMMA SumIsInt ==
    ASSUME NEW F, NEW S, IsFiniteSet(S), \A x \in S : F[x] \in Int
    PROVE  Sum(F, S) \in Int
<1> DEFINE Good == {s \in SUBSET S : Sum(F, s) \in Int}
<1>1. ASSUME NEW s \in SUBSET S, \A x \in s : s \ {x} \in Good PROVE s \in Good
  <2>0. IsFiniteSet(s)
    BY FS_Subset
  <2>1. CASE s = {}
    <3>1. Sum(F, s) = 0
      BY <2>0, <2>1, SumSplits, Zenon
    <3> QED
      BY <3>1
  <2>2. CASE s # {}
    <3>1. First(s) \in s /\ Sum(F, s) = F[First(s)] + Sum(F, s \ {First(s)})
      BY <2>0, <2>2, FirstIn, SumSplits
    <3>2. F[First(s)] \in Int /\ Sum(F, s \ {First(s)}) \in Int
      BY <1>1, <3>1
    <3> QED
      BY <3>1, <3>2
  <2> QED
    BY <2>1, <2>2
<1> HIDE DEF Good
<1>2. SUBSET S \subseteq Good
  BY <1>1, SubsetInduction
<1> QED
  BY <1>2 DEF Good

\* ... and then at any element.
LEMMA SumRemoves ==
    ASSUME NEW F, NEW S, IsFiniteSet(S), \A x \in S : F[x] \in Int, NEW e \in S
    PROVE  Sum(F, S) = F[e] + Sum(F, S \ {e})
<1> DEFINE Good == {s \in SUBSET S : \A x \in s : Sum(F, s) = F[x] + Sum(F, s \ {x})}
<1>1. ASSUME NEW s \in SUBSET S, \A x \in s : s \ {x} \in Good PROVE s \in Good
  <2> DEFINE c == First(s)
  <2> SUFFICES ASSUME NEW x \in s PROVE Sum(F, s) = F[x] + Sum(F, s \ {x})
    OBVIOUS
  <2>1. IsFiniteSet(s) /\ \A r \in SUBSET s : IsFiniteSet(r) /\ Sum(F, r) \in Int
    <3>1. IsFiniteSet(s)
      BY FS_Subset
    <3>2. ASSUME NEW r \in SUBSET s PROVE IsFiniteSet(r) /\ Sum(F, r) \in Int
      BY <3>1, FS_Subset, SumIsInt
    <3> QED
      BY <3>1, <3>2
  <2>2. c \in s /\ Sum(F, s) = F[c] + Sum(F, s \ {c}) /\ F[c] \in Int /\ F[x] \in Int
    BY <2>1, FirstIn, SumSplits
  <2> HIDE DEF c
  <2>3. CASE x = c
    BY <2>2, <2>3
  <2>4. CASE x # c
    <3>1. x \in s \ {c} /\ c \in s \ {x} /\ s \ {c} \in Good /\ s \ {x} \in Good
      BY <1>1, <2>2, <2>4
    <3>2. /\ Sum(F, s \ {c}) = F[x] + Sum(F, (s \ {c}) \ {x})
          /\ Sum(F, s \ {x}) = F[c] + Sum(F, (s \ {x}) \ {c})
      BY <3>1
    <3>3. (s \ {c}) \ {x} = (s \ {x}) \ {c}
      OBVIOUS
    <3>4. Sum(F, (s \ {x}) \ {c}) \in Int /\ Sum(F, (s \ {c}) \ {x}) = Sum(F, (s \ {x}) \ {c})
      BY <2>1, <3>3
    <3> QED
      BY <2>2, <3>2, <3>4
  <2> QED
    BY <2>3, <2>4
<1> HIDE DEF Good
<1>2. SUBSET S \subseteq Good
  BY <1>1, SubsetInduction
<1> QED
  BY <1>2 DEF Good

\* An inequality that holds of every term holds of the sums.
LEMMA SumBounds ==
    ASSUME NEW S, IsFiniteSet(S), NEW j \in Int, NEW k \in Int, NEW F, NEW G, NEW H,
           \A x \in S : /\ F[x] \in Int /\ G[x] \in Int /\ H[x] \in Int
                        /\ j * F[x] <= G[x] + k * H[x]
    PROVE  j * Sum(F, S) <= Sum(G, S) + k * Sum(H, S)
<1> DEFINE Good == {s \in SUBSET S : j * Sum(F, s) <= Sum(G, s) + k * Sum(H, s)}
<1>1. ASSUME NEW s \in SUBSET S, \A x \in s : s \ {x} \in Good PROVE s \in Good
  <2>1. IsFiniteSet(s)
    BY FS_Subset
  <2>2. CASE s = {}
    <3>1. Sum(F, s) = 0 /\ Sum(G, s) = 0 /\ Sum(H, s) = 0
      BY <2>1, <2>2, SumSplits, Zenon
    <3> QED
      BY <3>1
  <2>3. CASE s # {}
    <3> DEFINE c == First(s)
               r == s \ {c}
    <3>1. c \in s
      BY <2>3, FirstIn
    <3>2. /\ Sum(F, s) = F[c] + Sum(F, r) /\ Sum(G, s) = G[c] + Sum(G, r)
          /\ Sum(H, s) = H[c] + Sum(H, r)
      BY <2>1, <2>3, SumSplits
    <3>3. r \in Good /\ j * F[c] <= G[c] + k * H[c]
          /\ F[c] \in Int /\ G[c] \in Int /\ H[c] \in Int
      BY <1>1, <3>1
    <3>4. IsFiniteSet(r) /\ r \subseteq S
      BY <2>1, FS_Subset
    <3> HIDE DEF c, r
    <3>5. Sum(F, r) \in Int /\ Sum(G, r) \in Int /\ Sum(H, r) \in Int
      <4>1. \A x \in r : F[x] \in Int /\ G[x] \in Int /\ H[x] \in Int
        BY <3>4
      <4> QED
        BY <3>4, <4>1, SumIsInt
    <3>6. /\ k * (H[c] + Sum(H, r)) = k * H[c] + k * Sum(H, r)
          /\ j * (F[c] + Sum(F, r)) = j * F[c] + j * Sum(F, r)
      BY <3>3, <3>5
    <3>7. /\ k * H[c] \in Int /\ k * Sum(H, r) \in Int
          /\ j * F[c] \in Int /\ j * Sum(F, r) \in Int
      BY <3>3, <3>5
    <3>8. j * Sum(F, r) <= Sum(G, r) + k * Sum(H, r)
      BY <3>3 DEF Good
    <3> HIDE DEF Good
    <3> QED
      <4>1. j * Sum(F, s) <= Sum(G, s) + k * Sum(H, s)
        BY <3>2, <3>3, <3>5, <3>6, <3>7, <3>8
      <4> QED
        BY <4>1 DEF Good
  <2> QED
    BY <2>2, <2>3
<1> HIDE DEF Good
<1>2. SUBSET S \subseteq Good
  BY <1>1, SubsetInduction
<1> QED
  BY <1>2 DEF Good

\* Natural numbers add up to one.
LEMMA SumNat ==
    ASSUME NEW F, NEW S, IsFiniteSet(S), \A x \in S : F[x] \in Nat
    PROVE  Sum(F, S) \in Nat
<1> DEFINE Good == {s \in SUBSET S : Sum(F, s) \in Nat}
<1>1. ASSUME NEW s \in SUBSET S, \A x \in s : s \ {x} \in Good PROVE s \in Good
  <2>0. IsFiniteSet(s)
    BY FS_Subset
  <2>1. CASE s = {}
    <3>1. Sum(F, s) = 0
      BY <2>0, <2>1, SumSplits, Zenon
    <3> QED
      BY <3>1
  <2>2. CASE s # {}
    <3>1. First(s) \in s /\ Sum(F, s) = F[First(s)] + Sum(F, s \ {First(s)})
      BY <2>0, <2>2, FirstIn, SumSplits
    <3>2. F[First(s)] \in Nat /\ Sum(F, s \ {First(s)}) \in Nat
      BY <1>1, <3>1
    <3> QED
      BY <3>1, <3>2
  <2> QED
    BY <2>1, <2>2
<1> HIDE DEF Good
<1>2. SUBSET S \subseteq Good
  BY <1>1, SubsetInduction
<1> QED
  BY <1>2 DEF Good

\* Only the terms count.
LEMMA SumSame ==
    ASSUME NEW S, IsFiniteSet(S), NEW F, NEW G,
           \A x \in S : F[x] \in Int /\ F[x] = G[x]
    PROVE  Sum(F, S) = Sum(G, S)
<1>1. Sum(F, S) \in Int /\ Sum(G, S) \in Int
  BY SumIsInt
<1>2. \A x \in S : F[x] \in Int /\ G[x] \in Int /\ 1 * F[x] <= G[x] + 0 * F[x]
                   /\ 1 * G[x] <= F[x] + 0 * F[x]
  OBVIOUS
<1>3. 1 * Sum(F, S) <= Sum(G, S) + 0 * Sum(F, S)
  BY <1>2, SumBounds
<1>4. 1 * Sum(G, S) <= Sum(F, S) + 0 * Sum(F, S)
  BY <1>2, SumBounds
<1> QED
  BY <1>1, <1>3, <1>4

\* When one term changes, the sum changes by as much.
LEMMA SumChanges ==
    ASSUME NEW S, IsFiniteSet(S), NEW F, NEW G, NEW e \in S,
           \A x \in S : F[x] \in Int /\ G[x] \in Int,
           \A x \in S : x # e => F[x] = G[x]
    PROVE  Sum(G, S) = Sum(F, S) - F[e] + G[e]
<1>1. IsFiniteSet(S \ {e})
  BY FS_Subset
<1>2. Sum(F, S \ {e}) = Sum(G, S \ {e})
  BY <1>1, SumSame
<1>3. Sum(F, S \ {e}) \in Int
  BY <1>1, SumIsInt
<1> QED
  BY <1>2, <1>3, SumRemoves

-----------------------------------------------------------------------------
(* The invariant. *)

K == PerOrderMax

Row   == [side : Sides, count : Nat, avg : 0 .. Dollar - 1, pnl : Int]
Order == [id : 1 .. placed, ticker : Tickers, side : Sides, count : 1 .. K, price : Prices]
Fill  == [id : 1 .. placed, ticker : Tickers, side : Sides, count : 1 .. K, price : Prices,
          left : Nat]

TypeInv ==
    /\ halt \in BOOLEAN /\ busy \in BOOLEAN /\ blind \in BOOLEAN
    /\ placed \in 0 .. MaxOrders /\ astray \subseteq Tickers
    /\ pos \in [Tickers -> Row] /\ net \in [Tickers -> Int]
    /\ open \subseteq Order /\ IsFiniteSet(open)
    /\ unseen \subseteq Fill /\ IsFiniteSet(unseen)

\* Contracts and money of orders or fills.
Units(S) == Sum([x \in S |-> x.count], S)
Value(S) == Sum([x \in S |-> x.count * x.price], S)
Pending  == Units(open) + Units(unseen)
Debt     == Value(open) + Value(unseen)

\* What a row holds beyond half a tick for each contract and part, doubled.
Excess(t) == IF K <= 2 * pos[t].avg THEN (2 * pos[t].avg - K) * pos[t].count ELSE 0

\* The caps, when nothing is on its way.  Closing shrinks every excess, whereas a
\* cost it may bring closer to the average's rounding.
AtRest == /\ Sum([t \in Tickers |-> Excess(t)], Tickers) <= 2 * TotalCap
          /\ \A t \in Tickers : Excess(t) <= 2 * MarketCap

\* All that is on its way belongs to one order, for side d of s.
OneOrder(s, d) ==
    /\ \A x \in Outstanding : x.ticker = s /\ x.side = d
    /\ \A o, q \in open : o = q

\* A closing order fits into what is held of the other side.
ToClose(s, d) == /\ Pending <= Contracts(s) /\ (Pending = 0 \/ pos[s].side # d)
                 /\ AtRest

\* An opening one was checked with its limit price; each part that came in may have
\* added half a tick for each contract.
ToOpen(s, d) ==
    /\ Contracts(s) = 0 \/ pos[s].side = d
    /\ Pending <= K
    /\ 2 * (TotalCost + Debt) <= 2 * TotalCap + (K - Pending) * Contracts(s)
    /\ 2 * (Cost(s) + Debt) <= 2 * MarketCap + (K - Pending) * Contracts(s)
    /\ TotalCost - Cost(s) <= TotalCap
    /\ \A t \in Tickers \ {s} : Excess(t) <= 2 * MarketCap

Flow == ~blind /\ Tickers # {} =>
            \E s \in Tickers, d \in Sides :
                OneOrder(s, d) /\ (ToClose(s, d) \/ ToOpen(s, d))

\* An order has one remainder, and its parts differ in what they left over.
Parts ==
    /\ \A o, q \in open : o.id = q.id => o = q
    /\ \A f \in unseen, o \in open : f.id = o.id => o.count <= f.left

\* What the exchange will have added to a market once the fills in S are booked.
Part(f, t)     == IF f.ticker = t THEN Signed(f.side, f.count) ELSE 0
OfMarket(S, t) == Sum([f \in S |-> Part(f, t)], S)

\* The exchange is ahead by the market's fills that were not ingested.
Mirror ==
    \A t \in Tickers \ astray :
        net[t] = Signed(pos[t].side, pos[t].count) + OfMarket(unseen, t)

IInv == TypeInv /\ Parts /\ Mirror /\ Flow
-----------------------------------------------------------------------------
(* Rows: what a fill does to one. *)

\* A quotient rounded half-even is off by half the divisor at most.
LEMMA HalfEvenNear ==
    ASSUME NEW a \in Int, NEW b \in Nat \ {0}
    PROVE  /\ HalfEven(a, b) \in Int
           /\ 2 * (HalfEven(a, b) * b - a) <= b /\ 2 * (a - HalfEven(a, b) * b) <= b
<1> DEFINE q == a \div b
           r == a % b
<1>1. q \in Int /\ r \in 0 .. b - 1 /\ a = q * b + r
  OBVIOUS
<1>2. HalfEven(a, b) = IF 2 * r < b \/ (2 * r = b /\ q % 2 = 0) THEN q ELSE q + 1
  BY DEF HalfEven
<1> HIDE DEF q, r
<1>3. CASE HalfEven(a, b) = q /\ 2 * r <= b
  BY <1>1, <1>3
<1>4. CASE HalfEven(a, b) = q + 1 /\ 2 * r >= b
  <2>1. (q + 1) * b = q * b + b
    BY <1>1
  <2> QED
    BY <1>1, <1>4, <2>1
<1> QED
  BY <1>1, <1>2, <1>3, <1>4

\* A rounded average stays between the bounds of what it averages.
LEMMA AverageBetween ==
    ASSUME NEW b \in Nat \ {0}, NEW a \in Int, NEW m \in Nat, 0 <= a, a <= m * b
    PROVE  HalfEven(a, b) \in 0 .. m
<1> DEFINE h == HalfEven(a, b)
<1>1. h \in Int /\ 2 * (h * b - a) <= b /\ 2 * (a - h * b) <= b
  BY HalfEvenNear
<1> HIDE DEF h
<1>2. ASSUME h >= m + 1 PROVE FALSE
  <2>1. h * b >= (m + 1) * b /\ (m + 1) * b = m * b + b /\ h * b \in Int /\ m * b \in Int
    BY <1>1, <1>2
  <2> QED
    BY <1>1, <2>1
<1>3. ASSUME h <= -1 PROVE FALSE
  <2>1. h * b <= -b /\ h * b \in Int
    BY <1>1, <1>3
  <2> QED
    BY <1>1, <2>1
<1> QED
  BY <1>1, <1>2, <1>3 DEF h

\* apply_fill leaves a row of its type: no average reaches a dollar.
LEMMA BuyKeepsRow ==
    ASSUME NEW P \in Row, NEW sd \in Sides, NEW n \in Nat \ {0}, NEW p \in 0 .. Dollar - 1
    PROVE  Buy(P, sd, n, p) \in Row
<1> DEFINE average == HalfEven(P.avg * P.count + p * n, P.count + n)
<1>1. P.count \in Nat /\ P.avg \in Nat /\ P.avg <= Dollar - 1 /\ P.side \in Sides /\ P.pnl \in Int
      /\ p \in Nat /\ p <= Dollar - 1 /\ Dollar - 1 \in Nat /\ P.avg \in 0 .. Dollar - 1
  <2>1. Dollar - 1 \in Nat
    BY DEF Dollar
  <2>2. P.count \in Nat /\ P.avg \in 0 .. Dollar - 1 /\ P.side \in Sides /\ P.pnl \in Int
    BY DEF Row
  <2> QED
    BY <2>1, <2>2
<1>2. average \in 0 .. Dollar - 1
  <2> DEFINE m == Dollar - 1
             a == P.avg * P.count + p * n
  <2>1. P.avg * P.count \in Nat /\ p * n \in Nat
    BY <1>1
  <2> HIDE DEF m
  <2>2. m \in Nat /\ P.avg <= m /\ p <= m
    BY <1>1 DEF m
  <2>3. P.avg * P.count <= m * P.count /\ p * n <= m * n
    BY <1>1, <2>2
  <2>4. m * (P.count + n) = m * P.count + m * n /\ m * P.count \in Int /\ m * n \in Int
    BY <1>1, <2>2
  <2>5. a \in Int /\ 0 <= a /\ a <= m * (P.count + n) /\ P.count + n \in Nat \ {0}
    BY <1>1, <2>1, <2>3, <2>4
  <2> HIDE DEF a
  <2>6. HalfEven(a, P.count + n) \in 0 .. m
    BY <2>2, <2>5, AverageBetween
  <2> QED
    BY <2>6 DEF a, m
<1> HIDE DEF average
<1>3. CASE P.count = 0
  BY <1>1, <1>3 DEF Buy, Held, Row
<1>4. CASE P.count # 0 /\ P.side = sd
  <2>1. Buy(P, sd, n, p) = Held(P, sd, P.count + n, average)
    BY <1>4 DEF Buy, average
  <2> QED
    BY <2>1, <1>1, <1>2 DEF Held, Row
<1>5. CASE P.count # 0 /\ P.side # sd
  <2>1. 0 \in 0 .. Dollar - 1
    BY <1>1
  <2>2. CASE P.count > n
    <3>1. Buy(P, sd, n, p) = Held(P, P.side, P.count - n, P.avg)
      BY <1>5, <2>2 DEF Buy
    <3> QED
      BY <1>1, <2>2, <3>1 DEF Held, Row
  <2>3. CASE P.count = n
    <3>1. Buy(P, sd, n, p) = Held(P, P.side, 0, 0)
      BY <1>5, <2>3 DEF Buy
    <3> QED
      BY <1>1, <2>1, <3>1 DEF Held, Row
  <2>4. CASE P.count < n
    <3>1. Buy(P, sd, n, p) = Held(P, sd, n - P.count, p)
      BY <1>1, <1>5, <2>4 DEF Buy
    <3> QED
      BY <1>1, <2>4, <3>1 DEF Held, Row
  <2> QED
    BY <1>1, <2>2, <2>3, <2>4
<1> QED
  BY <1>3, <1>4, <1>5

\* A fill of the held side, or of a flat row, costs its price, and half a tick for
\* each contract then held at most.
LEMMA BuyAdds ==
    ASSUME NEW P \in Row, NEW sd \in Sides, NEW n \in Nat \ {0}, NEW p \in 0 .. Dollar - 1,
           P.count = 0 \/ P.side = sd
    PROVE  LET Q == Buy(P, sd, n, p)
           IN  /\ Q.side = sd /\ Q.count = P.count + n
               /\ 2 * (Q.avg * Q.count) <= 2 * (P.avg * P.count + p * n) + Q.count
<1> DEFINE average == HalfEven(P.avg * P.count + p * n, P.count + n)
           a == P.avg * P.count + p * n
           Q == Buy(P, sd, n, p)
<1>1. P.count \in Nat /\ P.avg \in Nat /\ p \in Nat /\ p * n \in Nat /\ P.avg * P.count \in Nat
  BY DEF Row
<1>2. CASE P.count = 0
  <2>1. Q = Held(P, sd, n, p)
    BY <1>2 DEF Buy
  <2>2. Q.side = sd /\ Q.count = n /\ Q.avg = p
    BY <2>1 DEF Held
  <2>3. P.avg * P.count = 0
    BY <1>1, <1>2
  <2> QED
    BY <1>1, <1>2, <2>2, <2>3
<1>3. CASE P.count # 0
  <2>1. Q = Held(P, sd, P.count + n, average)
    BY <1>3 DEF Buy
  <2>2. Q.side = sd /\ Q.count = P.count + n /\ Q.avg = average
    BY <2>1 DEF Held
  <2>3. a \in Int /\ P.count + n \in Nat \ {0}
    BY <1>1
  <2>4. HalfEven(a, P.count + n) \in Int
        /\ 2 * (HalfEven(a, P.count + n) * (P.count + n) - a) <= P.count + n
    <3> HIDE DEF a
    <3> QED
      BY <2>3, HalfEvenNear
  <2>5. average = HalfEven(a, P.count + n)
    OBVIOUS
  <2> HIDE DEF average, a
  <2>6. average * (P.count + n) \in Int
    BY <2>3, <2>4, <2>5
  <2>7. 2 * (average * (P.count + n)) <= 2 * a + (P.count + n)
    BY <2>3, <2>4, <2>5, <2>6
  <2> QED
    BY <2>2, <2>7 DEF a
<1> QED
  BY <1>2, <1>3

\* A fill of the other side takes contracts off the row at its average.
LEMMA BuyTakes ==
    ASSUME NEW P \in Row, NEW sd \in Sides, NEW n \in Nat \ {0}, NEW p \in 0 .. Dollar - 1,
           P.side # sd, n <= P.count
    PROVE  LET Q == Buy(P, sd, n, p)
           IN  Q.side = P.side /\ Q.count = P.count - n /\ (Q.count = 0 \/ Q.avg = P.avg)
<1>1. P.count \in Nat
  BY DEF Row
<1> QED
  BY <1>1 DEF Buy, Held

-----------------------------------------------------------------------------
(* Sums over what is on its way. *)

Counted(S) == \A x \in S : x.count \in Nat /\ x.price \in Nat

\* Orders and fills on their way come to natural numbers, none of them to zero.
LEMMA PendingNat ==
    ASSUME NEW S, IsFiniteSet(S), Counted(S)
    PROVE  /\ Units(S) \in Nat /\ Value(S) \in Nat
           /\ S = {} => Units(S) = 0 /\ Value(S) = 0
<1> DEFINE F == [x \in S |-> x.count]
           G == [x \in S |-> x.count * x.price]
<1>1. \A x \in S : F[x] \in Nat /\ G[x] \in Nat
  BY DEF Counted
<1>2. Units(S) = Sum(F, S) /\ Value(S) = Sum(G, S)
  BY DEF Units, Value
<1> HIDE DEF F, G
<1>3. Sum(F, S) \in Nat /\ Sum(G, S) \in Nat
  BY <1>1, SumNat
<1>4. S = {} => Sum(F, S) = 0 /\ Sum(G, S) = 0
  BY SumSplits
<1> QED
  BY <1>2, <1>3, <1>4

\* One order or fill less ...
LEMMA PendingSplits ==
    ASSUME NEW S, IsFiniteSet(S), Counted(S), NEW e \in S
    PROVE  /\ Units(S) = e.count + Units(S \ {e})
           /\ Value(S) = e.count * e.price + Value(S \ {e})
           /\ IsFiniteSet(S \ {e}) /\ Counted(S \ {e})
<1> DEFINE r == S \ {e}
           F == [x \in S |-> x.count]
           G == [x \in S |-> x.count * x.price]
           F1 == [x \in r |-> x.count]
           G1 == [x \in r |-> x.count * x.price]
<1>1. IsFiniteSet(r) /\ Counted(r)
  BY FS_Subset DEF Counted
<1>2. \A x \in S : F[x] = x.count /\ F[x] \in Int /\ G[x] = x.count * x.price /\ G[x] \in Int
  BY DEF Counted
<1>3. \A x \in r : F1[x] = F[x] /\ G1[x] = G[x] /\ F1[x] \in Int /\ G1[x] \in Int
  BY <1>2
<1>4. Units(S) = Sum(F, S) /\ Value(S) = Sum(G, S) /\ Units(r) = Sum(F1, r) /\ Value(r) = Sum(G1, r)
  BY DEF Units, Value
<1> HIDE DEF F, G, F1, G1, r
<1>5. Sum(F1, r) = Sum(F, r) /\ Sum(G1, r) = Sum(G, r)
  BY <1>1, <1>3, SumSame
<1>6. Sum(F, S) = F[e] + Sum(F, r) /\ Sum(G, S) = G[e] + Sum(G, r)
  BY <1>2, SumRemoves DEF r
<1> QED
  BY <1>1, <1>2, <1>4, <1>5, <1>6 DEF r

\* ... and one more.
LEMMA PendingAdds ==
    ASSUME NEW S, IsFiniteSet(S), Counted(S), NEW e, e \notin S, e.count \in Nat, e.price \in Nat
    PROVE  /\ Units(S \cup {e}) = Units(S) + e.count
           /\ Value(S \cup {e}) = Value(S) + e.count * e.price
<1> DEFINE r == S \cup {e}
<1>1. IsFiniteSet(r) /\ Counted(r) /\ e \in r /\ r \ {e} = S
  BY FS_AddElement DEF Counted
<1> HIDE DEF r
<1>2. Units(r) = e.count + Units(S) /\ Value(r) = e.count * e.price + Value(S)
  BY <1>1, PendingSplits
<1>3. Units(S) \in Nat /\ Value(S) \in Nat /\ e.count * e.price \in Nat
  BY PendingNat
<1> QED
  BY <1>2, <1>3 DEF r

-----------------------------------------------------------------------------
(* Types. *)

\* The constants are what the code's settings are.
LEMMA Numbers ==
    /\ PerOrderMax \in Nat \ {0} /\ K \in Nat \ {0} /\ MaxOrders \in Nat
    /\ MarketCap \in Nat /\ TotalCap \in Nat /\ Dollar - 1 \in Nat
    /\ \A p \in Prices : p \in 0 .. Dollar - 1 /\ p \in Nat
<1>1. Dollar - 1 \in Nat
  BY DEF Dollar
<1>2. \A p \in Prices : p \in 0 .. Dollar - 1 /\ p \in Nat
  BY <1>1, MoneyAssumption
<1> QED
  BY <1>1, <1>2, MoneyAssumption, PerOrderMaxAssumption, ExposureBounds DEF K

\* Each action leaves rows, orders and fills of their types.
LEMMA TypeStep == TypeInv /\ [Next]_vars => TypeInv'
<1> SUFFICES ASSUME TypeInv, [Next]_vars PROVE TypeInv'
  OBVIOUS
<1> USE Numbers
<1>1. ASSUME NEW t \in Tickers, NEW sd \in Sides, NEW n \in 1 .. PerOrderMax, NEW p \in Prices,
             TradeAllowed(t, sd, n, p)
      PROVE  TypeInv'
  <2> DEFINE o == [id |-> placed + 1, ticker |-> t, side |-> sd, count |-> n, price |-> p]
  <2>1. placed' = placed + 1 /\ placed' \in 0 .. MaxOrders /\ placed \in Nat
    BY <1>1 DEF TradeAllowed, TypeInv
  <2>2. o \in Order'
    BY <2>1 DEF Order, K
  <2>3. open' = open \cup {o}
    BY <1>1 DEF TradeAllowed
  <2>4. Order \subseteq Order' /\ Fill \subseteq Fill'
    BY <2>1 DEF Order, Fill
  <2>5. IsFiniteSet(open') /\ open' \subseteq Order'
    BY <2>2, <2>3, <2>4, FS_AddElement DEF TypeInv
  <2>6. blind' \in BOOLEAN /\ busy' \in BOOLEAN /\ UNCHANGED <<halt, pos, unseen, net>>
    BY <1>1 DEF TradeAllowed, TypeInv
  <2> QED
    BY <1>1, <2>1, <2>4, <2>5, <2>6 DEF TypeInv, Row, TradeAllowed
<1>2. ASSUME NEW o \in open, Execute(o) PROVE TypeInv'
  <2>1. PICK k \in 1 .. o.count, p \in Prices :
          /\ p <= o.price
          /\ unseen' = unseen \cup {[id |-> o.id, ticker |-> o.ticker, side |-> o.side,
                                     count |-> k, price |-> p, left |-> o.count - k]}
          /\ open' = (open \ {o}) \cup (IF k < o.count THEN {[o EXCEPT !.count = @ - k]} ELSE {})
          /\ net' = [net EXCEPT ![o.ticker] = @ + Signed(o.side, k)]
    BY <1>2 DEF Execute
  <2>2. o \in Order /\ o.count \in 1 .. K /\ o.ticker \in Tickers /\ UNCHANGED <<halt, busy, pos, placed, astray, blind>>
    BY <1>2 DEF Execute, history, TypeInv, Order
  <2> DEFINE f == [id |-> o.id, ticker |-> o.ticker, side |-> o.side,
                   count |-> k, price |-> p, left |-> o.count - k]
             q == [o EXCEPT !.count = @ - k]
  <2>3. f \in Fill
    BY <2>2 DEF Fill, Order
  <2>4. k < o.count => q \in Order
    BY <2>2 DEF Order
  <2>5. Order' = Order /\ Fill' = Fill /\ Row' = Row
    BY <2>2 DEF Order, Fill, Row
  <2>6. IsFiniteSet(unseen') /\ unseen' \subseteq Fill
    <3>1. unseen' = unseen \cup {f}
      BY <2>1
    <3> HIDE DEF f
    <3> QED
      BY <3>1, <2>3, FS_AddElement DEF TypeInv
  <2>7. IsFiniteSet(open') /\ open' \subseteq Order
    <3>1. open' = open \ {o} \/ (open' = (open \ {o}) \cup {q} /\ k < o.count)
      BY <2>1
    <3> HIDE DEF q
    <3>2. IsFiniteSet(open \ {o})
      BY FS_Subset DEF TypeInv
    <3>3. CASE open' = open \ {o}
      BY <3>2, <3>3 DEF TypeInv
    <3>4. CASE open' = (open \ {o}) \cup {q} /\ k < o.count
      BY <3>2, <3>4, <2>4, FS_AddElement DEF TypeInv
    <3> QED
      BY <3>1, <3>3, <3>4
  <2>8. net' \in [Tickers -> Int]
    <3>1. Signed(o.side, k) \in Int
      BY <2>2 DEF Signed
    <3> QED
      BY <2>1, <2>2, <3>1 DEF TypeInv
  <2> QED
    BY <2>2, <2>5, <2>6, <2>7, <2>8 DEF TypeInv
<1>3. ASSUME NEW o \in open, Dies(o) PROVE TypeInv'
  <2>1. IsFiniteSet(open') /\ open' \subseteq open
    BY <1>3, FS_Subset DEF Dies, TypeInv
  <2> QED
    BY <1>3, <2>1 DEF Dies, history, TypeInv, Order, Fill, Row
<1>4. ASSUME NEW f \in unseen, Ingest(f) PROVE TypeInv'
  <2>1. IsFiniteSet(unseen') /\ unseen' \subseteq unseen
    BY <1>4, FS_Subset DEF Ingest, TypeInv
  <2>2. f.ticker \in Tickers /\ f.side \in Sides /\ f.count \in Nat \ {0} /\ f.price \in Prices
    BY DEF TypeInv, Fill
  <2>3. Buy(pos[f.ticker], f.side, f.count, f.price) \in Row
    BY <2>2, BuyKeepsRow DEF TypeInv
  <2>4. pos' \in [Tickers -> Row]
    BY <1>4, <2>2, <2>3 DEF Ingest, TypeInv
  <2> QED
    BY <1>4, <2>1, <2>4 DEF Ingest, history, TypeInv, Order, Fill, Row
<1>5. CASE Reconcile
  <2>1. PICK listed \in SUBSET Tickers :
          pos' = [t \in Tickers |->
                IF t \in listed
                THEN [pos[t] EXCEPT !.side = SideOf(net[t]), !.count = CountOf(net[t])]
                ELSE [pos[t] EXCEPT !.count = 0]]
    BY <1>5 DEF Reconcile
  <2>2. ASSUME NEW t \in Tickers PROVE pos'[t] \in Row
    <3>1. pos[t] \in Row /\ SideOf(net[t]) \in Sides /\ CountOf(net[t]) \in Nat
      BY DEF TypeInv, SideOf, CountOf, Sides
    <3> QED
      BY <2>1, <3>1 DEF Row
  <2>3. pos' \in [Tickers -> Row]
    BY <2>1, <2>2
  <2>4. astray' \subseteq Tickers /\ blind' \in BOOLEAN
    BY <1>5 DEF Reconcile, Judged
  <2> QED
    BY <1>5, <2>3, <2>4 DEF Reconcile, TypeInv, exchange, Order, Fill, Row
<1>6. CASE SendReturns \/ Background \/ EngageHalt \/ ResumeHalt \/ UNCHANGED vars
  BY <1>6 DEF SendReturns, Background, EngageHalt, ResumeHalt, vars, exchange, history, TypeInv,
              Order, Fill, Row
<1>7. ASSUME NEW t \in Tickers, Settles(t) PROVE TypeInv'
  BY <1>7 DEF Settles, TypeInv, Order, Fill, Row
<1> QED
  BY <1>1, <1>2, <1>3, <1>4, <1>5, <1>6, <1>7 DEF Next

\* The state at the start has its types.
LEMMA TypeInit == Init => TypeInv
<1> SUFFICES ASSUME Init PROVE TypeInv
  OBVIOUS
<1>1. Flat \in Row
  BY Numbers DEF Flat, Row, Sides
<1>2. IsFiniteSet({})
  BY FS_EmptySet
<1>3. pos \in [Tickers -> Row] /\ net \in [Tickers -> Int]
  BY <1>1 DEF Init
<1>4. 0 \in 0 .. MaxOrders
  BY Numbers
<1> QED
  BY <1>2, <1>3, <1>4 DEF Init, TypeInv

\* And so has every state.
LEMMA TypeInvHolds == Spec => []TypeInv
  BY TypeInit, TypeStep, PTL DEF Spec

\* Every row, order and fill is of its type, and averages stay below a dollar
\* (apply_fill, with averages rounded and rows overwritten by the Reconciler).
THEOREM TypeCorrect == Spec => []TypeOK
<1>1. TypeInv => TypeOK
  <2> SUFFICES ASSUME TypeInv PROVE TypeOK
    OBVIOUS
  <2>1. ASSUME NEW t \in Tickers
        PROVE  pos[t].side \in Sides /\ pos[t].count \in Nat /\ pos[t].avg \in 0 .. Dollar - 1
    BY DEF TypeInv, Row
  <2>2. ASSUME NEW o \in Outstanding
        PROVE  /\ o.id \in 1 .. placed /\ o.ticker \in Tickers /\ o.side \in Sides
               /\ o.count \in 1 .. PerOrderMax /\ o.price \in Prices
    BY DEF TypeInv, Outstanding, Order, Fill, K
  <2> QED
    BY <2>1, <2>2 DEF TypeInv, TypeOK
<1> QED
  BY <1>1, TypeInvHolds, PTL

-----------------------------------------------------------------------------
(* What the amounts are to each other. *)

Costs    == [t \in Tickers |-> Cost(t)]
Counts   == [t \in Tickers |-> Contracts(t)]
Excesses == [t \in Tickers |-> Excess(t)]

\* Costs, counts and excesses are natural numbers, and so are their sums.
LEMMA Amounts ==
    ASSUME TypeInv
    PROVE  /\ \A t \in Tickers : /\ pos[t].avg \in Nat /\ Contracts(t) \in Nat
                                 /\ Cost(t) \in Nat /\ Excess(t) \in Nat
                                 /\ pos[t].side \in Sides /\ pos[t].count = Contracts(t)
           /\ \A t \in Tickers : Costs[t] = Cost(t) /\ Counts[t] = Contracts(t)
                                 /\ Excesses[t] = Excess(t)
           /\ TotalCost = Sum(Costs, Tickers) /\ TotalCost \in Nat
           /\ TotalCount = Sum(Counts, Tickers) /\ TotalCount \in Nat
           /\ Sum(Excesses, Tickers) \in Nat
<1>1. ASSUME NEW t \in Tickers
      PROVE  /\ pos[t].avg \in Nat /\ Contracts(t) \in Nat /\ Cost(t) \in Nat /\ Excess(t) \in Nat
             /\ pos[t].side \in Sides /\ pos[t].count = Contracts(t)
  <2>1. pos[t] \in Row /\ K \in Nat
    BY Numbers DEF TypeInv
  <2>2. pos[t].avg \in Nat /\ pos[t].count \in Nat /\ pos[t].side \in Sides
    BY <2>1 DEF Row
  <2> QED
    BY <2>1, <2>2 DEF Cost, Contracts, Excess
<1>2. \A t \in Tickers : Costs[t] = Cost(t) /\ Counts[t] = Contracts(t)
                         /\ Excesses[t] = Excess(t)
  BY DEF Costs, Counts, Excesses
<1>3. TotalCost = Sum(Costs, Tickers) /\ TotalCount = Sum(Counts, Tickers)
  BY DEF TotalCost, TotalCount, SumFunction, Sum, Costs, Counts
<1>4. Sum(Costs, Tickers) \in Nat /\ Sum(Counts, Tickers) \in Nat /\ Sum(Excesses, Tickers) \in Nat
  BY <1>1, <1>2, SumNat, TickersAssumption
<1> QED
  BY <1>1, <1>2, <1>3, <1>4

\* No contracts of either side.
LEMMA NoneSigned == ASSUME NEW d PROVE Signed(d, 0) = 0
<1>1. \A n \in Int : -n = 0 - n
  OBVIOUS
<1>2. 0 \in Int /\ 0 - 0 = 0
  OBVIOUS
<1> QED
  BY <1>1, <1>2, Zenon DEF Signed

\* What is on its way is finitely much.
LEMMA PendingAmounts ==
    ASSUME TypeInv
    PROVE  /\ Counted(open) /\ Counted(unseen) /\ IsFiniteSet(open) /\ IsFiniteSet(unseen)
           /\ Units(open) \in Nat /\ Units(unseen) \in Nat
           /\ Value(open) \in Nat /\ Value(unseen) \in Nat
           /\ Pending = Units(open) + Units(unseen) /\ Debt = Value(open) + Value(unseen)
           /\ open = {} => Units(open) = 0 /\ Value(open) = 0
           /\ unseen = {} => Units(unseen) = 0 /\ Value(unseen) = 0
<1>1. Counted(open) /\ Counted(unseen)
  BY Numbers DEF Counted, TypeInv, Order, Fill
<1>2. IsFiniteSet(open) /\ IsFiniteSet(unseen)
  BY DEF TypeInv
<1> QED
  BY <1>1, <1>2, PendingNat DEF Pending, Debt

\* The same after a step.
LEMMA PendingAmountsNext ==
    ASSUME TypeInv'
    PROVE  /\ Units(open') \in Nat /\ Units(unseen') \in Nat
           /\ Value(open') \in Nat /\ Value(unseen') \in Nat
           /\ Pending' = Units(open') + Units(unseen')
           /\ Debt' = Value(open') + Value(unseen')
<1>1. Counted(open') /\ Counted(unseen')
  BY Numbers DEF Counted, TypeInv, Order, Fill
<1>2. IsFiniteSet(open') /\ IsFiniteSet(unseen')
  BY DEF TypeInv
<1> QED
  BY <1>1, <1>2, PendingNat DEF Pending, Debt

\* An excess is a cost but for half a tick per contract and part.
LEMMA ExcessOf ==
    ASSUME TypeInv, NEW t \in Tickers
    PROVE  /\ Excess(t) <= 2 * Cost(t)
           /\ 2 * Cost(t) <= Excess(t) + K * Contracts(t)
           /\ Excess(t) = 0 \/ Excess(t) + K * Contracts(t) = 2 * Cost(t)
<1> DEFINE a == pos[t].avg
           c == pos[t].count
<1>1. a \in Nat /\ c \in Nat /\ K \in Nat
  BY Amounts, Numbers DEF Contracts
<1>2. Cost(t) = a * c /\ Contracts(t) = c /\ Excess(t) = IF K <= 2 * a THEN (2 * a - K) * c ELSE 0
  BY DEF Cost, Contracts, Excess
<1> HIDE DEF a, c
<1>3. a * c \in Nat /\ K * c \in Nat
  BY <1>1
<1>4. CASE K <= 2 * a
  <2>1. (2 * a - K) * c = 2 * (a * c) - K * c
    BY <1>1
  <2> QED
    BY <1>2, <1>3, <1>4, <2>1
<1>5. CASE ~ (K <= 2 * a)
  <2>1. 2 * (a * c) <= K * c
    <3>1. (2 * a) * c <= K * c
      BY <1>1, <1>5
    <3> QED
      BY <1>1, <3>1
  <2> QED
    BY <1>2, <1>3, <1>5, <2>1
<1> QED
  BY <1>4, <1>5

\* Under any condition of the flow the caps hold as CapsHold says.
LEMMA CapsFromFlow ==
    ASSUME TypeInv, NEW s \in Tickers, NEW d \in Sides, ToClose(s, d) \/ ToOpen(s, d)
    PROVE  /\ 2 * (TotalCost - TotalCap) <= PerOrderMax * TotalCount
           /\ \A t \in Tickers : 2 * (Cost(t) - MarketCap) <= PerOrderMax * Contracts(t)
<1>1. \A t \in Tickers : Cost(t) \in Nat /\ Contracts(t) \in Nat /\ Excess(t) \in Nat
                         /\ K * Contracts(t) \in Nat
  BY Amounts, Numbers
<1>2. TotalCost \in Nat /\ TotalCount \in Nat /\ K \in Nat /\ K * TotalCount \in Nat
      /\ MarketCap \in Nat /\ TotalCap \in Nat /\ K = PerOrderMax
  BY Amounts, Numbers DEF K
<1>3. ASSUME NEW t \in Tickers, Excess(t) <= 2 * MarketCap
      PROVE  2 * (Cost(t) - MarketCap) <= K * Contracts(t)
  BY <1>1, <1>2, <1>3, ExcessOf
<1>4. CASE ToClose(s, d)
  <2>1. 2 * Sum(Costs, Tickers) <= Sum(Excesses, Tickers) + K * Sum(Counts, Tickers)
    <3>1. \A t \in Tickers : /\ Costs[t] \in Int /\ Excesses[t] \in Int /\ Counts[t] \in Int
                             /\ 2 * Costs[t] <= Excesses[t] + K * Counts[t]
      BY <1>1, Amounts, ExcessOf
    <3> QED
      BY <1>2, <3>1, SumBounds, TickersAssumption
  <2>2. Sum(Excesses, Tickers) <= 2 * TotalCap /\ Sum(Excesses, Tickers) \in Nat
    BY <1>4, Amounts DEF ToClose, AtRest, Excesses
  <2>3. 2 * TotalCost <= Sum(Excesses, Tickers) + K * TotalCount
    BY <2>1, Amounts
  <2>4. 2 * (TotalCost - TotalCap) <= K * TotalCount
    BY <1>2, <2>2, <2>3
  <2> QED
    BY <1>2, <1>3, <1>4, <2>4 DEF ToClose, AtRest
<1>5. CASE ToOpen(s, d)
  <2>1. Pending \in Nat /\ Debt \in Nat /\ Pending <= K
    BY <1>5, PendingAmounts DEF ToOpen
  <2>2. (K - Pending) * Contracts(s) <= K * Contracts(s) /\ (K - Pending) * Contracts(s) \in Int
    BY <1>1, <1>2, <2>1
  <2>3. K * Contracts(s) <= K * TotalCount
    <3>1. TotalCount = Contracts(s) + Sum(Counts, Tickers \ {s})
      <4>1. \A t \in Tickers : Counts[t] \in Int
        BY <1>1, Amounts
      <4> QED
        BY <4>1, Amounts, SumRemoves, TickersAssumption
    <3>2. Sum(Counts, Tickers \ {s}) \in Nat
      <4>1. IsFiniteSet(Tickers \ {s}) /\ \A t \in Tickers \ {s} : Counts[t] \in Nat
        BY <1>1, Amounts, FS_Subset, TickersAssumption
      <4> QED
        BY <4>1, SumNat
    <3>3. Contracts(s) <= TotalCount /\ Contracts(s) \in Nat
      BY <1>1, <3>1, <3>2
    <3> QED
      BY <1>2, <3>3
  <2>4. 2 * (TotalCost - TotalCap) <= K * TotalCount
    BY <1>1, <1>2, <1>5, <2>1, <2>2, <2>3 DEF ToOpen
  <2>5. 2 * (Cost(s) - MarketCap) <= K * Contracts(s)
    BY <1>1, <1>2, <1>5, <2>1, <2>2 DEF ToOpen
  <2>6. \A t \in Tickers \ {s} : Excess(t) <= 2 * MarketCap
    BY <1>5 DEF ToOpen
  <2> QED
    BY <1>2, <1>3, <2>4, <2>5, <2>6
<1> QED
  BY <1>4, <1>5

\* When nothing is on its way any more the order has left the caps as it found them.
LEMMA Rests ==
    ASSUME TypeInv, Flow, ~blind, Tickers # {}, Outstanding = {}
    PROVE  AtRest
<1>1. PICK s \in Tickers, d \in Sides :
         OneOrder(s, d) /\ (ToClose(s, d) \/ ToOpen(s, d))
  BY DEF Flow
<1>2. open = {} /\ unseen = {}
  BY DEF Outstanding
<1>3. Pending = 0 /\ Debt = 0
  BY <1>2, PendingAmounts
<1>4. CASE ToClose(s, d)
  BY <1>4 DEF ToClose
<1>5. CASE ToOpen(s, d)
  <2>1. K \in Nat /\ TotalCap \in Nat /\ MarketCap \in Nat /\ TotalCost \in Nat /\ Cost(s) \in Nat
        /\ Excess(s) \in Nat /\ K * Contracts(s) \in Nat
    BY Amounts, Numbers
  <2>2. /\ 2 * TotalCost <= 2 * TotalCap + K * Contracts(s)
        /\ 2 * Cost(s) <= 2 * MarketCap + K * Contracts(s)
        /\ TotalCost - Cost(s) <= TotalCap
        /\ \A t \in Tickers \ {s} : Excess(t) <= 2 * MarketCap
    BY <1>3, <1>5, <2>1 DEF ToOpen
  <2>3. Excess(s) <= 2 * MarketCap
    BY <2>1, <2>2, ExcessOf
  <2> DEFINE r == Tickers \ {s}
  <2>4. IsFiniteSet(r) /\ r \subseteq Tickers
    BY FS_Subset, TickersAssumption
  <2>5. \A t \in Tickers : Costs[t] \in Int /\ Excesses[t] \in Int
                           /\ 1 * Excesses[t] <= Costs[t] + 1 * Costs[t]
    BY Amounts, ExcessOf
  <2>6. TotalCost = Cost(s) + Sum(Costs, r) /\ Sum(Excesses, Tickers) = Excess(s) + Sum(Excesses, r)
    BY <2>5, Amounts, SumRemoves, TickersAssumption
  <2> HIDE DEF r
  <2>7. Sum(Costs, r) \in Int /\ Sum(Excesses, r) \in Int
    BY <2>4, <2>5, SumIsInt
  <2>8. 1 * Sum(Excesses, r) <= Sum(Costs, r) + 1 * Sum(Costs, r)
    <3>1. \A t \in r : Costs[t] \in Int /\ Excesses[t] \in Int
                       /\ 1 * Excesses[t] <= Costs[t] + 1 * Costs[t]
      BY <2>4, <2>5
    <3> QED
      BY <2>4, <3>1, SumBounds
  <2>9. Sum(Excesses, Tickers) <= 2 * TotalCap
    BY <2>1, <2>2, <2>6, <2>7, <2>8, ExcessOf
  <2> QED
    BY <2>2, <2>3, <2>9 DEF AtRest, Excesses
<1> QED
  BY <1>1, <1>4, <1>5

-----------------------------------------------------------------------------
(* The steps. *)

\* Nothing in the amounts depends on what the step changes.
LEMMA RestOfState ==
    ASSUME UNCHANGED pos
    PROVE  /\ \A t \in Tickers : /\ Cost(t)' = Cost(t) /\ Contracts(t)' = Contracts(t)
                                 /\ Excess(t)' = Excess(t)
           /\ TotalCost' = TotalCost /\ TotalCount' = TotalCount
           /\ AtRest' <=> AtRest
  BY DEF Cost, Contracts, Excess, TotalCost, TotalCount, AtRest

\* Rows that only lose contracts, at the averages they have, stay within the caps.
LEMMA ShrinksAtRest ==
    ASSUME TypeInv, TypeInv', AtRest,
           \A t \in Tickers : /\ pos'[t].count <= pos[t].count
                              /\ pos'[t].count = 0 \/ pos'[t].avg = pos[t].avg
    PROVE  AtRest'
<1>1. ASSUME NEW t \in Tickers
      PROVE  Excess(t) \in Nat /\ Excess(t)' \in Nat /\ Excess(t)' <= Excess(t)
  <2> DEFINE a == pos[t].avg
             c == pos[t].count
             b == pos'[t].avg
             e == pos'[t].count
  <2>1. a \in Nat /\ c \in Nat /\ b \in Nat /\ e \in Nat /\ K \in Nat
    BY Numbers DEF TypeInv, Row
  <2>2. /\ Excess(t) = (IF K <= 2 * a THEN (2 * a - K) * c ELSE 0)
        /\ Excess(t)' = (IF K <= 2 * b THEN (2 * b - K) * e ELSE 0)
    BY DEF Excess, K
  <2>3. e <= c /\ (e = 0 \/ b = a)
    OBVIOUS
  <2> HIDE DEF a, b, c, e
  <2>4. CASE K <= 2 * a
    <3> DEFINE m == 2 * a - K
    <3>1. m \in Nat
      BY <2>1, <2>4
    <3> HIDE DEF m
    <3>2. m * e <= m * c /\ m * e \in Nat /\ m * c \in Nat
      BY <2>1, <2>3, <3>1
    <3>3. CASE e = 0
      <4>1. \A n \in Int : n * 0 = 0
        OBVIOUS
      <4>2. 2 * b - K \in Int /\ Excess(t)' = 0
        BY <2>1, <2>2, <3>3, <4>1
      <4> QED
        BY <2>2, <2>4, <3>2, <4>2 DEF m
    <3>4. CASE b = a
      BY <2>2, <2>4, <3>2, <3>4 DEF m
    <3> QED
      BY <2>3, <3>3, <3>4
  <2>5. CASE ~ (K <= 2 * a)
    <3>1. \A n \in Int : n * 0 = 0
      OBVIOUS
    <3>2. 2 * b - K \in Int
      BY <2>1
    <3> QED
      BY <2>1, <2>2, <2>3, <2>5, <3>1, <3>2
  <2> QED
    BY <2>4, <2>5
<1> DEFINE E == [t \in Tickers |-> Excess(t)']
<1>2. \A t \in Tickers : /\ Excesses[t] \in Int /\ E[t] \in Int
                         /\ 1 * E[t] <= Excesses[t] + 0 * Excesses[t]
  BY <1>1 DEF Excesses
<1> HIDE DEF E
<1>3. 1 * Sum(E, Tickers) <= Sum(Excesses, Tickers) + 0 * Sum(Excesses, Tickers)
  BY <1>2, SumBounds, TickersAssumption
<1>4. Sum(E, Tickers) \in Int /\ Sum(Excesses, Tickers) \in Int /\ TotalCap \in Nat
      /\ MarketCap \in Nat
  BY <1>2, SumIsInt, TickersAssumption, Numbers
<1>5. Sum(Excesses, Tickers) <= 2 * TotalCap /\ \A t \in Tickers : Excess(t) <= 2 * MarketCap
  BY DEF AtRest, Excesses
<1>6. Sum(E, Tickers) <= 2 * TotalCap
  BY <1>3, <1>4, <1>5
<1>7. ASSUME NEW t \in Tickers PROVE Excess(t)' <= 2 * MarketCap
  BY <1>1, <1>4, <1>5
<1> QED
  BY <1>6, <1>7 DEF AtRest, E

\* An order goes out: it was sized against everything there is.
LEMMA TradeKeepsFlow ==
    ASSUME TypeInv, TypeInv', Flow, NEW t \in Tickers, NEW sd \in Sides,
           NEW n \in 1 .. PerOrderMax, NEW p \in Prices, TradeAllowed(t, sd, n, p)
    PROVE  Flow'
<1> SUFFICES ASSUME ~blind', Tickers # {} PROVE Flow'
  BY DEF Flow
<1> DEFINE o == [id |-> placed + 1, ticker |-> t, side |-> sd, count |-> n, price |-> p]
<1>1. ~blind /\ Outstanding = {} /\ open = {} /\ unseen = {}
  BY DEF TradeAllowed, Outstanding
<1>2. AtRest
  BY <1>1, Rests
<1>3. open' = {o} /\ unseen' = {} /\ UNCHANGED pos
  BY <1>1 DEF TradeAllowed
<1>4. o.count = n /\ o.price = p /\ o.ticker = t /\ o.side = sd
  OBVIOUS
<1> HIDE DEF o
<1>5. n \in Nat /\ n <= K /\ p \in Nat /\ n * p \in Nat
  BY Numbers DEF K
<1>6. /\ Pending' = n /\ Debt' = n * p
  <2>1. Counted({}) /\ IsFiniteSet({}) /\ o \notin {} /\ {o} = {} \cup {o}
    BY FS_EmptySet DEF Counted
  <2>2. Units({}) = 0 /\ Value({}) = 0
    BY <2>1, PendingNat
  <2>3. Units({o}) = 0 + n /\ Value({o}) = 0 + n * p
    BY <1>4, <1>5, <2>1, <2>2, PendingAdds
  <2>4. Units(open)' = Units({o}) /\ Value(open)' = Value({o})
        /\ Units(unseen)' = Units({}) /\ Value(unseen)' = Value({})
    BY <1>3 DEF Units, Value
  <2> QED
    BY <1>5, <2>2, <2>3, <2>4 DEF Pending, Debt
<1>7. OneOrder(t, sd)'
  BY <1>3, <1>4 DEF OneOrder, Outstanding
<1>8. CASE IsClosing(t, sd)
  <2>1. n = CloseSize(t) /\ pos[t].side # sd
    BY <1>8 DEF TradeAllowed, IsClosing
  <2>2. n <= Contracts(t)
    BY <2>1, Amounts, Numbers DEF CloseSize, Least
  <2>3. ToClose(t, sd)'
    BY <1>2, <1>3, <1>6, <2>1, <2>2, RestOfState DEF ToClose
  <2> QED
    BY <1>7, <2>3 DEF Flow
<1>9. CASE ~ IsClosing(t, sd)
  <2>1. n * p <= MarketCap - Cost(t) /\ n * p <= TotalCap - TotalCost
    BY <1>9 DEF TradeAllowed, Fits
  <2>2. Contracts(t) = 0 \/ pos[t].side = sd
    BY <1>9, Amounts DEF IsClosing
  <2>3. /\ Contracts(t) \in Nat /\ Cost(t) \in Nat /\ TotalCost \in Nat
        /\ (K - n) * Contracts(t) \in Nat /\ MarketCap \in Nat /\ TotalCap \in Nat
    BY <1>5, Amounts, Numbers
  <2>4. /\ 2 * (TotalCost + n * p) <= 2 * TotalCap + (K - n) * Contracts(t)
        /\ 2 * (Cost(t) + n * p) <= 2 * MarketCap + (K - n) * Contracts(t)
        /\ TotalCost - Cost(t) <= TotalCap
    BY <1>5, <2>1, <2>3
  <2>5. \A u \in Tickers \ {t} : Excess(u) <= 2 * MarketCap
    BY <1>2 DEF AtRest
  <2>6. ToOpen(t, sd)'
    BY <1>3, <1>5, <1>6, <2>2, <2>4, <2>5, RestOfState DEF ToOpen, K
  <2> QED
    BY <1>7, <2>6 DEF Flow
<1> QED
  BY <1>8, <1>9

\* Less on its way, as many contracts as rows: an opening order keeps within what it
\* was checked with, a closing one within what is held.
LEMMA LessPending ==
    ASSUME TypeInv, TypeInv', UNCHANGED pos, NEW s \in Tickers, NEW d \in Sides,
           ToClose(s, d) \/ ToOpen(s, d), Pending' <= Pending, Debt' <= Debt
    PROVE  (ToClose(s, d) \/ ToOpen(s, d))'
<1>1. Pending \in Nat /\ Debt \in Nat /\ Pending' \in Nat /\ Debt' \in Nat
      /\ Contracts(s) \in Nat /\ Cost(s) \in Nat /\ TotalCost \in Nat /\ K \in Nat
      /\ MarketCap \in Nat /\ TotalCap \in Nat
  <2>1. Pending' \in Nat /\ Debt' \in Nat
    BY PendingAmountsNext
  <2> QED
    BY <2>1, Amounts, PendingAmounts, Numbers
<1>2. CASE ToClose(s, d)
  BY <1>1, <1>2, RestOfState DEF ToClose
<1>3. CASE ToOpen(s, d)
  <2>1. (K - Pending) * Contracts(s) <= (K - Pending') * Contracts(s)
        /\ (K - Pending) * Contracts(s) \in Int /\ (K - Pending') * Contracts(s) \in Int
    BY <1>1
  <2>0. Pending <= K /\ 2 * (TotalCost + Debt) <= 2 * TotalCap + (K - Pending) * Contracts(s)
        /\ 2 * (Cost(s) + Debt) <= 2 * MarketCap + (K - Pending) * Contracts(s)
    BY <1>3 DEF ToOpen
  <2>2. /\ 2 * (TotalCost + Debt') <= 2 * TotalCap + (K - Pending') * Contracts(s)
        /\ 2 * (Cost(s) + Debt') <= 2 * MarketCap + (K - Pending') * Contracts(s)
        /\ Pending' <= K
    BY <1>1, <2>0, <2>1
  <2>3. ToOpen(s, d)'
    BY <1>3, <2>2, RestOfState DEF ToOpen, K
  <2> QED
    BY <2>3
<1> QED
  BY <1>2, <1>3


\* What an execution leaves over tells it from the order's earlier ones.
LEMMA NewPart ==
    ASSUME TypeInv, Parts, NEW o \in open, NEW k \in 1 .. o.count, NEW f,
           f.id = o.id, f.left = o.count - k
    PROVE  f \notin unseen
  BY DEF TypeInv, Order, Parts

\* The exchange executes part of an order, at its limit or better.
LEMMA ExecuteKeepsFlow ==
    ASSUME TypeInv, TypeInv', Parts, Flow, NEW o \in open, Execute(o)
    PROVE  Flow'
<1> SUFFICES ASSUME ~blind', Tickers # {} PROVE Flow'
  BY DEF Flow
<1>1. PICK k \in 1 .. o.count, p \in Prices :
        /\ p <= o.price
        /\ unseen' = unseen \cup {[id |-> o.id, ticker |-> o.ticker, side |-> o.side,
                                   count |-> k, price |-> p, left |-> o.count - k]}
        /\ open' = (open \ {o}) \cup (IF k < o.count THEN {[o EXCEPT !.count = @ - k]} ELSE {})
        /\ net' = [net EXCEPT ![o.ticker] = @ + Signed(o.side, k)]
  BY DEF Execute
<1>2. ~blind /\ UNCHANGED <<pos, blind>>
  BY DEF Execute, history
<1>3. PICK s \in Tickers, d \in Sides :
         OneOrder(s, d) /\ (ToClose(s, d) \/ ToOpen(s, d))
  BY <1>2 DEF Flow
<1> DEFINE f == [id |-> o.id, ticker |-> o.ticker, side |-> o.side,
                 count |-> k, price |-> p, left |-> o.count - k]
           q == [o EXCEPT !.count = @ - k]
<1>4. /\ o \in Order /\ o.ticker = s /\ o.side = d /\ open = {o} /\ o.count \in Nat
      /\ o.price \in Nat /\ k \in Nat /\ k <= o.count /\ p \in Nat
  BY <1>3, Numbers DEF TypeInv, OneOrder, Outstanding, Order
<1>5. f.count = k /\ f.price = p /\ f.ticker = s /\ f.side = d
  BY <1>4
<1>6. /\ q.ticker = s /\ q.side = d /\ q.count = o.count - k /\ q.price = o.price
  BY <1>4 DEF Order
<1>7. f \notin unseen
  BY <1>1, NewPart
<1>8. unseen' = unseen \cup {f} /\ open' = IF k < o.count THEN {q} ELSE {}
  BY <1>1, <1>4
<1> HIDE DEF f, q
<1>9. OneOrder(s, d)'
  <2>1. \A x \in open' : x = q /\ k < o.count
    BY <1>8
  <2>2. \A x \in Outstanding' : x.ticker = s /\ x.side = d
    BY <1>3, <1>5, <1>6, <1>8, <2>1 DEF OneOrder, Outstanding
  <2> QED
    BY <2>1, <2>2 DEF OneOrder
<1>10. /\ Units(unseen') = Units(unseen) + k /\ Value(unseen') = Value(unseen) + k * p
       /\ Units(unseen) \in Nat /\ Value(unseen) \in Nat
  BY <1>4, <1>5, <1>7, <1>8, PendingAmounts, PendingAdds
<1>11. Units(open) = o.count /\ Value(open) = o.count * o.price
       /\ Units(open') = o.count - k /\ Value(open') = (o.count - k) * o.price
  <2>1. Counted({}) /\ IsFiniteSet({})
    BY FS_EmptySet DEF Counted
  <2>2. Units({}) = 0 /\ Value({}) = 0
    BY <2>1, PendingNat
  <2>3. Units(open) = o.count /\ Value(open) = o.count * o.price
    <3>1. open = {} \cup {o} /\ o \notin {}
      BY <1>4
    <3>2. Units(open) = Units({}) + o.count /\ Value(open) = Value({}) + o.count * o.price
      BY <1>4, <2>1, <3>1, PendingAdds
    <3> QED
      BY <1>4, <2>2, <3>2
  <2>4. CASE k < o.count
    <3>1. open' = {} \cup {q} /\ q \notin {} /\ q.count \in Nat /\ q.price \in Nat
      BY <1>4, <1>6, <1>8, <2>4
    <3>2. Units(open') = Units({}) + q.count /\ Value(open') = Value({}) + q.count * q.price
      BY <2>1, <3>1, PendingAdds
    <3>3. q.count * q.price \in Nat
      BY <3>1
    <3> QED
      BY <1>6, <2>2, <2>3, <3>1, <3>2, <3>3
  <2>5. CASE ~ (k < o.count)
    <3>1. open' = {} /\ o.count - k = 0 /\ 0 * o.price = 0
      BY <1>4, <1>8, <2>5
    <3> QED
      BY <2>2, <2>3, <3>1
  <2> QED
    BY <2>4, <2>5
<1>12. Pending' = Pending /\ Debt' <= Debt
  <2>1. k * p <= k * o.price /\ k * p \in Nat /\ o.count * o.price \in Nat
        /\ (o.count - k) * o.price = o.count * o.price - k * o.price /\ k * o.price \in Nat
    BY <1>1, <1>4
  <2>2. Pending' = (o.count - k) + (Units(unseen) + k)
        /\ Debt' = (o.count - k) * o.price + (Value(unseen) + k * p)
    BY <1>10, <1>11, PendingAmountsNext
  <2>3. Pending = o.count + Units(unseen) /\ Debt = o.count * o.price + Value(unseen)
    BY <1>11, PendingAmounts
  <2> QED
    BY <1>4, <1>10, <2>1, <2>2, <2>3
<1>13. (ToClose(s, d) \/ ToOpen(s, d))'
  BY <1>2, <1>3, <1>12, LessPending, PendingAmounts
<1> QED
  BY <1>9, <1>13 DEF Flow

\* What is left of an order is gone.
LEMMA DiesKeepsFlow ==
    ASSUME TypeInv, TypeInv', Flow, NEW o \in open, Dies(o)
    PROVE  Flow'
<1> SUFFICES ASSUME ~blind', Tickers # {} PROVE Flow'
  BY DEF Flow
<1>1. ~blind /\ open' = open \ {o} /\ UNCHANGED <<pos, unseen>>
  BY DEF Dies, history
<1>2. PICK s \in Tickers, d \in Sides :
         OneOrder(s, d) /\ (ToClose(s, d) \/ ToOpen(s, d))
  BY <1>1 DEF Flow
<1>3. Units(open) = o.count + Units(open') /\ Value(open) = o.count * o.price + Value(open')
  BY <1>1, PendingAmounts, PendingSplits
<1>4. o.count \in Nat /\ o.count * o.price \in Nat
  BY PendingAmounts DEF Counted
<1>5. Units(open') \in Nat /\ Value(open') \in Nat
      /\ Pending' = Units(open') + Units(unseen) /\ Debt' = Value(open') + Value(unseen)
  BY <1>1, PendingAmountsNext
<1>6. Pending' <= Pending /\ Debt' <= Debt
  BY <1>3, <1>4, <1>5, PendingAmounts
<1>7. (ToClose(s, d) \/ ToOpen(s, d))'
  BY <1>1, <1>2, <1>6, LessPending
<1>8. OneOrder(s, d)'
  BY <1>1, <1>2 DEF OneOrder, Outstanding
<1> QED
  BY <1>7, <1>8 DEF Flow

-----------------------------------------------------------------------------
(* A fill is booked. *)

\* Signed counts of one side add up.
LEMMA SignedAdds ==
    ASSUME NEW d, NEW a \in Nat, NEW b \in Nat
    PROVE  /\ Signed(d, a) \in Int /\ Signed(d, b) \in Int
           /\ Signed(d, a + b) = Signed(d, a) + Signed(d, b)
  BY DEF Signed

\* With k contracts less on their way and k more held there is room for the rounding
\* of the new average.
LEMMA RoomForRounding ==
    ASSUME NEW j \in Nat, NEW m \in Nat, NEW k \in Nat \ {0}
    PROVE  j * m + (m + k) <= (j + k) * (m + k)
<1>1. (j + k) * (m + k) = j * (m + k) + k * (m + k)
  OBVIOUS
<1>2. j * (m + k) = j * m + j * k
  OBVIOUS
<1>3. j * m \in Nat /\ j * k \in Nat /\ k * (m + k) \in Nat
  OBVIOUS
<1>4. k * (m + k) >= m + k
  <2> DEFINE i == k - 1
             h == m + k
  <2>1. i \in Nat /\ h \in Nat /\ k = i + 1
    OBVIOUS
  <2> HIDE DEF i, h
  <2>2. (i + 1) * h = i * h + h /\ i * h \in Nat
    BY <2>1
  <2>3. k * h >= h
    BY <2>1, <2>2
  <2> QED
    BY <2>3 DEF h
<1> QED
  BY <1>1, <1>2, <1>3, <1>4

\* What is left when n of a are gone.
LEMMA LessLeft ==
    ASSUME NEW a, NEW b \in Nat, NEW n \in Nat \ {0}, a = n + b
    PROVE  a \in Nat /\ a >= n /\ n > 0 /\ b <= a
  OBVIOUS

\* And by how much the room up to m grows.
LEMMA MoreRoom ==
    ASSUME NEW a, NEW b \in Nat, NEW n \in Nat \ {0}, a = n + b, NEW m \in Nat, a <= m
    PROVE  m - b = (m - a) + n /\ m - a \in Nat
  OBVIOUS

\* What an order reserved pays for its fill.
LEMMA ReservePays ==
    ASSUME NEW T \in Int, NEW cap \in Int, NEW debt \in Int, NEW paid \in Int,
           NEW before \in Int, NEW after \in Int, NEW m \in Int, NEW room \in Int, NEW roomNext \in Int,
           2 * (T + (paid + debt)) <= 2 * cap + room,
           2 * after <= 2 * (before + paid) + m,
           room + m <= roomNext
    PROVE  2 * (T - before + after + debt) <= 2 * cap + roomNext
  OBVIOUS



\* A fill is booked.  On the order's own side it costs what the order reserved for
\* it, and the rounding; on the other side it only takes contracts off.
LEMMA IngestKeepsFlow ==
    ASSUME TypeInv, TypeInv', Flow, NEW f \in unseen, Ingest(f)
    PROVE  Flow'
<1> SUFFICES ASSUME ~blind', Tickers # {} PROVE Flow'
  BY DEF Flow
<1>1. ~blind /\ unseen' = unseen \ {f} /\ UNCHANGED open
      /\ pos' = [pos EXCEPT ![f.ticker] = Buy(@, f.side, f.count, f.price)]
  BY DEF Ingest, history
<1>2. PICK s \in Tickers, d \in Sides :
         OneOrder(s, d) /\ (ToClose(s, d) \/ ToOpen(s, d))
  BY <1>1 DEF Flow
<1> DEFINE k == f.count
           p == f.price
           P == pos[s]
           Q == Buy(P, d, k, p)
<1>3. /\ f.ticker = s /\ f.side = d /\ k \in Nat \ {0} /\ p \in Nat /\ p \in 0 .. Dollar - 1
      /\ P \in Row /\ k * p \in Nat
  BY <1>2, Numbers DEF OneOrder, Outstanding, TypeInv, Fill
<1> HIDE DEF k, p, P
<1>4. /\ \A t \in Tickers : pos'[t] = IF t = s THEN Q ELSE pos[t]
      /\ pos' \in [Tickers -> Row]
  BY <1>1, <1>3 DEF TypeInv, k, p, P
<1>5. /\ Units(unseen) = k + Units(unseen') /\ Value(unseen) = k * p + Value(unseen')
      /\ Units(unseen') \in Nat /\ Value(unseen') \in Nat
      /\ Pending' = Units(open) + Units(unseen') /\ Debt' = Value(open) + Value(unseen')
  <2>1. Units(unseen) = k + Units(unseen') /\ Value(unseen) = k * p + Value(unseen')
    BY <1>1, PendingAmounts, PendingSplits DEF k, p
  <2> QED
    BY <1>1, <2>1, PendingAmountsNext
<1>6. Pending = k + Pending' /\ Debt = k * p + Debt' /\ Pending' \in Nat /\ Debt' \in Nat
  BY <1>3, <1>5, PendingAmounts
<1>7. OneOrder(s, d)'
  BY <1>1, <1>2 DEF OneOrder, Outstanding
<1>8. \A t \in Tickers \ {s} : /\ Cost(t)' = Cost(t) /\ Contracts(t)' = Contracts(t)
                               /\ Excess(t)' = Excess(t)
  BY <1>4 DEF Cost, Contracts, Excess
<1>9. /\ Contracts(s)' = Q.count /\ Cost(s)' = Q.avg * Q.count
      /\ Contracts(s) = P.count /\ Cost(s) = P.avg * P.count
  BY <1>4 DEF Contracts, Cost, Excess, P, K
<1>10. Q \in Row /\ Q.count \in Nat /\ Q.avg \in Nat /\ P.count \in Nat /\ P.avg \in Nat
       /\ Q.avg * Q.count \in Nat /\ P.avg * P.count \in Nat
  <2>1. Q \in Row
    BY <1>3, <1>4
  <2>2. \A R \in Row : R.count \in Nat /\ R.avg \in Nat
    BY DEF Row
  <2>3. Q.count \in Nat /\ Q.avg \in Nat /\ P.count \in Nat /\ P.avg \in Nat
    BY <1>3, <2>1, <2>2
  <2> QED
    BY <2>1, <2>3
<1> HIDE DEF Q
<1>12. CASE ToClose(s, d)
  <2>1. k <= P.count /\ P.side # d /\ Pending <= P.count
    <3>1. Pending <= P.count /\ (Pending = 0 \/ P.side # d)
      BY <1>9, <1>12 DEF ToClose, P
    <3>2. Pending >= k /\ k > 0 /\ Pending \in Nat
      BY <1>3, <1>6, LessLeft
    <3> QED
      BY <1>3, <1>10, <3>1, <3>2
  <2>2. Q.side = P.side /\ Q.count = P.count - k /\ (Q.count = 0 \/ Q.avg = P.avg)
    BY <1>3, <2>1, BuyTakes DEF Q
  <2>4. AtRest'
    <3>1. ASSUME NEW t \in Tickers
          PROVE  /\ pos'[t].count <= pos[t].count
                 /\ pos'[t].count = 0 \/ pos'[t].avg = pos[t].avg
      <4>1. CASE t = s
        <5>1. k \in Nat /\ P.count - k <= P.count
          BY <1>3, <1>10
        <5> QED
          BY <1>4, <2>2, <4>1, <5>1 DEF P
      <4>2. CASE t # s
        <5>1. pos[t].count \in Nat
          BY Amounts
        <5> QED
          BY <1>4, <4>2, <5>1
      <4> QED
        BY <4>1, <4>2
    <3> QED
      BY <1>12, <3>1, ShrinksAtRest DEF ToClose
  <2>5. Pending' <= Contracts(s)' /\ pos'[s].side # d
    BY <1>3, <1>4, <1>6, <1>9, <1>10, <2>1, <2>2
  <2>6. ToClose(s, d)'
    BY <2>4, <2>5 DEF ToClose
  <2> QED
    BY <1>7, <2>6 DEF Flow
<1>13. CASE ToOpen(s, d)
  <2>1. P.count = 0 \/ P.side = d
    BY <1>9, <1>13 DEF ToOpen, P
  <2>2. Q.side = d /\ Q.count = P.count + k /\ 2 * (Q.avg * Q.count) <= 2 * (P.avg * P.count + p * k) + Q.count
    BY <1>3, <2>1, BuyAdds DEF Q
  <2> DEFINE slack == (K - Pending) * P.count
             slackNext == (K - Pending') * Q.count
  <2>4. slack + Q.count <= slackNext /\ slack \in Nat /\ slackNext \in Nat /\ K \in Nat
    <3> DEFINE j == K - Pending
    <3>1. j \in Nat /\ K - Pending' = j + k /\ K \in Nat
      <4>1. K \in Nat /\ Pending <= K
        BY <1>13, Numbers DEF ToOpen
      <4>2. K - Pending' = (K - Pending) + k /\ K - Pending \in Nat
        <5>1. k \in Nat \ {0}
          BY <1>3
        <5>2. Pending' \in Nat /\ Pending = k + Pending'
          BY <1>6
        <5>3. K - Pending' = (K - Pending) + k
          BY <4>1, <5>1, <5>2, MoreRoom
        <5>4. K - Pending \in Nat
          BY <4>1, <5>1, <5>2, MoreRoom
        <5> QED
          BY <5>3, <5>4
      <4> QED
        BY <4>1, <4>2
    <3> HIDE DEF j
    <3>2. slack = j * P.count /\ slackNext = (j + k) * (P.count + k)
      BY <2>2, <3>1 DEF j
    <3> HIDE DEF slack, slackNext
    <3>3. j * P.count + (P.count + k) <= (j + k) * (P.count + k)
      BY <1>3, <1>10, <3>1, RoomForRounding
    <3>4. j * P.count \in Nat /\ (j + k) * (P.count + k) \in Nat
      BY <1>3, <1>10, <3>1
    <3> QED
      BY <2>2, <3>1, <3>2, <3>3, <3>4
  <2>5. /\ 2 * (TotalCost + Debt) <= 2 * TotalCap + slack
        /\ 2 * (P.avg * P.count + Debt) <= 2 * MarketCap + slack
        /\ TotalCost - P.avg * P.count <= TotalCap
        /\ \A t \in Tickers \ {s} : Excess(t) <= 2 * MarketCap
        /\ Pending <= K
    BY <1>9, <1>13 DEF ToOpen
  <2>6. TotalCost' = TotalCost - P.avg * P.count + Q.avg * Q.count /\ TotalCost \in Nat
    <3> DEFINE C == [t \in Tickers |-> Cost(t)']
    <3>1. TotalCost' = Sum(C, Tickers)
      BY DEF TotalCost, SumFunction, Sum
    <3>2. /\ \A t \in Tickers : Costs[t] \in Int /\ C[t] \in Int
          /\ \A t \in Tickers : t # s => Costs[t] = C[t]
          /\ Costs[s] = P.avg * P.count /\ C[s] = Q.avg * Q.count
      <4>1. ASSUME NEW t \in Tickers
            PROVE  /\ Costs[t] \in Int /\ C[t] \in Int
                   /\ t # s => Costs[t] = C[t]
                   /\ t = s => Costs[t] = P.avg * P.count /\ C[t] = Q.avg * Q.count
        <5>1. Costs[t] = Cost(t) /\ C[t] = Cost(t)' /\ Cost(t) \in Nat
          BY Amounts
        <5> HIDE DEF C
        <5>2. CASE t = s
          BY <1>9, <1>10, <5>1, <5>2
        <5>3. CASE t # s
          BY <1>8, <5>1, <5>3
        <5> QED
          BY <5>2, <5>3
      <4> QED
        BY <4>1
    <3> HIDE DEF C
    <3>3. Sum(C, Tickers) = Sum(Costs, Tickers) - Costs[s] + C[s]
      <4> DEFINE D == Costs
      <4>1. /\ \A t \in Tickers : D[t] \in Int /\ C[t] \in Int
            /\ \A t \in Tickers : t # s => D[t] = C[t]
        BY <3>2
      <4> HIDE DEF D
      <4>2. Sum(C, Tickers) = Sum(D, Tickers) - D[s] + C[s]
        BY <4>1, SumChanges, TickersAssumption
      <4> QED
        BY <4>2 DEF D
    <3> QED
      BY <3>1, <3>2, <3>3, Amounts
  <2> HIDE DEF slack, slackNext
  <2>7. p * k = k * p /\ MarketCap \in Nat /\ TotalCap \in Nat
    BY <1>3, Numbers
  <2>8. /\ 2 * (TotalCost' + Debt') <= 2 * TotalCap + slackNext
        /\ 2 * (Q.avg * Q.count + Debt') <= 2 * MarketCap + slackNext
        /\ TotalCost' - Q.avg * Q.count <= TotalCap
        /\ Pending' <= K
    <3> DEFINE c == P.avg * P.count
               q == Q.avg * Q.count
    <3>1. /\ c \in Int /\ q \in Int /\ k * p \in Int /\ Debt' \in Int /\ Debt = k * p + Debt'
          /\ TotalCost \in Int /\ Q.count \in Int /\ slack \in Int /\ slackNext \in Int
          /\ TotalCap \in Int /\ MarketCap \in Int /\ TotalCost' = TotalCost - c + q
      BY <1>3, <1>6, <1>10, <2>4, <2>6, <2>7
    <3>2. /\ 2 * (TotalCost + (k * p + Debt')) <= 2 * TotalCap + slack
          /\ 2 * (c + (k * p + Debt')) <= 2 * MarketCap + slack
          /\ TotalCost - c <= TotalCap
      BY <2>5, <3>1
    <3>3. 2 * q <= 2 * (c + k * p) + Q.count
      BY <2>2, <2>7
    <3>4. slack + Q.count <= slackNext
      BY <2>4
    <3> HIDE DEF c, q
    <3>5. 2 * (TotalCost - c + q + Debt') <= 2 * TotalCap + slackNext
      BY <3>1, <3>2, <3>3, <3>4, ReservePays
    <3>6. 2 * (c - c + q + Debt') <= 2 * MarketCap + slackNext
      BY <3>1, <3>2, <3>3, <3>4, ReservePays
    <3>7. TotalCost' - q <= TotalCap
      BY <3>1, <3>2
    <3>8. Pending' <= K
      <4>1. Pending <= K /\ K \in Nat /\ Pending \in Nat
        BY <2>4, <2>5, PendingAmounts
      <4>2. Pending' <= Pending /\ Pending' \in Nat
        BY <1>3, <1>6, LessLeft
      <4> QED
        BY <4>1, <4>2
    <3>9. c - c + q = q
      BY <3>1
    <3> QED
      BY <3>1, <3>5, <3>6, <3>7, <3>8, <3>9 DEF q
  <2>9. \A t \in Tickers \ {s} : Excess(t)' <= 2 * MarketCap
    BY <1>8, <2>5
  <2>10. pos'[s].side = d
    BY <1>4, <2>2
  <2>11. ToOpen(s, d)'
    BY <1>9, <2>8, <2>9, <2>10 DEF ToOpen, slackNext, K
  <2> QED
    BY <1>7, <2>11 DEF Flow
<1> QED
  BY <1>2, <1>12, <1>13


\* The reconciler overwrites the positions when nothing is on its way, and gives no
\* row more than it held.
LEMMA ReconcileKeepsFlow ==
    ASSUME TypeInv, TypeInv', Flow, Reconcile
    PROVE  Flow'
<1> SUFFICES ASSUME ~blind', Tickers # {} PROVE Flow'
  BY DEF Flow
<1>1. PICK listed \in SUBSET Tickers :
        /\ pos' = [t \in Tickers |->
              IF t \in listed
              THEN [pos[t] EXCEPT !.side = SideOf(net[t]), !.count = CountOf(net[t])]
              ELSE [pos[t] EXCEPT !.count = 0]]
        /\ Judged(listed)
  BY DEF Reconcile
<1>2. /\ ~blind /\ Outstanding = {} /\ open' = {} /\ unseen' = {}
      /\ \A t \in Tickers : ~ (pos'[t].count > pos[t].count)
  <2>1. UNCHANGED <<open, unseen>>
    BY DEF Reconcile, exchange
  <2> QED
    BY <1>1, <2>1 DEF Judged, Outstanding
<1>3. AtRest
  BY <1>2, Rests
<1>4. ASSUME NEW t \in Tickers
      PROVE  pos'[t].count <= pos[t].count /\ pos'[t].avg = pos[t].avg
  <2>1. pos[t] \in Row /\ pos'[t] \in Row
    BY DEF TypeInv, Row
  <2>2. pos'[t].avg = pos[t].avg
    BY <1>1, <2>1 DEF Row
  <2>3. pos[t].count \in Nat /\ pos'[t].count \in Nat
    BY <2>1 DEF Row
  <2> QED
    BY <1>2, <2>2, <2>3
<1>5. AtRest'
  BY <1>3, <1>4, ShrinksAtRest
<1> PICK s \in Tickers : TRUE
  OBVIOUS
<1>6. Pending' = 0
  <2>1. Counted({}) /\ IsFiniteSet({})
    BY FS_EmptySet DEF Counted
  <2>2. Units({}) = 0
    BY <2>1, PendingNat
  <2> QED
    BY <1>2, <2>2 DEF Pending, Units
<1>7. OneOrder(s, "yes")'
  BY <1>2 DEF OneOrder, Outstanding
<1>8. ToClose(s, "yes")'
  <2>1. Contracts(s)' \in Nat
    BY DEF Contracts, TypeInv, Row
  <2> QED
    BY <1>5, <1>6, <2>1 DEF ToClose
<1> QED
  BY <1>7, <1>8 DEF Flow, Sides

-----------------------------------------------------------------------------
(* The mirror. *)

\* Signed counts are integers.
LEMMA SignedInt == ASSUME NEW d, NEW n \in Nat PROVE Signed(d, n) \in Int
  BY DEF Signed

\* What a fill adds to a market is an integer.
LEMMA PartInt ==
    ASSUME NEW S, Counted(S), NEW t
    PROVE  \A f \in S : Part(f, t) \in Int
  BY SignedInt DEF Counted, Part

\* One fill less on its way to a market.
LEMMA OfMarketSplits ==
    ASSUME NEW S, IsFiniteSet(S), Counted(S), NEW t, NEW e \in S
    PROVE  OfMarket(S, t) = Part(e, t) + OfMarket(S \ {e}, t)
<1> DEFINE r == S \ {e}
           F == [f \in S |-> Part(f, t)]
           G == [f \in r |-> Part(f, t)]
<1>1. IsFiniteSet(r)
  BY FS_Subset
<1>2. \A f \in S : F[f] = Part(f, t) /\ F[f] \in Int
  BY PartInt
<1>3. \A f \in r : G[f] \in Int /\ G[f] = F[f]
  BY <1>2
<1>4. OfMarket(S, t) = Sum(F, S) /\ OfMarket(r, t) = Sum(G, r)
  BY DEF OfMarket
<1> HIDE DEF F, G, r
<1>5. Sum(G, r) = Sum(F, r)
  BY <1>1, <1>3, SumSame
<1>6. Sum(F, S) = F[e] + Sum(F, r)
  BY <1>2, SumRemoves DEF r
<1> QED
  BY <1>2, <1>4, <1>5, <1>6 DEF r

\* They come to an integer, and to nothing in a market that none of them is of.
LEMMA OfMarketIs ==
    ASSUME NEW S, IsFiniteSet(S), Counted(S), NEW t
    PROVE  /\ OfMarket(S, t) \in Int
           /\ (\A f \in S : f.ticker # t) => OfMarket(S, t) = 0
<1> DEFINE F == [f \in S |-> Part(f, t)]
<1>1. \A f \in S : F[f] \in Int
  BY PartInt
<1>2. OfMarket(S, t) = Sum(F, S)
  BY DEF OfMarket
<1>3. ASSUME \A f \in S : f.ticker # t PROVE \A f \in S : F[f] = 0
  BY <1>3 DEF Part
<1> HIDE DEF F
<1>4. Sum(F, S) \in Int
  BY <1>1, SumIsInt
<1>5. ASSUME \A f \in S : F[f] = 0 PROVE Sum(F, S) = 0
  <2>1. \A f \in S : F[f] \in Int /\ 2 * F[f] <= F[f] + 0 * F[f] /\ F[f] \in Nat
    BY <1>5
  <2>2. 2 * Sum(F, S) <= Sum(F, S) + 0 * Sum(F, S) /\ Sum(F, S) \in Nat
    BY <2>1, SumBounds, SumNat
  <2> QED
    BY <2>2
<1> QED
  BY <1>2, <1>3, <1>4, <1>5

\* When all are of one side of one market, it is their contracts, signed.
LEMMA OfMarketSide ==
    ASSUME NEW S, IsFiniteSet(S), Counted(S), NEW t, NEW d,
           \A f \in S : f.ticker = t /\ f.side = d
    PROVE  OfMarket(S, t) = Signed(d, Units(S))
<1> DEFINE F == [f \in S |-> Part(f, t)]
           C == [f \in S |-> f.count]
<1>1. OfMarket(S, t) = Sum(F, S) /\ Units(S) = Sum(C, S)
  BY DEF OfMarket, Units
<1>2. \A f \in S : F[f] = Signed(d, C[f]) /\ C[f] \in Nat
  BY DEF Part, Counted
<1> HIDE DEF F, C
<1>3. \A n \in Nat : -n = 0 - n
  OBVIOUS
<1>4. CASE d = "yes"
  <2>1. \A f \in S : F[f] \in Int /\ F[f] = C[f]
    BY <1>2, <1>4 DEF Signed
  <2> QED
    BY <1>1, <1>4, <2>1, SumSame DEF Signed
<1>5. CASE d # "yes"
  <2>1. \A f \in S : F[f] = 0 - C[f] /\ F[f] \in Int /\ C[f] \in Int
    BY <1>2, <1>3, <1>5 DEF Signed
  <2>2. Sum(F, S) \in Int /\ Sum(C, S) \in Nat
    BY <1>2, <2>1, SumIsInt, SumNat
  <2>3. 2 * Sum(F, S) <= Sum(F, S) + (-1) * Sum(C, S)
    <3>1. \A f \in S : /\ F[f] \in Int /\ C[f] \in Int
                       /\ 2 * F[f] <= F[f] + (-1) * C[f]
      BY <2>1
    <3> QED
      BY <3>1, SumBounds
  <2>4. (-1) * Sum(F, S) <= Sum(C, S) + 0 * Sum(C, S)
    <3>1. \A f \in S : /\ F[f] \in Int /\ C[f] \in Int
                       /\ (-1) * F[f] <= C[f] + 0 * C[f]
      BY <2>1
    <3> QED
      BY <3>1, SumBounds
  <2>5. Sum(F, S) = 0 - Sum(C, S)
    BY <2>2, <2>3, <2>4
  <2> QED
    BY <1>1, <1>3, <1>5, <2>2, <2>5 DEF Signed
<1> QED
  BY <1>4, <1>5

\* Buying n of a side moves the signed count by n towards that side, whether it
\* opens, adds, pairs off or flips.
LEMMA BuySigned ==
    ASSUME NEW P \in Row, NEW sd \in Sides, NEW n \in Nat \ {0}, NEW p
    PROVE  Signed(Buy(P, sd, n, p).side, Buy(P, sd, n, p).count)
             = Signed(P.side, P.count) + Signed(sd, n)
<1>0. P.count \in Nat /\ P.side \in Sides
  BY DEF Row
<1>1. CASE P.count = 0
  BY <1>0, <1>1 DEF Buy, Held, Signed, Sides
<1>2. CASE P.count # 0 /\ P.side = sd
  <2>1. Buy(P, sd, n, p).side = sd /\ Buy(P, sd, n, p).count = P.count + n
    BY <1>2 DEF Buy, Held
  <2> QED
    BY <1>0, <1>2, <2>1 DEF Signed, Sides
<1>3. CASE P.count # 0 /\ P.side # sd
  BY <1>0, <1>3 DEF Buy, Held, Signed, Sides
<1> QED
  BY <1>1, <1>2, <1>3

\* A row overwritten is the position it was overwritten with.
LEMMA Overwritten ==
    ASSUME NEW m \in Int PROVE Signed(SideOf(m), CountOf(m)) = m
<1>1. \A n \in Int : -n = 0 - n
  OBVIOUS
<1>2. CASE m >= 0
  BY <1>2 DEF SideOf, CountOf, Signed
<1>3. CASE ~ (m >= 0)
  <2>1. SideOf(m) = "no" /\ CountOf(m) = 0 - m /\ 0 - m \in Int /\ 0 - (0 - m) = m
    BY <1>1, <1>3 DEF SideOf, CountOf
  <2> QED
    BY <1>1, <2>1 DEF Signed
<1> QED
  BY <1>2, <1>3

\* Orders keep one remainder each.
LEMMA PartsStep == ASSUME TypeInv, Parts, [Next]_vars PROVE Parts'
<1>1. ASSUME NEW t \in Tickers, NEW sd \in Sides, NEW n \in 1 .. PerOrderMax, NEW p \in Prices,
             TradeAllowed(t, sd, n, p)
      PROVE  Parts'
  <2> DEFINE o == [id |-> placed + 1, ticker |-> t, side |-> sd, count |-> n, price |-> p]
  <2>1. open' = open \cup {o} /\ unseen' = unseen /\ o.id = placed + 1 /\ placed \in Nat
    BY <1>1 DEF TradeAllowed, TypeInv
  <2> HIDE DEF o
  <2>2. \A x \in open \cup unseen : x.id # placed + 1
    BY <2>1 DEF TypeInv, Order, Fill
  <2> QED
    BY <2>1, <2>2 DEF Parts
<1>2. ASSUME NEW o \in open, Execute(o) PROVE Parts'
  <2>1. PICK k \in 1 .. o.count, p \in Prices :
          /\ unseen' = unseen \cup {[id |-> o.id, ticker |-> o.ticker, side |-> o.side,
                                     count |-> k, price |-> p, left |-> o.count - k]}
          /\ open' = (open \ {o}) \cup (IF k < o.count THEN {[o EXCEPT !.count = @ - k]} ELSE {})
    BY <1>2 DEF Execute
  <2> DEFINE f == [id |-> o.id, ticker |-> o.ticker, side |-> o.side,
                   count |-> k, price |-> p, left |-> o.count - k]
             q == [o EXCEPT !.count = @ - k]
  <2>2. o \in Order /\ o.count \in Nat /\ k \in Nat /\ k > 0
    BY DEF TypeInv, Order
  <2>3. f.id = o.id /\ f.left = o.count - k /\ q.id = o.id /\ q.count = o.count - k
    BY <2>2 DEF Order
  <2>4. unseen' = unseen \cup {f} /\ open' \subseteq (open \ {o}) \cup {q}
    BY <2>1
  <2> HIDE DEF f, q
  <2>5. \A x \in open \ {o} : x.id # o.id
    BY DEF Parts
  <2>6. \A x, y \in open' : x.id = y.id => x = y
    BY <2>3, <2>4, <2>5 DEF Parts
  <2>7. ASSUME NEW g \in unseen', NEW x \in open', g.id = x.id PROVE x.count <= g.left
    <3>1. CASE g = f
      BY <2>2, <2>3, <2>4, <2>5, <2>7, <3>1
    <3>2. CASE g \in unseen /\ x = q
      <4>1. o.count <= g.left /\ g.left \in Nat
        BY <2>3, <2>7, <3>2 DEF Parts, TypeInv, Fill
      <4> QED
        BY <2>2, <2>3, <3>2, <4>1
    <3>3. CASE g \in unseen /\ x # q
      BY <2>4, <2>7, <3>3 DEF Parts
    <3> QED
      BY <2>4, <3>1, <3>2, <3>3
  <2> QED
    BY <2>6, <2>7 DEF Parts
<1>3. ASSUME NEW o \in open, Dies(o) PROVE Parts'
  BY <1>3 DEF Dies, Parts
<1>4. ASSUME NEW f \in unseen, Ingest(f) PROVE Parts'
  BY <1>4 DEF Ingest, Parts
<1>5. ASSUME UNCHANGED <<open, unseen>> PROVE Parts'
  BY <1>5 DEF Parts
<1>6. ASSUME NEW t \in Tickers, Settles(t) PROVE Parts'
  BY <1>5, <1>6 DEF Settles
<1>7. CASE SendReturns \/ Reconcile \/ Background \/ EngageHalt \/ ResumeHalt \/ UNCHANGED vars
  BY <1>5, <1>7 DEF SendReturns, Reconcile, Background, EngageHalt, ResumeHalt, vars, exchange
<1> QED
  BY <1>1, <1>2, <1>3, <1>4, <1>6, <1>7 DEF Next

\* A market's row stays behind the exchange by its fills still to come.
LEMMA MirrorStep == ASSUME TypeInv, TypeInv', Parts, Mirror, [Next]_vars PROVE Mirror'
<1>0. /\ IsFiniteSet(unseen) /\ Counted(unseen)
      /\ \A t : OfMarket(unseen, t) \in Int
      /\ \A t \in Tickers : Signed(pos[t].side, pos[t].count) \in Int /\ net[t] \in Int
  <2>1. IsFiniteSet(unseen) /\ Counted(unseen)
    BY PendingAmounts
  <2>2. \A t : OfMarket(unseen, t) \in Int
    BY <2>1, OfMarketIs
  <2>3. ASSUME NEW t \in Tickers PROVE Signed(pos[t].side, pos[t].count) \in Int /\ net[t] \in Int
    <3>1. pos[t].count \in Nat
      BY DEF TypeInv, Row
    <3> QED
      BY <3>1, SignedInt DEF TypeInv
  <2> QED
    BY <2>1, <2>2, <2>3
<1>1. ASSUME UNCHANGED <<pos, net, unseen, astray>> PROVE Mirror'
  BY <1>1 DEF Mirror
<1>2. ASSUME NEW o \in open, Execute(o) PROVE Mirror'
  <2>1. PICK k \in 1 .. o.count, p \in Prices :
          /\ unseen' = unseen \cup {[id |-> o.id, ticker |-> o.ticker, side |-> o.side,
                                     count |-> k, price |-> p, left |-> o.count - k]}
          /\ net' = [net EXCEPT ![o.ticker] = @ + Signed(o.side, k)]
    BY <1>2 DEF Execute
  <2>2. UNCHANGED <<pos, astray>>
    BY <1>2 DEF Execute, history
  <2> DEFINE f == [id |-> o.id, ticker |-> o.ticker, side |-> o.side,
                   count |-> k, price |-> p, left |-> o.count - k]
  <2>3. f \notin unseen /\ unseen' = unseen \cup {f} /\ k \in Nat /\ Signed(o.side, k) \in Int
    <3>1. o.count \in Nat
      BY DEF TypeInv, Order
    <3>2. k \in Nat
      BY <3>1
    <3> QED
      BY <2>1, <3>2, NewPart, SignedInt
  <2>4. \A t : Part(f, t) = IF o.ticker = t THEN Signed(o.side, k) ELSE 0
    BY DEF Part
  <2> HIDE DEF f
  <2>5. ASSUME NEW t \in Tickers
        PROVE  OfMarket(unseen', t) = OfMarket(unseen, t) + Part(f, t)
    <3>1. IsFiniteSet(unseen') /\ Counted(unseen') /\ f \in unseen' /\ unseen' \ {f} = unseen
      <4>1. Counted(unseen') /\ IsFiniteSet(unseen')
        BY Numbers DEF Counted, TypeInv, Fill
      <4> QED
        BY <2>3, <4>1
    <3>2. OfMarket(unseen', t) = Part(f, t) + OfMarket(unseen' \ {f}, t)
      BY <3>1, OfMarketSplits
    <3>3. Part(f, t) \in Int /\ OfMarket(unseen, t) \in Int
      BY <1>0, <2>3, <2>4
    <3>4. OfMarket(unseen' \ {f}, t) = OfMarket(unseen, t)
      BY <3>1
    <3> QED
      BY <3>2, <3>3, <3>4
  <2>6. ASSUME NEW t \in Tickers \ astray
        PROVE  net'[t] = Signed(pos[t].side, pos[t].count) + OfMarket(unseen', t)
    <3>1. net[t] = Signed(pos[t].side, pos[t].count) + OfMarket(unseen, t)
      BY DEF Mirror
    <3>2. net'[t] = net[t] + Part(f, t)
      <4>1. net'[t] = IF t = o.ticker THEN net[t] + Signed(o.side, k) ELSE net[t]
        BY <2>1 DEF TypeInv
      <4> QED
        BY <1>0, <2>4, <4>1
    <3>3. Part(f, t) \in Int
      BY <2>3, <2>4
    <3> QED
      BY <1>0, <2>5, <3>1, <3>2, <3>3
  <2> QED
    BY <2>2, <2>6 DEF Mirror, OfMarket
<1>3. ASSUME NEW f \in unseen, Ingest(f) PROVE Mirror'
  <2>1. /\ unseen' = unseen \ {f} /\ UNCHANGED <<net, astray>>
        /\ pos' = [pos EXCEPT ![f.ticker] = Buy(@, f.side, f.count, f.price)]
    BY <1>3 DEF Ingest, history
  <2>2. f.ticker \in Tickers /\ f.side \in Sides /\ f.count \in Nat \ {0}
    BY DEF TypeInv, Fill
  <2>3. ASSUME NEW t \in Tickers
        PROVE  Signed(pos'[t].side, pos'[t].count) = Signed(pos[t].side, pos[t].count) + Part(f, t)
    <3>1. CASE t = f.ticker
      <4>1. pos'[t] = Buy(pos[t], f.side, f.count, f.price) /\ pos[t] \in Row
        BY <2>1, <2>2, <3>1 DEF TypeInv
      <4> QED
        BY <2>2, <3>1, <4>1, BuySigned DEF Part
    <3>2. CASE t # f.ticker
      <4>1. pos'[t] = pos[t] /\ Part(f, t) = 0
        BY <2>1, <2>2, <3>2 DEF TypeInv, Part
      <4> QED
        BY <1>0, <4>1
    <3> QED
      BY <3>1, <3>2
  <2>4. ASSUME NEW t \in Tickers \ astray
        PROVE  net[t] = Signed(pos'[t].side, pos'[t].count) + OfMarket(unseen', t)
    <3>1. net[t] = Signed(pos[t].side, pos[t].count) + OfMarket(unseen, t)
      BY DEF Mirror
    <3>2. OfMarket(unseen, t) = Part(f, t) + OfMarket(unseen', t)
      BY <1>0, <2>1, OfMarketSplits
    <3>3. Part(f, t) \in Int /\ OfMarket(unseen', t) \in Int
      <4>1. IsFiniteSet(unseen') /\ Counted(unseen')
        BY <1>0, <2>1, FS_Subset DEF Counted
      <4> QED
        BY <1>0, <4>1, OfMarketIs, PartInt
    <3> QED
      BY <1>0, <2>3, <3>1, <3>2, <3>3
  <2> QED
    BY <2>1, <2>4 DEF Mirror, OfMarket
<1>4. ASSUME NEW s \in Tickers, Settles(s) PROVE Mirror'
  <2>1. /\ net' = [net EXCEPT ![s] = 0] /\ astray' = astray \cup {s} /\ UNCHANGED <<pos, unseen>>
    BY <1>4 DEF Settles
  <2>2. \A t \in Tickers \ astray' : t \in Tickers \ astray /\ net'[t] = net[t]
    BY <2>1 DEF TypeInv
  <2> QED
    BY <2>1, <2>2 DEF Mirror
<1>5. CASE Reconcile
  <2>1. PICK listed \in SUBSET Tickers :
          /\ pos' = [t \in Tickers |->
                IF t \in listed
                THEN [pos[t] EXCEPT !.side = SideOf(net[t]), !.count = CountOf(net[t])]
                ELSE [pos[t] EXCEPT !.count = 0]]
          /\ Judged(listed)
    BY <1>5 DEF Reconcile
  <2>2. UNCHANGED <<net, unseen>>
    BY <1>5 DEF Reconcile, exchange
  <2>3. ASSUME NEW t \in Tickers \ astray'
        PROVE  net[t] = Signed(pos'[t].side, pos'[t].count) + OfMarket(unseen, t)
    <3>1. (t \in listed \/ net[t] = 0) /\ \A f \in unseen : f.ticker # t
      BY <2>1 DEF Judged
    <3>2. OfMarket(unseen, t) = 0
      BY <1>0, <3>1, OfMarketIs
    <3>3. net[t] = Signed(pos'[t].side, pos'[t].count)
      <4>1. pos[t] \in Row /\ net[t] \in Int
        BY DEF TypeInv
      <4>2. CASE t \in listed
        <5>1. pos'[t].side = SideOf(net[t]) /\ pos'[t].count = CountOf(net[t])
          BY <2>1, <4>1, <4>2 DEF Row
        <5> QED
          BY <4>1, <5>1, Overwritten
      <4>3. CASE t \notin listed
        <5>1. pos'[t].count = 0 /\ net[t] = 0
          BY <2>1, <3>1, <4>1, <4>3 DEF Row
        <5> QED
          BY <5>1, NoneSigned
      <4> QED
        BY <4>2, <4>3
    <3> QED
      BY <1>0, <3>2, <3>3
  <2> QED
    BY <2>2, <2>3 DEF Mirror
<1>6. ASSUME NEW t \in Tickers, NEW sd \in Sides, NEW n \in 1 .. PerOrderMax, NEW p \in Prices,
             TradeAllowed(t, sd, n, p)
      PROVE  Mirror'
  BY <1>1, <1>6 DEF TradeAllowed
<1>7. ASSUME NEW o \in open, Dies(o) PROVE Mirror'
  BY <1>1, <1>7 DEF Dies, history
<1>8. CASE SendReturns \/ Background \/ EngageHalt \/ ResumeHalt \/ UNCHANGED vars
  BY <1>1, <1>8 DEF SendReturns, Background, EngageHalt, ResumeHalt, vars, exchange, history
<1> QED
  BY <1>2, <1>3, <1>4, <1>5, <1>6, <1>7, <1>8 DEF Next

\* Nothing is held and nothing is on its way at the start.
LEMMA MirrorInit == ASSUME Init PROVE Parts /\ Mirror
<1>1. unseen = {} /\ open = {} /\ \A t \in Tickers : pos[t] = Flat /\ net[t] = 0
  BY DEF Init
<1>2. IsFiniteSet({}) /\ Counted({})
  BY FS_EmptySet DEF Counted
<1>3. \A t : OfMarket({}, t) = 0
  BY <1>2, OfMarketIs
<1>4. \A t \in Tickers : Signed(pos[t].side, pos[t].count) = 0
  BY <1>1, NoneSigned DEF Flat
<1> QED
  BY <1>1, <1>3, <1>4 DEF Parts, Mirror

-----------------------------------------------------------------------------
(* The theorems. *)

\* Every step keeps the flow.
LEMMA FlowStep == ASSUME IInv, TypeInv', [Next]_vars PROVE Flow'
<1> TypeInv /\ Parts /\ Flow
  BY DEF IInv
<1>1. ASSUME UNCHANGED <<pos, open, unseen, blind>> PROVE Flow'
  <2>1. \A s \in Tickers, d \in Sides :
          OneOrder(s, d)' <=> OneOrder(s, d)
    BY <1>1 DEF OneOrder, Outstanding
  <2>2. Pending' = Pending /\ Debt' = Debt
    BY <1>1 DEF Pending, Debt, Units, Value
  <2>3. \A s \in Tickers, d \in Sides :
          ToClose(s, d) \/ ToOpen(s, d) => (ToClose(s, d) \/ ToOpen(s, d))'
    <3>1. Pending' <= Pending /\ Debt' <= Debt
      <4>1. Pending \in Nat /\ Debt \in Nat
        BY PendingAmounts
      <4> QED
        BY <2>2, <4>1
    <3> QED
      BY <1>1, <3>1, LessPending
  <2> QED
    BY <1>1, <2>1, <2>3 DEF Flow
<1>2. ASSUME NEW t \in Tickers, NEW sd \in Sides, NEW n \in 1 .. PerOrderMax, NEW p \in Prices,
             TradeAllowed(t, sd, n, p)
      PROVE  Flow'
  BY <1>2, TradeKeepsFlow
<1>3. CASE SendReturns
  BY <1>1, <1>3 DEF SendReturns, exchange, history
<1>4. ASSUME NEW o \in open, Execute(o) PROVE Flow'
  BY <1>4, ExecuteKeepsFlow
<1>5. ASSUME NEW o \in open, Dies(o) PROVE Flow'
  BY <1>5, DiesKeepsFlow
<1>6. ASSUME NEW f \in unseen, Ingest(f) PROVE Flow'
  BY <1>6, IngestKeepsFlow
<1>7. CASE Reconcile
  BY <1>7, ReconcileKeepsFlow
<1>8. CASE Background \/ EngageHalt \/ ResumeHalt
  BY <1>1, <1>8 DEF Background, EngageHalt, ResumeHalt, exchange, history
<1>9. CASE UNCHANGED vars
  BY <1>1, <1>9 DEF vars, exchange, history
<1>10. ASSUME NEW t \in Tickers, Settles(t) PROVE Flow'
  BY <1>1, <1>10 DEF Settles
<1> QED
  BY <1>2, <1>3, <1>4, <1>5, <1>6, <1>7, <1>8, <1>9, <1>10 DEF Next

\* It starts with nothing on its way and all rows flat.
LEMMA FlowInit == ASSUME Init PROVE Flow
<1> SUFFICES ASSUME Tickers # {} PROVE Flow
  BY DEF Flow
<1> PICK s \in Tickers : TRUE
  OBVIOUS
<1>1. open = {} /\ unseen = {} /\ TypeInv
  BY TypeInit DEF Init
<1>2. \A t \in Tickers : /\ pos[t].count = 0 /\ pos[t].avg = 0
                         /\ Contracts(t) = 0 /\ Excess(t) = 0
  <2>1. \A t \in Tickers : pos[t] = Flat
    BY DEF Init
  <2>2. \A t \in Tickers : pos[t].count = 0 /\ pos[t].avg = 0
    BY <2>1 DEF Flat
  <2>3. K \in Nat /\ (2 * 0 - K) * 0 = 0
    BY Numbers
  <2> QED
    BY <2>1, <2>2, <2>3 DEF Contracts, Excess
<1>3. Pending = 0
  BY <1>1, PendingAmounts
<1>4. AtRest
  <2>1. \A t \in Tickers : /\ Excesses[t] \in Int
                           /\ 1 * Excesses[t] <= Excesses[t] + (-1) * Excesses[t]
    BY <1>1, <1>2, Amounts
  <2>2. 1 * Sum(Excesses, Tickers) <= Sum(Excesses, Tickers) + (-1) * Sum(Excesses, Tickers)
    BY <2>1, SumBounds, TickersAssumption
  <2>3. Sum(Excesses, Tickers) \in Nat
    BY <1>1, Amounts
  <2>4. Sum(Excesses, Tickers) = 0
    BY <2>2, <2>3
  <2> QED
    BY <1>2, <2>4, Numbers DEF AtRest, Excesses
<1>5. OneOrder(s, "yes")
  BY <1>1 DEF OneOrder, Outstanding
<1>6. ToClose(s, "yes")
  BY <1>2, <1>3, <1>4 DEF ToClose
<1> QED
  BY <1>5, <1>6, <1>6 DEF Flow, Sides

\* The inductive invariant holds.
LEMMA IInvHolds == Spec => []IInv
<1>1. Init => IInv
  BY FlowInit, TypeInit, MirrorInit DEF IInv
<1>2. IInv /\ [Next]_vars => IInv'
  BY FlowStep, TypeStep, PartsStep, MirrorStep DEF IInv
<1> QED
  BY <1>1, <1>2, PTL DEF Spec

\* As long as every order was answered for before the next was sized, and the
\* Reconciler gave no row more than it held, the caps of one market and of all hold,
\* for any caps and any prices, in every state: between the parts of an order, across
\* closings, partial fills, settlements and what the Reconciler takes off; but for
\* half a tick for each contract held and each part an order may come in.
THEOREM CapsKept == Spec => []CapsHold
<1>1. ASSUME IInv PROVE CapsHold
  <2> SUFFICES ASSUME ~blind
               PROVE  /\ 2 * (TotalCost - TotalCap) <= PerOrderMax * TotalCount
                      /\ \A t \in Tickers : 2 * (Cost(t) - MarketCap) <= PerOrderMax * Contracts(t)
    BY DEF CapsHold
  <2> TypeInv /\ Flow
    BY <1>1 DEF IInv
  <2>1. CASE Tickers = {}
    <3>1. TotalCost = 0 /\ TotalCount = 0
      BY <2>1, Amounts, SumSplits, TickersAssumption
    <3>2. TotalCap \in Nat /\ PerOrderMax \in Nat
      BY Numbers DEF K
    <3>3. PerOrderMax * 0 = 0
      BY <3>2
    <3> QED
      BY <2>1, <3>1, <3>2, <3>3
  <2>2. CASE Tickers # {}
    <3>1. PICK s \in Tickers, d \in Sides : ToClose(s, d) \/ ToOpen(s, d)
      BY <2>2 DEF Flow
    <3> QED
      BY <3>1, CapsFromFlow
  <2> QED
    BY <2>1, <2>2
<1> QED
  BY <1>1, IInvHolds, PTL

\* Whatever was outstanding when orders were sized: the row of every market that is
\* not astray is the exchange's position when the market's fills are in (apply_fill,
\* reconciliation.py), however many orders trade in parts, and whichever markets
\* settled or were left out of a listing meanwhile.
THEOREM MirrorExact == Spec => []MirrorsWhenSeen
<1>1. ASSUME IInv PROVE MirrorsWhenSeen
  <2> SUFFICES ASSUME NEW t \in Tickers \ astray, \A f \in unseen : f.ticker # t
               PROVE  Signed(pos[t].side, pos[t].count) = net[t]
    BY DEF MirrorsWhenSeen
  <2> TypeInv /\ Mirror
    BY <1>1 DEF IInv
  <2>1. OfMarket(unseen, t) = 0
    BY PendingAmounts, OfMarketIs
  <2>2. Signed(pos[t].side, pos[t].count) \in Int
    BY Amounts, SignedInt
  <2>3. net[t] = Signed(pos[t].side, pos[t].count) + OfMarket(unseen, t)
    BY DEF Mirror
  <2> QED
    BY <2>1, <2>2, <2>3
<1> QED
  BY <1>1, IInvHolds, PTL

\* Two integers of one sign have a product that is not negative.
LEMMA SameSign ==
    ASSUME NEW a \in Int, NEW b \in Int, (a >= 0 /\ b >= 0) \/ (a <= 0 /\ b <= 0)
    PROVE  a * b >= 0
<1>1. CASE a >= 0 /\ b >= 0
  BY <1>1
<1>2. CASE a <= 0 /\ b <= 0
  <2> DEFINE c == 0 - a
             e == 0 - b
  <2>1. c \in Nat /\ e \in Nat /\ a = 0 - c /\ b = 0 - e
    BY <1>2
  <2> HIDE DEF c, e
  <2>2. (0 - c) * (0 - e) = c * e /\ c * e \in Nat
    BY <2>1
  <2> QED
    BY <2>1, <2>2
<1> QED
  BY <1>1, <1>2

\* Of a row of h contracts, u bought at the exchange and k more.
LEMMA SameSignBuys ==
    ASSUME NEW e \in Sides, NEW d \in Sides, NEW h \in Nat, NEW u \in Nat, NEW k \in Nat,
           (e # d /\ k + u <= h) \/ h = 0 \/ e = d
    PROVE  (Signed(e, h) + Signed(d, u)) * (Signed(e, h) + Signed(d, u) + Signed(d, k)) >= 0
<1> DEFINE a == Signed(e, h) + Signed(d, u)
           b == Signed(e, h) + Signed(d, u) + Signed(d, k)
<1>1. \A n \in Int : -n = 0 - n
  OBVIOUS
<1>2. \A n \in Nat : /\ Signed("yes", n) = n /\ Signed("no", n) = 0 - n
                     /\ Signed("yes", n) \in Int /\ Signed("no", n) \in Int
  BY <1>1 DEF Signed
<1>3. a \in Int /\ b \in Int
  BY <1>2 DEF Sides
<1>4. (a >= 0 /\ b >= 0) \/ (a <= 0 /\ b <= 0)
  <2>1. CASE e = "yes" /\ d = "yes"
    BY <1>2, <2>1
  <2>2. CASE e = "no" /\ d = "no"
    BY <1>2, <2>2
  <2>3. CASE e = "yes" /\ d = "no"
    <3>1. a = h - u /\ b = h - u - k
      BY <1>2, <2>3
    <3> QED
      BY <2>3, <3>1
  <2>4. CASE e = "no" /\ d = "yes"
    <3>1. a = u - h /\ b = u + k - h
      BY <1>2, <2>4
    <3> QED
      BY <2>4, <3>1
  <2> QED
    BY <2>1, <2>2, <2>3, <2>4 DEF Sides
<1> QED
  BY <1>3, <1>4, SameSign

\* And, sized as the caps need it, no order takes the exchange's position through zero
\* to the other side in a market that is not astray: a closing one never has more on
\* its way than is held.
THEOREM NeverThroughZero == Spec => ClosingNeverOpens
<1>1. ASSUME IInv, IInv', [Next]_vars, ~blind', NEW t \in Tickers \ astray'
      PROVE  net[t] * net'[t] >= 0
  <2> TypeInv /\ Mirror /\ Flow /\ TypeInv'
    BY <1>1 DEF IInv
  <2>1. net[t] \in Int
    BY DEF TypeInv
  <2>2. CASE UNCHANGED net
    <3> DEFINE a == net[t]
    <3>1. a \in Int /\ net'[t] = a
      BY <2>1, <2>2
    <3> HIDE DEF a
    <3>2. a * a >= 0
      <4>1. CASE a >= 0
        BY <3>1, <4>1
      <4>2. CASE a <= 0
        BY <3>1, <4>2
      <4> QED
        BY <3>1, <4>1, <4>2
    <3> QED
      BY <3>1, <3>2 DEF a
  <2>3. ASSUME NEW o \in open, Execute(o) PROVE net[t] * net'[t] >= 0
    <3>1. PICK k \in 1 .. o.count : net' = [net EXCEPT ![o.ticker] = @ + Signed(o.side, k)]
      BY <2>3 DEF Execute
    <3>2. ~blind /\ t \in Tickers \ astray
      BY <1>1, <2>3 DEF Execute, history
    <3>3. PICK s \in Tickers, d \in Sides :
             OneOrder(s, d) /\ (ToClose(s, d) \/ ToOpen(s, d))
      BY <3>2 DEF Flow
    <3>4. o.ticker = s /\ o.side = d
      BY <3>3 DEF OneOrder, Outstanding
    <3>5. CASE t # s
      <4>1. net'[t] = net[t]
        BY <3>1, <3>4, <3>5 DEF TypeInv
      <4> QED
        BY <2>1, <4>1
    <3>6. CASE t = s
      <4> DEFINE held == pos[s].count
                 seen == Units(unseen)
      <4>1. net'[t] = net[t] + Signed(d, k)
        BY <3>1, <3>4, <3>6 DEF TypeInv
      <4>2. net[t] = Signed(pos[s].side, held) + Signed(d, seen)
        <5>1. OfMarket(unseen, s) = Signed(d, Units(unseen))
          BY <3>3, PendingAmounts, OfMarketSide DEF OneOrder, Outstanding
        <5> QED
          BY <3>2, <3>6, <5>1 DEF Mirror
      <4>3. /\ held \in Nat /\ seen \in Nat /\ k \in Nat /\ Contracts(s) = held
            /\ pos[s].side \in Sides
        <5>1. o.count \in Nat
          BY PendingAmounts DEF Counted
        <5> QED
          BY <5>1, Amounts, PendingAmounts
      <4>4. k + seen <= Pending
        <5>1. Units(open) = o.count + Units(open \ {o}) /\ Units(open \ {o}) \in Nat
          <6>1. IsFiniteSet(open \ {o}) /\ Counted(open \ {o})
                /\ Units(open) = o.count + Units(open \ {o})
            BY PendingAmounts, PendingSplits
          <6> QED
            BY <6>1, PendingNat
        <5>2. Pending = Units(open) + seen /\ o.count \in Nat
          BY PendingAmounts DEF Counted
        <5> QED
          BY <4>3, <5>1, <5>2
      <4> HIDE DEF held, seen
      <4>5. CASE ToClose(s, d)
        <5>1. k + seen <= held /\ pos[s].side # d
          <6>1. Pending <= held /\ (Pending = 0 \/ pos[s].side # d) /\ Pending \in Nat
            BY <4>3, <4>5, PendingAmounts DEF ToClose
          <6>2. k > 0
            BY <3>1
          <6> QED
            BY <4>3, <4>4, <6>1, <6>2
        <5> QED
          BY <3>3, <4>1, <4>2, <4>3, <5>1, SameSignBuys
      <4>6. CASE ToOpen(s, d)
        <5>1. held = 0 \/ pos[s].side = d
          BY <4>3, <4>6 DEF ToOpen
        <5> QED
          BY <3>3, <4>1, <4>2, <4>3, <5>1, SameSignBuys
      <4> QED
        BY <3>3, <4>5, <4>6
    <3> QED
      BY <3>5, <3>6
  <2>4. CASE \E o \in open : Execute(o)
    BY <2>3, <2>4
  <2>6. ASSUME NEW u \in Tickers, Settles(u) PROVE net[t] * net'[t] >= 0
    <3>1. t # u /\ net'[t] = net[t]
      BY <2>6 DEF Settles, TypeInv
    <3> QED
      BY <2>1, <3>1
  <2>5. CASE ~ (\E o \in open : Execute(o)) /\ ~ (\E u \in Tickers : Settles(u))
    <3>1. UNCHANGED net
      BY <1>1, <2>5, Zenon DEF Next, vars, exchange, TradeAllowed, SendReturns, Dies, Ingest,
                               Reconcile, Background, EngageHalt, ResumeHalt
    <3> QED
      BY <2>2, <3>1
  <2> QED
    BY <2>4, <2>5, <2>6
<1>2. IInv /\ IInv' /\ [Next]_vars
        => [~blind' => \A t \in Tickers \ astray' : net[t] * net'[t] >= 0]_vars
  BY <1>1
<1> QED
  BY <1>2, IInvHolds, PTL DEF Spec, ClosingNeverOpens
=============================================================================
