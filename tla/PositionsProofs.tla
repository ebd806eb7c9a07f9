--------------------------- MODULE PositionsProofs ---------------------------
(***************************************************************************)
(* For fills of any size and price, in any order: the local count is the   *)
(* exchange's, and a flat position has no cost.                            *)
(***************************************************************************)
EXTENDS Positions, TLAPS

PositionRow == [side : Sides, count : Nat, avg : Int, pnl : Int]

\* What a step needs: a well-formed row that mirrors the exchange.
IInv == pos \in PositionRow /\ net \in Int /\ CountMirrorsExchange /\ FlatHasNoCost

\* Rounding an average moves b contracts by at most half a tick each.
LEMMA HalfEvenNear ==
    ASSUME NEW a \in Int, NEW b \in Nat \ {0}
    PROVE  /\ HalfEven(a, b) \in Int
           /\ 2 * (HalfEven(a, b) * b - a) <= b /\ 2 * (a - HalfEven(a, b) * b) <= b
<1> DEFINE q == a \div b
           r == a % b
<1>1. q \in Int /\ r \in 0 .. b - 1 /\ a = q * b + r
  OBVIOUS
<1>2. HalfEven(a, b) = IF 2 * r < b \/ (2 * r = b /\ q % 2 = 0) THEN q ELSE q + 1
  BY DEF HalfEven
<1> HIDE DEF q, r
<1>3. CASE HalfEven(a, b) = q /\ 2 * r <= b
  BY <1>1, <1>3
<1>4. CASE HalfEven(a, b) = q + 1 /\ 2 * r >= b
  <2>1. (q + 1) * b = q * b + b
    BY <1>1
  <2> QED
    BY <1>1, <1>4, <2>1
<1> QED
  BY <1>1, <1>2, <1>3, <1>4

\* Products of integers are integers.
LEMMA ProductIsInt == ASSUME NEW a \in Int, NEW b \in Int PROVE a * b \in Int
  OBVIOUS

\* Fees are whole ticks.
LEMMA FeeIsInt == ASSUME NEW n \in Nat, NEW p \in Int, NEW taker
                  PROVE  Fee(n, p, taker) \in Int
<1>1. TakerFeeCents(p) \in Int
  BY DEF TakerFeeCents, Dollar
<1> QED
  BY <1>1 DEF Fee

\* Buying n of a side moves the signed count by n towards that side, whether it
\* opens, adds, pairs off or flips, and leaves no price on a flat position.
LEMMA BuyMoves ==
    ASSUME NEW P \in PositionRow, NEW sd \in Sides, NEW n \in Nat \ {0}, NEW p \in Int
    PROVE  /\ Buy(P, sd, n, p) \in PositionRow
           /\ Signed(Buy(P, sd, n, p).side, Buy(P, sd, n, p).count)
                = Signed(P.side, P.count) + Signed(sd, n)
           /\ Buy(P, sd, n, p).count = 0 => Buy(P, sd, n, p).avg = 0
<1> DEFINE average == HalfEven(P.avg * P.count + p * n, P.count + n)
<1>1. average \in Int
  <2>1. P.avg * P.count + p * n \in Int /\ P.count + n \in Nat \ {0}
    BY DEF PositionRow
  <2> QED
    BY <2>1, HalfEvenNear
<1> HIDE DEF average
<1>2. CASE P.count = 0
  BY <1>2 DEF Buy, Held, Signed, Sides, PositionRow
<1>3. CASE P.count # 0 /\ P.side = sd
  <2>1. Buy(P, sd, n, p) = Held(P, sd, P.count + n, average)
    BY <1>3 DEF Buy, average, PositionRow
  <2> QED
    BY <2>1, <1>1, <1>3 DEF Held, Signed, Sides, PositionRow
<1>4. CASE P.count # 0 /\ P.side # sd
  BY <1>4 DEF Buy, Held, Signed, Sides, PositionRow
<1> QED
  BY <1>2, <1>3, <1>4

\* Selling n held contracts takes n off the side.
LEMMA SellMoves ==
    ASSUME NEW P \in PositionRow, NEW sd \in Sides, NEW n \in Nat \ {0},
           P.side = sd, n <= P.count, P.count = 0 => P.avg = 0
    PROVE  /\ Sell(P, sd, n) \in PositionRow
           /\ Sell(P, sd, n).side = sd /\ Sell(P, sd, n).count = P.count - n
           /\ Sell(P, sd, n).count = 0 => Sell(P, sd, n).avg = 0
  BY DEF Sell, Held, PositionRow

\* Settling the PnL touches nothing else of the row.
LEMMA SettleKeeps ==
    ASSUME NEW P \in PositionRow, NEW r \in Int, NEW f \in Int
    PROVE  /\ Settle(P, r, f) \in PositionRow
           /\ Settle(P, r, f).side = P.side /\ Settle(P, r, f).count = P.count
           /\ Settle(P, r, f).avg = P.avg
  BY DEF Settle, PositionRow

\* A bought fill keeps the mirror.
LEMMA BuyKeepsIInv ==
    ASSUME IInv, NEW sd \in Sides, NEW n \in Counts, NEW p \in Prices,
           NEW taker, BuyFill(sd, n, p, taker)
    PROVE  IInv'
<1> DEFINE Q == Buy(pos, sd, n, p)
<1>1. n \in Nat \ {0} /\ n \in Nat /\ p \in Int /\ pos \in PositionRow
  BY CountsAssumption, PricesAssumption DEF IInv, Dollar
<1>0. pos.count \in Nat /\ pos.avg \in Int /\ pos.side \in Sides
  BY <1>1 DEF PositionRow
<1>2. Q \in PositionRow /\ (Q.count = 0 => Q.avg = 0)
      /\ Signed(Q.side, Q.count) = Signed(pos.side, pos.count) + Signed(sd, n)
  BY <1>1, BuyMoves
<1>3. Fee(n, p, taker) \in Int
  BY <1>1, FeeIsInt, Zenon
<1>4. BuyRealizes(pos, sd, n, p) \in Int
  <2>1. Dollar - pos.avg - p \in Int /\ Least(pos.count, n) \in Int /\ 0 \in Int
    BY <1>0, <1>1 DEF Least, Dollar
  <2> QED
    BY <2>1, ProductIsInt, Zenon DEF BuyRealizes
<1>5. pos' = Settle(Q, BuyRealizes(pos, sd, n, p), Fee(n, p, taker))
      /\ net' = net + Signed(sd, n)
  BY DEF BuyFill
<1>6. /\ pos' \in PositionRow
      /\ pos'.side = Q.side /\ pos'.count = Q.count /\ pos'.avg = Q.avg
  BY <1>2, <1>3, <1>4, <1>5, SettleKeeps
<1>7. Signed(sd, n) \in Int
  BY <1>1 DEF Signed
<1> QED
  BY <1>2, <1>5, <1>6, <1>7 DEF IInv, CountMirrorsExchange, FlatHasNoCost

\* So does a sold one, of contracts the account holds.
LEMMA SellKeepsIInv ==
    ASSUME IInv, NEW sd \in Sides, NEW n \in Counts, NEW p \in Prices,
           NEW taker, SellFill(sd, n, p, taker)
    PROVE  IInv'
<1> DEFINE Q == Sell(pos, sd, n)
<1>1. n \in Nat \ {0} /\ n \in Nat /\ p \in Int /\ pos \in PositionRow
  BY CountsAssumption, PricesAssumption DEF IInv, Dollar
<1>0. pos.count \in Nat /\ pos.avg \in Int /\ pos.side \in Sides
  BY <1>1 DEF PositionRow
<1>2. pos.side = sd /\ n <= pos.count /\ Signed(sd, pos.count) = net
  <2>1. Signed(sd, net) >= n /\ net = Signed(pos.side, pos.count)
    BY DEF SellFill, IInv, CountMirrorsExchange
  <2> QED
    BY <1>0, <1>1, <2>1 DEF Signed, Sides
<1>3. Q \in PositionRow /\ Q.side = sd /\ Q.count = pos.count - n
      /\ (Q.count = 0 => Q.avg = 0)
  BY <1>1, <1>2, SellMoves DEF IInv, FlatHasNoCost
<1>4. Fee(n, p, taker) \in Int
  BY <1>1, FeeIsInt, Zenon
<1>5. SellRealizes(pos, sd, n, p) \in Int
  <2>1. p - pos.avg \in Int /\ Least(pos.count, n) \in Int /\ 0 \in Int
    BY <1>0, <1>1 DEF Least
  <2> QED
    BY <2>1, ProductIsInt, Zenon DEF SellRealizes
<1>6. pos' = Settle(Q, SellRealizes(pos, sd, n, p), Fee(n, p, taker))
      /\ net' = net - Signed(sd, n)
  BY DEF SellFill
<1>7. /\ pos' \in PositionRow
      /\ pos'.side = Q.side /\ pos'.count = Q.count /\ pos'.avg = Q.avg
  BY <1>3, <1>4, <1>5, <1>6, SettleKeeps
<1>8. Signed(sd, pos.count - n) = net - Signed(sd, n)
  BY <1>0, <1>1, <1>2 DEF Signed
<1>9. net' \in Int
  BY <1>1, <1>6 DEF IInv, Signed
<1> QED
  BY <1>3, <1>6, <1>7, <1>8, <1>9 DEF IInv, CountMirrorsExchange, FlatHasNoCost

\* The invariant holds in every reachable state.
LEMMA IInvHolds == Spec => []IInv
<1>1. Init => IInv
  BY DEF Init, Flat, IInv, PositionRow, Sides, CountMirrorsExchange, Signed, FlatHasNoCost
<1>2. IInv /\ [Next]_vars => IInv'
  <2> SUFFICES ASSUME IInv, [Next]_vars PROVE IInv'
    OBVIOUS
  <2>1. CASE ApplyFill
    BY <2>1, BuyKeepsIInv, SellKeepsIInv DEF ApplyFill
  <2>2. CASE UNCHANGED vars
    BY <2>2 DEF vars, IInv, CountMirrorsExchange, FlatHasNoCost
  <2> QED
    BY <2>1, <2>2 DEF Next
<1> QED
  BY <1>1, <1>2, PTL DEF Spec

\* No sequence of fills loses or makes a contract.
THEOREM MirrorsExchange == Spec => []CountMirrorsExchange
<1>1. IInv => CountMirrorsExchange
  BY DEF IInv
<1> QED
  BY <1>1, IInvHolds, PTL

\* A flat position never carries a price into exposure or the next opening.
THEOREM FlatIsFree == Spec => []FlatHasNoCost
<1>1. IInv => FlatHasNoCost
  BY DEF IInv
<1> QED
  BY <1>1, IInvHolds, PTL

-----------------------------------------------------------------------------
(* Every dollar is accounted for. *)

\* Contracts of a fill that pair off with what a row holds.
Paired(P, sd, n) == IF P.count > 0 /\ P.side # sd THEN Least(P.count, n) ELSE 0

\* By how much a bought fill moves what was paid in and not yet realized away from
\* what the row says it is.
Drift(P, sd, n, p) ==
    p * n - Dollar * Paired(P, sd, n) + BuyRealizes(P, sd, n, p)
        + P.count * P.avg - Buy(P, sd, n, p).count * Buy(P, sd, n, p).avg

\* Opening, pairing off, closing and flipping are exact; an average is off by at
\* most half a tick for each contract.
LEMMA BuyAccounts ==
    ASSUME NEW P \in PositionRow, NEW sd \in Sides, NEW n \in Nat \ {0}, NEW p \in Int
    PROVE  /\ Drift(P, sd, n, p) \in Int
           /\ IF P.count > 0 /\ P.side = sd
              THEN 2 * Drift(P, sd, n, p) <= P.count + n /\ -2 * Drift(P, sd, n, p) <= P.count + n
              ELSE Drift(P, sd, n, p) = 0
<1>0. P.count \in Nat /\ P.avg \in Int
  BY DEF PositionRow
<1>1. CASE P.count = 0
  BY <1>0, <1>1 DEF Drift, Paired, BuyRealizes, Buy, Held, Dollar
<1>2. CASE P.count > 0 /\ P.side = sd
  <2> DEFINE total == P.avg * P.count + p * n
             held == P.count + n
  <2>1. total \in Int /\ held \in Nat \ {0} /\ total = p * n + P.count * P.avg
    BY <1>0
  <2>4. Buy(P, sd, n, p) = Held(P, sd, held, HalfEven(total, held))
    BY <1>0, <1>2 DEF Buy
  <2> HIDE DEF total, held
  <2>5. /\ Buy(P, sd, n, p).count = held /\ Buy(P, sd, n, p).avg = HalfEven(total, held)
        /\ Paired(P, sd, n) = 0 /\ BuyRealizes(P, sd, n, p) = 0
    BY <1>2, <2>4 DEF Held, Paired, BuyRealizes
  <2>3. /\ HalfEven(total, held) \in Int
        /\ 2 * (HalfEven(total, held) * held - total) <= held
        /\ 2 * (total - HalfEven(total, held) * held) <= held
    BY <2>1, HalfEvenNear
  <2>2. Drift(P, sd, n, p) = total - held * HalfEven(total, held)
    BY <1>0, <2>1, <2>3, <2>5 DEF Drift, Dollar
  <2> QED
    BY <1>2, <2>1, <2>2, <2>3 DEF held
<1>3. CASE P.count > 0 /\ P.side # sd
  <2>1. CASE P.count > n
    BY <1>0, <1>3, <2>1 DEF Drift, Paired, BuyRealizes, Buy, Held, Least, Dollar
  <2>2. CASE P.count = n
    BY <1>0, <1>3, <2>2 DEF Drift, Paired, BuyRealizes, Buy, Held, Least, Dollar
  <2>3. CASE P.count < n
    BY <1>0, <1>3, <2>3 DEF Drift, Paired, BuyRealizes, Buy, Held, Least, Dollar
  <2> QED
    BY <1>0, <2>1, <2>2, <2>3
<1> QED
  BY <1>0, <1>1, <1>2, <1>3

\* A sell realizes what it takes out of the row.
LEMMA SellAccounts ==
    ASSUME NEW P \in PositionRow, NEW sd \in Sides, NEW n \in Nat \ {0}, NEW p \in Int,
           P.side = sd, n <= P.count
    PROVE  SellRealizes(P, sd, n, p) \in Int
           /\ p * n = SellRealizes(P, sd, n, p)
                        + P.count * P.avg - Sell(P, sd, n).count * Sell(P, sd, n).avg
<1>0. P.count \in Nat /\ P.avg \in Int
  BY DEF PositionRow
<1>1. SellRealizes(P, sd, n, p) = (p - P.avg) * n
  BY <1>0 DEF SellRealizes, Least
<1>2. Sell(P, sd, n).count = P.count - n
      /\ Sell(P, sd, n).count * Sell(P, sd, n).avg = (P.count - n) * P.avg
  BY <1>0 DEF Sell, Held
<1>3. /\ (p - P.avg) * n = p * n - P.avg * n /\ (P.count - n) * P.avg = P.count * P.avg - P.avg * n
      /\ (p - P.avg) * n \in Int
  BY <1>0
<1> QED
  BY <1>0, <1>1, <1>2, <1>3

\* The account of the cash, with the types it needs.
CashInv == IInv /\ cash \in Int /\ slack \in Nat /\ PnlAccountsForCash

\* What the row adds to the gap is what the exchange paid and took, up to the drift.
LEMMA BuyKeepsCash ==
    ASSUME CashInv, NEW sd \in Sides, NEW n \in Counts, NEW p \in Prices,
           NEW taker, BuyFill(sd, n, p, taker)
    PROVE  cash' \in Int /\ slack' \in Nat /\ PnlAccountsForCash'
<1> DEFINE Q == Buy(pos, sd, n, p)
           fee == Fee(n, p, taker)
           realized == BuyRealizes(pos, sd, n, p)
           gap == cash - (pos.count * pos.avg - pos.pnl)
<1>1. n \in Nat \ {0} /\ n \in Nat /\ p \in Int /\ pos \in PositionRow
  BY CountsAssumption, PricesAssumption DEF CashInv, IInv, Dollar
<1>2. pos.count \in Nat /\ pos.avg \in Int /\ pos.pnl \in Int /\ pos.side \in Sides
  BY <1>1 DEF PositionRow
<1>3. fee \in Int
  BY <1>1, FeeIsInt, Zenon
<1>4. realized \in Int
  <2>1. Dollar - pos.avg - p \in Int /\ Least(pos.count, n) \in Int /\ 0 \in Int
    BY <1>1, <1>2 DEF Least, Dollar
  <2> QED
    BY <2>1, ProductIsInt, Zenon DEF BuyRealizes
<1>5. Pairs(sd, n) = Paired(pos, sd, n)
  BY <1>1, <1>2 DEF CashInv, IInv, CountMirrorsExchange, Signed, Sides, Pairs, Paired, Least
<1>6. Q \in PositionRow
  BY <1>1, BuyMoves
<1>7. Q.count \in Int /\ Q.avg \in Int /\ Q.pnl = pos.pnl
  BY <1>6 DEF PositionRow, Buy, Held
<1> HIDE DEF Q, fee, realized
<1>8. pos'.count = Q.count /\ pos'.avg = Q.avg /\ pos'.pnl = pos.pnl + realized - fee
  BY <1>3, <1>4, <1>6, <1>7 DEF BuyFill, Settle, PositionRow, Q, fee, realized
<1>9. /\ cash' = cash + p * n + fee - Dollar * Paired(pos, sd, n)
      /\ slack' = IF pos.count > 0 /\ pos.side = sd THEN slack + pos.count + n ELSE slack
  BY <1>5 DEF BuyFill, fee
<1>10. Paired(pos, sd, n) \in Int
  BY <1>1, <1>2 DEF Paired, Least
<1>11. gap' = gap + Drift(pos, sd, n, p)
  BY <1>1, <1>2, <1>3, <1>4, <1>7, <1>8, <1>9, <1>10 DEF Drift, Q, fee, realized, CashInv, Dollar
<1>12. Drift(pos, sd, n, p) \in Int
       /\ IF pos.count > 0 /\ pos.side = sd
          THEN 2 * Drift(pos, sd, n, p) <= pos.count + n /\ -2 * Drift(pos, sd, n, p) <= pos.count + n
          ELSE Drift(pos, sd, n, p) = 0
  BY <1>1, BuyAccounts
<1>13. gap \in Int /\ 2 * gap <= slack /\ -2 * gap <= slack /\ slack \in Nat
  BY <1>2 DEF CashInv, PnlAccountsForCash
<1>14. cash' \in Int
  BY <1>1, <1>3, <1>9, <1>10 DEF CashInv, Dollar
<1> HIDE DEF gap
<1>15. slack' \in Nat /\ 2 * gap' <= slack' /\ -2 * gap' <= slack'
  BY <1>1, <1>2, <1>9, <1>11, <1>12, <1>13
<1> QED
  BY <1>14, <1>15 DEF gap, PnlAccountsForCash

\* A sell moves cash and row by the same amount.
LEMMA SellKeepsCash ==
    ASSUME CashInv, NEW sd \in Sides, NEW n \in Counts, NEW p \in Prices,
           NEW taker, SellFill(sd, n, p, taker)
    PROVE  cash' \in Int /\ slack' \in Nat /\ PnlAccountsForCash'
<1> DEFINE Q == Sell(pos, sd, n)
           fee == Fee(n, p, taker)
           realized == SellRealizes(pos, sd, n, p)
           gap == cash - (pos.count * pos.avg - pos.pnl)
<1>1. n \in Nat \ {0} /\ n \in Nat /\ p \in Int /\ pos \in PositionRow
  BY CountsAssumption, PricesAssumption DEF CashInv, IInv, Dollar
<1>2. pos.count \in Nat /\ pos.avg \in Int /\ pos.pnl \in Int /\ pos.side \in Sides
  BY <1>1 DEF PositionRow
<1>3. fee \in Int
  BY <1>1, FeeIsInt, Zenon
<1>4. pos.side = sd /\ n <= pos.count
  BY <1>1, <1>2 DEF SellFill, CashInv, IInv, CountMirrorsExchange, Signed, Sides
<1>5. realized \in Int /\ p * n = realized + pos.count * pos.avg - Q.count * Q.avg
  BY <1>1, <1>4, SellAccounts
<1>6. Q \in PositionRow
  BY <1>1, <1>4, SellMoves DEF CashInv, IInv, FlatHasNoCost
<1>7. Q.count \in Int /\ Q.avg \in Int /\ Q.pnl = pos.pnl
  BY <1>6 DEF PositionRow, Sell, Held
<1> HIDE DEF Q, fee, realized
<1>8. pos'.count = Q.count /\ pos'.avg = Q.avg /\ pos'.pnl = pos.pnl + realized - fee
  BY <1>3, <1>5, <1>6, <1>7 DEF SellFill, Settle, PositionRow, Q, fee, realized
<1>9. cash' = cash - p * n + fee /\ slack' = slack
  BY DEF SellFill, fee
<1>10. gap' = gap
  <2>1. /\ p * n \in Int /\ Q.count * Q.avg \in Int /\ pos.count * pos.avg \in Int
        /\ pos'.count * pos'.avg = Q.count * Q.avg
    BY <1>1, <1>2, <1>7, <1>8, ProductIsInt
  <2> QED
    BY <1>2, <1>3, <1>5, <1>8, <1>9, <2>1 DEF CashInv
<1>11. cash' \in Int
  BY <1>1, <1>3, <1>9 DEF CashInv
<1>12. 2 * gap' <= slack' /\ -2 * gap' <= slack'
  BY <1>9, <1>10 DEF CashInv, PnlAccountsForCash
<1> QED
  BY <1>9, <1>11, <1>12 DEF CashInv, PnlAccountsForCash

\* The account holds in every reachable state.
LEMMA CashInvHolds == Spec => []CashInv
<1>1. Init => CashInv
  BY DEF Init, Flat, CashInv, IInv, PositionRow, Sides, CountMirrorsExchange, Signed,
         FlatHasNoCost, PnlAccountsForCash
<1>2. CashInv /\ [Next]_vars => CashInv'
  <2> SUFFICES ASSUME CashInv, [Next]_vars PROVE CashInv'
    OBVIOUS
  <2>1. CASE ApplyFill
    BY <2>1, BuyKeepsIInv, SellKeepsIInv, BuyKeepsCash, SellKeepsCash DEF ApplyFill, CashInv
  <2>2. CASE UNCHANGED vars
    BY <2>2 DEF vars, CashInv, IInv, CountMirrorsExchange, FlatHasNoCost, PnlAccountsForCash
  <2> QED
    BY <2>1, <2>2 DEF Next
<1> QED
  BY <1>1, <1>2, PTL DEF Spec

\* Over any sequence of openings, pairings, flips and sells, at any prices and fees:
\* what was paid in is what the open contracts cost less the PnL the row says was
\* realized, up to half a tick for each contract averaged (apply_fill, fees.py).
THEOREM CashAccounted == Spec => []PnlAccountsForCash
<1>1. CashInv => PnlAccountsForCash
  BY DEF CashInv
<1> QED
  BY <1>1, CashInvHolds, PTL

-----------------------------------------------------------------------------
(* Averages stay prices: the type invariant. *)

\* A quotient of at most d is also rounded at most d, and never below nothing.
LEMMA RoundedStays ==
    ASSUME NEW b \in Nat \ {0}, NEW d \in Nat, NEW a \in Int, 0 <= a, a <= d * b
    PROVE  HalfEven(a, b) \in 0 .. d
<1> DEFINE h == HalfEven(a, b)
<1>1. h \in Int /\ 2 * (h * b - a) <= b /\ 2 * (a - h * b) <= b
  BY HalfEvenNear
<1> HIDE DEF h
<1>2. ASSUME h < 0 PROVE FALSE
  <2>1. h * b <= -b
    BY <1>1, <1>2
  <2> QED
    BY <1>1, <2>1
<1>3. ASSUME h > d PROVE FALSE
  <2>1. h * b >= (d + 1) * b /\ (d + 1) * b = d * b + b /\ h * b \in Int /\ d * b \in Int
    BY <1>1, <1>3
  <2> QED
    BY <1>1, <2>1
<1>4. h \in 0 .. d
  BY <1>1, <1>2, <1>3
<1> QED
  BY <1>4 DEF h

\* Prices average to a price.
LEMMA AverageStays ==
    ASSUME NEW d \in Nat, NEW x \in 0 .. d, NEW y \in 0 .. d, NEW c \in Nat, NEW n \in Nat \ {0}
    PROVE  HalfEven(x * c + y * n, c + n) \in 0 .. d
<1>1. 0 <= x * c /\ x * c <= d * c /\ 0 <= y * n /\ y * n <= d * n
      /\ x * c \in Int /\ y * n \in Int /\ d * c \in Int /\ d * n \in Int
  <2>1. \A u \in 0 .. d, k \in Nat : 0 <= u * k /\ u * k <= d * k /\ u * k \in Int /\ d * k \in Int
    OBVIOUS
  <2> QED
    BY <2>1
<1>2. d * (c + n) = d * c + d * n /\ c + n \in Nat \ {0}
  OBVIOUS
<1>3. x * c + y * n \in Int /\ 0 <= x * c + y * n /\ x * c + y * n <= d * (c + n)
  BY <1>1, <1>2
<1> QED
  BY <1>2, <1>3, RoundedStays

\* In each of its cases buying leaves a price as the average, or none.
LEMMA BuyAtPrice ==
    ASSUME NEW P \in PositionRow, NEW sd \in Sides, NEW n \in Nat \ {0},
           NEW p \in 0 .. Dollar - 1, P.avg \in 0 .. Dollar - 1
    PROVE  Buy(P, sd, n, p).avg \in 0 .. Dollar - 1
<1>0. P.count \in Nat
  BY DEF PositionRow
<1>1. Dollar - 1 \in Nat /\ 0 \in 0 .. Dollar - 1
  BY DEF Dollar
<1>2. HalfEven(P.avg * P.count + p * n, P.count + n) \in 0 .. Dollar - 1
  BY <1>0, <1>1, AverageStays
<1>3. Buy(P, sd, n, p).avg \in {p, P.avg, 0, HalfEven(P.avg * P.count + p * n, P.count + n)}
  BY DEF Buy, Held
<1> QED
  BY <1>1, <1>2, <1>3

\* Whatever is bought and sold, the row is a position: a side, a count that is not
\* negative, and an average between nothing and a dollar.
THEOREM TypeCorrect == Spec => []TypeOK
<1>1. Init => TypeOK
  BY MaxFillsAssumption DEF Init, Flat, TypeOK, Sides, Dollar
<1>2. CashInv /\ CashInv' /\ TypeOK /\ [Next]_vars => TypeOK'
  <2> SUFFICES ASSUME CashInv, CashInv', TypeOK, [Next]_vars PROVE TypeOK'
    OBVIOUS
  <2>1. /\ pos'.side \in Sides /\ pos'.count \in Nat /\ pos'.pnl \in Int
        /\ net' \in Int /\ cash' \in Int /\ slack' \in Nat
    BY DEF CashInv, IInv, PositionRow
  <2>2. CASE ApplyFill
    <3>1. fills' \in 0 .. MaxFills
      BY <2>2, MaxFillsAssumption DEF ApplyFill, TypeOK
    <3>2. PICK sd \in Sides, n \in Counts, p \in Prices, taker \in BOOLEAN :
             BuyFill(sd, n, p, taker) \/ SellFill(sd, n, p, taker)
      BY <2>2 DEF ApplyFill
    <3>3. n \in Nat \ {0} /\ p \in 1 .. Dollar - 1 /\ pos \in PositionRow
      BY CountsAssumption, PricesAssumption DEF CashInv, IInv
    <3>4. Buy(pos, sd, n, p).avg \in 0 .. Dollar - 1
      <4>1. p \in 0 .. Dollar - 1
        BY <3>3 DEF Dollar
      <4> QED
        BY <3>3, <4>1, BuyAtPrice DEF TypeOK
    <3>5. Sell(pos, sd, n).avg \in 0 .. Dollar - 1
      <4>1. Sell(pos, sd, n).avg \in {pos.avg, 0}
        BY DEF Sell, Held
      <4>2. pos.avg \in 0 .. Dollar - 1
        BY DEF TypeOK
      <4>3. 0 \in 0 .. Dollar - 1
        BY DEF Dollar
      <4> QED
        BY <4>1, <4>2, <4>3
    <3>6. pos'.avg \in {Buy(pos, sd, n, p).avg, Sell(pos, sd, n).avg}
      <4>1. \A P \in PositionRow : \A x : [P EXCEPT !.pnl = x].avg = P.avg
        BY DEF PositionRow
      <4>2. ASSUME BuyFill(sd, n, p, taker) PROVE pos'.avg = Buy(pos, sd, n, p).avg
        <5>1. Buy(pos, sd, n, p) \in PositionRow
          BY <3>3, BuyMoves DEF Dollar
        <5> QED
          BY <4>1, <4>2, <5>1 DEF BuyFill, Settle
      <4>3. ASSUME SellFill(sd, n, p, taker) PROVE pos'.avg = Sell(pos, sd, n).avg
        <5>1. Sell(pos, sd, n) \in PositionRow
          BY <3>3 DEF Sell, Held, PositionRow
        <5> QED
          BY <4>1, <4>3, <5>1 DEF SellFill, Settle
      <4> QED
        BY <3>2, <4>2, <4>3
    <3> QED
      BY <2>1, <3>1, <3>4, <3>5, <3>6 DEF TypeOK
  <2>3. CASE UNCHANGED vars
    BY <2>3 DEF vars, TypeOK
  <2> QED
    BY <2>2, <2>3 DEF Next
<1> QED
  BY <1>1, <1>2, CashInvHolds, PTL DEF Spec
=============================================================================
