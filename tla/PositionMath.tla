---------------------------- MODULE PositionMath ----------------------------
(***************************************************************************)
(* What apply_fill computes from a position and a fill: contracts of one   *)
(* side at an average price, and the PnL realized.  Money is in ticks of   *)
(* $0.0001, the precision prices and averages are stored with; the average *)
(* is rounded half-even, as Decimal.quantize does.                         *)
(***************************************************************************)
EXTENDS Integers

Dollar == 10000
Sides  == {"yes", "no"}
Flat   == [side |-> "yes", count |-> 0, avg |-> 0, pnl |-> 0]

(* fees.py: 7 % of P(1-P), rounded up to the cent; a maker pays a quarter. *)

TakerFeeCents(p) == (7 * p * (Dollar - p) + 99999999) \div 100000000
Fee(n, p, taker) == n * TakerFeeCents(p) * (IF taker THEN 100 ELSE 25)

\* Mutant: the total is not divided.
HalfEvenOfTotal(a, b) == a + b - b

\* a/b to the nearest integer, a tie to the even one.
HalfEven(a, b) ==
    LET q == a \div b
        r == a % b
    IN  IF 2 * r < b \/ (2 * r = b /\ q % 2 = 0) THEN q ELSE q + 1

Least(a, b) == IF a < b THEN a ELSE b

Held(P, sd, n, p) == [side |-> sd, count |-> n, avg |-> p, pnl |-> P.pnl]

\* Mutant: what goes past the held side is lost.
BuyWithoutRemainder(P, sd, n, p) ==
    IF P.count = 0 THEN Held(P, sd, n, p)
    ELSE IF P.side = sd
    THEN Held(P, sd, P.count + n, HalfEven(P.avg * P.count + p * n, P.count + n))
    ELSE IF P.count > n THEN Held(P, P.side, P.count - n, P.avg)
    ELSE Held(P, P.side, 0, 0)

\* Mutant: a position paired off keeps its average.
BuyKeepsAverage(P, sd, n, p) ==
    IF P.count = 0 THEN Held(P, sd, n, p)
    ELSE IF P.side = sd
    THEN Held(P, sd, P.count + n, HalfEven(P.avg * P.count + p * n, P.count + n))
    ELSE IF P.count >= n THEN Held(P, P.side, P.count - n, P.avg)
    ELSE Held(P, sd, n - P.count, p)

\* The position after buying n of side sd at p, and what that realizes.
Buy(P, sd, n, p) ==
    IF P.count = 0 THEN Held(P, sd, n, p)
    ELSE IF P.side = sd
    THEN Held(P, sd, P.count + n, HalfEven(P.avg * P.count + p * n, P.count + n))
    ELSE IF P.count > n THEN Held(P, P.side, P.count - n, P.avg)
    ELSE IF P.count = n THEN Held(P, P.side, 0, 0)
    ELSE Held(P, sd, n - P.count, p)

\* Mutant: all n contracts are taken as paired.
BuyRealizesAll(P, sd, n, p) ==
    IF P.count > 0 /\ P.side # sd THEN (Dollar - P.avg - p) * n ELSE 0

BuyRealizes(P, sd, n, p) ==
    IF P.count > 0 /\ P.side # sd
    THEN (Dollar - P.avg - p) * Least(P.count, n) ELSE 0

\* A sell closes what is held of the side, and is ignored when nothing is.
Sell(P, sd, n) ==
    IF P.side # sd \/ P.count = 0 THEN P
    ELSE IF P.count > n THEN Held(P, sd, P.count - n, P.avg) ELSE Held(P, sd, 0, 0)

SellRealizes(P, sd, n, p) ==
    IF P.side = sd THEN (p - P.avg) * Least(P.count, n) ELSE 0

\* The tail of apply_fill: the fee comes off what the fill realized.
Settle(P, realized, fee) == [P EXCEPT !.pnl = @ + realized - fee]

\* Contracts as the exchange counts them: positive for yes, negative for no.
Signed(sd, n) == IF sd = "yes" THEN n ELSE -n
=============================================================================
