------------------------------ MODULE Positions ------------------------------
(***************************************************************************)
(* The position of one market as apply_fill keeps it: contracts of one     *)
(* side at an average price, and the PnL realized so far.  Buying the      *)
(* other side pairs contracts off at $1 a pair.                            *)
(***************************************************************************)
EXTENDS PositionMath

CONSTANTS
    Counts,     \* contracts of a fill
    Prices,     \* prices of a fill, in ticks
    MaxFills    \* bound: fills of a run

ASSUME CountsAssumption == Counts \subseteq Nat \ {0}
ASSUME PricesAssumption == Prices \subseteq 1 .. Dollar - 1
ASSUME MaxFillsAssumption == MaxFills \in Nat

VARIABLES
    pos,        \* the positions row: side, count, avg, pnl
    fills,      \* fills applied (bound)
    \* history, the exchange's account of the same fills:
    net,        \* contracts, positive for yes and negative for no
    cash,       \* paid in less paid out, fees included
    slack       \* contracts averaged: each may be half a tick off

vars == <<pos, fills, net, cash, slack>>

-----------------------------------------------------------------------------
\* Pairs the exchange pays a dollar each for.
Pairs(sd, n) == IF net # 0 /\ (net > 0) # (sd = "yes")
                THEN Least(IF net > 0 THEN net ELSE -net, n) ELSE 0

BuyFill(sd, n, p, taker) ==
    /\ pos' = Settle(Buy(pos, sd, n, p), BuyRealizes(pos, sd, n, p), Fee(n, p, taker))
    /\ net' = net + Signed(sd, n)
    /\ cash' = cash + p * n + Fee(n, p, taker) - Dollar * Pairs(sd, n)
    /\ slack' = IF pos.count > 0 /\ pos.side = sd THEN slack + pos.count + n ELSE slack

\* The exchange sells only what the account holds.
SellFill(sd, n, p, taker) ==
    /\ Signed(sd, net) >= n
    /\ pos' = Settle(Sell(pos, sd, n), SellRealizes(pos, sd, n, p), Fee(n, p, taker))
    /\ net' = net - Signed(sd, n)
    /\ cash' = cash - p * n + Fee(n, p, taker)
    /\ UNCHANGED slack

ApplyFill ==
    /\ fills < MaxFills
    /\ fills' = fills + 1
    /\ \E sd \in Sides, n \in Counts, p \in Prices, taker \in BOOLEAN :
          BuyFill(sd, n, p, taker) \/ SellFill(sd, n, p, taker)

Init == /\ pos = Flat
        /\ fills = 0 /\ net = 0 /\ cash = 0 /\ slack = 0

Next == ApplyFill
Spec == Init /\ [][Next]_vars

-----------------------------------------------------------------------------
(* Properties. *)

\* Type invariant.
TypeOK ==
    /\ pos.side \in Sides /\ pos.count \in Nat /\ pos.avg \in 0 .. Dollar - 1
    /\ pos.pnl \in Int
    /\ fills \in 0 .. MaxFills
    /\ net \in Int /\ cash \in Int /\ slack \in Nat

\* The position is the exchange's: through openings, pairings that close, stop
\* short of or go past the held side, and sells, no contract is lost or made.
CountMirrorsExchange == Signed(pos.side, pos.count) = net

\* Every dollar is accounted for: what went in is what the open contracts cost
\* less what was realized, but for the rounding of averages, half a tick for
\* each contract averaged.
PnlAccountsForCash ==
    LET gap == cash - (pos.count * pos.avg - pos.pnl)
    IN  2 * gap <= slack /\ -2 * gap <= slack

\* A flat position carries no average price into exposure or the next opening.
FlatHasNoCost == pos.count = 0 => pos.avg = 0
=============================================================================
