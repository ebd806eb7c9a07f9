------------------------------ MODULE Exposure ------------------------------
(***************************************************************************)
(* The exposure caps: check_trade sizes an order against the local         *)
(* positions, and the background loop of RiskMonitor engages HALT when the *)
(* caps turn out to be exceeded.  The local positions follow the exchange  *)
(* only when fills are ingested or the Reconciler overwrites them, so the  *)
(* orders that may still trade, the fills not yet ingested, positions that *)
(* end without a fill and listings that leave held markets out are part of *)
(* the model.  PnL is not; prices are in ticks of $0.0001 (PositionMath).  *)
(***************************************************************************)
EXTENDS PositionMath, FiniteSets, Functions

CONSTANTS
    Tickers, Prices,
    MarketCap, TotalCap,     \* max_position_per_market_usd, max_total_exposure_usd
    PerOrderMax,             \* per_order_max_contracts
    MaxOrders,               \* bound: orders of a run
    MaxOutstanding           \* bound: orders and fills on their way at a time

ASSUME TickersAssumption == IsFiniteSet(Tickers)
ASSUME MoneyAssumption == /\ Prices \subseteq 1 .. Dollar - 1
                          /\ MarketCap \in Nat /\ TotalCap \in Nat
ASSUME PerOrderMaxAssumption == PerOrderMax \in Nat \ {0}
ASSUME ExposureBounds == MaxOrders \in Nat /\ MaxOutstanding \in Nat

VARIABLES
    halt,
    busy,           \* the Executor waits for the answer to an order
    pos,            \* positions table (no row: Flat)
    open,           \* orders that may still trade
    unseen,         \* executions not yet ingested
    net,            \* the exchange's positions
    placed,         \* orders so far (bound, and order ids)
    \* history, read by properties only:
    astray,         \* markets whose row does not follow the exchange: the position
                    \* ended without a fill, a listing left it out, or the row was
                    \* overwritten ahead of fills that were then still to be booked
    blind           \* a cap was checked, or positions overwritten, with executions
                    \* outstanding, or a row was overwritten with more than it held

exchange == <<open, unseen, net, placed>>
history  == <<astray, blind>>
vars     == <<halt, busy, pos, exchange, history>>

Cost(t)      == pos[t].avg * pos[t].count
Contracts(t) == pos[t].count
TotalCost    == SumFunction([t \in Tickers |-> Cost(t)])
TotalCount   == SumFunction([t \in Tickers |-> Contracts(t)])
Outstanding  == open \cup unseen

-----------------------------------------------------------------------------
(* check_trade, under the reconciler's lock. *)

\* A buy of the other side closes: it is never larger than what is held.
IsClosing(t, sd) == pos[t].count > 0 /\ pos[t].side # sd

\* Mutant: a closing order is not bounded by what is held.
CloseSizeUncapped(t) == PerOrderMax

CloseSize(t) == Least(pos[t].count, PerOrderMax)

\* Mutant: the total cap is compared before the order, not with it.
FitsBeforehand(t, n, p) ==
    /\ n <= PerOrderMax
    /\ n * p <= MarketCap - Cost(t)
    /\ TotalCost < TotalCap

\* An opening buy of n contracts at p fits what both caps leave; Kelly sizing
\* and the edge may make it smaller, or refuse it.
Fits(t, n, p) ==
    /\ n <= PerOrderMax
    /\ n * p <= MarketCap - Cost(t)
    /\ n * p <= TotalCap - TotalCost

\* The trade is allowed, and its order goes out.  The other refusals (whitelist,
\* rate, daily loss, edge) leave this state alone, or engage HALT as the
\* operator may.
TradeAllowed(t, sd, n, p) ==
    /\ ~busy /\ ~halt
    /\ IF IsClosing(t, sd) THEN n = CloseSize(t) ELSE Fits(t, n, p)
    /\ placed < MaxOrders /\ Cardinality(Outstanding) < MaxOutstanding
    /\ placed' = placed + 1
    /\ busy' = TRUE
    /\ open' = open \cup {[id |-> placed + 1, ticker |-> t, side |-> sd, count |-> n, price |-> p]}
    /\ blind' = (blind \/ Outstanding # {})
    /\ UNCHANGED <<halt, pos, unseen, net, astray>>

\* create_order returns or raises, or a crash forgets the request: the order may
\* still be on its way.  Database, HALT file and exchange stay.
SendReturns ==
    /\ busy
    /\ busy' = FALSE
    /\ UNCHANGED <<halt, pos, exchange, history>>

-----------------------------------------------------------------------------
(* The exchange. *)

\* An order trades at its limit or better, as a whole or in parts.
Execute(o) ==
    /\ \E k \in 1 .. o.count, p \in Prices :
          /\ p <= o.price
          /\ unseen' = unseen \cup {[id |-> o.id, ticker |-> o.ticker, side |-> o.side,
                                     count |-> k, price |-> p, left |-> o.count - k]}
          /\ open' = (open \ {o}) \cup (IF k < o.count THEN {[o EXCEPT !.count = @ - k]} ELSE {})
          /\ net' = [net EXCEPT ![o.ticker] = @ + Signed(o.side, k)]
    /\ UNCHANGED <<halt, busy, pos, placed, history>>

\* The order, or what is left of it, is canceled or never arrives.
Dies(o) ==
    /\ open' = open \ {o}
    /\ UNCHANGED <<halt, busy, pos, unseen, net, placed, history>>

\* The market settles, or the position is closed externally: it is gone, and no
\* fill says so.
Settles(t) ==
    /\ net[t] # 0
    /\ net' = [net EXCEPT ![t] = 0]
    /\ astray' = astray \cup {t}
    /\ UNCHANGED <<halt, busy, pos, open, unseen, placed, blind>>

-----------------------------------------------------------------------------
(* The local mirror. *)

\* apply_fill.
Ingest(f) ==
    /\ unseen' = unseen \ {f}
    /\ pos' = [pos EXCEPT ![f.ticker] = Buy(@, f.side, f.count, f.price)]
    /\ UNCHANGED <<halt, busy, open, net, placed, history>>

SideOf(m)  == IF m >= 0 THEN "yes" ELSE "no"
CountOf(m) == IF m >= 0 THEN m ELSE -m

\* History of a reconciliation from the markets listed.
Judged(listed) ==
    /\ astray' = {t \in Tickers : \/ t \notin listed /\ net[t] # 0
                                  \/ \E f \in unseen : f.ticker = t}
    /\ blind' = \/ blind \/ Outstanding # {}
                \/ \E t \in Tickers : pos'[t].count > pos[t].count

\* Mutant: rows that the listing does not name stay as they are.
ReconcileListedOnly ==
    /\ ~busy
    /\ \E listed \in SUBSET Tickers :
          /\ pos' = [t \in Tickers |->
                IF t \in listed
                THEN [pos[t] EXCEPT !.side = SideOf(net[t]), !.count = CountOf(net[t])]
                ELSE pos[t]]
          /\ Judged(listed)
    /\ UNCHANGED <<halt, busy, exchange>>

\* Reconciler: a row whose side or count differs takes the exchange's and keeps
\* its average; a missing row is created with an average of zero; a row the
\* exchange does not list is taken for closed.  list_positions reads one page, so
\* that may be any market, flat or held.  The answer's delay is FillLedger's
\* subject.
Reconcile ==
    /\ ~busy
    /\ \E listed \in SUBSET Tickers :
          /\ pos' = [t \in Tickers |->
                IF t \in listed
                THEN [pos[t] EXCEPT !.side = SideOf(net[t]), !.count = CountOf(net[t])]
                ELSE [pos[t] EXCEPT !.count = 0]]
          /\ Judged(listed)
    /\ UNCHANGED <<halt, busy, exchange>>

-----------------------------------------------------------------------------

\* One round of run_background.
Background ==
    /\ ~halt /\ TotalCost > TotalCap
    /\ halt' = TRUE
    /\ UNCHANGED <<busy, pos, exchange, history>>

\* Any other way HALT is engaged.
EngageHalt ==
    /\ ~halt /\ halt' = TRUE
    /\ UNCHANGED <<busy, pos, exchange, history>>

ResumeHalt ==
    /\ halt /\ halt' = FALSE
    /\ UNCHANGED <<busy, pos, exchange, history>>

Init ==
    /\ halt = FALSE /\ busy = FALSE
    /\ pos = [t \in Tickers |-> Flat]
    /\ open = {} /\ unseen = {} /\ net = [t \in Tickers |-> 0]
    /\ placed = 0 /\ astray = {} /\ blind = FALSE

Next ==
    \/ \E t \in Tickers, sd \in Sides, n \in 1 .. PerOrderMax, p \in Prices :
          TradeAllowed(t, sd, n, p)
    \/ SendReturns
    \/ \E o \in open : Execute(o) \/ Dies(o)
    \/ \E t \in Tickers : Settles(t)
    \/ \E f \in unseen : Ingest(f)
    \/ Reconcile \/ Background \/ EngageHalt \/ ResumeHalt

Spec == Init /\ [][Next]_vars

-----------------------------------------------------------------------------
(* Properties. *)

\* Type invariant.
TypeOK ==
    /\ halt \in BOOLEAN /\ busy \in BOOLEAN /\ blind \in BOOLEAN
    /\ placed \in 0 .. MaxOrders /\ astray \subseteq Tickers
    /\ \A t \in Tickers :
          /\ pos[t].side \in Sides /\ pos[t].count \in Nat /\ pos[t].avg \in 0 .. Dollar - 1
    /\ \A o \in Outstanding :
          /\ o.id \in 1 .. placed /\ o.ticker \in Tickers /\ o.side \in Sides
          /\ o.count \in 1 .. PerOrderMax /\ o.price \in Prices
    /\ net \in [Tickers -> Int]

\* As long as no check was made, and no position overwritten, with executions
\* outstanding, and the Reconciler gave no row more than it held, the caps bound
\* what is held, through partial fills, closings, settlements, reconciliations and
\* restarts, but for the rounding of averages: half a tick for each contract held
\* and each part an order may be executed in.
CapsHold ==
    ~blind => /\ 2 * (TotalCost - TotalCap) <= PerOrderMax * TotalCount
              /\ \A t \in Tickers : 2 * (Cost(t) - MarketCap) <= PerOrderMax * Contracts(t)

\* Then also no closing order goes past flat into the other side, in a market
\* that is not astray.
ClosingNeverOpens ==
    [][~blind' => \A t \in Tickers \ astray' : net[t] * net'[t] >= 0]_vars

\* A market's row is the exchange's position whenever its fills are all ingested,
\* whatever was checked, traded and overwritten in between, unless it is astray;
\* and a reconciliation that lists the market, or finds it ended, with no fill of
\* it still to come brings it back.
MirrorsWhenSeen ==
    \A t \in Tickers \ astray :
        (\A f \in unseen : f.ticker # t) => Signed(pos[t].side, pos[t].count) = net[t]
=============================================================================
