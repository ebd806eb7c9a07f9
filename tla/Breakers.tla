------------------------------ MODULE Breakers ------------------------------
(***************************************************************************)
(* The circuit breakers of RiskMonitor, which leave a HALT file behind:    *)
(* too many orders or errors within a window, and the day's realized loss, *)
(* computed as the cumulative PnL less the latest daily snapshot.  The     *)
(* snapshots are taken by a midnight job of the scheduler, which the       *)
(* process may sleep through.  Sizing and exposure are another module's.   *)
(*                                                                         *)
(* A tick is the unit of the windows; PnL is in units of a fill's result.  *)
(***************************************************************************)
EXTENDS Integers, Sequences, FiniteSets

CONSTANTS
    RateLimit, ErrorLimit,   \* max_orders_per_minute, error_spike_threshold
    Window,                  \* 60 s, and error_spike_window_seconds, in ticks
    DequeLen,                \* maxlen of both deques
    LossLimit,               \* max_daily_loss_usd
    MaxDays, MaxPnl, MaxOrders, MaxErrors   \* bounds of a run

\* config.py bounds no limit; the deques have maxlen=200.
ASSUME LimitsAssumption ==
    /\ {RateLimit, ErrorLimit, LossLimit} \subseteq Int
    /\ DequeLen \in Nat \ {0} /\ Window \in Nat
ASSUME BreakerBounds == {MaxDays, MaxPnl, MaxOrders, MaxErrors} \subseteq Nat

VARIABLES
    up, halt,
    orderAges, errorAges,   \* the deques, as ages
    pnl,                    \* sum of positions.realized_pnl_dollars
    day,                    \* local date
    snaps,                  \* pnl_daily: snapshots by day
    due,                    \* the midnight job is to run
    orders, errors,         \* so far (bounds)
    \* history:
    sent, failed,           \* ages of all orders and errors of this life
    resumed,                \* HALT was lifted after the latest error
    opening,                \* cumulative PnL at the last midnight
    slips                   \* how today's midnight job went wrong, if it did

windows == <<orderAges, errorAges, sent, failed, resumed>>
money   == <<pnl, opening>>
dates   == <<day, snaps, due, slips>>
counts  == <<orders, errors>>
vars    == <<up, halt, windows, money, dates, counts>>

\* Mutant: the deque is not bounded.
AppendedUnbounded(q) == Append(q, 0)

\* deque(maxlen=DequeLen).append(now), and how many are within the window.
Appended(q) == LET r == Append(q, 0)
               IN  IF Len(r) > DequeLen THEN Tail(r) ELSE r
InWindow(q) == Cardinality({i \in DOMAIN q : q[i] <= Window})

\* Time passes; how far an age is beyond the window makes no difference.
Aged(q) == [i \in DOMAIN q |-> IF q[i] > Window THEN q[i] ELSE q[i] + 1]

\* Mutant: the snapshot of the day itself is not taken.
BaselineBefore(d) == LET S == {e \in DOMAIN snaps : e < d}
                     IN  IF S = {} THEN 0 ELSE snaps[CHOOSE e \in S : \A f \in S : f <= e]

\* snapshot_baseline_at_or_before: zero without any snapshot.
Baseline(d) == LET S == {e \in DOMAIN snaps : e <= d}
               IN  IF S = {} THEN 0 ELSE snaps[CHOOSE e \in S : \A f \in S : f <= e]
Daily == pnl - Baseline(day)

-----------------------------------------------------------------------------
(* check_trade; refusals for other reasons change nothing. *)

Checks   == up /\ ~halt
\* Mutant: one order too many.
RateFullAbove == InWindow(orderAges) > RateLimit
RateFull == InWindow(orderAges) >= RateLimit
\* Mutant: a loss at its limit is let pass.
LossFullBelow == Daily < -LossLimit
LossFull == Daily <= -LossLimit

RateTrips ==
    /\ Checks /\ RateFull
    /\ halt' = TRUE
    /\ UNCHANGED <<up, windows, money, dates, counts>>

LossTrips ==
    /\ Checks /\ ~RateFull /\ LossFull
    /\ halt' = TRUE
    /\ UNCHANGED <<up, windows, money, dates, counts>>

\* The trade is allowed and, with no await in between, record_order_attempt.
OrderGoes ==
    /\ Checks /\ ~RateFull /\ ~LossFull
    /\ orders < MaxOrders
    /\ orders' = orders + 1
    /\ orderAges' = Appended(orderAges)
    /\ sent' = Append(sent, 0)
    /\ UNCHANGED <<up, halt, errorAges, failed, resumed, money, dates, errors>>

\* Mutant: errors under HALT are not recorded.
RecordErrorUnlessHalted ==
    /\ up /\ errors < MaxErrors
    /\ errors' = errors + 1
    /\ errorAges' = IF halt THEN errorAges ELSE Appended(errorAges)
    /\ failed' = Append(failed, 0)
    /\ resumed' = FALSE
    /\ halt' = (halt \/ InWindow(errorAges') >= ErrorLimit)
    /\ UNCHANGED <<up, orderAges, sent, money, dates, orders>>

\* record_error.
RecordError ==
    /\ up /\ errors < MaxErrors
    /\ errors' = errors + 1
    /\ errorAges' = Appended(errorAges)
    /\ failed' = Append(failed, 0)
    /\ resumed' = FALSE
    /\ halt' = (halt \/ InWindow(errorAges') >= ErrorLimit)
    /\ UNCHANGED <<up, orderAges, sent, money, dates, orders>>

\* One round of run_background, as far as the loss goes.
Background ==
    /\ Checks /\ LossFull
    /\ halt' = TRUE
    /\ UNCHANGED <<up, windows, money, dates, counts>>

-----------------------------------------------------------------------------
(* Fills, the clock and the midnight job. *)

Realize ==
    /\ up
    /\ pnl' \in {pnl - 1, pnl + 1} \cap -MaxPnl .. MaxPnl
    /\ slips' = slips \cup (IF due THEN {"late"} ELSE {})
    /\ UNCHANGED <<up, halt, windows, opening, day, snaps, due, counts>>

Tick ==
    /\ orderAges' = Aged(orderAges)
    /\ errorAges' = Aged(errorAges)
    /\ sent' = Aged(sent)
    /\ failed' = Aged(failed)
    /\ UNCHANGED <<up, halt, resumed, money, dates, counts>>

Midnight ==
    /\ day < MaxDays
    /\ day' = day + 1
    /\ opening' = pnl
    /\ due' = up
    /\ slips' = (IF up THEN {} ELSE {"missed"})
    /\ UNCHANGED <<up, halt, windows, pnl, snaps, counts>>

\* _midnight_snapshot; snapshot_daily_pnl merges the row of the day.
Snapshot ==
    /\ up /\ due
    /\ snaps' = [e \in DOMAIN snaps \cup {day} |-> IF e = day THEN pnl ELSE snaps[e]]
    /\ due' = FALSE
    /\ UNCHANGED <<up, halt, windows, money, day, slips, counts>>

\* The loop was busy beyond the job's grace time, or the database locked.
Misfire ==
    /\ up /\ due
    /\ due' = FALSE
    /\ slips' = slips \cup {"missed"}
    /\ UNCHANGED <<up, halt, windows, money, day, snaps, counts>>

-----------------------------------------------------------------------------
(* Operator and process. *)

EngageHalt ==
    /\ ~halt /\ halt' = TRUE
    /\ UNCHANGED <<up, windows, money, dates, counts>>

ResumeHalt ==
    /\ halt /\ halt' = FALSE
    /\ resumed' = TRUE
    /\ UNCHANGED <<up, orderAges, errorAges, sent, failed, money, dates, counts>>

\* The deques and the scheduler's jobs are in memory.
Crash ==
    /\ up /\ up' = FALSE
    /\ orderAges' = <<>> /\ errorAges' = <<>> /\ sent' = <<>> /\ failed' = <<>>
    /\ due' = FALSE
    /\ slips' = slips \cup (IF due THEN {"missed"} ELSE {})
    /\ UNCHANGED <<halt, resumed, money, day, snaps, counts>>

Start ==
    /\ ~up /\ up' = TRUE
    /\ UNCHANGED <<halt, windows, money, dates, counts>>

Init ==
    /\ up = TRUE /\ halt = FALSE
    /\ orderAges = <<>> /\ errorAges = <<>> /\ sent = <<>> /\ failed = <<>>
    /\ pnl = 0 /\ opening = 0
    /\ day = 0 /\ snaps = <<>> /\ due = FALSE /\ slips = {}
    /\ orders = 0 /\ errors = 0 /\ resumed = FALSE

Next ==
    \/ RateTrips \/ LossTrips \/ OrderGoes \/ RecordError \/ Background
    \/ Realize \/ Tick \/ Midnight \/ Snapshot \/ Misfire
    \/ EngageHalt \/ ResumeHalt \/ Crash \/ Start

Spec == Init /\ [][Next]_vars

-----------------------------------------------------------------------------
(* Properties. *)

\* Type invariant.
TypeOK ==
    /\ {up, halt, due, resumed} \subseteq BOOLEAN /\ slips \subseteq {"late", "missed"}
    /\ pnl \in -MaxPnl .. MaxPnl /\ opening \in -MaxPnl .. MaxPnl
    /\ day \in 0 .. MaxDays
    /\ snaps \in [DOMAIN snaps -> -MaxPnl .. MaxPnl] /\ DOMAIN snaps \subseteq 1 .. day
    /\ orders \in 0 .. MaxOrders /\ errors \in 0 .. MaxErrors
    /\ Len(orderAges) <= DequeLen /\ Len(errorAges) <= DequeLen
    /\ \A q \in {orderAges, errorAges, sent, failed} : q \in Seq(0 .. Window + 1)

\* In one life of the process no window holds more than RateLimit orders, also
\* after the operator lifts the HALT which the breaker engaged (check_trade).
RateBounded == InWindow(sent) <= RateLimit

\* ErrorLimit errors within one window leave the HALT file behind, and only the
\* operator removes it (record_error): as many as the threshold do, of which the
\* README says that there must be more.
SpikeHalts == InWindow(failed) >= ErrorLimit /\ ~resumed => halt

\* Once the job of the last midnight has run in time, the day's PnL that the
\* breaker sees is what was realized since then, whatever days before it were
\* missed, and over any restarts in between.
DailyIsToday == slips = {} /\ ~due => Daily = pnl - opening

\* Then no order goes out once that day's loss is at its limit, whatever the days
\* before earned, and also after the operator lifts the HALT it engaged.
DayLossStopsOrders ==
    [][slips = {} /\ ~due /\ pnl - opening <= -LossLimit => orders' = orders]_vars

\* README: HALT "fires on ... daily realized PnL <= -max_daily_loss_usd": with
\* that loss since midnight no order goes out.  (A job that runs after the
\* first fill of the day is left out: only one that never runs counts here.)
LossStopsOrders ==
    [][~due /\ "late" \notin slips /\ pnl - opening <= -LossLimit => orders' = orders]_vars
=============================================================================
