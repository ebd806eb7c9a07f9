# kalshi-agent: a verification project in TLA+

TLA+ modules of the trading agent under `src/kalshi_agent`, the TLC runs that
check them on small instances, and theorems that TLAPS proves for every value
of the constants. Paths below are relative to the repository's root; module
names are files of this directory. `PROJECT.json` lists every component, run,
mutant, hazard and theorem, and maps each definition to the lines it models.

## The system

One process, one asyncio event loop, one SQLite file, one HALT file, and the
exchange's REST API. Handlers run without interruption between two awaits; a
crash, the operator's scripts and the exchange may act at any point.

| component | state | operations | talks to |
|---|---|---|---|
| Executor (`execution.py`) | `decisions`, `orders` rows | `handle_signal`: market, bankroll, `check_trade`, decision, pending row, POST, status | RiskMonitor (call), Bankroll, client, reconciler's lock |
| REST client (`kalshi/client.py`) | token buckets, event cache | `_request` with 3 attempts, listings (one page), create, cancel, fill pages | exchange |
| KillSwitch, HaltMonitor (`safety/kill_switch.py`, `halt_actions.py`) | the HALT file; `_last_state` | engage, disengage, the once-a-second `run`, the sweep | client, `orders` rows |
| Recovery (`recovery.py`) | none of its own | pending rows against three listings, at startup | client, `orders` rows |
| FillIngestor (`fills.py`) | `_high_water_ts`, its lock | poll loop, `catch_up` | client, `apply_fill`, `orders` rows |
| Reconciler (`safety/reconciliation.py`) | its lock | pull positions, overwrite the mirror | client, `positions` rows |
| Positions and fees (`positions.py`, `safety/fees.py`) | `fills`, `positions`, `pnl_daily` rows | `apply_fill`, `snapshot_daily_pnl` | called by the ingestor and the scheduler |
| RiskMonitor (`safety/risk_monitor.py`, `safety/pnl.py`) | two deques of timestamps | `check_trade`, `record_order_attempt`, `record_error`, `run_background` | KillSwitch, `positions`, `pnl_daily` |
| Scheduler, wiring (`scheduler.py`, `__main__.py`) | jobs in memory | strategy tick, hourly reconcile, midnight snapshot, summaries; start-up sequence and shutdown | everything |
| Strategies (`strategies/`, `llm/openrouter.py`) | none between ticks; the throttle reads `decisions` | `generate_signals`, `chat_json` | client, `decisions` rows, LLM |
| Bankroll (`bankroll.py`) | cached balance, its lock | `get`, `refresh` | client |
| WebSocket client, watchdog (`kalshi/ws.py`) | connection, time of the last message | connect, subscribe, dispatch, reconnect; look and engage | exchange, KillSwitch; not started by `__main__` |
| Views, notifier, logger, heartbeat | caches | reading and reporting | - |

What is hard, and what makes each part correct:

* **Orders.** A POST may be lost, processed with its answer lost, repeated, or
  processed long after it was given up; the process may die at each await. Four
  tasks write `orders.status` from answers that may be old. Correct: an order
  is on the exchange only with a committed row; a status that an answer or a fill
  reported is true; HALT lets at most the order in hand through.
* **HALT.** Anybody may create or remove the file at any time, also while the
  process is down or while a sweep is under way. Correct: a HALT that begins
  while the monitor watches is swept, and a clean sweep leaves at most the order
  in hand resting. (Of other HALTs see the disagreements below.)
* **The mirror.** Fills are polled by whole seconds in pages, from two
  callers; the reconciler overwrites counts with answers that were already old.
  Correct: what is booked is not asked for again and nothing is passed over, but
  for the mark's own second, and the count comes back to the exchange's.
* **Accounting.** Pairing, averaging and rounding over any sequence of fills.
* **Limits.** Caps are compared with a mirror that lags; rate windows and the
  day's baseline live in memory or depend on a job that must run at midnight.
* **The database.** With a Discord webhook the ingestor keeps its write
  transaction open while it posts; whoever commits meanwhile blocks the loop for
  `busy_timeout` and then fails. Correct: every handler leaves its tables and the
  HALT in order when a commit fails.
* **Reads and sockets.** Callers queue for the token bucket, share the
  bankroll's cache and retry; the watchdog looks at a connection that comes and
  goes. Correct: the rate is bounded, a balance used is recent and never goes
  back, silence is noticed, the client comes back.
* **The tick.** One tick makes many slow calls, each with two retry budgets,
  and only one tick may run. Correct: a tick ends, a call costs a bounded number
  of requests, and a ticker is not decided on again too soon.

## Modules

### OrderFlow, OrderIntent, OrderFlowProofs

The life of an order. `exPc` walks `_handle_signal_inner` from await to await
(`idle`, `market`, `bankroll`, `decided`, `sending`, `awaiting`), with
`attempt`, `exc` and `reply` for the locals of `_request`; the exception that
leaves `_request` decides between `SendFails` (counted, `send_failed`) and
`SendRaises` (nobody catches it). `hmPc` walks the sweep (`list`, `cancel` one
at a time, `mark`), `recPc` the three listings and the row-by-row commits of
recovery (with nothing pending the listings change nothing and are left out).
`row`, `decision`, `kid` are the tables; `exch`, `fill`, `late` the
exchange. `LoopFree` says that no handler is between two synchronous
statements; the points where a crash can still fall between two commits
(`decided`, `mark`, `write`) are states of their own.

A signal stands for the `client_order_id` drawn for it. Sizes and prices are
left to Exposure. The exchange answers a known `client_order_id` with the first
order or an error, and never makes a second one of it. `list_orders` reads one
page: with `Crowded` set, a listing may leave out any orders (`Pages`).
`sentSince`, `sweep`, `hmClean`, `lateArrived`, `unswept` and `unlisted` are
history and read by properties only; the last two are the orders that a full page
kept from the sweep or from recovery.

`ReportedRowIsTrue` is about the statuses that somebody reported: `executed`,
`canceled` and `filled`. It leaves out `cancelled_by_halt`, which the HaltMonitor
writes whatever became of the cancels, `lost` (of which `LostWasAbsent` speaks)
and `send_failed`. `HaltIsSwept` is about a HALT that begins when the monitor
last saw none; one that is lifted and engaged again between two of its looks,
within its second or during a sweep, is the old one for it.

`Notifying` is the fault model of the locked database: a rejection or a
`send_failed` may not be written (`Reject`, `SendFails`), recovery may stop
between two rows (`RecoverFails`), and the HaltMonitor's task may end for the
rest of the life (`MonitorDies`). `PersistOrder` cannot meet the lock: the commit
of the decision just before it succeeded, and no await lies between. A 429 whose
`retry-after` is no number leaves `_request` as a ValueError (`SendRaises`).

`OrderIntent` is what placement promises, without process or network: admitted
only without HALT and one at a time, recorded before placed, never forgotten.
`KeepsIntent` is the refinement; its mapping is at the end of `OrderFlow`.

### FillLedger, FillLedgerProofs

One market's count and the high-water mark. Time is in ticks of a fraction of a
second, so that the rounding of the mark to seconds matters. `Asked` and
`PageOf` are `min_ts` and the pages; `NewOf` is the duplicate check of
`apply_fill` on the identity tuple; `MarkedBy` and `EndPass` move the mark; `pass`
is the ingestor's lock with who holds it; `pulled` is the answer of the position
listing on its way. An execution that realizes zero is flagged, as the code takes
it for a duplicate. One without `created_time` (`Undated`) is given the instant of
its booking, in the row (`stamps`) and for the mark, so it is new at each booking.
With `Crowded` set, the one page of `list_positions` may leave the market out,
which the Reconciler takes for closed. `LoadHighWater` reads the naive UTC time of
the newest row as local time, hence `ZoneEast`. While a page is being booked with
`Notifying` set, the reconciler's commit may fail (`AdoptFails`). `torn` is
history.

### PositionMath, Positions, PositionsProofs

`PositionMath` is the arithmetic of `apply_fill` and `fees.py` in ticks of
$0.0001: the fee rounded up to the cent, the average half-even. `Positions`
applies any sequence of fills and keeps, beside the row, the exchange's account
of the same fills: net contracts and cash. The column `realized_pnl_dollars` is
a float in the database; the model keeps the exact number.

### Exposure, ExposureProofs

`check_trade`'s sizing over several markets, with the executions still to come
(`open`), those not yet ingested (`unseen`), the exchange's positions (`net`)
and the mirror (`pos`). A market may settle, or its position be closed elsewhere,
at any time and without a fill (`Settles`); a reconciliation lists any set of the
markets, since `list_positions` reads one page, and what is not listed is closed.
`blind` remembers that a cap was compared, or positions were overwritten, with
something outstanding, or that the Reconciler raised a row; `CapsHold` and
`ClosingNeverOpens` promise nothing from then on. `astray` is kept per market: the
position ended without a fill, a listing left it out, or its row was overwritten
ahead of its fills. `MirrorsWhenSeen` excepts only such markets, and says that a
reconciliation with nothing of the market still to come ends the exception. An order may be executed in parts,
each of which rounds the average anew, so what a row says it cost drifts by up
to half a tick for each contract held and each part: `CapsHold` states the caps
with that much more, and the run has prices for which the plain caps fail.
Kelly, the edge and the other refusals can only make an order smaller or refuse
it, so the model lets any size up to the caps through; the caps bind for any of
them.

### Breakers, BreakersProofs

The sliding windows as sequences of ages, the daily loss as the cumulative PnL
less the latest snapshot, and the midnight job, which may run late, misfire,
fail or be slept through (`slips`). Exposure and Breakers split RiskMonitor:
they share the HALT file only, and each lets it be engaged and lifted at will.

### Assessor, AssessorProofs

A tick of the strategy: `pc` walks from discovery (`fetch`: the configured
tickers one by one, or pages of open markets) over the markets (`assess`) and
the two halves of `chat_json`'s loop (`call`, `answer`) to the scheduler's loop
over the signals (`handle`), which writes the decisions the next tick's throttle
reads. `errs` and `limits` are the two retry budgets. A candidate is a ticker
with the page or the entry of the configured list it came from, because nothing
stops two pages from listing the same market, or the configuration from naming one
twice (`Twice`); `repeated` remembers that it happened. The order of candidates, prices,
probabilities and the gap between requests are left out. An exception that
`generate_signals` does not catch drops the whole tick (`TickDies`).

### TokenBucket, Client, ClientProofs

`TokenBucket` is `acquire` in integers: a token is worth `Token` grains, a grain
is refilled per tick, and `Acquire`, `FallAsleep` and `WakeUp` are its three
ways. `WakeUp` leaves `_last` where it was before the sleep, as the code does, so
the time slept is refilled once more. `opened` and `spent` are history: any
moment may be the start of the stretch whose grains are counted.

`Client` extends it with the callers of `_request`: `line` is the bucket's FIFO
lock, `attempt`, `exc` and `due` the retry loop (`Wait` its backoff), and for
`Getters` (tasks in `Bankroll.get`) also the bankroll's lock, `cached` and
`fetched`. A balance is the tick at which the exchange had it, so "older" is
"smaller". The startup sequence calls `refresh` itself, once and whatever the age of
the cache (`Starting`); every later refresh comes from `get`. `_last_fetch` starts
as 0.0 of a clock that counts from the host's boot, which is long ago or just now
(`Init`): on a host that booted within the ttl the fallback of a refused first
request counts as young, and `YoungIsRecent` leaves the fallback out. The theorem
`ClientKeepsBucket` says that Client implements
`BucketSpec`.

### Socket, SocketProofs

`pc` walks `KalshiWebSocket.run`; `quiet`, `wait` and `due` are the three clocks
(silence, backoff, the watchdog's round) in seconds. `backoff` is the code's
`min(30, 2 ** attempt)`: it doubles where the code counts attempts, and starts
again where the code resets them. A connection the peer closes
in good order raises nothing, so `_connected` stays set while the next one is
made (`ClosesNormally`). `Toggles` is any other writer of the HALT file.

## Runs

All but `socket` with deadlock checking off: the bounds end every run, and so may
the process.

| run | instance | shows |
|---|---|---|
| `safety` | 2 signals, 1 attempt, pages that may leave orders out, no webhook | rows before orders, HALT stops orders and leaves at most one resting of those shown, reported statuses are true and lost rows were absent or not shown, filled is final |
| `retry` | 1 signal, 2 attempts, pages that may leave it out, webhook | the inductive invariants, the refinement of OrderIntent, the lock is released, a HALT is swept |
| `ledger` | 2 executions, dated or not, half seconds over two seconds, pages of 1, 2 lives, a host 1 s east, listings that may leave the market out | asked for again, or lost, only within a booked second unless a pass was cut short; the count comes back |
| `account` | 4 fills of 1 or 2 contracts at 3 prices, maker and taker | the count mirrors, cash and PnL agree up to rounding, flat has no cost |
| `caps` | 2 markets, 2 prices, 2 orders of up to 2 contracts, 2 outstanding, settlements, listings of any markets | caps hold, closings stop at flat, the mirror is exact once all is seen |
| `trip` | 2 midnights, 3 orders, 3 errors, limits of 2, cumulative PnL from -1 to 1 | the breakers trip when they must, the day's PnL is the day's, and its loss stops the orders |
| `assess` | 2 tickers, one of them configured twice, 2 pages, budgets of 2 and 3, a throttle of 2 in a run of 4 | both budgets bound a call, decisions keep the throttle's distance, a tick ends |
| `client` | 2 tasks that ask for the bankroll, 1 other reader, 2 attempts, a bucket of 1.5 tokens, 6 ticks | the rate up to a factor of two, a recent balance that never goes back |
| `socket` | timeout 60 s, tick 5 s, backoff up to 30 s, as in the code | silence has HALT engaged within a tick, the client comes back |
| `anyhalt` `mirror` `loss` | the same instances or smaller | each violates one sentence of the documentation, see below |

Why the bounds are enough. Orders interact in pairs only (`HaltStopsOrders`,
`HaltLeavesAtMostOne`, a listing of several), so two signals show what can
happen between them; retries are a loop around one order, and the second
attempt already meets all that the first one left behind (the code has three,
`max_retries`). The theorems hold for every number of both. A second holds two
instants and the run has the next one as well, an execution for each of two pages
and a restart, which is every case the mark distinguishes. Four fills suffice to open, add,
stop short, close and flip. The caps are chosen so that one
more contract would pass them, and the prices so that the rounding of averages
carries an order bought in parts over them; orders of two contracts come in one
part or two. Three orders or errors with a
limit of two reach the limit, the refusal and the next window. Two tickers and
two pages let one page repeat the other and fill the tick's allowance; the run is
longer than the throttle, so that a ticker is decided on twice. Two getters
queue for one lock while a third caller holds up the bucket, and six ticks hold a
refill, a sleep, a failed attempt with its backoff and an expired balance; the
theorems about Client hold for every number of each. `retry`, `ledger`
and `mirror` have the webhook set, so that commits may fail; `safety` has not, for
its size (3.2 million states; the theorems about its properties hold for both),
and `anyhalt` has not, to show a HALT that is missed without any fault.
`anyhalt` and `mirror` also have listings that show everything, and `mirror` only
dated executions, for the same reason.

`MaxOutstanding`, `MaxOrders`, `MaxErrors`, `MaxDays`, `MaxPnl`, `MaxTick`,
`MaxTrades`, `MaxStarts`, `MaxFills`, `MaxTime` and `Horizon` bound runs and are
guards of the actions that would go beyond. `ZoneEast` is 1 in `ledger`: a host
ahead of UTC, as the documented one is by hours, asks for more after a restart,
and in a run of two seconds one second more is everything. It is 0 in `mirror`.

### Fairness

* OrderFlow: every await ends, since requests have timeouts and the HaltMonitor
  wakes up once a second; the loop serves ready callbacks in turn, so a handler
  that is delayed again and again by others still gets its step (strong
  fairness). Nothing is assumed of the exchange, the operator or crashes: the
  liveness properties are about the time the process is up.
* FillLedger: systemd restarts the process; passes end; the catch-up gets the
  ingestor's lock, which is handed over in turn; the hourly request for
  positions succeeds again and again (that its one page lists the market is a
  hypothesis of `EventuallyMirrors`), and not every one of its answers meets a
  page that is being announced (strong fairness of `Adopt`: pages end, and posts
  are seconds against an hour). Trading and crashes stop at their bounds.
* Socket: time passes, timers fire, handlers end; the exchange accepts a
  connection and its subscriptions again and again (strong fairness, because
  attempts may fail any number of times). Nothing makes messages come.
* Assessor: requests time out and sleeps end. Nothing is assumed of the answers.

### Disagreements found

* `AnyHaltIsSwept`: the HaltMonitor starts from the state it finds, so a HALT
  engaged while the process was down is never swept (`halt_actions.py:33`;
  README.md:195 "any path"). Nor is one that was lifted and engaged again between
  two looks of the monitor (lines 37-42). `tests/test_halt_actions.py:44-56` pins
  the first as intended; sentence and test do not agree.
* `MirrorAfterCatchUp`: the catch-up after a reconciliation books fills the
  adopted count already contains (`reconciliation.py:78`; README.md:197).
  `EventuallyMirrors` shows that the next reconciliation repairs it.
* `LossStopsOrders`: without its midnight snapshot a day's loss is hidden behind
  older profits (`pnl.py:44`; README.md:121, `risk_monitor.py:104`).

Visible in the models, without a run of their own:

* `cancelled_by_halt` need not be true: the mark is written when a cancel failed
  and when the order executed meanwhile (`MarkCancelled`; `halt_actions.py:56-69`,
  against README.md:195, which has the marks follow the cancels).
  `ReportedRowIsTrue` is about the other statuses.
* A fill without `created_time` gets the time of its booking, a new identity each
  time (`NewOf`; `positions.py:55`, against `positions.py:46` "Idempotent on the
  persisted fill identity tuple" and `fills.py:3` "idempotent"; `types.py:103`
  allows it to be missing). Asked for again, it is booked again: in the mark's own
  second, when it realized zero, after a restart on a host east of UTC, whose mark
  lies hours back, and after a pass that was cut short. `BookedStaysBehind` says
  that it is not asked for otherwise, and `EventuallyMirrors` that reconciliation
  repairs the count.
* `list_positions` reads one page (`client.py:236-238`). A held market that it
  leaves out is taken for closed and its row zeroed (`PositionsPulled`,
  `Reconcile`), which README.md:197 ("source of truth") does not expect.
* HALT fires when there are as many errors as `error_spike_threshold`
  (`RecordError`; `risk_monitor.py:67`); README.md:123 says more than that.
* A fill of the second just booked falls below the mark and is never asked for
  (`EndPass`; `fills.py:117`, against `fills.py:3` "reliable").
  `LostOnlyWithinSecond` is what does hold.
* An assessment without a signal writes no decision, so the LLM is asked about
  the same market at every tick (`Answered`; `llm_market_assessor.py:122`, against
  its docstring, lines 13-14). `DecisionsApart` is what does hold.
* Recovery and the sweep read one page of orders (`Pages`; `client.py:240-243`,
  against `client.py:255` "every open/resting order on the account"). Orders it
  does not show are flagged lost, or stay resting under HALT: `LostWasAbsent` and
  `HaltLeavesAtMostOne` say that it is only those.
* A transport error out of `get_market` leaves a signal without a decision
  (`MarketFails`, `HandlerRaises`; `execution.py:57`).
* The caps are passed by rounding: an order bought in parts has its average
  rounded with each (`Buy`, `CapsHold`; `apply_fill` of `positions.py`), a
  fraction of a cent in all.
* A limit of orders or errors above the length of the deques (200,
  `risk_monitor.py:47`) is never reached; nothing in `config.py` refuses
  one. The theorem `BeyondTheDeque` says so, and `OrderRateKept` and
  `SpikeEngages` are about the limits up to that length.
* The opposite side is looked for in the lagging mirror only (`IsClosing`;
  `risk_monitor.py:150`), which is why `ClosingNeverOpens` excepts blind checks. The caps are compared
  with the same mirror (`Fits`; line 168): orders sized before the fills of others
  are booked may pass them together.
* A ticker that the configuration names twice is assessed, and decided on, twice
  in one tick (`TickStarts`; `llm_market_assessor.py:188`).
* The token bucket refills twice for the time it sleeps and starts full, so
  `RateAtMostTwice` is the bound that holds; `config/config.example.yaml:10` puts
  the configured rate "below the 10/s basic tier limit".
* The HaltMonitor does not survive a locked database (`MonitorDies`), although
  `README.md:185` says dashboard and writer share the database "without locking".
* The watchdog knows no trading window, and pings are answered below it and do
  not break the silence (`Looks`, `Receives`; `ws.py:124-125` says otherwise). A
  client that cannot connect at all is not silent for it: HALT is due only while
  `_connected` is set. `SilenceIsNoticed` assumes that the loop turns: a commit
  that finds the database locked blocks it for `busy_timeout`, OrderFlow's fault
  model, and the watchdog's round comes that much later.

## Proofs

* `OrderFlowProofs`, from the assumptions on `MaxAttempts` and `NoSignal` only.
  `TypeOK` is inductive by itself. `NoOrderWithoutRow` is not: whether a row
  exists when the POST goes out depends on what the Executor holds, and whether
  it stays depends on what recovery may write. `OrderInv` adds `NoRowYet` (a
  signal has no row before `PersistOrder`), `RowsBehindIds` (an exchange id is
  only on a recorded row, and recovery's list never holds one), `OneOwner` (the
  Executor's order is nobody else's) and `SentIsHeld` (what was POSTed under
  this HALT is what the Executor holds). Each step is one case of `OrderStep`.
  `FilledIsFinal` and the refinement (`StepKeepsIntent`) follow action by
  action from `TypeOK /\ OrderInv`. `ReportedRowIsTrue` needs
  `AnswersStayTrue`: terminal states of the exchange do not change, so an old
  terminal answer is still true when it is written. For `LostOrders`,
  `StillToBeListed` says which statuses an order of recovery's list can hide behind
  after each listing, unless a page kept it back: fewer after each, and none before
  the rows are written. For `SweepLeavesOne`, `OneBeyond(T)` says that beside the
  orders T still to be canceled at most one rests, and that it is the Executor's
  while that holds an admitted one; under HALT no other gets admitted.
* `FillLedgerProofs`: the invariant is `LedgerInv`: rows and executions with the
  clock past every one of them (`IInv`), and three parts that need one another.
  `MarkInv`: the mark is at most one second past a row, and what a pass carries
  is the mark it began with or the second of a row. `BookedBehind`, for
  `BookedOnce`: every booked execution left a row of its second or a later one,
  so a restart reloads a mark that is no further back than `ZoneEast` seconds
  before it; while a pass runs, what is booked and realized something is behind
  the mark or behind what the pass carries. `NothingSkipped`, for
  `LostOnlyInBookedSecond`: what is not booked has a booked twin in its second,
  was overtaken by the stamp of one without a time, waits on a later page, or is
  at the mark or later and as late as anything seen (`Fresh`). That theorem
  assumes `ZoneEast >= 0`: on a host behind UTC the reloaded mark lies in the
  future of the fills, and they are passed over. Of the clock the proof uses that
  later instants are not in earlier seconds (`DivMonotone`), and of `Max` that a
  bounded set of numbers has one (`MaxOfBounded`).
* `PositionsProofs`: for fills of any size and price. Buying moves the signed
  count by n in each of its four cases and leaves no price on a flat row;
  selling does so for contracts held. For the cash, `Drift` is by how much one
  fill moves the account away from the row: nothing where contracts open, pair,
  close or flip, and at most half a tick for each contract where an average is
  rounded (`BuyAccounts`, `HalfEvenNear`). The average of prices is a price
  (`AverageStays`), which is the row's type.
* `ExposureProofs`: the invariant `Mirror` says that in a market that is not
  astray the exchange is ahead of the row by what was not ingested (`Ahead`), blind
  checks or not, from which `MirrorsWhenSeen` follows; `Flow` says that as long as
  no check was blind, all that is on its way belongs to one order. That order either closes and fits into what is held (`ToClose`), or
  opens and was paid for at its limit price (`ToOpen`), with the rounding of the
  parts that came in so far. The caps themselves are not inductive: closing a
  contract lowers the cost and the room for rounding. What does last is
  `Excess`, what a row holds beyond its room (`AtRest`). The sums over markets
  and orders are the library's folds; `SubsetInduction` (a smallest set among
  the bad ones) gives that they exist, can be taken apart at any element
  (`SumRemoves`), and keep inequalities (`SumBounds`).
* `AssessorProofs`: `Budgets` says that each request of a call was a failure of
  one of the budgets, but for the one under way. For `DecisionsApart` the
  invariant is that nothing that waits in this tick (to be assessed, assessed,
  or to be handled) is throttled, which lasts because only `Handle` decides and
  no ticker waits twice (`NoneTwice`), and that `Stages` leaves nothing over
  from one tick to the next. `LimitsInv` adds to the types that pages are asked
  for one after the other, each for no more than there is room for.
* `ClientProofs`, of the bucket by itself: `Credit` says that until the first
  refill of a stretch only the sleeper found in it gets a token, and that from
  then on each tick is credited at most twice, once by the sleep and once by the
  refill after it.
* `ClientProofs`, of the client: each step of Client is a step of TokenBucket or
  leaves it alone, from which the rate follows. For the balance, `ClientInv`
  says that at most one getter is in `_request` (the bankroll's lock), that its
  request was sent no earlier than the cached balance was current, and that it
  is answered within `Timeout`. For the types, `AttemptsLeft` says that an
  attempt is left until the last one backs off, and `WaitIsNat` that doubling
  defines the backoff.
* `SocketProofs`: what was ignored of a silence fits into the part of the
  watchdog's round that is over; resumes and connections reset it. The backoff
  stays within its maximum.
* `BreakersProofs`: `DayInv` carries the opening result from midnight to the
  day's row, from which both daily properties follow. For the windows, `Aging` says that entries are in order of age, so
  those in the window are the last ones (`Young`), and `Latest` that a deque
  holds the end of what was really sent or failed. A deque therefore counts right
  up to its length (`DequeCounts`), and one more entry or one more tick changes
  the count by what it should (`OneMore`, `NoneMore`).

Every type invariant, every other invariant and every action property of the
passing runs is a theorem, for all values of the constants that their
assumptions admit. The assumptions are on the constants only: limits are
positive where the code divides or counts by them, `Tickers` of Exposure and
Assessor is finite, the bounds are numbers, and a run of FillLedger lasts at
least a second (it begins with the first). Where a theorem needs more, its
statement says so: `ZoneEast >= 0` (`LostOnlyInBookedSecond`), and limits up to the
length of the deques (`OrderRateKept`, `SpikeEngages`; above it `BeyondTheDeque`).

The proofs count and add over sets and sequences of any size. The induction they
need is each time a least counterexample (`LeastNat`, `CountingUp`,
`SubsetInduction`), from the library's theorem that a well-founded relation has
minimal elements.

Only model-checked are the liveness properties, since fairness and ENABLED are
beyond TLAPS: `LockIsReleased`, `HaltIsSwept`, `EventuallyMirrors`,
`TickEnds` and `Reconnects`. The runs that violate a sentence of the
documentation are counterexamples, with nothing to prove.

## Not modelled

* The cache of event categories in the client (`client.py:209-234`): two
  concurrent look-ups may leave None for an hour where one of them succeeded. No
  document promises anything of it.
* The gap between two LLM requests, and the placeholder strategy.
* `today_pnl` of the dashboard (`dashboard.py:117-121`), which shows the
  cumulative result of midnight, or of now, rather than the day's; the other
  views are read-only as well.
* Signing, parsing, configuration, logging, the notifier's throttle, the
  heartbeat, the summaries: no state the properties speak of.
* The server's realized PnL that the reconciler adopts on a mismatch.
* A database locked by another process than the agent's own.

Assumptions of the environment: the exchange makes one order of one
`client_order_id`; a request, from sending to the handling of its answer, is over
within `Timeout` of Client (the HTTP client's timeout applies to each phase of
it); sleeps may last longer than asked for.

## What is left

1. The safety that the liveness properties rest on: that the Executor's lock, a
   pass and a tick always have a step that ends them, as invariants and theorems.
2. The category cache, with the whitelist check of `check_trade` that reads it.
