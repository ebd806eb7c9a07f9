------------------------------ MODULE Assessor ------------------------------
(***************************************************************************)
(* A tick of the strategy: LLMMarketAssessor finds markets that were not   *)
(* decided on lately, asks the LLM about each (OpenRouterClient.chat_json, *)
(* with two budgets of retries), and the scheduler hands the signals to    *)
(* the Executor, which leaves a row in the decisions table: the only thing *)
(* the throttle of the next tick looks at.                                 *)
(*                                                                         *)
(* Probabilities and prices are left out: an assessment ends in a signal   *)
(* or not.  The gap between two requests of chat_json is left out too.     *)
(***************************************************************************)
EXTENDS Integers, FiniteSets

CONSTANTS
    Tickers, Twice,         \* those the configured list names a second time
    MinBetween,             \* min_seconds_between_signals_per_ticker
    MaxPerTick, MaxPages,   \* max_markets_per_tick, discovery_max_pages
    MaxRetries, MaxRateLimitRetries,
    MaxTime                 \* bound: length of the run

ASSUME TickersAssumption == IsFiniteSet(Tickers) /\ Twice \subseteq Tickers
ASSUME RetriesAssumption ==
    MaxRetries \in Nat \ {0} /\ MaxRateLimitRetries \in Nat \ {0}
ASSUME TickAssumption ==
    MinBetween \in Nat /\ MaxPerTick \in Nat \ {0} /\ MaxPages \in Nat \ {0}
ASSUME TimeBound == MaxTime \in Nat

VARIABLES
    now,
    manual,         \* tickers are configured, or markets are discovered
    pc,             \* generate_signals, chat_json and the scheduler's loop
    todo, page,     \* entries of the list, or pages, still to be looked at
    queue,          \* candidates: a ticker and its entry or page
    asked,          \* the candidate the LLM is asked about
    errs, limits,   \* error_attempts, rate_limit_attempts
    signals,        \* candidates with a signal
    decidedAt,      \* created_at of the latest decision on a ticker
    \* history:
    requests,       \* of this call of chat_json, up to one too many
    repeated        \* a market is a candidate of this tick twice

tick    == <<todo, page, queue, asked, signals>>
call    == <<errs, limits, requests>>
vars    == <<now, manual, pc, tick, call, decidedAt, repeated>>

Never == -1 - MinBetween

\* A ticker, and the entry of the list or the page that brought it.
Spots == Tickers \X ({1, 2} \cup 1 .. MaxPages)
Calling == pc \in {"call", "answer"}

-----------------------------------------------------------------------------
(* The candidates. *)

\* Mutant: nobody looks at the decisions.
NeverSignalled(t) == FALSE

\* _was_recently_signalled: any decision of this strategy counts.
RecentlySignalled(t) == decidedAt[t] >= now - MinBetween

\* max_instances=1: a tick starts when the one before is over.
TickStarts ==
    /\ pc = "idle"
    /\ pc' = "fetch"
    /\ todo' = IF manual THEN (Tickers \X {1}) \cup (Twice \X {2}) ELSE {}
    /\ page' = 1
    /\ repeated' = FALSE
    /\ UNCHANGED <<now, manual, queue, asked, signals, call, decidedAt>>

\* The next entry of the configured list is throttled, cannot be fetched
\* (KalshiAPIError), or is a candidate, a second time if it is listed twice.
FetchTicker(e) ==
    /\ pc = "fetch" /\ e \in todo
    /\ todo' = todo \ {e}
    /\ \/ UNCHANGED <<queue, repeated>>
       \/ /\ ~RecentlySignalled(e[1])
          /\ queue' = queue \cup {e}
          /\ repeated' = (repeated \/ \E q \in queue : q[1] = e[1])
    /\ pc' = IF todo' = {} THEN "assess" ELSE "fetch"
    /\ UNCHANGED <<now, manual, page, asked, signals, call, decidedAt>>

\* A page of open markets; S passes the filters of _reject_reason.  Discovery
\* ends with enough candidates, without a cursor, or after MaxPages.
FetchPage ==
    /\ pc = "fetch" /\ ~manual
    /\ \E S \in SUBSET Tickers :
          LET fit  == {t \in S : ~RecentlySignalled(t)}
              room == MaxPerTick - Cardinality(queue)
          IN  \E T \in SUBSET fit :
                 /\ Cardinality(T) = IF Cardinality(fit) < room
                                     THEN Cardinality(fit) ELSE room
                 /\ queue' = queue \cup (T \X {page})
                 /\ repeated' = (repeated \/ \E q \in queue : q[1] \in T)
    /\ page' = page + 1
    /\ \/ pc' = "assess"
       \/ Cardinality(queue') < MaxPerTick /\ page < MaxPages /\ pc' = "fetch"
    /\ UNCHANGED <<now, manual, todo, asked, signals, call, decidedAt>>

\* KalshiAPIError: on with what was found.
PageFails ==
    /\ pc = "fetch" /\ ~manual
    /\ pc' = "assess"
    /\ UNCHANGED <<now, manual, tick, call, decidedAt, repeated>>

\* Everything of the tick is dropped: an exception that generate_signals does
\* not catch (a transport error, an answer of the LLM's server that is no JSON)
\* or a restart.
TickDies ==
    /\ pc # "idle"
    /\ pc' = "idle"
    /\ todo' = {} /\ queue' = {} /\ signals' = {} /\ asked' = {}
    /\ errs' = 0 /\ limits' = 0 /\ requests' = 0
    /\ UNCHANGED <<now, manual, page, decidedAt, repeated>>

-----------------------------------------------------------------------------
(* The LLM. *)

\* The next candidate: not active any more, or asked about.
TakeMarket(q) ==
    /\ pc = "assess" /\ q \in queue
    /\ queue' = queue \ {q}
    /\ \/ UNCHANGED <<pc, asked, call>>
       \/ /\ pc' = "call" /\ asked' = {q}
          /\ errs' = 0 /\ limits' = 0 /\ requests' = 0
    /\ UNCHANGED <<now, manual, todo, page, signals, decidedAt, repeated>>

\* A request goes out, after the sleep of the previous failure.
Request ==
    /\ pc = "call"
    /\ pc' = "answer"
    /\ requests' = IF requests < MaxRetries + MaxRateLimitRetries
                   THEN requests + 1 ELSE requests
    /\ UNCHANGED <<now, manual, tick, errs, limits, decidedAt, repeated>>

\* chat_json is over, with or without a result.
CallEnds == /\ pc' = "assess" /\ asked' = {}
            /\ errs' = 0 /\ limits' = 0 /\ requests' = 0

\* Mutant: the budget is compared before the failure is counted.
RequestFailsLate ==
    /\ pc = "answer"
    /\ IF errs >= MaxRetries THEN CallEnds
       ELSE pc' = "call" /\ errs' = errs + 1 /\ UNCHANGED <<limits, requests, asked>>
    /\ UNCHANGED <<now, manual, todo, page, queue, signals, decidedAt, repeated>>

\* A transport error, a 5xx, or an empty completion.
RequestFails ==
    /\ pc = "answer"
    /\ IF errs + 1 >= MaxRetries THEN CallEnds
       ELSE pc' = "call" /\ errs' = errs + 1 /\ UNCHANGED <<limits, requests, asked>>
    /\ UNCHANGED <<now, manual, todo, page, queue, signals, decidedAt, repeated>>

\* Mutant: a 429 costs nothing.
RateLimitedFree ==
    /\ pc = "answer"
    /\ pc' = "call"
    /\ UNCHANGED <<now, manual, tick, call, decidedAt, repeated>>

\* 429, with a budget of its own.
RateLimited ==
    /\ pc = "answer"
    /\ IF limits + 1 >= MaxRateLimitRetries THEN CallEnds
       ELSE pc' = "call" /\ limits' = limits + 1 /\ UNCHANGED <<errs, requests, asked>>
    /\ UNCHANGED <<now, manual, todo, page, queue, signals, decidedAt, repeated>>

\* An answer: a signal, or no signal (a refusal, bad JSON or schema, too little
\* confidence or edge).
Answered ==
    /\ pc = "answer"
    /\ \/ signals' = signals \cup asked
       \/ UNCHANGED signals
    /\ CallEnds
    /\ UNCHANGED <<now, manual, todo, page, queue, decidedAt, repeated>>

-----------------------------------------------------------------------------
(* The scheduler's loop over the signals. *)

Assessed ==
    /\ pc = "assess" /\ queue = {}
    /\ pc' = IF signals = {} THEN "idle" ELSE "handle"
    /\ UNCHANGED <<now, manual, tick, call, decidedAt, repeated>>

\* Executor.handle_signal decides, or raises and leaves no decision.
Handle(q) ==
    /\ pc = "handle" /\ q \in signals
    /\ signals' = signals \ {q}
    /\ \/ decidedAt' = [decidedAt EXCEPT ![q[1]] = now]
       \/ UNCHANGED decidedAt
    /\ pc' = IF signals' = {} THEN "idle" ELSE "handle"
    /\ UNCHANGED <<now, manual, todo, page, queue, asked, call, repeated>>

Tick ==
    /\ now < MaxTime
    /\ now' = now + 1
    /\ UNCHANGED <<manual, pc, tick, call, decidedAt, repeated>>

Init ==
    /\ now = 0 /\ manual \in BOOLEAN /\ pc = "idle"
    /\ todo = {} /\ page = 1 /\ queue = {} /\ asked = {} /\ signals = {}
    /\ errs = 0 /\ limits = 0 /\ requests = 0
    /\ decidedAt = [t \in Tickers |-> Never]
    /\ repeated = FALSE

FetchStep  == FetchPage \/ PageFails \/ \E e \in todo : FetchTicker(e)
CallStep   == Request \/ RequestFails \/ RateLimited \/ Answered
MarketStep == Assessed \/ \E q \in queue : TakeMarket(q)
HandleStep == \E q \in signals : Handle(q)

Next == \/ TickStarts \/ TickDies \/ Tick
        \/ FetchStep \/ MarketStep \/ CallStep \/ HandleStep

Spec == Init /\ [][Next]_vars

\* Requests time out and sleeps end.
FairSpec == Spec /\ WF_vars(FetchStep \/ MarketStep \/ CallStep \/ HandleStep)

-----------------------------------------------------------------------------
(* Properties. *)

\* Type invariant.
TypeOK ==
    /\ now \in 0 .. MaxTime /\ manual \in BOOLEAN /\ repeated \in BOOLEAN
    /\ pc \in {"idle", "fetch", "assess", "call", "answer", "handle"}
    /\ todo \subseteq Spots /\ page \in 1 .. MaxPages + 1
    /\ queue \subseteq Spots
    /\ ~manual => Cardinality(queue) <= MaxPerTick
    /\ signals \subseteq Spots
    /\ asked \subseteq Spots /\ (asked # {} <=> Calling)
    /\ errs \in 0 .. MaxRetries - 1 /\ limits \in 0 .. MaxRateLimitRetries - 1
    /\ requests \in 0 .. MaxRetries + MaxRateLimitRetries
    /\ decidedAt \in [Tickers -> Int]

\* However failures and rate limits alternate, one market costs no more requests
\* than both budgets allow together.
RequestsBounded == requests <= MaxRetries + MaxRateLimitRetries - 1

\* Two decisions on a ticker are further apart than the throttle says, although
\* it is consulted only at the start of a tick and a tick takes long; unless the
\* same market was a candidate twice, listed by two pages of one discovery or
\* named twice in the configuration.
DecisionsApart ==
    [][\A t \in Tickers :
          decidedAt'[t] # decidedAt[t] /\ ~repeated => now - decidedAt[t] > MinBetween]_vars

\* A tick ends, so the next one can start (max_instances=1), whatever the
\* exchange and the LLM answer.
TickEnds == pc # "idle" ~> pc = "idle"
=============================================================================
