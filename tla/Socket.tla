------------------------------- MODULE Socket -------------------------------
(***************************************************************************)
(* The WebSocket client and its watchdog, on one event loop: run connects, *)
(* subscribes, dispatches and reconnects with backoff; the watchdog looks  *)
(* at the silence every WatchTick and engages HALT.  Times are in ticks.   *)
(* __main__ does not start them; a strategy may.                           *)
(***************************************************************************)
EXTENDS Integers

CONSTANTS
    Silence,      \* timeout_seconds of the watchdog
    WatchTick,    \* its tick_seconds
    MaxBackoff    \* the cap of the backoff (without the random part)

ASSUME SocketAssumption ==
    Silence \in Nat /\ WatchTick \in Nat \ {0} /\ MaxBackoff \in Nat \ {0}

VARIABLES
    stop, halt,
    pc,           \* where run is
    connected,    \* _connected
    quiet,        \* time since _last_message_at (counted to Silence + 1)
    backoff,      \* 2 ** attempt, capped: doubled by each failure in a row
    wait,         \* rest of the backoff
    due,          \* time until the watchdog looks again
    ignored       \* history: for how long HALT was due and not engaged

socket   == <<pc, connected, quiet, backoff, wait>>
watchdog == <<due, ignored>>
vars     == <<stop, halt, socket, watchdog>>

Least(a, b) == IF a <= b THEN a ELSE b

\* Mutant: a connection is left for good once it failed.
NeverAgain == pc' = "stopped" /\ connected' = FALSE

\* The head of run's loop.
Again == \/ stop /\ pc' = "stopped" /\ connected' = FALSE
         \/ ~stop /\ pc' = "connecting" /\ UNCHANGED connected

Connects ==
    /\ pc = "connecting"
    /\ pc' = "subscribing"
    /\ connected' = TRUE
    /\ quiet' = 0
    /\ UNCHANGED <<stop, halt, backoff, wait, watchdog>>

\* Every queued subscription is sent on every connection.
Subscribes ==
    /\ pc = "subscribing"
    /\ pc' = "reading"
    /\ backoff' = 1
    /\ UNCHANGED <<stop, halt, connected, quiet, wait, watchdog>>

\* The connection is refused or breaks, or a message is JSON but no object.
Breaks ==
    /\ pc \in {"connecting", "subscribing", "reading"}
    /\ pc' = "backoff"
    /\ connected' = FALSE
    /\ backoff' = Least(MaxBackoff, 2 * backoff)
    /\ \E jitter \in {0, 1} : wait' = backoff' + jitter
    /\ UNCHANGED <<stop, halt, quiet, watchdog>>

\* Mutant: a stop ends the wait, and nothing else does.
WaitsForStop == pc = "backoff" /\ stop

BackoffOver == pc = "backoff" /\ (wait = 0 \/ stop)
Retries ==
    /\ BackoffOver
    /\ Again
    /\ wait' = 0
    /\ UNCHANGED <<stop, halt, quiet, backoff, watchdog>>

\* The peer closes in good order: no exception, so no backoff, and _connected
\* stays as it is until the next attempt fails.
ClosesNormally ==
    /\ pc = "reading"
    /\ Again
    /\ UNCHANGED <<stop, halt, quiet, backoff, wait, watchdog>>

\* A message: bad JSON is skipped, stop event or not; one without a handler is
\* dropped; for any other the handler runs, and nothing is read until it is
\* done.  Pings are answered by the library and never get here.
Receives ==
    /\ pc = "reading"
    /\ quiet' = 0
    /\ \/ pc' \in {"reading", "handling"} /\ UNCHANGED connected
       \/ stop /\ Again
    /\ UNCHANGED <<stop, halt, backoff, wait, watchdog>>

\* The handler returns or raises.
HandlerEnds ==
    /\ pc = "handling"
    /\ \/ stop /\ Again
       \/ ~stop /\ pc' = "reading" /\ UNCHANGED connected
    /\ UNCHANGED <<stop, halt, quiet, backoff, wait, watchdog>>

-----------------------------------------------------------------------------

\* Mutant: a handler at work counts as a sign of life.
LooksAtReader ==
    /\ ~stop /\ due = 0
    /\ due' = WatchTick
    /\ halt' = (halt \/ (pc = "reading" /\ quiet > Silence))
    /\ UNCHANGED <<stop, socket, ignored>>

\* One round of WSWatchdog.run.  Its first loop, which waits for a connection,
\* differs only in not looking at a silence that cannot be.
Looks ==
    /\ ~stop /\ due = 0
    /\ due' = WatchTick
    /\ halt' = (halt \/ (connected /\ quiet > Silence))
    /\ UNCHANGED <<stop, socket, ignored>>

\* halt.sh and resume.sh, or anything else that engages HALT.
Toggles == halt' = ~halt /\ ignored' = 0 /\ UNCHANGED <<stop, socket, due>>

Stops == ~stop /\ stop' = TRUE /\ UNCHANGED <<halt, socket, watchdog>>

\* Timers that are due come first: the loop is not blocked.
Tick ==
    /\ stop \/ due > 0
    /\ ~BackoffOver
    /\ quiet' = Least(quiet + 1, Silence + 1)
    /\ wait' = IF pc = "backoff" THEN wait - 1 ELSE wait
    /\ due' = IF due > 0 THEN due - 1 ELSE 0
    /\ ignored' = IF connected /\ quiet > Silence /\ ~halt /\ ~stop
                  THEN Least(ignored + 1, WatchTick + 1) ELSE 0
    /\ UNCHANGED <<stop, halt, pc, connected, backoff>>

Init ==
    /\ stop = FALSE /\ halt \in BOOLEAN
    /\ pc = "connecting" /\ connected = FALSE /\ quiet = 0 /\ backoff = 1 /\ wait = 0
    /\ due = 0 /\ ignored = 0

Next ==
    \/ Connects \/ Subscribes \/ Breaks \/ Retries \/ ClosesNormally
    \/ Receives \/ HandlerEnds
    \/ Looks \/ Toggles \/ Stops \/ Tick

Spec == Init /\ [][Next]_vars

\* Time passes and timers fire; the exchange accepts a connection, and what is
\* sent on it, again and again; handlers end.
FairSpec ==
    /\ Spec
    /\ WF_vars(Tick) /\ WF_vars(Looks) /\ WF_vars(Retries) /\ WF_vars(HandlerEnds)
    /\ SF_vars(Connects) /\ SF_vars(Subscribes)

-----------------------------------------------------------------------------
(* Properties. *)

\* Type invariant.
TypeOK ==
    /\ stop \in BOOLEAN /\ halt \in BOOLEAN /\ connected \in BOOLEAN
    /\ pc \in {"connecting", "subscribing", "reading", "handling", "backoff", "stopped"}
    /\ quiet \in 0 .. Silence + 1 /\ backoff \in 1 .. MaxBackoff
    /\ wait \in 0 .. MaxBackoff + 1 /\ due \in 0 .. WatchTick
    /\ ignored \in 0 .. WatchTick + 1

\* A connection that is silent too long has HALT engaged within one tick of the
\* watchdog: also again after a resume, behind a slow handler, and while a
\* connection that was closed in good order is being replaced.
SilenceIsNoticed == ignored <= WatchTick

\* The client never gives up: it reads from the exchange again, or was stopped.
Reconnects == pc # "reading" ~> (pc = "reading" \/ stop)
=============================================================================
