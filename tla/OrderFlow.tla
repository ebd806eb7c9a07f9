------------------------------ MODULE OrderFlow ------------------------------
(***************************************************************************)
(* The life of an order: the Executor that turns a signal into at most one *)
(* order, the REST client's retry loop around the POST, the exchange, the  *)
(* HaltMonitor that sweeps resting orders when the HALT file appears, the  *)
(* recovery of pending rows after a restart, and the ingestion of fills.   *)
(*                                                                         *)
(* A signal stands for the uuid4 client_order_id the Executor draws for    *)
(* it: both are used once.  One asyncio loop runs all the tasks, so a      *)
(* handler runs from one await to the next without another handler in      *)
(* between (LoopFree); the exchange, the operator's scripts and a crash    *)
(* can fall anywhere.                                                      *)
(*                                                                         *)
(* With a Discord webhook the FillIngestor posts inside its transaction:   *)
(* another handler that commits meanwhile waits for SQLite's busy_timeout, *)
(* on the loop the ingestor would need to go on, and then raises.          *)
(***************************************************************************)
EXTENDS Naturals

CONSTANTS
    Signals,      \* the signals the strategy will emit
    MaxAttempts,  \* max_retries of KalshiClient._request
    Crowded,      \* the account has more orders than list_orders' one page takes
    Notifying,    \* a Discord webhook is set: commits may find the database locked
    NoSignal      \* the Executor has no signal in hand

ASSUME MaxAttemptsAssumption == MaxAttempts \in Nat \ {0}
ASSUME CrowdedAssumption == Crowded \in BOOLEAN
ASSUME NotifyingAssumption == Notifying \in BOOLEAN
ASSUME NoSignalAssumption == NoSignal \notin Signals

VARIABLES
    up,           \* the process is running
    fresh,        \* signals not yet handed to the Executor
    halt,         \* the HALT file exists
    decision,     \* decisions table
    row,          \* orders.status, "none" before the row exists
    kid,          \* orders.kalshi_order_id is set
    exch,         \* the exchange's state of the order
    fill,         \* executions of the order: none, unread by us, ingested
    late,         \* abandoned POSTs that may still reach the exchange
    exPc, exSig, attempt, exc, reply,   \* Executor and its _request loop
    hmPc, hmLast, hmTargets,            \* HaltMonitor
    recPc, recTodo, remote,             \* recover_in_flight_orders
    \* history, read by properties only:
    lateArrived,  \* orders whose POST arrived after it was abandoned
    sentSince,    \* orders POSTed since HALT was last engaged
    sweep,        \* what the HaltMonitor did about this HALT
    hmClean,      \* every cancel of the sweep under way took effect
    unswept,      \* orders resting, and not shown to that sweep by a full page
    unlisted      \* the same for recovery: not shown in the state they were in

exVars   == <<exPc, exSig, attempt, exc, reply>>
hmVars   == <<hmPc, hmLast, hmTargets>>
recVars  == <<recPc, recTodo, remote, unlisted>>
db       == <<decision, row, kid>>
exchange == <<exch, fill, late, lateArrived>>
haltVars == <<halt, sentSince, sweep, hmClean, unswept>>
life     == <<up, fresh>>
vars     == <<exVars, hmVars, recVars, db, exchange, haltVars, life>>

\* Statuses the exchange gives an order, and every value of orders.status.
ServerStatus == {"resting", "executed", "canceled"}
RowStatus == ServerStatus \cup
    {"none", "pending", "send_failed", "lost", "cancelled_by_halt", "filled"}

\* The Executor holds an accepted decision.
Admitted == exPc \in {"decided", "sending", "awaiting"}
OnExchange(st) == {s \in Signals : exch[s] = st}

\* No handler is between two of its synchronous statements.
LoopFree == up /\ exPc # "decided" /\ hmPc # "mark" /\ recPc # "write"

-----------------------------------------------------------------------------
(* The HALT file. *)

\* KillSwitch.engage: nothing when the file is already there.
Engage == /\ ~halt
          /\ halt' = TRUE
          /\ sentSince' = {}
          /\ sweep' = "none"
          /\ hmClean' = FALSE
          /\ unswept' = {}

\* record_error or a breach found by check_trade: may reach its threshold.
MayEngage == Engage \/ UNCHANGED haltVars

-----------------------------------------------------------------------------
(* Executor.handle_signal, under the reconciler's lock. *)

Idle == /\ exPc' = "idle"
        /\ exSig' = NoSignal
        /\ attempt' = 0
        /\ exc' = "none"
        /\ reply' = "none"

ExecutorAt(pc) == LoopFree /\ exPc = pc

ToExecutorAt(pc) == exPc' = pc /\ UNCHANGED <<exSig, attempt, exc, reply>>

\* The rejection is recorded, or its commit raises and the signal is just lost.
Reject(s) == \/ decision' = [decision EXCEPT ![s] = "rejected"]
             \/ Notifying /\ UNCHANGED decision

\* Mutant: the signal can come again with the same client_order_id.
TakeSignalAgain(s) ==
    /\ ExecutorAt("idle")
    /\ s \in fresh
    /\ exPc' = "market"
    /\ exSig' = s
    /\ UNCHANGED <<fresh, decision, attempt, exc, reply>>
    /\ UNCHANGED <<up, row, kid, hmVars, recVars, exchange, haltVars>>

\* The signal expired before it was looked at, or the market is asked for.
TakeSignal(s) ==
    /\ ExecutorAt("idle")
    /\ s \in fresh
    /\ fresh' = fresh \ {s}
    /\ \/ Reject(s) /\ UNCHANGED exVars
       \/ /\ exPc' = "market"
          /\ exSig' = s
          /\ UNCHANGED <<decision, attempt, exc, reply>>
    /\ UNCHANGED <<up, row, kid, hmVars, recVars, exchange, haltVars>>

\* get_market answered: not tradable, or on to the bankroll.
MarketAnswers ==
    /\ ExecutorAt("market")
    /\ \/ Reject(exSig) /\ Idle
       \/ ToExecutorAt("bankroll") /\ UNCHANGED decision
    /\ UNCHANGED <<row, kid, hmVars, recVars, exchange, haltVars, life>>

\* KalshiAPIError or KalshiAuthError: counted by the error-spike breaker.
MarketFails ==
    /\ ExecutorAt("market")
    /\ Reject(exSig) /\ Idle
    /\ MayEngage
    /\ UNCHANGED <<row, kid, hmVars, recVars, exchange, life>>

\* Any other exception (httpx.HTTPError) leaves through handle_signal: the
\* scheduler logs it and nothing is written.
HandlerRaises ==
    /\ exPc \in {"market", "bankroll"} /\ LoopFree
    /\ Idle
    /\ UNCHANGED <<hmVars, recVars, db, exchange, haltVars, life>>

\* Zero bankroll, or check_trade says no, some breaches engaging HALT.
GateRejects ==
    /\ ExecutorAt("bankroll")
    /\ Reject(exSig) /\ Idle
    /\ MayEngage
    /\ UNCHANGED <<row, kid, hmVars, recVars, exchange, life>>

\* Mutant: the kill switch is not looked at.
GateAcceptsUnderHalt ==
    /\ ExecutorAt("bankroll")
    /\ decision' = [decision EXCEPT ![exSig] = "accepted"]
    /\ ToExecutorAt("decided")
    /\ UNCHANGED <<row, kid, hmVars, recVars, exchange, haltVars, life>>

\* check_trade allows the trade, having seen no HALT file.
GateAccepts ==
    /\ ExecutorAt("bankroll")
    /\ ~halt
    /\ decision' = [decision EXCEPT ![exSig] = "accepted"]
    /\ ToExecutorAt("decided")
    /\ UNCHANGED <<row, kid, hmVars, recVars, exchange, haltVars, life>>

\* Mutant: the row is added to the session and not committed.
PersistOrderUncommitted ==
    /\ up /\ exPc = "decided"
    /\ ToExecutorAt("sending")
    /\ UNCHANGED <<db, hmVars, recVars, exchange, haltVars, life>>

\* The Order row, committed in a transaction of its own before the POST.
PersistOrder ==
    /\ up /\ exPc = "decided"
    /\ row' = [row EXCEPT ![exSig] = "pending"]
    /\ ToExecutorAt("sending")
    /\ UNCHANGED <<decision, kid, hmVars, recVars, exchange, haltVars, life>>

\* Mutant: one attempt too many.
SendOrderOnceMore ==
    /\ ExecutorAt("sending")
    /\ attempt <= MaxAttempts
    /\ exPc' = "awaiting"
    /\ reply' = "out"
    /\ sentSince' = IF halt THEN sentSince \cup {exSig} ELSE sentSince
    /\ UNCHANGED <<exSig, attempt, exc, halt, sweep, hmClean, unswept,
                   hmVars, recVars, db, exchange, life>>

\* One attempt of _request, after the write bucket let it through.
SendOrder ==
    /\ ExecutorAt("sending")
    /\ attempt < MaxAttempts
    /\ exPc' = "awaiting"
    /\ reply' = "out"
    /\ sentSince' = IF halt THEN sentSince \cup {exSig} ELSE sentSince
    /\ UNCHANGED <<exSig, attempt, exc, halt, sweep, hmClean, unswept,
                   hmVars, recVars, db, exchange, life>>

\* A failed attempt: e is what last_exc becomes.
NextAttempt(e) ==
    /\ exPc' = "sending"
    /\ attempt' = attempt + 1
    /\ exc' = e
    /\ reply' = "none"
    /\ UNCHANGED exSig

\* httpx.HTTPError: the request, or its answer, is not waited for any longer.
SendTimesOut ==
    /\ ExecutorAt("awaiting")
    /\ late' = IF reply = "out" /\ exch[exSig] = "absent"
               THEN late \cup {exSig} ELSE late
    /\ NextAttempt("transport")
    /\ UNCHANGED <<exch, fill, lateArrived, hmVars, recVars, db, haltVars, life>>

\* Mutant: a 429 does not count as an attempt.
SendRefusedUncounted ==
    /\ ExecutorAt("awaiting")
    /\ \/ reply = "throttled" /\ exPc' = "sending" /\ reply' = "none"
          /\ UNCHANGED <<exSig, attempt, exc>>
       \/ reply = "error5xx" /\ NextAttempt("api")
    /\ UNCHANGED <<hmVars, recVars, db, exchange, haltVars, life>>

\* 429 keeps last_exc; 5xx replaces it.
SendRefused ==
    /\ ExecutorAt("awaiting")
    /\ \/ reply = "throttled" /\ NextAttempt(exc)
       \/ reply = "error5xx" /\ NextAttempt("api")
    /\ UNCHANGED <<hmVars, recVars, db, exchange, haltVars, life>>

\* The row takes the exchange's order id and status, whatever it holds by now.
SendSucceeds ==
    /\ ExecutorAt("awaiting")
    /\ reply \in ServerStatus
    /\ row' = [row EXCEPT ![exSig] = reply]
    /\ kid' = kid \cup {exSig}
    /\ Idle
    /\ UNCHANGED <<decision, hmVars, recVars, exchange, haltVars, life>>

\* KalshiAPIError or KalshiAuthError out of create_order: a 4xx, or the
\* attempts are used up and the last error was not a transport error.
SendFails ==
    /\ \/ ExecutorAt("awaiting") /\ reply = "fatal"
       \/ ExecutorAt("sending") /\ attempt = MaxAttempts /\ exc # "transport"
    /\ \/ row' = [row EXCEPT ![exSig] = "send_failed"]
       \/ Notifying /\ UNCHANGED row
    /\ Idle
    /\ MayEngage
    /\ UNCHANGED <<decision, kid, hmVars, recVars, exchange, life>>

\* The attempts are used up on a transport error, a 429 names no number of
\* seconds, or the answer cannot be read or stored: nobody catches that before
\* the scheduler, and the row stays.
SendRaises ==
    /\ \/ ExecutorAt("sending") /\ attempt = MaxAttempts /\ exc = "transport"
       \/ ExecutorAt("awaiting") /\ reply \in ServerStatus \cup {"throttled"}
    /\ Idle
    /\ UNCHANGED <<hmVars, recVars, db, exchange, haltVars, life>>

ExecutorStep ==
    \/ \E s \in Signals : TakeSignal(s)
    \/ MarketAnswers \/ MarketFails \/ HandlerRaises
    \/ GateRejects \/ GateAccepts \/ PersistOrder
    \/ SendOrder \/ SendTimesOut \/ SendRefused
    \/ SendSucceeds \/ SendFails \/ SendRaises

-----------------------------------------------------------------------------
(* The exchange. *)

\* Order s is accepted with status st; an executed order has traded, one that
\* rests or was canceled (IOC remainder) may have.
Accepted(s, st) ==
    /\ exch[s] = "absent"
    /\ exch' = [exch EXCEPT ![s] = st]
    /\ \/ st # "resting" /\ fill' = [fill EXCEPT ![s] = "unread"]
       \/ st # "executed" /\ UNCHANGED fill
    /\ late' = late \ {s}

\* The POST under way is processed and answered.  A client_order_id already
\* known never makes a second order: it is answered with the first one, or
\* with an error.
ExchangeReceives ==
    /\ exPc = "awaiting" /\ reply = "out"
    /\ \/ /\ reply' \in {"throttled", "error5xx"}
          /\ UNCHANGED exchange
       \/ /\ reply' \in {"fatal"} \cup ({exch[exSig]} \ {"absent"})
          /\ UNCHANGED exchange
       \/ \E st \in ServerStatus :
             /\ Accepted(exSig, st)
             /\ reply' \in {st, "error5xx"}
             /\ UNCHANGED lateArrived
    /\ UNCHANGED <<exPc, exSig, attempt, exc, hmVars, recVars, db, haltVars, life>>

\* A POST nobody waits for any longer reaches the exchange.
LateArrival(s) ==
    /\ s \in late
    /\ \E st \in ServerStatus : Accepted(s, st)
    /\ lateArrived' = lateArrived \cup {s}
    /\ UNCHANGED <<exVars, hmVars, recVars, db, haltVars, life>>

\* A resting order trades, in part at first; it ends executed or canceled.
RestingMoves(s) ==
    /\ exch[s] = "resting"
    /\ \/ fill[s] = "none" /\ fill' = [fill EXCEPT ![s] = "unread"] /\ UNCHANGED exch
       \/ fill[s] # "none" /\ exch' = [exch EXCEPT ![s] = "executed"] /\ UNCHANGED fill
       \/ exch' = [exch EXCEPT ![s] = "canceled"] /\ UNCHANGED fill
    /\ UNCHANGED <<late, lateArrived, exVars, hmVars, recVars, db, haltVars, life>>

ExchangeStep ==
    \/ ExchangeReceives
    \/ \E s \in Signals : LateArrival(s) \/ RestingMoves(s)

-----------------------------------------------------------------------------
(* HaltMonitor.run, once a second. *)

\* list_orders reads one page and follows no cursor: of more orders than the
\* page takes it may leave out any.
Pages(S) == IF Crowded THEN SUBSET S ELSE {S}

\* Mutant: the rows are marked and nothing is canceled.
HaltSeenMarksOnly ==
    /\ LoopFree /\ hmPc = "watch"
    /\ halt /\ ~hmLast
    /\ hmPc' = "mark"
    /\ hmClean' = TRUE
    /\ UNCHANGED <<hmLast, hmTargets, halt, sentSince, sweep, unswept,
                   exVars, recVars, db, exchange, life>>

\* Mutant: _last_state is taken before the sweep, which is then not run.
HaltSeenTooEarly ==
    /\ LoopFree /\ hmPc = "watch"
    /\ halt /\ ~hmLast
    /\ hmLast' = TRUE
    /\ UNCHANGED <<hmPc, hmTargets, exVars, recVars, db, exchange, haltVars, life>>

HaltSeen ==
    /\ LoopFree /\ hmPc = "watch"
    /\ halt /\ ~hmLast
    /\ hmPc' = "list"
    /\ hmClean' = TRUE
    /\ UNCHANGED <<hmLast, hmTargets, halt, sentSince, sweep, unswept,
                   exVars, recVars, db, exchange, life>>

ResumeSeen ==
    /\ LoopFree /\ hmPc = "watch"
    /\ ~halt /\ hmLast
    /\ hmLast' = FALSE
    /\ UNCHANGED <<hmPc, hmTargets, exVars, recVars, db, exchange, haltVars, life>>

\* list_orders(status="resting") of cancel_all_resting.
ListForCancel ==
    /\ LoopFree /\ hmPc = "list"
    /\ hmTargets' \in Pages(OnExchange("resting"))
    /\ unswept' = OnExchange("resting") \ (hmTargets' \cup lateArrived)
    /\ hmPc' = IF hmTargets' = {} THEN "mark" ELSE "cancel"
    /\ UNCHANGED <<hmLast, halt, sentSince, sweep, hmClean,
                   exVars, recVars, db, exchange, life>>

\* cancel_order: done, or refused with a KalshiAPIError that is only logged
\* (the order may have gone by then, so a refusal need not leave it resting).
CancelOne(s) ==
    /\ LoopFree /\ hmPc = "cancel"
    /\ s \in hmTargets
    /\ hmTargets' = hmTargets \ {s}
    /\ hmPc' = IF hmTargets' = {} THEN "mark" ELSE "cancel"
    /\ \/ /\ exch[s] = "resting"
          /\ exch' = [exch EXCEPT ![s] = "canceled"]
          /\ UNCHANGED hmClean
       \/ /\ hmClean' = (hmClean /\ exch[s] # "resting")
          /\ UNCHANGED exch
    /\ UNCHANGED <<hmLast, fill, late, lateArrived, halt, sentSince, sweep, unswept,
                   exVars, recVars, db, life>>

\* Any other exception ends the sweep; _on_engaged logs it and goes on.
SweepAborts ==
    /\ LoopFree /\ hmPc \in {"list", "cancel"}
    /\ hmPc' = "mark"
    /\ hmTargets' = {}
    /\ hmClean' = FALSE
    /\ unswept' = {}
    /\ UNCHANGED <<hmLast, halt, sentSince, sweep, exVars, recVars, db, exchange, life>>

\* Mutant: every row is marked, whatever its status.
MarkAllCancelled ==
    /\ up /\ hmPc = "mark"
    /\ row' = [s \in Signals |-> IF row[s] # "none" THEN "cancelled_by_halt" ELSE "none"]
    /\ hmPc' = "watch"
    /\ hmLast' = TRUE
    /\ sweep' = IF ~halt THEN "none" ELSE IF hmClean THEN "clean" ELSE "partial"
    /\ hmClean' = FALSE
    /\ unswept' = IF halt /\ hmClean THEN unswept ELSE {}
    /\ UNCHANGED <<hmTargets, decision, kid, halt, sentSince,
                   exVars, recVars, exchange, life>>

\* Local pending and resting rows become cancelled_by_halt, whether or not
\* the cancels worked; then _last_state takes the state read before the sweep.
MarkCancelled ==
    /\ up /\ hmPc = "mark"
    /\ row' = [s \in Signals |-> IF row[s] \in {"pending", "resting"}
                                 THEN "cancelled_by_halt" ELSE row[s]]
    /\ hmPc' = "watch"
    /\ hmLast' = TRUE
    /\ sweep' = IF ~halt THEN "none" ELSE IF hmClean THEN "clean" ELSE "partial"
    /\ hmClean' = FALSE
    /\ unswept' = IF halt /\ hmClean THEN unswept ELSE {}
    /\ UNCHANGED <<hmTargets, decision, kid, halt, sentSince,
                   exVars, recVars, exchange, life>>

\* The commit of the marks, or of a resume's event, raises: run does not catch
\* it, the task is over, and nothing starts it again before the next restart.
MonitorDies ==
    /\ Notifying /\ up
    /\ hmPc = "mark" \/ (LoopFree /\ hmPc = "watch" /\ ~halt /\ hmLast)
    /\ hmPc' = "dead"
    /\ hmClean' = FALSE
    /\ unswept' = {}
    /\ UNCHANGED <<hmLast, hmTargets, halt, sentSince, sweep,
                   exVars, recVars, db, exchange, life>>

HaltStep ==
    \/ HaltSeen \/ ResumeSeen \/ ListForCancel \/ SweepAborts \/ MarkCancelled \/ MonitorDies
    \/ \E s \in Signals : CancelOne(s)

-----------------------------------------------------------------------------
(* recover_in_flight_orders, the first task of a new process. *)

\* Mutant: the executed orders are not listed.
ListingsWithoutExecuted == {<<"list_resting", "resting", "list_canceled">>,
                            <<"list_canceled", "canceled", "write">>}

\* The three listings in the code's order: pc, the status asked for, next pc.
Listings == {<<"list_resting", "resting", "list_executed">>,
             <<"list_executed", "executed", "list_canceled">>,
             <<"list_canceled", "canceled", "write">>}

\* History: a page P of the orders with status st is read.
UnlistedAfter(P, st) ==
    (unlisted \ (P \cap recTodo)) \cup ((OnExchange(st) \ (P \cup lateArrived)) \cap recTodo)

\* Mutant: the status filter of the request is dropped.
RecoverListUnfiltered ==
    /\ LoopFree
    /\ \E l \in Listings : \E P \in Pages(Signals \ OnExchange("absent")) :
          /\ recPc = l[1]
          /\ remote' = [s \in Signals |-> IF s \in P \cap recTodo THEN l[2] ELSE remote[s]]
          /\ recPc' = l[3]
          /\ unlisted' = UnlistedAfter(P, l[2])
    /\ UNCHANGED <<recTodo, exVars, hmVars, db, exchange, haltVars, life>>

\* A later listing of the same order replaces an earlier one (dict merge).
RecoverList ==
    /\ LoopFree
    /\ \E l \in Listings : \E P \in Pages(OnExchange(l[2])) :
          /\ recPc = l[1]
          /\ remote' = [s \in Signals |-> IF s \in P \cap recTodo THEN l[2] ELSE remote[s]]
          /\ recPc' = l[3]
          /\ unlisted' = UnlistedAfter(P, l[2])
    /\ UNCHANGED <<recTodo, exVars, hmVars, db, exchange, haltVars, life>>

\* A failed listing, or commit of a row, ends recovery until the next restart.
RecoverFails ==
    /\ up
    /\ \/ LoopFree /\ recPc \in {l[1] : l \in Listings}
       \/ Notifying /\ recPc = "write"
    /\ recPc' = "done"
    /\ recTodo' = {}
    /\ remote' = [s \in Signals |-> "absent"]
    /\ unlisted' = unlisted \ recTodo
    /\ UNCHANGED <<exVars, hmVars, db, exchange, haltVars, life>>

\* Mutant: an order the exchange does not list is taken for canceled.
RecoverRowAsCanceled(s) ==
    /\ up /\ recPc = "write"
    /\ s \in recTodo
    /\ recTodo' = recTodo \ {s}
    /\ recPc' = IF recTodo' = {} THEN "done" ELSE "write"
    /\ remote' = [remote EXCEPT ![s] = "absent"]
    /\ row' = [row EXCEPT ![s] = IF remote[s] = "absent" THEN "canceled" ELSE remote[s]]
    /\ kid' = kid \cup {s}
    /\ UNCHANGED <<unlisted, decision, exVars, hmVars, exchange, haltVars, life>>

\* One row, one commit.
RecoverRow(s) ==
    /\ up /\ recPc = "write"
    /\ s \in recTodo
    /\ recTodo' = recTodo \ {s}
    /\ recPc' = IF recTodo' = {} THEN "done" ELSE "write"
    /\ remote' = [remote EXCEPT ![s] = "absent"]
    /\ \/ /\ remote[s] # "absent"
          /\ row' = [row EXCEPT ![s] = remote[s]]
          /\ kid' = kid \cup {s}
       \/ /\ remote[s] = "absent"
          /\ row' = [row EXCEPT ![s] = "lost"]
          /\ UNCHANGED kid
    /\ UNCHANGED <<unlisted, decision, exVars, hmVars, exchange, haltVars, life>>

\* FillIngestor applies an execution; the parent order is found by the
\* exchange's order id, if the row has it.  A fill that realizes exactly zero
\* is taken for a duplicate: it is kept, but the parent is not marked.
IngestFill(s) ==
    /\ LoopFree
    /\ fill[s] = "unread"
    /\ fill' = [fill EXCEPT ![s] = "ingested"]
    /\ \/ s \in kid /\ row' = [row EXCEPT ![s] = "filled"]
       \/ UNCHANGED row
    /\ UNCHANGED <<decision, kid, exch, late, lateArrived,
                   exVars, hmVars, recVars, haltVars, life>>

RecoveryStep == RecoverList \/ RecoverFails \/ \E s \in Signals : RecoverRow(s)

-----------------------------------------------------------------------------
(* Operator, process, specification. *)

\* The wiring of amain: the HaltMonitor samples HALT, recovery its snapshot; of
\* nothing pending its listings change nothing and are left out.
Start ==
    /\ ~up
    /\ up' = TRUE
    /\ hmLast' = halt
    /\ recTodo' = {s \in Signals : row[s] = "pending"}
    /\ recPc' = IF recTodo' = {} THEN "done" ELSE "list_resting"
    /\ UNCHANGED <<fresh, unlisted, hmPc, hmTargets, remote, decision, row, kid,
                   exVars, exchange, haltVars>>

\* A crash, or a shutdown, which abandons tasks at their awaits just the same.
Crash ==
    /\ up
    /\ up' = FALSE
    /\ Idle
    /\ late' = IF reply = "out" /\ exch[exSig] = "absent"
               THEN late \cup {exSig} ELSE late
    /\ hmPc' = "watch" /\ hmLast' = FALSE /\ hmTargets' = {}
    /\ recPc' = "done" /\ recTodo' = {} /\ remote' = [s \in Signals |-> "absent"]
    /\ hmClean' = FALSE
    /\ unlisted' = unlisted \ recTodo
    /\ UNCHANGED <<fresh, db, exch, fill, lateArrived, halt, sentSince, sweep, unswept>>

\* halt.sh, POST /halt or the background risk monitor.
EngageHalt == Engage /\ UNCHANGED <<exVars, hmVars, recVars, db, exchange, life>>

\* resume.sh or POST /resume.
ResumeHalt ==
    /\ halt
    /\ halt' = FALSE
    /\ sentSince' = {}
    /\ sweep' = "none"
    /\ hmClean' = FALSE
    /\ unswept' = {}
    /\ UNCHANGED <<exVars, hmVars, recVars, db, exchange, life>>

Init ==
    /\ up = FALSE /\ fresh = Signals /\ halt = FALSE
    /\ decision = [s \in Signals |-> "none"]
    /\ row = [s \in Signals |-> "none"] /\ kid = {}
    /\ exch = [s \in Signals |-> "absent"]
    /\ fill = [s \in Signals |-> "none"]
    /\ late = {} /\ lateArrived = {}
    /\ exPc = "idle" /\ exSig = NoSignal /\ attempt = 0 /\ exc = "none" /\ reply = "none"
    /\ hmPc = "watch" /\ hmLast = FALSE /\ hmTargets = {} /\ hmClean = FALSE
    /\ recPc = "done" /\ recTodo = {} /\ remote = [s \in Signals |-> "absent"]
    /\ sentSince = {} /\ sweep = "none" /\ unswept = {} /\ unlisted = {}

Next ==
    \/ ExecutorStep \/ HaltStep \/ RecoveryStep \/ ExchangeStep
    \/ \E s \in Signals : IngestFill(s)
    \/ Start \/ Crash \/ EngageHalt \/ ResumeHalt

Spec == Init /\ [][Next]_vars

-----------------------------------------------------------------------------
(* Fairness. *)

\* Every await ends (requests time out, the HaltMonitor ticks), and the loop
\* serves ready callbacks in turn: a handler that other handlers interrupt
\* again and again still gets its next step, hence strong fairness.
HandlersProgress ==
    /\ SF_vars(MarketAnswers \/ MarketFails \/ HandlerRaises \/ GateRejects \/ GateAccepts)
    /\ WF_vars(PersistOrder)
    /\ SF_vars(SendOrder)
    /\ SF_vars(SendTimesOut \/ SendRefused \/ SendSucceeds \/ SendFails \/ SendRaises)
    /\ SF_vars(HaltStep)
    /\ SF_vars(RecoveryStep)

\* Crashes are not forced to stop: the liveness properties are about the time
\* the process stays up.
FairSpec == Spec /\ HandlersProgress

-----------------------------------------------------------------------------
(* Properties. *)

ExecutorType ==
    /\ exPc \in {"idle", "market", "bankroll", "decided", "sending", "awaiting"}
    /\ exSig \in Signals \cup {NoSignal}
    /\ (exSig = NoSignal) <=> (exPc = "idle")
    /\ attempt \in 0 .. MaxAttempts
    /\ exPc = "awaiting" => attempt < MaxAttempts
    /\ (exPc = "awaiting") <=> (reply # "none")
    /\ exc \in {"none", "api", "transport"}
    /\ reply \in {"none", "out", "throttled", "error5xx", "fatal"} \cup ServerStatus
HaltMonitorType ==
    /\ hmPc \in {"watch", "list", "cancel", "mark", "dead"}
    /\ hmTargets \subseteq Signals
RecoveryType ==
    /\ recPc \in {"list_resting", "list_executed", "list_canceled", "write", "done"}
    /\ recTodo \subseteq Signals
    /\ remote \in [Signals -> {"absent"} \cup ServerStatus]
DatabaseType ==
    /\ decision \in [Signals -> {"none", "rejected", "accepted"}]
    /\ row \in [Signals -> RowStatus]
    /\ kid \subseteq Signals
ExchangeType ==
    /\ exch \in [Signals -> {"absent"} \cup ServerStatus]
    /\ fill \in [Signals -> {"none", "unread", "ingested"}]
    /\ late \subseteq Signals /\ lateArrived \subseteq Signals
FlagsType ==
    /\ up \in BOOLEAN /\ halt \in BOOLEAN
    /\ hmLast \in BOOLEAN /\ hmClean \in BOOLEAN
HistoryType ==
    /\ sentSince \subseteq Signals
    /\ sweep \in {"none", "partial", "clean"}
    /\ unswept \subseteq Signals /\ unlisted \subseteq Signals

\* Type invariant.
TypeOK ==
    /\ fresh \subseteq Signals
    /\ FlagsType /\ ExecutorType /\ HaltMonitorType /\ RecoveryType
    /\ DatabaseType /\ ExchangeType /\ HistoryType

\* Whatever is, or may still come, on the exchange was first written down: a
\* crash, a timeout or an abandoned POST never leaves an order the database
\* does not know (the Order row is committed before create_order).
NoOrderWithoutRow ==
    \A s \in Signals :
        (exch[s] # "absent" \/ s \in late \/ (exSig = s /\ exPc \in {"sending", "awaiting"}))
            => row[s] # "none" /\ decision[s] = "accepted"

\* During one HALT at most one order is POSTed, however often its request is
\* retried: the one the gate had let through when HALT was engaged.
HaltStopsOrders == \A a, b \in sentSince : a = b

\* Why the two invariants above hold step by step: a signal has no row until
\* PersistOrder, the Executor, recovery and the exchange's ids never share an
\* order unless it is recorded, and what was POSTed under this HALT is what the
\* Executor holds.
NoRowYet ==
    \A s \in Signals :
        s \in fresh \/ (s = exSig /\ exPc \in {"market", "bankroll", "decided"})
            => row[s] = "none"
RowsBehindIds ==
    \A s \in Signals : /\ s \in kid => row[s] \notin {"none", "pending"}
                       /\ s \in recTodo => row[s] # "none" /\ s \notin kid
                       /\ row[s] = "filled" => s \in kid
OneOwner ==
    /\ exSig \notin kid \cup recTodo \cup fresh
    /\ exPc = "decided" => decision[exSig] = "accepted"
    /\ ~up => exPc = "idle"
SentIsHeld ==
    /\ Admitted => sentSince \subseteq {exSig}
    /\ ~halt => sentSince = {}
OrderInv == /\ NoOrderWithoutRow /\ NoRowYet /\ RowsBehindIds /\ OneOwner
            /\ HaltStopsOrders /\ SentIsHeld

\* After a sweep of which every cancel took effect, and until the HALT is
\* lifted, at most one order rests on the exchange (the one the Executor had
\* let through), beyond those that arrived after their POST was given up and
\* those a full page of list_orders did not show.
HaltLeavesAtMostOne ==
    sweep = "clean" =>
        \A a, b \in OnExchange("resting") \ (lateArrived \cup unswept) : a = b

\* A status that an answer or a fill reported is the truth about the exchange,
\* although the Executor, recovery and the ingestor write it from what they read
\* some awaits, or a crash, ago.  "cancelled_by_halt" is no such status: the
\* HaltMonitor writes it whatever became of the cancels (MarkCancelled).
ReportedRowIsTrue ==
    \A s \in Signals :
        /\ row[s] \in {"executed", "canceled"} => exch[s] = row[s]
        /\ row[s] = "filled" => fill[s] = "ingested"

\* Why it holds: a terminal answer, however old, is still true when used, and
\* only an order the exchange has can have traded.
AnswersStayTrue ==
    /\ \A s \in Signals : fill[s] # "none" => exch[s] # "absent"
    /\ \A s \in Signals : remote[s] \in {"executed", "canceled"} => exch[s] = remote[s]
    /\ reply \in {"executed", "canceled"} => exch[exSig] = reply
ReportedInv == ReportedRowIsTrue /\ AnswersStayTrue

\* "lost" means that the exchange did not have the order, although the three
\* listings are of three moments: it has it later only because an abandoned POST
\* arrived after all, or because a full page did not show it.
LostWasAbsent ==
    \A s \in Signals :
        row[s] = "lost" /\ exch[s] # "absent" => s \in lateArrived \cup unlisted

\* No task, restart or HALT takes a filled order back, and a sent order is
\* never forgotten.
FilledIsFinal ==
    [][\A s \in Signals : /\ row[s] = "filled" => row'[s] = "filled"
                          /\ s \in kid => s \in kid']_vars

\* The promise of OrderIntent, kept through retries, crashes and HALTs.
Intent == INSTANCE OrderIntent WITH
    Orders   <- Signals,
    halted   <- halt,
    admitted <- IF Admitted THEN {exSig} ELSE {},
    intent   <- {s \in Signals : row[s] # "none"},
    placed   <- {s \in Signals : exch[s] # "absent"}
KeepsIntent == Intent!Spec

\* The Executor gives the reconciler's lock back: no outcome of the requests
\* it makes blocks signals or reconciliation for ever.
LockIsReleased == exPc # "idle" ~> exPc = "idle"

\* A HALT that begins while the HaltMonitor last saw none is swept, unless it is
\* lifted, the process stops first, or the monitor's task has died of a locked
\* database.  Not promised, nor done: a HALT lifted and engaged again between
\* two looks of the monitor (its second between ticks, or the whole of a sweep),
\* which it takes for the old one.
HaltIsSwept ==
    (up /\ halt /\ ~hmLast) ~> (sweep # "none" \/ ~halt \/ ~up \/ hmPc = "dead")

\* README: "any path to engaging HALT" has the orders that rest on the exchange
\* canceled within seconds.  A process that stays up under HALT while an order
\* rests should have swept; one started under HALT never does, nor one whose
\* HALT was lifted and engaged again unseen, nor one whose monitor has died.
AnyHaltIsSwept ==
    (up /\ halt /\ OnExchange("resting") # {})
        ~> (sweep # "none" \/ ~halt \/ ~up \/ OnExchange("resting") = {})
=============================================================================
