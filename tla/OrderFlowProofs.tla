--------------------------- MODULE OrderFlowProofs ---------------------------
(***************************************************************************)
(* Theorems about OrderFlow for every set of signals and retry budget,     *)
(* whether or not a page of list_orders takes all orders.  In turn: the    *)
(* type invariant; the inductive invariant OrderInv, from which no order   *)
(* is without its row and HALT stops orders; that filled orders stay       *)
(* filled; that OrderFlow implements OrderIntent; that reported statuses   *)
(* tell the truth about the exchange; what a lost order was; and what a    *)
(* sweep leaves resting.                                                   *)
(***************************************************************************)
EXTENDS OrderFlow, TLAPS

\* Type correctness is inductive by itself: each action stays in the types.
LEMMA TypeStep == TypeOK /\ [Next]_vars => TypeOK'
<1> SUFFICES ASSUME TypeOK, [Next]_vars PROVE TypeOK'
  OBVIOUS
<1> USE NoSignalAssumption, MaxAttemptsAssumption
    DEF vars, exVars, hmVars, recVars, db, exchange, haltVars, life,
        TypeOK, ExecutorType, HaltMonitorType, RecoveryType, DatabaseType,
        ExchangeType, HistoryType, RowStatus, ServerStatus
<1>1. ASSUME NEW s \in Signals, TakeSignal(s) PROVE TypeOK'
  BY <1>1 DEF FlagsType, TakeSignal, ExecutorAt, Reject
<1>2. CASE MarketAnswers
  BY <1>2 DEF FlagsType, MarketAnswers, ExecutorAt, ToExecutorAt, Reject, Idle
<1>3. CASE MarketFails
  <2>1. FlagsType'
    BY <1>3 DEF FlagsType, MarketFails, ExecutorAt, Reject, Idle, MayEngage, Engage
  <2> QED
    BY <1>3, <2>1 DEF MarketFails, ExecutorAt, Reject, Idle, MayEngage, Engage
<1>4. CASE HandlerRaises
  BY <1>4 DEF FlagsType, HandlerRaises, Idle
<1>5. CASE GateRejects
  <2>1. FlagsType'
    BY <1>5 DEF FlagsType, GateRejects, ExecutorAt, Reject, Idle, MayEngage, Engage
  <2> QED
    BY <1>5, <2>1 DEF GateRejects, ExecutorAt, Reject, Idle, MayEngage, Engage
<1>6. CASE GateAccepts
  BY <1>6 DEF FlagsType, GateAccepts, ExecutorAt, ToExecutorAt
<1>7. CASE PersistOrder
  BY <1>7 DEF FlagsType, PersistOrder, ToExecutorAt
<1>8. CASE SendOrder
  BY <1>8 DEF FlagsType, SendOrder, ExecutorAt
<1>9. CASE SendTimesOut
  BY <1>9 DEF FlagsType, SendTimesOut, ExecutorAt, NextAttempt
<1>10. CASE SendRefused
  BY <1>10 DEF FlagsType, SendRefused, ExecutorAt, NextAttempt
<1>11. CASE SendSucceeds
  BY <1>11 DEF FlagsType, SendSucceeds, ExecutorAt, Idle
<1>12. CASE SendFails
  <2>1. FlagsType'
    BY <1>12 DEF FlagsType, SendFails, ExecutorAt, Idle, MayEngage, Engage
  <2> QED
    BY <1>12, <2>1 DEF SendFails, ExecutorAt, Idle, MayEngage, Engage
<1>13. CASE SendRaises
  BY <1>13 DEF FlagsType, SendRaises, ExecutorAt, Idle
<1>14. CASE HaltSeen
  BY <1>14 DEF FlagsType, HaltSeen
<1>15. CASE ResumeSeen
  <2>1. FlagsType'
    BY <1>15 DEF FlagsType, ResumeSeen
  <2> QED
    BY <1>15, <2>1 DEF ResumeSeen
<1>16. CASE ListForCancel
  BY <1>16 DEF FlagsType, ListForCancel, Pages, OnExchange
<1>17. CASE SweepAborts
  <2>1. FlagsType'
    BY <1>17 DEF FlagsType, SweepAborts
  <2> QED
    BY <1>17, <2>1 DEF SweepAborts
<1>18. CASE MarkCancelled
  <2>1. FlagsType'
    BY <1>18 DEF FlagsType, MarkCancelled
  <2> QED
    BY <1>18, <2>1 DEF MarkCancelled
<1>18b. CASE MonitorDies
  <2>1. FlagsType'
    BY <1>18b DEF FlagsType, MonitorDies
  <2> QED
    BY <1>18b, <2>1 DEF MonitorDies
<1>19. ASSUME NEW s \in Signals, CancelOne(s) PROVE TypeOK'
  <2>1. FlagsType'
    BY <1>19 DEF FlagsType, CancelOne
  <2> QED
    BY <1>19, <2>1 DEF CancelOne
<1>20. CASE RecoverList
  BY <1>20 DEF FlagsType, RecoverList, Listings, Pages, OnExchange, UnlistedAfter
<1>21. CASE RecoverFails
  BY <1>21 DEF FlagsType, RecoverFails
<1>22. ASSUME NEW s \in Signals, RecoverRow(s) PROVE TypeOK'
  BY <1>22 DEF FlagsType, RecoverRow
<1>23. CASE ExchangeReceives
  BY <1>23 DEF FlagsType, ExchangeReceives, Accepted
<1>24. ASSUME NEW s \in Signals, LateArrival(s) PROVE TypeOK'
  BY <1>24 DEF FlagsType, LateArrival, Accepted
<1>25. ASSUME NEW s \in Signals, RestingMoves(s) PROVE TypeOK'
  BY <1>25 DEF FlagsType, RestingMoves
<1>26. ASSUME NEW s \in Signals, IngestFill(s) PROVE TypeOK'
  BY <1>26 DEF FlagsType, IngestFill
<1>27. CASE Start
  BY <1>27 DEF FlagsType, Start
<1>28. CASE Crash
  <2>1. FlagsType'
    BY <1>28 DEF FlagsType, Crash, Idle
  <2> QED
    BY <1>28, <2>1 DEF Crash, Idle
<1>29. CASE EngageHalt
  <2>1. FlagsType'
    BY <1>29 DEF FlagsType, EngageHalt, Engage
  <2> QED
    BY <1>29, <2>1 DEF EngageHalt, Engage
<1>30. CASE ResumeHalt
  <2>1. FlagsType'
    BY <1>30 DEF FlagsType, ResumeHalt
  <2> QED
    BY <1>30, <2>1 DEF ResumeHalt
<1>31. CASE UNCHANGED vars
  BY <1>31 DEF FlagsType
<1> QED
  BY <1>1, <1>2, <1>3, <1>4, <1>5, <1>6, <1>7, <1>8, <1>9, <1>10, <1>11,
     <1>12, <1>13, <1>14, <1>15, <1>16, <1>17, <1>18, <1>18b, <1>19, <1>20, <1>21,
     <1>22, <1>23, <1>24, <1>25, <1>26, <1>27, <1>28, <1>29, <1>30, <1>31
     DEF Next, ExecutorStep, HaltStep, RecoveryStep, ExchangeStep

\* Every variable keeps its type in every reachable state.
THEOREM TypeCorrect == Spec => []TypeOK
<1>1. Init => TypeOK
  <2>1. Init => FlagsType
    BY DEF Init, FlagsType
  <2> QED
    BY <2>1, MaxAttemptsAssumption, NoSignalAssumption 
  DEF Init, TypeOK, ExecutorType, HaltMonitorType, RecoveryType, DatabaseType,
      ExchangeType, HistoryType, RowStatus, ServerStatus
<1> QED
  BY <1>1, TypeStep, PTL DEF Spec

\* OrderInv is inductive: a step records the order before it sends it, moves an
\* exchange id only onto a recorded row, and sends only what the Executor holds.
LEMMA OrderStep == TypeOK /\ OrderInv /\ [Next]_vars => OrderInv'
<1> SUFFICES ASSUME TypeOK, OrderInv, [Next]_vars PROVE OrderInv'
  OBVIOUS
<1> USE NoSignalAssumption
    DEF vars, exVars, hmVars, recVars, db, exchange, haltVars, life, Admitted,
        TypeOK, ExecutorType, DatabaseType, ExchangeType, HistoryType, RecoveryType,
        RowStatus, ServerStatus, OrderInv, NoOrderWithoutRow, NoRowYet,
        RowsBehindIds, OneOwner, HaltStopsOrders, SentIsHeld
<1>1. ASSUME NEW t \in Signals, TakeSignal(t) PROVE OrderInv'
  <2>1. row[t] = "none" /\ t \in fresh /\ fresh' = fresh \ {t} /\ exPc = "idle"
    BY <1>1 DEF TakeSignal, ExecutorAt
  <2>2. CASE Reject(t) /\ UNCHANGED exVars
    BY <1>1, <2>1, <2>2 DEF TakeSignal, Reject
  <2>3. CASE exPc' = "market" /\ exSig' = t /\ UNCHANGED decision
    <3>1. NoOrderWithoutRow' /\ NoRowYet' /\ RowsBehindIds'
      BY <1>1, <2>1, <2>3 DEF TakeSignal
    <3>2. exSig' \notin kid' \cup recTodo' \cup fresh' /\ up
      BY <1>1, <2>1, <2>3 DEF TakeSignal, ExecutorAt, LoopFree
    <3>3. HaltStopsOrders' /\ SentIsHeld'
      BY <1>1, <2>1, <2>3 DEF TakeSignal
    <3> QED
      BY <1>1, <2>3, <3>1, <3>2, <3>3 DEF TakeSignal
  <2> QED
    BY <1>1, <2>2, <2>3 DEF TakeSignal
<1>2. CASE MarketAnswers
  BY <1>2 DEF MarketAnswers, ExecutorAt, ToExecutorAt, Reject, Idle
<1>3. CASE MarketFails
  BY <1>3 DEF MarketFails, ExecutorAt, Reject, Idle, MayEngage, Engage
<1>4. CASE HandlerRaises
  BY <1>4 DEF HandlerRaises, Idle
<1>5. CASE GateRejects
  BY <1>5 DEF GateRejects, ExecutorAt, Reject, Idle, MayEngage, Engage
<1>6. CASE GateAccepts
  BY <1>6 DEF GateAccepts, ExecutorAt, ToExecutorAt
<1>7. CASE PersistOrder
  BY <1>7 DEF PersistOrder, ToExecutorAt
<1>8. CASE SendOrder
  BY <1>8 DEF SendOrder, ExecutorAt
<1>9. CASE SendTimesOut
  BY <1>9 DEF SendTimesOut, ExecutorAt, NextAttempt
<1>10. CASE SendRefused
  BY <1>10 DEF SendRefused, ExecutorAt, NextAttempt
<1>11. CASE SendSucceeds
  BY <1>11 DEF SendSucceeds, ExecutorAt, Idle
<1>12. CASE SendFails
  BY <1>12 DEF SendFails, ExecutorAt, Idle, MayEngage, Engage
<1>13. CASE SendRaises
  BY <1>13 DEF SendRaises, ExecutorAt, Idle
<1>14. CASE HaltSeen
  BY <1>14 DEF HaltSeen
<1>15. CASE ResumeSeen
  BY <1>15 DEF ResumeSeen
<1>16. CASE ListForCancel
  BY <1>16 DEF ListForCancel
<1>17. CASE SweepAborts
  BY <1>17 DEF SweepAborts
<1>18. CASE MarkCancelled
  BY <1>18 DEF MarkCancelled
<1>18b. CASE MonitorDies
  BY <1>18b DEF MonitorDies
<1>19. ASSUME NEW t \in Signals, CancelOne(t) PROVE OrderInv'
  BY <1>19 DEF CancelOne
<1>20. CASE RecoverList
  BY <1>20 DEF RecoverList
<1>21. CASE RecoverFails
  BY <1>21 DEF RecoverFails
<1>22. ASSUME NEW t \in Signals, RecoverRow(t) PROVE OrderInv'
  BY <1>22 DEF RecoverRow
<1>23. CASE ExchangeReceives
  BY <1>23 DEF ExchangeReceives, Accepted
<1>24. ASSUME NEW t \in Signals, LateArrival(t) PROVE OrderInv'
  BY <1>24 DEF LateArrival, Accepted
<1>25. ASSUME NEW t \in Signals, RestingMoves(t) PROVE OrderInv'
  BY <1>25 DEF RestingMoves
<1>26. ASSUME NEW t \in Signals, IngestFill(t) PROVE OrderInv'
  BY <1>26 DEF IngestFill
<1>27. CASE Start
  BY <1>27 DEF Start
<1>28. CASE Crash
  BY <1>28 DEF Crash, Idle
<1>29. CASE EngageHalt
  BY <1>29 DEF EngageHalt, Engage
<1>30. CASE ResumeHalt
  BY <1>30 DEF ResumeHalt
<1>31. CASE UNCHANGED vars
  BY <1>31
<1> QED
  BY <1>1, <1>2, <1>3, <1>4, <1>5, <1>6, <1>7, <1>8, <1>9, <1>10, <1>11,
     <1>12, <1>13, <1>14, <1>15, <1>16, <1>17, <1>18, <1>18b, <1>19, <1>20, <1>21,
     <1>22, <1>23, <1>24, <1>25, <1>26, <1>27, <1>28, <1>29, <1>30, <1>31
     DEF Next, ExecutorStep, HaltStep, RecoveryStep, ExchangeStep

\* The invariant that carries the argument holds in every reachable state.
THEOREM OrderInvariant == Spec => []OrderInv
<1>1. Init => OrderInv
  BY NoSignalAssumption DEF Init, OrderInv, NoOrderWithoutRow, NoRowYet, RowsBehindIds,
     OneOwner, HaltStopsOrders, SentIsHeld, Admitted
<1> QED
  BY <1>1, TypeCorrect, OrderStep, PTL DEF Spec

\* No order is on the exchange, or on its way, without its row and an accepted
\* decision, whatever crashes, times out or arrives late.
THEOREM RowBeforeOrder == Spec => []NoOrderWithoutRow
<1>1. OrderInv => NoOrderWithoutRow
  BY DEF OrderInv
<1> QED
  BY <1>1, OrderInvariant, PTL

\* One HALT lets at most the order in hand be POSTed.
THEOREM HaltStops == Spec => []HaltStopsOrders
<1>1. OrderInv => HaltStopsOrders
  BY DEF OrderInv
<1> QED
  BY <1>1, OrderInvariant, PTL

\* FilledIsFinal of one step.
FinalStep == \A s \in Signals : /\ row[s] = "filled" => row'[s] = "filled"
                                /\ s \in kid => s \in kid'

\* The writers of rows other than the ingestor reach only rows that are not
\* filled: those of an order without exchange id, or pending or resting ones.
LEMMA FinalInStep == TypeOK /\ OrderInv /\ [Next]_vars => FinalStep
<1> SUFFICES ASSUME TypeOK, OrderInv, [Next]_vars PROVE FinalStep
  OBVIOUS
<1> USE NoSignalAssumption
    DEF vars, exVars, hmVars, recVars, db, exchange, haltVars, life,
        TypeOK, ExecutorType, DatabaseType, RecoveryType, RowStatus, ServerStatus,
        OrderInv, NoRowYet, RowsBehindIds, OneOwner, FinalStep
<1>1. ASSUME NEW t \in Signals, TakeSignal(t) PROVE FinalStep
  BY <1>1 DEF TakeSignal, ExecutorAt, Reject
<1>2. CASE MarketAnswers
  BY <1>2 DEF MarketAnswers, ExecutorAt, ToExecutorAt, Reject, Idle
<1>3. CASE MarketFails
  BY <1>3 DEF MarketFails, ExecutorAt, Reject, Idle, MayEngage, Engage
<1>4. CASE HandlerRaises
  BY <1>4 DEF HandlerRaises, Idle
<1>5. CASE GateRejects
  BY <1>5 DEF GateRejects, ExecutorAt, Reject, Idle, MayEngage, Engage
<1>6. CASE GateAccepts
  BY <1>6 DEF GateAccepts, ExecutorAt, ToExecutorAt
<1>7. CASE PersistOrder
  BY <1>7 DEF PersistOrder, ToExecutorAt
<1>8. CASE SendOrder
  BY <1>8 DEF SendOrder, ExecutorAt
<1>9. CASE SendTimesOut
  BY <1>9 DEF SendTimesOut, ExecutorAt, NextAttempt
<1>10. CASE SendRefused
  BY <1>10 DEF SendRefused, ExecutorAt, NextAttempt
<1>11. CASE SendSucceeds
  BY <1>11 DEF SendSucceeds, ExecutorAt, Idle
<1>12. CASE SendFails
  BY <1>12 DEF SendFails, ExecutorAt, Idle, MayEngage, Engage
<1>13. CASE SendRaises
  BY <1>13 DEF SendRaises, ExecutorAt, Idle
<1>14. CASE HaltSeen
  BY <1>14 DEF HaltSeen
<1>15. CASE ResumeSeen
  BY <1>15 DEF ResumeSeen
<1>16. CASE ListForCancel
  BY <1>16 DEF ListForCancel
<1>17. CASE SweepAborts
  BY <1>17 DEF SweepAborts
<1>18. CASE MarkCancelled
  BY <1>18 DEF MarkCancelled
<1>18b. CASE MonitorDies
  BY <1>18b DEF MonitorDies
<1>19. ASSUME NEW t \in Signals, CancelOne(t) PROVE FinalStep
  BY <1>19 DEF CancelOne
<1>20. CASE RecoverList
  BY <1>20 DEF RecoverList
<1>21. CASE RecoverFails
  BY <1>21 DEF RecoverFails
<1>22. ASSUME NEW t \in Signals, RecoverRow(t) PROVE FinalStep
  BY <1>22 DEF RecoverRow
<1>23. CASE ExchangeReceives
  BY <1>23 DEF ExchangeReceives, Accepted
<1>24. ASSUME NEW t \in Signals, LateArrival(t) PROVE FinalStep
  BY <1>24 DEF LateArrival, Accepted
<1>25. ASSUME NEW t \in Signals, RestingMoves(t) PROVE FinalStep
  BY <1>25 DEF RestingMoves
<1>26. ASSUME NEW t \in Signals, IngestFill(t) PROVE FinalStep
  BY <1>26 DEF IngestFill
<1>27. CASE Start
  BY <1>27 DEF Start
<1>28. CASE Crash
  BY <1>28 DEF Crash, Idle
<1>29. CASE EngageHalt
  BY <1>29 DEF EngageHalt, Engage
<1>30. CASE ResumeHalt
  BY <1>30 DEF ResumeHalt
<1>31. CASE UNCHANGED vars
  BY <1>31
<1> QED
  BY <1>1, <1>2, <1>3, <1>4, <1>5, <1>6, <1>7, <1>8, <1>9, <1>10, <1>11,
     <1>12, <1>13, <1>14, <1>15, <1>16, <1>17, <1>18, <1>18b, <1>19, <1>20, <1>21,
     <1>22, <1>23, <1>24, <1>25, <1>26, <1>27, <1>28, <1>29, <1>30, <1>31
     DEF Next, ExecutorStep, HaltStep, RecoveryStep, ExchangeStep

\* A filled order stays filled and an order's exchange id is never lost.
THEOREM FilledStays == Spec => FilledIsFinal
<1>1. TypeOK /\ OrderInv /\ [Next]_vars => [FinalStep]_vars
  BY FinalInStep
<1> QED
  BY <1>1, TypeCorrect, OrderInvariant, PTL DEF Spec, FilledIsFinal, FinalStep

\* A step of OrderIntent, or a stutter of it.
IntentStep == [Intent!Next]_(Intent!vars)

\* The refinement: GateAccepts admits, PersistOrder records, an accepted POST
\* (in time or late) places, the end of the attempt releases, HALT toggles, and
\* everything else stutters.
LEMMA StepKeepsIntent == TypeOK /\ OrderInv /\ [Next]_vars => IntentStep
<1> SUFFICES ASSUME TypeOK, OrderInv, [Next]_vars PROVE IntentStep
  OBVIOUS
<1> USE NoSignalAssumption
    DEF vars, exVars, hmVars, recVars, db, exchange, haltVars, life, Admitted,
        TypeOK, FlagsType, ExecutorType, DatabaseType, ExchangeType, RecoveryType,
        RowStatus, ServerStatus, OrderInv, NoOrderWithoutRow, NoRowYet, RowsBehindIds,
        IntentStep, Intent!vars, Intent!Next, Intent!Toggle, Intent!Release,
        Intent!Admit, Intent!Record, Intent!Place
<1>1. ASSUME NEW t \in Signals, TakeSignal(t) PROVE IntentStep
  BY <1>1 DEF TakeSignal, ExecutorAt, Reject
<1>2. CASE MarketAnswers
  BY <1>2 DEF MarketAnswers, ExecutorAt, ToExecutorAt, Reject, Idle
<1>3. CASE MarketFails
  BY <1>3 DEF MarketFails, ExecutorAt, Reject, Idle, MayEngage, Engage
<1>4. CASE HandlerRaises
  BY <1>4 DEF HandlerRaises, Idle
<1>5. CASE GateRejects
  BY <1>5 DEF GateRejects, ExecutorAt, Reject, Idle, MayEngage, Engage
<1>6. CASE GateAccepts
  BY <1>6 DEF GateAccepts, ExecutorAt, ToExecutorAt
<1>7. CASE PersistOrder
  BY <1>7 DEF PersistOrder, ToExecutorAt
<1>8. CASE SendOrder
  BY <1>8 DEF SendOrder, ExecutorAt
<1>9. CASE SendTimesOut
  BY <1>9 DEF SendTimesOut, ExecutorAt, NextAttempt
<1>10. CASE SendRefused
  BY <1>10 DEF SendRefused, ExecutorAt, NextAttempt
<1>11. CASE SendSucceeds
  BY <1>11 DEF SendSucceeds, ExecutorAt, Idle
<1>12. CASE SendFails
  <2>1. Admitted /\ ~Admitted' /\ row[exSig] # "none" /\ exch' = exch
    BY <1>12 DEF SendFails, ExecutorAt, Idle
  <2>2. {s \in Signals : row[s] # "none"}' = {s \in Signals : row[s] # "none"}
    BY <1>12, <2>1 DEF SendFails
  <2>3. halt' \in {halt, TRUE}
    BY <1>12 DEF SendFails, MayEngage, Engage
  <2> QED
    BY <2>1, <2>2, <2>3
<1>13. CASE SendRaises
  BY <1>13 DEF SendRaises, ExecutorAt, Idle
<1>14. CASE HaltSeen
  BY <1>14 DEF HaltSeen
<1>15. CASE ResumeSeen
  BY <1>15 DEF ResumeSeen
<1>16. CASE ListForCancel
  BY <1>16 DEF ListForCancel
<1>17. CASE SweepAborts
  BY <1>17 DEF SweepAborts
<1>18. CASE MarkCancelled
  BY <1>18 DEF MarkCancelled
<1>18b. CASE MonitorDies
  BY <1>18b DEF MonitorDies
<1>19. ASSUME NEW t \in Signals, CancelOne(t) PROVE IntentStep
  BY <1>19 DEF CancelOne
<1>20. CASE RecoverList
  BY <1>20 DEF RecoverList
<1>21. CASE RecoverFails
  BY <1>21 DEF RecoverFails
<1>22. ASSUME NEW t \in Signals, RecoverRow(t) PROVE IntentStep
  BY <1>22 DEF RecoverRow
<1>23. CASE ExchangeReceives
  BY <1>23 DEF ExchangeReceives, Accepted
<1>24. ASSUME NEW t \in Signals, LateArrival(t) PROVE IntentStep
  BY <1>24 DEF LateArrival, Accepted
<1>25. ASSUME NEW t \in Signals, RestingMoves(t) PROVE IntentStep
  BY <1>25 DEF RestingMoves
<1>26. ASSUME NEW t \in Signals, IngestFill(t) PROVE IntentStep
  BY <1>26 DEF IngestFill
<1>27. CASE Start
  BY <1>27 DEF Start
<1>28. CASE Crash
  BY <1>28 DEF Crash, Idle
<1>29. CASE EngageHalt
  BY <1>29 DEF EngageHalt, Engage
<1>30. CASE ResumeHalt
  BY <1>30 DEF ResumeHalt
<1>31. CASE UNCHANGED vars
  BY <1>31
<1> QED
  BY <1>1, <1>2, <1>3, <1>4, <1>5, <1>6, <1>7, <1>8, <1>9, <1>10, <1>11,
     <1>12, <1>13, <1>14, <1>15, <1>16, <1>17, <1>18, <1>18b, <1>19, <1>20, <1>21,
     <1>22, <1>23, <1>24, <1>25, <1>26, <1>27, <1>28, <1>29, <1>30, <1>31
     DEF Next, ExecutorStep, HaltStep, RecoveryStep, ExchangeStep

\* OrderFlow implements OrderIntent.
THEOREM ImplementsIntent == Spec => KeepsIntent
<1>1. Init => Intent!Init
  BY DEF Init, Intent!Init, Admitted
<1>2. TypeOK /\ OrderInv /\ [Next]_vars => [Intent!Next]_(Intent!vars)
  BY StepKeepsIntent DEF IntentStep
<1> QED
  BY <1>1, <1>2, TypeCorrect, OrderInvariant, PTL DEF Spec, KeepsIntent, Intent!Spec

\* Terminal states of the exchange are final, so an answer read before a step is
\* still true when a later step writes it to the row.
LEMMA ReportedStep == TypeOK /\ OrderInv /\ ReportedInv /\ [Next]_vars => ReportedInv'
<1> SUFFICES ASSUME TypeOK, OrderInv, ReportedInv, [Next]_vars PROVE ReportedInv'
  OBVIOUS
<1> USE NoSignalAssumption
    DEF vars, exVars, hmVars, recVars, db, exchange, haltVars, life, ServerStatus,
        TypeOK, ExecutorType, DatabaseType, ExchangeType, RecoveryType, RowStatus,
        OrderInv, NoRowYet, RowsBehindIds, OneOwner,
        ReportedInv, ReportedRowIsTrue, AnswersStayTrue
<1>1. ASSUME NEW t \in Signals, TakeSignal(t) PROVE ReportedInv'
  BY <1>1 DEF TakeSignal, ExecutorAt, Reject
<1>2. CASE MarketAnswers
  BY <1>2 DEF MarketAnswers, ExecutorAt, ToExecutorAt, Reject, Idle
<1>3. CASE MarketFails
  BY <1>3 DEF MarketFails, ExecutorAt, Reject, Idle, MayEngage, Engage
<1>4. CASE HandlerRaises
  BY <1>4 DEF HandlerRaises, Idle
<1>5. CASE GateRejects
  BY <1>5 DEF GateRejects, ExecutorAt, Reject, Idle, MayEngage, Engage
<1>6. CASE GateAccepts
  BY <1>6 DEF GateAccepts, ExecutorAt, ToExecutorAt
<1>7. CASE PersistOrder
  BY <1>7 DEF PersistOrder, ToExecutorAt
<1>8. CASE SendOrder
  BY <1>8 DEF SendOrder, ExecutorAt
<1>9. CASE SendTimesOut
  BY <1>9 DEF SendTimesOut, ExecutorAt, NextAttempt
<1>10. CASE SendRefused
  BY <1>10 DEF SendRefused, ExecutorAt, NextAttempt
<1>11. CASE SendSucceeds
  BY <1>11 DEF SendSucceeds, ExecutorAt, Idle
<1>12. CASE SendFails
  BY <1>12 DEF SendFails, ExecutorAt, Idle, MayEngage, Engage
<1>13. CASE SendRaises
  BY <1>13 DEF SendRaises, ExecutorAt, Idle
<1>14. CASE HaltSeen
  BY <1>14 DEF HaltSeen
<1>15. CASE ResumeSeen
  BY <1>15 DEF ResumeSeen
<1>16. CASE ListForCancel
  BY <1>16 DEF ListForCancel
<1>17. CASE SweepAborts
  BY <1>17 DEF SweepAborts
<1>18. CASE MarkCancelled
  BY <1>18 DEF MarkCancelled
<1>18b. CASE MonitorDies
  BY <1>18b DEF MonitorDies
<1>19. ASSUME NEW t \in Signals, CancelOne(t) PROVE ReportedInv'
  BY <1>19 DEF CancelOne
<1>20. CASE RecoverList
  BY <1>20 DEF RecoverList, Listings, Pages, OnExchange
<1>21. CASE RecoverFails
  BY <1>21 DEF RecoverFails
<1>22. ASSUME NEW t \in Signals, RecoverRow(t) PROVE ReportedInv'
  BY <1>22 DEF RecoverRow
<1>23. CASE ExchangeReceives
  BY <1>23 DEF ExchangeReceives, Accepted
<1>24. ASSUME NEW t \in Signals, LateArrival(t) PROVE ReportedInv'
  <2>1. PICK st \in ServerStatus : Accepted(t, st)
    BY <1>24 DEF LateArrival
  <2>2. exch[t] = "absent" /\ exch' = [exch EXCEPT ![t] = st]
    BY <2>1 DEF Accepted
  <2>3. fill[t] = "none" /\ fill' \in {fill, [fill EXCEPT ![t] = "unread"]}
    BY <2>1, <2>2 DEF Accepted
  <2> QED
    BY <1>24, <2>2, <2>3 DEF LateArrival
<1>25. ASSUME NEW t \in Signals, RestingMoves(t) PROVE ReportedInv'
  BY <1>25 DEF RestingMoves
<1>26. ASSUME NEW t \in Signals, IngestFill(t) PROVE ReportedInv'
  BY <1>26 DEF IngestFill
<1>27. CASE Start
  BY <1>27 DEF Start
<1>28. CASE Crash
  BY <1>28 DEF Crash, Idle
<1>29. CASE EngageHalt
  BY <1>29 DEF EngageHalt, Engage
<1>30. CASE ResumeHalt
  BY <1>30 DEF ResumeHalt
<1>31. CASE UNCHANGED vars
  BY <1>31
<1> QED
  BY <1>1, <1>2, <1>3, <1>4, <1>5, <1>6, <1>7, <1>8, <1>9, <1>10, <1>11,
     <1>12, <1>13, <1>14, <1>15, <1>16, <1>17, <1>18, <1>18b, <1>19, <1>20, <1>21,
     <1>22, <1>23, <1>24, <1>25, <1>26, <1>27, <1>28, <1>29, <1>30, <1>31
     DEF Next, ExecutorStep, HaltStep, RecoveryStep, ExchangeStep

\* What the server still knows, and the answers on their way, keep agreeing with
\* the reported rows (AnswersStayTrue): the invariant behind ReportedRows.
THEOREM AnswersInvariant == Spec => []ReportedInv
<1>1. Init => ReportedInv
  BY DEF Init, ReportedInv, ReportedRowIsTrue, AnswersStayTrue
<1> QED
  BY <1>1, TypeCorrect, OrderInvariant, ReportedStep, PTL DEF Spec

\* A status that an answer or a fill reported is the exchange's own, although
\* the Executor, recovery and the ingestor all write it from what they read
\* earlier, and the HaltMonitor marks rows in between.
THEOREM ReportedRows == Spec => []ReportedRowIsTrue
<1>1. ReportedInv => ReportedRowIsTrue
  BY DEF ReportedInv
<1> QED
  BY <1>1, AnswersInvariant, PTL

-----------------------------------------------------------------------------
(* Listings: lost orders, and what a sweep leaves. *)

\* An order of recovery's list that no listing has shown so far, though no page
\* left it out, got past them by ending between two, and a later listing is to
\* show it.
StillToBeListed ==
    \A s \in recTodo :
        exch[s] # "absent" /\ s \notin lateArrived \cup unlisted /\ remote[s] = "absent" =>
            /\ recPc # "write"
            /\ recPc = "list_executed" => exch[s] # "resting"
            /\ recPc = "list_canceled" => exch[s] = "canceled"

\* The Executor and recovery are done with an order that was lost.
LostIsOver == \A s \in Signals : row[s] = "lost" => s # exSig /\ s \notin recTodo

LostInv == LostWasAbsent /\ StillToBeListed /\ LostIsOver

\* Each step keeps what the listings have still to show.
LEMMA LostStep == TypeOK /\ OrderInv /\ LostInv /\ [Next]_vars => LostInv'
<1> SUFFICES ASSUME TypeOK, OrderInv, LostInv, [Next]_vars PROVE LostInv'
  OBVIOUS
<1> USE NoSignalAssumption
    DEF vars, exVars, hmVars, recVars, db, exchange, haltVars, life, ServerStatus,
        TypeOK, ExecutorType, DatabaseType, ExchangeType, RecoveryType, RowStatus,
        OrderInv, NoRowYet, RowsBehindIds, OneOwner,
        LostInv, LostWasAbsent, StillToBeListed, LostIsOver
<1>1. ASSUME NEW t \in Signals, TakeSignal(t) PROVE LostInv'
  BY <1>1 DEF TakeSignal, ExecutorAt, Reject
<1>2. CASE MarketAnswers \/ MarketFails \/ HandlerRaises \/ GateRejects
  BY <1>2 DEF MarketAnswers, MarketFails, HandlerRaises, GateRejects,
              ExecutorAt, ToExecutorAt, Idle
<1>3. CASE GateAccepts \/ PersistOrder \/ SendOrder
  BY <1>3 DEF GateAccepts, PersistOrder, SendOrder, ExecutorAt, ToExecutorAt
<1>4. CASE SendTimesOut \/ SendRefused
  BY <1>4 DEF SendTimesOut, SendRefused, ExecutorAt, NextAttempt
<1>5. CASE SendSucceeds \/ SendFails \/ SendRaises
  BY <1>5 DEF SendSucceeds, SendFails, SendRaises, ExecutorAt, Idle
<1>6. CASE HaltSeen \/ ResumeSeen \/ ListForCancel \/ SweepAborts \/ MonitorDies
  BY <1>6 DEF HaltSeen, ResumeSeen, ListForCancel, SweepAborts, MonitorDies
<1>7. CASE MarkCancelled
  BY <1>7 DEF MarkCancelled
<1>8. ASSUME NEW t \in Signals, CancelOne(t) PROVE LostInv'
  BY <1>8 DEF CancelOne
<1>9. CASE RecoverList
  <2>a. PICK l \in Listings : \E P \in Pages(OnExchange(l[2])) :
           /\ recPc = l[1]
           /\ remote' = [s \in Signals |-> IF s \in P \cap recTodo THEN l[2] ELSE remote[s]]
           /\ recPc' = l[3]
           /\ unlisted' = UnlistedAfter(P, l[2])
    BY <1>9 DEF RecoverList
  <2>1. PICK P \in Pages(OnExchange(l[2])) :
           /\ recPc = l[1]
           /\ remote' = [s \in Signals |-> IF s \in P \cap recTodo THEN l[2] ELSE remote[s]]
           /\ recPc' = l[3]
           /\ unlisted' = UnlistedAfter(P, l[2])
    BY <2>a
  <2>2. UNCHANGED <<row, exch, exSig, recTodo, lateArrived>>
    BY <1>9 DEF RecoverList
  <2>3. P \subseteq OnExchange(l[2])
    BY DEF Pages
  <2>4. \A s \in recTodo : s \notin unlisted' /\ s \notin lateArrived /\ remote'[s] = "absent" =>
           s \notin unlisted /\ remote[s] = "absent" /\ s \notin OnExchange(l[2])
    BY <2>1, <2>2 DEF UnlistedAfter, Listings
  <2>5. StillToBeListed'
    BY <2>1, <2>2, <2>4 DEF Listings, OnExchange
  <2>6. LostWasAbsent' /\ LostIsOver'
    BY <2>1, <2>2 DEF UnlistedAfter
  <2> QED
    BY <2>5, <2>6
<1>10. CASE RecoverFails
  BY <1>10 DEF RecoverFails
<1>11. ASSUME NEW t \in Signals, RecoverRow(t) PROVE LostInv'
  BY <1>11 DEF RecoverRow
<1>12. CASE ExchangeReceives
  BY <1>12 DEF ExchangeReceives, Accepted
<1>13. ASSUME NEW t \in Signals, LateArrival(t) PROVE LostInv'
  BY <1>13 DEF LateArrival, Accepted
<1>14. ASSUME NEW t \in Signals, RestingMoves(t) PROVE LostInv'
  BY <1>14 DEF RestingMoves
<1>15. ASSUME NEW t \in Signals, IngestFill(t) PROVE LostInv'
  BY <1>15 DEF IngestFill
<1>16. CASE Start \/ Crash
  BY <1>16 DEF Start, Crash, Idle
<1>17. CASE EngageHalt \/ ResumeHalt
  BY <1>17 DEF EngageHalt, Engage, ResumeHalt
<1>18. CASE UNCHANGED vars
  BY <1>18
<1> QED
  BY <1>1, <1>2, <1>3, <1>4, <1>5, <1>6, <1>7, <1>8, <1>9, <1>10, <1>11,
     <1>12, <1>13, <1>14, <1>15, <1>16, <1>17, <1>18
     DEF Next, ExecutorStep, HaltStep, RecoveryStep, ExchangeStep

\* recover_in_flight_orders flags an order lost only if the exchange does not
\* have it, although the three listings are of three moments: it comes to be
\* there only through a POST that was given up and arrives later, or it was there
\* and a full page left it out.
THEOREM LostOrders == Spec => []LostWasAbsent
<1>1. Init => LostInv
  BY DEF Init, LostInv, LostWasAbsent, StillToBeListed, LostIsOver
<1>2. LostInv => LostWasAbsent
  BY DEF LostInv
<1>3. TypeOK /\ OrderInv /\ LostInv /\ [Next]_vars => LostInv'
  BY LostStep
<1> QED
  BY <1>1, <1>2, <1>3, TypeCorrect, OrderInvariant, PTL DEF Spec

\* Of the orders a sweep will not cancel any more, those in T left aside, at most
\* one rests, and it is the Executor's as long as that holds an admitted one.
OneBeyond(T) ==
    /\ \A a, b \in OnExchange("resting") \ (lateArrived \cup T) : a = b
    /\ Admitted => OnExchange("resting") \ (lateArrived \cup T) \subseteq {exSig}

\* A HALT that was swept is not swept again.
SweptOnce == sweep = "clean" => hmPc \in {"watch", "dead"} /\ (up => hmLast)

SweepInv ==
    /\ hmClean \/ sweep = "clean" => halt
    /\ hmPc = "mark" => hmTargets = {}
    /\ hmClean /\ hmPc \in {"cancel", "mark"} => OneBeyond(hmTargets \cup unswept)
    /\ sweep = "clean" => OneBeyond(unswept)
    /\ SweptOnce

\* The one that rests can only be joined by the order the Executor holds, and
\* under HALT the Executor gets no other.
LEMMA OneBeyondStep ==
  ASSUME TypeOK, halt, NEW T \in SUBSET Signals, OneBeyond(T),
         Admitted' => Admitted /\ exSig' = exSig,
         \A s \in Signals : exch'[s] = "resting" =>
             \/ exch[s] = "resting" \/ s \in lateArrived' \/ (Admitted /\ s = exSig),
         lateArrived \subseteq lateArrived'
  PROVE  OneBeyond(T)'
  BY DEF OneBeyond, OnExchange

\* Each step keeps what a sweep may leave resting.
LEMMA SweepStep == TypeOK /\ SweepInv /\ [Next]_vars => SweepInv'
<1> SUFFICES ASSUME TypeOK, SweepInv, [Next]_vars PROVE SweepInv'
  OBVIOUS
<1> USE DEF vars, exVars, hmVars, recVars, db, exchange, haltVars, life
<1> DEFINE ExecutorKeeps == Admitted' => Admitted /\ exSig' = exSig
           OnlyJoins ==
             /\ \A s \in Signals : exch'[s] = "resting" =>
                  \/ exch[s] = "resting" \/ s \in lateArrived' \/ (Admitted /\ s = exSig)
             /\ lateArrived \subseteq lateArrived'
\* Steps that leave the monitor and the HALT file alone.
<1>0. ASSUME UNCHANGED <<hmVars, halt, sweep, hmClean, unswept, up>>,
             halt => ExecutorKeeps, OnlyJoins
      PROVE  SweepInv'
  <2>1. ASSUME halt, NEW T \in SUBSET Signals, OneBeyond(T) PROVE OneBeyond(T)'
    BY <1>0, <2>1, OneBeyondStep
  <2>2. hmTargets \cup unswept \in SUBSET Signals /\ unswept \in SUBSET Signals
    BY DEF TypeOK, HaltMonitorType, HistoryType
  <2>3. /\ hmPc' = hmPc /\ hmTargets' = hmTargets /\ halt' = halt /\ hmLast' = hmLast
        /\ sweep' = sweep /\ hmClean' = hmClean /\ unswept' = unswept /\ up' = up
    BY <1>0
  <2>4. halt /\ OneBeyond(hmTargets \cup unswept) => OneBeyond(hmTargets \cup unswept)'
    <3> SUFFICES ASSUME halt, OneBeyond(hmTargets \cup unswept) PROVE OneBeyond(hmTargets \cup unswept)'
      OBVIOUS
    <3>1. PICK T \in SUBSET Signals : T = hmTargets \cup unswept
      BY <2>2
    <3>2. OneBeyond(T)'
      BY <2>1, <3>1
    <3>3. (hmTargets \cup unswept)' = T
      BY <2>3, <3>1
    <3> QED
      BY <3>2, <3>3 DEF OneBeyond
  <2>5. halt /\ OneBeyond(unswept) => OneBeyond(unswept)'
    <3> SUFFICES ASSUME halt, OneBeyond(unswept) PROVE OneBeyond(unswept)'
      OBVIOUS
    <3>1. PICK T \in SUBSET Signals : T = unswept
      BY <2>2
    <3>2. OneBeyond(T)'
      BY <2>1, <3>1
    <3>3. (unswept)' = T
      BY <2>3, <3>1
    <3> QED
      BY <3>2, <3>3 DEF OneBeyond
  <2>6. SweptOnce'
    BY <2>3 DEF SweepInv, SweptOnce
  <2> QED
    BY <2>3, <2>4, <2>5, <2>6 DEF SweepInv
<1>1. ASSUME NEW t \in Signals, TakeSignal(t) PROVE SweepInv'
  BY <1>0, <1>1 DEF TakeSignal, ExecutorAt, Admitted
<1>2. CASE MarketAnswers \/ HandlerRaises
  BY <1>0, <1>2 DEF MarketAnswers, HandlerRaises, ExecutorAt, ToExecutorAt, Idle, Admitted
<1>3. CASE MarketFails \/ GateRejects \/ SendFails
  <2>1. MayEngage /\ Idle /\ UNCHANGED <<hmVars, exchange>>
    BY <1>3 DEF MarketFails, GateRejects, SendFails
  <2>2. CASE Engage
    BY <2>1, <2>2 DEF Engage, SweepInv, SweptOnce
  <2>3. CASE UNCHANGED haltVars
    BY <1>0, <1>3, <2>1, <2>3 DEF Idle, Admitted, MarketFails, GateRejects, SendFails
  <2> QED
    BY <2>1, <2>2, <2>3 DEF MayEngage
<1>4. CASE GateAccepts
  BY <1>0, <1>4 DEF GateAccepts
<1>5. CASE PersistOrder
  BY <1>0, <1>5 DEF PersistOrder, ToExecutorAt, Admitted
<1>6. CASE SendOrder
  BY <1>0, <1>6 DEF SendOrder, ExecutorAt, Admitted
<1>7. CASE SendTimesOut \/ SendRefused
  BY <1>0, <1>7 DEF SendTimesOut, SendRefused, ExecutorAt, NextAttempt, Admitted
<1>8. CASE SendSucceeds \/ SendRaises
  BY <1>0, <1>8 DEF SendSucceeds, SendRaises, Idle, Admitted
<1>9. CASE HaltSeen \/ ResumeSeen \/ SweepAborts \/ MonitorDies
  <2>1. ~hmClean' \/ hmPc' \notin {"cancel", "mark"}
    BY <1>9 DEF HaltSeen, ResumeSeen, SweepAborts, MonitorDies, SweepInv
  <2>2. sweep # "clean" /\ sweep' = sweep
    BY <1>9 DEF HaltSeen, ResumeSeen, SweepAborts, MonitorDies, SweepInv, SweptOnce, LoopFree
  <2> QED
    BY <1>9, <2>1, <2>2 DEF HaltSeen, ResumeSeen, SweepAborts, MonitorDies, SweepInv, SweptOnce
<1>10. CASE ListForCancel
  <2>1. OnExchange("resting") \ (lateArrived \cup (hmTargets' \cup unswept')) = {}
    BY <1>10 DEF ListForCancel
  <2>2. OneBeyond(hmTargets \cup unswept)'
    BY <1>10, <2>1 DEF ListForCancel, OneBeyond, OnExchange
  <2>3. sweep # "clean" /\ sweep' = sweep
    BY <1>10 DEF ListForCancel, SweepInv, SweptOnce
  <2> QED
    BY <1>10, <2>2, <2>3 DEF ListForCancel, SweepInv, SweptOnce
<1>11. ASSUME NEW t \in Signals, CancelOne(t) PROVE SweepInv'
  <2>1. hmClean' => hmClean /\ exch'[t] # "resting"
    BY <1>11, Zenon DEF CancelOne, TypeOK, ExchangeType
  <2>2. \A s \in Signals : exch'[s] = "resting" => exch[s] = "resting"
    BY <1>11 DEF CancelOne, TypeOK, ExchangeType
  <2>3. /\ hmTargets' = hmTargets \ {t} /\ (hmPc' = "mark" => hmTargets' = {})
        /\ UNCHANGED <<exVars, lateArrived, halt, sweep, unswept>> /\ hmPc = "cancel"
    BY <1>11 DEF CancelOne
  <2>4. sweep # "clean"
    BY <2>3 DEF SweepInv, SweptOnce
  <2>5. hmClean' => OneBeyond(hmTargets \cup unswept)'
    BY <2>1, <2>2, <2>3 DEF SweepInv, OneBeyond, Admitted, OnExchange
  <2> QED
    BY <2>1, <2>3, <2>4, <2>5 DEF SweepInv, SweptOnce
<1>12. CASE MarkCancelled
  <2>1. /\ hmPc = "mark" /\ hmPc' = "watch" /\ ~hmClean' /\ hmLast' /\ halt' = halt
        /\ sweep' = "clean" => halt /\ hmClean /\ unswept' = unswept
    BY <1>12 DEF MarkCancelled
  <2>2. UNCHANGED <<exVars, exch, lateArrived>>
    BY <1>12 DEF MarkCancelled
  <2>3. sweep' = "clean" => OneBeyond(unswept)'
    BY <2>1, <2>2 DEF SweepInv, OneBeyond, Admitted, OnExchange
  <2> QED
    BY <2>1, <2>3 DEF SweepInv, SweptOnce
<1>13. CASE RecoverList \/ RecoverFails
  BY <1>0, <1>13 DEF RecoverList, RecoverFails, Admitted
<1>14. ASSUME NEW t \in Signals, RecoverRow(t) PROVE SweepInv'
  BY <1>0, <1>14 DEF RecoverRow, Admitted
<1>15. CASE ExchangeReceives
  <2>1. OnlyJoins
    BY <1>15 DEF ExchangeReceives, Accepted, Admitted, TypeOK, ExchangeType, ExecutorType
  <2> QED
    BY <1>0, <1>15, <2>1 DEF ExchangeReceives, Admitted
<1>16. ASSUME NEW t \in Signals, LateArrival(t) PROVE SweepInv'
  <2>1. OnlyJoins
    BY <1>16 DEF LateArrival, Accepted, TypeOK, ExchangeType
  <2> QED
    BY <1>0, <1>16, <2>1 DEF LateArrival, Admitted
<1>17. ASSUME NEW t \in Signals, RestingMoves(t) PROVE SweepInv'
  <2>1. OnlyJoins
    BY <1>17 DEF RestingMoves, TypeOK, ExchangeType
  <2> QED
    BY <1>0, <1>17, <2>1 DEF RestingMoves, Admitted
<1>18. ASSUME NEW t \in Signals, IngestFill(t) PROVE SweepInv'
  BY <1>0, <1>18 DEF IngestFill, Admitted
<1>19. CASE Start
  <2>1. SweptOnce'
    BY <1>19 DEF Start, SweepInv, SweptOnce
  <2> QED
    BY <1>19, <2>1 DEF Start, SweepInv, OneBeyond, Admitted, OnExchange
<1>20. CASE Crash
  <2>1. SweptOnce'
    BY <1>20 DEF Crash, SweptOnce
  <2>2. sweep = "clean" => OneBeyond(unswept)'
    BY <1>20 DEF Crash, Idle, SweepInv, OneBeyond, Admitted, OnExchange
  <2> QED
    BY <1>20, <2>1, <2>2 DEF Crash, SweepInv
<1>21. CASE EngageHalt \/ ResumeHalt
  BY <1>21 DEF EngageHalt, Engage, ResumeHalt, SweepInv, SweptOnce
<1>22. CASE UNCHANGED vars
  BY <1>0, <1>22 DEF Admitted
<1> QED
  BY <1>1, <1>2, <1>3, <1>4, <1>5, <1>6, <1>7, <1>8, <1>9, <1>10, <1>11,
     <1>12, <1>13, <1>14, <1>15, <1>16, <1>17, <1>18, <1>19, <1>20, <1>21, <1>22
     DEF Next, ExecutorStep, HaltStep, RecoveryStep, ExchangeStep

\* After a sweep whose cancels took effect at most one order rests until the
\* HALT is lifted, whatever came between its awaits (_on_engaged), a restart
\* and the Executor's retries included; orders given up and late, and those its
\* one page did not show, left aside.
THEOREM SweepLeavesOne == Spec => []HaltLeavesAtMostOne
<1>1. Init => SweepInv
  BY DEF Init, SweepInv, SweptOnce
<1>2. SweepInv => HaltLeavesAtMostOne
  BY DEF SweepInv, OneBeyond, HaltLeavesAtMostOne, OnExchange
<1>3. TypeOK /\ SweepInv /\ [Next]_vars => SweepInv'
  BY SweepStep
<1> QED
  BY <1>1, <1>2, <1>3, TypeCorrect, PTL DEF Spec

=============================================================================
