---------------------------- MODULE SocketProofs ----------------------------
(* What holds of Socket for every timeout and every rhythm of the watchdog. *)
EXTENDS Socket, TLAPS

\* HALT is due: the connection has been silent for too long.
HaltIsDue == connected /\ quiet > Silence /\ ~halt /\ ~stop

\* What has been ignored fits into the part of the watchdog's round that is over.
\* A resume, or a new connection, starts from nothing ignored and no silence.
WatchInv ==
    /\ quiet \in 0 .. Silence + 1 /\ due \in 0 .. WatchTick /\ ignored \in 0 .. WatchTick
    /\ HaltIsDue => ignored <= WatchTick - due

\* The watchdog's invariant survives every step.
LEMMA WatchStep == WatchInv /\ [Next]_vars => WatchInv'
<1> SUFFICES ASSUME WatchInv, [Next]_vars PROVE WatchInv'
  OBVIOUS
<1> USE SocketAssumption DEF WatchInv, HaltIsDue, vars, socket, watchdog
<1>1. CASE Connects
  BY <1>1 DEF Connects
<1>2. CASE Subscribes \/ Breaks
  BY <1>2 DEF Subscribes, Breaks
<1>3. CASE Retries \/ ClosesNormally \/ HandlerEnds
  BY <1>3 DEF Retries, ClosesNormally, HandlerEnds, Again
<1>4. CASE Receives
  BY <1>4 DEF Receives, Again
<1>5. CASE Looks
  <2>1. HaltIsDue' => FALSE
    \* Either HALT is engaged now, or the silence is not too long.
    BY <1>5, Zenon DEF Looks
  <2>2. quiet' = quiet /\ ignored' = ignored /\ due' = WatchTick
    BY <1>5 DEF Looks
  <2> QED
    BY <2>1, <2>2 DEF WatchInv
<1>6. CASE Toggles \/ Stops
  BY <1>6 DEF Toggles, Stops
<1>7. CASE Tick
  <2>1. due' \in 0 .. WatchTick /\ quiet' \in 0 .. Silence + 1
    BY <1>7 DEF Tick, Least
  <2>2. ignored' \in 0 .. WatchTick /\ (HaltIsDue => ignored' <= WatchTick - due')
    BY <1>7 DEF Tick, Least
  <2>3. ~HaltIsDue => ignored' = 0
    BY <1>7 DEF Tick
  <2> QED
    BY <1>7, <2>1, <2>2, <2>3 DEF Tick
<1>8. CASE UNCHANGED vars
  BY <1>8
<1> QED
  BY <1>1, <1>2, <1>3, <1>4, <1>5, <1>6, <1>7, <1>8 DEF Next

\* A silent connection has HALT engaged within one tick of the watchdog
\* (WSWatchdog.run), for every timeout, tick and order of events.
THEOREM SilenceNoticed == Spec => []SilenceIsNoticed
<1>1. Init => WatchInv
  BY SocketAssumption DEF Init, WatchInv, HaltIsDue
<1>2. WatchInv => SilenceIsNoticed
  BY SocketAssumption DEF WatchInv, SilenceIsNoticed
<1> QED
  BY <1>1, <1>2, WatchStep, PTL DEF Spec

\* Every variable keeps its range: the backoff stays under its cap, whatever the
\* number of failures, and no timer runs below zero (WSClient.run, WSWatchdog.run).
THEOREM TypeCorrect == Spec => []TypeOK
<1>1. Init => TypeOK
  <2> SUFFICES ASSUME Init PROVE TypeOK
    OBVIOUS
  <2>1. backoff \in 1 .. MaxBackoff /\ wait \in 0 .. MaxBackoff + 1 /\ due \in 0 .. WatchTick
        /\ quiet \in 0 .. Silence + 1 /\ ignored \in 0 .. WatchTick + 1
    BY SocketAssumption DEF Init
  <2> QED
    BY <2>1 DEF Init, TypeOK
<1>2. TypeOK /\ [Next]_vars => TypeOK'
  <2> SUFFICES ASSUME TypeOK, [Next]_vars PROVE TypeOK'
    OBVIOUS
  <2> DEFINE States == {"connecting", "subscribing", "reading", "handling", "backoff", "stopped"}
  <2>0. /\ 0 \in 0 .. Silence + 1 /\ 1 \in 1 .. MaxBackoff /\ 0 \in 0 .. MaxBackoff + 1
        /\ 0 \in 0 .. WatchTick + 1 /\ WatchTick \in 0 .. WatchTick
    BY SocketAssumption
  <2> USE DEF vars, socket, watchdog
  <2>1. CASE Connects
    BY <2>0, <2>1 DEF Connects, TypeOK
  <2>2. CASE Subscribes
    BY <2>0, <2>2 DEF Subscribes, TypeOK
  <2>3. CASE Breaks
    <3>1. backoff' \in 1 .. MaxBackoff
      BY <2>3, SocketAssumption DEF Breaks, TypeOK, Least
    <3>2. wait' = backoff' \/ wait' = backoff' + 1
      BY <2>3, <3>1 DEF Breaks
    <3>3. wait' \in 0 .. MaxBackoff + 1
      BY <3>1, <3>2, SocketAssumption
    <3> QED
      BY <2>3, <3>1, <3>3 DEF Breaks, TypeOK
  <2>4. ASSUME Again PROVE pc' \in States /\ connected' \in BOOLEAN
    BY <2>4 DEF Again, TypeOK
  <2>5. CASE Retries
    BY <2>0, <2>4, <2>5 DEF Retries, TypeOK
  <2>6. CASE ClosesNormally
    BY <2>4, <2>6 DEF ClosesNormally, TypeOK
  <2>7. CASE HandlerEnds
    <3>1. pc' \in States /\ connected' \in BOOLEAN
      BY <2>4, <2>7 DEF HandlerEnds, TypeOK
    <3> QED
      BY <2>7, <3>1 DEF HandlerEnds, TypeOK
  <2>8. CASE Receives
    <3>1. pc' \in States /\ connected' \in BOOLEAN
      BY <2>4, <2>8 DEF Receives, TypeOK
    <3> QED
      BY <2>0, <2>8, <3>1 DEF Receives, TypeOK
  <2>9. CASE Looks
    <3>1. halt' \in BOOLEAN
      BY <2>9, Zenon DEF Looks
    <3> QED
      BY <2>0, <2>9, <3>1 DEF Looks, TypeOK
  <2>10. CASE Toggles
    <3>1. halt' \in BOOLEAN
      BY <2>10, Zenon DEF Toggles
    <3> QED
      BY <2>0, <2>10, <3>1 DEF Toggles, TypeOK
  <2>11. CASE Stops
    BY <2>11 DEF Stops, TypeOK
  <2>12. CASE Tick
    <3>1. wait' \in 0 .. MaxBackoff + 1
      BY <2>12, SocketAssumption DEF Tick, BackoffOver, TypeOK
    <3>2. quiet' \in 0 .. Silence + 1 /\ due' \in 0 .. WatchTick /\ ignored' \in 0 .. WatchTick + 1
      BY <2>12, SocketAssumption DEF Tick, Least, TypeOK
    <3> QED
      BY <2>12, <3>1, <3>2 DEF Tick, TypeOK
  <2>13. CASE UNCHANGED vars
    BY <2>13 DEF TypeOK
  <2> QED
    BY <2>1, <2>2, <2>3, <2>5, <2>6, <2>7, <2>8, <2>9, <2>10, <2>11, <2>12, <2>13 DEF Next
<1> QED
  BY <1>1, <1>2, PTL DEF Spec
=============================================================================
