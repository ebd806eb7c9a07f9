--------------------------- MODULE AssessorProofs ---------------------------
(***************************************************************************)
(* For any tickers, budgets and limits: one market costs a bounded number  *)
(* of LLM requests, and the throttle, consulted only at the start of a     *)
(* tick, keeps the decisions of a ticker apart.                            *)
(***************************************************************************)
EXTENDS Assessor, FiniteSetTheorems, TLAPS

Candidate == Tickers \X Int

\* The part of the types the arguments need.
Types ==
    /\ now \in Int /\ page \in Int /\ manual \in BOOLEAN /\ repeated \in BOOLEAN
    /\ todo \subseteq Candidate
    /\ queue \subseteq Candidate /\ asked \subseteq Candidate /\ signals \subseteq Candidate
    /\ errs \in Nat /\ limits \in Nat /\ requests \in Nat
    /\ decidedAt \in [Tickers -> Int]

\* Each request of a call was a failure of one of the two budgets, but for the
\* one under way, and neither budget is used up.
Budgets ==
    /\ Calling => /\ errs < MaxRetries /\ limits < MaxRateLimitRetries
                  /\ requests = errs + limits + (IF pc = "answer" THEN 1 ELSE 0)
    /\ ~Calling => requests = 0

\* The candidates of the tick that were not yet handled.
Waiting == queue \cup asked \cup signals

\* What is left over at which point of the tick.
Stages ==
    /\ pc \in {"idle", "fetch", "assess", "call", "answer", "handle"}
    /\ pc \in {"idle", "handle"} => queue = {}
    /\ pc \in {"idle", "fetch"} => signals = {}
    /\ ~Calling => asked = {}
    /\ todo # {} => manual

\* No waiting candidate is throttled, however long the tick takes.
NoneThrottled == ~repeated => \A q \in Waiting : ~RecentlySignalled(q[1])

\* No ticker waits twice.
NoneTwice == ~repeated => \A q, r \in Waiting : q[1] = r[1] => q = r

TickInv == Types /\ Stages /\ NoneThrottled /\ NoneTwice

\* Every step keeps the types: only times, counts and candidates are stored.
LEMMA TypesStep == Types /\ [Next]_vars => Types'
<1> SUFFICES ASSUME Types, [Next]_vars PROVE Types'
  OBVIOUS
<1> USE RetriesAssumption, TickAssumption DEF vars, tick, call, Types, Candidate
<1>1. CASE TickStarts
  <2>1. repeated' \in BOOLEAN
    BY <1>1, Zenon DEF TickStarts
  <2> QED
    BY <1>1, <2>1, TickersAssumption DEF TickStarts
<1>2. CASE TickDies
  BY <1>2 DEF TickDies
<1>3. CASE Tick
  BY <1>3 DEF Tick
<1>4. ASSUME NEW e \in todo, FetchTicker(e) PROVE Types'
  <2>1. repeated' \in BOOLEAN
    BY <1>4, Zenon DEF FetchTicker
  <2> QED
    BY <1>4, <2>1 DEF FetchTicker
<1>5. CASE FetchPage
  <2>1. PICK T \in SUBSET Tickers : /\ queue' = queue \cup (T \X {page})
                                    /\ repeated' = (repeated \/ \E q \in queue : q[1] \in T)
    BY <1>5 DEF FetchPage
  <2>2. repeated' \in BOOLEAN
    BY <2>1
  <2>3. queue' \subseteq Candidate
    BY <2>1
  <2> QED
    BY <1>5, <2>2, <2>3 DEF FetchPage
<1>6. CASE PageFails
  BY <1>6 DEF PageFails
<1>7. CASE Assessed
  BY <1>7 DEF Assessed
<1>8. ASSUME NEW q \in queue, TakeMarket(q) PROVE Types'
  BY <1>8 DEF TakeMarket
<1>9. CASE Request
  BY <1>9 DEF Request
<1>10. CASE RequestFails
  BY <1>10 DEF RequestFails, CallEnds
<1>11. CASE RateLimited
  BY <1>11 DEF RateLimited, CallEnds
<1>12. CASE Answered
  BY <1>12 DEF Answered, CallEnds
<1>13. ASSUME NEW q \in signals, Handle(q) PROVE Types'
  BY <1>13 DEF Handle
<1>14. CASE UNCHANGED vars
  BY <1>14
<1> QED
  BY <1>1, <1>2, <1>3, <1>4, <1>5, <1>6, <1>7, <1>8, <1>9, <1>10, <1>11, <1>12,
     <1>13, <1>14 DEF Next, FetchStep, CallStep, MarketStep, HandleStep

\* A call counts each failure before the next request and ends with a budget
\* used up, so the two budgets bound its requests.
LEMMA BudgetsStep == Types /\ Stages /\ Budgets /\ [Next]_vars => Budgets'
<1> SUFFICES ASSUME Types, Stages, Budgets, [Next]_vars PROVE Budgets'
  OBVIOUS
<1> USE RetriesAssumption DEF vars, tick, call, Types, Stages, Budgets, Calling
<1>1. CASE TickStarts \/ TickDies \/ Tick
  BY <1>1 DEF TickStarts, TickDies, Tick
<1>2. ASSUME NEW e \in todo, FetchTicker(e) PROVE Budgets'
  BY <1>2 DEF FetchTicker
<1>3. CASE FetchPage \/ PageFails \/ Assessed
  BY <1>3 DEF FetchPage, PageFails, Assessed
<1>4. ASSUME NEW q \in queue, TakeMarket(q) PROVE Budgets'
  BY <1>4 DEF TakeMarket
<1>5. CASE Request
  BY <1>5 DEF Request
<1>6. CASE RequestFails
  BY <1>6 DEF RequestFails, CallEnds
<1>7. CASE RateLimited
  BY <1>7 DEF RateLimited, CallEnds
<1>8. CASE Answered
  BY <1>8 DEF Answered, CallEnds
<1>9. ASSUME NEW q \in signals, Handle(q) PROVE Budgets'
  BY <1>9 DEF Handle
<1>10. CASE UNCHANGED vars
  BY <1>10
<1> QED
  BY <1>1, <1>2, <1>3, <1>4, <1>5, <1>6, <1>7, <1>8, <1>9, <1>10
     DEF Next, FetchStep, CallStep, MarketStep, HandleStep

\* The stages of a tick follow each other.
LEMMA StagesStep == Types /\ Stages /\ [Next]_vars => Stages'
<1> SUFFICES ASSUME Types, Stages, [Next]_vars PROVE Stages'
  OBVIOUS
<1> USE DEF vars, tick, call, Types, Stages, Calling, Waiting, Candidate
<1>1. CASE TickStarts
  BY <1>1 DEF TickStarts
<1>2. CASE TickDies \/ Tick
  BY <1>2 DEF TickDies, Tick
<1>3. ASSUME NEW e \in todo, FetchTicker(e) PROVE Stages'
  BY <1>3 DEF FetchTicker
<1>4. CASE FetchPage \/ PageFails \/ Assessed
  BY <1>4 DEF FetchPage, PageFails, Assessed
<1>5. ASSUME NEW q \in queue, TakeMarket(q) PROVE Stages'
  BY <1>5 DEF TakeMarket
<1>6. CASE Request
  BY <1>6 DEF Request
<1>7. CASE RequestFails \/ RateLimited
  BY <1>7 DEF RequestFails, RateLimited, CallEnds
<1>8. CASE Answered
  BY <1>8 DEF Answered, CallEnds
<1>9. ASSUME NEW q \in signals, Handle(q) PROVE Stages'
  BY <1>9 DEF Handle
<1>10. CASE UNCHANGED vars
  BY <1>10
<1> QED
  BY <1>1, <1>2, <1>3, <1>4, <1>5, <1>6, <1>7, <1>8, <1>9, <1>10
     DEF Next, FetchStep, CallStep, MarketStep, HandleStep

\* Where nothing new waits and no decision is made, waiting candidates stay
\* unthrottled as time passes, and none is doubled.
LEMMA WaitingShrinks ==
    ASSUME TickInv, Waiting' \subseteq Waiting, repeated' = repeated,
           decidedAt' = decidedAt, now' \in Int, now' >= now
    PROVE  NoneThrottled' /\ NoneTwice'
<1>1. NoneTwice'
  BY DEF TickInv, NoneTwice
<1>2. ASSUME NEW t \in Tickers, ~RecentlySignalled(t) PROVE ~RecentlySignalled(t)'
  BY <1>2, TickAssumption DEF RecentlySignalled, TickInv, Types
<1>3. \A q \in Waiting : q[1] \in Tickers
  BY DEF TickInv, Types, Candidate, Waiting
<1>4. NoneThrottled'
  BY <1>2, <1>3 DEF TickInv, NoneThrottled, RecentlySignalled
<1> QED
  BY <1>1, <1>4

\* The tick's invariant is inductive.  Only the start of a tick, the arrival of
\* candidates and a decision are more than WaitingShrinks.
LEMMA TickStep == TickInv /\ [Next]_vars => TickInv'
<1> SUFFICES ASSUME TickInv, [Next]_vars PROVE NoneThrottled' /\ NoneTwice'
  BY TypesStep, StagesStep DEF TickInv
<1>0. Types /\ Stages
  BY DEF TickInv
<1>1. CASE TickStarts
  <2>1. Waiting' = {}
    BY <1>0, <1>1 DEF TickStarts, Waiting, Stages, Calling, tick
  <2> QED
    BY <2>1 DEF NoneThrottled, NoneTwice
<1>2. ASSUME NEW e \in todo, FetchTicker(e) PROVE NoneThrottled' /\ NoneTwice'
  <2>1. CASE UNCHANGED <<queue, repeated>>
    BY <1>0, <1>2, <2>1, WaitingShrinks DEF FetchTicker, Waiting, Types
  <2>2. CASE /\ ~RecentlySignalled(e[1]) /\ queue' = queue \cup {e}
             /\ repeated' = (repeated \/ \E q \in queue : q[1] = e[1])
    <3>1. Waiting = queue /\ Waiting' = queue \cup {e}
      BY <1>0, <1>2, <2>2 DEF FetchTicker, Waiting, Stages, Calling
    <3>2. ~repeated' => ~repeated /\ \A q \in queue : q[1] # e[1]
      BY <2>2
    <3>3. NoneTwice'
      BY <3>1, <3>2 DEF TickInv, NoneTwice
    <3>4. NoneThrottled'
      BY <1>2, <2>2, <3>1, <3>2 DEF FetchTicker, TickInv, NoneThrottled, RecentlySignalled
    <3> QED
      BY <3>3, <3>4
  <2> QED
    BY <1>2, <2>1, <2>2 DEF FetchTicker
<1>3. CASE FetchPage
  <2>1. PICK T \in SUBSET Tickers :
            /\ \A t \in T : ~RecentlySignalled(t)
            /\ queue' = queue \cup (T \X {page})
            /\ repeated' = (repeated \/ \E q \in queue : q[1] \in T)
    BY <1>3 DEF FetchPage
  <2>2. Waiting = queue /\ Waiting' = queue \cup (T \X {page})
    BY <1>0, <1>3, <2>1 DEF FetchPage, Waiting, Stages, Calling
  <2>3. \A q \in queue : q \in Candidate
    BY <1>0 DEF Types
  <2>4. NoneTwice'
    <3> SUFFICES ASSUME ~repeated', NEW q \in Waiting', NEW r \in Waiting', q[1] = r[1]
                 PROVE  q = r
      BY DEF NoneTwice
    <3>1. ~repeated /\ \A p \in queue : p[1] \notin T
      BY <2>1
    <3>2. CASE q \in queue /\ r \in queue
      BY <2>2, <3>1, <3>2 DEF TickInv, NoneTwice
    <3>3. CASE q \in T \X {page} /\ r \in T \X {page}
      BY <3>3
    <3>4. \A p \in T \X {page} : p[1] \in T
      OBVIOUS
    <3> QED
      BY <2>2, <3>1, <3>2, <3>3, <3>4
  <2>5. NoneThrottled'
    BY <1>3, <2>1, <2>2 DEF FetchPage, TickInv, NoneThrottled, RecentlySignalled
  <2> QED
    BY <2>4, <2>5
<1>4. CASE PageFails \/ Assessed \/ Request
  BY <1>0, <1>4, WaitingShrinks DEF PageFails, Assessed, Request, tick, Waiting, Types
<1>5. CASE TickDies
  BY <1>0, <1>5, WaitingShrinks DEF TickDies, Waiting, Types
<1>6. ASSUME NEW q \in queue, TakeMarket(q) PROVE NoneThrottled' /\ NoneTwice'
  BY <1>0, <1>6, WaitingShrinks DEF TakeMarket, Waiting, Types
<1>7. CASE RequestFails \/ RateLimited \/ Answered
  BY <1>0, <1>7, WaitingShrinks
     DEF RequestFails, RateLimited, Answered, CallEnds, tick, Waiting, Types
<1>8. ASSUME NEW q \in signals, Handle(q) PROVE NoneThrottled' /\ NoneTwice'
  <2>1. Waiting = signals /\ Waiting' = signals \ {q} /\ repeated' = repeated /\ now' = now
    BY <1>0, <1>8 DEF Handle, Stages, Calling, Waiting
  <2>2. NoneTwice'
    BY <2>1 DEF TickInv, NoneTwice
  <2>3. ~repeated => \A r \in Waiting' : r[1] # q[1]
    BY <2>1 DEF TickInv, NoneTwice
  <2>4. \A r \in Waiting' : r[1] # q[1] => decidedAt'[r[1]] = decidedAt[r[1]]
    BY <1>0, <1>8, <2>1 DEF Handle, Types, Candidate
  <2>5. NoneThrottled'
    BY <2>1, <2>3, <2>4 DEF TickInv, NoneThrottled, RecentlySignalled
  <2> QED
    BY <2>2, <2>5
<1>9. CASE Tick \/ UNCHANGED vars
  BY <1>0, <1>9, WaitingShrinks DEF Tick, vars, tick, Waiting, Types
<1> QED
  BY <1>1, <1>2, <1>3, <1>4, <1>5, <1>6, <1>7, <1>8, <1>9
     DEF Next, FetchStep, CallStep, MarketStep, HandleStep

\* Nothing waits at the start.
LEMMA TickInit == Init => TickInv /\ Budgets
<1> SUFFICES ASSUME Init PROVE TickInv /\ Budgets
  OBVIOUS
<1>1. Waiting = {}
  BY DEF Init, Waiting
<1>2. Types
  <2>1. repeated \in BOOLEAN /\ manual \in BOOLEAN
    BY Zenon DEF Init
  <2> QED
    BY <2>1, TickAssumption DEF Init, Types, Never
<1>3. Stages /\ Budgets
  BY <1>1 DEF Init, Stages, Budgets, Calling
<1> QED
  BY <1>1, <1>2, <1>3 DEF TickInv, NoneThrottled, NoneTwice

\* However failures and rate limits alternate, chat_json ends within the sum of
\* its budgets, for every max_retries and max_rate_limit_retries.
THEOREM CallBounded == Spec => []RequestsBounded
<1>1. TickInv /\ Budgets /\ [Next]_vars => (TickInv /\ Budgets)'
  BY TickStep, BudgetsStep DEF TickInv
<1>2. TickInv /\ Budgets => RequestsBounded
  BY RetriesAssumption
     DEF TickInv, Types, Stages, Budgets, Calling, RequestsBounded
<1> QED
  BY <1>1, <1>2, TickInit, PTL DEF Spec

\* A decision on a ticker is further from the one before than the throttle says.
ApartStep ==
    \A t \in Tickers :
        decidedAt'[t] # decidedAt[t] /\ ~repeated => now - decidedAt[t] > MinBetween

\* Only Handle decides, and what it handles was not throttled since the tick
\* started.
LEMMA DecidedApart == TickInv /\ [Next]_vars => [ApartStep]_vars
<1> SUFFICES ASSUME TickInv, [Next]_vars PROVE ApartStep
  OBVIOUS
<1>1. ASSUME NEW q \in signals, Handle(q) PROVE ApartStep
  <2>1. \A t \in Tickers : decidedAt'[t] # decidedAt[t] => t = q[1]
    BY <1>1 DEF Handle, TickInv, Types
  <2>2. ~repeated => ~RecentlySignalled(q[1])
    BY DEF TickInv, NoneThrottled, Waiting
  <2> QED
    BY <2>1, <2>2, TickAssumption DEF ApartStep, RecentlySignalled, TickInv, Types
<1>2. CASE decidedAt' = decidedAt
  BY <1>2 DEF ApartStep
<1> QED
  BY <1>1, <1>2
     DEF Next, vars, TickStarts, TickDies, Tick, FetchStep, FetchPage, PageFails,
         FetchTicker, MarketStep, Assessed, TakeMarket, CallStep, Request,
         RequestFails, RateLimited, Answered, HandleStep

\* Decisions on a ticker keep the throttle's distance although it is consulted
\* only when a tick starts, for every length of the tick and every limit.
THEOREM DecisionsKeepDistance == Spec => DecisionsApart
<1>1. TickInv /\ [Next]_vars => TickInv'
  BY TickStep
<1> QED
  BY <1>1, TickInit, DecidedApart, PTL DEF Spec, DecisionsApart, ApartStep

-----------------------------------------------------------------------------
(* The types, with the limits of a tick. *)

\* TypeOK, and what it rests on: pages are asked for one after the other, and only
\* configured tickers are fetched one by one.
LimitsInv ==
    /\ TypeOK /\ IsFiniteSet(queue)
    /\ pc = "fetch" => page <= MaxPages
    /\ todo # {} => manual

\* A page adds no more candidates than there is room for.
LEMMA RoomIsKept ==
    ASSUME NEW q, IsFiniteSet(q), Cardinality(q) <= MaxPerTick, NEW T \in SUBSET Tickers, NEW p,
           Cardinality(T) <= MaxPerTick - Cardinality(q)
    PROVE  IsFiniteSet(q \cup (T \X {p})) /\ Cardinality(q \cup (T \X {p})) <= MaxPerTick
<1> DEFINE r == T \X {p}
<1>1. IsFiniteSet(T) /\ Cardinality(T) \in Nat /\ Cardinality(q) \in Nat
  BY TickersAssumption, FS_Subset, FS_CardinalityType
<1>2. IsFiniteSet({p}) /\ Cardinality({p}) = 1
  BY FS_Singleton
<1>3. IsFiniteSet(r) /\ Cardinality(r) = Cardinality(T) * 1
  BY <1>1, <1>2, FS_Product
<1> HIDE DEF r
<1>4. /\ IsFiniteSet(q \cup r)
      /\ Cardinality(q \cup r) = Cardinality(q) + Cardinality(r) - Cardinality(q \cap r)
  BY <1>3, FS_Union
<1>5. IsFiniteSet(q \cap r)
  BY <1>3, FS_Subset
<1>6. Cardinality(q \cap r) \in Nat
  BY <1>5, FS_CardinalityType
<1> QED
  BY <1>1, <1>3, <1>4, <1>6, TickAssumption DEF r

\* One candidate less is not more.
LEMMA OneLess ==
    ASSUME NEW q, IsFiniteSet(q), NEW x
    PROVE  IsFiniteSet(q \ {x}) /\ (Cardinality(q) <= MaxPerTick => Cardinality(q \ {x}) <= MaxPerTick)
<1>1. IsFiniteSet(q \ {x}) /\ Cardinality(q \ {x}) <= Cardinality(q)
  BY FS_Subset
<1>2. Cardinality(q \ {x}) \in Nat /\ Cardinality(q) \in Nat
  BY <1>1, FS_CardinalityType
<1> QED
  BY <1>1, <1>2, TickAssumption

\* Every step keeps the limits: a page is asked for only under the page limit and
\* cut to the room that is left, and a call ends with its last failure.
LEMMA LimitsStep == LimitsInv /\ [Next]_vars => LimitsInv'
<1> SUFFICES ASSUME LimitsInv, [Next]_vars PROVE LimitsInv'
  OBVIOUS
<1>0. /\ 0 \in 0 .. MaxRetries - 1 /\ 0 \in 0 .. MaxRateLimitRetries - 1
      /\ 0 \in 0 .. MaxRetries + MaxRateLimitRetries /\ 1 \in 1 .. MaxPages + 1 /\ 1 <= MaxPages
      /\ IsFiniteSet({}) /\ Cardinality({}) <= MaxPerTick
      /\ MaxPages \in Nat /\ MaxRetries \in Nat /\ MaxRateLimitRetries \in Nat
  BY RetriesAssumption, TickAssumption, FS_EmptySet
<1>a. ASSUME CallEnds, UNCHANGED <<now, manual, todo, page, queue, decidedAt, repeated>>,
             signals' \subseteq Spots
      PROVE  LimitsInv'
  BY <1>0, <1>a DEF CallEnds, LimitsInv, TypeOK, Calling, Spots
<1> USE DEF vars, tick, call
<1>1. CASE TickStarts
  <2>1. repeated' \in BOOLEAN
    BY <1>1, Zenon DEF TickStarts
  <2>2. todo' \subseteq Spots /\ (todo' # {} => manual)
    BY <1>1, TickersAssumption DEF TickStarts, Spots
  <2> QED
    BY <1>0, <1>1, <2>1, <2>2 DEF TickStarts, LimitsInv, TypeOK, Calling
<1>2. CASE TickDies
  BY <1>0, <1>2 DEF TickDies, LimitsInv, TypeOK, Calling
<1>3. CASE Tick
  BY <1>3, TimeBound DEF Tick, LimitsInv, TypeOK, Calling
<1>4. ASSUME NEW e \in todo, FetchTicker(e) PROVE LimitsInv'
  <2>1. manual /\ e \in Spots
    BY <1>4 DEF FetchTicker, LimitsInv, TypeOK
  <2>2. queue' = queue \/ queue' = queue \cup {e}
    BY <1>4 DEF FetchTicker
  <2>3. queue' \subseteq Spots /\ IsFiniteSet(queue')
    BY <2>1, <2>2, FS_AddElement DEF LimitsInv, TypeOK
  <2>4. pc' \in {"assess", "fetch"} /\ todo' \subseteq todo
    BY <1>4 DEF FetchTicker
  <2>5. asked = {}
    BY <1>4 DEF FetchTicker, LimitsInv, TypeOK, Calling
  <2>6. repeated' \in BOOLEAN
    BY <1>4, Zenon DEF FetchTicker, LimitsInv, TypeOK
  <2>7. page \in 1 .. MaxPages
    BY <1>0, <1>4 DEF FetchTicker, LimitsInv, TypeOK
  <2> QED
    BY <1>4, <2>1, <2>3, <2>4, <2>5, <2>6, <2>7 DEF FetchTicker, LimitsInv, TypeOK, Calling
<1>5. CASE FetchPage
  <2>1. PICK T \in SUBSET Tickers :
            /\ Cardinality(T) <= MaxPerTick - Cardinality(queue)
            /\ queue' = queue \cup (T \X {page})
            /\ repeated' = (repeated \/ \E q \in queue : q[1] \in T)
    <3>1. PICK S \in SUBSET Tickers :
            LET fit  == {t \in S : ~RecentlySignalled(t)}
                room == MaxPerTick - Cardinality(queue)
            IN  \E T \in SUBSET fit :
                   /\ Cardinality(T) = IF Cardinality(fit) < room
                                       THEN Cardinality(fit) ELSE room
                   /\ queue' = queue \cup (T \X {page})
                   /\ repeated' = (repeated \/ \E q \in queue : q[1] \in T)
      BY <1>5, Zenon DEF FetchPage
    <3> DEFINE fit == {t \in S : ~RecentlySignalled(t)}
    <3>2. PICK T \in SUBSET fit :
            /\ Cardinality(T) = IF Cardinality(fit) < MaxPerTick - Cardinality(queue)
                                THEN Cardinality(fit) ELSE MaxPerTick - Cardinality(queue)
            /\ queue' = queue \cup (T \X {page})
            /\ repeated' = (repeated \/ \E q \in queue : q[1] \in T)
      BY <3>1, Zenon
    <3>3. fit \subseteq Tickers
      OBVIOUS
    <3> HIDE DEF fit
    <3>4. IsFiniteSet(fit) /\ Cardinality(fit) \in Nat /\ Cardinality(queue) \in Nat
      <4>1. IsFiniteSet(fit)
        BY <3>3, TickersAssumption, FS_Subset
      <4> QED
        BY <4>1, FS_CardinalityType DEF LimitsInv
    <3>5. Cardinality(T) <= MaxPerTick - Cardinality(queue)
      BY <3>2, <3>4, TickAssumption
    <3> QED
      BY <3>2, <3>3, <3>5
  <2>2. repeated' \in BOOLEAN
    BY <2>1
  <2>3. ~manual /\ page \in 1 .. MaxPages /\ page' = page + 1
    BY <1>0, <1>5 DEF FetchPage, LimitsInv, TypeOK
  <2>4. IsFiniteSet(queue) /\ Cardinality(queue) <= MaxPerTick
    BY <2>3 DEF LimitsInv, TypeOK
  <2>5. IsFiniteSet(queue') /\ Cardinality(queue') <= MaxPerTick
    BY <2>1, <2>4, RoomIsKept
  <2>6. queue' \subseteq Spots
    BY <2>1, <2>3 DEF LimitsInv, TypeOK, Spots
  <2>7. pc' = "assess" \/ (pc' = "fetch" /\ page < MaxPages)
    BY <1>5 DEF FetchPage
  <2>8. page' \in 1 .. MaxPages + 1 /\ (pc' = "fetch" => page' <= MaxPages)
    BY <1>0, <2>3, <2>7
  <2>9. asked = {}
    BY <1>5 DEF FetchPage, LimitsInv, TypeOK, Calling
  <2> QED
    BY <1>5, <2>2, <2>5, <2>6, <2>7, <2>8, <2>9
       DEF FetchPage, LimitsInv, TypeOK, Calling, Spots
<1>6. CASE PageFails
  BY <1>6 DEF PageFails, LimitsInv, TypeOK, Calling
<1>7. ASSUME NEW q \in queue, TakeMarket(q) PROVE LimitsInv'
  <2>1. /\ IsFiniteSet(queue') /\ queue' \subseteq Spots
        /\ ~manual => Cardinality(queue') <= MaxPerTick
    BY <1>7, OneLess DEF TakeMarket, LimitsInv, TypeOK, Spots
  <2>2. q \in Spots
    BY DEF LimitsInv, TypeOK, Spots
  <2>3. CASE UNCHANGED <<pc, asked, call>>
    BY <1>7, <2>1, <2>3 DEF TakeMarket, LimitsInv, TypeOK, Calling, Spots
  <2>4. CASE pc' = "call" /\ asked' = {q} /\ errs' = 0 /\ limits' = 0 /\ requests' = 0
    BY <1>0, <1>7, <2>1, <2>2, <2>4 DEF TakeMarket, LimitsInv, TypeOK, Calling, Spots
  <2> QED
    BY <1>7, <2>3, <2>4 DEF TakeMarket
<1>8. CASE Assessed
  BY <1>8 DEF Assessed, LimitsInv, TypeOK, Calling
<1>9. CASE Request
  <2>1. requests' \in 0 .. MaxRetries + MaxRateLimitRetries
    BY <1>0, <1>9 DEF Request, LimitsInv, TypeOK
  <2> QED
    BY <1>9, <2>1 DEF Request, LimitsInv, TypeOK, Calling
<1>10. CASE RequestFails
  <2>1. CASE CallEnds
    BY <1>10, <1>a, <2>1 DEF RequestFails, LimitsInv, TypeOK, Spots
  <2>2. CASE errs + 1 < MaxRetries /\ pc' = "call" /\ errs' = errs + 1
             /\ UNCHANGED <<limits, requests, asked>>
    <3>1. errs' \in 0 .. MaxRetries - 1
      BY <1>0, <2>2 DEF LimitsInv, TypeOK
    <3> QED
      BY <1>10, <2>2, <3>1 DEF RequestFails, LimitsInv, TypeOK, Calling
  <2> QED
    BY <1>0, <1>10, <2>1, <2>2 DEF RequestFails, LimitsInv, TypeOK
<1>11. CASE RateLimited
  <2>1. CASE CallEnds
    BY <1>11, <1>a, <2>1 DEF RateLimited, LimitsInv, TypeOK, Spots
  <2>2. CASE limits + 1 < MaxRateLimitRetries /\ pc' = "call" /\ limits' = limits + 1
             /\ UNCHANGED <<errs, requests, asked>>
    <3>1. limits' \in 0 .. MaxRateLimitRetries - 1
      BY <1>0, <2>2 DEF LimitsInv, TypeOK
    <3> QED
      BY <1>11, <2>2, <3>1 DEF RateLimited, LimitsInv, TypeOK, Calling
  <2> QED
    BY <1>0, <1>11, <2>1, <2>2 DEF RateLimited, LimitsInv, TypeOK
<1>12. CASE Answered
  <2>1. signals' \subseteq Spots
    BY <1>12 DEF Answered, LimitsInv, TypeOK, Spots
  <2> QED
    BY <1>12, <1>a, <2>1 DEF Answered
<1>13. ASSUME NEW q \in signals, Handle(q) PROVE LimitsInv'
  <2>1. decidedAt' \in [Tickers -> Int]
    <3>1. q[1] \in Tickers /\ now \in Int
      BY TimeBound DEF LimitsInv, TypeOK, Spots
    <3> QED
      BY <1>13, <3>1 DEF Handle, LimitsInv, TypeOK
  <2> QED
    BY <1>13, <2>1 DEF Handle, LimitsInv, TypeOK, Calling
<1>14. CASE UNCHANGED vars
  BY <1>14 DEF LimitsInv, TypeOK, Calling
<1> QED
  BY <1>1, <1>2, <1>3, <1>4, <1>5, <1>6, <1>7, <1>8, <1>9, <1>10, <1>11, <1>12, <1>13, <1>14
     DEF Next, FetchStep, CallStep, MarketStep, HandleStep

\* A tick looks at no more than max_markets_per_tick discovered markets and
\* discovery_max_pages pages, and an error budget is never overdrawn, for any limits
\* and any finite set of markets.
THEOREM TypeCorrect == Spec => []TypeOK
<1>1. Init => LimitsInv
  <2> SUFFICES ASSUME Init PROVE LimitsInv
    OBVIOUS
  <2>1. manual \in BOOLEAN /\ repeated \in BOOLEAN /\ IsFiniteSet({}) /\ Cardinality({}) = 0
    BY FS_EmptySet, Zenon DEF Init
  <2>2. Never \in Int
    BY TickAssumption DEF Never
  <2> QED
    BY <2>1, <2>2, TickAssumption, RetriesAssumption, TimeBound DEF Init, LimitsInv, TypeOK, Calling
<1>2. LimitsInv => TypeOK
  BY DEF LimitsInv
<1> QED
  BY <1>1, <1>2, LimitsStep, PTL DEF Spec
=============================================================================
