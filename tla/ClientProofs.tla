---------------------------- MODULE ClientProofs ----------------------------
(***************************************************************************)
(* For any callers, rate, retries and delays: the client's requests go     *)
(* through the token bucket and nothing else, one balance request is out   *)
(* at a time, and the cached bankroll is recent and never goes back.       *)
(***************************************************************************)
EXTENDS Client, WellFoundedInduction, TLAPS

-----------------------------------------------------------------------------
(* The token bucket by itself, for any pattern of calls. *)

BucketInv == BucketType /\ Credit

\* Every step of the bucket keeps the types.
LEMMA BucketTypeStep == BucketType /\ [BucketNext]_bucket => BucketType'
<1> SUFFICES ASSUME BucketType, [BucketNext]_bucket PROVE BucketType'
  OBVIOUS
<1> USE BucketAssumption DEF BucketType, Refilled, Asleep, window
<1>1. CASE Acquire
  BY <1>1 DEF Acquire
<1>2. CASE FallAsleep
  BY <1>2 DEF FallAsleep
<1>3. CASE WakeUp
  BY <1>3 DEF WakeUp
<1>4. CASE Tick
  BY <1>4 DEF Tick
<1>5. CASE OpenWindow
  BY <1>5 DEF OpenWindow
<1>6. CASE UNCHANGED bucket
  BY <1>6 DEF bucket
<1> QED
  BY <1>1, <1>2, <1>3, <1>4, <1>5, <1>6 DEF BucketNext

\* Every step keeps the account of credited time.
LEMMA CreditStep == BucketInv /\ [BucketNext]_bucket => Credit'
<1> SUFFICES ASSUME BucketInv, [BucketNext]_bucket PROVE Credit'
  OBVIOUS
<1> USE BucketAssumption DEF BucketInv, BucketType, Credit, Refilled, Asleep, window
<1>1. CASE Acquire
  BY <1>1 DEF Acquire
<1>2. CASE FallAsleep
  BY <1>2 DEF FallAsleep
<1>3. CASE WakeUp
  BY <1>3 DEF WakeUp
<1>4. CASE Tick
  BY <1>4 DEF Tick
<1>5. CASE OpenWindow
  BY <1>5 DEF OpenWindow
<1>6. CASE UNCHANGED bucket
  BY <1>6 DEF bucket
<1> QED
  BY <1>1, <1>2, <1>3, <1>4, <1>5, <1>6 DEF BucketNext

\* The bucket's inductive invariant holds of its specification.
LEMMA BucketInvariant == BucketSpec => []BucketInv
<1>1. BucketInit => BucketInv
  BY BucketAssumption DEF BucketInit, BucketInv, BucketType, Credit, Asleep
<1>2. BucketInv /\ [BucketNext]_bucket => BucketInv'
  BY BucketTypeStep, CreditStep DEF BucketInv
<1> QED
  BY <1>1, <1>2, PTL DEF BucketSpec

\* The account bounds what was acquired (TokenBucket, acquire).
LEMMA CreditBounds == BucketInv => RateAtMostTwice
BY BucketAssumption DEF BucketInv, BucketType, Credit, RateAtMostTwice, Asleep

\* Whatever the callers do, no stretch of time sees more than the capacity, one
\* token and twice the rate.
THEOREM RateKept == BucketSpec => []RateAtMostTwice
BY BucketInvariant, CreditBounds, PTL

-----------------------------------------------------------------------------
(* The client. *)

Sending == {"bucket", "await", "backoff"}

CallerTypes ==
    /\ pc \in [Callers -> {"idle", "lock"} \cup Sending]
    /\ DOMAIN due = Callers /\ due = [c \in Callers |-> due[c]]
    /\ \A c \in Callers : pc[c] = "await" => due[c] \in Nat
    /\ cached \in Int /\ fetched \in Int

\* The callers in the bucket's line are the ones that wait for a token, once each.
LineInv ==
    /\ line \in Seq(Callers)
    /\ \A i \in 1 .. Len(line) : pc[line[i]] = "bucket"
    /\ \A i, j \in 1 .. Len(line) : line[i] = line[j] => i = j

\* Bankroll's lock has one holder at a time.
OneRefresh == \A c, d \in Refreshing : c = d

\* A request is answered while it is young, and the cache holds nothing newer
\* than the request that is out.
Requests ==
    \A c \in Callers : pc[c] = "await" =>
        /\ due[c] <= now /\ now <= due[c] + Timeout
        /\ c \in Getters => cached <= due[c]

\* What the cache holds was current when it was fetched.
CacheInv ==
    /\ cached >= 0 => fetched - Timeout <= cached /\ cached <= fetched /\ fetched <= now
    /\ cached < 0 => cached \in {None, Fallback}

ClientInv == BucketType /\ CallerTypes /\ LineInv /\ OneRefresh /\ Requests /\ CacheInv

\* Each step of the client is a step of the bucket, or none.
LEMMA ClientStepsBucket == [Next]_vars => [BucketNext]_bucket
<1> USE DEF BucketNext, bucket, window
<1> SUFFICES ASSUME [Next]_vars PROVE [BucketNext]_bucket
  OBVIOUS
<1>1. CASE Throttle
  BY <1>1 DEF Throttle
<1>2. CASE TimePasses
  BY <1>2 DEF TimePasses
<1>3. CASE Observe
  BY <1>3 DEF Observe
<1>4. ASSUME NEW c \in Callers, Send(c) PROVE [BucketNext]_bucket
  BY <1>4 DEF Send
<1>5. ASSUME NEW c \in Callers, Read(c) \/ Get(c) \/ Refresh(c) PROVE UNCHANGED bucket
  BY <1>5 DEF Read, Get, Refresh
<1>6. ASSUME NEW c \in Callers,
             AnswerArrives(c) \/ AnswerRefuses(c) \/ AttemptFails(c) \/ BackoffEnds(c)
      PROVE  UNCHANGED bucket
  BY <1>6 DEF AnswerArrives, AnswerRefuses, AttemptFails, BackoffEnds
<1>7. CASE UNCHANGED vars
  BY <1>7 DEF vars
<1> QED
  BY <1>1, <1>2, <1>3, <1>4, <1>5, <1>6, <1>7 DEF Next

\* The client implements the bucket: whatever the callers do, their requests
\* are acquisitions of it (KalshiClient._request acquires before every attempt).
THEOREM ClientKeepsBucket == Spec => BucketSpec
<1>1. Init => BucketInit
  BY DEF Init
<1> QED
  BY <1>1, ClientStepsBucket, PTL DEF Spec, BucketSpec

\* So the requests of the client keep the bucket's bound on the rate.
THEOREM ClientRateKept == Spec => []RateAtMostTwice
BY ClientKeepsBucket, RateKept, PTL

\* A caller joins the line.
LEMMA EnqueueLine ==
    ASSUME NEW c \in Callers, pc[c] # "bucket", Enqueue(c),
           pc \in [Callers -> {"idle", "lock"} \cup Sending], LineInv
    PROVE  LineInv'
<1> USE DEF Enqueue, Goes, LineInv
<1>1. line' \in Seq(Callers)
  OBVIOUS
<1>2. Len(line') = Len(line) + 1 /\ line'[Len(line) + 1] = c
  OBVIOUS
<1>3. \A i \in 1 .. Len(line) : line'[i] = line[i] /\ line[i] \in Callers /\ line[i] # c
  OBVIOUS
<1>4. \A i \in 1 .. Len(line') : pc'[line'[i]] = "bucket"
  BY <1>2, <1>3
<1>5. \A i, j \in 1 .. Len(line') : line'[i] = line'[j] => i = j
  BY <1>2, <1>3
<1> QED
  BY <1>1, <1>4, <1>5

\* A caller that is not in the line goes elsewhere.
LEMMA GoesElsewhere ==
    ASSUME NEW c \in Callers, NEW where, pc[c] # "bucket", Goes(c, where), UNCHANGED line,
           pc \in [Callers -> {"idle", "lock"} \cup Sending], LineInv
    PROVE  LineInv'
<1>1. \A i \in 1 .. Len(line) : line[i] \in Callers /\ line[i] # c
  BY DEF LineInv
<1> QED
  BY <1>1 DEF Goes, LineInv

\* The head of the line leaves it with its token.
LEMMA HeadSends ==
    ASSUME NEW c \in Callers, Send(c), CallerTypes, LineInv
    PROVE  pc[c] = "bucket" /\ LineInv'
<1> USE DEF Send, Goes, LineInv, CallerTypes
<1>1. Len(line) > 0 /\ line[1] = c
  OBVIOUS
<1>2. line' \in Seq(Callers) /\ Len(line') = Len(line) - 1
  OBVIOUS
<1>3. \A i \in 1 .. Len(line') : line'[i] = line[i + 1] /\ line[i + 1] # c
  BY <1>1, <1>2
<1> QED
  BY <1>1, <1>2, <1>3

\* A getter that does not hold the lock is the only one to take it when it is free.
LEMMA LockTaken ==
    ASSUME NEW c \in Callers, pc \in [Callers -> {"idle", "lock"} \cup Sending],
           Goes(c, "bucket"), OneRefresh, c \in Getters => Refreshing = {} \/ c \in Refreshing
    PROVE  OneRefresh'
BY DEF Goes, OneRefresh, Refreshing, Callers, Sending

\* Whoever goes anywhere else leaves at most the holders there were.
LEMMA LockKept ==
    ASSUME NEW c \in Callers, NEW where, pc \in [Callers -> {"idle", "lock"} \cup Sending],
           Goes(c, where), OneRefresh, c \in Getters /\ where \in Sending => c \in Refreshing
    PROVE  OneRefresh'
BY DEF Goes, OneRefresh, Refreshing, Callers, Sending

\* Every step keeps the invariant of the client.
LEMMA ClientStep == ClientInv /\ [Next]_vars => ClientInv'
<1> SUFFICES ASSUME ClientInv, [Next]_vars PROVE ClientInv'
  OBVIOUS
<1> USE ClientAssumption DEF None, Fallback
<1>t. BucketType'
  BY ClientStepsBucket, BucketTypeStep DEF ClientInv
<1>p. pc \in [Callers -> {"idle", "lock"} \cup Sending] /\ LineInv /\ CallerTypes /\ now \in Int
  BY DEF ClientInv, CallerTypes, BucketType
<1> DEFINE Rest == CallerTypes /\ Requests /\ CacheInv
<1>1. ASSUME NEW c \in Callers, Read(c) PROVE ClientInv'
  <2>1. LineInv'
    BY <1>1, <1>p, EnqueueLine DEF Read, At
  <2>2. OneRefresh'
    BY <1>1, <1>p, LockTaken DEF Read, Enqueue, ClientInv
  <2>3. Rest'
    BY <1>1 DEF Read, Enqueue, Goes, At, ClientInv, CallerTypes, Requests, CacheInv,
                bucket, cache, Sending, Callers
  <2> QED
    BY <1>t, <2>1, <2>2, <2>3 DEF ClientInv
<1>2. ASSUME NEW c \in Callers, Get(c) PROVE ClientInv'
  <2>1. LineInv'
    BY <1>2, <1>p, GoesElsewhere DEF Get, At
  <2>2. OneRefresh'
    BY <1>2, <1>p, LockKept DEF Get, ClientInv, Sending
  <2>3. Rest'
    BY <1>2 DEF Get, Goes, At, ClientInv, CallerTypes, Requests, CacheInv, bucket, cache, Sending
  <2> QED
    BY <1>t, <2>1, <2>2, <2>3 DEF ClientInv
<1>3. ASSUME NEW c \in Callers, Refresh(c) PROVE ClientInv'
  <2>1. LineInv'
    BY <1>3, <1>p, EnqueueLine DEF Refresh, At
  <2>2. OneRefresh'
    BY <1>3, <1>p, LockTaken DEF Refresh, Enqueue, ClientInv
  <2>3. Rest'
    BY <1>3 DEF Refresh, Enqueue, Goes, At, ClientInv, CallerTypes, Requests, CacheInv,
                bucket, cache, Sending
  <2> QED
    BY <1>t, <2>1, <2>2, <2>3 DEF ClientInv
<1>4. ASSUME NEW c \in Callers, Send(c) PROVE ClientInv'
  <2>1. LineInv' /\ pc[c] = "bucket"
    BY <1>4, <1>p, HeadSends
  <2>2. OneRefresh'
    BY <1>4, <1>p, <2>1, LockKept DEF Send, ClientInv, Refreshing
  <2>3. now' = now /\ cached <= now
    BY <1>4 DEF Send, Acquire, WakeUp, ClientInv, CacheInv, BucketType, CallerTypes
  <2>5. /\ UNCHANGED cache /\ now \in Nat
        /\ pc' = [pc EXCEPT ![c] = "await"] /\ due' = [due EXCEPT ![c] = now]
    BY <1>4 DEF Send, Goes, ClientInv, BucketType
  <2>4. Rest'
    BY <1>p, <2>3, <2>5 DEF ClientInv, CallerTypes, Requests, CacheInv, cache, Sending
  <2> QED
    BY <1>t, <2>1, <2>2, <2>4 DEF ClientInv
<1>5. ASSUME NEW c \in Callers, AnswerArrives(c) PROVE ClientInv'
  <2>1. LineInv'
    BY <1>5, <1>p, GoesElsewhere DEF AnswerArrives, At, Finish
  <2>2. OneRefresh'
    BY <1>5, <1>p, LockKept DEF AnswerArrives, Finish, ClientInv, Sending
  <2>3. due[c] \in Nat /\ due[c] <= now /\ now <= due[c] + Timeout /\ UNCHANGED bucket
    BY <1>5 DEF AnswerArrives, At, ClientInv, CallerTypes, Requests
  <2>4. CallerTypes' /\ CacheInv'
    BY <1>5, <1>p, <2>3 DEF AnswerArrives, Finish, Goes, At, ClientInv, CallerTypes, CacheInv,
                            bucket, cache, Sending
  <2>5. ASSUME NEW d \in Callers, pc'[d] = "await"
        PROVE  /\ due'[d] <= now' /\ now' <= due'[d] + Timeout
               /\ d \in Getters => cached' <= due'[d]
    <3>1. d # c /\ pc[d] = "await" /\ due'[d] = due[d]
      BY <1>5, <2>5, <1>p DEF AnswerArrives, Finish, Goes, CallerTypes
    <3>2. d \in Getters => c \notin Getters
      BY <1>5, <3>1 DEF AnswerArrives, At, ClientInv, OneRefresh, Refreshing
    <3> QED
      BY <1>5, <3>1, <3>2, <2>3 DEF AnswerArrives, ClientInv, Requests, bucket, cache
  <2> QED
    BY <1>t, <2>1, <2>2, <2>4, <2>5 DEF ClientInv, Requests
<1>6. ASSUME NEW c \in Callers, At(c, "await") \/ At(c, "backoff"),
             Refuse(c) \/ (Finish(c) /\ UNCHANGED cache), UNCHANGED <<bucket, line>>
      PROVE  ClientInv'
  <2>1. LineInv'
    BY <1>6, <1>p, GoesElsewhere DEF At, Refuse, Finish
  <2>2. OneRefresh'
    BY <1>6, <1>p, LockKept DEF Refuse, Finish, ClientInv, Sending
  <2>3. /\ cached' \in Int /\ fetched' = fetched
        /\ cached' = cached \/ (cached' = Fallback /\ cached = None)
    BY <1>6 DEF Refuse, cache, ClientInv, CallerTypes
  <2>4. CallerTypes' /\ CacheInv'
    BY <1>6, <1>p, <2>3 DEF Refuse, Finish, Goes, ClientInv, CallerTypes, CacheInv, bucket, Sending
  <2>5. Requests'
    BY <1>6, <1>p, <2>3 DEF Refuse, Finish, Goes, ClientInv, CallerTypes, Requests, bucket
  <2> QED
    BY <1>t, <2>1, <2>2, <2>4, <2>5 DEF ClientInv
<1>7. ASSUME NEW c \in Callers, AttemptFails(c) PROVE ClientInv'
  <2>1. LineInv'
    BY <1>7, <1>p, GoesElsewhere DEF AttemptFails, At
  <2>2. OneRefresh'
    BY <1>7, <1>p, LockKept DEF AttemptFails, ClientInv, Refreshing, At
  <2>3. PICK d : due' = [due EXCEPT ![c] = d]
    BY <1>7 DEF AttemptFails
  <2>4. UNCHANGED <<bucket, cache>> /\ pc' = [pc EXCEPT ![c] = "backoff"]
    BY <1>7 DEF AttemptFails, Goes
  <2>5. Rest'
    BY <1>p, <2>3, <2>4 DEF ClientInv, CallerTypes, Requests, CacheInv, bucket, cache, Sending
  <2> QED
    BY <1>t, <2>1, <2>2, <2>5 DEF ClientInv
<1>8. ASSUME NEW c \in Callers, BackoffEnds(c) PROVE ClientInv'
  <2>1. CASE Enqueue(c) /\ UNCHANGED cache
    <3>1. LineInv'
      BY <1>8, <2>1, <1>p, EnqueueLine DEF BackoffEnds, At
    <3>2. OneRefresh'
      BY <1>8, <2>1, <1>p, LockTaken DEF BackoffEnds, Enqueue, ClientInv, Refreshing, At
    <3>3. Rest'
      BY <1>8, <2>1 DEF BackoffEnds, Enqueue, Goes, At, ClientInv, CallerTypes, Requests,
                        CacheInv, bucket, cache, Sending
    <3> QED
      BY <1>t, <3>1, <3>2, <3>3 DEF ClientInv
  <2>2. CASE (Refuse(c) \/ (Finish(c) /\ UNCHANGED cache)) /\ UNCHANGED line
    BY <1>6, <1>8, <2>2 DEF BackoffEnds
  <2> QED
    BY <1>8, <2>1, <2>2 DEF BackoffEnds
<1>9. CASE Throttle
  BY <1>9, <1>t DEF Throttle, FallAsleep, ClientInv, CallerTypes, LineInv, OneRefresh, Refreshing,
                    Requests, CacheInv, caller, cache
<1>10. CASE TimePasses
  <2>1. LineInv' /\ OneRefresh' /\ CallerTypes'
    BY <1>10 DEF TimePasses, ClientInv, CallerTypes, LineInv, OneRefresh, Refreshing, caller, cache
  <2>2. now' = now + 1 /\ now \in Int
    BY <1>10, <1>p DEF TimePasses, Tick
  <2>3. Requests' /\ CacheInv'
    BY <1>10, <2>2 DEF TimePasses, At, ClientInv, CallerTypes, Requests, CacheInv, caller, cache
  <2> QED
    BY <1>t, <2>1, <2>3 DEF ClientInv
<1>11. CASE Observe
  BY <1>11, <1>t DEF Observe, OpenWindow, ClientInv, CallerTypes, LineInv, OneRefresh, Refreshing,
                     Requests, CacheInv, caller, cache
<1>12. CASE UNCHANGED vars
  BY <1>12, <1>t DEF vars, ClientInv, CallerTypes, LineInv, OneRefresh, Refreshing,
                     Requests, CacheInv, caller, cache, bucket
<1>13. ASSUME NEW c \in Callers, AnswerRefuses(c) PROVE ClientInv'
  BY <1>6, <1>13 DEF AnswerRefuses
<1> QED
  BY <1>1, <1>2, <1>3, <1>4, <1>5, <1>7, <1>8, <1>9, <1>10, <1>11, <1>12, <1>13 DEF Next

\* The client's inductive invariant holds of its specification.
LEMMA ClientInvariant == Spec => []ClientInv
<1>1. Init => ClientInv
  <2> SUFFICES ASSUME Init PROVE ClientInv
    OBVIOUS
  <2> USE BucketAssumption, ClientAssumption DEF Init, Starting, None, Fallback
  <2>1. BucketType
    BY DEF BucketInit, BucketType, Asleep
  <2>2. CallerTypes
    BY DEF CallerTypes
  <2>3. LineInv /\ OneRefresh /\ Requests
    BY DEF LineInv, OneRefresh, Refreshing, Callers, Requests
  <2>4. CacheInv
    BY DEF CacheInv
  <2> QED
    BY <2>1, <2>2, <2>3, <2>4 DEF ClientInv
<1> QED
  BY <1>1, ClientStep, PTL DEF Spec

\* The cached bankroll that get returns without asking is recent.
THEOREM CachedIsRecent == Spec => []YoungIsRecent
<1>1. ClientInv => YoungIsRecent
  BY ClientAssumption DEF ClientInv, BucketType, CallerTypes, CacheInv, YoungIsRecent, Young, None, Fallback
<1> QED
  BY <1>1, ClientInvariant, PTL

\* No refresh puts an older balance in place of a newer one.
THEOREM BalanceOnlyAdvances == Spec => BalanceNeverGoesBack
<1> USE DEF None, Fallback
<1>1. ClientInv /\ [Next]_vars => [cached' >= cached]_vars
  <2> SUFFICES ASSUME ClientInv, Next PROVE cached' >= cached
    OBVIOUS
  <2> USE DEF ClientInv, CallerTypes
  <2>1. ASSUME NEW c \in Callers, AnswerArrives(c) PROVE cached' >= cached
    BY <2>1 DEF AnswerArrives, At, Requests, BucketType, cache
  <2>2. ASSUME NEW c \in Callers, Refuse(c) \/ UNCHANGED cache PROVE cached' >= cached
    BY <2>2 DEF Refuse, cache
  <2>3. ASSUME NEW c \in Callers,
               Read(c) \/ Get(c) \/ Refresh(c) \/ Send(c)
               \/ AnswerRefuses(c) \/ AttemptFails(c) \/ BackoffEnds(c)
        PROVE  cached' >= cached
    BY <2>2, <2>3 DEF Read, Get, Refresh, Send, AnswerRefuses, AttemptFails, BackoffEnds
  <2>4. ASSUME Throttle \/ TimePasses \/ Observe PROVE cached' >= cached
    BY <2>4 DEF Throttle, TimePasses, Observe, cache
  <2> QED
    BY <2>1, <2>3, <2>4 DEF Next
<1> QED
  BY <1>1, ClientInvariant, PTL DEF Spec, BalanceNeverGoesBack

-----------------------------------------------------------------------------
(* The backoff, and the types of the client. *)

\* Steps from 0 to n that each keep a set of good numbers reach all of them.
LEMMA CountingUp ==
    ASSUME NEW n \in Nat, NEW Good, 0 \in Good,
           \A k \in 1 .. n : k - 1 \in Good => k \in Good
    PROVE  0 .. n \subseteq Good
<1> DEFINE R == {ss \in Nat \X Nat : ss[1] < ss[2]}
           Bad == (0 .. n) \ Good
<1> SUFFICES ASSUME Bad # {} PROVE FALSE
  OBVIOUS
<1>1. R = OpToRel(<, Nat)
  BY DEF OpToRel
<1>2. \A k \in Nat, l \in Nat : k < l => <<k, l>> \in R
  OBVIOUS
<1> HIDE DEF R
<1>3. IsWellFoundedOn(R, Nat)
  BY <1>1, NatLessThanWellFounded
<1>b. Bad \subseteq Nat
  OBVIOUS
<1> HIDE DEF Bad
<1>4. PICK m \in Bad : \A k \in Bad : ~ (<<k, m>> \in R)
  BY <1>3, <1>b, WFMin, Zenon
<1>5. m \in 1 .. n /\ m - 1 \in 0 .. n
  BY <1>4 DEF Bad
<1>6. m - 1 \notin Good
  BY <1>4, <1>5 DEF Bad
<1>7. m - 1 \in Bad /\ <<m - 1, m>> \in R
  BY <1>2, <1>5, <1>6 DEF Bad
<1> QED
  BY <1>4, <1>7

\* What the backoffs up to the n-th attempt have to be.
Doubles(w, n) == w = [k \in 0 .. n |-> IF k = 0 THEN Backoff ELSE 2 * w[k - 1]]

\* Doubling defines them, and none is negative.
LEMMA WaitIsNat == \A n \in 0 .. MaxAttempts : Wait[n] \in Nat
<1>0. MaxAttempts \in Nat /\ Backoff \in Nat
  BY ClientAssumption
<1>1. \E w : Doubles(w, MaxAttempts)
  <2> DEFINE Good == {n \in 0 .. MaxAttempts : \E w : Doubles(w, n)}
  <2>1. 0 \in Good
    <3>1. Doubles([k \in 0 .. 0 |-> Backoff], 0)
      BY DEF Doubles
    <3> QED
      BY <1>0, <3>1
  <2>2. ASSUME NEW n \in 1 .. MaxAttempts, n - 1 \in Good PROVE n \in Good
    <3>1. PICK w : Doubles(w, n - 1)
      BY <2>2
    <3> DEFINE v == [k \in 0 .. n |-> IF k = n THEN 2 * w[n - 1] ELSE w[k]]
    <3>2. ASSUME NEW k \in 0 .. n PROVE v[k] = IF k = 0 THEN Backoff ELSE 2 * v[k - 1]
      <4>1. \A i \in 0 .. n - 1 : w[i] = IF i = 0 THEN Backoff ELSE 2 * w[i - 1]
        BY <3>1, Zenon DEF Doubles
      <4>2. CASE k = n
        BY <1>0, <4>2
      <4>3. CASE k # n
        BY <1>0, <4>1, <4>3
      <4> QED
        BY <4>2, <4>3
    <3>3. v = [k \in 0 .. n |-> v[k]]
      OBVIOUS
    <3> HIDE DEF v
    <3>4. Doubles(v, n)
      BY <3>2, <3>3 DEF Doubles
    <3> QED
      BY <1>0, <3>4
  <2> HIDE DEF Good
  <2>3. 0 .. MaxAttempts \subseteq Good
    BY <1>0, <2>1, <2>2, CountingUp
  <2> QED
    BY <1>0, <2>3 DEF Good
<1>2. Doubles(Wait, MaxAttempts)
  <2>1. Wait = CHOOSE w : Doubles(w, MaxAttempts)
    BY Zenon DEF Wait, Doubles
  <2> QED
    BY <1>1, <2>1
<1>3. \A n \in 0 .. MaxAttempts : Wait[n] = IF n = 0 THEN Backoff ELSE 2 * Wait[n - 1]
  BY <1>2, Zenon DEF Doubles
<1> DEFINE Good == {n \in 0 .. MaxAttempts : Wait[n] \in Nat}
<1>4. 0 \in Good
  BY <1>0, <1>3
<1>5. \A n \in 1 .. MaxAttempts : n - 1 \in Good => n \in Good
  BY <1>0, <1>3
<1> HIDE DEF Good
<1>6. 0 .. MaxAttempts \subseteq Good
  BY <1>0, <1>4, <1>5, CountingUp
<1> QED
  BY <1>6 DEF Good

\* A caller has an attempt left until it backs off from the last one.
AttemptsLeft ==
    /\ attempt \in [Callers -> 0 .. MaxAttempts]
    /\ \A c \in Callers : pc[c] # "backoff" => attempt[c] < MaxAttempts

ClientTypes == AttemptsLeft /\ exc \in [Callers -> {"api", "transport"}] /\ due \in [Callers -> Nat]

\* Each step keeps them.
LEMMA ClientTypesStep == ClientInv /\ ClientTypes /\ [Next]_vars => ClientTypes'
<1> SUFFICES ASSUME ClientInv, ClientTypes, [Next]_vars PROVE ClientTypes'
  OBVIOUS
<1>0. /\ pc \in [Callers -> {"idle", "lock"} \cup Sending]
      /\ now \in Nat /\ MaxAttempts \in Nat \ {0}
  BY ClientAssumption DEF ClientInv, CallerTypes, BucketType
<1> USE DEF ClientTypes, AttemptsLeft, Sending
<1>1. ASSUME NEW c \in Callers, Finish(c) PROVE ClientTypes'
  BY <1>0, <1>1 DEF Finish, Goes
<1>2. ASSUME NEW c \in Callers, Enqueue(c), attempt[c] < MaxAttempts, UNCHANGED <<attempt, exc>>
      PROVE  ClientTypes'
  BY <1>0, <1>2 DEF Enqueue, Goes
<1>3. ASSUME NEW c \in Callers, Read(c) \/ Refresh(c) PROVE ClientTypes'
  BY <1>0, <1>2, <1>3 DEF Read, Refresh, At
<1>4. ASSUME NEW c \in Callers, Get(c) PROVE ClientTypes'
  BY <1>0, <1>4 DEF Get, Goes, At
<1>5. ASSUME NEW c \in Callers, Send(c) PROVE ClientTypes'
  <2>1. pc[c] = "bucket"
    BY <1>5, HeadSends DEF ClientInv
  <2> QED
    BY <1>0, <1>5, <2>1 DEF Send, Goes
<1>6. ASSUME NEW c \in Callers, AnswerArrives(c) \/ AnswerRefuses(c) PROVE ClientTypes'
  BY <1>1, <1>6 DEF AnswerArrives, AnswerRefuses, Refuse
<1>7. ASSUME NEW c \in Callers, AttemptFails(c) PROVE ClientTypes'
  <2>1. attempt[c] \in 0 .. MaxAttempts /\ attempt[c] < MaxAttempts
    BY <1>7 DEF AttemptFails, At
  <2>2. Wait[attempt[c]] \in Nat
    BY <2>1, WaitIsNat
  <2>3. PICK d \in {now + 1, now + Wait[attempt[c]]} : due' = [due EXCEPT ![c] = d]
    BY <1>7 DEF AttemptFails
  <2>4. d \in Nat
    BY <1>0, <2>2
  <2>5. exc' \in [Callers -> {"api", "transport"}]
    BY <1>7 DEF AttemptFails
  <2>6. attempt' = [attempt EXCEPT ![c] = @ + 1] /\ pc' = [pc EXCEPT ![c] = "backoff"]
    BY <1>7 DEF AttemptFails, Goes
  <2> QED
    BY <1>0, <2>1, <2>3, <2>4, <2>5, <2>6
<1>8. ASSUME NEW c \in Callers, BackoffEnds(c) PROVE ClientTypes'
  BY <1>1, <1>2, <1>8 DEF BackoffEnds, Refuse
<1>9. CASE Throttle \/ TimePasses \/ Observe \/ UNCHANGED vars
  BY <1>9 DEF Throttle, TimePasses, Observe, vars, caller
<1> QED
  BY <1>3, <1>4, <1>5, <1>6, <1>7, <1>8, <1>9 DEF Next

\* However requests fail, no caller makes more attempts than max_retries, and the
\* cache holds a balance, the fallback or nothing (_request, Bankroll.refresh).
THEOREM TypeCorrect == Spec => []TypeOK
<1>1. Init => ClientTypes
  BY ClientAssumption DEF Init, ClientTypes, AttemptsLeft
<1>2. ClientInv /\ ClientTypes => TypeOK
  <2> SUFFICES ASSUME ClientInv, ClientTypes PROVE TypeOK
    OBVIOUS
  <2>1. cached \in Nat \cup {None, Fallback} /\ fetched \in Int
    BY DEF ClientInv, CallerTypes, CacheInv
  <2> QED
    BY <2>1 DEF ClientInv, CallerTypes, LineInv, ClientTypes, AttemptsLeft, TypeOK, Sending
<1> QED
  BY <1>1, <1>2, ClientInvariant, ClientTypesStep, PTL DEF Spec
=============================================================================
