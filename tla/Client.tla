------------------------------- MODULE Client -------------------------------
(***************************************************************************)
(* Reads through the REST client: callers of _request queue for the token  *)
(* bucket, send, and retry with backoff; those of Bankroll.get first share *)
(* a cache and a lock.  A balance is represented by the tick at which the  *)
(* exchange had it, so an older balance is a smaller number.               *)
(***************************************************************************)
EXTENDS TokenBucket, Sequences

CONSTANTS
    Getters, Others,   \* tasks that ask for the bankroll; any other reader
    MaxAttempts,       \* max_retries of _request
    Backoff,           \* ticks slept after the first failed attempt
    Timeout,           \* ticks within which a request is answered or given up
    Ttl                \* bankroll_ttl_seconds, in ticks

ASSUME ClientAssumption ==
    /\ MaxAttempts \in Nat \ {0} /\ {Backoff, Timeout, Ttl} \subseteq Nat
    /\ Getters \cap Others = {}

VARIABLES
    pc, attempt, exc,  \* each caller in _request, its attempt, its last_exc
    due,               \* when it sent, or when its backoff ends
    line,              \* callers in the bucket's FIFO lock, the holder first
    cached, fetched    \* Bankroll._cached, ._last_fetch

caller == <<pc, attempt, exc, due>>
cache  == <<cached, fetched>>
vars   == <<bucket, caller, line, cache>>

Callers  == Getters \cup Others
None     == -2     \* no balance was ever asked for
Fallback == -1     \* fallback_dollars: the first request was refused

\* Mutant: every refresh goes out at once.
NeverHeld == {}

\* The getter that holds Bankroll._lock, through all attempts of its request.
Refreshing == {c \in Getters : pc[c] \in {"bucket", "await", "backoff"}}

At(c, where)   == pc[c] = where
Goes(c, where) == pc' = [pc EXCEPT ![c] = where]

Enqueue(c) ==
    /\ Goes(c, "bucket")
    /\ line' = Append(line, c)
    /\ due' = [due EXCEPT ![c] = 0]

\* The request is over, with an answer or an exception.
Finish(c) ==
    /\ Goes(c, "idle")
    /\ attempt' = [attempt EXCEPT ![c] = 0]
    /\ exc' = [exc EXCEPT ![c] = "api"]
    /\ due' = [due EXCEPT ![c] = 0]

\* get returns the cached value without asking.
Young == cached # None /\ now - fetched <= Ttl

-----------------------------------------------------------------------------

\* A reader other than Bankroll calls _request.
Read(c) ==
    /\ c \in Others /\ At(c, "idle")
    /\ Enqueue(c)
    /\ UNCHANGED <<bucket, attempt, exc, cache>>

\* Bankroll.get finds the cached value too old and waits for the lock.
Get(c) ==
    /\ c \in Getters /\ At(c, "idle")
    /\ ~Young
    /\ Goes(c, "lock")
    /\ UNCHANGED <<bucket, attempt, exc, due, line, cache>>

\* refresh asks again, whatever others fetched while the lock was waited for.
Refresh(c) ==
    /\ At(c, "lock") /\ Refreshing = {}
    /\ Enqueue(c)
    /\ UNCHANGED <<bucket, attempt, exc, cache>>

\* The bucket's holder falls asleep, or leaves with its token and sends.
Throttle ==
    /\ line # <<>> /\ FallAsleep
    /\ UNCHANGED <<caller, line, cache>>
Send(c) ==
    /\ line # <<>> /\ c = Head(line)
    /\ Acquire \/ WakeUp
    /\ line' = Tail(line)
    /\ Goes(c, "await")
    /\ due' = [due EXCEPT ![c] = now]
    /\ UNCHANGED <<attempt, exc, cache>>

\* Mutant: a refusal counts as a fetch.
RefuseAndStamp(c) ==
    /\ Finish(c)
    /\ IF c \in Getters
       THEN /\ cached' = IF cached = None THEN Fallback ELSE cached
            /\ fetched' = now
       ELSE UNCHANGED cache

\* KalshiAPIError: refresh returns the last good value, or the fallback.
Refuse(c) ==
    /\ Finish(c)
    /\ IF c \in Getters
       THEN /\ cached' = IF cached = None THEN Fallback ELSE cached
            /\ UNCHANGED fetched
       ELSE UNCHANGED cache

\* The balance the exchange had at some moment while the request was out.
AnswerArrives(c) ==
    /\ At(c, "await") /\ Finish(c)
    /\ IF c \in Getters
       THEN /\ cached' \in due[c] .. now
            /\ fetched' = now
       ELSE UNCHANGED cache
    /\ UNCHANGED <<bucket, line>>

\* A 4xx, as KalshiAPIError; 401, 403, an answer that cannot be read or a 429 whose
\* retry-after is no number raise something refresh does not catch: the lock is
\* released, nothing changes.
AnswerRefuses(c) ==
    /\ At(c, "await")
    /\ Refuse(c) \/ (Finish(c) /\ UNCHANGED cache)
    /\ UNCHANGED <<bucket, line>>

\* The backoff after attempt n: 2 ** n seconds, in ticks.
Wait[n \in 0 .. MaxAttempts] == IF n = 0 THEN Backoff ELSE 2 * Wait[n - 1]

\* 429 waits retry-after and a bit and keeps last_exc; 5xx and transport errors
\* back off.  Giving up after nothing but 429 is a KalshiAPIError as after 5xx.
AttemptFails(c) ==
    /\ At(c, "await")
    /\ Goes(c, "backoff")
    /\ attempt' = [attempt EXCEPT ![c] = @ + 1]
    /\ \/ UNCHANGED exc /\ due' = [due EXCEPT ![c] = now + 1]
       \/ /\ \E e \in {"api", "transport"} : exc' = [exc EXCEPT ![c] = e]
          /\ due' = [due EXCEPT ![c] = now + Wait[attempt[c]]]
    /\ UNCHANGED <<bucket, line, cache>>

\* The next attempt, or the last exception: only transport errors escape.
BackoffEnds(c) ==
    /\ At(c, "backoff") /\ now >= due[c]
    /\ \/ /\ attempt[c] < MaxAttempts /\ Enqueue(c)
          /\ UNCHANGED <<attempt, exc, cache>>
       \/ /\ attempt[c] = MaxAttempts /\ UNCHANGED line
          /\ IF exc[c] = "transport" THEN Finish(c) /\ UNCHANGED cache ELSE Refuse(c)
    /\ UNCHANGED bucket

\* The HTTP client's timeout ends a request before its time is over.
TimePasses ==
    /\ \A c \in Callers : At(c, "await") => now < due[c] + Timeout
    /\ Tick
    /\ UNCHANGED <<caller, line, cache>>

Observe == OpenWindow /\ UNCHANGED <<caller, line, cache>>

\* The startup sequence calls refresh itself, once, whatever the age of what get
\* may have cached by then: its task starts out on the way to the lock.
Starting(s) == [c \in Callers |-> IF c = s /\ s \in Getters THEN "lock" ELSE "idle"]

\* _last_fetch = 0.0 on a clock that counts from the boot of the host: long ago,
\* or just now.
Init ==
    /\ BucketInit
    /\ \E s \in Callers : pc = Starting(s)
    /\ attempt = [c \in Callers |-> 0]
    /\ exc = [c \in Callers |-> "api"] /\ due = [c \in Callers |-> 0]
    /\ line = <<>>
    /\ cached = None /\ fetched \in {-Ttl - 1, 0}

Next ==
    \/ \E c \in Callers :
          \/ Read(c) \/ Get(c) \/ Refresh(c) \/ Send(c)
          \/ AnswerArrives(c) \/ AnswerRefuses(c) \/ AttemptFails(c) \/ BackoffEnds(c)
    \/ Throttle \/ TimePasses \/ Observe

Spec == Init /\ [][Next]_vars

-----------------------------------------------------------------------------
(* Properties. *)

\* Type invariant.
TypeOK ==
    /\ BucketType
    /\ pc \in [Callers -> {"idle", "lock", "bucket", "await", "backoff"}]
    /\ attempt \in [Callers -> 0 .. MaxAttempts]
    /\ exc \in [Callers -> {"api", "transport"}]
    /\ due \in [Callers -> Nat]
    /\ line \in Seq(Callers)
    /\ cached \in Nat \cup {None, Fallback} /\ fetched \in Int

\* A balance that get returns without asking is what the account had at most
\* Ttl and one request ago, however long the lock, the bucket and the retries
\* made callers wait, and whatever failed in between (Bankroll.get, refresh).
\* The fallback is no balance: on a host up for less than the ttl it counts as
\* young too, though nothing was ever fetched.
YoungIsRecent == Young /\ cached # Fallback => now - cached <= Ttl + Timeout

\* No refresh puts an older balance in place of a newer one, although answers
\* may be delayed and attempts repeated: requests go out one at a time.
BalanceNeverGoesBack == [][cached' >= cached]_vars
=============================================================================
