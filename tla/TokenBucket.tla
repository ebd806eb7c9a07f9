----------------------------- MODULE TokenBucket -----------------------------
(***************************************************************************)
(* The token bucket in front of the exchange's REST API.  Time is in       *)
(* ticks, a token is worth Token grains, and one grain is refilled per     *)
(* tick: the rate is 1 / Token requests per tick.  acquire holds the       *)
(* bucket's lock while it sleeps, so acquisitions come one after another,  *)
(* in the order they asked.  A sleep may last longer than asked for.       *)
(***************************************************************************)
EXTENDS Integers

CONSTANTS
    Token,     \* grains in a token
    Capacity,  \* grains in a full bucket
    Horizon    \* bound: the last tick of a run

ASSUME BucketAssumption ==
    Token \in Nat \ {0} /\ Capacity \in Nat /\ Capacity >= Token /\ Horizon \in Nat

VARIABLES
    now,
    tokens, last,   \* _tokens, _last
    wakeAt,         \* end of the sleep of the acquire under way, or 0
    \* history, read by properties only:
    opened, spent   \* a moment, and the grains acquired since then

window == <<opened, spent>>
bucket == <<now, tokens, last, wakeAt, window>>

\* An acquire sleeps, holding the lock.
Asleep == wakeAt > 0

\* Mutant: a bucket left alone fills without limit.
RefilledUncapped == tokens + (now - last)

\* _tokens after the refill at the start of acquire.
Refilled == IF tokens + (now - last) < Capacity THEN tokens + (now - last) ELSE Capacity

\* A token is there.
Acquire ==
    /\ ~Asleep /\ Refilled >= Token
    /\ tokens' = Refilled - Token
    /\ last' = now
    /\ spent' = spent + Token
    /\ UNCHANGED <<now, wakeAt, opened>>

\* The bucket is short of a token: sleep until it would be there.
FallAsleep ==
    /\ ~Asleep /\ Refilled < Token
    /\ tokens' = Refilled
    /\ last' = now
    /\ wakeAt' = now + Token - Refilled
    /\ UNCHANGED <<now, window>>

\* The bucket is emptied; _last stays where it was before the sleep, so the
\* next acquire refills for the time slept once more.
WakeUp ==
    /\ Asleep /\ now >= wakeAt
    /\ tokens' = 0
    /\ wakeAt' = 0
    /\ spent' = spent + Token
    /\ UNCHANGED <<now, last, opened>>

Tick == now < Horizon /\ now' = now + 1 /\ UNCHANGED <<tokens, last, wakeAt, window>>

\* History: any moment may be the start of the stretch of time looked at.
OpenWindow ==
    /\ opened' = now /\ spent' = 0
    /\ UNCHANGED <<now, tokens, last, wakeAt>>

BucketInit ==
    /\ now = 0 /\ tokens = Capacity /\ last = 0 /\ wakeAt = 0
    /\ opened = 0 /\ spent = 0

BucketNext == Acquire \/ FallAsleep \/ WakeUp \/ Tick \/ OpenWindow
BucketSpec == BucketInit /\ [][BucketNext]_bucket

-----------------------------------------------------------------------------
(* Properties. *)

BucketType ==
    /\ now \in 0 .. Horizon /\ last \in 0 .. now /\ opened \in 0 .. now
    /\ tokens \in 0 .. Capacity /\ wakeAt \in Nat /\ spent \in Nat
    /\ Asleep => tokens < Token /\ wakeAt = last + Token - tokens

\* In any stretch of time of length d at most Capacity + Token + 2 * d grains
\* are acquired: because the time slept is credited twice the rate is kept only
\* up to a factor of two, and no run of callers can exceed that.
RateAtMostTwice == spent <= Capacity + Token + 2 * (now - opened)

\* Why: until the first refill of the stretch only the sleeper found in it can
\* get a token, and from then on each tick is credited at most twice.
Credit ==
    IF last < opened
    THEN spent <= Token /\ (Asleep => spent = 0)
    ELSE spent + tokens <=
            Capacity + Token + (last - opened) + (IF Asleep THEN last ELSE now) - opened
=============================================================================
