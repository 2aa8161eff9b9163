----------------------------- MODULE RateLimiter -----------------------------
(***************************************************************************)
(* The per-route, per-client rate limiter of the gateway                   *)
(* (pqc-proxy/src/rate_limiter.rs): token buckets refilled when they are   *)
(* used, and a background task that evicts those unused for a while        *)
(* (pqc-gateway/src/main.rs).  A check holds the bucket's entry lock from  *)
(* refill to answer, so it is one step.                                    *)
(*                                                                         *)
(* Time is counted in ticks of one second.  Tokens are counted in units of *)
(* 1/window, which makes the code's fractions whole numbers: a request     *)
(* costs `window` units, a tick brings `requests` units.                   *)
(***************************************************************************)
EXTENDS Integers

CONSTANTS
    Route, Client,  \* the two halves of a RateLimitKey
    Limits,         \* [requests, window] limits a configuration may give a route
    MaxAge,         \* max_age of cleanup
    CleanupPeriod,  \* sleep of the cleanup task
    AgeBound,       \* bound: ages saturate here
    None            \* no bucket; no hint

ASSUME LimiterAssumption ==
    /\ Limits \subseteq [requests : Nat, window : Nat]
    /\ MaxAge \in Nat
    /\ CleanupPeriod \in Nat
    /\ AgeBound \in Nat
    /\ AgeBound >= MaxAge
    /\ \A l \in Limits : AgeBound >= l.window
    /\ None \notin Int
    /\ None \notin [credit : Nat, age : Nat, limit : Limits]
    /\ None \notin [credit : Nat, limit : Limits, idle : Nat]

Key == Route \X Client

VARIABLES
    limit,   \* limit[r]: the limit of route r in the current configuration
    bucket,  \* bucket[k]: the entry of k in `buckets`
    hint,    \* hint[k]: what is left of the retry-after of k's latest answer (history)
    slept    \* cleanup task: how long it has slept

limiterVars == <<limit, bucket, hint, slept>>

----------------------------------------------------------------------------
\* age is the time since last_refill.
Bucket == [credit : Nat, age : 0..AgeBound, limit : Limits]

Full(l) == l.requests * l.window

NewBucket(l) == [credit |-> Full(l), age |-> 0, limit |-> l]

\* Mutant of Refilled: a refused request does not restart the clock of the refill.
Refilled_KeepsClock(b) ==
    [b EXCEPT !.credit = IF @ + b.age * b.limit.requests < Full(b.limit)
                         THEN @ + b.age * b.limit.requests ELSE Full(b.limit)]

\* Bucket::refill
Refilled(b) ==
    [b EXCEPT !.credit = IF @ + b.age * b.limit.requests < Full(b.limit)
                         THEN @ + b.age * b.limit.requests ELSE Full(b.limit),
              !.age = 0]

\* tokens >= 1.0.  A window of zero refills at once; without tokens to refill
\* it is refused all the same.
HasToken(b) == b.limit.requests > 0 /\ b.credit >= b.limit.window

\* Mutant of RetryAfter: the header is rounded down.
RetryAfter_Floor(b) ==
    IF b.limit.requests = 0 THEN None
    ELSE (b.limit.window - b.credit) \div b.limit.requests

\* retry_after, rounded up by proxy_handler; infinite under a limit of zero.
RetryAfter(b) ==
    IF b.limit.requests = 0 THEN None
    ELSE (b.limit.window - b.credit + b.limit.requests - 1) \div b.limit.requests

\* The bucket a check of k works on.
Entry(k) == IF bucket[k] = None THEN NewBucket(limit[k[1]]) ELSE Refilled(bucket[k])

----------------------------------------------------------------------------
LimiterInit ==
    /\ limit \in [Route -> Limits]
    /\ bucket = [k \in Key |-> None]
    /\ hint = [k \in Key |-> None]
    /\ slept = 0

\* RateLimiter::check and the answer proxy_handler makes of it.
Check(k) ==
    /\ IF HasToken(Entry(k))
       THEN /\ bucket' = [bucket EXCEPT ![k] =
                            [Entry(k) EXCEPT !.credit = @ - Entry(k).limit.window]]
            /\ hint' = [hint EXCEPT ![k] = None]
       ELSE /\ bucket' = [bucket EXCEPT ![k] = Entry(k)]
            /\ hint' = [hint EXCEPT ![k] = RetryAfter(Entry(k))]
    /\ UNCHANGED <<limit, slept>>

\* A reload changes a route's limit; buckets keep the one they were made with.
Reload(r) ==
    /\ \E l \in Limits \ {limit[r]} : limit' = [limit EXCEPT ![r] = l]
    /\ UNCHANGED <<bucket, hint, slept>>

\* Mutant of Cleanup: the comparison is the wrong way round.
Cleanup_EvictsYoung ==
    /\ slept >= CleanupPeriod
    /\ slept' = 0
    /\ bucket' = [k \in Key |-> IF bucket[k] # None /\ bucket[k].age < MaxAge
                                THEN None ELSE bucket[k]]
    /\ UNCHANGED <<limit, hint>>

\* The cleanup task wakes up and evicts what has not been used for max_age.  It
\* holds one shard's lock at a time, but no bucket depends on another.
Cleanup ==
    /\ slept >= CleanupPeriod
    /\ slept' = 0
    /\ bucket' = [k \in Key |-> IF bucket[k] # None /\ bucket[k].age >= MaxAge
                                THEN None ELSE bucket[k]]
    /\ UNCHANGED <<limit, hint>>

SecondPasses ==
    /\ bucket' = [k \in Key |->
                    IF bucket[k] = None THEN None
                    ELSE [bucket[k] EXCEPT !.age = IF @ < AgeBound THEN @ + 1 ELSE AgeBound]]
    /\ hint' = [k \in Key |-> IF hint[k] \in {None, 0} THEN hint[k] ELSE hint[k] - 1]
    /\ slept' = IF slept < CleanupPeriod THEN slept + 1 ELSE slept
    /\ UNCHANGED limit

LimiterNext ==
    \/ \E k \in Key : Check(k)
    \/ \E r \in Route : Reload(r)
    \/ Cleanup
    \/ SecondPasses

LimiterSpec == LimiterInit /\ [][LimiterNext]_limiterVars

\* The clock runs and tokio runs the cleanup task when its sleep is over.
LimiterFairness == WF_limiterVars(SecondPasses) /\ WF_limiterVars(Cleanup)

----------------------------------------------------------------------------
\* Every variable has its type and no bucket holds more than its capacity.
LimiterTypeOK ==
    /\ limit \in [Route -> Limits]
    /\ bucket \in [Key -> Bucket \cup {None}]
    /\ \A k \in Key : bucket[k] # None => bucket[k].credit <= Full(bucket[k].limit)
    /\ hint \in [Key -> Nat \cup {None}]
    /\ slept \in 0..CleanupPeriod

\* A client that waits as long as its 429 told it to is let through: requests
\* refused in the meantime, evictions and reloads do not make the header a lie,
\* rounding included (rate_limiter.rs 49-55, 98-111; proxy.rs:366).
RetryAfterIsHonest ==
    \A k \in Key :
        hint[k] = 0 /\ bucket[k] # None => HasToken(Refilled(bucket[k]))

\* A bucket nobody asks for is evicted in the end: the map does not keep every
\* client that ever called (rate_limiter.rs 117-122, main.rs 168-176).
IdleBucketsAreEvicted ==
    \A k \in Key :
        (bucket[k] # None /\ bucket[k].age > 0) ~> (bucket[k] = None \/ bucket[k].age = 0)

\* The level each bucket would have if it were refilled all the time.
level == [k \in Key |->
            IF bucket[k] = None THEN None
            ELSE [credit |-> Refilled(bucket[k]).credit, limit |-> bucket[k].limit,
                  idle |-> IF bucket[k].age < MaxAge THEN bucket[k].age ELSE MaxAge]]

\* The limit in force for each key.
current == [k \in Key |-> limit[k[1]]]

Ideal == INSTANCE TokenBucket WITH Patience <- MaxAge
\* Lazily refilled and evicted buckets behave like ones that are refilled all the
\* time, made under the limit in force, and forgotten only when that goes unnoticed
\* or, where the window is longer than max_age, after max_age without a request: no
\* order of checks, evictions, reloads and pauses lets a client through more often
\* (rate_limiter.rs 28-56, 86-122).
ImplementsTokenBucket == Ideal!Spec
=============================================================================
