----------------------------- MODULE RateWindow -----------------------------
(***************************************************************************)
(* RateLimiter with one client watched over a stretch of time: how many of *)
(* its requests are allowed from one of its checks on.  The stretch may    *)
(* begin at any check and end at any later step, so that what holds of it  *)
(* holds of every stretch in which the client is charged under one limit.  *)
(***************************************************************************)
EXTENDS RateLimiter

CONSTANTS
    Watched,  \* the key that is watched
    MaxSpan   \* bound: the longest stretch, in ticks

Stretch == [limit : Limits, ticks : Nat, allowed : Nat, forgotten : Nat]

ASSUME WindowAssumption ==
    /\ Watched \in Key
    /\ MaxSpan \in Nat
    /\ None \notin Stretch

VARIABLE watch  \* the stretch so far, or None (history)

watchVars == <<limiterVars, watch>>

WatchInit == LimiterInit /\ watch = None

Granted == IF HasToken(Entry(Watched)) THEN 1 ELSE 0

\* A bucket made under another limit ends the stretch.  A window of zero limits
\* nothing and is not watched.
WatchedCheck ==
    /\ Check(Watched)
    /\ \/ watch' = None
       \/ /\ watch = None
          /\ Entry(Watched).limit.window > 0
          /\ watch' = [limit |-> Entry(Watched).limit, ticks |-> 0, allowed |-> Granted,
                       forgotten |-> 0]
       \/ /\ watch # None
          /\ watch.limit = Entry(Watched).limit
          /\ watch' = [watch EXCEPT !.allowed = @ + Granted]

WatchedTick ==
    /\ SecondPasses
    /\ watch' = IF watch = None \/ watch.ticks = MaxSpan THEN None
                ELSE [watch EXCEPT !.ticks = @ + 1]

\* An eviction may take the watched bucket.
WatchedCleanup ==
    /\ Cleanup
    /\ watch' = IF watch # None /\ bucket[Watched] # None /\ bucket'[Watched] = None
                THEN [watch EXCEPT !.forgotten = @ + 1] ELSE watch

\* The steps that are not counted.
Unwatched ==
    /\ \/ \E k \in Key \ {Watched} : Check(k)
       \/ \E r \in Route : Reload(r)
    /\ UNCHANGED watch

WatchNext == WatchedCheck \/ WatchedTick \/ WatchedCleanup \/ Unwatched

WatchSpec == WatchInit /\ [][WatchNext]_watchVars
FairWatchSpec == WatchSpec /\ LimiterFairness

----------------------------------------------------------------------------
\* What cleanup gives away when it evicts a bucket of limit l, in seconds of its
\* refill: nothing where the window is not longer than max_age.
Excess(l) == IF l.window > MaxAge THEN l.window - MaxAge ELSE 0

\* The promise of the limiter as a client's accountant would state it: in t
\* seconds a client gets through at most `requests` times, and once more for each
\* window/requests seconds, in whatever order its checks, those of others, pauses,
\* evictions and reloads come.  Where the window is longer than max_age, which no
\* validation forbids, each eviction gives the client the refill of what the window
\* exceeds max_age by; and each takes max_age seconds without a request
\* (rate_limiter.rs 28-56, 86-122; main.rs 168-176).
WithinTheLimit ==
    watch # None =>
        /\ watch.allowed * watch.limit.window
             <= watch.limit.requests
                  * (watch.limit.window + watch.ticks + watch.forgotten * Excess(watch.limit))
        /\ watch.forgotten * MaxAge <= watch.ticks
=============================================================================
