----------------------------- MODULE TokenBucket -----------------------------
(***************************************************************************)
(* What a rate limiter promises about one key: the textbook token bucket,  *)
(* refilled continuously and never above its capacity.  A key without a    *)
(* bucket gets a full one, under the limit in force, at its next request;  *)
(* a bucket keeps the limit it was made with until it is forgotten.        *)
(*                                                                         *)
(* A bucket may be forgotten when it is full, which nobody notices.  Only  *)
(* one whose window is longer than Patience may be forgotten before that,  *)
(* and only when it has not been asked for during Patience seconds.        *)
(*                                                                         *)
(* Tokens are counted in units of 1/window: a request costs `window` units *)
(* and a second brings `requests` of them, up to requests * window.        *)
(***************************************************************************)
EXTENDS Integers

CONSTANTS
    Key,       \* what is limited: a client on a route
    Limits,    \* the limits in use: records [requests, window]
    Patience,  \* how long an unused bucket is remembered at least
    None       \* no bucket

VARIABLES
    current,  \* current[k]: the limit in force for k
    level     \* level[k]: None, or [credit, limit, idle]

bucketVars == <<current, level>>

Full(l) == l.requests * l.window
Filled(credit, l) == IF credit < Full(l) THEN credit ELSE Full(l)

Init ==
    /\ current \in [Key -> Limits]
    /\ level = [k \in Key |-> None]

\* The bucket a request of k is charged to.
Charged(k) ==
    IF level[k] = None
    THEN [credit |-> Full(current[k]), limit |-> current[k], idle |-> 0]
    ELSE [level[k] EXCEPT !.idle = 0]

HasToken(b) == b.limit.requests > 0 /\ b.credit >= b.limit.window

\* A request of k is allowed and paid for.
Allow(k) ==
    /\ HasToken(Charged(k))
    /\ level' = [level EXCEPT ![k] =
                   [Charged(k) EXCEPT !.credit = @ - Charged(k).limit.window]]
    /\ UNCHANGED current

\* A request of k finds no token.
Refuse(k) ==
    /\ ~HasToken(Charged(k))
    /\ level' = [level EXCEPT ![k] = Charged(k)]
    /\ UNCHANGED current

\* A second passes.
Elapse ==
    /\ level' = [k \in Key |->
                   IF level[k] = None THEN None
                   ELSE [credit |-> Filled(level[k].credit + level[k].limit.requests,
                                           level[k].limit),
                         limit |-> level[k].limit,
                         idle |-> IF level[k].idle < Patience THEN level[k].idle + 1
                                  ELSE Patience]]
    /\ UNCHANGED current

Forgettable(b) ==
    \/ b.credit = Full(b.limit)
    \/ b.limit.window > Patience /\ b.idle = Patience

Forget ==
    /\ \E ks \in SUBSET {k \in Key : level[k] # None /\ Forgettable(level[k])} :
         level' = [k \in Key |-> IF k \in ks THEN None ELSE level[k]]
    /\ UNCHANGED current

\* Limits are set anew; the buckets there are keep theirs.
SetLimits ==
    /\ current' \in [Key -> Limits]
    /\ UNCHANGED level

Next == (\E k \in Key : Allow(k) \/ Refuse(k)) \/ Elapse \/ Forget \/ SetLimits

Spec == Init /\ [][Next]_bucketVars
=============================================================================
