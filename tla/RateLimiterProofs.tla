-------------------------- MODULE RateLimiterProofs --------------------------
(***************************************************************************)
(* Proofs about RateLimiter and RateWindow for every set of limits, routes *)
(* and clients.                                                            *)
(***************************************************************************)
EXTENDS RateWindow, TLAPS

\* The products the units of RateLimiter are made of.
LEMMA Products ==
    ASSUME NEW a \in Nat, NEW r \in Nat, NEW w \in Nat
    PROVE  /\ a * r \in Nat
           /\ (a + 1) * r = a * r + r
           /\ a >= w => a * r >= r * w
           /\ r > 0 => a * r >= a /\ r * w >= w
           /\ 0 * r = 0
<1>1. a * r \in Nat /\ (a + 1) * r = a * r + r /\ 0 * r = 0
  OBVIOUS
<1>2. ASSUME a >= w PROVE a * r >= r * w
  <2>1. PICK d \in Nat : a = w + d
    BY <1>2
  <2>2. a * r = w * r + d * r /\ d * r \in Nat /\ w * r = r * w
    BY <2>1
  <2> QED BY <2>2
<1>3. ASSUME r > 0 PROVE a * r >= a /\ r * w >= w
  <2>1. PICK q \in Nat : r = q + 1
    BY <1>3
  <2>2. a * r = a * q + a /\ r * w = q * w + w /\ a * q \in Nat /\ q * w \in Nat
    BY <2>1
  <2> QED BY <2>2
<1> QED BY <1>1, <1>2, <1>3

\* Waiting the retry-after brings the missing units: the header is rounded up.
LEMMA RoundedUp ==
    ASSUME NEW x \in Nat, NEW r \in Nat \ {0}
    PROVE  /\ (x + r - 1) \div r \in Nat
           /\ ((x + r - 1) \div r) * r >= x
<1> DEFINE n == x + r - 1
           q == n \div r
<1>1. n \in Nat
  OBVIOUS
<1>2. q \in Nat /\ r * q <= n /\ n < r * q + r
  BY <1>1
<1>3. q * r = r * q
  BY <1>2
<1> QED BY <1>2, <1>3

\* A limit taken apart.
LEMMA LimitTypes ==
    ASSUME NEW l \in Limits
    PROVE  /\ l.requests \in Nat /\ l.window \in Nat /\ l.window <= AgeBound
           /\ Full(l) \in Nat
BY LimiterAssumption DEF Full

\* A bucket within its capacity.
Sound(b) == b \in Bucket /\ b.credit <= Full(b.limit)

\* What refilling a bucket does to it, and to its credit.
LEMMA RefillFacts ==
    ASSUME NEW b, Sound(b)
    PROVE  /\ Sound(Refilled(b))
           /\ Refilled(b).limit = b.limit
           /\ Refilled(b).age = 0
           /\ Refilled(b).credit = IF b.credit + b.age * b.limit.requests < Full(b.limit)
                                   THEN b.credit + b.age * b.limit.requests
                                   ELSE Full(b.limit)
<1> USE LimiterAssumption
<1>1. /\ b.limit \in Limits /\ b.credit \in Nat /\ b.age \in 0..AgeBound /\ b.age \in Nat
      /\ b.limit.requests \in Nat
  BY LimitTypes DEF Sound, Bucket
<1>2. b.age * b.limit.requests \in Nat /\ Full(b.limit) \in Nat
  BY <1>1, LimitTypes, Products
<1>3. /\ Refilled(b).limit = b.limit
      /\ Refilled(b).age = 0
      /\ Refilled(b).credit = IF b.credit + b.age * b.limit.requests < Full(b.limit)
                              THEN b.credit + b.age * b.limit.requests
                              ELSE Full(b.limit)
  BY DEF Refilled, Sound, Bucket
<1>4. Refilled(b) \in Bucket
  <2> DEFINE c == IF b.credit + b.age * b.limit.requests < Full(b.limit)
                  THEN b.credit + b.age * b.limit.requests
                  ELSE Full(b.limit)
  <2>1. c \in Nat /\ 0 \in 0..AgeBound
    BY <1>1, <1>2
  <2>2. Refilled(b) = [b EXCEPT !.credit = c, !.age = 0]
    BY DEF Refilled, Sound, Bucket
  <2> HIDE DEF c
  <2> QED BY <2>1, <2>2 DEF Bucket, Sound
<1> QED BY <1>1, <1>2, <1>3, <1>4 DEF Sound

LEMMA NewBucketFacts ==
    ASSUME NEW l \in Limits
    PROVE  Sound(NewBucket(l)) /\ NewBucket(l).credit = Full(l) /\ NewBucket(l).limit = l
<1>1. Full(l) \in Nat /\ 0 \in 0..AgeBound
  BY LimitTypes, LimiterAssumption
<1> QED BY <1>1 DEF NewBucket, Sound, Bucket

LEMMA NoneIsNoBucket == None \notin Bucket
BY LimiterAssumption DEF Bucket

----------------------------------------------------------------------------
BucketInv ==
    /\ limit \in [Route -> Limits]
    /\ bucket \in [Key -> Bucket \cup {None}]
    /\ \A k \in Key : bucket[k] # None => Sound(bucket[k])

\* The bucket a check works on, and what it leaves behind.
LEMMA EntryFacts ==
    ASSUME BucketInv, NEW k \in Key
    PROVE  Sound(Entry(k)) /\ Entry(k).age = 0
<1>1. k[1] \in Route
  BY DEF Key
<1>2. CASE bucket[k] = None
  <2>1. limit[k[1]] \in Limits
    BY <1>1 DEF BucketInv
  <2> QED BY <1>2, <2>1, NewBucketFacts DEF Entry, NewBucket
<1>3. CASE bucket[k] # None
  BY <1>3, RefillFacts DEF Entry, BucketInv
<1> QED BY <1>2, <1>3

LEMMA PaidFacts ==
    ASSUME NEW b, Sound(b), HasToken(b)
    PROVE  LET paid == [b EXCEPT !.credit = @ - b.limit.window]
           IN  Sound(paid) /\ paid.limit = b.limit /\ paid.age = b.age
               /\ paid.credit = b.credit - b.limit.window
<1>1. b.credit \in Nat /\ b.limit \in Limits /\ b.limit.window \in Nat
  BY LimitTypes DEF Sound, Bucket
<1>2. b.credit - b.limit.window \in Nat /\ b.credit - b.limit.window <= b.credit
  BY <1>1 DEF HasToken
<1>3. Full(b.limit) \in Nat
  BY <1>1, LimitTypes
<1> DEFINE c == b.credit - b.limit.window
           paid == [b EXCEPT !.credit = c]
<1>4. paid \in Bucket /\ paid.credit = c /\ paid.limit = b.limit /\ paid.age = b.age
  <2>1. c \in Nat
    BY <1>2
  <2> HIDE DEF c
  <2> QED BY <2>1 DEF Sound, Bucket
<1>5. c <= Full(b.limit)
  BY <1>1, <1>2, <1>3 DEF Sound
<1> QED BY <1>4, <1>5 DEF Sound

\* What a check leaves in the map, and the hint it gives.
LEMMA CheckFacts ==
    ASSUME BucketInv, NEW k \in Key, Check(k)
    PROVE  \E b \in Bucket :
              /\ Sound(b) /\ b.age = 0 /\ b.limit = Entry(k).limit
              /\ bucket' = [bucket EXCEPT ![k] = b]
              /\ \/ /\ HasToken(Entry(k))
                    /\ b.credit = Entry(k).credit - Entry(k).limit.window
                    /\ hint' = [hint EXCEPT ![k] = None]
                 \/ /\ ~HasToken(Entry(k))
                    /\ b.credit = Entry(k).credit
                    /\ hint' = [hint EXCEPT ![k] = RetryAfter(Entry(k))]
<1>1. Sound(Entry(k)) /\ Entry(k).age = 0
  BY EntryFacts
<1>2. CASE HasToken(Entry(k))
  <2> DEFINE b == [Entry(k) EXCEPT !.credit = @ - Entry(k).limit.window]
  <2>1. Sound(b) /\ b.limit = Entry(k).limit /\ b.age = 0
        /\ b.credit = Entry(k).credit - Entry(k).limit.window
    BY <1>1, <1>2, PaidFacts
  <2>2. bucket' = [bucket EXCEPT ![k] = b] /\ hint' = [hint EXCEPT ![k] = None]
    BY <1>2 DEF Check
  <2>3. b \in Bucket
    BY <2>1 DEF Sound
  <2> HIDE DEF b
  <2> QED BY <1>2, <2>1, <2>2, <2>3
<1>3. CASE ~HasToken(Entry(k))
  BY <1>1, <1>3 DEF Check, Sound
<1> QED BY <1>2, <1>3

\* A tick only ages a bucket.
Aged(b) == [b EXCEPT !.age = IF @ < AgeBound THEN @ + 1 ELSE AgeBound]

LEMMA AgedFacts ==
    ASSUME NEW b, Sound(b)
    PROVE  /\ Sound(Aged(b)) /\ Aged(b).limit = b.limit /\ Aged(b).credit = b.credit
           /\ Aged(b).age = IF b.age < AgeBound THEN b.age + 1 ELSE AgeBound
<1> DEFINE a == IF b.age < AgeBound THEN b.age + 1 ELSE AgeBound
<1>1. a \in 0..AgeBound
  BY LimiterAssumption DEF Sound, Bucket
<1>2. Aged(b) = [b EXCEPT !.age = a]
  BY DEF Aged, Sound, Bucket
<1> HIDE DEF a
<1>3. /\ Aged(b) \in Bucket /\ Aged(b).limit = b.limit
      /\ Aged(b).credit = b.credit /\ Aged(b).age = a
  BY <1>1, <1>2 DEF Sound, Bucket
<1> QED BY <1>3 DEF Sound, a

LEMMA BucketStep == BucketInv /\ [LimiterNext]_limiterVars => BucketInv'
<1> SUFFICES ASSUME BucketInv, [LimiterNext]_limiterVars
             PROVE  BucketInv'
    OBVIOUS
<1>1. ASSUME NEW k \in Key, Check(k)
      PROVE  BucketInv'
  <2>1. PICK b \in Bucket : Sound(b) /\ bucket' = [bucket EXCEPT ![k] = b]
    BY <1>1, CheckFacts
  <2>2. UNCHANGED limit
    BY <1>1 DEF Check
  <2> QED BY <2>1, <2>2 DEF BucketInv
<1>2. ASSUME NEW r \in Route, Reload(r)
      PROVE  BucketInv'
  BY <1>2 DEF Reload, BucketInv
<1>3. CASE Cleanup
  BY <1>3 DEF Cleanup, BucketInv
<1>4. CASE SecondPasses
  <2>1. bucket' = [k \in Key |-> IF bucket[k] = None THEN None ELSE Aged(bucket[k])]
        /\ UNCHANGED limit
    BY <1>4 DEF SecondPasses, Aged
  <2>2. ASSUME NEW k \in Key, bucket[k] # None
        PROVE  Sound(Aged(bucket[k]))
    BY <2>2, AgedFacts DEF BucketInv
  <2>3. bucket' \in [Key -> Bucket \cup {None}]
    BY <2>1, <2>2 DEF Sound
  <2>4. \A k \in Key : bucket'[k] # None => Sound(bucket'[k])
    BY <2>1, <2>2
  <2> QED BY <2>1, <2>3, <2>4 DEF BucketInv
<1>5. CASE UNCHANGED limiterVars
  BY <1>5 DEF limiterVars, BucketInv
<1> QED BY <1>1, <1>2, <1>3, <1>4, <1>5 DEF LimiterNext

THEOREM BucketInvariant == LimiterSpec => []BucketInv
<1>1. LimiterInit => BucketInv
  BY DEF LimiterInit, BucketInv
<1> QED BY <1>1, BucketStep, PTL DEF LimiterSpec

----------------------------------------------------------------------------
\* h more ticks bring bucket b a token.  This is what a retry-after of h says,
\* and what stays true of it while h is counted down and b ages.
Owed(b, h) ==
    /\ b.limit.requests > 0
    /\ b.credit + (b.age + h) * b.limit.requests >= b.limit.window

HintInv ==
    /\ hint \in [Key -> Nat \cup {None}]
    /\ slept \in 0..CleanupPeriod
    /\ \A k \in Key : bucket[k] # None /\ hint[k] # None => Owed(bucket[k], hint[k])

\* The retry-after of a refusal is enough.
LEMMA RefusalOwes ==
    ASSUME NEW b, Sound(b), b.age = 0, ~HasToken(b), b.limit.requests # 0
    PROVE  RetryAfter(b) \in Nat /\ Owed(b, RetryAfter(b))
<1> DEFINE r == b.limit.requests
           x == b.limit.window - b.credit
<1>1. r \in Nat \ {0} /\ b.limit.window \in Nat /\ b.credit \in Nat
  BY LimitTypes DEF Sound, Bucket
<1>2. x \in Nat
  BY <1>1 DEF HasToken
<1>3. RetryAfter(b) = (x + r - 1) \div r
  BY DEF RetryAfter
<1>4. RetryAfter(b) \in Nat /\ RetryAfter(b) * r >= x
  <2> HIDE DEF x, r
  <2> QED BY <1>1, <1>2, <1>3, RoundedUp
<1>5. (b.age + RetryAfter(b)) * r >= x
  BY <1>4
<1>6. (b.age + RetryAfter(b)) * r \in Nat
  BY <1>1, <1>4, Products
<1> HIDE DEF r
<1>7. b.credit + (b.age + RetryAfter(b)) * r >= b.limit.window
  BY <1>1, <1>5, <1>6
<1> QED BY <1>1, <1>4, <1>7 DEF Owed, r

\* A tick counts the hint down and ages the bucket.
LEMMA TickOwes ==
    ASSUME NEW b, Sound(b), NEW h \in Nat, Owed(b, h)
    PROVE  Owed(Aged(b), IF h = 0 THEN 0 ELSE h - 1)
<1> DEFINE r == b.limit.requests
           g == IF h = 0 THEN 0 ELSE h - 1
<1>1. /\ r \in Nat /\ r > 0 /\ b.limit.window \in Nat /\ b.credit \in Nat
      /\ b.age \in 0..AgeBound /\ b.limit.window <= AgeBound /\ AgeBound \in Nat
  BY LimitTypes, LimiterAssumption DEF Sound, Bucket, Owed
<1>2. b.credit + (b.age + h) * r >= b.limit.window
  BY DEF Owed
<1>3. g \in Nat
  OBVIOUS
<1>4. b.credit + (Aged(b).age + g) * r >= b.limit.window
  <2>1. CASE b.age < AgeBound /\ h # 0
    <3>1. Aged(b).age + g = b.age + h
      BY <2>1, <1>1, AgedFacts
    <3> QED BY <3>1, <1>2
  <2>2. CASE b.age < AgeBound /\ h = 0
    <3>1. Aged(b).age + g = b.age + h + 1
      BY <2>2, <1>1, AgedFacts
    <3>2. (b.age + h + 1) * r = (b.age + h) * r + r /\ (b.age + h) * r \in Nat
      BY <1>1, Products
    <3> HIDE DEF r, g
    <3> QED BY <3>1, <3>2, <1>1, <1>2
  <2>3. CASE ~(b.age < AgeBound)
    <3>1. Aged(b).age + g \in Nat /\ Aged(b).age + g >= AgeBound
      BY <2>3, <1>1, <1>3, AgedFacts
    <3>2. (Aged(b).age + g) * r >= Aged(b).age + g /\ (Aged(b).age + g) * r \in Nat
      BY <3>1, <1>1, Products
    <3> HIDE DEF r, g
    <3> QED BY <3>1, <3>2, <1>1
  <2> QED BY <2>1, <2>2, <2>3
<1> QED BY <1>1, <1>4, AgedFacts DEF Owed

\* A hint that has run out is kept.
LEMMA NothingOwed ==
    ASSUME NEW b, Sound(b), Owed(b, 0)
    PROVE  HasToken(Refilled(b))
<1> DEFINE l == b.limit
<1>1. /\ l \in Limits /\ l.requests \in Nat /\ l.window \in Nat /\ b.credit \in Nat
      /\ b.age \in Nat /\ l.requests > 0
  BY LimitTypes, LimiterAssumption DEF Sound, Bucket, Owed
<1>2. b.age * l.requests \in Nat /\ l.requests * l.window >= l.window
  BY <1>1, Products
<1>3. b.credit + b.age * l.requests >= l.window
  BY <1>1 DEF Owed
<1>4. Refilled(b).credit >= l.window /\ Refilled(b).limit = l
  BY <1>2, <1>3, RefillFacts DEF Full
<1> QED BY <1>1, <1>4 DEF HasToken

LEMMA HintStep == BucketInv /\ HintInv /\ [LimiterNext]_limiterVars => HintInv'
<1> SUFFICES ASSUME BucketInv, HintInv, [LimiterNext]_limiterVars
             PROVE  HintInv'
    OBVIOUS
<1> USE LimiterAssumption
<1>1. ASSUME NEW k \in Key, Check(k)
      PROVE  HintInv'
  <2>1. PICK b \in Bucket :
              /\ Sound(b) /\ b.age = 0 /\ b.limit = Entry(k).limit
              /\ bucket' = [bucket EXCEPT ![k] = b]
              /\ \/ hint' = [hint EXCEPT ![k] = None]
                 \/ /\ ~HasToken(Entry(k))
                    /\ b.credit = Entry(k).credit
                    /\ hint' = [hint EXCEPT ![k] = RetryAfter(Entry(k))]
    BY <1>1, CheckFacts
  <2>2. UNCHANGED slept
    BY <1>1 DEF Check
  <2>3. CASE hint' = [hint EXCEPT ![k] = None]
    BY <2>1, <2>2, <2>3 DEF HintInv, BucketInv
  <2>4. CASE /\ ~HasToken(Entry(k)) /\ b.credit = Entry(k).credit
             /\ hint' = [hint EXCEPT ![k] = RetryAfter(Entry(k))]
    <3>1. RetryAfter(Entry(k)) = RetryAfter(b) /\ ~HasToken(b)
      BY <2>1, <2>4 DEF RetryAfter, HasToken
    <3>2. CASE b.limit.requests = 0
      <4>1. RetryAfter(b) = None
        BY <3>2 DEF RetryAfter
      <4> QED BY <2>1, <2>2, <2>4, <3>1, <4>1 DEF HintInv, BucketInv
    <3>3. CASE b.limit.requests # 0
      <4>1. RetryAfter(b) \in Nat /\ Owed(b, RetryAfter(b))
        BY <2>1, <3>1, <3>3, RefusalOwes
      <4> QED BY <2>1, <2>2, <2>4, <3>1, <4>1 DEF HintInv, BucketInv
    <3> QED BY <3>2, <3>3
  <2> QED BY <2>1, <2>3, <2>4
<1>2. ASSUME NEW r \in Route, Reload(r)
      PROVE  HintInv'
  BY <1>2 DEF Reload, HintInv
<1>3. CASE Cleanup
  <2>1. ASSUME NEW k \in Key, bucket'[k] # None
        PROVE  bucket'[k] = bucket[k]
    BY <1>3, <2>1 DEF Cleanup
  <2>2. hint' = hint /\ slept' = 0
    BY <1>3 DEF Cleanup
  <2>3. slept' \in 0..CleanupPeriod
    BY <2>2
  <2> QED BY <2>1, <2>2, <2>3 DEF HintInv
<1>4. CASE SecondPasses
  <2>1. /\ bucket' = [k \in Key |-> IF bucket[k] = None THEN None ELSE Aged(bucket[k])]
        /\ hint' = [k \in Key |-> IF hint[k] \in {None, 0} THEN hint[k] ELSE hint[k] - 1]
    BY <1>4 DEF SecondPasses, Aged
  <2>2. slept' \in 0..CleanupPeriod
    BY <1>4 DEF SecondPasses, HintInv
  <2>3. ASSUME NEW k \in Key
        PROVE  /\ hint'[k] \in Nat \cup {None}
               /\ bucket'[k] # None /\ hint'[k] # None => Owed(bucket'[k], hint'[k])
    <3>1. hint'[k] = IF hint[k] \in {None, 0} THEN hint[k] ELSE hint[k] - 1
      BY <2>1
    <3>2. hint'[k] \in Nat \cup {None}
      BY <3>1 DEF HintInv
    <3>3. ASSUME bucket'[k] # None, hint'[k] # None
          PROVE  Owed(bucket'[k], hint'[k])
      <4>1. bucket[k] # None /\ bucket'[k] = Aged(bucket[k])
        BY <2>1, <3>3
      <4>2. hint[k] \in Nat /\ hint'[k] = IF hint[k] = 0 THEN 0 ELSE hint[k] - 1
        BY <3>1, <3>3 DEF HintInv
      <4>3. Sound(bucket[k]) /\ Owed(bucket[k], hint[k])
        BY <4>1, <4>2 DEF HintInv, BucketInv
      <4> QED BY <4>1, <4>2, <4>3, TickOwes
    <3> QED BY <3>2, <3>3
  <2>4. hint' \in [Key -> Nat \cup {None}]
    BY <2>1, <2>3
  <2> QED BY <2>2, <2>3, <2>4 DEF HintInv
<1>5. CASE UNCHANGED limiterVars
  BY <1>5 DEF limiterVars, HintInv
<1> QED BY <1>1, <1>2, <1>3, <1>4, <1>5 DEF LimiterNext

THEOREM HintInvariant == LimiterSpec => []HintInv
<1>1. LimiterInit => HintInv
  BY LimiterAssumption DEF LimiterInit, HintInv
<1>2. []BucketInv /\ [][LimiterNext]_limiterVars /\ HintInv => []HintInv
  BY HintStep, PTL
<1> QED BY <1>1, <1>2, BucketInvariant, PTL DEF LimiterSpec

\* Every reachable state is well typed and no bucket is above its capacity.
THEOREM TypeCorrect == LimiterSpec => []LimiterTypeOK
<1>1. BucketInv /\ HintInv => LimiterTypeOK
  BY DEF BucketInv, HintInv, LimiterTypeOK, Sound
<1> QED BY <1>1, BucketInvariant, HintInvariant, PTL

\* A client that waits as long as its 429 told it to finds a token.
THEOREM RetryAfterIsKept == LimiterSpec => []RetryAfterIsHonest
<1>1. BucketInv /\ HintInv => RetryAfterIsHonest
  <2> SUFFICES ASSUME BucketInv, HintInv, NEW k \in Key, hint[k] = 0, bucket[k] # None
               PROVE  HasToken(Refilled(bucket[k]))
    BY DEF RetryAfterIsHonest
  <2>1. Sound(bucket[k]) /\ Owed(bucket[k], 0)
    BY LimiterAssumption DEF BucketInv, HintInv
  <2> QED BY <2>1, NothingOwed
<1> QED BY <1>1, BucketInvariant, HintInvariant, PTL

----------------------------------------------------------------------------
\* What the contract sees of a bucket.
Idle(b) == IF b.age < MaxAge THEN b.age ELSE MaxAge
Seen(b) == IF b = None THEN None
           ELSE [credit |-> Refilled(b).credit, limit |-> b.limit, idle |-> Idle(b)]

LEMMA LevelOfOne ==
    ASSUME NEW k \in Key, BucketInv, NEW b \in Bucket, bucket' = [bucket EXCEPT ![k] = b]
    PROVE  level' = [level EXCEPT ![k] = Seen(b)]
BY DEF level, Seen, Idle, BucketInv

\* A bucket that has just been used is seen as it is.
LEMMA SeenFresh ==
    ASSUME NEW b, Sound(b), b.age = 0
    PROVE  /\ Seen(b) = [credit |-> b.credit, limit |-> b.limit, idle |-> 0]
           /\ Refilled(b).credit = b.credit
<1>1. b # None /\ b.credit \in Nat /\ b.limit \in Limits /\ b.limit.requests \in Nat
  BY NoneIsNoBucket, LimitTypes DEF Sound, Bucket
<1>2. b.age * b.limit.requests = 0 /\ Full(b.limit) \in Nat
  BY <1>1, Products, LimitTypes
<1>3. Refilled(b).credit = b.credit
  BY <1>1, <1>2, RefillFacts DEF Sound
<1>4. Idle(b) = 0
  BY LimiterAssumption DEF Idle
<1> QED BY <1>1, <1>3, <1>4 DEF Seen

\* What the contract sees is never taken for no bucket.
LEMMA SeenIsSome ==
    ASSUME NEW b, Sound(b)
    PROVE  Seen(b) # None /\ b # None
<1>1. b # None /\ Refilled(b).credit \in Nat /\ b.limit \in Limits /\ Idle(b) \in Nat
  BY RefillFacts, NoneIsNoBucket, LimiterAssumption DEF Sound, Bucket, Idle
<1> QED BY <1>1, LimiterAssumption DEF Seen

\* The bucket a check works on is the one the contract charges.
LEMMA ChargedEntry ==
    ASSUME BucketInv, NEW k \in Key
    PROVE  Ideal!Charged(k)
             = [credit |-> Entry(k).credit, limit |-> Entry(k).limit, idle |-> 0]
<1>1. CASE bucket[k] = None
  <2>1. limit[k[1]] \in Limits /\ current[k] = limit[k[1]]
    BY DEF BucketInv, Key, current
  <2>2. Entry(k).credit = Full(limit[k[1]]) /\ Entry(k).limit = limit[k[1]]
    BY <1>1, <2>1, NewBucketFacts DEF Entry
  <2>3. level[k] = None
    BY <1>1 DEF level
  <2> QED BY <2>1, <2>2, <2>3 DEF Ideal!Charged, Ideal!Full, Full
<1>2. CASE bucket[k] # None
  <2>1. Sound(bucket[k]) /\ Entry(k) = Refilled(bucket[k]) /\ Entry(k).limit = bucket[k].limit
    BY <1>2, RefillFacts DEF Entry, BucketInv
  <2>2. level[k] = Seen(bucket[k])
    BY DEF level, Seen, Idle
  <2>3. level[k] # None /\ level[k] = [credit |-> Entry(k).credit, limit |-> Entry(k).limit,
                                       idle |-> Idle(bucket[k])]
    BY <1>2, <2>1, <2>2, SeenIsSome DEF Seen
  <2> QED BY <2>3 DEF Ideal!Charged
<1> QED BY <1>1, <1>2

\* One tick at a time is refilled as much as all of them at once.
LEMMA AgedRefill ==
    ASSUME NEW b, Sound(b)
    PROVE  Refilled(Aged(b)).credit
             = Ideal!Filled(Refilled(b).credit + b.limit.requests, b.limit)
<1> DEFINE r == b.limit.requests
           F == Full(b.limit)
<1>1. /\ b.limit \in Limits /\ r \in Nat /\ b.limit.window \in Nat /\ F \in Nat
      /\ b.credit \in Nat /\ b.age \in Nat /\ b.age <= AgeBound
      /\ b.limit.window <= AgeBound /\ AgeBound \in Nat
  BY LimitTypes, LimiterAssumption DEF Sound, Bucket
<1>2. Refilled(b).credit = IF b.credit + b.age * r < F THEN b.credit + b.age * r ELSE F
  BY RefillFacts
<1>3. /\ Sound(Aged(b)) /\ Aged(b).limit = b.limit /\ Aged(b).credit = b.credit
      /\ Aged(b).age = IF b.age < AgeBound THEN b.age + 1 ELSE AgeBound
  BY AgedFacts
<1>4. Refilled(Aged(b)).credit =
        IF b.credit + Aged(b).age * r < F THEN b.credit + Aged(b).age * r ELSE F
  BY <1>3, RefillFacts
<1>5. Ideal!Filled(Refilled(b).credit + r, b.limit) =
        IF Refilled(b).credit + r < F THEN Refilled(b).credit + r ELSE F
  BY DEF Ideal!Filled, Ideal!Full, Full
<1>6. b.age * r \in Nat
  BY <1>1, Products
<1>7. CASE b.age < AgeBound
  <2>1. Aged(b).age * r = b.age * r + r
    BY <1>1, <1>3, <1>7, Products
  <2>2. Refilled(Aged(b)).credit =
          IF Refilled(b).credit + r < F THEN Refilled(b).credit + r ELSE F
    <3> HIDE DEF r, F
    <3> QED BY <1>1, <1>2, <1>4, <1>6, <2>1
  <2> QED BY <1>5, <2>2
<1>8. CASE ~(b.age < AgeBound)
  <2>1. b.age = AgeBound /\ Aged(b).age = AgeBound
    BY <1>1, <1>3, <1>8
  <2>2. AgeBound * r >= F
    BY <1>1, Products DEF Full
  <2>3. b.credit + b.age * r >= F
    <3> HIDE DEF r, F
    <3> QED BY <1>1, <1>6, <2>1, <2>2
  <2>4. Refilled(Aged(b)).credit =
          IF Refilled(b).credit + r < F THEN Refilled(b).credit + r ELSE F
    <3> HIDE DEF r, F
    <3> QED BY <1>1, <1>2, <1>4, <1>6, <2>1, <2>3
  <2> QED BY <1>5, <2>4
<1> QED BY <1>7, <1>8

\* What an eviction gives away.
Gift(l) == l.requests * Excess(l)

LEMMA GiftType ==
    ASSUME NEW l \in Limits
    PROVE  Excess(l) \in Nat /\ Gift(l) \in Nat
<1>1. Excess(l) \in Nat /\ l.requests \in Nat
  BY LimitTypes, LimiterAssumption DEF Excess
<1> QED BY <1>1, Products DEF Gift

\* What cleanup evicts lacks no more than the gift: where the window is not longer
\* than max_age it would be refilled to its capacity.
LEMMA EvictedIsNearlyFull ==
    ASSUME NEW b, Sound(b), b.age >= MaxAge
    PROVE  /\ Full(b.limit) <= Refilled(b).credit + Gift(b.limit)
           /\ b.limit.window <= MaxAge => Refilled(b).credit = Full(b.limit)
<1> DEFINE r == b.limit.requests
           w == b.limit.window
           c == b.credit
           f == Full(b.limit)
           g == Gift(b.limit)
           p == b.age * r
<1>1. /\ b.limit \in Limits /\ c \in Nat /\ b.age \in Nat /\ MaxAge \in Nat
      /\ r \in Nat /\ w \in Nat /\ f \in Nat /\ p \in Nat /\ c <= f
  BY LimitTypes, LimiterAssumption, Products DEF Sound, Bucket
<1>2. Refilled(b).credit = IF c + p < f THEN c + p ELSE f
  BY RefillFacts
<1>3. CASE w <= MaxAge
  <2>1. p >= f
    <3>1. b.age >= w
      BY <1>1, <1>3
    <3> QED BY <1>1, <3>1, Products DEF Full
  <2>2. g \in Nat
    BY <1>1, GiftType
  <2>3. Refilled(b).credit = f /\ f <= f + g
    <3> HIDE DEF w, c, f, g, p
    <3> QED BY <1>1, <1>2, <2>1, <2>2
  <2> QED BY <2>3
<1>4. CASE ~(w <= MaxAge)
  <2> DEFINE d == w - MaxAge
             m == MaxAge * r
  <2>1. d \in Nat /\ w = MaxAge + d /\ g = r * d
    BY <1>1, <1>4 DEF Gift, Excess
  <2>2. m \in Nat /\ p >= m
    <3>1. p >= r * MaxAge
      BY <1>1, Products
    <3>2. r * MaxAge = MaxAge * r
      BY <1>1
    <3> QED BY <1>1, <3>1, <3>2, Products
  <2>3. f = m + r * d /\ r * d \in Nat
    <3>1. f = r * w
      BY DEF Full
    <3> HIDE DEF f, w, d, r, g
    <3>2. r * (MaxAge + d) = MaxAge * r + r * d /\ r * d \in Nat
      BY <1>1, <2>1
    <3> QED BY <2>1, <3>1, <3>2
  <2>4. f <= Refilled(b).credit + g
    <3> HIDE DEF w, c, f, g, p, m, d, r
    <3> QED BY <1>1, <1>2, <2>1, <2>2, <2>3
  <2> QED BY <1>4, <2>4
<1> QED BY <1>3, <1>4

\* What cleanup evicts the contract may forget.
LEMMA EvictedIsForgettable ==
    ASSUME NEW b, Sound(b), b.age >= MaxAge
    PROVE  Ideal!Forgettable(Seen(b))
<1>1. /\ Seen(b) = [credit |-> Refilled(b).credit, limit |-> b.limit, idle |-> Idle(b)]
      /\ Idle(b) = MaxAge
  BY SeenIsSome, LimiterAssumption DEF Seen, Idle, Sound, Bucket
<1>2. b.limit.window \in Nat /\ MaxAge \in Nat
  BY LimitTypes, LimiterAssumption DEF Sound, Bucket
<1>3. b.limit.window <= MaxAge => Refilled(b).credit = Full(b.limit)
  BY EvictedIsNearlyFull
<1> QED BY <1>1, <1>2, <1>3 DEF Ideal!Forgettable, Ideal!Full, Full

\* Every step is one of the ideal buckets, or none.
LEMMA ContractStep ==
    ASSUME BucketInv, [LimiterNext]_limiterVars
    PROVE  [Ideal!Next]_<<current, level>>
<1> USE LimiterAssumption
<1>1. ASSUME NEW k \in Key, Check(k)
      PROVE  Ideal!Next
  <2> DEFINE e == [credit |-> Entry(k).credit, limit |-> Entry(k).limit, idle |-> 0]
  <2>1. PICK b \in Bucket :
              /\ Sound(b) /\ b.age = 0 /\ b.limit = Entry(k).limit
              /\ bucket' = [bucket EXCEPT ![k] = b]
              /\ \/ HasToken(Entry(k)) /\ b.credit = Entry(k).credit - Entry(k).limit.window
                 \/ ~HasToken(Entry(k)) /\ b.credit = Entry(k).credit
    BY <1>1, CheckFacts
  <2>2. level' = [level EXCEPT ![k] = [credit |-> b.credit, limit |-> b.limit, idle |-> 0]]
    <3>1. level' = [level EXCEPT ![k] = Seen(b)]
      BY <2>1, LevelOfOne
    <3>2. Seen(b) = [credit |-> b.credit, limit |-> b.limit, idle |-> 0]
      BY <2>1, SeenFresh
    <3> QED BY <3>1, <3>2
  <2>3. Ideal!Charged(k) = e
    BY ChargedEntry
  <2>4. UNCHANGED current
    BY <1>1 DEF Check, current
  <2>5. CASE HasToken(Entry(k))
    <3>1. [e EXCEPT !.credit = @ - e.limit.window]
            = [credit |-> b.credit, limit |-> b.limit, idle |-> 0]
      BY <2>1, <2>5
    <3>2. Ideal!HasToken(e)
      BY <2>5 DEF HasToken, Ideal!HasToken
    <3>3. level' = [level EXCEPT ![k] = [e EXCEPT !.credit = @ - e.limit.window]]
      BY <2>2, <3>1
    <3> HIDE DEF e
    <3>4. Ideal!Allow(k)
      BY <2>3, <2>4, <3>2, <3>3 DEF Ideal!Allow
    <3> QED BY <3>4 DEF Ideal!Next
  <2>6. CASE ~HasToken(Entry(k))
    <3>1. e = [credit |-> b.credit, limit |-> b.limit, idle |-> 0]
      BY <2>1, <2>6
    <3>2. ~Ideal!HasToken(e)
      BY <2>6 DEF HasToken, Ideal!HasToken
    <3>3. level' = [level EXCEPT ![k] = e]
      BY <2>2, <3>1
    <3> HIDE DEF e
    <3>4. Ideal!Refuse(k)
      BY <2>3, <2>4, <3>2, <3>3 DEF Ideal!Refuse
    <3> QED BY <3>4 DEF Ideal!Next
  <2> QED BY <2>5, <2>6
<1>2. ASSUME NEW r \in Route, Reload(r)
      PROVE  Ideal!Next
  <2>1. UNCHANGED level /\ limit' \in [Route -> Limits]
    BY <1>2 DEF Reload, level, BucketInv
  <2>2. current' \in [Key -> Limits]
    BY <2>1 DEF current, Key
  <2> QED BY <2>1, <2>2 DEF Ideal!SetLimits, Ideal!Next
<1>3. CASE Cleanup
  <2> DEFINE ks == {k \in Key : bucket[k] # None /\ bucket[k].age >= MaxAge}
  <2>1. level' = [k \in Key |-> IF k \in ks THEN None ELSE level[k]]
    BY <1>3 DEF Cleanup, level
  <2>2. ASSUME NEW k \in ks
        PROVE  level[k] # None /\ Ideal!Forgettable(level[k])
    <3>1. k \in Key /\ Sound(bucket[k]) /\ bucket[k].age >= MaxAge
      BY <2>2 DEF BucketInv
    <3>2. level[k] = Seen(bucket[k])
      BY <3>1 DEF level, Seen, Idle
    <3> QED BY <3>1, <3>2, SeenIsSome, EvictedIsForgettable
  <2>3. ks \in SUBSET {k \in Key : level[k] # None /\ Ideal!Forgettable(level[k])}
    BY <2>2
  <2>4. UNCHANGED current
    BY <1>3 DEF Cleanup, current
  <2> HIDE DEF ks
  <2>5. Ideal!Forget
    BY <2>1, <2>3, <2>4 DEF Ideal!Forget
  <2> QED BY <2>5 DEF Ideal!Next
<1>4. CASE SecondPasses
  <2>1. /\ bucket' = [k \in Key |-> IF bucket[k] = None THEN None ELSE Aged(bucket[k])]
        /\ UNCHANGED current
    BY <1>4 DEF SecondPasses, Aged, current
  <2>2. ASSUME NEW k \in Key
        PROVE  level'[k] = IF level[k] = None THEN None
                           ELSE [credit |-> Ideal!Filled(level[k].credit
                                                           + level[k].limit.requests,
                                                         level[k].limit),
                                 limit |-> level[k].limit,
                                 idle |-> IF level[k].idle < MaxAge THEN level[k].idle + 1
                                          ELSE MaxAge]
    <3>1. CASE bucket[k] = None
      BY <2>1, <3>1 DEF level
    <3>2. CASE bucket[k] # None
      <4> DEFINE b == bucket[k]
      <4>1. Sound(b) /\ Sound(Aged(b)) /\ Aged(b).limit = b.limit /\ Aged(b) # None
        BY <3>2, AgedFacts, SeenIsSome DEF BucketInv
      <4>2. level'[k] = [credit |-> Refilled(Aged(b)).credit, limit |-> b.limit,
                         idle |-> Idle(Aged(b))]
        BY <2>1, <3>2, <4>1 DEF level, Idle
      <4>3. level[k] = [credit |-> Refilled(b).credit, limit |-> b.limit, idle |-> Idle(b)]
        BY <3>2 DEF level, Idle
      <4>4. level[k] # None
        BY <4>1, <4>3, SeenIsSome DEF Seen
      <4>5. Refilled(Aged(b)).credit
              = Ideal!Filled(Refilled(b).credit + b.limit.requests, b.limit)
        BY <4>1, AgedRefill
      <4>6. Idle(Aged(b)) = IF Idle(b) < MaxAge THEN Idle(b) + 1 ELSE MaxAge
        <5>1. /\ Aged(b).age = IF b.age < AgeBound THEN b.age + 1 ELSE AgeBound
              /\ b.age \in 0..AgeBound
          BY <4>1, AgedFacts DEF Sound, Bucket
        <5> HIDE DEF b
        <5> QED BY <5>1 DEF Idle
      <4> DEFINE c == Refilled(b).credit
                 i == Idle(b)
                 l == b.limit
      <4>7. level[k] = [credit |-> c, limit |-> l, idle |-> i]
        BY <4>3
      <4>8. level'[k] = [credit |-> Ideal!Filled(c + l.requests, l), limit |-> l,
                         idle |-> IF i < MaxAge THEN i + 1 ELSE MaxAge]
        BY <4>2, <4>5, <4>6
      <4>9. level[k].credit = c /\ level[k].limit = l /\ level[k].idle = i
        <5> HIDE DEF c, i, l
        <5> QED BY <4>7
      <4> HIDE DEF b, c, i, l
      <4> QED BY <4>4, <4>8, <4>9
    <3> QED BY <3>1, <3>2
  <2>3. Ideal!Elapse
    BY <2>1, <2>2 DEF Ideal!Elapse, level
  <2> QED BY <2>3 DEF Ideal!Next
<1>5. CASE UNCHANGED limiterVars
  BY <1>5 DEF limiterVars, level, current
<1> QED BY <1>1, <1>2, <1>3, <1>4, <1>5 DEF LimiterNext

\* Lazily refilled and evicted buckets implement the ideal ones, for any limits,
\* max_age and cleanup period (rate_limiter.rs 28-56, 86-122).
THEOREM LimiterImplementsTokenBucket == LimiterSpec => ImplementsTokenBucket
<1>1. LimiterInit => Ideal!Init
  <2> SUFFICES ASSUME LimiterInit PROVE Ideal!Init
    OBVIOUS
  <2>1. limit \in [Route -> Limits] /\ bucket = [k \in Key |-> None]
    BY DEF LimiterInit
  <2>2. current \in [Key -> Limits]
    BY <2>1 DEF current, Key
  <2>3. level = [k \in Key |-> None]
    BY <2>1 DEF level
  <2> QED BY <2>2, <2>3 DEF Ideal!Init
<1>2. BucketInv /\ [LimiterNext]_limiterVars => [Ideal!Next]_(Ideal!bucketVars)
  BY ContractStep DEF Ideal!bucketVars
<1> QED BY <1>1, <1>2, BucketInvariant, PTL DEF LimiterSpec, ImplementsTokenBucket, Ideal!Spec
----------------------------------------------------------------------------
\* What is left to the watched client under limit l, and how long it has been silent.
Left(l) == IF bucket[Watched] = None THEN Full(l) ELSE Refilled(bucket[Watched]).credit
Silence == IF bucket[Watched] = None THEN 0 ELSE bucket[Watched].age

\* A stretch w: what was allowed and what is left came with the bucket, with time or
\* with an eviction, and each eviction took its time.
Paid(w) ==
    /\ w \in Stretch
    /\ bucket[Watched] # None => bucket[Watched].limit = w.limit
    /\ w.allowed * w.limit.window + Left(w.limit)
         <= Full(w.limit) + w.ticks * w.limit.requests + w.forgotten * Gift(w.limit)
    /\ w.forgotten * MaxAge + Silence <= w.ticks

WindowInv == watch # None => Paid(watch)

\* What is left is a number, and so is the silence.
LEMMA LeftType ==
    ASSUME BucketInv, NEW l \in Limits
    PROVE  Left(l) \in Nat /\ Silence \in Nat
<1>1. Watched \in Key /\ Full(l) \in Nat
  BY WindowAssumption, LimitTypes
<1>2. ASSUME bucket[Watched] # None
      PROVE  Refilled(bucket[Watched]).credit \in Nat /\ bucket[Watched].age \in Nat
  BY <1>1, <1>2, RefillFacts, LimiterAssumption DEF BucketInv, Sound, Bucket
<1> QED BY <1>1, <1>2 DEF Left, Silence

\* A check works on what is left, and takes what it grants.
LEMMA CheckTakes ==
    ASSUME BucketInv, Check(Watched), NEW l \in Limits, l = Entry(Watched).limit
    PROVE  /\ Left(l) \in Nat /\ Left(l)' \in Nat
           /\ Left(l) <= Full(l)
           /\ Granted \in {0, 1}
           /\ bucket'[Watched] # None /\ bucket'[Watched].limit = l
           /\ Left(l)' + Granted * l.window = Left(l)
           /\ Silence' = 0
<1> DEFINE e == Entry(Watched)
<1>0. Watched \in Key
  BY WindowAssumption
<1>1. Sound(e) /\ e.credit \in Nat /\ l.window \in Nat /\ e.limit = l
  BY <1>0, EntryFacts, LimitTypes DEF Sound, Bucket
<1>2. PICK b \in Bucket :
              /\ Sound(b) /\ b.age = 0 /\ b.limit = l
              /\ bucket' = [bucket EXCEPT ![Watched] = b]
              /\ \/ HasToken(e) /\ b.credit = e.credit - l.window
                 \/ ~HasToken(e) /\ b.credit = e.credit
  BY <1>0, CheckFacts
<1>3. bucket'[Watched] = b /\ b # None
  BY <1>0, <1>2, NoneIsNoBucket DEF BucketInv
<1>4. Refilled(b).credit = b.credit /\ Silence' = 0
  BY <1>2, <1>3, SeenFresh DEF Silence
<1>5. Left(l)' = b.credit
  <2>1. Left(l)' = Refilled(b).credit
    BY <1>3 DEF Left
  <2> QED BY <1>4, <2>1
<1>6. e.credit = Left(l)
  <2>1. CASE bucket[Watched] = None
    <3>1. limit[Watched[1]] \in Limits
      BY <1>0 DEF BucketInv, Key
    <3> QED BY <2>1, <3>1, NewBucketFacts DEF Entry, Left
  <2>2. CASE bucket[Watched] # None
    BY <2>2 DEF Entry, Left
  <2> QED BY <2>1, <2>2
<1>7. Granted \in {0, 1} /\ Left(l)' + Granted * l.window = e.credit
  <2>1. CASE HasToken(e)
    <3>1. Granted = 1 /\ b.credit = e.credit - l.window
      BY <1>2, <2>1 DEF Granted
    <3> HIDE DEF e
    <3> QED BY <1>1, <1>5, <3>1
  <2>2. CASE ~HasToken(e)
    <3>1. Granted = 0 /\ b.credit = e.credit
      BY <1>2, <2>2 DEF Granted
    <3> HIDE DEF e
    <3> QED BY <1>1, <1>5, <3>1
  <2> QED BY <2>1, <2>2
<1> QED BY <1>1, <1>2, <1>3, <1>4, <1>5, <1>6, <1>7 DEF Sound, Bucket

\* A second brings what the limit says, at most.
LEMMA TickBrings ==
    ASSUME BucketInv, SecondPasses, NEW l \in Limits,
           bucket[Watched] # None => bucket[Watched].limit = l
    PROVE  /\ Left(l)' \in Nat /\ Left(l)' <= Left(l) + l.requests
           /\ bucket'[Watched] # None => bucket'[Watched].limit = l
           /\ Silence' \in Nat /\ Silence' <= Silence + 1
<1> DEFINE b == bucket[Watched]
<1>0. Watched \in Key
  BY WindowAssumption
<1>1. bucket'[Watched] = IF b = None THEN None ELSE Aged(b)
  BY <1>0 DEF SecondPasses, Aged
<1>2. l.requests \in Nat /\ Full(l) \in Nat /\ Left(l) \in Nat
  BY LimitTypes, LeftType
<1>3. CASE b = None
  <2>1. Left(l)' = Full(l) /\ Left(l) = Full(l) /\ Silence' = 0 /\ Silence = 0
    BY <1>1, <1>3 DEF Left, Silence
  <2> QED BY <1>1, <1>2, <1>3, <2>1
<1>4. CASE b # None
  <2>1. Sound(b) /\ Aged(b).limit = l /\ Aged(b) # None
    BY <1>0, <1>4, AgedFacts, NoneIsNoBucket DEF BucketInv, Sound
  <2>2. Left(l)' = Refilled(Aged(b)).credit /\ Left(l) = Refilled(b).credit
    BY <1>1, <1>4, <2>1 DEF Left
  <2>3. Refilled(Aged(b)).credit = Ideal!Filled(Refilled(b).credit + l.requests, l)
    BY <1>4, <2>1, AgedRefill
  <2>4. Left(l)' = IF Left(l) + l.requests < Full(l) THEN Left(l) + l.requests ELSE Full(l)
    BY <2>2, <2>3 DEF Ideal!Filled, Ideal!Full, Full
  <2>5. Left(l)' \in Nat /\ Left(l)' <= Left(l) + l.requests
    BY <1>2, <2>4
  <2>6. /\ Silence' = IF Silence < AgeBound THEN Silence + 1 ELSE AgeBound
        /\ Silence \in 0..AgeBound /\ AgeBound \in Nat
    BY <1>1, <1>4, <2>1, AgedFacts, LimiterAssumption DEF Silence, Sound, Bucket
  <2>7. Silence' \in Nat /\ Silence' <= Silence + 1
    BY <2>6
  <2> QED BY <1>1, <1>4, <2>1, <2>5, <2>7
<1> QED BY <1>3, <1>4

\* Another's check and a reload leave the watched client what it had.
LEMMA OthersTakeNothing ==
    ASSUME BucketInv, Unwatched
    PROVE  bucket'[Watched] = bucket[Watched]
<1>1. Watched \in Key
  BY WindowAssumption
<1>2. ASSUME NEW k \in Key \ {Watched}, Check(k) PROVE bucket'[Watched] = bucket[Watched]
  <2>1. PICK c \in Bucket : bucket' = [bucket EXCEPT ![k] = c]
    BY <1>2, CheckFacts
  <2> QED BY <1>1, <2>1 DEF BucketInv
<1>3. ASSUME NEW r \in Route, Reload(r) PROVE bucket'[Watched] = bucket[Watched]
  BY <1>3 DEF Reload
<1> QED BY <1>2, <1>3 DEF Unwatched

\* A cleanup leaves the watched bucket alone or forgets it: after max_age of silence,
\* and for no more than the gift.
LEMMA CleanupGives ==
    ASSUME BucketInv, Cleanup, NEW l \in Limits,
           bucket[Watched] # None => bucket[Watched].limit = l
    PROVE  \/ bucket'[Watched] = bucket[Watched]
           \/ /\ bucket[Watched] # None /\ bucket'[Watched] = None
              /\ Left(l)' \in Nat /\ Left(l)' <= Left(l) + Gift(l)
              /\ Silence >= MaxAge /\ Silence' = 0
<1> DEFINE b == bucket[Watched]
<1>0. Watched \in Key
  BY WindowAssumption
<1>1. \/ bucket'[Watched] = b
      \/ b # None /\ b.age >= MaxAge /\ bucket'[Watched] = None
  BY <1>0 DEF Cleanup
<1>2. ASSUME b # None, b.age >= MaxAge, bucket'[Watched] = None
      PROVE  /\ Left(l)' \in Nat /\ Left(l)' <= Left(l) + Gift(l)
             /\ Silence >= MaxAge /\ Silence' = 0
  <2>1. Full(l) <= Refilled(b).credit + Gift(l)
    BY <1>0, <1>2, EvictedIsNearlyFull DEF BucketInv
  <2>2. Left(l)' = Full(l) /\ Left(l) = Refilled(b).credit
    BY <1>2 DEF Left
  <2>3. Silence = b.age /\ Silence' = 0
    BY <1>2 DEF Silence
  <2> QED BY <1>2, <2>1, <2>2, <2>3, LimitTypes
<1> QED BY <1>1, <1>2

\* What a request, a second and an eviction do to the two sides of the account.
LEMMA Accounts ==
    ASSUME NEW a \in Nat, NEW t \in Nat, NEW w \in Nat, NEW r \in Nat, NEW g \in {0, 1}
    PROVE  /\ a * w \in Nat /\ t * r \in Nat /\ g * w \in Nat
           /\ (a + g) * w = a * w + g * w
           /\ (t + 1) * r = t * r + r
           /\ 0 * r = 0
<1>1. a * w \in Nat /\ t * r \in Nat /\ (t + 1) * r = t * r + r /\ 0 * r = 0
  BY Products
<1>2. CASE g = 0
  BY <1>1, <1>2, Products
<1>3. CASE g = 1
  <2>1. (a + 1) * w = a * w + w /\ 1 * w = w
    BY Products
  <2> QED BY <1>1, <1>3, <2>1
<1> QED BY <1>1, <1>2, <1>3

\* The account of a stretch in numbers: what was allowed costs p, what is left is x,
\* time has brought e and evictions y; s is the time evictions took.
Balanced(p, x, f, e, y, s, silence, t) ==
    /\ p + x <= f + e + y
    /\ s + silence <= t

\* What Paid says, under the names the steps use.
LEMMA PaidBalances ==
    ASSUME BucketInv, WindowInv, watch # None, NEW l, l = watch.limit
    PROVE  /\ l \in Limits /\ watch \in Stretch
           /\ watch.allowed \in Nat /\ watch.ticks \in Nat /\ watch.forgotten \in Nat
           /\ l.window \in Nat /\ l.requests \in Nat /\ Full(l) \in Nat /\ Gift(l) \in Nat
           /\ Left(l) \in Nat /\ Silence \in Nat /\ MaxAge \in Nat
           /\ bucket[Watched] # None => bucket[Watched].limit = l
           /\ watch.allowed * l.window \in Nat /\ watch.ticks * l.requests \in Nat
           /\ watch.forgotten * Gift(l) \in Nat /\ watch.forgotten * MaxAge \in Nat
           /\ Balanced(watch.allowed * l.window, Left(l), Full(l), watch.ticks * l.requests,
                       watch.forgotten * Gift(l), watch.forgotten * MaxAge, Silence, watch.ticks)
<1>1. /\ watch \in Stretch /\ l \in Limits
      /\ watch.allowed \in Nat /\ watch.ticks \in Nat /\ watch.forgotten \in Nat
  BY DEF WindowInv, Paid, Stretch
<1>2. /\ l.window \in Nat /\ l.requests \in Nat /\ Full(l) \in Nat /\ Gift(l) \in Nat
      /\ Left(l) \in Nat /\ Silence \in Nat /\ MaxAge \in Nat
  BY <1>1, LimitTypes, GiftType, LeftType, LimiterAssumption
<1>3. /\ watch.allowed * l.window \in Nat /\ watch.ticks * l.requests \in Nat
      /\ watch.forgotten * Gift(l) \in Nat /\ watch.forgotten * MaxAge \in Nat
  BY <1>1, <1>2, Products
<1> QED BY <1>1, <1>2, <1>3 DEF WindowInv, Paid, Balanced

\* A stretch may begin at any check.
LEMMA StretchBegins ==
    ASSUME BucketInv, Check(Watched), NEW l \in Limits, l = Entry(Watched).limit,
           watch' = [limit |-> l, ticks |-> 0, allowed |-> Granted, forgotten |-> 0]
    PROVE  Paid(watch)'
<1> DEFINE after == Left(l)'
           before == Left(l)
           g == Granted * l.window
           f == Full(l)
<1>1. /\ before \in Nat /\ after \in Nat /\ before <= f /\ Granted \in {0, 1}
      /\ bucket'[Watched] # None => bucket'[Watched].limit = l
      /\ after + g = before /\ Silence' = 0
  BY CheckTakes
<1>2. /\ watch' \in Stretch /\ watch'.limit = l /\ watch'.ticks = 0
      /\ watch'.allowed = Granted /\ watch'.forgotten = 0
  BY <1>1 DEF Stretch
<1>3. f \in Nat /\ g \in Nat /\ 0 * l.requests = 0 /\ 0 * Gift(l) = 0 /\ 0 * MaxAge = 0
  <2>1. /\ l.requests \in Nat /\ l.window \in Nat /\ f \in Nat
        /\ Gift(l) \in Nat /\ MaxAge \in Nat
    BY LimitTypes, GiftType, LimiterAssumption
  <2>2. \A n \in Nat : 0 * n = 0
    OBVIOUS
  <2>3. g \in Nat
    BY <1>1, <2>1, Accounts
  <2> QED BY <2>1, <2>2, <2>3
<1>4. g + after <= f + 0 * l.requests + 0 * Gift(l) /\ 0 * MaxAge + Silence' <= 0
  <2> HIDE DEF g, f, before, after
  <2> QED BY <1>1, <1>3
<1> QED BY <1>1, <1>2, <1>4 DEF Paid, Left

\* A check of the watched client takes what it is granted.
LEMMA StretchPays ==
    ASSUME BucketInv, WindowInv, Check(Watched), watch # None,
           watch.limit = Entry(Watched).limit,
           watch' = [watch EXCEPT !.allowed = @ + Granted]
    PROVE  Paid(watch)'
<1>0. PICK l \in Limits : l = watch.limit
  BY DEF WindowInv, Paid, Stretch
<1> DEFINE after == Left(l)'
           before == Left(l)
           a == watch.allowed
           g == Granted * l.window
           f == Full(l)
           p == a * l.window
           q == (a + Granted) * l.window
           e == watch.ticks * l.requests
           y == watch.forgotten * Gift(l)
           s == watch.forgotten * MaxAge
           t == watch.ticks
<1>1. /\ before \in Nat /\ after \in Nat /\ Granted \in {0, 1}
      /\ bucket'[Watched] # None => bucket'[Watched].limit = l
      /\ after + g = before /\ Silence' = 0
  BY <1>0, CheckTakes
<1>2. /\ l.window \in Nat /\ f \in Nat /\ p \in Nat /\ e \in Nat /\ y \in Nat /\ s \in Nat
      /\ a \in Nat /\ t \in Nat /\ watch \in Stretch /\ Silence \in Nat
      /\ Balanced(p, before, f, e, y, s, Silence, t)
  BY <1>0, PaidBalances
<1>3. /\ watch' \in Stretch /\ watch'.limit = l /\ watch'.ticks = t
      /\ watch'.allowed = a + Granted /\ watch'.forgotten = watch.forgotten
  BY <1>0, <1>1, <1>2 DEF Stretch
<1>4. q = p + g /\ g \in Nat
  <2> DEFINE w == l.window
  <2>1. a \in Nat /\ w \in Nat /\ Granted \in {0, 1}
    BY <1>1, <1>2
  <2> HIDE DEF a, w
  <2>2. (a + Granted) * w = a * w + Granted * w /\ Granted * w \in Nat
    BY <2>1, Accounts
  <2> QED BY <2>2 DEF w
<1>5. q + after <= f + e + y /\ s + Silence' <= t
  <2> HIDE DEF g, f, before, after, a, p, q, e, y, s, t
  <2> QED BY <1>1, <1>2, <1>4 DEF Balanced
<1> QED BY <1>1, <1>3, <1>5 DEF Paid, Left

\* A second brings its part and counts.
LEMMA StretchAges ==
    ASSUME BucketInv, WindowInv, SecondPasses, watch # None, watch' = [watch EXCEPT !.ticks = @ + 1]
    PROVE  Paid(watch)'
<1>0. PICK l \in Limits : l = watch.limit
  BY DEF WindowInv, Paid, Stretch
<1> DEFINE after == Left(l)'
           before == Left(l)
           r == l.requests
           f == Full(l)
           p == watch.allowed * l.window
           t == watch.ticks
           e == t * r
           d == (t + 1) * r
           y == watch.forgotten * Gift(l)
           s == watch.forgotten * MaxAge
<1>1. /\ r \in Nat /\ f \in Nat /\ p \in Nat /\ e \in Nat /\ y \in Nat /\ s \in Nat
      /\ t \in Nat /\ watch \in Stretch /\ Silence \in Nat /\ before \in Nat
      /\ bucket[Watched] # None => bucket[Watched].limit = l
      /\ Balanced(p, before, f, e, y, s, Silence, t)
  BY <1>0, PaidBalances
<1>2. /\ after \in Nat /\ after <= before + r
      /\ bucket'[Watched] # None => bucket'[Watched].limit = l
      /\ Silence' \in Nat /\ Silence' <= Silence + 1
  BY <1>1, TickBrings
<1>3. /\ watch' \in Stretch /\ watch'.limit = l /\ watch'.ticks = t + 1
      /\ watch'.allowed = watch.allowed /\ watch'.forgotten = watch.forgotten
  BY <1>0, <1>1 DEF Stretch
<1>4. d = e + r
  BY <1>1, Products
<1>5. p + after <= f + d + y /\ s + Silence' <= t + 1
  <2> HIDE DEF r, f, before, after, p, e, d, y, s, t
  <2> QED BY <1>1, <1>2, <1>4 DEF Balanced
<1> QED BY <1>2, <1>3, <1>5 DEF Paid, Left

\* An eviction costs its silence and brings its gift.
LEMMA StretchForgets ==
    ASSUME BucketInv, WindowInv, Cleanup, watch # None,
           bucket[Watched] # None, bucket'[Watched] = None,
           watch' = [watch EXCEPT !.forgotten = @ + 1]
    PROVE  Paid(watch)'
<1>0. PICK l \in Limits : l = watch.limit
  BY DEF WindowInv, Paid, Stretch
<1> DEFINE after == Left(l)'
           before == Left(l)
           g == Gift(l)
           f == Full(l)
           n == watch.forgotten
           p == watch.allowed * l.window
           t == watch.ticks
           e == t * l.requests
           y == n * g
           z == (n + 1) * g
           s == n * MaxAge
           u == (n + 1) * MaxAge
<1>1. /\ f \in Nat /\ p \in Nat /\ e \in Nat /\ y \in Nat /\ s \in Nat
      /\ t \in Nat /\ n \in Nat /\ g \in Nat /\ MaxAge \in Nat
      /\ watch \in Stretch /\ Silence \in Nat /\ before \in Nat
      /\ bucket[Watched] # None => bucket[Watched].limit = l
      /\ Balanced(p, before, f, e, y, s, Silence, t)
  BY <1>0, PaidBalances
<1>2. after \in Nat /\ after <= before + g /\ Silence >= MaxAge /\ Silence' = 0
  BY <1>1, CleanupGives
<1>3. /\ watch' \in Stretch /\ watch'.limit = l /\ watch'.ticks = t
      /\ watch'.allowed = watch.allowed /\ watch'.forgotten = n + 1
  BY <1>0, <1>1 DEF Stretch
<1>4. z = y + g /\ u = s + MaxAge
  <2> HIDE DEF n, g
  <2> QED BY <1>1, Products
<1>5. p + after <= f + e + z /\ u + Silence' <= t
  <2> HIDE DEF g, f, before, after, p, e, y, z, s, u, t, n
  <2> QED BY <1>1, <1>2, <1>4 DEF Balanced
<1> QED BY <1>3, <1>5 DEF Paid, Left

\* No stretch of time sees more allowed than was in the bucket and came with time
\* and with evictions.
LEMMA WindowStep ==
    ASSUME BucketInv, WindowInv, [WatchNext]_watchVars
    PROVE  WindowInv'
<1> SUFFICES ASSUME watch' # None PROVE Paid(watch)'
  BY DEF WindowInv
<1>1. CASE WatchedCheck
  <2>1. PICK l \in Limits : l = Entry(Watched).limit
    BY WindowAssumption, EntryFacts DEF Sound, Bucket
  <2>2. CASE watch' = [limit |-> l, ticks |-> 0, allowed |-> Granted, forgotten |-> 0]
    BY <1>1, <2>1, <2>2, StretchBegins DEF WatchedCheck
  <2>3. CASE /\ watch # None /\ watch.limit = l
             /\ watch' = [watch EXCEPT !.allowed = @ + Granted]
    BY <1>1, <2>1, <2>3, StretchPays DEF WatchedCheck
  <2> QED BY <1>1, <2>1, <2>2, <2>3 DEF WatchedCheck
<1>2. CASE WatchedTick
  BY <1>2, StretchAges DEF WatchedTick
<1>3. ASSUME watch' = watch, bucket'[Watched] = bucket[Watched] PROVE Paid(watch)'
  BY <1>3 DEF WindowInv, Paid, Left, Silence
<1>4. CASE WatchedCleanup
  <2>1. CASE watch # None /\ bucket[Watched] # None /\ bucket'[Watched] = None
    BY <1>4, <2>1, StretchForgets DEF WatchedCleanup
  <2>2. CASE ~(watch # None /\ bucket[Watched] # None /\ bucket'[Watched] = None)
    <3>1. watch' = watch /\ Cleanup
      BY <1>4, <2>2 DEF WatchedCleanup
    <3>2. bucket'[Watched] = bucket[Watched]
      BY <2>2, <3>1, WindowAssumption DEF Cleanup
    <3> QED BY <1>3, <3>1, <3>2
  <2> QED BY <2>1, <2>2
<1>5. CASE Unwatched
  BY <1>3, <1>5, OthersTakeNothing DEF Unwatched
<1>6. CASE UNCHANGED watchVars
  BY <1>3, <1>6 DEF watchVars, limiterVars
<1> QED BY <1>1, <1>2, <1>4, <1>5, <1>6 DEF WatchNext

\* In t seconds a client gets through at most `requests` times, and once more for
\* each window/requests of them, and an eviction, which takes max_age of silence, adds
\* the refill of what its window exceeds max_age by: for every set of limits, every
\* client, and every stretch under one limit, whatever checks, pauses, evictions and
\* reloads it is made of (rate_limiter.rs 28-122).
THEOREM NobodyExceedsTheLimit == WatchSpec => []WithinTheLimit
<1>1. WatchInit => BucketInv /\ WindowInv
  BY DEF WatchInit, LimiterInit, BucketInv, WindowInv
<1>2. BucketInv /\ WindowInv /\ [WatchNext]_watchVars => BucketInv' /\ WindowInv'
  <2>1. [WatchNext]_watchVars => [LimiterNext]_limiterVars
    BY WindowAssumption
       DEF WatchNext, WatchedCheck, WatchedTick, WatchedCleanup, Unwatched, LimiterNext, watchVars
  <2> QED BY <2>1, BucketStep, WindowStep
<1>3. BucketInv /\ WindowInv => WithinTheLimit
  <2> SUFFICES ASSUME BucketInv, WindowInv, watch # None PROVE WithinTheLimit
    BY DEF WithinTheLimit
  <2>0. PICK l : l = watch.limit
    OBVIOUS
  <2> DEFINE p == watch.allowed * l.window
             r == l.requests
             t == watch.ticks
             n == watch.forgotten
             x == Excess(l)
             e == t * r
             y == n * Gift(l)
             s == n * MaxAge
  <2>1. /\ l \in Limits /\ p \in Nat /\ r \in Nat /\ l.window \in Nat /\ t \in Nat /\ n \in Nat
        /\ e \in Nat /\ y \in Nat /\ s \in Nat /\ Left(l) \in Nat /\ Silence \in Nat
        /\ Balanced(p, Left(l), Full(l), e, y, s, Silence, t)
    BY <2>0, PaidBalances
  <2>2. x \in Nat /\ Gift(l) = r * x
    BY <2>1, GiftType DEF Gift
  <2>3. r * (l.window + t + n * x) = Full(l) + e + y
    <3>1. Full(l) = r * l.window
      BY DEF Full
    <3>2. n * x \in Nat /\ r * (n * x) = n * (r * x)
      <4> HIDE DEF r, n, x
      <4> QED BY <2>1, <2>2
    <3> DEFINE k == n * x
               w == l.window
    <3>3. r * (w + t + k) = r * w + t * r + r * k
      <4>1. k \in Nat /\ w \in Nat /\ t \in Nat /\ r \in Nat
        BY <2>1, <3>2
      <4> HIDE DEF k, w, t, r
      <4> QED BY <4>1
    <3> QED BY <2>2, <3>1, <3>2, <3>3
  <2>4. p <= Full(l) + e + y /\ s <= t
    <3> HIDE DEF p, e, y, s, t
    <3>1. Full(l) \in Nat
      BY <2>1, LimitTypes
    <3> QED BY <2>1, <3>1 DEF Balanced
  <2> QED BY <2>0, <2>3, <2>4 DEF WithinTheLimit
<1> QED BY <1>1, <1>2, <1>3, PTL DEF WatchSpec
=============================================================================
