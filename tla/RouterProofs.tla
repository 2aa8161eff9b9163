---------------------------- MODULE RouterProofs ----------------------------
(***************************************************************************)
(* Proofs about the router: for every configuration, however many routes   *)
(* it lists, every path and every number of upstreams.                     *)
(***************************************************************************)
EXTENDS Router, FiniteSetTheorems, SequenceTheorems, WellFoundedInduction, TLAPS

----------------------------------------------------------------------------
\* Least and greatest numbers.

NatBefore == {pair \in Nat \X Nat : pair[1] < pair[2]}

LEMMA NatBeforeIsWellFounded == IsWellFoundedOn(NatBefore, Nat)
BY NatLessThanWellFounded DEF NatBefore, OpToRel

LEMMA LeastNumber ==
    ASSUME NEW S \in SUBSET Nat, S # {}
    PROVE  Min(S) \in S /\ \A x \in S : Min(S) <= x
<1>1. PICK m \in S : \A x \in S : <<x, m>> \notin NatBefore
  BY NatBeforeIsWellFounded, WFMin
<1>2. \A x \in S : m <= x
  <2> SUFFICES ASSUME NEW x \in S, ~(m <= x) PROVE FALSE
    OBVIOUS
  <2>1. <<x, m>> \in Nat \X Nat /\ x < m
    OBVIOUS
  <2>2. <<x, m>> \in NatBefore
    BY <2>1 DEF NatBefore
  <2> QED BY <1>1, <2>2
<1> QED BY <1>2 DEF Min

LEMMA GreatestNumber ==
    ASSUME NEW S \in SUBSET Nat, S # {}, NEW n \in Nat, \A x \in S : x <= n
    PROVE  Max(S) \in S /\ \A x \in S : Max(S) >= x
<1> DEFINE T == {x \in Nat : n - x \in S}
           m == n - Min(T)
<1>1. T \in SUBSET Nat /\ T # {}
  <2>1. PICK x \in S : TRUE
    OBVIOUS
  <2>2. n - x \in Nat /\ n - (n - x) = x
    OBVIOUS
  <2> QED BY <2>1, <2>2
<1>2. Min(T) \in T /\ \A x \in T : Min(T) <= x
  BY <1>1, LeastNumber
<1>3. m \in S /\ Min(T) \in Nat
  BY <1>2
<1>4. ASSUME NEW x \in S PROVE m >= x
  <2>1. n - x \in Nat /\ n - (n - x) = x
    OBVIOUS
  <2>2. Min(T) <= n - x
    BY <1>2, <2>1
  <2> QED BY <1>3, <2>2
<1> HIDE DEF m
<1> QED BY <1>3, <1>4 DEF Max

----------------------------------------------------------------------------
\* Sorting.

\* The routes that precede a route are a strict order, so the position of a route is
\* one that no other has, and every position is taken.
LEMMA PositionsAreTaken ==
    ASSUME NEW config \in Seq(RouteRecord)
    PROVE  /\ \A i \in DOMAIN config : Position(config, i) \in DOMAIN config
           /\ \A i, j \in DOMAIN config :
                Precedes(config, j, i) => Position(config, j) < Position(config, i)
           /\ \A k \in DOMAIN config : \E i \in DOMAIN config : Position(config, i) = k
<1> DEFINE D == DOMAIN config
           n == Len(config)
           Before(i) == {j \in D : Precedes(config, j, i)}
           length(i) == Len(config[i].prefix)
<1>1. n \in Nat /\ D = 1..n /\ \A i \in D : length(i) \in Nat
  <2>1. \A i \in D : config[i] \in RouteRecord
    OBVIOUS
  <2> QED BY <2>1 DEF RouteRecord
<1>2. \A i, j \in D : Precedes(config, j, i) <=>
        length(j) > length(i) \/ (length(j) = length(i) /\ j < i)
  BY DEF Precedes
<1> HIDE DEF n, D, length
<1>3. IsFiniteSet(D) /\ Cardinality(D) = n
  <2>1. IsFiniteSet(1..n) /\ Cardinality(1..n) = IF 1 > n THEN 0 ELSE n - 1 + 1
    BY <1>1, FS_Interval
  <2> QED BY <1>1, <2>1
<1>4. ASSUME NEW i \in D
      PROVE  /\ IsFiniteSet(Before(i)) /\ Cardinality(Before(i)) \in Nat
             /\ Position(config, i) = 1 + Cardinality(Before(i))
             /\ i \notin Before(i)
  <2>1. Before(i) \subseteq D /\ i \notin Before(i)
    BY <1>1, <1>2
  <2> QED BY <1>3, <2>1, FS_Subset, FS_CardinalityType DEF Position, D
<1>5. ASSUME NEW i \in D, NEW j \in D, Precedes(config, j, i)
      PROVE  Position(config, j) < Position(config, i)
  <2>1. Before(j) \cup {j} \subseteq Before(i)
    BY <1>1, <1>2, <1>5
  <2>2. Cardinality(Before(j) \cup {j}) = Cardinality(Before(j)) + 1
    BY <1>4, FS_AddElement
  <2>3. Cardinality(Before(j) \cup {j}) <= Cardinality(Before(i))
    BY <1>4, <2>1, FS_Subset
  <2> HIDE DEF Before
  <2> QED BY <1>4, <2>2, <2>3
<1>6. ASSUME NEW i \in D PROVE Position(config, i) \in D
  <2>1. Before(i) \cup {i} \subseteq D
    OBVIOUS
  <2>2. Cardinality(Before(i) \cup {i}) = Cardinality(Before(i)) + 1
    BY <1>4, FS_AddElement
  <2>3. Cardinality(Before(i) \cup {i}) <= n
    BY <1>3, <2>1, FS_Subset
  <2> DEFINE b == Cardinality(Before(i))
  <2>4. b \in Nat /\ n \in Nat /\ b + 1 <= n /\ Position(config, i) = 1 + b
    BY <1>1, <1>4, <2>2, <2>3
  <2> HIDE DEF b
  <2>5. Position(config, i) \in 1..n
    BY <2>4
  <2> QED BY <1>1, <2>5
<1> DEFINE p == [i \in D |-> Position(config, i)]
<1>7. p \in Injection(D, D)
  <2>1. p \in [D -> D]
    BY <1>6
  <2>2. ASSUME NEW i \in D, NEW j \in D, i # j PROVE p[i] # p[j]
    <3>1. Precedes(config, j, i) \/ Precedes(config, i, j)
      BY <1>1, <1>2, <2>2
    <3>2. Position(config, i) \in Nat /\ Position(config, j) \in Nat
      <4>1. D \subseteq Nat
        BY <1>1
      <4> QED BY <1>6, <4>1
    <3>3. Position(config, i) # Position(config, j)
      BY <1>5, <3>1, <3>2
    <3> QED BY <3>3
  <2> HIDE DEF p
  <2> QED BY <2>1, <2>2 DEF Injection, IsInjective
<1>8. p \in Surjection(D, D)
  <2> HIDE DEF p
  <2> QED BY <1>3, <1>7, FS_Injection
<1>9. ASSUME NEW k \in D PROVE \E i \in D : Position(config, i) = k
  <2>1. \E i \in D : p[i] = k
    <3> HIDE DEF p
    <3> QED BY <1>8 DEF Surjection
  <2> QED BY <2>1
<1> QED BY <1>5, <1>6, <1>9 DEF D

\* The sorted table has the routes of the list, each at its position.
LEMMA SortedByPosition ==
    ASSUME NEW config \in Seq(RouteRecord)
    PROVE  /\ Sorted(config) \in Seq(RouteRecord) /\ DOMAIN Sorted(config) = DOMAIN config
           /\ \A i \in DOMAIN config : Sorted(config)[Position(config, i)] = config[i]
           /\ \A k \in DOMAIN config :
                \E i \in DOMAIN config : Position(config, i) = k /\ Sorted(config)[k] = config[i]
<1> DEFINE D == DOMAIN config
           At(k) == CHOOSE i \in D : Position(config, i) = k
<1>1. /\ \A i \in D : Position(config, i) \in D
      /\ \A i, j \in D : Precedes(config, j, i) => Position(config, j) < Position(config, i)
      /\ \A k \in D : \E i \in D : Position(config, i) = k
  BY PositionsAreTaken
<1>2. \A k \in D : At(k) \in D /\ Position(config, At(k)) = k
  BY <1>1
<1>3. ASSUME NEW i \in D, NEW j \in D, Position(config, i) = Position(config, j)
      PROVE  i = j
  <2> SUFFICES ASSUME i # j PROVE FALSE
    OBVIOUS
  <2>1. i \in Nat /\ j \in Nat /\ Position(config, i) \in Nat
    <3>1. D = 1..Len(config) /\ Len(config) \in Nat
      OBVIOUS
    <3>2. i \in D /\ j \in D /\ Position(config, i) \in D
      BY <1>1, <1>3
    <3> HIDE DEF D
    <3> QED BY <3>1, <3>2
  <2>2. Len(config[i].prefix) \in Nat /\ Len(config[j].prefix) \in Nat
    <3>1. config[i] \in RouteRecord /\ config[j] \in RouteRecord
      OBVIOUS
    <3> QED BY <3>1 DEF RouteRecord
  <2>3. Precedes(config, j, i) \/ Precedes(config, i, j)
    BY <2>1, <2>2 DEF Precedes
  <2>4. ~(Position(config, j) < Position(config, i))
        /\ ~(Position(config, i) < Position(config, j))
    BY <1>3, <2>1
  <2> QED BY <1>1, <2>3, <2>4
<1>4. Sorted(config) = [k \in D |-> config[At(k)]]
  BY DEF Sorted
<1>5. \A i \in D : At(Position(config, i)) = i
  BY <1>1, <1>2, <1>3
<1> HIDE DEF At
<1>6. \A k \in D : config[At(k)] \in RouteRecord
  BY <1>2
<1>7. Sorted(config) \in Seq(RouteRecord) /\ DOMAIN Sorted(config) = D
  <2>1. D = 1..Len(config) /\ Len(config) \in Nat
    OBVIOUS
  <2> HIDE DEF D
  <2> QED BY <1>4, <1>6, <2>1
<1> QED BY <1>1, <1>2, <1>4, <1>5, <1>7

----------------------------------------------------------------------------
\* Paths.

\* What is left of a prefix does not end in a slash: trimming it again leaves it.
LEMMA TrimmedTwice ==
    ASSUME NEW s \in Seq(Char)
    PROVE  Trimmed(Trimmed(s)) = Trimmed(s)
<1> DEFINE others(q) == {0} \cup {i \in DOMAIN q : q[i] # Slash}
           m == Max(others(s))
           t == SubSeq(s, 1, m)
<1>1. ASSUME NEW q \in Seq(Char)
      PROVE  Max(others(q)) \in others(q) /\ \A i \in others(q) : Max(others(q)) >= i
  <2>1. DOMAIN q = 1..Len(q) /\ Len(q) \in Nat
    OBVIOUS
  <2>2. others(q) \in SUBSET Nat /\ others(q) # {} /\ \A i \in others(q) : i <= Len(q)
    BY <2>1
  <2> HIDE DEF others
  <2> QED BY <2>1, <2>2, GreatestNumber
<1>2. m \in others(s)
  BY <1>1
<1>3. m \in 0..Len(s) /\ Len(s) \in Nat /\ (m = 0 \/ s[m] # Slash)
  BY <1>2
<1> HIDE DEF m
<1>4. t \in Seq(Char) /\ Len(t) = m /\ DOMAIN t = 1..m /\ \A i \in 1..m : t[i] = s[i]
  BY <1>3
<1> HIDE DEF t
<1>5. m \in others(t) /\ \A i \in others(t) : i <= m
  BY <1>3, <1>4
<1>6. Max(others(t)) = m
  <2>1. Max(others(t)) \in others(t) /\ \A i \in others(t) : Max(others(t)) >= i
    BY <1>1, <1>4
  <2>2. others(t) \subseteq Nat
    BY <1>4
  <2> HIDE DEF others
  <2> QED BY <1>3, <1>5, <2>1, <2>2
<1>7. SubSeq(t, 1, m) = t
  BY <1>3, <1>4
<1>8. Trimmed(s) = t
  BY DEF Trimmed, t, m
<1>9. Trimmed(t) = t
  BY <1>6, <1>7 DEF Trimmed
<1> QED BY <1>8, <1>9

\* A path that starts with a prefix is the prefix and what follows it.
LEMMA PrefixAndRest ==
    ASSUME NEW p \in Seq(Char), NEW s \in Seq(Char), IsPrefix(p, s),
           NEW rest, rest = SubSeq(s, Len(p) + 1, Len(s))
    PROVE  rest \in Seq(Char) /\ s = p \o rest
<1>1. Len(p) \in Nat /\ Len(s) \in Nat /\ Len(p) <= Len(s)
  BY DEF IsPrefix
<1>2. rest \in Seq(Char) /\ Len(rest) = Len(s) - Len(p)
      /\ \A i \in 1..Len(rest) : rest[i] = s[Len(p) + i]
  BY <1>1
<1>3. \A i \in 1..Len(p) : p[i] = s[i]
  <2>1. SubSeq(p, 1, Len(p)) = SubSeq(s, 1, Len(p))
    BY DEF IsPrefix
  <2>2. \A i \in 1..Len(p) : SubSeq(p, 1, Len(p))[i] = p[i] /\ SubSeq(s, 1, Len(p))[i] = s[i]
    BY <1>1
  <2> QED BY <2>1, <2>2
<1>4. p \o rest \in Seq(Char) /\ Len(p \o rest) = Len(s)
  BY <1>1, <1>2
<1>5. \A i \in 1..Len(s) : (p \o rest)[i] = s[i]
  <2> SUFFICES ASSUME NEW i \in 1..Len(s) PROVE (p \o rest)[i] = s[i]
    OBVIOUS
  <2>1. CASE i <= Len(p)
    BY <1>1, <1>2, <1>3, <2>1
  <2>2. CASE i > Len(p)
    <3>1. i - Len(p) \in 1..Len(rest) /\ Len(p) + (i - Len(p)) = i
      BY <1>1, <1>2, <2>2
    <3>2. (p \o rest)[i] = rest[i - Len(p)]
      BY <1>1, <1>2, <2>2, <3>1
    <3> QED BY <1>2, <3>1, <3>2
  <2> QED BY <1>1, <2>1, <2>2
<1> QED BY <1>2, <1>4, <1>5, SeqEqual

\* What a route that fits makes of a path.
LEMMA RewrittenPath ==
    ASSUME NEW r \in RouteRecord, NEW path \in Seq(Char), NEW method, Fits(r, path, method),
           NEW rewritten, rewritten = Rewritten(r, path)
    PROVE  /\ (path = <<>> \/ Head(path) = Slash) =>
                 (rewritten = <<>> \/ Head(rewritten) = Slash)
           /\ IF ~r.strip THEN rewritten = path
              ELSE IF rewritten = <<>> THEN Trimmed(path) = Trimmed(r.prefix)
              ELSE path \in {r.prefix \o rewritten, r.prefix \o Tail(rewritten)}
<1>1. r.prefix \in Seq(Char)
  BY DEF RouteRecord
<1>2. CASE ~r.strip
  BY <1>2 DEF Rewritten
<1>3. CASE r.strip /\ ~IsPrefix(r.prefix, path)
  <2>1. rewritten = <<>>
    BY <1>3 DEF Rewritten
  <2>2. path = Trimmed(r.prefix)
    BY <1>3 DEF Fits
  <2> QED BY <1>1, <1>3, <2>1, <2>2, TrimmedTwice
<1>4. CASE r.strip /\ IsPrefix(r.prefix, path)
  <2> DEFINE rest == SubSeq(path, Len(r.prefix) + 1, Len(path))
  <2>1. rest \in Seq(Char) /\ path = r.prefix \o rest
    BY <1>1, <1>4, PrefixAndRest
  <2>2. rewritten = IF rest = <<>> \/ Head(rest) = Slash THEN rest ELSE <<Slash>> \o rest
    BY <1>4 DEF Rewritten
  <2> HIDE DEF rest
  <2>3. CASE rest = <<>>
    <3>1. path = r.prefix
      BY <1>1, <2>1, <2>3
    <3> QED BY <1>4, <2>2, <2>3, <3>1
  <2>4. CASE rest # <<>> /\ Head(rest) = Slash
    BY <1>4, <2>1, <2>2, <2>4
  <2>5. CASE rest # <<>> /\ Head(rest) # Slash
    <3>1. rewritten = <<Slash>> \o rest
      BY <2>2, <2>5
    <3>2. Slash \in Char
      BY RouterAssumption
    <3>3. rewritten # <<>> /\ Head(rewritten) = Slash
      BY <2>1, <3>1, <3>2
    <3>4. Tail(rewritten) = rest
      BY <2>1, <3>1, <3>2
    <3> QED BY <1>4, <2>1, <3>3, <3>4
  <2> QED BY <2>3, <2>4, <2>5
<1> QED BY <1>2, <1>3, <1>4

----------------------------------------------------------------------------
\* Turns.

\* How many of the numbers below x leave the remainder i when divided by n.
Turns(n, x, i) == (x \div n) + IF i < x % n THEN 1 ELSE 0

LEMMA DivisionIsUnique ==
    ASSUME NEW n \in Nat \ {0}, NEW q \in Nat, NEW r \in 0..(n - 1)
    PROVE  (q * n + r) \div n = q /\ (q * n + r) % n = r
<1> DEFINE x == q * n + r
           d == x \div n
           e == x % n
<1>1. q * n \in Nat /\ x \in Nat
  OBVIOUS
<1>2. d \in Nat /\ e \in 0..(n - 1) /\ x = d * n + e
  BY <1>1
<1>3. x = q * n + r
  OBVIOUS
<1> HIDE DEF x, d, e
<1>4. ASSUME NEW a \in Nat, NEW b \in Nat, a < b PROVE a * n + n <= b * n
  <2>1. (a + 1) * n <= b * n
    BY <1>4
  <2>2. (a + 1) * n = a * n + n
    OBVIOUS
  <2> QED BY <2>1, <2>2
<1>5. d * n \in Nat
  BY <1>2
<1>6. ~(d < q)
  <2> SUFFICES ASSUME d < q PROVE FALSE
    OBVIOUS
  <2>1. d * n + n <= q * n
    BY <1>2, <1>4
  <2> QED BY <1>1, <1>2, <1>3, <1>5, <2>1
<1>7. ~(q < d)
  <2> SUFFICES ASSUME q < d PROVE FALSE
    OBVIOUS
  <2>1. q * n + n <= d * n
    BY <1>2, <1>4
  <2> QED BY <1>1, <1>2, <1>3, <1>5, <2>1
<1>8. d = q
  BY <1>2, <1>6, <1>7
<1>9. e = r
  BY <1>1, <1>2, <1>3, <1>8
<1> QED BY <1>8, <1>9 DEF d, e, x

LEMMA TurnsGoRound ==
    ASSUME NEW n \in Nat \ {0}, NEW x \in Nat
    PROVE  /\ x % n \in 0..(n - 1)
           /\ \A i \in 0..(n - 1) :
                /\ Turns(n, x, i) \in Nat /\ Turns(n, 0, i) = 0
                /\ Turns(n, x + 1, i) = Turns(n, x, i) + (IF i = x % n THEN 1 ELSE 0)
                /\ \A j \in 0..(n - 1) : Turns(n, x, i) <= Turns(n, x, j) + 1
<1> DEFINE q == x \div n
           r == x % n
<1>1. q \in Nat /\ r \in 0..(n - 1) /\ x = q * n + r
  OBVIOUS
<1> HIDE DEF q, r
<1>2. 0 \div n = 0 /\ 0 % n = 0
  <2>1. 0 \in 0..(n - 1) /\ 0 \in Nat /\ 0 * n + 0 = 0
    OBVIOUS
  <2> QED BY <2>1, DivisionIsUnique
<1>3. ASSUME r < n - 1 PROVE (x + 1) \div n = q /\ (x + 1) % n = r + 1
  <2>1. r + 1 \in 0..(n - 1) /\ q * n + (r + 1) = x + 1
    BY <1>1, <1>3
  <2>2. (q * n + (r + 1)) \div n = q /\ (q * n + (r + 1)) % n = r + 1
    BY <1>1, <2>1, DivisionIsUnique
  <2> QED BY <2>1, <2>2
<1>4. ASSUME r = n - 1 PROVE (x + 1) \div n = q + 1 /\ (x + 1) % n = 0
  <2>1. 0 \in 0..(n - 1) /\ q + 1 \in Nat
    BY <1>1
  <2>2. (q + 1) * n + 0 = x + 1
    <3>1. (q + 1) * n = q * n + n /\ q * n \in Nat
      BY <1>1
    <3> QED BY <1>1, <1>4, <3>1
  <2>3. ((q + 1) * n + 0) \div n = q + 1 /\ ((q + 1) * n + 0) % n = 0
    BY <2>1, DivisionIsUnique
  <2> QED BY <2>2, <2>3
<1>5. \A i \in 0..(n - 1) : Turns(n, x, i) = q + IF i < r THEN 1 ELSE 0
  BY DEF Turns, q, r
<1>6. \A i \in 0..(n - 1) :
        Turns(n, x + 1, i) = ((x + 1) \div n) + IF i < (x + 1) % n THEN 1 ELSE 0
  BY DEF Turns
<1>7. ASSUME NEW i \in 0..(n - 1)
      PROVE  Turns(n, x + 1, i) = Turns(n, x, i) + (IF i = r THEN 1 ELSE 0)
  <2>1. CASE r < n - 1
    BY <1>1, <1>3, <1>5, <1>6, <2>1
  <2>2. CASE r = n - 1
    BY <1>1, <1>4, <1>5, <1>6, <2>2
  <2> QED BY <1>1, <2>1, <2>2
<1>8. \A i \in 0..(n - 1) : Turns(n, 0, i) = 0
  BY <1>2 DEF Turns
<1>9. \A i, j \in 0..(n - 1) :
        Turns(n, x, i) \in Nat /\ Turns(n, x, i) <= Turns(n, x, j) + 1
  BY <1>1, <1>5
<1> QED BY <1>1, <1>7, <1>8, <1>9 DEF r

----------------------------------------------------------------------------
\* The router.

\* match_route takes the first route of the table that fits.
LEMMA FirstThatFits ==
    ASSUME NEW table \in Seq(RouteRecord), NEW path, NEW method,
           NEW k, k = MatchRoute(table, path, method)
    PROVE  \/ k = 0 /\ \A i \in DOMAIN table : ~Fits(table[i], path, method)
           \/ /\ k \in DOMAIN table /\ k # 0 /\ Fits(table[k], path, method)
              /\ \A i \in DOMAIN table : Fits(table[i], path, method) => k <= i
<1> DEFINE I == {i \in 1..Len(table) : Fits(table[i], path, method)}
<1>1. DOMAIN table = 1..Len(table) /\ Len(table) \in Nat
  OBVIOUS
<1>2. k = IF I # {} THEN Min(I) ELSE 0
  BY DEF MatchRoute, SelectInSeq
<1>3. I \subseteq Nat
  BY <1>1
<1>4. CASE I = {}
  BY <1>1, <1>2, <1>4
<1>5. CASE I # {}
  <2>1. k \in I /\ \A i \in I : k <= i
    <3> HIDE DEF I
    <3> QED BY <1>2, <1>3, <1>5, LeastNumber
  <2> QED BY <1>1, <2>1
<1> QED BY <1>4, <1>5

\* Two upstreams get their turns evenly in any stretch of the counter.
LEMMA StretchesAreEven ==
    ASSUME NEW n \in Nat \ {0}, NEW s \in Nat, NEW c \in Nat,
           NEW i \in 0..(n - 1), NEW j \in 0..(n - 1)
    PROVE  Turns(n, c, i) - Turns(n, s, i) <= Turns(n, c, j) - Turns(n, s, j) + 1
<1> DEFINE q == c \div n
           r == c % n
           p == s \div n
           t == s % n
<1>1. q \in Nat /\ p \in Nat /\ r \in 0..(n - 1) /\ t \in 0..(n - 1)
  OBVIOUS
<1>2. \A k \in 0..(n - 1) : /\ Turns(n, c, k) = q + IF k < r THEN 1 ELSE 0
                            /\ Turns(n, s, k) = p + IF k < t THEN 1 ELSE 0
  BY DEF Turns
<1> HIDE DEF q, r, p, t
<1> QED BY <1>1, <1>2

\* The streak of a route with n upstreams, when the counter is at c: base counts its
\* picks up to the last time the counter wrapped, and from s on it went on alone.
Even(picked, base, n, s, c, w) ==
    /\ s \in Nat /\ c \in Nat /\ w \in Nat
    /\ picked \in [0..(n - 1) -> Int] /\ base \in [0..(n - 1) -> Int]
    /\ \A i \in 0..(n - 1) : picked[i] = base[i] + Turns(n, c, i) - Turns(n, s, i)
    /\ \A i, j \in 0..(n - 1) : base[i] <= base[j] + w

LEMMA EvenCounts ==
    ASSUME NEW n \in Nat \ {0}, NEW picked, NEW base, NEW s, NEW c, NEW w,
           Even(picked, base, n, s, c, w), NEW i \in 0..(n - 1), NEW j \in 0..(n - 1)
    PROVE  picked[i] <= picked[j] + 1 + w
<1> DEFINE a == Turns(n, c, i) - Turns(n, s, i)
           b == Turns(n, c, j) - Turns(n, s, j)
<1>1. /\ s \in Nat /\ c \in Nat /\ w \in Nat
      /\ picked[i] = base[i] + a /\ picked[j] = base[j] + b
      /\ base[i] \in Int /\ base[j] \in Int /\ base[i] <= base[j] + w
  <2>1. /\ Turns(n, c, i) \in Nat /\ Turns(n, s, i) \in Nat
        /\ Turns(n, c, j) \in Nat /\ Turns(n, s, j) \in Nat
    BY TurnsGoRound DEF Even
  <2> QED BY <2>1 DEF Even
<1>2. a <= b + 1 /\ a \in Int /\ b \in Int
  <2>1. /\ Turns(n, c, i) \in Nat /\ Turns(n, s, i) \in Nat
        /\ Turns(n, c, j) \in Nat /\ Turns(n, s, j) \in Nat
    BY <1>1, TurnsGoRound
  <2> QED BY <1>1, <2>1, StretchesAreEven
<1> HIDE DEF a, b
<1> QED BY <1>1, <1>2

\* One more pick, with the counter at c.
LEMMA EvenPick ==
    ASSUME NEW n \in Nat \ {0}, NEW picked, NEW base, NEW s, NEW c, NEW w,
           Even(picked, base, n, s, c, w)
    PROVE  Even([picked EXCEPT ![c % n] = @ + 1], base, n, s, c + 1, w)
<1> DEFINE next == [picked EXCEPT ![c % n] = @ + 1]
<1>1. c \in Nat /\ s \in Nat /\ c % n \in 0..(n - 1) /\ picked \in [0..(n - 1) -> Int]
  BY TurnsGoRound DEF Even
<1>2. next \in [0..(n - 1) -> Int]
  BY <1>1
<1>3. ASSUME NEW i \in 0..(n - 1)
      PROVE  next[i] = base[i] + Turns(n, c + 1, i) - Turns(n, s, i)
  <2> DEFINE d == IF i = c % n THEN 1 ELSE 0
             t == Turns(n, c, i)
             u == Turns(n, s, i)
             v == Turns(n, c + 1, i)
  <2>1. t \in Nat /\ u \in Nat /\ v = t + d
    BY <1>1, TurnsGoRound
  <2>2. base[i] \in Int /\ picked[i] = base[i] + t - u
    BY DEF Even
  <2>3. next[i] = picked[i] + d
    <3> DEFINE r == c % n
    <3>1. r \in 0..(n - 1) /\ picked \in [0..(n - 1) -> Int]
      BY <1>1
    <3> HIDE DEF r
    <3>2. [picked EXCEPT ![r] = @ + 1][i] = picked[i] + IF i = r THEN 1 ELSE 0
      BY <3>1
    <3> QED BY <3>2 DEF r
  <2>4. d \in Nat
    OBVIOUS
  <2> HIDE DEF next, d, t, u, v
  <2> QED BY <2>1, <2>2, <2>3, <2>4 DEF t, u, v
<1> HIDE DEF next
<1>4. \A i \in 0..(n - 1) : next[i] = base[i] + Turns(n, c + 1, i) - Turns(n, s, i)
  BY <1>3
<1>5. Even(next, base, n, s, c + 1, w)
  BY <1>1, <1>2, <1>4 DEF Even
<1> QED BY <1>5 DEF next

\* A wrap begins a stretch of its own.
LEMMA EvenWrap ==
    ASSUME NEW n \in Nat \ {0}, NEW picked, NEW base, NEW s, NEW c, NEW w,
           Even(picked, base, n, s, c, w)
    PROVE  Even(picked, picked, n, 0, 0, w + 1)
<1>1. w \in Nat /\ picked \in [0..(n - 1) -> Int]
  BY DEF Even
<1>2. \A i, j \in 0..(n - 1) : picked[i] <= picked[j] + (w + 1)
  <2> SUFFICES ASSUME NEW i \in 0..(n - 1), NEW j \in 0..(n - 1)
               PROVE  picked[i] <= picked[j] + (w + 1)
    OBVIOUS
  <2>1. picked[i] <= picked[j] + 1 + w
    BY EvenCounts
  <2> DEFINE a == picked[i]
             b == picked[j]
  <2>2. a \in Int /\ b \in Int /\ w \in Nat /\ a <= b + 1 + w
    BY <1>1, <2>1
  <2>3. a <= b + (w + 1)
    <3> HIDE DEF a, b
    <3> QED BY <2>2
  <2> QED BY <2>3
<1>3. \A i \in 0..(n - 1) : picked[i] = picked[i] + Turns(n, 0, i) - Turns(n, 0, i)
  <2> SUFFICES ASSUME NEW i \in 0..(n - 1)
               PROVE  picked[i] = picked[i] + Turns(n, 0, i) - Turns(n, 0, i)
    OBVIOUS
  <2>1. Turns(n, 0, i) = 0
    BY TurnsGoRound
  <2> QED BY <1>1, <2>1
<1> QED BY <1>1, <1>2, <1>3 DEF Even

----------------------------------------------------------------------------
\* The streak has had its turns evenly.
StreakInv ==
    \/ streak.picks = <<>> /\ streak.route = 0
    \/ /\ streak.route \in DOMAIN routes
       /\ \E s, base : Even(streak.picks, base, routes[streak.route].upstreams, s,
                            counter, streak.wraps)

\* The table is the sorted configuration; the latest answer is that of the table; and
\* the counter says how many turns each upstream has had.
RouterInv ==
    /\ configured \in Configs /\ routes = Sorted(configured)
    /\ latest # Nowhere =>
         /\ latest.path \in Path
         /\ latest.route = MatchRoute(routes, latest.path, latest.method)
         /\ latest.route # 0 =>
              latest.upstreamPath = Rewritten(routes[latest.route], latest.path)
    /\ counter \in 0..(CounterSize - 1)
    /\ StreakInv

LEMMA RouterInvInit == RouterInit => RouterInv
BY RouterAssumption DEF RouterInit, RouterInv, StreakInv

\* The routes of the table are those of the configuration.
LEMMA TableOfConfiguration ==
    ASSUME RouterInv
    PROVE  /\ configured \in Seq(RouteRecord) /\ routes \in Seq(RouteRecord)
           /\ \A k \in DOMAIN routes : k # 0 /\ routes[k].upstreams \in Nat \ {0}
<1>1. configured \in Seq(RouteRecord) /\ routes = Sorted(configured)
  BY RouterAssumption DEF RouterInv
<1>2. routes \in Seq(RouteRecord)
  BY <1>1, SortedByPosition
<1>3. \A k \in DOMAIN routes : k # 0 /\ routes[k] \in RouteRecord
  BY <1>2
<1> QED BY <1>1, <1>2, <1>3 DEF RouteRecord

\* A pick moves the counter on by one, and the streak of the route that picks.
LEMMA PickKeepsTurns ==
    ASSUME RouterInv, NEW k \in DOMAIN routes, NextUpstream(k), UNCHANGED routes
    PROVE  counter' \in 0..(CounterSize - 1) /\ StreakInv'
<1> DEFINE n == routes[k].upstreams
           old == StreakOf(k)
           next == [old.picks EXCEPT ![counter % n] = @ + 1]
<1>0. n \in Nat \ {0} /\ k # 0 /\ CounterSize \in Nat \ {0} /\ counter \in 0..(CounterSize - 1)
  BY TableOfConfiguration, RouterAssumption DEF RouterInv
<1>1. CASE n <= 1
  BY <1>1 DEF NextUpstream, RouterInv, StreakInv
<1>2. CASE ~(n <= 1)
  <2>1. /\ counter' = (counter + 1) % CounterSize
        /\ streak' = [route |-> k, picks |-> next,
                      wraps |-> old.wraps + IF counter' = 0 THEN 1 ELSE 0]
    BY <1>2 DEF NextUpstream
  <2>2. PICK s, base : Even(old.picks, base, n, s, counter, old.wraps)
    <3>1. CASE streak.route = k
      BY <1>0, <3>1 DEF StreakOf, RouterInv, StreakInv
    <3>2. CASE streak.route # k
      <4> DEFINE none == [i \in 0..(n - 1) |-> 0]
      <4>1. old.picks = none /\ old.wraps = 0
        BY <3>2 DEF StreakOf, NoPicks
      <4>2. \A i \in 0..(n - 1) : Turns(n, counter, i) \in Nat
        <5>1. n \in Nat \ {0} /\ counter \in Nat
          BY <1>0
        <5> HIDE DEF n
        <5> QED BY <5>1, TurnsGoRound
      <4>3. Even(none, none, n, counter, counter, 0)
        <5> HIDE DEF n
        <5> QED BY <1>0, <4>2 DEF Even
      <4> QED BY <4>1, <4>3
    <3> QED BY <3>1, <3>2
  <2>3. Even(next, base, n, s, counter + 1, old.wraps)
    <3> HIDE DEF n, old
    <3> QED BY <1>0, <2>2, EvenPick
  <2>4. old.wraps \in Nat
    BY <2>2 DEF Even
  <2>5. CASE counter + 1 < CounterSize
    <3>1. counter + 1 \in 0..(CounterSize - 1) /\ 0 * CounterSize + (counter + 1) = counter + 1
      BY <1>0, <2>5
    <3>2. (0 * CounterSize + (counter + 1)) % CounterSize = counter + 1
      BY <1>0, <3>1, DivisionIsUnique
    <3>3. counter' = counter + 1 /\ counter' # 0
      BY <1>0, <2>1, <3>1, <3>2
    <3>4. /\ streak'.route = k /\ streak'.picks = next /\ streak'.wraps = old.wraps
      <4> HIDE DEF next, old
      <4> QED BY <2>1, <2>4, <3>3
    <3> HIDE DEF next, old
    <3>5. Even(streak'.picks, base, routes'[streak'.route].upstreams, s, counter', streak'.wraps)
      BY <2>3, <3>3, <3>4
    <3> QED BY <3>1, <3>3, <3>4, <3>5 DEF StreakInv
  <2>6. CASE counter + 1 = CounterSize
    <3>1. 0 \in 0..(CounterSize - 1) /\ 1 * CounterSize + 0 = counter + 1
      BY <1>0, <2>6
    <3>2. (1 * CounterSize + 0) % CounterSize = 0
      BY <1>0, <3>1, DivisionIsUnique
    <3>3. counter' = 0
      BY <2>1, <3>1, <3>2
    <3>4. /\ streak'.route = k /\ streak'.picks = next /\ streak'.wraps = old.wraps + 1
      <4> HIDE DEF next, old
      <4> QED BY <2>1, <2>4, <3>3
    <3>5. Even(next, next, n, 0, 0, old.wraps + 1)
      <4> HIDE DEF n, old, next
      <4> QED BY <1>0, <2>3, EvenWrap
    <3> HIDE DEF next, old
    <3>6. Even(streak'.picks, next, routes'[streak'.route].upstreams, 0, counter', streak'.wraps)
      BY <3>3, <3>4, <3>5
    <3> QED BY <3>1, <3>3, <3>4, <3>6 DEF StreakInv
  <2> QED BY <1>0, <2>5, <2>6
<1> QED BY <1>1, <1>2

LEMMA RouterInvStep == RouterInv /\ [RouterNext]_routerVars => RouterInv'
<1> SUFFICES ASSUME RouterInv, [RouterNext]_routerVars PROVE RouterInv'
  OBVIOUS
<1>1. CASE UNCHANGED routerVars
  BY <1>1 DEF routerVars, RouterInv, StreakInv
<1>2. ASSUME NEW path \in Path, NEW method \in Method, RouteRequest(path, method) PROVE RouterInv'
  <2> DEFINE i == MatchRoute(routes, path, method)
  <2>1. UNCHANGED <<configured, routes>>
    BY <1>2 DEF RouteRequest
  <2>2. configured \in Seq(RouteRecord) /\ routes \in Seq(RouteRecord)
        /\ DOMAIN routes = DOMAIN configured
        /\ \A k \in DOMAIN routes : \E j \in DOMAIN configured : routes[k] = configured[j]
    <3>1. configured \in Seq(RouteRecord) /\ routes = Sorted(configured)
      BY RouterAssumption DEF RouterInv
    <3>2. /\ Sorted(configured) \in Seq(RouteRecord)
          /\ DOMAIN Sorted(configured) = DOMAIN configured
          /\ \A k \in DOMAIN configured : \E j \in DOMAIN configured :
               Position(configured, j) = k /\ Sorted(configured)[k] = configured[j]
      BY <3>1, SortedByPosition
    <3> QED BY <3>1, <3>2
  <2>3. \/ i = 0
        \/ i # 0 /\ i \in DOMAIN routes
    BY <2>2, FirstThatFits
  <2>4. latest' # Nowhere =>
          /\ latest'.path \in Path
          /\ latest'.route = MatchRoute(routes', latest'.path, latest'.method)
          /\ latest'.route # 0 =>
               latest'.upstreamPath = Rewritten(routes'[latest'.route], latest'.path)
    <3>1. CASE i = 0
      <4>1. latest' = [path |-> path, method |-> method, route |-> 0, upstreamPath |-> <<>>]
        BY <1>2, <3>1 DEF RouteRequest, Nowhere
      <4> QED BY <2>1, <3>1, <4>1
    <3>2. CASE i # 0
      <4>1. latest' = [path |-> path, method |-> method, route |-> i,
                       upstreamPath |-> Rewritten(routes[i], path)]
        BY <1>2, <3>2 DEF RouteRequest
      <4> HIDE DEF i
      <4> QED BY <2>1, <3>2, <4>1 DEF i
    <3> QED BY <3>1, <3>2
  <2>5. CASE UNCHANGED <<counter, picks, streak>>
    BY <2>1, <2>4, <2>5 DEF RouterInv, StreakInv
  <2>6. CASE ~UNCHANGED <<counter, picks, streak>>
    <3>1. NextUpstream(i) /\ i \in DOMAIN routes
      BY <1>2, <2>3, <2>6 DEF RouteRequest
    <3>2. counter' \in 0..(CounterSize - 1) /\ StreakInv'
      BY <2>1, <3>1, PickKeepsTurns
    <3> QED BY <2>1, <2>4, <3>2 DEF RouterInv
  <2> QED BY <2>5, <2>6
<1> QED BY <1>1, <1>2 DEF RouterNext

THEOREM RouterIsInvariant == RouterSpec => []RouterInv
BY RouterInvInit, RouterInvStep, PTL DEF RouterSpec

\* For any list of routes, a request gets the route that is the most specific of those
\* that fit, the first listed of several, and none only when none fits
\* (router.rs 83-117).
THEOREM RoutesAreMostSpecific == RouterSpec => []MostSpecificRoute
<1>1. RouterInv => MostSpecificRoute
  <2> DEFINE path == latest.path
             method == latest.method
             k == latest.route
             F(i) == Fits(configured[i], path, method)
             fitting == {i \in DOMAIN configured : F(i)}
             length(i) == Len(configured[i].prefix)
             best == {i \in fitting : \A j \in fitting : length(j) <= length(i)}
  <2> SUFFICES ASSUME RouterInv, latest # Nowhere
               PROVE  IF k = 0 THEN fitting = {}
                      ELSE best # {} /\ routes[k] = configured[Min(best)]
    BY DEF MostSpecificRoute
  <2>1. /\ configured \in Seq(RouteRecord) /\ routes = Sorted(configured)
        /\ k = MatchRoute(routes, path, method)
    BY RouterAssumption DEF RouterInv
  <2>2. /\ routes \in Seq(RouteRecord) /\ DOMAIN routes = DOMAIN configured
        /\ \A i \in DOMAIN configured : routes[Position(configured, i)] = configured[i]
        /\ \A l \in DOMAIN configured :
             \E i \in DOMAIN configured : Position(configured, i) = l /\ routes[l] = configured[i]
    BY <2>1, SortedByPosition
  <2>3. /\ \A i \in DOMAIN configured : Position(configured, i) \in DOMAIN configured
        /\ \A i, j \in DOMAIN configured :
             Precedes(configured, j, i) => Position(configured, j) < Position(configured, i)
    BY <2>1, PositionsAreTaken
  <2>4. DOMAIN configured \subseteq Nat /\ \A i \in DOMAIN configured : length(i) \in Nat
    <3>1. DOMAIN configured = 1..Len(configured) /\ Len(configured) \in Nat
          /\ \A i \in DOMAIN configured : configured[i] \in RouteRecord
      BY <2>1
    <3> QED BY <3>1 DEF RouteRecord
  <2>5. \A i, j \in DOMAIN configured : Precedes(configured, j, i) <=>
          length(j) > length(i) \/ (length(j) = length(i) /\ j < i)
    BY DEF Precedes
  <2> HIDE DEF length, k, path, method
  <2>6. \/ k = 0 /\ \A l \in DOMAIN routes : ~Fits(routes[l], path, method)
        \/ /\ k \in DOMAIN routes /\ k # 0 /\ Fits(routes[k], path, method)
           /\ \A l \in DOMAIN routes : Fits(routes[l], path, method) => k <= l
    BY <2>1, <2>2, FirstThatFits
  <2>7. CASE k = 0
    <3>1. \A l \in DOMAIN routes : ~Fits(routes[l], path, method)
      BY <2>6, <2>7
    <3>2. \A i \in DOMAIN configured : ~F(i)
      BY <2>2, <2>3, <3>1
    <3> QED BY <2>7, <3>2
  <2>8. CASE k # 0
    <3>1. PICK i \in DOMAIN configured : Position(configured, i) = k /\ routes[k] = configured[i]
      BY <2>2, <2>6, <2>8
    <3>2. F(i)
      BY <2>6, <2>8, <3>1
    <3>3. ASSUME NEW j \in fitting PROVE ~Precedes(configured, j, i)
      <4>1. k <= Position(configured, j)
        BY <2>2, <2>3, <2>6, <2>8
      <4>2. Position(configured, j) \in Nat /\ k \in Nat
        BY <2>3, <2>4, <3>1
      <4>3. ~(Position(configured, j) < k)
        BY <4>1, <4>2
      <4> QED BY <2>3, <3>1, <4>3
    <3>4. \A j \in fitting : length(j) <= length(i) /\ (length(j) = length(i) => i <= j)
      BY <2>4, <2>5, <3>3
    <3>5. i \in best
      BY <3>2, <3>4
    <3>6. \A j \in best : i <= j
      <4> SUFFICES ASSUME NEW j \in best PROVE i <= j
        OBVIOUS
      <4>1. j \in fitting /\ length(i) <= length(j)
        BY <3>2
      <4> QED BY <2>4, <3>4, <4>1
    <3>7. best \subseteq Nat
      BY <2>4
    <3> HIDE DEF best
    <3>8. Min(best) \in best /\ \A j \in best : Min(best) <= j
      BY <3>5, <3>7, LeastNumber
    <3>9. Min(best) = i
      BY <3>5, <3>6, <3>7, <3>8
    <3> QED BY <2>8, <3>1, <3>5, <3>9
  <2> QED BY <2>7, <2>8
<1> QED BY <1>1, RouterIsInvariant, PTL

\* Whatever the prefix and the path, the upstream is asked for the path of the request
\* or what the prefix leaves of it, from the root (router.rs 98-108).
THEOREM RewrittenPathsAreRooted == RouterSpec => []RewrittenIsPath
<1>1. RouterInv => RewrittenIsPath
  <2> DEFINE k == latest.route
  <2> SUFFICES ASSUME RouterInv, k # 0 PROVE RewrittenIsPath
    BY DEF RewrittenIsPath
  <2>1. latest # Nowhere
    <3>1. Nowhere.route = 0
      BY DEF Nowhere
    <3> QED BY <3>1
  <2>2. /\ configured \in Seq(RouteRecord) /\ routes = Sorted(configured)
        /\ k = MatchRoute(routes, latest.path, latest.method)
        /\ latest.path \in Seq(Char)
        /\ latest.upstreamPath = Rewritten(routes[k], latest.path)
    BY <2>1, RouterAssumption DEF RouterInv
  <2>3. routes \in Seq(RouteRecord)
    BY <2>2, SortedByPosition
  <2>4. k \in DOMAIN routes /\ Fits(routes[k], latest.path, latest.method)
    BY <2>2, <2>3, FirstThatFits
  <2>5. routes[k] \in RouteRecord
    BY <2>3, <2>4
  <2> QED BY <2>2, <2>4, <2>5, RewrittenPath DEF RewrittenIsPath
<1> QED BY <1>1, RouterIsInvariant, PTL

\* For any list of routes, any number of upstreams and any width of the counter, and
\* whatever requests come in between, the upstreams of a route get its requests evenly
\* as long as no other route picks, up to one more for each time the counter has wrapped
\* (router.rs 62-68).
THEOREM TurnsStayEven == RouterSpec => []TurnsAreEven
<1>1. RouterInv => TurnsAreEven
  <2> SUFFICES ASSUME RouterInv, NEW i \in DOMAIN streak.picks, NEW j \in DOMAIN streak.picks
               PROVE  streak.picks[i] <= streak.picks[j] + 1 + streak.wraps
    BY DEF TurnsAreEven
  <2>1. streak.picks # <<>>
    OBVIOUS
  <2> DEFINE n == routes[streak.route].upstreams
  <2>2. n \in Nat \ {0} /\ \E s, base : Even(streak.picks, base, n, s, counter, streak.wraps)
    BY <2>1, TableOfConfiguration DEF RouterInv, StreakInv
  <2>3. PICK s, base : Even(streak.picks, base, n, s, counter, streak.wraps)
    BY <2>2
  <2>4. i \in 0..(n - 1) /\ j \in 0..(n - 1)
    BY <2>3 DEF Even
  <2> HIDE DEF n
  <2> QED BY <2>2, <2>3, <2>4, EvenCounts
<1> QED BY <1>1, RouterIsInvariant, PTL
=============================================================================
