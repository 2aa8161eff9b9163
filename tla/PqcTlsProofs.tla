---------------------------- MODULE PqcTlsProofs ----------------------------
(***************************************************************************)
(* Proofs about the libraries of pqc-tls: batches, multi-signatures,       *)
(* aggregates and timestamp proofs of any size, the arithmetic of shared   *)
(* keys and quorums of any number of shares, and certificate chains of any *)
(* length.                                                                 *)
(***************************************************************************)
EXTENDS BatchVerify, MultiSignature, SignatureAggregate, TimestampProof, Threshold,
        TrustStore, FiniteSetTheorems, SequenceTheorems, TLAPS

----------------------------------------------------------------------------
\* Batches.

\* Quotients and remainders.
LEMMA Division ==
    ASSUME NEW c \in Nat \ {0}, NEW m \in Nat
    PROVE  m \div c \in Nat /\ m % c \in 0..(c - 1) /\ m = (m \div c) * c + (m % c)
OBVIOUS

\* The multiples of c up to m are those by numbers up to the quotient.
LEMMA QuotientBound ==
    ASSUME NEW c \in Nat \ {0}, NEW m \in Nat, NEW k \in Nat
    PROVE  k * c <= m <=> k <= m \div c
<1> DEFINE q == m \div c
           r == m % c
<1>1. q \in Nat /\ r \in 0..(c - 1) /\ m = q * c + r
  BY Division
<1> HIDE DEF q, r
<1>2. ASSUME k <= q PROVE k * c <= m
  <2>1. k * c <= q * c
    BY <1>1, <1>2
  <2>2. k * c \in Nat /\ q * c \in Nat
    BY <1>1
  <2> QED BY <1>1, <2>1, <2>2
<1>3. ASSUME k > q PROVE k * c > m
  <2>1. k * c >= (q + 1) * c
    BY <1>1, <1>3
  <2>2. (q + 1) * c = q * c + c
    BY <1>1
  <2>3. k * c \in Nat /\ q * c \in Nat
    BY <1>1
  <2> QED BY <1>1, <2>1, <2>2, <2>3
<1>4. k * c \in Nat
  OBVIOUS
<1> QED BY <1>1, <1>2, <1>3, <1>4 DEF q

\* Where the a-th entry of the k-th chunk is found.
LEMMA QuotientOf ==
    ASSUME NEW c \in Nat \ {0}, NEW k \in Nat, NEW a \in 0..(c - 1)
    PROVE  /\ k * c + a \in Nat
           /\ (k * c + a) \div c = k /\ (k * c + a) % c = a
<1> DEFINE m == k * c + a
           q == m \div c
           r == m % c
<1>1. m \in Nat /\ k * c \in Nat
  OBVIOUS
<1>2. m = k * c + a
  OBVIOUS
<1> HIDE DEF m
<1>3. q \in Nat /\ r \in 0..(c - 1) /\ m = q * c + r
  BY <1>1, Division
<1>4. k <= q
  BY <1>1, <1>2, QuotientBound
<1>5. (k + 1) * c = k * c + c /\ (k + 1) * c \in Nat
  BY <1>1
<1>6. ~((k + 1) * c <= m)
  BY <1>1, <1>2, <1>5
<1>7. ~(k + 1 <= q)
  <2>1. k + 1 \in Nat
    OBVIOUS
  <2> QED BY <2>1, <1>1, <1>6, QuotientBound
<1> HIDE DEF q, r
<1>8. q = k
  BY <1>3, <1>4, <1>7
<1>9. r = a
  BY <1>1, <1>2, <1>3, <1>8
<1> QED BY <1>1, <1>8, <1>9 DEF q, r, m

----------------------------------------------------------------------------
BatchEntries == 0..(Len(entries) - 1)

\* The thread that has entry i has verified it, or has counted it at least.
Passed(i) == i % chunkSize < thread[i \div chunkSize].at
Counted(i) ==
    Passed(i) \/ (i % chunkSize = thread[i \div chunkSize].at /\ thread[i \div chunkSize].pushing)

VerifiedSet == {i \in BatchEntries : entries[i + 1] /\ Passed(i)}
FailedSet == {i \in BatchEntries : ~entries[i + 1] /\ Counted(i)}
PushedSet == {i \in BatchEntries : ~entries[i + 1] /\ Passed(i)}

\* No thread goes beyond its chunk, and one that pushes has a failed entry.
ThreadInv(k) ==
    /\ k >= spawned => thread[k] = [at |-> 0, pushing |-> FALSE]
    /\ k < spawned => thread[k].at <= ChunkLength(k)
    /\ thread[k].pushing => Running(k) /\ ~entries[Index(k) + 1]

BatchTypeOK ==
    /\ entries \in Seq(BOOLEAN) /\ Len(entries) \in 1..MaxEntries
    /\ chunkSize \in Nat \ {0}
    /\ spawned \in 0..ChunkCount
    /\ thread \in [0..(MaxEntries - 1) -> Thread]
    /\ failedIndices \in Seq(Nat)

\* The counters and the list are those of the entries that have been through.
BatchInv ==
    /\ batch \in {"idle", "running", "done", "panicked"}
    /\ batch = "idle" => AtRest(<<>>, 0)
    /\ batch \in {"running", "done"} =>
         /\ BatchTypeOK
         /\ \A k \in 0..(MaxEntries - 1) : ThreadInv(k)
         /\ verified = Cardinality(VerifiedSet)
         /\ failed = Cardinality(FailedSet)
         /\ Range(failedIndices) = PushedSet
         /\ \A i, j \in DOMAIN failedIndices : failedIndices[i] = failedIndices[j] => i = j
    /\ batch = "done" => \A i \in BatchEntries : Passed(i)

\* The chunks cut the batch up: the k-th begins within it, and every entry is in
\* the chunk that its number divided by the chunk size gives.
LEMMA ChunksAreInside ==
    ASSUME BatchTypeOK, NEW k \in Nat, k < ChunkCount
    PROVE  /\ ChunkLength(k) \in 1..chunkSize
           /\ k * chunkSize \in Nat /\ k * chunkSize + ChunkLength(k) <= Len(entries)
           /\ k \in 0..(MaxEntries - 1)
<1> DEFINE n == Len(entries)
           c == chunkSize
           m == n + c - 1
<1>1. n \in Nat \ {0} /\ c \in Nat \ {0} /\ m \in Nat /\ k * c \in Nat
  BY DEF BatchTypeOK
<1>2. ChunkCount = m \div c
  BY DEF ChunkCount, RoundedUp
<1>3. (k + 1) * c = k * c + c /\ k + 1 \in Nat
  BY <1>1
<1>4. k + 1 <= m \div c
  BY <1>1, <1>2, QuotientBound
<1>5. (k + 1) * c <= m
  BY <1>1, <1>3, <1>4, QuotientBound
<1> HIDE DEF n, c
<1>6. k * c < n
  BY <1>1, <1>3, <1>5
<1>7. ChunkLength(k) = IF k * c + c <= n THEN c ELSE n - k * c
  BY <1>3 DEF ChunkLength, n, c
<1>8. k <= k * c
  BY <1>1
<1>9. n <= MaxEntries /\ MaxEntries \in Nat
  BY BatchAssumption DEF BatchTypeOK, n
<1>10. ChunkLength(k) \in 1..c /\ k * c + ChunkLength(k) <= n
  BY <1>1, <1>6, <1>7
<1>11. k \in 0..(MaxEntries - 1)
  BY <1>1, <1>6, <1>8, <1>9
<1> QED BY <1>1, <1>10, <1>11 DEF n, c

LEMMA ChunkOfEntry ==
    ASSUME BatchTypeOK, NEW i \in BatchEntries
    PROVE  /\ i \in Nat /\ i \div chunkSize \in 0..(MaxEntries - 1)
           /\ i \div chunkSize < ChunkCount
           /\ i % chunkSize \in Nat /\ i % chunkSize < ChunkLength(i \div chunkSize)
           /\ i = (i \div chunkSize) * chunkSize + (i % chunkSize)
<1> DEFINE n == Len(entries)
           c == chunkSize
           m == n + c - 1
           k == i \div c
           a == i % c
<1>1. n \in Nat \ {0} /\ c \in Nat \ {0} /\ m \in Nat /\ i \in 0..(n - 1) /\ i \in Nat
  BY DEF BatchTypeOK, BatchEntries
<1>2. ChunkCount = m \div c
  BY DEF ChunkCount, RoundedUp
<1>3. k \in Nat /\ a \in 0..(c - 1) /\ i = k * c + a
  BY <1>1, Division
<1> HIDE DEF k, a
<1>4. (k + 1) * c = k * c + c /\ k * c \in Nat
  BY <1>1, <1>3
<1>5. (k + 1) * c <= m
  BY <1>1, <1>3, <1>4
<1>6. k + 1 <= m \div c
  <2>1. k + 1 \in Nat
    BY <1>3
  <2> QED BY <2>1, <1>1, <1>3, <1>5, QuotientBound
<1>7. m \div c \in Nat
  BY <1>1, QuotientBound
<1>8. k < ChunkCount
  BY <1>2, <1>3, <1>6, <1>7
<1>9. ChunkLength(k) = IF (k + 1) * c <= n THEN c ELSE n - k * c
  BY DEF ChunkLength
<1>10. a < ChunkLength(k)
  BY <1>1, <1>3, <1>4, <1>9
<1>11. k \in 0..(MaxEntries - 1)
  BY <1>3, <1>8, ChunksAreInside
<1> QED BY <1>1, <1>3, <1>8, <1>10, <1>11 DEF k, a

\* The entry a running thread is at.
LEMMA EntryOfThread ==
    ASSUME BatchTypeOK, NEW k \in 0..(MaxEntries - 1), Running(k)
    PROVE  /\ Index(k) \in BatchEntries /\ Index(k) \in Nat
           /\ Index(k) \div chunkSize = k /\ Index(k) % chunkSize = thread[k].at
           /\ \A i \in BatchEntries : i \div chunkSize = k /\ i % chunkSize = thread[k].at
                                   => i = Index(k)
           /\ k < ChunkCount
<1>1. k \in Nat /\ k < ChunkCount /\ thread[k].at < ChunkLength(k) /\ thread[k].at \in Nat
  <2>1. thread[k] \in Thread /\ spawned \in 0..ChunkCount /\ ChunkCount \in Int
    <3>1. ChunkCount = (Len(entries) + chunkSize - 1) \div chunkSize
      BY DEF ChunkCount, RoundedUp
    <3> QED BY <3>1 DEF BatchTypeOK
  <2> QED BY <2>1 DEF Running, Thread
<1>2. /\ ChunkLength(k) \in 1..chunkSize /\ k * chunkSize \in Nat
      /\ k * chunkSize + ChunkLength(k) <= Len(entries)
  BY <1>1, ChunksAreInside
<1>3. chunkSize \in Nat \ {0} /\ Len(entries) \in Nat
  BY DEF BatchTypeOK
<1>4. thread[k].at \in 0..(chunkSize - 1)
  BY <1>1, <1>2, <1>3
<1>5. Index(k) \in Nat /\ Index(k) \div chunkSize = k /\ Index(k) % chunkSize = thread[k].at
  BY <1>1, <1>3, <1>4, QuotientOf DEF Index
<1>6. Index(k) \in BatchEntries
  <2> DEFINE base == k * chunkSize
  <2>1. base \in Nat /\ base + ChunkLength(k) <= Len(entries) /\ ChunkLength(k) \in Nat
    BY <1>2, <1>3
  <2>2. Index(k) = base + thread[k].at
    BY DEF Index
  <2> HIDE DEF base
  <2>3. Index(k) <= Len(entries) - 1
    BY <1>1, <1>3, <2>1, <2>2
  <2> QED BY <1>3, <1>5, <2>3 DEF BatchEntries
<1>7. ASSUME NEW i \in BatchEntries, i \div chunkSize = k, i % chunkSize = thread[k].at
      PROVE  i = Index(k)
  <2>1. i = (i \div chunkSize) * chunkSize + (i % chunkSize)
    BY ChunkOfEntry
  <2> QED BY <1>7, <2>1 DEF Index
<1> QED BY <1>1, <1>5, <1>6, <1>7

\* The thread of chunk k goes on from its entry j, or to pushing it.
GoesOn(k, j, r) ==
    /\ BatchTypeOK /\ Running(k) /\ ThreadInv(k) /\ j = Index(k)
    /\ thread' = [thread EXCEPT ![k] = r] /\ UNCHANGED <<entries, chunkSize, spawned>>
    /\ \/ r = [at |-> thread[k].at + 1, pushing |-> FALSE]
       \/ r = [at |-> thread[k].at, pushing |-> TRUE] /\ ~entries[j + 1]

\* No other entry is affected.
LEMMA OneThreadMoves ==
    ASSUME NEW k \in 0..(MaxEntries - 1), NEW j \in BatchEntries, NEW r \in Thread,
           GoesOn(k, j, r)
    PROVE  /\ \A i \in BatchEntries \ {j} :
                (Passed(i)' <=> Passed(i)) /\ (Counted(i)' <=> Counted(i))
           /\ ~Passed(j) /\ (Counted(j) <=> thread[k].pushing)
           /\ (Passed(j)' <=> ~r.pushing) /\ Counted(j)'
           /\ \A l \in 0..(MaxEntries - 1) : ThreadInv(l) => ThreadInv(l)'
           /\ thread' \in [0..(MaxEntries - 1) -> Thread]
<1> USE DEF GoesOn
<1> DEFINE a == thread[k].at
<1>1. /\ j \in Nat /\ j \div chunkSize = k /\ j % chunkSize = a
      /\ \A i \in BatchEntries : i \div chunkSize = k /\ i % chunkSize = a => i = j
  BY EntryOfThread
<1>2. thread[k] \in Thread /\ a \in Nat /\ r.at \in {a, a + 1} /\ (r.at = a <=> r.pushing)
      /\ r.pushing \in BOOLEAN
      /\ thread'[k] = r /\ thread' \in [0..(MaxEntries - 1) -> Thread]
      /\ \A l \in 0..(MaxEntries - 1) : l # k => thread'[l] = thread[l]
  BY DEF BatchTypeOK, Thread
<1> HIDE DEF a
<1>4. ASSUME NEW i \in BatchEntries, i # j
      PROVE  (Passed(i)' <=> Passed(i)) /\ (Counted(i)' <=> Counted(i))
  <2> DEFINE l == i \div chunkSize
             b == i % chunkSize
  <2>1. l \in 0..(MaxEntries - 1) /\ b \in Nat
    BY ChunkOfEntry
  <2>2. CASE l # k
    BY <1>2, <2>1, <2>2 DEF Passed, Counted
  <2>3. CASE l = k
    <3>1. b # a
      BY <1>1, <1>4, <2>3
    <3>2. Passed(i) <=> b < a
      BY <2>3 DEF Passed, a
    <3>3. Passed(i)' <=> b < r.at
      BY <1>2, <2>3 DEF Passed
    <3>4. Passed(i)' <=> Passed(i)
      BY <1>2, <2>1, <3>1, <3>2, <3>3
    <3>5. Counted(i) <=> Passed(i)
      BY <2>3, <3>1 DEF Counted, a
    <3>6. Counted(i)' <=> Passed(i)' \/ (b = r.at /\ r.pushing)
      BY <1>2, <2>3 DEF Counted
    <3> QED BY <1>2, <3>1, <3>4, <3>5, <3>6
  <2> QED BY <2>2, <2>3
<1>5. ~Passed(j) /\ (Counted(j) <=> thread[k].pushing)
  BY <1>1, <1>2 DEF Passed, Counted, a
<1>6. (Passed(j)' <=> ~r.pushing) /\ Counted(j)'
  <2>1. Passed(j)' <=> a < r.at
    BY <1>1, <1>2 DEF Passed
  <2>2. Counted(j)' <=> Passed(j)' \/ (a = r.at /\ r.pushing)
    BY <1>1, <1>2 DEF Counted
  <2> QED BY <1>2, <2>1, <2>2
<1>7. ASSUME NEW l \in 0..(MaxEntries - 1), ThreadInv(l) PROVE ThreadInv(l)'
  <2>1. ChunkLength(l)' = ChunkLength(l)
    BY DEF ChunkLength
  <2>2. CASE l # k
    <3>1. thread'[l] = thread[l]
      BY <1>2, <2>2
    <3> QED BY <1>7, <2>1, <3>1 DEF ThreadInv, Running, Index
  <2>3. CASE l = k
    <3>1. k < spawned /\ a < ChunkLength(k) /\ spawned \in Int /\ ChunkLength(k) \in Int
      <4>1. ChunkLength(k) \in 1..chunkSize
        BY EntryOfThread, ChunksAreInside
      <4> QED BY <4>1 DEF Running, a, BatchTypeOK
    <3>2. r.at <= ChunkLength(k)
      BY <1>2, <3>1
    <3>3. r.pushing => r.at = a /\ ~entries[j + 1]
      BY <1>2 DEF a
    <3>4. r.pushing => Running(k)' /\ Index(k)' = j
      BY <1>2, <2>1, <2>3, <3>1, <3>3 DEF Running, Index, a
    <3> QED BY <1>2, <2>1, <2>3, <3>1, <3>2, <3>3, <3>4 DEF ThreadInv
  <2> QED BY <2>2, <2>3
<1> QED BY <1>2, <1>4, <1>5, <1>6, <1>7

\* The three sets are finite, and grow by the entry that goes through.
LEMMA EntrySetsAreFinite ==
    ASSUME BatchTypeOK
    PROVE  IsFiniteSet(VerifiedSet) /\ IsFiniteSet(FailedSet) /\ IsFiniteSet(PushedSet)
<1>1. IsFiniteSet(BatchEntries)
  <2>1. Len(entries) - 1 \in Int
    BY DEF BatchTypeOK
  <2> QED BY <2>1, FS_Interval DEF BatchEntries
<1> QED BY <1>1, FS_Subset DEF VerifiedSet, FailedSet, PushedSet

LEMMA BatchInvInit == BatchInit => BatchInv
BY DEF BatchInit, BatchInv

LEMMA ChunkSizeOfBatch ==
    ASSUME NEW n \in 1..MaxEntries, NEW t \in 0..MaxThreads
    PROVE  /\ ChunkSize(n, t) \in Nat \ {0}
           /\ RoundedUp(n, ChunkSize(n, t)) \in Nat
<1> DEFINE e == EffectiveThreads(t)
<1>1. n \in Nat \ {0} /\ e \in Nat \ {0}
  BY BatchAssumption DEF EffectiveThreads
<1> HIDE DEF e
<1>2. 1 * e <= n + e - 1 /\ n + e - 1 \in Nat /\ 1 \in Nat
  BY <1>1
<1>3. (n + e - 1) \div e \in Nat
  BY <1>1, <1>2, Division
<1>4. 1 <= (n + e - 1) \div e
  BY <1>1, <1>2, QuotientBound
<1>5. ChunkSize(n, t) \in Nat \ {0}
  BY <1>3, <1>4 DEF ChunkSize, RoundedUp, e
<1>6. n + ChunkSize(n, t) - 1 \in Nat
  BY <1>1, <1>5
<1> QED BY <1>5, <1>6, Division DEF RoundedUp

LEMMA StartKeepsBatchInv == BatchInv /\ StartBatch => BatchInv'
<1> SUFFICES ASSUME BatchInv, StartBatch, batch' # "panicked" PROVE BatchInv'
  BY DEF BatchInv, StartBatch
<1>1. PICK n \in 0..MaxEntries, t \in 0..MaxThreads :
        entries' \in [1..n -> BOOLEAN] /\ chunkSize' = ChunkSize(n, t)
  BY DEF StartBatch
<1>2. /\ batch' = "running" /\ chunkSize' # 0 /\ spawned' = 0
      /\ verified' = 0 /\ failed' = 0 /\ failedIndices' = <<>>
      /\ thread' = [k \in 0..(MaxEntries - 1) |-> [at |-> 0, pushing |-> FALSE]]
  BY DEF StartBatch, BatchInv, AtRest
<1>3. n # 0
  <2> SUFFICES ASSUME n = 0 PROVE FALSE
    OBVIOUS
  <2> DEFINE e == EffectiveThreads(t)
  <2>1. e \in Nat \ {0}
    BY BatchAssumption DEF EffectiveThreads
  <2> HIDE DEF e
  <2>2. 0 + e - 1 \in Nat /\ 1 \in Nat /\ ~(1 * e <= 0 + e - 1)
    BY <2>1
  <2>3. (0 + e - 1) \div e \in Nat
    BY <2>1, <2>2, Division
  <2>4. ~(1 <= (0 + e - 1) \div e)
    BY <2>1, <2>2, QuotientBound
  <2>5. (0 + e - 1) \div e = 0
    BY <2>3, <2>4
  <2> QED BY <1>1, <1>2, <2>5 DEF ChunkSize, RoundedUp, e
<1>4. n \in 1..MaxEntries /\ n \in Nat
  BY <1>3, BatchAssumption
<1>5. Len(entries') = n /\ entries' \in Seq(BOOLEAN)
  BY <1>1, <1>4
<1>6. chunkSize' \in Nat \ {0} /\ ChunkCount' \in Nat
  BY <1>1, <1>4, <1>5, ChunkSizeOfBatch DEF ChunkCount
<1>7. BatchTypeOK'
  BY <1>2, <1>4, <1>5, <1>6 DEF BatchTypeOK, Thread
<1>8. \A k \in 0..(MaxEntries - 1) : ThreadInv(k)'
  BY <1>2, BatchAssumption DEF ThreadInv
<1>9. \A i \in BatchEntries' : ~Passed(i)' /\ ~Counted(i)'
  <2> SUFFICES ASSUME NEW i \in BatchEntries' PROVE ~Passed(i)' /\ ~Counted(i)'
    OBVIOUS
  <2>0. PICK c \in Nat \ {0} : chunkSize' = c
    BY <1>6
  <2>3. /\ (i \div chunkSize)' \in 0..(MaxEntries - 1)
        /\ (i % chunkSize)' \in Nat
    <3> DEFINE q == i \div c
               r == i % c
               p == q * c
    <3>1. i \in Nat /\ i < n
      BY <1>4, <1>5 DEF BatchEntries
    <3>2. q \in Nat /\ r \in 0..(c - 1) /\ i = p + r
      BY <3>1, Division
    <3> HIDE DEF q, r
    <3>3. p \in Nat /\ q <= p
      BY <3>2
    <3> HIDE DEF p
    <3>4. q \in 0..(MaxEntries - 1)
      BY <3>1, <3>2, <3>3, <1>4, BatchAssumption
    <3> QED BY <2>0, <3>2, <3>4 DEF q, r
  <2>1. (thread[i \div chunkSize])' = [at |-> 0, pushing |-> FALSE]
    BY <1>2, <2>3
  <2> QED BY <2>3, <2>1 DEF Passed, Counted
<1>10. VerifiedSet' = {} /\ FailedSet' = {} /\ PushedSet' = {}
  BY <1>9 DEF VerifiedSet, FailedSet, PushedSet
<1> QED BY <1>2, <1>7, <1>8, <1>10, FS_EmptySet DEF BatchInv, Range

LEMMA SpawnKeepsBatchInv == BatchInv /\ SpawnThread => BatchInv'
<1> SUFFICES ASSUME BatchInv, SpawnThread PROVE BatchInv'
  OBVIOUS
<1>1. /\ batch = "running" /\ batch' = "running" /\ spawned' = spawned + 1
      /\ UNCHANGED <<entries, chunkSize, thread, verified, failed, failedIndices>>
      /\ spawned < ChunkCount /\ BatchTypeOK /\ spawned \in Nat /\ ChunkCount \in Int
  <2>1. ChunkCount = (Len(entries) + chunkSize - 1) \div chunkSize
    BY DEF ChunkCount, RoundedUp
  <2>2. batch = "running" /\ BatchTypeOK
    BY DEF SpawnThread, BatchInv
  <2>3. Len(entries) + chunkSize - 1 \in Nat /\ chunkSize \in Nat \ {0}
    BY <2>2 DEF BatchTypeOK
  <2>4. ChunkCount \in Nat
    BY <2>1, <2>3, Division
  <2> QED BY <2>2, <2>4 DEF SpawnThread, BatchTypeOK
<1>2. BatchTypeOK'
  BY <1>1 DEF BatchTypeOK, ChunkCount
<1>3. ASSUME NEW k \in 0..(MaxEntries - 1) PROVE ThreadInv(k)'
  <2>1. ThreadInv(k)
    BY <1>1 DEF BatchInv
  <2>2. ChunkLength(k)' = ChunkLength(k) /\ Index(k)' = Index(k)
    BY <1>1 DEF ChunkLength, Index
  <2>3. CASE k = spawned
    <3>1. ChunkLength(k) \in 1..chunkSize /\ chunkSize \in Nat
      BY <1>1, <2>3, ChunksAreInside DEF BatchTypeOK
    <3> QED BY <1>1, <2>1, <2>2, <2>3, <3>1 DEF ThreadInv
  <2>4. CASE k # spawned
    <3>1. k < spawned' <=> k < spawned
      BY <1>1, <2>4
    <3> QED BY <1>1, <2>1, <2>2, <2>4, <3>1 DEF ThreadInv, Running
  <2> QED BY <2>3, <2>4
<1>4. VerifiedSet' = VerifiedSet /\ FailedSet' = FailedSet /\ PushedSet' = PushedSet
  BY <1>1 DEF VerifiedSet, FailedSet, PushedSet, BatchEntries, Passed, Counted
<1> QED BY <1>1, <1>2, <1>3, <1>4 DEF BatchInv

LEMMA VerifyKeepsBatchInv ==
    ASSUME BatchInv, NEW k \in 0..(MaxEntries - 1), VerifyEntry(k)
    PROVE  BatchInv'
<1>1. /\ batch = "running" /\ batch' = "running" /\ BatchTypeOK /\ Running(k)
      /\ ~thread[k].pushing /\ ThreadInv(k)
      /\ UNCHANGED <<entries, chunkSize, spawned, failedIndices>>
  BY DEF VerifyEntry, BatchInv
<1>2. PICK j \in BatchEntries : j = Index(k)
  BY <1>1, EntryOfThread
<1>3. thread[k] \in Thread
  BY <1>1 DEF BatchTypeOK
<1>4. /\ VerifiedSet \subseteq BatchEntries /\ FailedSet \subseteq BatchEntries
      /\ PushedSet \subseteq BatchEntries
      /\ IsFiniteSet(VerifiedSet) /\ IsFiniteSet(FailedSet)
  BY <1>1, EntrySetsAreFinite DEF VerifiedSet, FailedSet, PushedSet
<1>5. CASE entries[j + 1]
  <2> DEFINE r == [at |-> thread[k].at + 1, pushing |-> FALSE]
  <2>1. thread' = [thread EXCEPT ![k] = r] /\ r \in Thread
        /\ verified' = verified + 1 /\ failed' = failed /\ ~r.pushing
    BY <1>1, <1>2, <1>3, <1>5 DEF VerifyEntry, Thread, BatchTypeOK
  <2>2. r = [at |-> thread[k].at + 1, pushing |-> FALSE]
    OBVIOUS
  <2> HIDE DEF r
  <2>3. /\ \A i \in BatchEntries \ {j} :
                (Passed(i)' <=> Passed(i)) /\ (Counted(i)' <=> Counted(i))
        /\ ~Passed(j) /\ Passed(j)'
        /\ \A l \in 0..(MaxEntries - 1) : ThreadInv(l) => ThreadInv(l)'
        /\ thread' \in [0..(MaxEntries - 1) -> Thread]
    <3>1. GoesOn(k, j, r)
      BY <1>1, <1>2, <2>1, <2>2 DEF GoesOn
    <3> QED BY <2>1, <3>1, OneThreadMoves
  <2>4. VerifiedSet' = VerifiedSet \cup {j} /\ j \notin VerifiedSet
    BY <1>1, <1>2, <1>5, <2>3 DEF VerifiedSet, BatchEntries
  <2>5. FailedSet' = FailedSet /\ PushedSet' = PushedSet
    BY <1>1, <1>2, <1>5, <2>3 DEF FailedSet, PushedSet, BatchEntries
  <2>6. Cardinality(VerifiedSet') = Cardinality(VerifiedSet) + 1
    BY <1>4, <2>4, FS_AddElement
  <2>7. BatchTypeOK'
    BY <1>1, <2>3 DEF BatchTypeOK, ChunkCount
  <2> QED BY <1>1, <2>1, <2>3, <2>5, <2>6, <2>7 DEF BatchInv
<1>6. CASE ~entries[j + 1]
  <2> DEFINE r == [at |-> thread[k].at, pushing |-> TRUE]
  <2>1. thread' = [thread EXCEPT ![k] = r] /\ r \in Thread
        /\ verified' = verified /\ failed' = failed + 1 /\ r.pushing
    BY <1>1, <1>2, <1>3, <1>6 DEF VerifyEntry, Thread, BatchTypeOK
  <2>2. r = [at |-> thread[k].at, pushing |-> TRUE]
    OBVIOUS
  <2> HIDE DEF r
  <2>3. /\ \A i \in BatchEntries \ {j} :
                (Passed(i)' <=> Passed(i)) /\ (Counted(i)' <=> Counted(i))
        /\ ~Passed(j) /\ ~Passed(j)' /\ ~Counted(j) /\ Counted(j)'
        /\ \A l \in 0..(MaxEntries - 1) : ThreadInv(l) => ThreadInv(l)'
        /\ thread' \in [0..(MaxEntries - 1) -> Thread]
    <3>1. GoesOn(k, j, r)
      BY <1>1, <1>2, <1>6, <2>1, <2>2 DEF GoesOn
    <3> QED BY <1>1, <2>1, <3>1, OneThreadMoves
  <2>4. FailedSet' = FailedSet \cup {j} /\ j \notin FailedSet
    BY <1>1, <1>2, <1>6, <2>3 DEF FailedSet, BatchEntries
  <2>5. VerifiedSet' = VerifiedSet /\ PushedSet' = PushedSet
    BY <1>1, <1>2, <1>6, <2>3 DEF VerifiedSet, PushedSet, BatchEntries
  <2>6. Cardinality(FailedSet') = Cardinality(FailedSet) + 1
    BY <1>4, <2>4, FS_AddElement
  <2>7. BatchTypeOK'
    BY <1>1, <2>3 DEF BatchTypeOK, ChunkCount
  <2> QED BY <1>1, <2>1, <2>3, <2>5, <2>6, <2>7 DEF BatchInv
<1> QED BY <1>5, <1>6

LEMMA PushKeepsBatchInv ==
    ASSUME BatchInv, NEW k \in 0..(MaxEntries - 1), PushIndex(k)
    PROVE  BatchInv'
<1>1. /\ batch = "running" /\ batch' = "running" /\ BatchTypeOK /\ Running(k)
      /\ thread[k].pushing /\ ThreadInv(k)
      /\ UNCHANGED <<entries, chunkSize, spawned, verified, failed>>
  BY DEF PushIndex, BatchInv
<1>2. PICK j \in BatchEntries : j = Index(k)
  BY <1>1, EntryOfThread
<1>3. thread[k] \in Thread /\ j \in Nat
  BY <1>1, <1>2, EntryOfThread DEF BatchTypeOK
<1>4. ~entries[j + 1]
  BY <1>1, <1>2 DEF ThreadInv
<1> DEFINE r == [at |-> thread[k].at + 1, pushing |-> FALSE]
<1>5. thread' = [thread EXCEPT ![k] = r] /\ r \in Thread /\ ~r.pushing
      /\ failedIndices' = Append(failedIndices, j)
  BY <1>1, <1>2, <1>3 DEF PushIndex, Thread, BatchTypeOK
<1>6. r = [at |-> thread[k].at + 1, pushing |-> FALSE]
  OBVIOUS
<1> HIDE DEF r
<1>7. /\ \A i \in BatchEntries \ {j} :
              (Passed(i)' <=> Passed(i)) /\ (Counted(i)' <=> Counted(i))
      /\ ~Passed(j) /\ Passed(j)' /\ Counted(j) /\ Counted(j)'
      /\ \A l \in 0..(MaxEntries - 1) : ThreadInv(l) => ThreadInv(l)'
      /\ thread' \in [0..(MaxEntries - 1) -> Thread]
  <2>1. GoesOn(k, j, r)
    BY <1>1, <1>2, <1>5, <1>6 DEF GoesOn
  <2> QED BY <1>1, <1>5, <2>1, OneThreadMoves
<1>8. PushedSet' = PushedSet \cup {j} /\ j \notin PushedSet
  BY <1>1, <1>2, <1>4, <1>7 DEF PushedSet, BatchEntries
<1>9. VerifiedSet' = VerifiedSet /\ FailedSet' = FailedSet
  BY <1>1, <1>2, <1>4, <1>7 DEF VerifiedSet, FailedSet, BatchEntries
<1>10. /\ failedIndices \in Seq(Nat) /\ Range(failedIndices) = PushedSet
       /\ \A a, b \in DOMAIN failedIndices : failedIndices[a] = failedIndices[b] => a = b
  BY <1>1 DEF BatchInv, BatchTypeOK
<1>11. /\ failedIndices' \in Seq(Nat)
       /\ DOMAIN failedIndices' = DOMAIN failedIndices \cup {Len(failedIndices) + 1}
       /\ failedIndices'[Len(failedIndices) + 1] = j
       /\ Len(failedIndices) + 1 \notin DOMAIN failedIndices
       /\ \A a \in DOMAIN failedIndices : failedIndices'[a] = failedIndices[a]
  BY <1>3, <1>5, <1>10
<1>12. Range(failedIndices') = PushedSet'
  BY <1>8, <1>10, <1>11 DEF Range
<1>13. \A a \in DOMAIN failedIndices : failedIndices[a] # j
  BY <1>8, <1>10 DEF Range
<1>14. \A a, b \in DOMAIN failedIndices' : failedIndices'[a] = failedIndices'[b] => a = b
  BY <1>10, <1>11, <1>13
<1>15. BatchTypeOK'
  BY <1>1, <1>7, <1>11 DEF BatchTypeOK, ChunkCount
<1> QED BY <1>1, <1>7, <1>9, <1>12, <1>14, <1>15 DEF BatchInv

LEMMA JoinKeepsBatchInv == BatchInv /\ JoinThreads => BatchInv'
<1> SUFFICES ASSUME BatchInv, JoinThreads PROVE BatchInv'
  OBVIOUS
<1>1. /\ batch = "running" /\ batch' = "done" /\ spawned = ChunkCount /\ BatchTypeOK
      /\ \A k \in 0..(spawned - 1) : ~Running(k)
      /\ UNCHANGED <<entries, chunkSize, spawned, thread, verified, failed, failedIndices>>
  BY DEF JoinThreads, BatchInv
<1>2. ASSUME NEW i \in BatchEntries PROVE Passed(i)
  <2> DEFINE k == i \div chunkSize
  <2>1. k \in 0..(MaxEntries - 1) /\ k < ChunkCount
        /\ i % chunkSize \in Nat /\ i % chunkSize < ChunkLength(k)
    BY <1>1, ChunkOfEntry
  <2>2. thread[k] \in Thread /\ spawned \in Int
    <3>1. Len(entries) + chunkSize - 1 \in Nat /\ chunkSize \in Nat \ {0}
      BY <1>1 DEF BatchTypeOK
    <3> QED BY <1>1, <2>1, <3>1, Division DEF BatchTypeOK, ChunkCount, RoundedUp
  <2>3. ~(thread[k].at < ChunkLength(k))
    <3>1. k \in 0..(spawned - 1)
      BY <1>1, <2>1, <2>2
    <3> HIDE DEF k
    <3> QED BY <1>1, <2>1, <3>1 DEF Running
  <2>4. ChunkLength(k) \in 1..chunkSize /\ chunkSize \in Nat /\ thread[k].at \in Nat
    BY <1>1, <2>1, <2>2, ChunksAreInside DEF BatchTypeOK, Thread
  <2> QED BY <2>1, <2>3, <2>4 DEF Passed
<1>3. VerifiedSet' = VerifiedSet /\ FailedSet' = FailedSet /\ PushedSet' = PushedSet
  BY <1>1 DEF VerifiedSet, FailedSet, PushedSet, BatchEntries, Passed, Counted
<1>4. \A i \in BatchEntries' : Passed(i)'
  BY <1>1, <1>2 DEF BatchEntries, Passed
<1>5. BatchTypeOK' /\ \A k \in 0..(MaxEntries - 1) : ThreadInv(k)'
  BY <1>1 DEF BatchInv, BatchTypeOK, ThreadInv, Running, Index, ChunkLength, ChunkCount
<1> QED BY <1>1, <1>3, <1>4, <1>5 DEF BatchInv

LEMMA BatchInvStep == BatchInv /\ [BatchNext]_batchVars => BatchInv'
<1> SUFFICES ASSUME BatchInv, [BatchNext]_batchVars PROVE BatchInv'
  OBVIOUS
<1>1. CASE UNCHANGED batchVars
  BY <1>1 DEF batchVars, BatchInv, AtRest, BatchTypeOK, ThreadInv, Running, Index,
     ChunkLength, ChunkCount, VerifiedSet, FailedSet, PushedSet, BatchEntries, Passed, Counted
<1> QED BY <1>1, StartKeepsBatchInv, SpawnKeepsBatchInv, VerifyKeepsBatchInv,
           PushKeepsBatchInv, JoinKeepsBatchInv DEF BatchNext

\* Sorting a sequence whose elements are all different is going through them
\* from the lowest.
LEMMA SortedIsAscending ==
    ASSUME NEW s \in Seq(Nat), NEW S, S = Range(s),
           \A i, j \in DOMAIN s : s[i] = s[j] => i = j
    PROVE  IsFiniteSet(S) /\ Cardinality(S) = Len(s) /\ Sorted(s) = Ascending(S)
<1> DEFINE n == Len(s)
<1>1. n \in Nat /\ DOMAIN s = 1..n /\ IsFiniteSet(1..n) /\ Cardinality(1..n) = n
      /\ S \subseteq Nat /\ s \in [1..n -> S]
  <2>1. n \in Nat /\ DOMAIN s = 1..n /\ s \in [1..n -> Nat]
    OBVIOUS
  <2> HIDE DEF n
  <2>2. IsFiniteSet(1..n) /\ Cardinality(1..n) = n
    <3>1. IsFiniteSet(1..n) /\ Cardinality(1..n) = IF 1 > n THEN 0 ELSE n - 1 + 1
      BY <2>1, FS_Interval
    <3> QED BY <2>1, <3>1
  <2> QED BY <2>1, <2>2 DEF Range
<1> HIDE DEF n
<1>2. s \in Surjection(1..n, S) /\ s \in Injection(1..n, S)
  BY <1>1 DEF Surjection, Injection, IsInjective, Range
<1>3. IsFiniteSet(S) /\ Cardinality(S) = n
  BY <1>1, <1>2, FS_Surjection
<1>4. ASSUME NEW x \in S PROVE Occurrences(s, x) = 1
  <2>1. PICK k \in 1..n : s[k] = x
    BY <1>1, <1>4 DEF Range
  <2>2. {i \in DOMAIN s : s[i] = x} = {k}
    BY <1>1, <2>1
  <2> QED BY <2>2, FS_Singleton DEF Occurrences
<1>5. ASSUME NEW t \in [1..n -> S],
             \A i, j \in 1..n : i < j => t[i] < t[j]
      PROVE  /\ \A i, j \in 1..n : i < j => t[i] <= t[j]
             /\ \A x \in S : Occurrences(t, x) = Occurrences(s, x)
  <2>1. \A i, j \in 1..n : i < j => t[i] <= t[j]
    BY <1>1, <1>5
  <2>2. t \in Injection(1..n, S)
    <3>1. ASSUME NEW i \in 1..n, NEW j \in 1..n, i # j PROVE t[i] # t[j]
      <4>1. i < j \/ j < i
        BY <1>1, <3>1
      <4>2. t[i] \in Nat /\ t[j] \in Nat
        BY <1>1, <1>5
      <4> QED BY <1>5, <4>1, <4>2
    <3> QED BY <1>5, <3>1 DEF Injection, IsInjective
  <2>3. t \in Surjection(1..n, S)
    BY <1>1, <1>3, <2>2, FS_Injection
  <2>4. ASSUME NEW x \in S PROVE Occurrences(t, x) = 1
    <3>1. PICK k \in 1..n : t[k] = x
      BY <2>3 DEF Surjection
    <3>2. \A i \in 1..n : t[i] = x => i = k
      BY <2>2, <3>1 DEF Injection, IsInjective
    <3>3. {i \in DOMAIN t : t[i] = x} = {k}
      BY <1>5, <3>1, <3>2
    <3> QED BY <3>3, FS_Singleton DEF Occurrences
  <2> QED BY <1>4, <2>1, <2>4
<1>6. ASSUME NEW t \in [1..n -> S],
             \A i, j \in 1..n : i < j => t[i] <= t[j],
             \A x \in S : Occurrences(t, x) = Occurrences(s, x),
             NEW i \in 1..n, NEW j \in 1..n, i < j
      PROVE  t[i] < t[j]
  <2> DEFINE T == {k \in DOMAIN t : t[k] = t[i]}
  <2>1. IsFiniteSet(T) /\ Cardinality(T) = 1
    <3>1. t[i] \in S /\ T \subseteq 1..n
      BY <1>6
    <3>2. IsFiniteSet(T)
      BY <1>1, <3>1, FS_Subset
    <3> QED BY <1>4, <1>6, <3>1, <3>2 DEF Occurrences
  <2>2. PICK k : T = {k}
    BY <2>1, FS_Singleton
  <2>3. t[i] # t[j]
    <3>1. i # j
      BY <1>1, <1>6
    <3> QED BY <1>6, <2>2, <3>1
  <2>4. t[i] \in Nat /\ t[j] \in Nat /\ t[i] <= t[j]
    BY <1>1, <1>6
  <2> QED BY <2>3, <2>4
<1>7. \A t \in [1..n -> S] :
        (/\ \A i, j \in 1..n : i < j => t[i] <= t[j]
         /\ \A x \in S : Occurrences(t, x) = Occurrences(s, x))
        <=> \A i, j \in 1..n : i < j => t[i] < t[j]
  BY <1>5, <1>6
<1>8. Sorted(s) = CHOOSE t \in [1..n -> S] :
                     /\ \A i, j \in 1..n : i < j => t[i] <= t[j]
                     /\ \A x \in S : Occurrences(t, x) = Occurrences(s, x)
  BY <1>1 DEF Sorted
<1>9. Ascending(S) = CHOOSE t \in [1..n -> S] :
                        \A i, j \in 1..n : i < j => t[i] < t[j]
  BY <1>3 DEF Ascending
<1>10. Sorted(s) = Ascending(S)
  BY <1>7, <1>8, <1>9
<1> QED BY <1>3, <1>10 DEF n

\* However the threads share a batch out and in whatever order they count and
\* push, the parallel function reports what the sequential one does, for a batch
\* of any length and any number of threads (batch_verify.rs 82-138 against 47-79).
THEOREM ParallelReportsWhatSequentialDoes == BatchSpec => []ParallelIsSequential
<1>1. BatchInv => ParallelIsSequential
  <2> SUFFICES ASSUME BatchInv, batch = "done" PROVE Report = Sequential(entries)
    BY DEF ParallelIsSequential
  <2> DEFINE bad == {i \in BatchEntries : ~entries[i + 1]}
  <2>1. /\ BatchTypeOK /\ verified = Cardinality(VerifiedSet)
        /\ failed = Cardinality(FailedSet) /\ Range(failedIndices) = PushedSet
        /\ \A i, j \in DOMAIN failedIndices : failedIndices[i] = failedIndices[j] => i = j
        /\ \A i \in BatchEntries : Passed(i)
    BY DEF BatchInv
  <2>2. FailedSet = bad /\ PushedSet = bad /\ VerifiedSet = BatchEntries \ bad
    BY <2>1 DEF FailedSet, PushedSet, VerifiedSet, Counted
  <2>3. IsFiniteSet(BatchEntries) /\ Cardinality(BatchEntries) = Len(entries)
    <3>1. Len(entries) \in Nat \ {0}
      BY <2>1 DEF BatchTypeOK
    <3> DEFINE n == Len(entries)
    <3>2. BatchEntries = 0..(n - 1) /\ n \in Nat \ {0}
      BY <3>1 DEF BatchEntries
    <3> HIDE DEF n
    <3>3. IsFiniteSet(0..(n - 1)) /\ Cardinality(0..(n - 1)) = n
      BY <3>2, FS_Interval
    <3> QED BY <3>2, <3>3 DEF n
  <2>4. Cardinality(BatchEntries \ bad) = Cardinality(BatchEntries) - Cardinality(bad)
    <3>1. BatchEntries \cap bad = bad
      OBVIOUS
    <3> HIDE DEF bad
    <3>2. Cardinality(BatchEntries \ bad)
            = Cardinality(BatchEntries) - Cardinality(BatchEntries \cap bad)
      BY <2>3, FS_Difference
    <3> QED BY <3>1, <3>2
  <2>5. verified = Len(entries) - Cardinality(bad) /\ failed = Cardinality(bad)
    BY <2>1, <2>2, <2>3, <2>4
  <2>6. Sorted(failedIndices) = Ascending(bad)
    BY <2>1, <2>2, SortedIsAscending DEF BatchTypeOK
  <2> QED BY <2>5, <2>6 DEF Report, Sequential, BatchEntries
<1> QED BY <1>1, BatchInvInit, BatchInvStep, PTL DEF BatchSpec

----------------------------------------------------------------------------
\* Multi-signatures.

Contribution(m) == [key : SignerKeys, signature : [key : SignerKeys, message : {m}]]

\* A contribution is a signature of the message the builder was made for, and
\* what build() hands out has as many of them as it requires.
MultiInv ==
    /\ stage \in {"none", "building", "built", "refused"}
    /\ stage # "none" =>
         /\ multi.messageHash \in Documents /\ multi.required \in Nat
         /\ multi = [messageHash |-> multi.messageHash,
                     contributions |-> multi.contributions, required |-> multi.required]
         /\ multi.contributions \in Seq(Contribution(multi.messageHash))
    /\ stage = "built" => Len(multi.contributions) >= multi.required

LEMMA MultiInvStep == MultiInv /\ [MultiNext]_multiVars => MultiInv'
<1> SUFFICES ASSUME MultiInv, [MultiNext]_multiVars PROVE MultiInv'
    OBVIOUS
<1>1. CASE NewMultiSignature
  <2>1. PICK m \in Documents, r \in 0..MaxSigners :
          multi' = [messageHash |-> m, contributions |-> <<>>, required |-> r]
    BY <1>1 DEF NewMultiSignature
  <2>2. r \in Nat
    BY MultiSignatureAssumption
  <2> QED BY <1>1, <2>1, <2>2 DEF NewMultiSignature, MultiInv
<1>2. CASE AddSigner
  <2>1. PICK seed \in SignerKeys, key \in SignerKeys :
          multi' = [multi EXCEPT !.contributions =
            Append(@, [key |-> key,
                       signature |-> [key |-> seed, message |-> multi.messageHash]])]
    BY <1>2 DEF AddSigner
  <2> DEFINE c == [key |-> key, signature |-> [key |-> seed, message |-> multi.messageHash]]
  <2>2. c \in Contribution(multi.messageHash)
    BY DEF Contribution
  <2>3. multi' = [messageHash |-> multi.messageHash,
                  contributions |-> Append(multi.contributions, c),
                  required |-> multi.required]
    BY <1>2, <2>1 DEF AddSigner, MultiInv
  <2>4. Append(multi.contributions, c) \in Seq(Contribution(multi.messageHash))
    BY <1>2, <2>2, AppendProperties DEF AddSigner, MultiInv
  <2> HIDE DEF c
  <2> QED BY <1>2, <2>3, <2>4 DEF AddSigner, MultiInv
<1>3. CASE Build
  BY <1>3 DEF Build, MultiInv
<1>4. CASE UNCHANGED multiVars
  BY <1>4 DEF multiVars, MultiInv
<1> QED BY <1>1, <1>2, <1>3, <1>4 DEF MultiNext

\* A multi-signature that build() hands out verifies for its own message only,
\* and exactly when each recorded key is that of the seed that signed
\* (batch_verify.rs 168-233).
THEOREM MultiSignaturesVerify == MultiSpec => []BuiltVerifies
<1>1. MultiInit => MultiInv
  BY DEF MultiInit, MultiInv
<1>2. MultiInv => BuiltVerifies
  <2> SUFFICES ASSUME MultiInv, stage = "built", NEW m \in Documents
               PROVE  VerifyMultiSignature(multi, m) <=>
                        /\ m = multi.messageHash
                        /\ \A c \in Range(multi.contributions) : c.signature.key = c.key
      BY DEF BuiltVerifies
  <2>1. \A c \in Range(multi.contributions) : c \in Contribution(multi.messageHash)
    BY DEF MultiInv, Range
  <2>2. \A c \in Range(multi.contributions) :
          Authentic(c.key, multi.messageHash, c.signature) <=> c.signature.key = c.key
    BY <2>1 DEF Authentic, Contribution
  <2> QED BY <2>2 DEF VerifyMultiSignature, MultiInv
<1> QED BY <1>1, <1>2, MultiInvStep, PTL DEF MultiSpec

----------------------------------------------------------------------------
\* Aggregates.

Given == [key : SignKeys, message : SignMessages, signature : Signatures]

Entry == [messageHash : SignMessages, signature : Signatures]

EntryOf(g) == [messageHash |-> g.message, signature |-> g.signature]

\* Every entry finds the key it was added with behind its index.
AggregateInv ==
    /\ added \in Seq(Given) /\ finalized \in BOOLEAN
    /\ aggregate.entries \in Seq(Entry) /\ Len(aggregate.entries) = Len(added)
    /\ \A i \in DOMAIN added : aggregate.entries[i] = EntryOf(added[i])
    /\ aggregate.publicKeys \in Seq(SignKeys)
    /\ aggregate.keyIndices \in Seq(Nat) /\ Len(aggregate.keyIndices) = Len(added)
    /\ \A i \in DOMAIN added :
         /\ aggregate.keyIndices[i] \in DOMAIN aggregate.publicKeys
         /\ aggregate.publicKeys[aggregate.keyIndices[i]] = added[i].key

\* A key that is stored is found at a position of its own.
LEMMA PositionOfKey ==
    ASSUME NEW keys \in Seq(SignKeys), NEW key
    PROVE  /\ key \in Range(keys) => /\ KeyPosition(keys, key) \in DOMAIN keys
                                     /\ keys[KeyPosition(keys, key)] = key
                                     /\ KeyPosition(keys, key) > 0
           /\ key \notin Range(keys) => KeyPosition(keys, key) = 0
<1>1. ASSUME key \in Range(keys) PROVE \E i \in DOMAIN keys : keys[i] = key
  BY <1>1 DEF Range
<1> QED BY <1>1 DEF KeyPosition

LEMMA AddKeepsEntries ==
    ASSUME AggregateInv, NEW k \in SignKeys, NEW m \in SignMessages, NEW s \in Signatures,
           AddToAggregate(k, m, s)
    PROVE  AggregateInv'
<1> DEFINE known == KeyPosition(aggregate.publicKeys, k)
           keys == IF known > 0 THEN aggregate.publicKeys ELSE Append(aggregate.publicKeys, k)
           index == IF known > 0 THEN known ELSE Len(keys)
           entry == [messageHash |-> m, signature |-> s]
           given == [key |-> k, message |-> m, signature |-> s]
<1>1. /\ aggregate' = [entries |-> Append(aggregate.entries, entry), publicKeys |-> keys,
                       keyIndices |-> Append(aggregate.keyIndices, index)]
      /\ added' = Append(added, given)
      /\ finalized' = finalized
  BY DEF AddToAggregate
<1>2. /\ keys \in Seq(SignKeys) /\ index \in DOMAIN keys /\ keys[index] = k /\ index \in Nat
      /\ \A i \in DOMAIN aggregate.publicKeys :
           i \in DOMAIN keys /\ keys[i] = aggregate.publicKeys[i]
  <2>1. aggregate.publicKeys \in Seq(SignKeys)
    BY DEF AggregateInv
  <2>2. CASE k \in Range(aggregate.publicKeys)
    BY <2>1, <2>2, PositionOfKey
  <2>3. CASE k \notin Range(aggregate.publicKeys)
    BY <2>1, <2>3, PositionOfKey
  <2> QED BY <2>2, <2>3
<1> HIDE DEF known, keys, index
<1>3. given \in Given
  BY DEF Given
<1>4. added \in Seq(Given) /\ added' \in Seq(Given) /\ Len(added') = Len(added) + 1
      /\ DOMAIN added = 1..Len(added) /\ DOMAIN added' = 1..(Len(added) + 1)
      /\ added'[Len(added) + 1] = given
      /\ \A i \in DOMAIN added : added'[i] = added[i]
  BY <1>1, <1>3 DEF AggregateInv
<1>5. /\ aggregate.keyIndices \in Seq(Nat) /\ Len(aggregate.keyIndices) = Len(added)
      /\ aggregate'.keyIndices = Append(aggregate.keyIndices, index)
      /\ aggregate'.publicKeys = keys
      /\ aggregate'.entries = Append(aggregate.entries, entry)
  BY <1>1 DEF AggregateInv
<1>6. /\ aggregate'.keyIndices \in Seq(Nat) /\ Len(aggregate'.keyIndices) = Len(added')
      /\ aggregate'.keyIndices[Len(added')] = index
      /\ \A i \in DOMAIN added : aggregate'.keyIndices[i] = aggregate.keyIndices[i]
  <2> DEFINE indices == aggregate.keyIndices
  <2>1. indices \in Seq(Nat) /\ aggregate'.keyIndices = Append(indices, index) /\ index \in Nat
        /\ Len(indices) = Len(added)
    BY <1>2, <1>5
  <2> HIDE DEF indices
  <2>2. /\ Append(indices, index) \in Seq(Nat)
        /\ Len(Append(indices, index)) = Len(added) + 1
        /\ Append(indices, index)[Len(added) + 1] = index
        /\ \A i \in 1..Len(added) : Append(indices, index)[i] = indices[i]
    BY <2>1, AppendProperties
  <2> QED BY <1>4, <2>1, <2>2 DEF indices
<1>7. /\ aggregate'.entries \in Seq(Entry) /\ Len(aggregate'.entries) = Len(added')
      /\ \A i \in DOMAIN added' : aggregate'.entries[i] = EntryOf(added'[i])
  <2>1. entry \in Entry /\ entry = EntryOf(given)
    BY DEF Entry, EntryOf
  <2>2. /\ aggregate.entries \in Seq(Entry) /\ Len(aggregate.entries) = Len(added)
        /\ \A i \in DOMAIN added : aggregate.entries[i] = EntryOf(added[i])
    BY DEF AggregateInv
  <2> HIDE DEF entry, given
  <2> QED BY <1>4, <1>5, <2>1, <2>2
<1>8. \A i \in DOMAIN added' :
         /\ aggregate'.keyIndices[i] \in DOMAIN aggregate'.publicKeys
         /\ aggregate'.publicKeys[aggregate'.keyIndices[i]] = added'[i].key
  <2> SUFFICES ASSUME NEW i \in DOMAIN added'
               PROVE  /\ aggregate'.keyIndices[i] \in DOMAIN aggregate'.publicKeys
                      /\ aggregate'.publicKeys[aggregate'.keyIndices[i]] = added'[i].key
      OBVIOUS
  <2>1. CASE i \in DOMAIN added
    <3> DEFINE old == aggregate.keyIndices[i]
    <3>1. old \in DOMAIN aggregate.publicKeys /\ aggregate.publicKeys[old] = added[i].key
      BY <2>1 DEF AggregateInv
    <3>2. aggregate'.keyIndices[i] = old /\ added'[i] = added[i]
          /\ aggregate'.publicKeys = keys
      BY <1>4, <1>5, <1>6, <2>1
    <3> HIDE DEF old
    <3>3. old \in DOMAIN keys /\ keys[old] = aggregate.publicKeys[old]
      BY <1>2, <3>1
    <3> QED BY <3>1, <3>2, <3>3
  <2>2. CASE i = Len(added')
    <3>1. aggregate'.keyIndices[i] = index /\ added'[i] = given
      BY <1>4, <1>6, <2>2
    <3>2. index \in DOMAIN keys /\ keys[index] = k /\ aggregate'.publicKeys = keys
      BY <1>2, <1>5
    <3> QED BY <3>1, <3>2
  <2> QED BY <1>4, <2>1, <2>2
<1> QED BY <1>1, <1>2, <1>4, <1>5, <1>6, <1>7, <1>8 DEF AggregateInv

\* Sharing the public keys loses nothing: an aggregate fails exactly the entries
\* that fail on their own (batch_verify.rs 276-302 against 340-381).
THEOREM AggregatesKeepEntries == AggregateSpec => []AggregateKeepsEntries
<1>1. AggregateInit => AggregateInv
  <2> SUFFICES ASSUME AggregateInit PROVE AggregateInv
      OBVIOUS
  <2>1. <<>> \in Seq(Given) /\ <<>> \in Seq(Entry) /\ Len(<<>>) = 0 /\ DOMAIN <<>> = {}
    OBVIOUS
  <2>2. /\ added = <<>> /\ finalized = FALSE /\ aggregate.entries = <<>>
        /\ aggregate.publicKeys = <<>> /\ aggregate.keyIndices = <<>>
    BY DEF AggregateInit
  <2>3. <<>> \in Seq(SignKeys) /\ <<>> \in Seq(Nat)
    OBVIOUS
  <2> QED BY <2>1, <2>2, <2>3 DEF AggregateInv
<1>2. AggregateInv /\ [AggregateNext]_aggregateVars => AggregateInv'
  <2> SUFFICES ASSUME AggregateInv, [AggregateNext]_aggregateVars PROVE AggregateInv'
      OBVIOUS
  <2>1. CASE Finalize
    BY <2>1 DEF Finalize, AggregateInv
  <2>2. CASE UNCHANGED aggregateVars
    BY <2>2 DEF aggregateVars, AggregateInv
  <2> QED BY <2>1, <2>2, AddKeepsEntries DEF AggregateNext
<1>3. AggregateInv => AggregateKeepsEntries
  <2> SUFFICES ASSUME AggregateInv, NEW messages \in [DOMAIN added -> SignMessages]
               PROVE  /\ ~VerifyAllPanics(messages)
                      /\ VerifyAllFailures(messages) =
                           {i \in DOMAIN added :
                             ~ /\ messages[i] = added[i].message
                               /\ Verifies(added[i].key, added[i].message, added[i].signature)}
      BY DEF AggregateKeepsEntries
  <2>1. added \in Seq(Given) /\ DOMAIN added = 1..Len(added) /\ Len(added) \in Nat
    BY DEF AggregateInv
  <2>2. messages \in Seq(SignMessages) /\ Len(messages) = Len(added)
    BY <2>1
  <2>3. Len(aggregate.entries) = Len(added) /\ DOMAIN aggregate.entries = DOMAIN added
    BY <2>1 DEF AggregateInv
  <2>4. ASSUME NEW i \in DOMAIN added
        PROVE  /\ aggregate.entries[i].messageHash = added[i].message
               /\ aggregate.entries[i].signature = added[i].signature
               /\ aggregate.publicKeys[aggregate.keyIndices[i]] = added[i].key
    <3>1. aggregate.entries[i] = EntryOf(added[i])
      BY DEF AggregateInv
    <3>2. aggregate.publicKeys[aggregate.keyIndices[i]] = added[i].key
      BY DEF AggregateInv
    <3> QED BY <3>1, <3>2 DEF EntryOf
  <2> QED BY <2>2, <2>3, <2>4 DEF VerifyAllPanics, VerifyAllFailures, Verifies
<1> QED BY <1>1, <1>2, <1>3, PTL DEF AggregateSpec

----------------------------------------------------------------------------
\* Timestamp proofs.

StampTypeOK ==
    /\ authorityClock \in 0..MaxTime /\ verifierClock \in 0..MaxTime
    /\ issued \subseteq {Proof(a, t, m) : a \in Authorities, t \in 0..MaxTime, m \in StampMessages}
    /\ verdict \in {"none", "accepted", "refused", "panicked"}

\* No changed proof passes verify_timestamp_proof.
LEMMA VerifiedWasIssued ==
    ASSUME StampTypeOK, NEW p \in Presented, NEW message, VerifyTimestampProof(p, message)
    PROVE  p \in issued /\ p.messageHash = message /\ p.timestamp \in 0..MaxTime
<1>1. ASSUME NEW q \in issued
      PROVE  \E a \in Authorities, t \in 0..MaxTime, m \in StampMessages : q = Proof(a, t, m)
  BY DEF StampTypeOK
<1>2. CASE p \in issued
  <2>1. PICK a, m : \E t \in 0..MaxTime : p = Proof(a, t, m)
    BY <1>1, <1>2
  <2>2. p.timestamp \in 0..MaxTime
    BY <2>1 DEF Proof
  <2> QED BY <1>2, <2>2 DEF VerifyTimestampProof
<1>3. ASSUME NEW q \in issued, NEW t \in 0..MaxTime, p = [q EXCEPT !.timestamp = t]
      PROVE  p = q
  <2>1. PICK a, u, m : q = Proof(a, u, m)
    BY <1>1
  <2>2. p.signature.payload.timestamp = u /\ p.timestamp = t
    BY <1>3, <2>1 DEF Proof, Payload
  <2>3. p.signature.payload.timestamp = p.timestamp
    BY DEF VerifyTimestampProof, Payload
  <2> QED BY <1>3, <2>1, <2>2, <2>3 DEF Proof
<1>4. ASSUME NEW q \in issued, NEW h \in StampMessages, p = [q EXCEPT !.messageHash = h]
      PROVE  p = q
  <2>1. PICK a, u, m : q = Proof(a, u, m)
    BY <1>1
  <2>2. p.signature.payload.messageHash = m /\ p.messageHash = h
    BY <1>4, <2>1 DEF Proof, Payload
  <2>3. p.signature.payload.messageHash = p.messageHash
    BY DEF VerifyTimestampProof, Payload
  <2> QED BY <1>4, <2>1, <2>2, <2>3 DEF Proof
<1>5. ASSUME NEW q \in issued, NEW k \in Authorities, p = [q EXCEPT !.publicKey = k]
      PROVE  p = q
  <2>1. PICK a, u, m : q = Proof(a, u, m)
    BY <1>1
  <2>2. p.signature.key = a /\ p.publicKey = k
    BY <1>5, <2>1 DEF Proof
  <2>3. p.signature.key = p.publicKey
    BY DEF VerifyTimestampProof
  <2> QED BY <1>5, <2>1, <2>2, <2>3 DEF Proof
<1> QED BY <1>2, <1>3, <1>4, <1>5 DEF Presented

\* The age check, in a build with overflow checks or without.
LEMMA AcceptedAge ==
    ASSUME NEW p, p.timestamp \in 0..MaxTime, NEW message, NEW maxAge \in MaxAges,
           NEW clock \in 0..MaxTime, "accepted" \in CheckVerdict(p, message, maxAge, clock)
    PROVE  /\ VerifyTimestampProof(p, message)
           /\ clock - p.timestamp <= maxAge
           /\ p.timestamp - clock <= Tolerance
<1>1. maxAge \in Nat /\ WordSize \in Nat /\ Tolerance \in Nat /\ MaxTime \in Nat
  BY TimestampAssumption
<1> DEFINE within(age) == IF age > maxAge THEN "refused" ELSE "accepted"
<1>2. VerifyTimestampProof(p, message) /\ ~(p.timestamp > clock + Tolerance)
  BY DEF CheckVerdict
<1>3. CASE p.timestamp <= clock
  <2>1. within(clock - p.timestamp) = "accepted"
    BY <1>2, <1>3 DEF CheckVerdict
  <2> QED BY <1>1, <1>2, <1>3, <2>1
<1>4. CASE ~(p.timestamp <= clock)
  BY <1>1, <1>2, <1>4
<1> QED BY <1>2, <1>3, <1>4

\* In either build, a proof that was accepted is the one an authority issued, of that
\* message, no older than was asked and ahead of the clock by the tolerance at most
\* (batch_verify.rs 476-536).
THEOREM AcceptedProofsAreFresh == StampSpec => [](StampTypeOK /\ AcceptedIsFresh)
<1>1. StampInit => StampTypeOK /\ AcceptedIsFresh
  BY TimestampAssumption DEF StampInit, StampTypeOK, AcceptedIsFresh
<1>2. StampTypeOK /\ AcceptedIsFresh /\ [StampNext]_stampVars => (StampTypeOK /\ AcceptedIsFresh)'
  <2> SUFFICES ASSUME StampTypeOK, AcceptedIsFresh, [StampNext]_stampVars
               PROVE  StampTypeOK' /\ AcceptedIsFresh'
      OBVIOUS
  <2>1. CASE CreateProof
    <3>1. /\ issued \subseteq issued' /\ UNCHANGED <<verdict, checked>>
      BY <2>1 DEF CreateProof
    <3> QED BY <2>1, <3>1 DEF CreateProof, StampTypeOK, AcceptedIsFresh
  <2>2. CASE CheckProof
    <3>1. PICK p \in Presented, m \in StampMessages, maxAge \in MaxAges :
            /\ verdict' \in CheckVerdict(p, m, maxAge, verifierClock)
            /\ checked' = [proof |-> p, message |-> m, maxAge |-> maxAge, now |-> verifierClock]
            /\ UNCHANGED <<authorityClock, verifierClock, issued>>
      BY <2>2 DEF CheckProof
    <3>2. StampTypeOK'
      BY <3>1 DEF StampTypeOK, CheckVerdict
    <3>3. ASSUME verdict' = "accepted" PROVE AcceptedIsFresh'
      <4>1. VerifyTimestampProof(p, m)
        BY <3>1, <3>3 DEF CheckVerdict
      <4>2. p \in issued /\ p.messageHash = m /\ p.timestamp \in 0..MaxTime
        BY <4>1, VerifiedWasIssued
      <4>3. verifierClock \in 0..MaxTime
        BY DEF StampTypeOK
      <4> QED BY <3>1, <3>3, <4>2, <4>3, AcceptedAge DEF AcceptedIsFresh
    <3> QED BY <3>2, <3>3 DEF AcceptedIsFresh
  <2>3. CASE AuthorityTick
    BY <2>3, TimestampAssumption DEF AuthorityTick, StampTypeOK, AcceptedIsFresh
  <2>4. CASE VerifierTick
    BY <2>4, TimestampAssumption DEF VerifierTick, StampTypeOK, AcceptedIsFresh
  <2>5. CASE UNCHANGED stampVars
    BY <2>5 DEF stampVars, StampTypeOK, AcceptedIsFresh
  <2> QED BY <2>1, <2>2, <2>3, <2>4, <2>5 DEF StampNext
<1> QED BY <1>1, <1>2, PTL DEF StampSpec

----------------------------------------------------------------------------
\* Loops.

\* Ordinary induction up to a bound, of a set.
LEMMA UpTo ==
    ASSUME NEW N \in Nat, NEW S, 0 \in S, \A n \in 0..N : n < N /\ n \in S => n + 1 \in S
    PROVE  0..N \subseteq S
<1> SUFFICES ASSUME NEW k \in 0..N, k \notin S PROVE FALSE
  OBVIOUS
<1> DEFINE B == {n \in Nat : n <= N /\ n \notin S}
<1>1. B \in SUBSET Nat /\ B # {}
  OBVIOUS
<1>2. IsWellFoundedOn(OpToRel(<, Nat), Nat)
  BY NatLessThanWellFounded
<1>3. PICK m \in B : \A n \in B : <<n, m>> \notin OpToRel(<, Nat)
  BY <1>1, <1>2, WFMin
<1>4. m # 0 /\ m \in Nat /\ m <= N
  OBVIOUS
<1>5. m - 1 \in Nat /\ m - 1 < m /\ m - 1 \in 0..N /\ m - 1 < N
  BY <1>4
<1>6. m - 1 \notin B
  BY <1>3, <1>4, <1>5 DEF OpToRel
<1>7. m - 1 \in S
  BY <1>5, <1>6
<1>8. (m - 1) + 1 = m
  BY <1>4
<1> QED BY <1>5, <1>7, <1>8

\* A loop with variables in T, left to turn at most N times in each state, that goes
\* on with next and ends with out; the function of where it starts; and the states it
\* goes through.
IsLoop(T, V, N, left, out, next) ==
    /\ N \in Nat /\ left \in [T -> 0..N] /\ out \in [T -> V] /\ next \in [T -> T]
    /\ \A s \in T : left[s] # 0 => left[next[s]] = left[s] - 1

Computes(f, T, left, out, next) ==
    \A s \in T : f[s] = IF left[s] = 0 THEN out[s] ELSE f[next[s]]

IsRun(run, n, T, left, next, start) ==
    /\ run \in [0..n -> T] /\ run[0] = start
    /\ \A k \in 0..n : left[run[k]] = n - k /\ (k < n => run[k + 1] = next[run[k]])

\* There is a function that a loop computes.
LEMMA LoopIsDefined ==
    ASSUME NEW T, NEW V, NEW N, NEW left, NEW out, NEW next, IsLoop(T, V, N, left, out, next)
    PROVE  \E f \in [T -> V] : Computes(f, T, left, out, next)
<1> DEFINE Good(n, f) == \A s \in T :
              left[s] <= n => f[s] = IF left[s] = 0 THEN out[s] ELSE f[next[s]]
           S == {n \in 0..N : \E f \in [T -> V] : Good(n, f)}
<1> USE DEF IsLoop
<1>1. 0 \in S
  <2>1. out \in [T -> V] /\ Good(0, out)
    OBVIOUS
  <2> QED BY <2>1
<1>2. ASSUME NEW n \in 0..N, n < N, n \in S PROVE n + 1 \in S
  <2>1. PICK f \in [T -> V] : Good(n, f)
    BY <1>2
  <2> DEFINE g == [s \in T |-> IF left[s] = n + 1 THEN f[next[s]] ELSE f[s]]
  <2>2. g \in [T -> V]
    OBVIOUS
  <2>3. ASSUME NEW s \in T, left[s] <= n + 1
        PROVE  g[s] = IF left[s] = 0 THEN out[s] ELSE g[next[s]]
    <3>1. CASE left[s] = n + 1
      <4>0. /\ left[s] \in Nat /\ n \in Nat /\ next[s] \in T
            /\ left[s] # 0 => left[next[s]] = left[s] - 1
        OBVIOUS
      <4>1. left[next[s]] = n /\ left[s] # 0 /\ next[s] \in T
        <5> HIDE DEF IsLoop, g
        <5> QED BY <3>1, <4>0
      <4> QED BY <3>1, <4>1
    <3>2. CASE left[s] <= n
      <4>0. /\ left[s] \in Nat /\ n \in Nat /\ next[s] \in T
            /\ left[s] # 0 => left[next[s]] = left[s] - 1
        OBVIOUS
      <4>1. left[s] # 0 => next[s] \in T /\ left[next[s]] # n + 1
        <5> HIDE DEF IsLoop, g
        <5> QED BY <3>2, <4>0
      <4>2. left[s] # n + 1 /\ n + 1 # 0
        BY <3>2
      <4>3. g[s] = f[s]
        BY <4>2
      <4>4. left[s] # 0 => g[next[s]] = f[next[s]]
        BY <4>1
      <4>5. f[s] = IF left[s] = 0 THEN out[s] ELSE f[next[s]]
        BY <2>1, <3>2
      <4> HIDE DEF g
      <4> QED BY <4>3, <4>4, <4>5
    <3> QED BY <2>3, <3>1, <3>2
  <2> HIDE DEF g
  <2>4. Good(n + 1, g)
    BY <2>3
  <2> QED BY <1>2, <2>2, <2>4
<1>3. N \in S
  <2>1. \A n \in 0..N : n < N /\ n \in S => n + 1 \in S
    BY <1>2
  <2> HIDE DEF S
  <2>2. 0..N \subseteq S
    BY <1>1, <2>1, UpTo
  <2> QED BY <2>2
<1>4. PICK f \in [T -> V] : Good(N, f)
  BY <1>3
<1> QED BY <1>4 DEF Computes

\* What it computes is what its last state gives.
LEMMA LoopRuns ==
    ASSUME NEW T, NEW V, NEW N, NEW left, NEW out, NEW next, IsLoop(T, V, N, left, out, next),
           NEW f, Computes(f, T, left, out, next), NEW start \in T
    PROVE  \E run : /\ IsRun(run, left[start], T, left, next, start)
                    /\ f[start] = out[run[left[start]]]
<1> DEFINE Good(n, s, run) == IsRun(run, n, T, left, next, s) /\ f[s] = out[run[n]]
           S == {n \in 0..N : \A s \in T : left[s] = n => \E run : Good(n, s, run)}
<1> USE DEF IsLoop, Computes
<1>1. 0 \in S
  <2>1. ASSUME NEW s \in T, left[s] = 0 PROVE \E run : Good(0, s, run)
    <3> DEFINE run == [k \in 0..0 |-> s]
    <3>1. run \in [0..0 -> T] /\ run[0] = s
      OBVIOUS
    <3>2. f[s] = out[s]
      BY <2>1
    <3> HIDE DEF run
    <3>3. \A k \in 0..0 : left[run[k]] = 0 - k /\ ~(k < 0)
      <4>1. \A k \in 0..0 : k = 0
        OBVIOUS
      <4>2. 0 - 0 = 0 /\ ~(0 < 0)
        OBVIOUS
      <4> QED BY <2>1, <3>1, <4>1, <4>2
    <3>4. Good(0, s, run)
      BY <3>1, <3>2, <3>3 DEF IsRun
    <3> QED BY <3>4
  <2> QED BY <2>1
<1>2. ASSUME NEW n \in 0..N, n < N, n \in S PROVE n + 1 \in S
  <2>1. ASSUME NEW s \in T, left[s] = n + 1 PROVE \E run : Good(n + 1, s, run)
    <3>1. left[next[s]] = n /\ left[s] # 0 /\ next[s] \in T
      BY <2>1
    <3>2. PICK rest : Good(n, next[s], rest)
      BY <1>2, <3>1
    <3> DEFINE run == [k \in 0..(n + 1) |-> IF k = 0 THEN s ELSE rest[k - 1]]
    <3>3. /\ run \in [0..(n + 1) -> T] /\ run[0] = s
          /\ \A k \in 1..(n + 1) : run[k] = rest[k - 1] /\ k - 1 \in 0..n
      BY <3>2 DEF IsRun
    <3> HIDE DEF run
    <3>4. f[s] = out[run[n + 1]]
      <4>1. f[s] = f[next[s]] /\ f[next[s]] = out[rest[n]]
        BY <2>1, <3>1, <3>2
      <4>2. n + 1 \in 1..(n + 1) /\ (n + 1) - 1 = n
        OBVIOUS
      <4> QED BY <3>3, <4>1, <4>2
    <3>5. ASSUME NEW k \in 0..(n + 1)
          PROVE  left[run[k]] = n + 1 - k /\ (k < n + 1 => run[k + 1] = next[run[k]])
      <4>1. CASE k = 0
        <5>1. 1 \in 1..(n + 1) /\ 1 - 1 = 0
          OBVIOUS
        <5>2. run[1] = rest[0]
          BY <3>3, <5>1
        <5> QED BY <2>1, <3>2, <3>3, <4>1, <5>2 DEF IsRun
      <4>2. CASE k # 0
        <5>1. k - 1 \in 0..n /\ k \in 1..(n + 1) /\ (k - 1) + 1 = k
          BY <4>2
        <5>2. run[k] = rest[k - 1]
          BY <3>3, <5>1
        <5>3. left[rest[k - 1]] = n - (k - 1) /\ (k - 1 < n => rest[k] = next[rest[k - 1]])
          BY <3>2, <5>1 DEF IsRun
        <5>4. k < n + 1 => k + 1 \in 1..(n + 1) /\ (k + 1) - 1 = k /\ k - 1 < n
          BY <5>1
        <5>5. k < n + 1 => run[k + 1] = rest[k]
          BY <3>3, <5>4
        <5>6. n - (k - 1) = n + 1 - k
          BY <5>1
        <5> QED BY <5>2, <5>3, <5>4, <5>5, <5>6
      <4> QED BY <4>1, <4>2
    <3>6. Good(n + 1, s, run)
      BY <3>3, <3>4, <3>5 DEF IsRun
    <3> QED BY <3>6
  <2> HIDE DEF Good
  <2>2. n + 1 \in 0..N
    BY <1>2
  <2> QED BY <2>1, <2>2
<1>3. left[start] \in S
  <2>1. \A n \in 0..N : n < N /\ n \in S => n + 1 \in S
    BY <1>2
  <2>2. N \in Nat
    OBVIOUS
  <2> HIDE DEF S
  <2>3. 0..N \subseteq S
    BY <1>1, <2>1, <2>2, UpTo
  <2> QED BY <2>3
<1> QED BY <1>3

\* The loop is given as the function that calls itself, defined by CHOOSE: whatever
\* computes what the loop does, the loop does too.
IsLoopOf(loop, T, V, N, left, out, next) ==
    /\ IsLoop(T, V, N, left, out, next)
    /\ \A f \in [T -> V] :
          Computes(f, T, left, out, next) => Computes(loop, T, left, out, next)

\* A loop given as the function that calls itself goes through the run from its start.
LEMMA LoopComputes ==
    ASSUME NEW loop, NEW T, NEW V, NEW N, NEW left, NEW out, NEW next,
           IsLoopOf(loop, T, V, N, left, out, next), NEW start \in T
    PROVE  \E run : /\ IsRun(run, left[start], T, left, next, start)
                    /\ loop[start] = out[run[left[start]]]
<1>1. \E f \in [T -> V] : Computes(f, T, left, out, next)
  BY LoopIsDefined DEF IsLoopOf
<1>2. Computes(loop, T, left, out, next)
  BY <1>1 DEF IsLoopOf
<1> QED BY <1>2, LoopRuns DEF IsLoopOf

----------------------------------------------------------------------------
\* Bytes.

\* Zero, one, doubling and exclusive or stay within bytes.
LEMMA BytesAreClosed ==
    /\ Zero \in Byte /\ One \in Byte
    /\ \A a \in Byte : Doubled(a) \in Byte
    /\ \A a, b \in Byte : Xor(a, b) \in Byte
BY DEF Xor, Doubled, Byte, Zero, One

\* The values of gf256_mul's variables, turn by turn.
IsMul(a, r, x, y) ==
    /\ a \in [0..8 -> Byte] /\ a[0] = x /\ \A b \in 0..7 : a[b + 1] = Doubled(a[b])
    /\ r \in [0..8 -> Byte] /\ r[0] = Zero
    /\ \A b \in 0..7 : r[b + 1] = IF b \in y THEN Xor(r[b], a[b]) ELSE r[b]

\* The product is what the variables of gf256_mul end with.
LEMMA MulRuns ==
    ASSUME NEW x \in Byte, NEW y \in Byte
    PROVE  \E a, r : IsMul(a, r, x, y) /\ Mul(x, y) = r[8]
<1> DEFINE T == [bit : 0..8, a : Byte, result : Byte]
           Turn(v) == [bit |-> v.bit + 1, a |-> Doubled(v.a),
                       result |-> IF v.bit \in y THEN Xor(v.result, v.a) ELSE v.result]
           loop[v \in T] == IF v.bit = 8 THEN v.result ELSE loop[Turn(v)]
           left == [v \in T |-> 8 - v.bit]
           out == [v \in T |-> v.result]
           next == [v \in T |-> IF v.bit = 8 THEN v ELSE Turn(v)]
           start == [bit |-> 0, a |-> x, result |-> Zero]
<1>1. Mul(x, y) = loop[start]
  BY DEF Mul
<1>2. \A v \in T : v.bit # 8 => Turn(v) \in T /\ Turn(v).bit = v.bit + 1
  <2> SUFFICES ASSUME NEW v \in T, v.bit # 8 PROVE Turn(v) \in T
    OBVIOUS
  <2>1. v.bit + 1 \in 0..8
    OBVIOUS
  <2> QED BY <2>1, BytesAreClosed
<1>3. \A v \in T : v.bit \in 0..8 /\ v.result \in Byte /\ v.a \in Byte
  OBVIOUS
<1>4. start \in T /\ start.bit = 0 /\ start.a = x /\ start.result = Zero
  BY BytesAreClosed
<1> HIDE DEF T, Turn, start
<1>5. IsLoop(T, Byte, 8, left, out, next)
  <2>1. left \in [T -> 0..8] /\ out \in [T -> Byte] /\ 8 \in Nat
    BY <1>3
  <2>2. next \in [T -> T]
    BY <1>2
  <2>3. ASSUME NEW s \in T, left[s] # 0 PROVE left[next[s]] = left[s] - 1
    <3>1. s.bit # 8 /\ s.bit \in 0..8
      BY <1>3, <2>3
    <3>2. next[s] = Turn(s) /\ Turn(s) \in T /\ Turn(s).bit = s.bit + 1
      BY <1>2, <3>1
    <3> QED BY <3>1, <3>2
  <2> HIDE DEF left, out, next
  <2> QED BY <2>1, <2>2, <2>3 DEF IsLoop
<1>6. ASSUME NEW f \in [T -> Byte], Computes(f, T, left, out, next)
      PROVE  Computes(loop, T, left, out, next)
  <2>1. f = [v \in T |-> IF v.bit = 8 THEN v.result ELSE f[Turn(v)]]
    BY <1>3, <1>6 DEF Computes
  <2>2. loop = [v \in T |-> IF v.bit = 8 THEN v.result ELSE loop[Turn(v)]]
    BY <2>1
  <2> HIDE DEF loop
  <2> QED BY <1>3, <2>2 DEF Computes
<1>7. left[start] = 8
  BY <1>4
<1>8. PICK run : IsRun(run, 8, T, left, next, start) /\ loop[start] = out[run[8]]
  <2> HIDE DEF loop, left, out, next
  <2>1. IsLoopOf(loop, T, Byte, 8, left, out, next)
    BY <1>5, <1>6 DEF IsLoopOf
  <2> QED BY <1>4, <1>7, <2>1, LoopComputes
<1>9. /\ run \in [0..8 -> T] /\ run[0] = start
      /\ \A k \in 0..8 : left[run[k]] = 8 - k /\ (k < 8 => run[k + 1] = next[run[k]])
  <2> HIDE DEF left, next
  <2> QED BY <1>8 DEF IsRun
<1> HIDE DEF loop
<1> DEFINE a == [k \in 0..8 |-> run[k].a]
           r == [k \in 0..8 |-> run[k].result]
<1>10. /\ a \in [0..8 -> Byte] /\ r \in [0..8 -> Byte]
       /\ a[0] = x /\ r[0] = Zero /\ Mul(x, y) = r[8]
  BY <1>1, <1>3, <1>4, <1>8, <1>9
<1>11. ASSUME NEW b \in 0..7
       PROVE  /\ a[b + 1] = Doubled(a[b])
              /\ r[b + 1] = IF b \in y THEN Xor(r[b], a[b]) ELSE r[b]
  <2>1. run[b] \in T /\ run[b].bit = b
    BY <1>3, <1>8, <1>9
  <2>2. run[b + 1] = Turn(run[b])
    BY <1>8, <1>9, <2>1
  <2> QED BY <2>1, <2>2 DEF Turn
<1> HIDE DEF a, r
<1> QED BY <1>10, <1>11 DEF IsMul

\* Exclusive or is commutative, a byte is its own opposite, and zero is neutral.
LEMMA XorLaws ==
    ASSUME NEW a \in Byte, NEW b \in Byte
    PROVE  /\ Xor(a, b) \in Byte /\ Xor(a, b) = Xor(b, a) /\ Xor(a, a) = Zero
           /\ Xor(a, Zero) = a /\ Xor(Zero, a) = a /\ (Xor(a, b) = Zero => a = b)
BY DEF Xor, Byte, Zero

\* Exclusive or is associative.
LEMMA XorIsAssociative ==
    ASSUME NEW a \in Byte, NEW b \in Byte, NEW c \in Byte
    PROVE  Xor(Xor(a, b), c) = Xor(a, Xor(b, c))
BY DEF Xor

\* The middle two of four can be exchanged.
LEMMA XorOfXors ==
    ASSUME NEW a \in Byte, NEW b \in Byte, NEW c \in Byte, NEW d \in Byte
    PROVE  Xor(Xor(a, b), Xor(c, d)) = Xor(Xor(a, c), Xor(b, d))
BY DEF Xor

\* The bits of a doubled byte.
LEMMA DoubledBits ==
    ASSUME NEW a \in Byte, NEW i \in 0..7
    PROVE  i \in Doubled(a) <=> ~((i # 0 /\ i - 1 \in a) <=> (7 \in a /\ i \in {0, 1, 3, 4}))
<1> DEFINE shifted == {j + 1 : j \in a \ {7}}
<1>1. i \in shifted <=> i # 0 /\ i - 1 \in a
  <2>1. ASSUME i \in shifted PROVE i # 0 /\ i - 1 \in a
    <3>1. PICK j \in a \ {7} : i = j + 1
      BY <2>1
    <3>2. j \in 0..7
      BY DEF Byte
    <3> QED BY <3>1, <3>2
  <2>2. ASSUME i # 0, i - 1 \in a PROVE i \in shifted
    <3>1. i - 1 \in a \ {7} /\ i = (i - 1) + 1
      BY <2>2
    <3> QED BY <3>1
  <2> QED BY <2>1, <2>2
<1>2. Doubled(a) = IF 7 \in a THEN Xor(shifted, {0, 1, 3, 4}) ELSE shifted
  BY DEF Doubled
<1> HIDE DEF shifted
<1> QED BY <1>1, <1>2 DEF Xor

\* The bits of an exclusive or.
LEMMA XorBits ==
    ASSUME NEW a \in Byte, NEW b \in Byte, NEW i
    PROVE  i \in Xor(a, b) <=> ~(i \in a <=> i \in b)
BY DEF Xor

\* Bytes of the same bits are the same.
LEMMA SameBits ==
    ASSUME NEW a \in Byte, NEW b \in Byte, \A i \in 0..7 : i \in a <=> i \in b
    PROVE  a = b
BY DEF Byte

\* Doubling, with the reduction modulo the polynomial, is additive.
LEMMA DoubledAdds ==
    ASSUME NEW a \in Byte, NEW b \in Byte
    PROVE  Doubled(Xor(a, b)) = Xor(Doubled(a), Doubled(b))
<1>1. Xor(a, b) \in Byte /\ Doubled(a) \in Byte /\ Doubled(b) \in Byte
      /\ Doubled(Xor(a, b)) \in Byte /\ Xor(Doubled(a), Doubled(b)) \in Byte
  BY BytesAreClosed
<1>2. ASSUME NEW i \in 0..7
      PROVE  i \in Doubled(Xor(a, b)) <=> i \in Xor(Doubled(a), Doubled(b))
  BY <1>1, DoubledBits, XorBits
<1> QED BY <1>1, <1>2, SameBits

\* Twice zero.
LEMMA DoubledZero == Doubled(Zero) = Zero
BY DEF Doubled, Zero

\* Products are bytes.
LEMMA MulType == \A x, y \in Byte : Mul(x, y) \in Byte
<1> SUFFICES ASSUME NEW x \in Byte, NEW y \in Byte PROVE Mul(x, y) \in Byte
  OBVIOUS
<1>1. PICK a, r : IsMul(a, r, x, y) /\ Mul(x, y) = r[8]
  BY MulRuns
<1> QED BY <1>1 DEF IsMul

\* Multiplication is additive in its first factor.
LEMMA MulAdds ==
    ASSUME NEW x \in Byte, NEW z \in Byte, NEW y \in Byte
    PROVE  Mul(Xor(x, z), y) = Xor(Mul(x, y), Mul(z, y))
<1>1. PICK a, r : IsMul(a, r, x, y) /\ Mul(x, y) = r[8]
  BY MulRuns
<1>2. PICK b, s : IsMul(b, s, z, y) /\ Mul(z, y) = s[8]
  BY MulRuns
<1>3. PICK c, t : IsMul(c, t, Xor(x, z), y) /\ Mul(Xor(x, z), y) = t[8]
  BY MulRuns, BytesAreClosed
<1> DEFINE S == {n \in 0..8 : c[n] = Xor(a[n], b[n]) /\ t[n] = Xor(r[n], s[n])}
<1>4. 0 \in S
  BY <1>1, <1>2, <1>3, XorLaws, BytesAreClosed DEF IsMul
<1>5. ASSUME NEW n \in 0..8, n < 8, n \in S PROVE n + 1 \in S
  <2>1. n \in 0..7 /\ n + 1 \in 0..8
    BY <1>5
  <2>2. a[n] \in Byte /\ b[n] \in Byte /\ r[n] \in Byte /\ s[n] \in Byte
    BY <1>1, <1>2 DEF IsMul
  <2>3. c[n + 1] = Xor(a[n + 1], b[n + 1])
    BY <1>1, <1>2, <1>3, <1>5, <2>1, <2>2, DoubledAdds DEF IsMul
  <2>4. t[n + 1] = Xor(r[n + 1], s[n + 1])
    <3>1. t[n + 1] = IF n \in y THEN Xor(t[n], c[n]) ELSE t[n]
      BY <1>3, <2>1 DEF IsMul
    <3>2. r[n + 1] = IF n \in y THEN Xor(r[n], a[n]) ELSE r[n]
      BY <1>1, <2>1 DEF IsMul
    <3>3. s[n + 1] = IF n \in y THEN Xor(s[n], b[n]) ELSE s[n]
      BY <1>2, <2>1 DEF IsMul
    <3>4. Xor(Xor(r[n], s[n]), Xor(a[n], b[n])) = Xor(Xor(r[n], a[n]), Xor(s[n], b[n]))
      BY <2>2, XorOfXors
    <3>5. t[n] = Xor(r[n], s[n]) /\ c[n] = Xor(a[n], b[n])
      BY <1>5
    <3> QED BY <3>1, <3>2, <3>3, <3>4, <3>5
  <2> QED BY <2>1, <2>3, <2>4
<1>6. 8 \in S
  <2>1. \A n \in 0..8 : n < 8 /\ n \in S => n + 1 \in S
    BY <1>5
  <2> HIDE DEF S
  <2>2. 0..8 \subseteq S
    BY <1>4, <2>1, UpTo
  <2> QED BY <2>2
<1> QED BY <1>1, <1>2, <1>3, <1>6

\* Two runs of the loop, in the same turn.
LEMMA MulDoubled ==
    ASSUME NEW x \in Byte, NEW y \in Byte
    PROVE  Mul(Doubled(x), y) = Doubled(Mul(x, y))
<1>1. PICK a, r : IsMul(a, r, x, y) /\ Mul(x, y) = r[8]
  BY MulRuns
<1>2. PICK b, s : IsMul(b, s, Doubled(x), y) /\ Mul(Doubled(x), y) = s[8]
  BY MulRuns, BytesAreClosed
<1> DEFINE S == {n \in 0..8 : b[n] = Doubled(a[n]) /\ s[n] = Doubled(r[n])}
<1>3. 0 \in S
  BY <1>1, <1>2, DoubledZero DEF IsMul
<1>4. ASSUME NEW n \in 0..8, n < 8, n \in S PROVE n + 1 \in S
  <2>1. n \in 0..7 /\ n + 1 \in 0..8
    BY <1>4
  <2>2. a[n] \in Byte /\ r[n] \in Byte
    BY <1>1 DEF IsMul
  <2>3. b[n + 1] = Doubled(a[n + 1])
    BY <1>1, <1>2, <1>4, <2>1 DEF IsMul
  <2>4. s[n + 1] = IF n \in y THEN Xor(s[n], b[n]) ELSE s[n]
    BY <1>2, <2>1 DEF IsMul
  <2>5. r[n + 1] = IF n \in y THEN Xor(r[n], a[n]) ELSE r[n]
    BY <1>1, <2>1 DEF IsMul
  <2>6. Doubled(Xor(r[n], a[n])) = Xor(Doubled(r[n]), Doubled(a[n]))
    BY <2>2, DoubledAdds
  <2>7. s[n] = Doubled(r[n]) /\ b[n] = Doubled(a[n])
    BY <1>4
  <2>8. s[n + 1] = Doubled(r[n + 1])
    BY <2>4, <2>5, <2>6, <2>7
  <2> QED BY <2>1, <2>3, <2>8
<1>5. 8 \in S
  <2>1. \A n \in 0..8 : n < 8 /\ n \in S => n + 1 \in S
    BY <1>4
  <2> HIDE DEF S
  <2>2. 0..8 \subseteq S
    BY <1>3, <2>1, UpTo
  <2> QED BY <2>2
<1> QED BY <1>1, <1>2, <1>5

\* Zero times anything.
LEMMA MulZero ==
    ASSUME NEW y \in Byte
    PROVE  Mul(Zero, y) = Zero
<1>1. Zero \in Byte
  BY BytesAreClosed
<1>2. Mul(Xor(Zero, Zero), y) = Xor(Mul(Zero, y), Mul(Zero, y))
  BY <1>1, MulAdds
<1>3. Xor(Zero, Zero) = Zero
  BY <1>1, XorLaws
<1>4. Mul(Zero, y) \in Byte
  BY <1>1, MulType
<1> QED BY <1>2, <1>3, <1>4, XorLaws

\* One times anything.
LEMMA MulOne ==
    ASSUME NEW y \in Byte
    PROVE  Mul(One, y) = y
<1>1. PICK a, r : IsMul(a, r, One, y) /\ Mul(One, y) = r[8]
  BY MulRuns, BytesAreClosed
<1> DEFINE Low(n) == {i \in y : i < n}
           S == {n \in 0..8 : (n < 8 => a[n] = {n}) /\ r[n] = Low(n)}
<1>2. 0 \in S
  <2>1. Low(0) = {}
    <3>1. \A i \in y : i \in 0..7
      BY DEF Byte
    <3>2. \A i \in 0..7 : ~(i < 0)
      OBVIOUS
    <3> QED BY <3>1, <3>2
  <2> QED BY <1>1, <2>1 DEF IsMul, One, Zero
<1>3. ASSUME NEW n \in 0..8, n < 8, n \in S PROVE n + 1 \in S
  <2>1. n \in 0..7 /\ n + 1 \in 0..8
    BY <1>3
  <2>2. a[n] = {n} /\ r[n] = Low(n)
    BY <1>3
  <2>3. n + 1 < 8 => a[n + 1] = {n + 1}
    <3>1. a[n + 1] = Doubled({n})
      BY <1>1, <2>1, <2>2 DEF IsMul
    <3>2. n # 7 => Doubled({n}) = {n + 1}
      BY <2>1 DEF Doubled
    <3> QED BY <2>1, <3>1, <3>2
  <2>4. r[n + 1] = Low(n + 1)
    <3>1. r[n + 1] = IF n \in y THEN Xor(Low(n), {n}) ELSE Low(n)
      BY <1>1, <2>1, <2>2 DEF IsMul
    <3>2. \A i \in y : i \in Nat /\ (i < n + 1 <=> i < n \/ i = n)
      BY DEF Byte
    <3>3. n \notin Low(n)
      OBVIOUS
    <3>4. Xor(Low(n), {n}) = Low(n) \cup {n}
      BY <3>3 DEF Xor
    <3>5. n \in y => Low(n + 1) = Low(n) \cup {n}
      BY <3>2
    <3>6. n \notin y => Low(n + 1) = Low(n)
      BY <3>2
    <3> HIDE DEF Low
    <3> QED BY <3>1, <3>4, <3>5, <3>6
  <2> QED BY <2>1, <2>3, <2>4
<1>4. 8 \in S
  <2>1. \A n \in 0..8 : n < 8 /\ n \in S => n + 1 \in S
    BY <1>3
  <2> HIDE DEF S
  <2>2. 0..8 \subseteq S
    BY <1>2, <2>1, UpTo
  <2> QED BY <2>2
<1>5. Low(8) = y
  <2>1. \A i \in y : i < 8
    BY DEF Byte
  <2> QED BY <2>1
<1> QED BY <1>1, <1>4, <1>5

\* The factors can be exchanged: the loops of one times x and of y times x differ by a
\* factor y.
LEMMA MulCommutes ==
    ASSUME NEW x \in Byte, NEW y \in Byte
    PROVE  Mul(x, y) = Mul(y, x)
<1>1. PICK a, r : IsMul(a, r, One, x) /\ Mul(One, x) = r[8]
  BY MulRuns, BytesAreClosed
<1>2. PICK b, s : IsMul(b, s, y, x) /\ Mul(y, x) = s[8]
  BY MulRuns
<1> DEFINE S == {n \in 0..8 : b[n] = Mul(a[n], y) /\ s[n] = Mul(r[n], y)}
<1>3. 0 \in S
  BY <1>1, <1>2, MulOne, MulZero DEF IsMul
<1>4. ASSUME NEW n \in 0..8, n < 8, n \in S PROVE n + 1 \in S
  <2>1. n \in 0..7 /\ n + 1 \in 0..8
    BY <1>4
  <2>2. a[n] \in Byte /\ r[n] \in Byte
    BY <1>1 DEF IsMul
  <2>3. s[n] = Mul(r[n], y) /\ b[n] = Mul(a[n], y)
    BY <1>4
  <2>4. b[n + 1] = Mul(a[n + 1], y)
    <3>1. b[n + 1] = Doubled(b[n]) /\ a[n + 1] = Doubled(a[n])
      BY <1>1, <1>2, <2>1 DEF IsMul
    <3> QED BY <2>2, <2>3, <3>1, MulDoubled
  <2>5. s[n + 1] = IF n \in x THEN Xor(s[n], b[n]) ELSE s[n]
    BY <1>2, <2>1 DEF IsMul
  <2>6. r[n + 1] = IF n \in x THEN Xor(r[n], a[n]) ELSE r[n]
    BY <1>1, <2>1 DEF IsMul
  <2>7. Mul(Xor(r[n], a[n]), y) = Xor(Mul(r[n], y), Mul(a[n], y))
    BY <2>2, MulAdds
  <2>8. s[n + 1] = Mul(r[n + 1], y)
    BY <2>3, <2>5, <2>6, <2>7
  <2> QED BY <2>1, <2>4, <2>8
<1>5. 8 \in S
  <2>1. \A n \in 0..8 : n < 8 /\ n \in S => n + 1 \in S
    BY <1>4
  <2> HIDE DEF S
  <2>2. 0..8 \subseteq S
    BY <1>3, <2>1, UpTo
  <2> QED BY <2>2
<1>6. Mul(One, x) = x
  BY MulOne
<1> QED BY <1>1, <1>2, <1>5, <1>6

\* Multiplication is associative: the loops of two products differ by a factor.
LEMMA MulIsAssociative ==
    ASSUME NEW x \in Byte, NEW y \in Byte, NEW z \in Byte
    PROVE  Mul(Mul(x, y), z) = Mul(x, Mul(y, z))
<1>1. PICK a, r : IsMul(a, r, y, z) /\ Mul(y, z) = r[8]
  BY MulRuns
<1>2. PICK b, s : IsMul(b, s, Mul(x, y), z) /\ Mul(Mul(x, y), z) = s[8]
  BY MulRuns, MulType
<1> DEFINE S == {n \in 0..8 : b[n] = Mul(x, a[n]) /\ s[n] = Mul(x, r[n])}
<1>3. 0 \in S
  <2>1. Mul(x, Zero) = Zero
    BY MulZero, MulCommutes, BytesAreClosed
  <2> QED BY <1>1, <1>2, <2>1 DEF IsMul
<1>4. ASSUME NEW n \in 0..8, n < 8, n \in S PROVE n + 1 \in S
  <2>1. n \in 0..7 /\ n + 1 \in 0..8
    BY <1>4
  <2>2. a[n] \in Byte /\ r[n] \in Byte
    BY <1>1 DEF IsMul
  <2>3. s[n] = Mul(x, r[n]) /\ b[n] = Mul(x, a[n])
    BY <1>4
  <2>4. b[n + 1] = Mul(x, a[n + 1])
    <3>1. b[n + 1] = Doubled(b[n]) /\ a[n + 1] = Doubled(a[n])
      BY <1>1, <1>2, <2>1 DEF IsMul
    <3>2. Mul(x, Doubled(a[n])) = Mul(Doubled(a[n]), x) /\ Mul(x, a[n]) = Mul(a[n], x)
      BY <2>2, MulCommutes, BytesAreClosed
    <3>3. Mul(Doubled(a[n]), x) = Doubled(Mul(a[n], x))
      BY <2>2, MulDoubled
    <3> QED BY <2>3, <3>1, <3>2, <3>3
  <2>5. s[n + 1] = IF n \in z THEN Xor(s[n], b[n]) ELSE s[n]
    BY <1>2, <2>1 DEF IsMul
  <2>6. r[n + 1] = IF n \in z THEN Xor(r[n], a[n]) ELSE r[n]
    BY <1>1, <2>1 DEF IsMul
  <2>7. Mul(x, Xor(r[n], a[n])) = Xor(Mul(x, r[n]), Mul(x, a[n]))
    <3>1. Mul(Xor(r[n], a[n]), x) = Xor(Mul(r[n], x), Mul(a[n], x))
      BY <2>2, MulAdds
    <3>2. /\ Mul(Xor(r[n], a[n]), x) = Mul(x, Xor(r[n], a[n]))
          /\ Mul(r[n], x) = Mul(x, r[n]) /\ Mul(a[n], x) = Mul(x, a[n])
      BY <2>2, MulCommutes, BytesAreClosed
    <3> QED BY <3>1, <3>2
  <2>8. s[n + 1] = Mul(x, r[n + 1])
    BY <2>3, <2>5, <2>6, <2>7
  <2> QED BY <2>1, <2>4, <2>8
<1>5. 8 \in S
  <2>1. \A n \in 0..8 : n < 8 /\ n \in S => n + 1 \in S
    BY <1>4
  <2> HIDE DEF S
  <2>2. 0..8 \subseteq S
    BY <1>3, <2>1, UpTo
  <2> QED BY <2>2
<1> QED BY <1>1, <1>2, <1>5

----------------------------------------------------------------------------
\* Squares, and the powers that are their own.

\* Squares.
Square(x) == Mul(x, x)

\* In characteristic two the square of a sum is the sum of the squares.
LEMMA SquareAdds ==
    ASSUME NEW x \in Byte, NEW y \in Byte
    PROVE  Square(Xor(x, y)) = Xor(Square(x), Square(y))
<1> DEFINE s == Xor(x, y)
<1>1. s \in Byte
  BY BytesAreClosed
<1>2. Mul(s, s) = Xor(Mul(x, s), Mul(y, s))
  BY <1>1, MulAdds
<1>3. Mul(x, s) = Xor(Mul(x, x), Mul(y, x)) /\ Mul(y, s) = Xor(Mul(x, y), Mul(y, y))
  <2>1. Mul(s, x) = Xor(Mul(x, x), Mul(y, x)) /\ Mul(s, y) = Xor(Mul(x, y), Mul(y, y))
    BY MulAdds
  <2>2. Mul(s, x) = Mul(x, s) /\ Mul(s, y) = Mul(y, s)
    BY <1>1, MulCommutes
  <2> QED BY <2>1, <2>2
<1>4. Mul(y, x) = Mul(x, y)
  BY MulCommutes
<1>5. Mul(x, x) \in Byte /\ Mul(x, y) \in Byte /\ Mul(y, y) \in Byte
  BY MulType
<1> HIDE DEF s
<1>6. Xor(Xor(Mul(x, x), Mul(x, y)), Xor(Mul(x, y), Mul(y, y))) = Xor(Mul(x, x), Mul(y, y))
  BY DEF Xor
<1> QED BY <1>2, <1>3, <1>4, <1>6 DEF Square, s

\* Squares are bytes.
LEMMA SquareType == \A x \in Byte : Square(x) \in Byte
BY MulType DEF Square

\* The square of a product.
LEMMA SquareOfProduct ==
    ASSUME NEW x \in Byte, NEW y \in Byte
    PROVE  Square(Mul(x, y)) = Mul(Square(x), Square(y))
<1>1. Mul(x, y) \in Byte /\ Mul(y, x) \in Byte /\ Mul(y, y) \in Byte /\ Mul(x, x) \in Byte
  BY MulType
<1>2. Mul(Mul(x, y), Mul(x, y)) = Mul(x, Mul(y, Mul(x, y)))
  BY <1>1, MulIsAssociative
<1>3. Mul(y, Mul(x, y)) = Mul(Mul(x, y), y)
  BY <1>1, MulCommutes
<1>4. Mul(Mul(x, y), y) = Mul(x, Mul(y, y))
  BY MulIsAssociative
<1>5. Mul(x, Mul(x, Mul(y, y))) = Mul(Mul(x, x), Mul(y, y))
  BY <1>1, MulIsAssociative
<1> QED BY <1>2, <1>3, <1>4, <1>5 DEF Square

\* The square of a double is four times the square.
LEMMA SquareOfDoubled ==
    ASSUME NEW x \in Byte
    PROVE  Square(Doubled(x)) = Doubled(Doubled(Square(x)))
<1> DEFINE d == Doubled(x)
<1>1. d \in Byte
  BY BytesAreClosed
<1>2. Mul(d, d) = Doubled(Mul(x, d))
  BY <1>1, MulDoubled
<1>3. Mul(x, d) = Mul(d, x)
  BY <1>1, MulCommutes
<1>4. Mul(d, x) = Doubled(Mul(x, x))
  BY MulDoubled
<1> HIDE DEF d
<1> QED BY <1>2, <1>3, <1>4 DEF Square, d

Odd(p, q) == ~(p <=> q)

\* What squaring does to the bits.
SquareBits(x) ==
    {i \in 0..7 :
        \/ i = 0 /\ Odd(0 \in x, Odd(4 \in x, 6 \in x))
        \/ i = 1 /\ Odd(4 \in x, Odd(6 \in x, 7 \in x))
        \/ i = 2 /\ Odd(1 \in x, 5 \in x)
        \/ i = 3 /\ Odd(Odd(4 \in x, 5 \in x), Odd(6 \in x, 7 \in x))
        \/ i = 4 /\ Odd(2 \in x, Odd(4 \in x, 7 \in x))
        \/ i = 5 /\ Odd(5 \in x, 6 \in x)
        \/ i = 6 /\ Odd(3 \in x, 5 \in x)
        \/ i = 7 /\ Odd(6 \in x, 7 \in x)}

\* The bits of a square are additive too.
LEMMA SquareBitsAdd ==
    ASSUME NEW x \in Byte, NEW y \in Byte
    PROVE  SquareBits(Xor(x, y)) = Xor(SquareBits(x), SquareBits(y))
<1>1. \A b \in 0..7 : b \in Xor(x, y) <=> ~(b \in x <=> b \in y)
  BY XorBits
<1>2. SquareBits(x) \in Byte /\ SquareBits(y) \in Byte /\ SquareBits(Xor(x, y)) \in Byte
  BY DEF SquareBits, Byte
<1>3. ASSUME NEW i \in 0..7
      PROVE  i \in SquareBits(Xor(x, y)) <=> ~(i \in SquareBits(x) <=> i \in SquareBits(y))
  BY <1>1 DEF SquareBits, Odd
<1>4. Xor(SquareBits(x), SquareBits(y)) \in Byte
  BY <1>2, BytesAreClosed
<1> QED BY <1>2, <1>3, <1>4, XorBits, SameBits

\* They are right for each power of two.
LEMMA SquareOfBit ==
    ASSUME NEW k \in 0..7
    PROVE  Square({k}) = SquareBits({k})
<1>0. \A i \in 0..6 : Square({i + 1}) = Doubled(Doubled(Square({i})))
  <2> SUFFICES ASSUME NEW i \in 0..6
               PROVE Square({i + 1}) = Doubled(Doubled(Square({i})))
    OBVIOUS
  <2>1. Doubled({i}) = {i + 1} /\ {i} \in Byte
    BY DEF Doubled, Byte
  <2> QED BY <2>1, SquareOfDoubled
<1>1. Square({0}) = {0}
  BY MulOne, BytesAreClosed DEF Square, One
<1>2. Square({1}) = {2}
  <2>1. Doubled({0}) = {1} /\ Doubled({1}) = {2}
    BY DEF Doubled
  <2> QED BY <1>0, <1>1, <2>1
<1>3. Square({2}) = {4}
  <2>1. Doubled({2}) = {3} /\ Doubled({3}) = {4}
    BY DEF Doubled
  <2> QED BY <1>0, <1>2, <2>1
<1>4. Square({3}) = {6}
  <2>1. Doubled({4}) = {5} /\ Doubled({5}) = {6}
    BY DEF Doubled
  <2> QED BY <1>0, <1>3, <2>1
<1>5. Square({4}) = {0, 1, 3, 4}
  <2>1. Doubled({6}) = {7}
    BY DEF Doubled
  <2>2. Doubled({7}) = {0, 1, 3, 4}
    BY DEF Doubled, Xor
  <2> QED BY <1>0, <1>4, <2>1, <2>2
<1>6. Square({5}) = {2, 3, 5, 6}
  <2>1. Doubled({0, 1, 3, 4}) = {1, 2, 4, 5}
    BY DEF Doubled
  <2>2. Doubled({1, 2, 4, 5}) = {2, 3, 5, 6}
    BY DEF Doubled
  <2> QED BY <1>0, <1>5, <2>1, <2>2
<1>7. Square({6}) = {0, 1, 3, 5, 7}
  <2>1. Doubled({2, 3, 5, 6}) = {3, 4, 6, 7}
    BY DEF Doubled
  <2>2. Doubled({3, 4, 6, 7}) = {0, 1, 3, 5, 7}
    <3>1. {j + 1 : j \in {3, 4, 6, 7} \ {7}} = {4, 5, 7}
      OBVIOUS
    <3>2. Xor({4, 5, 7}, {0, 1, 3, 4}) = {0, 1, 3, 5, 7}
      BY DEF Xor
    <3> QED BY <3>1, <3>2 DEF Doubled
  <2> QED BY <1>0, <1>6, <2>1, <2>2
<1>8. Square({7}) = {1, 3, 4, 7}
  <2>1. Doubled({0, 1, 3, 5, 7}) = {0, 2, 3, 6}
    <3>1. {j + 1 : j \in {0, 1, 3, 5, 7} \ {7}} = {1, 2, 4, 6}
      OBVIOUS
    <3>2. Xor({1, 2, 4, 6}, {0, 1, 3, 4}) = {0, 2, 3, 6}
      BY DEF Xor
    <3> QED BY <3>1, <3>2 DEF Doubled
  <2>2. Doubled({0, 2, 3, 6}) = {1, 3, 4, 7}
    <3>1. {j + 1 : j \in {0, 2, 3, 6} \ {7}} = {1, 3, 4, 7}
      OBVIOUS
    <3> QED BY <3>1 DEF Doubled
  <2> QED BY <1>0, <1>7, <2>1, <2>2
<1>9. /\ SquareBits({0}) = {0} /\ SquareBits({1}) = {2} /\ SquareBits({2}) = {4}
      /\ SquareBits({3}) = {6}
  BY DEF SquareBits, Odd
<1>10. SquareBits({4}) = {0, 1, 3, 4}
  BY DEF SquareBits, Odd
<1>11. SquareBits({5}) = {2, 3, 5, 6}
  BY DEF SquareBits, Odd
<1>12. SquareBits({6}) = {0, 1, 3, 5, 7}
  BY DEF SquareBits, Odd
<1>13. SquareBits({7}) = {1, 3, 4, 7}
  BY DEF SquareBits, Odd
<1>14. k = 0 \/ k = 1 \/ k = 2 \/ k = 3 \/ k = 4 \/ k = 5 \/ k = 6 \/ k = 7
  OBVIOUS
<1>15. CASE k = 0 \/ k = 1 \/ k = 2 \/ k = 3
  BY <1>1, <1>2, <1>3, <1>4, <1>9, <1>15
<1>16. CASE k = 4 \/ k = 5
  BY <1>5, <1>6, <1>10, <1>11, <1>16
<1>17. CASE k = 6 \/ k = 7
  BY <1>7, <1>8, <1>12, <1>13, <1>17
<1> QED BY <1>14, <1>15, <1>16, <1>17

\* And so they are the bits of every square.
LEMMA SquareIsSquareBits ==
    ASSUME NEW x \in Byte
    PROVE  Square(x) = SquareBits(x)
<1> DEFINE Low(n) == {i \in x : i < n}
           S == {n \in 0..8 : Square(Low(n)) = SquareBits(Low(n))}
<1>1. \A i \in x : i \in 0..7
  BY DEF Byte
<1>2. \A n \in 0..8 : Low(n) \in Byte
  BY DEF Byte
<1>3. 0 \in S
  <2>1. Low(0) = Zero
    <3>1. \A i \in 0..7 : ~(i < 0)
      OBVIOUS
    <3> QED BY <1>1, <3>1 DEF Zero
  <2>2. Square(Zero) = Zero
    BY MulZero, BytesAreClosed DEF Square
  <2>3. SquareBits(Zero) = Zero
    BY DEF SquareBits, Zero, Odd
  <2> QED BY <2>1, <2>2, <2>3
<1>4. ASSUME NEW n \in 0..8, n < 8, n \in S PROVE n + 1 \in S
  <2>1. n \in 0..7 /\ n + 1 \in 0..8
    BY <1>4
  <2>2. CASE n \in x
    <3>1. n \notin Low(n)
      OBVIOUS
    <3>2. Xor(Low(n), {n}) = Low(n) \cup {n}
      BY <3>1 DEF Xor
    <3>3. Low(n + 1) = Low(n) \cup {n}
      <4>1. \A i \in 0..7 : i < n + 1 <=> i < n \/ i = n
        BY <2>1
      <4> QED BY <1>1, <2>2, <4>1
    <3>4. {n} \in Byte /\ Low(n) \in Byte
      BY <1>2, <2>1 DEF Byte
    <3>5. Square(Low(n)) = SquareBits(Low(n))
      BY <1>4
    <3> HIDE DEF Low
    <3>6. Square({n}) = SquareBits({n})
      BY <2>1, SquareOfBit
    <3>7. Square(Xor(Low(n), {n})) = Xor(Square(Low(n)), Square({n}))
      BY <3>4, SquareAdds
    <3>8. SquareBits(Xor(Low(n), {n})) = Xor(SquareBits(Low(n)), SquareBits({n}))
      BY <3>4, SquareBitsAdd
    <3> QED BY <2>1, <3>2, <3>3, <3>5, <3>6, <3>7, <3>8
  <2>3. CASE n \notin x
    <3>1. Low(n + 1) = Low(n)
      <4>1. \A i \in 0..7 : i < n + 1 <=> i < n \/ i = n
        BY <2>1
      <4> QED BY <1>1, <2>3, <4>1
    <3> QED BY <1>4, <2>1, <3>1
  <2> QED BY <2>2, <2>3
<1>5. 8 \in S
  <2>1. \A n \in 0..8 : n < 8 /\ n \in S => n + 1 \in S
    BY <1>4
  <2> HIDE DEF S
  <2>2. 0..8 \subseteq S
    BY <1>3, <2>1, UpTo
  <2> QED BY <2>2
<1>6. Low(8) = x
  <2>1. \A i \in 0..7 : i < 8
    OBVIOUS
  <2> QED BY <1>1, <2>1
<1> QED BY <1>5, <1>6

\* Only zero and one are their own squares.
LEMMA OwnSquares ==
    ASSUME NEW e \in Byte, Square(e) = e
    PROVE  e = Zero \/ e = One
<1>1. SquareBits(e) = e
  BY SquareIsSquareBits
<1>2. /\ 0 \in e <=> Odd(0 \in e, Odd(4 \in e, 6 \in e))
      /\ 1 \in e <=> Odd(4 \in e, Odd(6 \in e, 7 \in e))
      /\ 2 \in e <=> Odd(1 \in e, 5 \in e)
      /\ 3 \in e <=> Odd(Odd(4 \in e, 5 \in e), Odd(6 \in e, 7 \in e))
      /\ 4 \in e <=> Odd(2 \in e, Odd(4 \in e, 7 \in e))
      /\ 5 \in e <=> Odd(5 \in e, 6 \in e)
      /\ 6 \in e <=> Odd(3 \in e, 5 \in e)
      /\ 7 \in e <=> Odd(6 \in e, 7 \in e)
  <2>1. \A i \in 0..7 : i \in e <=> i \in SquareBits(e)
    BY <1>1
  <2> QED BY <2>1 DEF SquareBits
<1>3. /\ 1 \notin e /\ 2 \notin e /\ 3 \notin e /\ 4 \notin e /\ 5 \notin e /\ 6 \notin e
      /\ 7 \notin e
  BY <1>2 DEF Odd
<1>4. \A i \in 0..7 : i \in e => i = 0
  BY <1>3
<1> QED BY <1>4 DEF Byte, Zero, One

\* The 256th power, which every byte is of itself.
Power4(x) == Square(Square(x))
Power16(x) == Power4(Power4(x))
Power256(x) == Power16(Power16(x))

\* The fourth power is additive and multiplicative, as the square is.
LEMMA Power4Laws ==
    ASSUME NEW x \in Byte, NEW y \in Byte
    PROVE  /\ Power4(x) \in Byte /\ Power4(Xor(x, y)) = Xor(Power4(x), Power4(y))
           /\ Power4(Mul(x, y)) = Mul(Power4(x), Power4(y))
<1>1. Square(x) \in Byte /\ Square(y) \in Byte
  BY SquareType
<1>2. Square(Square(x)) \in Byte
  BY <1>1, SquareType
<1> QED BY <1>1, <1>2, SquareAdds, SquareOfProduct DEF Power4

\* So is the sixteenth.
LEMMA Power16Laws ==
    ASSUME NEW x \in Byte, NEW y \in Byte
    PROVE  /\ Power16(x) \in Byte /\ Power16(Xor(x, y)) = Xor(Power16(x), Power16(y))
           /\ Power16(Mul(x, y)) = Mul(Power16(x), Power16(y))
<1>1. Power4(x) \in Byte /\ Power4(y) \in Byte
  BY Power4Laws
<1> QED BY <1>1, Power4Laws DEF Power16

\* So is the 256th.
LEMMA Power256Laws ==
    ASSUME NEW x \in Byte, NEW y \in Byte
    PROVE  /\ Power256(x) \in Byte /\ Power256(Xor(x, y)) = Xor(Power256(x), Power256(y))
           /\ Power256(Mul(x, y)) = Mul(Power256(x), Power256(y))
<1>1. Power16(x) \in Byte /\ Power16(y) \in Byte
  BY Power16Laws
<1> QED BY <1>1, Power16Laws DEF Power256

\* Doubling is multiplication by two.
LEMMA DoubledIsProduct ==
    ASSUME NEW x \in Byte
    PROVE  {1} \in Byte /\ Doubled(x) = Mul({1}, x)
<1>1. Doubled(One) = {1} /\ {1} \in Byte
  BY DEF Doubled, One, Byte
<1>2. Mul(Doubled(One), x) = Doubled(Mul(One, x))
  BY MulDoubled, BytesAreClosed
<1> QED BY <1>1, <1>2, MulOne

\* Two is its own 256th power.
LEMMA Power256OfTwo == Power256({1}) = {1}
<1>1. Square({1}) = {2}
  <2>1. SquareBits({1}) = {2}
    BY DEF SquareBits, Odd
  <2> QED BY <2>1, SquareIsSquareBits DEF Byte
<1>2. Square({2}) = {4}
  <2>1. SquareBits({2}) = {4}
    BY DEF SquareBits, Odd
  <2> QED BY <2>1, SquareIsSquareBits DEF Byte
<1>3. Square({4}) = {0, 1, 3, 4}
  <2>1. SquareBits({4}) = {0, 1, 3, 4}
    BY DEF SquareBits, Odd
  <2> QED BY <2>1, SquareIsSquareBits DEF Byte
<1>4. Square({0, 1, 3, 4}) = {1, 2, 3, 4, 6}
  <2>1. SquareBits({0, 1, 3, 4}) = {1, 2, 3, 4, 6}
    BY DEF SquareBits, Odd
  <2> QED BY <2>1, SquareIsSquareBits DEF Byte
<1>5. Square({1, 2, 3, 4, 6}) = {2, 5, 6, 7}
  <2>1. SquareBits({1, 2, 3, 4, 6}) = {2, 5, 6, 7}
    BY DEF SquareBits, Odd
  <2> QED BY <2>1, SquareIsSquareBits DEF Byte
<1>6. Square({2, 5, 6, 7}) = {0, 2, 3, 6}
  <2>1. SquareBits({2, 5, 6, 7}) = {0, 2, 3, 6}
    BY DEF SquareBits, Odd
  <2> QED BY <2>1, SquareIsSquareBits DEF Byte
<1>7. Square({0, 2, 3, 6}) = {1, 3, 4, 5, 6, 7}
  <2>1. SquareBits({0, 2, 3, 6}) = {1, 3, 4, 5, 6, 7}
    BY DEF SquareBits, Odd
  <2> QED BY <2>1, SquareIsSquareBits DEF Byte
<1>8. Square({1, 3, 4, 5, 6, 7}) = {1}
  <2>1. SquareBits({1, 3, 4, 5, 6, 7}) = {1}
    BY DEF SquareBits, Odd
  <2> QED BY <2>1, SquareIsSquareBits DEF Byte
<1> QED BY <1>1, <1>2, <1>3, <1>4, <1>5, <1>6, <1>7, <1>8 DEF Power256, Power16, Power4

\* So is every power of two.
LEMMA Power256OfBit ==
    ASSUME NEW k \in 0..7
    PROVE  Power256({k}) = {k}
<1> DEFINE S == {n \in 0..7 : Power256({n}) = {n}}
<1>1. 0 \in S
  <2>1. Square({0}) = {0}
    BY MulOne, BytesAreClosed DEF Square, One
  <2> QED BY <2>1 DEF Power256, Power16, Power4
<1>2. \A n \in 0..7 : n < 7 /\ n \in S => n + 1 \in S
  <2> SUFFICES ASSUME NEW n \in 0..7, n < 7, n \in S PROVE n + 1 \in S
    OBVIOUS
  <2>1. {n} \in Byte /\ n + 1 \in 0..7
    BY DEF Byte
  <2>2. Doubled({n}) = {n + 1}
    BY DEF Doubled
  <2>3. {n + 1} = Mul({1}, {n}) /\ {1} \in Byte
    BY <2>1, <2>2, DoubledIsProduct
  <2>4. Power256({n + 1}) = Mul(Power256({1}), Power256({n}))
    BY <2>1, <2>3, Power256Laws
  <2>5. Power256({n + 1}) = {n + 1}
    BY <2>3, <2>4, Power256OfTwo
  <2> QED BY <2>1, <2>5
<1>3. 0..7 \subseteq S
  <2>1. 7 \in Nat
    OBVIOUS
  <2> HIDE DEF S
  <2> QED BY <1>1, <1>2, <2>1, UpTo
<1> QED BY <1>3

\* So is every byte.
LEMMA Power256IsSame ==
    ASSUME NEW x \in Byte
    PROVE  Power256(x) = x
<1> DEFINE Low(n) == {i \in x : i < n}
           S == {n \in 0..8 : Power256(Low(n)) = Low(n)}
<1>1. \A i \in x : i \in 0..7
  BY DEF Byte
<1>2. \A n \in 0..8 : Low(n) \in Byte
  BY DEF Byte
<1>3. 0 \in S
  <2>1. Low(0) = Zero
    <3>1. \A i \in 0..7 : ~(i < 0)
      OBVIOUS
    <3> QED BY <1>1, <3>1 DEF Zero
  <2>2. Square(Zero) = Zero
    BY MulZero, BytesAreClosed DEF Square
  <2>3. Power256(Zero) = Zero
    BY <2>2 DEF Power256, Power16, Power4
  <2> QED BY <2>1, <2>3
<1>4. ASSUME NEW n \in 0..8, n < 8, n \in S PROVE n + 1 \in S
  <2>1. n \in 0..7 /\ n + 1 \in 0..8
    BY <1>4
  <2>2. CASE n \in x
    <3>1. n \notin Low(n)
      OBVIOUS
    <3>2. Xor(Low(n), {n}) = Low(n) \cup {n}
      BY <3>1 DEF Xor
    <3>3. Low(n + 1) = Low(n) \cup {n}
      <4>1. \A i \in 0..7 : i < n + 1 <=> i < n \/ i = n
        BY <2>1
      <4> QED BY <1>1, <2>2, <4>1
    <3>4. {n} \in Byte /\ Low(n) \in Byte
      BY <1>2, <2>1 DEF Byte
    <3>5. Power256(Low(n)) = Low(n)
      BY <1>4
    <3> HIDE DEF Low
    <3>6. Power256({n}) = {n}
      BY <2>1, Power256OfBit
    <3>7. Power256(Xor(Low(n), {n})) = Xor(Power256(Low(n)), Power256({n}))
      BY <3>4, Power256Laws
    <3> QED BY <2>1, <3>2, <3>3, <3>5, <3>6, <3>7
  <2>3. CASE n \notin x
    <3>1. Low(n + 1) = Low(n)
      <4>1. \A i \in 0..7 : i < n + 1 <=> i < n \/ i = n
        BY <2>1
      <4> QED BY <1>1, <2>3, <4>1
    <3> QED BY <1>4, <2>1, <3>1
  <2> QED BY <2>2, <2>3
<1>5. 8 \in S
  <2>1. \A n \in 0..8 : n < 8 /\ n \in S => n + 1 \in S
    BY <1>4
  <2> HIDE DEF S
  <2>2. 0..8 \subseteq S
    BY <1>3, <2>1, UpTo
  <2> QED BY <2>2
<1>6. Low(8) = x
  <2>1. \A i \in 0..7 : i < 8
    OBVIOUS
  <2> QED BY <1>1, <2>1
<1> QED BY <1>5, <1>6

\* The values of gf256_inv's variables, turn by turn.
IsInv(b, r, x) ==
    /\ b \in [0..7 -> Byte] /\ b[0] = Square(x) /\ \A k \in 0..6 : b[k + 1] = Square(b[k])
    /\ r \in [0..7 -> Byte] /\ r[0] = One /\ \A k \in 0..6 : r[k + 1] = Mul(r[k], b[k])

\* The inverse is what the variables of gf256_pow end with.
LEMMA InvRuns ==
    ASSUME NEW x \in Byte
    PROVE  \E b, r : IsInv(b, r, x) /\ Inv256(x) = r[7]
<1> DEFINE T == [bit : 1..8, base : Byte, result : Byte]
           Turn(v) == [bit |-> v.bit + 1, base |-> Mul(v.base, v.base),
                       result |-> Mul(v.result, v.base)]
           loop[v \in T] == IF v.bit = 8 THEN v.result ELSE loop[Turn(v)]
           left == [v \in T |-> 8 - v.bit]
           out == [v \in T |-> v.result]
           next == [v \in T |-> IF v.bit = 8 THEN v ELSE Turn(v)]
           start == [bit |-> 1, base |-> Mul(x, x), result |-> One]
<1>1. Inv256(x) = loop[start]
  BY DEF Inv256
<1>2. \A v \in T : v.bit # 8 => Turn(v) \in T /\ Turn(v).bit = v.bit + 1
  <2> SUFFICES ASSUME NEW v \in T, v.bit # 8 PROVE Turn(v) \in T
    OBVIOUS
  <2>1. v.bit + 1 \in 1..8
    OBVIOUS
  <2> QED BY <2>1, MulType
<1>3. \A v \in T : v.bit \in 1..8 /\ v.result \in Byte /\ v.base \in Byte
  OBVIOUS
<1>4. start \in T /\ start.bit = 1 /\ start.base = Mul(x, x) /\ start.result = One
  BY BytesAreClosed, MulType
<1> HIDE DEF T, Turn, start
<1>5. IsLoop(T, Byte, 7, left, out, next)
  <2>1. left \in [T -> 0..7] /\ out \in [T -> Byte] /\ 7 \in Nat
    BY <1>3
  <2>2. next \in [T -> T]
    BY <1>2
  <2>3. ASSUME NEW s \in T, left[s] # 0 PROVE left[next[s]] = left[s] - 1
    <3>1. s.bit # 8 /\ s.bit \in 1..8
      BY <1>3, <2>3
    <3>2. next[s] = Turn(s) /\ Turn(s) \in T /\ Turn(s).bit = s.bit + 1
      BY <1>2, <3>1
    <3> QED BY <3>1, <3>2
  <2> HIDE DEF left, out, next
  <2> QED BY <2>1, <2>2, <2>3 DEF IsLoop
<1>6. ASSUME NEW f \in [T -> Byte], Computes(f, T, left, out, next)
      PROVE  Computes(loop, T, left, out, next)
  <2>1. f = [v \in T |-> IF v.bit = 8 THEN v.result ELSE f[Turn(v)]]
    BY <1>3, <1>6 DEF Computes
  <2>2. loop = [v \in T |-> IF v.bit = 8 THEN v.result ELSE loop[Turn(v)]]
    BY <2>1
  <2> HIDE DEF loop
  <2> QED BY <1>3, <2>2 DEF Computes
<1>7. left[start] = 7
  BY <1>4
<1>8. PICK run : IsRun(run, 7, T, left, next, start) /\ loop[start] = out[run[7]]
  <2> HIDE DEF loop, left, out, next
  <2>1. IsLoopOf(loop, T, Byte, 7, left, out, next)
    BY <1>5, <1>6 DEF IsLoopOf
  <2> QED BY <1>4, <1>7, <2>1, LoopComputes
<1>9. /\ run \in [0..7 -> T] /\ run[0] = start
      /\ \A k \in 0..7 : left[run[k]] = 7 - k /\ (k < 7 => run[k + 1] = next[run[k]])
  <2> HIDE DEF left, next
  <2> QED BY <1>8 DEF IsRun
<1> HIDE DEF loop
<1> DEFINE b == [k \in 0..7 |-> run[k].base]
           r == [k \in 0..7 |-> run[k].result]
<1>10. /\ b \in [0..7 -> Byte] /\ r \in [0..7 -> Byte]
       /\ b[0] = Square(x) /\ r[0] = One /\ Inv256(x) = r[7]
  BY <1>1, <1>3, <1>4, <1>8, <1>9 DEF Square
<1>11. ASSUME NEW k \in 0..6
       PROVE  b[k + 1] = Square(b[k]) /\ r[k + 1] = Mul(r[k], b[k])
  <2>1. run[k] \in T /\ run[k].bit = k + 1
    BY <1>3, <1>9
  <2>2. run[k + 1] = Turn(run[k])
    BY <1>9, <2>1
  <2> QED BY <2>1, <2>2 DEF Turn, Square
<1> HIDE DEF b, r
<1> QED BY <1>10, <1>11 DEF IsInv

\* Those of gf256_poly_eval.
IsEval(p, r, coeffs, n, x) ==
    /\ p \in [0..n -> Byte] /\ p[0] = One /\ \A k \in 1..n : p[k] = Mul(p[k - 1], x)
    /\ r \in [0..n -> Byte] /\ r[0] = Zero
    /\ \A k \in 1..n : r[k] = Xor(r[k - 1], Mul(coeffs[k], p[k - 1]))

\* The value of a polynomial is what the variables of gf256_poly_eval end with.
LEMMA PolyRuns ==
    ASSUME NEW coeffs \in Seq(Byte), NEW x \in Byte
    PROVE  \E p, r : IsEval(p, r, coeffs, Len(coeffs), x) /\ PolyEval(coeffs, x) = r[Len(coeffs)]
<1> DEFINE n == Len(coeffs)
           T == [i : 1..(n + 1), power : Byte, result : Byte]
           Turn(v) == [i |-> v.i + 1, power |-> Mul(v.power, x),
                       result |-> Xor(v.result, Mul(coeffs[v.i], v.power))]
           loop[v \in T] == IF v.i > n THEN v.result ELSE loop[Turn(v)]
           left == [v \in T |-> n + 1 - v.i]
           out == [v \in T |-> v.result]
           next == [v \in T |-> IF v.i > n THEN v ELSE Turn(v)]
           start == [i |-> 1, power |-> One, result |-> Zero]
<1>0. n \in Nat /\ \A i \in 1..n : coeffs[i] \in Byte
  OBVIOUS
<1>1. PolyEval(coeffs, x) = loop[start]
  BY DEF PolyEval
<1> HIDE DEF n
<1>2. \A v \in T : ~(v.i > n) => Turn(v) \in T /\ Turn(v).i = v.i + 1
  <2> SUFFICES ASSUME NEW v \in T, ~(v.i > n) PROVE Turn(v) \in T
    OBVIOUS
  <2>1. v.i + 1 \in 1..(n + 1) /\ v.i \in 1..n
    BY <1>0
  <2> QED BY <1>0, <2>1, MulType, BytesAreClosed
<1>3. \A v \in T : v.i \in 1..(n + 1) /\ v.result \in Byte /\ v.power \in Byte
  OBVIOUS
<1>4. start \in T /\ start.i = 1 /\ start.power = One /\ start.result = Zero
  BY <1>0, BytesAreClosed
<1> HIDE DEF T, Turn, start
<1>5. IsLoop(T, Byte, n, left, out, next)
  <2>1. left \in [T -> 0..n] /\ out \in [T -> Byte]
    BY <1>0, <1>3
  <2>2. next \in [T -> T]
    BY <1>2
  <2>3. ASSUME NEW s \in T, left[s] # 0 PROVE left[next[s]] = left[s] - 1
    <3>1. ~(s.i > n) /\ s.i \in 1..(n + 1)
      BY <1>0, <1>3, <2>3
    <3>2. next[s] = Turn(s) /\ Turn(s) \in T /\ Turn(s).i = s.i + 1
      BY <1>2, <3>1
    <3>3. left[s] = n + 1 - s.i /\ left[next[s]] = n + 1 - (s.i + 1)
      BY <3>2
    <3> HIDE DEF left, next
    <3> QED BY <1>0, <3>1, <3>3
  <2> HIDE DEF left, out, next
  <2> QED BY <1>0, <2>1, <2>2, <2>3 DEF IsLoop
<1>6. ASSUME NEW f \in [T -> Byte], Computes(f, T, left, out, next)
      PROVE  Computes(loop, T, left, out, next)
  <2>0. \A v \in T : left[v] = 0 <=> v.i > n
    BY <1>0, <1>3
  <2>1. f = [v \in T |-> IF v.i > n THEN v.result ELSE f[Turn(v)]]
    <3> HIDE DEF left
    <3> QED BY <1>6, <2>0 DEF Computes
  <2>2. loop = [v \in T |-> IF v.i > n THEN v.result ELSE loop[Turn(v)]]
    BY <2>1
  <2> HIDE DEF loop, left
  <2> QED BY <2>0, <2>2 DEF Computes
<1>7. left[start] = n
  BY <1>0, <1>4
<1>8. PICK run : IsRun(run, n, T, left, next, start) /\ loop[start] = out[run[n]]
  <2> HIDE DEF loop, left, out, next
  <2>1. IsLoopOf(loop, T, Byte, n, left, out, next)
    BY <1>5, <1>6 DEF IsLoopOf
  <2> QED BY <1>4, <1>7, <2>1, LoopComputes
<1>9. /\ run \in [0..n -> T] /\ run[0] = start
      /\ \A k \in 0..n : left[run[k]] = n - k /\ (k < n => run[k + 1] = next[run[k]])
  <2> HIDE DEF left, next
  <2> QED BY <1>8 DEF IsRun
<1> HIDE DEF loop
<1> DEFINE p == [k \in 0..n |-> run[k].power]
           r == [k \in 0..n |-> run[k].result]
<1>10. /\ p \in [0..n -> Byte] /\ r \in [0..n -> Byte]
       /\ p[0] = One /\ r[0] = Zero /\ PolyEval(coeffs, x) = r[n]
  BY <1>0, <1>1, <1>3, <1>4, <1>8, <1>9
<1>11. ASSUME NEW k \in 1..n
       PROVE  p[k] = Mul(p[k - 1], x) /\ r[k] = Xor(r[k - 1], Mul(coeffs[k], p[k - 1]))
  <2>1. k - 1 \in 0..n /\ k - 1 < n /\ (k - 1) + 1 = k
    BY <1>0
  <2>2. run[k - 1] \in T /\ run[k - 1].i = k
    <3>1. run[k - 1] \in T /\ left[run[k - 1]] = n - (k - 1)
      <4> HIDE DEF next, left
      <4> QED BY <1>9, <2>1
    <3>2. left[run[k - 1]] = n + 1 - run[k - 1].i /\ run[k - 1].i \in 1..(n + 1)
      BY <1>3, <3>1
    <3> HIDE DEF left
    <3> QED BY <1>0, <3>1, <3>2
  <2>3. run[k] = next[run[k - 1]]
    <3> HIDE DEF next, left
    <3> QED BY <1>9, <2>1
  <2>4. run[k] = Turn(run[k - 1])
    BY <1>0, <2>2, <2>3
  <2> QED BY <1>0, <2>1, <2>2, <2>4 DEF Turn
<1> HIDE DEF p, r
<1> QED BY <1>10, <1>11 DEF IsEval, n

\* Those of the products that the interpolation is made of.
IsProduct(r, values, n, i) ==
    /\ r \in [0..n -> Byte] /\ r[0] = One
    /\ \A k \in 1..n : r[k] = IF k = i THEN r[k - 1] ELSE Mul(r[k - 1], values[k])

\* The product is what its loop ends with.
LEMMA ProductRuns ==
    ASSUME NEW values \in Seq(Byte), NEW i
    PROVE  \E r : /\ IsProduct(r, values, Len(values), i)
                  /\ ProductButOne(values, i) = r[Len(values)]
<1> DEFINE n == Len(values)
           T == [j : 1..(n + 1), result : Byte]
           Turn(v) == [j |-> v.j + 1,
                       result |-> IF v.j = i THEN v.result ELSE Mul(v.result, values[v.j])]
           loop[v \in T] == IF v.j > n THEN v.result ELSE loop[Turn(v)]
           left == [v \in T |-> n + 1 - v.j]
           out == [v \in T |-> v.result]
           next == [v \in T |-> IF v.j > n THEN v ELSE Turn(v)]
           start == [j |-> 1, result |-> One]
<1>0. n \in Nat /\ \A j \in 1..n : values[j] \in Byte
  OBVIOUS
<1>1. ProductButOne(values, i) = loop[start]
  BY DEF ProductButOne
<1> HIDE DEF n
<1>2. \A v \in T : ~(v.j > n) => Turn(v) \in T /\ Turn(v).j = v.j + 1
  <2> SUFFICES ASSUME NEW v \in T, ~(v.j > n) PROVE Turn(v) \in T
    OBVIOUS
  <2>1. v.j + 1 \in 1..(n + 1) /\ v.j \in 1..n
    BY <1>0
  <2> QED BY <1>0, <2>1, MulType, BytesAreClosed
<1>3. \A v \in T : v.j \in 1..(n + 1) /\ v.result \in Byte
  OBVIOUS
<1>4. start \in T /\ start.j = 1 /\ start.result = One
  BY <1>0, BytesAreClosed
<1> HIDE DEF T, Turn, start
<1>5. IsLoop(T, Byte, n, left, out, next)
  <2>1. left \in [T -> 0..n] /\ out \in [T -> Byte]
    BY <1>0, <1>3
  <2>2. next \in [T -> T]
    BY <1>2
  <2>3. ASSUME NEW s \in T, left[s] # 0 PROVE left[next[s]] = left[s] - 1
    <3>1. ~(s.j > n) /\ s.j \in 1..(n + 1)
      BY <1>0, <1>3, <2>3
    <3>2. next[s] = Turn(s) /\ Turn(s) \in T /\ Turn(s).j = s.j + 1
      BY <1>2, <3>1
    <3>3. left[s] = n + 1 - s.j /\ left[next[s]] = n + 1 - (s.j + 1)
      BY <3>2
    <3> HIDE DEF left, next
    <3> QED BY <1>0, <3>1, <3>3
  <2> HIDE DEF left, out, next
  <2> QED BY <1>0, <2>1, <2>2, <2>3 DEF IsLoop
<1>6. ASSUME NEW f \in [T -> Byte], Computes(f, T, left, out, next)
      PROVE  Computes(loop, T, left, out, next)
  <2>0. \A v \in T : left[v] = 0 <=> v.j > n
    BY <1>0, <1>3
  <2>1. f = [v \in T |-> IF v.j > n THEN v.result ELSE f[Turn(v)]]
    <3> HIDE DEF left
    <3> QED BY <1>6, <2>0 DEF Computes
  <2>2. loop = [v \in T |-> IF v.j > n THEN v.result ELSE loop[Turn(v)]]
    BY <2>1
  <2> HIDE DEF loop, left
  <2> QED BY <2>0, <2>2 DEF Computes
<1>7. left[start] = n
  BY <1>0, <1>4
<1>8. PICK run : IsRun(run, n, T, left, next, start) /\ loop[start] = out[run[n]]
  <2> HIDE DEF loop, left, out, next
  <2>1. IsLoopOf(loop, T, Byte, n, left, out, next)
    BY <1>5, <1>6 DEF IsLoopOf
  <2> QED BY <1>4, <1>7, <2>1, LoopComputes
<1>9. /\ run \in [0..n -> T] /\ run[0] = start
      /\ \A k \in 0..n : left[run[k]] = n - k /\ (k < n => run[k + 1] = next[run[k]])
  <2> HIDE DEF left, next
  <2> QED BY <1>8 DEF IsRun
<1> HIDE DEF loop
<1> DEFINE r == [k \in 0..n |-> run[k].result]
<1>10. r \in [0..n -> Byte] /\ r[0] = One /\ ProductButOne(values, i) = r[n]
  BY <1>0, <1>1, <1>3, <1>4, <1>8, <1>9
<1>11. ASSUME NEW k \in 1..n
       PROVE  r[k] = IF k = i THEN r[k - 1] ELSE Mul(r[k - 1], values[k])
  <2>1. k - 1 \in 0..n /\ k - 1 < n /\ (k - 1) + 1 = k
    BY <1>0
  <2>2. run[k - 1] \in T /\ run[k - 1].j = k
    <3>1. run[k - 1] \in T /\ left[run[k - 1]] = n - (k - 1)
      <4> HIDE DEF next, left
      <4> QED BY <1>9, <2>1
    <3>2. left[run[k - 1]] = n + 1 - run[k - 1].j /\ run[k - 1].j \in 1..(n + 1)
      BY <1>3, <3>1
    <3> HIDE DEF left
    <3> QED BY <1>0, <3>1, <3>2
  <2>3. run[k] = next[run[k - 1]]
    <3> HIDE DEF next, left
    <3> QED BY <1>9, <2>1
  <2>4. run[k] = Turn(run[k - 1])
    BY <1>0, <2>2, <2>3
  <2> QED BY <1>0, <2>1, <2>2, <2>4 DEF Turn
<1> HIDE DEF r
<1> QED BY <1>10, <1>11 DEF IsProduct, n

\* Those of gf256_lagrange_interpolate_zero.
IsSum(r, values, n) ==
    /\ r \in [0..n -> Byte] /\ r[0] = Zero
    /\ \A k \in 1..n : r[k] = Xor(r[k - 1], values[k])

Coefficient(points, i) ==
    Mul(ProductButOne([j \in 1..Len(points) |-> points[j].x], i),
        Inv256(ProductButOne([j \in 1..Len(points) |-> Xor(points[i].x, points[j].x)], i)))

\* The interpolation is what the sum over the points ends with.
LEMMA LagrangeRuns ==
    ASSUME NEW points \in Seq([x : Byte, y : Byte]),
           \A i \in 1..Len(points) : Coefficient(points, i) \in Byte
    PROVE  \E r : /\ IsSum(r, [i \in 1..Len(points) |->
                                Mul(points[i].y, Coefficient(points, i))], Len(points))
                  /\ LagrangeAtZero(points) = r[Len(points)]
<1> DEFINE n == Len(points)
           coefficient(i) ==
             Mul(ProductButOne([j \in 1..n |-> points[j].x], i),
                 Inv256(ProductButOne([j \in 1..n |-> Xor(points[i].x, points[j].x)], i)))
           T == [i : 1..(n + 1), result : Byte]
           Turn(v) == [i |-> v.i + 1,
                       result |-> Xor(v.result, Mul(points[v.i].y, coefficient(v.i)))]
           loop[v \in T] == IF v.i > n THEN v.result ELSE loop[Turn(v)]
           left == [v \in T |-> n + 1 - v.i]
           out == [v \in T |-> v.result]
           next == [v \in T |-> IF v.i > n THEN v ELSE Turn(v)]
           start == [i |-> 1, result |-> Zero]
<1>0. n \in Nat /\ \A i \in 1..n : points[i].y \in Byte /\ coefficient(i) \in Byte
                                    /\ coefficient(i) = Coefficient(points, i)
  <2>1. n \in Nat /\ \A i \in 1..n : points[i] \in [x : Byte, y : Byte]
    <3> DEFINE P == [x : Byte, y : Byte]
    <3>1. points \in Seq(P)
      OBVIOUS
    <3> HIDE DEF P, coefficient, T, loop
    <3>2. n \in Nat /\ \A i \in 1..n : points[i] \in P
      BY <3>1
    <3> QED BY <3>2 DEF P
  <2>2. \A i : coefficient(i) = Coefficient(points, i)
    BY DEF Coefficient
  <2> HIDE DEF coefficient
  <2> QED BY <2>1, <2>2
<1>1. LagrangeAtZero(points) = loop[start]
  BY DEF LagrangeAtZero
<1> HIDE DEF n, coefficient
<1>2. \A v \in T : ~(v.i > n) => Turn(v) \in T /\ Turn(v).i = v.i + 1
  <2> SUFFICES ASSUME NEW v \in T, ~(v.i > n) PROVE Turn(v) \in T
    OBVIOUS
  <2>1. v.i + 1 \in 1..(n + 1) /\ v.i \in 1..n
    BY <1>0
  <2>2. points[v.i].y \in Byte /\ coefficient(v.i) \in Byte
    BY <1>0, <2>1
  <2>3. Xor(v.result, Mul(points[v.i].y, coefficient(v.i))) \in Byte
    BY <2>2, MulType, BytesAreClosed
  <2> QED BY <2>1, <2>3
<1>3. \A v \in T : v.i \in 1..(n + 1) /\ v.result \in Byte
  OBVIOUS
<1>4. start \in T /\ start.i = 1 /\ start.result = Zero
  BY <1>0, BytesAreClosed
<1> HIDE DEF T, Turn, start
<1>5. IsLoop(T, Byte, n, left, out, next)
  <2>1. left \in [T -> 0..n] /\ out \in [T -> Byte]
    BY <1>0, <1>3
  <2>2. next \in [T -> T]
    BY <1>2
  <2>3. ASSUME NEW s \in T, left[s] # 0 PROVE left[next[s]] = left[s] - 1
    <3>1. ~(s.i > n) /\ s.i \in 1..(n + 1)
      BY <1>0, <1>3, <2>3
    <3>2. next[s] = Turn(s) /\ Turn(s) \in T /\ Turn(s).i = s.i + 1
      BY <1>2, <3>1
    <3>3. left[s] = n + 1 - s.i /\ left[next[s]] = n + 1 - (s.i + 1)
      BY <3>2
    <3> HIDE DEF left, next
    <3> QED BY <1>0, <3>1, <3>3
  <2> HIDE DEF left, out, next
  <2> QED BY <1>0, <2>1, <2>2, <2>3 DEF IsLoop
<1>6. ASSUME NEW f \in [T -> Byte], Computes(f, T, left, out, next)
      PROVE  Computes(loop, T, left, out, next)
  <2>0. \A v \in T : left[v] = 0 <=> v.i > n
    BY <1>0, <1>3
  <2>1. f = [v \in T |-> IF v.i > n THEN v.result ELSE f[Turn(v)]]
    <3> HIDE DEF left
    <3> QED BY <1>6, <2>0 DEF Computes
  <2>2. loop = [v \in T |-> IF v.i > n THEN v.result ELSE loop[Turn(v)]]
    BY <2>1
  <2> HIDE DEF loop, left
  <2> QED BY <2>0, <2>2 DEF Computes
<1>7. left[start] = n
  BY <1>0, <1>4
<1>8. PICK run : IsRun(run, n, T, left, next, start) /\ loop[start] = out[run[n]]
  <2> HIDE DEF loop, left, out, next
  <2>1. IsLoopOf(loop, T, Byte, n, left, out, next)
    BY <1>5, <1>6 DEF IsLoopOf
  <2> QED BY <1>4, <1>7, <2>1, LoopComputes
<1>9. /\ run \in [0..n -> T] /\ run[0] = start
      /\ \A k \in 0..n : left[run[k]] = n - k /\ (k < n => run[k + 1] = next[run[k]])
  <2> HIDE DEF left, next
  <2> QED BY <1>8 DEF IsRun
<1> HIDE DEF loop
<1> DEFINE r == [k \in 0..n |-> run[k].result]
<1>10. r \in [0..n -> Byte] /\ r[0] = Zero /\ LagrangeAtZero(points) = r[n]
  BY <1>0, <1>1, <1>3, <1>4, <1>8, <1>9
<1>11. ASSUME NEW k \in 1..n
       PROVE  r[k] = Xor(r[k - 1], Mul(points[k].y, Coefficient(points, k)))
  <2>1. k - 1 \in 0..n /\ k - 1 < n /\ (k - 1) + 1 = k
    BY <1>0
  <2>2. run[k - 1] \in T /\ run[k - 1].i = k
    <3>1. run[k - 1] \in T /\ left[run[k - 1]] = n - (k - 1)
      <4> HIDE DEF next, left
      <4> QED BY <1>9, <2>1
    <3>2. left[run[k - 1]] = n + 1 - run[k - 1].i /\ run[k - 1].i \in 1..(n + 1)
      BY <1>3, <3>1
    <3> HIDE DEF left
    <3> QED BY <1>0, <3>1, <3>2
  <2>3. run[k] = next[run[k - 1]]
    <3> HIDE DEF next, left
    <3> QED BY <1>9, <2>1
  <2>4. run[k] = Turn(run[k - 1])
    BY <1>0, <2>2, <2>3
  <2> QED BY <1>0, <2>1, <2>2, <2>4 DEF Turn
<1> HIDE DEF r
<1> QED BY <1>10, <1>11 DEF IsSum, n

----------------------------------------------------------------------------
\* Inverses and sums.

\* Anything times zero.
LEMMA MulZeroRight ==
    ASSUME NEW x \in Byte
    PROVE  Mul(x, Zero) = Zero /\ Mul(x, One) = x
<1>1. Mul(x, Zero) = Mul(Zero, x) /\ Mul(x, One) = Mul(One, x)
  BY MulCommutes, BytesAreClosed
<1> QED BY <1>1, MulZero, MulOne

\* The last two of three factors can be exchanged.
LEMMA MulSwap ==
    ASSUME NEW x \in Byte, NEW y \in Byte, NEW z \in Byte
    PROVE  Mul(Mul(x, y), z) = Mul(Mul(x, z), y)
<1>1. Mul(Mul(x, y), z) = Mul(x, Mul(y, z)) /\ Mul(Mul(x, z), y) = Mul(x, Mul(z, y))
  BY MulIsAssociative
<1>2. Mul(y, z) = Mul(z, y)
  BY MulCommutes
<1> QED BY <1>1, <1>2

\* Inverses are bytes.
LEMMA InverseType == \A x \in Byte : Inv256(x) \in Byte
<1> SUFFICES ASSUME NEW x \in Byte PROVE Inv256(x) \in Byte
  OBVIOUS
<1>1. PICK b, r : IsInv(b, r, x) /\ Inv256(x) = r[7]
  BY InvRuns
<1> QED BY <1>1 DEF IsInv

\* gf256_inv inverts: x^255 is its own square, and x times it is x^256.
LEMMA InverseWorks ==
    ASSUME NEW x \in Byte, x # Zero
    PROVE  Mul(x, Inv256(x)) = One
<1>1. PICK b, r : IsInv(b, r, x) /\ Inv256(x) = r[7]
  BY InvRuns
<1>2. /\ \A k \in 0..7 : b[k] \in Byte /\ r[k] \in Byte
      /\ b[0] = Square(x) /\ r[0] = One
      /\ \A k \in 0..6 : b[k + 1] = Square(b[k]) /\ r[k + 1] = Mul(r[k], b[k])
  BY <1>1 DEF IsInv
<1>3. b[7] = x
  <2>1. /\ b[1] = Square(b[0]) /\ b[2] = Square(b[1]) /\ b[3] = Square(b[2])
        /\ b[4] = Square(b[3]) /\ b[5] = Square(b[4]) /\ b[6] = Square(b[5])
        /\ b[7] = Square(b[6])
    <3>1. /\ 0 \in 0..6 /\ 1 \in 0..6 /\ 2 \in 0..6 /\ 3 \in 0..6 /\ 4 \in 0..6
          /\ 5 \in 0..6 /\ 6 \in 0..6 /\ 0 + 1 = 1 /\ 1 + 1 = 2 /\ 2 + 1 = 3 /\ 3 + 1 = 4
          /\ 4 + 1 = 5 /\ 5 + 1 = 6 /\ 6 + 1 = 7
      OBVIOUS
    <3>2. \A k \in 0..6 : b[k + 1] = Square(b[k])
      BY <1>2
    <3> QED BY <3>1, <3>2
  <2>2. b[7] = Power256(x)
    BY <1>2, <2>1 DEF Power256, Power16, Power4
  <2> QED BY <2>2, Power256IsSame
<1> DEFINE S == {k \in 0..7 : /\ Mul(b[0], r[k]) = b[k]
                              /\ Mul(Square(r[k]), b[0]) = Mul(r[k], b[k])}
<1>4. 0 \in S
  <2>1. Square(One) = One
    BY MulOne, BytesAreClosed DEF Square
  <2>2. b[0] \in Byte
    BY <1>2
  <2> QED BY <1>2, <2>1, <2>2, MulOne, MulZeroRight
<1>5. ASSUME NEW k \in 0..7, k < 7, k \in S PROVE k + 1 \in S
  <2>1. k \in 0..6 /\ k + 1 \in 0..7
    BY <1>5
  <2>2. b[0] \in Byte /\ b[k] \in Byte /\ r[k] \in Byte /\ Square(r[k]) \in Byte
        /\ b[k + 1] = Square(b[k]) /\ r[k + 1] = Mul(r[k], b[k]) /\ Square(b[k]) \in Byte
        /\ Mul(r[k], b[k]) \in Byte
    BY <1>2, <2>1, SquareType, MulType
  <2>3. Mul(b[0], r[k]) = b[k] /\ Mul(Square(r[k]), b[0]) = Mul(r[k], b[k])
    BY <1>5
  <2>4. Mul(b[0], Mul(r[k], b[k])) = b[k + 1]
    <3>1. Mul(b[0], Mul(r[k], b[k])) = Mul(Mul(b[0], r[k]), b[k])
      BY <2>2, MulIsAssociative
    <3> QED BY <2>2, <2>3, <3>1 DEF Square
  <2>5. Mul(Square(r[k + 1]), b[0]) = Mul(r[k + 1], b[k + 1])
    <3>1. Square(Mul(r[k], b[k])) = Mul(Square(r[k]), Square(b[k]))
      BY <2>2, SquareOfProduct
    <3>2. Mul(Mul(Square(r[k]), Square(b[k])), b[0]) = Mul(Mul(Square(r[k]), b[0]), Square(b[k]))
      BY <2>2, MulSwap
    <3> QED BY <2>2, <2>3, <3>1, <3>2
  <2> QED BY <2>1, <2>2, <2>4, <2>5
<1>6. 7 \in S
  <2>1. \A k \in 0..7 : k < 7 /\ k \in S => k + 1 \in S
    BY <1>5
  <2>2. 7 \in Nat
    OBVIOUS
  <2> HIDE DEF S
  <2>3. 0..7 \subseteq S
    BY <1>4, <2>1, <2>2, UpTo
  <2> QED BY <2>3
<1> DEFINE e == Mul(x, r[7])
<1>7. r[7] \in Byte /\ b[0] \in Byte /\ e \in Byte /\ Square(r[7]) \in Byte
  BY <1>2, MulType, SquareType
<1>8. Mul(x, e) = x
  <2>1. Mul(x, Mul(x, r[7])) = Mul(Mul(x, x), r[7])
    BY <1>7, MulIsAssociative
  <2> QED BY <1>2, <1>3, <1>6, <2>1 DEF Square
<1>9. Square(e) = e
  <2>1. Square(Mul(x, r[7])) = Mul(Square(x), Square(r[7]))
    BY <1>7, SquareOfProduct
  <2>2. Mul(b[0], Square(r[7])) = Mul(Square(r[7]), b[0])
    BY <1>7, MulCommutes
  <2>3. Mul(r[7], x) = Mul(x, r[7])
    BY <1>7, MulCommutes
  <2> QED BY <1>2, <1>3, <1>6, <2>1, <2>2, <2>3
<1> HIDE DEF e
<1>10. e # Zero
  BY <1>8, MulZeroRight
<1>11. e = One
  BY <1>7, <1>9, <1>10, OwnSquares
<1> QED BY <1>1, <1>11 DEF e

\* A factor other than zero can be cancelled.
LEMMA Cancel ==
    ASSUME NEW x \in Byte, NEW y \in Byte, NEW z \in Byte, x # Zero, Mul(x, y) = Mul(x, z)
    PROVE  y = z
<1> DEFINE i == Inv256(x)
<1>1. i \in Byte /\ Mul(x, i) = One
  BY InverseType, InverseWorks
<1> HIDE DEF i
<1>2. Mul(i, x) = One
  BY <1>1, MulCommutes
<1>3. Mul(Mul(i, x), y) = Mul(i, Mul(x, y)) /\ Mul(Mul(i, x), z) = Mul(i, Mul(x, z))
  BY <1>1, MulIsAssociative
<1> QED BY <1>2, <1>3, MulOne

\* A product is zero only if a factor is.
LEMMA NoZeroDivisors ==
    ASSUME NEW x \in Byte, NEW y \in Byte, x # Zero, y # Zero
    PROVE  Mul(x, y) # Zero
<1>1. Mul(x, Zero) = Zero
  BY MulZeroRight
<1> QED BY <1>1, Cancel, BytesAreClosed

\* Sums of bytes: with all powers one, a polynomial's value is the sum of its coefficients.
Total(v) == PolyEval(v, One)

\* The partial sums of a total.
LEMMA TotalRuns ==
    ASSUME NEW n \in Nat, NEW v \in [1..n -> Byte]
    PROVE  \E r : IsSum(r, v, n) /\ Total(v) = r[n]
<1>1. v \in Seq(Byte) /\ Len(v) = n
  OBVIOUS
<1>2. PICK p, r : IsEval(p, r, v, n, One) /\ PolyEval(v, One) = r[n]
  BY <1>1, PolyRuns, BytesAreClosed
<1> DEFINE S == {k \in 0..n : p[k] = One}
<1>3. 0 \in S
  BY <1>2 DEF IsEval
<1>4. \A k \in 0..n : k < n /\ k \in S => k + 1 \in S
  <2> SUFFICES ASSUME NEW k \in 0..n, k < n, k \in S PROVE k + 1 \in S
    OBVIOUS
  <2>1. k + 1 \in 1..n /\ (k + 1) - 1 = k
    OBVIOUS
  <2>2. p[k + 1] = Mul(p[k], One)
    BY <1>2, <2>1 DEF IsEval
  <2> QED BY <2>1, <2>2, MulOne, BytesAreClosed
<1>5. \A k \in 0..n : p[k] = One
  <2> HIDE DEF S
  <2>1. 0..n \subseteq S
    BY <1>3, <1>4, UpTo
  <2> QED BY <2>1 DEF S
<1>6. IsSum(r, v, n)
  <2>1. ASSUME NEW k \in 1..n PROVE r[k] = Xor(r[k - 1], v[k])
    <3>1. r[k] = Xor(r[k - 1], Mul(v[k], p[k - 1])) /\ k - 1 \in 0..n
      BY <1>2 DEF IsEval
    <3>2. Mul(v[k], One) = v[k]
      BY MulZeroRight
    <3> QED BY <1>5, <3>1, <3>2
  <2> QED BY <1>2, <2>1 DEF IsSum, IsEval
<1> QED BY <1>2, <1>6 DEF Total

\* Whatever adds up a sequence gives its total.
LEMMA SumsAreTotals ==
    ASSUME NEW n \in Nat, NEW v \in [1..n -> Byte], NEW s, IsSum(s, v, n)
    PROVE  s[n] = Total(v)
<1>1. PICK r : IsSum(r, v, n) /\ Total(v) = r[n]
  BY TotalRuns
<1> DEFINE S == {k \in 0..n : s[k] = r[k]}
<1>2. 0 \in S
  BY <1>1 DEF IsSum
<1>3. \A k \in 0..n : k < n /\ k \in S => k + 1 \in S
  <2> SUFFICES ASSUME NEW k \in 0..n, k < n, k \in S PROVE k + 1 \in S
    OBVIOUS
  <2>1. k + 1 \in 1..n /\ (k + 1) - 1 = k
    OBVIOUS
  <2> QED BY <1>1, <2>1 DEF IsSum
<1>4. 0..n \subseteq S
  <2> HIDE DEF S
  <2> QED BY <1>2, <1>3, UpTo
<1> QED BY <1>1, <1>4

\* Totals are bytes.
LEMMA TotalType ==
    ASSUME NEW n \in Nat, NEW v \in [1..n -> Byte]
    PROVE  Total(v) \in Byte
<1>1. PICK r : IsSum(r, v, n) /\ Total(v) = r[n]
  BY TotalRuns
<1> QED BY <1>1 DEF IsSum

\* The total of the sums is the sum of the totals.
LEMMA TotalAdds ==
    ASSUME NEW n \in Nat, NEW v \in [1..n -> Byte], NEW w \in [1..n -> Byte]
    PROVE  Total([i \in 1..n |-> Xor(v[i], w[i])]) = Xor(Total(v), Total(w))
<1>1. PICK r : IsSum(r, v, n) /\ Total(v) = r[n]
  BY TotalRuns
<1>2. PICK s : IsSum(s, w, n) /\ Total(w) = s[n]
  BY TotalRuns
<1> DEFINE t == [k \in 0..n |-> Xor(r[k], s[k])]
           u == [i \in 1..n |-> Xor(v[i], w[i])]
<1>3. u \in [1..n -> Byte]
  BY BytesAreClosed
<1>4. IsSum(t, u, n)
  <2>1. t \in [0..n -> Byte] /\ t[0] = Zero
    BY <1>1, <1>2, BytesAreClosed, XorLaws DEF IsSum
  <2>2. ASSUME NEW k \in 1..n PROVE t[k] = Xor(t[k - 1], u[k])
    <3>1. k - 1 \in 0..n /\ k \in 0..n
      OBVIOUS
    <3>2. r[k] = Xor(r[k - 1], v[k]) /\ s[k] = Xor(s[k - 1], w[k])
          /\ r[k - 1] \in Byte /\ s[k - 1] \in Byte
      BY <1>1, <1>2, <3>1 DEF IsSum
    <3>3. Xor(Xor(r[k - 1], v[k]), Xor(s[k - 1], w[k]))
          = Xor(Xor(r[k - 1], s[k - 1]), Xor(v[k], w[k]))
      BY <3>2, XorOfXors
    <3> QED BY <3>1, <3>2, <3>3
  <2> QED BY <2>1, <2>2 DEF IsSum
<1>5. t[n] = Total(u)
  <2> HIDE DEF t, u
  <2> QED BY <1>3, <1>4, SumsAreTotals
<1> QED BY <1>1, <1>2, <1>5

\* A factor can be taken out of a total.
LEMMA TotalScales ==
    ASSUME NEW n \in Nat, NEW v \in [1..n -> Byte], NEW c \in Byte
    PROVE  Total([i \in 1..n |-> Mul(c, v[i])]) = Mul(c, Total(v))
<1>1. PICK r : IsSum(r, v, n) /\ Total(v) = r[n]
  BY TotalRuns
<1> DEFINE t == [k \in 0..n |-> Mul(c, r[k])]
           u == [i \in 1..n |-> Mul(c, v[i])]
<1>2. u \in [1..n -> Byte]
  BY MulType
<1>3. IsSum(t, u, n)
  <2>1. t \in [0..n -> Byte] /\ t[0] = Zero
    BY <1>1, MulType, MulZeroRight DEF IsSum
  <2>2. ASSUME NEW k \in 1..n PROVE t[k] = Xor(t[k - 1], u[k])
    <3>1. k - 1 \in 0..n /\ k \in 0..n
      OBVIOUS
    <3>2. r[k] = Xor(r[k - 1], v[k]) /\ r[k - 1] \in Byte /\ r[k] \in Byte
      BY <1>1, <3>1 DEF IsSum
    <3>3. Mul(c, Xor(r[k - 1], v[k])) = Xor(Mul(c, r[k - 1]), Mul(c, v[k]))
      <4>1. Mul(Xor(r[k - 1], v[k]), c) = Xor(Mul(r[k - 1], c), Mul(v[k], c))
        BY <3>2, MulAdds
      <4>2. Mul(Xor(r[k - 1], v[k]), c) = Mul(c, Xor(r[k - 1], v[k]))
            /\ Mul(r[k - 1], c) = Mul(c, r[k - 1]) /\ Mul(v[k], c) = Mul(c, v[k])
        BY <3>2, MulCommutes
      <4> QED BY <4>1, <4>2
    <3> QED BY <3>1, <3>2, <3>3
  <2> QED BY <2>1, <2>2 DEF IsSum
<1>4. t[n] = Total(u)
  <2> HIDE DEF t, u
  <2> QED BY <1>2, <1>3, SumsAreTotals
<1> QED BY <1>1, <1>4

\* The total of a sequence that is zero but in one place is the byte there.
LEMMA TotalOfOne ==
    ASSUME NEW n \in Nat, NEW v \in [1..n -> Byte], NEW a \in 1..n,
           \A i \in 1..n : i # a => v[i] = Zero
    PROVE  Total(v) = v[a]
<1> DEFINE t == [k \in 0..n |-> IF k < a THEN Zero ELSE v[a]]
<1>1. IsSum(t, v, n)
  <2>1. t \in [0..n -> Byte] /\ t[0] = Zero
    BY BytesAreClosed
  <2>2. ASSUME NEW k \in 1..n PROVE t[k] = Xor(t[k - 1], v[k])
    <3>1. k - 1 \in 0..n /\ k \in 0..n /\ (k - 1 < a <=> k < a \/ k = a)
      OBVIOUS
    <3> QED BY <3>1, XorLaws, BytesAreClosed
  <2> QED BY <2>1, <2>2 DEF IsSum
<1>2. t[n] = Total(v)
  <2> HIDE DEF t
  <2> QED BY <1>1, SumsAreTotals
<1>3. n \in 0..n /\ ~(n < a)
  OBVIOUS
<1> QED BY <1>2, <1>3

----------------------------------------------------------------------------
\* Products, and the weights of interpolation.

\* The product of the members of v at A.
ProductOver(n, v, A) == ProductButOne([j \in 1..n |-> IF j \in A THEN v[j] ELSE One], 0)

IsProductOver(r, n, v, A) ==
    /\ r \in [0..n -> Byte] /\ r[0] = One
    /\ \A k \in 1..n : r[k] = IF k \in A THEN Mul(r[k - 1], v[k]) ELSE r[k - 1]

\* The partial products of a product over a set of positions.
LEMMA ProductOverRuns ==
    ASSUME NEW n \in Nat, NEW v \in [1..n -> Byte], NEW A
    PROVE  \E r : IsProductOver(r, n, v, A) /\ ProductOver(n, v, A) = r[n]
<1> DEFINE m == [j \in 1..n |-> IF j \in A THEN v[j] ELSE One]
<1>1. m \in [1..n -> Byte]
  BY BytesAreClosed
<1>2. m \in Seq(Byte) /\ Len(m) = n
  BY <1>1
<1>3. \A j \in 1..n : m[j] = IF j \in A THEN v[j] ELSE One
  OBVIOUS
<1>4. ProductOver(n, v, A) = ProductButOne(m, 0)
  BY DEF ProductOver
<1> HIDE DEF m
<1>5. PICK r : IsProduct(r, m, n, 0) /\ ProductButOne(m, 0) = r[n]
  BY <1>2, ProductRuns
<1>6. ASSUME NEW k \in 1..n
      PROVE  r[k] = IF k \in A THEN Mul(r[k - 1], v[k]) ELSE r[k - 1]
  <2>1. k # 0 /\ k - 1 \in 0..n
    OBVIOUS
  <2>2. r[k] = Mul(r[k - 1], m[k]) /\ r[k - 1] \in Byte
    BY <1>5, <2>1 DEF IsProduct
  <2> QED BY <1>3, <2>2, MulZeroRight
<1>7. IsProductOver(r, n, v, A)
  BY <1>5, <1>6 DEF IsProduct, IsProductOver
<1> QED BY <1>4, <1>5, <1>7

\* Whatever multiplies the members at these positions gives their product.
LEMMA SameProducts ==
    ASSUME NEW n \in Nat, NEW v \in [1..n -> Byte], NEW A, NEW s, IsProductOver(s, n, v, A)
    PROVE  s[n] = ProductOver(n, v, A)
<1>1. PICK r : IsProductOver(r, n, v, A) /\ ProductOver(n, v, A) = r[n]
  BY ProductOverRuns
<1> DEFINE S == {k \in 0..n : s[k] = r[k]}
<1>2. 0 \in S
  BY <1>1 DEF IsProductOver
<1>3. \A k \in 0..n : k < n /\ k \in S => k + 1 \in S
  <2> SUFFICES ASSUME NEW k \in 0..n, k < n, k \in S PROVE k + 1 \in S
    OBVIOUS
  <2>1. k + 1 \in 1..n /\ (k + 1) - 1 = k
    OBVIOUS
  <2> QED BY <1>1, <2>1 DEF IsProductOver
<1>4. 0..n \subseteq S
  <2> HIDE DEF S
  <2> QED BY <1>2, <1>3, UpTo
<1> QED BY <1>1, <1>4

\* Products over positions are bytes.
LEMMA ProductOverType ==
    ASSUME NEW n \in Nat, NEW v \in [1..n -> Byte], NEW A
    PROVE  ProductOver(n, v, A) \in Byte
<1>1. PICK r : IsProductOver(r, n, v, A) /\ ProductOver(n, v, A) = r[n]
  BY ProductOverRuns
<1> QED BY <1>1 DEF IsProductOver

\* ProductButOne is the product over all other positions.
LEMMA ProductOfOthers ==
    ASSUME NEW n \in Nat, NEW v \in [1..n -> Byte], NEW i
    PROVE  ProductButOne(v, i) = ProductOver(n, v, (1..n) \ {i})
<1>1. v \in Seq(Byte) /\ Len(v) = n
  OBVIOUS
<1>2. PICK r : IsProduct(r, v, n, i) /\ ProductButOne(v, i) = r[n]
  BY <1>1, ProductRuns
<1>3. IsProductOver(r, n, v, (1..n) \ {i})
  BY <1>2 DEF IsProduct, IsProductOver
<1> QED BY <1>2, <1>3, SameProducts

\* The product of nothing is one.
LEMMA ProductOfNone ==
    ASSUME NEW n \in Nat, NEW v \in [1..n -> Byte]
    PROVE  ProductOver(n, v, {}) = One
<1> DEFINE s == [k \in 0..n |-> One]
<1>1. IsProductOver(s, n, v, {})
  BY BytesAreClosed DEF IsProductOver
<1>2. s[n] = ProductOver(n, v, {})
  <2> HIDE DEF s
  <2> QED BY <1>1, SameProducts
<1> QED BY <1>2

\* One factor can be taken out.
LEMMA ProductSplits ==
    ASSUME NEW n \in Nat, NEW v \in [1..n -> Byte], NEW A, NEW a \in 1..n, a \in A
    PROVE  ProductOver(n, v, A) = Mul(v[a], ProductOver(n, v, A \ {a}))
<1>1. PICK r : IsProductOver(r, n, v, A \ {a}) /\ ProductOver(n, v, A \ {a}) = r[n]
  BY ProductOverRuns
<1> DEFINE s == [k \in 0..n |-> IF k < a THEN r[k] ELSE Mul(v[a], r[k])]
<1>2. IsProductOver(s, n, v, A)
  <2>1. s \in [0..n -> Byte] /\ s[0] = One
    BY <1>1, MulType DEF IsProductOver
  <2>2. ASSUME NEW k \in 1..n
        PROVE  s[k] = IF k \in A THEN Mul(s[k - 1], v[k]) ELSE s[k - 1]
    <3>1. k - 1 \in 0..n /\ k \in 0..n /\ (k - 1 < a <=> k < a \/ k = a)
      OBVIOUS
    <3>2. r[k - 1] \in Byte /\ r[k] \in Byte
          /\ r[k] = IF k \in A \ {a} THEN Mul(r[k - 1], v[k]) ELSE r[k - 1]
      BY <1>1, <3>1 DEF IsProductOver
    <3>3. CASE k < a
      BY <3>1, <3>2, <3>3
    <3>4. CASE k = a
      <4>1. s[k] = Mul(v[a], r[k - 1]) /\ s[k - 1] = r[k - 1]
        BY <3>1, <3>2, <3>4
      <4> QED BY <3>2, <3>4, <4>1, MulCommutes
    <3>5. CASE k > a
      <4>1. s[k] = Mul(v[a], r[k]) /\ s[k - 1] = Mul(v[a], r[k - 1]) /\ k # a
        BY <3>1, <3>5
      <4>2. Mul(v[a], Mul(r[k - 1], v[k])) = Mul(Mul(v[a], r[k - 1]), v[k])
        BY <3>2, MulIsAssociative
      <4> QED BY <3>2, <4>1, <4>2
    <3> QED BY <3>1, <3>3, <3>4, <3>5
  <2> QED BY <2>1, <2>2 DEF IsProductOver
<1>3. s[n] = ProductOver(n, v, A)
  <2> HIDE DEF s
  <2> QED BY <1>2, SameProducts
<1>4. n \in 0..n /\ ~(n < a)
  OBVIOUS
<1> QED BY <1>1, <1>3, <1>4

\* A product without a zero is not zero.
LEMMA ProductIsNotZero ==
    ASSUME NEW n \in Nat, NEW v \in [1..n -> Byte], NEW A, \A i \in 1..n : i \in A => v[i] # Zero
    PROVE  ProductOver(n, v, A) # Zero
<1>1. PICK r : IsProductOver(r, n, v, A) /\ ProductOver(n, v, A) = r[n]
  BY ProductOverRuns
<1> DEFINE S == {k \in 0..n : r[k] # Zero}
<1>2. 0 \in S
  <2>1. One # Zero
    BY DEF One, Zero
  <2>2. r[0] = One
    BY <1>1 DEF IsProductOver
  <2> QED BY <2>1, <2>2
<1>3. \A k \in 0..n : k < n /\ k \in S => k + 1 \in S
  <2> SUFFICES ASSUME NEW k \in 0..n, k < n, k \in S PROVE k + 1 \in S
    OBVIOUS
  <2>1. k + 1 \in 1..n /\ (k + 1) - 1 = k /\ k + 1 \in 0..n
    OBVIOUS
  <2>2. r[k + 1] = IF k + 1 \in A THEN Mul(r[k], v[k + 1]) ELSE r[k]
    BY <1>1, <2>1 DEF IsProductOver
  <2>3. r[k] \in Byte /\ v[k + 1] \in Byte
    BY <1>1, <2>1 DEF IsProductOver
  <2> QED BY <2>1, <2>2, <2>3, NoZeroDivisors
<1>4. 0..n \subseteq S
  <2> HIDE DEF S
  <2> QED BY <1>2, <1>3, UpTo
<1> QED BY <1>1, <1>4

\* The coefficient of the i-th of the points at A, and those of all positions.
Distances(n, xs, i) == [j \in 1..n |-> Xor(xs[i], xs[j])]
Weight(n, xs, A, i) ==
    Mul(ProductOver(n, xs, A \ {i}), Inv256(ProductOver(n, Distances(n, xs, i), A \ {i})))
Weights(n, xs, A) == [i \in 1..n |-> IF i \in A THEN Weight(n, xs, A, i) ELSE Zero]

Distinct(n, xs) == xs \in [1..n -> Byte] /\ \A i, j \in 1..n : i # j => xs[i] # xs[j]

\* Distances and weights are bytes.
LEMMA WeightTypes ==
    ASSUME NEW n \in Nat, NEW xs \in [1..n -> Byte], NEW A
    PROVE  /\ \A i \in 1..n : Distances(n, xs, i) \in [1..n -> Byte]
           /\ \A i \in 1..n : Weight(n, xs, A, i) \in Byte
           /\ Weights(n, xs, A) \in [1..n -> Byte]
<1>1. ASSUME NEW i \in 1..n
      PROVE  Distances(n, xs, i) \in [1..n -> Byte] /\ Weight(n, xs, A, i) \in Byte
  <2>1. Distances(n, xs, i) \in [1..n -> Byte]
    BY BytesAreClosed DEF Distances
  <2>2. ProductOver(n, Distances(n, xs, i), A \ {i}) \in Byte
        /\ ProductOver(n, xs, A \ {i}) \in Byte
    BY <2>1, ProductOverType
  <2> QED BY <2>1, <2>2, InverseType, MulType DEF Weight
<1> QED BY <1>1, BytesAreClosed DEF Weights

\* Without one of the others a coefficient loses one factor on either side.
LEMMA WeightDrops ==
    ASSUME NEW n \in Nat, NEW xs, Distinct(n, xs), NEW A \in SUBSET (1..n),
           NEW a \in A, NEW i \in A, i # a
    PROVE  Mul(Xor(xs[i], xs[a]), Weight(n, xs, A, i)) = Mul(xs[a], Weight(n, xs, A \ {a}, i))
<1> DEFINE d == Distances(n, xs, i)
           B == A \ {i}
           C == B \ {a}
           z == Xor(xs[i], xs[a])
           P == ProductOver(n, xs, C)
           D == ProductOver(n, d, C)
<1>1. xs \in [1..n -> Byte] /\ a \in 1..n /\ i \in 1..n /\ xs[a] \in Byte /\ xs[i] \in Byte
  BY DEF Distinct
<1>2. d \in [1..n -> Byte] /\ d[a] = z /\ z \in Byte
  BY <1>1, BytesAreClosed DEF Distances
<1>3. z # Zero
  <2>1. xs[i] # xs[a]
    BY <1>1 DEF Distinct
  <2> QED BY <1>1, <2>1, XorLaws
<1>4. \A j \in 1..n : j \in B => d[j] # Zero
  <2> SUFFICES ASSUME NEW j \in 1..n, j # i PROVE d[j] # Zero
    OBVIOUS
  <2>1. xs[i] # xs[j] /\ xs[j] \in Byte
    BY <1>1 DEF Distinct
  <2>2. d[j] = Xor(xs[i], xs[j])
    BY DEF Distances
  <2> QED BY <1>1, <2>1, <2>2, XorLaws
<1>5. a \in B /\ (A \ {a}) \ {i} = C
  OBVIOUS
<1> HIDE DEF d, B, C, z
<1>6. ProductOver(n, xs, B) = Mul(xs[a], P) /\ ProductOver(n, d, B) = Mul(z, D)
  BY <1>1, <1>2, <1>5, ProductSplits DEF C
<1>7. P \in Byte /\ D \in Byte /\ Mul(z, D) \in Byte
  BY <1>1, <1>2, ProductOverType, MulType
<1>8. D # Zero
  BY <1>2, <1>4, ProductIsNotZero DEF C
<1>9. Weight(n, xs, A, i) = Mul(Mul(xs[a], P), Inv256(Mul(z, D)))
  BY <1>6 DEF Weight, B, d
<1>10. Weight(n, xs, A \ {a}, i) = Mul(P, Inv256(D))
  BY <1>5 DEF Weight, d
<1> HIDE DEF P, D
<1>11. Mul(z, Inv256(Mul(z, D))) = Inv256(D)
  <2>1. Mul(z, D) # Zero
    BY <1>2, <1>3, <1>7, <1>8, NoZeroDivisors
  <2>2. Mul(Mul(z, D), Inv256(Mul(z, D))) = One /\ Mul(D, Inv256(D)) = One
    BY <1>7, <1>8, <2>1, InverseWorks
  <2>3. Inv256(Mul(z, D)) \in Byte /\ Inv256(D) \in Byte
    BY <1>7, InverseType
  <2>4. Mul(z, D) = Mul(D, z)
    BY <1>2, <1>7, MulCommutes
  <2>5. Mul(Mul(D, z), Inv256(Mul(z, D))) = Mul(D, Mul(z, Inv256(Mul(z, D))))
    BY <1>2, <1>7, <2>3, MulIsAssociative
  <2>6. Mul(D, Mul(z, Inv256(Mul(z, D)))) = Mul(D, Inv256(D))
    BY <2>2, <2>4, <2>5
  <2>7. Mul(z, Inv256(Mul(z, D))) \in Byte
    BY <1>2, <2>3, MulType
  <2> QED BY <1>7, <1>8, <2>3, <2>6, <2>7, Cancel
<1> DEFINE q == Inv256(Mul(z, D))
<1>12. q \in Byte
  BY <1>7, InverseType
<1> HIDE DEF q
<1>13. Mul(xs[a], P) \in Byte
  BY <1>1, <1>7, MulType
<1>14. Mul(z, Mul(Mul(xs[a], P), q)) = Mul(Mul(xs[a], P), Mul(z, q))
  <2>1. Mul(z, Mul(Mul(xs[a], P), q)) = Mul(Mul(Mul(xs[a], P), q), z)
    BY <1>2, <1>12, <1>13, MulCommutes, MulType
  <2>2. Mul(Mul(Mul(xs[a], P), q), z) = Mul(Mul(xs[a], P), Mul(q, z))
    BY <1>2, <1>12, <1>13, MulIsAssociative
  <2>3. Mul(q, z) = Mul(z, q)
    BY <1>2, <1>12, MulCommutes
  <2> QED BY <2>1, <2>2, <2>3
<1>15. Mul(Mul(xs[a], P), Inv256(D)) = Mul(xs[a], Mul(P, Inv256(D)))
  <2>1. Inv256(D) \in Byte
    BY <1>7, InverseType
  <2> QED BY <1>1, <1>7, <2>1, MulIsAssociative
<1> QED BY <1>9, <1>10, <1>11, <1>14, <1>15 DEF q, z

\* Multiplication is additive in its second factor.
LEMMA MulAddsRight ==
    ASSUME NEW x \in Byte, NEW y \in Byte, NEW z \in Byte
    PROVE  Mul(x, Xor(y, z)) = Xor(Mul(x, y), Mul(x, z))
<1>1. Mul(Xor(y, z), x) = Xor(Mul(y, x), Mul(z, x))
  BY MulAdds
<1>2. Mul(Xor(y, z), x) = Mul(x, Xor(y, z)) /\ Mul(y, x) = Mul(x, y) /\ Mul(z, x) = Mul(x, z)
  BY MulCommutes, BytesAreClosed
<1> QED BY <1>1, <1>2

\* A set of positions is finite and no larger than there are positions.
LEMMA SizeOfPositions ==
    ASSUME NEW n \in Nat, NEW B \in SUBSET (1..n)
    PROVE  IsFiniteSet(B) /\ Cardinality(B) \in 0..n
<1>1. IsFiniteSet(1..n) /\ Cardinality(1..n) = n
  <2>1. IsFiniteSet(1..n) /\ Cardinality(1..n) = IF 1 > n THEN 0 ELSE n - 1 + 1
    BY FS_Interval
  <2> QED BY <2>1
<1>2. IsFiniteSet(B) /\ Cardinality(B) <= n
  BY <1>1, FS_Subset
<1>3. Cardinality(B) \in Nat
  BY <1>2, FS_CardinalityType
<1> QED BY <1>2, <1>3

\* The weights scaled by the distances to one of the points are those without it.
LEMMA ScaledWeights ==
    ASSUME NEW n \in Nat, NEW xs, Distinct(n, xs), NEW A \in SUBSET (1..n), NEW a \in A,
           NEW i \in 1..n
    PROVE  Mul(Xor(xs[i], xs[a]), Weights(n, xs, A)[i])
             = Mul(xs[a], Weights(n, xs, A \ {a})[i])
<1>1. xs \in [1..n -> Byte] /\ a \in 1..n /\ xs[a] \in Byte /\ xs[i] \in Byte
  BY DEF Distinct
<1>2. Xor(xs[i], xs[a]) \in Byte
  BY <1>1, BytesAreClosed
<1>3. /\ Weights(n, xs, A)[i] = IF i \in A THEN Weight(n, xs, A, i) ELSE Zero
      /\ Weights(n, xs, A \ {a})[i] = IF i \in A \ {a} THEN Weight(n, xs, A \ {a}, i) ELSE Zero
  BY DEF Weights
<1>4. CASE i \in A \ {a}
  BY <1>3, <1>4, WeightDrops
<1>5. CASE i = a
  <2>1. Xor(xs[i], xs[a]) = Zero /\ Weights(n, xs, A \ {a})[i] = Zero
    BY <1>1, <1>3, <1>5, XorLaws
  <2>2. Weights(n, xs, A)[i] \in Byte
    BY <1>1, WeightTypes
  <2> QED BY <1>1, <2>1, <2>2, MulZero, MulZeroRight
<1>6. CASE i \notin A
  <2>1. Weights(n, xs, A)[i] = Zero /\ Weights(n, xs, A \ {a})[i] = Zero
    BY <1>3, <1>6
  <2> QED BY <1>1, <1>2, <2>1, MulZeroRight
<1> QED BY <1>4, <1>5, <1>6

\* The weights of any points add up to one.
LEMMA WeightsAddUp ==
    ASSUME NEW n \in Nat, NEW xs, Distinct(n, xs), NEW A \in SUBSET (1..n), A # {}
    PROVE  Total(Weights(n, xs, A)) = One
<1> DEFINE S == {m \in 0..n : \A B \in SUBSET (1..n) :
                    Cardinality(B) = m /\ B # {} => Total(Weights(n, xs, B)) = One}
<1>0. xs \in [1..n -> Byte]
  BY DEF Distinct
<1>2. \A B \in SUBSET (1..n) : IsFiniteSet(B) /\ Cardinality(B) \in 0..n
  BY SizeOfPositions
<1>3. 0 \in S
  <2>1. ASSUME NEW B \in SUBSET (1..n), Cardinality(B) = 0 PROVE B = {}
    BY <1>2, <2>1, FS_EmptySet
  <2>2. 0 \in 0..n
    OBVIOUS
  <2> QED BY <2>1, <2>2
<1>4. ASSUME NEW m \in 0..n, m < n, m \in S PROVE m + 1 \in S
  <2>1. ASSUME NEW B \in SUBSET (1..n), Cardinality(B) = m + 1, B # {}
        PROVE  Total(Weights(n, xs, B)) = One
    <3>1. PICK a \in B : TRUE
      BY <2>1
    <3>2. a \in 1..n /\ xs[a] \in Byte
      BY <1>0
    <3> DEFINE w == Weights(n, xs, B)
    <3>3. w \in [1..n -> Byte]
      BY <1>0, WeightTypes
    <3>4. CASE B = {a}
      <4>1. \A i \in 1..n : i # a => w[i] = Zero
        BY <3>4 DEF Weights
      <4>2. w[a] = Weight(n, xs, B, a)
        BY <3>2 DEF Weights
      <4>3. B \ {a} = {}
        BY <3>4
      <4>4. Distances(n, xs, a) \in [1..n -> Byte]
        BY <1>0, <3>2, WeightTypes
      <4>5. Weight(n, xs, B, a) = Mul(One, Inv256(One))
        BY <1>0, <4>3, <4>4, ProductOfNone DEF Weight
      <4>6. Mul(One, Inv256(One)) = One
        <5>1. One # Zero
          BY DEF One, Zero
        <5> QED BY <5>1, InverseWorks, BytesAreClosed
      <4> HIDE DEF w
      <4>7. Total(w) = w[a]
        BY <3>2, <3>3, <4>1, TotalOfOne
      <4> QED BY <4>2, <4>5, <4>6, <4>7 DEF w
    <3>5. ASSUME NEW b \in B, b # a PROVE Total(w) = One
      <4>1. b \in 1..n /\ xs[b] \in Byte /\ xs[a] # xs[b]
        BY <1>0, <3>2, <3>5 DEF Distinct
      <4> DEFINE U(c) == [i \in 1..n |-> Mul(xs[c], Weights(n, xs, B \ {c})[i])]
                 z == Xor(xs[a], xs[b])
      <4>2. ASSUME NEW c \in B, B \ {c} # {}
            PROVE  /\ U(c) \in [1..n -> Byte] /\ Total(U(c)) = xs[c]
                   /\ \A i \in 1..n : U(c)[i] = Mul(Xor(xs[i], xs[c]), w[i])
        <5>1. Cardinality(B \ {c}) = m /\ B \ {c} \in SUBSET (1..n)
          <6>1. Cardinality(B \ {c}) = Cardinality(B) - 1
            BY <1>2, FS_RemoveElement
          <6> QED BY <2>1, <6>1
        <5>2. Total(Weights(n, xs, B \ {c})) = One
          BY <1>4, <4>2, <5>1
        <5>3. Weights(n, xs, B \ {c}) \in [1..n -> Byte] /\ xs[c] \in Byte /\ c \in 1..n
          BY <1>0, WeightTypes
        <5>4. Total(U(c)) = Mul(xs[c], One)
          BY <5>2, <5>3, TotalScales
        <5>5. U(c) \in [1..n -> Byte]
          BY <5>3, MulType
        <5>6. ASSUME NEW i \in 1..n PROVE U(c)[i] = Mul(Xor(xs[i], xs[c]), w[i])
          <6>1. U(c)[i] = Mul(xs[c], Weights(n, xs, B \ {c})[i])
            OBVIOUS
          <6> HIDE DEF U
          <6> QED BY <6>1, ScaledWeights
        <5> HIDE DEF U, w
        <5> QED BY <5>3, <5>4, <5>5, <5>6, MulZeroRight
      <4>3. B \ {a} # {} /\ B \ {b} # {}
        BY <3>1, <3>5
      <4>4. /\ U(a) \in [1..n -> Byte] /\ Total(U(a)) = xs[a]
            /\ \A i \in 1..n : U(a)[i] = Mul(Xor(xs[i], xs[a]), w[i])
            /\ U(b) \in [1..n -> Byte] /\ Total(U(b)) = xs[b]
            /\ \A i \in 1..n : U(b)[i] = Mul(Xor(xs[i], xs[b]), w[i])
        <5> HIDE DEF U, w
        <5> QED BY <3>1, <3>5, <4>2, <4>3
      <4>5. z \in Byte /\ z # Zero
        BY <3>2, <4>1, XorLaws
      <4> DEFINE u == U(a)
                 v == U(b)
      <4> HIDE DEF U, w, z
      <4>6. ASSUME NEW i \in 1..n PROVE Xor(u[i], v[i]) = Mul(z, w[i])
        <5>1. w[i] \in Byte /\ xs[i] \in Byte
          BY <1>0, <3>3
        <5>2. Xor(xs[i], xs[a]) \in Byte /\ Xor(xs[i], xs[b]) \in Byte
          BY <3>2, <4>1, <5>1, BytesAreClosed
        <5>3. Mul(Xor(Xor(xs[i], xs[a]), Xor(xs[i], xs[b])), w[i])
              = Xor(Mul(Xor(xs[i], xs[a]), w[i]), Mul(Xor(xs[i], xs[b]), w[i]))
          BY <5>1, <5>2, MulAdds
        <5>4. Xor(Xor(xs[i], xs[a]), Xor(xs[i], xs[b])) = z
          BY DEF Xor, z
        <5> QED BY <4>4, <5>3, <5>4
      <4> HIDE DEF u, v
      <4>7. u \in [1..n -> Byte] /\ v \in [1..n -> Byte] /\ Total(u) = xs[a] /\ Total(v) = xs[b]
        BY <4>4 DEF u, v
      <4>8. Total([i \in 1..n |-> Xor(u[i], v[i])]) = z
        BY <4>7, TotalAdds DEF z
      <4>9. [i \in 1..n |-> Xor(u[i], v[i])] = [i \in 1..n |-> Mul(z, w[i])]
        BY <4>6
      <4>10. Mul(z, Total(w)) = z
        BY <3>3, <4>5, <4>8, <4>9, TotalScales
      <4>11. Mul(z, One) = z /\ Total(w) \in Byte
        BY <3>3, <4>5, MulZeroRight, TotalType
      <4> QED BY <4>5, <4>10, <4>11, Cancel, BytesAreClosed
    <3> QED BY <3>1, <3>4, <3>5
  <2>2. m + 1 \in 0..n
    BY <1>4
  <2> QED BY <2>1, <2>2
<1>5. 0..n \subseteq S
  <2>1. \A m \in 0..n : m < n /\ m \in S => m + 1 \in S
    BY <1>4
  <2> HIDE DEF S
  <2> QED BY <1>3, <2>1, UpTo
<1>6. Cardinality(A) \in S
  <2> HIDE DEF S
  <2> QED BY <1>2, <1>5
<1> QED BY <1>6

\* Powers of the points, P[i][m] being the m-th of the i-th.
ArePowers(n, k, xs, P) ==
    \A i \in 1..n : /\ P[i] \in [0..k -> Byte] /\ P[i][0] = One
                    /\ \A m \in 1..k : P[i][m] = Mul(P[i][m - 1], xs[i])

\* The powers below the number of points, other than the 0-th, weigh nothing.
LEMMA PowersWeighNothing ==
    ASSUME NEW n \in Nat, NEW xs, Distinct(n, xs), NEW k \in Nat, NEW P, ArePowers(n, k, xs, P),
           NEW m \in 0..k, NEW A \in SUBSET (1..n), Cardinality(A) > m
    PROVE  Total([i \in 1..n |-> Mul(P[i][m], Weights(n, xs, A)[i])])
             = IF m = 0 THEN One ELSE Zero
<1> DEFINE Moment(d, B) == [i \in 1..n |-> Mul(P[i][d], Weights(n, xs, B)[i])]
           S == {d \in 0..k : \A B \in SUBSET (1..n) : Cardinality(B) > d =>
                                  Total(Moment(d, B)) = IF d = 0 THEN One ELSE Zero}
<1>0. xs \in [1..n -> Byte]
  BY DEF Distinct
<1>1. \A B \in SUBSET (1..n) : IsFiniteSet(B) /\ Cardinality(B) \in Nat
  BY SizeOfPositions
<1>2. ASSUME NEW d \in 0..k, NEW B
      PROVE  Moment(d, B) \in [1..n -> Byte]
  <2>1. Weights(n, xs, B) \in [1..n -> Byte]
    BY <1>0, WeightTypes
  <2> QED BY <2>1, MulType DEF ArePowers
<1>3. 0 \in S
  <2>1. ASSUME NEW B \in SUBSET (1..n), Cardinality(B) > 0 PROVE Total(Moment(0, B)) = One
    <3>1. B # {}
      BY <2>1, FS_EmptySet
    <3>2. Weights(n, xs, B) \in [1..n -> Byte]
      BY <1>0, WeightTypes
    <3>3. \A i \in 1..n : Mul(P[i][0], Weights(n, xs, B)[i]) = Weights(n, xs, B)[i]
      BY <3>2, MulOne DEF ArePowers
    <3>4. Moment(0, B) = Weights(n, xs, B)
      BY <3>2, <3>3
    <3> QED BY <3>1, <3>4, WeightsAddUp
  <2> QED BY <2>1
<1>4. ASSUME NEW d \in 0..k, d < k, d \in S PROVE d + 1 \in S
  <2>0. d + 1 \in 1..k /\ (d + 1) - 1 = d /\ d + 1 \in 0..k /\ d + 1 # 0
    BY <1>4
  <2>1. ASSUME NEW B \in SUBSET (1..n), Cardinality(B) > d + 1
        PROVE  Total(Moment(d + 1, B)) = Zero
    <3>1. PICK a \in B : TRUE
      <4>1. Cardinality(B) # 0
        BY <1>1, <2>1
      <4> QED BY <4>1, FS_EmptySet
    <3>2. Cardinality(B \ {a}) > d /\ Cardinality(B) > d /\ B \ {a} \in SUBSET (1..n)
      <4>1. Cardinality(B \ {a}) = Cardinality(B) - 1
        BY <1>1, FS_RemoveElement
      <4>2. Cardinality(B) \in Nat
        BY <1>1
      <4> QED BY <2>1, <4>1, <4>2
    <3>3. Total(Moment(d, B)) = Total(Moment(d, B \ {a}))
      <4> HIDE DEF Moment
      <4> QED BY <1>4, <3>2
    <3> DEFINE u == Moment(d, B \ {a})
               v == Moment(d, B)
    <3>4. xs[a] \in Byte /\ u \in [1..n -> Byte] /\ v \in [1..n -> Byte]
      <4> HIDE DEF Moment
      <4> QED BY <1>0, <1>2
    <3>5. ASSUME NEW i \in 1..n
          PROVE  Moment(d + 1, B)[i] = Xor(Mul(xs[a], u[i]), Mul(xs[a], v[i]))
      <4> DEFINE p == P[i][d]
                 w == Weights(n, xs, B)[i]
                 t == Weights(n, xs, B \ {a})[i]
                 x == xs[i]
                 y == xs[a]
      <4>1. /\ p \in Byte /\ P[i][d + 1] = Mul(p, x)
        BY <2>0 DEF ArePowers
      <4>2. w \in Byte /\ t \in Byte /\ x \in Byte /\ y \in Byte
        BY <1>0, <3>4, WeightTypes
      <4>3. Mul(Xor(x, y), w) = Mul(y, t)
        BY ScaledWeights
      <4>4. u[i] = Mul(p, t) /\ v[i] = Mul(p, w) /\ Moment(d + 1, B)[i] = Mul(Mul(p, x), w)
        BY <4>1
      <4> HIDE DEF p, w, t, x, u, v, Moment, y
      <4>5. Mul(Mul(p, x), w) = Mul(p, Mul(x, w))
        BY <4>1, <4>2, MulIsAssociative
      <4>6. Mul(x, w) = Xor(Mul(y, t), Mul(y, w))
        <5>1. Mul(Xor(x, y), w) = Xor(Mul(x, w), Mul(y, w))
          BY <4>2, MulAdds
        <5>2. Mul(x, w) \in Byte /\ Mul(y, w) \in Byte /\ Mul(y, t) \in Byte
          BY <4>2, MulType
        <5>3. Xor(Xor(Mul(x, w), Mul(y, w)), Mul(y, w)) = Mul(x, w)
          BY DEF Xor
        <5> QED BY <4>3, <5>1, <5>3
      <4>7. Mul(p, Xor(Mul(y, t), Mul(y, w))) = Xor(Mul(p, Mul(y, t)), Mul(p, Mul(y, w)))
        BY <4>1, <4>2, MulType, MulAddsRight
      <4>8. Mul(p, Mul(y, t)) = Mul(y, Mul(p, t)) /\ Mul(p, Mul(y, w)) = Mul(y, Mul(p, w))
        <5>1. /\ Mul(Mul(p, y), t) = Mul(p, Mul(y, t)) /\ Mul(Mul(y, p), t) = Mul(y, Mul(p, t))
              /\ Mul(Mul(p, y), w) = Mul(p, Mul(y, w)) /\ Mul(Mul(y, p), w) = Mul(y, Mul(p, w))
          BY <4>1, <4>2, MulIsAssociative
        <5>2. Mul(p, y) = Mul(y, p)
          BY <4>1, <4>2, MulCommutes
        <5> QED BY <5>1, <5>2
      <4>9. Moment(d + 1, B)[i] = Xor(Mul(y, u[i]), Mul(y, v[i]))
        BY <4>4, <4>5, <4>6, <4>7, <4>8
      <4> QED BY <4>9 DEF y
    <3> DEFINE yu == [i \in 1..n |-> Mul(xs[a], u[i])]
               yv == [i \in 1..n |-> Mul(xs[a], v[i])]
    <3> HIDE DEF u, v
    <3>6. yu \in [1..n -> Byte] /\ yv \in [1..n -> Byte]
      BY <3>4, MulType
    <3>7. Total(yu) = Mul(xs[a], Total(u)) /\ Total(yv) = Mul(xs[a], Total(v))
      BY <3>4, TotalScales
    <3>8. Moment(d + 1, B) = [i \in 1..n |-> Xor(yu[i], yv[i])]
      BY <3>5
    <3>9. Mul(xs[a], Total(u)) \in Byte
      BY <3>4, TotalType, MulType
    <3> HIDE DEF yu, yv, Moment
    <3>10. Total(Moment(d + 1, B)) = Xor(Total(yu), Total(yv))
      BY <3>6, <3>8, TotalAdds
    <3>11. Total(yu) = Total(yv)
      BY <3>3, <3>7 DEF u, v
    <3> QED BY <3>7, <3>9, <3>10, <3>11, XorLaws
  <2> HIDE DEF Moment
  <2> QED BY <2>0, <2>1
<1>5. 0..k \subseteq S
  <2>1. \A d \in 0..k : d < k /\ d \in S => d + 1 \in S
    BY <1>4
  <2> HIDE DEF S
  <2> QED BY <1>3, <2>1, UpTo
<1>6. m \in S
  <2> HIDE DEF S
  <2> QED BY <1>5
<1> QED BY <1>6

----------------------------------------------------------------------------
\* Interpolation.

Code == [id : 1..255, data : Byte]

\* The weighted values of a polynomial add up to its constant term.
LEMMA Interpolation ==
    ASSUME NEW n \in Nat, NEW xs, Distinct(n, xs), NEW coeffs \in Seq(Byte),
           Len(coeffs) \in 1..n
    PROVE  Total([i \in 1..n |-> Mul(PolyEval(coeffs, xs[i]), Weights(n, xs, 1..n)[i])])
             = coeffs[1]
<1> DEFINE k == Len(coeffs)
           w == Weights(n, xs, 1..n)
           run(i) == CHOOSE e : /\ IsEval(e[1], e[2], coeffs, k, xs[i])
                                /\ PolyEval(coeffs, xs[i]) = e[2][k]
           P == [i \in 1..n |-> run(i)[1]]
           R == [i \in 1..n |-> run(i)[2]]
           Part(m) == [i \in 1..n |-> Mul(R[i][m], w[i])]
           S == {m \in 0..k : Total(Part(m)) = IF m = 0 THEN Zero ELSE coeffs[1]}
<1>1. /\ xs \in [1..n -> Byte] /\ w \in [1..n -> Byte] /\ k \in Nat /\ k >= 1 /\ k <= n
      /\ \A m \in 1..k : coeffs[m] \in Byte
  <2>1. xs \in [1..n -> Byte]
    BY DEF Distinct
  <2>2. w \in [1..n -> Byte]
    BY <2>1, WeightTypes
  <2> QED BY <2>1, <2>2
<1>2. ASSUME NEW i \in 1..n
      PROVE  IsEval(P[i], R[i], coeffs, k, xs[i]) /\ PolyEval(coeffs, xs[i]) = R[i][k]
  <2>1. xs[i] \in Byte
    BY <1>1
  <2>2. PICK p, r : IsEval(p, r, coeffs, k, xs[i]) /\ PolyEval(coeffs, xs[i]) = r[k]
    BY <2>1, PolyRuns
  <2> DEFINE e == <<p, r>>
  <2>3. IsEval(e[1], e[2], coeffs, k, xs[i]) /\ PolyEval(coeffs, xs[i]) = e[2][k]
    BY <2>2
  <2> HIDE DEF e, k
  <2>4. /\ IsEval(run(i)[1], run(i)[2], coeffs, k, xs[i])
        /\ PolyEval(coeffs, xs[i]) = run(i)[2][k]
    BY <2>3
  <2>5. P[i] = run(i)[1] /\ R[i] = run(i)[2]
    OBVIOUS
  <2> HIDE DEF run, P, R
  <2> QED BY <2>4, <2>5
<1> HIDE DEF k, w, run, P, R
<1>3. ArePowers(n, k, xs, P)
  BY <1>2 DEF ArePowers, IsEval
<1>4. ASSUME NEW i \in 1..n
      PROVE  /\ \A m \in 0..k : R[i][m] \in Byte /\ P[i][m] \in Byte
             /\ R[i][0] = Zero
             /\ \A m \in 1..k : R[i][m] = Xor(R[i][m - 1], Mul(coeffs[m], P[i][m - 1]))
  BY <1>2 DEF IsEval
<1>5. 0 \in S
  <2> DEFINE z == [i \in 1..n |-> Zero]
  <2>1. \A i \in 1..n : Part(0)[i] = Zero
    BY <1>1, <1>4, MulZero
  <2>2. Part(0) \in [1..n -> Byte] /\ 1 \in 1..n
    BY <1>1, <2>1, BytesAreClosed
  <2>3. Total(Part(0)) = Part(0)[1]
    <3> HIDE DEF Part
    <3> QED BY <2>1, <2>2, TotalOfOne
  <2>4. 0 \in 0..k
    BY <1>1
  <2> QED BY <2>1, <2>2, <2>3, <2>4
<1>6. ASSUME NEW m \in 0..k, m < k, m \in S PROVE m + 1 \in S
  <2>1. m + 1 \in 1..k /\ (m + 1) - 1 = m /\ m + 1 \in 0..k /\ m + 1 # 0
    BY <1>1, <1>6
  <2> DEFINE c == coeffs[m + 1]
             u == [i \in 1..n |-> Mul(P[i][m], w[i])]
             cu == [i \in 1..n |-> Mul(c, u[i])]
  <2>2. c \in Byte /\ u \in [1..n -> Byte] /\ Part(m) \in [1..n -> Byte]
    BY <1>1, <1>4, <2>1, MulType
  <2>3. Total(u) = IF m = 0 THEN One ELSE Zero
    <3>1. Cardinality(1..n) > m
      <4>1. Cardinality(1..n) = IF 1 > n THEN 0 ELSE n - 1 + 1
        BY FS_Interval
      <4> QED BY <1>1, <1>6, <4>1
    <3>2. u = [i \in 1..n |-> Mul(P[i][m], Weights(n, xs, 1..n)[i])]
      BY DEF w
    <3>3. 1..n \in SUBSET (1..n) /\ k \in Nat /\ Distinct(n, xs)
      BY <1>1
    <3>4. Total([i \in 1..n |-> Mul(P[i][m], Weights(n, xs, 1..n)[i])])
            = IF m = 0 THEN One ELSE Zero
      BY <1>3, <3>1, <3>3, PowersWeighNothing
    <3> HIDE DEF u
    <3> QED BY <3>2, <3>4
  <2>4. ASSUME NEW i \in 1..n PROVE Part(m + 1)[i] = Xor(Part(m)[i], cu[i])
    <3> DEFINE p == P[i][m]
               r == R[i][m]
               v == w[i]
    <3>1. p \in Byte /\ r \in Byte /\ v \in Byte /\ R[i][m + 1] = Xor(r, Mul(c, p))
      BY <1>1, <1>4, <2>1
    <3>2. Part(m + 1)[i] = Mul(R[i][m + 1], v) /\ Part(m)[i] = Mul(r, v)
          /\ cu[i] = Mul(c, Mul(p, v))
      OBVIOUS
    <3> HIDE DEF p, r, v, c, Part, cu
    <3>3. Mul(c, p) \in Byte
      BY <2>2, <3>1, MulType
    <3>4. Mul(Xor(r, Mul(c, p)), v) = Xor(Mul(r, v), Mul(Mul(c, p), v))
      BY <3>1, <3>3, MulAdds
    <3>5. Mul(Mul(c, p), v) = Mul(c, Mul(p, v))
      BY <2>2, <3>1, MulIsAssociative
    <3> QED BY <3>1, <3>2, <3>4, <3>5
  <2>5. cu \in [1..n -> Byte]
    BY <2>2, MulType
  <2>6. Total(cu) = Mul(c, Total(u))
    <3> HIDE DEF c, u
    <3> QED BY <2>2, TotalScales
  <2>7. Part(m + 1) = [i \in 1..n |-> Xor(Part(m)[i], cu[i])]
    BY <2>4
  <2>8. Total(Part(m)) = IF m = 0 THEN Zero ELSE coeffs[1]
    BY <1>6
  <2> HIDE DEF Part, cu, u
  <2>9. Total(Part(m + 1)) = Xor(Total(Part(m)), Total(cu))
    <3> DEFINE q == Part(m)
    <3>1. q \in [1..n -> Byte] /\ Part(m + 1) = [i \in 1..n |-> Xor(q[i], cu[i])]
      BY <2>2, <2>7
    <3> HIDE DEF q
    <3>2. Total([i \in 1..n |-> Xor(q[i], cu[i])]) = Xor(Total(q), Total(cu))
      BY <2>5, <3>1, TotalAdds
    <3>3. Total(Part(m + 1)) = Xor(Total(q), Total(cu))
      BY <3>1, <3>2
    <3> QED BY <3>3 DEF q
  <2>10. CASE m = 0
    <3>1. Total(cu) = coeffs[1] /\ c = coeffs[1]
      BY <2>2, <2>3, <2>6, <2>10, MulZeroRight
    <3> QED BY <2>1, <2>2, <2>8, <2>9, <2>10, <3>1, XorLaws
  <2>11. CASE m # 0
    <3>1. Total(cu) = Zero
      BY <2>2, <2>3, <2>6, <2>11, MulZeroRight
    <3>2. coeffs[1] \in Byte
      BY <1>1
    <3> QED BY <2>1, <2>8, <2>9, <2>11, <3>1, <3>2, XorLaws
  <2> QED BY <2>10, <2>11
<1>7. 0..k \subseteq S
  <2>1. \A m \in 0..k : m < k /\ m \in S => m + 1 \in S
    BY <1>6
  <2> HIDE DEF S
  <2> QED BY <1>1, <1>5, <2>1, UpTo
<1>8. Total(Part(k)) = coeffs[1]
  <2>1. k \in 0..k /\ k # 0
    BY <1>1
  <2> HIDE DEF S
  <2>2. k \in S
    BY <1>7, <2>1
  <2> USE DEF S
  <2> HIDE DEF Part
  <2> QED BY <2>1, <2>2
<1>9. Part(k) = [i \in 1..n |-> Mul(PolyEval(coeffs, xs[i]), w[i])]
  BY <1>2
<1> QED BY <1>8, <1>9 DEF w

\* The coefficients of gf256_lagrange_interpolate_zero are the weights.
LEMMA CoefficientsAreWeights ==
    ASSUME NEW n \in Nat, NEW points \in [1..n -> [x : Byte, y : Byte]], NEW i \in 1..n
    PROVE  Coefficient(points, i) = Weight(n, [j \in 1..n |-> points[j].x], 1..n, i)
<1> DEFINE xs == [j \in 1..n |-> points[j].x]
           d == [j \in 1..n |-> Xor(points[i].x, points[j].x)]
<1>1. Len(points) = n /\ \A j \in 1..n : points[j].x \in Byte
  OBVIOUS
<1>2. xs \in [1..n -> Byte] /\ d \in [1..n -> Byte]
  BY <1>1, BytesAreClosed
<1>3. d = Distances(n, xs, i)
  BY DEF Distances
<1>4. Coefficient(points, i) = Mul(ProductButOne(xs, i), Inv256(ProductButOne(d, i)))
  BY <1>1 DEF Coefficient
<1> HIDE DEF xs, d
<1>5. ProductButOne(xs, i) = ProductOver(n, xs, (1..n) \ {i})
      /\ ProductButOne(d, i) = ProductOver(n, d, (1..n) \ {i})
  BY <1>2, ProductOfOthers
<1> QED BY <1>3, <1>4, <1>5 DEF Weight, xs

\* Points of a polynomial of no higher degree than there are points, less one, give its
\* constant term; whatever the points, the result is a byte.
LEMMA LagrangeInterpolates ==
    ASSUME NEW n \in Nat, NEW points \in [1..n -> [x : Byte, y : Byte]]
    PROVE  /\ LagrangeAtZero(points) \in Byte
           /\ \A coeffs \in Seq(Byte) :
                 /\ Len(coeffs) \in 1..n /\ ~LagrangePanics(points)
                 /\ \A i \in 1..n : points[i].y = PolyEval(coeffs, points[i].x)
                 => LagrangeAtZero(points) = coeffs[1]
<1> DEFINE xs == [j \in 1..n |-> points[j].x]
           w == Weights(n, xs, 1..n)
           v == [i \in 1..n |-> Mul(points[i].y, Coefficient(points, i))]
<1>1. \A j \in 1..n : points[j].x \in Byte /\ points[j].y \in Byte
  OBVIOUS
<1>2. points \in Seq([x : Byte, y : Byte]) /\ Len(points) = n
  <2> DEFINE Point == [x : Byte, y : Byte]
  <2>1. points \in [1..n -> Point]
    OBVIOUS
  <2> HIDE DEF Point
  <2>2. points \in Seq(Point) /\ Len(points) = n
    BY <2>1
  <2> QED BY <2>2 DEF Point
<1>3. xs \in [1..n -> Byte]
  BY <1>1
<1>4. w \in [1..n -> Byte]
  <2> HIDE DEF xs
  <2> QED BY <1>3, WeightTypes
<1>5. \A i \in 1..n : Coefficient(points, i) = w[i]
  BY CoefficientsAreWeights DEF Weights
<1> HIDE DEF xs, w
<1>6. \A i \in 1..n : Coefficient(points, i) \in Byte
  BY <1>4, <1>5
<1>7. PICK r : IsSum(r, v, n) /\ LagrangeAtZero(points) = r[n]
  BY <1>2, <1>6, LagrangeRuns
<1>8. v \in [1..n -> Byte]
  BY <1>1, <1>6, MulType
<1>9. LagrangeAtZero(points) = Total(v)
  <2> HIDE DEF v
  <2> QED BY <1>7, <1>8, SumsAreTotals
<1>10. ASSUME NEW coeffs \in Seq(Byte), Len(coeffs) \in 1..n, ~LagrangePanics(points),
              \A i \in 1..n : points[i].y = PolyEval(coeffs, points[i].x)
       PROVE  LagrangeAtZero(points) = coeffs[1]
  <2>1. Distinct(n, xs)
    BY <1>3, <1>10 DEF Distinct, LagrangePanics, xs
  <2>2. v = [i \in 1..n |-> Mul(PolyEval(coeffs, xs[i]), w[i])]
    BY <1>5, <1>10 DEF xs
  <2> HIDE DEF v
  <2> QED BY <1>9, <1>10, <2>1, <2>2, Interpolation DEF w
<1>11. LagrangeAtZero(points) \in Byte
  <2> HIDE DEF v
  <2> QED BY <1>8, <1>9, TotalType
<1> QED BY <1>10, <1>11

\* The shares of a split are the values of a polynomial with the seed for its constant.
LEMMA SplitIsPolynomial ==
    ASSUME NEW seed \in Byte, NEW config \in SharingConfigs, NEW shares \in Split(seed, config)
    PROVE  \E coeffs \in Seq(Byte) :
              /\ Len(coeffs) = config.threshold /\ coeffs[1] = seed
              /\ shares = [id \in 1..config.total |-> PolyEval(coeffs, X(id))]
<1>1. config.threshold \in 2..255
  BY ThresholdAssumption
<1>2. PICK random \in [1..(config.threshold - 1) -> Coefficients] :
        shares = [id \in 1..config.total |-> PolyEval(<<seed>> \o random, X(id))]
  BY DEF Split
<1>3. random \in Seq(Byte) /\ Len(random) = config.threshold - 1
  <2>1. Coefficients \subseteq Byte
    BY ThresholdAssumption DEF Byte
  <2> DEFINE t == config.threshold
             l == t - 1
  <2>2. l \in Nat
    <3>1. t \in 2..255
      BY <1>1
    <3> HIDE DEF t
    <3> QED BY <3>1
  <2>3. random \in [1..l -> Coefficients]
    OBVIOUS
  <2> HIDE DEF l
  <2>4. random \in Seq(Byte) /\ Len(random) = l
    BY <2>1, <2>2, <2>3
  <2> QED BY <2>4 DEF l
<1> DEFINE first == <<seed>>
           coeffs == first \o random
<1>4. coeffs \in Seq(Byte) /\ Len(coeffs) = config.threshold /\ coeffs[1] = seed
  <2>1. first \in Seq(Byte) /\ Len(first) = 1 /\ first[1] = seed
    OBVIOUS
  <2> HIDE DEF first
  <2>2. coeffs \in Seq(Byte)
    BY <1>3, <2>1, ConcatProperties
  <2> DEFINE t == config.threshold
  <2>3. t \in 2..255 /\ Len(random) = t - 1
    BY <1>1, <1>3
  <2> HIDE DEF t
  <2>4. Len(coeffs) = Len(first) + Len(random) /\ 1 \in 1..(Len(first) + Len(random))
    <3>1. random \in Seq(Byte) /\ first \in Seq(Byte)
      BY <1>3, <2>1
    <3>2. Len(coeffs) = Len(first) + Len(random)
      BY <3>1, ConcatProperties
    <3>3. 1 \in 1..(1 + (t - 1))
      BY <2>3
    <3> QED BY <2>1, <2>3, <3>2, <3>3
  <2>5. coeffs[1] = first[1]
    BY <1>3, <2>1, <2>4, ConcatProperties
  <2> HIDE DEF coeffs
  <2>6. Len(coeffs) = t
    BY <2>1, <2>3, <2>4
  <2> QED BY <2>1, <2>2, <2>5, <2>6 DEF t
<1> QED BY <1>2, <1>4

\* The point an id stands for is a byte.
LEMMA XIsByte == \A id : X(id) \in Byte
BY DEF X, Byte

\* Values of polynomials are bytes.
LEMMA PolyEvalType ==
    ASSUME NEW coeffs \in Seq(Byte), NEW x \in Byte
    PROVE  PolyEval(coeffs, x) \in Byte
<1>1. PICK p, r : IsEval(p, r, coeffs, Len(coeffs), x) /\ PolyEval(coeffs, x) = r[Len(coeffs)]
  BY PolyRuns
<1>2. Len(coeffs) \in 0..Len(coeffs)
  OBVIOUS
<1> QED BY <1>1, <1>2 DEF IsEval

\* split_secret and reconstruct_secret: shares are bytes, so is what is put together, and
\* enough different shares of one split give its seed.
LEMMA SplitsAreBytes ==
    ASSUME NEW seed \in Byte, NEW config \in SharingConfigs
    PROVE  Split(seed, config) \subseteq [1..config.total -> Byte]
<1> SUFFICES ASSUME NEW shares \in Split(seed, config)
             PROVE  shares \in [1..config.total -> Byte]
  OBVIOUS
<1>1. PICK coeffs \in Seq(Byte) :
        shares = [id \in 1..config.total |-> PolyEval(coeffs, X(id))]
  BY SplitIsPolynomial
<1>2. \A id \in 1..config.total : PolyEval(coeffs, X(id)) \in Byte
  BY XIsByte, PolyEvalType
<1> QED BY <1>1, <1>2

\* The points of a sequence of codes.
LEMMA PointsOfCodes ==
    ASSUME NEW q \in Seq(Code)
    PROVE  /\ Points(q) \in [1..Len(q) -> [x : Byte, y : Byte]]
           /\ \A i \in 1..Len(q) : Points(q)[i].x = X(q[i].id) /\ Points(q)[i].y = q[i].data
<1>1. DOMAIN q = 1..Len(q) /\ \A i \in 1..Len(q) : q[i] \in Code
  OBVIOUS
<1>2. Points(q) = [i \in 1..Len(q) |-> [x |-> X(q[i].id), y |-> q[i].data]]
  BY <1>1 DEF Points
<1>3. \A i \in 1..Len(q) : [x |-> X(q[i].id), y |-> q[i].data] \in [x : Byte, y : Byte]
  BY <1>1, XIsByte DEF Code
<1> QED BY <1>2, <1>3

\* Shares that do not make the inversion panic are all different.
LEMMA SharesAreDifferent ==
    ASSUME NEW q \in Seq(Code), ~LagrangePanics(Points(q))
    PROVE  Cardinality(Range(q)) = Len(q)
<1> DEFINE n == Len(q)
<1>1. n \in Nat /\ DOMAIN q = 1..n /\ q \in [1..n -> Code]
  OBVIOUS
<1>2. Points(q) = [i \in 1..n |-> [x |-> X(q[i].id), y |-> q[i].data]]
  BY <1>1 DEF Points
<1> HIDE DEF n
<1>3. \A i, j \in 1..n : i # j => X(q[i].id) # X(q[j].id)
  <2>1. DOMAIN Points(q) = 1..n /\ \A i \in 1..n : Points(q)[i].x = X(q[i].id)
    BY <1>2
  <2>2. ~\E i, j \in DOMAIN Points(q) : i # j /\ Points(q)[i].x = Points(q)[j].x
    BY DEF LagrangePanics
  <2> QED BY <2>1, <2>2
<1>4. \A i, j \in 1..n : i # j => q[i] # q[j]
  BY <1>3
<1>5. q \in Surjection(1..n, Range(q)) /\ q \in Injection(1..n, Range(q))
  BY <1>1, <1>4 DEF Surjection, Injection, IsInjective, Range
<1>6. IsFiniteSet(1..n) /\ Cardinality(1..n) = n
  <2>1. IsFiniteSet(1..n) /\ Cardinality(1..n) = IF 1 > n THEN 0 ELSE n - 1 + 1
    BY <1>1, FS_Interval
  <2> QED BY <1>1, <2>1
<1> QED BY <1>5, <1>6, FS_Surjection DEF n


\* The codes of a split are codes, and what enough of them have in common.
LEMMA CodesOfSplit ==
    ASSUME NEW seed \in Byte, NEW config \in SharingConfigs, NEW shares \in Split(seed, config)
    PROVE  /\ Codes(shares) \subseteq Code
           /\ \E coeffs \in Seq(Byte) :
                /\ Len(coeffs) = config.threshold /\ coeffs[1] = seed
                /\ \A c \in Codes(shares) : c.data = PolyEval(coeffs, X(c.id))
<1>1. PICK coeffs \in Seq(Byte) :
        /\ Len(coeffs) = config.threshold /\ coeffs[1] = seed
        /\ shares = [id \in 1..config.total |-> PolyEval(coeffs, X(id))]
  BY SplitIsPolynomial
<1>2. config.total \in config.threshold..255 /\ config.threshold \in 2..255
  BY ThresholdAssumption
<1>3. 1..config.total \subseteq 1..255
  <2> DEFINE total == config.total
             threshold == config.threshold
  <2>1. total \in threshold..255 /\ threshold \in 2..255
    BY <1>2
  <2> HIDE DEF total, threshold
  <2>2. 1..total \subseteq 1..255
    BY <2>1
  <2> QED BY <2>2 DEF total
<1>4. ASSUME NEW c \in Codes(shares)
      PROVE  c \in Code /\ c.data = PolyEval(coeffs, X(c.id))
  <2>1. PICK id \in 1..config.total : c = [id |-> id, data |-> shares[id]]
    BY <1>1 DEF Codes
  <2>2. shares[id] = PolyEval(coeffs, X(id))
    BY <1>1
  <2>3. shares[id] \in Byte /\ id \in 1..255
    BY <1>3, <2>2, XIsByte, PolyEvalType
  <2> QED BY <2>1, <2>2, <2>3 DEF Code
<1> QED BY <1>1, <1>4

\* Splitting gives bytes, so does putting together, and putting enough different shares
\* of a split together gives the seed (threshold.rs 36-201).
THEOREM ShamirWorks ==
    /\ \A seed \in Byte, config \in SharingConfigs :
          Split(seed, config) \subseteq [1..config.total -> Byte]
    /\ \A q \in Seq(Code) : Reconstruct(q) \in Byte
    /\ \A seed \in Byte, config \in SharingConfigs : \A shares \in Split(seed, config) :
          \A q \in Seq(Codes(shares)) :
            ~LagrangePanics(Points(q)) /\ Cardinality(Range(q)) >= config.threshold
              => Reconstruct(q) = seed
<1>1. ASSUME NEW q \in Seq(Code) PROVE Reconstruct(q) \in Byte
  <2>1. Len(q) \in Nat /\ Points(q) \in [1..Len(q) -> [x : Byte, y : Byte]]
    BY PointsOfCodes
  <2> QED BY <2>1, LagrangeInterpolates DEF Reconstruct
<1>2. ASSUME NEW seed \in Byte, NEW config \in SharingConfigs, NEW shares \in Split(seed, config),
             NEW q \in Seq(Codes(shares)), ~LagrangePanics(Points(q)),
             Cardinality(Range(q)) >= config.threshold
      PROVE  Reconstruct(q) = seed
  <2> DEFINE n == Len(q)
             points == Points(q)
  <2>1. PICK coeffs \in Seq(Byte) :
          /\ Len(coeffs) = config.threshold /\ coeffs[1] = seed
          /\ \A c \in Codes(shares) : c.data = PolyEval(coeffs, X(c.id))
    BY CodesOfSplit
  <2>2. q \in Seq(Code)
    BY CodesOfSplit, SeqMonotonic
  <2>3. n \in Nat /\ \A i \in 1..n : q[i] \in Codes(shares)
    OBVIOUS
  <2>4. /\ points \in [1..n -> [x : Byte, y : Byte]]
        /\ \A i \in 1..n : points[i].x = X(q[i].id) /\ points[i].y = q[i].data
    BY <2>2, PointsOfCodes
  <2>5. Len(coeffs) \in 1..n
    <3>1. Cardinality(Range(q)) = n
      BY <1>2, <2>2, SharesAreDifferent
    <3>2. config.threshold \in 2..255
      BY ThresholdAssumption
    <3> DEFINE threshold == config.threshold
    <3>3. threshold \in 2..255 /\ n >= threshold /\ Len(coeffs) = threshold
      BY <1>2, <2>1, <3>1, <3>2
    <3> HIDE DEF threshold, n
    <3> QED BY <2>3, <3>3
  <2>6. \A i \in 1..n : points[i].y = PolyEval(coeffs, points[i].x)
    BY <2>1, <2>3, <2>4
  <2>7. ~LagrangePanics(points)
    BY <1>2
  <2> HIDE DEF n, points
  <2>8. LagrangeAtZero(points) = coeffs[1]
    BY <2>3, <2>4, <2>5, <2>6, <2>7, LagrangeInterpolates
  <2> QED BY <2>1, <2>8 DEF Reconstruct, points
<1> QED BY <1>1, <1>2, SplitsAreBytes

----------------------------------------------------------------------------
\* Shared keys.

Generation == [seed : Byte, threshold : Nat, codes : SUBSET Code]

\* A seed, a threshold and shares that belong together.
IsSplit(seed, threshold, shares) ==
    \E config \in SharingConfigs :
        threshold = config.threshold /\ shares \in Split(seed, config)

\* The codes of every generation are those of a split of its seed, and so are the
\* shares the manager has now.
ThresholdInv ==
    /\ handedOut \in Seq(Generation)
    /\ \A g \in Range(handedOut) :
         \E shares : g.codes = Codes(shares) /\ IsSplit(g.seed, g.threshold, shares)
    /\ handedOut # <<>> =>
         manager.seed \in Byte /\ IsSplit(manager.seed, manager.threshold, manager.shares)
    /\ EnoughSharesAreTheSeed

\* Members of a finite set of numbers are told by how many are below them.
LEMMA RanksAreTaken ==
    ASSUME NEW I \in SUBSET Nat, IsFiniteSet(I), NEW k \in 1..Cardinality(I)
    PROVE  \E i \in I : Cardinality({j \in I : j < i}) = k - 1
<1> DEFINE n == Cardinality(I)
           Below(i) == {j \in I : j < i}
           p == [i \in I |-> Cardinality(Below(i)) + 1]
<1>1. n \in Nat
  BY FS_CardinalityType
<1>2. ASSUME NEW i \in I
      PROVE  /\ IsFiniteSet(Below(i)) /\ Cardinality(Below(i)) \in Nat
             /\ Cardinality(Below(i) \cup {i}) = Cardinality(Below(i)) + 1
             /\ IsFiniteSet(Below(i) \cup {i})
  <2>1. IsFiniteSet(Below(i))
    BY FS_Subset
  <2>2. i \notin Below(i)
    OBVIOUS
  <2> HIDE DEF Below
  <2> QED BY <2>1, <2>2, FS_CardinalityType, FS_AddElement
<1>3. ASSUME NEW i \in I PROVE Cardinality(Below(i)) + 1 \in 1..n
  <2>1. Below(i) \cup {i} \subseteq I
    OBVIOUS
  <2>2. Cardinality(Below(i) \cup {i}) <= n
    BY <2>1, FS_Subset
  <2> HIDE DEF Below, n
  <2> QED BY <1>1, <1>2, <2>2
<1>4. ASSUME NEW i \in I, NEW j \in I, i < j
      PROVE  Cardinality(Below(i)) < Cardinality(Below(j))
  <2>1. Below(i) \cup {i} \subseteq Below(j)
    <3>1. \A a \in I : a < i => a < j
      <4>1. \A a \in I : a \in Nat
        OBVIOUS
      <4>2. i \in Nat /\ j \in Nat /\ i < j
        BY <1>4
      <4> QED BY <4>1, <4>2
    <3> QED BY <1>4, <3>1
  <2>2. Cardinality(Below(i) \cup {i}) <= Cardinality(Below(j))
    BY <1>2, <2>1, FS_Subset
  <2>3. Cardinality(Below(i)) \in Nat /\ Cardinality(Below(j)) \in Nat
        /\ Cardinality(Below(i) \cup {i}) = Cardinality(Below(i)) + 1
    BY <1>2
  <2> HIDE DEF Below
  <2> QED BY <2>2, <2>3
<1>5. p \in Injection(I, 1..n)
  <2>1. p \in [I -> 1..n]
    BY <1>3
  <2>2. ASSUME NEW i \in I, NEW j \in I, i # j PROVE p[i] # p[j]
    <3>1. i < j \/ j < i
      BY <2>2
    <3>2. Cardinality(Below(i)) # Cardinality(Below(j))
      <4>1. Cardinality(Below(i)) \in Nat /\ Cardinality(Below(j)) \in Nat
        BY <1>2
      <4>2. Cardinality(Below(i)) < Cardinality(Below(j))
            \/ Cardinality(Below(j)) < Cardinality(Below(i))
        BY <1>4, <3>1
      <4> HIDE DEF Below
      <4> QED BY <4>1, <4>2
    <3>3. Cardinality(Below(i)) \in Nat /\ Cardinality(Below(j)) \in Nat
      BY <1>2
    <3>4. p[i] = Cardinality(Below(i)) + 1 /\ p[j] = Cardinality(Below(j)) + 1
      OBVIOUS
    <3> HIDE DEF p, Below
    <3> QED BY <3>2, <3>3, <3>4
  <2> HIDE DEF p
  <2> QED BY <2>1, <2>2 DEF Injection, IsInjective
<1>6. IsFiniteSet(1..n) /\ Cardinality(1..n) = n
  <2> HIDE DEF n
  <2>1. IsFiniteSet(1..n) /\ Cardinality(1..n) = IF 1 > n THEN 0 ELSE n - 1 + 1
    BY <1>1, FS_Interval
  <2> QED BY <1>1, <2>1
<1>7. \E i \in I : p[i] = k
  <2> HIDE DEF p
  <2>1. p \in Surjection(I, 1..n)
    BY <1>5, <1>6, FS_Injection
  <2> QED BY <2>1 DEF Surjection
<1>8. PICK i \in I : Cardinality(Below(i)) + 1 = k
  BY <1>7
<1>9. Cardinality(Below(i)) \in Nat
  BY <1>2
<1>10. Cardinality(Below(i)) = k - 1
  <2> HIDE DEF Below
  <2> QED BY <1>8, <1>9
<1> QED BY <1>10

\* Every id that is left is one the manager has a share of.
LEMMA KnownHaveShares ==
    ASSUME NEW S, NEW ids \in Seq(S)
    PROVE  Known(ids) \in Seq(DOMAIN manager.shares)
<1> DEFINE I == {i \in DOMAIN ids : ids[i] \in DOMAIN manager.shares}
           Rank(i) == Cardinality({j \in I : j < i})
           At(k) == CHOOSE i \in I : Rank(i) = k - 1
<1>1. DOMAIN ids = 1..Len(ids) /\ Len(ids) \in Nat
  OBVIOUS
<1>2. IsFiniteSet(I) /\ I \in SUBSET Nat
  <2>1. IsFiniteSet(1..Len(ids))
    BY <1>1, FS_Interval
  <2> QED BY <1>1, <2>1, FS_Subset
<1>3. Cardinality(I) \in Nat
  BY <1>2, FS_CardinalityType
<1>4. ASSUME NEW k \in 1..Cardinality(I) PROVE ids[At(k)] \in DOMAIN manager.shares
  <2>1. \E i \in I : Rank(i) = k - 1
    <3> HIDE DEF I
    <3> QED BY <1>2, RanksAreTaken
  <2>2. At(k) \in I
    <3> HIDE DEF Rank, I
    <3> QED BY <2>1
  <2> QED BY <2>2
<1>5. Known(ids) = [k \in 1..Cardinality(I) |-> ids[At(k)]]
  BY DEF Known
<1> HIDE DEF At, I
<1> QED BY <1>3, <1>4, <1>5

\* The shares of a split are codes, one for each id.
LEMMA SplitGivesCodes ==
    ASSUME NEW seed \in Byte, NEW threshold, NEW shares,
           IsSplit(seed, threshold, shares)
    PROVE  /\ threshold \in Nat /\ Codes(shares) \subseteq Code
           /\ \A id \in DOMAIN shares : [id |-> id, data |-> shares[id]] \in Codes(shares)
           /\ \A q \in Seq(Codes(shares)) :
                ~LagrangePanics(Points(q)) /\ Cardinality(Range(q)) >= threshold
                  => Reconstruct(q) = seed
<1>1. PICK config \in SharingConfigs :
        threshold = config.threshold /\ shares \in Split(seed, config)
  BY DEF IsSplit
<1>2. config.threshold \in 2..255 /\ config.total \in config.threshold..255
  BY ThresholdAssumption
<1>3. shares \in [1..config.total -> Byte]
  BY <1>1, ShamirWorks
<1>4. 1..config.total \subseteq 1..255
  BY <1>2
<1>5. Codes(shares) \subseteq Code
  BY <1>3, <1>4 DEF Codes, Code
<1>6. \A id \in DOMAIN shares : [id |-> id, data |-> shares[id]] \in Codes(shares)
  BY DEF Codes
<1>7. \A q \in Seq(Codes(shares)) :
        ~LagrangePanics(Points(q)) /\ Cardinality(Range(q)) >= threshold
          => Reconstruct(q) = seed
  BY <1>1, ShamirWorks
<1>8. threshold \in Nat
  BY <1>1, <1>2
<1> QED BY <1>5, <1>6, <1>7, <1>8

\* What is put together of enough codes of a generation is its seed.
LEMMA CombinedIsTheSeed ==
    ASSUME NEW seed \in Byte, NEW threshold, NEW shares,
           IsSplit(seed, threshold, shares), NEW q \in Seq(Code),
           ~LagrangePanics(Points(q)), Range(q) \subseteq Codes(shares),
           Cardinality(Range(q)) >= threshold
    PROVE  Reconstruct(q) = seed
<1>1. q \in Seq(Range(q))
  BY SeqOfRange
<1>2. q \in Seq(Codes(shares))
  BY <1>1, SeqMonotonic
<1> QED BY <1>2, SplitGivesCodes

\* The property for one result, made of the codes q while the generations are those
\* in the history.
LEMMA ResultIsRight ==
    ASSUME ThresholdInv, NEW q \in Seq(Code), ~LagrangePanics(Points(q)),
           NEW g \in Range(handedOut), Range(q) \subseteq g.codes,
           Cardinality(Range(q)) >= g.threshold
    PROVE  Reconstruct(q) = g.seed
<1>1. g \in Generation
  <2>1. Range(handedOut) \subseteq Generation
    BY RangeOfSeq DEF ThresholdInv
  <2> QED BY <2>1
<1>2. PICK shares : g.codes = Codes(shares) /\ IsSplit(g.seed, g.threshold, shares)
  BY DEF ThresholdInv
<1>3. g.seed \in Byte
  BY <1>1 DEF Generation
<1> QED BY <1>2, <1>3, CombinedIsTheSeed

\* Ids the manager has shares of give codes of its split.
LEMMA SharesAreCodes ==
    ASSUME ThresholdInv, handedOut # <<>>,
           NEW ids \in Seq(DOMAIN manager.shares)
    PROVE  /\ Shares(ids) \in Seq(Code) /\ Len(Shares(ids)) = Len(ids)
           /\ Range(Shares(ids)) \subseteq Codes(manager.shares)
<1>1. manager.seed \in Byte /\ IsSplit(manager.seed, manager.threshold, manager.shares)
  BY DEF ThresholdInv
<1>2. Codes(manager.shares) \subseteq Code
  BY <1>1, SplitGivesCodes
<1>3. \A id \in DOMAIN manager.shares :
        [id |-> id, data |-> manager.shares[id]] \in Codes(manager.shares)
  BY <1>1, SplitGivesCodes
<1>4. Len(ids) \in Nat /\ DOMAIN ids = 1..Len(ids)
      /\ \A i \in 1..Len(ids) : ids[i] \in DOMAIN manager.shares
  OBVIOUS
<1>5. Shares(ids) = [i \in 1..Len(ids) |-> [id |-> ids[i], data |-> manager.shares[ids[i]]]]
  BY <1>4 DEF Shares
<1>6. Shares(ids) \in [1..Len(ids) -> Codes(manager.shares)]
  BY <1>3, <1>4, <1>5
<1>7. Shares(ids) \in Seq(Codes(manager.shares)) /\ Len(Shares(ids)) = Len(ids)
  BY <1>4, <1>6
<1> QED BY <1>2, <1>7, SeqMonotonic, RangeOfSeq

LEMMA ThresholdInvInit == ThresholdInit => ThresholdInv
BY DEF ThresholdInit, ThresholdInv, EnoughSharesAreTheSeed, Range

\* A result of signing, alone or with the parties.
LEMMA SigningKeepsThresholdInv ==
    ASSUME ThresholdInv, handedOut # <<>>,
           UNCHANGED <<manager, handedOut>>, NEW kind \in {"signed", "distributed"},
           NEW ids \in Seq(DOMAIN manager.shares), outcome' = Combined(kind, Shares(ids)),
           kind = "signed" => Len(ids) >= manager.threshold
    PROVE  ThresholdInv'
<1> DEFINE q == Shares(ids)
<1>1. q \in Seq(Code) /\ Len(q) = Len(ids) /\ Range(q) \subseteq Codes(manager.shares)
  BY SharesAreCodes
<1> HIDE DEF q
<1>2. CASE LagrangePanics(Points(q))
  <2>1. outcome'.kind = "panicked"
    BY <1>2 DEF Combined, q
  <2> QED BY <2>1 DEF ThresholdInv, EnoughSharesAreTheSeed
<1>3. CASE ~LagrangePanics(Points(q))
  <2>1. outcome' = [kind |-> kind, from |-> Range(q), seed |-> Reconstruct(q)]
    BY <1>3 DEF Combined, q
  <2>2. ASSUME NEW g \in Range(handedOut), Range(q) \subseteq g.codes,
               Cardinality(Range(q)) >= g.threshold
        PROVE  Reconstruct(q) = g.seed
    BY <1>1, <1>3, <2>2, ResultIsRight
  <2>3. kind = "signed" => Reconstruct(q) = manager.seed
    <3> SUFFICES ASSUME kind = "signed" PROVE Reconstruct(q) = manager.seed
      OBVIOUS
    <3>1. Cardinality(Range(q)) >= manager.threshold
      BY <1>1, <1>3, SharesAreDifferent
    <3>2. manager.seed \in Byte /\ IsSplit(manager.seed, manager.threshold, manager.shares)
      BY DEF ThresholdInv
    <3> QED BY <1>1, <1>3, <3>1, <3>2, CombinedIsTheSeed
  <2>4. EnoughSharesAreTheSeed'
    BY <2>1, <2>2, <2>3 DEF EnoughSharesAreTheSeed
  <2> QED BY <2>4 DEF ThresholdInv
<1> QED BY <1>2, <1>3

\* A manager installed for a byte is a generation of its own.
LEMMA InstallKeepsThresholdInv ==
    ASSUME ThresholdInv, NEW seed \in Byte, NEW config \in SharingConfigs,
           Install(seed, config),
           \/ outcome'.kind = "none"
           \/ \E q \in Seq(Code) :
                /\ ~LagrangePanics(Points(q)) /\ seed = Reconstruct(q)
                /\ outcome' = [kind |-> "recovered", from |-> Range(q), seed |-> seed]
    PROVE  ThresholdInv'
<1>1. PICK shares \in Split(seed, config) :
        /\ manager' = [seed |-> seed, shares |-> shares, threshold |-> config.threshold]
        /\ handedOut' = Append(handedOut,
             [seed |-> seed, threshold |-> config.threshold, codes |-> Codes(shares)])
  BY DEF Install
<1> DEFINE new == [seed |-> seed, threshold |-> config.threshold, codes |-> Codes(shares)]
<1>2. IsSplit(seed, config.threshold, shares)
  BY <1>1 DEF IsSplit
<1>3. new \in Generation
  BY <1>2, SplitGivesCodes DEF Generation
<1>4. new.seed = seed /\ new.threshold = config.threshold /\ new.codes = Codes(shares)
  OBVIOUS
<1> HIDE DEF new
<1>5. handedOut \in Seq(Generation) /\ handedOut' = Append(handedOut, new)
  BY <1>1 DEF ThresholdInv, new
<1>6. handedOut' \in Seq(Generation) /\ Range(handedOut') = Range(handedOut) \cup {new}
  <2>1. /\ handedOut' \in Seq(Generation)
        /\ DOMAIN handedOut' = DOMAIN handedOut \cup {Len(handedOut) + 1}
        /\ handedOut'[Len(handedOut) + 1] = new
        /\ \A i \in DOMAIN handedOut : handedOut'[i] = handedOut[i]
    BY <1>3, <1>5
  <2>2. Len(handedOut) + 1 \notin DOMAIN handedOut
    BY <1>5
  <2> QED BY <2>1, <2>2 DEF Range
<1>7. \A g \in Range(handedOut') :
         \E s : g.codes = Codes(s) /\ IsSplit(g.seed, g.threshold, s)
  BY <1>2, <1>4, <1>6 DEF ThresholdInv
<1>8. manager'.seed \in Byte /\ IsSplit(manager'.seed, manager'.threshold, manager'.shares)
  BY <1>1, <1>2
<1>9. EnoughSharesAreTheSeed'
  <2>1. CASE outcome'.kind = "none"
    BY <2>1 DEF EnoughSharesAreTheSeed
  <2>2. ASSUME NEW q \in Seq(Code), ~LagrangePanics(Points(q)), seed = Reconstruct(q),
               outcome' = [kind |-> "recovered", from |-> Range(q), seed |-> seed]
        PROVE  EnoughSharesAreTheSeed'
    <3>1. ASSUME NEW g \in Range(handedOut'), Range(q) \subseteq g.codes,
                 Cardinality(Range(q)) >= g.threshold
          PROVE  seed = g.seed
      BY <1>4, <1>6, <2>2, <3>1, ResultIsRight
    <3> QED BY <2>2, <3>1 DEF EnoughSharesAreTheSeed
  <2> QED BY <2>1, <2>2
<1>10. IsSplit(manager.seed, manager.threshold, manager.shares)'
  BY <1>8 DEF IsSplit
<1> QED BY <1>6, <1>7, <1>8, <1>9 DEF ThresholdInv

LEMMA ThresholdInvStep ==
    ASSUME ThresholdInv, [ThresholdNext]_thresholdVars
    PROVE  ThresholdInv'
<1>1. CASE NewManager
  <2>1. PICK seed \in Seeds, config \in SharingConfigs : Install(seed, config)
    BY <1>1 DEF NewManager
  <2>2. seed \in Byte
    BY ThresholdAssumption DEF Byte
  <2>3. outcome'.kind = "none"
    BY <1>1 DEF NewManager
  <2> QED BY <2>1, <2>2, <2>3, InstallKeepsThresholdInv
<1>2. ASSUME NEW ids \in UpToQuorum(ShareIds, 0), SignWithQuorum(ids) PROVE ThresholdInv'
  <2>1. ids \in Seq(ShareIds)
    BY ThresholdAssumption DEF UpToQuorum
  <2>2. Known(ids) \in Seq(DOMAIN manager.shares)
    BY <2>1, KnownHaveShares
  <2>3. handedOut # <<>> /\ UNCHANGED <<manager, handedOut>>
    BY <1>2 DEF SignWithQuorum, Ready
  <2>4. CASE outcome' = [kind |-> "refused"]
    BY <2>3, <2>4 DEF ThresholdInv, EnoughSharesAreTheSeed
  <2>5. CASE /\ outcome' = Combined("signed", Shares(Known(ids)))
             /\ ~(Len(Known(ids)) < manager.threshold)
    <3>1. manager.threshold \in Nat
      BY <2>3, SplitGivesCodes DEF ThresholdInv
    <3>2. Len(Known(ids)) >= manager.threshold
      BY <2>2, <2>5, <3>1
    <3> QED BY <2>2, <2>3, <2>5, <3>2, SigningKeepsThresholdInv
  <2> QED BY <1>2, <2>4, <2>5 DEF SignWithQuorum
<1>3. ASSUME NEW ids \in UpToQuorum(ShareIds, 1), DistributedSign(ids) PROVE ThresholdInv'
  <2>1. ids \in Seq(ShareIds)
    BY ThresholdAssumption DEF UpToQuorum
  <2>2. ids \in Seq(DOMAIN manager.shares)
    <3>1. ids \in Seq(Range(ids)) /\ Range(ids) \subseteq DOMAIN manager.shares
      BY <1>3, <2>1, SeqOfRange DEF DistributedSign
    <3> QED BY <3>1, SeqMonotonic
  <2> QED BY <1>3, <2>2, SigningKeepsThresholdInv DEF DistributedSign, Ready
<1>4. ASSUME NEW given \in UpToQuorum(UNION {g.codes : g \in Range(handedOut)}, 1),
             NEW config \in SharingConfigs, RecoverFromCodes(given, config)
      PROVE  ThresholdInv'
  <2>1. given \in Seq(Code)
    <3>1. given \in Seq(UNION {g.codes : g \in Range(handedOut)})
      BY ThresholdAssumption DEF UpToQuorum
    <3>2. Range(handedOut) \subseteq Generation
      BY RangeOfSeq DEF ThresholdInv
    <3>3. UNION {g.codes : g \in Range(handedOut)} \subseteq Code
      BY <3>2 DEF Generation
    <3> QED BY <3>1, <3>3, SeqMonotonic
  <2>2. outcome' = Combined("recovered", given)
    BY <1>4 DEF RecoverFromCodes
  <2>3. CASE LagrangePanics(Points(given))
    <3>1. outcome'.kind = "panicked"
      BY <2>2, <2>3 DEF Combined
    <3>2. UNCHANGED <<manager, handedOut>>
      BY <1>4, <2>3 DEF RecoverFromCodes, Combined
    <3> QED BY <3>1, <3>2 DEF ThresholdInv, EnoughSharesAreTheSeed
  <2>4. CASE ~LagrangePanics(Points(given))
    <3>1. outcome' = [kind |-> "recovered", from |-> Range(given), seed |-> Reconstruct(given)]
      BY <2>2, <2>4 DEF Combined
    <3>2. Install(Reconstruct(given), config)
      BY <1>4, <2>4 DEF RecoverFromCodes, Combined
    <3>3. Reconstruct(given) \in Byte
      BY <2>1, ShamirWorks
    <3> QED BY <2>1, <2>4, <3>1, <3>2, <3>3, InstallKeepsThresholdInv
  <2> QED BY <2>3, <2>4
<1>5. CASE UNCHANGED thresholdVars
  BY <1>5 DEF thresholdVars, ThresholdInv, EnoughSharesAreTheSeed
<1> QED BY <1>1, <1>2, <1>3, <1>4, <1>5 DEF ThresholdNext

\* However often a key is split, signed with and recovered, with whatever ids and codes
\* of whatever generations: each quorum that is accepted is enough different shares
\* of the manager's own seed, and enough codes of a generation are never taken for
\* fewer or for another's, so that only the arithmetic is left to trust
\* (threshold.rs 414-453, 462-499).
THEOREM QuorumsAreEnough ==
    ThresholdSpec => []EnoughSharesAreTheSeed
<1>1. ThresholdInv /\ [ThresholdNext]_thresholdVars => ThresholdInv'
  BY ThresholdInvStep
<1>2. ThresholdInv => EnoughSharesAreTheSeed
  BY DEF ThresholdInv
<1> QED BY <1>1, <1>2, ThresholdInvInit, PTL DEF ThresholdSpec

----------------------------------------------------------------------------
\* Certificate chains.

\* A certificate carries its issuer's name and the signature of the issuer's key
\* over itself; issuers are there before those they sign.
Issued(c) ==
    /\ parent[c] \in DOMAIN certs
    /\ certs[c].issuer = certs[parent[c]].subject
    /\ certs[c].issuerAlgorithm = Algorithm[parent[c]]
    /\ certs[c].signature = [key |-> parent[c], tbs |-> Tbs(c)]

Certificate ==
    [subject : Subjects, issuer : Subjects, notBefore : Nat, notAfter : Nat,
     isCa : BOOLEAN, issuerAlgorithm : {Algorithm[c] : c \in 1..MaxCerts},
     signature : [key : Nat, tbs : [subject : Subjects, issuer : Subjects, notBefore : Nat,
                                    notAfter : Nat, key : Nat, isCa : BOOLEAN, serial : Nat]]]

StoreInv ==
    /\ certs \in Seq(Certificate) /\ parent \in Seq(Nat)
    /\ Len(certs) <= MaxCerts /\ Len(parent) = Len(certs)
    /\ now \in Nat
    /\ \A c \in DOMAIN certs : Issued(c)

LEMMA FieldsOfCertificate ==
    ASSUME NEW r \in Certificate
    PROVE  /\ r.subject \in Subjects /\ r.notBefore \in Nat /\ r.notAfter \in Nat
BY DEF Certificate

LEMMA CertificateFields ==
    ASSUME StoreInv, NEW c \in DOMAIN certs
    PROVE  /\ certs[c].subject \in Subjects /\ certs[c].notBefore \in Nat
           /\ certs[c].notAfter \in Nat
<1>1. certs \in Seq(Certificate)
  BY DEF StoreInv
<1>2. certs[c] \in Certificate
  BY <1>1
<1> QED BY <1>2, FieldsOfCertificate

LEMMA CreateKeepsIssued ==
    ASSUME StoreInv, NEW subject \in Subjects, NEW issuer \in 1..(Len(certs) + 1),
           NEW issuerSubject \in Subjects, NEW from \in Nat, NEW to \in Nat,
           NEW isCa \in BOOLEAN, Create(subject, issuer, issuerSubject, from, to, isCa),
           issuerSubject = IF issuer = Len(certs) + 1 THEN subject ELSE certs[issuer].subject
    PROVE  StoreInv'
<1> DEFINE n == Len(certs) + 1
           tbs == [subject |-> subject, issuer |-> issuerSubject, notBefore |-> from,
                   notAfter |-> to, key |-> n, isCa |-> isCa, serial |-> n]
           new == [subject |-> subject, issuer |-> issuerSubject, notBefore |-> from,
                   notAfter |-> to, isCa |-> isCa, issuerAlgorithm |-> Algorithm[issuer],
                   signature |-> [key |-> issuer, tbs |-> tbs]]
<1>1. /\ certs' = Append(certs, new) /\ parent' = Append(parent, issuer)
      /\ n <= MaxCerts /\ UNCHANGED now
  BY DEF Create, NextCert
<1>2. new \in Certificate
  <2>1. Algorithm[issuer] \in {Algorithm[c] : c \in 1..MaxCerts}
    BY <1>1, TrustStoreAssumption DEF StoreInv
  <2>2. n \in Nat /\ issuer \in Nat
    BY DEF StoreInv
  <2> HIDE DEF n
  <2> QED BY <2>1, <2>2 DEF Certificate
<1>3. /\ new.subject = subject /\ new.issuer = issuerSubject
      /\ new.issuerAlgorithm = Algorithm[issuer]
      /\ new.signature = [key |-> issuer, tbs |-> tbs]
      /\ tbs = [subject |-> new.subject, issuer |-> new.issuer, notBefore |-> new.notBefore,
                notAfter |-> new.notAfter, key |-> n, isCa |-> new.isCa, serial |-> n]
  OBVIOUS
<1> HIDE DEF new, tbs
<1>4. /\ certs' \in Seq(Certificate) /\ Len(certs') = n
      /\ parent' \in Seq(Nat) /\ Len(parent') = n
      /\ certs'[n] = new /\ parent'[n] = issuer
      /\ \A c \in DOMAIN certs : certs'[c] = certs[c] /\ parent'[c] = parent[c]
      /\ DOMAIN certs = 1..Len(certs) /\ DOMAIN certs' = 1..n
  BY <1>1, <1>2 DEF StoreInv
<1>5. ASSUME NEW c \in DOMAIN certs' PROVE Issued(c)'
  <2>1. CASE c \in DOMAIN certs
    <3>1. Issued(c)
      BY <2>1 DEF StoreInv
    <3>2. certs'[parent[c]] = certs[parent[c]] /\ parent[c] \in DOMAIN certs'
      BY <3>1, <1>4 DEF Issued
    <3>3. certs'[c] = certs[c] /\ parent'[c] = parent[c] /\ Tbs(c)' = Tbs(c)
      BY <1>4, <2>1 DEF Tbs
    <3> QED BY <3>1, <3>2, <3>3 DEF Issued
  <2>2. CASE c = n
    <3>1. issuer \in DOMAIN certs' /\ certs'[issuer].subject = issuerSubject
      BY <1>3, <1>4
    <3>2. Tbs(c)' = tbs
      BY <1>3, <1>4, <2>2 DEF Tbs
    <3> QED BY <1>3, <1>4, <2>2, <3>1, <3>2 DEF Issued
  <2> QED BY <1>4, <2>1, <2>2
<1> QED BY <1>1, <1>4, <1>5 DEF StoreInv

LEMMA StoreInvStep == StoreInv /\ [StoreNext]_storeVars => StoreInv'
<1> SUFFICES ASSUME StoreInv, [StoreNext]_storeVars PROVE StoreInv'
    OBVIOUS
<1>1. now \in Nat /\ Validities \subseteq Nat /\ Len(certs) \in Nat
      /\ certs \in Seq(Certificate) /\ DOMAIN certs = 1..Len(certs)
  BY TrustStoreAssumption DEF StoreInv
<1>2. CASE CreateRootCa
  <2>1. PICK subject \in Subjects, v \in Validities :
          Create(subject, Len(certs) + 1, subject, now, now + v, TRUE)
    BY <1>2 DEF CreateRootCa, NextCert
  <2>2. now + v \in Nat /\ Len(certs) + 1 \in 1..(Len(certs) + 1) /\ TRUE \in BOOLEAN
    BY <1>1
  <2>3. subject = IF Len(certs) + 1 = Len(certs) + 1 THEN subject ELSE certs[Len(certs) + 1].subject
    OBVIOUS
  <2> QED BY ONLY StoreInv, <1>1, <2>1, <2>2, <2>3, CreateKeepsIssued
<1>3. CASE CreateSignedCert
  <2>1. PICK subject \in Subjects, issuer \in DOMAIN certs, from \in {now, now + 1},
             v \in Validities, isCa \in BOOLEAN :
          Create(subject, issuer, certs[issuer].subject, from, from + v, isCa)
    BY <1>3 DEF CreateSignedCert
  <2>2. from \in Nat /\ from + v \in Nat
    BY <1>1
  <2>3. certs[issuer].subject \in Subjects
    BY CertificateFields
  <2> QED BY <1>1, <2>1, <2>2, <2>3, CreateKeepsIssued
<1>4. ASSUME UNCHANGED <<certs, parent>>, now' \in Nat PROVE StoreInv'
  BY <1>4 DEF StoreInv, Issued, Tbs
<1>5. CASE \/ AddTrustedRoot \/ RemoveTrustedRoot \/ RevokeCertificate
           \/ UnrevokeCertificate \/ PinCertificate \/ UnpinCertificate
           \/ StoreTick \/ UNCHANGED storeVars
  <2>1. UNCHANGED <<certs, parent>> /\ now' \in Nat
    BY <1>1, <1>5 DEF AddTrustedRoot, RemoveTrustedRoot, RevokeCertificate,
       UnrevokeCertificate, PinCertificate, UnpinCertificate, StoreTick, storeVars
  <2> QED BY <1>4, <2>1
<1> QED BY <1>2, <1>3, <1>5 DEF StoreNext

\* Every certificate the builder makes was signed, as it now stands, by the key of
\* the certificate it names as its issuer (cert_chain.rs, CertificateBuilder).
THEOREM CertificatesAreIssued == StoreSpec => []StoreInv
<1>1. StoreInit => StoreInv
  <2>1. <<>> \in Seq(Certificate) /\ <<>> \in Seq(Nat) /\ Len(<<>>) = 0 /\ DOMAIN <<>> = {}
    OBVIOUS
  <2> QED BY <2>1, TrustStoreAssumption DEF StoreInit, StoreInv
<1> QED BY <1>1, StoreInvStep, PTL DEF StoreSpec

\* A link has no error exactly when the issuer's key signed the certificate, and
\* the issuer is a CA.
LEMMA LinkIsIssue ==
    ASSUME StoreInv, NEW c \in DOMAIN certs, NEW d \in DOMAIN certs
    PROVE  LinkErrors(c, d) = {} <=> parent[c] = d /\ certs[d].isCa
<1>1. Issued(c)
  BY DEF StoreInv
<1>2. VerifySignature(certs[c].issuerAlgorithm, d, Tbs(c), certs[c].signature)
        <=> parent[c] = d
  BY <1>1 DEF Issued, VerifySignature
<1> QED BY <1>1, <1>2 DEF Issued, LinkErrors

LEMMA RootIsIssue ==
    ASSUME StoreInv, NEW p \in StatedCertificates
    PROVE  RootErrors(p) = {} <=>
             p.fingerprint \in trustedRoots /\ (IsSelfSigned(p.cert) => parent[p.cert] = p.cert)
<1>1. p.cert \in DOMAIN certs /\ Issued(p.cert)
  BY DEF StoreInv, StatedCertificates
<1>2. VerifySignature(certs[p.cert].issuerAlgorithm, p.cert, Tbs(p.cert), certs[p.cert].signature)
        <=> parent[p.cert] = p.cert
  BY <1>1 DEF Issued, VerifySignature
<1> QED BY <1>2 DEF RootErrors

LEMMA CertificateIsGood ==
    ASSUME StoreInv, NEW p \in StatedCertificates
    PROVE  CertificateErrors(p) = {} <=>
             /\ certs[p.cert].notBefore <= now /\ now <= certs[p.cert].notAfter
             /\ p.cert \notin revoked
             /\ (\E q \in pins : q.subject = certs[p.cert].subject) =>
                  [subject |-> certs[p.cert].subject, fingerprint |-> p.fingerprint] \in pins
<1>1. p.cert \in DOMAIN certs
  BY DEF StatedCertificates
<1>2. certs[p.cert].notBefore \in Nat /\ certs[p.cert].notAfter \in Nat /\ now \in Nat
  BY <1>1, CertificateFields DEF StoreInv
<1>3. PinnedFor(certs[p.cert].subject) # {} <=> \E q \in pins : q.subject = certs[p.cert].subject
  BY DEF PinnedFor
<1> QED BY <1>2, <1>3 DEF CertificateErrors

\* A chain is valid exactly when its leaf was issued that way under a root that
\* states a fingerprint trusted now, and no certificate of it has expired, been
\* revoked or states a fingerprint its subject is not pinned to.  Nothing is said
\* of the root's key: it is not compared with the trusted one
\* (cert_chain.rs 278-419).
THEOREM ValidChainsAreIssued == StoreSpec => []ValidIsIssued
<1>1. StoreInv => ValidIsIssued
  <2> SUFFICES ASSUME StoreInv, NEW chain \in Chains
               PROVE  Valid(chain) <=>
            /\ Last(chain).fingerprint \in trustedRoots
            /\ \A i \in 1..(Len(chain) - 1) :
                 /\ parent[chain[i].cert] = chain[i + 1].cert
                 /\ certs[chain[i + 1].cert].isCa
            /\ IsSelfSigned(Last(chain).cert) => parent[Last(chain).cert] = Last(chain).cert
            /\ \A p \in {chain[i] : i \in DOMAIN chain} :
                 /\ certs[p.cert].notBefore <= now /\ now <= certs[p.cert].notAfter
                 /\ p.cert \notin revoked
                 /\ (\E q \in pins : q.subject = certs[p.cert].subject) =>
                      [subject |-> certs[p.cert].subject, fingerprint |-> p.fingerprint] \in pins
      BY DEF ValidIsIssued
  <2>1. PICK n \in 1..Len(certs) : chain \in [1..n -> StatedCertificates]
    BY DEF Chains
  <2>2. /\ n \in Nat \ {0} /\ chain \in Seq(StatedCertificates)
        /\ Len(chain) = n /\ DOMAIN chain = 1..n
    BY <2>1 DEF StoreInv
  <2>3. Last(chain) \in StatedCertificates /\ chain # <<>>
    BY <2>1, <2>2 DEF Last
  <2>4. \A i \in 1..n : chain[i] \in StatedCertificates
    BY <2>1
  <2>5. \A i \in 1..(n - 1) : chain[i].cert \in DOMAIN certs /\ chain[i + 1].cert \in DOMAIN certs
    <3>1. \A i \in 1..(n - 1) :
            chain[i] \in StatedCertificates /\ chain[i + 1] \in StatedCertificates
      BY <2>2, <2>4
    <3> QED BY <3>1 DEF StatedCertificates
  <2>6. (UNION {LinkErrors(chain[i].cert, chain[i + 1].cert) : i \in 1..(Len(chain) - 1)} = {}) <=>
          \A i \in 1..(n - 1) : LinkErrors(chain[i].cert, chain[i + 1].cert) = {}
    BY <2>2
  <2>7. (UNION {CertificateErrors(chain[i]) : i \in DOMAIN chain} = {}) <=>
          \A p \in {chain[i] : i \in DOMAIN chain} : CertificateErrors(p) = {}
    OBVIOUS
  <2>8. Valid(chain) <=>
          /\ \A p \in {chain[i] : i \in DOMAIN chain} : CertificateErrors(p) = {}
          /\ \A i \in 1..(n - 1) : LinkErrors(chain[i].cert, chain[i + 1].cert) = {}
          /\ RootErrors(Last(chain)) = {}
    BY <2>3, <2>6, <2>7 DEF Valid, Errors
  <2>9. (\A i \in 1..(n - 1) : LinkErrors(chain[i].cert, chain[i + 1].cert) = {}) <=>
          \A i \in 1..(Len(chain) - 1) :
             /\ parent[chain[i].cert] = chain[i + 1].cert
             /\ certs[chain[i + 1].cert].isCa
    <3>1. ASSUME NEW i \in 1..(n - 1)
          PROVE  LinkErrors(chain[i].cert, chain[i + 1].cert) = {} <=>
                   /\ parent[chain[i].cert] = chain[i + 1].cert
                   /\ certs[chain[i + 1].cert].isCa
      <4> DEFINE c == chain[i].cert
                 d == chain[i + 1].cert
      <4>1. c \in DOMAIN certs /\ d \in DOMAIN certs
        BY <2>5
      <4> HIDE DEF c, d
      <4>2. LinkErrors(c, d) = {} <=> parent[c] = d /\ certs[d].isCa
        BY <4>1, LinkIsIssue
      <4> QED BY <4>2 DEF c, d
    <3> QED BY <2>2, <3>1
  <2>10. \A p \in {chain[i] : i \in DOMAIN chain} : p \in StatedCertificates
    BY <2>2, <2>4
  <2>11. RootErrors(Last(chain)) = {} <=>
           /\ Last(chain).fingerprint \in trustedRoots
           /\ IsSelfSigned(Last(chain).cert) => parent[Last(chain).cert] = Last(chain).cert
    BY <2>3, RootIsIssue
  <2> QED BY <2>8, <2>9, <2>10, <2>11, CertificateIsGood
<1> QED BY <1>1, CertificatesAreIssued, PTL

\* What a warning's whole days amount to: nobody is left without a warning during
\* the last expiry_warning_days and one more, a certificate that chains are
\* refused for as expired is called so, and none is called so with a whole day
\* left (cert_chain.rs 97-104, 257-272).
THEOREM WarningsComeInTime == StoreSpec => []WarnedInTime
<1>1. StoreInv => WarnedInTime
  <2> SUFFICES ASSUME StoreInv, NEW c \in DOMAIN certs
               PROVE  /\ ExpiryWarning(c) = "none" =>
                           certs[c].notAfter >= now + (WarningDays + 1) * Day
                      /\ now > certs[c].notAfter => ExpiryWarning(c) = "expired"
                      /\ ExpiryWarning(c) = "expired" => certs[c].notAfter < now + Day
      BY DEF WarnedInTime
  <2> DEFINE left == certs[c].notAfter - now
             days == left \div Day
  <2>1. certs[c].notAfter \in Nat /\ now \in Nat /\ WarningDays \in Nat /\ Day \in Nat \ {0}
    BY TrustStoreAssumption, CertificateFields DEF StoreInv
  <2>2. now > certs[c].notAfter => ExpiryWarning(c) = "expired"
    BY <2>1 DEF ExpiryWarning, DaysUntilExpiry
  <2>3. ASSUME now < certs[c].notAfter
        PROVE  left \in Nat /\ days \in Nat /\ Day * days <= left /\ left < Day * (days + 1)
    BY <2>1, <2>3
  <2>4. ASSUME ExpiryWarning(c) = "none"
        PROVE  certs[c].notAfter >= now + (WarningDays + 1) * Day
    <3>1. now < certs[c].notAfter /\ days # 0 /\ ~(days <= WarningDays)
      BY <2>1, <2>4 DEF ExpiryWarning, DaysUntilExpiry
    <3>2. left \in Nat /\ days \in Nat /\ Day * days <= left
      BY <2>3, <3>1
    <3>3. days >= WarningDays + 1
      BY <2>1, <3>1, <3>2
    <3> HIDE DEF days
    <3>4. Day * days >= Day * (WarningDays + 1)
      BY <2>1, <3>2, <3>3
    <3>5. left >= (WarningDays + 1) * Day
      BY <2>1, <3>2, <3>4
    <3> QED BY <2>1, <3>5
  <2>5. ASSUME ExpiryWarning(c) = "expired" PROVE certs[c].notAfter < now + Day
    <3>1. CASE now >= certs[c].notAfter
      BY <2>1, <3>1
    <3>2. CASE now < certs[c].notAfter
      <4>1. days = 0 /\ left < Day * (days + 1)
        BY <2>1, <2>3, <2>5, <3>2 DEF ExpiryWarning, DaysUntilExpiry
      <4> HIDE DEF days
      <4>2. left < Day
        BY <2>1, <4>1
      <4> QED BY <2>1, <4>2
    <3> QED BY <2>1, <3>1, <3>2
  <2> QED BY <2>2, <2>4, <2>5
<1> QED BY <1>1, CertificatesAreIssued, PTL
=============================================================================
