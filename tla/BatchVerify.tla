----------------------------- MODULE BatchVerify -----------------------------
(***************************************************************************)
(* Batch verification of signatures (pqc-tls/src/batch_verify.rs): the     *)
(* sequential function, and the parallel one with its scoped threads.  The *)
(* caller spawns a thread per chunk while the first ones already run; a    *)
(* thread adds to one of two atomic counters per entry and, for a failed   *)
(* one, takes the mutex afterwards and pushes the index.                   *)
(*                                                                         *)
(* An entry is what ml_dsa_verify makes of it: TRUE is Ok(true).           *)
(***************************************************************************)
EXTENDS Naturals, Sequences, FiniteSets, Functions

CONSTANTS
    MaxEntries,  \* bound on the length of a batch
    MaxThreads   \* bound on num_threads

ASSUME BatchAssumption == MaxEntries \in Nat /\ MaxThreads \in Nat

VARIABLES
    entries,        \* the batch
    chunkSize,      \* chunk_size
    spawned,        \* number of chunks that have their thread
    thread,         \* thread[k]: the thread of chunk k
    verified,       \* the three results the threads share
    failed,
    failedIndices,
    batch           \* "idle", "running", "done" or "panicked"

batchVars ==
    <<entries, chunkSize, spawned, thread, verified, failed, failedIndices, batch>>

----------------------------------------------------------------------------
\* Thread number k is about to verify the at-th entry of its chunk, or to push
\* the index of that entry when it has just counted it as failed.
Thread == [at : Nat, pushing : BOOLEAN]

RoundedUp(n, d) == (n + d - 1) \div d

\* num_threads.max(1)
EffectiveThreads(t) == IF t = 0 THEN 1 ELSE t

ChunkSize(n, t) == RoundedUp(n, EffectiveThreads(t))

\* chunks() cuts the batch from the front; the last chunk is what is left.
ChunkCount == RoundedUp(Len(entries), chunkSize)
ChunkLength(k) ==
    IF (k + 1) * chunkSize <= Len(entries) THEN chunkSize ELSE Len(entries) - k * chunkSize

\* base_idx + i
Index(k) == k * chunkSize + thread[k].at

Running(k) == k < spawned /\ thread[k].at < ChunkLength(k)

Occurrences(s, x) == Cardinality({i \in DOMAIN s : s[i] = x})

\* sort_unstable: the same elements, as often, in order.
Sorted(s) ==
    CHOOSE t \in [DOMAIN s -> Range(s)] :
        /\ \A i, j \in DOMAIN s : i < j => t[i] <= t[j]
        /\ \A x \in Range(s) : Occurrences(t, x) = Occurrences(s, x)

\* What is pushed when the indices in S are gone through from the lowest.
Ascending(S) ==
    CHOOSE t \in [1..Cardinality(S) -> S] :
        \A i, j \in 1..Cardinality(S) : i < j => t[i] < t[j]

\* batch_verify: one entry after the other.
Sequential(es) ==
    LET bad == {i \in 0..(Len(es) - 1) : ~es[i + 1]} IN
    [total |-> Len(es), verified |-> Len(es) - Cardinality(bad),
     failed |-> Cardinality(bad), failedIndices |-> Ascending(bad)]

\* What batch_verify_parallel returns once its threads are joined.
Report ==
    [total |-> Len(entries), verified |-> verified, failed |-> failed,
     failedIndices |-> Sorted(failedIndices)]

----------------------------------------------------------------------------
AtRest(es, size) ==
    /\ entries = es
    /\ chunkSize = size
    /\ spawned = 0
    /\ thread = [k \in 0..(MaxEntries - 1) |-> [at |-> 0, pushing |-> FALSE]]
    /\ verified = 0 /\ failed = 0 /\ failedIndices = <<>>

BatchInit == AtRest(<<>>, 0) /\ batch = "idle"

\* batch_verify_parallel is called.  chunks(0) panics: the batch is empty then.
StartBatch ==
    \E n \in 0..MaxEntries, t \in 0..MaxThreads :
        /\ batch = "idle"
        /\ entries' \in [1..n -> BOOLEAN]
        /\ chunkSize' = ChunkSize(n, t)
        /\ batch' = IF chunkSize' = 0 THEN "panicked" ELSE "running"
        /\ UNCHANGED <<spawned, thread, verified, failed, failedIndices>>

SpawnThread ==
    /\ batch = "running"
    /\ spawned < ChunkCount
    /\ spawned' = spawned + 1
    /\ UNCHANGED <<entries, chunkSize, thread, verified, failed, failedIndices, batch>>

\* Mutant of VerifyEntry: a load and a store instead of fetch_add, whose store
\* loses what the thread before has counted meanwhile.
VerifyEntry_LostUpdate(k) ==
    /\ batch = "running"
    /\ Running(k)
    /\ ~thread[k].pushing
    /\ IF entries[Index(k) + 1]
       THEN /\ \/ verified' = verified + 1
               \/ \E j \in 0..(MaxEntries - 1) :
                    j # k /\ j < spawned /\ verified > 0 /\ verified' = verified
            /\ thread' = [thread EXCEPT ![k].at = @ + 1]
            /\ UNCHANGED failed
       ELSE /\ failed' = failed + 1
            /\ thread' = [thread EXCEPT ![k].pushing = TRUE]
            /\ UNCHANGED verified
    /\ UNCHANGED <<entries, chunkSize, spawned, failedIndices, batch>>

\* The thread of chunk k verifies its next entry and counts it.
VerifyEntry(k) ==
    /\ batch = "running"
    /\ Running(k)
    /\ ~thread[k].pushing
    /\ IF entries[Index(k) + 1]
       THEN /\ verified' = verified + 1
            /\ thread' = [thread EXCEPT ![k].at = @ + 1]
            /\ UNCHANGED failed
       ELSE /\ failed' = failed + 1
            /\ thread' = [thread EXCEPT ![k].pushing = TRUE]
            /\ UNCHANGED verified
    /\ UNCHANGED <<entries, chunkSize, spawned, failedIndices, batch>>

\* It gets hold of the mutex and pushes the index.
PushIndex(k) ==
    /\ batch = "running"
    /\ Running(k)
    /\ thread[k].pushing
    /\ failedIndices' = Append(failedIndices, Index(k))
    /\ thread' = [thread EXCEPT ![k] = [at |-> @.at + 1, pushing |-> FALSE]]
    /\ UNCHANGED <<entries, chunkSize, spawned, verified, failed, batch>>

\* The end of the scope waits for every thread.
JoinThreads ==
    /\ batch = "running"
    /\ spawned = ChunkCount
    /\ \A k \in 0..(spawned - 1) : ~Running(k)
    /\ batch' = "done"
    /\ UNCHANGED <<entries, chunkSize, spawned, thread, verified, failed, failedIndices>>

BatchNext ==
    \/ StartBatch
    \/ SpawnThread
    \/ \E k \in 0..(MaxEntries - 1) : VerifyEntry(k)
    \/ \E k \in 0..(MaxEntries - 1) : PushIndex(k)
    \/ JoinThreads

BatchSpec == BatchInit /\ [][BatchNext]_batchVars

----------------------------------------------------------------------------
\* However many threads there are, however the batch divides among them and in
\* whatever order they count and push, the parallel function reports what the
\* sequential one does: counts, and the indices of the failed entries in order
\* (batch_verify.rs 82-138 against 47-79).
ParallelIsSequential == batch = "done" => Report = Sequential(entries)
=============================================================================
