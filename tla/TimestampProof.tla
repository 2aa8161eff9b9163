---------------------------- MODULE TimestampProof ----------------------------
(***************************************************************************)
(* Timestamp proofs (pqc-tls/src/batch_verify.rs 383-536): an authority    *)
(* signs the time it reads and the hash of a message; a verifier checks    *)
(* the proof and its age against the clock of its own machine.             *)
(*                                                                         *)
(* Times are u64: WordSize stands for 2^64, Tolerance for the 60 seconds.  *)
(* The subtraction of the age check may underflow: a build with overflow   *)
(* checks panics there, one without them wraps around.                     *)
(***************************************************************************)
EXTENDS Integers, FiniteSets

CONSTANTS
    StampMessages,  \* messages
    Authorities,    \* timestamp authorities, each with its key pair
    MaxAges,        \* the values of max_age_seconds
    Tolerance, WordSize,
    MaxTime,        \* bound on the clocks
    MaxProofs       \* bound on the proofs issued

ASSUME TimestampAssumption ==
    /\ WordSize \in Nat /\ Tolerance \in Nat /\ MaxTime \in Nat /\ MaxProofs \in Nat
    /\ MaxTime < WordSize /\ MaxAges \subseteq 0..(WordSize - 1)

VARIABLES
    authorityClock, verifierClock,  \* SystemTime::now() on either machine
    issued,                         \* the proofs made so far
    checked,                        \* the last check: proof, message, max age
    verdict                         \* "none", "accepted", "refused" or "panicked"

stampVars == <<authorityClock, verifierClock, issued, checked, verdict>>

----------------------------------------------------------------------------
Payload(timestamp, message) == [timestamp |-> timestamp, messageHash |-> message]
ProofHash(timestamp, message, sig) ==
    [timestamp |-> timestamp, messageHash |-> message, signature |-> sig]

Proof(a, t, m) ==
    LET sig == [key |-> a, payload |-> Payload(t, m)] IN
    [timestamp |-> t, messageHash |-> m, signature |-> sig, publicKey |-> a,
     proofHash |-> ProofHash(t, m, sig)]

\* verify_timestamp_proof
VerifyTimestampProof(p, message) ==
    /\ p.messageHash = message
    /\ p.signature = [key |-> p.publicKey, payload |-> Payload(p.timestamp, p.messageHash)]
    /\ p.proofHash = ProofHash(p.timestamp, p.messageHash, p.signature)

\* Mutant of CheckVerdict: nothing is said of the future.
CheckVerdict_AgeOnly(p, message, maxAge, now) ==
    LET within(age) == IF age > maxAge THEN "refused" ELSE "accepted" IN
    IF ~VerifyTimestampProof(p, message) THEN {"refused"}
    ELSE IF p.timestamp <= now THEN {within(now - p.timestamp)}
    ELSE {"panicked", within((now + WordSize) - p.timestamp)}

\* verify_timestamp_proof_with_time_check, in either build.
CheckVerdict(p, message, maxAge, now) ==
    LET within(age) == IF age > maxAge THEN "refused" ELSE "accepted" IN
    IF ~VerifyTimestampProof(p, message) \/ p.timestamp > now + Tolerance
    THEN {"refused"}
    ELSE IF p.timestamp <= now THEN {within(now - p.timestamp)}
    ELSE {"panicked", within((now + WordSize) - p.timestamp)}

\* Proofs as a verifier may be given them: issued, or with a field changed since.
Presented ==
    issued \cup {[p EXCEPT !.timestamp = t] : p \in issued, t \in 0..MaxTime}
           \cup {[p EXCEPT !.messageHash = m] : p \in issued, m \in StampMessages}
           \cup {[p EXCEPT !.publicKey = a] : p \in issued, a \in Authorities}

----------------------------------------------------------------------------
StampInit ==
    /\ authorityClock = 0 /\ verifierClock = 0
    /\ issued = {}
    /\ checked = [proof |-> <<>>]
    /\ verdict = "none"

CreateProof ==
    \E a \in Authorities, m \in StampMessages :
        /\ Cardinality(issued) < MaxProofs
        /\ issued' = issued \cup {Proof(a, authorityClock, m)}
        /\ UNCHANGED <<authorityClock, verifierClock, checked, verdict>>

CheckProof ==
    \E p \in Presented, m \in StampMessages, maxAge \in MaxAges :
        /\ verdict' \in CheckVerdict(p, m, maxAge, verifierClock)
        /\ checked' = [proof |-> p, message |-> m, maxAge |-> maxAge, now |-> verifierClock]
        /\ UNCHANGED <<authorityClock, verifierClock, issued>>

\* The clocks of two machines do not keep step.
AuthorityTick ==
    /\ authorityClock < MaxTime
    /\ authorityClock' = authorityClock + 1
    /\ UNCHANGED <<verifierClock, issued, checked, verdict>>

VerifierTick ==
    /\ verifierClock < MaxTime
    /\ verifierClock' = verifierClock + 1
    /\ UNCHANGED <<authorityClock, issued, checked, verdict>>

StampNext == CreateProof \/ CheckProof \/ AuthorityTick \/ VerifierTick

StampSpec == StampInit /\ [][StampNext]_stampVars

----------------------------------------------------------------------------
\* An accepted proof is one an authority made of that message, unchanged; it is no
\* older than was asked and ahead of the verifier's clock by the tolerance at most,
\* also where the age is the wrapped-around one of a build without overflow checks
\* (batch_verify.rs 476-536).
AcceptedIsFresh ==
    verdict = "accepted" =>
        LET p == checked.proof IN
        /\ p \in issued
        /\ p.messageHash = checked.message
        /\ checked.now - p.timestamp <= checked.maxAge
        /\ p.timestamp - checked.now <= Tolerance

----------------------------------------------------------------------------
\* "Timestamp must not be in the future (with small tolerance)" (batch_verify.rs:525):
\* a proof of the message that is ahead of the clock, but not by more than the
\* tolerance, is accepted.
ToleranceIsGranted ==
    verdict # "none" =>
        LET p == checked.proof
            ahead == p.timestamp - checked.now
        IN  p \in issued /\ p.messageHash = checked.message /\ ahead \in 1..Tolerance
              => verdict = "accepted"
=============================================================================
