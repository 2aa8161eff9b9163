------------------------------ MODULE Threshold ------------------------------
(***************************************************************************)
(* Shamir's secret sharing over GF(256), and the manager that signs with a *)
(* quorum of shares and is rebuilt from recovery codes                     *)
(* (pqc-tls/src/threshold.rs).                                             *)
(*                                                                         *)
(* A byte is the set of its bits, so that exclusive or is the symmetric    *)
(* difference and a shift moves every member.  Each byte of a seed is      *)
(* shared on its own: one byte stands for the 32.  A seed stands for its   *)
(* ML-DSA key pair, and a recovery code for the share it spells.           *)
(***************************************************************************)
EXTENDS Naturals, Sequences, FiniteSets, Functions

CONSTANTS
    Seeds,           \* the seeds key generation may come up with
    Coefficients,    \* the random coefficients it may draw
    SharingConfigs,  \* [threshold, total], what SharingConfig::new accepts
    MaxGenerations,  \* bound on the managers made one after the other
    ShareIds,        \* the share ids a caller may name
    MaxQuorum        \* bound on the ids and codes in one call

ASSUME ThresholdAssumption ==
    /\ Seeds \subseteq SUBSET (0..7) /\ Coefficients \subseteq SUBSET (0..7)
    /\ MaxGenerations \in Nat /\ MaxQuorum \in Nat
    /\ \A c \in SharingConfigs : c.threshold \in 2..255 /\ c.total \in c.threshold..255

VARIABLES
    manager,    \* the ThresholdKeyManager: seed behind its public key, shares, config
    handedOut,  \* per manager made so far: its recovery codes, with the seed and the
                \* threshold they were split for (history)
    outcome     \* what the last signing or recovery came to, and from which shares

thresholdVars == <<manager, handedOut, outcome>>

----------------------------------------------------------------------------
\* GF(256) modulo x^8 + x^4 + x^3 + x + 1.

Byte == SUBSET (0..7)
Zero == {}
One == {0}

X(id) == {bit \in 0..7 : (id \div 2^bit) % 2 = 1}

Xor(a, b) == (a \ b) \cup (b \ a)
Doubled(a) ==
    LET shifted == {i + 1 : i \in a \ {7}} IN
    IF 7 \in a THEN Xor(shifted, {0, 1, 3, 4}) ELSE shifted

\* A loop is a function of the values its variables have when its head is reached.

\* gf256_mul: the bits of y from the lowest, a doubled after each.
Mul(x, y) ==
    LET loop[v \in [bit : 0..8, a : Byte, result : Byte]] ==
          IF v.bit = 8 THEN v.result
          ELSE loop[[bit |-> v.bit + 1, a |-> Doubled(v.a),
                     result |-> IF v.bit \in y THEN Xor(v.result, v.a) ELSE v.result]]
    IN  loop[[bit |-> 0, a |-> x, result |-> Zero]]

\* gf256_inv: gf256_pow of 254, which is 11111110 in binary.
Inv256(x) ==
    LET loop[v \in [bit : 1..8, base : Byte, result : Byte]] ==
          IF v.bit = 8 THEN v.result
          ELSE loop[[bit |-> v.bit + 1, base |-> Mul(v.base, v.base),
                     result |-> Mul(v.result, v.base)]]
    IN  loop[[bit |-> 1, base |-> Mul(x, x), result |-> One]]

\* gf256_poly_eval: the coefficients from the constant term on.
PolyEval(coeffs, x) ==
    LET n == Len(coeffs)
        loop[v \in [i : 1..(n + 1), power : Byte, result : Byte]] ==
          IF v.i > n THEN v.result
          ELSE loop[[i |-> v.i + 1, power |-> Mul(v.power, x),
                     result |-> Xor(v.result, Mul(coeffs[v.i], v.power))]]
    IN  loop[[i |-> 1, power |-> One, result |-> Zero]]

\* gf256_lagrange_interpolate_zero over a sequence of points; it inverts zero,
\* and panics, where two of them have the same x.
LagrangePanics(points) ==
    \E i, j \in DOMAIN points : i # j /\ points[i].x = points[j].x

\* The product of the values other than the i-th.
ProductButOne(values, i) ==
    LET n == Len(values)
        loop[v \in [j : 1..(n + 1), result : Byte]] ==
          IF v.j > n THEN v.result
          ELSE loop[[j |-> v.j + 1,
                     result |-> IF v.j = i THEN v.result ELSE Mul(v.result, values[v.j])]]
    IN  loop[[j |-> 1, result |-> One]]

LagrangeAtZero(points) ==
    LET n == Len(points)
        coefficient(i) ==
          Mul(ProductButOne([j \in 1..n |-> points[j].x], i),
              Inv256(ProductButOne([j \in 1..n |-> Xor(points[i].x, points[j].x)], i)))
        loop[v \in [i : 1..(n + 1), result : Byte]] ==
          IF v.i > n THEN v.result
          ELSE loop[[i |-> v.i + 1,
                     result |-> Xor(v.result, Mul(points[v.i].y, coefficient(v.i)))]]
    IN  loop[[i |-> 1, result |-> Zero]]

\* split_secret: the shares, for any coefficients but the constant one.
Split(seed, config) ==
    { [id \in 1..config.total |-> PolyEval(<<seed>> \o random, X(id))] :
        random \in [1..(config.threshold - 1) -> Coefficients] }

\* reconstruct_secret, of shares as ids and data.
Points(shares) == [i \in DOMAIN shares |-> [x |-> X(shares[i].id), y |-> shares[i].data]]
Reconstruct(shares) == LagrangeAtZero(Points(shares))

\* Sequences of at least low and at most MaxQuorum elements of S.
UpToQuorum(S, low) == UNION {[1..n -> S] : n \in low..MaxQuorum}

Shares(ids) ==
    [i \in DOMAIN ids |-> [id |-> ids[i], data |-> manager.shares[ids[i]]]]

\* filter_map: the ids the manager has a share of, in the order given.
Known(ids) ==
    LET known == {i \in DOMAIN ids : ids[i] \in DOMAIN manager.shares}
        before(i) == {j \in known : j < i}
    IN  [k \in 1..Cardinality(known) |->
            ids[CHOOSE i \in known : Cardinality(before(i)) = k - 1]]

\* What comes of the given shares: their seed, or the panic of the inversion.
Combined(kind, shares) ==
    IF LagrangePanics(Points(shares)) THEN [kind |-> "panicked"]
    ELSE [kind |-> kind, from |-> Range(shares), seed |-> Reconstruct(shares)]

----------------------------------------------------------------------------
ThresholdInit ==
    /\ manager = [seed |-> Zero, shares |-> <<>>, threshold |-> 0]
    /\ handedOut = <<>>
    /\ outcome = [kind |-> "none"]

\* generate_recovery_codes, and what parse_recovery_code makes of them again.
Codes(shares) == {[id |-> id, data |-> shares[id]] : id \in DOMAIN shares}

\* The manager of a seed, its shares split anew and their codes handed out.
Install(seed, config) ==
    /\ Len(handedOut) < MaxGenerations
    /\ \E shares \in Split(seed, config) :
        /\ manager' = [seed |-> seed, shares |-> shares, threshold |-> config.threshold]
        /\ handedOut' = Append(handedOut,
             [seed |-> seed, threshold |-> config.threshold,
              codes |-> Codes(shares)])

NewManager ==
    \E seed \in Seeds, config \in SharingConfigs :
        /\ Install(seed, config)
        /\ outcome' = [kind |-> "none"]

\* Signing leaves the manager as it was: what can follow it can come instead.
Ready == handedOut # <<>> /\ outcome.kind \in {"none", "recovered"}

\* Mutant of SignWithQuorum: the ids are counted before the unknown ones go.
SignWithQuorum_CountsUnknown(ids) ==
    /\ Ready
    /\ outcome' = IF Len(ids) < manager.threshold \/ Known(ids) = <<>>
                  THEN [kind |-> "refused"]
                  ELSE Combined("signed", Shares(Known(ids)))
    /\ UNCHANGED <<manager, handedOut>>

\* sign_with_quorum.  Ids are counted as given, and again once the unknown ones
\* are gone; a signature tells the seed it was made with.
SignWithQuorum(ids) ==
    /\ Ready
    /\ outcome' = IF Len(ids) < manager.threshold \/ Len(Known(ids)) < manager.threshold
                  THEN [kind |-> "refused"]
                  ELSE Combined("signed", Shares(Known(ids)))
    /\ UNCHANGED <<manager, handedOut>>

\* distributed_sign: the parties hold the shares of one split, and whoever takes
\* part is enough.
DistributedSign(ids) ==
    /\ Ready
    /\ Range(ids) \subseteq DOMAIN manager.shares
    /\ outcome' = Combined("distributed", Shares(ids))
    /\ UNCHANGED <<manager, handedOut>>

\* recover_from_codes, of codes of any manager: the seed is what comes out of
\* them, however few there are, and the new manager splits it again.
RecoverFromCodes(given, config) ==
    LET recovered == Combined("recovered", given) IN
    /\ Ready
    /\ outcome' = recovered
    /\ IF recovered.kind = "panicked" THEN UNCHANGED <<manager, handedOut>>
       ELSE Install(recovered.seed, config)

ThresholdNext ==
    \/ NewManager
    \/ \E ids \in UpToQuorum(ShareIds, 0) : SignWithQuorum(ids)
    \/ \E ids \in UpToQuorum(ShareIds, 1) : DistributedSign(ids)
    \/ \E given \in UpToQuorum(UNION {g.codes : g \in Range(handedOut)}, 1),
         config \in SharingConfigs : RecoverFromCodes(given, config)

ThresholdSpec == ThresholdInit /\ [][ThresholdNext]_thresholdVars

----------------------------------------------------------------------------
\* Enough different shares of one split give back the seed that was split, in
\* whatever order and however many more there are, for signing and for recovery
\* alike; and a quorum the manager signs with is always enough, so that each of
\* its signatures verifies under its public key (threshold.rs 138-201, 414-453,
\* 462-499).
EnoughSharesAreTheSeed ==
    /\ \A g \in Range(handedOut) :
          outcome.kind \in {"signed", "distributed", "recovered"} =>
            (outcome.from \subseteq g.codes /\ Cardinality(outcome.from) >= g.threshold
                => outcome.seed = g.seed)
    /\ outcome.kind = "signed" => outcome.seed = manager.seed
=============================================================================
