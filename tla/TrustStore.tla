------------------------------ MODULE TrustStore ------------------------------
(***************************************************************************)
(* Certificate chains and the trust store (pqc-tls/src/cert_chain.rs): the *)
(* functions that create certificates, the store's roots, revocations and  *)
(* pins, and the validation of a chain, leaf first, root last.             *)
(*                                                                         *)
(* Certificates are numbered in the order they are created; the number     *)
(* stands for the fresh key pair, the key's digest and the fresh serial.   *)
(* A signature is the key that made it and what was signed.                *)
(*                                                                         *)
(* The fingerprint is a field of its own.  It is not among the signed      *)
(* bytes and is never computed again from the key, so a chain is presented *)
(* as certificates each with the fingerprint it states of itself, its own  *)
(* digest or another's.  A change to a signed field makes the signature    *)
(* fail; such chains are left out.                                         *)
(***************************************************************************)
EXTENDS Naturals, Sequences, FiniteSets, SequencesExt

CONSTANTS
    Subjects,    \* subject names: two certificates may share one
    Algorithm,   \* Algorithm[c]: the algorithm asked for with certificate c
    Validities,  \* lengths of validity
    Day,         \* 86400 seconds
    WarningDays, \* expiry_warning_days
    Copied,      \* the certificates whose fingerprint another may state
    MaxCerts,    \* bound on the certificates created
    MaxIssue,    \* bound on the clock when they are created
    MaxStored,   \* bound on the roots, revocations and pins together
    MaxNow       \* bound on the clock

ASSUME TrustStoreAssumption ==
    /\ MaxCerts \in Nat /\ MaxIssue \in Nat /\ MaxStored \in Nat /\ MaxNow \in Nat
    /\ WarningDays \in Nat
    /\ Day \in Nat \ {0} /\ Validities \subseteq Nat /\ DOMAIN Algorithm = 1..MaxCerts

VARIABLES
    certs,         \* the certificates created, by number
    parent,        \* the certificate whose private key signed each (history)
    trustedRoots,  \* the fingerprints in trusted_roots
    revoked,       \* revoked_serials
    pins,          \* pinned_fingerprints: the pinned [subject, fingerprint]
    now            \* current_unix_timestamp()

storeVars == <<certs, parent, trustedRoots, revoked, pins, now>>

\* A certificate as it is presented, with the fingerprint it states of itself.
StatedCertificates ==
    {p \in [cert : DOMAIN certs, fingerprint : DOMAIN certs] :
        p.fingerprint \in {p.cert} \cup Copied}

\* Chains of the certificates there are, up to as many as there are.
Chains == UNION {[1..n -> StatedCertificates] : n \in 1..Len(certs)}

----------------------------------------------------------------------------
Tbs(c) == [subject |-> certs[c].subject, issuer |-> certs[c].issuer,
           notBefore |-> certs[c].notBefore, notAfter |-> certs[c].notAfter,
           key |-> c, isCa |-> certs[c].isCa, serial |-> c]

\* verify_signature: with another algorithm than the key's it fails as well.
VerifySignature(algorithm, key, tbs, sig) ==
    algorithm = Algorithm[key] /\ sig = [key |-> key, tbs |-> tbs]

IsSelfSigned(c) == certs[c].subject = certs[c].issuer

DaysUntilExpiry(c) ==
    IF now >= certs[c].notAfter THEN 0 ELSE (certs[c].notAfter - now) \div Day

\* Mutant of ExpiryWarning: strictly fewer days.
ExpiryWarning_Strict(c) ==
    IF DaysUntilExpiry(c) = 0 THEN "expired"
    ELSE IF DaysUntilExpiry(c) < WarningDays THEN "expires soon" ELSE "none"

ExpiryWarning(c) ==
    IF DaysUntilExpiry(c) = 0 THEN "expired"
    ELSE IF DaysUntilExpiry(c) <= WarningDays THEN "expires soon" ELSE "none"

PinnedFor(subject) == {p \in pins : p.subject = subject}

\* The errors about one presented certificate, and those about it and its issuer.
CertificateErrors(p) ==
    LET cert == certs[p.cert] IN
    (IF now < cert.notBefore THEN {"NotYetValid"} ELSE {})
    \cup (IF now > cert.notAfter THEN {"Expired"} ELSE {})
    \cup (IF p.cert \in revoked THEN {"Revoked"} ELSE {})
    \cup (IF PinnedFor(cert.subject) # {}
             /\ [subject |-> cert.subject, fingerprint |-> p.fingerprint] \notin pins
          THEN {"PinningViolation"} ELSE {})

\* Mutant of LinkErrors: the names are compared, the signature is not verified.
LinkErrors_NamesOnly(c, issuer) ==
    (IF certs[c].issuer # certs[issuer].subject THEN {"ChainBroken"} ELSE {})
    \cup (IF ~certs[issuer].isCa THEN {"NonCaSignedChild"} ELSE {})

LinkErrors(c, issuer) ==
    (IF certs[c].issuer # certs[issuer].subject THEN {"ChainBroken"} ELSE {})
    \cup (IF ~certs[issuer].isCa THEN {"NonCaSignedChild"} ELSE {})
    \cup (IF ~VerifySignature(certs[c].issuerAlgorithm, issuer, Tbs(c), certs[c].signature)
          THEN {"SignatureVerificationFailed"} ELSE {})

\* A root that is not self-signed has its signature verified by nobody.
RootErrors(root) ==
    (IF IsSelfSigned(root.cert)
        /\ ~VerifySignature(certs[root.cert].issuerAlgorithm, root.cert, Tbs(root.cert),
                            certs[root.cert].signature)
     THEN {"SignatureVerificationFailed"} ELSE {})
    \cup (IF root.fingerprint \notin trustedRoots THEN {"UntrustedRoot"} ELSE {})

\* validate_chain: every error is collected, whatever was found before it.
Errors(chain) ==
    (UNION {CertificateErrors(chain[i]) : i \in DOMAIN chain})
    \cup (UNION {LinkErrors(chain[i].cert, chain[i + 1].cert) : i \in 1..(Len(chain) - 1)})
    \cup RootErrors(Last(chain))

Valid(chain) == chain # <<>> /\ Errors(chain) = {}

----------------------------------------------------------------------------
StoreInit ==
    /\ certs = <<>> /\ parent = <<>>
    /\ trustedRoots = {} /\ revoked = {} /\ pins = {}
    /\ now = 0

\* generate_keypair: the number the next key pair is known by.
NextCert == Len(certs) + 1

\* The certificate with the next number, signed by issuer, which may be itself.
Create(subject, issuer, issuerSubject, from, to, isCa) ==
    LET c == NextCert
        tbs == [subject |-> subject, issuer |-> issuerSubject, notBefore |-> from,
                notAfter |-> to, key |-> c, isCa |-> isCa, serial |-> c]
    IN  /\ c <= MaxCerts /\ now <= MaxIssue
        /\ certs' = Append(certs,
             [subject |-> subject, issuer |-> issuerSubject, notBefore |-> from,
              notAfter |-> to, isCa |-> isCa, issuerAlgorithm |-> Algorithm[issuer],
              signature |-> [key |-> issuer, tbs |-> tbs]])
        /\ parent' = Append(parent, issuer)
        /\ UNCHANGED <<trustedRoots, revoked, pins, now>>

CreateRootCa ==
    \E subject \in Subjects, v \in Validities :
        Create(subject, NextCert, subject, now, now + v, TRUE)

\* create_signed_cert and, with a start in the future, create_cert_with_timing.
\* Nothing asks whether the issuer is a CA.
CreateSignedCert ==
    \E subject \in Subjects, issuer \in DOMAIN certs, from \in {now, now + 1},
       v \in Validities, isCa \in BOOLEAN :
        Create(subject, issuer, certs[issuer].subject, from, from + v, isCa)

Entries == Cardinality(trustedRoots) + Cardinality(revoked) + Cardinality(pins)

AddTrustedRoot ==
    /\ Entries < MaxStored
    /\ \E c \in DOMAIN certs : trustedRoots' = trustedRoots \cup {c}
    /\ UNCHANGED <<certs, parent, revoked, pins, now>>

RemoveTrustedRoot ==
    /\ \E c \in trustedRoots : trustedRoots' = trustedRoots \ {c}
    /\ UNCHANGED <<certs, parent, revoked, pins, now>>

RevokeCertificate ==
    /\ Entries < MaxStored
    /\ \E c \in DOMAIN certs : revoked' = revoked \cup {c}
    /\ UNCHANGED <<certs, parent, trustedRoots, pins, now>>

UnrevokeCertificate ==
    /\ \E c \in revoked : revoked' = revoked \ {c}
    /\ UNCHANGED <<certs, parent, trustedRoots, pins, now>>

PinCertificate ==
    /\ Entries < MaxStored
    /\ \E s \in Subjects, c \in DOMAIN certs :
         pins' = pins \cup {[subject |-> s, fingerprint |-> c]}
    /\ UNCHANGED <<certs, parent, trustedRoots, revoked, now>>

UnpinCertificate ==
    /\ \E p \in pins : pins' = pins \ {p}
    /\ UNCHANGED <<certs, parent, trustedRoots, revoked, now>>

StoreTick ==
    /\ now < MaxNow
    /\ now' = now + 1
    /\ UNCHANGED <<certs, parent, trustedRoots, revoked, pins>>

StoreNext ==
    \/ CreateRootCa \/ CreateSignedCert
    \/ AddTrustedRoot \/ RemoveTrustedRoot
    \/ RevokeCertificate \/ UnrevokeCertificate
    \/ PinCertificate \/ UnpinCertificate
    \/ StoreTick

StoreSpec == StoreInit /\ [][StoreNext]_storeVars

----------------------------------------------------------------------------
\* A valid chain is the way the leaf was really issued, though only names,
\* signatures and flags are looked at: each certificate was signed with the
\* private key of the next one, all of which are CAs, and each is in time,
\* unrevoked and, where its subject is pinned at all, states a pinned fingerprint.
\* Two CAs of one name are never taken for each other.  What ties the chain to the
\* trust store is the last certificate's stated fingerprint alone: its key may be
\* another than the trusted root's (cert_chain.rs 278-419, 64, 72-84).
ValidIsIssued ==
    \A chain \in Chains :
        Valid(chain) <=>
            /\ Last(chain).fingerprint \in trustedRoots
            /\ \A i \in 1..(Len(chain) - 1) :
                 /\ parent[chain[i].cert] = chain[i + 1].cert
                 /\ certs[chain[i + 1].cert].isCa
            /\ IsSelfSigned(Last(chain).cert) => parent[Last(chain).cert] = Last(chain).cert
            /\ \A p \in {chain[i] : i \in DOMAIN chain} :
                 /\ certs[p.cert].notBefore <= now /\ now <= certs[p.cert].notAfter
                 /\ p.cert \notin revoked
                 /\ (\E q \in pins : q.subject = certs[p.cert].subject) =>
                      [subject |-> certs[p.cert].subject, fingerprint |-> p.fingerprint] \in pins

\* What the whole days of a warning amount to: a certificate nobody is warned
\* about is good for expiry_warning_days and another day, whenever a chain is
\* refused for it as expired it was called so, and it is called so for less than
\* the last day of its life, not only afterwards (cert_chain.rs 97-104, 257-272).
WarnedInTime ==
    \A c \in DOMAIN certs :
        /\ ExpiryWarning(c) = "none" => certs[c].notAfter >= now + (WarningDays + 1) * Day
        /\ now > certs[c].notAfter => ExpiryWarning(c) = "expired"
        /\ ExpiryWarning(c) = "expired" => certs[c].notAfter < now + Day
=============================================================================
