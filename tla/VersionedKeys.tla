---------------------------- MODULE VersionedKeys ----------------------------
(***************************************************************************)
(* The versioned ML-DSA signing keys (pqc-tls/src/versioned_keys.rs) and   *)
(* what is signed with them: the JWTs of /auth/token (jwt_auth.rs) and the *)
(* signed response bodies (body_integrity.rs).  Each method of the manager *)
(* takes the lock once, so it is one step; create_jwt takes it twice and   *)
(* verify_jwt looks at the keys and then at the clock, so a rotation by    *)
(* /auth/rotate-keys, or time, may come in between.                        *)
(*                                                                         *)
(* A key id is "mldsa-v<version>-<fingerprint>" and a version is given out *)
(* once: a key, its id and its version are one number here.                *)
(***************************************************************************)
EXTENDS Integers, FiniteSets

CONSTANTS
    MaxRetained,    \* max_retained_keys
    WithThreshold,  \* whether the manager was built by with_threshold
    Token,          \* slots for signatures under way or in the hands of clients
    Ttl,            \* ttl_seconds of create_jwt
    MaxVersion,     \* bound on the versions given out
    None            \* Option::None

ASSUME KeysAssumption ==
    /\ MaxRetained \in Nat
    /\ WithThreshold \in BOOLEAN
    /\ Ttl \in Nat
    /\ MaxVersion \in Nat \ {0}
    /\ None \notin Int

VARIABLES
    held,     \* the versions in `keys`
    active,   \* those of them whose `active` flag is set
    current,  \* current_kid
    next,     \* next_version
    shares,   \* the key `current_shares` and `recovery_codes` were split from
    token     \* token[t]: what slot t holds

keyVars == <<held, active, current, next, shares>>
vars == <<keyVars, token>>

----------------------------------------------------------------------------
\* kid is the key id written into the signed data and signer the key that signed
\* it.  life counts down the seconds in which a JWT is not expired
\* (exp + 1 - now); a body signature carries no time.
Slot ==
    [phase : {"free", "named", "issued", "checked"},
     kid : 1..MaxVersion \cup {None}, signer : 1..MaxVersion \cup {None},
     life : 0..(Ttl + 1) \cup {None},
     verdict : {"none", "accepted", "refused", "expired"}]

FreeSlot ==
    [phase |-> "free", kid |-> None, signer |-> None, life |-> None, verdict |-> "none"]

\* Mutant of Pruned: the versions are not sorted oldest first.
Pruned_NewestFirst(ks, cur) ==
    {v \in ks : v = cur \/ Cardinality({w \in ks \ {cur} : w < v}) < MaxRetained}

\* Mutant of Pruned: the current key counts against the limit.
Pruned_CountsCurrent(ks, cur) ==
    {v \in ks : v = cur \/ Cardinality({w \in ks : w > v}) < MaxRetained}

\* Pruning removes the oldest keys other than the current one until
\* max_retained_keys of them are left.
Pruned(ks, cur) ==
    {v \in ks : v = cur \/ Cardinality({w \in ks \ {cur} : w > v}) < MaxRetained}

\* Mutant of Verifies: an unknown key id is tried against every key.
Verifies_AnyKey(s) == IF s.kid \in held THEN s.signer = s.kid ELSE s.signer \in held

\* verify_by_kid; a signature verifies under the key that made it and no other.
Verifies(s) == s.kid \in held /\ s.signer = s.kid

----------------------------------------------------------------------------
Init ==
    /\ held = {1}
    /\ active = {1}
    /\ current = 1
    /\ next = 2
    /\ shares = IF WithThreshold THEN 1 ELSE None
    /\ token = [t \in Token |-> FreeSlot]

\* Mutant of Rotate: the old key is not deactivated.
Rotate_StaysActive ==
    /\ next <= MaxVersion
    /\ next' = next + 1
    /\ current' = next
    /\ held' = Pruned(held \cup {next}, next)
    /\ active' = (active \cup {next}) \cap held'
    /\ shares' = IF WithThreshold THEN next ELSE shares
    /\ UNCHANGED token

\* POST /auth/rotate-keys: all of it under the write lock.
Rotate ==
    /\ next <= MaxVersion
    /\ next' = next + 1
    /\ current' = next
    /\ held' = Pruned(held \cup {next}, next)
    /\ active' = ((active \ {current}) \cup {next}) \cap held'
    /\ shares' = IF WithThreshold THEN next ELSE shares
    /\ UNCHANGED token

\* create_jwt reads the clock and the current key id into header and claims.
NameKey(t) ==
    /\ token[t].phase = "free"
    /\ token' = [token EXCEPT ![t] =
                    [FreeSlot EXCEPT !.phase = "named", !.kid = current, !.life = Ttl + 1]]
    /\ UNCHANGED keyVars

\* create_jwt signs with the key that is current by then; it returns no token
\* when that key is not in the map.
SignToken(t) ==
    /\ token[t].phase = "named"
    /\ token' = [token EXCEPT ![t] =
                    IF current \in held THEN [@ EXCEPT !.phase = "issued", !.signer = current]
                    ELSE FreeSlot]
    /\ UNCHANGED keyVars

\* sign_response_body takes key id and signature from one call of sign_current.
SignBody(t) ==
    /\ token[t].phase = "free"
    /\ token' = [token EXCEPT ![t] =
                    IF current \in held
                    THEN [FreeSlot EXCEPT !.phase = "issued", !.kid = current, !.signer = current]
                    ELSE FreeSlot]
    /\ UNCHANGED keyVars

\* A signature is presented: verify_jwt, or verify_request_integrity for a body,
\* looks up the key it names.
CheckSignature(t) ==
    /\ token[t].phase = "issued"
    /\ token' = [token EXCEPT ![t] =
                    IF ~Verifies(token[t]) THEN [@ EXCEPT !.verdict = "refused"]
                    ELSE IF @.life = None THEN [@ EXCEPT !.verdict = "accepted"]
                    ELSE [@ EXCEPT !.phase = "checked"]]
    /\ UNCHANGED keyVars

\* Mutant of CheckExpiry: claims.exp <= now.
CheckExpiry_Early(t) ==
    /\ token[t].phase = "checked"
    /\ token' = [token EXCEPT
                    ![t].phase = "issued",
                    ![t].verdict = IF token[t].life <= 1 THEN "expired" ELSE "accepted"]
    /\ UNCHANGED keyVars

\* verify_jwt goes on to the clock.
CheckExpiry(t) ==
    /\ token[t].phase = "checked"
    /\ token' = [token EXCEPT
                    ![t].phase = "issued",
                    ![t].verdict = IF token[t].life = 0 THEN "expired" ELSE "accepted"]
    /\ UNCHANGED keyVars

\* The client throws it away.
Discard(t) ==
    /\ token[t].phase = "issued"
    /\ token' = [token EXCEPT ![t] = FreeSlot]
    /\ UNCHANGED keyVars

Tick ==
    /\ token' = [t \in Token |->
                    [token[t] EXCEPT !.life = IF @ \in {None, 0} THEN @ ELSE @ - 1]]
    /\ UNCHANGED keyVars

Next ==
    \/ Rotate
    \/ \E t \in Token : NameKey(t)
    \/ \E t \in Token : SignToken(t)
    \/ \E t \in Token : SignBody(t)
    \/ \E t \in Token : CheckSignature(t)
    \/ \E t \in Token : CheckExpiry(t)
    \/ \E t \in Token : Discard(t)
    \/ Tick

Spec == Init /\ [][Next]_vars

----------------------------------------------------------------------------
\* Every variable has its type, and a slot holds what its phase says.
TypeOK ==
    /\ held \subseteq 1..MaxVersion
    /\ active \subseteq held
    /\ current \in held
    /\ next = current + 1
    /\ shares \in held \cup {None}
    /\ token \in [Token -> Slot]
    /\ \A t \in Token : token[t].phase = "checked" => token[t].life # None

\* The map holds the current key and the max_retained_keys before it, no more
\* and no gaps, however many rotations there were (rotate, 171-222): /jwks
\* publishes exactly the keys whose signatures are still accepted.
KeyWindow == held = {v \in 1..current : current - v <= MaxRetained}

\* Whoever looks between two rotations sees one active key, the one that signs,
\* and the threshold shares and recovery codes are of that very key (179-200).
OneSigningKey ==
    /\ active = {current}
    /\ shares = IF WithThreshold THEN current ELSE None

\* A signature that was ever refused either names a key that did not make it, or
\* a key that more than max_retained_keys rotations have superseded: "the old
\* key remains for verification" (versioned_keys.rs:170) for that many of them.
RefusalsExplained ==
    \A t \in Token :
        token[t].verdict = "refused" =>
            \/ token[t].kid # token[t].signer
            \/ current - token[t].kid > MaxRetained

\* A signature refused once is never accepted later: no rotation brings a key
\* back or makes another key answer to its id (171-239).
RefusalIsFinal ==
    [][\A t \in Token :
         token[t].verdict = "refused" => token'[t].verdict # "accepted"]_vars

----------------------------------------------------------------------------
\* JwtClaims.kid is the "Key ID used for signing." (jwt_auth.rs:40).
KidIsSigningKey ==
    \A t \in Token : token[t].phase = "issued" => token[t].kid = token[t].signer
=============================================================================
