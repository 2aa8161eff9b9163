----------------------------- MODULE EdgeLayers -----------------------------
(***************************************************************************)
(* What a request meets before and after the proxy handler: the JWT check  *)
(* (jwt_auth.rs), the check of a signed request body (body_integrity.rs)   *)
(* and the signing of the answer by two key managers in turn               *)
(* (signature.rs, body_integrity.rs, proxy.rs).  The keys are those of     *)
(* VersionedKeys; rotations, and time, come in between.                    *)
(*                                                                         *)
(* A token slot stands for one presentation of a signature, so one call at *)
(* a time uses it.  A body and its SHA-256 digest are the same here; a     *)
(* signature of a body is the key that made it.                            *)
(***************************************************************************)
EXTENDS VersionedKeys

CONSTANTS
    Call,            \* slots for requests under way
    IntegrityLayer,  \* whether body_integrity_middleware is layered in
    EnvModes,        \* values of PQC_SIGNATURE_MODE: None, a mode or "other"
    RouteModes,      \* signature_mode of a route: None or a mode
    DefaultMode,     \* signatures.default_mode
    Theirs           \* a header value that is not of the gateway's making

Modes == {"classical", "hybrid", "mldsa-only"}

\* A signature of the answer's body.
Signature == [key : Nat, of : {"answer"}]

ASSUME EdgeAssumption ==
    /\ IntegrityLayer \in BOOLEAN
    /\ DefaultMode \in Modes
    /\ RouteModes \subseteq Modes \cup {None}
    /\ None \notin Signature \cup Token
    /\ Theirs \notin Signature \cup Nat \cup {None, "answer"}

VARIABLES
    call  \* call[c]: the request in slot c

edgeVars == <<vars, call>>

\* The x-pqc headers of an answer, and those an upstream may send with its own: it
\* may be a gateway itself, or pass on an older answer.
Headers ==
    [signature : Signature \cup {None, Theirs}, classical : Signature \cup {None, Theirs},
     algorithm : {None, Theirs, "ecdsa-p256+ml-dsa-65", "ml-dsa-65", "ML-DSA-65"},
     digest : {None, Theirs, "answer"}, fingerprint : Nat \cup {None, Theirs},
     keyId : Nat \cup {None, Theirs}]

UpstreamHeaders ==
    [signature : {None, Theirs}, classical : {None, Theirs}, algorithm : {None, Theirs},
     digest : {None, Theirs}, fingerprint : {None, Theirs}, keyId : {None, Theirs}]

Stage == {"none", "presented", "signed", "authorized", "forwarded", "answered"}
Status == {None, 200, 400, 401}
Digest == {"none", "right", "wrong"}  \* what the digest header says of the body

CallRecord ==
    [stage : Stage, slot : Token \cup {None}, body : {"none", "whole", "empty"},
     digest : Digest, status : Status,
     mode : Modes \cup {None}, headers : Headers \cup {None}, age : Nat]

\* slot is the signature that is looked at, status what the client was told, and
\* age counts the rotations since the answer was signed.
Idle ==
    [stage |-> "none", slot |-> None, body |-> "none",
     digest |-> "none", status |-> None, mode |-> None, headers |-> None, age |-> 0]

\* What becomes of a call r on its way.
Presents(r, t) == [r EXCEPT !.stage = "presented", !.slot = t]
Authentic(r) == [r EXCEPT !.stage = "signed"]
Authorized(r) == [r EXCEPT !.stage = "authorized", !.slot = None]
Brings(r, t, digest) == [r EXCEPT !.slot = t, !.digest = digest]
Forwarded(r, body) == [r EXCEPT !.stage = "forwarded", !.slot = None, !.body = body]
Answered(r, status) == [r EXCEPT !.stage = "answered", !.status = status]
Signed(r, mode, h) == [r EXCEPT !.mode = mode, !.headers = h]

Becomes(c, r) == call' = [call EXCEPT ![c] = r]

\* jwks: the keys anyone can verify with.
Published == held

\* No other call looks at the signature in slot t.
Unused(t) == \A c \in Call : call[c].slot # t

----------------------------------------------------------------------------
\* SignatureMode::resolve: a value that is no mode is passed over.
Resolve(env, route) ==
    IF env \in Modes THEN env ELSE IF route # None THEN route ELSE DefaultMode

\* The key pair of the SignatureKeyManager never changes; it is no version.
FixedKey == 0

\* SignatureKeyManager::sign and the headers made of it, put among those in h.
WithMode(mode, body, h) ==
    LET sig == [key |-> FixedKey, of |-> body] IN
    IF mode = "classical" THEN h
    ELSE [h EXCEPT
            !.signature = sig, !.digest = body, !.fingerprint = FixedKey,
            !.algorithm = IF mode = "hybrid" THEN "ecdsa-p256+ml-dsa-65" ELSE "ml-dsa-65",
            !.classical = IF mode = "hybrid" THEN sig ELSE @]

\* sign_response_body: it overwrites what the other manager wrote under the same
\* names, and leaves the rest.
WithCurrentKey(body, h) ==
    IF current \notin held THEN h
    ELSE [h EXCEPT !.signature = [key |-> current, of |-> body],
                   !.algorithm = "ML-DSA-65", !.digest = body, !.keyId = current]

\* Mutant of SignatureHeaders: the managers sign in the other order.
SignatureHeaders_Swapped(mode, body, own) == WithMode(mode, body, WithCurrentKey(body, own))

\* proxy_handler: first the manager of the mode, then the versioned keys.  Neither
\* takes anything out of what the upstream sent, its own headers.
SignatureHeaders(mode, body, own) == WithCurrentKey(body, WithMode(mode, body, own))

----------------------------------------------------------------------------
EdgeInit == Init /\ call = [c \in Call |-> Idle]

\* jwt_auth_middleware, up to verify_jwt.
Arrive(c) ==
    \E public \in BOOLEAN, t \in Token \cup {None} :
        /\ call[c].stage = "none"
        /\ t # None => token[t].phase = "issued" /\ token[t].life # None /\ Unused(t)
        /\ \/ public /\ Becomes(c, Authorized(Idle))
           \/ ~public /\ t = None /\ Becomes(c, Answered(Idle, 401))
           \/ ~public /\ t # None /\ Becomes(c, Presents(Idle, t))
        /\ UNCHANGED vars

\* verify_jwt: the signature, then the clock.
AuthSignature(c) ==
    LET t == call[c].slot IN
    /\ call[c].stage = "presented"
    /\ CheckSignature(t)
    /\ Becomes(c, IF token'[t].phase = "checked" THEN Authentic(call[c])
                  ELSE Answered(call[c], 401))

AuthExpiry(c) ==
    LET t == call[c].slot IN
    /\ call[c].stage = "signed"
    /\ CheckExpiry(t)
    /\ Becomes(c, IF token'[t].verdict = "accepted" THEN Authorized(call[c])
                  ELSE Answered(call[c], 401))

\* body_integrity_middleware: without integrity headers nothing is looked at; a
\* body that cannot be read goes on as an empty one; the digest comes first.
CheckBody(c) ==
    \E digest \in Digest, t \in Token \cup {None}, readable \in BOOLEAN :
        /\ call[c].stage = "authorized"
        /\ t # None => token[t].phase = "issued" /\ token[t].life = None /\ Unused(t)
        /\ t # None \/ digest # "none" => IntegrityLayer
        /\ LET r == Brings(call[c], t, digest) IN
           \/ /\ t # None /\ readable /\ digest # "wrong"
              /\ CheckSignature(t)
              /\ Becomes(c, IF token'[t].verdict = "refused" THEN Answered(r, 400)
                            ELSE Forwarded(r, "whole"))
           \/ /\ readable /\ digest = "wrong"
              /\ Becomes(c, Answered(r, 400))
              /\ UNCHANGED vars
           \/ /\ ~readable /\ (t # None \/ digest # "none")
              /\ Becomes(c, Forwarded(r, "empty"))
              /\ UNCHANGED vars
           \/ /\ t = None /\ (digest = "none" \/ (readable /\ digest = "right"))
              /\ Becomes(c, Forwarded(r, "whole"))
              /\ UNCHANGED vars

\* The upstream has answered, with headers of its own: those of the signed answer.
SignAnswer(c) ==
    \E env \in EnvModes, route \in RouteModes, own \in UpstreamHeaders :
        /\ call[c].stage = "forwarded"
        /\ LET mode == Resolve(env, route) IN
           Becomes(c, Signed(Answered(call[c], 200), mode,
                             SignatureHeaders(mode, "answer", own)))
        /\ UNCHANGED vars

\* The client has its answer.
Leave(c) ==
    /\ call[c].stage = "answered"
    /\ Becomes(c, Idle)
    /\ UNCHANGED vars

\* The keys and the signatures move on meanwhile.
RotateMeanwhile ==
    /\ Rotate
    /\ call' = [c \in Call |->
                  IF call[c].headers = None THEN call[c] ELSE [call[c] EXCEPT !.age = @ + 1]]

\* A client asks for a token, or the gateway signs a body elsewhere.
MakeSignature == \E t \in Token : (NameKey(t) \/ SignToken(t) \/ SignBody(t)) /\ UNCHANGED call
ThrowAway == \E t \in Token : Unused(t) /\ Discard(t) /\ UNCHANGED call
Second == Tick /\ UNCHANGED call

EdgeNext ==
    \/ RotateMeanwhile
    \/ MakeSignature
    \/ ThrowAway
    \/ Second
    \/ \E c \in Call : Arrive(c)
    \/ \E c \in Call : AuthSignature(c)
    \/ \E c \in Call : AuthExpiry(c)
    \/ \E c \in Call : CheckBody(c)
    \/ \E c \in Call : SignAnswer(c)
    \/ \E c \in Call : Leave(c)

EdgeSpec == EdgeInit /\ [][EdgeNext]_edgeVars

----------------------------------------------------------------------------
EdgeTypeOK == call \in [Call -> CallRecord]

\* A call is refused for a reason: it brought no token, its digest was wrong, its
\* token has expired, or the key its signature names did not make it or has been
\* superseded more than max_retained_keys times.  No rotation that runs while the
\* call is checked costs a good token its call (jwt_auth.rs 224-266,
\* body_integrity.rs 58-141).
CallRefusalsExplained ==
    \A c \in Call :
        call[c].status \in {400, 401} =>
            LET t == call[c].slot IN
            \/ call[c].digest = "wrong"
            \/ t = None /\ call[c].status = 401
            \/ t # None /\ \/ token[t].life = 0
                           \/ token[t].kid # token[t].signer
                           \/ current - token[t].kid > MaxRetained

\* The signature headers of an answer belong together though two managers write
\* them among those the upstream may have sent: the signature and the digest are of
\* the body sent, the signature is by the key the key id names, and that key is
\* published, for as long as no more than max_retained_keys rotations follow
\* (proxy.rs 469-520).  A classical signature is the gateway's own in hybrid mode and
\* only there, a fingerprint in every mode but classical; what stands in their place
\* otherwise is the upstream's, passed through.
AnswerVerifies ==
    \A c \in Call :
        LET h == call[c].headers IN
        h # None =>
            /\ h.signature = [key |-> h.keyId, of |-> "answer"]
            /\ h.digest = "answer"
            /\ call[c].age <= MaxRetained => h.keyId \in Published
            /\ h.classical \in {None, Theirs} <=> call[c].mode # "hybrid"
            /\ h.fingerprint \in {None, Theirs} <=> call[c].mode = "classical"
=============================================================================
