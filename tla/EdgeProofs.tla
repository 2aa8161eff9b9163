----------------------------- MODULE EdgeProofs -----------------------------
(***************************************************************************)
(* Proofs about VersionedKeys, for every retention limit, any number of    *)
(* signatures under way and any number of rotations, and about EdgeLayers, *)
(* for any number of calls as well.                                        *)
(***************************************************************************)
EXTENDS EdgeLayers, FiniteSetTheorems, TLAPS

----------------------------------------------------------------------------
\* The signing keys.

\* The last n versions up to c, where versions start at 1.
Window(c, n) == {v \in 1..c : c - v <= n}

\* Pruning after a rotation slides the window by one: the versions other than
\* the new one that are newer than v are exactly v+1 up to the old current one,
\* so counting them is subtracting (rotate, 204-219).
LEMMA PruningSlidesTheWindow ==
    ASSUME NEW c \in Nat \ {0}
    PROVE  Pruned(Window(c, MaxRetained) \cup {c + 1}, c + 1) = Window(c + 1, MaxRetained)
<1> DEFINE ks == Window(c, MaxRetained) \cup {c + 1}
<1> USE KeysAssumption
<1>1. ASSUME NEW v \in Window(c, MaxRetained)
      PROVE  Cardinality({w \in ks \ {c + 1} : w > v}) = c - v
  <2>1. v \in 1..c /\ c - v <= MaxRetained
    BY DEF Window
  <2>2. {w \in ks \ {c + 1} : w > v} = (v + 1)..c
    BY <2>1 DEF Window
  <2>3. Cardinality((v + 1)..c) = c - v
    <3>1. v + 1 \in Int /\ c \in Int
      BY <2>1
    <3>2. Cardinality((v + 1)..c) = IF v + 1 > c THEN 0 ELSE c - (v + 1) + 1
      BY <3>1, FS_Interval
    <3> QED BY <3>2, <2>1
  <2> QED BY <2>2, <2>3
<1>2. ASSUME NEW v \in Window(c, MaxRetained)
      PROVE  v \in Pruned(ks, c + 1) <=> v \in Window(c + 1, MaxRetained)
  <2>1. v \in 1..c /\ c - v <= MaxRetained
    BY DEF Window
  <2>2. v \in Pruned(ks, c + 1) <=> c - v < MaxRetained
    BY <1>1, <2>1 DEF Pruned
  <2> QED BY <2>1, <2>2 DEF Window
<1>3. c + 1 \in Pruned(ks, c + 1) /\ c + 1 \in Window(c + 1, MaxRetained)
  BY DEF Pruned, Window
<1>4. Pruned(ks, c + 1) \subseteq ks
  BY DEF Pruned
<1>5. Window(c + 1, MaxRetained) \subseteq ks
  BY DEF Window
<1>6. ASSUME NEW v \in ks
      PROVE  v \in Pruned(ks, c + 1) <=> v \in Window(c + 1, MaxRetained)
  BY <1>2, <1>3
<1>7. Pruned(ks, c + 1) = Window(c + 1, MaxRetained)
  <2> HIDE DEF ks
  <2> QED BY <1>4, <1>5, <1>6
<1> QED BY <1>7

----------------------------------------------------------------------------
\* The key ring is inductive without the signatures: nothing they do changes it.
RingInv ==
    /\ current \in 1..MaxVersion
    /\ next = current + 1
    /\ held = Window(current, MaxRetained)
    /\ OneSigningKey

LEMMA RingInit == Init => RingInv
<1> USE KeysAssumption
<1>1. Window(1, MaxRetained) = {1}
  BY DEF Window
<1> QED BY <1>1 DEF Init, RingInv, OneSigningKey

LEMMA RingStep == RingInv /\ [Next]_vars => RingInv'
<1> SUFFICES ASSUME RingInv, [Next]_vars
             PROVE  RingInv'
    OBVIOUS
<1> USE KeysAssumption
<1>1. CASE Rotate
  <2>1. held' = Window(current', MaxRetained)
    BY <1>1, PruningSlidesTheWindow DEF Rotate, RingInv
  <2>2. next = current + 1 /\ current' = next /\ next' = next + 1 /\ next <= MaxVersion
    BY <1>1 DEF Rotate, RingInv
  <2>3. current' \in held'
    BY <2>1, <2>2 DEF Window, RingInv
  <2>4. active' = {current'}
    BY <1>1, <2>2, <2>3 DEF Rotate, RingInv, OneSigningKey
  <2>5. shares' = IF WithThreshold THEN current' ELSE None
    BY <1>1 DEF Rotate, RingInv, OneSigningKey
  <2> QED BY <2>1, <2>2, <2>4, <2>5 DEF RingInv, OneSigningKey
<1>2. CASE UNCHANGED keyVars
  BY <1>2 DEF RingInv, OneSigningKey, keyVars
<1> QED
  BY <1>1, <1>2 DEF Next, NameKey, SignToken, SignBody, CheckSignature, CheckExpiry,
                    Discard, Tick, vars

\* RingInv holds in every reachable state.
THEOREM RingInvariant == Spec => []RingInv
<1> QED BY RingInit, RingStep, PTL DEF Spec

\* The map always holds the current key and the MaxRetained before it
\* (versioned_keys.rs 171-222).
THEOREM HeldIsAWindow == Spec => []KeyWindow
<1>1. RingInv => KeyWindow
  BY DEF RingInv, KeyWindow, Window
<1> QED BY <1>1, RingInvariant, PTL

\* There is one active key, it is the current one and the shares are of it.
THEOREM SigningKeyIsUnique == Spec => []OneSigningKey
<1>1. RingInv => OneSigningKey
  BY DEF RingInv
<1> QED BY <1>1, RingInvariant, PTL

----------------------------------------------------------------------------
\* What is true of a single slot while the current key is c.  A refusal is kept
\* together with its reason, which rotations can only strengthen.
SlotInv(s, c) ==
    /\ s \in Slot
    /\ s.phase # "free" => s.kid \in 1..c
    /\ s.phase = "checked" => s.life # None
    /\ s.verdict = "refused" =>
          /\ s.phase = "issued"
          /\ s.kid # s.signer \/ c - s.kid > MaxRetained

TokenInv ==
    /\ token \in [Token -> Slot]
    /\ \A t \in Token : SlotInv(token[t], current)

LEMMA FreeSlotInv == ASSUME NEW c PROVE SlotInv(FreeSlot, c)
BY KeysAssumption DEF SlotInv, Slot, FreeSlot

\* A step that replaces one slot by a good one, or none, keeps TokenInv.
LEMMA OneSlotChanges ==
    ASSUME TokenInv, UNCHANGED current,
           NEW t \in Token, NEW s, SlotInv(s, current),
           token' = [token EXCEPT ![t] = s]
    PROVE  TokenInv'
<1>1. s \in Slot
  BY DEF SlotInv
<1>2. token' \in [Token -> Slot]
  BY <1>1 DEF TokenInv
<1>3. ASSUME NEW u \in Token
      PROVE  SlotInv(token'[u], current')
  <2>1. token'[u] = IF u = t THEN s ELSE token[u]
    BY DEF TokenInv
  <2>2. SlotInv(token[u], current)
    BY DEF TokenInv
  <2>3. SlotInv(token'[u], current)
    BY <2>1, <2>2
  <2>4. current' = current
    OBVIOUS
  <2> QED BY <2>3, <2>4 DEF SlotInv
<1> QED BY <1>2, <1>3 DEF TokenInv

LEMMA TokenStep == RingInv /\ TokenInv /\ [Next]_vars => TokenInv'
<1> SUFFICES ASSUME RingInv, TokenInv, [Next]_vars
             PROVE  TokenInv'
    OBVIOUS
<1> USE KeysAssumption
<1>0. current \in 1..MaxVersion /\ current \in 1..current
  BY DEF RingInv
<1>1. CASE Rotate
  <2>1. token' = token /\ current' = current + 1
    BY <1>1 DEF Rotate, RingInv
  <2>2. ASSUME NEW t \in Token
        PROVE  SlotInv(token[t], current + 1)
    <3>1. SlotInv(token[t], current)
      BY DEF TokenInv
    <3>2. token[t].verdict = "refused" => token[t].kid \in 1..current
      BY <3>1 DEF SlotInv
    <3> QED BY <3>1, <3>2 DEF SlotInv, RingInv
  <2> QED BY <2>1, <2>2 DEF TokenInv
<1>2. ASSUME NEW t \in Token, NameKey(t)
      PROVE  TokenInv'
  <2> DEFINE s == [FreeSlot EXCEPT !.phase = "named", !.kid = current, !.life = Ttl + 1]
  <2>1. Ttl + 1 \in 0..(Ttl + 1)
    OBVIOUS
  <2>2. SlotInv(s, current)
    BY <2>1, <1>0 DEF SlotInv, Slot, FreeSlot
  <2>3. token' = [token EXCEPT ![t] = s] /\ UNCHANGED current
    BY <1>2 DEF NameKey, keyVars
  <2> HIDE DEF s
  <2> QED BY <2>2, <2>3, OneSlotChanges
<1>3. ASSUME NEW t \in Token, SignToken(t)
      PROVE  TokenInv'
  <2> DEFINE s == [token[t] EXCEPT !.phase = "issued", !.signer = current]
  <2>1. SlotInv(token[t], current) /\ token[t].phase = "named"
    BY <1>3 DEF TokenInv, SignToken
  <2>2. ASSUME NEW x, token' = [token EXCEPT ![t] = x], SlotInv(x, current)
        PROVE  TokenInv'
    BY <1>3, <2>2, OneSlotChanges DEF SignToken, keyVars
  <2>3. CASE current \in held
    <3>1. token' = [token EXCEPT ![t] = s]
      BY <1>3, <2>3 DEF SignToken, TokenInv
    <3>2. token[t].kid \in 1..current
      BY <2>1 DEF SlotInv
    <3>3. SlotInv(s, current)
      BY <2>1, <3>2 DEF SlotInv, Slot, RingInv
    <3> HIDE DEF s
    <3> QED BY <2>2, <3>1, <3>3
  <2>4. CASE current \notin held
    BY <1>3, <2>2, <2>4, FreeSlotInv DEF SignToken
  <2> QED BY <2>3, <2>4
<1>4. ASSUME NEW t \in Token, SignBody(t)
      PROVE  TokenInv'
  <2> DEFINE s == [FreeSlot EXCEPT !.phase = "issued", !.kid = current, !.signer = current]
  <2>1. SlotInv(s, current)
    BY <1>0 DEF SlotInv, Slot, FreeSlot
  <2>2. token' = [token EXCEPT ![t] = IF current \in held THEN s ELSE FreeSlot]
        /\ UNCHANGED current
    BY <1>4 DEF SignBody, keyVars
  <2> HIDE DEF s
  <2>3. SlotInv(IF current \in held THEN s ELSE FreeSlot, current)
    BY <2>1, FreeSlotInv
  <2> QED BY <2>2, <2>3, OneSlotChanges
<1>5. ASSUME NEW t \in Token, CheckSignature(t)
      PROVE  TokenInv'
  <2> DEFINE s == token[t]
  <2>1. SlotInv(s, current) /\ s.phase = "issued" /\ s.kid \in 1..current
    BY <1>5 DEF TokenInv, CheckSignature, SlotInv
  <2>2. ASSUME NEW x, token' = [token EXCEPT ![t] = x], SlotInv(x, current)
        PROVE  TokenInv'
    BY <1>5, <2>2, OneSlotChanges DEF CheckSignature, keyVars
  <2>3. CASE ~Verifies(s)
    <3> DEFINE x == [s EXCEPT !.verdict = "refused"]
    <3>1. token' = [token EXCEPT ![t] = x]
      BY <1>5, <2>3 DEF CheckSignature
    <3>2. s.kid # s.signer \/ current - s.kid > MaxRetained
      BY <2>1, <2>3 DEF Verifies, RingInv, Window
    <3>3. SlotInv(x, current)
      BY <2>1, <3>2 DEF SlotInv, Slot
    <3> HIDE DEF x
    <3> QED BY <2>2, <3>1, <3>3
  <2>4. CASE Verifies(s) /\ s.life = None
    <3> DEFINE x == [s EXCEPT !.verdict = "accepted"]
    <3>1. token' = [token EXCEPT ![t] = x]
      BY <1>5, <2>4 DEF CheckSignature
    <3>2. SlotInv(x, current)
      BY <2>1 DEF SlotInv, Slot
    <3> HIDE DEF x
    <3> QED BY <2>2, <3>1, <3>2
  <2>5. CASE Verifies(s) /\ s.life # None
    <3> DEFINE x == [s EXCEPT !.phase = "checked"]
    <3>1. token' = [token EXCEPT ![t] = x]
      BY <1>5, <2>5 DEF CheckSignature
    <3>2. s.kid = s.signer /\ current - s.kid <= MaxRetained
      BY <2>5 DEF Verifies, RingInv, Window
    <3>3. s.verdict # "refused"
      BY <2>1, <3>2 DEF SlotInv, RingInv
    <3>4. SlotInv(x, current)
      BY <2>1, <2>5, <3>3 DEF SlotInv, Slot
    <3> HIDE DEF x
    <3> QED BY <2>2, <3>1, <3>4
  <2> QED BY <2>3, <2>4, <2>5
<1>6. ASSUME NEW t \in Token, CheckExpiry(t)
      PROVE  TokenInv'
  <2> DEFINE v == IF token[t].life = 0 THEN "expired" ELSE "accepted"
             x == [token[t] EXCEPT !.phase = "issued", !.verdict = v]
  <2>1. SlotInv(token[t], current) /\ token[t].phase = "checked"
    BY <1>6 DEF TokenInv, CheckExpiry
  <2>2. SlotInv(x, current)
    BY <2>1 DEF SlotInv, Slot
  <2>3. token' = [token EXCEPT ![t] = x] /\ UNCHANGED current
    BY <1>6 DEF CheckExpiry, TokenInv, keyVars
  <2> HIDE DEF x
  <2> QED BY <2>2, <2>3, OneSlotChanges
<1>7. ASSUME NEW t \in Token, Discard(t)
      PROVE  TokenInv'
  BY <1>7, FreeSlotInv, OneSlotChanges DEF Discard, keyVars
<1>8. CASE Tick
  <2> DEFINE older(s) == [s EXCEPT !.life = IF @ \in {None, 0} THEN @ ELSE @ - 1]
  <2>1. token' = [t \in Token |-> older(token[t])] /\ UNCHANGED current
    BY <1>8 DEF Tick, keyVars
  <2>2. ASSUME NEW s, SlotInv(s, current)
        PROVE  SlotInv(older(s), current)
    <3>1. s.life \in 0..(Ttl + 1) \cup {None}
      BY <2>2 DEF SlotInv, Slot
    <3>2. (IF s.life \in {None, 0} THEN s.life ELSE s.life - 1) \in 0..(Ttl + 1) \cup {None}
      BY <3>1
    <3>3. s.life # None => (IF s.life \in {None, 0} THEN s.life ELSE s.life - 1) # None
      BY <3>1
    <3> QED BY <2>2, <3>2, <3>3 DEF SlotInv, Slot
  <2> HIDE DEF older
  <2>3. ASSUME NEW t \in Token
        PROVE  SlotInv(token'[t], current')
    BY <2>1, <2>2 DEF TokenInv
  <2>4. token' \in [Token -> Slot]
    BY <2>1, <2>2 DEF TokenInv, SlotInv
  <2> QED BY <2>3, <2>4 DEF TokenInv
<1>9. CASE UNCHANGED vars
  BY <1>9 DEF vars, keyVars, TokenInv
<1> QED
  BY <1>1, <1>2, <1>3, <1>4, <1>5, <1>6, <1>7, <1>8, <1>9 DEF Next

THEOREM TokenInvariant == Spec => []TokenInv
<1>1. Init => TokenInv
  BY FreeSlotInv DEF Init, TokenInv, SlotInv
<1>2. [](RingInv) /\ [][Next]_vars /\ TokenInv => []TokenInv
  BY TokenStep, PTL
<1> QED BY <1>1, <1>2, RingInvariant, PTL DEF Spec

----------------------------------------------------------------------------
\* Every reachable state is well typed.
THEOREM TypeCorrect == Spec => []TypeOK
<1>1. RingInv /\ TokenInv => TypeOK
  <2> SUFFICES ASSUME RingInv, TokenInv
               PROVE  TypeOK
    OBVIOUS
  <2> USE KeysAssumption
  <2>1. current \in held /\ held \subseteq 1..MaxVersion /\ next = current + 1
    BY DEF RingInv, Window
  <2>2. active \subseteq held /\ shares \in held \cup {None}
    BY <2>1 DEF RingInv, OneSigningKey
  <2>3. \A t \in Token : token[t].phase = "checked" => token[t].life # None
    BY DEF TokenInv, SlotInv
  <2> QED BY <2>1, <2>2, <2>3 DEF TypeOK, TokenInv
<1> QED BY <1>1, RingInvariant, TokenInvariant, PTL

\* A signature is refused only for naming a key that did not make it, or one
\* that more than MaxRetained rotations have superseded.
THEOREM RefusalsAreExplained == Spec => []RefusalsExplained
<1>1. TokenInv => RefusalsExplained
  BY DEF TokenInv, SlotInv, RefusalsExplained
<1> QED BY <1>1, TokenInvariant, PTL

\* What was refused once is not accepted later: the reason for the refusal
\* survives every step, and it keeps the signature from verifying.
THEOREM RefusalsAreFinal == Spec => RefusalIsFinal
<1>1. RingInv /\ TokenInv /\ [Next]_vars
        => [\A t \in Token :
              token[t].verdict = "refused" => token'[t].verdict # "accepted"]_vars
  <2> SUFFICES ASSUME RingInv, TokenInv, Next,
                      NEW t \in Token, token[t].verdict = "refused"
               PROVE  token'[t].verdict # "accepted"
    OBVIOUS
  <2> USE KeysAssumption
  <2>1. /\ token[t].phase = "issued"
        /\ token[t].kid \in 1..current
        /\ token[t].kid # token[t].signer \/ current - token[t].kid > MaxRetained
    BY DEF TokenInv, SlotInv
  <2>2. ~Verifies(token[t])
    BY <2>1 DEF Verifies, RingInv, Window
  <2>3. CASE CheckSignature(t)
    BY <2>2, <2>3 DEF CheckSignature, TokenInv
  <2>4. CASE Discard(t)
    BY <2>4 DEF Discard, TokenInv, FreeSlot
  <2>5. CASE Tick
    BY <2>5 DEF Tick, TokenInv, Slot
  <2>6. CASE Rotate
    BY <2>6 DEF Rotate
  <2>7. ASSUME NEW u \in Token, u # t,
               NameKey(u) \/ SignToken(u) \/ SignBody(u)
                 \/ CheckSignature(u) \/ CheckExpiry(u) \/ Discard(u)
        PROVE  token'[t] = token[t]
    BY <2>7 DEF NameKey, SignToken, SignBody, CheckSignature, CheckExpiry, Discard, TokenInv
  <2>8. ~(NameKey(t) \/ SignToken(t) \/ SignBody(t) \/ CheckExpiry(t))
    BY <2>1 DEF NameKey, SignToken, SignBody, CheckExpiry
  <2> QED BY <2>3, <2>4, <2>5, <2>6, <2>7, <2>8 DEF Next
<1> QED BY <1>1, RingInvariant, TokenInvariant, PTL DEF Spec, RefusalIsFinal

----------------------------------------------------------------------------
\* The calls.

\* The signature a call r looks at, at the stage it has reached; tk is the state
\* of the signatures and cur the current key.
SlotOK(r, tk) ==
    /\ r.slot # None => r.stage \in {"presented", "signed", "answered"}
    /\ r.stage \in {"presented", "signed"} => r.slot \in Token
    /\ r.slot \in Token =>
          tk[r.slot].phase = (IF r.stage = "signed" THEN "checked" ELSE "issued")
    /\ r.stage = "presented" => tk[r.slot].life # None

\* Why the call r may have been refused.
Reason(r, tk, cur) ==
    \/ r.digest = "wrong"
    \/ r.slot = None /\ r.status = 401
    \/ r.slot # None /\ \/ tk[r.slot].life = 0
                        \/ tk[r.slot].kid # tk[r.slot].signer
                        \/ cur - tk[r.slot].kid > MaxRetained

RefusalOK(r, tk, cur) ==
    r.status \in {400, 401} => r.stage = "answered" /\ Reason(r, tk, cur)

\* The versioned key of an answer is the one that was current when it was signed,
\* age rotations ago.
\* Where the upstream's own headers may stand in an answer under this mode.
OwnPlaces(h, mode) ==
    /\ h.classical \in {None, Theirs} <=> mode # "hybrid"
    /\ h.fingerprint \in {None, Theirs} <=> mode = "classical"

HeadersOK(r, cur) ==
    /\ r.headers = None => r.age = 0
    /\ r.headers # None =>
          /\ r.stage = "answered"
          /\ r.headers.keyId \in Nat \ {0} /\ r.headers.keyId + r.age = cur
          /\ r.headers.signature = [key |-> r.headers.keyId, of |-> "answer"]
          /\ r.headers.digest = "answer"
          /\ OwnPlaces(r.headers, r.mode)

CallOK(r, tk, cur) == SlotOK(r, tk) /\ RefusalOK(r, tk, cur) /\ HeadersOK(r, cur)

OneCallPerSlot ==
    \A c, d \in Call : c # d /\ call[c].slot = call[d].slot => call[c].slot = None

EdgeInv ==
    /\ RingInv
    /\ TokenInv
    /\ EdgeTypeOK
    /\ OneCallPerSlot
    /\ \A c \in Call : CallOK(call[c], token, current)

----------------------------------------------------------------------------
\* Whatever happens at the edge is, for the keys and the signatures, a step of
\* VersionedKeys or none.
LEMMA EdgeStepIsKeyStep == EdgeInv /\ [EdgeNext]_edgeVars => [Next]_vars
<1> SUFFICES ASSUME EdgeInv, [EdgeNext]_edgeVars PROVE [Next]_vars
    OBVIOUS
<1>1. CASE RotateMeanwhile
  BY <1>1 DEF RotateMeanwhile, Next
<1>2. CASE MakeSignature \/ ThrowAway
  BY <1>2 DEF MakeSignature, ThrowAway, Next
<1>3. CASE Second
  BY <1>3 DEF Second, Next
<1>4. ASSUME NEW c \in Call, Arrive(c) \/ SignAnswer(c) \/ Leave(c)
      PROVE  UNCHANGED vars
  BY <1>4 DEF Arrive, SignAnswer, Leave
<1>5. ASSUME NEW c \in Call, AuthSignature(c) \/ AuthExpiry(c)
      PROVE  Next
  <2>1. call[c].stage \in {"presented", "signed"}
    BY <1>5 DEF AuthSignature, AuthExpiry
  <2>2. call[c].slot \in Token
    BY <2>1 DEF EdgeInv, CallOK, SlotOK
  <2> QED BY <1>5, <2>2 DEF AuthSignature, AuthExpiry, Next
<1>6. ASSUME NEW c \in Call, CheckBody(c)
      PROVE  [Next]_vars
  <2>1. PICK t \in Token \cup {None} : (t # None /\ CheckSignature(t)) \/ UNCHANGED vars
    BY <1>6 DEF CheckBody
  <2> QED BY <2>1 DEF Next
<1>7. CASE UNCHANGED edgeVars
  BY <1>7 DEF edgeVars
<1> QED BY <1>1, <1>2, <1>3, <1>4, <1>5, <1>6, <1>7 DEF EdgeNext

----------------------------------------------------------------------------
\* A signature on which a verdict may rest, and what may have become of it.
SameSignature(s, s2) ==
    /\ s2.phase = s.phase /\ s2.kid = s.kid /\ s2.signer = s.signer
    /\ s.life = 0 => s2.life = 0
    /\ s.life # None => s2.life # None

\* A reason for a refusal outlives whatever leaves the signature as it was: the
\* key only grows older.
LEMMA ReasonStays ==
    ASSUME NEW r, NEW tk, NEW tk2, NEW cur \in Nat, NEW cur2 \in Nat, cur2 >= cur,
           SlotOK(r, tk), RefusalOK(r, tk, cur), r.slot \in Token \cup {None},
           r.slot \in Token =>
              SameSignature(tk[r.slot], tk2[r.slot]) /\ tk[r.slot].kid \in Nat
    PROVE  SlotOK(r, tk2) /\ RefusalOK(r, tk2, cur2)
<1> USE EdgeAssumption, KeysAssumption
<1>1. SlotOK(r, tk2)
  BY DEF SlotOK, SameSignature
<1>2. RefusalOK(r, tk2, cur2)
  <2> SUFFICES ASSUME r.status \in {400, 401}, r.slot \in Token, r.digest # "wrong"
               PROVE  Reason(r, tk2, cur2) /\ r.stage = "answered"
      BY DEF RefusalOK, Reason
  <2>1. Reason(r, tk, cur) /\ r.stage = "answered"
    BY DEF RefusalOK
  <2> QED BY <2>1 DEF Reason, SameSignature
<1> QED BY <1>1, <1>2

\* The ring and the signatures, as facts on numbers.
LEMMA EdgeFacts ==
    ASSUME EdgeInv
    PROVE  /\ current \in Nat \ {0} /\ current \in held
           /\ \A t \in Token : token[t].phase # "free" => token[t].kid \in 1..current
           /\ \A c \in Call : /\ call[c] \in CallRecord
                              /\ call[c].slot \in Token \cup {None}
                              /\ call[c].slot \in Token => token[call[c].slot].kid \in Nat
<1> USE KeysAssumption
<1>1. current \in Nat \ {0} /\ current \in held
  BY DEF EdgeInv, RingInv, Window
<1>2. \A t \in Token : token[t].phase # "free" => token[t].kid \in 1..current
  BY DEF EdgeInv, TokenInv, SlotInv
<1>3. ASSUME NEW c \in Call
      PROVE  /\ call[c] \in CallRecord
             /\ call[c].slot \in Token \cup {None}
             /\ call[c].slot \in Token => token[call[c].slot].kid \in Nat
  <2>1. call[c] \in CallRecord
    BY DEF EdgeInv, EdgeTypeOK
  <2>2. call[c].slot \in Token \cup {None}
    BY <2>1 DEF CallRecord
  <2>3. call[c].slot \in Token => token[call[c].slot].phase # "free"
    BY DEF EdgeInv, CallOK, SlotOK
  <2> QED BY <1>1, <1>2, <2>1, <2>2, <2>3
<1> QED BY <1>1, <1>2, <1>3

\* Call c becomes r, which is as it should be, and no other call looks at what changes.
OneCall(c, r) ==
    /\ call' = [call EXCEPT ![c] = r]
    /\ CallOK(r, token', current)
    /\ r.slot # None => \A d \in Call \ {c} : call[d].slot # r.slot
    /\ \A d \in Call \ {c} : call[d].slot \in Token =>
          token'[call[d].slot] = token[call[d].slot]

\* One call moves to r, alone with the signature it looks at, and the signatures
\* of the other calls stay as they are.
LEMMA OneCallMoves ==
    ASSUME EdgeInv, RingInv', TokenInv', current' = current,
           NEW c \in Call, NEW r \in CallRecord, OneCall(c, r)
    PROVE  EdgeInv'
<1>1. call' \in [Call -> CallRecord] /\ \A d \in Call : call'[d] = IF d = c THEN r ELSE call[d]
  BY DEF OneCall, EdgeInv, EdgeTypeOK
<1>2. OneCallPerSlot'
  BY <1>1 DEF OneCall, EdgeInv, OneCallPerSlot
<1>3. ASSUME NEW d \in Call PROVE CallOK(call'[d], token', current')
  <2>1. CASE d = c
    BY <1>1, <2>1 DEF OneCall
  <2>2. CASE d # c
    <3>1. call'[d] = call[d] /\ CallOK(call[d], token, current)
      BY <1>1, <2>2 DEF EdgeInv
    <3>2. call[d].slot \in Token =>
             SameSignature(token[call[d].slot], token'[call[d].slot])
      BY <2>2 DEF OneCall, SameSignature
    <3>3. SlotOK(call[d], token') /\ RefusalOK(call[d], token', current)
      BY <3>1, <3>2, EdgeFacts, ReasonStays DEF CallOK
    <3> QED BY <3>1, <3>3 DEF CallOK
  <2> QED BY <2>1, <2>2
<1> QED BY <1>1, <1>2, <1>3 DEF EdgeInv, EdgeTypeOK

\* The headers of a signed answer (proxy.rs 479-520).
LEMMA HeadersAreGood ==
    ASSUME current \in held, current \in Nat \ {0}, NEW mode \in Modes,
           NEW own \in UpstreamHeaders
    PROVE  LET h == SignatureHeaders(mode, "answer", own) IN
           /\ h \in Headers
           /\ h.keyId = current
           /\ h.signature = [key |-> current, of |-> "answer"]
           /\ h.digest = "answer"
           /\ OwnPlaces(h, mode)
<1> DEFINE g == WithMode(mode, "answer", own)
           sig == [key |-> FixedKey, of |-> "answer"]
<1>1. sig \in Signature /\ FixedKey \in Nat
  BY DEF Signature, FixedKey
<1>2. /\ None \notin Signature /\ Theirs \notin Signature
      /\ FixedKey # None /\ FixedKey # Theirs /\ sig # None /\ sig # Theirs
  BY <1>1, EdgeAssumption, KeysAssumption DEF FixedKey
<1> HIDE DEF sig
<1>3. g \in Headers /\ OwnPlaces(g, mode)
  <2>1. CASE mode = "classical"
    BY <2>1 DEF WithMode, UpstreamHeaders, Headers, OwnPlaces
  <2>2. CASE mode = "hybrid"
    <3>1. g = [own EXCEPT !.signature = sig, !.digest = "answer", !.fingerprint = FixedKey,
                          !.algorithm = "ecdsa-p256+ml-dsa-65", !.classical = sig]
      BY <2>2 DEF WithMode, sig
    <3> HIDE DEF g
    <3> QED BY <1>1, <1>2, <2>2, <3>1 DEF UpstreamHeaders, Headers, OwnPlaces
  <2>3. CASE mode = "mldsa-only"
    <3>1. g = [own EXCEPT !.signature = sig, !.digest = "answer", !.fingerprint = FixedKey,
                          !.algorithm = "ml-dsa-65", !.classical = @]
      BY <2>3 DEF WithMode, sig
    <3> HIDE DEF g
    <3> QED BY <1>1, <1>2, <2>3, <3>1 DEF UpstreamHeaders, Headers, OwnPlaces
  <2> QED BY <2>1, <2>2, <2>3 DEF Modes
<1>4. [key |-> current, of |-> "answer"] \in Signature
  BY DEF Signature
<1>5. SignatureHeaders(mode, "answer", own) =
        [g EXCEPT !.signature = [key |-> current, of |-> "answer"],
                  !.algorithm = "ML-DSA-65", !.digest = "answer", !.keyId = current]
  BY DEF SignatureHeaders, WithCurrentKey
<1> HIDE DEF g
<1> QED BY <1>3, <1>4, <1>5 DEF Headers, OwnPlaces

----------------------------------------------------------------------------
\* What becomes of a call has its type, and keeps what the change does not name.
LEMMA Stages ==
    \A stage \in {"presented", "signed", "authorized", "forwarded", "answered"} : stage \in Stage
BY DEF Stage

LEMMA PresentsCall ==
    ASSUME NEW r \in CallRecord, NEW t \in Token \cup {None}
    PROVE  LET m == Presents(r, t) IN
           /\ m \in CallRecord /\ m.stage = "presented" /\ m.slot = t
           /\ m.status = r.status /\ m.headers = r.headers /\ m.age = r.age
BY Stages DEF Presents, CallRecord

LEMMA AuthenticCall ==
    ASSUME NEW r \in CallRecord
    PROVE  LET m == Authentic(r) IN
           /\ m \in CallRecord /\ m.stage = "signed" /\ m.slot = r.slot
           /\ m.status = r.status /\ m.headers = r.headers /\ m.age = r.age
BY Stages DEF Authentic, CallRecord

LEMMA AuthorizedCall ==
    ASSUME NEW r \in CallRecord
    PROVE  LET m == Authorized(r) IN
           /\ m \in CallRecord /\ m.stage = "authorized" /\ m.slot = None
           /\ m.status = r.status /\ m.headers = r.headers /\ m.age = r.age
BY Stages DEF Authorized, CallRecord

LEMMA BringsCall ==
    ASSUME NEW r \in CallRecord, NEW t \in Token \cup {None},
           NEW digest \in Digest
    PROVE  LET m == Brings(r, t, digest) IN
           /\ m \in CallRecord /\ m.slot = t /\ m.digest = digest
           /\ m.status = r.status /\ m.headers = r.headers /\ m.age = r.age
BY DEF Brings, CallRecord

LEMMA ForwardedCall ==
    ASSUME NEW r \in CallRecord, NEW body \in {"whole", "empty"}
    PROVE  LET m == Forwarded(r, body) IN
           /\ m \in CallRecord /\ m.stage = "forwarded" /\ m.slot = None
           /\ m.status = r.status /\ m.headers = r.headers /\ m.age = r.age
BY Stages DEF Forwarded, CallRecord

LEMMA AnsweredRecord ==
    ASSUME NEW r \in CallRecord, NEW status \in Status
    PROVE  LET m == Answered(r, status) IN
           /\ m \in CallRecord /\ m.stage = "answered" /\ m.status = status
           /\ m.slot = r.slot /\ m.digest = r.digest
           /\ m.headers = r.headers /\ m.age = r.age
BY Stages DEF Answered, CallRecord

LEMMA AnsweredCall ==
    ASSUME NEW r \in CallRecord, NEW status \in {200, 400, 401}
    PROVE  LET m == Answered(r, status) IN
           /\ m \in CallRecord /\ m.stage = "answered" /\ m.status = status
           /\ m.slot = r.slot /\ m.digest = r.digest
           /\ m.headers = r.headers /\ m.age = r.age
<1>1. status \in Status
  BY DEF Status
<1> QED BY <1>1, AnsweredRecord

LEMMA SignedCall ==
    ASSUME NEW r \in CallRecord, NEW mode \in Modes, NEW h \in Headers
    PROVE  LET m == Signed(r, mode, h) IN
           /\ m \in CallRecord /\ m.mode = mode /\ m.headers = h
           /\ m.stage = r.stage /\ m.slot = r.slot /\ m.status = r.status /\ m.age = r.age
BY DEF Signed, CallRecord

LEMMA IdleIsGood ==
    Idle \in CallRecord /\ \A tk : CallOK(Idle, tk, current)
<1>1. "none" \in Stage /\ None \in Status /\ "none" \in Digest
  BY DEF Stage, Status, Digest
<1>2. Idle \in CallRecord
  BY <1>1 DEF Idle, CallRecord
<1>3. None \notin Token /\ None \notin {400, 401}
  BY EdgeAssumption, KeysAssumption
<1>4. \A tk : CallOK(Idle, tk, current)
  BY <1>3 DEF Idle, CallOK, SlotOK, RefusalOK, HeadersOK
<1> QED BY <1>2, <1>4

\* No call moves, and the signatures calls look at stay good or bad as they were.
LEMMA OnlySignaturesMove ==
    ASSUME EdgeInv, RingInv', TokenInv', current' = current, call' = call,
           \A c \in Call : call[c].slot \in Token =>
              SameSignature(token[call[c].slot], token'[call[c].slot])
    PROVE  EdgeInv'
<1>1. ASSUME NEW c \in Call PROVE CallOK(call[c], token', current)
  <2>1. CallOK(call[c], token, current)
    BY DEF EdgeInv
  <2>2. SlotOK(call[c], token') /\ RefusalOK(call[c], token', current)
    BY <2>1, EdgeFacts, ReasonStays DEF CallOK
  <2> QED BY <2>1, <2>2 DEF CallOK
<1> QED BY <1>1 DEF EdgeInv, EdgeTypeOK, OneCallPerSlot

\* A refusal by verify_by_kid has one of the two reasons.
LEMMA RefusedForAReason ==
    ASSUME RingInv, NEW s, s.kid \in 1..current, ~Verifies(s)
    PROVE  s.kid # s.signer \/ current - s.kid > MaxRetained
BY KeysAssumption DEF RingInv, Window, Verifies

LEMMA EdgeInvInit == EdgeInit => EdgeInv
<1> SUFFICES ASSUME EdgeInit PROVE EdgeInv
    OBVIOUS
<1>1. RingInv
  BY RingInit DEF EdgeInit
<1>2. TokenInv
  BY FreeSlotInv DEF EdgeInit, Init, TokenInv, SlotInv
<1>3. \A c \in Call : call[c] = Idle
  BY DEF EdgeInit
<1> QED
  BY <1>1, <1>2, <1>3, IdleIsGood
     DEF EdgeInv, EdgeInit, EdgeTypeOK, OneCallPerSlot, Idle

LEMMA EdgeInvStep == EdgeInv /\ [EdgeNext]_edgeVars => EdgeInv'
<1> SUFFICES ASSUME EdgeInv, [EdgeNext]_edgeVars PROVE EdgeInv'
    OBVIOUS
<1> USE EdgeAssumption, KeysAssumption
<1>0. RingInv' /\ TokenInv'
  <2>1. [Next]_vars
    BY EdgeStepIsKeyStep
  <2> QED BY <2>1, RingStep, TokenStep DEF EdgeInv
<1>a. /\ token \in [Token -> Slot]
      /\ \A c \in Call : /\ call[c] \in CallRecord
                         /\ SlotOK(call[c], token)
                         /\ RefusalOK(call[c], token, current)
                         /\ HeadersOK(call[c], current)
  BY EdgeFacts DEF EdgeInv, TokenInv, CallOK
<1>b. ASSUME NEW c \in Call, call[c].slot # None
      PROVE  \A d \in Call \ {c} : call[d].slot # call[c].slot
  BY <1>b DEF EdgeInv, OneCallPerSlot
<1>c. ASSUME NEW c \in Call, NEW t \in Token, NEW s,
             token' = [token EXCEPT ![t] = s], \A d \in Call \ {c} : call[d].slot # t
      PROVE  \A d \in Call \ {c} : call[d].slot \in Token =>
                token'[call[d].slot] = token[call[d].slot]
  BY <1>a, <1>c
<1>d. ASSUME NEW c \in Call, NEW r \in CallRecord, call' = [call EXCEPT ![c] = r],
             UNCHANGED vars, CallOK(r, token, current),
             r.slot # None => Unused(r.slot) \/ r.slot = call[c].slot
      PROVE  EdgeInv'
  <2>1. token' = token /\ current' = current
    BY <1>d DEF vars, keyVars
  <2> QED BY <1>0, <1>b, <1>d, <2>1, OneCallMoves DEF OneCall, Unused
<1>1. CASE RotateMeanwhile
  <2>1. token' = token /\ current' = current + 1
    BY <1>1 DEF RotateMeanwhile, Rotate, EdgeInv, RingInv
  <2>2. ASSUME NEW c \in Call
        PROVE  /\ call'[c] \in CallRecord /\ call'[c].slot = call[c].slot
               /\ CallOK(call'[c], token', current')
    <3> DEFINE r == IF call[c].headers = None THEN call[c] ELSE [call[c] EXCEPT !.age = @ + 1]
    <3>1. call'[c] = r
      BY <1>1 DEF RotateMeanwhile
    <3>2. /\ r \in CallRecord /\ r.slot = call[c].slot /\ r.stage = call[c].stage
          /\ r.digest = call[c].digest /\ r.status = call[c].status
      BY <1>a DEF CallRecord
    <3>3. SlotOK(call[c], token) /\ RefusalOK(call[c], token, current + 1)
      BY <1>a, EdgeFacts, ReasonStays DEF SameSignature
    <3>4. SlotOK(r, token) /\ RefusalOK(r, token, current + 1)
      <4> HIDE DEF r
      <4> QED BY <3>2, <3>3 DEF SlotOK, RefusalOK, Reason
    <3>5. HeadersOK(r, current + 1)
      BY <1>a, EdgeFacts DEF HeadersOK, CallRecord
    <3> HIDE DEF r
    <3> QED BY <2>1, <3>1, <3>2, <3>4, <3>5 DEF CallOK
  <2>3. EdgeTypeOK'
    BY <1>1, <2>2 DEF EdgeTypeOK, RotateMeanwhile
  <2>4. OneCallPerSlot'
    BY <2>2 DEF EdgeInv, OneCallPerSlot
  <2> QED BY <1>0, <2>2, <2>3, <2>4 DEF EdgeInv
<1>2. CASE MakeSignature
  <2>1. PICK t \in Token : NameKey(t) \/ SignToken(t) \/ SignBody(t)
    BY <1>2 DEF MakeSignature
  <2>2. /\ token[t].phase \in {"free", "named"} /\ current' = current /\ call' = call
        /\ \A u \in Token \ {t} : token'[u] = token[u]
    BY <1>2, <1>a, <2>1 DEF MakeSignature, NameKey, SignToken, SignBody, keyVars
  <2>3. \A c \in Call : call[c].slot \in Token => call[c].slot # t
    BY <1>a, <2>2 DEF SlotOK
  <2> QED BY <1>0, <2>2, <2>3, OnlySignaturesMove DEF SameSignature
<1>3. CASE ThrowAway
  <2>1. PICK t \in Token : Unused(t) /\ Discard(t)
    BY <1>3 DEF ThrowAway
  <2>2. /\ current' = current /\ call' = call
        /\ \A u \in Token \ {t} : token'[u] = token[u]
    BY <1>3, <1>a, <2>1 DEF ThrowAway, Discard, keyVars
  <2> QED BY <1>0, <2>1, <2>2, OnlySignaturesMove DEF SameSignature, Unused
<1>4. CASE Second
  <2>1. current' = current /\ call' = call
    BY <1>4 DEF Second, Tick, keyVars
  <2>2. ASSUME NEW t \in Token PROVE SameSignature(token[t], token'[t])
    <3>1. token'[t] = [token[t] EXCEPT !.life = IF @ \in {None, 0} THEN @ ELSE @ - 1]
      BY <1>4 DEF Second, Tick
    <3>2. token[t] \in Slot /\ token[t].life \in 0..(Ttl + 1) \cup {None}
      BY <1>a DEF Slot
    <3> QED BY <3>1, <3>2 DEF SameSignature, Slot
  <2> QED BY <1>0, <2>1, <2>2, OnlySignaturesMove
<1>5. ASSUME NEW c \in Call, Arrive(c) PROVE EdgeInv'
  <2>1. PICK t \in Token \cup {None} :
          /\ t # None => token[t].phase = "issued" /\ token[t].life # None /\ Unused(t)
          /\ \/ Becomes(c, Authorized(Idle))
             \/ t = None /\ Becomes(c, Answered(Idle, 401))
             \/ t # None /\ Becomes(c, Presents(Idle, t))
          /\ UNCHANGED vars
    BY <1>5 DEF Arrive
  <2>2. /\ Idle \in CallRecord /\ Idle.slot = None /\ Idle.status = None
        /\ Idle.headers = None /\ Idle.age = 0
    BY IdleIsGood DEF Idle
  <2>3. None \notin Token /\ None \notin {400, 401}
    OBVIOUS
  <2>4. ASSUME NEW r, r = Authorized(Idle) \/ r = Answered(Idle, 401) \/ (r = Presents(Idle, t) /\ t # None)
        PROVE  /\ r \in CallRecord /\ CallOK(r, token, current)
               /\ r.slot # None => Unused(r.slot)
    <3>1. CASE r = Authorized(Idle)
      BY <2>2, <2>3, <3>1, AuthorizedCall DEF CallOK, SlotOK, RefusalOK, HeadersOK
    <3>2. CASE r = Answered(Idle, 401)
      BY <2>2, <2>3, <3>2, AnsweredCall DEF CallOK, SlotOK, RefusalOK, Reason, HeadersOK
    <3>3. CASE r = Presents(Idle, t) /\ t # None
      BY <2>1, <2>2, <2>3, <3>3, PresentsCall DEF CallOK, SlotOK, RefusalOK, HeadersOK
    <3> QED BY <2>4, <3>1, <3>2, <3>3
  <2>5. PICK r : /\ r = Authorized(Idle) \/ r = Answered(Idle, 401) \/ (r = Presents(Idle, t) /\ t # None)
                 /\ Becomes(c, r)
    BY <2>1
  <2> QED BY <1>d, <2>1, <2>4, <2>5 DEF Becomes
<1>6. ASSUME NEW c \in Call, AuthSignature(c) PROVE EdgeInv'
  <2> DEFINE t == call[c].slot
             u == token[t]
             gone == [u EXCEPT !.verdict = "refused"]
             good == [u EXCEPT !.phase = "checked"]
             answered == Answered(call[c], 401)
             signed == Authentic(call[c])
  <2>1. /\ call[c].stage = "presented" /\ t \in Token /\ u.phase = "issued" /\ u.life # None
        /\ u \in Slot /\ u.kid \in 1..current /\ current' = current /\ t # None
    BY <1>6, <1>a, EdgeFacts DEF AuthSignature, CheckSignature, SlotOK, keyVars
  <2>2. /\ call[c] \in CallRecord /\ call[c].headers = None /\ call[c].age = 0
        /\ call[c].status \notin {400, 401}
    <3>1. call[c].stage # "answered" /\ HeadersOK(call[c], current)
          /\ RefusalOK(call[c], token, current) /\ call[c] \in CallRecord
      BY <1>a, <2>1
    <3> QED BY <3>1 DEF HeadersOK, RefusalOK
  <2>3. \A d \in Call \ {c} : call[d].slot # t
    BY <1>b, <2>1
  <2>4. \A x : token' = [token EXCEPT ![t] = x] =>
           \A d \in Call \ {c} : call[d].slot \in Token =>
              token'[call[d].slot] = token[call[d].slot]
    BY <1>c, <2>1, <2>3
  <2>5. CASE ~Verifies(u)
    <3>1. token' = [token EXCEPT ![t] = gone]
      BY <1>6, <2>5 DEF AuthSignature, CheckSignature
    <3>2. token'[t] = gone /\ gone.phase = "issued" /\ gone.kid = u.kid /\ gone.signer = u.signer
      BY <1>a, <2>1, <3>1 DEF Slot
    <3>3. call' = [call EXCEPT ![c] = answered]
      BY <1>6, <3>2 DEF AuthSignature, Becomes
    <3>4. /\ answered \in CallRecord /\ answered.slot = t /\ answered.stage = "answered"
          /\ answered.headers = None /\ answered.age = 0
      BY <2>2, AnsweredCall
    <3>5. u.kid # u.signer \/ current - u.kid > MaxRetained
      BY <2>1, <2>5, RefusedForAReason DEF EdgeInv
    <3> HIDE DEF u, gone, answered
    <3>6. CallOK(answered, token', current)
      BY <2>1, <3>2, <3>4, <3>5 DEF CallOK, SlotOK, RefusalOK, Reason, HeadersOK
    <3>7. \A d \in Call \ {c} : call[d].slot \in Token =>
             token'[call[d].slot] = token[call[d].slot]
      BY <2>4, <3>1
    <3>8. \A d \in Call \ {c} : call[d].slot # answered.slot
      BY <2>3, <3>4
    <3>9. OneCall(c, answered)
      BY <3>3, <3>6, <3>7, <3>8 DEF OneCall
    <3> QED BY <1>0, <2>1, <3>4, <3>9, OneCallMoves
  <2>6. CASE Verifies(u)
    <3>1. token' = [token EXCEPT ![t] = good]
      BY <1>6, <2>1, <2>6 DEF AuthSignature, CheckSignature
    <3>2. token'[t] = good /\ good.phase = "checked"
      BY <1>a, <2>1, <3>1 DEF Slot
    <3>3. call' = [call EXCEPT ![c] = signed]
      BY <1>6, <3>2 DEF AuthSignature, Becomes
    <3>4. /\ signed \in CallRecord /\ signed.slot = t /\ signed.stage = "signed"
          /\ signed.headers = None /\ signed.age = 0 /\ signed.status \notin {400, 401}
      BY <2>2, AuthenticCall
    <3> HIDE DEF u, good, signed
    <3>5. CallOK(signed, token', current)
      BY <2>1, <3>2, <3>4 DEF CallOK, SlotOK, RefusalOK, HeadersOK
    <3>6. \A d \in Call \ {c} : call[d].slot \in Token =>
             token'[call[d].slot] = token[call[d].slot]
      BY <2>4, <3>1
    <3>7. \A d \in Call \ {c} : call[d].slot # signed.slot
      BY <2>3, <3>4
    <3>8. OneCall(c, signed)
      BY <3>3, <3>5, <3>6, <3>7 DEF OneCall
    <3> QED BY <1>0, <2>1, <3>4, <3>8, OneCallMoves
  <2> QED BY <2>5, <2>6
<1>7. ASSUME NEW c \in Call, AuthExpiry(c) PROVE EdgeInv'
  <2> DEFINE t == call[c].slot
             u == token[t]
             s == [u EXCEPT !.phase = "issued",
                            !.verdict = IF u.life = 0 THEN "expired" ELSE "accepted"]
             answered == Answered(call[c], 401)
             passed == Authorized(call[c])
  <2>1. /\ call[c].stage = "signed" /\ t \in Token /\ u \in Slot /\ current' = current
        /\ t # None
    BY <1>7, <1>a DEF AuthExpiry, CheckExpiry, SlotOK, keyVars
  <2>2. /\ call[c] \in CallRecord /\ call[c].headers = None /\ call[c].age = 0
        /\ call[c].status \notin {400, 401}
    <3>1. call[c].stage # "answered" /\ HeadersOK(call[c], current)
          /\ RefusalOK(call[c], token, current) /\ call[c] \in CallRecord
      BY <1>a, <2>1
    <3> QED BY <3>1 DEF HeadersOK, RefusalOK
  <2>3. \A d \in Call \ {c} : call[d].slot # t
    BY <1>b, <2>1
  <2>4. token' = [token EXCEPT ![t] = s]
    BY <1>7, <1>a, <2>1 DEF AuthExpiry, CheckExpiry
  <2>5. /\ token'[t] = s /\ s.phase = "issued" /\ s.life = u.life
        /\ s.verdict = IF u.life = 0 THEN "expired" ELSE "accepted"
    BY <1>a, <2>1, <2>4 DEF Slot
  <2>6. \A d \in Call \ {c} : call[d].slot \in Token =>
           token'[call[d].slot] = token[call[d].slot]
    BY <1>c, <2>1, <2>3, <2>4
  <2>7. CASE u.life # 0
    <3>1. call' = [call EXCEPT ![c] = passed]
      BY <1>7, <2>5, <2>7 DEF AuthExpiry, Becomes
    <3>2. /\ passed \in CallRecord /\ passed.slot = None /\ passed.stage = "authorized"
          /\ passed.headers = None /\ passed.age = 0 /\ passed.status \notin {400, 401}
      BY <2>2, AuthorizedCall
    <3> HIDE DEF u, s, passed
    <3>3. CallOK(passed, token', current)
      BY <3>2 DEF CallOK, SlotOK, RefusalOK, HeadersOK
    <3>4. OneCall(c, passed)
      BY <2>6, <3>1, <3>2, <3>3 DEF OneCall
    <3> QED BY <1>0, <2>1, <3>2, <3>4, OneCallMoves
  <2>8. CASE u.life = 0
    <3>1. call' = [call EXCEPT ![c] = answered]
      BY <1>7, <2>5, <2>8 DEF AuthExpiry, Becomes
    <3>2. /\ answered \in CallRecord /\ answered.slot = t /\ answered.stage = "answered"
          /\ answered.headers = None /\ answered.age = 0
      BY <2>2, AnsweredCall
    <3> HIDE DEF u, s, answered
    <3>3. CallOK(answered, token', current)
      BY <2>1, <2>5, <2>8, <3>2 DEF CallOK, SlotOK, RefusalOK, Reason, HeadersOK
    <3>4. \A d \in Call \ {c} : call[d].slot # answered.slot
      BY <2>3, <3>2
    <3>5. OneCall(c, answered)
      BY <2>6, <3>1, <3>3, <3>4 DEF OneCall
    <3> QED BY <1>0, <2>1, <3>2, <3>5, OneCallMoves
  <2> QED BY <2>7, <2>8
<1>8. ASSUME NEW c \in Call, CheckBody(c) PROVE EdgeInv'
  <2>1. PICK digest \in Digest, t \in Token \cup {None} :
          /\ call[c].stage = "authorized"
          /\ t # None => token[t].phase = "issued" /\ token[t].life = None /\ Unused(t)
          /\ LET r == Brings(call[c], t, digest) IN
             \/ /\ t # None
                /\ CheckSignature(t)
                /\ Becomes(c, IF token'[t].verdict = "refused" THEN Answered(r, 400)
                              ELSE Forwarded(r, "whole"))
             \/ /\ digest = "wrong" /\ Becomes(c, Answered(r, 400))
                /\ UNCHANGED vars
             \/ /\ \E body \in {"whole", "empty"} : Becomes(c, Forwarded(r, body))
                /\ UNCHANGED vars
    BY <1>8 DEF CheckBody
  <2> DEFINE q == Brings(call[c], t, digest)
             refused == Answered(q, 400)
  <2>2. /\ call[c] \in CallRecord /\ call[c].headers = None /\ call[c].age = 0
        /\ call[c].status \notin {400, 401}
    <3>1. call[c].stage # "answered" /\ HeadersOK(call[c], current)
          /\ RefusalOK(call[c], token, current) /\ call[c] \in CallRecord
      BY <1>a, <2>1
    <3> QED BY <3>1 DEF HeadersOK, RefusalOK
  <2>3. /\ q \in CallRecord /\ q.headers = None /\ q.age = 0 /\ q.slot = t
        /\ q.status = call[c].status /\ q.digest = digest
    BY <2>2, BringsCall
  <2> HIDE DEF q
  <2>4. ASSUME NEW body \in {"whole", "empty"}
        PROVE  /\ Forwarded(q, body) \in CallRecord /\ Forwarded(q, body).slot = None
               /\ \A tk : CallOK(Forwarded(q, body), tk, current)
    BY <2>2, <2>3, ForwardedCall DEF CallOK, SlotOK, RefusalOK, HeadersOK
  <2>5. /\ refused \in CallRecord /\ refused.slot = t /\ refused.stage = "answered"
        /\ refused.headers = None /\ refused.age = 0 /\ refused.digest = digest
    BY <2>3, AnsweredCall
  <2> HIDE DEF refused
  <2>6. CASE /\ t # None /\ CheckSignature(t)
             /\ Becomes(c, IF token'[t].verdict = "refused" THEN refused
                           ELSE Forwarded(q, "whole"))
    <3> DEFINE u == token[t]
               bad == [u EXCEPT !.verdict = "refused"]
               good == [u EXCEPT !.verdict = "accepted"]
    <3>1. /\ t \in Token /\ u \in Slot /\ u.phase = "issued" /\ u.kid \in 1..current
          /\ \A d \in Call : call[d].slot # t
      BY <1>a, <2>1, <2>6, EdgeFacts DEF Unused
    <3>2. current' = current
      BY <2>6 DEF CheckSignature, keyVars
    <3>3. CASE ~Verifies(u)
      <4>1. token' = [token EXCEPT ![t] = bad]
        BY <2>6, <3>3 DEF CheckSignature
      <4>2. /\ token'[t] = bad /\ bad.phase = "issued" /\ bad.kid = u.kid
            /\ bad.signer = u.signer /\ bad.verdict = "refused"
        BY <1>a, <3>1, <4>1 DEF Slot
      <4>3. call' = [call EXCEPT ![c] = refused]
        BY <2>6, <4>2 DEF Becomes
      <4>4. u.kid # u.signer \/ current - u.kid > MaxRetained
        BY <3>1, <3>3, RefusedForAReason DEF EdgeInv
      <4> HIDE DEF u, bad
      <4>5. CallOK(refused, token', current)
        BY <2>5, <2>6, <3>1, <4>2, <4>4 DEF CallOK, SlotOK, RefusalOK, Reason, HeadersOK
      <4>6. \A d \in Call \ {c} : call[d].slot \in Token =>
               token'[call[d].slot] = token[call[d].slot]
        BY <1>c, <3>1, <4>1
      <4>7. refused.slot # None => \A d \in Call \ {c} : call[d].slot # refused.slot
        BY <2>5, <3>1
      <4>8. OneCall(c, refused) /\ refused \in CallRecord
        BY <2>5, <4>3, <4>5, <4>6, <4>7 DEF OneCall
      <4> QED BY <1>0, <3>2, <4>8, OneCallMoves
    <3>4. CASE Verifies(u)
      <4>1. token' = [token EXCEPT ![t] = good]
        BY <2>1, <2>6, <3>4 DEF CheckSignature
      <4>2. token'[t].verdict = "accepted"
        BY <1>a, <3>1, <4>1 DEF Slot
      <4>3. call' = [call EXCEPT ![c] = Forwarded(q, "whole")]
        BY <2>6, <4>2 DEF Becomes
      <4> HIDE DEF u, good
      <4>4. \A d \in Call \ {c} : call[d].slot \in Token =>
               token'[call[d].slot] = token[call[d].slot]
        BY <1>c, <3>1, <4>1
      <4>5. /\ Forwarded(q, "whole") \in CallRecord /\ Forwarded(q, "whole").slot = None
            /\ CallOK(Forwarded(q, "whole"), token', current)
        BY <2>4
      <4>6. OneCall(c, Forwarded(q, "whole"))
        BY <4>3, <4>4, <4>5 DEF OneCall
      <4> QED BY <1>0, <3>2, <4>5, <4>6, OneCallMoves
    <3> QED BY <3>3, <3>4
  <2>7. CASE digest = "wrong" /\ Becomes(c, refused) /\ UNCHANGED vars
    <3>1. CallOK(refused, token, current)
      BY <2>1, <2>5, <2>7 DEF CallOK, SlotOK, RefusalOK, Reason, HeadersOK
    <3> QED BY <1>d, <2>1, <2>5, <2>7, <3>1 DEF Becomes
  <2>8. ASSUME NEW body \in {"whole", "empty"}, Becomes(c, Forwarded(q, body)), UNCHANGED vars
        PROVE  EdgeInv'
    BY <1>d, <2>4, <2>8 DEF Becomes
  <2> QED BY <2>1, <2>6, <2>7, <2>8 DEF q, refused
<1>9. ASSUME NEW c \in Call, SignAnswer(c) PROVE EdgeInv'
  <2>1. PICK env \in EnvModes, route \in RouteModes, own \in UpstreamHeaders :
          LET mode == Resolve(env, route) IN
          Becomes(c, Signed(Answered(call[c], 200), mode,
                            SignatureHeaders(mode, "answer", own)))
    BY <1>9 DEF SignAnswer
  <2> DEFINE mode == Resolve(env, route)
             h == SignatureHeaders(mode, "answer", own)
             a == Answered(call[c], 200)
             r == Signed(a, mode, h)
  <2>2. mode \in Modes
    BY DEF Resolve
  <2>3. /\ h \in Headers /\ h.keyId = current
        /\ h.signature = [key |-> h.keyId, of |-> "answer"]
        /\ h.digest = "answer" /\ OwnPlaces(h, mode)
    BY <2>2, EdgeFacts, HeadersAreGood
  <2>4. call[c] \in CallRecord /\ call[c].age = 0 /\ call[c].slot = None
    BY <1>9, <1>a DEF SignAnswer, HeadersOK, SlotOK
  <2>5. /\ a \in CallRecord /\ a.slot = None /\ a.stage = "answered" /\ a.status = 200
        /\ a.age = 0
    BY <2>4, AnsweredCall
  <2>6. call' = [call EXCEPT ![c] = r]
    BY <2>1 DEF Becomes
  <2> HIDE DEF h, mode, a
  <2>7. /\ r \in CallRecord /\ r.slot = None /\ r.stage = "answered" /\ r.status = 200
        /\ r.headers = h /\ r.mode = mode /\ r.age = 0
    BY <2>2, <2>3, <2>5, SignedCall
  <2> HIDE DEF r
  <2>8. SlotOK(r, token) /\ RefusalOK(r, token, current)
    BY <2>7 DEF SlotOK, RefusalOK
  <2>9. HeadersOK(r, current)
    BY <2>3, <2>7, EdgeFacts DEF HeadersOK
  <2> QED BY <1>9, <1>d, <2>6, <2>7, <2>8, <2>9 DEF SignAnswer, CallOK
<1>10. ASSUME NEW c \in Call, Leave(c) PROVE EdgeInv'
  <2>1. Idle.slot = None
    BY DEF Idle
  <2> QED BY <1>d, <1>10, <2>1, IdleIsGood DEF Leave, Becomes
<1>11. CASE UNCHANGED edgeVars
  <2>1. token' = token /\ current' = current /\ call' = call
    BY <1>11 DEF edgeVars, vars, keyVars
  <2> QED BY <1>0, <2>1, OnlySignaturesMove DEF SameSignature
<1> QED
  BY <1>1, <1>2, <1>3, <1>4, <1>5, <1>6, <1>7, <1>8, <1>9, <1>10, <1>11 DEF EdgeNext

----------------------------------------------------------------------------
THEOREM EdgeInvariant == EdgeSpec => []EdgeInv
<1> QED BY EdgeInvInit, EdgeInvStep, PTL DEF EdgeSpec

\* The layers implement the keys' specification: what they do with keys and
\* signatures is no more than what VersionedKeys lets its clients do, so that all
\* that is proved of it holds here (jwt_auth.rs, body_integrity.rs, proxy.rs).
THEOREM EdgeImplementsKeys == EdgeSpec => Spec
<1>1. EdgeInit => Init
  BY DEF EdgeInit
<1> QED BY <1>1, EdgeInvariant, EdgeStepIsKeyStep, PTL DEF EdgeSpec, Spec

\* Every call has its type.
THEOREM EdgeTypeCorrect == EdgeSpec => []EdgeTypeOK
<1>1. EdgeInv => EdgeTypeOK
  BY DEF EdgeInv
<1> QED BY <1>1, EdgeInvariant, PTL

\* No call is refused without a reason that is still true when it has its answer
\* (jwt_auth.rs 224-266, body_integrity.rs 58-141).
THEOREM CallRefusalsAreExplained == EdgeSpec => []CallRefusalsExplained
<1>1. EdgeInv => CallRefusalsExplained
  BY DEF EdgeInv, CallOK, RefusalOK, Reason, CallRefusalsExplained
<1> QED BY <1>1, EdgeInvariant, PTL

\* Whatever x-pqc headers the upstream sent, those of the answer go together, its key
\* is published for as long as max_retained_keys promises, and only the places that
\* AnswerVerifies names may keep a value of the upstream's (proxy.rs 469-520).
THEOREM AnswersVerify == EdgeSpec => []AnswerVerifies
<1>1. EdgeInv => AnswerVerifies
  <2> SUFFICES ASSUME EdgeInv, NEW c \in Call, call[c].headers # None
               PROVE  LET h == call[c].headers IN
                      /\ h.signature = [key |-> h.keyId, of |-> "answer"]
                      /\ h.digest = "answer"
                      /\ call[c].age <= MaxRetained => h.keyId \in Published
                      /\ OwnPlaces(h, call[c].mode)
      BY DEF AnswerVerifies, OwnPlaces
  <2>1. HeadersOK(call[c], current) /\ call[c].age \in Nat
    BY DEF EdgeInv, CallOK, EdgeTypeOK, CallRecord
  <2>2. call[c].age <= MaxRetained => call[c].headers.keyId \in Published
    BY <2>1, KeysAssumption DEF HeadersOK, EdgeInv, RingInv, Window, Published
  <2> QED BY <2>1, <2>2 DEF HeadersOK
<1> QED BY <1>1, EdgeInvariant, PTL
=============================================================================
