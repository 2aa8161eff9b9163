---------------------------- MODULE MultiSignature ----------------------------
(***************************************************************************)
(* Multi-signatures (pqc-tls/src/batch_verify.rs 144-234): several signers *)
(* sign one message.                                                       *)
(*                                                                         *)
(* A signature is the key and the message it was made from; SHA-256 is     *)
(* injective, so a message stands for its hash as well.                    *)
(***************************************************************************)
EXTENDS Naturals, Sequences, Functions

CONSTANTS
    SignerKeys,  \* key pairs: a member is the seed and its public key
    Documents,   \* messages
    MaxSigners   \* bound on the contributions and on required_signers

ASSUME MultiSignatureAssumption == MaxSigners \in Nat

VARIABLES
    multi,  \* the MultiSignature, or its builder
    stage   \* "none", "building", "built" or "refused"

multiVars == <<multi, stage>>

\* ml_dsa_verify
Authentic(key, message, sig) == sig = [key |-> key, message |-> message]

VerifyMultiSignature(ms, message) ==
    /\ ms.messageHash = message
    /\ Len(ms.contributions) >= ms.required
    /\ \A c \in Range(ms.contributions) : Authentic(c.key, message, c.signature)

NewMultiSignature ==
    \E m \in Documents, r \in 0..MaxSigners :
        /\ stage = "none"
        /\ multi' = [messageHash |-> m, contributions |-> <<>>, required |-> r]
        /\ stage' = "building"

\* The seed signs; the public key recorded beside it is the caller's word.
AddSigner ==
    \E seed, key \in SignerKeys :
        /\ stage = "building"
        /\ Len(multi.contributions) < MaxSigners
        /\ multi' = [multi EXCEPT !.contributions =
             Append(@, [key |-> key,
                        signature |-> [key |-> seed, message |-> multi.messageHash]])]
        /\ UNCHANGED stage

\* Mutant of Build: no count.
Build_Uncounted ==
    /\ stage = "building"
    /\ stage' = "built"
    /\ UNCHANGED multi

Build ==
    /\ stage = "building"
    /\ stage' = IF Len(multi.contributions) < multi.required THEN "refused" ELSE "built"
    /\ UNCHANGED multi

----------------------------------------------------------------------------
MultiInit ==
    /\ multi = <<>>
    /\ stage = "none"

MultiNext ==
    \/ NewMultiSignature
    \/ AddSigner
    \/ Build

MultiSpec == MultiInit /\ [][MultiNext]_multiVars

----------------------------------------------------------------------------
\* A multi-signature that build() hands out verifies for its own message and no
\* other, exactly when each signer's recorded public key is that of the seed it
\* signed with: no signer can spoil or vouch for another's contribution, and
\* build() lets nothing through that verification would refuse for its count
\* (batch_verify.rs 168-233).
BuiltVerifies ==
    stage = "built" =>
        \A m \in Documents :
            VerifyMultiSignature(multi, m) <=>
                /\ m = multi.messageHash
                /\ \A c \in Range(multi.contributions) : c.signature.key = c.key
=============================================================================
