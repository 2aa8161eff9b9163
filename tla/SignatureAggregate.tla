-------------------------- MODULE SignatureAggregate --------------------------
(***************************************************************************)
(* Aggregated signatures (pqc-tls/src/batch_verify.rs 236-394): signatures *)
(* of any messages, collected with their public keys stored once each.     *)
(*                                                                         *)
(* A signature is the key and the message it was made from; SHA-256 is     *)
(* injective, so a message stands for its hash as well.                    *)
(***************************************************************************)
EXTENDS Naturals, Sequences, Functions

CONSTANTS
    SignKeys,      \* key pairs, known by their public key
    SignMessages,  \* messages
    MaxAggregate   \* bound on the entries of an aggregate

ASSUME AggregateAssumption == MaxAggregate \in Nat

VARIABLES
    aggregate,  \* the SignatureAggregator's entries, public_keys and key_indices
    finalized,  \* whether finalize() has consumed it
    added       \* what add() was given so far, in order (history)

aggregateVars == <<aggregate, finalized, added>>

Signatures == [key : SignKeys, message : SignMessages]

\* ml_dsa_verify
Verifies(key, message, sig) == sig = [key |-> key, message |-> message]

----------------------------------------------------------------------------
\* An aggregate.  Positions count from 1 here, from 0 in the code.

KeyPosition(keys, key) ==
    IF key \in Range(keys) THEN CHOOSE i \in DOMAIN keys : keys[i] = key ELSE 0

\* Mutant of AddToAggregate: the index is that of the last key, as if each
\* entry brought its own.
AddToAggregate_LastKey(key, message, sig) ==
    /\ ~finalized
    /\ Len(added) < MaxAggregate
    /\ LET known == key \in Range(aggregate.publicKeys)
           keys == IF known THEN aggregate.publicKeys
                   ELSE Append(aggregate.publicKeys, key)
       IN aggregate' =
            [entries |-> Append(aggregate.entries, [messageHash |-> message, signature |-> sig]),
             publicKeys |-> keys,
             keyIndices |-> Append(aggregate.keyIndices, Len(keys))]
    /\ added' = Append(added, [key |-> key, message |-> message, signature |-> sig])
    /\ UNCHANGED finalized

AddToAggregate(key, message, sig) ==
    /\ ~finalized
    /\ Len(added) < MaxAggregate
    /\ LET known == KeyPosition(aggregate.publicKeys, key)
           keys == IF known > 0 THEN aggregate.publicKeys
                   ELSE Append(aggregate.publicKeys, key)
       IN aggregate' =
            [entries |-> Append(aggregate.entries, [messageHash |-> message, signature |-> sig]),
             publicKeys |-> keys,
             keyIndices |-> Append(aggregate.keyIndices, IF known > 0 THEN known ELSE Len(keys))]
    /\ added' = Append(added, [key |-> key, message |-> message, signature |-> sig])
    /\ UNCHANGED finalized

Finalize ==
    /\ ~finalized
    /\ finalized' = TRUE
    /\ UNCHANGED <<aggregate, added>>

\* verify_all asserts that there are as many messages as entries; then the
\* positions it counts as failed, the hash compared before the signature.
VerifyAllPanics(messages) == Len(messages) # Len(aggregate.entries)
VerifyAllFailures(messages) ==
    {i \in DOMAIN aggregate.entries :
        \/ messages[i] # aggregate.entries[i].messageHash
        \/ ~Verifies(aggregate.publicKeys[aggregate.keyIndices[i]], messages[i],
                     aggregate.entries[i].signature)}

----------------------------------------------------------------------------
AggregateInit ==
    /\ aggregate = [entries |-> <<>>, publicKeys |-> <<>>, keyIndices |-> <<>>]
    /\ finalized = FALSE
    /\ added = <<>>

AggregateNext ==
    \/ \E k \in SignKeys, m \in SignMessages, s \in Signatures : AddToAggregate(k, m, s)
    \/ Finalize

AggregateSpec == AggregateInit /\ [][AggregateNext]_aggregateVars

----------------------------------------------------------------------------
\* Sharing the public keys loses nothing: with whatever messages the aggregate
\* is verified, the entries that fail are those whose own key, message and
\* signature, as add() was given them, do not go together or whose message is
\* not the one shown (batch_verify.rs 276-302 against 340-381).
AggregateKeepsEntries ==
    finalized =>
        \A messages \in [DOMAIN added -> SignMessages] :
            /\ ~VerifyAllPanics(messages)
            /\ VerifyAllFailures(messages) =
                 {i \in DOMAIN added :
                     ~ /\ messages[i] = added[i].message
                       /\ Verifies(added[i].key, added[i].message, added[i].signature)}
=============================================================================
