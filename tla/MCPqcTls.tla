------------------------------ MODULE MCPqcTls ------------------------------
(***************************************************************************)
(* The libraries of pqc-tls that the gateway does not call, together for   *)
(* TLC.  They share nothing: one of them moves while the others are where  *)
(* they began, so that their states add up and do not multiply.            *)
(***************************************************************************)
EXTENDS BatchVerify, MultiSignature, SignatureAggregate, TimestampProof, Threshold, TrustStore

libVars ==
    <<batchVars, multiVars, aggregateVars, stampVars, thresholdVars, storeVars>>

Init ==
    BatchInit /\ MultiInit /\ AggregateInit /\ StampInit /\ ThresholdInit /\ StoreInit

Next ==
    \/ /\ MultiInit /\ AggregateInit /\ StampInit /\ ThresholdInit /\ StoreInit
       /\ BatchNext
       /\ UNCHANGED <<multiVars, aggregateVars, stampVars, thresholdVars, storeVars>>
    \/ /\ BatchInit /\ AggregateInit /\ StampInit /\ ThresholdInit /\ StoreInit
       /\ MultiNext
       /\ UNCHANGED <<batchVars, aggregateVars, stampVars, thresholdVars, storeVars>>
    \/ /\ BatchInit /\ MultiInit /\ StampInit /\ ThresholdInit /\ StoreInit
       /\ AggregateNext
       /\ UNCHANGED <<batchVars, multiVars, stampVars, thresholdVars, storeVars>>
    \/ /\ BatchInit /\ MultiInit /\ AggregateInit /\ ThresholdInit /\ StoreInit
       /\ StampNext
       /\ UNCHANGED <<batchVars, multiVars, aggregateVars, thresholdVars, storeVars>>
    \/ /\ BatchInit /\ MultiInit /\ AggregateInit /\ StampInit /\ StoreInit
       /\ ThresholdNext
       /\ UNCHANGED <<batchVars, multiVars, aggregateVars, stampVars, storeVars>>
    \/ /\ BatchInit /\ MultiInit /\ AggregateInit /\ StampInit /\ ThresholdInit
       /\ StoreNext
       /\ UNCHANGED <<batchVars, multiVars, aggregateVars, stampVars, thresholdVars>>

Spec == Init /\ [][Next]_libVars

----------------------------------------------------------------------------
\* A seed byte and two coefficients with high and low bits set; two schemes.
SeedBytes == {{0, 1, 4, 6}}
RandomBytes == {{0, 3, 7}, {1, 2}}
Schemes == {[threshold |-> 2, total |-> 3], [threshold |-> 3, total |-> 3]}

\* The hybrid chain of the documentation, from the root down.
HybridChain == <<"ECDSA-P256", "Ed25519", "ML-DSA-65">>

Names == Permutations(Subjects)
=============================================================================
