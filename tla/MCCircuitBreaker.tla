-------------------------- MODULE MCCircuitBreaker --------------------------
(* Instances of CircuitBreaker for TLC. *)
EXTENDS CircuitBreaker, TLC

CONSTANTS a, b, r1, r2

OneUpstream == {a}
TwoUpstreams == {a, b}
OneRequest == {r1}
TwoRequests == {r1, r2}

RequestSymmetry == Permutations(Request)
=============================================================================
