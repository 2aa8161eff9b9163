----------------------------- MODULE MCGateway -----------------------------
(* Instances of Gateway for TLC. *)
EXTENDS Gateway

CONSTANTS h1, h2, u1

TwoHandlers == {h1, h2}
OneUpstream == {u1}
=============================================================================
