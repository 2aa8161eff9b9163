------------------------------- MODULE MCEdge -------------------------------
(* An instance of EdgeLayers for TLC. *)
EXTENDS EdgeLayers, TLC

CONSTANTS t1, t2

TwoTokens == {t1, t2}
TokenSymmetry == Permutations(Token)

EnvChoices == {None, "classical", "other"}
RouteChoices == {None, "classical", "hybrid"}
=============================================================================
