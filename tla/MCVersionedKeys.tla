--------------------------- MODULE MCVersionedKeys ---------------------------
(* Instances of VersionedKeys for TLC. *)
EXTENDS VersionedKeys, TLC

CONSTANTS t1, t2

OneToken == {t1}
TwoTokens == {t1, t2}

TokenSymmetry == Permutations(Token)
=============================================================================
