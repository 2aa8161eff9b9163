--------------------------- MODULE MCConfigReload ---------------------------
(* Instances of ConfigReload for TLC. *)
EXTENDS ConfigReload

CONSTANTS a1, a2, h1, t1, t2, t3, s1, s2, u1, u2, u3

OneAdmin == {a1}
TwoAdmins == {a1, a2}
OneHandler == {h1}
\* t3 is one of the tables only an update publishes.  All share an upstream.
Tables == {t1, t2, t3}
ValidTables == {t1, t2}
TwoSettings == {s1, s2}
Urls == {u1, u2, u3}
UrlsOf == [t \in Tables |-> IF t = t1 THEN {u1, u2} ELSE {u2, u3}]
=============================================================================
