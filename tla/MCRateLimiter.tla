---------------------------- MODULE MCRateLimiter ----------------------------
(* Instances of RateLimiter for TLC. *)
EXTENDS RateWindow

CONSTANTS r1, p1, p2

OneRoute == {r1}
TwoClients == {p1, p2}
FirstClient == <<r1, p1>>

Quota(n, w) == [requests |-> n, window |-> w]
\* One window is longer than max_age, one as long, one of zero.
ManyLimits == {Quota(1, 4), Quota(2, 3), Quota(0, 1), Quota(1, 0)}
=============================================================================
