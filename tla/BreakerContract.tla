-------------------------- MODULE BreakerContract --------------------------
(***************************************************************************)
(* What a circuit breaker promises its clients and its upstreams, without  *)
(* thresholds, timers or health-check rounds: which steps may move an      *)
(* upstream between the three modes, and which calls may run.              *)
(*   - a call starts only against a mode other than Open, or turns Open    *)
(*     into HalfOpen by starting;                                          *)
(*   - only a successful call closes, and it closes from any mode;         *)
(*   - a failure that is counted always reopens a half-open circuit;       *)
(*   - a health check alone may open a closed circuit, and may at most     *)
(*     half-open an open one.                                              *)
(***************************************************************************)
EXTENDS Naturals

CONSTANTS
    Upstream, Request, None,
    MaxCount   \* bound: the count of failures saturates here

VARIABLES
    mode,     \* mode[u]: what the breaker thinks of u
    running,  \* running[r]: the upstream call r runs against, or None
    failed    \* failed[u]: how many calls to u were counted as failed

vars == <<mode, running, failed>>

Init ==
    /\ mode = [u \in Upstream |-> "Closed"]
    /\ running = [r \in Request |-> None]
    /\ failed = [u \in Upstream |-> 0]

Become(u, m) == mode' = [mode EXCEPT ![u] = m]
Finish(r) == running' = [running EXCEPT ![r] = None]

Start(r, u) ==
    /\ running[r] = None
    /\ running' = [running EXCEPT ![r] = u]
    /\ \/ mode[u] # "Open" /\ UNCHANGED mode
       \/ mode[u] = "Open" /\ Become(u, "HalfOpen")
    /\ UNCHANGED failed

Succeed(r) ==
    /\ running[r] # None
    /\ Finish(r)
    /\ Become(running[r], "Closed")
    /\ UNCHANGED failed

Fail(r) ==
    /\ running[r] # None
    /\ Finish(r)
    /\ \/ mode[running[r]] # "HalfOpen" /\ UNCHANGED mode
       \/ Become(running[r], "Open")
    /\ failed' = [failed EXCEPT ![running[r]] = IF @ < MaxCount THEN @ + 1 ELSE MaxCount]

Drop(r) ==
    /\ running[r] # None
    /\ Finish(r)
    /\ UNCHANGED <<mode, failed>>

HealthPassed(u) ==
    /\ mode[u] = "Open"
    /\ Become(u, "HalfOpen")
    /\ UNCHANGED <<running, failed>>

HealthFailed(u) ==
    /\ mode[u] = "Closed"
    /\ Become(u, "Open")
    /\ UNCHANGED <<running, failed>>

Next ==
    \/ \E r \in Request, u \in Upstream : Start(r, u)
    \/ \E r \in Request : Succeed(r) \/ Fail(r) \/ Drop(r)
    \/ \E u \in Upstream : HealthPassed(u) \/ HealthFailed(u)

Spec == Init /\ [][Next]_vars
=============================================================================
