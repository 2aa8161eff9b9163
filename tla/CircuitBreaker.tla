--------------------------- MODULE CircuitBreaker ---------------------------
(***************************************************************************)
(* The per-upstream circuit breaker of the gateway                         *)
(* (pqc-proxy/src/circuit_breaker.rs), with the two parties that drive it: *)
(* the request handlers (proxy.rs), which ask check_request before they    *)
(* forward and record one result when the upstream has answered, and the   *)
(* background health-check task.  Every method of the manager takes the    *)
(* write lock once and never awaits inside it, so each is one atomic step; *)
(* the interleavings are those of the awaits between the calls.            *)
(*                                                                         *)
(* Time is a Tick action.  An Instant is kept as its age, saturated at the *)
(* only value it is ever compared with, which loses nothing.               *)
(***************************************************************************)
EXTENDS Naturals, FiniteSets

CONSTANTS
    Upstream,          \* upstream base URLs, the keys of `circuits`
    Registered,        \* upstreams of the routes of the configuration at startup
    Request,           \* handler slots: concurrently running proxy_handler calls
    FailureThreshold,  \* CircuitBreakerConfig.failure_threshold
    RecoveryTimeout,   \* CircuitBreakerConfig.recovery_timeout, in ticks
    HealthInterval,    \* health_check_interval, in ticks; also the task's sleep
    MaxCount,          \* bound: the u64 totals saturate here
    None               \* Option::None

ASSUME ConstantsAssumption ==
    /\ Registered \subseteq Upstream
    /\ IsFiniteSet(Request)
    /\ FailureThreshold \in Nat
    /\ RecoveryTimeout \in Nat
    /\ HealthInterval \in Nat
    /\ MaxCount \in Nat
    /\ None \notin Nat
    /\ None \notin Upstream

VARIABLES
    circuit,     \* circuit[u]: the UpstreamCircuit of u
    registered,  \* the upstreams that have an entry in `circuits`
    target,      \* target[r]: upstream r was forwarded to, None when no call runs
    answer,      \* answer[r]: the answer on its way back to r
    epoch,       \* epoch[r]: total_circuit_opens when r was let through (history)
    pending,     \* health task: targets of this round not yet asked
    probing,     \* health task: upstream being asked, None between two asks
    verdict,     \* health task: the answer to the GET
    slept,       \* health task: how long it has slept
    serves,      \* environment: u answers requests in time and below 500
    passes       \* environment: u's health path answers 2xx

requestVars == <<target, answer, epoch>>
checkerVars == <<pending, probing, verdict, slept>>
worldVars == <<serves, passes>>
vars == <<circuit, registered, requestVars, checkerVars, worldVars>>

----------------------------------------------------------------------------
CircuitState == {"Closed", "Open", "HalfOpen"}
Answer == {"none", "ok", "fail"}

Saturate(n, bound) == IF n < bound THEN n + 1 ELSE bound

\* An Option<Instant> some time later.
Older(age, bound) == IF age = None THEN None ELSE Saturate(age, bound)

\* consecutive_failures is compared with the threshold only, after it has been
\* incremented: it saturates there (at one when the threshold is zero).
FailureCap == IF FailureThreshold = 0 THEN 1 ELSE FailureThreshold

Circuit ==
    [state : CircuitState, failures : 0..FailureCap,
     sinceFailure : 0..RecoveryTimeout \cup {None},
     sinceCheck : 0..HealthInterval \cup {None},
     healthy : BOOLEAN,
     totalRequests : 0..MaxCount, totalFailures : 0..MaxCount, opens : 0..MaxCount]

\* UpstreamCircuit::new.  last_success_time is written and never read.
NewCircuit ==
    [state |-> "Closed", failures |-> 0, sinceFailure |-> None,
     sinceCheck |-> None, healthy |-> TRUE,
     totalRequests |-> 0, totalFailures |-> 0, opens |-> 0]

Opened(c) == [c EXCEPT !.state = "Open", !.opens = Saturate(@, MaxCount)]

RecoveryElapsed(c) == c.sinceFailure # None /\ c.sinceFailure >= RecoveryTimeout

\* Mutant of Admits: a circuit whose health flag is up is not held back.
Admits_WhenHealthy(c) == c.state = "Open" => RecoveryElapsed(c) \/ c.healthy

\* check_request lets the call through.
Admits(c) == c.state = "Open" => RecoveryElapsed(c)

\* Mutant of Checked: the call is let through and the circuit left open.
Checked_StaysOpen(c) == [c EXCEPT !.totalRequests = Saturate(@, MaxCount)]

\* The circuit check_request leaves behind.
Checked(c) ==
    [c EXCEPT !.totalRequests = Saturate(@, MaxCount),
              !.state = IF @ = "Open" /\ RecoveryElapsed(c) THEN "HalfOpen" ELSE @]

\* Mutant of Succeeded: the failures counted before the outage stay on the count.
Succeeded_KeepsCount(c) == [c EXCEPT !.state = "Closed", !.healthy = TRUE]

\* record_success closes the circuit whatever state it is in.
Succeeded(c) == [c EXCEPT !.failures = 0, !.state = "Closed", !.healthy = TRUE]

\* Mutant of Failed: a failed probe is only counted.
Failed_KeepsHalfOpen(c) ==
    LET counted == [c EXCEPT !.failures = Saturate(@, FailureCap), !.sinceFailure = 0,
                             !.totalFailures = Saturate(@, MaxCount)]
    IN  IF c.state = "Closed" /\ counted.failures >= FailureThreshold
        THEN [Opened(counted) EXCEPT !.healthy = FALSE] ELSE counted

\* record_failure.  A failure reported while the circuit is already open only
\* restarts the recovery timer.
Failed(c) ==
    LET counted == [c EXCEPT !.failures = Saturate(@, FailureCap),
                             !.totalFailures = Saturate(@, MaxCount),
                             !.sinceFailure = 0]
        trips == c.state = "Closed" /\ counted.failures >= FailureThreshold
    IN  IF c.state = "HalfOpen" THEN Opened(counted)
        ELSE IF trips THEN [Opened(counted) EXCEPT !.healthy = FALSE]
        ELSE counted

\* Mutant of HealthUpdated: checks are displayed and trip nothing.
HealthUpdated_DisplayOnly(c, ok) ==
    [c EXCEPT !.sinceCheck = 0, !.healthy = ok,
              !.state = IF ok /\ @ = "Open" THEN "HalfOpen" ELSE @]

\* Mutant of HealthUpdated: a passed check leaves an open circuit to its timer.
HealthUpdated_TimerOnly(c, ok) ==
    LET counted == [c EXCEPT !.sinceCheck = 0, !.healthy = ok,
                             !.failures = IF ok THEN @ ELSE Saturate(@, FailureCap)]
    IN  IF ~ok /\ c.state = "Closed" /\ counted.failures >= FailureThreshold
        THEN Opened(counted) ELSE counted

\* Mutant of HealthUpdated: a failed check is booked as a failed request.
HealthUpdated_BooksFailure(c, ok) ==
    [c EXCEPT !.sinceCheck = 0, !.healthy = ok,
              !.totalFailures = IF ok THEN @ ELSE Saturate(@, MaxCount)]

\* update_health.  A failed check counts towards the threshold but is not a
\* last_failure_time; a passed one moves Open to HalfOpen and clears nothing.
HealthUpdated(c, ok) ==
    LET seen == [c EXCEPT !.sinceCheck = 0, !.healthy = ok]
        counted == [seen EXCEPT !.failures = Saturate(@, FailureCap)]
    IN  IF ok /\ c.state = "Open" THEN [seen EXCEPT !.state = "HalfOpen"]
        ELSE IF ~ok /\ c.state = "Closed"
        THEN IF counted.failures >= FailureThreshold THEN Opened(counted) ELSE counted
        ELSE seen

Aged(c) == [c EXCEPT !.sinceFailure = Older(@, RecoveryTimeout),
                     !.sinceCheck = Older(@, HealthInterval)]

\* upstreams_needing_health_check
NeedsCheck(c) == c.sinceCheck = None \/ c.sinceCheck >= HealthInterval

Sleeping == pending = {} /\ probing = None

----------------------------------------------------------------------------
Init ==
    /\ circuit = [u \in Upstream |-> NewCircuit]
    /\ registered = Registered
    /\ target = [r \in Request |-> None]
    /\ answer = [r \in Request |-> "none"]
    /\ epoch = [r \in Request |-> 0]
    /\ pending = {} /\ probing = None /\ verdict = "none" /\ slept = 0
    /\ serves \in [Upstream -> BOOLEAN]
    /\ passes \in [Upstream -> BOOLEAN]

\* reload_config registers the upstreams of the new routes; an entry that
\* exists is kept with its state, and no entry is ever removed.
Register(u) ==
    /\ u \notin registered
    /\ registered' = registered \cup {u}
    /\ UNCHANGED <<circuit, requestVars, checkerVars, worldVars>>

\* proxy_handler reaches check_request: the call is forwarded, or refused at once.
Arrive(r, u) ==
    /\ target[r] = None
    /\ registered' = registered \cup {u}
    /\ circuit' = [circuit EXCEPT ![u] = Checked(@)]
    /\ IF Admits(circuit[u])
       THEN /\ target' = [target EXCEPT ![r] = u]
            /\ epoch' = [epoch EXCEPT ![r] = circuit[u].opens]
       ELSE UNCHANGED <<target, epoch>>
    /\ UNCHANGED <<answer, checkerVars, worldVars>>

\* The upstream's answer, a transport error or the timeout is decided; it
\* reaches the handler later, when the circuit may have changed.
Respond(r) ==
    /\ target[r] # None
    /\ answer[r] = "none"
    /\ answer' = [answer EXCEPT ![r] = IF serves[target[r]] THEN "ok" ELSE "fail"]
    /\ UNCHANGED <<circuit, registered, target, epoch, checkerVars, worldVars>>

Release(r) ==
    /\ target' = [target EXCEPT ![r] = None]
    /\ answer' = [answer EXCEPT ![r] = "none"]
    /\ epoch' = [epoch EXCEPT ![r] = 0]

\* record_success ignores an upstream without an entry, record_failure adds one.
Record(r) ==
    /\ target[r] # None
    /\ \/ /\ answer[r] = "ok"
          /\ circuit' = IF target[r] \in registered
                        THEN [circuit EXCEPT ![target[r]] = Succeeded(@)]
                        ELSE circuit
          /\ UNCHANGED registered
       \/ /\ answer[r] = "fail"
          /\ circuit' = [circuit EXCEPT ![target[r]] = Failed(@)]
          /\ registered' = registered \cup {target[r]}
    /\ Release(r)
    /\ UNCHANGED <<checkerVars, worldVars>>

\* The call ends after check_request with nothing recorded: its upstream URI
\* does not parse, or the client goes away and the handler is dropped.
Abandon(r) ==
    /\ target[r] # None
    /\ Release(r)
    /\ UNCHANGED <<circuit, registered, checkerVars, worldVars>>

----------------------------------------------------------------------------
\* The health task wakes up and takes its snapshot of the circuits to check.
StartRound ==
    /\ Sleeping
    /\ slept >= HealthInterval
    /\ pending' = {u \in registered : NeedsCheck(circuit[u])}
    /\ slept' = 0
    /\ UNCHANGED <<circuit, registered, requestVars, probing, verdict, worldVars>>

\* It sends the next GET; the map's iteration order is arbitrary.
Probe(u) ==
    /\ u \in pending
    /\ probing = None
    /\ probing' = u
    /\ pending' = pending \ {u}
    /\ UNCHANGED <<circuit, registered, requestVars, verdict, slept, worldVars>>

\* The health endpoint answers, fails, or the client's five seconds are over.
ProbeAnswered ==
    /\ probing # None
    /\ verdict = "none"
    /\ verdict' = IF passes[probing] THEN "ok" ELSE "fail"
    /\ UNCHANGED <<circuit, registered, requestVars, pending, probing, slept, worldVars>>

UpdateHealth ==
    /\ verdict # "none"
    /\ circuit' = IF probing \in registered
                  THEN [circuit EXCEPT ![probing] = HealthUpdated(@, verdict = "ok")]
                  ELSE circuit
    /\ probing' = None
    /\ verdict' = "none"
    /\ UNCHANGED <<registered, requestVars, pending, slept, worldVars>>

----------------------------------------------------------------------------
\* Mutant of Tick: the task wakes at a fixed rate, counted from the round's start.
Tick_FixedRate ==
    /\ circuit' = [u \in Upstream |-> Aged(circuit[u])]
    /\ slept' = Saturate(slept, HealthInterval)
    /\ UNCHANGED <<registered, requestVars, pending, probing, verdict, worldVars>>

Tick ==
    /\ circuit' = [u \in Upstream |-> Aged(circuit[u])]
    /\ slept' = IF Sleeping THEN Saturate(slept, HealthInterval) ELSE slept
    /\ UNCHANGED <<registered, requestVars, pending, probing, verdict, worldVars>>

\* An upstream goes down or comes back, for requests and health checks apart.
Weather(u) ==
    /\ \/ serves' = [serves EXCEPT ![u] = ~@] /\ UNCHANGED passes
       \/ passes' = [passes EXCEPT ![u] = ~@] /\ UNCHANGED serves
    /\ UNCHANGED <<circuit, registered, requestVars, checkerVars>>

Next ==
    \/ \E u \in Upstream : Register(u)
    \/ \E r \in Request, u \in Upstream : Arrive(r, u)
    \/ \E r \in Request : Respond(r)
    \/ \E r \in Request : Record(r)
    \/ \E r \in Request : Abandon(r)
    \/ StartRound
    \/ \E u \in Upstream : Probe(u)
    \/ ProbeAnswered
    \/ UpdateHealth
    \/ Tick
    \/ \E u \in Upstream : Weather(u)

Spec == Init /\ [][Next]_vars

\* The clock runs and tokio keeps running the health task: its sleep ends, and
\* the client's five-second timeout makes every GET answer.
TaskFairness ==
    /\ WF_vars(Tick)
    /\ WF_vars(StartRound)
    /\ WF_vars(\E u \in Upstream : Probe(u))
    /\ WF_vars(ProbeAnswered)
    /\ WF_vars(UpdateHealth)

\* Clients keep calling every upstream, and do not all hang up before they are
\* answered: the upstream timeout bounds the wait of the others.
TrafficFairness ==
    /\ \A r \in Request, u \in Upstream : SF_vars(Arrive(r, u))
    /\ \A r \in Request : SF_vars(Respond(r)) /\ SF_vars(Record(r))

TaskSpec == Spec /\ TaskFairness
FairSpec == TaskSpec /\ TrafficFairness

----------------------------------------------------------------------------
\* Every variable has its type; an idle slot carries no answer.
TypeOK ==
    /\ circuit \in [Upstream -> Circuit]
    /\ registered \subseteq Upstream
    /\ target \in [Request -> Upstream \cup {None}]
    /\ answer \in [Request -> Answer]
    /\ epoch \in [Request -> 0..MaxCount]
    /\ pending \subseteq Upstream
    /\ probing \in Upstream \cup {None}
    /\ verdict \in Answer
    /\ slept \in 0..HealthInterval
    /\ serves \in [Upstream -> BOOLEAN]
    /\ passes \in [Upstream -> BOOLEAN]
    /\ \A r \in Request : target[r] = None => answer[r] = "none"
    /\ probing = None => verdict = "none"

\* A closed circuit has fewer failures on its count than the threshold, in
\* whatever order stale successes, stale failures and health checks are applied:
\* a circuit that closes starts counting from zero (circuit_breaker.rs 148-219).
ClosedBelowThreshold ==
    \A u \in Upstream :
        circuit[u].state = "Closed" =>
            circuit[u].failures = 0 \/ circuit[u].failures < FailureThreshold

\* While a circuit is open, every call still running against the upstream was
\* let through before the latest opening: nothing has slipped past check_request
\* since (119-145), by whichever of the three ways the circuit was opened.
OpenAdmitsNothing ==
    \A r \in Request :
        (target[r] # None /\ circuit[target[r]].state = "Open"
                          /\ circuit[target[r]].opens < MaxCount)
            => epoch[r] < circuit[target[r]].opens

Running(u) == {r \in Request : target[r] = u}

\* A circuit never reports more failures than requests: each call that was
\* counted is blamed at most once, and health checks are not requests.  The
\* counters are what /admin/circuit-breakers shows (get_status, 222-240).
FailuresAccountedFor ==
    \A u \in Upstream :
        circuit[u].totalRequests < MaxCount =>
            circuit[u].totalFailures + Cardinality(Running(u)) <= circuit[u].totalRequests

\* When the health task may wake up, every registered circuit is due: because
\* the sleep starts after the last check of a round, no upstream misses a round
\* however long the others took to answer (255-276, 301-313).
NoUpstreamSkipsARound ==
    (Sleeping /\ slept >= HealthInterval) =>
        \A u \in registered : NeedsCheck(circuit[u])

\* Only a finished call closes a circuit, and only its own: never a health
\* check, the clock or a call to another upstream (148-161, 209-211).
OnlySuccessCloses ==
    [][\A u \in Upstream :
         (circuit[u].state # "Closed" /\ circuit'[u].state = "Closed") =>
            \E r \in Request : target[r] = u /\ answer[r] = "ok" /\ target'[r] = None]_vars

\* The breaker of the code implements the contract of BreakerContract: through
\* every interleaving of handlers and health checks, the three modes move only
\* as promised there (119-219).
Contract == INSTANCE BreakerContract
            WITH mode <- [u \in Upstream |-> circuit[u].state],
                 running <- target,
                 failed <- [u \in Upstream |-> circuit[u].totalFailures]
ImplementsContract == Contract!Spec

----------------------------------------------------------------------------
\* An upstream that recovers for good is eventually served again for good,
\* however its circuit was opened: by requests, by health checks or by both.
EventuallyServedAgain ==
    \A u \in Upstream :
        <>[](serves[u] /\ passes[u]) => <>[](circuit[u].state = "Closed")

\* An upstream that fails for good is eventually never trusted again, with no
\* traffic at all: the health checks alone find it (201-219).
EventuallyDistrusted ==
    \A u \in Registered :
        <>[](~serves[u] /\ ~passes[u]) => <>[](circuit[u].state # "Closed")

\* A circuit that some request has failed on does not stay open while clients
\* keep calling: failures that arrive late push the deadline back (169), but
\* only those already running can.
TimedRecovery ==
    \A u \in Upstream :
        (circuit[u].state = "Open" /\ circuit[u].sinceFailure # None)
            ~> circuit[u].state # "Open"

----------------------------------------------------------------------------
\* recovery_timeout is "How long to wait in Open state before trying HalfOpen"
\* (circuit_breaker.rs:41): an open circuit in front of an upstream that serves
\* every call is tried again when clients keep calling.
OpenIsTriedAgain ==
    \A u \in Upstream :
        []serves[u] => (circuit[u].state = "Open" ~> circuit[u].state # "Open")
=============================================================================
