------------------------ MODULE CircuitBreakerProofs ------------------------
(***************************************************************************)
(* Theorems about CircuitBreaker for every set of upstreams and handlers,  *)
(* every threshold, timeout and interval.                                  *)
(***************************************************************************)
EXTENDS CircuitBreaker, FiniteSetTheorems, TLAPS

----------------------------------------------------------------------------
(* The methods of the manager, as functions of the one circuit they touch. *)

\* A saturating counter stays within its bound.
LEMMA SaturateBound ==
    ASSUME NEW bound \in Nat, NEW n \in 0..bound
    PROVE  Saturate(n, bound) \in 0..bound
BY DEF Saturate

\* Ageing an Option<Instant> keeps it one.
LEMMA OlderBound ==
    ASSUME NEW bound \in Nat, NEW age \in 0..bound \cup {None}
    PROVE  Older(age, bound) \in 0..bound \cup {None}
BY ConstantsAssumption DEF Older, Saturate

\* The failure count can hold at least one failure.
LEMMA FailureCapPositive == FailureCap \in Nat \ {0}
BY ConstantsAssumption DEF FailureCap

\* UpstreamCircuit::new is well formed.
LEMMA NewCircuitType == NewCircuit \in Circuit
BY ConstantsAssumption, FailureCapPositive DEF NewCircuit, Circuit, CircuitState

\* Opening a circuit keeps it well formed.
LEMMA OpenedType ==
    ASSUME NEW c \in Circuit PROVE Opened(c) \in Circuit
BY ConstantsAssumption, SaturateBound DEF Opened, Circuit, CircuitState

\* So does check_request.
LEMMA CheckedType ==
    ASSUME NEW c \in Circuit PROVE Checked(c) \in Circuit
<1>1. PICK n \in 0..MaxCount, s \in CircuitState :
            Checked(c) = [c EXCEPT !.totalRequests = n, !.state = s]
    BY ConstantsAssumption, SaturateBound DEF Checked, Circuit, CircuitState
<1>2. QED
    BY <1>1 DEF Circuit

\* So does record_success.
LEMMA SucceededType ==
    ASSUME NEW c \in Circuit PROVE Succeeded(c) \in Circuit
<1>1. 0 \in 0..FailureCap
    BY FailureCapPositive
<1>2. QED
    BY <1>1 DEF Succeeded, Circuit, CircuitState

\* So does record_failure.
LEMMA FailedType ==
    ASSUME NEW c \in Circuit PROVE Failed(c) \in Circuit
<1> DEFINE counted == [c EXCEPT !.failures = Saturate(@, FailureCap),
                                !.totalFailures = Saturate(@, MaxCount),
                                !.sinceFailure = 0]
<1>1. counted \in Circuit
    <2>1. /\ Saturate(c.failures, FailureCap) \in 0..FailureCap
          /\ Saturate(c.totalFailures, MaxCount) \in 0..MaxCount
        BY ConstantsAssumption, FailureCapPositive, SaturateBound DEF Circuit
    <2>2. 0 \in 0..RecoveryTimeout
        BY ConstantsAssumption
    <2>3. QED
        BY <2>1, <2>2 DEF Circuit
<1>2. Opened(counted) \in Circuit
    BY <1>1, OpenedType
<1>3. [Opened(counted) EXCEPT !.healthy = FALSE] \in Circuit
    BY <1>2 DEF Circuit
<1>4. QED
    BY <1>1, <1>2, <1>3 DEF Failed

\* So does update_health.
LEMMA HealthUpdatedType ==
    ASSUME NEW c \in Circuit, NEW ok \in BOOLEAN
    PROVE  HealthUpdated(c, ok) \in Circuit
<1> DEFINE seen == [c EXCEPT !.sinceCheck = 0, !.healthy = ok]
           counted == [seen EXCEPT !.failures = Saturate(@, FailureCap)]
<1>1. seen \in Circuit
    <2>1. 0 \in 0..HealthInterval
        BY ConstantsAssumption
    <2>2. QED
        BY <2>1 DEF Circuit
<1>2. counted \in Circuit
    BY <1>1, FailureCapPositive, SaturateBound DEF Circuit
<1>3. Opened(counted) \in Circuit
    BY <1>2, OpenedType
<1>4. [seen EXCEPT !.state = "HalfOpen"] \in Circuit
    BY <1>1 DEF Circuit, CircuitState
<1>5. QED
    BY <1>1, <1>2, <1>3, <1>4 DEF HealthUpdated

\* So does the passing of time.
LEMMA AgedType ==
    ASSUME NEW c \in Circuit PROVE Aged(c) \in Circuit
BY ConstantsAssumption, OlderBound DEF Aged, Circuit

----------------------------------------------------------------------------
(* Type correctness. *)

\* The invariant of every state: variables keep their types and a slot that
\* runs no call, or a task that awaits no check, holds no answer.
THEOREM TypeCorrect == Spec => []TypeOK
<1>1. Init => TypeOK
    BY ConstantsAssumption, NewCircuitType DEF Init, TypeOK, Answer
<1>2. TypeOK /\ [Next]_vars => TypeOK'
    <2> SUFFICES ASSUME TypeOK, [Next]_vars PROVE TypeOK'
        OBVIOUS
    <2> USE DEF requestVars, checkerVars, worldVars
    <2>1. ASSUME NEW u \in Upstream, Register(u) PROVE TypeOK'
        BY <2>1 DEF TypeOK, Register
    <2>2. ASSUME NEW r \in Request, NEW u \in Upstream, Arrive(r, u) PROVE TypeOK'
        <3>1. circuit' \in [Upstream -> Circuit]
            BY <2>2, CheckedType DEF TypeOK, Arrive
        <3>2. circuit[u].opens \in 0..MaxCount
            BY DEF TypeOK, Circuit
        <3>3. epoch' \in [Request -> 0..MaxCount]
            BY <2>2, <3>2 DEF TypeOK, Arrive
        <3>4. target' \in [Request -> Upstream \cup {None}]
            BY <2>2 DEF TypeOK, Arrive
        <3>5. \A q \in Request : target'[q] = None => answer'[q] = "none"
            BY <2>2, ConstantsAssumption DEF TypeOK, Arrive
        <3>6. QED
            BY <2>2, <3>1, <3>3, <3>4, <3>5 DEF TypeOK, Arrive
    <2>3. ASSUME NEW r \in Request, Respond(r) PROVE TypeOK'
        BY <2>3 DEF TypeOK, Respond, Answer
    <2>4. ASSUME NEW r \in Request, Record(r) PROVE TypeOK'
        <3>1. circuit' \in [Upstream -> Circuit] /\ registered' \subseteq Upstream
            BY <2>4, SucceededType, FailedType DEF TypeOK, Record
        <3>2. QED
            BY <2>4, <3>1, ConstantsAssumption DEF TypeOK, Record, Release, Answer
    <2>5. ASSUME NEW r \in Request, Abandon(r) PROVE TypeOK'
        BY <2>5, ConstantsAssumption DEF TypeOK, Abandon, Release, Answer
    <2>6. CASE StartRound
        BY <2>6, ConstantsAssumption DEF TypeOK, StartRound
    <2>7. ASSUME NEW u \in Upstream, Probe(u) PROVE TypeOK'
        BY <2>7, ConstantsAssumption DEF TypeOK, Probe
    <2>8. CASE ProbeAnswered
        BY <2>8 DEF TypeOK, ProbeAnswered, Answer
    <2>9. CASE UpdateHealth
        <3>1. circuit' \in [Upstream -> Circuit]
            BY <2>9, HealthUpdatedType DEF TypeOK, UpdateHealth
        <3>2. QED
            BY <2>9, <3>1 DEF TypeOK, UpdateHealth, Answer
    <2>10. CASE Tick
        <3>1. circuit' \in [Upstream -> Circuit]
            BY <2>10, AgedType DEF TypeOK, Tick
        <3>2. slept' \in 0..HealthInterval
            BY <2>10, SaturateBound, ConstantsAssumption DEF TypeOK, Tick
        <3>3. QED
            BY <2>10, <3>1, <3>2 DEF TypeOK, Tick
    <2>11. ASSUME NEW u \in Upstream, Weather(u) PROVE TypeOK'
        BY <2>11 DEF TypeOK, Weather
    <2>12. CASE UNCHANGED vars
        BY <2>12 DEF TypeOK, vars
    <2>13. QED
        BY <2>1, <2>2, <2>3, <2>4, <2>5, <2>6, <2>7, <2>8, <2>9, <2>10, <2>11, <2>12
        DEF Next
<1>3. QED
    BY <1>1, <1>2, PTL DEF Spec

----------------------------------------------------------------------------
(* Closed circuits. *)

BelowThreshold(c) ==
    c.state = "Closed" => c.failures = 0 \/ c.failures < FailureThreshold

\* What the circuit of one upstream can become in one step.
Successors(c) ==
    {c, Checked(c), Succeeded(c), Failed(c),
     HealthUpdated(c, TRUE), HealthUpdated(c, FALSE), Aged(c)}

\* Each step leaves a circuit alone, lets time pass or applies one method to it.
LEMMA CircuitSteps ==
    ASSUME TypeOK, [Next]_vars, NEW u \in Upstream
    PROVE  circuit'[u] \in Successors(circuit[u])
<1> USE DEF TypeOK, Successors, requestVars, checkerVars, worldVars
<1>1. ASSUME NEW v \in Upstream, Register(v) PROVE circuit'[u] \in Successors(circuit[u])
    BY <1>1 DEF Register
<1>2. ASSUME NEW r \in Request, NEW v \in Upstream, Arrive(r, v)
      PROVE  circuit'[u] \in Successors(circuit[u])
    BY <1>2 DEF Arrive
<1>3. ASSUME NEW r \in Request, Respond(r) PROVE circuit'[u] \in Successors(circuit[u])
    BY <1>3 DEF Respond
<1>4. ASSUME NEW r \in Request, Record(r) PROVE circuit'[u] \in Successors(circuit[u])
    BY <1>4 DEF Record
<1>5. ASSUME NEW r \in Request, Abandon(r) PROVE circuit'[u] \in Successors(circuit[u])
    BY <1>5 DEF Abandon
<1>6. CASE StartRound
    BY <1>6 DEF StartRound
<1>7. ASSUME NEW v \in Upstream, Probe(v) PROVE circuit'[u] \in Successors(circuit[u])
    BY <1>7 DEF Probe
<1>8. CASE ProbeAnswered
    BY <1>8 DEF ProbeAnswered
<1>9. CASE UpdateHealth
    <2>1. CASE verdict = "ok"
        BY <1>9, <2>1 DEF UpdateHealth
    <2>2. CASE verdict # "ok"
        BY <1>9, <2>2 DEF UpdateHealth
    <2>3. QED
        BY <2>1, <2>2
<1>10. CASE Tick
    BY <1>10 DEF Tick
<1>11. ASSUME NEW v \in Upstream, Weather(v) PROVE circuit'[u] \in Successors(circuit[u])
    BY <1>11 DEF Weather
<1>12. CASE UNCHANGED vars
    BY <1>12 DEF vars
<1>13. QED
    BY <1>1, <1>2, <1>3, <1>4, <1>5, <1>6, <1>7, <1>8, <1>9, <1>10, <1>11, <1>12 DEF Next

\* No method leaves a closed circuit with its count at the threshold.
LEMMA MethodsStayBelow ==
    ASSUME NEW c \in Circuit, BelowThreshold(c), NEW d \in Successors(c)
    PROVE  BelowThreshold(d)
<1> USE DEF BelowThreshold, Circuit, CircuitState
<1>1. CASE d = c
    BY <1>1
<1>2. CASE d = Checked(c)
    BY <1>2 DEF Checked
<1>3. CASE d = Succeeded(c)
    BY <1>3 DEF Succeeded
<1>4. CASE d = Failed(c)
    BY <1>4, ConstantsAssumption DEF Failed, Opened, Saturate, FailureCap
<1>5. CASE d = HealthUpdated(c, TRUE)
    BY <1>5 DEF HealthUpdated
<1>6. CASE d = HealthUpdated(c, FALSE)
    BY <1>6, ConstantsAssumption DEF HealthUpdated, Opened, Saturate, FailureCap
<1>7. CASE d = Aged(c)
    BY <1>7 DEF Aged
<1>8. QED
    BY <1>1, <1>2, <1>3, <1>4, <1>5, <1>6, <1>7 DEF Successors

\* Under every interleaving a closed circuit is below its threshold.
THEOREM ClosedIsBelowThreshold == Spec => []ClosedBelowThreshold
<1>1. Init => ClosedBelowThreshold
    BY DEF Init, ClosedBelowThreshold, NewCircuit
<1>2. TypeOK /\ ClosedBelowThreshold /\ [Next]_vars => ClosedBelowThreshold'
    <2> SUFFICES ASSUME TypeOK, ClosedBelowThreshold, [Next]_vars, NEW u \in Upstream
                 PROVE  BelowThreshold(circuit'[u])
        BY DEF ClosedBelowThreshold, BelowThreshold
    <2>1. circuit[u] \in Circuit /\ BelowThreshold(circuit[u])
        BY DEF TypeOK, ClosedBelowThreshold, BelowThreshold
    <2>2. circuit'[u] \in Successors(circuit[u])
        BY CircuitSteps
    <2>3. QED
        BY <2>1, <2>2, MethodsStayBelow
<1>3. QED
    BY <1>1, <1>2, TypeCorrect, PTL DEF Spec

----------------------------------------------------------------------------
(* Open circuits. *)

\* OpenAdmitsNothing is not inductive: it says nothing of the calls that run
\* against a circuit before it opens.  They were all let through at or before
\* the current number of openings, and opening increases that number.
EpochInv ==
    \A r \in Request :
        target[r] # None =>
            /\ epoch[r] <= circuit[target[r]].opens
            /\ (circuit[target[r]].state = "Open" /\ circuit[target[r]].opens < MaxCount)
                   => epoch[r] < circuit[target[r]].opens

\* A method opens a circuit only by counting one more opening.
LEMMA OpeningsAreCounted ==
    ASSUME NEW c \in Circuit, NEW d \in Successors(c)
    PROVE  /\ c.opens <= d.opens
           /\ (d.state = "Open" /\ d.opens < MaxCount)
                 => c.opens < d.opens \/ (c.state = "Open" /\ c.opens = d.opens)
<1> USE ConstantsAssumption DEF Circuit, CircuitState
<1>1. CASE d = c
    BY <1>1
<1>2. CASE d = Checked(c)
    BY <1>2 DEF Checked
<1>3. CASE d = Succeeded(c)
    BY <1>3 DEF Succeeded
<1>4. CASE d = Failed(c)
    BY <1>4 DEF Failed, Opened, Saturate
<1>5. CASE d = HealthUpdated(c, TRUE)
    BY <1>5 DEF HealthUpdated
<1>6. CASE d = HealthUpdated(c, FALSE)
    BY <1>6 DEF HealthUpdated, Opened, Saturate
<1>7. CASE d = Aged(c)
    BY <1>7 DEF Aged
<1>8. QED
    BY <1>1, <1>2, <1>3, <1>4, <1>5, <1>6, <1>7 DEF Successors

\* A call that check_request lets through finds the circuit not open afterwards.
LEMMA AdmittedNotOpen ==
    ASSUME NEW c \in Circuit, Admits(c)
    PROVE  Checked(c).state # "Open" /\ Checked(c).opens = c.opens
BY DEF Admits, Checked, Circuit, CircuitState

\* A step either keeps a call as it is, starts it or ends it.
LEMMA CallSteps ==
    ASSUME TypeOK, [Next]_vars, NEW q \in Request
    PROVE  \/ target'[q] = target[q] /\ epoch'[q] = epoch[q]
           \/ target'[q] = None
           \/ \E u \in Upstream :
                 /\ Admits(circuit[u])
                 /\ target'[q] = u /\ epoch'[q] = circuit[u].opens
                 /\ circuit'[u] = Checked(circuit[u])
<1> USE DEF TypeOK, requestVars, checkerVars, worldVars
<1>1. ASSUME NEW r \in Request, NEW u \in Upstream, Arrive(r, u)
      PROVE  \/ target'[q] = target[q] /\ epoch'[q] = epoch[q]
             \/ /\ Admits(circuit[u])
                /\ target'[q] = u /\ epoch'[q] = circuit[u].opens
                /\ circuit'[u] = Checked(circuit[u])
    BY <1>1 DEF Arrive
<1>2. ASSUME NEW r \in Request, Record(r) \/ Abandon(r)
      PROVE  target'[q] = None \/ (target'[q] = target[q] /\ epoch'[q] = epoch[q])
    BY <1>2 DEF Record, Abandon, Release
<1>3. ASSUME \/ \E u \in Upstream : Register(u) \/ Probe(u) \/ Weather(u)
             \/ \E r \in Request : Respond(r)
             \/ StartRound \/ ProbeAnswered \/ UpdateHealth \/ Tick \/ UNCHANGED vars
      PROVE  target'[q] = target[q] /\ epoch'[q] = epoch[q]
    BY <1>3 DEF Register, Probe, Weather, Respond, StartRound, ProbeAnswered, UpdateHealth,
                Tick, vars
<1>4. QED
    BY <1>1, <1>2, <1>3 DEF Next

\* While a circuit is open, no call has been let through since it opened.
THEOREM OpenIsFailFast == Spec => []OpenAdmitsNothing
<1>1. Init => EpochInv
    BY DEF Init, EpochInv
<1>2. TypeOK /\ TypeOK' /\ EpochInv /\ [Next]_vars => EpochInv'
    <2> SUFFICES ASSUME TypeOK, TypeOK', EpochInv, [Next]_vars,
                        NEW q \in Request, target'[q] # None
                 PROVE  /\ epoch'[q] <= circuit'[target'[q]].opens
                        /\ (/\ circuit'[target'[q]].state = "Open"
                            /\ circuit'[target'[q]].opens < MaxCount)
                              => epoch'[q] < circuit'[target'[q]].opens
        BY DEF EpochInv
    <2>1. CASE target'[q] = target[q] /\ epoch'[q] = epoch[q]
        <3> DEFINE c == circuit[target[q]]
                   d == circuit'[target[q]]
        <3>1. target[q] \in Upstream /\ epoch[q] \in Nat
            BY <2>1, ConstantsAssumption DEF TypeOK
        <3>2. c \in Circuit /\ d \in Successors(c)
            BY <3>1, CircuitSteps DEF TypeOK
        <3>3. d \in Circuit
            BY <3>1 DEF TypeOK
        <3>4. c.opens \in Nat /\ d.opens \in Nat
            BY <3>2, <3>3, ConstantsAssumption DEF Circuit
        <3>5. /\ epoch[q] <= c.opens
              /\ (c.state = "Open" /\ c.opens < MaxCount) => epoch[q] < c.opens
            BY <2>1, <3>1 DEF EpochInv
        <3>6. /\ c.opens <= d.opens
              /\ (d.state = "Open" /\ d.opens < MaxCount)
                    => c.opens < d.opens \/ (c.state = "Open" /\ c.opens = d.opens)
            BY <3>2, OpeningsAreCounted
        <3>7. QED
            BY <2>1, <3>1, <3>4, <3>5, <3>6, ConstantsAssumption
    <2>2. ASSUME NEW u \in Upstream, Admits(circuit[u]),
                 target'[q] = u, epoch'[q] = circuit[u].opens,
                 circuit'[u] = Checked(circuit[u])
          PROVE  /\ epoch'[q] <= circuit'[target'[q]].opens
                 /\ circuit'[target'[q]].state # "Open"
        <3>1. circuit[u] \in Circuit
            BY DEF TypeOK
        <3>2. circuit[u].opens \in Nat
            BY <3>1, ConstantsAssumption DEF Circuit
        <3>3. QED
            BY <2>2, <3>1, <3>2, AdmittedNotOpen
    <2>3. QED
        BY <2>1, <2>2, CallSteps
<1>3. EpochInv => OpenAdmitsNothing
    BY DEF EpochInv, OpenAdmitsNothing
<1>4. QED
    BY <1>1, <1>2, <1>3, TypeCorrect, PTL DEF Spec

----------------------------------------------------------------------------
(* The health task's rounds. *)

\* The task has never slept longer than ago the last check of any upstream.
SleepInv ==
    /\ ~Sleeping => slept = 0
    /\ \A u \in Upstream : circuit[u].sinceCheck = None \/ circuit[u].sinceCheck >= slept

\* Only update_health and the clock touch last_health_check.
LEMMA ChecksKeepAge ==
    ASSUME NEW c \in Circuit
    PROVE  /\ Checked(c).sinceCheck = c.sinceCheck
           /\ Succeeded(c).sinceCheck = c.sinceCheck
           /\ Failed(c).sinceCheck = c.sinceCheck
           /\ Aged(c).sinceCheck = Older(c.sinceCheck, HealthInterval)
BY DEF Checked, Succeeded, Failed, Opened, Aged, Circuit

\* When the task may wake up, every registered upstream is due for a check.
THEOREM EveryRoundIsComplete == Spec => []NoUpstreamSkipsARound
<1>1. Init => SleepInv
    BY DEF Init, SleepInv, NewCircuit, Sleeping
<1>2. TypeOK /\ TypeOK' /\ SleepInv /\ [Next]_vars => SleepInv'
    <2> SUFFICES ASSUME TypeOK, TypeOK', SleepInv, [Next]_vars PROVE SleepInv'
        OBVIOUS
    <2> USE DEF requestVars, checkerVars, worldVars, Sleeping
    <2>1. ASSUME slept' = slept, UNCHANGED <<pending, probing>>,
                 \A u \in Upstream : circuit'[u].sinceCheck = circuit[u].sinceCheck
          PROVE  SleepInv'
        BY <2>1 DEF SleepInv
    <2>2. ASSUME NEW u \in Upstream, Register(u) PROVE SleepInv'
        BY <2>2, <2>1 DEF Register
    <2>3. ASSUME NEW r \in Request, NEW u \in Upstream, Arrive(r, u) PROVE SleepInv'
        BY <2>3, <2>1, ChecksKeepAge DEF Arrive, TypeOK
    <2>4. ASSUME NEW r \in Request, Respond(r) PROVE SleepInv'
        BY <2>4, <2>1 DEF Respond
    <2>5. ASSUME NEW r \in Request, Record(r) PROVE SleepInv'
        <3>1. target[r] \in Upstream /\ circuit[target[r]] \in Circuit
            BY <2>5 DEF Record, TypeOK
        <3>2. circuit' \in {circuit, [circuit EXCEPT ![target[r]] = Succeeded(@)],
                                     [circuit EXCEPT ![target[r]] = Failed(@)]}
            BY <2>5 DEF Record
        <3>3. \A u \in Upstream : circuit'[u].sinceCheck = circuit[u].sinceCheck
            <4> DEFINE c == circuit[target[r]]
            <4>1. Succeeded(c).sinceCheck = c.sinceCheck /\ Failed(c).sinceCheck = c.sinceCheck
                BY <3>1, ChecksKeepAge
            <4> HIDE DEF c
            <4>2. \A u \in Upstream : circuit'[u] \in {circuit[u], Succeeded(circuit[u]), Failed(circuit[u])}
                                   /\ (u # target[r] => circuit'[u] = circuit[u])
                BY <3>1, <3>2 DEF TypeOK
            <4>3. QED
                BY <4>1, <4>2 DEF c
        <3>4. QED
            BY <2>5, <2>1, <3>3 DEF Record
    <2>6. ASSUME NEW r \in Request, Abandon(r) PROVE SleepInv'
        BY <2>6, <2>1 DEF Abandon
    <2>7. \A u \in Upstream : circuit'[u].sinceCheck \in Nat \cup {None}
        BY ConstantsAssumption DEF TypeOK, Circuit
    <2>8. CASE StartRound
        BY <2>8, <2>7 DEF StartRound, SleepInv
    <2>9. ASSUME NEW u \in Upstream, Probe(u) PROVE SleepInv'
        BY <2>9, <2>7, ConstantsAssumption DEF Probe, SleepInv
    <2>10. CASE ProbeAnswered
        BY <2>10, <2>1 DEF ProbeAnswered
    <2>11. CASE UpdateHealth
        BY <2>11, <2>7 DEF UpdateHealth, SleepInv, TypeOK
    <2>12. CASE Tick
        <3>1. ASSUME NEW u \in Upstream
              PROVE  circuit'[u].sinceCheck = Older(circuit[u].sinceCheck, HealthInterval)
            BY <2>12, ChecksKeepAge DEF Tick, TypeOK
        <3>2. \A u \in Upstream : circuit[u].sinceCheck \in 0..HealthInterval \cup {None}
            BY DEF TypeOK, Circuit
        <3>3. QED
            BY <2>12, <3>1, <3>2, ConstantsAssumption
            DEF Tick, SleepInv, Older, Saturate, TypeOK
    <2>13. ASSUME NEW u \in Upstream, Weather(u) PROVE SleepInv'
        BY <2>13, <2>1 DEF Weather
    <2>14. CASE UNCHANGED vars
        BY <2>14, <2>1 DEF vars
    <2>15. QED
        BY <2>2, <2>3, <2>4, <2>5, <2>6, <2>8, <2>9, <2>10, <2>11, <2>12, <2>13, <2>14
        DEF Next
<1>3. TypeOK /\ SleepInv => NoUpstreamSkipsARound
    <2> SUFFICES ASSUME TypeOK, SleepInv, slept >= HealthInterval, NEW u \in registered
                 PROVE  NeedsCheck(circuit[u])
        BY DEF NoUpstreamSkipsARound
    <2>1. circuit[u].sinceCheck \in Nat \cup {None} /\ slept \in Nat
        BY ConstantsAssumption DEF TypeOK, Circuit
    <2>2. QED
        BY <2>1, ConstantsAssumption DEF SleepInv, NeedsCheck, TypeOK
<1>4. QED
    BY <1>1, <1>2, <1>3, TypeCorrect, PTL DEF Spec

----------------------------------------------------------------------------
(* The contract. *)

mode == [u \in Upstream |-> circuit[u].state]
failed == [u \in Upstream |-> circuit[u].totalFailures]

\* How check_request moves the mode of its upstream,
LEMMA CheckedMode ==
    ASSUME NEW c \in Circuit
    PROVE  IF Admits(c)
           THEN \/ c.state # "Open" /\ Checked(c).state = c.state
                \/ c.state = "Open" /\ Checked(c).state = "HalfOpen"
           ELSE Checked(c).state = c.state
BY DEF Admits, Checked, Circuit, CircuitState

\* how the two results of a call move it,
LEMMA ResultMode ==
    ASSUME NEW c \in Circuit
    PROVE  /\ Succeeded(c).state = "Closed"
           /\ (c.state # "HalfOpen" /\ Failed(c).state = c.state) \/ Failed(c).state = "Open"
BY DEF Succeeded, Failed, Opened, Circuit, CircuitState

\* and how a health check does.
LEMMA HealthMode ==
    ASSUME NEW c \in Circuit, NEW ok \in BOOLEAN
    PROVE  \/ HealthUpdated(c, ok).state = c.state
           \/ c.state = "Open" /\ HealthUpdated(c, ok).state = "HalfOpen"
           \/ c.state = "Closed" /\ HealthUpdated(c, ok).state = "Open"
BY DEF HealthUpdated, Opened, Circuit, CircuitState

\* What the methods do to the two totals.
LEMMA MethodTotals ==
    ASSUME NEW c \in Circuit
    PROVE  /\ Checked(c).totalRequests = Saturate(c.totalRequests, MaxCount)
           /\ Checked(c).totalFailures = c.totalFailures
           /\ Failed(c).totalRequests = c.totalRequests
           /\ Failed(c).totalFailures = Saturate(c.totalFailures, MaxCount)
           /\ Succeeded(c).totalRequests = c.totalRequests
           /\ Succeeded(c).totalFailures = c.totalFailures
BY DEF Checked, Failed, Succeeded, Opened, Circuit

\* A health check is not a request.
LEMMA HealthTotals ==
    ASSUME NEW c \in Circuit, NEW ok \in BOOLEAN
    PROVE  /\ HealthUpdated(c, ok).totalRequests = c.totalRequests
           /\ HealthUpdated(c, ok).totalFailures = c.totalFailures
BY DEF HealthUpdated, Opened, Circuit

\* An update of one circuit is an update of one mode and of one total.
LEMMA OneMode ==
    ASSUME TypeOK, NEW v \in Upstream, NEW c,
           circuit' = [circuit EXCEPT ![v] = c]
    PROVE  /\ mode' = [mode EXCEPT ![v] = c.state]
           /\ failed' = [failed EXCEPT ![v] = c.totalFailures]
BY DEF mode, failed, TypeOK

\* If that total does not move, none does.
LEMMA SameFailed ==
    ASSUME TypeOK, NEW v \in Upstream, NEW c,
           circuit' = [circuit EXCEPT ![v] = c], c.totalFailures = circuit[v].totalFailures
    PROVE  failed' = failed
<1>1. failed \in [Upstream -> 0..MaxCount] /\ failed[v] = circuit[v].totalFailures
    BY DEF failed, TypeOK, Circuit
<1>2. failed' = [failed EXCEPT ![v] = failed[v]]
    BY <1>1, OneMode
<1>3. QED
    BY <1>1, <1>2

\* Every step of the breaker is a step of the contract or leaves it unchanged.
LEMMA ContractStep ==
    ASSUME TypeOK, [Next]_vars
    PROVE  [Contract!Next]_(Contract!vars)
<1> USE DEF requestVars, checkerVars, worldVars
<1> DEFINE Goal == [Contract!Next]_(Contract!vars)
<1>0. /\ mode \in [Upstream -> CircuitState]
      /\ \A u \in Upstream : circuit[u] \in Circuit /\ mode[u] = circuit[u].state
    BY DEF TypeOK, mode, Circuit
<1>s. ASSUME UNCHANGED <<circuit, target>> PROVE Goal
    BY <1>s DEF Contract!vars
<1>1. ASSUME NEW v \in Upstream, Register(v) PROVE Goal
    BY <1>1, <1>s DEF Register
<1>2. ASSUME NEW r \in Request, NEW v \in Upstream, Arrive(r, v) PROVE Goal
    <2> DEFINE m == Checked(circuit[v]).state
    <2>1. mode' = [mode EXCEPT ![v] = m]
        BY <1>2, OneMode DEF Arrive
    <2>f. failed' = failed
        <3>1. Checked(circuit[v]).totalFailures = circuit[v].totalFailures
            BY <1>0, MethodTotals
        <3>2. QED
            BY <1>2, <3>1, SameFailed DEF Arrive
    <2>2. CASE Admits(circuit[v])
        <3>1. (mode[v] # "Open" /\ m = mode[v]) \/ (mode[v] = "Open" /\ m = "HalfOpen")
            BY <2>2, <1>0, CheckedMode
        <3> HIDE DEF m
        <3>2. \/ mode[v] # "Open" /\ mode' = mode
              \/ mode[v] = "Open" /\ mode' = [mode EXCEPT ![v] = "HalfOpen"]
            BY <2>1, <3>1, <1>0
        <3>3. Contract!Start(r, v)
            BY <1>2, <2>2, <3>2, <2>f
            DEF Arrive, Contract!Start, Contract!Become, mode, failed
        <3>4. QED
            BY <3>3 DEF Contract!Next
    <2>3. CASE ~Admits(circuit[v])
        <3>1. m = mode[v]
            BY <2>3, <1>0, CheckedMode
        <3> HIDE DEF m
        <3>2. mode' = mode
            BY <2>1, <3>1, <1>0
        <3>3. QED
            BY <1>2, <2>3, <3>2, <2>f DEF Arrive, Contract!vars, mode, failed
    <2>4. QED
        BY <2>2, <2>3
<1>3. ASSUME NEW r \in Request, Respond(r) PROVE Goal
    BY <1>3, <1>s DEF Respond
<1>4. ASSUME NEW r \in Request, Record(r) PROVE Goal
    <2>1. target[r] \in Upstream /\ target[r] # None /\ Contract!Finish(r)
        BY <1>4 DEF Record, Release, TypeOK, Contract!Finish
    <2>2. CASE circuit' = circuit
        <3>1. Contract!Drop(r)
            BY <2>1, <2>2 DEF Contract!Drop
        <3>2. QED
            BY <3>1 DEF Contract!Next
    <2>3. CASE circuit' = [circuit EXCEPT ![target[r]] = Succeeded(@)]
        <3>1. mode' = [mode EXCEPT ![target[r]] = "Closed"]
            <4>1. mode' = [mode EXCEPT ![target[r]] = Succeeded(circuit[target[r]]).state]
                BY <2>1, <2>3, OneMode
            <4>2. Succeeded(circuit[target[r]]).state = "Closed"
                BY <2>1, <1>0, ResultMode
            <4>3. QED
                BY <4>1, <4>2
        <3>2. Contract!Succeed(r)
            <4>1. Succeeded(circuit[target[r]]).totalFailures = circuit[target[r]].totalFailures
                BY <2>1, <1>0, MethodTotals
            <4>2. failed' = failed
                BY <2>1, <2>3, <4>1, SameFailed
            <4>3. QED
                BY <2>1, <3>1, <4>2 DEF Contract!Succeed, Contract!Become, mode, failed
        <3>3. QED
            BY <3>2 DEF Contract!Next
    <2>4. CASE circuit' = [circuit EXCEPT ![target[r]] = Failed(@)]
        <3>1. \/ mode[target[r]] # "HalfOpen" /\ mode' = mode
              \/ mode' = [mode EXCEPT ![target[r]] = "Open"]
            <4> DEFINE m == Failed(circuit[target[r]]).state
            <4>1. mode' = [mode EXCEPT ![target[r]] = m]
                BY <2>1, <2>4, OneMode
            <4>2. (mode[target[r]] # "HalfOpen" /\ m = mode[target[r]]) \/ m = "Open"
                BY <2>1, <1>0, ResultMode
            <4> HIDE DEF m
            <4>3. QED
                BY <4>1, <4>2, <2>1, <1>0
        <3>2. failed' = [failed EXCEPT ![target[r]] = Saturate(@, MaxCount)]
            <4>1. failed' = [failed EXCEPT ![target[r]] = Failed(circuit[target[r]]).totalFailures]
                BY <2>1, <2>4, OneMode
            <4>2. failed[target[r]] = circuit[target[r]].totalFailures
                BY <2>1 DEF failed
            <4>3. QED
                BY <4>1, <4>2, <2>1, <1>0, MethodTotals
        <3>3. Contract!Fail(r)
            BY <2>1, <3>1, <3>2 DEF Contract!Fail, Contract!Become, mode, failed, Saturate
        <3>4. QED
            BY <3>3 DEF Contract!Next
    <2>5. QED
        BY <1>4, <2>2, <2>3, <2>4 DEF Record
<1>5. ASSUME NEW r \in Request, Abandon(r) PROVE Goal
    <2>1. Contract!Drop(r)
        BY <1>5 DEF Abandon, Release, Contract!Drop, Contract!Finish
    <2>2. QED
        BY <2>1 DEF Contract!Next
<1>6. CASE StartRound
    BY <1>6, <1>s DEF StartRound
<1>7. ASSUME NEW v \in Upstream, Probe(v) PROVE Goal
    BY <1>7, <1>s DEF Probe
<1>8. CASE ProbeAnswered
    BY <1>8, <1>s DEF ProbeAnswered
<1>9. CASE UpdateHealth
    <2>1. CASE circuit' = circuit
        BY <1>9, <2>1, <1>s DEF UpdateHealth
    <2>2. ASSUME NEW ok \in BOOLEAN, NEW v \in Upstream,
                 circuit' = [circuit EXCEPT ![v] = HealthUpdated(@, ok)]
          PROVE  Goal
        <3> DEFINE m == HealthUpdated(circuit[v], ok).state
        <3>1. mode' = [mode EXCEPT ![v] = m]
            BY <2>2, OneMode
        <3>2. \/ mode' = mode
              \/ mode[v] = "Open" /\ mode' = [mode EXCEPT ![v] = "HalfOpen"]
              \/ mode[v] = "Closed" /\ mode' = [mode EXCEPT ![v] = "Open"]
            <4>1. \/ m = mode[v]
                  \/ mode[v] = "Open" /\ m = "HalfOpen"
                  \/ mode[v] = "Closed" /\ m = "Open"
                BY <2>2, <1>0, HealthMode
            <4> HIDE DEF m
            <4>2. QED
                BY <3>1, <4>1, <2>2, <1>0
        <3>3. target' = target /\ failed' = failed
            <4>1. HealthUpdated(circuit[v], ok).totalFailures = circuit[v].totalFailures
                BY <2>2, <1>0, HealthTotals
            <4>2. QED
                BY <1>9, <2>2, <4>1, SameFailed DEF UpdateHealth
        <3>4. \/ mode' = mode /\ target' = target /\ failed' = failed
              \/ Contract!HealthPassed(v)
              \/ Contract!HealthFailed(v)
            BY <3>2, <3>3
            DEF Contract!HealthPassed, Contract!HealthFailed, Contract!Become, mode, failed
        <3>5. QED
            <4>1. CASE mode' = mode /\ target' = target /\ failed' = failed
                BY <4>1 DEF Contract!vars, mode, failed
            <4>2. CASE Contract!HealthPassed(v) \/ Contract!HealthFailed(v)
                BY <4>2 DEF Contract!Next
            <4>3. QED
                BY <3>4, <4>1, <4>2
    <2>3. QED
        BY <1>9, <2>1, <2>2 DEF UpdateHealth, TypeOK
<1>10. CASE Tick
    <2>1. \A u \in Upstream : /\ circuit'[u].state = circuit[u].state
                              /\ circuit'[u].totalFailures = circuit[u].totalFailures
        BY <1>10, <1>0 DEF Tick, Aged, Circuit, TypeOK
    <2>2. mode' = mode /\ failed' = failed
        BY <2>1 DEF mode, failed
    <2>3. QED
        BY <1>10, <2>2 DEF Tick, Contract!vars, mode, failed
<1>11. ASSUME NEW v \in Upstream, Weather(v) PROVE Goal
    BY <1>11, <1>s DEF Weather
<1>12. CASE UNCHANGED vars
    BY <1>12, <1>s DEF vars
<1>13. QED
    BY <1>1, <1>2, <1>3, <1>4, <1>5, <1>6, <1>7, <1>8, <1>9, <1>10, <1>11, <1>12 DEF Next

\* The breaker of the code implements the contract.
THEOREM BreakerImplementsContract == Spec => ImplementsContract
<1>1. Init => Contract!Init
    BY DEF Init, Contract!Init, NewCircuit
<1>2. TypeOK /\ [Next]_vars => [Contract!Next]_(Contract!vars)
    BY ContractStep
<1>3. QED
    BY <1>1, <1>2, TypeCorrect, PTL DEF Spec, ImplementsContract, Contract!Spec

----------------------------------------------------------------------------
(* What closes a circuit. *)

\* What recording a result does to the circuits.
LEMMA RecordStep ==
    ASSUME TypeOK, NEW r \in Request, Record(r)
    PROVE  /\ target[r] \in Upstream /\ target'[r] = None
           /\ \/ circuit' = circuit
              \/ answer[r] = "ok" /\ circuit' = [circuit EXCEPT ![target[r]] = Succeeded(@)]
              \/ answer[r] = "fail" /\ circuit' = [circuit EXCEPT ![target[r]] = Failed(@)]
<1>1. target[r] \in Upstream /\ target'[r] = None
    BY DEF Record, Release, TypeOK
<1>2. QED
    BY <1>1 DEF Record

\* A circuit closes only in the step in which a successful call to its upstream ends.
THEOREM OnlyASuccessCloses == Spec => OnlySuccessCloses
<1> DEFINE Closes(u) == circuit[u].state # "Closed" /\ circuit'[u].state = "Closed"
           Ends(u) == \E r \in Request : target[r] = u /\ answer[r] = "ok" /\ target'[r] = None
<1>1. ASSUME TypeOK, [Next]_vars, NEW u \in Upstream, Closes(u) PROVE Ends(u)
    <2> USE DEF requestVars, checkerVars, worldVars
    <2>0. circuit[u] \in Circuit /\ circuit \in [Upstream -> Circuit]
        BY <1>1 DEF TypeOK
    <2>s. circuit'[u] # circuit[u]
        BY <1>1
    <2> HIDE DEF Ends
    <2>1. ASSUME NEW r \in Request, NEW v \in Upstream, Arrive(r, v) PROVE FALSE
        <3>1. Checked(circuit[u]).state # "Closed"
            BY <1>1, <2>0 DEF Checked, Circuit, CircuitState
        <3>2. circuit'[u] \in {circuit[u], Checked(circuit[u])}
            BY <2>1, <2>0 DEF Arrive
        <3>3. QED
            BY <1>1, <3>1, <3>2
    <2>2. ASSUME NEW r \in Request, Record(r) PROVE Ends(u)
        <3>1. Failed(circuit[u]).state # "Closed"
            BY <1>1, <2>0 DEF Failed, Opened, Circuit, CircuitState
        <3>2. CASE answer[r] = "fail" /\ circuit' = [circuit EXCEPT ![target[r]] = Failed(@)]
            <4>1. circuit'[u] \in {circuit[u], Failed(circuit[u])}
                BY <3>2, <2>0
            <4>2. QED
                BY <1>1, <4>1, <3>1
        <3>3. CASE answer[r] = "ok" /\ circuit' = [circuit EXCEPT ![target[r]] = Succeeded(@)]
            <4>1. target[r] = u
                BY <3>3, <2>0, <2>s
            <4>2. target'[r] = None
                BY <1>1, <2>2, RecordStep
            <4>3. QED
                BY <3>3, <4>1, <4>2 DEF Ends
        <3>4. QED
            BY <1>1, <2>2, <2>s, <3>2, <3>3, RecordStep
    <2>3. CASE UpdateHealth
        <3>1. \A ok \in BOOLEAN : HealthUpdated(circuit[u], ok).state # "Closed"
            BY <1>1, <2>0 DEF HealthUpdated, Opened, Circuit, CircuitState
        <3>2. circuit'[u] \in {circuit[u], HealthUpdated(circuit[u], verdict = "ok")}
            BY <2>3, <2>0 DEF UpdateHealth
        <3>3. QED
            BY <1>1, <3>1, <3>2
    <2>4. CASE Tick
        BY <1>1, <2>0, <2>4 DEF Tick, Aged, Circuit
    <2>5. ASSUME \/ \E v \in Upstream : Register(v) \/ Probe(v) \/ Weather(v)
                 \/ \E r \in Request : Respond(r) \/ Abandon(r)
                 \/ StartRound \/ ProbeAnswered \/ UNCHANGED vars
          PROVE  FALSE
        BY <2>5, <2>s DEF Register, Probe, Weather, Respond, Abandon, StartRound,
                          ProbeAnswered, vars
    <2>6. QED
        BY <1>1, <2>1, <2>2, <2>3, <2>4, <2>5 DEF Next
<1>2. TypeOK /\ [Next]_vars => [\A u \in Upstream : Closes(u) => Ends(u)]_vars
    BY <1>1
<1>3. QED
    BY <1>2, TypeCorrect, PTL DEF Spec, OnlySuccessCloses

----------------------------------------------------------------------------
(* The totals. *)

\* The calls running against one upstream are finitely many.
LEMMA RunningFinite ==
    ASSUME NEW u
    PROVE  IsFiniteSet(Running(u)) /\ Cardinality(Running(u)) \in Nat
<1>1. Running(u) \subseteq Request
    BY DEF Running
<1>2. QED
    BY <1>1, ConstantsAssumption, FS_Subset, FS_CardinalityType

Accounted(c, n) ==
    c.totalRequests < MaxCount => c.totalFailures + n <= c.totalRequests

\* The totals of a circuit are numbers within the bound.
LEMMA TotalsType ==
    ASSUME NEW c \in Circuit
    PROVE  c.totalRequests \in 0..MaxCount /\ c.totalFailures \in 0..MaxCount
BY DEF Circuit

\* A circuit never reports more failures than requests.
THEOREM FailuresAreAccountedFor == Spec => []FailuresAccountedFor
<1> DEFINE Inv(u) == Accounted(circuit[u], Cardinality(Running(u)))
<1>1. Init => FailuresAccountedFor
    <2> SUFFICES ASSUME Init, NEW u \in Upstream PROVE Inv(u)
        BY DEF FailuresAccountedFor, Accounted
    <2>1. Running(u) = {}
        BY ConstantsAssumption DEF Init, Running
    <2>2. Cardinality(Running(u)) = 0
        BY <2>1, FS_EmptySet
    <2>3. QED
        BY <2>2 DEF Init, NewCircuit, Accounted
<1>2. TypeOK /\ FailuresAccountedFor /\ [Next]_vars => FailuresAccountedFor'
    <2> SUFFICES ASSUME TypeOK, FailuresAccountedFor, [Next]_vars, NEW u \in Upstream
                 PROVE  Inv(u)'
        BY DEF FailuresAccountedFor, Accounted
    <2> DEFINE c == circuit[u]
               n == Cardinality(Running(u))
    <2> USE DEF requestVars, checkerVars, worldVars
    <2>0. c \in Circuit /\ Inv(u) /\ IsFiniteSet(Running(u)) /\ n \in Nat
        BY RunningFinite DEF TypeOK, FailuresAccountedFor, Accounted
    <2>t. c.totalRequests \in 0..MaxCount /\ c.totalFailures \in 0..MaxCount
        BY <2>0, TotalsType
    <2>s. ASSUME circuit'[u].totalRequests = c.totalRequests,
                 circuit'[u].totalFailures = c.totalFailures,
                 Running(u)' = Running(u)
          PROVE  Inv(u)'
        BY <2>s, <2>0 DEF Accounted
    <2>r. target' = target => Running(u)' = Running(u)
        BY DEF Running
    <2>1. ASSUME NEW r \in Request, NEW v \in Upstream, Arrive(r, v) PROVE Inv(u)'
        <3>1. CASE v # u
            <4>1. Running(u)' = Running(u)
                BY <2>1, <3>1, ConstantsAssumption DEF Arrive, Running, TypeOK
            <4>2. QED
                BY <2>1, <3>1, <4>1, <2>s DEF Arrive, TypeOK
        <3>2. CASE v = u
            <4>1. Running(u)' \in {Running(u), Running(u) \cup {r}}
                BY <2>1, <3>2 DEF Arrive, Running, TypeOK
            <4>2. Cardinality(Running(u))' \in {n, n + 1}
                BY <4>1, <2>0, FS_AddElement
            <4>3. /\ circuit'[u].totalRequests = Saturate(c.totalRequests, MaxCount)
                  /\ circuit'[u].totalFailures = c.totalFailures
                BY <2>1, <3>2, <2>0, MethodTotals DEF Arrive, TypeOK
            <4>4. QED
                BY <4>2, <4>3, <2>0, <2>t, ConstantsAssumption DEF Accounted, Saturate
        <3>3. QED
            BY <3>1, <3>2
    <2>2. ASSUME NEW r \in Request, Record(r) \/ Abandon(r) PROVE Inv(u)'
        <3>1. CASE target[r] # u
            <4>1. Running(u)' = Running(u)
                BY <2>2, <3>1, ConstantsAssumption DEF Record, Abandon, Release, Running, TypeOK
            <4>2. circuit'[u] = circuit[u]
                BY <2>2, <3>1 DEF Record, Abandon, TypeOK
            <4>3. QED
                BY <4>1, <4>2, <2>s
        <3>2. CASE target[r] = u
            <4>1. Running(u)' = Running(u) \ {r} /\ r \in Running(u)
                BY <2>2, <3>2, ConstantsAssumption
                DEF Record, Abandon, Release, Running, TypeOK
            <4>2. Cardinality(Running(u))' = n - 1
                BY <4>1, <2>0, FS_RemoveElement
            <4>3. circuit'[u] \in {c, Succeeded(c), Failed(c)}
                BY <2>2, <3>2, RecordStep DEF Abandon, TypeOK
            <4>4. /\ circuit'[u].totalRequests = c.totalRequests
                  /\ circuit'[u].totalFailures
                        \in {c.totalFailures, Saturate(c.totalFailures, MaxCount)}
                BY <4>3, <2>0, MethodTotals
            <4>5. QED
                BY <4>2, <4>4, <2>0, <2>t, ConstantsAssumption DEF Accounted, Saturate
        <3>3. QED
            BY <3>1, <3>2
    <2>3. CASE UpdateHealth
        <3>1. \A ok \in BOOLEAN : /\ HealthUpdated(c, ok).totalRequests = c.totalRequests
                                  /\ HealthUpdated(c, ok).totalFailures = c.totalFailures
            BY <2>0, HealthTotals
        <3>2. circuit'[u] \in {c, HealthUpdated(c, verdict = "ok")}
            BY <2>3 DEF UpdateHealth, TypeOK
        <3>3. QED
            BY <2>3, <3>1, <3>2, <2>s, <2>r DEF UpdateHealth
    <2>4. CASE Tick
        BY <2>4, <2>0, <2>s, <2>r DEF Tick, Aged, Circuit
    <2>5. ASSUME \/ \E v \in Upstream : Register(v) \/ Probe(v) \/ Weather(v)
                 \/ \E r \in Request : Respond(r)
                 \/ StartRound \/ ProbeAnswered \/ UNCHANGED vars
          PROVE  Inv(u)'
        BY <2>5, <2>s, <2>r DEF Register, Probe, Weather, Respond, StartRound,
                                ProbeAnswered, vars
    <2>6. QED
        BY <2>1, <2>2, <2>3, <2>4, <2>5 DEF Next
<1>3. QED
    BY <1>1, <1>2, TypeCorrect, PTL DEF Spec
=============================================================================
