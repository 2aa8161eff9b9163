------------------------------ MODULE Gateway ------------------------------
(***************************************************************************)
(* The request pipeline of the gateway: proxy_handler                      *)
(* (pqc-proxy/src/proxy.rs), step by step, against what it shares with the *)
(* other handlers: the configuration that a reload may replace at any      *)
(* time, the circuit breaker, and the counters of the metrics.             *)
(*                                                                         *)
(* The breaker is here what BreakerContract says of it, which              *)
(* CircuitBreaker shows the code to implement; the limiter's answer and    *)
(* the load balancer's choice are arbitrary (RateLimiter and Router say    *)
(* which they are).  A handler runs on its own between two awaits, in      *)
(* parallel with the others: its steps are its accesses to shared state.   *)
(* It has two awaits, for the head of the upstream's answer and for the    *)
(* body, and is dropped only there.                                        *)
(***************************************************************************)
EXTENDS Integers, FiniteSets

CONSTANTS
    Handler,   \* concurrently running proxy_handler calls
    Upstream,  \* upstream base URLs
    MaxCalls,  \* bound: calls in a run
    None       \* no call, no upstream

ASSUME GatewayAssumption ==
    /\ IsFiniteSet(Handler)
    /\ MaxCalls \in Nat

VARIABLES
    config,   \* circuit_breaker.enabled and rate_limit.enabled of ProxyState.config
    call,     \* call[h]: where handler h is, and what it holds
    mode,     \* mode[u]: the state of u's circuit
    failed,   \* failed[u]: its total_failures, saturating at MaxCalls
    metrics,  \* the counters of GatewayMetrics
    begun,    \* calls begun (history)
    told      \* told[s]: answers with status s (history)

breakerVars == <<mode, failed>>
vars == <<config, call, breakerVars, metrics, begun, told>>

----------------------------------------------------------------------------
\* Statuses told apart: an upstream's own, below 500 or not, and those of
\* GatewayError; a refusal of the breaker is a 502 of its own.
UpstreamStatus == {"ok", "5xx"}
FailureStatus == {"502", "504"}
Status == UpstreamStatus \cup FailureStatus \cup {"404", "413", "429", "500", "refused"}

ASSUME NoneAssumption == None \notin Upstream \cup Status

Counter == {"requests", "failures", "limited", "refused"}

Stage == {"idle", "matched", "limited", "allowed", "refused", "waiting", "answered",
          "recorded", "blamed", "body"}

Switches == [breaker : BOOLEAN, limiter : BOOLEAN]

Call == [stage : Stage, config : Switches, upstream : Upstream \cup {None},
         status : Status \cup {None}]

\* A handler that is not running.
Idle == [stage |-> "idle", config |-> [breaker |-> FALSE, limiter |-> FALSE],
         upstream |-> None, status |-> None]

Move(h, stage) == call' = [call EXCEPT ![h].stage = stage]

\* The handler returns an answer with status s.
Tell(h, s) ==
    /\ call' = [call EXCEPT ![h] = Idle]
    /\ told' = [told EXCEPT ![s] = @ + 1]

Count(c) == metrics' = [metrics EXCEPT ![c] = @ + 1]

----------------------------------------------------------------------------
Init ==
    /\ config \in Switches
    /\ call = [h \in Handler |-> Idle]
    /\ mode = [u \in Upstream |-> "Closed"]
    /\ failed = [u \in Upstream |-> 0]
    /\ metrics = [c \in Counter |-> 0]
    /\ begun = 0
    /\ told = [s \in Status |-> 0]

\* The configuration is loaded; a request without a route, or with a body that
\* is announced too large, is answered at once.
Begin(h) ==
    /\ call[h].stage = "idle"
    /\ begun < MaxCalls
    /\ begun' = begun + 1
    /\ \/ /\ call' = [call EXCEPT ![h].stage = "matched", ![h].config = config]
          /\ UNCHANGED told
       \/ \E s \in {"404", "413"} : Tell(h, s)
    /\ UNCHANGED <<config, breakerVars, metrics>>

Limit(h) ==
    /\ call[h].stage = "matched"
    /\ \/ Move(h, "allowed")
       \/ call[h].config.limiter /\ Move(h, "limited")
    /\ UNCHANGED <<config, breakerVars, metrics, begun, told>>

TellLimited(h) ==
    /\ call[h].stage = "limited"
    /\ Count("limited")
    /\ Tell(h, "429")
    /\ UNCHANGED <<config, breakerVars, begun>>

\* The call goes to u.
Forward(h, u) == call' = [call EXCEPT ![h].stage = "waiting", ![h].upstream = u]

\* next_upstream and check_request, unless the breaker is off.
Check(h) ==
    /\ call[h].stage = "allowed"
    /\ \E u \in Upstream :
         \/ ~call[h].config.breaker /\ Forward(h, u) /\ UNCHANGED mode
         \/ call[h].config.breaker /\ mode[u] # "Open" /\ Forward(h, u) /\ UNCHANGED mode
         \/ /\ call[h].config.breaker /\ mode[u] = "Open"
            /\ \/ Forward(h, u) /\ mode' = [mode EXCEPT ![u] = "HalfOpen"]
               \/ Move(h, "refused") /\ UNCHANGED mode
    /\ UNCHANGED <<config, failed, metrics, begun, told>>

TellRefused(h) ==
    /\ call[h].stage = "refused"
    /\ Count("refused")
    /\ Tell(h, "refused")
    /\ UNCHANGED <<config, breakerVars, begun>>

\* The upstream URI does not parse: nothing is recorded.
TellBadUri(h) ==
    /\ call[h].stage = "waiting"
    /\ Tell(h, "500")
    /\ UNCHANGED <<config, breakerVars, metrics, begun>>

\* The first await ends with status s.
Await(h, s) ==
    /\ call[h].stage = "waiting"
    /\ call' = [call EXCEPT ![h].stage = "answered", ![h].status = s]
    /\ UNCHANGED <<config, breakerVars, metrics, begun, told>>

\* The head of an answer arrives, or the connection fails.
Respond(h) == \E s \in UpstreamStatus \cup {"502"} : Await(h, s)

\* Mutant of Timeout: it is only armed for calls the breaker watches.
Timeout_Watched(h) == call[h].config.breaker /\ Await(h, "504")

\* tokio::time::timeout
Timeout(h) == Await(h, "504")

Succeeded(u) ==
    /\ mode' = [mode EXCEPT ![u] = "Closed"]
    /\ UNCHANGED failed

Failed(u) ==
    /\ failed' = [failed EXCEPT ![u] = IF @ < MaxCalls THEN @ + 1 ELSE MaxCalls]
    /\ \/ mode' = [mode EXCEPT ![u] = "Open"]
       \/ mode[u] # "HalfOpen" /\ UNCHANGED mode

\* Mutant of Record: the switch is read again after the await.
Record_Rereads(h) ==
    /\ call[h].stage = "answered"
    /\ IF ~config.breaker THEN UNCHANGED breakerVars
       ELSE IF call[h].status = "ok" THEN Succeeded(call[h].upstream)
       ELSE Failed(call[h].upstream)
    /\ Move(h, "recorded")
    /\ UNCHANGED <<config, metrics, begun, told>>

\* The breaker is told the result, if it was on when the call began.
Record(h) ==
    /\ call[h].stage = "answered"
    /\ IF ~call[h].config.breaker THEN UNCHANGED breakerVars
       ELSE IF call[h].status = "ok" THEN Succeeded(call[h].upstream)
       ELSE Failed(call[h].upstream)
    /\ Move(h, "recorded")
    /\ UNCHANGED <<config, metrics, begun, told>>

\* record_upstream_failure, when there was no answer.
Blame(h) ==
    /\ call[h].stage = "recorded"
    /\ call[h].status \in FailureStatus
    /\ Count("failures")
    /\ Move(h, "blamed")
    /\ UNCHANGED <<config, breakerVars, begun, told>>

\* record_request; without an upstream answer the call ends here.
CountRequest(h) ==
    /\ Count("requests")
    /\ \/ /\ call[h].stage = "recorded"
          /\ call[h].status \in UpstreamStatus
          /\ call' = [call EXCEPT ![h].stage = "body"]
          /\ UNCHANGED told
       \/ call[h].stage = "blamed" /\ Tell(h, call[h].status)
    /\ UNCHANGED <<config, breakerVars, begun>>

\* The body has been collected: it is signed and passed on.
TellUpstream(h) ==
    /\ call[h].stage = "body"
    /\ Tell(h, call[h].status)
    /\ UNCHANGED <<config, breakerVars, metrics, begun>>

\* Mutant of TellBroken: the failure is not counted.
TellBroken_Uncounted(h) ==
    /\ call[h].stage = "body"
    /\ Tell(h, "502")
    /\ UNCHANGED <<config, breakerVars, metrics, begun>>

\* Reading the body fails.
TellBroken(h) ==
    /\ call[h].stage = "body"
    /\ Count("failures")
    /\ Tell(h, "502")
    /\ UNCHANGED <<config, breakerVars, begun>>

\* The client goes away at an await and the handler is dropped.
HangUp(h) ==
    /\ call[h].stage \in {"waiting", "body"}
    /\ call' = [call EXCEPT ![h] = Idle]
    /\ UNCHANGED <<config, breakerVars, metrics, begun, told>>

----------------------------------------------------------------------------
\* reload_config replaces the configuration.
Reload ==
    /\ config' \in Switches
    /\ UNCHANGED <<call, breakerVars, metrics, begun, told>>

\* The health task moves a circuit as update_health does.
HealthCheck(u) ==
    /\ \/ mode[u] = "Open" /\ mode' = [mode EXCEPT ![u] = "HalfOpen"]
       \/ mode[u] = "Closed" /\ mode' = [mode EXCEPT ![u] = "Open"]
    /\ UNCHANGED <<config, call, failed, metrics, begun, told>>

\* The steps a handler takes by itself.
Run(h) ==
    \/ Limit(h) \/ TellLimited(h) \/ Check(h) \/ TellRefused(h)
    \/ Record(h) \/ Blame(h) \/ CountRequest(h)

Next ==
    \/ \E h \in Handler : Begin(h)
    \/ \E h \in Handler : Run(h)
    \/ \E h \in Handler : TellBadUri(h)
    \/ \E h \in Handler : Respond(h)
    \/ \E h \in Handler : Timeout(h)
    \/ \E h \in Handler : TellUpstream(h)
    \/ \E h \in Handler : TellBroken(h)
    \/ \E h \in Handler : HangUp(h)
    \/ Reload
    \/ \E u \in Upstream : HealthCheck(u)

Spec == Init /\ [][Next]_vars

\* tokio polls every handler that can go on, and its timer fires.  Of the upstream
\* nothing is assumed: it may never answer, nor finish an answer it has begun.
HandlerFairness == \A h \in Handler : WF_vars(Run(h)) /\ WF_vars(Timeout(h))

FairSpec == Spec /\ HandlerFairness

----------------------------------------------------------------------------
\* The stages in which an upstream has been picked.
Forwarded == {"waiting", "answered", "recorded", "blamed", "body"}

\* Every variable has its type, a call that is forwarded has an upstream, and a
\* handler that does not run holds nothing.
TypeOK ==
    /\ config \in Switches
    /\ call \in [Handler -> Call]
    /\ mode \in [Upstream -> {"Closed", "Open", "HalfOpen"}]
    /\ failed \in [Upstream -> Nat]
    /\ metrics \in [Counter -> Nat]
    /\ begun \in 0..MaxCalls
    /\ told \in [Status -> Nat]
    /\ \A h \in Handler :
         /\ call[h].stage \in Forwarded => call[h].upstream # None
         /\ call[h].stage \in Forwarded \ {"waiting"} => call[h].status # None
         /\ call[h].stage = "idle" => call[h] = Idle

\* The calls the breaker has let through and not yet heard of.
Watched(h) == call[h].config.breaker /\ call[h].stage \in {"waiting", "answered"}

running == [h \in Handler |-> IF Watched(h) THEN call[h].upstream ELSE None]

Breaker == INSTANCE BreakerContract WITH Request <- Handler, MaxCount <- MaxCalls
\* The handlers keep their side of the breaker's contract: each call it lets
\* through is reported once or dropped, and nothing else is, although the switch
\* may be turned at any await (proxy.rs 316, 376-390, 448-454, 524-545).
KeepsBreakerContract == Breaker!Spec

At(stage) == Cardinality({h \in Handler : call[h].stage = stage})

\* The counters of /metrics say what the clients were told: each refusal of the
\* limiter and of the breaker and each answer that stands for an upstream's
\* failure counted once, and every answer of an upstream among the requests,
\* whatever is dropped or reloaded in between (proxy.rs 363-545).
MetricsMatchAnswers ==
    /\ metrics.limited = told["429"]
    /\ metrics.refused = told["refused"]
    /\ metrics.failures = told["502"] + told["504"] + At("blamed")
    /\ metrics.requests >= told["ok"] + told["5xx"] + told["502"] + told["504"] + At("body")

\* Whatever upstreams, reloads and other calls do, a request is answered or dropped
\* in the end, or has got the head of an upstream's answer, whose body is the one
\* thing a call may wait for without end: the timeout covers the head alone
\* (proxy.rs 432-470).
OnlyBodiesKeepWaiting ==
    \A h \in Handler : call[h].stage # "idle" ~> call[h].stage \in {"idle", "body"}
=============================================================================
