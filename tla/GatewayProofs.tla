--------------------------- MODULE GatewayProofs ---------------------------
(***************************************************************************)
(* Proofs about Gateway, for any finite number of handlers, any upstreams  *)
(* and any number of calls.                                                *)
(***************************************************************************)
EXTENDS Gateway, FiniteSetTheorems, TLAPS

----------------------------------------------------------------------------
\* A call that only changes stage keeps its type.
LEMMA MoveType ==
    ASSUME TypeOK, NEW h \in Handler, NEW s \in Stage, Move(h, s)
    PROVE  /\ call' \in [Handler -> Call]
           /\ call'[h] = [call[h] EXCEPT !.stage = s]
           /\ \A g \in Handler \ {h} : call'[g] = call[g]
<1>1. call[h] \in Call /\ [call[h] EXCEPT !.stage = s] \in Call
  BY DEF TypeOK, Call
<1> QED
  BY <1>1 DEF Move, TypeOK

\* A call that is answered leaves its handler idle.
LEMMA TellType ==
    ASSUME TypeOK, NEW h \in Handler, NEW s \in Status, Tell(h, s)
    PROVE  /\ call' \in [Handler -> Call]
           /\ call'[h] = Idle
           /\ \A g \in Handler \ {h} : call'[g] = call[g]
           /\ told' \in [Status -> Nat]
           /\ told'[s] = told[s] + 1
           /\ \A x \in Status \ {s} : told'[x] = told[x]
<1>1. Idle \in Call
  BY DEF Idle, Call, Stage, Switches
<1> QED
  BY <1>1 DEF Tell, TypeOK

LEMMA CountType ==
    ASSUME TypeOK, NEW c \in Counter, Count(c)
    PROVE  /\ metrics' \in [Counter -> Nat]
           /\ metrics'[c] = metrics[c] + 1
           /\ \A x \in Counter \ {c} : metrics'[x] = metrics[x]
BY DEF Count, TypeOK

\* What TypeOK says of one handler's call.
Held(c) ==
    /\ c.stage \in Forwarded => c.upstream # None
    /\ c.stage \in Forwarded \ {"waiting"} => c.status # None
    /\ c.stage = "idle" => c = Idle

LEMMA IdleHeld == Held(Idle)
BY DEF Held, Idle, Forwarded

\* Every reachable state is well typed: in particular a handler that has been
\* dropped at an await, or has answered, holds nothing (proxy.rs 293-555).
THEOREM TypeCorrect == Spec => []TypeOK
<1> USE GatewayAssumption, NoneAssumption
<1>1. Init => TypeOK
  <2> SUFFICES ASSUME Init PROVE TypeOK
    OBVIOUS
  <2>1. Idle \in Call
    BY DEF Idle, Call, Stage, Switches
  <2>2. \A h \in Handler : call[h] = Idle
    BY DEF Init
  <2>3. \A h \in Handler : Held(call[h])
    BY <2>2, IdleHeld
  <2> QED BY <2>1, <2>3 DEF Init, TypeOK, Held
<1>2. TypeOK /\ [Next]_vars => TypeOK'
  <2> SUFFICES ASSUME TypeOK, [Next]_vars PROVE TypeOK'
    OBVIOUS
  <2>a. \A h \in Handler : Held(call[h]) /\ call[h] \in Call
    BY DEF TypeOK, Held
  <2>b. /\ config \in Switches /\ mode \in [Upstream -> {"Closed", "Open", "HalfOpen"}]
        /\ failed \in [Upstream -> Nat] /\ metrics \in [Counter -> Nat]
        /\ begun \in 0..MaxCalls /\ told \in [Status -> Nat]
    BY DEF TypeOK
  <2>m. ASSUME NEW h \in Handler, NEW s \in Stage, Move(h, s),
               Held([call[h] EXCEPT !.stage = s])
        PROVE  call' \in [Handler -> Call] /\ \A g \in Handler : Held(call'[g])
    BY <2>a, <2>m, MoveType
  <2>t. ASSUME NEW h \in Handler, NEW s \in Status, Tell(h, s)
        PROVE  /\ call' \in [Handler -> Call] /\ \A g \in Handler : Held(call'[g])
               /\ told' \in [Status -> Nat]
    BY <2>a, <2>t, TellType, IdleHeld
  <2>f. ASSUME NEW h \in Handler, NEW u \in Upstream, Forward(h, u)
        PROVE  call' \in [Handler -> Call] /\ \A g \in Handler : Held(call'[g])
    <3>1. /\ [call[h] EXCEPT !.stage = "waiting", !.upstream = u] \in Call
          /\ Held([call[h] EXCEPT !.stage = "waiting", !.upstream = u])
      BY <2>a DEF Call, Stage, Held, Forwarded
    <3>2. /\ call'[h] = [call[h] EXCEPT !.stage = "waiting", !.upstream = u]
          /\ \A g \in Handler \ {h} : call'[g] = call[g]
          /\ call' \in [Handler -> Call]
      BY <2>f, <3>1 DEF Forward, TypeOK
    <3> QED BY <2>a, <3>1, <3>2
  <2>1. ASSUME NEW h \in Handler, Begin(h) PROVE TypeOK'
    <3>1. CASE /\ call' = [call EXCEPT ![h].stage = "matched", ![h].config = config]
               /\ UNCHANGED told
      <4>1. [call[h] EXCEPT !.stage = "matched", !.config = config] \in Call
        BY <2>a, <2>b DEF Call, Stage
      <4>2. Held([call[h] EXCEPT !.stage = "matched", !.config = config])
        BY <2>a DEF Held, Forwarded, Call
      <4>3. /\ call'[h] = [call[h] EXCEPT !.stage = "matched", !.config = config]
            /\ \A g \in Handler \ {h} : call'[g] = call[g]
            /\ call' \in [Handler -> Call]
        BY <3>1, <4>1 DEF TypeOK
      <4> QED BY <2>1, <2>a, <2>b, <3>1, <4>2, <4>3 DEF Begin, TypeOK, Held, breakerVars
    <3>2. CASE \E s \in {"404", "413"} : Tell(h, s)
      <4>1. PICK s \in {"404", "413"} : Tell(h, s)
        BY <3>2
      <4>2. s \in Status
        BY DEF Status
      <4> QED BY <2>1, <2>b, <2>t, <4>1, <4>2 DEF Begin, TypeOK, Held, breakerVars
    <3> QED BY <2>1, <3>1, <3>2 DEF Begin
  <2>2. ASSUME NEW h \in Handler, Limit(h) PROVE TypeOK'
    <3>1. PICK s \in {"allowed", "limited"} : Move(h, s)
      BY <2>2 DEF Limit
    <3>2. s \in Stage /\ Held([call[h] EXCEPT !.stage = s])
      BY <2>a DEF Stage, Held, Forwarded, Call
    <3> QED BY <2>2, <2>b, <2>m, <3>1, <3>2 DEF Limit, TypeOK, Held, breakerVars
  <2>3. ASSUME NEW h \in Handler, TellLimited(h) PROVE TypeOK'
    <3>1. "429" \in Status /\ "limited" \in Counter
      BY DEF Status, Counter
    <3>2. metrics' \in [Counter -> Nat]
      BY <2>3, <3>1, CountType DEF TellLimited
    <3> QED BY <2>3, <2>b, <2>t, <3>1, <3>2 DEF TellLimited, TypeOK, Held, breakerVars
  <2>4. ASSUME NEW h \in Handler, Check(h) PROVE TypeOK'
    <3>1. PICK u \in Upstream :
            /\ Forward(h, u) \/ Move(h, "refused")
            /\ mode' \in {mode, [mode EXCEPT ![u] = "HalfOpen"]}
      BY <2>4 DEF Check
    <3>2. "refused" \in Stage /\ Held([call[h] EXCEPT !.stage = "refused"])
      BY <2>a DEF Stage, Held, Forwarded, Call
    <3>3. mode' \in [Upstream -> {"Closed", "Open", "HalfOpen"}]
      BY <2>b, <3>1
    <3>4. call' \in [Handler -> Call] /\ \A g \in Handler : Held(call'[g])
      BY <2>m, <2>f, <3>1, <3>2
    <3> QED BY <2>4, <2>b, <3>3, <3>4 DEF Check, TypeOK, Held
  <2>5. ASSUME NEW h \in Handler, TellRefused(h) PROVE TypeOK'
    <3>1. "refused" \in Status /\ "refused" \in Counter
      BY DEF Status, Counter
    <3>2. metrics' \in [Counter -> Nat]
      BY <2>5, <3>1, CountType DEF TellRefused
    <3> QED BY <2>5, <2>b, <2>t, <3>1, <3>2 DEF TellRefused, TypeOK, Held, breakerVars
  <2>6. ASSUME NEW h \in Handler, TellBadUri(h) PROVE TypeOK'
    <3>1. "500" \in Status
      BY DEF Status
    <3> QED BY <2>6, <2>b, <2>t, <3>1 DEF TellBadUri, TypeOK, Held, breakerVars
  <2>7. ASSUME NEW h \in Handler, NEW s \in Status \ {None}, Await(h, s) PROVE TypeOK'
    <3>1. [call[h] EXCEPT !.stage = "answered", !.status = s] \in Call
      BY <2>a DEF Call, Stage
    <3>2. Held([call[h] EXCEPT !.stage = "answered", !.status = s])
      BY <2>7, <2>a DEF Await, Held, Forwarded, Call
    <3>3. /\ call'[h] = [call[h] EXCEPT !.stage = "answered", !.status = s]
          /\ \A g \in Handler \ {h} : call'[g] = call[g]
          /\ call' \in [Handler -> Call]
      BY <2>7, <3>1 DEF Await, TypeOK
    <3> QED BY <2>7, <2>a, <2>b, <3>2, <3>3 DEF Await, TypeOK, Held, breakerVars
  <2>8. ASSUME NEW h \in Handler, Respond(h) \/ Timeout(h) PROVE TypeOK'
    <3>1. UpstreamStatus \cup {"502", "504"} \subseteq Status \ {None}
      BY DEF Status, FailureStatus, UpstreamStatus
    <3> QED BY <2>7, <2>8, <3>1 DEF Respond, Timeout
  <2>9. ASSUME NEW h \in Handler, Record(h) PROVE TypeOK'
    <3>1. call[h].upstream \in Upstream
      BY <2>a, <2>9 DEF Record, Held, Forwarded, Call
    <3>2. mode' \in [Upstream -> {"Closed", "Open", "HalfOpen"}] /\ failed' \in [Upstream -> Nat]
      BY <2>9, <2>b, <3>1 DEF Record, Succeeded, Failed, breakerVars
    <3>3. "recorded" \in Stage /\ Held([call[h] EXCEPT !.stage = "recorded"])
      BY <2>9, <2>a DEF Record, Stage, Held, Forwarded, Call
    <3> QED BY <2>9, <2>b, <2>m, <3>2, <3>3 DEF Record, TypeOK, Held
  <2>10. ASSUME NEW h \in Handler, Blame(h) PROVE TypeOK'
    <3>1. "failures" \in Counter
      BY DEF Counter
    <3>2. metrics' \in [Counter -> Nat]
      BY <2>10, <3>1, CountType DEF Blame
    <3>3. "blamed" \in Stage /\ Held([call[h] EXCEPT !.stage = "blamed"])
      BY <2>10, <2>a DEF Blame, Stage, Held, Forwarded, Call
    <3> QED BY <2>10, <2>b, <2>m, <3>2, <3>3 DEF Blame, TypeOK, Held, breakerVars
  <2>11. ASSUME NEW h \in Handler, CountRequest(h) PROVE TypeOK'
    <3>1. "requests" \in Counter
      BY DEF Counter
    <3>2. metrics' \in [Counter -> Nat]
      BY <2>11, <3>1, CountType DEF CountRequest
    <3>3. CASE /\ call[h].stage = "recorded"
               /\ call' = [call EXCEPT ![h].stage = "body"]
               /\ UNCHANGED told
      <4>1. [call[h] EXCEPT !.stage = "body"] \in Call
        BY <2>a DEF Call, Stage
      <4>2. Held([call[h] EXCEPT !.stage = "body"])
        BY <2>a, <3>3 DEF Held, Forwarded, Call
      <4>3. /\ call'[h] = [call[h] EXCEPT !.stage = "body"]
            /\ \A g \in Handler \ {h} : call'[g] = call[g]
            /\ call' \in [Handler -> Call]
        BY <3>3, <4>1 DEF TypeOK
      <4> QED BY <2>11, <2>a, <2>b, <3>2, <3>3, <4>2, <4>3
              DEF CountRequest, TypeOK, Held, breakerVars
    <3>4. CASE call[h].stage = "blamed" /\ Tell(h, call[h].status)
      <4>1. call[h].status \in Status
        BY <2>a, <3>4 DEF Held, Forwarded, Call
      <4> QED BY <2>11, <2>b, <2>t, <3>2, <3>4, <4>1 DEF CountRequest, TypeOK, Held, breakerVars
    <3> QED BY <2>11, <3>3, <3>4 DEF CountRequest
  <2>12. ASSUME NEW h \in Handler, TellUpstream(h) PROVE TypeOK'
    <3>1. call[h].status \in Status
      BY <2>a, <2>12 DEF TellUpstream, Held, Forwarded, Call
    <3> QED BY <2>12, <2>b, <2>t, <3>1 DEF TellUpstream, TypeOK, Held, breakerVars
  <2>13. ASSUME NEW h \in Handler, TellBroken(h) PROVE TypeOK'
    <3>1. "502" \in Status /\ "failures" \in Counter
      BY DEF Status, Counter, FailureStatus
    <3>2. metrics' \in [Counter -> Nat]
      BY <2>13, <3>1, CountType DEF TellBroken
    <3> QED BY <2>13, <2>b, <2>t, <3>1, <3>2 DEF TellBroken, TypeOK, Held, breakerVars
  <2>14. ASSUME NEW h \in Handler, HangUp(h) PROVE TypeOK'
    <3>1. Idle \in Call
      BY DEF Idle, Call, Stage, Switches
    <3>2. call' \in [Handler -> Call]
      BY <2>14, <2>b, <3>1 DEF HangUp, TypeOK
    <3>3. \A g \in Handler : call'[g] \in {call[g], Idle}
      BY <2>14, <3>1 DEF HangUp, TypeOK
    <3>4. \A g \in Handler : Held(call'[g])
      BY <2>a, <3>3, IdleHeld
    <3> QED BY <2>14, <2>b, <3>2, <3>4 DEF HangUp, TypeOK, Held, breakerVars
  <2>15. ASSUME Reload PROVE TypeOK'
    BY <2>15, <2>a, <2>b DEF Reload, TypeOK, Held, breakerVars
  <2>16. ASSUME NEW u \in Upstream, HealthCheck(u) PROVE TypeOK'
    <3>1. mode' \in [Upstream -> {"Closed", "Open", "HalfOpen"}]
      BY <2>16, <2>b DEF HealthCheck
    <3> QED BY <2>16, <2>a, <2>b, <3>1 DEF HealthCheck, TypeOK, Held
  <2>17. CASE UNCHANGED vars
    BY <2>17, <2>a, <2>b DEF vars, breakerVars, TypeOK, Held
  <2> QED
    BY <2>1, <2>2, <2>3, <2>4, <2>5, <2>6, <2>8, <2>9, <2>10, <2>11, <2>12, <2>13, <2>14,
       <2>15, <2>16, <2>17 DEF Next, Run
<1> QED
  BY <1>1, <1>2, PTL DEF Spec

----------------------------------------------------------------------------
\* Only the upstreams of watched calls count: what becomes of running when one
\* handler moves.
LEMMA RunningSame ==
    ASSUME TypeOK, NEW h \in Handler,
           \A g \in Handler \ {h} : call'[g] = call[g],
           Watched(h)' = Watched(h),
           Watched(h) => call'[h].upstream = call[h].upstream
    PROVE  running' = running
BY DEF running, Watched

LEMMA RunningStarts ==
    ASSUME TypeOK, NEW h \in Handler, NEW u \in Upstream,
           \A g \in Handler \ {h} : call'[g] = call[g],
           ~Watched(h), Watched(h)', call'[h].upstream = u
    PROVE  running[h] = None /\ running' = [running EXCEPT ![h] = u]
BY DEF running, Watched

LEMMA RunningEnds ==
    ASSUME TypeOK, NEW h \in Handler,
           \A g \in Handler \ {h} : call'[g] = call[g],
           Watched(h), ~Watched(h)'
    PROVE  /\ running[h] = call[h].upstream
           /\ running[h] # None
           /\ running' = [running EXCEPT ![h] = None]
<1>1. call[h].upstream # None
  BY DEF TypeOK, Watched, Forwarded
<1> QED
  BY <1>1 DEF running, Watched

\* The pipeline refines its part of the breaker's contract: a call is reported to
\* the breaker only if the breaker let it through, by the switch the handler read
\* when it began, and once at most (proxy.rs 316-555).
THEOREM PipelineKeepsContract == Spec => KeepsBreakerContract
<1> USE GatewayAssumption, NoneAssumption
<1>1. Init => Breaker!Init
  <2> SUFFICES ASSUME Init PROVE Breaker!Init
    OBVIOUS
  <2>1. \A h \in Handler : ~Watched(h)
    BY DEF Init, Watched, Idle
  <2>2. running = [h \in Handler |-> None]
    BY <2>1 DEF running
  <2> QED BY <2>2 DEF Init, Breaker!Init
<1>2. TypeOK /\ [Next]_vars => [Breaker!Next]_(Breaker!vars)
  <2> SUFFICES ASSUME TypeOK, [Next]_vars PROVE [Breaker!Next]_(Breaker!vars)
    OBVIOUS
  <2>s. ASSUME running' = running, UNCHANGED breakerVars
        PROVE  [Breaker!Next]_(Breaker!vars)
    BY <2>s DEF Breaker!vars, breakerVars
  <2>d. ASSUME NEW h \in Handler, \A g \in Handler \ {h} : call'[g] = call[g],
               ~Watched(h)', UNCHANGED breakerVars
        PROVE  [Breaker!Next]_(Breaker!vars)
    <3>1. CASE Watched(h)
      <4>1. running[h] # None /\ running' = [running EXCEPT ![h] = None]
        BY <2>d, <3>1, RunningEnds
      <4>2. Breaker!Drop(h)
        BY <2>d, <4>1 DEF Breaker!Drop, Breaker!Finish, breakerVars
      <4> QED BY <4>2 DEF Breaker!Next
    <3>2. CASE ~Watched(h)
      <4>1. Watched(h)' = Watched(h)
        BY <2>d, <3>2, Zenon DEF Watched
      <4> QED BY <2>d, <2>s, <3>2, <4>1, RunningSame
    <3> QED BY <3>1, <3>2
  <2>t. ASSUME NEW h \in Handler, NEW s \in Status, Tell(h, s), UNCHANGED breakerVars
        PROVE  [Breaker!Next]_(Breaker!vars)
    <3>1. call'[h] = Idle /\ \A g \in Handler \ {h} : call'[g] = call[g]
      BY <2>t, TellType
    <3>2. ~Watched(h)'
      BY <3>1 DEF Watched, Idle
    <3> QED BY <2>t, <2>d, <3>1, <3>2
  <2>m. ASSUME NEW h \in Handler, NEW s \in Stage \ {"waiting", "answered"}, Move(h, s),
               UNCHANGED breakerVars
        PROVE  [Breaker!Next]_(Breaker!vars)
    <3>1. /\ call'[h] = [call[h] EXCEPT !.stage = s]
          /\ \A g \in Handler \ {h} : call'[g] = call[g]
      BY <2>m, MoveType
    <3>2. ~Watched(h)'
      BY <3>1 DEF Watched, TypeOK, Call
    <3> QED BY <2>m, <2>d, <3>1, <3>2
  <2>1. ASSUME NEW h \in Handler, Begin(h) PROVE [Breaker!Next]_(Breaker!vars)
    <3>1. CASE call' = [call EXCEPT ![h].stage = "matched", ![h].config = config]
      <4>1. \A g \in Handler \ {h} : call'[g] = call[g]
        BY <3>1 DEF TypeOK
      <4>2. call'[h].stage = "matched"
        BY <3>1 DEF TypeOK, Call
      <4>3. ~Watched(h)'
        BY <4>2 DEF Watched
      <4> QED BY <2>1, <2>d, <4>1, <4>3 DEF Begin
    <3>2. CASE \E s \in {"404", "413"} : Tell(h, s)
      BY <2>1, <2>t, <3>2 DEF Begin, Status
    <3> QED BY <2>1, <3>1, <3>2 DEF Begin
  <2>2. ASSUME NEW h \in Handler, Limit(h) PROVE [Breaker!Next]_(Breaker!vars)
    BY <2>2, <2>m DEF Limit, Stage
  <2>3. ASSUME NEW h \in Handler, TellLimited(h) PROVE [Breaker!Next]_(Breaker!vars)
    BY <2>3, <2>t DEF TellLimited, Status
  <2>4. ASSUME NEW h \in Handler, Check(h) PROVE [Breaker!Next]_(Breaker!vars)
    <3>0. ~Watched(h) /\ UNCHANGED failed
      BY <2>4 DEF Check, Watched
    <3>1. PICK u \in Upstream :
            \/ ~call[h].config.breaker /\ Forward(h, u) /\ UNCHANGED mode
            \/ call[h].config.breaker /\ mode[u] # "Open" /\ Forward(h, u) /\ UNCHANGED mode
            \/ /\ call[h].config.breaker /\ mode[u] = "Open"
               /\ \/ Forward(h, u) /\ mode' = [mode EXCEPT ![u] = "HalfOpen"]
                  \/ Move(h, "refused") /\ UNCHANGED mode
      BY <2>4 DEF Check
    <3>2. ASSUME Forward(h, u)
          PROVE  /\ \A g \in Handler \ {h} : call'[g] = call[g]
                 /\ call'[h].upstream = u /\ call'[h].stage = "waiting"
                 /\ call'[h].config = call[h].config
      BY <3>2 DEF Forward, TypeOK, Call
    <3>3. CASE ~call[h].config.breaker /\ Forward(h, u) /\ UNCHANGED mode
      <4>1. ~Watched(h)'
        BY <3>2, <3>3 DEF Watched
      <4> QED BY <2>d, <3>0, <3>2, <3>3, <4>1 DEF breakerVars
    <3>4. CASE /\ call[h].config.breaker /\ Forward(h, u)
               /\ \/ mode[u] # "Open" /\ UNCHANGED mode
                  \/ mode[u] = "Open" /\ mode' = [mode EXCEPT ![u] = "HalfOpen"]
      <4>1. Watched(h)'
        BY <3>2, <3>4 DEF Watched
      <4>2. running[h] = None /\ running' = [running EXCEPT ![h] = u]
        BY <3>0, <3>2, <3>4, <4>1, RunningStarts
      <4>3. Breaker!Start(h, u)
        BY <3>0, <3>4, <4>2 DEF Breaker!Start, Breaker!Become
      <4> QED BY <4>3 DEF Breaker!Next
    <3>5. CASE Move(h, "refused") /\ UNCHANGED mode
      BY <2>m, <3>0, <3>5 DEF Stage, breakerVars
    <3> QED BY <3>1, <3>3, <3>4, <3>5
  <2>5. ASSUME NEW h \in Handler, TellRefused(h) PROVE [Breaker!Next]_(Breaker!vars)
    BY <2>5, <2>t DEF TellRefused, Status
  <2>6. ASSUME NEW h \in Handler, TellBadUri(h) PROVE [Breaker!Next]_(Breaker!vars)
    BY <2>6, <2>t DEF TellBadUri, Status
  <2>7. ASSUME NEW h \in Handler, Respond(h) \/ Timeout(h) PROVE [Breaker!Next]_(Breaker!vars)
    <3>1. PICK s \in Status : Await(h, s)
      BY <2>7 DEF Respond, Timeout, Status, FailureStatus
    <3>2. /\ \A g \in Handler \ {h} : call'[g] = call[g]
          /\ call'[h].upstream = call[h].upstream
          /\ call'[h].stage = "answered" /\ call[h].stage = "waiting"
          /\ call'[h].config = call[h].config
      BY <3>1 DEF Await, TypeOK, Call
    <3>3. Watched(h)' = Watched(h)
      BY <3>2 DEF Watched
    <3> QED BY <2>s, <3>1, <3>2, <3>3, RunningSame DEF Await
  <2>8. ASSUME NEW h \in Handler, Record(h) PROVE [Breaker!Next]_(Breaker!vars)
    <3>1. /\ call'[h].stage = "recorded" /\ call[h].stage = "answered"
          /\ \A g \in Handler \ {h} : call'[g] = call[g]
      <4>1. Move(h, "recorded") /\ call[h].stage = "answered" /\ call[h] \in Call
            /\ "recorded" \in Stage
        BY <2>8 DEF Record, TypeOK, Stage
      <4>2. /\ call'[h] = [call[h] EXCEPT !.stage = "recorded"]
            /\ \A g \in Handler \ {h} : call'[g] = call[g]
        BY <4>1, MoveType
      <4> QED BY <4>1, <4>2 DEF Call
    <3>2. ~Watched(h)'
      BY <3>1 DEF Watched
    <3>3. CASE ~call[h].config.breaker
      BY <2>8, <2>d, <3>1, <3>2, <3>3 DEF Record
    <3>4. CASE call[h].config.breaker
      <4>1. Watched(h)
        BY <3>1, <3>4 DEF Watched
      <4>2. /\ running[h] = call[h].upstream /\ running[h] # None
            /\ running' = [running EXCEPT ![h] = None]
        BY <3>1, <3>2, <4>1, RunningEnds
      <4>3. CASE Succeeded(call[h].upstream)
        <5>1. Breaker!Succeed(h)
          BY <4>2, <4>3 DEF Succeeded, Breaker!Succeed, Breaker!Finish, Breaker!Become
        <5> QED BY <5>1 DEF Breaker!Next
      <4>4. CASE Failed(call[h].upstream)
        <5>1. Breaker!Fail(h)
          BY <4>2, <4>4 DEF Failed, Breaker!Fail, Breaker!Finish, Breaker!Become
        <5> QED BY <5>1 DEF Breaker!Next
      <4> QED BY <2>8, <3>4, <4>3, <4>4 DEF Record
    <3> QED BY <3>3, <3>4
  <2>9. ASSUME NEW h \in Handler, Blame(h) PROVE [Breaker!Next]_(Breaker!vars)
    BY <2>9, <2>m DEF Blame, Stage
  <2>10. ASSUME NEW h \in Handler, CountRequest(h) PROVE [Breaker!Next]_(Breaker!vars)
    <3>1. CASE call' = [call EXCEPT ![h].stage = "body"]
      <4>1. /\ \A g \in Handler \ {h} : call'[g] = call[g]
            /\ call'[h].stage = "body"
        BY <3>1 DEF TypeOK, Call
      <4>2. ~Watched(h)'
        BY <4>1 DEF Watched
      <4> QED BY <2>10, <2>d, <4>1, <4>2 DEF CountRequest
    <3>2. CASE call[h].stage = "blamed" /\ Tell(h, call[h].status)
      <4>1. call[h].status \in Status
        BY <3>2 DEF TypeOK, Call, Forwarded
      <4> QED BY <2>10, <2>t, <3>2, <4>1 DEF CountRequest
    <3> QED BY <2>10, <3>1, <3>2 DEF CountRequest
  <2>11. ASSUME NEW h \in Handler, TellUpstream(h) PROVE [Breaker!Next]_(Breaker!vars)
    <3>1. call[h].status \in Status
      BY <2>11 DEF TellUpstream, TypeOK, Call, Forwarded
    <3> QED BY <2>11, <2>t, <3>1 DEF TellUpstream
  <2>12. ASSUME NEW h \in Handler, TellBroken(h) PROVE [Breaker!Next]_(Breaker!vars)
    BY <2>12, <2>t DEF TellBroken, Status, FailureStatus
  <2>13. ASSUME NEW h \in Handler, HangUp(h) PROVE [Breaker!Next]_(Breaker!vars)
    <3>1. call'[h] = Idle /\ \A g \in Handler \ {h} : call'[g] = call[g]
      BY <2>13 DEF HangUp, TypeOK
    <3>2. ~Watched(h)'
      BY <3>1 DEF Watched, Idle
    <3> QED BY <2>13, <2>d, <3>1, <3>2 DEF HangUp
  <2>14. ASSUME UNCHANGED call, UNCHANGED breakerVars PROVE [Breaker!Next]_(Breaker!vars)
    <3>1. running' = running
      BY <2>14 DEF running, Watched
    <3> QED BY <2>s, <2>14, <3>1
  <2>15. ASSUME NEW u \in Upstream, HealthCheck(u) PROVE [Breaker!Next]_(Breaker!vars)
    <3>1. running' = running
      BY <2>15 DEF HealthCheck, running, Watched
    <3>2. Breaker!HealthPassed(u) \/ Breaker!HealthFailed(u)
      BY <2>15, <3>1 DEF HealthCheck, Breaker!HealthPassed, Breaker!HealthFailed, Breaker!Become
    <3> QED BY <3>2 DEF Breaker!Next
  <2> QED
    BY <2>1, <2>2, <2>3, <2>4, <2>5, <2>6, <2>7, <2>8, <2>9, <2>10, <2>11, <2>12, <2>13,
       <2>14, <2>15 DEF Next, Run, Reload, vars
<1> QED
  BY <1>1, <1>2, TypeCorrect, PTL DEF Spec, KeepsBreakerContract, Breaker!Spec

----------------------------------------------------------------------------
\* How many handlers are at a stage, when one handler moves.
LEMMA AtSame ==
    ASSUME NEW s, \A g \in Handler : (call'[g].stage = s) <=> (call[g].stage = s)
    PROVE  At(s)' = At(s)
<1>1. {g \in Handler : call'[g].stage = s} = {g \in Handler : call[g].stage = s}
  OBVIOUS
<1> QED
  BY <1>1 DEF At

LEMMA AtNat == ASSUME NEW s PROVE At(s) \in Nat
<1>1. IsFiniteSet({g \in Handler : call[g].stage = s})
  BY GatewayAssumption, FS_Subset
<1> QED
  BY <1>1, FS_CardinalityType DEF At

LEMMA AtEnters ==
    ASSUME NEW s, NEW h \in Handler, call[h].stage # s, call'[h].stage = s,
           \A g \in Handler \ {h} : call'[g] = call[g]
    PROVE  At(s)' = At(s) + 1
<1> DEFINE S == {g \in Handler : call[g].stage = s}
<1>1. IsFiniteSet(S) /\ h \notin S
  BY GatewayAssumption, FS_Subset
<1>2. {g \in Handler : call'[g].stage = s} = S \cup {h}
  OBVIOUS
<1>3. Cardinality(S \cup {h}) = Cardinality(S) + 1
  BY <1>1, FS_AddElement
<1> QED
  BY <1>2, <1>3 DEF At

LEMMA AtLeaves ==
    ASSUME NEW s, NEW h \in Handler, call[h].stage = s, call'[h].stage # s,
           \A g \in Handler \ {h} : call'[g] = call[g]
    PROVE  At(s)' = At(s) - 1
<1> DEFINE S == {g \in Handler : call[g].stage = s}
<1>1. IsFiniteSet(S) /\ h \in S
  BY GatewayAssumption, FS_Subset
<1>2. {g \in Handler : call'[g].stage = s} = S \ {h}
  OBVIOUS
<1>3. Cardinality(S \ {h}) = Cardinality(S) - 1
  BY <1>1, FS_RemoveElement
<1> QED
  BY <1>2, <1>3 DEF At

\* Which answer a call at the last stages will give, or has given, its client.
StatusInv ==
    \A h \in Handler :
        /\ call[h].stage = "blamed" => call[h].status \in FailureStatus
        /\ call[h].stage = "body" => call[h].status \in UpstreamStatus

LEMMA StatusInvariant == Spec => []StatusInv
<1>1. Init => StatusInv
  BY DEF Init, StatusInv, Idle
<1>2. TypeOK /\ StatusInv /\ [Next]_vars => StatusInv'
  <2> SUFFICES ASSUME TypeOK, StatusInv, [Next]_vars PROVE StatusInv'
    OBVIOUS
  <2>1. ASSUME NEW h \in Handler, \A g \in Handler \ {h} : call'[g] = call[g],
               call'[h].stage \notin {"blamed", "body"}
        PROVE  StatusInv'
    BY <2>1 DEF StatusInv
  <2>2. ASSUME NEW h \in Handler, NEW s \in Status, Tell(h, s) PROVE StatusInv'
    BY <2>1, <2>2, TellType DEF Idle
  <2>3. ASSUME NEW h \in Handler, NEW s \in Stage \ {"blamed", "body"}, Move(h, s)
        PROVE  StatusInv'
    BY <2>1, <2>3 DEF Move, TypeOK, Call
  <2>4. ASSUME NEW h \in Handler, Begin(h) PROVE StatusInv'
    <3>1. CASE call' = [call EXCEPT ![h].stage = "matched", ![h].config = config]
      BY <2>1, <3>1 DEF TypeOK, Call
    <3> QED BY <2>2, <2>4, <3>1 DEF Begin, Status
  <2>5. ASSUME NEW h \in Handler, Check(h) PROVE StatusInv'
    <3>1. call'[h].stage \in {"waiting", "refused"} /\ \A g \in Handler \ {h} : call'[g] = call[g]
      BY <2>5 DEF Check, Forward, Move, TypeOK, Call
    <3> QED BY <2>1, <3>1
  <2>6. ASSUME NEW h \in Handler, Respond(h) \/ Timeout(h) PROVE StatusInv'
    <3>1. call'[h].stage = "answered" /\ \A g \in Handler \ {h} : call'[g] = call[g]
      BY <2>6 DEF Respond, Timeout, Await, TypeOK, Call
    <3> QED BY <2>1, <3>1
  <2>7. ASSUME NEW h \in Handler, Blame(h) PROVE StatusInv'
    <3>1. /\ call'[h].status \in FailureStatus /\ call'[h].stage = "blamed"
          /\ \A g \in Handler \ {h} : call'[g] = call[g]
      BY <2>7 DEF Blame, Move, TypeOK, Call
    <3> QED BY <3>1 DEF StatusInv
  <2>8. ASSUME NEW h \in Handler, CountRequest(h) PROVE StatusInv'
    <3>1. CASE /\ call[h].status \in UpstreamStatus
               /\ call' = [call EXCEPT ![h].stage = "body"]
      <4>1. /\ call'[h].status \in UpstreamStatus /\ call'[h].stage = "body"
            /\ \A g \in Handler \ {h} : call'[g] = call[g]
        BY <3>1 DEF TypeOK, Call
      <4> QED BY <4>1 DEF StatusInv
    <3>2. CASE call[h].stage = "blamed" /\ Tell(h, call[h].status)
      <4>1. call[h].status \in Status
        BY <3>2 DEF StatusInv, Status
      <4> QED BY <2>2, <3>2, <4>1
    <3> QED BY <2>8, <3>1, <3>2 DEF CountRequest
  <2>9. ASSUME NEW h \in Handler, TellUpstream(h) PROVE StatusInv'
    <3>1. call[h].status \in Status
      BY <2>9 DEF TellUpstream, StatusInv, Status
    <3> QED BY <2>2, <2>9, <3>1 DEF TellUpstream
  <2>10. ASSUME NEW h \in Handler, HangUp(h) PROVE StatusInv'
    <3>1. call'[h].stage = "idle" /\ \A g \in Handler \ {h} : call'[g] = call[g]
      BY <2>10 DEF HangUp, TypeOK, Idle
    <3> QED BY <2>1, <3>1
  <2>11. ASSUME NEW h \in Handler,
                TellLimited(h) \/ TellRefused(h) \/ TellBadUri(h) \/ TellBroken(h)
         PROVE  StatusInv'
    BY <2>2, <2>11 DEF TellLimited, TellRefused, TellBadUri, TellBroken, Status, FailureStatus
  <2>12. ASSUME NEW h \in Handler, Limit(h) \/ Record(h) PROVE StatusInv'
    BY <2>3, <2>12 DEF Limit, Record, Stage
  <2>13. ASSUME UNCHANGED call PROVE StatusInv'
    BY <2>13 DEF StatusInv
  <2> QED
    BY <2>4, <2>5, <2>6, <2>7, <2>8, <2>9, <2>10, <2>11, <2>12, <2>13
    DEF Next, Run, Reload, HealthCheck, vars
<1> QED
  BY <1>1, <1>2, TypeCorrect, PTL DEF Spec

\* The books of /metrics always balance with what clients were told, the calls in
\* between accounted for, however handlers and reloads interleave (proxy.rs 363-545).
THEOREM MetricsAreTrue == Spec => []MetricsMatchAnswers
<1> USE GatewayAssumption, NoneAssumption
<1>1. Init => MetricsMatchAnswers
  <2> SUFFICES ASSUME Init PROVE MetricsMatchAnswers
    OBVIOUS
  <2>1. \A s \in {"blamed", "body"} : {h \in Handler : call[h].stage = s} = {}
    BY DEF Init, Idle
  <2>2. At("blamed") = 0 /\ At("body") = 0
    BY <2>1, FS_EmptySet DEF At
  <2> QED BY <2>2 DEF Init, MetricsMatchAnswers, Counter, Status, UpstreamStatus, FailureStatus
<1>2. TypeOK /\ StatusInv /\ MetricsMatchAnswers /\ [Next]_vars => MetricsMatchAnswers'
  <2> SUFFICES ASSUME TypeOK, StatusInv, MetricsMatchAnswers, [Next]_vars PROVE MetricsMatchAnswers'
    OBVIOUS
  <2>n. /\ At("blamed") \in Nat /\ At("body") \in Nat
        /\ \A c \in Counter : metrics[c] \in Nat
        /\ \A s \in Status : told[s] \in Nat
    BY AtNat DEF TypeOK
  <2>c. /\ {"requests", "failures", "limited", "refused"} = Counter
        /\ {"ok", "5xx", "502", "504", "404", "413", "429", "500", "refused"} = Status
    BY DEF Counter, Status, UpstreamStatus, FailureStatus
  <2>s. ASSUME UNCHANGED <<metrics, told>>,
               At("blamed")' = At("blamed"), At("body")' = At("body")
        PROVE  MetricsMatchAnswers'
    BY <2>n, <2>c, <2>s DEF MetricsMatchAnswers
  \* A step of h from and to stages that the books do not name.
  <2>q. ASSUME NEW h \in Handler, UNCHANGED <<metrics, told>>,
               \A g \in Handler \ {h} : call'[g] = call[g],
               call[h].stage \notin {"blamed", "body"}, call'[h].stage \notin {"blamed", "body"}
        PROVE  MetricsMatchAnswers'
    <3>1. At("blamed")' = At("blamed") /\ At("body")' = At("body")
      BY <2>q, AtSame
    <3> QED BY <2>n, <2>q, <2>s, <3>1
  \* An answer that no counter of the books stands for, or that one just counted.
  <2>t. ASSUME NEW h \in Handler, NEW s \in Status, Tell(h, s)
        PROVE  /\ call'[h].stage = "idle" /\ \A g \in Handler \ {h} : call'[g] = call[g]
               /\ told'[s] = told[s] + 1 /\ \A x \in Status \ {s} : told'[x] = told[x]
    BY <2>t, TellType DEF Idle
  <2>1. ASSUME NEW h \in Handler, Begin(h) PROVE MetricsMatchAnswers'
    <3>1. CASE call' = [call EXCEPT ![h].stage = "matched", ![h].config = config] /\ UNCHANGED told
      <4>1. call'[h].stage = "matched" /\ \A g \in Handler \ {h} : call'[g] = call[g]
        BY <3>1 DEF TypeOK, Call
      <4> QED BY <2>1, <2>q, <3>1, <4>1 DEF Begin
    <3>2. CASE \E s \in {"404", "413"} : Tell(h, s)
      <4>1. PICK s \in {"404", "413"} : Tell(h, s)
        BY <3>2
      <4>2. /\ call'[h].stage = "idle" /\ \A g \in Handler \ {h} : call'[g] = call[g]
            /\ \A x \in Status \ {"404", "413"} : told'[x] = told[x]
        BY <2>t, <2>c, <4>1
      <4>3. At("blamed")' = At("blamed") /\ At("body")' = At("body")
        BY <2>1, <4>2, AtSame DEF Begin
      <4> QED BY <2>1, <2>c, <4>2, <4>3 DEF Begin, MetricsMatchAnswers
    <3> QED BY <2>1, <3>1, <3>2 DEF Begin
  <2>2. ASSUME NEW h \in Handler, Limit(h) PROVE MetricsMatchAnswers'
    <3>1. call'[h].stage \in {"allowed", "limited"} /\ \A g \in Handler \ {h} : call'[g] = call[g]
      BY <2>2 DEF Limit, Move, TypeOK, Call
    <3> QED BY <2>2, <2>q, <3>1 DEF Limit
  <2>3. ASSUME NEW h \in Handler, TellLimited(h) PROVE MetricsMatchAnswers'
    <3>1. /\ call'[h].stage = "idle" /\ \A g \in Handler \ {h} : call'[g] = call[g]
          /\ told'["429"] = told["429"] + 1 /\ \A x \in Status \ {"429"} : told'[x] = told[x]
      BY <2>3, <2>t, <2>c DEF TellLimited
    <3>2. At("blamed")' = At("blamed") /\ At("body")' = At("body")
      BY <2>3, <3>1, AtSame DEF TellLimited
    <3>3. /\ metrics'.limited = metrics.limited + 1
          /\ metrics'.refused = metrics.refused /\ metrics'.failures = metrics.failures
          /\ metrics'.requests = metrics.requests
      BY <2>3, <2>c, CountType DEF TellLimited
    <3> QED BY <2>n, <2>c, <3>1, <3>2, <3>3 DEF MetricsMatchAnswers
  <2>4. ASSUME NEW h \in Handler, Check(h) PROVE MetricsMatchAnswers'
    <3>1. call'[h].stage \in {"waiting", "refused"} /\ \A g \in Handler \ {h} : call'[g] = call[g]
      BY <2>4 DEF Check, Forward, Move, TypeOK, Call
    <3> QED BY <2>4, <2>q, <3>1 DEF Check
  <2>5. ASSUME NEW h \in Handler, TellRefused(h) PROVE MetricsMatchAnswers'
    <3>1. /\ call'[h].stage = "idle" /\ \A g \in Handler \ {h} : call'[g] = call[g]
          /\ told'["refused"] = told["refused"] + 1
          /\ \A x \in Status \ {"refused"} : told'[x] = told[x]
      BY <2>5, <2>t, <2>c DEF TellRefused
    <3>2. At("blamed")' = At("blamed") /\ At("body")' = At("body")
      BY <2>5, <3>1, AtSame DEF TellRefused
    <3>3. /\ metrics'.refused = metrics.refused + 1
          /\ metrics'.limited = metrics.limited /\ metrics'.failures = metrics.failures
          /\ metrics'.requests = metrics.requests
      BY <2>5, <2>c, CountType DEF TellRefused
    <3> QED BY <2>n, <2>c, <3>1, <3>2, <3>3 DEF MetricsMatchAnswers
  <2>6. ASSUME NEW h \in Handler, TellBadUri(h) PROVE MetricsMatchAnswers'
    <3>1. /\ call'[h].stage = "idle" /\ \A g \in Handler \ {h} : call'[g] = call[g]
          /\ \A x \in Status \ {"500"} : told'[x] = told[x]
      BY <2>6, <2>t, <2>c DEF TellBadUri
    <3>2. At("blamed")' = At("blamed") /\ At("body")' = At("body")
      BY <2>6, <3>1, AtSame DEF TellBadUri
    <3> QED BY <2>6, <2>c, <3>1, <3>2 DEF TellBadUri, MetricsMatchAnswers
  <2>7. ASSUME NEW h \in Handler, Respond(h) \/ Timeout(h) PROVE MetricsMatchAnswers'
    <3>1. /\ call'[h].stage = "answered" /\ call[h].stage = "waiting"
          /\ \A g \in Handler \ {h} : call'[g] = call[g]
          /\ UNCHANGED <<metrics, told>>
      BY <2>7 DEF Respond, Timeout, Await, TypeOK, Call
    <3> QED BY <2>q, <3>1
  <2>8. ASSUME NEW h \in Handler, Record(h) PROVE MetricsMatchAnswers'
    <3>1. call'[h].stage = "recorded" /\ \A g \in Handler \ {h} : call'[g] = call[g]
      BY <2>8 DEF Record, Move, TypeOK, Call
    <3> QED BY <2>8, <2>q, <3>1 DEF Record
  <2>9. ASSUME NEW h \in Handler, Blame(h) PROVE MetricsMatchAnswers'
    <3>1. call'[h].stage = "blamed" /\ \A g \in Handler \ {h} : call'[g] = call[g]
      BY <2>9 DEF Blame, Move, TypeOK, Call
    <3>2. At("blamed")' = At("blamed") + 1
      BY <2>9, <3>1, AtEnters DEF Blame
    <3>3. At("body")' = At("body")
      BY <2>9, <3>1, AtSame DEF Blame
    <3>4. /\ metrics'.failures = metrics.failures + 1
          /\ metrics'.limited = metrics.limited /\ metrics'.refused = metrics.refused
          /\ metrics'.requests = metrics.requests /\ told' = told
      BY <2>9, <2>c, CountType DEF Blame
    <3>5. metrics'.failures = told["502"] + told["504"] + At("blamed")'
      <4>1. /\ metrics.failures = told["502"] + told["504"] + At("blamed")
            /\ told["502"] \in Nat /\ told["504"] \in Nat
        BY <2>n, <2>c DEF MetricsMatchAnswers
      <4> QED BY <2>n, <3>2, <3>4, <4>1
    <3> QED BY <3>3, <3>4, <3>5 DEF MetricsMatchAnswers
  <2>10. ASSUME NEW h \in Handler, CountRequest(h) PROVE MetricsMatchAnswers'
    <3>1. /\ metrics'.requests = metrics.requests + 1
          /\ metrics'.limited = metrics.limited /\ metrics'.refused = metrics.refused
          /\ metrics'.failures = metrics.failures
      BY <2>10, <2>c, CountType DEF CountRequest
    <3>2. CASE /\ call[h].stage = "recorded" /\ UNCHANGED told
               /\ call' = [call EXCEPT ![h].stage = "body"]
      <4>1. call'[h].stage = "body" /\ \A g \in Handler \ {h} : call'[g] = call[g]
        BY <3>2 DEF TypeOK, Call
      <4>2. At("body")' = At("body") + 1
        BY <3>2, <4>1, AtEnters
      <4>3. At("blamed")' = At("blamed")
        BY <3>2, <4>1, AtSame
      <4> QED BY <2>n, <2>c, <3>1, <3>2, <4>2, <4>3 DEF MetricsMatchAnswers
    <3>3. CASE call[h].stage = "blamed" /\ Tell(h, call[h].status)
      <4>1. call[h].status \in FailureStatus /\ call[h].status \in Status
        BY <3>3 DEF StatusInv, Status
      <4>2. /\ call'[h].stage = "idle" /\ \A g \in Handler \ {h} : call'[g] = call[g]
            /\ told'[call[h].status] = told[call[h].status] + 1
            /\ \A x \in Status \ {call[h].status} : told'[x] = told[x]
        BY <2>t, <3>3, <4>1
      <4>3. At("blamed")' = At("blamed") - 1
        BY <3>3, <4>2, AtLeaves
      <4>4. At("body")' = At("body")
        BY <3>3, <4>2, AtSame
      <4>5. CASE call[h].status = "502"
        BY <2>n, <2>c, <3>1, <4>2, <4>3, <4>4, <4>5 DEF MetricsMatchAnswers
      <4>6. CASE call[h].status = "504"
        BY <2>n, <2>c, <3>1, <4>2, <4>3, <4>4, <4>6 DEF MetricsMatchAnswers
      <4> QED BY <4>1, <4>5, <4>6 DEF FailureStatus
    <3> QED BY <2>10, <3>2, <3>3 DEF CountRequest
  <2>11. ASSUME NEW h \in Handler, TellUpstream(h) PROVE MetricsMatchAnswers'
    <3>1. call[h].status \in UpstreamStatus /\ call[h].status \in Status
      BY <2>11 DEF TellUpstream, StatusInv, Status
    <3>2. /\ call'[h].stage = "idle" /\ \A g \in Handler \ {h} : call'[g] = call[g]
          /\ told'[call[h].status] = told[call[h].status] + 1
          /\ \A x \in Status \ {call[h].status} : told'[x] = told[x]
      BY <2>11, <2>t, <3>1 DEF TellUpstream
    <3>3. At("body")' = At("body") - 1
      BY <2>11, <3>2, AtLeaves DEF TellUpstream
    <3>4. At("blamed")' = At("blamed") /\ metrics' = metrics
      BY <2>11, <3>2, AtSame DEF TellUpstream
    <3>5. CASE call[h].status = "ok"
      BY <2>n, <2>c, <3>2, <3>3, <3>4, <3>5 DEF MetricsMatchAnswers
    <3>6. CASE call[h].status = "5xx"
      BY <2>n, <2>c, <3>2, <3>3, <3>4, <3>6 DEF MetricsMatchAnswers
    <3> QED BY <3>1, <3>5, <3>6 DEF UpstreamStatus
  <2>12. ASSUME NEW h \in Handler, TellBroken(h) PROVE MetricsMatchAnswers'
    <3>1. /\ call'[h].stage = "idle" /\ \A g \in Handler \ {h} : call'[g] = call[g]
          /\ told'["502"] = told["502"] + 1 /\ \A x \in Status \ {"502"} : told'[x] = told[x]
      BY <2>12, <2>t, <2>c DEF TellBroken
    <3>2. At("body")' = At("body") - 1
      BY <2>12, <3>1, AtLeaves DEF TellBroken
    <3>3. At("blamed")' = At("blamed")
      BY <2>12, <3>1, AtSame DEF TellBroken
    <3>4. /\ metrics'.failures = metrics.failures + 1
          /\ metrics'.limited = metrics.limited /\ metrics'.refused = metrics.refused
          /\ metrics'.requests = metrics.requests
      BY <2>12, <2>c, CountType DEF TellBroken
    <3> QED BY <2>n, <2>c, <3>1, <3>2, <3>3, <3>4 DEF MetricsMatchAnswers
  <2>13. ASSUME NEW h \in Handler, HangUp(h) PROVE MetricsMatchAnswers'
    <3>1. /\ call'[h].stage = "idle" /\ \A g \in Handler \ {h} : call'[g] = call[g]
          /\ call[h].stage \in {"waiting", "body"} /\ UNCHANGED <<metrics, told>>
      BY <2>13 DEF HangUp, TypeOK, Idle
    <3>2. At("blamed")' = At("blamed")
      BY <3>1, AtSame
    <3>3. At("body")' \in {At("body"), At("body") - 1}
      BY <3>1, AtSame, AtLeaves
    <3>4. At("body")' =< At("body")
      BY <2>n, <3>3
    <3> QED BY <2>n, <2>c, <3>1, <3>2, <3>3, <3>4 DEF MetricsMatchAnswers
  <2>14. ASSUME UNCHANGED <<call, metrics, told>> PROVE MetricsMatchAnswers'
    <3>1. At("blamed")' = At("blamed") /\ At("body")' = At("body")
      BY <2>14, AtSame
    <3> QED BY <2>14, <2>n, <2>s, <3>1
  <2> QED
    BY <2>1, <2>2, <2>3, <2>4, <2>5, <2>6, <2>7, <2>8, <2>9, <2>10, <2>11, <2>12, <2>13,
       <2>14 DEF Next, Run, Reload, HealthCheck, vars
<1> QED
  BY <1>1, <1>2, TypeCorrect, StatusInvariant, PTL DEF Spec
----------------------------------------------------------------------------
\* How many steps a handler can still take at each stage before it is idle.
StepsLeft == [s \in Stage |->
    CASE s = "idle" -> 0
      [] s \in {"limited", "refused", "blamed", "body"} -> 1
      [] s = "recorded" -> 2
      [] s = "answered" -> 3
      [] s = "waiting" -> 4
      [] s = "allowed" -> 5
      [] s = "matched" -> 6]

Ahead(h) == StepsLeft[call'[h].stage] < StepsLeft[call[h].stage]

\* A handler never repeats a step: no reload, health check or other handler sends it
\* back to an earlier one (proxy.rs 293-555).
OnlyAhead ==
    [][\A h \in Handler : call[h].stage # "idle" => call'[h] = call[h] \/ Ahead(h)]_vars

\* A handler takes at most six steps from its first to its last one, whatever the
\* others do (proxy.rs 293-555): with the fairness of OnlyBodiesKeepWaiting, which
\* sees to all of them but the last, nothing but that one can be missing in the end.
THEOREM CallsOnlyGoAhead == Spec => OnlyAhead
<1>1. ASSUME TypeOK, [Next]_vars
      PROVE  \A h \in Handler : call[h].stage # "idle" => call'[h] = call[h] \/ Ahead(h)
  <2>a. \A h \in Handler : call[h] \in Call /\ call[h].stage \in Stage
    BY <1>1 DEF TypeOK, Call
  <2>b. \A s \in Stage : s # "idle" => StepsLeft["idle"] < StepsLeft[s]
    BY DEF StepsLeft, Stage
  <2>m. ASSUME NEW h \in Handler, NEW s \in Stage, StepsLeft[s] < StepsLeft[call[h].stage],
               call'[h].stage = s, \A g \in Handler \ {h} : call'[g] = call[g]
        PROVE  \A g \in Handler : call[g].stage # "idle" => call'[g] = call[g] \/ Ahead(g)
    BY <2>m DEF Ahead
  <2>t. ASSUME NEW h \in Handler, call'[h].stage = "idle",
               \A g \in Handler \ {h} : call'[g] = call[g]
        PROVE  \A g \in Handler : call[g].stage # "idle" => call'[g] = call[g] \/ Ahead(g)
    BY <2>a, <2>b, <2>t DEF Ahead
  <2>1. ASSUME NEW h \in Handler, Begin(h)
        PROVE  \A g \in Handler \ {h} : call'[g] = call[g]
    BY <1>1, <2>1 DEF Begin, Tell, TypeOK
  <2>2. ASSUME NEW h \in Handler, Limit(h) \/ Check(h) \/ Respond(h) \/ Timeout(h)
                                 \/ Record(h) \/ Blame(h)
        PROVE  /\ call'[h].stage \in Stage /\ StepsLeft[call'[h].stage] < StepsLeft[call[h].stage]
               /\ \A g \in Handler \ {h} : call'[g] = call[g]
    <3>1. \A g \in Handler \ {h} : call'[g] = call[g]
      BY <1>1, <2>2 DEF Limit, Check, Respond, Timeout, Await, Record, Blame, Move, Forward, TypeOK
    <3>2. CASE Limit(h)
      <4>1. call[h].stage = "matched" /\ call'[h].stage \in {"allowed", "limited"}
        BY <1>1, <2>a, <3>2 DEF Limit, Move, TypeOK, Call
      <4> QED BY <3>1, <4>1 DEF StepsLeft, Stage
    <3>3. CASE Check(h)
      <4>1. call[h].stage = "allowed" /\ call'[h].stage \in {"waiting", "refused"}
        BY <1>1, <2>a, <3>3 DEF Check, Forward, Move, TypeOK, Call
      <4> QED BY <3>1, <4>1 DEF StepsLeft, Stage
    <3>4. CASE Respond(h) \/ Timeout(h)
      <4>1. call[h].stage = "waiting" /\ call'[h].stage = "answered"
        BY <1>1, <2>a, <3>4 DEF Respond, Timeout, Await, TypeOK, Call
      <4> QED BY <3>1, <4>1 DEF StepsLeft, Stage
    <3>5. CASE Record(h)
      <4>1. call[h].stage = "answered" /\ call'[h].stage = "recorded"
        BY <1>1, <2>a, <3>5 DEF Record, Move, TypeOK, Call
      <4> QED BY <3>1, <4>1 DEF StepsLeft, Stage
    <3>6. CASE Blame(h)
      <4>1. call[h].stage = "recorded" /\ call'[h].stage = "blamed"
        BY <1>1, <2>a, <3>6 DEF Blame, Move, TypeOK, Call
      <4> QED BY <3>1, <4>1 DEF StepsLeft, Stage
    <3> QED BY <2>2, <3>2, <3>3, <3>4, <3>5, <3>6
  <2>3. ASSUME NEW h \in Handler, TellLimited(h) \/ TellRefused(h) \/ TellBadUri(h)
                                 \/ TellUpstream(h) \/ TellBroken(h) \/ HangUp(h)
        PROVE  call'[h].stage = "idle" /\ \A g \in Handler \ {h} : call'[g] = call[g]
    BY <1>1, <2>3
       DEF TellLimited, TellRefused, TellBadUri, TellUpstream, TellBroken, HangUp, Tell, TypeOK, Idle
  <2>4. ASSUME NEW h \in Handler, CountRequest(h)
        PROVE  \A g \in Handler : call[g].stage # "idle" => call'[g] = call[g] \/ Ahead(g)
    <3>1. CASE call[h].stage = "recorded" /\ call' = [call EXCEPT ![h].stage = "body"]
      <4>1. call'[h].stage = "body" /\ \A g \in Handler \ {h} : call'[g] = call[g]
        BY <1>1, <2>a, <3>1 DEF TypeOK, Call
      <4>2. "body" \in Stage /\ StepsLeft["body"] < StepsLeft[call[h].stage]
        BY <3>1 DEF StepsLeft, Stage
      <4> QED BY <2>m, <4>1, <4>2
    <3>2. CASE call' = [call EXCEPT ![h] = Idle]
      <4>1. call'[h].stage = "idle" /\ \A g \in Handler \ {h} : call'[g] = call[g]
        BY <1>1, <3>2 DEF TypeOK, Idle
      <4> QED BY <2>t, <4>1
    <3> QED BY <2>4, <3>1, <3>2 DEF CountRequest, Tell
  <2>5. ASSUME NEW h \in Handler, Begin(h)
        PROVE  \A g \in Handler : call[g].stage # "idle" => call'[g] = call[g] \/ Ahead(g)
    BY <2>1, <2>5 DEF Begin
  <2>6. ASSUME UNCHANGED call
        PROVE  \A g \in Handler : call[g].stage # "idle" => call'[g] = call[g] \/ Ahead(g)
    BY <2>6
  <2>7. ASSUME NEW h \in Handler, Limit(h) \/ Check(h) \/ Respond(h) \/ Timeout(h)
                                 \/ Record(h) \/ Blame(h)
        PROVE  \A g \in Handler : call[g].stage # "idle" => call'[g] = call[g] \/ Ahead(g)
    BY <2>2, <2>7, <2>m
  <2>8. ASSUME NEW h \in Handler, TellLimited(h) \/ TellRefused(h) \/ TellBadUri(h)
                                 \/ TellUpstream(h) \/ TellBroken(h) \/ HangUp(h)
        PROVE  \A g \in Handler : call[g].stage # "idle" => call'[g] = call[g] \/ Ahead(g)
    BY <2>3, <2>8, <2>t
  <2> QED BY <1>1, <2>4, <2>5, <2>6, <2>7, <2>8 DEF Next, Run, Reload, HealthCheck, vars
<1> QED BY <1>1, TypeCorrect, PTL DEF Spec, OnlyAhead
=============================================================================
