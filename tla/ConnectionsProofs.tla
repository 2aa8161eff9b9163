------------------------- MODULE ConnectionsProofs -------------------------
(***************************************************************************)
(* Proofs about what the gateway does with its connections: Drain, for any *)
(* finite number of them and any timeouts, and Tunnel, for frames without  *)
(* number.                                                                 *)
(***************************************************************************)
EXTENDS Drain, Tunnel, FiniteSetTheorems, SequenceTheorems, TLAPS

----------------------------------------------------------------------------
\* The listener and its drain.

Working == {"handshake", "idle", "busy"}

\* The drain loop sleeps only when the deadline has not passed.  The task that
\* counts never ends before its connection.
DrainInv ==
    /\ TypeOK
    /\ server = "serving" => elapsed = 0 /\ ~awake
    /\ server = "draining" /\ ~awake => elapsed <= DrainTimeout
    /\ server \in {"serving", "draining"} =>
          \A c \in Connection : conn[c].stage # "cut"
    /\ server \in {"down", "failed"} => Open = {}
    /\ CountIsLive

Drained == {"down", "failed"}

----------------------------------------------------------------------------
\* What one connection has to do with the time since the signal, when nothing is
\* slow: its handshake began before, and once it is over the task hears of the
\* signal before the next tick.
InTime(r) ==
    /\ r.stage = "handshake" => r.subscribed /\ elapsed <= r.age
    /\ r.stage = "idle" => r.subscribed /\ elapsed <= MaxHandshake
    /\ r.stage = "busy" =>
          \/ r.subscribed /\ elapsed <= MaxHandshake
          \/ r.told /\ elapsed <= MaxHandshake + r.age

\* While the listener serves every task is subscribed and none was told.
Subscribed(r) == r.stage \in Working => r.subscribed /\ ~r.told

Ages(r) ==
    /\ r.stage = "handshake" => r.age <= MaxHandshake
    /\ r.stage = "busy" => r.age <= MaxRequest

TimeInv ==
    /\ \A c \in Connection : Ages(conn[c])
    /\ server = "serving" => \A c \in Connection : Subscribed(conn[c])
    /\ server = "draining" /\ ~slow => \A c \in Connection : InTime(conn[c])
    /\ CleanDrain

----------------------------------------------------------------------------
LEMMA FreeIsConn == Free \in Conn
BY DrainAssumption DEF Free, Conn, Stage, Bound

LEMMA BoundBounds ==
    Bound \in Nat /\ MaxHandshake <= Bound /\ MaxRequest <= Bound
BY DrainAssumption DEF Bound

LEMMA OpenIsFinite == IsFiniteSet(Open) /\ Open \subseteq Connection
<1>1. Open \subseteq Connection
  BY DEF Open
<1> QED BY <1>1, FS_Subset, DrainAssumption

\* The number of working connections of a slot table, as a fact on sets: one slot
\* changes from r to s.
LEMMA OneConnectionChanges ==
    ASSUME TypeOK, NEW c \in Connection, NEW r \in Conn,
           conn' = [conn EXCEPT ![c] = r]
    PROVE  /\ conn' \in [Connection -> Conn]
           /\ conn'[c] = r
           /\ \A d \in Connection \ {c} : conn'[d] = conn[d]
           /\ Open' = IF r.stage \in Working THEN Open \cup {c} ELSE Open \ {c}
BY DEF TypeOK, Open, Working

LEMMA CountChanges ==
    ASSUME NEW c \in Connection
    PROVE  /\ Cardinality(Open) \in Nat
           /\ c \in Open => /\ Cardinality(Open \ {c}) = Cardinality(Open) - 1
                            /\ Cardinality(Open) > 0
                            /\ Open \cup {c} = Open
           /\ c \notin Open => Cardinality(Open \cup {c}) = Cardinality(Open) + 1
<1>1. IsFiniteSet(Open)
  BY OpenIsFinite
<1>2. Cardinality(Open) \in Nat
  BY <1>1, FS_CardinalityType
<1>3. ASSUME c \in Open
      PROVE  /\ Cardinality(Open \ {c}) = Cardinality(Open) - 1
             /\ Cardinality(Open) > 0
             /\ Open \cup {c} = Open
  <2>1. Cardinality(Open \ {c}) = Cardinality(Open) - 1
    BY <1>1, <1>3, FS_RemoveElement
  <2>2. Cardinality(Open \ {c}) \in Nat
    BY <1>1, FS_RemoveElement, FS_CardinalityType
  <2>3. Open \cup {c} = Open
    BY <1>3
  <2> QED BY <1>2, <2>1, <2>2, <2>3
<1>4. ASSUME c \notin Open
      PROVE  Cardinality(Open \cup {c}) = Cardinality(Open) + 1
  BY <1>1, <1>4, FS_AddElement
<1> QED BY <1>2, <1>3, <1>4

----------------------------------------------------------------------------
LEMMA DrainInvInit == Init => DrainInv
<1> SUFFICES ASSUME Init PROVE DrainInv
    OBVIOUS
<1>1. Open = {}
  BY DEF Init, Open, Free
<1>2. Cardinality(Open) = 0
  BY <1>1, FS_EmptySet
<1>3. elapsed \in 0..(DrainTimeout + 1) /\ count \in Nat
  BY DrainAssumption DEF Init
<1>4. TypeOK
  BY <1>3, FreeIsConn DEF Init, TypeOK
<1> QED BY <1>1, <1>2, <1>4 DEF Init, DrainInv, CountIsLive, Free

\* A step of one connection while the listener serves or drains: it keeps the
\* count in step with the working connections.
LEMMA ConnectionStep ==
    ASSUME DrainInv, NEW c \in Connection, NEW r \in Conn, r.stage # "cut",
           conn' = [conn EXCEPT ![c] = r],
           UNCHANGED <<server, awake, elapsed, slow>>,
           server \in {"serving", "draining"},
           \/ r.stage \in Working /\ c \in Open /\ count' = count
           \/ r.stage \in Working /\ c \notin Open /\ count' = count + 1
           \/ r.stage \notin Working /\ c \in Open /\ count' = count - 1
    PROVE  DrainInv'
<1>1. TypeOK /\ count = Cardinality(Open)
  BY DEF DrainInv, CountIsLive
<1>2. /\ conn' \in [Connection -> Conn]
      /\ \A d \in Connection : conn'[d].stage # "cut"
      /\ Open' = IF r.stage \in Working THEN Open \cup {c} ELSE Open \ {c}
  BY <1>1, OneConnectionChanges DEF DrainInv
<1>3. count' \in Nat /\ count' = Cardinality(Open')
  <2>1. Cardinality(Open) \in Nat
    BY CountChanges
  <2>2. CASE r.stage \in Working /\ c \in Open /\ count' = count
    <3>1. Open' = Open
      BY <1>2, <2>2, CountChanges
    <3> QED BY <1>1, <2>1, <2>2, <3>1
  <2>3. CASE r.stage \in Working /\ c \notin Open /\ count' = count + 1
    <3>1. Open' = Open \cup {c}
      BY <1>2, <2>3
    <3>2. Cardinality(Open \cup {c}) = Cardinality(Open) + 1
      BY <2>3, CountChanges
    <3> QED BY <1>1, <2>1, <2>3, <3>1, <3>2
  <2>4. CASE r.stage \notin Working /\ c \in Open /\ count' = count - 1
    <3>1. Open' = Open \ {c}
      BY <1>2, <2>4
    <3>2. Cardinality(Open \ {c}) = Cardinality(Open) - 1 /\ Cardinality(Open) > 0
      BY <2>4, CountChanges
    <3> QED BY <1>1, <2>1, <2>4, <3>1, <3>2
  <2> QED BY <2>2, <2>3, <2>4
<1>4. TypeOK'
  BY <1>1, <1>2, <1>3 DEF TypeOK
<1> QED BY <1>2, <1>3, <1>4 DEF DrainInv, CountIsLive

\* Connections are worked on only while the listener serves or drains.
LEMMA WorkNeedsListener ==
    ASSUME DrainInv, NEW c \in Connection, conn[c].stage \in Working
    PROVE  c \in Open /\ server \in {"serving", "draining"}
<1>1. c \in Open
  BY DEF Open, Working
<1> QED BY <1>1 DEF DrainInv, TypeOK

LEMMA DrainInvStep == DrainInv /\ [Next]_vars => DrainInv'
<1> SUFFICES ASSUME DrainInv, [Next]_vars PROVE DrainInv'
    OBVIOUS
<1>0. TypeOK /\ \A c \in Connection : conn[c] \in Conn
  BY DEF DrainInv, TypeOK
<1>1. ASSUME NEW c \in Connection, Accept(c) PROVE DrainInv'
  <2> DEFINE r == [Free EXCEPT !.stage = "handshake", !.subscribed = TRUE]
  <2>1. r \in Conn /\ r.stage = "handshake"
    BY FreeIsConn DEF Conn, Free, Stage
  <2>2. c \notin Open /\ conn' = [conn EXCEPT ![c] = r]
    BY <1>1 DEF Accept, Open
  <2> HIDE DEF r
  <2> QED BY <1>1, <2>1, <2>2, ConnectionStep DEF Accept, Working
<1>2. ASSUME NEW c \in Connection, NEW s \in {"idle", "busy"},
             conn[c].stage \in Working, Enter(c, s),
             UNCHANGED <<server, count, awake, elapsed, slow>>
      PROVE  DrainInv'
  <2> DEFINE r == [conn[c] EXCEPT !.stage = s, !.age = 0]
  <2>1. r \in Conn /\ r.stage = s
    <3>1. 0 \in 0..Bound
      BY BoundBounds
    <3>2. s \in Stage
      BY DEF Stage
    <3> QED BY <1>0, <3>1, <3>2 DEF Conn
  <2>2. conn' = [conn EXCEPT ![c] = r]
    BY <1>0, <1>2 DEF Enter, TypeOK
  <2> HIDE DEF r
  <2> QED BY <1>2, <2>1, <2>2, WorkNeedsListener, ConnectionStep DEF Working
<1>3. ASSUME NEW c \in Connection, conn[c].stage \in Working, End(c),
             UNCHANGED <<server, awake, elapsed, slow>>
      PROVE  DrainInv'
  <2>1. Free.stage = "none"
    BY DEF Free
  <2> QED BY <1>3, <2>1, FreeIsConn, WorkNeedsListener, ConnectionStep DEF End, Working
<1>4. ASSUME NEW c \in Connection, CanNotice(c), conn[c].stage = "busy",
             conn' = [conn EXCEPT ![c].subscribed = FALSE, ![c].told = TRUE],
             UNCHANGED <<server, count, awake, elapsed, slow>>
      PROVE  DrainInv'
  <2> DEFINE r == [conn[c] EXCEPT !.subscribed = FALSE, !.told = TRUE]
  <2>1. r \in Conn /\ r.stage = "busy"
    BY <1>0, <1>4 DEF Conn
  <2>2. conn' = [conn EXCEPT ![c] = r]
    BY <1>0, <1>4 DEF TypeOK
  <2> HIDE DEF r
  <2> QED BY <1>4, <2>1, <2>2, WorkNeedsListener, ConnectionStep DEF Working
<1>5. ASSUME NEW how \in Drained, Exit(how), awake' = FALSE
      PROVE  DrainInv'
  <2>1. conn' \in [Connection -> Conn] /\ Open' = {}
    BY <1>0, <1>5 DEF Exit, Conn, Stage, Open, TypeOK
  <2>2. TypeOK'
    BY <1>0, <1>5, <2>1 DEF Exit, TypeOK, Drained
  <2> QED BY <1>5, <2>1, <2>2 DEF DrainInv, CountIsLive, Exit, Drained
<1>6. CASE AcceptFails
  <2>1. Exit("failed") /\ awake' = FALSE
    BY <1>0, <1>6 DEF AcceptFails, DrainInv, TypeOK
  <2> QED BY <1>5, <2>1 DEF Drained
<1>7. CASE Shutdown
  <2>1. Open' = Open
    BY <1>7 DEF Shutdown, Open
  <2> QED BY <1>7, <2>1, DrainAssumption DEF Shutdown, DrainInv, TypeOK, CountIsLive
<1>8. CASE Poll
  <2>1. CASE Exit("down") /\ awake' = FALSE
    BY <1>5, <2>1 DEF Drained
  <2>2. CASE ~(count = 0 \/ elapsed > DrainTimeout)
    <3>1. /\ UNCHANGED <<server, count, conn, elapsed, slow>>
          /\ server = "draining" /\ awake' = FALSE
      BY <1>8, <2>2 DEF Poll
    <3>2. Open' = Open
      BY <3>1 DEF Open
    <3>3. elapsed <= DrainTimeout
      BY <1>0, <2>2, DrainAssumption DEF TypeOK
    <3> QED BY <1>0, <3>1, <3>2, <3>3 DEF DrainInv, TypeOK, CountIsLive
  <2> QED BY <1>8, <2>1, <2>2 DEF Poll
<1>9. CASE Tick
  <2>1. ASSUME NEW c \in Connection
        PROVE  conn'[c] \in Conn /\ conn'[c].stage = conn[c].stage
    <3>1. Limit(c) \in Nat /\ Limit(c) <= Bound
      BY BoundBounds, DrainAssumption DEF Limit
    <3>2. Saturate(conn[c].age, Limit(c)) \in 0..Bound
      BY <1>0, <3>1, BoundBounds DEF Saturate, Conn
    <3> QED BY <1>0, <1>9, <3>2 DEF Tick, Conn
  <2>2. conn' \in [Connection -> Conn]
    BY <1>9, <2>1 DEF Tick
  <2>3. Open' = Open
    BY <2>1 DEF Open
  <2>4. /\ elapsed' \in 0..(DrainTimeout + 1)
        /\ server = "serving" => elapsed' = 0
    BY <1>0, <1>9, DrainAssumption DEF Tick, Saturate, DrainInv, TypeOK
  <2>5. TypeOK'
    BY <1>0, <1>9, <2>2, <2>4 DEF Tick, TypeOK
  <2> QED BY <1>9, <2>1, <2>3, <2>4, <2>5 DEF Tick, DrainInv, CountIsLive
<1>10. CASE UNCHANGED vars
  BY <1>10 DEF vars, DrainInv, TypeOK, CountIsLive, Open
<1>11. ASSUME NEW c \in Connection,
              \/ Handshaken(c) \/ HandshakeFails(c) \/ Request(c)
              \/ Respond(c) \/ Leave(c) \/ Notice(c)
       PROVE  DrainInv'
  BY <1>2, <1>3, <1>4, <1>11
     DEF Handshaken, HandshakeFails, Request, Respond, Leave, Notice, CanNotice, Working
<1> QED BY <1>1, <1>6, <1>7, <1>8, <1>9, <1>10, <1>11 DEF Next

THEOREM DrainInvariant == Spec => []DrainInv
<1> QED BY DrainInvInit, DrainInvStep, PTL DEF Spec

\* Every reachable state is well typed, and a drain takes no longer than its
\* timeout and one sleep of its loop (main.rs 519-528).
THEOREM TypeCorrect == Spec => []TypeOK
<1>1. DrainInv => TypeOK
  BY DEF DrainInv
<1> QED BY <1>1, DrainInvariant, PTL

\* The counter is the number of connections whose task runs (main.rs 461-508).
THEOREM CountIsExact == Spec => []CountIsLive
<1>1. DrainInv => CountIsLive
  BY DEF DrainInv
<1> QED BY <1>1, DrainInvariant, PTL

----------------------------------------------------------------------------
\* A step of one connection while the listener serves or drains, and no time
\* passes: only the new state of that connection has to be looked at.
LEMMA ConnectionInTime ==
    ASSUME DrainInv, TimeInv, NEW c \in Connection, NEW r,
           conn' = [conn EXCEPT ![c] = r],
           UNCHANGED <<server, elapsed, slow>>,
           server \in {"serving", "draining"},
           Ages(r),
           server = "serving" => Subscribed(r),
           server = "draining" /\ ~slow => InTime(r)
    PROVE  TimeInv'
<1>1. \A d \in Connection : conn'[d] = IF d = c THEN r ELSE conn[d]
  BY DEF DrainInv, TypeOK
<1>2. \A d \in Connection : Ages(conn[d])
  BY DEF TimeInv
<1>3. (\A d \in Connection : Ages(conn[d]))'
  BY <1>1, <1>2 DEF Ages
<1>4. (server = "serving" => \A d \in Connection : Subscribed(conn[d]))'
  BY <1>1 DEF TimeInv, Subscribed
<1>5. (server = "draining" /\ ~slow => \A d \in Connection : InTime(conn[d]))'
  BY <1>1 DEF TimeInv, InTime
<1> QED BY <1>3, <1>4, <1>5 DEF TimeInv, CleanDrain

\* When everything fits into the timeout, the deadline finds nobody at work.
LEMMA NobodyIsLate ==
    ASSUME DrainInv, TimeInv, server = "draining", ~slow,
           MaxHandshake + MaxRequest <= DrainTimeout,
           count = 0 \/ elapsed > DrainTimeout
    PROVE  Open = {}
<1> USE DrainAssumption
<1>1. CASE count = 0
  <2>1. Cardinality(Open) = 0
    BY <1>1 DEF DrainInv, CountIsLive
  <2> QED BY <2>1, OpenIsFinite, FS_EmptySet
<1>2. CASE elapsed > DrainTimeout
  <2>1. ASSUME NEW c \in Open PROVE FALSE
    <3>1. c \in Connection /\ conn[c].stage \in Working /\ conn[c].age \in Nat
      BY BoundBounds DEF Open, Working, DrainInv, TypeOK, Conn
    <3>2. Ages(conn[c]) /\ InTime(conn[c])
      BY <3>1 DEF TimeInv
    <3>3. elapsed \in Nat
      BY DEF DrainInv, TypeOK
    <3>4. elapsed <= MaxHandshake + MaxRequest
      BY <3>1, <3>2, <3>3 DEF Ages, InTime, Working
    <3> QED BY <1>2, <3>3, <3>4
  <2> QED BY <2>1
<1> QED BY <1>1, <1>2

LEMMA TimeInvInit == Init => TimeInv
BY DrainAssumption DEF Init, TimeInv, Ages, Subscribed, Free, CleanDrain, Working

LEMMA TimeInvStep == DrainInv /\ TimeInv /\ [Next]_vars => TimeInv'
<1> SUFFICES ASSUME DrainInv, TimeInv, [Next]_vars PROVE TimeInv'
    OBVIOUS
<1> USE DrainAssumption
<1>0. TypeOK /\ \A c \in Connection : conn[c] \in Conn /\ conn[c].age \in Nat
  BY BoundBounds DEF DrainInv, TypeOK, Conn
<1>1. ASSUME NEW c \in Connection, Accept(c) PROVE TimeInv'
  <2> DEFINE r == [Free EXCEPT !.stage = "handshake", !.subscribed = TRUE]
  <2>1. Ages(r) /\ Subscribed(r)
    BY DEF Ages, Subscribed, Free
  <2>2. conn' = [conn EXCEPT ![c] = r]
    BY <1>1 DEF Accept
  <2> HIDE DEF r
  <2> QED BY <1>1, <2>1, <2>2, ConnectionInTime DEF Accept
<1>2. ASSUME NEW c \in Connection, Handshaken(c) PROVE TimeInv'
  <2> DEFINE r == [conn[c] EXCEPT !.stage = "idle", !.age = 0]
  <2>1. conn[c].stage \in Working /\ conn' = [conn EXCEPT ![c] = r]
    BY <1>0, <1>2 DEF Handshaken, Enter, Working, TypeOK
  <2>2. Ages(r)
    BY <1>0 DEF Ages, Conn
  <2>3. server = "serving" => Subscribed(r)
    BY <1>0, <2>1 DEF TimeInv, Subscribed, Conn, Working
  <2>4. server = "draining" /\ ~slow => InTime(r)
    BY <1>0, <1>2 DEF TimeInv, InTime, Ages, Handshaken, Conn, TypeOK
  <2> HIDE DEF r
  <2> QED
    BY <1>2, <2>1, <2>2, <2>3, <2>4, WorkNeedsListener, ConnectionInTime DEF Handshaken
<1>3. ASSUME NEW c \in Connection, Request(c) PROVE TimeInv'
  <2> DEFINE r == [conn[c] EXCEPT !.stage = "busy", !.age = 0]
  <2>1. conn[c].stage \in Working /\ conn' = [conn EXCEPT ![c] = r]
    BY <1>0, <1>3 DEF Request, Enter, Working, TypeOK
  <2>2. Ages(r)
    BY <1>0 DEF Ages, Conn
  <2>3. server = "serving" => Subscribed(r)
    BY <1>0, <2>1 DEF TimeInv, Subscribed, Conn, Working
  <2>4. server = "draining" /\ ~slow => InTime(r)
    BY <1>0, <1>3 DEF TimeInv, InTime, Request, Conn
  <2> HIDE DEF r
  <2> QED
    BY <1>3, <2>1, <2>2, <2>3, <2>4, WorkNeedsListener, ConnectionInTime DEF Request
<1>4. ASSUME NEW c \in Connection, conn[c].stage \in Working, End(c),
             UNCHANGED <<server, elapsed, slow>>
      PROVE  TimeInv'
  <2>1. Ages(Free) /\ Subscribed(Free) /\ InTime(Free)
    BY DEF Ages, Subscribed, InTime, Free, Working
  <2> QED BY <1>4, <2>1, WorkNeedsListener, ConnectionInTime DEF End
<1>5. ASSUME NEW c \in Connection, Respond(c) PROVE TimeInv'
  <2> DEFINE r == [conn[c] EXCEPT !.stage = "idle", !.age = 0]
  <2>1. conn[c].stage \in Working
    BY <1>5 DEF Respond, Working
  <2>2. CASE conn[c].told /\ End(c)
    BY <1>4, <1>5, <2>1, <2>2 DEF Respond
  <2>3. CASE ~conn[c].told /\ Enter(c, "idle")
    <3>1. conn' = [conn EXCEPT ![c] = r]
      BY <1>0, <2>3 DEF Enter, TypeOK
    <3>2. Ages(r)
      BY <1>0 DEF Ages, Conn
    <3>3. server = "serving" => Subscribed(r)
      BY <1>0, <2>1 DEF TimeInv, Subscribed, Conn, Working
    <3>4. server = "draining" /\ ~slow => InTime(r)
      BY <1>0, <1>5, <2>3 DEF TimeInv, InTime, Respond, Conn
    <3> HIDE DEF r
    <3> QED
      BY <1>5, <2>1, <3>1, <3>2, <3>3, <3>4, WorkNeedsListener, ConnectionInTime
         DEF Respond
  <2> QED BY <1>5, <2>2, <2>3 DEF Respond
<1>6. ASSUME NEW c \in Connection, Notice(c) PROVE TimeInv'
  <2> DEFINE r == [conn[c] EXCEPT !.subscribed = FALSE, !.told = TRUE]
  <2>1. conn[c].stage \in Working /\ server = "draining" /\ conn[c].subscribed
    BY <1>6 DEF Notice, CanNotice, Working
  <2>2. CASE conn[c].stage = "idle" /\ End(c)
    BY <1>4, <1>6, <2>1, <2>2 DEF Notice
  <2>3. CASE conn[c].stage = "busy" /\ conn' = [conn EXCEPT ![c].subscribed = FALSE,
                                                           ![c].told = TRUE]
    <3>1. conn' = [conn EXCEPT ![c] = r]
      BY <1>0, <2>3 DEF TypeOK
    <3>2. Ages(r)
      BY <1>0 DEF TimeInv, Ages, Conn
    <3>3. ~slow => InTime(r)
      <4> SUFFICES ASSUME ~slow PROVE InTime(r)
          OBVIOUS
      <4>1. InTime(conn[c])
        BY <2>1 DEF TimeInv
      <4>2. elapsed <= MaxHandshake + conn[c].age
        BY <1>0, <2>3, <4>1 DEF InTime, TypeOK
      <4> QED BY <1>0, <2>3, <4>2 DEF InTime, Conn
    <3> HIDE DEF r
    <3> QED BY <1>6, <2>1, <3>1, <3>2, <3>3, ConnectionInTime DEF Notice
  <2> QED BY <1>6, <2>2, <2>3 DEF Notice
<1>7. ASSUME NEW how \in Drained, Exit(how),
             \/ server = "draining" /\ (count = 0 \/ elapsed > DrainTimeout)
             \/ how = "failed"
      PROVE  TimeInv'
  <2>1. \A c \in Connection : Ages(conn'[c])
    BY <1>0, <1>7 DEF TimeInv, Ages, Exit, Open, Conn, TypeOK
  <2>2. CleanDrain'
    <3> SUFFICES ASSUME ~slow', server' = "down", MaxHandshake + MaxRequest <= DrainTimeout
                 PROVE  \A c \in Connection : conn'[c].stage # "cut"
        BY DEF CleanDrain
    <3>1. slow' = slow /\ server = "draining" /\ (count = 0 \/ elapsed > DrainTimeout)
      BY <1>7 DEF Exit
    <3>2. Open = {}
      BY <3>1, NobodyIsLate
    <3> QED BY <1>7, <3>1, <3>2 DEF Exit, DrainInv
  <2> QED BY <1>7, <2>1, <2>2 DEF TimeInv, Exit, Drained, Ages
<1>8. CASE Shutdown
  <2>1. /\ UNCHANGED <<conn, elapsed, slow>> /\ server = "serving"
        /\ server' = "draining" /\ elapsed = 0
    BY <1>8 DEF Shutdown, DrainInv
  <2>2. \A c \in Connection : InTime(conn[c])
    BY <1>0, <2>1 DEF TimeInv, Subscribed, InTime, Working
  <2> QED BY <2>1, <2>2 DEF TimeInv, InTime, Ages, CleanDrain
<1>9. CASE Poll
  <2>1. CASE count = 0 \/ elapsed > DrainTimeout
    BY <1>7, <1>9, <2>1 DEF Poll, Drained
  <2>2. CASE ~(count = 0 \/ elapsed > DrainTimeout)
    BY <1>9, <2>2 DEF Poll, TimeInv, InTime, Ages, Subscribed, CleanDrain
  <2> QED BY <2>1, <2>2
<1>10. CASE Tick
  <2>1. server \in {"serving", "draining"} /\ UNCHANGED <<server, slow>>
    BY <1>10 DEF Tick
  <2>2. ASSUME NEW c \in Connection
        PROVE  /\ Ages(conn'[c])
               /\ server = "serving" => Subscribed(conn'[c])
               /\ server = "draining" /\ ~slow => InTime(conn[c]) /\ InTime(conn[c])'
    <3> DEFINE age == Saturate(conn[c].age, Limit(c))
    <3>1. /\ conn'[c].stage = conn[c].stage /\ conn'[c].subscribed = conn[c].subscribed
          /\ conn'[c].told = conn[c].told
          /\ conn[c].stage \in {"handshake", "busy"} => conn'[c].age = age
      BY <1>0, <1>10 DEF Tick, Conn
    <3>2. conn[c].stage \in {"handshake", "busy"} => age \in Nat /\ age <= Limit(c)
      BY <1>0 DEF Saturate, Limit
    <3>3. Ages(conn'[c])
      BY <3>1, <3>2 DEF Ages, Limit
    <3>4. server = "serving" => Subscribed(conn'[c])
      BY <3>1 DEF TimeInv, Subscribed
    <3>5. ASSUME server = "draining", ~slow
          PROVE  InTime(conn[c]) /\ InTime(conn[c])'
      <4>1. InTime(conn[c]) /\ ~CanNotice(c) /\ ~Due(c) /\ elapsed <= DrainTimeout
        BY <1>10, <3>5 DEF TimeInv, Tick, DrainInv
      <4>2. elapsed \in Nat /\ elapsed' = elapsed + 1
        BY <1>0, <1>10, <3>5, <4>1 DEF Tick, Saturate, TypeOK
      <4>3. conn[c].stage \in {"handshake", "busy"} => age = conn[c].age + 1
        BY <1>0, <3>5, <4>1 DEF Due, Saturate, Limit
      <4>4. conn[c].stage # "idle" /\ (conn[c].stage = "busy" => ~conn[c].subscribed)
        BY <3>5, <4>1 DEF CanNotice, InTime
      <4> HIDE DEF age
      <4> QED BY <1>0, <3>1, <4>1, <4>2, <4>3, <4>4 DEF InTime
    <3> QED BY <3>3, <3>4, <3>5
  <2> QED BY <2>1, <2>2 DEF TimeInv, CleanDrain, Ages, Subscribed
<1>11. CASE UNCHANGED vars
  BY <1>11 DEF vars, TimeInv, Ages, Subscribed, InTime, CleanDrain
<1>12. ASSUME NEW c \in Connection, HandshakeFails(c) \/ Leave(c) PROVE TimeInv'
  BY <1>4, <1>12 DEF HandshakeFails, Leave, Working
<1>13. CASE AcceptFails
  BY <1>7, <1>13 DEF AcceptFails, Drained
<1> QED
  BY <1>1, <1>2, <1>3, <1>5, <1>6, <1>8, <1>9, <1>10, <1>11, <1>12, <1>13 DEF Next

\* When handshakes and requests fit into the timeout one after the other, a
\* shutdown cuts nobody off, for any number of connections (main.rs 459-505).
THEOREM DrainIsClean == Spec => []CleanDrain
<1>1. []DrainInv /\ [][Next]_vars /\ TimeInv => []TimeInv
  BY TimeInvStep, PTL
<1>2. TimeInv => CleanDrain
  BY DEF TimeInv
<1> QED BY <1>1, <1>2, TimeInvInit, DrainInvariant, PTL DEF Spec

----------------------------------------------------------------------------
\* One tunnel.

\* One direction: what has been read is delivered, but for the frame that is
\* held, and that one is the next.
FlowInv(d) ==
    /\ delivered[d] = [i \in 1..Len(delivered[d]) |-> i]
    /\ taken[d] = Len(delivered[d]) + (IF held[d] = 0 THEN 0 ELSE 1)
    /\ held[d] # 0 => held[d] = taken[d]
    /\ taken[d] <= sent[d]

\* A frame is left for the Close of a source that has not closed.
TunnelInv ==
    /\ TunnelTypeOK
    /\ \A d \in Direction : FlowInv(d)
    /\ \A d \in Direction : source[d] = "open" => sent[d] <= MaxFrames
    /\ phase # "ended" => endedBy.how = "none"
    /\ CloserIsHeard

\* Sending the frame after the last one delivered keeps the delivered frames in
\* order.
LEMMA AppendNextFrame ==
    ASSUME NEW s \in Seq(Nat), s = [i \in 1..Len(s) |-> i]
    PROVE  /\ Append(s, Len(s) + 1) = [i \in 1..Len(Append(s, Len(s) + 1)) |-> i]
           /\ Len(Append(s, Len(s) + 1)) = Len(s) + 1
<1> DEFINE t == Append(s, Len(s) + 1)
<1>1. Len(t) = Len(s) + 1 /\ t \in Seq(Nat)
  OBVIOUS
<1>2. \A i \in 1..Len(t) : t[i] = i
  OBVIOUS
<1>3. t = [i \in 1..Len(t) |-> t[i]]
  BY <1>1
<1> QED BY <1>1, <1>2, <1>3

LEMMA TunnelInvInit == TunnelInit => TunnelInv
<1> SUFFICES ASSUME TunnelInit PROVE TunnelInv
    OBVIOUS
<1> USE TunnelAssumption
<1>1. <<>> = [i \in 1..Len(<<>>) |-> i]
  OBVIOUS
<1>2. TunnelTypeOK
  BY DEF TunnelInit, TunnelTypeOK, Direction
<1>3. \A d \in Direction : FlowInv(d)
  BY <1>1 DEF TunnelInit, FlowInv
<1> QED BY <1>2, <1>3 DEF TunnelInit, TunnelInv, CloserIsHeard

\* A step of the direction d that leaves the tunnel running keeps TunnelInv if it
\* keeps the types and FlowInv(d) and touches the other direction not at all.
LEMMA OneDirectionMoves ==
    ASSUME TunnelInv, NEW d \in Direction, phase # "ended", phase' = phase,
           endedBy' = endedBy, TunnelTypeOK', FlowInv(d)',
           source'[d] = "open" => sent'[d] <= MaxFrames,
           \A e \in Direction \ {d} :
             /\ source'[e] = source[e] /\ sent'[e] = sent[e] /\ taken'[e] = taken[e]
             /\ held'[e] = held[e] /\ delivered'[e] = delivered[e]
    PROVE  TunnelInv'
<1>1. ASSUME NEW e \in Direction PROVE FlowInv(e)'
  <2>1. CASE e = d
    BY <2>1
  <2>2. CASE e # d
    BY <2>2 DEF TunnelInv, FlowInv
  <2> QED BY <2>1, <2>2
<1>2. \A e \in Direction : source'[e] = "open" => sent'[e] <= MaxFrames
  BY DEF TunnelInv
<1> QED BY <1>1, <1>2 DEF TunnelInv, CloserIsHeard

\* The tunnel ends, for any reason that does not claim more than was delivered.
LEMMA TunnelEnds ==
    ASSUME TunnelInv, NEW d \in Direction \cup {"none"},
           NEW how \in {"finished", "failed", "unconnected", "exit"},
           EndTunnel(d, how),
           how = "finished" => d # "none" /\ source[d] = "closed" /\ Len(delivered[d]) = sent[d]
    PROVE  TunnelInv'
<1>1. TunnelTypeOK'
  BY DEF TunnelInv, TunnelTypeOK, EndTunnel
<1>2. \A e \in Direction : FlowInv(e)'
  BY DEF TunnelInv, FlowInv, EndTunnel
<1>3. CloserIsHeard'
  BY DEF CloserIsHeard, EndTunnel
<1> QED BY <1>1, <1>2, <1>3 DEF TunnelInv, EndTunnel

LEMMA TunnelInvStep == TunnelInv /\ [TunnelNext]_tunnelVars => TunnelInv'
<1> SUFFICES ASSUME TunnelInv, [TunnelNext]_tunnelVars
             PROVE  TunnelInv'
    OBVIOUS
<1> USE TunnelAssumption
<1>0. TunnelTypeOK /\ \A d \in Direction : FlowInv(d)
  BY DEF TunnelInv
<1>1. ASSUME NEW d \in Direction, PeerSends(d) PROVE TunnelInv'
  <2>1. sent[d] < MaxFrames /\ sent' = [sent EXCEPT ![d] = @ + 1] /\ sent[d] \in Nat
    BY <1>1, <1>0 DEF PeerSends, TunnelTypeOK
  <2>2. TunnelTypeOK'
    <3>1. sent' \in [Direction -> 0..(MaxFrames + 1)]
      BY <1>0, <2>1 DEF TunnelTypeOK
    <3>2. UNCHANGED <<phase, source, taken, held, delivered, endedBy, stalled>>
      BY <1>1 DEF PeerSends
    <3> QED BY <1>0, <3>1, <3>2 DEF TunnelTypeOK
  <2>3. FlowInv(d)'
    BY <1>0, <1>1, <2>1 DEF PeerSends, TunnelTypeOK, FlowInv
  <2>4. /\ phase # "ended"
        /\ UNCHANGED <<phase, source, taken, held, delivered, endedBy, stalled>>
    BY <1>1 DEF PeerSends
  <2>5. /\ sent'[d] <= MaxFrames
        /\ \A e \in Direction \ {d} : sent'[e] = sent[e]
    BY <1>0, <2>1 DEF TunnelTypeOK
  <2> QED BY <2>2, <2>3, <2>4, <2>5, OneDirectionMoves
<1>2. ASSUME NEW d \in Direction, PeerCloses(d) PROVE TunnelInv'
  <2>1. /\ sent[d] <= MaxFrames /\ sent' = [sent EXCEPT ![d] = @ + 1] /\ sent[d] \in Nat
        /\ source' = [source EXCEPT ![d] = "closed"]
    BY <1>2, <1>0 DEF PeerCloses, CanSend, TunnelTypeOK, TunnelInv
  <2>2. TunnelTypeOK'
    BY <1>0, <1>2, <2>1 DEF PeerCloses, TunnelTypeOK
  <2>3. FlowInv(d)'
    BY <1>0, <1>2, <2>1 DEF PeerCloses, TunnelTypeOK, FlowInv
  <2> QED
    BY <1>0, <1>2, <2>1, <2>2, <2>3, OneDirectionMoves DEF PeerCloses, TunnelTypeOK
<1>3. ASSUME NEW d \in Direction, PeerBreaks(d) PROVE TunnelInv'
  <2>1. TunnelTypeOK'
    BY <1>0, <1>3 DEF PeerBreaks, TunnelTypeOK
  <2>2. FlowInv(d)'
    BY <1>0, <1>3 DEF PeerBreaks, FlowInv
  <2> QED
    BY <1>0, <1>3, <2>1, <2>2, OneDirectionMoves DEF PeerBreaks, TunnelTypeOK
<1>4. CASE Connect
  BY <1>4 DEF Connect, TunnelInv, TunnelTypeOK, FlowInv, CloserIsHeard
<1>5. CASE ConnectFails
  BY <1>5, TunnelEnds DEF ConnectFails
<1>6. ASSUME NEW d \in Direction, ReadFrame(d) PROVE TunnelInv'
  <2>1. /\ taken' = [taken EXCEPT ![d] = @ + 1] /\ held' = [held EXCEPT ![d] = taken[d] + 1]
        /\ held[d] = 0 /\ taken[d] \in Nat /\ sent[d] \in 0..(MaxFrames + 1)
        /\ taken[d] < sent[d]
    BY <1>6, <1>0 DEF ReadFrame, TunnelTypeOK
  <2>2. TunnelTypeOK'
    BY <1>0, <1>6, <2>1 DEF ReadFrame, TunnelTypeOK
  <2>3. FlowInv(d)'
    BY <1>0, <1>6, <2>1 DEF ReadFrame, TunnelTypeOK, FlowInv
  <2> QED
    BY <1>0, <1>6, <2>1, <2>2, <2>3, OneDirectionMoves
       DEF ReadFrame, TunnelTypeOK, TunnelInv
<1>7. ASSUME NEW d \in Direction, SendFrame(d) PROVE TunnelInv'
  <2> DEFINE s == delivered[d]
  <2>1. s \in Seq(Nat) /\ s = [i \in 1..Len(s) |-> i] /\ held[d] = Len(s) + 1
        /\ held[d] \in 1..(MaxFrames + 1) /\ taken[d] = held[d]
    BY <1>0, <1>7 DEF SendFrame, TunnelTypeOK, FlowInv
  <2>2. delivered' = [delivered EXCEPT ![d] = Append(s, Len(s) + 1)]
        /\ held' = [held EXCEPT ![d] = 0]
    BY <1>0, <1>7, <2>1 DEF SendFrame, TunnelTypeOK
  <2>3. Append(s, Len(s) + 1) \in Seq(1..(MaxFrames + 1))
    BY <1>0, <2>1 DEF TunnelTypeOK
  <2>4. TunnelTypeOK'
    BY <1>0, <1>7, <2>2, <2>3 DEF SendFrame, TunnelTypeOK
  <2>5. FlowInv(d)'
    <3>1. delivered'[d] = Append(s, Len(s) + 1) /\ held'[d] = 0
      BY <1>0, <2>2 DEF TunnelTypeOK
    <3>2. taken'[d] = Len(s) + 1 /\ taken'[d] <= sent'[d]
      BY <1>0, <1>7, <2>1 DEF SendFrame, FlowInv
    <3> QED BY <2>1, <3>1, <3>2, AppendNextFrame DEF FlowInv
  <2> HIDE DEF s
  <2> QED
    BY <1>0, <1>7, <2>2, <2>4, <2>5, OneDirectionMoves
       DEF SendFrame, TunnelTypeOK, TunnelInv
<1>8. ASSUME NEW d \in Direction, SendFails(d) PROVE TunnelInv'
  BY <1>8, TunnelEnds DEF SendFails
<1>9. ASSUME NEW d \in Direction, SourceEnds(d) PROVE TunnelInv'
  <2>1. d # "none"
    BY DEF Direction
  <2>2. CASE source[d] = "closed" /\ EndTunnel(d, "finished")
    <3>1. Len(delivered[d]) = sent[d]
      BY <1>0, <1>9 DEF SourceEnds, FlowInv, TunnelTypeOK
    <3> QED BY <2>1, <2>2, <3>1, TunnelEnds
  <2>3. CASE source[d] = "broken" /\ EndTunnel(d, "failed")
    BY <2>3, TunnelEnds
  <2> QED BY <1>9, <2>2, <2>3 DEF SourceEnds
<1>10. CASE GatewayExits
  BY <1>10, TunnelEnds DEF GatewayExits
<1>11. CASE UNCHANGED tunnelVars
  BY <1>11 DEF tunnelVars, TunnelInv, TunnelTypeOK, FlowInv, CloserIsHeard
<1> QED
  BY <1>1, <1>2, <1>3, <1>4, <1>5, <1>6, <1>7, <1>8, <1>9, <1>10, <1>11 DEF TunnelNext

\* TunnelInv holds in every reachable state.
THEOREM TunnelInvariant == TunnelSpec => []TunnelInv
<1> QED BY TunnelInvInit, TunnelInvStep, PTL DEF TunnelSpec

\* Every reachable state of a tunnel is well typed.
THEOREM TunnelTypeCorrect == TunnelSpec => []TunnelTypeOK
<1>1. TunnelInv => TunnelTypeOK
  BY DEF TunnelInv
<1> QED BY <1>1, TunnelInvariant, PTL

\* Each peer is sent a prefix of what the other one sent, in order, and at most
\* one frame is held in between (websocket.rs 76-129).
THEOREM FramesStayInOrder == TunnelSpec => []InOrder
<1>1. TunnelInv => InOrder
  BY DEF TunnelInv, FlowInv, InOrder
<1> QED BY <1>1, TunnelInvariant, PTL

\* A tunnel that a Close has ended has delivered all that its sender sent.
THEOREM CloseComesLast == TunnelSpec => []CloserIsHeard
<1>1. TunnelInv => CloserIsHeard
  BY DEF TunnelInv
<1> QED BY <1>1, TunnelInvariant, PTL
=============================================================================
