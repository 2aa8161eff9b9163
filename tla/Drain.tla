------------------------------- MODULE Drain -------------------------------
(***************************************************************************)
(* The TLS listener of the gateway and its graceful shutdown               *)
(* (start_with_tls, pqc-gateway/src/main.rs): the accept loop, one task    *)
(* per connection, the watch channel that tells them of the shutdown, the  *)
(* count of connections, and the drain loop with its deadline.             *)
(*                                                                         *)
(* A tick is the sleep of the drain loop.  Tasks that can go on do so      *)
(* before it is over: Tick waits for them, which is the one assumption on  *)
(* the scheduler.  Handshakes and requests last up to their bounds, unless *)
(* `slow`: then a peer or an upstream may take for ever, as nothing in the *)
(* listener bounds them.                                                   *)
(***************************************************************************)
EXTENDS Naturals, FiniteSets

CONSTANTS
    Connection,    \* slots for connections that are open at the same time
    DrainTimeout,  \* drain_timeout, in ticks
    MaxHandshake,  \* the longest TLS handshake, in ticks, unless slow
    MaxRequest     \* the longest request, in ticks, unless slow

ASSUME DrainAssumption ==
    /\ IsFiniteSet(Connection)
    /\ DrainTimeout \in Nat
    /\ MaxHandshake \in Nat
    /\ MaxRequest \in Nat

VARIABLES
    server,   \* where start_with_tls is
    count,    \* connection_count
    conn,     \* conn[c]: the task of c
    awake,    \* the drain loop is about to look at the count
    elapsed,  \* ticks since the shutdown signal
    slow      \* environment: handshakes and requests may take for ever

vars == <<server, count, conn, awake, elapsed, slow>>

----------------------------------------------------------------------------
\* "none" is a free slot, "cut" a connection the end of the process has ended.
Stage == {"none", "handshake", "idle", "busy", "cut"}

Bound == IF MaxHandshake < MaxRequest THEN MaxRequest ELSE MaxHandshake

\* subscribed: the receiver has the change of the watch channel still to come;
\* told: graceful_shutdown was called.
Conn == [stage : Stage, age : 0..Bound, subscribed : BOOLEAN, told : BOOLEAN]

Free == [stage |-> "none", age |-> 0, subscribed |-> FALSE, told |-> FALSE]

Open == {c \in Connection : conn[c].stage \in {"handshake", "idle", "busy"}}

Enter(c, stage) == conn' = [conn EXCEPT ![c].stage = stage, ![c].age = 0]

\* The task of c ends and takes its connection off the count.
End(c) ==
    /\ conn' = [conn EXCEPT ![c] = Free]
    /\ count' = count - 1

Init ==
    /\ server = "serving"
    /\ count = 0
    /\ conn = [c \in Connection |-> Free]
    /\ awake = FALSE
    /\ elapsed = 0
    /\ slow \in BOOLEAN

----------------------------------------------------------------------------
Accept(c) ==
    /\ server = "serving"
    /\ conn[c].stage = "none"
    /\ conn' = [conn EXCEPT ![c] = [Free EXCEPT !.stage = "handshake", !.subscribed = TRUE]]
    /\ count' = count + 1
    /\ UNCHANGED <<server, awake, elapsed, slow>>

\* Mutant of Handshaken: the task subscribes when the handshake is over.
Handshaken_Subscribes(c) ==
    /\ conn[c].stage = "handshake"
    /\ conn' = [conn EXCEPT ![c] = [Free EXCEPT !.stage = "idle",
                                                !.subscribed = (server = "serving")]]
    /\ UNCHANGED <<server, count, awake, elapsed, slow>>

Handshaken(c) ==
    /\ conn[c].stage = "handshake"
    /\ Enter(c, "idle")
    /\ UNCHANGED <<server, count, awake, elapsed, slow>>

\* Mutant of HandshakeFails: the task returns early.
HandshakeFails_Uncounted(c) ==
    /\ conn[c].stage = "handshake"
    /\ conn' = [conn EXCEPT ![c] = Free]
    /\ UNCHANGED <<server, count, awake, elapsed, slow>>

HandshakeFails(c) ==
    /\ conn[c].stage = "handshake"
    /\ End(c)
    /\ UNCHANGED <<server, awake, elapsed, slow>>

\* A request comes in on a connection that is kept alive.
Request(c) ==
    /\ conn[c].stage = "idle"
    /\ Enter(c, "busy")
    /\ UNCHANGED <<server, count, awake, elapsed, slow>>

\* It has been answered; a connection that was told closes.
Respond(c) ==
    /\ conn[c].stage = "busy"
    /\ \/ conn[c].told /\ End(c)
       \/ ~conn[c].told /\ Enter(c, "idle") /\ UNCHANGED count
    /\ UNCHANGED <<server, awake, elapsed, slow>>

\* The peer closes the connection, or it breaks.
Leave(c) ==
    /\ conn[c].stage \in {"idle", "busy"}
    /\ End(c)
    /\ UNCHANGED <<server, awake, elapsed, slow>>

CanNotice(c) ==
    /\ server = "draining"
    /\ conn[c].subscribed
    /\ conn[c].stage \in {"idle", "busy"}

\* shutdown_rx.changed(): graceful_shutdown closes an idle connection at once
\* and lets a busy one finish its request.
Notice(c) ==
    /\ CanNotice(c)
    /\ \/ conn[c].stage = "idle" /\ End(c)
       \/ /\ conn[c].stage = "busy"
          /\ conn' = [conn EXCEPT ![c].subscribed = FALSE, ![c].told = TRUE]
          /\ UNCHANGED count
    /\ UNCHANGED <<server, awake, elapsed, slow>>

----------------------------------------------------------------------------
\* start_with_tls returns: main returns too, and the runtime drops every task.
Exit(how) ==
    /\ server' = how
    /\ conn' = [c \in Connection |->
                  IF c \in Open THEN [conn[c] EXCEPT !.stage = "cut"] ELSE conn[c]]
    /\ UNCHANGED <<count, elapsed, slow>>

\* accept fails, for want of file descriptors or because the peer gave up: the ?
\* leaves the loop, and the function, without a drain.
AcceptFails ==
    /\ server = "serving"
    /\ Exit("failed")
    /\ UNCHANGED awake

\* Ctrl-C or SIGTERM: the connections are told and the drain begins.
Shutdown ==
    /\ server = "serving"
    /\ server' = "draining"
    /\ awake' = TRUE
    /\ UNCHANGED <<count, conn, elapsed, slow>>

\* Mutant of Poll: a connection still open keeps the drain going.
Poll_NoDeadline ==
    /\ server = "draining"
    /\ awake
    /\ awake' = FALSE
    /\ \/ count = 0 /\ Exit("down")
       \/ count > 0 /\ UNCHANGED <<server, count, conn, elapsed, slow>>

\* One turn of the drain loop: it ends with the last connection or after the
\* deadline, and sleeps otherwise.
Poll ==
    /\ server = "draining"
    /\ awake
    /\ awake' = FALSE
    /\ IF count = 0 \/ elapsed > DrainTimeout
       THEN Exit("down")
       ELSE UNCHANGED <<server, count, conn, elapsed, slow>>

----------------------------------------------------------------------------
\* How long c may stay in its stage.
Limit(c) == IF conn[c].stage = "handshake" THEN MaxHandshake ELSE MaxRequest

\* The peer or the upstream of c must act before the next tick.
Due(c) ==
    /\ ~slow
    /\ conn[c].stage \in {"handshake", "busy"}
    /\ conn[c].age >= Limit(c)

Saturate(n, bound) == IF n < bound THEN n + 1 ELSE bound

\* elapsed saturates just above the most it can reach.
Tick ==
    /\ server \in {"serving", "draining"}
    /\ ~awake
    /\ \A c \in Connection : ~CanNotice(c) /\ ~Due(c)
    /\ awake' = (server = "draining")
    /\ elapsed' = IF server = "draining" THEN Saturate(elapsed, DrainTimeout + 2) ELSE 0
    /\ conn' = [c \in Connection |->
                  IF conn[c].stage \in {"handshake", "busy"}
                  THEN [conn[c] EXCEPT !.age = Saturate(@, Limit(c))] ELSE conn[c]]
    /\ UNCHANGED <<server, count, slow>>

Next ==
    \/ \E c \in Connection : Accept(c)
    \/ \E c \in Connection : Handshaken(c)
    \/ \E c \in Connection : HandshakeFails(c)
    \/ \E c \in Connection : Request(c)
    \/ \E c \in Connection : Respond(c)
    \/ \E c \in Connection : Leave(c)
    \/ \E c \in Connection : Notice(c)
    \/ AcceptFails
    \/ Shutdown
    \/ Poll
    \/ Tick

Spec == Init /\ [][Next]_vars

\* tokio runs the tasks that can go on; when it is not slow, peers and upstreams
\* act in time.
Fairness ==
    /\ WF_vars(Tick)
    /\ WF_vars(Poll)
    /\ \A c \in Connection :
         /\ WF_vars(Notice(c))
         /\ WF_vars(Due(c) /\ (Handshaken(c) \/ HandshakeFails(c) \/ Respond(c)))

FairSpec == Spec /\ Fairness

----------------------------------------------------------------------------
\* Every variable has its type; the drain never takes longer than drain_timeout
\* and one sleep of its loop (main.rs 519-528).
TypeOK ==
    /\ server \in {"serving", "draining", "down", "failed"}
    /\ count \in Nat
    /\ conn \in [Connection -> Conn]
    /\ awake \in BOOLEAN
    /\ elapsed \in 0..(DrainTimeout + 1)
    /\ slow \in BOOLEAN

\* connection_count is the number of connections whose task runs, handshakes and
\* failed ones included: the drain waits for no one who has gone and forgets no
\* one who is there (main.rs 461-508).
CountIsLive == server \in {"serving", "draining"} => count = Cardinality(Open)

\* When handshakes and requests fit into the drain timeout one after the other,
\* a shutdown cuts nobody off: every connection, one in its handshake when the
\* signal came included, hears of it in time and finishes (main.rs 459-505).
CleanDrain ==
    (~slow /\ server = "down" /\ MaxHandshake + MaxRequest <= DrainTimeout)
        => \A c \in Connection : conn[c].stage # "cut"

\* A shutdown ends, with peers that never finish a handshake or a request too.
DrainEnds == server = "draining" ~> server = "down"
=============================================================================
