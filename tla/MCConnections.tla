--------------------------- MODULE MCConnections ---------------------------
(***************************************************************************)
(* An instance of Drain, of Tunnel and of RateLimiter for TLC: what        *)
(* clients occupy of the gateway and when it lets go of it. The three      *)
(* share nothing: the TLS listener upgrades no connection, so its tasks    *)
(* are never tunnels, and a tunnel is charged to a bucket only before it   *)
(* begins. Each is run while the other two stand still.                    *)
(***************************************************************************)
EXTENDS Drain, Tunnel, MCRateLimiter

CONSTANTS c1, c2, c3

VARIABLE part  \* which of the three runs

ThreeConnections == {c1, c2, c3}

NoListener ==
    /\ server = "down" /\ count = 0 /\ conn = [c \in Connection |-> Free]
    /\ awake = FALSE /\ elapsed = 0 /\ slow = FALSE

NoTunnel ==
    /\ phase = "ended" /\ stalled = {}
    /\ source = [d \in Direction |-> "open"]
    /\ sent = [d \in Direction |-> 0]
    /\ taken = [d \in Direction |-> 0]
    /\ held = [d \in Direction |-> 0]
    /\ delivered = [d \in Direction |-> <<>>]
    /\ endedBy = [direction |-> "none", how |-> "exit"]

NoBucket ==
    /\ limit = [r \in Route |-> Quota(0, 1)]
    /\ bucket = [k \in Key |-> None] /\ hint = [k \in Key |-> None]
    /\ slept = 0 /\ watch = None

ConnectionsInit ==
    \/ part = "listener" /\ Init /\ NoTunnel /\ NoBucket
    \/ part = "tunnel" /\ NoListener /\ TunnelInit /\ NoBucket
    \/ part = "limiter" /\ NoListener /\ NoTunnel /\ WatchInit

ConnectionsNext ==
    /\ \/ part = "listener" /\ Next /\ UNCHANGED <<tunnelVars, watchVars>>
       \/ part = "tunnel" /\ TunnelNext /\ UNCHANGED <<vars, watchVars>>
       \/ part = "limiter" /\ WatchNext /\ UNCHANGED <<vars, tunnelVars>>
    /\ UNCHANGED part

\* What stands still has nothing to do, but for the limiter.
ConnectionsSpec ==
    /\ ConnectionsInit
    /\ [][ConnectionsNext]_<<part, vars, tunnelVars, watchVars>>
    /\ Fairness
    /\ TunnelFairness
    /\ part = "limiter" => LimiterFairness
=============================================================================
