------------------------------ MODULE MCRouting ------------------------------
(***************************************************************************)
(* An instance of ConfigReload and of Router for TLC: how a request comes  *)
(* to its route. Router is about one table from the time it is built,      *)
(* ConfigReload about which table a request sees. Each is run while the    *)
(* other one stands still.                                                 *)
(***************************************************************************)
EXTENDS MCConfigReload, MCRouter

VARIABLE part  \* which of them runs

NoReload ==
    /\ matcher = [table |-> t1, gen |-> 0]
    /\ config = [routes |-> t1, settings |-> s1, gen |-> 0]
    /\ registered = Upstreams[t1]
    /\ reload = [a \in Admin |-> Absent]
    /\ view = [h \in Handler |-> Absent]
    /\ begun = 0 /\ overlapped = FALSE

NoRequest ==
    /\ configured = <<>> /\ routes = <<>> /\ counter = 0 /\ latest = Nowhere
    /\ picks = <<>> /\ streak = [route |-> 0, picks |-> <<>>, wraps |-> 0]
    /\ asked = 0

RoutingInit ==
    \/ part = "reload" /\ ReloadInit /\ NoRequest
    \/ part = "router" /\ NoReload /\ RouterInit

RoutingNext ==
    /\ \/ part = "reload" /\ ReloadNext /\ UNCHANGED routerVars
       \/ part = "router" /\ RouterNext /\ UNCHANGED reloadVars
    /\ UNCHANGED part

RoutingSpec == RoutingInit /\ [][RoutingNext]_<<part, reloadVars, routerVars>>
=============================================================================
