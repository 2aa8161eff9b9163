------------------------------- MODULE Router -------------------------------
(***************************************************************************)
(* How a request finds its upstream (pqc-proxy/src/router.rs): the route   *)
(* table, sorted once when it is built; match_route, which takes the first *)
(* route of it that fits and rewrites the path; and the load balancer, one *)
(* counter for all the routes that have several upstreams.                 *)
(*                                                                         *)
(* Paths and prefixes are sequences over a small alphabet, because whether *)
(* a path starts with a prefix, and what is left of it, is what this is    *)
(* about.                                                                  *)
(***************************************************************************)
EXTENDS Integers, SequencesExt

CONSTANTS
    Configs,      \* route lists, as configured
    Char,         \* the characters of paths and prefixes
    Path,         \* request paths
    Method,       \* the methods of requests and of routes, in upper case
    Slash,        \* the character "/"
    CounterSize,  \* the values of the usize counter, 2^64 in the code
    MaxRequests   \* bound: requests in a run

\* A route is its prefix, its methods, whether the prefix is to be stripped, and
\* the number of its upstreams: upstreams[0] is taken of each.
RouteRecord == [prefix : Seq(Char), methods : SUBSET Method, strip : BOOLEAN,
                upstreams : Nat \ {0}]

ASSUME RouterAssumption ==
    /\ Configs \subseteq Seq(RouteRecord)
    /\ Path \subseteq Seq(Char)
    /\ Slash \in Char
    /\ CounterSize \in Nat \ {0}
    /\ MaxRequests \in Nat

VARIABLES
    configured,  \* the route list the table was built from
    routes,      \* RouteMatcher.routes
    counter,     \* LoadBalancer.counter
    latest,      \* the latest request and where it was sent (history)
    picks,       \* picks[k][i]: the k-th route got its i-th upstream so often (history)
    streak,      \* the picks since another route picked (history)
    asked        \* requests so far (history)

routerVars == <<configured, routes, counter, latest, picks, streak, asked>>

----------------------------------------------------------------------------
\* Mutant of Precedes: shorter prefixes first.
Precedes_Ascending(list, j, i) ==
    LET length(k) == Len(list[k].prefix) IN
    length(j) < length(i) \/ (length(j) = length(i) /\ j < i)

\* The j-th route is tried before the i-th: its prefix is longer, or as long and
\* it stands before it.
Precedes(list, j, i) ==
    LET length(k) == Len(list[k].prefix) IN
    length(j) > length(i) \/ (length(j) = length(i) /\ j < i)

Position(list, i) == 1 + Cardinality({j \in DOMAIN list : Precedes(list, j, i)})

\* RouteMatcher::new: a stable sort, longest prefix first.
Sorted(list) ==
    [k \in DOMAIN list |-> list[CHOOSE i \in DOMAIN list : Position(list, i) = k]]

\* trim_end_matches('/')
Trimmed(prefix) ==
    SubSeq(prefix, 1, Max({0} \cup {i \in DOMAIN prefix : prefix[i] # Slash}))

Fits(r, path, method) ==
    /\ IsPrefix(r.prefix, path) \/ path = Trimmed(r.prefix)
    /\ r.methods = {} \/ method \in r.methods

\* Mutant of Rewritten: what is left of the path is passed on as it is.
Rewritten_Bare(r, path) ==
    IF ~r.strip THEN path
    ELSE IF IsPrefix(r.prefix, path) THEN SubSeq(path, Len(r.prefix) + 1, Len(path))
    ELSE <<>>

\* The path the upstream is asked for.
Rewritten(r, path) ==
    LET stripped == IF IsPrefix(r.prefix, path)
                    THEN SubSeq(path, Len(r.prefix) + 1, Len(path)) ELSE <<>>
    IN  IF ~r.strip THEN path
        ELSE IF stripped = <<>> \/ Head(stripped) = Slash THEN stripped
        ELSE <<Slash>> \o stripped

\* Zero when no route fits.
MatchRoute(table, path, method) ==
    SelectInSeq(table, LAMBDA r : Fits(r, path, method))

----------------------------------------------------------------------------
Nowhere == [path |-> <<>>, method |-> "", route |-> 0, upstreamPath |-> <<>>]

NoPicks(n) == [i \in 0..(n - 1) |-> 0]

RouterInit ==
    /\ configured \in Configs
    /\ routes = Sorted(configured)
    /\ counter = 0
    /\ latest = Nowhere
    /\ picks = [k \in DOMAIN routes |-> NoPicks(routes[k].upstreams)]
    /\ streak = [route |-> 0, picks |-> <<>>, wraps |-> 0]
    /\ asked = 0

\* The streak of route k as it stands before the next pick.
StreakOf(k) ==
    IF streak.route = k THEN streak
    ELSE [route |-> k, picks |-> NoPicks(routes[k].upstreams), wraps |-> 0]

\* Mutant of NextUpstream: a route with one upstream moves the counter too.
NextUpstream_Always(k) ==
    LET n == routes[k].upstreams IN
    /\ counter' = (counter + 1) % CounterSize
    /\ IF n <= 1 THEN UNCHANGED <<picks, streak>>
       ELSE /\ picks' = [picks EXCEPT ![k][counter % n] = @ + 1]
            /\ streak' = [route |-> k,
                          picks |-> [StreakOf(k).picks EXCEPT ![counter % n] = @ + 1],
                          wraps |-> StreakOf(k).wraps + IF counter' = 0 THEN 1 ELSE 0]

\* next_upstream, for the k-th route: fetch_add is one step.
NextUpstream(k) ==
    LET n == routes[k].upstreams IN
    IF n <= 1 THEN UNCHANGED <<counter, picks, streak>>
    ELSE /\ counter' = (counter + 1) % CounterSize
         /\ picks' = [picks EXCEPT ![k][counter % n] = @ + 1]
         /\ streak' = [route |-> k,
                       picks |-> [StreakOf(k).picks EXCEPT ![counter % n] = @ + 1],
                       wraps |-> StreakOf(k).wraps + IF counter' = 0 THEN 1 ELSE 0]

\* proxy_handler matches a request.  It is answered at once when no route fits,
\* and may be refused, for its size or by the limiter, before it gets an upstream.
RouteRequest(path, method) ==
    LET i == MatchRoute(routes, path, method) IN
    /\ asked < MaxRequests
    /\ asked' = asked + 1
    /\ IF i = 0
       THEN /\ latest' = [Nowhere EXCEPT !.path = path, !.method = method]
            /\ UNCHANGED <<counter, picks, streak>>
       ELSE /\ latest' = [path |-> path, method |-> method, route |-> i,
                          upstreamPath |-> Rewritten(routes[i], path)]
            /\ \/ NextUpstream(i)
               \/ UNCHANGED <<counter, picks, streak>>
    /\ UNCHANGED <<configured, routes>>

RouterNext == \E path \in Path, method \in Method : RouteRequest(path, method)

RouterSpec == RouterInit /\ [][RouterNext]_routerVars

----------------------------------------------------------------------------
\* The route a request gets, said of the configuration as it was written: one
\* that fits, none that fits has a longer prefix, and of those with a prefix as
\* long it is the first; no route only when none fits (router.rs 83-117).
MostSpecificRoute ==
    LET fitting == {i \in DOMAIN configured : Fits(configured[i], latest.path, latest.method)}
        best == {i \in fitting :
                   \A j \in fitting : Len(configured[j].prefix) <= Len(configured[i].prefix)}
    IN  latest # Nowhere =>
          IF latest.route = 0 THEN fitting = {}
          ELSE /\ best # {}
               /\ routes[latest.route] = configured[Min(best)]

\* What follows the upstream's base URL is empty or a path from the root, as the
\* request's own path is.  It is that path, or what the prefix leaves of it, no more
\* and no less than the slash it may lack; nothing is left when only the prefix was
\* asked for (router.rs 98-108, proxy.rs:401).
RewrittenIsPath ==
    LET r == routes[latest.route]
        rewritten == latest.upstreamPath
        FromRoot(path) == path = <<>> \/ Head(path) = Slash
    IN  latest.route # 0 =>
          /\ FromRoot(latest.path) => FromRoot(rewritten)
          /\ IF ~r.strip THEN rewritten = latest.path
             ELSE IF rewritten = <<>> THEN Trimmed(latest.path) = Trimmed(r.prefix)
             ELSE latest.path \in {r.prefix \o rewritten, r.prefix \o Tail(rewritten)}

\* As long as no other route with several upstreams picks in between, the upstreams
\* of a route get its requests evenly, whatever requests to routes with one upstream,
\* refused ones and unrouted ones come in between: the counts of two differ by one at
\* most, and by one more for each time the counter has wrapped (router.rs 62-68).
TurnsAreEven ==
    \A i, j \in DOMAIN streak.picks :
        streak.picks[i] <= streak.picks[j] + 1 + streak.wraps

----------------------------------------------------------------------------
=============================================================================
