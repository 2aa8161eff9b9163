---------------------------- MODULE ConfigReload ----------------------------
(***************************************************************************)
(* The hot reload of the gateway's configuration: the two admin handlers   *)
(* that publish one (pqc-gateway/src/main.rs), ProxyState::reload_config   *)
(* (pqc-proxy/src/proxy.rs), and the request handlers that read it.  The   *)
(* route matcher and the configuration are two ArcSwaps, written one after *)
(* the other and read one after the other; ArcSwap's loads and stores are  *)
(* acquire and release, so a handler that reads the new configuration also *)
(* reads the matcher stored before it.                                     *)
(*                                                                         *)
(* A configuration is its route table and the rest, its settings.          *)
(***************************************************************************)
EXTENDS Integers

CONSTANTS
    Admin,       \* concurrently running admin handlers
    Handler,     \* concurrently running proxy_handler calls
    Table,       \* route tables, none of them empty
    Valid,       \* the tables GatewayConfig::validate accepts
    Setting,     \* the rest of a configuration
    Upstream,    \* upstream base URLs
    Upstreams,   \* Upstreams[t]: those the routes of t name
    MaxReloads,  \* bound: reloads in a run
    Absent         \* no reload, no view, the empty table

ASSUME ReloadAssumption ==
    /\ Valid \subseteq Table
    /\ Upstreams \in [Table -> SUBSET Upstream]
    /\ MaxReloads \in Nat
    /\ Absent \notin Table

VARIABLES
    matcher,     \* ProxyState.matcher: [table, gen]
    config,      \* ProxyState.config: [routes, settings, gen]
    registered,  \* upstreams the circuit breaker knows
    reload,      \* reload[a]: the reload_config call of a, Absent when none runs
    view,        \* view[h]: what h has loaded, Absent when no call runs
    begun,       \* reloads begun, the gen of the latest (history)
    overlapped   \* two reloads have run at the same time (history)

reloadVars == <<matcher, config, registered, reload, view, begun, overlapped>>

----------------------------------------------------------------------------
\* gen numbers the reload a value was published by (history).
Matcher == [table : Table, gen : 0..MaxReloads]
Config == [routes : Table, settings : Setting, gen : 0..MaxReloads]

\* RouteMatcher::new on the routes of c.
MatcherOf(c) == [table |-> c.routes, gen |-> c.gen]

\* A call of reload_config, with the upstreams it has yet to register, before or
\* after it has stored the matcher.
ReloadCall ==
    [config : Config, missing : SUBSET Upstream, stage : {"matcher", "config"}]

\* What a handler has loaded: the configuration, then the matcher as well.
View == [config : Config, matcher : Matcher \cup {Absent}]

ASSUME AbsentAssumption == Absent \notin Matcher \cup ReloadCall

Running == {a \in Admin : reload[a] # Absent}
Viewing == {h \in Handler : view[h] # Absent /\ view[h].matcher # Absent}

\* ProxyState::new.
ReloadInit ==
    /\ \E t \in Valid, s \in Setting :
         /\ matcher = [table |-> t, gen |-> 0]
         /\ config = [routes |-> t, settings |-> s, gen |-> 0]
         /\ registered = Upstreams[t]
    /\ reload = [a \in Admin |-> Absent]
    /\ view = [h \in Handler |-> Absent]
    /\ begun = 0
    /\ overlapped = FALSE

----------------------------------------------------------------------------
\* reload_config is called with routes t and settings s.
Begin(a, t, s) ==
    /\ reload[a] = Absent
    /\ begun < MaxReloads
    /\ begun' = begun + 1
    /\ overlapped' = (overlapped \/ Running # {})
    /\ reload' = [reload EXCEPT ![a] =
         [config |-> [routes |-> t, settings |-> s, gen |-> begun + 1],
          missing |-> Upstreams[t], stage |-> "matcher"]]
    /\ UNCHANGED <<matcher, config, registered, view>>

\* POST /admin/config/reload: from_json validates, and changes nothing otherwise.
BeginReload(a) == \E t \in Valid, s \in Setting : Begin(a, t, s)

\* POST /admin/routes/update: the current settings with other routes.  It refuses
\* an empty list and validates nothing else.
BeginUpdate(a) == \E t \in Table : Begin(a, t, config.settings)

\* One register_upstream of the loop over the new routes.
Register(a) ==
    /\ reload[a] # Absent
    /\ \E u \in reload[a].missing :
         /\ registered' = registered \cup {u}
         /\ reload' = [reload EXCEPT ![a].missing = @ \ {u}]
    /\ UNCHANGED <<matcher, config, view, begun, overlapped>>

\* Mutant of StoreMatcher: the routes are swapped in before the loop is over.
StoreMatcher_Early(a) ==
    /\ reload[a] # Absent
    /\ reload[a].stage = "matcher"
    /\ matcher' = MatcherOf(reload[a].config)
    /\ reload' = [reload EXCEPT ![a].stage = "config"]
    /\ UNCHANGED <<config, registered, view, begun, overlapped>>

\* Mutant of StoreMatcher: the matcher is kept when the upstreams stay the same.
StoreMatcher_WhenNew(a) ==
    /\ reload[a] # Absent
    /\ reload[a].stage = "matcher" /\ reload[a].missing = {}
    /\ matcher' = IF Upstreams[reload[a].config.routes] = Upstreams[matcher.table]
                  THEN matcher
                  ELSE MatcherOf(reload[a].config)
    /\ reload' = [reload EXCEPT ![a].stage = "config"]
    /\ UNCHANGED <<config, registered, view, begun, overlapped>>

\* self.matcher.store
StoreMatcher(a) ==
    /\ reload[a] # Absent
    /\ reload[a].stage = "matcher"
    /\ reload[a].missing = {}
    /\ matcher' = MatcherOf(reload[a].config)
    /\ reload' = [reload EXCEPT ![a].stage = "config"]
    /\ UNCHANGED <<config, registered, view, begun, overlapped>>

\* Mutant of StoreConfig: the configuration is stored before the matcher.
StoreConfig_First(a) ==
    /\ reload[a] # Absent
    /\ reload[a].missing = {}
    /\ \/ /\ reload[a].stage = "matcher"
          /\ config' = reload[a].config
          /\ reload' = [reload EXCEPT ![a].stage = "late"]
          /\ UNCHANGED matcher
       \/ /\ reload[a].stage = "late"
          /\ matcher' = MatcherOf(reload[a].config)
          /\ reload' = [reload EXCEPT ![a] = Absent]
          /\ UNCHANGED config
    /\ UNCHANGED <<registered, view, begun, overlapped>>

\* self.config.store, the end of the call.
StoreConfig(a) ==
    /\ reload[a] # Absent
    /\ reload[a].stage = "config"
    /\ config' = reload[a].config
    /\ reload' = [reload EXCEPT ![a] = Absent]
    /\ UNCHANGED <<matcher, registered, view, begun, overlapped>>

----------------------------------------------------------------------------
\* proxy_handler loads the configuration, then the matcher, and keeps both.
LoadConfig(h) ==
    /\ view[h] = Absent
    /\ view' = [view EXCEPT ![h] = [config |-> config, matcher |-> Absent]]
    /\ UNCHANGED <<matcher, config, registered, reload, begun, overlapped>>

LoadMatcher(h) ==
    /\ view[h] # Absent
    /\ h \notin Viewing
    /\ view' = [view EXCEPT ![h].matcher = matcher]
    /\ UNCHANGED <<matcher, config, registered, reload, begun, overlapped>>

Answer(h) ==
    /\ h \in Viewing
    /\ view' = [view EXCEPT ![h] = Absent]
    /\ UNCHANGED <<matcher, config, registered, reload, begun, overlapped>>

AdminStep(a) == BeginReload(a) \/ BeginUpdate(a) \/ Register(a) \/ StoreMatcher(a) \/ StoreConfig(a)

HandlerStep(h) == LoadConfig(h) \/ LoadMatcher(h) \/ Answer(h)

ReloadNext == (\E a \in Admin : AdminStep(a)) \/ (\E h \in Handler : HandlerStep(h))

ReloadSpec == ReloadInit /\ [][ReloadNext]_reloadVars

----------------------------------------------------------------------------
\* Every variable has its type; no empty route table is ever published.
ReloadTypeOK ==
    /\ matcher \in Matcher
    /\ config \in Config
    /\ registered \subseteq Upstream
    /\ reload \in [Admin -> ReloadCall \cup {Absent}]
    /\ view \in [Handler -> View \cup {Absent}]
    /\ begun \in 0..MaxReloads
    /\ overlapped \in BOOLEAN

\* However many reloads run at once, no request is ever routed to an upstream
\* that the circuit breaker, and so the health checks, do not know: neither by
\* the current matcher nor by one a handler still holds (proxy.rs 193-200).
RoutedUpstreamIsRegistered ==
    /\ Upstreams[matcher.table] \subseteq registered
    /\ \A h \in Viewing : Upstreams[view[h].matcher.table] \subseteq registered

\* Between reloads that never overlapped, the routes that are served are those
\* of the configuration that GET /admin/routes shows (proxy.rs 200-201).
SettledIsConsistent ==
    ~overlapped /\ Running = {} => matcher = MatcherOf(config)

\* A handler that runs under the settings of a reload routes by that reload or a
\* later one: the order of the two stores against the order of the two loads
\* (proxy.rs 200-201 and 316-317).
NewSettingsNeverMeetOldRoutes ==
    ~overlapped => \A h \in Viewing : view[h].matcher.gen >= view[h].config.gen

----------------------------------------------------------------------------
\* "swaps route matcher and config atomically" (proxy.rs:188): when no reload is
\* running, the routes are those of the configuration, whatever reloads there were.
RestIsConsistent == Running = {} => matcher.gen = config.gen
=============================================================================
