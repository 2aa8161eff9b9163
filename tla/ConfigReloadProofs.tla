------------------------- MODULE ConfigReloadProofs -------------------------
(***************************************************************************)
(* Proofs about ConfigReload, for any number of admin handlers, request    *)
(* handlers, tables and reloads.                                           *)
(***************************************************************************)
EXTENDS ConfigReload, TLAPS

----------------------------------------------------------------------------
\* Every reachable state is well typed; in particular no empty table is ever
\* published, whichever endpoint is used (main.rs 273-333).
THEOREM TypeCorrect == ReloadSpec => []ReloadTypeOK
<1> USE ReloadAssumption, AbsentAssumption
<1>1. ReloadInit => ReloadTypeOK
  <2> SUFFICES ASSUME ReloadInit PROVE ReloadTypeOK
    OBVIOUS
  <2>1. PICK t \in Valid, s \in Setting :
          /\ matcher = [table |-> t, gen |-> 0]
          /\ config = [routes |-> t, settings |-> s, gen |-> 0]
          /\ registered = Upstreams[t]
    BY Zenon DEF ReloadInit
  <2>2. overlapped \in BOOLEAN
    BY <2>1, Zenon DEF ReloadInit
  <2>3. matcher \in Matcher /\ config \in Config /\ registered \subseteq Upstream
    BY <2>1 DEF Matcher, Config
  <2>4. /\ reload \in [Admin -> ReloadCall \cup {Absent}]
        /\ view \in [Handler -> View \cup {Absent}]
        /\ begun \in 0..MaxReloads
    BY DEF ReloadInit
  <2> QED BY <2>2, <2>3, <2>4 DEF ReloadTypeOK
<1>2. ReloadTypeOK /\ [ReloadNext]_reloadVars => ReloadTypeOK'
  <2> SUFFICES ASSUME ReloadTypeOK, [ReloadNext]_reloadVars PROVE ReloadTypeOK'
    OBVIOUS
  <2> USE DEF ReloadTypeOK
  <2>1. ASSUME NEW a \in Admin, NEW t \in Table, NEW s \in Setting,
               Begin(a, t, s)
        PROVE  ReloadTypeOK'
    <3>1. begun + 1 \in 0..MaxReloads
      BY <2>1 DEF Begin
    <3>2. [config |-> [routes |-> t, settings |-> s, gen |-> begun + 1],
           missing |-> Upstreams[t], stage |-> "matcher"] \in ReloadCall
      BY <3>1 DEF ReloadCall, Config
    <3>3. reload' \in [Admin -> ReloadCall \cup {Absent}]
      BY <2>1, <3>2 DEF Begin
    <3> QED BY <2>1, <3>1, <3>3 DEF Begin
  <2>2. ASSUME NEW a \in Admin, BeginReload(a) PROVE ReloadTypeOK'
    BY <2>1, <2>2 DEF BeginReload
  <2>3. ASSUME NEW a \in Admin, BeginUpdate(a) PROVE ReloadTypeOK'
    <3>1. config.settings \in Setting
      BY DEF Config
    <3> QED BY <2>1, <2>3, <3>1 DEF BeginUpdate
  <2>4. ASSUME NEW a \in Admin, Register(a) PROVE ReloadTypeOK'
    <3>1. reload[a] \in ReloadCall
      BY <2>4 DEF Register
    <3>2. PICK u \in reload[a].missing :
            /\ registered' = registered \cup {u}
            /\ reload' = [reload EXCEPT ![a].missing = @ \ {u}]
      BY <2>4 DEF Register
    <3>3. u \in Upstream
      BY <3>1, <3>2 DEF ReloadCall
    <3>4. [reload[a] EXCEPT !.missing = @ \ {u}] \in ReloadCall
      BY <3>1 DEF ReloadCall
    <3>5. reload' \in [Admin -> ReloadCall \cup {Absent}]
      BY <3>2, <3>4
    <3> QED BY <2>4, <3>2, <3>3, <3>5 DEF Register
  <2>5. ASSUME NEW a \in Admin, StoreMatcher(a) PROVE ReloadTypeOK'
    <3>1. reload[a] \in ReloadCall
      BY <2>5 DEF StoreMatcher
    <3>2. matcher' \in Matcher
      BY <2>5, <3>1 DEF StoreMatcher, MatcherOf, Matcher, ReloadCall, Config
    <3>3. [reload[a] EXCEPT !.stage = "config"] \in ReloadCall
      BY <3>1 DEF ReloadCall
    <3>4. reload' \in [Admin -> ReloadCall \cup {Absent}]
      BY <2>5, <3>3 DEF StoreMatcher
    <3> QED BY <2>5, <3>2, <3>4 DEF StoreMatcher
  <2>6. ASSUME NEW a \in Admin, StoreConfig(a) PROVE ReloadTypeOK'
    <3>1. reload[a].config \in Config
      BY <2>6 DEF StoreConfig, ReloadCall
    <3> QED BY <2>6, <3>1 DEF StoreConfig
  <2>7. ASSUME NEW h \in Handler, LoadConfig(h) PROVE ReloadTypeOK'
    <3>1. [config |-> config, matcher |-> Absent] \in View
      BY DEF View
    <3> QED BY <2>7, <3>1 DEF LoadConfig
  <2>8. ASSUME NEW h \in Handler, LoadMatcher(h) PROVE ReloadTypeOK'
    <3>1. view[h] \in View
      BY <2>8 DEF LoadMatcher
    <3>2. [view[h] EXCEPT !.matcher = matcher] \in View
      BY <3>1 DEF View
    <3>3. view' \in [Handler -> View \cup {Absent}]
      BY <2>8, <3>2 DEF LoadMatcher
    <3> QED BY <2>8, <3>3 DEF LoadMatcher
  <2>9. ASSUME NEW h \in Handler, Answer(h) PROVE ReloadTypeOK'
    BY <2>9 DEF Answer
  <2>10. CASE UNCHANGED reloadVars
    BY <2>10 DEF reloadVars
  <2> QED
    BY <2>2, <2>3, <2>4, <2>5, <2>6, <2>7, <2>8, <2>9, <2>10
    DEF ReloadNext, AdminStep, HandlerStep
<1> QED
  BY <1>1, <1>2, PTL DEF ReloadSpec

----------------------------------------------------------------------------
\* What a reload has taken off its list is registered.
ReloadRegisters ==
    \A a \in Admin :
        reload[a] # Absent =>
            Upstreams[reload[a].config.routes] \subseteq registered \cup reload[a].missing

RegisteredInv == ReloadTypeOK /\ ReloadRegisters /\ RoutedUpstreamIsRegistered

\* register_upstream only ever adds, and a matcher is stored only when nothing is
\* missing any more; so every matcher, the one a handler still holds included,
\* names registered upstreams (proxy.rs 193-200).
THEOREM UpstreamsAreRegistered == ReloadSpec => []RoutedUpstreamIsRegistered
<1> USE ReloadAssumption, AbsentAssumption
<1>1. ReloadInit => ReloadRegisters /\ RoutedUpstreamIsRegistered
  BY DEF ReloadInit, ReloadRegisters, RoutedUpstreamIsRegistered, Viewing
<1>2. RegisteredInv /\ [ReloadNext]_reloadVars => (ReloadRegisters /\ RoutedUpstreamIsRegistered)'
  <2> SUFFICES ASSUME RegisteredInv, [ReloadNext]_reloadVars
               PROVE  (ReloadRegisters /\ RoutedUpstreamIsRegistered)'
    OBVIOUS
  <2> USE DEF RegisteredInv, ReloadRegisters, RoutedUpstreamIsRegistered, Viewing
  <2>1. ASSUME NEW a \in Admin, NEW t \in Table, NEW s \in Setting,
               Begin(a, t, s)
        PROVE  (ReloadRegisters /\ RoutedUpstreamIsRegistered)'
    <3>1. \A c \in Admin \ {a} : reload'[c] = reload[c]
      BY <2>1 DEF Begin, ReloadTypeOK
    <3>2. reload'[a].config.routes = t /\ reload'[a].missing = Upstreams[t]
      BY <2>1 DEF Begin, ReloadTypeOK
    <3> QED BY <2>1, <3>1, <3>2 DEF Begin
  <2>2. ASSUME NEW a \in Admin, BeginReload(a)
        PROVE  (ReloadRegisters /\ RoutedUpstreamIsRegistered)'
    BY <2>1, <2>2 DEF BeginReload
  <2>3. ASSUME NEW a \in Admin, BeginUpdate(a)
        PROVE  (ReloadRegisters /\ RoutedUpstreamIsRegistered)'
    <3>1. config.settings \in Setting
      BY DEF ReloadTypeOK, Config
    <3> QED BY <2>1, <2>3, <3>1 DEF BeginUpdate
  <2>4. ASSUME NEW a \in Admin, Register(a)
        PROVE  (ReloadRegisters /\ RoutedUpstreamIsRegistered)'
    <3>1. PICK u \in reload[a].missing :
            /\ registered' = registered \cup {u}
            /\ reload' = [reload EXCEPT ![a].missing = @ \ {u}]
      BY <2>4 DEF Register
    <3>2. reload[a] \in ReloadCall
      BY <2>4 DEF Register, ReloadTypeOK
    <3>3. /\ reload'[a].config = reload[a].config
          /\ reload'[a].missing = reload[a].missing \ {u}
      BY <3>1, <3>2 DEF ReloadTypeOK, ReloadCall
    <3>4. \A c \in Admin \ {a} : reload'[c] = reload[c]
      BY <3>1 DEF ReloadTypeOK
    <3>5. ReloadRegisters'
      BY <2>4, <3>1, <3>3, <3>4 DEF Register
    <3>6. RoutedUpstreamIsRegistered'
      BY <2>4, <3>1 DEF Register
    <3> QED BY <3>5, <3>6
  <2>5. ASSUME NEW a \in Admin, StoreMatcher(a)
        PROVE  (ReloadRegisters /\ RoutedUpstreamIsRegistered)'
    <3>1. reload[a] \in ReloadCall
      BY <2>5 DEF StoreMatcher, ReloadTypeOK
    <3>2. \A c \in Admin : reload'[c] # Absent =>
            /\ reload[c] # Absent
            /\ reload'[c].config = reload[c].config
            /\ reload'[c].missing = reload[c].missing
      BY <2>5, <3>1 DEF StoreMatcher, ReloadTypeOK, ReloadCall
    <3>3. ReloadRegisters'
      BY <2>5, <3>2 DEF StoreMatcher
    <3>4. Upstreams[matcher'.table] \subseteq registered'
      BY <2>5 DEF StoreMatcher, MatcherOf
    <3>5. RoutedUpstreamIsRegistered'
      BY <2>5, <3>4 DEF StoreMatcher
    <3> QED BY <3>3, <3>5
  <2>6. ASSUME NEW a \in Admin, StoreConfig(a)
        PROVE  (ReloadRegisters /\ RoutedUpstreamIsRegistered)'
    BY <2>6 DEF StoreConfig, ReloadTypeOK
  <2>7. ASSUME NEW h \in Handler, LoadConfig(h)
        PROVE  (ReloadRegisters /\ RoutedUpstreamIsRegistered)'
    BY <2>7 DEF LoadConfig, ReloadTypeOK
  <2>8. ASSUME NEW h \in Handler, LoadMatcher(h)
        PROVE  (ReloadRegisters /\ RoutedUpstreamIsRegistered)'
    <3>1. view[h] \in View
      BY <2>8 DEF LoadMatcher, ReloadTypeOK
    <3>2. view'[h].matcher = matcher /\ \A g \in Handler \ {h} : view'[g] = view[g]
      BY <2>8, <3>1 DEF LoadMatcher, ReloadTypeOK, View
    <3> QED BY <2>8, <3>2 DEF LoadMatcher
  <2>9. ASSUME NEW h \in Handler, Answer(h)
        PROVE  (ReloadRegisters /\ RoutedUpstreamIsRegistered)'
    BY <2>9 DEF Answer, ReloadTypeOK
  <2>10. CASE UNCHANGED reloadVars
    BY <2>10 DEF reloadVars
  <2> QED
    BY <2>2, <2>3, <2>4, <2>5, <2>6, <2>7, <2>8, <2>9, <2>10
    DEF ReloadNext, AdminStep, HandlerStep
<1> QED
  BY <1>1, <1>2, TypeCorrect, PTL DEF ReloadSpec, RegisteredInv

----------------------------------------------------------------------------
\* As long as no two reloads have overlapped, one at most is under way, it is the
\* latest, and it decides which of the two ArcSwaps is ahead of the other.
Alone == \A a, b \in Running : a = b

Ordered ==
    /\ config.gen =< matcher.gen
    /\ matcher.gen =< begun
    /\ \A a \in Running :
         /\ reload[a].config.gen = begun
         /\ matcher = MatcherOf(IF reload[a].stage = "matcher" THEN config
                                                              ELSE reload[a].config)
    /\ Running = {} => matcher = MatcherOf(config)

\* What a handler has loaded is not ahead of the matcher it loads or has loaded.
ViewsOrdered ==
    \A h \in Handler : view[h] # Absent =>
        /\ view[h].config.gen =< matcher.gen
        /\ view[h].matcher # Absent => view[h].config.gen =< view[h].matcher.gen

OrderInv == ~overlapped => Alone /\ Ordered /\ ViewsOrdered

LEMMA OrderInvariant == ReloadSpec => []OrderInv
<1> USE ReloadAssumption, AbsentAssumption
<1>1. ReloadInit => OrderInv
  BY DEF ReloadInit, OrderInv, Alone, Ordered, ViewsOrdered, Running, MatcherOf
<1>2. ReloadTypeOK /\ OrderInv /\ [ReloadNext]_reloadVars => OrderInv'
  <2> SUFFICES ASSUME ReloadTypeOK, OrderInv, [ReloadNext]_reloadVars, ~overlapped'
               PROVE  Alone' /\ Ordered' /\ ViewsOrdered'
    BY DEF OrderInv
  <2>0. ~overlapped
    <3>1. overlapped \in BOOLEAN
      BY DEF ReloadTypeOK
    <3>2. overlapped => overlapped'
      BY <3>1 DEF ReloadNext, AdminStep, HandlerStep, BeginReload, BeginUpdate, Begin, Register,
         StoreMatcher, StoreConfig, LoadConfig, LoadMatcher, Answer, reloadVars
    <3> QED BY <3>1, <3>2
  <2>1. Alone /\ Ordered /\ ViewsOrdered
    BY <2>0 DEF OrderInv
  <2>2. /\ begun \in Nat /\ matcher.gen \in Nat /\ config.gen \in Nat
        /\ \A a \in Running : reload[a] \in ReloadCall /\ reload[a].config.gen \in Nat
        /\ \A h \in Handler : view[h] # Absent =>
             view[h] \in View /\ view[h].config.gen \in Nat
    BY DEF ReloadTypeOK, Matcher, Config, Running, ReloadCall, View
  <2>3. ASSUME NEW a \in Admin, NEW t \in Table, NEW s \in Setting,
               Begin(a, t, s)
        PROVE  Alone' /\ Ordered' /\ ViewsOrdered'
    <3>1. Running = {}
      BY <2>3 DEF Begin
    <3>2. Running' \subseteq {a}
      BY <2>3, <3>1 DEF Begin, Running, ReloadTypeOK
    <3>3. reload'[a].config.gen = begun' /\ reload'[a].stage = "matcher"
      BY <2>3 DEF Begin, ReloadTypeOK
    <3>4. matcher' = matcher /\ config' = config /\ view' = view /\ begun' = begun + 1
      BY <2>3 DEF Begin
    <3>5. matcher' = MatcherOf(config')
      BY <2>1, <3>1, <3>4 DEF Ordered
    <3>6. Ordered'
      BY <2>1, <2>2, <3>2, <3>3, <3>4, <3>5 DEF Ordered
    <3>7. ViewsOrdered'
      BY <2>1, <3>4 DEF ViewsOrdered
    <3> QED BY <3>2, <3>6, <3>7 DEF Alone
  <2>4. ASSUME NEW a \in Admin, BeginReload(a) PROVE Alone' /\ Ordered' /\ ViewsOrdered'
    BY <2>3, <2>4 DEF BeginReload
  <2>5. ASSUME NEW a \in Admin, BeginUpdate(a) PROVE Alone' /\ Ordered' /\ ViewsOrdered'
    <3>1. config.settings \in Setting
      BY DEF ReloadTypeOK, Config
    <3> QED BY <2>3, <2>5, <3>1 DEF BeginUpdate
  <2>6. ASSUME NEW a \in Admin, Register(a) PROVE Alone' /\ Ordered' /\ ViewsOrdered'
    <3>1. PICK u \in reload[a].missing : reload' = [reload EXCEPT ![a].missing = @ \ {u}]
      BY <2>6 DEF Register
    <3>2. a \in Running /\ reload[a] \in ReloadCall
      BY <2>2, <2>6 DEF Register, Running
    <3>3. \A c \in Admin : reload'[c] # Absent =>
            /\ reload[c] # Absent
            /\ reload'[c].config = reload[c].config
            /\ reload'[c].stage = reload[c].stage
      BY <3>1, <3>2 DEF ReloadTypeOK, ReloadCall, Running
    <3>4. reload'[a] # Absent
      <4>1. [reload[a] EXCEPT !.missing = @ \ {u}] \in ReloadCall
        BY <3>2 DEF ReloadCall
      <4> QED BY <3>1, <4>1 DEF ReloadTypeOK
    <3>5. Running' = Running
      BY <3>1, <3>2, <3>4 DEF Running, ReloadTypeOK
    <3>6. matcher' = matcher /\ config' = config /\ view' = view /\ begun' = begun
      BY <2>6 DEF Register
    <3>7. Ordered'
      BY <2>1, <3>3, <3>5, <3>6 DEF Ordered, Running
    <3> QED BY <2>1, <3>5, <3>6, <3>7 DEF Alone, ViewsOrdered
  <2>7. ASSUME NEW a \in Admin, StoreMatcher(a) PROVE Alone' /\ Ordered' /\ ViewsOrdered'
    <3>1. a \in Running /\ reload[a] \in ReloadCall
      BY <2>2, <2>7 DEF StoreMatcher, Running
    <3>2. Running = {a}
      BY <2>1, <3>1 DEF Alone, Running
    <3>3. reload'[a].config = reload[a].config /\ reload'[a].stage = "config"
      BY <2>7, <3>1 DEF StoreMatcher, ReloadTypeOK, ReloadCall
    <3>4. reload'[a] # Absent
      <4>1. [reload[a] EXCEPT !.stage = "config"] \in ReloadCall
        BY <3>1 DEF ReloadCall
      <4> QED BY <2>7, <4>1 DEF StoreMatcher, ReloadTypeOK
    <3>5. Running' = {a}
      BY <2>7, <3>2, <3>4 DEF StoreMatcher, Running, ReloadTypeOK
    <3>6. /\ matcher' = MatcherOf(reload[a].config)
          /\ config' = config /\ view' = view /\ begun' = begun
      BY <2>7 DEF StoreMatcher
    <3>7. matcher'.gen = begun
      BY <2>1, <3>1, <3>6 DEF Ordered, MatcherOf
    <3>8. matcher.gen =< matcher'.gen /\ matcher'.gen \in Nat
      BY <2>1, <2>2, <3>7 DEF Ordered
    <3>9. Ordered'
      BY <2>1, <2>2, <3>1, <3>3, <3>5, <3>6, <3>7, <3>8 DEF Ordered
    <3>10. ViewsOrdered'
      BY <2>1, <2>2, <3>6, <3>8 DEF ViewsOrdered
    <3> QED BY <3>5, <3>9, <3>10 DEF Alone
  <2>8. ASSUME NEW a \in Admin, StoreConfig(a) PROVE Alone' /\ Ordered' /\ ViewsOrdered'
    <3>1. a \in Running /\ reload[a].stage = "config"
      BY <2>8 DEF StoreConfig, Running
    <3>2. Running = {a}
      BY <2>1, <3>1 DEF Alone, Running
    <3>3. Running' = {}
      BY <2>8, <3>2 DEF StoreConfig, Running, ReloadTypeOK
    <3>4. /\ config' = reload[a].config
          /\ matcher' = matcher /\ view' = view /\ begun' = begun
      BY <2>8 DEF StoreConfig
    <3>5. matcher = MatcherOf(reload[a].config)
      BY <2>1, <3>1 DEF Ordered
    <3>6. config'.gen = matcher'.gen
      BY <3>4, <3>5 DEF MatcherOf
    <3>7. Ordered'
      BY <2>1, <2>2, <3>3, <3>4, <3>5, <3>6 DEF Ordered
    <3> QED BY <2>1, <3>3, <3>4, <3>7 DEF Alone, ViewsOrdered
  <2>9. ASSUME NEW h \in Handler, LoadConfig(h) PROVE Alone' /\ Ordered' /\ ViewsOrdered'
    <3>1. /\ matcher' = matcher /\ config' = config /\ reload' = reload /\ begun' = begun
          /\ Running' = Running
      BY <2>9 DEF LoadConfig, Running
    <3>2. view'[h] = [config |-> config, matcher |-> Absent]
      BY <2>9 DEF LoadConfig, ReloadTypeOK
    <3>3. \A g \in Handler \ {h} : view'[g] = view[g]
      BY <2>9 DEF LoadConfig, ReloadTypeOK
    <3>4. ViewsOrdered'
      BY <2>1, <3>1, <3>2, <3>3 DEF ViewsOrdered, Ordered
    <3> QED BY <2>1, <3>1, <3>4 DEF Alone, Ordered
  <2>10. ASSUME NEW h \in Handler, LoadMatcher(h) PROVE Alone' /\ Ordered' /\ ViewsOrdered'
    <3>1. /\ matcher' = matcher /\ config' = config /\ reload' = reload /\ begun' = begun
          /\ Running' = Running
      BY <2>10 DEF LoadMatcher, Running
    <3>2. view[h] # Absent /\ view[h] \in View
      BY <2>2, <2>10 DEF LoadMatcher
    <3>3. view'[h].config = view[h].config /\ view'[h].matcher = matcher
      BY <2>10, <3>2 DEF LoadMatcher, ReloadTypeOK, View
    <3>4. \A g \in Handler \ {h} : view'[g] = view[g]
      BY <2>10 DEF LoadMatcher, ReloadTypeOK
    <3>5. ViewsOrdered'
      BY <2>1, <3>1, <3>2, <3>3, <3>4 DEF ViewsOrdered
    <3> QED BY <2>1, <3>1, <3>5 DEF Alone, Ordered
  <2>11. ASSUME NEW h \in Handler, Answer(h) PROVE Alone' /\ Ordered' /\ ViewsOrdered'
    <3>1. /\ matcher' = matcher /\ config' = config /\ reload' = reload /\ begun' = begun
          /\ Running' = Running
      BY <2>11 DEF Answer, Running
    <3>2. \A g \in Handler : view'[g] # Absent => view'[g] = view[g]
      BY <2>11 DEF Answer, ReloadTypeOK
    <3> QED BY <2>1, <3>1, <3>2 DEF Alone, Ordered, ViewsOrdered
  <2>12. CASE UNCHANGED reloadVars
    BY <2>1, <2>12 DEF reloadVars, Alone, Ordered, ViewsOrdered, Running
  <2> QED
    BY <2>4, <2>5, <2>6, <2>7, <2>8, <2>9, <2>10, <2>11, <2>12
    DEF ReloadNext, AdminStep, HandlerStep
<1> QED
  BY <1>1, <1>2, TypeCorrect, PTL DEF ReloadSpec

\* Reloads that wait for one another leave the routes that are served and the
\* configuration that is shown the same (proxy.rs 200-201).
THEOREM SettledReloadsAgree == ReloadSpec => []SettledIsConsistent
<1>1. OrderInv => SettledIsConsistent
  BY DEF OrderInv, Ordered, SettledIsConsistent
<1> QED
  BY <1>1, OrderInvariant, PTL

\* Storing the matcher first and loading it last is enough: whatever the two
\* handlers interleave while one reload runs at a time, new settings are never
\* applied to old routes (proxy.rs 200-201, 316-317).
THEOREM RoutesAreNotOlder == ReloadSpec => []NewSettingsNeverMeetOldRoutes
<1>1. ReloadTypeOK /\ OrderInv => NewSettingsNeverMeetOldRoutes
  <2> SUFFICES ASSUME ReloadTypeOK, OrderInv, ~overlapped, NEW h \in Viewing
               PROVE  view[h].matcher.gen >= view[h].config.gen
    BY DEF NewSettingsNeverMeetOldRoutes
  <2>1. view[h].config.gen =< view[h].matcher.gen
    BY DEF OrderInv, ViewsOrdered, Viewing
  <2>2. view[h].config.gen \in Int /\ view[h].matcher.gen \in Int
    BY ReloadAssumption DEF ReloadTypeOK, View, Matcher, Config, Viewing
  <2> QED BY <2>1, <2>2
<1> QED
  BY <1>1, TypeCorrect, OrderInvariant, PTL
=============================================================================
