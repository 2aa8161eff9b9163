SPECIFICATION RoutingSpec
CONSTANTS
    Absent = Absent
    a1 = a1
    a2 = a2
    h1 = h1
    t1 = t1
    t2 = t2
    t3 = t3
    s1 = s1
    s2 = s2
    u1 = u1
    u2 = u2
    u3 = u3
    Admin <- TwoAdmins
    Handler <- OneHandler
    Table <- Tables
    Valid <- ValidTables
    Setting <- TwoSettings
    Upstream <- Urls
    Upstreams <- UrlsOf
    MaxReloads = 3
    Configs <- Lists
    Char <- Characters
    Path <- RequestPaths
    Method <- Methods
    Slash = "/"
    CounterSize = 4
    MaxRequests = 6
INVARIANTS
    RoutedUpstreamIsRegistered
    SettledIsConsistent
    NewSettingsNeverMeetOldRoutes
    MostSpecificRoute
    RewrittenIsPath
    TurnsAreEven
CHECK_DEADLOCK FALSE
