SPECIFICATION ReloadSpec
CONSTANTS
    a1 = a1
    a2 = a2
    h1 = h1
    t1 = t1
    t2 = t2
    t3 = t3
    s1 = s1
    s2 = s2
    u1 = u1
    u2 = u2
    u3 = u3
    Absent = Absent
    Admin <- TwoAdmins
    Handler <- OneHandler
    Table <- Tables
    Valid <- ValidTables
    Setting <- TwoSettings
    Upstream <- Urls
    Upstreams <- UrlsOf
    MaxReloads = 2
INVARIANT RestIsConsistent
