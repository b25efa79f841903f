\* Tabs of one browser, two logins, one failure of any kind, reuse, logout and
\* password change.
CONSTANTS
    Tabs = {t1, t2}
    Admin = Admin
    NoToken = NoToken
    WebLocks = TRUE
    Faults = {"lost", "redis", "expire"}
    MaxLogins = 2
    MaxGen = 1
    MaxFaults = 1
SPECIFICATION FairSpec
CHECK_DEADLOCK FALSE
INVARIANTS
    OneTokenPerFamily
    RevokedStaysDead
    TabsKeepSession
PROPERTIES
    RefreshEnds
