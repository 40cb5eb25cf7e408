SPECIFICATION FairSpec
CONSTANTS
    solo = solo
    free = free
    NoToken = NoToken
    User <- Users2
    MaxDevices <- Caps2
    DefaultMaxDevices <- Defaults2
    Token = {t1, t2}
    Request = {r1, r2}
    Ops = {"login", "refresh", "logoutAll", "suspend", "restore", "expiry"}
    MayFail = FALSE
    MaxEndings = 1
PROPERTIES
    ImplementsLifecycle
    OutdatedSessionsEnd
