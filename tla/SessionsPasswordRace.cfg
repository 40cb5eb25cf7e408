SPECIFICATION Spec
CONSTANTS
    solo = solo
    free = free
    NoToken = NoToken
    User <- Users1
    MaxDevices <- Caps1
    DefaultMaxDevices <- Defaults1
    Token = {t1, t2}
    Request = {r1, r2}
    Ops = {"login", "refresh", "password"}
    MayFail = FALSE
    MaxEndings = 1
CHECK_DEADLOCK FALSE
INVARIANTS
    PasswordChangeLocksOut
