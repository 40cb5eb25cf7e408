SPECIFICATION Spec
CONSTANTS
    solo = solo
    free = free
    NoToken = NoToken
    User <- UsersSolo
    MaxDevices <- CapsSolo
    DefaultMaxDevices <- DefaultsSolo
    Token = {t1, t2, t3}
    Request = {r1, r2}
    Ops = {"login", "refresh", "logout", "password", "suspend", "delete"}
    MayFail = TRUE
    MaxEndings = 2
SYMMETRY SessionSymmetry
INVARIANTS
    TypeOK
    EndingsReachEverySession
    RotationRetiresParent
    LoginsDoNotShareADevice
PROPERTIES
    EndedForGood
