SPECIFICATION Spec
CONSTANTS
    ann = ann
    Ann = Ann
    name = name
    Spelling = {ann, Ann}
    Name = {name}
    Folded <- Lower
    NoSpelling = NoSpelling
    Request = {r1, r2}
    Limit = 2
    Window = 2
    MaxFailedCalls = 1
    id = id
    userId = userId
    event = event
    succeeded = succeeded
    ipAddress = ipAddress
    userAgent = userAgent
    detail = detail
    createdAt = createdAt
    Column = {id, userId, event, succeeded, ipAddress, userAgent, detail, createdAt}
    DataType <- Types
    Writer = {w1, w2}
    Run = {n1, n2}
    MaxRows = 3
    Batch = 2
    AuditRetain = 1
    SessionRetain = 1
    KeepAuditRows = FALSE
    DayLength = 2
    LastWrite = 2
    MaxTime = 4
    MaxFaults = 1
    u1 = u1
    u2 = u2
    u3 = u3
    u4 = u4
    u5 = u5
    u6 = u6
    lost = lost
    read = read
    plan = plan
    p = p
    q = q
    zero = zero
    Legacy = {u1, u2, u3, u4, u5, u6, lost}
    Native = {member}
    NoParent = NoParent
    Title = {"shipper", "manager"}
    Permission = {read, plan}
    Phone = {p, q, zero}
    NoPhone = NoPhone
    Placeholder = {zero}
    File <- Exports
    NoFile = NoFile
    NoRoot = NoRoot
    MaxEdits = 2
CHECK_DEADLOCK FALSE
INVARIANTS
    LoginTypeOK
    GuessesAreBounded
    FallbackOvershootsByRequests
    ArchiveTypeOK
    OnlyOvertakenRowsAreLost
    ImportTypeOK
    RolesGrantWhatWasHeld
    RerunsChangeNothing
    CompaniesFollowParents
    OldestKeepsNumber
PROPERTIES
    LockoutsEnd
    FilesAreWrittenOnce
    ColdThingsGo
