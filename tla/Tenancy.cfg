SPECIFICATION Spec
CONSTANTS
    c1 = c1
    c2 = c2
    c3 = c3
    key = key
    Person = {p1, p2, p3}
    Nobody = Nobody
    Company = {c1, c2, c3}
    NoCompany = NoCompany
    Key = {key}
    KeyCompany <- OfThird
    Caller = {r1, r2}
    Shell = {b1, b2}
    a1 = a1
    a2 = a2
    Address = {a1, a2}
    Own = Own
    NoAddress = NoAddress
    MaxAsked = 2
    MaxCrashes = 1
    word = word
    Row = {1, 2, 3, 4}
    Column = {"id", "created_at", "role"}
    Cell <- Cells
    FieldSet <- Names
    Hits <- Matches
    Asks <- SomeAsks
    DefaultPageSize = 1
    MaxPageSize = 2
    DefaultSyncSize = 2
    MaxSyncSize = 3
    NoWord = NoWord
    Refused = Refused
    MaxChanges = 2
SYMMETRY TenancySymmetry
CHECK_DEADLOCK FALSE
INVARIANTS
    TenancyTypeOK
    StaffAreKarlos
    OneAdministratorFromTheShell
    OnlyWhatWasAsked
    MissesAreEarned
