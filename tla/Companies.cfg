SPECIFICATION Spec
CONSTANTS
    Company = {1, 2, 3}
    NoCompany = NoCompany
    Opening = {1, 2}
    TaxNo = {n1}
    NoTaxNo = NoTaxNo
    Link = {k1}
    NoLink = NoLink
    User = {u1, u2}
    NoUser = NoUser
    Request = {r1, r2}
    NoRequest = NoRequest
    Seats <- OneSeat
    Recorder = {1}
    Ops = {"record", "issue", "claim", "merge", "register"}
SYMMETRY IdSymmetry
INVARIANTS
    LinksFollow
    MergesDoNotCross
PROPERTIES
    ImplementsForwarding
