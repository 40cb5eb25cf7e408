SPECIFICATION Spec
CONSTANTS
    Company = {1, 2}
    NoCompany = NoCompany
    Opening = {1, 2}
    TaxNo = {n1, n2}
    NoTaxNo = NoTaxNo
    Link = {k1}
    NoLink = NoLink
    User = {u1, u2, u3}
    NoUser = NoUser
    Request = {r1, r2}
    NoRequest = NoRequest
    Seats <- OneSeat
    Recorder = {1}
    Ops = {"issue", "claim", "merge", "register", "adopt", "delete", "profile"}
SYMMETRY IdSymmetry
INVARIANTS
    TypeOK
    SeatsHold
PROPERTIES
    ClaimsFindNobody
