SPECIFICATION Spec
CONSTANTS
    tms = tms
    fms = fms
    dashboard = dashboard
    telemetry = telemetry
    trip = trip
    live = live
    acme = acme
    karlo = karlo
    late = late
    ann = ann
    bob = bob
    admin = admin
    driver = driver
    clerk = clerk
    staff = staff
    spare = spare
    Product = {tms, fms}
    Shared = Shared
    Tms = tms
    NoProduct = NoProduct
    Module = {dashboard, telemetry}
    Sellable <- Registry
    Key = {trip, live}
    ProductOf <- Products
    Gate <- Gates
    Company = {acme, karlo, late}
    NoCompany = NoCompany
    Platform = karlo
    Mode <- Modes
    Sales <- Sold
    Defaults <- Starting
    Term <- Terms
    LastDay = 1
    User = {ann, bob}
    NoUser = NoUser
    Role = {admin, driver, clerk, staff, spare}
    NoRole = NoRole
    DriverKeys = {trip}
    Token = {t1}
    Request = {r1, r2}
    OpeningRoles <- FirstRoles
    OpeningUsers <- FirstUsers
    MaxChanges = 2
SYMMETRY Requests
INVARIANTS
    TypeOK
    OutdatedTokensAreRefused
    RolesStayInTheCompany
PROPERTIES
    OtherProductsKeysStand
