SPECIFICATION Spec
CONSTANTS
    Holder = {person}
    Session = {login}
    Service = {s1}
    Publisher = {p1, p2}
    Life = 2
    Second = 1
    MaxTime = 5
    MaxEvents = 2
    MaxFaults = 1
SYMMETRY PublisherSymmetry
INVARIANTS
    TypeOK
    RefusalsAreEarned
PROPERTIES
    RefusedStaysRefused
