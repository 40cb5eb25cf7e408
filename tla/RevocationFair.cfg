SPECIFICATION FairSpec
CONSTANTS
    Holder = {person}
    Session = {}
    Service = {s1}
    Publisher = {p1, p2}
    Life = 2
    Second = 1
    MaxTime = 5
    MaxEvents = 2
    MaxFaults = 2
PROPERTIES
    RecordsReachEveryList
