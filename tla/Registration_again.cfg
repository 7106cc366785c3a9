\* A path and its twin with a trailing slash, one bad add; two faults.
SPECIFICATION FairSpec
CONSTANTS
    c1 = c1
    c2 = c2
    p1 = p1
    p2 = p2
    Clients = {c1, c2}
    Paths = {p1, p2}
    NoPath = NoPath
    Routers = {"_def_"}
    Default = "_def_"
    Named <- SameRouter
    Covers <- Nothing
    Twins <- Slashes
    Invalid <- ShortMethod
    MaxFaults = 2
INVARIANTS
    TypeOK
    RouteHasListOrAdder
    ListedIsServed
PROPERTIES
    Reregistered
