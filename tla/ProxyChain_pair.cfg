\* Two requests at once, one attempt each; two failures open a breaker.
SPECIFICATION Spec
CONSTANTS
    Requests = {r1, r2}
    Dests = {a, b}
    NoDest = NoDest
    Times = 1
    TripAfter = 1
    Answers = {200, 503}
    Misrouted = {}
SYMMETRY Symmetric
INVARIANTS
    TypeOK
    RemovalNeedsLateAnswer
    DirtyBreakerIsDoomed
