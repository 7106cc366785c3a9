\* One request with up to two attempts on two destinations, which may hang.
SPECIFICATION FairSpec
CONSTANTS
    Requests = {r1}
    Dests = {a, b}
    NoDest = NoDest
    Times = 2
    TripAfter = 1
    Answers = {200, 204, 500, 503}
    Misrouted = {r1}
INVARIANTS
    OnlyTimeoutsLeak
    AnswerIsWhole
PROPERTIES
    Answered
