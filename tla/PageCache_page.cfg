\* Two requests, three versions of the page, one failing write.
SPECIFICATION Spec
CONSTANTS
    Procs = {r1, r2}
    None = None
    Size <- LongThenShort
    MaxNow = 1
    MaxFaults = 1
SYMMETRY Symmetry
INVARIANTS
    TypeOK
    PairMatches
    HitIsFresh
    GoodAnswerIsWhole
