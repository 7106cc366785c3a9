\* Two goroutines, two keys, one of which is a wildcard.
SPECIFICATION Spec
CONSTANTS
    Threads = {t1, t2}
    kExact = kExact
    kWild = kWild
    pOther = pOther
    Keys = {kExact, kWild}
    Paths = {kExact, kWild}
    Matches <- MCMatches
    Dests = {a, b}
    NoDest = NoDest
    Panic = Panic
    MaxCursor = 3
SYMMETRY Symmetric
CONSTRAINT CursorBound
INVARIANTS
    TypeOK
    ListsHaveNoDuplicates
    PickIsStillListed
