\* One goroutine: calls follow one another.
SPECIFICATION Spec
CONSTANTS
    Threads = {t1}
    kExact = kExact
    kWild = kWild
    pOther = pOther
    Keys = {kExact, kWild}
    Paths = {kExact, kWild, pOther}
    Matches <- MCMatches
    Dests = {a, b, c}
    NoDest = NoDest
    Panic = Panic
    MaxCursor = 4
CONSTRAINT CursorBound
INVARIANTS
    NextNeverPanics
PROPERTIES
    Rotates
