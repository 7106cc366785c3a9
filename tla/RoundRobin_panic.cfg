\* Two goroutines inside Next at once.
SPECIFICATION Spec
CONSTANTS
    Threads = {t1, t2}
    kExact = kExact
    kWild = kWild
    pOther = pOther
    Keys = {kWild}
    Paths = {kWild, pOther}
    Matches <- MCMatches
    Dests = {a, b, c}
    NoDest = NoDest
    Panic = Panic
    MaxCursor = 4
SYMMETRY Symmetric
CONSTRAINT CursorBound
INVARIANTS
    NextNeverPanics
