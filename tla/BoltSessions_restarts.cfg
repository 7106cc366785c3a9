\* Three requests, two sessions, two crashes or failed transactions.
SPECIFICATION Spec
CONSTANTS
    Procs = {r1, r2, r3}
    Names = {n1, n2}
    NoName = NoName
    Keys = {k1}
    Ttl = 1
    MaxNow = 3
    MaxFaults = 2
SYMMETRY Symmetry
INVARIANTS
    TypeOK
    MarksHaveHolders
    IndexIsTruthful
    ExclusiveUseIsSafe
