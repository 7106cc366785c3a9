\* Two requests share a session; no faults.
SPECIFICATION Spec
CONSTANTS
    Procs = {r1, r2}
    Names = {n1, n2}
    NoName = NoName
    Keys = {k1}
    Ttl = 1
    MaxNow = 3
    MaxFaults = 0
SYMMETRY Symmetry
INVARIANT
    HeldIsNotDeleted
