\* Two requests, two sessions, the clean-up and a Close.
SPECIFICATION FairSpec
CONSTANTS
    Procs = {r1, r2}
    Names = {n1, n2}
    Objs = {o1, o2, o3, o4}
    Nil = Nil
    Ttl = 1
    MaxNow = 1
INVARIANTS
    TypeOK
    CountsAreHolders
    IndexMatches
PROPERTIES
    CloseIsWoken
    KeepsPromise
\* A Return that meets a Close on its way to the lock stops every call.
CHECK_DEADLOCK FALSE
