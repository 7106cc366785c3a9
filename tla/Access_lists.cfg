\* Three ways to make the lists, two systems, two faults, one request at a time.
SPECIFICATION Spec
CONSTANTS
    i1 = i1
    i2 = i2
    f1 = f1
    f2 = f2
    r1 = r1
    r2 = r2
    r3 = r3
    a1 = a1
    a2 = a2
    Ips = {i1, i2}
    Refs = {f1, f2}
    Nobody = Nobody
    Matches <- EntriesMatch
    Invalid = Invalid
    Configs <- SomeConfigs
    Kinds <- SomeKinds
    Systems <- TwoSystems
    Answers <- SomeAnswers
    Routes = {r1, r2, r3}
    Covers <- RouteCovers
    MaxFaults = 2
INVARIANTS
    TypeOK
    ListsKeepEntries
    ListedIsNotDefaulted
    CacheIsWhole
    StoredIsUsed
