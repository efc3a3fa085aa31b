\* Two calls, keys that name the same subnet, failing requests, another writer, crashes by the map race.
CONSTANTS
    a = a b = b one = one two = two all = all c1 = c1 c2 = c2
    None = None
    Threads = {c1, c2}
    Keys = {two, all}
    Subnets = {a, b}
    Named <- Overlapping
    MaxCrashes = 1
    MaxMishaps = 2
SPECIFICATION Spec
INVARIANTS TypeOK EntryExclusion CachedSubnetsServed
PROPERTIES LockPerEntry UpdateReturns EndpointsHeal
