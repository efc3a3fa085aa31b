\* One clone from another account whose copies never fail: timeouts, repeated and late calls, deletion, a replaced pod.
CONSTANTS
    v1 = v1 v2 = v2 a1 = a1 a2 = a2 uc = uc h1 = h1 h2 = h2
    j1 = j1 j2 = j2 j3 = j3 key = key None = None
    SearchKeys = {key}
    UserContainer = uc
    Vols = {v1}
    Accounts = {a1, a2}
    Handlers = {h1, h2}
    JobIds = {j1, j2, j3}
    Class <- FarClone
    HasIdentity = TRUE
    JobOutcomes = {"Completed"}
    Faults = {"podReplaced"}
    MaxRestarts = 1
SPECIFICATION FairSpec
INVARIANTS CloneComplete
PROPERTIES CallsReturn CreateSucceeds
\* Once every volume is deleted nothing is left to do.
CHECK_DEADLOCK FALSE
