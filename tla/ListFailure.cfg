\* azcopy jobs list may fail.
CONSTANTS
    v1 = v1 v2 = v2 a1 = a1 a2 = a2 uc = uc h1 = h1 h2 = h2
    j1 = j1 j2 = j2 j3 = j3 key = key None = None
    SearchKeys = {key}
    UserContainer = uc
    Vols = {v1}
    Accounts = {a1}
    Handlers = {h1}
    JobIds = {j1, j2}
    Class <- OneClone
    HasIdentity = TRUE
    JobOutcomes = {"Completed", "Failed"}
    Faults = {"listFails"}
    MaxRestarts = 0
SPECIFICATION Spec
SYMMETRY Symmetry
INVARIANTS CleanupSparesCopy
\* Once every volume is deleted nothing is left to do.
CHECK_DEADLOCK FALSE
