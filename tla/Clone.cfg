\* One clone from another account: late and repeated calls, timeouts, every failure but a silent list failure, one restart.
CONSTANTS
    v1 = v1 v2 = v2 a1 = a1 a2 = a2 uc = uc h1 = h1 h2 = h2
    j1 = j1 j2 = j2 j3 = j3 key = key None = None
    SearchKeys = {key}
    UserContainer = uc
    Vols = {v1}
    Accounts = {a1, a2}
    Handlers = {h1, h2}
    JobIds = {j1, j2}
    Class <- FarDataPlaneClone
    HasIdentity = TRUE
    JobOutcomes = {"Completed", "CompletedWithErrors", "Failed"}
    Faults = {"ensureFails", "keyFails", "sasFails", "createFails", "deleteFails", "secretFails", "execFails", "replyLost", "restart", "podReplaced"}
    MaxRestarts = 1
SPECIFICATION Spec
SYMMETRY Symmetry
INVARIANTS TypeOK LockedOnce CleanupSparesCopy OneCopyPerContainer
\* Once every volume is deleted nothing is left to do.
CHECK_DEADLOCK FALSE
