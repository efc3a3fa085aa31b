\* Two volumes of one search key, one into a container the user named; the found account changes and caches run out.
CONSTANTS
    v1 = v1 v2 = v2 a1 = a1 a2 = a2 uc = uc h1 = h1 h2 = h2
    j1 = j1 j2 = j2 j3 = j3 key = key None = None
    SearchKeys = {key}
    UserContainer = uc
    Vols = {v1, v2}
    Accounts = {a1, a2}
    Handlers = {h1, h2}
    JobIds = {j1}
    Class <- PlainAndUserNamed
    HasIdentity = TRUE
    JobOutcomes = {"Completed", "Failed"}
    Faults = {"accountMoves", "ensureFails"}
    MaxRestarts = 0
SPECIFICATION Spec
SYMMETRY Symmetry
INVARIANTS VolMapDecides SearchFreesEntry
PROPERTIES UserContainerKept SearchesTakeTurns
\* Once every volume is deleted nothing is left to do.
CHECK_DEADLOCK FALSE
