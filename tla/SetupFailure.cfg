\* chmod or the change of owner fails once.
CONSTANTS
    s = s t1 = t1 t2 = t2 h1 = h1 h2 = h2 h3 = h3 f1 = f1 f2 = f2 f3 = f3
    bare = bare None = None
    Staging = s
    Bare = bare
    Targets = {t1}
    Handlers = {h1}
    Fs = {f1}
    Mode = "staged"
    Protocol = "nfs"
    UseProxy = FALSE
    WIToken = FALSE
    Faults = {"setupFails"}
    MaxMishaps = 1
    MaxLate = 1
    MaxDepth = 2
SPECIFICATION Spec
SYMMETRY Symmetry
INVARIANTS PreparedWhenStaged
\* Once every pod is gone and everything is unmounted nothing is left to do.
CHECK_DEADLOCK FALSE
