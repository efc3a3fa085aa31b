\* A staged blobfuse volume with two pods; the kubelet does not restart.
CONSTANTS
    s = s t1 = t1 t2 = t2 h1 = h1 h2 = h2 h3 = h3 f1 = f1 f2 = f2 f3 = f3
    bare = bare None = None
    Staging = s
    Bare = bare
    Targets = {t1, t2}
    Handlers = {h1, h2, h3}
    Fs = {f1, f2, f3}
    Mode = "staged"
    Protocol = "fuse"
    UseProxy = TRUE
    WIToken = FALSE
    Faults = {"mkdirFails", "authFails", "mountFails", "mountSlow", "busy", "fuseDies", "callerGivesUp", "driverRestarts"}
    MaxMishaps = 4
    MaxLate = 1
    MaxDepth = 3
SPECIFICATION Spec
SYMMETRY Symmetry
INVARIANTS TypeOK NeverBare
PROPERTIES KeepsContract
\* Once every pod is gone and everything is unmounted nothing is left to do.
CHECK_DEADLOCK FALSE
