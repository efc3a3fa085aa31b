\* blobfuse dies and the kubelet restarts while a bind mount is under way.
CONSTANTS
    s = s t1 = t1 t2 = t2 h1 = h1 h2 = h2 h3 = h3 f1 = f1 f2 = f2 f3 = f3
    bare = bare None = None
    Staging = s
    Bare = bare
    Targets = {t1}
    Handlers = {h1, h2}
    Fs = {f1, f2, f3}
    Mode = "staged"
    Protocol = "fuse"
    UseProxy = TRUE
    WIToken = FALSE
    Faults = {"fuseDies", "kubeletRestarts"}
    MaxMishaps = 2
    MaxLate = 1
    MaxDepth = 2
SPECIFICATION Spec
SYMMETRY Symmetry
INVARIANTS NeverBare
\* Once every pod is gone and everything is unmounted nothing is left to do.
CHECK_DEADLOCK FALSE
