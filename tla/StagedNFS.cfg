\* A staged NFS volume with one pod; everything may go wrong, and it must be served in the end.
CONSTANTS
    s = s t1 = t1 t2 = t2 h1 = h1 h2 = h2 h3 = h3 f1 = f1 f2 = f2 f3 = f3
    bare = bare None = None
    Staging = s
    Bare = bare
    Targets = {t1}
    Handlers = {h1, h2, h3}
    Fs = {f1}
    Mode = "staged"
    Protocol = "nfs"
    UseProxy = FALSE
    WIToken = FALSE
    Faults = {"mkdirFails", "mountFails", "mountSlow", "busy", "setupFails", "callerGivesUp", "driverRestarts", "kubeletRestarts"}
    MaxMishaps = 4
    MaxLate = 1
    MaxDepth = 3
SPECIFICATION FairSpec
INVARIANTS UnmountIsFinal MountedWhenTold NeverBare
PROPERTIES KeepsContract PodServed Unpublished Unstaged
\* Once every pod is gone and everything is unmounted nothing is left to do.
CHECK_DEADLOCK FALSE
