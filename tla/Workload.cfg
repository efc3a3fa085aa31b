\* A workload identity volume, staged on the target like an inline one; blobfuse runs inside the driver.
CONSTANTS
    s = s t1 = t1 t2 = t2 h1 = h1 h2 = h2 h3 = h3 f1 = f1 f2 = f2 f3 = f3
    bare = bare None = None
    Staging = s
    Bare = bare
    Targets = {t1}
    Handlers = {h1, h2}
    Fs = {f1, f2, f3}
    Mode = "workload"
    Protocol = "fuse"
    UseProxy = FALSE
    WIToken = FALSE
    Faults = {"mkdirFails", "authFails", "mountFails", "mountSlow", "busy", "fuseDies", "callerGivesUp", "driverRestarts", "kubeletRestarts"}
    MaxMishaps = 4
    MaxLate = 1
    MaxDepth = 2
SPECIFICATION FairSpec
INVARIANTS UnmountIsFinal
PROPERTIES PodServed Unpublished
\* Once every pod is gone and everything is unmounted nothing is left to do.
CHECK_DEADLOCK FALSE
