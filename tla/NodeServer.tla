----------------------------- MODULE NodeServer -----------------------------
(***************************************************************************)
(* The node service of the driver (pkg/blob/nodeserver.go) for one volume  *)
(* on one node: NodeStageVolume, NodePublishVolume, NodeUnpublishVolume    *)
(* and NodeUnstageVolume calls that overlap because the kubelet gives up   *)
(* on a call and makes the next one while the first still runs.            *)
(*                                                                         *)
(* A path is a directory under a stack of mounts.  mount and umount        *)
(* commands, blobfuse processes and the kubelet are the environment: a     *)
(* mount command may outlive the call that started it (WaitUntilTimeout,   *)
(* a cancelled call to blobfuse-proxy, a blobfuse that daemonizes) and     *)
(* lands or fails later; a blobfuse process may die.  Rejected requests    *)
(* change nothing and are left out.                                        *)
(***************************************************************************)
EXTENDS Naturals, Sequences, FiniteSets

CONSTANTS
    Staging,     \* the staging path
    Targets,     \* target paths, one per pod
    Handlers,    \* goroutines that serve calls
    Fs,          \* bound: mounted file systems at a time
    Bare,        \* what a bind shows of a staging directory that is not mounted
    Mode,        \* staged PV, inline (ephemeral) volume, or workload identity
    Protocol,    \* nfs or fuse
    UseProxy,    \* enableBlobfuseProxy: blobfuse runs outside the driver
    WIToken,     \* mountWithWIToken: the token must be refreshed
    Faults,      \* what may go wrong
    MaxMishaps,  \* bound: how often something goes wrong
    MaxLate,     \* bound: mount commands that outlive their call, per path
    MaxDepth,    \* bound: mounts on one path
    None

Paths == Targets \cup {Staging}
AllFaults == {"mkdirFails", "authFails", "mountFails", "mountSlow", "busy", "setupFails",
              "fuseDies", "callerGivesUp", "driverRestarts", "kubeletRestarts"}

ASSUME NodeAssumption ==
    /\ Staging \notin Targets /\ None \notin Paths \cup Handlers
    /\ Bare \notin Fs
    /\ Mode \in {"staged", "inline", "workload"} /\ Protocol \in {"nfs", "fuse"}
    /\ UseProxy \in BOOLEAN /\ WIToken \in BOOLEAN
    /\ Faults \subseteq AllFaults
    /\ MaxMishaps \in Nat /\ MaxLate \in Nat /\ MaxDepth \in Nat \ {0}

VARIABLES
    locks,     \* volumeLocks: paths of this volume with an ongoing operation
    pc, path,  \* per handler: next step, path it works on
    gaveUp,    \* per handler: the caller no longer waits
    dir,       \* node: the directory exists
    mounts,    \* node: the stack of mounts on each path
    late,      \* node: mount commands on each path that outlived their call
    dead,      \* node: file systems whose blobfuse process died
    prepared,  \* service: permissions and owner of the container's root were set
    pods,      \* kubelet: the pod of each target is yet to come, here or gone
    belief,    \* kubelet: is the path mounted
    mishaps

handlers == <<pc, path, gaveUp>>
node == <<dir, mounts, late, dead, prepared>>
vars == <<locks, handlers, node, pods, belief, mishaps>>

Steps == {"idle", "publish", "bind", "stage", "ensure", "unmountStale", "authMounted",
          "auth", "mount", "setup", "wait", "mountError", "mountErrorRemove",
          "unmount", "remove", "unstage", "unstageUnmount", "unstageRemove"}

Init ==
    /\ locks = {}
    /\ pc = [h \in Handlers |-> "idle"]
    /\ path = [h \in Handlers |-> None]
    /\ gaveUp = [h \in Handlers |-> FALSE]
    /\ dir = [p \in Paths |-> FALSE]
    /\ mounts = [p \in Paths |-> <<>>]
    /\ late = [p \in Paths |-> 0]
    /\ dead = {}
    /\ prepared = FALSE
    /\ pods = [t \in Targets |-> "coming"]
    /\ belief = [p \in Paths |-> "no"]
    /\ mishaps = 0

-----------------------------------------------------------------------------
Mishap(f) == f \in Faults /\ mishaps < MaxMishaps /\ mishaps' = mishaps + 1

Mounted(p) == mounts[p] # <<>>
Top(p) == mounts[p][Len(mounts[p])]
\* probeMount, os.Lstat and IsLikelyNotMountPoint succeed on the mount.
Healthy(p) == Mounted(p) /\ Top(p) \notin dead
Broken(p) == Mounted(p) /\ Top(p) \in dead
InUse == UNION {{mounts[p][i] : i \in 1..Len(mounts[p])} : p \in Paths}

Push(p, f) == mounts' = [mounts EXCEPT ![p] = Append(@, f)]
Unmount(p) == mounts' = [mounts EXCEPT ![p] = SubSeq(@, 1, Len(@) - 1)]

\* A mount command lands.  The kernel refuses to mount an NFS export twice in a
\* row on one path; every blobfuse is a file system of its own.
Land(p) ==
    /\ dir[p] /\ Len(mounts[p]) < MaxDepth
    /\ \E f \in Fs :
          /\ IF Protocol = "nfs" THEN Mounted(p) => Top(p) # f ELSE f \notin InUse
          /\ Push(p, f)
          /\ dead' = dead \ {f}

\* A call returns; the kubelet learns b unless it gave up.
Return(h, b) ==
    /\ pc' = [pc EXCEPT ![h] = "idle"]
    /\ path' = [path EXCEPT ![h] = None]
    /\ gaveUp' = [gaveUp EXCEPT ![h] = FALSE]
    /\ belief' = IF gaveUp[h] THEN belief ELSE [belief EXCEPT ![path[h]] = b]

Goto(h, step) == pc' = [pc EXCEPT ![h] = step] /\ UNCHANGED <<path, gaveUp, belief>>

\* Mutant: a return without the Release.
ReturnKeepsLock(h, b) == Return(h, b) /\ UNCHANGED locks

\* The same with the deferred volumeLocks.Release.
ReturnLocked(h, b) == Return(h, b) /\ locks' = locks \ {path[h]}
Continue(h, step) == Goto(h, step) /\ UNCHANGED locks

\* The kubelet calls: one call at a time for a path, but for those it gave up on.
Call(h, step, p) ==
    /\ pc[h] = "idle"
    /\ \A g \in Handlers : path[g] = p => gaveUp[g]
    /\ pc' = [pc EXCEPT ![h] = step]
    /\ path' = [path EXCEPT ![h] = p]
    /\ belief' = [belief EXCEPT ![p] = "unknown"]
    /\ UNCHANGED <<locks, gaveUp, mounts, late, dead, prepared, pods, mishaps>>

Wanted == {t \in Targets : pods[t] = "here"}

-----------------------------------------------------------------------------
(* NodeStageVolume *)

\* The kubelet makes the directory and asks to stage the volume for a pod.
NodeStageVolume(h) ==
    /\ Mode # "inline" /\ Wanted # {} /\ belief[Staging] # "yes"
    /\ Call(h, "stage", Staging)
    /\ dir' = [dir EXCEPT ![Staging] = TRUE]

\* Mutant: the lock is on the volume ID alone.
StageLocksVolume(h) ==
    /\ pc[h] = "stage" /\ None \notin locks
    /\ Goto(h, "ensure") /\ locks' = locks \cup {None}
    /\ UNCHANGED <<node, pods, mishaps>>

\* TryAcquire; a workload identity volume has no token yet and is not staged.
StageLock(h) ==
    /\ pc[h] = "stage"
    /\ \/ /\ path[h] \in locks
          /\ Return(h, "unknown") /\ UNCHANGED locks
       \/ /\ path[h] \notin locks /\ Mode = "workload" /\ path[h] = Staging
          /\ Return(h, "yes") /\ UNCHANGED locks
       \/ /\ path[h] \notin locks /\ ~(Mode = "workload" /\ path[h] = Staging)
          /\ Goto(h, "ensure")
          /\ locks' = locks \cup {path[h]}
    /\ UNCHANGED <<node, pods, mishaps>>

\* Mutant: what is mounted is unmounted, broken or not.
StageUnmountsAny(h) ==
    LET p == path[h] IN
    /\ pc[h] = "ensure"
    /\ \/ Mounted(p) /\ Continue(h, "unmountStale") /\ UNCHANGED dir
       \/ ~Mounted(p) /\ dir' = [dir EXCEPT ![p] = TRUE] /\ Continue(h, "auth")
    /\ UNCHANGED <<mounts, late, dead, prepared, pods, mishaps>>

\* ensureMountPoint with shouldUnmount: a healthy mount is kept, a broken one is
\* to be unmounted, and otherwise the directory is made.
StageEnsure(h) ==
    LET p == path[h] IN
    /\ pc[h] = "ensure"
    /\ \/ Healthy(p) /\ Continue(h, "authMounted") /\ UNCHANGED <<dir, mishaps>>
       \/ Broken(p) /\ Continue(h, "unmountStale") /\ UNCHANGED <<dir, mishaps>>
       \/ /\ ~Mounted(p)
          /\ dir' = [dir EXCEPT ![p] = TRUE]
          /\ Continue(h, "auth") /\ UNCHANGED mishaps
       \/ /\ ~Mounted(p) /\ Mishap("mkdirFails")
          /\ ReturnLocked(h, "unknown") /\ UNCHANGED dir
    /\ UNCHANGED <<mounts, late, dead, prepared, pods>>

\* The stale mount is unmounted; ensureMountPoint then returns the error of the
\* probe, so the call fails whether or not the unmount succeeded.
StageUnmountStale(h) ==
    /\ pc[h] = "unmountStale"
    /\ \/ Mounted(path[h]) /\ Unmount(path[h]) /\ UNCHANGED mishaps
       \/ ~Mounted(path[h]) /\ UNCHANGED <<mounts, mishaps>>
       \/ Mishap("busy") /\ UNCHANGED mounts
    /\ ReturnLocked(h, "unknown")
    /\ UNCHANGED <<dir, late, dead, prepared, pods>>

\* NFS needs no key.  Otherwise a key vault, a secret or the account is asked for one,
\* or the token is written to its file, which may fail.
AuthEnvFails == Protocol # "nfs" /\ Mishap("authFails")

\* GetAuthEnv; its error is ignored when the path was found mounted.
GetAuthEnv(h) ==
    /\ \/ pc[h] = "authMounted" /\ ReturnLocked(h, "yes") /\ UNCHANGED mishaps
       \/ pc[h] = "auth" /\ Continue(h, "mount") /\ UNCHANGED mishaps
       \/ pc[h] = "auth" /\ AuthEnvFails /\ ReturnLocked(h, "unknown")
    /\ UNCHANGED <<node, pods>>

\* Mutant: the timeout function returns no error.
MountIgnoresTimeout(h) ==
    LET p == path[h] IN
    /\ pc[h] = "mount" /\ Protocol = "nfs"
    /\ \/ Land(p) /\ UNCHANGED <<late, mishaps>>
       \/ /\ Mishap("mountSlow") /\ late[p] < MaxLate
          /\ late' = [late EXCEPT ![p] = @ + 1] /\ UNCHANGED <<mounts, dead>>
    /\ Continue(h, "setup")
    /\ UNCHANGED <<dir, prepared, pods>>

\* MountSensitive under WaitUntilTimeout: it lands, fails, or is left behind.
MountNFS(h) ==
    LET p == path[h] IN
    /\ pc[h] = "mount" /\ Protocol = "nfs"
    /\ \/ Land(p) /\ Continue(h, "setup") /\ UNCHANGED <<late, mishaps>>
       \/ /\ ~dir[p] \/ Mounted(p)
          /\ ReturnLocked(h, "unknown") /\ UNCHANGED <<mounts, late, dead, mishaps>>
       \/ /\ Mishap("mountFails")
          /\ ReturnLocked(h, "unknown") /\ UNCHANGED <<mounts, late, dead>>
       \/ /\ Mishap("mountSlow") /\ late[p] < MaxLate
          /\ late' = [late EXCEPT ![p] = @ + 1]
          /\ ReturnLocked(h, "unknown") /\ UNCHANGED <<mounts, dead>>
    /\ UNCHANGED <<dir, prepared, pods>>

\* The root of what is mounted gets its mode (and SetVolumeOwnership its group);
\* without a mount it is the directory of the node that does.
chmodIfPermissionMismatch(p) == prepared' = (prepared \/ Mounted(p))

\* A failure of the two leaves the mount.
SetupNFS(h) ==
    LET p == path[h] IN
    /\ pc[h] = "setup"
    /\ \/ /\ dir[p] /\ ReturnLocked(h, "yes")
          /\ chmodIfPermissionMismatch(p) /\ UNCHANGED mishaps
       \/ ~dir[p] /\ ReturnLocked(h, "unknown") /\ UNCHANGED <<prepared, mishaps>>
       \/ Mishap("setupFails") /\ ReturnLocked(h, "unknown") /\ UNCHANGED prepared
    /\ UNCHANGED <<dir, mounts, late, dead, pods>>

\* MountAzureBlob in the proxy does not look at the context of its caller, and
\* blobfuse daemonizes: the command goes on without the call.
MountAzureBlob(p) ==
    /\ late[p] < MaxLate /\ late' = [late EXCEPT ![p] = @ + 1]
    /\ UNCHANGED <<mounts, dead>>

\* mountBlobfuseWithProxy or mountBlobfuseInsideDriver.  The command may succeed
\* before the mount is there, fail although it is or will be, and go on in the
\* proxy after the caller's context is done.
MountBlobfuse(h) ==
    LET p == path[h] IN
    /\ pc[h] = "mount" /\ Protocol = "fuse"
    /\ \/ Land(p) /\ Continue(h, "wait") /\ UNCHANGED <<late, mishaps>>
       \/ Mishap("mountSlow") /\ MountAzureBlob(p) /\ Continue(h, "wait")
       \/ /\ ~dir[p]
          /\ Continue(h, "mountError") /\ UNCHANGED <<mounts, dead, late, mishaps>>
       \/ Mishap("mountFails") /\ Continue(h, "mountError") /\ UNCHANGED <<mounts, dead, late>>
       \/ Mishap("mountFails") /\ Land(p) /\ Continue(h, "mountError") /\ UNCHANGED late
       \/ /\ UseProxy /\ gaveUp[h] /\ MountAzureBlob(p)
          /\ Continue(h, "mountError") /\ UNCHANGED mishaps
    /\ UNCHANGED <<dir, prepared, pods>>

\* Mutant: the call does not wait for the mount.
NoWaitForMount(h) ==
    /\ pc[h] = "wait" /\ ReturnLocked(h, "yes")
    /\ UNCHANGED <<node, pods, mishaps>>

\* waitForMount: until the path is a mount point, its check fails, or time is up.
WaitForMount(h) ==
    /\ pc[h] = "wait"
    /\ ReturnLocked(h, IF Healthy(path[h]) THEN "yes" ELSE "unknown")
    /\ UNCHANGED <<node, pods, mishaps>>

\* After a failed mount command: unmount what is there, unless its check fails.
CleanupFailedMount(h) ==
    LET p == path[h] IN
    /\ pc[h] = "mountError"
    /\ \/ (~dir[p] \/ Broken(p)) /\ ReturnLocked(h, "unknown") /\ UNCHANGED <<mounts, mishaps>>
       \/ /\ dir[p] /\ ~Mounted(p)
          /\ Continue(h, "mountErrorRemove") /\ UNCHANGED <<mounts, mishaps>>
       \/ /\ Healthy(p) /\ Unmount(p) /\ UNCHANGED mishaps
          /\ IF Len(mounts[p]) = 1 THEN Continue(h, "mountErrorRemove") ELSE ReturnLocked(h, "unknown")
       \/ Healthy(p) /\ Mishap("busy") /\ ReturnLocked(h, "unknown") /\ UNCHANGED mounts
    /\ UNCHANGED <<dir, late, dead, prepared, pods>>

\* os.Remove, whose error is ignored: a mount point is not removed.
RemoveAfterFailedMount(h) ==
    /\ pc[h] = "mountErrorRemove"
    /\ dir' = [dir EXCEPT ![path[h]] = Mounted(path[h])]
    /\ ReturnLocked(h, "unknown")
    /\ UNCHANGED <<mounts, late, dead, prepared, pods, mishaps>>

-----------------------------------------------------------------------------
(* NodePublishVolume *)

\* First call for a pod, or a republish.
NodePublishVolume(h, t) ==
    /\ t \in Wanted /\ (Mode # "inline" => belief[Staging] = "yes")
    /\ Call(h, "publish", t) /\ UNCHANGED dir

\* Mutant: the health of the mount is not looked at.
SkipUnprobed(t) == ~WIToken /\ Mounted(t)

\* A mounted and healthy target without a token to refresh is left alone.
canSkipRepublishNodeStage(t) == ~WIToken /\ Healthy(t)

\* An inline or workload identity volume is staged on the target itself.  For the
\* others ensureMountPoint (without shouldUnmount) asks the mount table only.
PublishEnsure(h) ==
    LET t == path[h] IN
    /\ pc[h] = "publish"
    /\ \/ /\ Mode # "staged" /\ canSkipRepublishNodeStage(t)
          /\ Return(h, "yes") /\ UNCHANGED <<dir, mishaps>>
       \/ /\ Mode # "staged" /\ ~canSkipRepublishNodeStage(t)
          /\ Goto(h, "stage") /\ UNCHANGED <<dir, mishaps>>
       \/ Mode = "staged" /\ Mounted(t) /\ Return(h, "yes") /\ UNCHANGED <<dir, mishaps>>
       \/ /\ Mode = "staged" /\ ~Mounted(t)
          /\ dir' = [dir EXCEPT ![t] = TRUE] /\ Goto(h, "bind") /\ UNCHANGED mishaps
       \/ /\ Mode = "staged" /\ ~Mounted(t) /\ Mishap("mkdirFails")
          /\ Return(h, "unknown") /\ UNCHANGED dir
    /\ UNCHANGED <<locks, mounts, late, dead, prepared, pods>>

\* mount --bind; when it fails the target is removed.
BindMount(h) ==
    LET t == path[h] IN
    /\ pc[h] = "bind"
    /\ \/ /\ dir[t] /\ dir[Staging] /\ Len(mounts[t]) < MaxDepth
          /\ Push(t, IF Mounted(Staging) THEN Top(Staging) ELSE Bare)
          /\ Return(h, "yes") /\ UNCHANGED <<dir, mishaps>>
       \/ /\ \/ (~dir[t] \/ ~dir[Staging] \/ Broken(Staging)) /\ UNCHANGED mishaps
             \/ Mishap("mountFails")
          /\ dir' = [dir EXCEPT ![t] = Mounted(t)]
          /\ Return(h, "unknown") /\ UNCHANGED mounts
    /\ UNCHANGED <<locks, late, dead, prepared, pods>>

-----------------------------------------------------------------------------
(* NodeUnpublishVolume and NodeUnstageVolume *)

NodeUnpublishVolume(h, t) ==
    /\ pods[t] = "gone" /\ belief[t] # "no"
    /\ Call(h, "unmount", t) /\ UNCHANGED dir

NodeUnstageVolume(h) ==
    /\ Mode # "inline" /\ Wanted = {} /\ belief[Staging] # "no"
    /\ \A t \in Targets : belief[t] = "no"
    /\ Call(h, "unstage", Staging) /\ UNCHANGED dir

\* Mutant: no lock is asked for.
UnstageUnlocked(h) ==
    /\ pc[h] = "unstage" /\ Goto(h, "unstageUnmount")
    /\ UNCHANGED <<locks, node, pods, mishaps>>

UnstageLock(h) ==
    /\ pc[h] = "unstage"
    /\ \/ path[h] \in locks /\ Return(h, "unknown") /\ UNCHANGED locks
       \/ path[h] \notin locks /\ Goto(h, "unstageUnmount") /\ locks' = locks \cup {path[h]}
    /\ UNCHANGED <<node, pods, mishaps>>

\* NodeUnpublishVolume holds no lock; NodeUnstageVolume releases its own.
AnswerUnmount(h, b) ==
    /\ Return(h, b)
    /\ locks' = IF pc[h] \in {"unmount", "remove"} THEN locks ELSE locks \ {path[h]}

\* CleanupMountPoint, first half: a path that is not there is done with; what is
\* mounted, broken or not, is unmounted once.
CleanupMountPoint(h, next) ==
    LET p == path[h] IN
    /\ \/ ~dir[p] /\ AnswerUnmount(h, "no") /\ UNCHANGED <<mounts, mishaps>>
       \/ dir[p] /\ ~Mounted(p) /\ Continue(h, next) /\ UNCHANGED <<mounts, mishaps>>
       \/ Mounted(p) /\ Unmount(p) /\ Continue(h, next) /\ UNCHANGED mishaps
       \/ Mounted(p) /\ Mishap("busy") /\ AnswerUnmount(h, "unknown") /\ UNCHANGED mounts
    /\ UNCHANGED <<dir, late, dead, prepared, pods>>

\* Second half: the directory is removed unless something is still mounted there.
RemovePath(h) ==
    /\ dir' = [dir EXCEPT ![path[h]] = Mounted(path[h])]
    /\ AnswerUnmount(h, IF Mounted(path[h]) THEN "unknown" ELSE "no")
    /\ UNCHANGED <<mounts, late, dead, prepared, pods, mishaps>>

\* Mutants: the path is not unmounted, a broken mount is an error, and the
\* directory is left in place.
UnpublishSkipsUnmount(h) ==
    /\ pc[h] = "unmount" /\ Continue(h, "remove")
    /\ UNCHANGED <<node, pods, mishaps>>
UnpublishRefusesBroken(h) ==
    /\ pc[h] = "unmount"
    /\ IF Broken(path[h])
       THEN AnswerUnmount(h, "unknown") /\ UNCHANGED <<node, pods, mishaps>>
       ELSE CleanupMountPoint(h, "remove")
UnpublishKeepsDirectory(h) ==
    /\ pc[h] = "remove"
    /\ AnswerUnmount(h, IF Mounted(path[h]) THEN "unknown" ELSE "no")
    /\ UNCHANGED <<node, pods, mishaps>>

\* The two calls.
UnpublishUnmount(h) == pc[h] = "unmount" /\ CleanupMountPoint(h, "remove")
UnpublishRemove(h) == pc[h] = "remove" /\ RemovePath(h)
UnstageUnmount(h) == pc[h] = "unstageUnmount" /\ CleanupMountPoint(h, "unstageRemove")
UnstageRemove(h) == pc[h] = "unstageRemove" /\ RemovePath(h)

-----------------------------------------------------------------------------
(* Environment *)

PodComes(t) ==
    /\ pods[t] = "coming"
    /\ pods' = [pods EXCEPT ![t] = "here"]
    /\ UNCHANGED <<locks, handlers, node, belief, mishaps>>

PodGoes(t) ==
    /\ pods[t] = "here"
    /\ pods' = [pods EXCEPT ![t] = "gone"]
    /\ UNCHANGED <<locks, handlers, node, belief, mishaps>>

\* The kubelet gives up on a call after minutes, and restarts in seconds: by then
\* a handler has passed the steps that wait for nothing.
Prompt == {"publish", "stage", "ensure", "unstage"}

CallerGivesUp(h) ==
    /\ pc[h] \notin Prompt \cup {"idle"} /\ ~gaveUp[h]
    /\ Mishap("callerGivesUp")
    /\ gaveUp' = [gaveUp EXCEPT ![h] = TRUE]
    /\ UNCHANGED <<locks, pc, path, node, pods, belief>>

LateMountLands(p) ==
    /\ late[p] > 0 /\ Land(p)
    /\ late' = [late EXCEPT ![p] = @ - 1]
    /\ UNCHANGED <<locks, handlers, dir, prepared, pods, belief, mishaps>>

LateMountFails(p) ==
    /\ late[p] > 0
    /\ late' = [late EXCEPT ![p] = @ - 1]
    /\ UNCHANGED <<locks, handlers, dir, mounts, dead, prepared, pods, belief, mishaps>>

FuseDies(f) ==
    /\ Protocol = "fuse" /\ f \in InUse \ (dead \cup {Bare})
    /\ Mishap("fuseDies")
    /\ dead' = dead \cup {f}
    /\ UNCHANGED <<locks, handlers, dir, mounts, late, prepared, pods, belief>>

\* The driver restarts: its calls end without an answer, and without the proxy
\* blobfuse dies with it.  A mount command under way may still land.
DriverRestarts ==
    /\ Mishap("driverRestarts")
    /\ locks' = {}
    /\ pc' = [h \in Handlers |-> "idle"]
    /\ path' = [h \in Handlers |-> None]
    /\ gaveUp' = [h \in Handlers |-> FALSE]
    /\ IF Protocol = "fuse" /\ ~UseProxy
       THEN late' = [p \in Paths |-> 0] /\ dead' = InUse \ {Bare}
       ELSE /\ late' = [p \in Paths |->
                        IF late[p] < MaxLate /\ \E h \in Handlers : pc[h] = "mount" /\ path[h] = p
                        THEN late[p] + 1 ELSE late[p]]
            /\ UNCHANGED dead
    /\ UNCHANGED <<dir, mounts, prepared, pods, belief>>

\* The kubelet restarts: it no longer waits for its calls nor knows what it staged.
KubeletRestarts ==
    /\ Mishap("kubeletRestarts")
    /\ \A h \in Handlers : pc[h] \notin Prompt
    /\ gaveUp' = [h \in Handlers |-> pc[h] # "idle"]
    /\ belief' = [p \in Paths |-> IF belief[p] = "yes" THEN "unknown" ELSE belief[p]]
    /\ UNCHANGED <<locks, pc, path, node, pods>>

-----------------------------------------------------------------------------
Step(h) ==
    \/ StageLock(h) \/ StageEnsure(h) \/ StageUnmountStale(h) \/ GetAuthEnv(h)
    \/ MountNFS(h) \/ SetupNFS(h) \/ MountBlobfuse(h) \/ WaitForMount(h)
    \/ CleanupFailedMount(h) \/ RemoveAfterFailedMount(h)
    \/ PublishEnsure(h) \/ BindMount(h)
    \/ UnpublishUnmount(h) \/ UnpublishRemove(h)
    \/ UnstageLock(h) \/ UnstageUnmount(h) \/ UnstageRemove(h)

Next ==
    \/ \E h \in Handlers : Step(h) \/ NodeStageVolume(h) \/ NodeUnstageVolume(h) \/ CallerGivesUp(h)
    \/ \E h \in Handlers, t \in Targets : NodePublishVolume(h, t) \/ NodeUnpublishVolume(h, t)
    \/ \E t \in Targets : PodComes(t) \/ PodGoes(t)
    \/ \E p \in Paths : LateMountLands(p) \/ LateMountFails(p)
    \/ \E f \in Fs : FuseDies(f)
    \/ DriverRestarts \/ KubeletRestarts

Spec == Init /\ [][Next]_vars

\* Handlers are scheduled, and the kubelet repeats a call until it succeeds; what
\* goes wrong is bounded by MaxMishaps.
Fairness ==
    /\ \A h \in Handlers : WF_vars(Step(h))
    /\ SF_vars(\E h \in Handlers : NodeStageVolume(h))
    /\ SF_vars(\E h \in Handlers : NodeUnstageVolume(h))
    /\ \A t \in Targets : /\ SF_vars(\E h \in Handlers : NodePublishVolume(h, t))
                          /\ SF_vars(\E h \in Handlers : NodeUnpublishVolume(h, t))
    /\ \A p \in Paths : WF_vars(LateMountLands(p) \/ LateMountFails(p))

FairSpec == Spec /\ Fairness

-----------------------------------------------------------------------------
(* Properties *)

\* Locks, handlers, directories, mounts and the kubelet's view have their types.
TypeOK ==
    /\ locks \subseteq Paths
    /\ pc \in [Handlers -> Steps]
    /\ path \in [Handlers -> Paths \cup {None}]
    /\ gaveUp \in [Handlers -> BOOLEAN]
    /\ dir \in [Paths -> BOOLEAN]
    /\ mounts \in [Paths -> Seq(Fs \cup {Bare})]
    /\ late \in [Paths -> 0..MaxLate]
    /\ dead \subseteq Fs
    /\ prepared \in BOOLEAN
    /\ pods \in [Targets -> {"coming", "here", "gone"}]
    /\ belief \in [Paths -> {"no", "unknown", "yes"}]
    /\ mishaps \in 0..MaxMishaps

\* What the kubelet was told is unmounted stays unmounted: once NodeUnpublishVolume
\* or NodeUnstageVolume answered OK, neither an abandoned call that still runs nor
\* a mount command left behind mounts anything there until the next call.
UnmountIsFinal == \A p \in Paths : belief[p] = "no" => mounts[p] = <<>>

\* Why it holds: a call the kubelet waits for is alone on its path, which counts as
\* unknown meanwhile; only such a call makes a directory; without a directory
\* nothing is mounted, and "no" is answered for a directory that is gone.
CallsInOrder ==
    \A h \in Handlers :
        /\ pc[h] = "idle" <=> path[h] = None
        /\ pc[h] \in Prompt \cup {"idle"} => ~gaveUp[h]
        /\ pc[h] # "idle" /\ ~gaveUp[h] =>
              /\ belief[path[h]] = "unknown"
              /\ \A g \in Handlers : path[g] = path[h] /\ ~gaveUp[g] => g = h
DirectoryFirst ==
    \A p \in Paths : /\ ~dir[p] => mounts[p] = <<>>
                     /\ belief[p] = "no" => ~dir[p]

\* What the kubelet was told is mounted is mounted: no abandoned NodeUnstageVolume,
\* NodeStageVolume cleanup or bind undoes an answer given later.
MountedWhenTold ==
    \A p \in Paths :
        belief[p] = "yes" /\ ~(Mode = "workload" /\ p = Staging) => Mounted(p)

\* A pod whose volume is published never has the empty staging directory of the
\* node in place of the volume.
NeverBare == \A t \in Targets : belief[t] = "yes" => Bare \notin {mounts[t][i] : i \in 1..Len(mounts[t])}

\* A volume reported as staged has its permissions and its owner set.
PreparedWhenStaged == Protocol = "nfs" /\ belief[Staging] = "yes" => prepared

\* What the kubelet sees of the volume.
MountedPaths == {p \in Paths : Mounted(p)}
Contract == INSTANCE MountContract WITH told <- belief, mounted <- MountedPaths

\* The node service keeps the contract of a staged volume, for the kubelet that
\* remembers what it was told: overlapping calls, calls it gave up on and mount
\* commands that land late change no path it was told of, and NodeUnstageVolume
\* and the cleanups of NodeStageVolume never unmount the staging path under a pod.
KeepsContract == Contract!Spec

\* A pod gets a volume that works, for as long as it stays.
PodServed ==
    \A t \in Targets :
        pods[t] = "here" ~> (pods[t] = "gone" \/ (belief[t] = "yes" /\ Healthy(t)))

\* Repeated NodeUnpublishVolume and NodeUnstageVolume calls succeed in the end.
Unpublished == \A t \in Targets : pods[t] = "gone" ~> belief[t] = "no"
Unstaged == (\A t \in Targets : pods[t] = "gone") ~> belief[Staging] = "no"
=============================================================================
