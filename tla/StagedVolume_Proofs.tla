------------------------- MODULE StagedVolume_Proofs -------------------------
(***************************************************************************)
(* Proofs about NodeServer for a volume that is staged once and bound for  *)
(* every pod: what the kubelet was told is mounted is mounted, and no pod  *)
(* gets the bare staging directory.  The lock of the staging path carries  *)
(* the first, the order of the kubelet's calls the second.  Together they  *)
(* make every step one that MountContract allows.                          *)
(***************************************************************************)
EXTENDS NodeServer_Proofs

\* Steps on a target, and steps that hold the lock of the staging path.
TargetSteps == {"publish", "bind", "unmount", "remove"}
Locked == {"ensure", "unmountStale", "authMounted", "auth", "mount", "setup", "wait",
           "mountError", "mountErrorRemove", "unstageUnmount", "unstageRemove"}

\* Steps that may unmount something, and steps that know their path is mounted.
Unmounting == {"unmountStale", "mountError", "unstageUnmount", "unmount"}
Found == {"authMounted", "setup"}

CallPaths ==
    \A h \in Handlers :
        /\ pc[h] \in TargetSteps => path[h] \in Targets
        /\ pc[h] \in {"stage", "unstage"} \cup Locked => path[h] = Staging

\* Who has the lock has it alone, and the kubelet was not told that the volume is staged.
LockHeld ==
    \A h \in Handlers : pc[h] \in Locked =>
        /\ path[h] \in locks
        /\ belief[path[h]] # "yes"
        /\ \A g \in Handlers : pc[g] \in Locked => g = h

FoundMounted == \A h \in Handlers : pc[h] \in Found => Mounted(path[h])

\* A target is unpublished after its last NodePublishVolume that anyone waits for.
UnpublishLast ==
    \A h \in Handlers : pc[h] \in {"unmount", "remove"} =>
        /\ pods[path[h]] = "gone"
        /\ belief[path[h]] # "yes"
        /\ \A g \in Handlers : path[g] = path[h] /\ ~gaveUp[g] => pc[g] \in {"unmount", "remove"}

CallsApart == CallPaths /\ LockHeld /\ UnpublishLast
StagedInv == Inv /\ CallsApart /\ FoundMounted /\ MountedWhenTold
-----------------------------------------------------------------------------
(* What a step of a handler can be *)

\* It returns b; "yes" only where something is mounted, and never for a call that
\* only looked at the lock or that unmounts.
Answers(h, b) ==
    /\ Return(h, b)
    /\ locks' = IF pc[h] \in Locked THEN locks \ {path[h]} ELSE locks
    /\ b = "yes" => pc[h] \notin {"stage", "unstage", "unmount", "remove"} /\ mounts'[path[h]] # <<>>

\* It goes on to s, with the lock if s needs it.
Moves(h, s) ==
    /\ Goto(h, s)
    /\ \/ /\ pc[h] \in {"stage", "unstage"} /\ s \in Locked \ Found
          /\ path[h] \notin locks /\ locks' = locks \cup {path[h]}
       \/ pc[h] \in Locked /\ s \in Locked /\ UNCHANGED locks
       \/ pc[h] = "publish" /\ s = "bind" /\ UNCHANGED locks
       \/ pc[h] = "unmount" /\ s = "remove" /\ UNCHANGED locks
    /\ s \in Found => mounts'[path[h]] # <<>>

\* What is mounted stays mounted but for one mount of an unmounting step.
Keeps(h) ==
    \A p \in Paths : Mounted(p) => mounts'[p] # <<>> \/ (p = path[h] /\ pc[h] \in Unmounting)

Shape(h) ==
    /\ pc[h] # "idle" /\ UNCHANGED pods
    /\ Keeps(h)
    /\ \/ \E b \in Belief : Answers(h, b)
       \/ \E s \in Steps : Moves(h, s)

\* A mount on a path adds to what is there.
LEMMA PushMounts ==
    ASSUME TypeOK, NEW p \in Paths, NEW f \in Fs \cup {Bare}, Push(p, f)
    PROVE  mounts'[p] # <<>> /\ \A q \in Paths : Mounted(q) => mounts'[q] # <<>>
<1>1. mounts[p] \in Seq(Fs \cup {Bare})
  BY DEF TypeOK
<1>2. Append(mounts[p], f) # <<>>
  BY <1>1, AppendProperties, EmptySeq, LenProperties
<1> QED
  BY <1>2 DEF Push, TypeOK, Mounted

\* So does a mount command that lands.
LEMMA LandMounts ==
    ASSUME TypeOK, NEW p \in Paths, Land(p)
    PROVE  mounts'[p] # <<>> /\ \A q \in Paths : Mounted(q) => mounts'[q] # <<>>
  BY PushMounts DEF Land

\* One mount less on one path.
LEMMA UnmountKeeps ==
    ASSUME TypeOK, NEW h \in Handlers, path[h] \in Paths, pc[h] \in Unmounting,
           Unmount(path[h]) \/ UNCHANGED mounts
    PROVE  Keeps(h)
  BY DEF Unmount, Keeps, Mounted, TypeOK

\* A step that mounts nothing and unmounts nothing.
LEMMA SameMountsKeep ==
    ASSUME UNCHANGED mounts, NEW h
    PROVE  Keeps(h)
  BY DEF Keeps, Mounted

\* The locked steps return with the lock given back.
LEMMA LockedAnswer ==
    ASSUME NEW h \in Handlers, pc[h] \in Locked, NEW b \in Belief,
           ReturnLocked(h, b), b = "yes" => mounts'[path[h]] # <<>>
    PROVE  \E c \in Belief : Answers(h, c)
<1>1. Answers(h, b)
  BY DEF Answers, ReturnLocked, Locked
<1> QED
  BY <1>1

\* The locked steps go on with the lock kept.
LEMMA LockedMove ==
    ASSUME NEW h \in Handlers, pc[h] \in Locked, NEW s \in Locked,
           Continue(h, s), s \in Found => mounts'[path[h]] # <<>>
    PROVE  \E r \in Steps : Moves(h, r)
<1>1. Moves(h, s)
  BY DEF Moves, Continue
<1>2. s \in Steps
  BY DEF Locked, Steps
<1> QED
  BY <1>1, <1>2

\* NodeStageVolume, from the lock to the mount.
LEMMA StageShape ==
    ASSUME Mode = "staged", StagedInv, NEW h \in Handlers,
           StageLock(h) \/ StageEnsure(h) \/ StageUnmountStale(h) \/ GetAuthEnv(h)
    PROVE  Shape(h)
<1>0. TypeOK /\ CallsInOrder /\ path[h] \in Paths /\ pc[h] # "idle" /\ UNCHANGED pods
  BY Working DEF StagedInv, Inv, StageLock, StageEnsure, StageUnmountStale, GetAuthEnv
<1>1. CASE StageLock(h)
  <2>1. Keeps(h)
    BY <1>1, SameMountsKeep DEF StageLock, node
  <2>2. pc[h] = "stage" /\ pc[h] \notin Locked
    BY <1>1 DEF StageLock, Locked
  <2>3. CASE Return(h, "unknown") /\ UNCHANGED locks
    <3>1. Answers(h, "unknown") /\ "unknown" \in Belief
      BY <2>2, <2>3 DEF Answers, Belief
    <3> QED
      BY <1>0, <2>1, <3>1 DEF Shape
  <2>4. CASE path[h] \notin locks /\ Goto(h, "ensure") /\ locks' = locks \cup {path[h]}
    <3>1. Moves(h, "ensure") /\ "ensure" \in Steps
      BY <2>2, <2>4 DEF Moves, Locked, Found, Steps
    <3> QED
      BY <1>0, <2>1, <3>1 DEF Shape
  <2> QED
    BY <1>1, <2>3, <2>4 DEF StageLock
<1>2. CASE StageEnsure(h)
  <2>1. Keeps(h)
    BY <1>2, SameMountsKeep DEF StageEnsure
  <2>2. pc[h] \in Locked /\ mounts' = mounts
    BY <1>2 DEF StageEnsure, Locked
  <2>3. CASE \E s \in {"authMounted", "unmountStale", "auth"} : Continue(h, s) /\ (s = "authMounted" => Mounted(path[h]))
    <3>1. \E r \in Steps : Moves(h, r)
      BY <2>2, <2>3, LockedMove DEF Locked, Found, Mounted
    <3> QED
      BY <1>0, <2>1, <3>1 DEF Shape
  <2>4. CASE ReturnLocked(h, "unknown")
    <3>1. \E c \in Belief : Answers(h, c)
      BY <2>2, <2>4, LockedAnswer DEF Belief
    <3> QED
      BY <1>0, <2>1, <3>1 DEF Shape
  <2> QED
    BY <1>2, <2>3, <2>4 DEF StageEnsure, Healthy
<1>3. CASE StageUnmountStale(h)
  <2>1. pc[h] \in Locked /\ pc[h] \in Unmounting
    BY <1>3 DEF StageUnmountStale, Locked, Unmounting
  <2>2. Keeps(h)
    BY <1>0, <1>3, <2>1, UnmountKeeps DEF StageUnmountStale
  <2>3. \E c \in Belief : Answers(h, c)
    BY <1>3, <2>1, LockedAnswer DEF StageUnmountStale, Belief
  <2> QED
    BY <1>0, <2>2, <2>3 DEF Shape
<1>4. CASE GetAuthEnv(h)
  <2>1. Keeps(h)
    BY <1>4, SameMountsKeep DEF GetAuthEnv, node
  <2>2. mounts' = mounts /\ pc[h] \in Locked
    BY <1>4 DEF GetAuthEnv, node, Locked
  <2>3. CASE pc[h] = "authMounted" /\ ReturnLocked(h, "yes")
    <3>1. mounts'[path[h]] # <<>>
      BY <2>2, <2>3 DEF StagedInv, FoundMounted, Found, Mounted
    <3>2. \E c \in Belief : Answers(h, c)
      BY <2>2, <2>3, <3>1, LockedAnswer DEF Belief
    <3> QED
      BY <1>0, <2>1, <3>2 DEF Shape
  <2>4. CASE Continue(h, "mount")
    <3>1. \E r \in Steps : Moves(h, r)
      BY <2>2, <2>4, LockedMove DEF Locked, Found
    <3> QED
      BY <1>0, <2>1, <3>1 DEF Shape
  <2>5. CASE ReturnLocked(h, "unknown")
    <3>1. \E c \in Belief : Answers(h, c)
      BY <2>2, <2>5, LockedAnswer DEF Belief
    <3> QED
      BY <1>0, <2>1, <3>1 DEF Shape
  <2> QED
    BY <1>4, <2>3, <2>4, <2>5 DEF GetAuthEnv
<1> QED
  BY <1>1, <1>2, <1>3, <1>4

\* NodeStageVolume, the mount itself and what follows it.
LEMMA MountShape ==
    ASSUME StagedInv, NEW h \in Handlers,
           \/ MountNFS(h) \/ SetupNFS(h) \/ MountBlobfuse(h) \/ WaitForMount(h)
           \/ CleanupFailedMount(h) \/ RemoveAfterFailedMount(h)
    PROVE  Shape(h)
<1>0. TypeOK /\ CallsInOrder /\ path[h] \in Paths /\ pc[h] # "idle" /\ UNCHANGED pods
  BY Working DEF StagedInv, Inv, MountNFS, SetupNFS, MountBlobfuse, WaitForMount,
                 CleanupFailedMount, RemoveAfterFailedMount
<1>l. pc[h] \in Locked
  BY DEF Locked, MountNFS, SetupNFS, MountBlobfuse, WaitForMount,
         CleanupFailedMount, RemoveAfterFailedMount
<1>u. ASSUME ReturnLocked(h, "unknown") PROVE \E b \in Belief : Answers(h, b)
  BY <1>l, <1>u, LockedAnswer DEF Belief
<1>c. ASSUME NEW s \in {"wait", "mountError", "mountErrorRemove"}, Continue(h, s)
      PROVE  \E r \in Steps : Moves(h, r)
  BY <1>l, <1>c, LockedMove DEF Locked, Found
<1>1. CASE MountNFS(h)
  <2>1. CASE Land(path[h]) /\ Continue(h, "setup")
    <3>1. mounts'[path[h]] # <<>> /\ Keeps(h)
      BY <1>0, <2>1, LandMounts DEF Keeps
    <3>2. \E r \in Steps : Moves(h, r)
      BY <1>l, <2>1, <3>1, LockedMove DEF Locked
    <3> QED
      BY <1>0, <3>1, <3>2 DEF Shape
  <2>2. CASE ReturnLocked(h, "unknown") /\ UNCHANGED mounts
    BY <1>0, <1>u, <2>2, SameMountsKeep DEF Shape
  <2> QED
    BY <1>1, <2>1, <2>2 DEF MountNFS
<1>2. CASE SetupNFS(h)
  <2>1. mounts' = mounts /\ pc[h] = "setup" /\ (ReturnLocked(h, "yes") \/ ReturnLocked(h, "unknown"))
    BY <1>2 DEF SetupNFS
  <2>2. mounts'[path[h]] # <<>>
    BY <2>1 DEF StagedInv, FoundMounted, Found, Mounted
  <2>3. \E b \in Belief : Answers(h, b)
    BY <1>l, <2>1, <2>2, LockedAnswer DEF Belief
  <2> QED
    BY <1>0, <2>1, <2>3, SameMountsKeep DEF Shape
<1>3. CASE MountBlobfuse(h)
  <2>1. \E r \in Steps : Moves(h, r)
    BY <1>3, <1>c DEF MountBlobfuse
  <2>2. Land(path[h]) \/ UNCHANGED mounts
    BY <1>3 DEF MountBlobfuse, MountAzureBlob
  <2>3. Keeps(h)
    BY <1>0, <2>2, LandMounts, SameMountsKeep DEF Keeps
  <2> QED
    BY <1>0, <2>1, <2>3 DEF Shape
<1>4. CASE WaitForMount(h)
  <2>1. mounts' = mounts /\ ReturnLocked(h, IF Healthy(path[h]) THEN "yes" ELSE "unknown")
    BY <1>4 DEF WaitForMount, node
  <2>2. \E b \in Belief : Answers(h, b)
    BY <1>l, <2>1, LockedAnswer DEF Belief, Healthy, Mounted
  <2> QED
    BY <1>0, <2>1, <2>2, SameMountsKeep DEF Shape
<1>5. CASE CleanupFailedMount(h)
  <2>1. pc[h] \in Unmounting /\ (Unmount(path[h]) \/ UNCHANGED mounts)
    BY <1>5 DEF CleanupFailedMount, Unmounting
  <2>2. Keeps(h)
    BY <1>0, <2>1, UnmountKeeps
  <2>3. ReturnLocked(h, "unknown") \/ Continue(h, "mountErrorRemove")
    BY <1>5 DEF CleanupFailedMount
  <2> QED
    BY <1>0, <1>u, <1>c, <2>2, <2>3 DEF Shape
<1>6. CASE RemoveAfterFailedMount(h)
  <2>1. mounts' = mounts /\ ReturnLocked(h, "unknown")
    BY <1>6 DEF RemoveAfterFailedMount
  <2> QED
    BY <1>0, <1>u, <2>1, SameMountsKeep DEF Shape
<1> QED
  BY <1>1, <1>2, <1>3, <1>4, <1>5, <1>6

\* NodePublishVolume.
LEMMA PublishShape ==
    ASSUME Mode = "staged", StagedInv, NEW h \in Handlers, PublishEnsure(h) \/ BindMount(h)
    PROVE  Shape(h)
<1>0. TypeOK /\ CallsInOrder /\ path[h] \in Paths /\ pc[h] # "idle" /\ UNCHANGED <<locks, pods>>
  BY Working DEF StagedInv, Inv, PublishEnsure, BindMount
<1>l. pc[h] \in {"publish", "bind"} /\ pc[h] \notin Locked
  BY DEF PublishEnsure, BindMount, Locked
<1>r. ASSUME NEW b \in {"yes", "unknown"}, Return(h, b), b = "yes" => mounts'[path[h]] # <<>>
      PROVE  \E c \in Belief : Answers(h, c)
  <2>1. Answers(h, b) /\ b \in Belief
    BY <1>0, <1>l, <1>r DEF Answers, Belief
  <2> QED
    BY <2>1
<1>1. CASE PublishEnsure(h)
  <2>1. mounts' = mounts /\ pc[h] = "publish"
    BY <1>1 DEF PublishEnsure
  <2>2. Keeps(h)
    BY <2>1, SameMountsKeep
  <2>3. CASE Mounted(path[h]) /\ Return(h, "yes")
    BY <1>0, <1>r, <2>1, <2>2, <2>3 DEF Shape, Mounted
  <2>4. CASE Return(h, "unknown")
    BY <1>0, <1>r, <2>2, <2>4 DEF Shape
  <2>5. CASE Goto(h, "bind")
    <3>1. Moves(h, "bind") /\ "bind" \in Steps
      BY <1>0, <2>1, <2>5 DEF Moves, Steps, Found
    <3> QED
      BY <1>0, <2>2, <3>1 DEF Shape
  <2> QED
    BY <1>1, <2>3, <2>4, <2>5 DEF PublishEnsure
<1>2. CASE BindMount(h)
  <2>1. ASSUME NEW f \in Fs \cup {Bare}, Push(path[h], f), Return(h, "yes") PROVE Shape(h)
    <3>1. mounts'[path[h]] # <<>> /\ Keeps(h)
      BY <1>0, <2>1, PushMounts DEF Keeps
    <3> QED
      BY <1>0, <1>r, <2>1, <3>1 DEF Shape
  <2>2. CASE Return(h, "unknown") /\ UNCHANGED mounts
    BY <1>0, <1>r, <2>2, SameMountsKeep DEF Shape
  <2>3. Mounted(Staging) => Top(Staging) \in Fs \cup {Bare}
    BY <1>0, MountsType DEF Paths
  <2> QED
    BY <1>2, <2>1, <2>2, <2>3 DEF BindMount
<1> QED
  BY <1>1, <1>2

\* NodeUnpublishVolume and NodeUnstageVolume.
LEMMA UndoShape ==
    ASSUME StagedInv, NEW h \in Handlers,
           \/ UnpublishUnmount(h) \/ UnpublishRemove(h)
           \/ UnstageLock(h) \/ UnstageUnmount(h) \/ UnstageRemove(h)
    PROVE  Shape(h)
<1>0. TypeOK /\ CallsInOrder /\ path[h] \in Paths /\ pc[h] # "idle" /\ UNCHANGED pods
  BY Working DEF StagedInv, Inv, UnpublishUnmount, UnpublishRemove, UnstageLock, UnstageUnmount,
                 UnstageRemove, CleanupMountPoint, RemovePath
<1>a. ASSUME NEW b \in {"no", "unknown"}, AnswerUnmount(h, b),
             pc[h] \in {"unmount", "remove", "unstageUnmount", "unstageRemove"}
      PROVE  \E c \in Belief : Answers(h, c)
  <2>1. Answers(h, b) /\ b \in Belief
    BY <1>a DEF Answers, AnswerUnmount, Locked, Belief
  <2> QED
    BY <2>1
<1>1. CASE UnstageLock(h)
  <2>1. Keeps(h)
    BY <1>1, SameMountsKeep DEF UnstageLock, node
  <2>2. pc[h] = "unstage" /\ pc[h] \notin Locked
    BY <1>1 DEF UnstageLock, Locked
  <2>3. CASE Return(h, "unknown") /\ UNCHANGED locks
    <3>1. Answers(h, "unknown") /\ "unknown" \in Belief
      BY <2>2, <2>3 DEF Answers, Belief
    <3> QED
      BY <1>0, <2>1, <3>1 DEF Shape
  <2>4. CASE path[h] \notin locks /\ Goto(h, "unstageUnmount") /\ locks' = locks \cup {path[h]}
    <3>1. Moves(h, "unstageUnmount") /\ "unstageUnmount" \in Steps
      BY <2>2, <2>4 DEF Moves, Locked, Found, Steps
    <3> QED
      BY <1>0, <2>1, <3>1 DEF Shape
  <2> QED
    BY <1>1, <2>3, <2>4 DEF UnstageLock
<1>2. CASE UnpublishUnmount(h) \/ UnstageUnmount(h)
  <2>1. pc[h] \in Unmounting /\ (Unmount(path[h]) \/ UNCHANGED mounts)
    BY <1>2 DEF UnpublishUnmount, UnstageUnmount, CleanupMountPoint, Unmounting
  <2>2. Keeps(h)
    BY <1>0, <2>1, UnmountKeeps
  <2>3. \/ \E b \in {"no", "unknown"} : AnswerUnmount(h, b)
        \/ pc[h] = "unmount" /\ Continue(h, "remove")
        \/ pc[h] = "unstageUnmount" /\ Continue(h, "unstageRemove")
    BY <1>2 DEF UnpublishUnmount, UnstageUnmount, CleanupMountPoint
  <2>4. CASE \E b \in {"no", "unknown"} : AnswerUnmount(h, b)
    <3>1. pc[h] \in {"unmount", "unstageUnmount"}
      BY <1>2 DEF UnpublishUnmount, UnstageUnmount
    <3> QED
      BY <1>0, <1>a, <2>2, <2>4, <3>1 DEF Shape
  <2>5. CASE pc[h] = "unmount" /\ Continue(h, "remove")
    <3>1. Moves(h, "remove") /\ "remove" \in Steps
      BY <2>5 DEF Moves, Continue, Found, Steps
    <3> QED
      BY <1>0, <2>2, <3>1 DEF Shape
  <2>6. CASE pc[h] = "unstageUnmount" /\ Continue(h, "unstageRemove")
    <3>1. Moves(h, "unstageRemove") /\ "unstageRemove" \in Steps
      BY <2>6 DEF Moves, Continue, Found, Locked, Steps
    <3> QED
      BY <1>0, <2>2, <3>1 DEF Shape
  <2> QED
    BY <2>3, <2>4, <2>5, <2>6
<1>3. CASE UnpublishRemove(h) \/ UnstageRemove(h)
  <2>1. mounts' = mounts /\ pc[h] \in {"remove", "unstageRemove"}
        /\ \E b \in {"no", "unknown"} : AnswerUnmount(h, b)
    BY <1>3 DEF UnpublishRemove, UnstageRemove, RemovePath
  <2> QED
    BY <1>0, <1>a, <2>1, SameMountsKeep DEF Shape
<1> QED
  BY <1>1, <1>2, <1>3

\* Every step of a handler has this shape.
LEMMA StepShape ==
    ASSUME Mode = "staged", StagedInv, NEW h \in Handlers, Step(h)
    PROVE  Shape(h)
  BY StageShape, MountShape, PublishShape, UndoShape DEF Step
-----------------------------------------------------------------------------
(* The calls stay apart *)

\* A handler returns.
LEMMA AnswerApart ==
    ASSUME StagedInv, NEW h \in Handlers, pc[h] # "idle", UNCHANGED pods,
           NEW b \in Belief, Answers(h, b)
    PROVE  CallsApart'
<1>0. TypeOK /\ CallsInOrder /\ path[h] \in Paths
  BY Working DEF StagedInv, Inv
<1>1. \A g \in Handlers : /\ pc'[g] = IF g = h THEN "idle" ELSE pc[g]
                          /\ path'[g] = IF g = h THEN None ELSE path[g]
                          /\ gaveUp'[g] = IF g = h THEN FALSE ELSE gaveUp[g]
  BY <1>0 DEF Answers, Return, TypeOK
<1>2. \A p \in Paths : belief'[p] = IF ~gaveUp[h] /\ p = path[h] THEN b ELSE belief[p]
  BY <1>0 DEF Answers, Return, TypeOK
<1>3. "idle" \notin Locked /\ "idle" \notin TargetSteps
  BY DEF Locked, TargetSteps
<1>4. CallPaths'
  BY <1>1, <1>3 DEF StagedInv, CallsApart, CallPaths
<1>5. LockHeld'
  <2> SUFFICES ASSUME NEW g \in Handlers, pc'[g] \in Locked
               PROVE  /\ path'[g] \in locks'
                      /\ belief'[path'[g]] # "yes"
                      /\ \A k \in Handlers : pc'[k] \in Locked => k = g
    BY DEF LockHeld
  <2>1. /\ g # h /\ pc[g] \in Locked /\ path'[g] = path[g] /\ path[g] = Staging /\ path[g] \in Paths
        /\ path[g] \in locks /\ belief[path[g]] # "yes"
        /\ \A k \in Handlers : pc[k] \in Locked => k = g
    BY <1>1, <1>3 DEF StagedInv, CallsApart, LockHeld, CallPaths, Paths
  <2>2. pc[h] \notin Locked
    BY <2>1
  <2>3. locks' = locks
    BY <2>2 DEF Answers
  <2>4. b = "yes" => path[h] # Staging
    <3>1. pc[h] \in {"stage", "unstage", "unmount", "remove"} \/ pc[h] \in {"publish", "bind"}
      BY <1>0, <2>2 DEF TypeOK, Steps, Locked
    <3>2. b = "yes" => path[h] \in Targets
      BY <3>1 DEF Answers, StagedInv, CallsApart, CallPaths, TargetSteps
    <3> QED
      BY <3>2, NodeAssumption
  <2>5. belief'[path[g]] # "yes"
    BY <1>2, <2>1, <2>4
  <2>6. \A k \in Handlers : pc'[k] \in Locked => k = g
    BY <1>1, <1>3, <2>1
  <2> QED
    BY <2>1, <2>3, <2>5, <2>6
<1>6. UnpublishLast'
  <2> SUFFICES ASSUME NEW g \in Handlers, pc'[g] \in {"unmount", "remove"}
               PROVE  /\ pods'[path'[g]] = "gone"
                      /\ belief'[path'[g]] # "yes"
                      /\ \A k \in Handlers : path'[k] = path'[g] /\ ~gaveUp'[k] => pc'[k] \in {"unmount", "remove"}
    BY DEF UnpublishLast
  <2>1. /\ g # h /\ pc[g] \in {"unmount", "remove"} /\ path'[g] = path[g] /\ path[g] \in Paths
        /\ path[g] # None
    BY <1>1, NodeAssumption DEF StagedInv, CallsApart, CallPaths, TargetSteps, Paths
  <2>2. /\ pods[path[g]] = "gone" /\ belief[path[g]] # "yes"
        /\ \A k \in Handlers : path[k] = path[g] /\ ~gaveUp[k] => pc[k] \in {"unmount", "remove"}
    BY <2>1 DEF StagedInv, CallsApart, UnpublishLast
  <2>3. path[h] = path[g] /\ ~gaveUp[h] => b # "yes"
    BY <2>2 DEF Answers
  <2> QED
    BY <1>1, <1>2, <2>1, <2>2, <2>3
<1> QED
  BY <1>4, <1>5, <1>6 DEF CallsApart

\* A handler goes on.
LEMMA MoveApart ==
    ASSUME StagedInv, NEW h \in Handlers, pc[h] # "idle", UNCHANGED pods,
           NEW s \in Steps, Moves(h, s)
    PROVE  CallsApart'
<1>0. TypeOK /\ CallsInOrder /\ path[h] \in Paths
  BY Working DEF StagedInv, Inv
<1>1. /\ \A g \in Handlers : pc'[g] = IF g = h THEN s ELSE pc[g]
      /\ UNCHANGED <<path, gaveUp, belief>>
  BY <1>0 DEF Moves, Goto, TypeOK
<1>2. \/ pc[h] \in {"stage", "unstage"} \cup Locked /\ s \in Locked
      \/ pc[h] = "publish" /\ s = "bind"
      \/ pc[h] = "unmount" /\ s = "remove"
  BY DEF Moves
<1>3. CallPaths'
  BY <1>1, <1>2 DEF StagedInv, CallsApart, CallPaths, TargetSteps, Locked
<1>4. LockHeld'
  <2>1. CASE pc[h] \in {"stage", "unstage"} /\ s \in Locked
    <3>1. path[h] \notin locks /\ locks' = locks \cup {path[h]} /\ path[h] = Staging
      BY <2>1 DEF Moves, Locked, StagedInv, CallsApart, CallPaths
    <3>2. \A g \in Handlers : pc[g] \notin Locked
      BY <3>1 DEF StagedInv, CallsApart, CallPaths, LockHeld
    <3>3. belief[path[h]] = "unknown"
      BY <1>0, <2>1 DEF CallsInOrder, Prompt
    <3> QED
      BY <1>1, <3>1, <3>2, <3>3 DEF LockHeld
  <2>2. CASE pc[h] \in Locked /\ s \in Locked
    <3>1. locks' = locks
      BY <2>2 DEF Moves, Locked
    <3> QED
      BY <1>1, <2>2, <3>1 DEF StagedInv, CallsApart, LockHeld
  <2>3. CASE pc[h] \notin Locked /\ s \notin Locked
    <3>1. locks' = locks
      BY <2>3 DEF Moves
    <3> QED
      BY <1>1, <2>3, <3>1 DEF StagedInv, CallsApart, LockHeld
  <2>4. "publish" \notin Locked /\ "bind" \notin Locked /\ "unmount" \notin Locked /\ "remove" \notin Locked
    BY DEF Locked
  <2> QED
    BY <1>2, <2>1, <2>2, <2>3, <2>4
<1>5. UnpublishLast'
  <2>1. s \in {"unmount", "remove"} => pc[h] \in {"unmount", "remove"}
    BY <1>2 DEF Locked
  <2>2. pc[h] \in {"unmount", "remove"} => s \in {"unmount", "remove"}
    BY <1>2 DEF Locked
  <2> QED
    BY <1>1, <2>1, <2>2 DEF StagedInv, CallsApart, UnpublishLast
<1> QED
  BY <1>3, <1>4, <1>5 DEF CallsApart

\* A new call, which has the path for itself but for calls that were given up.
LEMMA CallApart ==
    ASSUME StagedInv, NEW h \in Handlers, NEW p \in Paths,
           NEW s \in {"stage", "publish", "unmount", "unstage"}, Call(h, s, p),
           s \in {"stage", "unstage"} => p = Staging,
           s \in {"publish", "unmount"} => p \in Targets,
           s = "unmount" => pods[p] = "gone",
           s = "publish" => pods[p] # "gone"
    PROVE  CallsApart'
<1>0. TypeOK /\ CallsInOrder
  BY DEF StagedInv, Inv
<1>1. \A g \in Handlers : /\ pc'[g] = IF g = h THEN s ELSE pc[g]
                          /\ path'[g] = IF g = h THEN p ELSE path[g]
  BY <1>0 DEF Call, TypeOK
<1>2. /\ \A q \in Paths : belief'[q] = IF q = p THEN "unknown" ELSE belief[q]
      /\ UNCHANGED <<locks, gaveUp, pods>>
      /\ pc[h] = "idle" /\ path[h] = None
      /\ \A g \in Handlers : path[g] = p => gaveUp[g]
  BY <1>0 DEF Call, TypeOK, CallsInOrder
<1>3. s \notin Locked
  BY DEF Locked
<1>4. CallPaths'
  BY <1>1, <1>3 DEF StagedInv, CallsApart, CallPaths, TargetSteps
<1>5. LockHeld'
  <2>1. \A g \in Handlers : pc[g] \in Locked => path[g] \in Paths
    BY DEF StagedInv, CallsApart, CallPaths, Paths
  <2> QED
    BY <1>1, <1>2, <1>3, <2>1 DEF StagedInv, CallsApart, LockHeld
<1>6. UnpublishLast'
  <2>1. \A g \in Handlers : pc[g] \in {"unmount", "remove"} => path[g] \in Paths
    BY DEF StagedInv, CallsApart, CallPaths, TargetSteps, Paths
  <2>2. ASSUME NEW g \in Handlers, g # h, pc[g] \in {"unmount", "remove"}
        PROVE  /\ pods[path[g]] = "gone" /\ belief'[path[g]] # "yes"
               /\ p = path[g] => s \in {"unmount", "remove"}
    <3>1. pods[path[g]] = "gone" /\ belief[path[g]] # "yes" /\ path[g] \in Targets
      BY <2>2 DEF StagedInv, CallsApart, UnpublishLast, CallPaths, TargetSteps
    <3> QED
      BY <1>2, <2>1, <2>2, <3>1, NodeAssumption
  <2> QED
    BY <1>1, <1>2, <2>1, <2>2 DEF StagedInv, CallsApart, UnpublishLast
<1> QED
  BY <1>4, <1>5, <1>6 DEF CallsApart

\* What happens outside the handlers.
LEMMA OutsideApart ==
    ASSUME StagedInv,
           \/ \E h \in Handlers : CallerGivesUp(h)
           \/ \E t \in Targets : PodComes(t) \/ PodGoes(t)
           \/ \E p \in Paths : LateMountLands(p) \/ LateMountFails(p)
           \/ \E f \in Fs : FuseDies(f)
           \/ DriverRestarts \/ KubeletRestarts
           \/ UNCHANGED vars
    PROVE  CallsApart'
<1>0. TypeOK
  BY DEF StagedInv, Inv
<1>1. CASE DriverRestarts
  BY <1>1 DEF DriverRestarts, CallsApart, CallPaths, LockHeld, UnpublishLast, Locked, TargetSteps
<1>2. CASE UNCHANGED <<locks, pc, path, gaveUp, pods, belief>>
  BY <1>2 DEF StagedInv, CallsApart, CallPaths, LockHeld, UnpublishLast
<1>3. ASSUME NEW h \in Handlers, CallerGivesUp(h) PROVE CallsApart'
  BY <1>0, <1>3 DEF CallerGivesUp, StagedInv, CallsApart, CallPaths, LockHeld, UnpublishLast, TypeOK
<1>4. ASSUME NEW t \in Targets, PodComes(t) \/ PodGoes(t) PROVE CallsApart'
  <2>1. \A u \in Targets : pods[u] = "gone" => pods'[u] = "gone"
    BY <1>0, <1>4 DEF PodComes, PodGoes, TypeOK
  <2>2. UNCHANGED <<locks, pc, path, gaveUp, belief>>
    BY <1>4 DEF PodComes, PodGoes, handlers
  <2>3. CallPaths' /\ LockHeld'
    BY <2>2 DEF StagedInv, CallsApart, CallPaths, LockHeld
  <2>4. UnpublishLast'
    BY <2>1, <2>2 DEF StagedInv, CallsApart, CallPaths, UnpublishLast, TargetSteps
  <2> QED
    BY <2>3, <2>4 DEF CallsApart
<1>5. CASE KubeletRestarts
  <2>1. /\ UNCHANGED <<locks, pc, path, pods>>
        /\ \A p \in Paths : belief'[p] # "yes"
        /\ \A h \in Handlers : gaveUp'[h] = (pc[h] # "idle")
    BY <1>5 DEF KubeletRestarts
  <2>2. CallPaths' /\ LockHeld'
    BY <2>1 DEF StagedInv, CallsApart, CallPaths, LockHeld, Paths
  <2>3. UnpublishLast'
    <3> SUFFICES ASSUME NEW h \in Handlers, pc[h] \in {"unmount", "remove"}
                 PROVE  /\ pods[path[h]] = "gone" /\ belief'[path[h]] # "yes"
                        /\ \A g \in Handlers : path[g] = path[h] => gaveUp'[g]
      BY <2>1 DEF UnpublishLast
    <3>1. path[h] \in Paths /\ path[h] # None /\ pods[path[h]] = "gone"
      BY NodeAssumption DEF StagedInv, CallsApart, CallPaths, UnpublishLast, TargetSteps, Paths
    <3>2. \A g \in Handlers : path[g] = path[h] => pc[g] # "idle"
      BY <3>1 DEF StagedInv, Inv, CallsInOrder
    <3> QED
      BY <2>1, <3>1, <3>2
  <2> QED
    BY <2>2, <2>3 DEF CallsApart
<1> QED
  BY <1>1, <1>2, <1>3, <1>4, <1>5 DEF LateMountLands, LateMountFails, FuseDies, vars, handlers

-----------------------------------------------------------------------------
(* What is mounted stays mounted *)

\* A step of a handler takes no mount away from a path that someone counts on.
LEMMA KeepsFound ==
    ASSUME Mode = "staged", StagedInv, NEW h \in Handlers, Keeps(h)
    PROVE  /\ \A p \in Paths : belief[p] = "yes" => mounts'[p] # <<>>
           /\ \A g \in Handlers \ {h} : pc[g] \in Found => mounts'[path[g]] # <<>>
<1>1. Unmounting \subseteq Locked \cup {"unmount"} /\ Found \subseteq Locked
  BY DEF Unmounting, Locked, Found
<1>2. ASSUME NEW p \in Paths, belief[p] = "yes" PROVE mounts'[p] # <<>>
  BY <1>1, <1>2 DEF Keeps, StagedInv, CallsApart, LockHeld, UnpublishLast, MountedWhenTold, Mounted
<1>3. ASSUME NEW g \in Handlers \ {h}, pc[g] \in Found PROVE mounts'[path[g]] # <<>>
  <2>1. path[g] = Staging /\ Mounted(path[g]) /\ pc[h] \notin Locked /\ path[g] \in Paths
    BY <1>1, <1>3 DEF StagedInv, CallsApart, CallPaths, LockHeld, FoundMounted, Paths
  <2>2. pc[h] = "unmount" => path[h] \in Targets
    BY DEF StagedInv, CallsApart, CallPaths, TargetSteps
  <2> QED
    BY <1>1, <2>1, <2>2, NodeAssumption DEF Keeps
<1> QED
  BY <1>2, <1>3

\* Steps of the handlers.
LEMMA HandlerStepStaged ==
    ASSUME Mode = "staged", StagedInv, NEW h \in Handlers, Step(h)
    PROVE  CallsApart' /\ FoundMounted' /\ MountedWhenTold'
<1>0. TypeOK /\ CallsInOrder /\ path[h] \in Paths /\ Shape(h)
  BY StepShape, Working DEF StagedInv, Inv, Shape
<1>1. /\ \A p \in Paths : belief[p] = "yes" => mounts'[p] # <<>>
      /\ \A g \in Handlers \ {h} : pc[g] \in Found => mounts'[path[g]] # <<>>
  BY <1>0, KeepsFound DEF Shape
<1>2. ASSUME NEW b \in Belief, Answers(h, b) PROVE CallsApart' /\ FoundMounted' /\ MountedWhenTold'
  <2>1. CallsApart'
    BY <1>0, <1>2, AnswerApart DEF Shape
  <2>2. /\ \A g \in Handlers : /\ pc'[g] = IF g = h THEN "idle" ELSE pc[g]
                              /\ path'[g] = IF g = h THEN None ELSE path[g]
        /\ \A p \in Paths : belief'[p] = IF ~gaveUp[h] /\ p = path[h] THEN b ELSE belief[p]
    BY <1>0, <1>2 DEF Answers, Return, TypeOK
  <2>3. FoundMounted'
    BY <1>1, <2>2 DEF FoundMounted, Mounted, Found
  <2>4. MountedWhenTold'
    BY <1>1, <1>2, <2>2 DEF MountedWhenTold, Mounted, Answers
  <2> QED
    BY <2>1, <2>3, <2>4
<1>3. ASSUME NEW s \in Steps, Moves(h, s) PROVE CallsApart' /\ FoundMounted' /\ MountedWhenTold'
  <2>1. CallsApart'
    BY <1>0, <1>3, MoveApart DEF Shape
  <2>2. /\ \A g \in Handlers : pc'[g] = IF g = h THEN s ELSE pc[g]
        /\ UNCHANGED <<path, belief>>
    BY <1>0, <1>3 DEF Moves, Goto, TypeOK
  <2>3. FoundMounted'
    BY <1>1, <1>3, <2>2 DEF FoundMounted, Mounted, Moves
  <2>4. MountedWhenTold'
    BY <1>1, <2>2 DEF MountedWhenTold, Mounted
  <2> QED
    BY <2>1, <2>3, <2>4
<1> QED
  BY <1>0, <1>2, <1>3 DEF Shape

\* Calls of the kubelet.
LEMMA KubeletStepStaged ==
    ASSUME StagedInv, NEW h \in Handlers, NEW p \in Paths,
           NEW s \in {"stage", "publish", "unmount", "unstage"}, Call(h, s, p)
    PROVE  FoundMounted' /\ MountedWhenTold'
<1>0. TypeOK
  BY DEF StagedInv, Inv
<1>1. /\ \A g \in Handlers : /\ pc'[g] = IF g = h THEN s ELSE pc[g]
                            /\ path'[g] = IF g = h THEN p ELSE path[g]
      /\ \A q \in Paths : belief'[q] = IF q = p THEN "unknown" ELSE belief[q]
      /\ mounts' = mounts
  BY <1>0 DEF Call, TypeOK
<1>2. FoundMounted'
  BY <1>1 DEF StagedInv, FoundMounted, Mounted, Found
<1>3. MountedWhenTold'
  BY <1>1 DEF StagedInv, MountedWhenTold, Mounted
<1> QED
  BY <1>2, <1>3

\* What happens outside the handlers.
LEMMA OutsideStaged ==
    ASSUME StagedInv,
           \/ \E h \in Handlers : CallerGivesUp(h)
           \/ \E t \in Targets : PodComes(t) \/ PodGoes(t)
           \/ \E p \in Paths : LateMountLands(p) \/ LateMountFails(p)
           \/ \E f \in Fs : FuseDies(f)
           \/ DriverRestarts \/ KubeletRestarts
           \/ UNCHANGED vars
    PROVE  FoundMounted' /\ MountedWhenTold'
<1>0. TypeOK
  BY DEF StagedInv, Inv
<1>1. \A q \in Paths : Mounted(q) => mounts'[q] # <<>>
  <2>1. CASE UNCHANGED mounts
    BY <2>1 DEF Mounted
  <2>2. ASSUME NEW p \in Paths, Land(p) PROVE \A q \in Paths : Mounted(q) => mounts'[q] # <<>>
    BY <1>0, <2>2, LandMounts
  <2> QED
    BY <2>1, <2>2 DEF CallerGivesUp, PodComes, PodGoes, LateMountLands, LateMountFails, FuseDies,
                      DriverRestarts, KubeletRestarts, node, vars
<1>2. \A h \in Handlers : pc'[h] \in Found => pc'[h] = pc[h] /\ path'[h] = path[h]
  BY DEF CallerGivesUp, PodComes, PodGoes, LateMountLands, LateMountFails, FuseDies,
         DriverRestarts, KubeletRestarts, handlers, vars, Found
<1>3. \A p \in Paths : belief'[p] = "yes" => belief[p] = "yes"
  BY DEF CallerGivesUp, PodComes, PodGoes, LateMountLands, LateMountFails, FuseDies,
         DriverRestarts, KubeletRestarts, vars
<1>4. \A h \in Handlers : pc[h] \in Found => path[h] \in Paths
  BY DEF Found, StagedInv, CallsApart, CallPaths, Locked, Paths
<1>5. FoundMounted'
  BY <1>1, <1>2, <1>4 DEF StagedInv, FoundMounted, Mounted
<1>6. MountedWhenTold'
  BY <1>1, <1>3 DEF StagedInv, MountedWhenTold, Mounted
<1> QED
  BY <1>5, <1>6

\* The first state of a staged volume.
LEMMA StagedInit == Init => StagedInv
<1> SUFFICES ASSUME Init PROVE StagedInv
  OBVIOUS
<1>1. Inv
  BY InitOK DEF Inv
<1>2. CallsApart /\ FoundMounted /\ MountedWhenTold
  BY DEF Init, CallsApart, CallPaths, LockHeld, UnpublishLast, FoundMounted, MountedWhenTold,
         Locked, TargetSteps, Found
<1> QED
  BY <1>1, <1>2 DEF StagedInv

\* The invariant of a staged volume is inductive.
LEMMA StagedStep ==
    ASSUME Mode = "staged"
    PROVE  StagedInv /\ [Next]_vars => StagedInv'
<1> SUFFICES ASSUME StagedInv, [Next]_vars PROVE StagedInv'
  OBVIOUS
<1>1. Inv'
  BY InvStep DEF StagedInv
<1>2. ASSUME NEW h \in Handlers, Step(h) PROVE StagedInv'
  BY <1>1, <1>2, HandlerStepStaged DEF StagedInv
<1>3. ASSUME NEW h \in Handlers, NodeStageVolume(h) \/ NodeUnstageVolume(h) PROVE StagedInv'
  <2>1. PICK s \in {"stage", "unstage"} : Call(h, s, Staging)
    BY <1>3 DEF NodeStageVolume, NodeUnstageVolume
  <2> QED
    BY <1>1, <2>1, CallApart, KubeletStepStaged DEF StagedInv, Paths
<1>4. ASSUME NEW h \in Handlers, NEW t \in Targets, NodePublishVolume(h, t) \/ NodeUnpublishVolume(h, t)
      PROVE  StagedInv'
  <2>1. \/ Call(h, "publish", t) /\ pods[t] # "gone"
        \/ Call(h, "unmount", t) /\ pods[t] = "gone"
    BY <1>4 DEF NodePublishVolume, NodeUnpublishVolume, Wanted
  <2> QED
    BY <1>1, <2>1, CallApart, KubeletStepStaged DEF StagedInv, Paths
<1>5. ASSUME \/ \E h \in Handlers : CallerGivesUp(h)
             \/ \E t \in Targets : PodComes(t) \/ PodGoes(t)
             \/ \E p \in Paths : LateMountLands(p) \/ LateMountFails(p)
             \/ \E f \in Fs : FuseDies(f)
             \/ DriverRestarts \/ KubeletRestarts
             \/ UNCHANGED vars
      PROVE  StagedInv'
  BY <1>1, <1>5, OutsideApart, OutsideStaged DEF StagedInv
<1> QED
  BY <1>2, <1>3, <1>4, <1>5 DEF Next

(***************************************************************************)
(* What NodeStageVolume and NodePublishVolume reported as mounted is       *)
(* mounted, for a staged volume of either protocol with any number of pods *)
(* and calls: no cleanup, stale mount or NodeUnstageVolume of an abandoned *)
(* call comes after the answer, whoever restarts.                          *)
(***************************************************************************)
THEOREM ToldIsMounted ==
    ASSUME Mode = "staged"
    PROVE  Spec => []MountedWhenTold
<1>1. StagedInv => MountedWhenTold
  BY DEF StagedInv
<1> QED
  BY <1>1, StagedInit, StagedStep, PTL DEF Spec
-----------------------------------------------------------------------------
(* The staging path stays mounted while a pod uses it *)

Published == \E t \in Targets : belief[t] # "no"

\* Steps after which the staging path may no longer be mounted.
UndoSteps == {"unstage", "unstageUnmount", "unstageRemove",
              "unmountStale", "mountError", "mountErrorRemove"}
FuseSteps == {"unmountStale", "mountError", "mountErrorRemove"}

StagingStays ==
    /\ Published => Mounted(Staging) /\ \A h \in Handlers : pc[h] \notin UndoSteps
    /\ Published /\ "kubeletRestarts" \notin Faults => belief[Staging] = "yes"
    /\ Protocol = "nfs" => dead = {} /\ \A h \in Handlers : pc[h] \notin FuseSteps

NoBare == \A p \in Paths : \A i \in 1..Len(mounts[p]) : mounts[p][i] # Bare

\* An NFS mount does not break; a kubelet that does not restart does not ask again to
\* stage a volume that its pods use.
StagingKept == Mode = "staged" /\ (Protocol = "nfs" \/ "kubeletRestarts" \notin Faults)

UseInv == StagedInv /\ StagingStays /\ NoBare

\* Only NodePublishVolume makes the first pod's path one that may be mounted.
LEMMA FirstPublish ==
    ASSUME StagedInv, [Next]_vars, ~Published, Published'
    PROVE  \E h \in Handlers, t \in Targets : NodePublishVolume(h, t)
<1>0. TypeOK /\ CallsInOrder
  BY DEF StagedInv, Inv
<1>1. ASSUME NEW h \in Handlers, Step(h) PROVE \A t \in Targets : belief[t] = "no" => belief'[t] = "no"
  <2>1. pc[h] # "idle" /\ (UNCHANGED belief \/ \E b : Return(h, b))
    BY <1>1 DEF Step, StageLock, StageEnsure, StageUnmountStale, GetAuthEnv, MountNFS, SetupNFS,
                MountBlobfuse, WaitForMount, CleanupFailedMount, RemoveAfterFailedMount,
                PublishEnsure, BindMount, UnpublishUnmount, UnpublishRemove, UnstageLock,
                UnstageUnmount, UnstageRemove, CleanupMountPoint, RemovePath, AnswerUnmount,
                ReturnLocked, Continue, Goto
  <2>2. path[h] \in Paths /\ (~gaveUp[h] => belief[path[h]] = "unknown")
    BY <1>0, <2>1, Working DEF CallsInOrder
  <2> QED
    BY <1>0, <2>1, <2>2 DEF Return, TypeOK, Paths
<1>2. ASSUME NEW h \in Handlers, NodeStageVolume(h) \/ NodeUnstageVolume(h)
      PROVE  \A t \in Targets : belief'[t] = belief[t]
  <2>1. belief' = [belief EXCEPT ![Staging] = "unknown"]
    BY <1>2 DEF NodeStageVolume, NodeUnstageVolume, Call
  <2> QED
    BY <1>0, <2>1, NodeAssumption DEF TypeOK, Paths
<1>3. ASSUME NEW h \in Handlers, NEW t \in Targets, NodeUnpublishVolume(h, t) PROVE Published
  BY <1>3 DEF NodeUnpublishVolume, Published
<1>4. ASSUME \/ \E h \in Handlers : CallerGivesUp(h)
             \/ \E t \in Targets : PodComes(t) \/ PodGoes(t)
             \/ \E p \in Paths : LateMountLands(p) \/ LateMountFails(p)
             \/ \E f \in Fs : FuseDies(f)
             \/ DriverRestarts \/ KubeletRestarts
             \/ UNCHANGED vars
      PROVE  \A t \in Targets : belief[t] = "no" => belief'[t] = "no"
  BY <1>4 DEF CallerGivesUp, PodComes, PodGoes, LateMountLands, LateMountFails, FuseDies,
              DriverRestarts, KubeletRestarts, vars, Paths
<1> QED
  BY <1>1, <1>2, <1>3, <1>4 DEF Next, Published

\* How a handler comes to a step that may undo the staging: by a broken mount or a
\* mount command of blobfuse that failed, with the lock.
LEMMA UndoEntry ==
    ASSUME StagedInv, NEW h \in Handlers, Step(h), NEW g \in Handlers, pc'[g] \in UndoSteps
    PROVE  \/ pc[g] \in UndoSteps
           \/ g = h /\ pc[h] \in {"ensure", "mount"} /\ (Protocol = "fuse" \/ dead # {})
<1>0. pc \in [Handlers -> Steps]
  BY DEF StagedInv, Inv, TypeOK
<1>1. CASE g # h
  <2>1. \E s : pc' = [pc EXCEPT ![h] = s]
    BY DEF Step, StageLock, StageEnsure, StageUnmountStale, GetAuthEnv, MountNFS, SetupNFS,
           MountBlobfuse, WaitForMount, CleanupFailedMount, RemoveAfterFailedMount,
           PublishEnsure, BindMount, UnpublishUnmount, UnpublishRemove, UnstageLock,
           UnstageUnmount, UnstageRemove, CleanupMountPoint, RemovePath, AnswerUnmount,
           ReturnLocked, Continue, Goto, Return
  <2> QED
    BY <1>0, <1>1, <2>1
<1>2. CASE g = h
  <2> USE <1>0, <1>2 DEF ReturnLocked, Continue, Goto, Return, UndoSteps
  <2>1. CASE StageLock(h) \/ StageUnmountStale(h) \/ GetAuthEnv(h) \/ MountNFS(h) \/ SetupNFS(h)
    BY <2>1 DEF StageLock, StageUnmountStale, GetAuthEnv, MountNFS, SetupNFS
  <2>2. CASE StageEnsure(h)
    BY <2>2 DEF StageEnsure, Broken
  <2>3. CASE MountBlobfuse(h) \/ WaitForMount(h)
    BY <2>3 DEF MountBlobfuse, WaitForMount
  <2>4. CASE CleanupFailedMount(h) \/ RemoveAfterFailedMount(h)
    BY <2>4 DEF CleanupFailedMount, RemoveAfterFailedMount
  <2>5. CASE PublishEnsure(h) \/ BindMount(h)
    BY <2>5 DEF PublishEnsure, BindMount
  <2>6. CASE UnpublishUnmount(h) \/ UnpublishRemove(h)
    BY <2>6 DEF UnpublishUnmount, UnpublishRemove, CleanupMountPoint, RemovePath, AnswerUnmount
  <2>7. CASE UnstageLock(h) \/ UnstageUnmount(h) \/ UnstageRemove(h)
    BY <2>7 DEF UnstageLock, UnstageUnmount, UnstageRemove
  <2> QED
    BY <2>1, <2>2, <2>3, <2>4, <2>5, <2>6, <2>7 DEF Step
<1> QED
  BY <1>1, <1>2

\* While a pod uses the volume no handler is about to undo its staging.
LEMMA NoUndo ==
    ASSUME StagingKept, UseInv, [Next]_vars, Published
    PROVE  \A g \in Handlers : pc'[g] \notin UndoSteps
<1> SUFFICES ASSUME NEW g \in Handlers, pc'[g] \in UndoSteps PROVE FALSE
  OBVIOUS
<1>0. TypeOK /\ pc[g] \notin UndoSteps
  BY DEF UseInv, StagedInv, Inv, StagingStays
<1>1. ASSUME NEW h \in Handlers, Step(h) PROVE FALSE
  <2>1. g = h /\ pc[h] \in Locked /\ (Protocol = "fuse" \/ dead # {})
    BY <1>0, <1>1, UndoEntry DEF UseInv, Locked
  <2>2. belief[Staging] # "yes"
    BY <2>1 DEF UseInv, StagedInv, CallsApart, CallPaths, LockHeld
  <2>3. Protocol # "nfs"
    BY <2>1 DEF UseInv, StagingStays
  <2> QED
    BY <2>2, <2>3 DEF UseInv, StagingStays, StagingKept
<1>2. ASSUME NEW h \in Handlers, NodeStageVolume(h) PROVE FALSE
  BY <1>0, <1>2 DEF NodeStageVolume, Call, UndoSteps, TypeOK
<1>3. ASSUME NEW h \in Handlers, NodeUnstageVolume(h) PROVE FALSE
  BY <1>3 DEF NodeUnstageVolume, Published
<1>4. ASSUME NEW h \in Handlers, NEW t \in Targets, NodePublishVolume(h, t) \/ NodeUnpublishVolume(h, t)
      PROVE  FALSE
  BY <1>0, <1>4 DEF NodePublishVolume, NodeUnpublishVolume, Call, UndoSteps, TypeOK
<1>5. ASSUME \/ \E h \in Handlers : CallerGivesUp(h)
             \/ \E t \in Targets : PodComes(t) \/ PodGoes(t)
             \/ \E p \in Paths : LateMountLands(p) \/ LateMountFails(p)
             \/ \E f \in Fs : FuseDies(f)
             \/ DriverRestarts \/ KubeletRestarts
             \/ UNCHANGED vars
      PROVE  FALSE
  BY <1>0, <1>5 DEF CallerGivesUp, PodComes, PodGoes, LateMountLands, LateMountFails, FuseDies,
              DriverRestarts, KubeletRestarts, vars, handlers, UndoSteps
<1> QED
  BY <1>1, <1>2, <1>3, <1>4, <1>5 DEF Next

\* Nor does any step unmount it.
LEMMA StagingMounted ==
    ASSUME StagingKept, UseInv, [Next]_vars, Published
    PROVE  mounts'[Staging] # <<>>
<1>0. TypeOK /\ Mounted(Staging) /\ Staging \in Paths
  BY DEF UseInv, StagedInv, Inv, StagingStays, Paths
<1>1. ASSUME NEW h \in Handlers, Step(h) PROVE mounts'[Staging] # <<>>
  <2>1. Keeps(h)
    BY <1>1, StepShape DEF UseInv, Shape, StagingKept
  <2>2. pc[h] \in Unmounting => pc[h] = "unmount"
    BY DEF UseInv, StagingStays, Unmounting, UndoSteps
  <2>3. pc[h] = "unmount" => path[h] # Staging
    BY NodeAssumption DEF UseInv, StagedInv, CallsApart, CallPaths, TargetSteps
  <2> QED
    BY <1>0, <2>1, <2>2, <2>3 DEF Keeps
<1>2. CASE UNCHANGED mounts
  BY <1>0, <1>2 DEF Mounted
<1>3. ASSUME NEW p \in Paths, Land(p) PROVE mounts'[Staging] # <<>>
  BY <1>0, <1>3, LandMounts
<1> QED
  BY <1>1, <1>2, <1>3
  DEF Next, NodeStageVolume, NodeUnstageVolume, NodePublishVolume, NodeUnpublishVolume, Call,
      CallerGivesUp, PodComes, PodGoes, LateMountLands, LateMountFails, FuseDies,
      DriverRestarts, KubeletRestarts, node, vars

\* Without restarts the kubelet goes on to count the volume as staged.
LEMMA StagingBelieved ==
    ASSUME UseInv, [Next]_vars, Published, "kubeletRestarts" \notin Faults
    PROVE  belief'[Staging] = "yes"
<1>0. TypeOK /\ CallsInOrder /\ belief[Staging] = "yes" /\ Staging \in Paths
  BY DEF UseInv, StagedInv, Inv, StagingStays, Paths
<1>1. ASSUME NEW h \in Handlers, Step(h) PROVE belief'[Staging] = "yes"
  <2>1. pc[h] # "idle" /\ (UNCHANGED belief \/ \E b : Return(h, b))
    BY <1>1 DEF Step, StageLock, StageEnsure, StageUnmountStale, GetAuthEnv, MountNFS, SetupNFS,
                MountBlobfuse, WaitForMount, CleanupFailedMount, RemoveAfterFailedMount,
                PublishEnsure, BindMount, UnpublishUnmount, UnpublishRemove, UnstageLock,
                UnstageUnmount, UnstageRemove, CleanupMountPoint, RemovePath, AnswerUnmount,
                ReturnLocked, Continue, Goto
  <2>2. path[h] \in Paths /\ (~gaveUp[h] => belief[path[h]] = "unknown")
    BY <1>0, <2>1, Working DEF CallsInOrder
  <2> QED
    BY <1>0, <2>1, <2>2 DEF Return, TypeOK
<1>2. ASSUME NEW h \in Handlers PROVE ~NodeStageVolume(h) /\ ~NodeUnstageVolume(h)
  BY <1>0 DEF NodeStageVolume, NodeUnstageVolume, Published
<1>3. ASSUME NEW h \in Handlers, NEW t \in Targets, NodePublishVolume(h, t) \/ NodeUnpublishVolume(h, t)
      PROVE  belief'[Staging] = "yes"
  BY <1>0, <1>3, NodeAssumption DEF NodePublishVolume, NodeUnpublishVolume, Call, TypeOK, Paths
<1>4. ~KubeletRestarts
  BY DEF KubeletRestarts, Mishap
<1> QED
  BY <1>0, <1>1, <1>2, <1>3, <1>4
  DEF Next, CallerGivesUp, PodComes, PodGoes, LateMountLands, LateMountFails, FuseDies,
      DriverRestarts, vars

\* The first pod comes after the volume was staged, and no call undoes that any more.
LEMMA FirstPublishStaged ==
    ASSUME StagedInv, Mode = "staged", NEW h \in Handlers, NEW t \in Targets, NodePublishVolume(h, t)
    PROVE  /\ mounts'[Staging] # <<>> /\ belief'[Staging] = "yes"
           /\ \A g \in Handlers : pc'[g] \notin UndoSteps
<1>0. TypeOK /\ CallsInOrder /\ Staging \in Paths /\ belief[Staging] = "yes" /\ Call(h, "publish", t)
  BY DEF StagedInv, Inv, Paths, NodePublishVolume
<1>1. mounts' = mounts /\ belief' = [belief EXCEPT ![t] = "unknown"] /\ pc' = [pc EXCEPT ![h] = "publish"]
  BY <1>0 DEF Call
<1>2. mounts'[Staging] # <<>>
  BY <1>0, <1>1 DEF StagedInv, MountedWhenTold, Mounted
<1>3. belief'[Staging] = "yes"
  BY <1>0, <1>1, NodeAssumption DEF TypeOK
<1>4. ASSUME NEW g \in Handlers PROVE pc[g] \notin UndoSteps
  <2>1. pc[g] \notin Locked
    BY <1>0 DEF StagedInv, CallsApart, CallPaths, LockHeld
  <2>2. pc[g] # "unstage"
    BY <1>0 DEF StagedInv, CallsApart, CallPaths, CallsInOrder, Prompt
  <2> QED
    BY <2>1, <2>2 DEF UndoSteps, Locked
<1> QED
  BY <1>0, <1>1, <1>2, <1>3, <1>4 DEF TypeOK, UndoSteps

\* An NFS mount never breaks, so that the steps for a broken one are never taken.
LEMMA NFSNeverBreaks ==
    ASSUME UseInv, [Next]_vars, Protocol = "nfs"
    PROVE  dead' = {} /\ \A g \in Handlers : pc'[g] \notin FuseSteps
<1>0. TypeOK /\ dead = {} /\ \A g \in Handlers : pc[g] \notin FuseSteps
  BY DEF UseInv, StagedInv, Inv, StagingStays
<1>1. dead' = {}
  <2>0. ASSUME NEW h \in Handlers, Step(h) PROVE UNCHANGED dead \/ \E p : Land(p)
    <3>1. CASE StageLock(h) \/ StageEnsure(h) \/ StageUnmountStale(h) \/ GetAuthEnv(h)
      BY <3>1 DEF StageLock, StageEnsure, StageUnmountStale, GetAuthEnv, node
    <3>2. CASE MountNFS(h) \/ SetupNFS(h) \/ MountBlobfuse(h) \/ WaitForMount(h)
      BY <3>2 DEF MountNFS, SetupNFS, MountBlobfuse, MountAzureBlob, WaitForMount, node
    <3>3. CASE CleanupFailedMount(h) \/ RemoveAfterFailedMount(h) \/ PublishEnsure(h) \/ BindMount(h)
      BY <3>3 DEF CleanupFailedMount, RemoveAfterFailedMount, PublishEnsure, BindMount
    <3>4. CASE \/ UnpublishUnmount(h) \/ UnpublishRemove(h)
               \/ UnstageLock(h) \/ UnstageUnmount(h) \/ UnstageRemove(h)
      BY <3>4 DEF UnpublishUnmount, UnpublishRemove, UnstageLock, UnstageUnmount, UnstageRemove,
                  CleanupMountPoint, RemovePath, node
    <3> QED
      BY <2>0, <3>1, <3>2, <3>3, <3>4 DEF Step
  <2>1. UNCHANGED dead \/ (\E p : Land(p)) \/ DriverRestarts \/ \E f \in Fs : FuseDies(f)
    BY <2>0
    DEF Next, NodeStageVolume, NodeUnstageVolume, NodePublishVolume, NodeUnpublishVolume, Call,
        CallerGivesUp, PodComes, PodGoes, LateMountLands, LateMountFails, KubeletRestarts, node, vars
  <2> QED
    BY <1>0, <2>1 DEF Land, DriverRestarts, FuseDies
<1>2. ASSUME NEW g \in Handlers, pc'[g] \in FuseSteps PROVE FALSE
  <2>1. ASSUME NEW h \in Handlers, Step(h) PROVE FALSE
    <3> USE <1>0, <1>2 DEF TypeOK, FuseSteps, ReturnLocked, Continue, Goto, Return
    <3>1. CASE StageLock(h) \/ StageUnmountStale(h) \/ GetAuthEnv(h) \/ MountNFS(h) \/ SetupNFS(h)
      BY <3>1 DEF StageLock, StageUnmountStale, GetAuthEnv, MountNFS, SetupNFS
    <3>2. CASE StageEnsure(h)
      BY <3>2 DEF StageEnsure, Broken
    <3>3. CASE MountBlobfuse(h) \/ WaitForMount(h) \/ RemoveAfterFailedMount(h)
      BY <3>3 DEF MountBlobfuse, WaitForMount, RemoveAfterFailedMount
    <3>4. CASE CleanupFailedMount(h)
      BY <3>4 DEF CleanupFailedMount
    <3>5. CASE PublishEnsure(h) \/ BindMount(h)
      BY <3>5 DEF PublishEnsure, BindMount
    <3>6. CASE UnpublishUnmount(h) \/ UnpublishRemove(h) \/ UnstageLock(h) \/ UnstageUnmount(h) \/ UnstageRemove(h)
      BY <3>6 DEF UnpublishUnmount, UnpublishRemove, CleanupMountPoint, RemovePath, AnswerUnmount,
                  UnstageLock, UnstageUnmount, UnstageRemove
    <3> QED
      BY <2>1, <3>1, <3>2, <3>3, <3>4, <3>5, <3>6 DEF Step
  <2>2. ASSUME NEW h \in Handlers, NEW p, NEW s \in {"stage", "unstage", "publish", "unmount"}, Call(h, s, p)
        PROVE  FALSE
    BY <1>0, <1>2, <2>2 DEF Call, TypeOK, FuseSteps
  <2>3. ASSUME \/ \E h \in Handlers : CallerGivesUp(h)
               \/ \E t \in Targets : PodComes(t) \/ PodGoes(t)
               \/ \E p \in Paths : LateMountLands(p) \/ LateMountFails(p)
               \/ \E f \in Fs : FuseDies(f)
               \/ DriverRestarts \/ KubeletRestarts
               \/ UNCHANGED vars
        PROVE  FALSE
    BY <1>0, <1>2, <2>3 DEF CallerGivesUp, PodComes, PodGoes, LateMountLands, LateMountFails, FuseDies,
                DriverRestarts, KubeletRestarts, vars, handlers, FuseSteps
  <2> QED
    BY <2>1, <2>2, <2>3 DEF Next, NodeStageVolume, NodeUnstageVolume, NodePublishVolume, NodeUnpublishVolume
<1> QED
  BY <1>1, <1>2

\* Where a bind finds the directory of its target, the kubelet counts the target as
\* possibly mounted, so the staging path is mounted.
LEMMA NoBareStep ==
    ASSUME StagingKept, UseInv, [Next]_vars
    PROVE  NoBare'
<1>0. TypeOK /\ CallsInOrder /\ DirectoryFirst
  BY DEF UseInv, StagedInv, Inv
<1>1. ASSUME NEW p \in Paths, NEW f \in Fs, Push(p, f) PROVE NoBare'
  <2>1. mounts[p] \in Seq(Fs \cup {Bare}) /\ f # Bare
    BY <1>0, NodeAssumption DEF TypeOK
  <2>2. /\ Len(Append(mounts[p], f)) = Len(mounts[p]) + 1 /\ Len(mounts[p]) \in Nat
        /\ \A i \in 1..Len(mounts[p]) : Append(mounts[p], f)[i] = mounts[p][i]
        /\ Append(mounts[p], f)[Len(mounts[p]) + 1] = f
    BY <2>1, AppendProperties, LenProperties
  <2>3. \A q \in Paths : mounts'[q] = IF q = p THEN Append(mounts[p], f) ELSE mounts[q]
    BY <1>0, <1>1 DEF Push, TypeOK
  <2>4. \A i \in 1..Len(Append(mounts[p], f)) : Append(mounts[p], f)[i] # Bare
    BY <2>1, <2>2 DEF UseInv, NoBare
  <2> QED
    BY <2>3, <2>4 DEF UseInv, NoBare
<1>2. ASSUME NEW p \in Paths, Mounted(p), Unmount(p) PROVE NoBare'
  <2>1. mounts[p] \in Seq(Fs \cup {Bare}) /\ Len(mounts[p]) \in Nat /\ Len(mounts[p]) > 0
    BY <1>0, <1>2, LenProperties, EmptySeq DEF TypeOK, Mounted
  <2> DEFINE rest == SubSeq(mounts[p], 1, Len(mounts[p]) - 1)
  <2>2. Len(rest) = Len(mounts[p]) - 1 /\ \A i \in 1..Len(mounts[p]) - 1 : rest[i] = mounts[p][i]
    BY <2>1, SubSeqProperties
  <2>3. \A q \in Paths : mounts'[q] = IF q = p THEN rest ELSE mounts[q]
    BY <1>0, <1>2 DEF Unmount, TypeOK
  <2>4. \A i \in 1..Len(rest) : rest[i] # Bare
    BY <2>1, <2>2 DEF UseInv, NoBare
  <2> HIDE DEF rest
  <2> QED
    BY <2>3, <2>4 DEF UseInv, NoBare
<1>3. ASSUME UNCHANGED mounts PROVE NoBare'
  BY <1>3 DEF UseInv, NoBare
<1>4. ASSUME NEW p \in Paths, Land(p) PROVE NoBare'
  BY <1>1, <1>4 DEF Land
<1>5. ASSUME NEW h \in Handlers, BindMount(h), ~(UNCHANGED mounts) PROVE NoBare'
  <2>1. path[h] \in Targets /\ dir[path[h]] /\ path[h] \in Paths
    BY <1>5 DEF BindMount, UseInv, StagedInv, CallsApart, CallPaths, TargetSteps, Paths
  <2>2. Published
    BY <1>0, <2>1 DEF DirectoryFirst, Published
  <2>3. Mounted(Staging) /\ Staging \in Paths
    BY <2>2 DEF UseInv, StagingStays, Paths
  <2>4. Push(path[h], Top(Staging))
    BY <1>5, <2>3 DEF BindMount
  <2>5. Top(Staging) \in Fs
    <3>1. mounts[Staging] \in Seq(Fs \cup {Bare}) /\ Len(mounts[Staging]) \in 1..Len(mounts[Staging])
      BY <1>0, <2>3, LenProperties, EmptySeq DEF TypeOK, Mounted
    <3>2. Top(Staging) # Bare
      BY <2>3, <3>1 DEF UseInv, NoBare, Top
    <3> QED
      BY <1>0, <2>3, <3>2, MountsType
  <2> QED
    BY <1>1, <2>1, <2>4, <2>5
<1>6. ASSUME NEW h \in Handlers, Step(h) PROVE NoBare'
  <2>1. path[h] \in Paths
    <3>1. pc[h] # "idle"
      BY <1>6, StepShape DEF UseInv, Shape, StagingKept
    <3> QED
      BY <1>0, <3>1, Working
  <2>2. \/ UNCHANGED mounts
        \/ Land(path[h]) \/ (Mounted(path[h]) /\ Unmount(path[h]))
        \/ BindMount(h)
    BY <1>6 DEF Step, StageLock, StageEnsure, StageUnmountStale, GetAuthEnv, MountNFS, SetupNFS,
           MountBlobfuse, MountAzureBlob, WaitForMount, CleanupFailedMount, RemoveAfterFailedMount,
           PublishEnsure, UnpublishUnmount, UnpublishRemove, UnstageLock,
           UnstageUnmount, UnstageRemove, CleanupMountPoint, RemovePath, node, Healthy
  <2> QED
    BY <1>2, <1>3, <1>4, <1>5, <2>1, <2>2
<1> QED
  BY <1>3, <1>4, <1>6
  DEF Next, NodeStageVolume, NodeUnstageVolume, NodePublishVolume, NodeUnpublishVolume, Call,
      CallerGivesUp, PodComes, PodGoes, LateMountLands, LateMountFails, FuseDies,
      DriverRestarts, KubeletRestarts, node, vars

\* Nothing is published at first.
LEMMA UseInit == Init => UseInv
<1> SUFFICES ASSUME Init PROVE UseInv
  OBVIOUS
<1>1. \A p \in Paths : Len(mounts[p]) = 0
  BY EmptySeq DEF Init
<1>2. StagingStays /\ NoBare
  BY <1>1 DEF Init, StagingStays, NoBare, Published, FuseSteps, Paths
<1> QED
  BY <1>2, StagedInit DEF UseInv

\* The invariant of a volume in use is inductive.
LEMMA UseStep ==
    ASSUME StagingKept
    PROVE  UseInv /\ [Next]_vars => UseInv'
<1> SUFFICES ASSUME UseInv, [Next]_vars PROVE UseInv'
  OBVIOUS
<1>1. StagedInv'
  BY StagedStep DEF UseInv, StagingKept
<1>2. Protocol = "nfs" => dead' = {} /\ \A g \in Handlers : pc'[g] \notin FuseSteps
  BY NFSNeverBreaks
<1>3. CASE Published
  BY <1>1, <1>2, <1>3, NoUndo, StagingMounted, StagingBelieved, NoBareStep
  DEF UseInv, StagingStays, Mounted
<1>4. CASE ~Published /\ Published'
  <2>1. PICK h \in Handlers, t \in Targets : NodePublishVolume(h, t)
    BY <1>4, FirstPublish DEF UseInv
  <2>2. /\ mounts'[Staging] # <<>> /\ belief'[Staging] = "yes"
        /\ \A g \in Handlers : pc'[g] \notin UndoSteps
    BY <2>1, FirstPublishStaged DEF UseInv, StagingKept
  <2> QED
    BY <1>1, <1>2, <2>2, NoBareStep DEF UseInv, StagingStays, Mounted
<1>5. CASE ~Published'
  BY <1>1, <1>2, <1>5, NoBareStep DEF UseInv, StagingStays
<1> QED
  BY <1>3, <1>4, <1>5

(***************************************************************************)
(* A pod never gets the bare staging directory in place of its volume,     *)
(* although the bind takes no lock: for NFS whoever restarts, for blobfuse *)
(* as long as the kubelet does not (BareBind shows what happens then).     *)
(***************************************************************************)
THEOREM PodsNeverGetBare ==
    ASSUME StagingKept
    PROVE  Spec => []NeverBare
<1>1. UseInv => NeverBare
  BY DEF UseInv, NoBare, NeverBare, Paths
<1> QED
  BY <1>1, UseInit, UseStep, PTL DEF Spec

(***************************************************************************)
(* Under the same condition the staging path stays mounted from the first  *)
(* NodePublishVolume until every pod's path is known to be unmounted, also *)
(* while calls that the kubelet gave up on still run.                      *)
(***************************************************************************)
THEOREM StagedWhilePublished ==
    ASSUME StagingKept
    PROVE  Spec => [](Published => Mounted(Staging))
<1>1. UseInv => (Published => Mounted(Staging))
  BY DEF UseInv, StagingStays
<1> QED
  BY <1>1, UseInit, UseStep, PTL DEF Spec
-----------------------------------------------------------------------------
(* The contract with the kubelet *)

\* What a handler does, it does on its path: nothing else is mounted or unmounted,
\* and the kubelet learns of no other path, nor of its own one unless it asked.
LEMMA StepOnPath ==
    ASSUME UseInv, StagingKept, NEW h \in Handlers, Step(h)
    PROVE  /\ path[h] \in Paths
           /\ \A q \in Paths \ {path[h]} : mounts'[q] = mounts[q] /\ belief'[q] = belief[q]
           /\ belief[path[h]] = "unknown" \/ belief'[path[h]] = belief[path[h]]
<1>0. TypeOK /\ CallsInOrder
  BY DEF UseInv, StagedInv, Inv
<1>1. pc[h] # "idle" /\ path[h] \in Paths
  <2>1. pc[h] # "idle"
    BY StepShape DEF UseInv, Shape, StagingKept
  <2> QED
    BY <1>0, <2>1, Working
<1>2. \A q \in Paths \ {path[h]} : mounts'[q] = mounts[q]
  <2>1. \/ UNCHANGED mounts
        \/ Land(path[h]) \/ Unmount(path[h])
        \/ \E f : Push(path[h], f)
    BY DEF Step, StageLock, StageEnsure, StageUnmountStale, GetAuthEnv, MountNFS, SetupNFS,
           MountBlobfuse, MountAzureBlob, WaitForMount, CleanupFailedMount, RemoveAfterFailedMount,
           PublishEnsure, BindMount, UnpublishUnmount, UnpublishRemove, UnstageLock,
           UnstageUnmount, UnstageRemove, CleanupMountPoint, RemovePath, node
  <2> QED
    BY <1>0, <1>1, <2>1 DEF Land, Unmount, Push, TypeOK
<1>3. UNCHANGED belief \/ \E b : Return(h, b)
  BY DEF Step, StageLock, StageEnsure, StageUnmountStale, GetAuthEnv, MountNFS, SetupNFS,
         MountBlobfuse, WaitForMount, CleanupFailedMount, RemoveAfterFailedMount,
         PublishEnsure, BindMount, UnpublishUnmount, UnpublishRemove, UnstageLock,
         UnstageUnmount, UnstageRemove, CleanupMountPoint, RemovePath, AnswerUnmount,
         ReturnLocked, Continue, Goto
<1>4. ~gaveUp[h] => belief[path[h]] = "unknown"
  BY <1>0, <1>1 DEF CallsInOrder
<1> QED
  BY <1>0, <1>1, <1>2, <1>3, <1>4 DEF Return, TypeOK

\* A step on one path that the kubelet has not been told of, or that tells it
\* nothing, is one of the contract.  The invariant does the rest: a path that the
\* kubelet counts on, or counts out, is mounted or not before and after the step.
LEMMA PathStepKeeps ==
    ASSUME StagingKept, UseInv, UseInv', NEW p \in Paths,
           \A q \in Paths \ {p} : mounts'[q] = mounts[q] /\ belief'[q] = belief[q],
           belief[p] = "unknown" \/ belief'[p] = belief[p]
    PROVE  [Contract!Next]_(Contract!vars)
<1>0. /\ belief \in [Paths -> Belief] /\ belief' \in [Paths -> Belief]
      /\ Staging \in Paths /\ Targets \subseteq Paths /\ Paths = Contract!Paths
  BY DEF UseInv, StagedInv, Inv, TypeOK, Belief, Paths, Contract!Paths
<1>1. /\ belief[p] = "no" => p \notin MountedPaths
      /\ belief'[p] = "no" => p \notin MountedPaths'
  BY DEF UseInv, StagedInv, Inv, DirectoryFirst, MountedPaths, Mounted
<1>2. /\ belief[p] = "yes" => p \in MountedPaths
      /\ belief'[p] = "yes" => p \in MountedPaths'
  BY DEF StagingKept, UseInv, StagedInv, MountedWhenTold, MountedPaths, Mounted
<1>3. \/ MountedPaths' = MountedPaths
      \/ MountedPaths' = MountedPaths \cup {p}
      \/ MountedPaths' = MountedPaths \ {p} /\ p \in MountedPaths /\ p \notin MountedPaths'
  <2>1. \A q \in Paths \ {p} : q \in MountedPaths' <=> q \in MountedPaths
    BY DEF MountedPaths, Mounted
  <2>2. MountedPaths \subseteq Paths /\ MountedPaths' \subseteq Paths
    BY DEF MountedPaths
  <2> QED
    BY <2>1, <2>2
<1>4. p = Staging /\ p \in MountedPaths /\ p \notin MountedPaths' => Contract!Unpublished
  BY <1>0, NodeAssumption
  DEF UseInv, StagingStays, Published, MountedPaths, Mounted, Contract!Unpublished
<1>5. Contract!Change(p)
  BY <1>3, <1>4 DEF Contract!Change
<1>6. CASE belief[p] = "unknown"
  <2>1. belief' = [belief EXCEPT ![p] = belief'[p]]
    BY <1>0
  <2>2. Contract!Answer(p, belief'[p])
    BY <1>1, <1>2, <1>5, <1>6, <2>1 DEF Contract!Answer
  <2>3. belief'[p] \in {"no", "unknown", "yes"}
    BY <1>0 DEF Belief
  <2> QED
    BY <1>0, <2>2, <2>3 DEF Contract!Next
<1>7. CASE belief[p] # "unknown"
  <2>1. belief'[p] = belief[p] /\ belief[p] \in {"no", "yes"}
    BY <1>0, <1>7 DEF Belief
  <2>2. belief' = belief
    BY <1>0, <2>1
  <2>3. MountedPaths' = MountedPaths
    BY <1>1, <1>2, <1>3, <2>1
  <2> QED
    BY <2>2, <2>3 DEF Contract!vars
<1> QED
  BY <1>6, <1>7

\* A call of the kubelet.
LEMMA CallKeeps ==
    ASSUME NEW h \in Handlers, NEW s, NEW p \in Paths, Call(h, s, p),
           IF p = Staging THEN belief[Staging] # "yes" \/ Contract!Unpublished
           ELSE belief[Staging] = "yes" \/ belief[p] # "no"
    PROVE  [Contract!Next]_(Contract!vars)
<1>1. UNCHANGED MountedPaths
  BY DEF Call, MountedPaths, Mounted
<1>2. Contract!Ask(p)
  BY <1>1 DEF Contract!Ask, Call
<1>3. p \in Contract!Paths
  BY DEF Contract!Paths, Paths
<1> QED
  BY <1>2, <1>3 DEF Contract!Next

\* Every step is one of the contract, or one that the kubelet does not see.
LEMMA StepKeeps ==
    ASSUME StagingKept, UseInv, UseInv', [Next]_vars
    PROVE  [Contract!Next]_(Contract!vars)
<1>0. Staging \in Paths /\ Targets \subseteq Paths /\ Mode = "staged" /\ Paths = Contract!Paths
  BY DEF Paths, StagingKept, Contract!Paths
<1>1. ASSUME NEW h \in Handlers, Step(h) PROVE [Contract!Next]_(Contract!vars)
  BY <1>1, StepOnPath, PathStepKeeps
<1>2. ASSUME NEW h \in Handlers, NodeStageVolume(h) PROVE [Contract!Next]_(Contract!vars)
  BY <1>0, <1>2, CallKeeps DEF NodeStageVolume
<1>3. ASSUME NEW h \in Handlers, NodeUnstageVolume(h) PROVE [Contract!Next]_(Contract!vars)
  <2>1. Contract!Unpublished
    BY <1>3 DEF NodeUnstageVolume, Contract!Unpublished
  <2> QED
    BY <1>0, <1>3, <2>1, CallKeeps DEF NodeUnstageVolume
<1>4. ASSUME NEW h \in Handlers, NEW t \in Targets, NodePublishVolume(h, t) \/ NodeUnpublishVolume(h, t)
      PROVE  [Contract!Next]_(Contract!vars)
  <2>1. t # Staging /\ t \in Paths
    BY <1>0, NodeAssumption
  <2> QED
    BY <1>0, <1>4, <2>1, CallKeeps DEF NodePublishVolume, NodeUnpublishVolume
<1>5. ASSUME NEW p \in Paths, LateMountLands(p) PROVE [Contract!Next]_(Contract!vars)
  <2>1. \A q \in Paths \ {p} : mounts'[q] = mounts[q]
    BY <1>5, LandOK DEF LateMountLands, UseInv, StagedInv, Inv
  <2> QED
    BY <1>5, <2>1, PathStepKeeps DEF LateMountLands
<1>6. ASSUME KubeletRestarts PROVE [Contract!Next]_(Contract!vars)
  <2>1. UNCHANGED MountedPaths
    BY <1>6 DEF KubeletRestarts, node, MountedPaths, Mounted
  <2>2. Contract!Forget
    BY <1>0, <1>6, <2>1 DEF KubeletRestarts, Contract!Forget
  <2> QED
    BY <2>2 DEF Contract!Next
<1>7. ASSUME UNCHANGED <<mounts, belief>> PROVE [Contract!Next]_(Contract!vars)
  BY <1>7 DEF Contract!vars, MountedPaths, Mounted
<1> QED
  BY <1>1, <1>2, <1>3, <1>4, <1>5, <1>6, <1>7
  DEF Next, CallerGivesUp, PodComes, PodGoes, LateMountFails, FuseDies, DriverRestarts, node, vars

(***************************************************************************)
(* Under the same condition the node service implements MountContract: a   *)
(* path changes only while the kubelet has no answer for it, every answer  *)
(* is true of its path, and the staging path is unmounted only after all   *)
(* pods' paths.                                                            *)
(***************************************************************************)
THEOREM ContractIsKept ==
    ASSUME StagingKept
    PROVE  Spec => KeepsContract
<1>1. Init => Contract!Init
  BY DEF Init, Contract!Init, Contract!Paths, Paths, MountedPaths, Mounted
<1> QED
  BY <1>1, UseInit, UseStep, StepKeeps, PTL DEF Spec, KeepsContract, Contract!Spec
=============================================================================
