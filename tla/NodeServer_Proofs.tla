-------------------------- MODULE NodeServer_Proofs --------------------------
(***************************************************************************)
(* Proofs about NodeServer: its state keeps its types, and what the        *)
(* kubelet was told is unmounted stays unmounted.                          *)
(***************************************************************************)
EXTENDS NodeServer, SequenceTheorems, TLAPS

Belief == {"no", "unknown", "yes"}

\* What the handlers and the kubelet's view are made of.
HandlersOK ==
    /\ locks \subseteq Paths
    /\ pc \in [Handlers -> Steps]
    /\ path \in [Handlers -> Paths \cup {None}]
    /\ gaveUp \in [Handlers -> BOOLEAN]
    /\ belief \in [Paths -> Belief]
NodeOK ==
    /\ dir \in [Paths -> BOOLEAN]
    /\ mounts \in [Paths -> Seq(Fs \cup {Bare})]
    /\ late \in [Paths -> 0..MaxLate]
    /\ dead \subseteq Fs
    /\ prepared \in BOOLEAN
OutsideOK ==
    /\ pods \in [Targets -> {"coming", "here", "gone"}]
    /\ mishaps \in 0..MaxMishaps

\* TypeOK in parts.
LEMMA TypeParts == TypeOK <=> HandlersOK /\ NodeOK /\ OutsideOK
BY DEF TypeOK, HandlersOK, NodeOK, OutsideOK, Belief

\* The initial state has its types, and the calls are in order.
LEMMA InitOK == Init => TypeOK /\ CallsInOrder /\ DirectoryFirst
<1> SUFFICES ASSUME Init PROVE TypeOK /\ CallsInOrder /\ DirectoryFirst
  OBVIOUS
<1>1. HandlersOK
  BY NodeAssumption DEF Init, HandlersOK, Steps, Belief
<1>2. NodeOK
  <2>1. mounts \in [Paths -> Seq(Fs \cup {Bare})]
    BY EmptySeq DEF Init
  <2>2. late \in [Paths -> 0..MaxLate]
    BY NodeAssumption DEF Init
  <2>3. prepared \in BOOLEAN /\ dir \in [Paths -> BOOLEAN] /\ dead \subseteq Fs
    BY DEF Init
  <2>4. QED
    BY <2>1, <2>2, <2>3 DEF NodeOK
<1>3. OutsideOK
  BY NodeAssumption DEF Init, OutsideOK
<1>4. CallsInOrder
  BY NodeAssumption DEF Init, CallsInOrder, Prompt
<1>5. DirectoryFirst
  BY DEF Init, DirectoryFirst
<1>6. QED
  BY <1>1, <1>2, <1>3, <1>4, <1>5, TypeParts

\* A handler that serves a call works on a path.
LEMMA Working ==
    ASSUME TypeOK, CallsInOrder, NEW h \in Handlers, pc[h] # "idle"
    PROVE  path[h] \in Paths
BY DEF TypeOK, CallsInOrder

\* A call that returns leaves the handlers and the kubelet's view in order.
LEMMA ReturnOK ==
    ASSUME TypeOK, CallsInOrder, NEW h \in Handlers, pc[h] # "idle",
           NEW b \in Belief, Return(h, b), locks' \in {locks, locks \ {path[h]}}
    PROVE  /\ HandlersOK' /\ CallsInOrder'
           /\ \A p \in Paths : belief'[p] = "no" => belief[p] = "no" \/ (b = "no" /\ p = path[h])
<1>1. path[h] \in Paths
  BY Working
<1>2. HandlersOK'
  BY DEF TypeOK, Return, Steps, HandlersOK, Belief
<1>3. CallsInOrder'
  BY <1>1, NodeAssumption DEF TypeOK, Return, CallsInOrder, Prompt
<1>4. QED
  BY <1>1, <1>2, <1>3 DEF TypeOK, Return, Belief

\* So does one that goes on, unless it turns back to a step that waits for nothing.
LEMMA GotoOK ==
    ASSUME TypeOK, CallsInOrder, NEW h \in Handlers, pc[h] # "idle",
           NEW step \in Steps \ {"idle"}, step \in Prompt => pc[h] \in Prompt,
           Goto(h, step), locks' \in {locks, locks \cup {path[h]}}
    PROVE  HandlersOK' /\ CallsInOrder' /\ UNCHANGED belief
<1>1. path[h] \in Paths
  BY Working
<1>2. HandlersOK'
  BY <1>1 DEF TypeOK, Goto, HandlersOK, Belief
<1>3. CallsInOrder'
  BY <1>1 DEF TypeOK, Goto, CallsInOrder, Prompt
<1>4. QED
  BY <1>2, <1>3 DEF Goto

\* So does a new call.
LEMMA CallOK ==
    ASSUME TypeOK, CallsInOrder, NEW h \in Handlers, NEW p \in Paths,
           NEW step \in Steps \ {"idle"}, Call(h, step, p)
    PROVE  /\ HandlersOK' /\ CallsInOrder' /\ UNCHANGED <<mounts, late, dead, prepared, pods, mishaps>>
           /\ \A q \in Paths : belief'[q] = "no" => belief[q] = "no" /\ q # p
<1>1. HandlersOK'
  BY DEF TypeOK, Call, HandlersOK, Belief
<1>2. CallsInOrder'
  BY NodeAssumption DEF TypeOK, Call, CallsInOrder
<1>3. QED
  BY <1>1, <1>2 DEF TypeOK, Call

\* Something that goes wrong is counted within the bound.
LEMMA MishapOK ==
    ASSUME TypeOK, \/ UNCHANGED mishaps
                   \/ \E f \in AllFaults : Mishap(f)
    PROVE  mishaps' \in 0..MaxMishaps
BY NodeAssumption DEF TypeOK, Mishap

\* Mounting and unmounting keep the stacks of mounts.
LEMMA MountsType ==
    ASSUME TypeOK, NEW p \in Paths
    PROVE  /\ \A f \in Fs \cup {Bare} : Push(p, f) => mounts' \in [Paths -> Seq(Fs \cup {Bare})]
           /\ Mounted(p) /\ Unmount(p) => mounts' \in [Paths -> Seq(Fs \cup {Bare})]
           /\ Mounted(p) => Top(p) \in Fs \cup {Bare}
<1>1. mounts[p] \in Seq(Fs \cup {Bare})
  BY DEF TypeOK
<1>2. ASSUME NEW f \in Fs \cup {Bare}, Push(p, f)
      PROVE  mounts' \in [Paths -> Seq(Fs \cup {Bare})]
  <2>1. Append(mounts[p], f) \in Seq(Fs \cup {Bare})
    BY <1>1, AppendProperties
  <2>2. QED
    BY <1>2, <2>1 DEF TypeOK, Push
<1>3. ASSUME Mounted(p), Unmount(p)
      PROVE  mounts' \in [Paths -> Seq(Fs \cup {Bare})]
  <2>1. SubSeq(mounts[p], 1, Len(mounts[p]) - 1) \in Seq(Fs \cup {Bare})
    BY <1>1, <1>3, EmptySeq, LenProperties, SubSeqProperties DEF Mounted
  <2>2. QED
    BY <1>3, <2>1 DEF TypeOK, Unmount
<1>4. Mounted(p) => Top(p) \in Fs \cup {Bare}
  BY <1>1, EmptySeq, LenProperties, ElementOfSeq DEF Mounted, Top
<1>5. QED
  BY <1>2, <1>3, <1>4

\* A mount that lands keeps the types and finds a directory.
LEMMA LandOK ==
    ASSUME TypeOK, NEW p \in Paths, Land(p)
    PROVE  /\ mounts' \in [Paths -> Seq(Fs \cup {Bare})] /\ dead' \subseteq Fs
           /\ dir[p] /\ \A q \in Paths : q # p => mounts'[q] = mounts[q]
<1>1. PICK f \in Fs : Push(p, f) /\ dead' = dead \ {f}
  BY DEF Land
<1>2. QED
  BY <1>1, MountsType DEF Land, Push, TypeOK
-----------------------------------------------------------------------------
Inv == TypeOK /\ CallsInOrder /\ DirectoryFirst

\* What is left to show of a step once the handlers are known to be in order: the
\* node has its types, and directories come before mounts.
LEMMA InvFromParts ==
    ASSUME HandlersOK', NodeOK', OutsideOK', CallsInOrder', DirectoryFirst'
    PROVE  Inv'
BY DEF Inv, TypeOK, HandlersOK, NodeOK, OutsideOK, Belief

\* A step that leaves directories and mounts alone, and tells the kubelet nothing
\* of an unmounted path, keeps directories first.
LEMMA DirectoryFrame ==
    ASSUME DirectoryFirst, UNCHANGED <<dir, mounts>>,
           \A p \in Paths : belief'[p] = "no" => belief[p] = "no"
    PROVE  DirectoryFirst'
BY DEF DirectoryFirst

\* The steps of NodeStageVolume keep the invariant.
LEMMA StageStep ==
    ASSUME Inv, NEW h \in Handlers,
           \/ StageLock(h) \/ StageEnsure(h) \/ StageUnmountStale(h) \/ GetAuthEnv(h)
           \/ MountNFS(h) \/ SetupNFS(h) \/ MountBlobfuse(h) \/ WaitForMount(h)
           \/ CleanupFailedMount(h) \/ RemoveAfterFailedMount(h)
    PROVE  Inv'
<1> USE DEF Inv
<1>0. pc[h] # "idle"
  BY DEF StageLock, StageEnsure, StageUnmountStale, GetAuthEnv, MountNFS, SetupNFS,
         MountBlobfuse, WaitForMount, CleanupFailedMount, RemoveAfterFailedMount
<1>p. path[h] \in Paths
  BY <1>0, Working
<1>t. HandlersOK /\ NodeOK /\ OutsideOK
  BY TypeParts
<1>r. ASSUME NEW b \in Belief \ {"no"}, ReturnLocked(h, b) \/ (Return(h, b) /\ UNCHANGED locks)
      PROVE  HandlersOK' /\ CallsInOrder' /\ \A p \in Paths : belief'[p] = "no" => belief[p] = "no"
  BY <1>0, <1>r, ReturnOK DEF ReturnLocked
<1>g. ASSUME NEW step \in Steps \ (Prompt \cup {"idle"}), Continue(h, step)
      PROVE  HandlersOK' /\ CallsInOrder' /\ UNCHANGED belief
  BY <1>0, <1>g, GotoOK DEF Continue
<1>m. ASSUME \/ UNCHANGED mishaps
             \/ \E f \in AllFaults : Mishap(f)
      PROVE  mishaps' \in 0..MaxMishaps
  BY <1>m, MishapOK
<1> HIDE DEF Inv
<1>f. TypeOK /\ CallsInOrder /\ DirectoryFirst
  BY DEF Inv
<1>1. CASE StageLock(h)
  <2>1. NodeOK' /\ OutsideOK'
    BY <1>1, <1>t DEF StageLock, NodeOK, OutsideOK, node
  <2>2. HandlersOK' /\ CallsInOrder' /\ \A p \in Paths : belief'[p] = "no" => belief[p] = "no"
    <3>1. CASE \E b \in {"yes", "unknown"} : Return(h, b) /\ UNCHANGED locks
      BY <3>1, <1>r DEF Belief
    <3>2. CASE Goto(h, "ensure") /\ locks' = locks \cup {path[h]}
      BY <1>1, <3>2, <1>f, <1>0, GotoOK DEF Steps, Prompt, StageLock
    <3>3. QED
      BY <1>1, <3>1, <3>2 DEF StageLock
  <2>3. QED
    BY <1>1, <2>1, <2>2, <1>f, DirectoryFrame, InvFromParts DEF StageLock, node
<1>2. CASE StageEnsure(h)
  <2>1. NodeOK' /\ OutsideOK'
    BY <1>2, <1>t, <1>p, <1>m DEF StageEnsure, NodeOK, OutsideOK, AllFaults
  <2>2. HandlersOK' /\ CallsInOrder' /\ \A p \in Paths : belief'[p] = "no" => belief[p] = "no"
    BY <1>2, <1>r, <1>g DEF StageEnsure, Belief, Steps, Prompt
  <2>3. belief[path[h]] = "unknown"
    BY <1>2, <1>f DEF StageEnsure, CallsInOrder, Prompt
  <2>4. DirectoryFirst'
    BY <1>2, <2>2, <2>3, <1>f, <1>t DEF StageEnsure, DirectoryFirst, NodeOK
  <2>5. QED
    BY <2>1, <2>2, <2>4, InvFromParts
<1>3. CASE StageUnmountStale(h)
  <2>1. NodeOK' /\ OutsideOK'
    BY <1>3, <1>t, <1>p, <1>m, <1>f, MountsType DEF StageUnmountStale, NodeOK, OutsideOK, AllFaults
  <2>2. HandlersOK' /\ CallsInOrder' /\ \A p \in Paths : belief'[p] = "no" => belief[p] = "no"
    BY <1>3, <1>r DEF StageUnmountStale, Belief
  <2>3. DirectoryFirst'
    BY <1>3, <2>2, <1>f, <1>t, <1>p DEF StageUnmountStale, DirectoryFirst, NodeOK, Unmount, Mounted
  <2>4. QED
    BY <2>1, <2>2, <2>3, InvFromParts
<1>4. CASE GetAuthEnv(h)
  <2>1. NodeOK' /\ OutsideOK'
    BY <1>4, <1>t, <1>m DEF GetAuthEnv, AuthEnvFails, NodeOK, OutsideOK, AllFaults, node
  <2>2. HandlersOK' /\ CallsInOrder' /\ \A p \in Paths : belief'[p] = "no" => belief[p] = "no"
    BY <1>4, <1>r, <1>g DEF GetAuthEnv, Belief, Steps, Prompt
  <2>3. QED
    BY <1>4, <2>1, <2>2, <1>f, DirectoryFrame, InvFromParts DEF GetAuthEnv, node
<1>5. CASE MountNFS(h)
  <2>1. NodeOK' /\ OutsideOK'
    <3>1. mounts' \in [Paths -> Seq(Fs \cup {Bare})] /\ dead' \subseteq Fs
      BY <1>5, <1>t, <1>p, <1>f, LandOK DEF MountNFS, NodeOK
    <3>2. late' \in [Paths -> 0..MaxLate]
      <4>1. CASE UNCHANGED late
        BY <4>1, <1>t DEF NodeOK
      <4>2. CASE late[path[h]] < MaxLate /\ late' = [late EXCEPT ![path[h]] = @ + 1]
        BY <4>2, <1>t, <1>p, NodeAssumption DEF NodeOK
      <4>3. QED
        BY <1>5, <4>1, <4>2 DEF MountNFS
    <3>3. mishaps' \in 0..MaxMishaps
      BY <1>5, <1>m DEF MountNFS, AllFaults
    <3>4. QED
      BY <1>5, <3>1, <3>2, <3>3, <1>t DEF MountNFS, NodeOK, OutsideOK
  <2>2. HandlersOK' /\ CallsInOrder' /\ \A p \in Paths : belief'[p] = "no" => belief[p] = "no"
    BY <1>5, <1>r, <1>g DEF MountNFS, Belief, Steps, Prompt
  <2>3. DirectoryFirst'
    BY <1>5, <2>2, <1>f, <1>p, LandOK DEF MountNFS, DirectoryFirst
  <2>4. QED
    BY <2>1, <2>2, <2>3, InvFromParts
<1>6. CASE SetupNFS(h)
  <2>1. NodeOK' /\ OutsideOK'
    <3>1. prepared' \in BOOLEAN
      BY <1>6, <1>t DEF SetupNFS, chmodIfPermissionMismatch, NodeOK, Mounted
    <3>2. QED
      BY <1>6, <3>1, <1>t, <1>m DEF SetupNFS, chmodIfPermissionMismatch, NodeOK, OutsideOK, AllFaults
  <2>2. HandlersOK' /\ CallsInOrder' /\ \A p \in Paths : belief'[p] = "no" => belief[p] = "no"
    BY <1>6, <1>r DEF SetupNFS, chmodIfPermissionMismatch, Belief
  <2>3. QED
    BY <1>6, <2>1, <2>2, <1>f, DirectoryFrame, InvFromParts DEF SetupNFS, chmodIfPermissionMismatch
<1>7. CASE MountBlobfuse(h)
  <2>1. NodeOK' /\ OutsideOK'
    <3>1. mounts' \in [Paths -> Seq(Fs \cup {Bare})] /\ dead' \subseteq Fs
      BY <1>7, <1>t, <1>p, <1>f, LandOK DEF MountBlobfuse, MountAzureBlob, NodeOK
    <3>2. late' \in [Paths -> 0..MaxLate]
      <4>1. CASE UNCHANGED late
        BY <4>1, <1>t DEF NodeOK
      <4>2. CASE late[path[h]] < MaxLate /\ late' = [late EXCEPT ![path[h]] = @ + 1]
        BY <4>2, <1>t, <1>p, NodeAssumption DEF NodeOK
      <4>3. QED
        BY <1>7, <4>1, <4>2 DEF MountBlobfuse, MountAzureBlob
    <3>3. mishaps' \in 0..MaxMishaps
      BY <1>7, <1>m DEF MountBlobfuse, MountAzureBlob, AllFaults
    <3>4. QED
      BY <1>7, <3>1, <3>2, <3>3, <1>t DEF MountBlobfuse, MountAzureBlob, NodeOK, OutsideOK
  <2>2. HandlersOK' /\ CallsInOrder' /\ UNCHANGED belief
    BY <1>7, <1>g DEF MountBlobfuse, MountAzureBlob, Steps, Prompt
  <2>3. DirectoryFirst'
    BY <1>7, <2>2, <1>f, <1>p, LandOK DEF MountBlobfuse, MountAzureBlob, DirectoryFirst
  <2>4. QED
    BY <2>1, <2>2, <2>3, InvFromParts
<1>8. CASE WaitForMount(h)
  <2>1. NodeOK' /\ OutsideOK'
    BY <1>8, <1>t DEF WaitForMount, NodeOK, OutsideOK, node
  <2>2. HandlersOK' /\ CallsInOrder' /\ \A p \in Paths : belief'[p] = "no" => belief[p] = "no"
    BY <1>8, <1>r DEF WaitForMount, Belief
  <2>3. QED
    BY <1>8, <2>1, <2>2, <1>f, DirectoryFrame, InvFromParts DEF WaitForMount, node
<1>9. CASE CleanupFailedMount(h)
  <2>1. NodeOK' /\ OutsideOK'
    BY <1>9, <1>t, <1>p, <1>m, <1>f, MountsType
       DEF CleanupFailedMount, NodeOK, OutsideOK, AllFaults, Healthy
  <2>2. HandlersOK' /\ CallsInOrder' /\ \A p \in Paths : belief'[p] = "no" => belief[p] = "no"
    BY <1>9, <1>r, <1>g DEF CleanupFailedMount, Belief, Steps, Prompt
  <2>3. DirectoryFirst'
    BY <1>9, <2>2, <1>f, <1>t, <1>p DEF CleanupFailedMount, DirectoryFirst, NodeOK, Unmount, Mounted, Healthy
  <2>4. QED
    BY <2>1, <2>2, <2>3, InvFromParts
<1>10. CASE RemoveAfterFailedMount(h)
  <2>1. NodeOK' /\ OutsideOK'
    BY <1>10, <1>t, <1>p DEF RemoveAfterFailedMount, NodeOK, OutsideOK, Mounted
  <2>2. HandlersOK' /\ CallsInOrder' /\ \A p \in Paths : belief'[p] = "no" => belief[p] = "no"
    BY <1>10, <1>r DEF RemoveAfterFailedMount, Belief
  <2>3. DirectoryFirst'
    BY <1>10, <2>2, <1>f, <1>t, <1>p DEF RemoveAfterFailedMount, DirectoryFirst, NodeOK, Mounted
  <2>4. QED
    BY <2>1, <2>2, <2>3, InvFromParts
<1>11. QED
  BY <1>1, <1>2, <1>3, <1>4, <1>5, <1>6, <1>7, <1>8, <1>9, <1>10

\* The steps of NodePublishVolume, NodeUnpublishVolume and NodeUnstageVolume keep
\* the invariant.
LEMMA OtherStep ==
    ASSUME Inv, NEW h \in Handlers,
           \/ PublishEnsure(h) \/ BindMount(h) \/ UnstageLock(h)
           \/ UnpublishUnmount(h) \/ UnpublishRemove(h)
           \/ UnstageUnmount(h) \/ UnstageRemove(h)
    PROVE  Inv'
<1>f. TypeOK /\ CallsInOrder /\ DirectoryFirst
  BY DEF Inv
<1>0. pc[h] # "idle"
  BY DEF PublishEnsure, BindMount, UnstageLock, UnpublishUnmount, UnpublishRemove,
         UnstageUnmount, UnstageRemove
<1>p. path[h] \in Paths
  BY <1>0, <1>f, Working
<1>t. HandlersOK /\ NodeOK /\ OutsideOK
  BY <1>f, TypeParts
<1>r. ASSUME NEW b \in Belief, ReturnLocked(h, b) \/ (Return(h, b) /\ UNCHANGED locks)
      PROVE  /\ HandlersOK' /\ CallsInOrder'
             /\ \A p \in Paths : belief'[p] = "no" => belief[p] = "no" \/ (b = "no" /\ p = path[h])
  BY <1>0, <1>f, <1>r, ReturnOK DEF ReturnLocked
<1>g. ASSUME NEW step \in Steps \ (Prompt \cup {"idle"}), Goto(h, step), locks' \in {locks, locks \cup {path[h]}}
      PROVE  HandlersOK' /\ CallsInOrder' /\ UNCHANGED belief
  BY <1>0, <1>f, <1>g, GotoOK
<1>m. ASSUME \/ UNCHANGED mishaps
             \/ \E f \in AllFaults : Mishap(f)
      PROVE  mishaps' \in 0..MaxMishaps
  BY <1>f, <1>m, MishapOK
<1>1. CASE PublishEnsure(h)
  <2>1. NodeOK' /\ OutsideOK'
    BY <1>1, <1>t, <1>p, <1>m DEF PublishEnsure, NodeOK, OutsideOK, AllFaults
  <2>2. HandlersOK' /\ CallsInOrder' /\ \A p \in Paths : belief'[p] = "no" => belief[p] = "no"
    <3>1. CASE \E b \in {"yes", "unknown"} : Return(h, b)
      BY <1>1, <3>1, <1>r DEF Belief, PublishEnsure
    <3>2. CASE Goto(h, "stage")
      BY <1>1, <3>2, <1>f, <1>0, GotoOK DEF Steps, Prompt, PublishEnsure
    <3>3. CASE Goto(h, "bind")
      BY <1>1, <3>3, <1>g DEF Steps, Prompt, PublishEnsure
    <3>4. QED
      BY <1>1, <3>1, <3>2, <3>3 DEF PublishEnsure
  <2>3. belief[path[h]] = "unknown"
    BY <1>1, <1>f DEF PublishEnsure, CallsInOrder, Prompt
  <2>4. DirectoryFirst'
    BY <1>1, <2>2, <2>3, <1>f, <1>t DEF PublishEnsure, DirectoryFirst, NodeOK
  <2>5. QED
    BY <2>1, <2>2, <2>4, InvFromParts
<1>2. CASE BindMount(h)
  <2>1. mounts' \in [Paths -> Seq(Fs \cup {Bare})]
    <3>1. Mounted(Staging) => Top(Staging) \in Fs \cup {Bare}
      BY <1>f, MountsType DEF Paths
    <3>2. QED
      BY <1>2, <3>1, <1>f, <1>t, <1>p, MountsType DEF BindMount, NodeOK
  <2>2. NodeOK' /\ OutsideOK'
    BY <1>2, <2>1, <1>t, <1>p, <1>m DEF BindMount, NodeOK, OutsideOK, AllFaults, Mounted
  <2>3. HandlersOK' /\ CallsInOrder' /\ \A p \in Paths : belief'[p] = "no" => belief[p] = "no"
    BY <1>2, <1>r DEF BindMount, Belief
  <2>4. DirectoryFirst'
    BY <1>2, <2>3, <1>f, <1>t, <1>p DEF BindMount, DirectoryFirst, NodeOK, Push, Mounted
  <2>5. QED
    BY <2>2, <2>3, <2>4, InvFromParts
<1>3. CASE UnstageLock(h)
  <2>1. NodeOK' /\ OutsideOK'
    BY <1>3, <1>t DEF UnstageLock, NodeOK, OutsideOK, node
  <2>2. HandlersOK' /\ CallsInOrder' /\ \A p \in Paths : belief'[p] = "no" => belief[p] = "no"
    BY <1>3, <1>r, <1>g DEF UnstageLock, Belief, Steps, Prompt
  <2>3. QED
    BY <1>3, <2>1, <2>2, <1>f, DirectoryFrame, InvFromParts DEF UnstageLock, node
<1>a. ASSUME NEW b \in Belief, AnswerUnmount(h, b)
      PROVE  /\ HandlersOK' /\ CallsInOrder'
             /\ \A p \in Paths : belief'[p] = "no" => belief[p] = "no" \/ (b = "no" /\ p = path[h])
  BY <1>a, <1>r DEF AnswerUnmount, ReturnLocked
<1>4. ASSUME UnpublishUnmount(h) \/ UnstageUnmount(h)
      PROVE  Inv'
  <2>1. NodeOK' /\ OutsideOK'
    BY <1>4, <1>t, <1>p, <1>m, <1>f, MountsType
       DEF UnpublishUnmount, UnstageUnmount, CleanupMountPoint, NodeOK, OutsideOK, AllFaults
  <2>2. /\ HandlersOK' /\ CallsInOrder'
        /\ \A p \in Paths : belief'[p] = "no" => belief[p] = "no" \/ (~dir[p] /\ p = path[h])
    BY <1>4, <1>a, <1>g DEF UnpublishUnmount, UnstageUnmount, CleanupMountPoint,
                            Continue, Belief, Steps, Prompt
  <2>3. DirectoryFirst'
    BY <1>4, <2>2, <1>f, <1>t, <1>p
       DEF UnpublishUnmount, UnstageUnmount, CleanupMountPoint, DirectoryFirst, NodeOK, Unmount, Mounted
  <2>4. QED
    BY <2>1, <2>2, <2>3, InvFromParts
<1>5. ASSUME UnpublishRemove(h) \/ UnstageRemove(h)
      PROVE  Inv'
  <2>1. NodeOK' /\ OutsideOK'
    BY <1>5, <1>t, <1>p DEF UnpublishRemove, UnstageRemove, RemovePath, NodeOK, OutsideOK, Mounted
  <2>2. /\ HandlersOK' /\ CallsInOrder'
        /\ \A p \in Paths : belief'[p] = "no" => belief[p] = "no" \/ (~Mounted(p) /\ p = path[h])
    BY <1>5, <1>a DEF UnpublishRemove, UnstageRemove, RemovePath, Belief
  <2>3. DirectoryFirst'
    BY <1>5, <2>2, <1>f, <1>t, <1>p
       DEF UnpublishRemove, UnstageRemove, RemovePath, DirectoryFirst, NodeOK, Mounted
  <2>4. QED
    BY <2>1, <2>2, <2>3, InvFromParts
<1>6. QED
  BY <1>1, <1>2, <1>3, <1>4, <1>5

\* Calls by the kubelet and what happens on the node keep the invariant.
LEMMA EnvironmentStep ==
    ASSUME Inv,
           \/ \E h \in Handlers : NodeStageVolume(h) \/ NodeUnstageVolume(h) \/ CallerGivesUp(h)
           \/ \E h \in Handlers, t \in Targets : NodePublishVolume(h, t) \/ NodeUnpublishVolume(h, t)
           \/ \E t \in Targets : PodComes(t) \/ PodGoes(t)
           \/ \E p \in Paths : LateMountLands(p) \/ LateMountFails(p)
           \/ \E f \in Fs : FuseDies(f)
           \/ DriverRestarts \/ KubeletRestarts
    PROVE  Inv'
<1>f. TypeOK /\ CallsInOrder /\ DirectoryFirst
  BY DEF Inv
<1>t. HandlersOK /\ NodeOK /\ OutsideOK
  BY <1>f, TypeParts
<1>m. ASSUME \E f \in AllFaults : Mishap(f)
      PROVE  mishaps' \in 0..MaxMishaps
  BY <1>f, <1>m, MishapOK
<1>1. ASSUME NEW h \in Handlers, NEW p \in Paths, NEW step \in Steps \ {"idle"},
             Call(h, step, p), dir' \in {dir, [dir EXCEPT ![p] = TRUE]}
      PROVE  Inv'
  <2>1. NodeOK' /\ OutsideOK'
    BY <1>1, <1>f, <1>t, CallOK DEF NodeOK, OutsideOK
  <2>2. DirectoryFirst'
    BY <1>1, <1>f, <1>t, CallOK DEF DirectoryFirst, NodeOK
  <2>3. QED
    BY <1>1, <1>f, <2>1, <2>2, CallOK, InvFromParts
<1>2. ASSUME NEW h \in Handlers, NodeStageVolume(h) \/ NodeUnstageVolume(h)
      PROVE  Inv'
  BY <1>1, <1>2 DEF NodeStageVolume, NodeUnstageVolume, Steps, Paths
<1>3. ASSUME NEW h \in Handlers, NEW t \in Targets, NodePublishVolume(h, t) \/ NodeUnpublishVolume(h, t)
      PROVE  Inv'
  BY <1>1, <1>3 DEF NodePublishVolume, NodeUnpublishVolume, Steps, Paths
<1>4. ASSUME NEW h \in Handlers, CallerGivesUp(h)
      PROVE  Inv'
  <2>1. HandlersOK' /\ NodeOK' /\ OutsideOK'
    BY <1>4, <1>t, <1>m DEF CallerGivesUp, HandlersOK, NodeOK, OutsideOK, node, AllFaults
  <2>2. CallsInOrder'
    BY <1>4, <1>t, <1>f DEF CallerGivesUp, CallsInOrder, HandlersOK
  <2>3. QED
    BY <1>4, <2>1, <2>2, <1>f, DirectoryFrame, InvFromParts DEF CallerGivesUp, node
<1>5. ASSUME NEW t \in Targets, PodComes(t) \/ PodGoes(t)
      PROVE  Inv'
  <2>1. HandlersOK' /\ NodeOK' /\ OutsideOK'
    BY <1>5, <1>t DEF PodComes, PodGoes, HandlersOK, NodeOK, OutsideOK, node, handlers
  <2>2. CallsInOrder'
    BY <1>5, <1>f DEF PodComes, PodGoes, CallsInOrder, handlers
  <2>3. QED
    BY <1>5, <2>1, <2>2, <1>f, DirectoryFrame, InvFromParts DEF PodComes, PodGoes, node
<1>6. ASSUME NEW p \in Paths, LateMountLands(p) \/ LateMountFails(p)
      PROVE  Inv'
  <2>1. late' \in [Paths -> 0..MaxLate]
    <3>1. late[p] > 0 /\ late' = [late EXCEPT ![p] = @ - 1]
      BY <1>6 DEF LateMountLands, LateMountFails
    <3>2. late \in [Paths -> 0..MaxLate]
      BY <1>t DEF NodeOK
    <3>3. late[p] - 1 \in 0..MaxLate
      BY <3>1, <3>2, NodeAssumption
    <3>4. QED
      BY <3>1, <3>2, <3>3
  <2>2. HandlersOK' /\ NodeOK' /\ OutsideOK'
    BY <1>6, <2>1, <1>t, <1>f, LandOK
       DEF LateMountLands, LateMountFails, HandlersOK, NodeOK, OutsideOK, handlers
  <2>3. CallsInOrder'
    BY <1>6, <1>f DEF LateMountLands, LateMountFails, CallsInOrder, handlers
  <2>4. DirectoryFirst'
    BY <1>6, <1>f, LandOK DEF LateMountLands, LateMountFails, DirectoryFirst
  <2>5. QED
    BY <2>2, <2>3, <2>4, InvFromParts
<1>7. ASSUME NEW f \in Fs, FuseDies(f)
      PROVE  Inv'
  <2>1. HandlersOK' /\ NodeOK' /\ OutsideOK'
    BY <1>7, <1>t, <1>m DEF FuseDies, HandlersOK, NodeOK, OutsideOK, handlers, AllFaults
  <2>2. CallsInOrder'
    BY <1>7, <1>f DEF FuseDies, CallsInOrder, handlers
  <2>3. QED
    BY <1>7, <2>1, <2>2, <1>f, DirectoryFrame, InvFromParts DEF FuseDies
<1>8. CASE DriverRestarts
  <2>1. late' \in [Paths -> 0..MaxLate]
    <3>1. late \in [Paths -> 0..MaxLate] /\ MaxLate \in Nat
      BY <1>t, NodeAssumption DEF NodeOK
    <3>2. \A p \in Paths : late[p] < MaxLate => late[p] + 1 \in 0..MaxLate
      BY <3>1
    <3>3. CASE late' = [p \in Paths |-> 0]
      BY <3>1, <3>3
    <3>4. CASE late' = [p \in Paths |->
                        IF late[p] < MaxLate /\ \E h \in Handlers : pc[h] = "mount" /\ path[h] = p
                        THEN late[p] + 1 ELSE late[p]]
      BY <3>1, <3>2, <3>4
    <3>5. QED
      BY <1>8, <3>3, <3>4 DEF DriverRestarts
  <2>2. dead' \subseteq Fs
    <3>1. InUse \subseteq Fs \cup {Bare}
      <4> SUFFICES ASSUME NEW p \in Paths, NEW i \in 1..Len(mounts[p])
                   PROVE  mounts[p][i] \in Fs \cup {Bare}
        BY DEF InUse
      <4>1. mounts[p] \in Seq(Fs \cup {Bare})
        BY <1>t DEF NodeOK
      <4>2. QED
        BY <4>1, ElementOfSeq
    <3>2. QED
      BY <1>8, <3>1, <1>t DEF DriverRestarts, NodeOK
  <2>3. HandlersOK' /\ NodeOK' /\ OutsideOK'
    BY <1>8, <2>1, <2>2, <1>t, <1>m DEF DriverRestarts, HandlersOK, NodeOK, OutsideOK, Steps, AllFaults
  <2>4. CallsInOrder'
    BY <1>8 DEF DriverRestarts, CallsInOrder
  <2>5. QED
    BY <1>8, <2>3, <2>4, <1>f, DirectoryFrame, InvFromParts DEF DriverRestarts
<1>9. CASE KubeletRestarts
  <2>1. HandlersOK'
    BY <1>9, <1>t DEF KubeletRestarts, HandlersOK, Belief
  <2>2. NodeOK' /\ OutsideOK'
    BY <1>9, <1>t, <1>m DEF KubeletRestarts, NodeOK, OutsideOK, node, AllFaults
  <2>3. CallsInOrder'
    BY <1>9, <1>t, <1>f DEF KubeletRestarts, CallsInOrder, HandlersOK
  <2>4. QED
    BY <1>9, <2>1, <2>2, <2>3, <1>f, DirectoryFrame, InvFromParts DEF KubeletRestarts, node
<1>10. QED
  BY <1>2, <1>3, <1>4, <1>5, <1>6, <1>7, <1>8, <1>9

\* Inv is inductive.
LEMMA InvStep == Inv /\ [Next]_vars => Inv'
<1> SUFFICES ASSUME Inv, [Next]_vars PROVE Inv'
  OBVIOUS
<1>1. ASSUME NEW h \in Handlers, Step(h) PROVE Inv'
  BY <1>1, StageStep, OtherStep DEF Step
<1>2. CASE UNCHANGED vars
  BY <1>2 DEF vars, handlers, node, Inv, TypeOK, CallsInOrder, DirectoryFirst
<1>3. QED
  BY <1>1, <1>2, EnvironmentStep DEF Next

\* The state of the handlers, the node and the kubelet keeps its types, for any
\* number of pods, calls and mounts.
THEOREM TypeCorrect == Spec => []TypeOK
<1>1. Init => Inv
  BY InitOK DEF Inv
<1>2. Inv => TypeOK
  BY DEF Inv
<1>3. QED
  BY <1>1, <1>2, InvStep, PTL DEF Spec

\* After NodeUnpublishVolume or NodeUnstageVolume answered OK nothing is mounted on
\* the path before the kubelet's next call for it, whatever abandoned calls and
\* mount commands left behind still do.
THEOREM UnmountsAreFinal == Spec => []UnmountIsFinal
<1>1. Init => Inv
  BY InitOK DEF Inv
<1>2. Inv => UnmountIsFinal
  BY DEF Inv, DirectoryFirst, UnmountIsFinal
<1>3. QED
  BY <1>1, <1>2, InvStep, PTL DEF Spec
=============================================================================
