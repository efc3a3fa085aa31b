----------------------- MODULE BlobController_Proofs -----------------------
(* Proofs about BlobController, for every value of its constants. *)
EXTENDS BlobController, TLAPS

\* What the type of Class says about the parameters of one volume.
LEMMA ClassFacts ==
    ASSUME NEW v \in Vols
    PROVE  /\ Class[v].account \in Accounts \cup {None}
           /\ Class[v].search \in SearchKeys
           /\ Class[v].srcAccount \in Accounts
           /\ Class[v].src \in Names
           /\ Class[v].userNamed \in BOOLEAN
           /\ ContainerOf(v) \in Names
  BY ConstantsAssumption DEF ClassType, ContainerOf, Names

-----------------------------------------------------------------------------
(* Types *)

\* A handler that serves a call has a volume, and one past the choice of an
\* account has an account.
HandlerOK ==
    \A h \in Handlers :
        /\ pc[h] # "idle" => vol[h] \in Vols
        /\ pc[h] \notin {"idle", "arrived", "account", "ensureWait", "ensure"}
           => acct[h] \in Accounts

TypeInv == TypeOK /\ HandlerOK

\* The driver starts in a state of the right types, every handler idle.
LEMMA TypeInit == Init => TypeInv
  BY ConstantsAssumption
  DEF Init, TypeInv, TypeOK, CachesOK, LocalsOK, StoreOK, OutsideOK, HandlerOK,
      Places, Names, VolumeIDs, Steps, LockKeys, JobType, NoJob

\* A call that ends leaves its handler idle.
LEMMA ForgetType ==
    ASSUME TypeInv, NEW h \in Handlers, Goto(h, "idle"), Forget(h)
    PROVE  LocalsOK' /\ HandlerOK'
  BY DEF TypeInv, TypeOK, LocalsOK, HandlerOK, Goto, Forget, Steps

\* A CreateVolume call that fails keeps the types of what it changes.
LEMMA ReturnErrorType ==
    ASSUME TypeInv, NEW h \in Handlers, pc[h] # "idle", ReturnError(h)
    PROVE  /\ LocalsOK' /\ HandlerOK'
           /\ locks' \subseteq LockKeys
           /\ reply' \in [Vols -> {"none", "OK", "Internal"}]
<1>1. LocalsOK' /\ HandlerOK'
  BY ForgetType DEF ReturnError
<1> QED
  BY <1>1 DEF ReturnError, TypeInv, TypeOK, OutsideOK, HandlerOK

\* A step that moves a handler on and keeps its other locals.
LEMMA KeepType ==
    ASSUME TypeInv, NEW h \in Handlers, NEW s \in Steps,
           pc[h] \notin {"idle", "arrived", "account", "ensureWait", "ensure"},
           Goto(h, s), Keep(h)
    PROVE  LocalsOK' /\ HandlerOK'
  BY DEF TypeInv, TypeOK, LocalsOK, HandlerOK, Goto, Keep

\* A job that lives or is listed has a whole record.
LEMMA JobFacts ==
    ASSUME TypeInv, NEW j \in JobIds, jobs[j].alive \/ jobs[j].listed
    PROVE  jobs[j] \in JobRecord
  BY DEF TypeInv, TypeOK, StoreOK, JobType, NoJob

\* Changing a flag or the status of a job record gives a job record.
LEMMA RecordFacts ==
    ASSUME NEW r \in JobRecord, NEW b \in BOOLEAN,
           NEW o \in {"InProgress", "Failed"} \cup Completed
    PROVE  /\ [r EXCEPT !.intact = b] \in JobRecord
           /\ [r EXCEPT !.alive = b] \in JobRecord
           /\ [r EXCEPT !.listed = b] \in JobRecord
           /\ [r EXCEPT !.status = o, !.alive = b] \in JobRecord
  BY DEF JobRecord

\* Deleting a container keeps the types of containers, data and jobs.
LEMMA DeleteBlobContainerType ==
    ASSUME TypeInv, NEW p \in Places, DeleteBlobContainer(p)
    PROVE  StoreOK'
<1>1. ASSUME NEW j \in JobIds PROVE jobs'[j] \in JobType
  BY JobFacts, RecordFacts DEF TypeInv, TypeOK, StoreOK, DeleteBlobContainer, JobType
<1> QED
  BY <1>1 DEF TypeInv, TypeOK, StoreOK, DeleteBlobContainer

\* azcopy jobs clean leaves job records and free slots.
LEMMA CleanJobsType ==
    ASSUME TypeInv PROVE CleanJobs \in [JobIds -> JobType]
<1>1. ASSUME NEW j \in JobIds, jobs[j].alive
      PROVE  [jobs[j] EXCEPT !.listed = @ /\ ~Fault("cleanDropsRunning")] \in JobType
  <2>1. (jobs[j].listed /\ ~Fault("cleanDropsRunning")) \in BOOLEAN
    OBVIOUS
  <2> QED
    BY <1>1, <2>1, JobFacts, RecordFacts DEF JobType
<1> QED
  BY <1>1 DEF CleanJobs, TypeInv, TypeOK, StoreOK, JobType

\* Every step of a handler, of azcopy and of the environment keeps the types.
LEMMA TypeStep == TypeInv /\ [Next]_vars => TypeInv'
<1> SUFFICES ASSUME TypeInv, [Next]_vars PROVE TypeInv'
  OBVIOUS
<1> USE DEF TypeInv, TypeOK, caches, store, outside, locals
<1>1. ASSUME NEW h \in Handlers, AcquireVolume(h) PROVE TypeInv'
  <2>1. CASE <<"name", vol[h]>> \in locks
    BY <1>1, <2>1, ForgetType DEF AcquireVolume, CachesOK, StoreOK, OutsideOK
  <2>2. CASE <<"name", vol[h]>> \notin locks
    <3>1. LocalsOK' /\ HandlerOK'
      BY <1>1, <2>2 DEF AcquireVolume, LocalsOK, HandlerOK, Goto, Keep, Steps
    <3>2. locks' \subseteq LockKeys
      BY <1>1, <2>2 DEF AcquireVolume, HandlerOK, LockKeys
    <3> QED
      BY <1>1, <3>1, <3>2 DEF AcquireVolume, CachesOK, StoreOK, OutsideOK
  <2> QED
    BY <2>1, <2>2
<1>2. ASSUME NEW h \in Handlers, SelectAccount(h) PROVE TypeInv'
  <2>1. LocalsOK' /\ HandlerOK'
    BY <1>2, ClassFacts DEF SelectAccount, LocalsOK, CachesOK, HandlerOK, Goto, Steps, Params
  <2> QED
    BY <1>2, <2>1 DEF SelectAccount, CachesOK, StoreOK, OutsideOK
<1>3. ASSUME NEW h \in Handlers, LockAccountSearch(h) PROVE TypeInv'
  <2>1. LocalsOK' /\ HandlerOK'
    BY <1>3 DEF LockAccountSearch, LocalsOK, HandlerOK, Goto, Keep, Steps
  <2> QED
    BY <1>3, <2>1, ClassFacts DEF LockAccountSearch, CachesOK, StoreOK, OutsideOK, HandlerOK, Params
<1>4. ASSUME NEW h \in Handlers, EnsureStorageAccount(h) PROVE TypeInv'
  <2> DEFINE k == Params(h).search
  <2>0. vol[h] \in Vols /\ k \in SearchKeys /\ match[k] \in Accounts /\ pc[h] = "ensure"
    BY <1>4, ClassFacts DEF EnsureStorageAccount, HandlerOK, OutsideOK, Params
  <2>1. CASE Goto(h, "key") /\ acct' = [acct EXCEPT ![h] = match[k]]
             /\ hasKey' = [hasKey EXCEPT ![h] = TRUE] 
             /\ searchCache' = [searchCache EXCEPT ![k] = match[k]]
             /\ volMap' = [volMap EXCEPT ![vol[h]] = match[k]]
             /\ UNCHANGED <<locks, vol, sas, job, reply>>
    <3>1. LocalsOK' /\ HandlerOK'
      BY <2>0, <2>1 DEF LocalsOK, HandlerOK, Goto, Steps
    <3> QED
      BY <1>4, <2>0, <2>1, <3>1 DEF EnsureStorageAccount, CachesOK, StoreOK, OutsideOK
  <2>2. CASE ReturnError(h) /\ UNCHANGED <<searchCache, volMap>>
    BY <1>4, <2>0, <2>2, ReturnErrorType DEF EnsureStorageAccount, CachesOK, StoreOK, OutsideOK
  <2> QED
    BY <1>4, <2>1, <2>2 DEF EnsureStorageAccount
<1>5. ASSUME NEW h \in Handlers, GetDataPlaneKey(h) PROVE TypeInv'
  <2>1. CASE ReturnError(h)
    BY <1>5, <2>1, ReturnErrorType DEF GetDataPlaneKey, CachesOK, StoreOK, OutsideOK
  <2>2. CASE ~ReturnError(h)
    <3>1. LocalsOK' /\ HandlerOK'
      BY <1>5, <2>2 DEF GetDataPlaneKey, LocalsOK, HandlerOK, Goto, Steps
    <3> QED
      BY <1>5, <2>2, <3>1 DEF GetDataPlaneKey, CachesOK, StoreOK, OutsideOK
  <2> QED
    BY <2>1, <2>2
<1>6. ASSUME NEW h \in Handlers, CreateBlobContainer(h) PROVE TypeInv'
  <2>1. StoreOK' /\ CachesOK'
    BY <1>6 DEF CreateBlobContainer, CachesOK, StoreOK, ReturnError
  <2>2. CASE ReturnError(h)
    BY <1>6, <2>1, <2>2, ReturnErrorType DEF CreateBlobContainer, OutsideOK
  <2>3. CASE ~ReturnError(h)
    <3>1. LocalsOK' /\ HandlerOK'
      BY <1>6, <2>3, KeepType DEF CreateBlobContainer, Steps
    <3> QED
      BY <1>6, <2>1, <2>3, <3>1 DEF CreateBlobContainer, OutsideOK
  <2> QED
    BY <2>2, <2>3
<1>7. ASSUME NEW h \in Handlers, AuthorizeCopy(h) \/ FallbackToSasToken(h) PROVE TypeInv'
  <2>1. LocalsOK' /\ HandlerOK'
    BY <1>7 DEF AuthorizeCopy, FallbackToSasToken, getAzcopyAuth, LocalsOK, HandlerOK, Goto, Steps
  <2>2. CachesOK'
    BY <1>7 DEF AuthorizeCopy, FallbackToSasToken, getAzcopyAuth, CachesOK, HandlerOK
  <2> QED
    BY <1>7, <2>1, <2>2 DEF AuthorizeCopy, FallbackToSasToken, getAzcopyAuth, StoreOK, OutsideOK
<1>8. ASSUME NEW h \in Handlers, CheckCopyJob(h) PROVE TypeInv'
  <2>1. \E s \in Steps : Goto(h, s)
    BY <1>8 DEF CheckCopyJob, Steps, GetAzcopyJob, parseAzcopyJobList
  <2>2. LocalsOK' /\ HandlerOK'
    BY <1>8, <2>1, KeepType DEF CheckCopyJob
  <2>3. CachesOK'
    BY <1>8, ClassFacts DEF CheckCopyJob, CachesOK, HandlerOK, Params
  <2> QED
    BY <1>8, <2>2, <2>3 DEF CheckCopyJob, StoreOK, OutsideOK
<1>9. ASSUME NEW h \in Handlers, StartCopy(h) PROVE TypeInv'
  <2>1. Place(h) \in Places /\ Params(h).src \in Names
    BY <1>9, ClassFacts DEF StartCopy, HandlerOK, Place, Places, Params
  <2>2. LocalsOK' /\ HandlerOK'
    BY <1>9 DEF StartCopy, LocalsOK, HandlerOK, Goto, Steps
  <2>3. StoreOK'
    BY <1>9, <2>1 DEF StartCopy, StoreOK, JobType, JobRecord
  <2> QED
    BY <1>9, <2>2, <2>3 DEF StartCopy, CachesOK, OutsideOK
<1>10. ASSUME NEW h \in Handlers, AwaitCopy(h) \/ PollCopy(h) PROVE TypeInv'
  <2>1. LocalsOK' /\ HandlerOK'
    BY <1>10 DEF AwaitCopy, PollCopy, CopySucceeded, CopyFailed, LocalsOK, HandlerOK, Goto, Steps
  <2>2. StoreOK'
    BY <1>10, CleanJobsType DEF AwaitCopy, PollCopy, CopySucceeded, CopyFailed, StoreOK
  <2> QED
    BY <1>10, <2>1, <2>2 DEF AwaitCopy, PollCopy, CachesOK, OutsideOK
<1>11. ASSUME NEW h \in Handlers, CleanupCheck(h) PROVE TypeInv'
  <2>1. CASE ReturnError(h)
    BY <1>11, <2>1, ReturnErrorType DEF CleanupCheck, CachesOK, StoreOK, OutsideOK
  <2>2. CASE ~ReturnError(h)
    <3>1. LocalsOK' /\ HandlerOK'
      BY <1>11, <2>2, KeepType DEF CleanupCheck, Steps
    <3> QED
      BY <1>11, <2>2, <3>1 DEF CleanupCheck, CachesOK, StoreOK, OutsideOK
  <2> QED
    BY <2>1, <2>2
<1>12. ASSUME NEW h \in Handlers, CleanupDelete(h) PROVE TypeInv'
  <2>1. Place(h) \in Places
    BY <1>12, ClassFacts DEF CleanupDelete, HandlerOK, Place, Places
  <2>2. StoreOK'
    BY <1>12, <2>1, DeleteBlobContainerType DEF CleanupDelete, StoreOK
  <2> QED
    BY <1>12, <2>2, ReturnErrorType DEF CleanupDelete, CachesOK, OutsideOK
<1>13. ASSUME NEW h \in Handlers, StoreAccountKey(h) PROVE TypeInv'
  <2>1. CASE ReturnError(h)
    BY <1>13, <2>1, ReturnErrorType DEF StoreAccountKey, CachesOK, StoreOK, OutsideOK
  <2>2. CASE ~ReturnError(h)
    <3>1. LocalsOK' /\ HandlerOK'
      BY <1>13, <2>2, KeepType DEF StoreAccountKey, Steps
    <3> QED
      BY <1>13, <2>2, <3>1 DEF StoreAccountKey, CachesOK, StoreOK, OutsideOK
  <2> QED
    BY <2>1, <2>2
<1>14. ASSUME NEW h \in Handlers, CreateVolumeResponse(h) PROVE TypeInv'
  <2>1. <<acct[h], vol[h]>> \in VolumeIDs /\ vol[h] \in Vols
    BY <1>14 DEF CreateVolumeResponse, HandlerOK, VolumeIDs
  <2>2. CachesOK'
    BY <1>14, <2>1 DEF CreateVolumeResponse, CachesOK, HandlerOK
  <2>3. OutsideOK' /\ locks' \subseteq LockKeys
    BY <1>14, <2>1 DEF CreateVolumeResponse, OutsideOK
  <2> QED
    BY <1>14, <2>2, <2>3, ForgetType DEF CreateVolumeResponse, StoreOK
<1>15. ASSUME NEW h \in Handlers, DeleteAuth(h) PROVE TypeInv'
  <2>1. LocalsOK' /\ HandlerOK'
    BY <1>15, ForgetType, KeepType DEF DeleteAuth, ReturnDelete, Steps
  <2> QED
    BY <1>15, <2>1 DEF DeleteAuth, ReturnDelete, CachesOK, StoreOK, OutsideOK
<1>16. ASSUME NEW h \in Handlers, DeleteContainer(h) PROVE TypeInv'
  <2>1. Place(h) \in Places
    BY <1>16, ClassFacts DEF DeleteContainer, HandlerOK, Place, Places
  <2>2. StoreOK'
    BY <1>16, <2>1, DeleteBlobContainerType DEF DeleteContainer, StoreOK
  <2>3. LocalsOK' /\ HandlerOK'
    BY <1>16, ForgetType DEF DeleteContainer, ReturnDelete
  <2> QED
    BY <1>16, <2>2, <2>3 DEF DeleteContainer, ReturnDelete, CachesOK, OutsideOK
<1>17. ASSUME NEW h \in Handlers, NEW v \in Vols, CreateVolume(h, v) PROVE TypeInv'
  <2>1. LocalsOK' /\ HandlerOK'
    BY <1>17 DEF CreateVolume, LocalsOK, HandlerOK, Goto, Steps
  <2> QED
    BY <1>17, <2>1 DEF CreateVolume, CachesOK, StoreOK, OutsideOK
<1>18. ASSUME NEW h \in Handlers, NEW id \in VolumeIDs, DeleteVolume(h, id) PROVE TypeInv'
  <2>1. id[1] \in Accounts /\ id[2] \in Vols /\ <<"id", id>> \in LockKeys
    BY DEF VolumeIDs, LockKeys
  <2>2. LocalsOK' /\ HandlerOK'
    BY <1>18, <2>1 DEF DeleteVolume, LocalsOK, HandlerOK, Goto, Steps
  <2> QED
    BY <1>18, <2>1, <2>2 DEF DeleteVolume, CachesOK, StoreOK, OutsideOK
<1>19. ASSUME NEW j \in JobIds, AzcopyExit(j) PROVE TypeInv'
  <2>1. jobs[j] \in JobRecord /\ jobs[j].place \in Places
    BY <1>19, JobFacts DEF AzcopyExit, JobRecord
  <2>2. PICK o \in Completed \cup {"Failed"} :
          /\ jobs' = [jobs EXCEPT ![j] = IF @.listed THEN [@ EXCEPT !.status = o, !.alive = FALSE]
                                         ELSE NoJob]
          /\ data' = IF container[jobs[j].place] # "present" THEN data
                     ELSE [data EXCEPT ![jobs[j].place] =
                              IF (o = "Completed" /\ jobs[j].intact) \/ @ = "full"
                              THEN "full" ELSE "partial"]
          /\ job' = [h \in Handlers |-> IF job[h] = j
                                        THEN IF o = "Completed" THEN "exit0" ELSE "exit1"
                                        ELSE job[h]]
    BY <1>19, ConstantsAssumption DEF AzcopyExit
  <2>3. LocalsOK' /\ HandlerOK'
    BY <1>19, <2>2 DEF AzcopyExit, LocalsOK, HandlerOK, Exits
  <2>4. [jobs[j] EXCEPT !.status = o, !.alive = FALSE] \in JobType
    BY <2>1, <2>2, RecordFacts DEF JobType
  <2>5. StoreOK'
    BY <1>19, <2>1, <2>2, <2>4 DEF AzcopyExit, StoreOK, JobType
  <2> QED
    BY <1>19, <2>3, <2>5 DEF AzcopyExit, CachesOK, OutsideOK
<1>20. ASSUME NEW p \in Places, ContainerGone(p) PROVE TypeInv'
  BY <1>20 DEF ContainerGone, CachesOK, LocalsOK, StoreOK, OutsideOK, HandlerOK
<1>21. CASE ExpireCaches
  BY <1>21 DEF ExpireCaches, CachesOK, LocalsOK, StoreOK, OutsideOK, HandlerOK
<1>22. CASE AccountMoves
  BY <1>22 DEF AccountMoves, CachesOK, LocalsOK, StoreOK, OutsideOK, HandlerOK
<1>23. CASE Restart
  <2>1. LocalsOK' /\ HandlerOK'
    BY <1>23 DEF Restart, LocalsOK, HandlerOK, Steps
  <2>2. ASSUME NEW j \in JobIds PROVE jobs'[j] \in JobType
    BY <1>23, JobFacts, RecordFacts DEF Restart, JobType
  <2>3. jobs' \in [JobIds -> JobType]
    BY <1>23, <2>2 DEF Restart
  <2>4. OutsideOK'
    BY <1>23, ConstantsAssumption DEF Restart, OutsideOK
  <2>5. CachesOK' /\ locks' \subseteq LockKeys
    BY <1>23 DEF Restart, CachesOK
  <2> QED
    BY <1>23, <2>1, <2>3, <2>4, <2>5 DEF Restart, StoreOK
<1>24. CASE UNCHANGED vars
  BY <1>24 DEF vars, CachesOK, LocalsOK, StoreOK, OutsideOK, HandlerOK
<1> QED
  BY <1>1, <1>2, <1>3, <1>4, <1>5, <1>6, <1>7, <1>8, <1>9, <1>10, <1>11, <1>12, <1>13, <1>14,
     <1>15, <1>16, <1>17, <1>18, <1>19, <1>20, <1>21, <1>22, <1>23, <1>24 DEF Next, Step

\* The handlers' locals, the locks, the caches and the job records keep their
\* types in every behaviour.
THEOREM TypeCorrect == Spec => []TypeOK
<1>1. TypeInv => TypeOK
  BY DEF TypeInv
<1> QED
  BY <1>1, TypeInit, TypeStep, PTL DEF Spec
-----------------------------------------------------------------------------
(* The locks of volumeLocks *)

\* A step that keeps the locks and moves no handler into or out of CreateVolume's
\* locked part.
LEMMA LockFrame ==
    ASSUME LockedOnce, \A v \in Vols : <<"name", v>> \in locks' <=> <<"name", v>> \in locks,
           \A h \in Handlers : /\ Creating(h)' <=> Creating(h)
                               /\ Creating(h) => vol'[h] = vol[h] /\ vol[h] \in Vols
    PROVE  LockedOnce'
  BY DEF LockedOnce

\* A call leaves the locked part and releases its lock.
LEMMA LockReturn ==
    ASSUME TypeInv, LockedOnce, NEW h \in Handlers, Creating(h),
           Goto(h, "idle"), Forget(h), locks' = locks \ {<<"name", vol[h]>>}
    PROVE  LockedOnce'
<1>1. \A g \in Handlers : Creating(g)' <=> Creating(g) /\ g # h
  BY DEF Creating, Goto, TypeInv, TypeOK, LocalsOK
<1>2. \A g \in Handlers : g # h => vol'[g] = vol[g]
  BY DEF Forget, TypeInv, TypeOK, LocalsOK
<1>3. \A g \in Handlers : Creating(g) => vol[g] \in Vols
  BY DEF TypeInv, HandlerOK, Creating
<1> QED
  BY <1>1, <1>2, <1>3 DEF LockedOnce

\* Every step keeps the locks in order: one step per action of a handler.
LEMMA LockStep == TypeInv /\ LockedOnce /\ [Next]_vars => LockedOnce'
<1> SUFFICES ASSUME TypeInv, LockedOnce, [Next]_vars PROVE LockedOnce'
  OBVIOUS
<1> USE DEF TypeInv, TypeOK, LocalsOK, caches, store, outside, locals
<1>0. \A h \in Handlers : Creating(h) => vol[h] \in Vols
  BY DEF HandlerOK, Creating
<1>1. ASSUME NEW h \in Handlers, AcquireVolume(h) PROVE LockedOnce'
  <2>1. CASE <<"name", vol[h]>> \in locks
    BY <1>0, <1>1, <2>1, LockFrame DEF AcquireVolume, Creating, Goto, Forget
  <2>2. CASE <<"name", vol[h]>> \notin locks
    <3>1. \A g \in Handlers : Creating(g)' <=> Creating(g) \/ g = h
      BY <1>1, <2>2 DEF AcquireVolume, Creating, Goto
    <3>2. vol' = vol /\ locks' = locks \cup {<<"name", vol[h]>>}
      BY <1>1, <2>2 DEF AcquireVolume, Keep
    <3> QED
      BY <1>0, <2>2, <3>1, <3>2 DEF LockedOnce
  <2> QED
    BY <2>1, <2>2
<1>2. ASSUME NEW h \in Handlers,
             \/ SelectAccount(h) \/ LockAccountSearch(h) \/ AuthorizeCopy(h)
             \/ FallbackToSasToken(h) \/ StartCopy(h) \/ AwaitCopy(h) \/ PollCopy(h)
      PROVE  LockedOnce'
  BY <1>0, <1>2, LockFrame
  DEF SelectAccount, LockAccountSearch, AuthorizeCopy, FallbackToSasToken, getAzcopyAuth,
      StartCopy, AwaitCopy, PollCopy, CopySucceeded, CopyFailed, Creating, Goto, Keep
<1>3. ASSUME NEW h \in Handlers, CheckCopyJob(h) PROVE LockedOnce'
  <2>1. \E s \in {"cleanup", "store", "poll", "start"} : Goto(h, s)
    BY <1>3 DEF CheckCopyJob, GetAzcopyJob, parseAzcopyJobList
  <2> QED
    BY <1>0, <1>3, <2>1, LockFrame DEF CheckCopyJob, Creating, Goto, Keep
<1>4. ASSUME NEW h \in Handlers, Creating(h), ReturnError(h) PROVE LockedOnce'
  BY <1>4, LockReturn DEF ReturnError
<1>5. ASSUME NEW h \in Handlers,
             \/ EnsureStorageAccount(h) \/ GetDataPlaneKey(h) \/ CreateBlobContainer(h)
             \/ CleanupCheck(h) \/ CleanupDelete(h) \/ StoreAccountKey(h)
      PROVE  LockedOnce'
  <2>1. Creating(h)
    BY <1>5 DEF EnsureStorageAccount, GetDataPlaneKey, CreateBlobContainer, CleanupCheck,
                CleanupDelete, StoreAccountKey, Creating
  <2>2. CASE ~ReturnError(h)
    BY <1>0, <1>5, <2>2, LockFrame
    DEF EnsureStorageAccount, GetDataPlaneKey, CreateBlobContainer, CleanupCheck,
        CleanupDelete, StoreAccountKey, Creating, Goto, Keep
  <2> QED
    BY <1>4, <2>1, <2>2
<1>6. ASSUME NEW h \in Handlers, CreateVolumeResponse(h) PROVE LockedOnce'
  BY <1>6, LockReturn DEF CreateVolumeResponse, Creating
<1>7. ASSUME NEW h \in Handlers, DeleteAuth(h) \/ DeleteContainer(h) PROVE LockedOnce'
  BY <1>0, <1>7, LockFrame DEF DeleteAuth, DeleteContainer, ReturnDelete, Creating, Goto, Forget, Keep
<1>8. ASSUME NEW h \in Handlers, NEW v \in Vols, CreateVolume(h, v) PROVE LockedOnce'
  BY <1>0, <1>8, LockFrame DEF CreateVolume, Creating, Goto
<1>9. ASSUME NEW h \in Handlers, NEW id \in VolumeIDs, DeleteVolume(h, id) PROVE LockedOnce'
  BY <1>0, <1>9, LockFrame DEF DeleteVolume, Creating, Goto
<1>10. CASE Restart
  BY <1>10 DEF Restart, LockedOnce, Creating
<1>11. ASSUME UNCHANGED <<locks, pc, vol>> PROVE LockedOnce'
  BY <1>0, <1>11, LockFrame DEF Creating
<1> QED
  BY <1>1, <1>2, <1>3, <1>5, <1>6, <1>7, <1>8, <1>9, <1>10, <1>11
  DEF Next, Step, AzcopyExit, ContainerGone, ExpireCaches, AccountMoves, vars

\* At most one CreateVolume call per volume name is past TryAcquire, it holds the
\* lock, and every lock on a name is held by such a call: no path leaks it.
THEOREM LockCorrect == Spec => []LockedOnce
<1>1. Init => LockedOnce
  BY DEF Init, LockedOnce, Creating
<1> QED
  BY <1>1, TypeInit, TypeStep, LockStep, PTL DEF Spec
-----------------------------------------------------------------------------
(* The account search *)

SearchInv == SearchFreesEntry /\ VolMapDecides

\* A call past the choice of its account.
Settled(h) == Creating(h) /\ pc[h] \notin {"account", "ensureWait", "ensure"}

\* A step that touches neither volMap nor the entry locks, and moves no handler
\* into or out of the search nor to an account.
LEMMA SearchFrame ==
    ASSUME SearchInv, entryLock' = entryLock, volMap' = volMap,
           \A h \in Handlers :
              /\ pc'[h] = "ensure" <=> pc[h] = "ensure"
              /\ pc[h] = "ensure" => vol'[h] = vol[h]
              /\ Settled(h)' => Settled(h) /\ vol'[h] = vol[h] /\ acct'[h] = acct[h]
    PROVE  SearchInv'
<1>1. SearchFreesEntry'
  BY DEF SearchInv, SearchFreesEntry, Params
<1>2. VolMapDecides'
  BY DEF SearchInv, VolMapDecides, Settled
<1> QED
  BY <1>1, <1>2 DEF SearchInv

\* A call that fails outside the search leaves the entries and the others' accounts.
LEMMA SearchReturn ==
    ASSUME TypeInv, SearchInv, entryLock' = entryLock, volMap' = volMap,
           NEW h \in Handlers, pc[h] # "ensure", Goto(h, "idle"), Forget(h)
    PROVE  SearchInv'
  BY SearchFrame DEF TypeInv, TypeOK, LocalsOK, Goto, Forget, Settled, Creating

\* Every step keeps the entries and the accounts in order; the step that stores into
\* volMap needs that no other call for the same name is past TryAcquire.
LEMMA SearchStep == TypeInv /\ LockedOnce /\ SearchInv /\ [Next]_vars => SearchInv'
<1> SUFFICES ASSUME TypeInv, LockedOnce, SearchInv, [Next]_vars PROVE SearchInv'
  OBVIOUS
<1> USE DEF TypeInv, TypeOK, LocalsOK, CachesOK, caches, store, outside, locals
<1>0. \A h \in Handlers : pc[h] # "idle" => vol[h] \in Vols
  BY DEF HandlerOK
<1>1. ASSUME NEW h \in Handlers, SelectAccount(h) PROVE SearchInv'
  <2>1. SearchFreesEntry'
    BY <1>1 DEF SelectAccount, Goto, SearchInv, SearchFreesEntry, Params
  <2>2. VolMapDecides'
    <3>1. Class[vol[h]].account = None /\ volMap[vol[h]] # None => acct'[h] = volMap[vol[h]]
      BY <1>1 DEF SelectAccount, Params
    <3>2. \A g \in Handlers : g # h => acct'[g] = acct[g] /\ pc'[g] = pc[g]
      BY <1>1 DEF SelectAccount, Goto
    <3> QED
      BY <1>1, <3>1, <3>2 DEF SelectAccount, SearchInv, VolMapDecides, Creating
  <2> QED
    BY <2>1, <2>2 DEF SearchInv
<1>2. ASSUME NEW h \in Handlers, LockAccountSearch(h) PROVE SearchInv'
  <2> DEFINE k == Params(h).search
  <2>1. /\ pc[h] = "ensureWait" /\ vol[h] \in Vols /\ k \in SearchKeys /\ entryLock[k] = None
        /\ entryLock' = [entryLock EXCEPT ![k] = h] /\ volMap' = volMap
        /\ pc' = [pc EXCEPT ![h] = "ensure"] /\ vol' = vol /\ acct' = acct
    BY <1>0, <1>2, ClassFacts DEF LockAccountSearch, Goto, Keep, Params
  <2>2. SearchFreesEntry'
    <3>1. ASSUME NEW g \in Handlers, pc'[g] = "ensure" PROVE entryLock'[Params(g).search] = g
      <4>1. CASE g = h
        BY <2>1, <4>1
      <4>2. CASE g # h
        <5>1. pc[g] = "ensure" /\ entryLock[Params(g).search] = g
          BY <2>1, <3>1, <4>2 DEF SearchInv, SearchFreesEntry
        <5>2. g # None
          BY ConstantsAssumption
        <5> QED
          BY <2>1, <5>1, <5>2
      <4> QED
        BY <4>1, <4>2
    <3>2. ASSUME NEW e \in SearchKeys, entryLock'[e] # None
          PROVE  \E g \in Handlers : g = entryLock'[e] /\ pc'[g] = "ensure" /\ Params(g).search = e
      BY <2>1, <3>2 DEF SearchInv, SearchFreesEntry
    <3> QED
      BY <2>1, <3>1, <3>2 DEF SearchFreesEntry, Params
  <2>3. VolMapDecides'
    BY <2>1 DEF SearchInv, VolMapDecides, Creating
  <2> QED
    BY <2>2, <2>3 DEF SearchInv
<1>3. ASSUME NEW h \in Handlers, EnsureStorageAccount(h) PROVE SearchInv'
  <2> DEFINE k == Params(h).search
  <2>1. /\ pc[h] = "ensure" /\ vol[h] \in Vols /\ k \in SearchKeys /\ entryLock[k] = h
        /\ entryLock' = [entryLock EXCEPT ![k] = None] /\ pc'[h] \in {"key", "idle"}
        /\ \A g \in Handlers : g # h => /\ pc'[g] = pc[g] /\ vol'[g] = vol[g]
                                        /\ acct'[g] = acct[g]
    BY <1>0, <1>3, ClassFacts
    DEF EnsureStorageAccount, ReturnError, Goto, Forget, Params, SearchInv, SearchFreesEntry
  <2>2. SearchFreesEntry'
    <3>1. ASSUME NEW g \in Handlers, pc'[g] = "ensure"
          PROVE  entryLock'[Class[vol'[g]].search] = g
      <4>1. g # h /\ pc[g] = "ensure" /\ vol'[g] = vol[g] /\ entryLock[Params(g).search] = g
        BY <2>1, <3>1 DEF SearchInv, SearchFreesEntry
      <4> QED
        BY <2>1, <4>1 DEF Params
    <3>2. ASSUME NEW e \in SearchKeys, entryLock'[e] # None
          PROVE  \E g \in Handlers : g = entryLock'[e] /\ pc'[g] = "ensure"
                                     /\ Class[vol'[g]].search = e
      <4>1. e # k /\ entryLock'[e] = entryLock[e]
        BY <2>1, <3>2
      <4>2. PICK g \in Handlers : g = entryLock[e] /\ pc[g] = "ensure" /\ Params(g).search = e
        BY <3>2, <4>1 DEF SearchInv, SearchFreesEntry
      <4>3. g # h
        BY <4>1, <4>2
      <4> QED
        BY <2>1, <4>1, <4>2, <4>3 DEF Params
    <3> QED
      BY <3>1, <3>2 DEF SearchFreesEntry, Params
  <2>3. VolMapDecides'
    <3>1. CASE ReturnError(h) /\ UNCHANGED <<searchCache, volMap>>
      BY <2>1, <3>1 DEF ReturnError, Goto, SearchInv, VolMapDecides, Creating
    <3>2. CASE /\ Goto(h, "key")
               /\ acct' = [acct EXCEPT ![h] = match[k]]
               /\ volMap' = [volMap EXCEPT ![vol[h]] = match[k]]
               /\ vol' = vol
      <4>1. Creating(h)
        BY <2>1 DEF Creating
      <4>2. acct'[h] = volMap'[vol[h]]
        BY <2>1, <3>2
      <4>3. ASSUME NEW g \in Handlers, g # h, Creating(g) PROVE volMap'[vol[g]] = volMap[vol[g]]
        BY <2>1, <3>2, <4>1, <4>3 DEF LockedOnce
      <4> QED
        BY <2>1, <3>2, <4>2, <4>3 DEF SearchInv, VolMapDecides, Creating
    <3> QED
      BY <1>3, <3>1, <3>2 DEF EnsureStorageAccount
  <2> QED
    BY <2>2, <2>3 DEF SearchInv
<1>4. ASSUME NEW h \in Handlers, AcquireVolume(h) PROVE SearchInv'
  BY <1>4, SearchFrame, SearchReturn DEF AcquireVolume, Goto, Keep, Settled, Creating
<1>5. ASSUME NEW h \in Handlers, CheckCopyJob(h) PROVE SearchInv'
  <2>1. \E s \in {"cleanup", "store", "poll", "start"} : Goto(h, s)
    BY <1>5 DEF CheckCopyJob, GetAzcopyJob, parseAzcopyJobList
  <2> QED
    BY <1>5, <2>1, SearchFrame DEF CheckCopyJob, Goto, Keep, Settled, Creating
<1>6. ASSUME NEW h \in Handlers,
             \/ AuthorizeCopy(h) \/ FallbackToSasToken(h)
             \/ StartCopy(h) \/ AwaitCopy(h) \/ PollCopy(h)
      PROVE  SearchInv'
  BY <1>6, SearchFrame
  DEF AuthorizeCopy, FallbackToSasToken, getAzcopyAuth, StartCopy, AwaitCopy, PollCopy,
      CopySucceeded, CopyFailed, Settled, Creating, Goto, Keep
<1>7. ASSUME NEW h \in Handlers,
             \/ GetDataPlaneKey(h) \/ CreateBlobContainer(h)
             \/ CleanupCheck(h) \/ CleanupDelete(h) \/ StoreAccountKey(h)
      PROVE  SearchInv'
  <2>1. CASE ReturnError(h)
    BY <1>7, <2>1, SearchReturn
    DEF GetDataPlaneKey, CreateBlobContainer, CleanupCheck, CleanupDelete, StoreAccountKey, ReturnError
  <2>2. CASE ~ReturnError(h)
    BY <1>7, <2>2, SearchFrame
    DEF GetDataPlaneKey, CreateBlobContainer, CleanupCheck, CleanupDelete, StoreAccountKey,
        Settled, Creating, Goto, Keep
  <2> QED
    BY <2>1, <2>2
<1>8. ASSUME NEW h \in Handlers, CreateVolumeResponse(h) PROVE SearchInv'
  BY <1>8, SearchReturn DEF CreateVolumeResponse
<1>9. ASSUME NEW h \in Handlers, DeleteAuth(h) \/ DeleteContainer(h) PROVE SearchInv'
  BY <1>9, SearchFrame
  DEF DeleteAuth, DeleteContainer, ReturnDelete, Settled, Creating, Goto, Forget, Keep
<1>10. ASSUME NEW h \in Handlers, NEW v \in Vols, CreateVolume(h, v) PROVE SearchInv'
  BY <1>10, SearchFrame DEF CreateVolume, Settled, Creating, Goto
<1>11. ASSUME NEW h \in Handlers, NEW id \in VolumeIDs, DeleteVolume(h, id) PROVE SearchInv'
  BY <1>11, SearchFrame DEF DeleteVolume, Settled, Creating, Goto
<1>12. CASE Restart
  BY <1>12 DEF Restart, SearchInv, SearchFreesEntry, VolMapDecides, Creating
<1>13. ASSUME UNCHANGED <<entryLock, volMap, pc, vol, acct>> PROVE SearchInv'
  BY <1>13, SearchFrame DEF Settled, Creating
<1> QED
  BY <1>1, <1>2, <1>3, <1>4, <1>5, <1>6, <1>7, <1>8, <1>9, <1>10, <1>11, <1>12, <1>13
  DEF Next, Step, AzcopyExit, ContainerGone, ExpireCaches, AccountMoves, vars

\* Nobody waits in LockEntry for a call that has returned, and a call for a volume
\* that volMap knows uses volMap's account, for any number of volumes, search keys,
\* accounts and calls, however the cache and the result of a search change.
THEOREM SearchCorrect == Spec => [](SearchFreesEntry /\ VolMapDecides)
<1>1. Init => SearchInv
  BY DEF Init, SearchInv, SearchFreesEntry, VolMapDecides, Creating
<1>2. Init => LockedOnce
  BY DEF Init, LockedOnce, Creating
<1>3. SearchInv => SearchFreesEntry /\ VolMapDecides
  BY DEF SearchInv
<1> QED
  BY <1>1, <1>2, <1>3, TypeInit, TypeStep, LockStep, SearchStep, PTL DEF Spec

\* In particular no path through EnsureStorageAccount leaves its entry of volLockMap
\* locked, whatever the search answers.
THEOREM SearchesFreeEntries == Spec => []SearchFreesEntry
  BY SearchCorrect, PTL
-----------------------------------------------------------------------------
(* Copies and cleanups *)

CopyInv == Recorded /\ CheckedNoCopy /\ OneCopyPerContainer

\* The environment does neither of the two things that hide a running copy.
CopiesAreListed == "listFails" \notin Faults /\ "cleanDropsRunning" \notin Faults

\* A step after which no new azcopy process runs, the running ones are recorded as
\* before, and no handler has newly come to "start" or "cleanupDelete".
LEMMA CopyFrame ==
    ASSUME CopyInv,
           \A j \in JobIds : jobs'[j].alive =>
               /\ jobs[j].alive /\ jobs'[j].place = jobs[j].place
               /\ jobs'[j].listed = jobs[j].listed /\ jobs'[j].status = jobs[j].status,
           \A h \in Handlers : pc'[h] \in {"start", "cleanupDelete"} =>
               pc'[h] = pc[h] /\ vol'[h] = vol[h] /\ acct'[h] = acct[h]
    PROVE  CopyInv'
<1>1. \A p : Copying(p)' \subseteq Copying(p)
  BY DEF Copying
<1>2. Recorded'
  BY DEF CopyInv, Recorded
<1>3. CheckedNoCopy'
  BY <1>1 DEF CopyInv, CheckedNoCopy, Place, ContainerOf
<1>4. OneCopyPerContainer'
  BY <1>1 DEF CopyInv, OneCopyPerContainer
<1> QED
  BY <1>2, <1>3, <1>4 DEF CopyInv

\* When the list shows no job for the container of h, no azcopy process writes
\* into it.
LEMMA NotFoundMeansNoCopy ==
    ASSUME Recorded, CopiesAreListed, NEW c, NEW a, "NotFound" \in GetAzcopyJob(c)
    PROVE  Copying(<<a, c>>) = {}
<1>1. parseAzcopyJobList(AzcopyJobs(c)) = "NotFound"
  BY DEF GetAzcopyJob, CopiesAreListed, Fault
<1>2. \A j \in AzcopyJobs(c) : jobs[j].status # "InProgress"
  BY <1>1 DEF parseAzcopyJobList
<1>3. \A j \in Copying(<<a, c>>) : j \in AzcopyJobs(c) /\ jobs[j].status = "InProgress"
  BY DEF Copying, AzcopyJobs, Recorded
<1> QED
  BY <1>2, <1>3

\* A handler comes to "start" or "cleanupDelete" while no process writes into its
\* container.
LEMMA CopyChecked ==
    ASSUME TypeInv, CopyInv, NEW h \in Handlers, NEW s, Goto(h, s), Keep(h), jobs' = jobs,
           s \in {"start", "cleanupDelete"} => Copying(Place(h)) = {},
           s = "cleanupDelete" => ~Class[vol[h]].userNamed
    PROVE  CopyInv'
<1>1. \A p : Copying(p)' = Copying(p)
  BY DEF Copying
<1>2. \A g \in Handlers : Place(g)' = Place(g) /\ vol'[g] = vol[g]
  BY DEF Keep, Place, ContainerOf
<1>3. \A g \in Handlers : pc'[g] = IF g = h THEN s ELSE pc[g]
  BY DEF Goto, TypeInv, TypeOK, LocalsOK
<1>4. CheckedNoCopy'
  BY <1>1, <1>2, <1>3 DEF CopyInv, CheckedNoCopy
<1> QED
  BY <1>1, <1>4 DEF CopyInv, Recorded, OneCopyPerContainer

\* The job records of azcopy jobs clean, when it spares running jobs.
LEMMA CleanJobsSpares ==
    ASSUME TypeInv, CopiesAreListed, NEW j \in JobIds, CleanJobs[j].alive
    PROVE  CleanJobs[j] = jobs[j]
<1>1. CASE jobs[j].alive
  <2>1. jobs[j] \in JobRecord
    BY <1>1, JobFacts
  <2>2. CleanJobs[j] = [jobs[j] EXCEPT !.listed = @ /\ ~Fault("cleanDropsRunning")]
    BY <1>1 DEF CleanJobs
  <2>3. (jobs[j].listed /\ ~Fault("cleanDropsRunning")) = jobs[j].listed
    BY <2>1 DEF CopiesAreListed, Fault, JobRecord
  <2> QED
    BY <2>1, <2>2, <2>3 DEF JobRecord
<1>2. CASE ~jobs[j].alive
  BY <1>2 DEF CleanJobs, NoJob
<1> QED
  BY <1>1, <1>2

\* Every step keeps the copies recorded, single and spared, when azcopy lists the
\* jobs that run.
LEMMA CopyStep ==
    ASSUME CopiesAreListed
    PROVE  TypeInv /\ LockedOnce /\ CopyInv /\ [Next]_vars => CopyInv'
<1> SUFFICES ASSUME TypeInv, LockedOnce, CopyInv, [Next]_vars PROVE CopyInv'
  OBVIOUS
<1> USE DEF TypeInv, TypeOK, LocalsOK, caches, store, outside, locals
<1>1. ASSUME NEW h \in Handlers, StartCopy(h) PROVE CopyInv'
  <2> DEFINE p == Place(h)
  <2>1. PICK j \in JobIds :
          /\ jobs[j] = NoJob
          /\ jobs' = [jobs EXCEPT ![j] =
                [place |-> p, src |-> Params(h).src, status |-> "InProgress",
                 alive |-> TRUE, listed |-> TRUE, intact |-> TRUE]]
    BY <1>1 DEF StartCopy
  <2>2. jobs'[j] = [place |-> p, src |-> Params(h).src, status |-> "InProgress",
                    alive |-> TRUE, listed |-> TRUE, intact |-> TRUE]
        /\ \A i \in JobIds : i # j => jobs'[i] = jobs[i]
    BY <2>1 DEF StoreOK
  <2>3. \A q : Copying(q)' = IF q = p THEN Copying(q) \cup {j} ELSE Copying(q)
    BY <2>1, <2>2 DEF Copying, NoJob
  <2>4. pc[h] = "start" /\ vol[h] \in Vols /\ UNCHANGED <<vol, acct>>
        /\ \A g \in Handlers : pc'[g] = IF g = h THEN "copying" ELSE pc[g]
    BY <1>1 DEF StartCopy, HandlerOK, Goto
  <2>5. \A g \in Handlers : Place(g)' = Place(g)
    BY <2>4 DEF Place
  <2>6. Recorded'
    BY <2>2 DEF CopyInv, Recorded
  <2>7. ASSUME NEW g \in Handlers, pc'[g] \in {"start", "cleanupDelete"},
               ~Class[vol[g]].userNamed
        PROVE  Place(g) # p
    <3>1. Creating(g) /\ Creating(h) /\ g # h /\ vol[g] \in Vols
      BY <2>4, <2>7 DEF Creating, HandlerOK
    <3>2. vol[g] # vol[h]
      BY <3>1 DEF LockedOnce
    <3>3. ContainerOf(vol[g]) = vol[g] /\ ContainerOf(vol[h]) \in {vol[h], UserContainer}
      BY <2>7 DEF ContainerOf
    <3> QED
      BY <3>1, <3>2, <3>3, ConstantsAssumption DEF Place
  <2>8. CheckedNoCopy'
    BY <2>3, <2>4, <2>5, <2>7 DEF CopyInv, CheckedNoCopy
  <2>9. OneCopyPerContainer'
    <3>1. CASE Class[vol[h]].userNamed
      <4>1. p \notin Accounts \X Vols
        BY <3>1, ConstantsAssumption DEF Place, ContainerOf
      <4> QED
        BY <2>3, <4>1 DEF CopyInv, OneCopyPerContainer
    <3>2. CASE ~Class[vol[h]].userNamed
      BY <2>3, <2>4, <3>2 DEF CopyInv, CheckedNoCopy, OneCopyPerContainer
    <3> QED
      BY <3>1, <3>2
  <2> QED
    BY <2>6, <2>8, <2>9 DEF CopyInv
<1>2. ASSUME NEW h \in Handlers, CheckCopyJob(h) PROVE CopyInv'
  <2>1. PICK s : Goto(h, s) /\ s # "cleanupDelete"
                 /\ (s = "start" => "NotFound" \in GetAzcopyJob(ContainerOf(vol[h])))
    BY <1>2 DEF CheckCopyJob, GetAzcopyJob, parseAzcopyJobList
  <2>2. s = "start" => Copying(Place(h)) = {}
    BY <2>1, NotFoundMeansNoCopy DEF CopyInv, Place
  <2> QED
    BY <1>2, <2>1, <2>2, CopyChecked DEF CheckCopyJob
<1>3. ASSUME NEW h \in Handlers, CleanupCheck(h) PROVE CopyInv'
  <2>1. CASE ReturnError(h)
    BY <1>3, <2>1, CopyFrame DEF CleanupCheck, ReturnError, Goto, Forget
  <2>2. CASE ~ReturnError(h)
    <3>1. /\ Goto(h, "cleanupDelete") /\ Keep(h) /\ ~Class[vol[h]].userNamed /\ jobs' = jobs
          /\ "NotFound" \in GetAzcopyJob(ContainerOf(vol[h]))
      BY <1>3, <2>2 DEF CleanupCheck, GetAzcopyJob, parseAzcopyJobList,
                        isAzcopyJobActiveOrCompleted, Params
    <3>2. Copying(Place(h)) = {}
      BY <3>1, NotFoundMeansNoCopy DEF CopyInv, Place
    <3> QED
      BY <3>1, <3>2, CopyChecked
  <2> QED
    BY <2>1, <2>2
<1>4. ASSUME NEW h \in Handlers, AwaitCopy(h) \/ PollCopy(h) PROVE CopyInv'
  <2>1. jobs' \in {CleanJobs, jobs}
    BY <1>4 DEF AwaitCopy, PollCopy, CopySucceeded, CopyFailed
  <2>2. \A j \in JobIds : jobs'[j].alive => jobs'[j] = jobs[j]
    BY <2>1, CleanJobsSpares
  <2> QED
    BY <1>4, <2>2, CopyFrame DEF AwaitCopy, PollCopy, CopySucceeded, CopyFailed, Goto
<1>5. ASSUME NEW p, DeleteBlobContainer(p)
      PROVE  \A j \in JobIds : jobs'[j].alive =>
               /\ jobs[j].alive /\ jobs'[j].place = jobs[j].place
               /\ jobs'[j].listed = jobs[j].listed /\ jobs'[j].status = jobs[j].status
  <2> TAKE j \in JobIds
  <2>1. CASE jobs[j].alive /\ jobs[j].place = p
    <3>1. jobs[j] \in JobRecord /\ jobs'[j] = [jobs[j] EXCEPT !.intact = FALSE]
      BY <1>5, <2>1, JobFacts DEF DeleteBlobContainer
    <3> QED
      BY <2>1, <3>1 DEF JobRecord
  <2>2. CASE ~(jobs[j].alive /\ jobs[j].place = p)
    BY <1>5, <2>2 DEF DeleteBlobContainer
  <2> QED
    BY <2>1, <2>2
<1>6. ASSUME NEW h \in Handlers, CleanupDelete(h) \/ DeleteContainer(h) PROVE CopyInv'
  <2>1. \A g \in Handlers : pc'[g] \in {"start", "cleanupDelete"} =>
               pc'[g] = pc[g] /\ vol'[g] = vol[g] /\ acct'[g] = acct[g]
    BY <1>6 DEF CleanupDelete, DeleteContainer, ReturnError, ReturnDelete, Goto, Forget
  <2>2. CASE DeleteBlobContainer(Place(h))
    BY <1>5, <2>1, <2>2, CopyFrame
  <2>3. CASE UNCHANGED store
    BY <2>1, <2>3, CopyFrame
  <2> QED
    BY <1>6, <2>2, <2>3 DEF CleanupDelete, DeleteContainer
<1>7. ASSUME NEW h \in Handlers,
             \/ AcquireVolume(h) \/ SelectAccount(h) \/ LockAccountSearch(h)
             \/ EnsureStorageAccount(h) \/ GetDataPlaneKey(h) \/ CreateBlobContainer(h)
             \/ AuthorizeCopy(h) \/ FallbackToSasToken(h) \/ StoreAccountKey(h)
             \/ CreateVolumeResponse(h) \/ DeleteAuth(h)
      PROVE  CopyInv'
  <2>1. jobs' = jobs
    BY <1>7 DEF AcquireVolume, SelectAccount, LockAccountSearch, EnsureStorageAccount,
        GetDataPlaneKey, CreateBlobContainer, AuthorizeCopy, FallbackToSasToken, getAzcopyAuth,
        StoreAccountKey, CreateVolumeResponse, DeleteAuth
  <2>2. \A g \in Handlers : pc'[g] \in {"start", "cleanupDelete"} =>
               pc'[g] = pc[g] /\ vol'[g] = vol[g] /\ acct'[g] = acct[g]
    BY <1>7 DEF AcquireVolume, SelectAccount, LockAccountSearch, EnsureStorageAccount,
        GetDataPlaneKey, CreateBlobContainer, AuthorizeCopy, FallbackToSasToken, getAzcopyAuth,
        StoreAccountKey, CreateVolumeResponse, DeleteAuth, ReturnDelete, ReturnError, Goto, Forget, Keep
  <2> QED
    BY <2>1, <2>2, CopyFrame
<1>8. ASSUME NEW h \in Handlers, NEW v \in Vols, CreateVolume(h, v) PROVE CopyInv'
  BY <1>8, CopyFrame DEF CreateVolume, Goto
<1>9. ASSUME NEW h \in Handlers, NEW id \in VolumeIDs, DeleteVolume(h, id) PROVE CopyInv'
  BY <1>9, CopyFrame DEF DeleteVolume, Goto
<1>10. ASSUME NEW j \in JobIds, AzcopyExit(j) PROVE CopyInv'
  <2>1. \A i \in JobIds : i # j => jobs'[i] = jobs[i]
    BY <1>10 DEF AzcopyExit, StoreOK
  <2>2. jobs[j] \in JobRecord
    BY <1>10, JobFacts DEF AzcopyExit
  <2>3. ~jobs'[j].alive
    BY <1>10, <2>2 DEF AzcopyExit, StoreOK, JobRecord, NoJob
  <2> QED
    BY <1>10, <2>1, <2>3, CopyFrame DEF AzcopyExit
<1>11. CASE Restart
  <2>1. ASSUME NEW j \in JobIds PROVE ~jobs'[j].alive
    <3>1. CASE jobs'[j] = NoJob
      BY <3>1 DEF NoJob
    <3>2. CASE jobs[j].listed /\ jobs'[j] = [jobs[j] EXCEPT !.alive = FALSE]
      BY <3>2, JobFacts DEF JobRecord
    <3> QED
      BY <1>11, <3>1, <3>2 DEF Restart
  <2> QED
    BY <1>11, <2>1, CopyFrame DEF Restart
<1>12. ASSUME UNCHANGED <<jobs, pc, vol, acct>> PROVE CopyInv'
  BY <1>12, CopyFrame
<1> QED
  BY <1>1, <1>2, <1>3, <1>4, <1>6, <1>7, <1>8, <1>9, <1>10, <1>11, <1>12
  DEF Next, Step, ContainerGone, ExpireCaches, AccountMoves, vars

\* When azcopy lists its running jobs, cleanupContainerOnFailure never deletes a
\* container an azcopy process writes into, and no second azcopy process is started
\* for a container named by the driver - whatever else fails, for any number of
\* volumes, calls, jobs and restarts.
THEOREM CopiesAreSafe ==
    ASSUME CopiesAreListed
    PROVE  Spec => [](CleanupSparesCopy /\ OneCopyPerContainer)
<1>1. Init => CopyInv
  BY DEF Init, CopyInv, Recorded, CheckedNoCopy, OneCopyPerContainer, Copying, NoJob
<1>2. Init => LockedOnce
  BY DEF Init, LockedOnce, Creating
<1>3. CopyInv => CleanupSparesCopy /\ OneCopyPerContainer
  BY DEF CopyInv, CheckedNoCopy, CleanupSparesCopy
<1>4. TypeInv /\ LockedOnce /\ CopyInv /\ [Next]_vars => CopyInv'
  BY CopyStep
<1> QED
  BY <1>1, <1>2, <1>3, <1>4, TypeInit, TypeStep, LockStep, PTL DEF Spec

\* In particular azcopy never copies into one container of the driver's naming twice
\* at a time, however often CreateVolume times out and is called again.
THEOREM CopiesAreAlone ==
    ASSUME CopiesAreListed
    PROVE  Spec => []OneCopyPerContainer
  BY CopiesAreSafe, PTL
-----------------------------------------------------------------------------
(* Containers that the user named *)

\* The check in cleanupContainerOnFailure stands while its handler is about to delete.
CleansOwn == \A h \in Handlers : pc[h] = "cleanupDelete" => ~Class[vol[h]].userNamed

\* Every step keeps it: only CleanupCheck leads there, and no call changes its volume.
LEMMA CleansOwnStep == TypeInv /\ CleansOwn /\ [Next]_vars => CleansOwn'
<1> SUFFICES ASSUME TypeInv, CleansOwn, [Next]_vars PROVE CleansOwn'
  OBVIOUS
<1> USE DEF TypeInv, TypeOK, LocalsOK, CleansOwn
<1>1. ASSUME NEW h \in Handlers, CleanupCheck(h) PROVE CleansOwn'
  BY <1>1 DEF CleanupCheck, ReturnError, Goto, Keep, Forget, Params
<1>2. ASSUME NEW h \in Handlers, NEW s \in Steps \ {"cleanupDelete"}, Goto(h, s),
             \A g \in Handlers : g # h => vol'[g] = vol[g]
      PROVE  CleansOwn'
  BY <1>2 DEF Goto
<1>3. ASSUME NEW h \in Handlers, Step(h), ~CleanupCheck(h) PROVE CleansOwn'
  <2> USE DEF caches, store, outside, Steps, ReturnError, ReturnDelete, Forget, Keep
  <2>1. CASE AcquireVolume(h) \/ SelectAccount(h) \/ LockAccountSearch(h) \/ EnsureStorageAccount(h)
    BY <1>2, <2>1 DEF AcquireVolume, SelectAccount, LockAccountSearch, EnsureStorageAccount
  <2>2. CASE GetDataPlaneKey(h) \/ CreateBlobContainer(h) \/ StoreAccountKey(h) \/ CreateVolumeResponse(h)
    BY <1>2, <2>2 DEF GetDataPlaneKey, CreateBlobContainer, StoreAccountKey, CreateVolumeResponse
  <2>3. CASE AuthorizeCopy(h) \/ FallbackToSasToken(h)
    BY <1>2, <2>3 DEF AuthorizeCopy, FallbackToSasToken, getAzcopyAuth
  <2>4. CASE CheckCopyJob(h)
    <3>1. \E s \in {"cleanup", "store", "poll", "start"} : Goto(h, s)
      BY <2>4 DEF CheckCopyJob, GetAzcopyJob, parseAzcopyJobList
    <3> QED
      BY <1>2, <2>4, <3>1 DEF CheckCopyJob
  <2>5. CASE StartCopy(h) \/ AwaitCopy(h) \/ PollCopy(h)
    BY <1>2, <2>5 DEF StartCopy, AwaitCopy, PollCopy, CopySucceeded, CopyFailed
  <2>6. CASE CleanupDelete(h) \/ DeleteAuth(h) \/ DeleteContainer(h)
    BY <1>2, <2>6 DEF CleanupDelete, DeleteAuth, DeleteContainer
  <2> QED
    BY <1>3, <2>1, <2>2, <2>3, <2>4, <2>5, <2>6 DEF Step
<1>4. ASSUME NEW h \in Handlers,
             (\E v \in Vols : CreateVolume(h, v)) \/ (\E id \in VolumeIDs : DeleteVolume(h, id))
      PROVE  CleansOwn'
  BY <1>2, <1>4 DEF CreateVolume, DeleteVolume, Steps
<1>5. CASE Restart
  BY <1>5 DEF Restart
<1>6. ASSUME UNCHANGED <<pc, vol>> PROVE CleansOwn'
  BY <1>6
<1> QED
  BY <1>1, <1>3, <1>4, <1>5, <1>6
  DEF Next, AzcopyExit, ContainerGone, ExpireCaches, AccountMoves, vars, locals

\* Only DeleteVolume deletes a container named by the user, for any number of calls,
\* volumes and accounts: no failure of a copy makes cleanupContainerOnFailure do so.
THEOREM UserContainersAreKept == Spec => UserContainerKept
<1> DEFINE Kept == \A a \in Accounts :
                     LET p == <<a, UserContainer>> IN
                     container[p] = "present" /\ container'[p] # "present"
                     => \E h \in Handlers : pc[h] = "delete" /\ Place(h) = p
<1>1. Init => CleansOwn
  BY DEF Init, CleansOwn
<1>2. TypeInv /\ CleansOwn /\ [Next]_vars => [Kept]_vars
  <2> SUFFICES ASSUME TypeInv, CleansOwn, Next PROVE Kept
    OBVIOUS
  <2>0. container \in [Places -> {"absent", "present", "deleting"}]
    BY DEF TypeInv, TypeOK, StoreOK
  <2>1. ASSUME NEW h \in Handlers, CleanupDelete(h) PROVE Kept
    <3>1. \A a \in Accounts : Place(h) # <<a, UserContainer>>
      BY <2>1, ConstantsAssumption
      DEF CleanupDelete, CleansOwn, Place, ContainerOf, TypeInv, HandlerOK
    <3>2. \A p \in Places : p # Place(h) => container'[p] = container[p]
      BY <2>0, <2>1 DEF CleanupDelete, DeleteBlobContainer, store
    <3> QED
      BY <3>1, <3>2 DEF Places, Names
  <2>2. ASSUME NEW h \in Handlers, DeleteContainer(h) PROVE Kept
    <3>1. \A p \in Places : p # Place(h) => container'[p] = container[p]
      BY <2>0, <2>2 DEF DeleteContainer, DeleteBlobContainer, store
    <3> QED
      BY <2>2, <3>1 DEF DeleteContainer, Places, Names
  <2>3. ASSUME NEW h \in Handlers, CreateBlobContainer(h) PROVE Kept
    <3>1. \A p \in Places : container[p] = "present" => container'[p] = "present"
      BY <2>0, <2>3 DEF CreateBlobContainer
    <3> QED
      BY <3>1 DEF Places, Names
  <2>4. ASSUME NEW p \in Places, ContainerGone(p) PROVE Kept
    <3>1. \A q \in Places : container[q] = "present" => container'[q] = "present"
      BY <2>0, <2>4 DEF ContainerGone
    <3> QED
      BY <3>1 DEF Places, Names
  <2>5. ASSUME UNCHANGED container PROVE Kept
    BY <2>5
  <2>6. ASSUME NEW h \in Handlers, Step(h) PROVE Kept
    <3> USE DEF store
    <3>1. CASE AcquireVolume(h) \/ SelectAccount(h) \/ LockAccountSearch(h) \/ EnsureStorageAccount(h)
               \/ GetDataPlaneKey(h) \/ StoreAccountKey(h) \/ CreateVolumeResponse(h)
      BY <2>5, <3>1 DEF AcquireVolume, SelectAccount, LockAccountSearch, EnsureStorageAccount,
                        GetDataPlaneKey, StoreAccountKey, CreateVolumeResponse
    <3>2. CASE AuthorizeCopy(h) \/ FallbackToSasToken(h) \/ CheckCopyJob(h) \/ StartCopy(h)
               \/ AwaitCopy(h) \/ PollCopy(h) \/ CleanupCheck(h) \/ DeleteAuth(h)
      BY <2>5, <3>2 DEF AuthorizeCopy, FallbackToSasToken, getAzcopyAuth, CheckCopyJob, StartCopy,
                        AwaitCopy, PollCopy, CleanupCheck, DeleteAuth
    <3> QED
      BY <2>1, <2>2, <2>3, <2>6, <3>1, <3>2 DEF Step
  <2> QED
    BY <2>4, <2>5, <2>6
    DEF Next, CreateVolume, DeleteVolume, AzcopyExit, ExpireCaches, AccountMoves, Restart, store
<1> QED
  BY <1>1, <1>2, TypeInit, TypeStep, CleansOwnStep, PTL DEF Spec, UserContainerKept
-----------------------------------------------------------------------------
(* A clone reported as created holds all of its source, for any number of *)
(* calls, jobs and restarts, where copies are sure.                        *)

\* Where copies are sure: azcopy can be run and lists its jobs, its copies end
\* well, tokens can be had, the search keeps finding the same account, and no
\* other clone is made whose call might clean the job records meanwhile.
SureCopies ==
    /\ Faults \cap {"keyFails", "sasFails", "listFails", "execFails",
                    "cleanDropsRunning", "accountMoves"} = {}
    /\ JobOutcomes \subseteq {"Completed"}
    /\ \A v, w \in Vols : Class[v].clone /\ Class[w].clone => v = w

\* The account every call for a volume settles on.
Home(v) == IF Class[v].account # None THEN Class[v].account ELSE match[Class[v].search]
HomePlace(v) == <<Home(v), ContainerOf(v)>>

\* A call whose storage class and secrets name no account.
Searching(h) == pc[h] \in {"ensureWait", "ensure"}

AtHome ==
    /\ \A k \in SearchKeys : searchCache[k] \in {None, match[k]}
    /\ \A v \in Vols : volMap[v] \in {None, match[Class[v].search]}
    /\ \A h \in Handlers : /\ Searching(h) => Class[vol[h]].account = None
                           /\ Settled(h) => acct[h] = Home(vol[h])

CopySteps == {"auth", "copyCheck", "start", "copying", "poll", "fallback",
              "cleanup", "cleanupDelete"}

\* Only the calls for the clone copy, and only into its container.
ClonesCopy ==
    /\ \A h \in Handlers : pc[h] \in CopySteps => Class[vol[h]].clone
    /\ \A j \in JobIds : jobs[j] # NoJob =>
          \E v \in Vols : Class[v].clone /\ jobs[j].place = HomePlace(v)

\* A clone the provisioner still wants, in a container the driver named.
Owned(v) == v \in wanted /\ Class[v].clone /\ ~Class[v].userNamed

\* Nobody takes its container away.
NoDelete ==
    \A v \in Vols, h \in Handlers :
        Owned(v) /\ vol[h] = v => pc[h] \notin {"cleanupDelete", "deleteAuth", "delete"}

\* Its copies go into a container that stays, so one that ended filled it.
CopiesFill ==
    \A v \in Vols, j \in JobIds : Owned(v) /\ jobs[j] # NoJob =>
        /\ jobs[j].status # "Failed"
        /\ jobs[j].alive => jobs[j].intact /\ container[HomePlace(v)] = "present"
        /\ jobs[j].status \in Completed => data[HomePlace(v)] = "full"

\* A call has its container; once it waits for a copy the record of that copy
\* stays until the call itself cleans it; it goes on only when the copy ended well.
Awaits(v, h) ==
    /\ pc[h] \in {"auth", "copyCheck", "start", "fallback", "copying"} =>
          container[HomePlace(v)] = "present"
    /\ pc[h] \in {"copying", "poll", "cleanup"} => \E j \in JobIds : jobs[j].listed
    /\ pc[h] = "copying" /\ job[h] \in JobIds => jobs[job[h]].alive
    /\ pc[h] = "copying" /\ job[h] = "exit0" => data[HomePlace(v)] = "full"
    /\ pc[h] \in {"store", "respond"} => data[HomePlace(v)] = "full"
CallsAwait ==
    \A v \in Vols, h \in Handlers : Owned(v) /\ vol[h] = v => Awaits(v, h)

CloneInv == AtHome /\ ClonesCopy /\ NoDelete /\ CopiesFill /\ CallsAwait /\ CloneComplete

-----------------------------------------------------------------------------
(* What the conditions say *)

\* The faults and outcomes that do not happen.
LEMMA SureFacts ==
    ASSUME SureCopies
    PROVE  /\ CopiesAreListed
           /\ ~Fault("keyFails") /\ ~Fault("sasFails") /\ ~Fault("listFails")
           /\ ~Fault("execFails") /\ ~Fault("accountMoves")
           /\ \A o \in JobOutcomes : o = "Completed"
           /\ \A v, w \in Vols : Class[v].clone /\ Class[w].clone => v = w
  BY DEF SureCopies, CopiesAreListed, Fault

\* The account a search finds stays the same, and a volume once deleted is not
\* wanted again.
LEMMA MatchStays ==
    ASSUME SureCopies, [Next]_vars PROVE match' = match /\ wanted' \subseteq wanted
<1> USE DEF outside
<1>1. ASSUME NEW h \in Handlers, Step(h) PROVE match' = match /\ wanted' = wanted
  <2>1. CASE AcquireVolume(h) \/ SelectAccount(h) \/ LockAccountSearch(h) \/ EnsureStorageAccount(h)
             \/ GetDataPlaneKey(h) \/ CreateBlobContainer(h) \/ StoreAccountKey(h) \/ CreateVolumeResponse(h)
    BY <2>1 DEF AcquireVolume, SelectAccount, LockAccountSearch, EnsureStorageAccount,
                GetDataPlaneKey, CreateBlobContainer, StoreAccountKey, CreateVolumeResponse
  <2>2. CASE AuthorizeCopy(h) \/ FallbackToSasToken(h) \/ CheckCopyJob(h) \/ StartCopy(h)
             \/ AwaitCopy(h) \/ PollCopy(h)
    BY <2>2 DEF AuthorizeCopy, FallbackToSasToken, getAzcopyAuth, CheckCopyJob, StartCopy,
                AwaitCopy, PollCopy
  <2>3. CASE CleanupCheck(h) \/ CleanupDelete(h) \/ DeleteAuth(h) \/ DeleteContainer(h)
    BY <2>3 DEF CleanupCheck, CleanupDelete, DeleteAuth, DeleteContainer
  <2> QED
    BY <1>1, <2>1, <2>2, <2>3 DEF Step
<1> QED
  BY <1>1, SureFacts
  DEF Next, CreateVolume, DeleteVolume, AzcopyExit, ContainerGone, ExpireCaches, AccountMoves,
      Restart, vars

-----------------------------------------------------------------------------
(* Every call for a volume settles on the same account. *)

\* A step that forgets accounts but learns none.
LEMMA HomeFrame ==
    ASSUME AtHome, match' = match,
           \A k \in SearchKeys : searchCache'[k] \in {None, searchCache[k]},
           \A v \in Vols : volMap'[v] \in {None, volMap[v]},
           \A h \in Handlers : /\ Searching(h)' => Searching(h) /\ vol'[h] = vol[h]
                               /\ Settled(h)' => /\ Settled(h)
                                                 /\ vol'[h] = vol[h] /\ acct'[h] = acct[h]
    PROVE  AtHome'
  BY DEF AtHome, Home

\* Every step of a handler moves only that handler: a step of CreateVolume or
\* DeleteVolume past the choice of the account changes no account.
LEMMA SettledStep ==
    ASSUME TypeInv, NEW h \in Handlers, Step(h), ~SelectAccount(h), ~EnsureStorageAccount(h)
    PROVE  /\ UNCHANGED <<searchCache, volMap>>
           /\ \A g \in Handlers : /\ Searching(g)' => Searching(g) /\ vol'[g] = vol[g]
                                  /\ Settled(g)' => /\ Settled(g)
                                                    /\ vol'[g] = vol[g] /\ acct'[g] = acct[g]
<1> USE DEF TypeInv, TypeOK, LocalsOK, caches, Searching, Settled, Creating, Goto, Forget, Keep
<1>1. CASE AcquireVolume(h) \/ LockAccountSearch(h)
  BY <1>1 DEF AcquireVolume, LockAccountSearch
<1>2. CASE GetDataPlaneKey(h) \/ CreateBlobContainer(h) \/ StoreAccountKey(h) \/ CreateVolumeResponse(h)
  BY <1>2 DEF GetDataPlaneKey, CreateBlobContainer, StoreAccountKey, CreateVolumeResponse, ReturnError
<1>3. CASE AuthorizeCopy(h) \/ FallbackToSasToken(h)
  BY <1>3 DEF AuthorizeCopy, FallbackToSasToken, getAzcopyAuth
<1>4. CASE CheckCopyJob(h)
  <2>1. \E s \in {"cleanup", "store", "poll", "start"} : Goto(h, s)
    BY <1>4 DEF CheckCopyJob, GetAzcopyJob, parseAzcopyJobList
  <2> QED
    BY <1>4, <2>1 DEF CheckCopyJob
<1>5. CASE StartCopy(h) \/ AwaitCopy(h) \/ PollCopy(h)
  BY <1>5 DEF StartCopy, AwaitCopy, PollCopy, CopySucceeded, CopyFailed
<1>6. CASE CleanupCheck(h) \/ CleanupDelete(h)
  BY <1>6 DEF CleanupCheck, CleanupDelete, ReturnError
<1>7. CASE DeleteAuth(h) \/ DeleteContainer(h)
  BY <1>7 DEF DeleteAuth, DeleteContainer, ReturnDelete
<1> QED
  BY <1>1, <1>2, <1>3, <1>4, <1>5, <1>6, <1>7 DEF Step

\* Every step keeps the calls and caches at the volume's account.
LEMMA HomeStep ==
    ASSUME SureCopies PROVE TypeInv /\ AtHome /\ [Next]_vars => AtHome'
<1> SUFFICES ASSUME TypeInv, AtHome, [Next]_vars PROVE AtHome'
  OBVIOUS
<1>0. match' = match
  BY MatchStays
<1> USE DEF TypeInv, TypeOK, LocalsOK, CachesOK
<1>1. ASSUME NEW h \in Handlers, SelectAccount(h) PROVE AtHome'
  <2>1. /\ vol[h] \in Vols /\ Params(h).search \in SearchKeys
        /\ UNCHANGED <<vol, searchCache, volMap>>
        /\ \A g \in Handlers : g # h => pc'[g] = pc[g] /\ acct'[g] = acct[g]
    BY <1>1, ClassFacts DEF SelectAccount, HandlerOK, Params, Goto, caches
  <2>2. pc'[h] # "ensureWait" => acct'[h] = Home(vol[h])
    BY <1>1, <2>1 DEF SelectAccount, Goto, AtHome, Home, Params
  <2>3. pc'[h] \in {"key", "ensureWait"}
    BY <1>1 DEF SelectAccount, Goto
  <2>4. pc'[h] = "ensureWait" => Class[vol[h]].account = None
    BY <1>1, <2>1 DEF SelectAccount, Goto, Params
  <2> QED
    BY <1>0, <2>1, <2>2, <2>3, <2>4 DEF AtHome, Home, Searching, Settled, Creating
<1>2. ASSUME NEW h \in Handlers, EnsureStorageAccount(h) PROVE AtHome'
  <2> DEFINE k == Params(h).search
  <2>1. /\ pc[h] = "ensure" /\ vol[h] \in Vols /\ k \in SearchKeys
        /\ \A g \in Handlers : g # h => pc'[g] = pc[g] /\ vol'[g] = vol[g] /\ acct'[g] = acct[g]
    BY <1>2, ClassFacts DEF EnsureStorageAccount, HandlerOK, Params, Goto, ReturnError, Forget
  <2>2. CASE ReturnError(h) /\ UNCHANGED <<searchCache, volMap>>
    <3>1. pc'[h] = "idle"
      BY <2>2 DEF ReturnError, Goto
    <3> QED
      BY <1>0, <2>1, <2>2, <3>1, HomeFrame DEF Searching, Settled, Creating
  <2>3. CASE /\ acct' = [acct EXCEPT ![h] = match[k]]
             /\ searchCache' = [searchCache EXCEPT ![k] = match[k]]
             /\ volMap' = [volMap EXCEPT ![vol[h]] = match[k]]
             /\ vol' = vol
    <3>1. Class[vol[h]].account = None
      BY <2>1 DEF AtHome, Searching
    <3> QED
      BY <1>0, <2>1, <2>3, <3>1 DEF AtHome, Home, Searching, Settled, Creating, Params
  <2> QED
    BY <1>2, <2>2, <2>3 DEF EnsureStorageAccount
<1>3. ASSUME NEW h \in Handlers, Step(h), ~SelectAccount(h), ~EnsureStorageAccount(h)
      PROVE  AtHome'
  BY <1>0, <1>3, SettledStep, HomeFrame
<1>4. ASSUME NEW h \in Handlers, NEW v \in Vols, CreateVolume(h, v) PROVE AtHome'
  BY <1>0, <1>4, HomeFrame DEF CreateVolume, Goto, caches, Searching, Settled, Creating
<1>5. ASSUME NEW h \in Handlers, NEW id \in VolumeIDs, DeleteVolume(h, id) PROVE AtHome'
  BY <1>0, <1>5, HomeFrame DEF DeleteVolume, Goto, caches, Searching, Settled, Creating
<1>6. CASE Restart
  BY <1>0, <1>6, HomeFrame DEF Restart, Searching, Settled, Creating
<1>7. CASE ExpireCaches
  BY <1>0, <1>7, HomeFrame DEF ExpireCaches, locals, Searching, Settled, Creating
<1>8. ASSUME UNCHANGED <<searchCache, volMap, pc, vol, acct>> PROVE AtHome'
  BY <1>0, <1>8, HomeFrame DEF Searching, Settled, Creating
<1> QED
  BY <1>1, <1>2, <1>3, <1>4, <1>5, <1>6, <1>7, <1>8
  DEF Next, AzcopyExit, ContainerGone, AccountMoves, vars, caches, locals

-----------------------------------------------------------------------------
(* What becomes of the job records *)

\* azcopy jobs clean keeps a record as it is or removes it.
LEMMA CleanJobsKeeps ==
    ASSUME SureCopies, TypeInv, NEW j \in JobIds PROVE CleanJobs[j] \in {jobs[j], NoJob}
<1>1. CASE jobs[j].alive
  <2>1. CleanJobs[j] = [jobs[j] EXCEPT !.listed = @ /\ ~Fault("cleanDropsRunning")]
    BY <1>1 DEF CleanJobs
  <2>2. CleanJobs[j].alive
    BY <1>1, <2>1, JobFacts DEF JobRecord
  <2> QED
    BY <2>2, CleanJobsSpares, SureFacts
<1>2. CASE ~jobs[j].alive
  BY <1>2 DEF CleanJobs
<1> QED
  BY <1>1, <1>2

\* A handler's step other than StartCopy makes no record and changes none but by a
\* deletion; it removes records only when a copy has succeeded.
LEMMA JobsOfStep ==
    ASSUME SureCopies, TypeInv, NEW h \in Handlers, Step(h), ~StartCopy(h), NEW j \in JobIds
    PROVE  \/ jobs'[j] = jobs[j]
           \/ /\ jobs'[j] = NoJob
              /\ pc[h] \in {"copying", "poll"} /\ pc'[h] = "store"
           \/ /\ jobs'[j] = [jobs[j] EXCEPT !.intact = FALSE]
              /\ pc[h] \in {"cleanupDelete", "delete"} /\ Place(h) = jobs[j].place
              /\ jobs[j].alive
<1> USE DEF store
<1>1. CASE AcquireVolume(h) \/ SelectAccount(h) \/ LockAccountSearch(h) \/ EnsureStorageAccount(h)
           \/ GetDataPlaneKey(h) \/ CreateBlobContainer(h) \/ StoreAccountKey(h) \/ CreateVolumeResponse(h)
  BY <1>1 DEF AcquireVolume, SelectAccount, LockAccountSearch, EnsureStorageAccount,
              GetDataPlaneKey, CreateBlobContainer, StoreAccountKey, CreateVolumeResponse
<1>2. CASE AuthorizeCopy(h) \/ FallbackToSasToken(h) \/ CheckCopyJob(h) \/ CleanupCheck(h) \/ DeleteAuth(h)
  BY <1>2 DEF AuthorizeCopy, FallbackToSasToken, getAzcopyAuth, CheckCopyJob, CleanupCheck, DeleteAuth
<1>3. CASE AwaitCopy(h) \/ PollCopy(h)
  <2>1. pc[h] \in {"copying", "poll"}
    BY <1>3 DEF AwaitCopy, PollCopy
  <2>2. CASE CopySucceeded(h)
    <3>1. jobs' = CleanJobs \/ jobs' = jobs
      BY <2>2 DEF CopySucceeded
    <3>2. pc'[h] = "store"
      BY <2>2 DEF CopySucceeded, Goto, TypeInv, TypeOK, LocalsOK
    <3> QED
      BY <2>1, <3>1, <3>2, CleanJobsKeeps
  <2> QED
    BY <1>3, <2>2 DEF AwaitCopy, PollCopy, CopyFailed
<1>4. CASE CleanupDelete(h) \/ DeleteContainer(h)
  BY <1>4 DEF CleanupDelete, DeleteContainer, DeleteBlobContainer
<1> QED
  BY <1>1, <1>2, <1>3, <1>4 DEF Step

\* The end of an azcopy process changes its own record.
LEMMA JobsOfExit ==
    ASSUME TypeInv, NEW i \in JobIds, AzcopyExit(i)
    PROVE  /\ \A j \in JobIds : j # i => jobs'[j] = jobs[j]
           /\ jobs[i] \in JobRecord /\ jobs[i].alive
           /\ \E o \in IF container[jobs[i].place] = "present" THEN JobOutcomes ELSE {"Failed"} :
                 jobs'[i] = IF jobs[i].listed THEN [jobs[i] EXCEPT !.status = o, !.alive = FALSE]
                            ELSE NoJob
  BY JobFacts DEF AzcopyExit, TypeInv, TypeOK, StoreOK

\* The steps outside the handlers that touch records: a process ends, or the
\* controller restarts; nothing else does.
LEMMA JobsOutside ==
    ASSUME [Next]_vars, \A h \in Handlers : ~Step(h), \A i \in JobIds : ~AzcopyExit(i), ~Restart
    PROVE  jobs' = jobs
  BY DEF Next, CreateVolume, DeleteVolume, ContainerGone, ExpireCaches, AccountMoves, store, vars

\* No step but StartCopy makes a record or moves one to another container.
LEMMA JobPlaces ==
    ASSUME SureCopies, TypeInv, [Next]_vars, \A h \in Handlers : ~StartCopy(h),
           NEW j \in JobIds, jobs'[j] # NoJob
    PROVE  jobs[j] # NoJob /\ jobs'[j].place = jobs[j].place
<1>0. jobs[j] \in JobRecord \cup {NoJob}
  BY DEF TypeInv, TypeOK, StoreOK, JobType
<1>1. CASE jobs'[j] = jobs[j]
  BY <1>1
<1>2. CASE jobs[j].alive /\ jobs'[j] = [jobs[j] EXCEPT !.intact = FALSE]
  BY <1>2, JobFacts DEF JobRecord, NoJob
<1>3. ASSUME NEW i \in JobIds, AzcopyExit(i)
      PROVE  jobs[j] # NoJob /\ jobs'[j].place = jobs[j].place
  <2>1. CASE j # i
    BY <1>1, <1>3, <2>1, JobsOfExit
  <2>2. CASE j = i
    <3>1. PICK o : jobs'[j] = [jobs[j] EXCEPT !.status = o, !.alive = FALSE]
      BY <1>3, <2>2, JobsOfExit
    <3>2. jobs[j] \in JobRecord /\ jobs[j].alive
      BY <1>3, <2>2, JobsOfExit
    <3> QED
      BY <3>1, <3>2 DEF JobRecord, NoJob
  <2> QED
    BY <2>1, <2>2
<1>4. CASE Restart
  <2>1. jobs[j].listed /\ jobs'[j] = [jobs[j] EXCEPT !.alive = FALSE]
    BY <1>4 DEF Restart
  <2> QED
    BY <2>1, JobFacts DEF JobRecord, NoJob
<1>5. ASSUME NEW h \in Handlers, Step(h)
      PROVE  jobs[j] # NoJob /\ jobs'[j].place = jobs[j].place
  BY <1>1, <1>2, <1>5, JobsOfStep
<1> QED
  BY <1>1, <1>3, <1>4, <1>5, JobsOutside

-----------------------------------------------------------------------------
(* Who copies where *)

\* The steps that a handler of the copying part may come from.
LEMMA CopySteps1 ==
    ASSUME TypeInv, NEW h \in Handlers, Step(h), NEW g \in Handlers, pc'[g] \in CopySteps
    PROVE  /\ vol'[g] = vol[g] /\ acct'[g] = acct[g]
           /\ pc[g] \in CopySteps \/ (pc[g] = "create" /\ Class[vol[g]].clone)
<1> USE DEF TypeInv, TypeOK, LocalsOK, Goto, Forget, Keep, CopySteps
<1>1. CASE AcquireVolume(h) \/ SelectAccount(h) \/ LockAccountSearch(h)
  BY <1>1 DEF AcquireVolume, SelectAccount, LockAccountSearch
<1>2. CASE EnsureStorageAccount(h) \/ GetDataPlaneKey(h) \/ StoreAccountKey(h) \/ CreateVolumeResponse(h)
  BY <1>2 DEF EnsureStorageAccount, GetDataPlaneKey, StoreAccountKey, CreateVolumeResponse, ReturnError
<1>3. CASE CreateBlobContainer(h)
  BY <1>3 DEF CreateBlobContainer, ReturnError, Params
<1>4. CASE AuthorizeCopy(h) \/ FallbackToSasToken(h)
  BY <1>4 DEF AuthorizeCopy, FallbackToSasToken, getAzcopyAuth
<1>5. CASE CheckCopyJob(h)
  BY <1>5 DEF CheckCopyJob
<1>6. CASE StartCopy(h) \/ AwaitCopy(h) \/ PollCopy(h)
  BY <1>6 DEF StartCopy, AwaitCopy, PollCopy, CopySucceeded, CopyFailed
<1>7. CASE CleanupCheck(h) \/ CleanupDelete(h)
  BY <1>7 DEF CleanupCheck, CleanupDelete, ReturnError
<1>8. CASE DeleteAuth(h) \/ DeleteContainer(h)
  BY <1>8 DEF DeleteAuth, DeleteContainer, ReturnDelete
<1> QED
  BY <1>1, <1>2, <1>3, <1>4, <1>5, <1>6, <1>7, <1>8 DEF Step

\* A call in the copying part is for its volume's container at home.
LEMMA CopyingAtHome ==
    ASSUME AtHome, NEW h \in Handlers,
           pc[h] \in CopySteps \cup {"key", "create", "store", "respond"}
    PROVE  Place(h) = HomePlace(vol[h]) /\ acct[h] = Home(vol[h]) /\ Creating(h)
  BY DEF AtHome, Settled, Creating, CopySteps, Place, HomePlace

\* Every step keeps the copies to the clone and its container.
LEMMA ClonesStep ==
    ASSUME SureCopies PROVE TypeInv /\ AtHome /\ ClonesCopy /\ [Next]_vars => ClonesCopy'
<1> SUFFICES ASSUME TypeInv, AtHome, ClonesCopy, [Next]_vars PROVE ClonesCopy'
  OBVIOUS
<1>0. \A v : HomePlace(v)' = HomePlace(v)
  BY MatchStays DEF HomePlace, Home
<1>1. ASSUME NEW g \in Handlers, pc'[g] \in CopySteps PROVE Class[vol'[g]].clone
  <2>1. ASSUME NEW h \in Handlers, Step(h) PROVE Class[vol'[g]].clone
    BY <1>1, <2>1, CopySteps1 DEF ClonesCopy
  <2>2. ASSUME NEW h \in Handlers,
               (\E v \in Vols : CreateVolume(h, v)) \/ (\E id \in VolumeIDs : DeleteVolume(h, id))
        PROVE  Class[vol'[g]].clone
    <3>1. /\ g # h => pc'[g] = pc[g] /\ vol'[g] = vol[g]
          /\ pc'[h] \in {"arrived", "deleteAuth"}
      <4>1. CASE \E v \in Vols : CreateVolume(h, v)
        BY <4>1 DEF CreateVolume, Goto, TypeInv, TypeOK, LocalsOK
      <4>2. CASE \E id \in VolumeIDs : DeleteVolume(h, id)
        BY <4>2 DEF DeleteVolume, Goto, TypeInv, TypeOK, LocalsOK
      <4> QED
        BY <2>2, <4>1, <4>2
    <3>2. g # h
      BY <1>1, <3>1 DEF CopySteps
    <3> QED
      BY <1>1, <3>1, <3>2 DEF ClonesCopy
  <2>3. CASE UNCHANGED <<pc, vol>>
    BY <1>1, <2>3 DEF ClonesCopy
  <2>4. ~Restart
    BY <1>1 DEF Restart, CopySteps
  <2> QED
    BY <2>1, <2>2, <2>3, <2>4 DEF Next, AzcopyExit, ContainerGone, ExpireCaches, AccountMoves, vars, locals
<1>2. ASSUME NEW j \in JobIds, jobs'[j] # NoJob
      PROVE  \E v \in Vols : Class[v].clone /\ jobs'[j].place = HomePlace(v)
  <2>1. ASSUME NEW h \in Handlers, StartCopy(h)
        PROVE  \E v \in Vols : Class[v].clone /\ jobs'[j].place = HomePlace(v)
    <3>1. /\ Place(h) = HomePlace(vol[h]) /\ Class[vol[h]].clone /\ vol[h] \in Vols
      BY <2>1, CopyingAtHome DEF StartCopy, CopySteps, ClonesCopy, TypeInv, HandlerOK
    <3>2. jobs'[j] = jobs[j] \/ jobs'[j].place = Place(h)
      BY <2>1 DEF StartCopy, TypeInv, TypeOK, StoreOK
    <3> QED
      BY <1>2, <3>1, <3>2 DEF ClonesCopy
  <2>2. CASE \A h \in Handlers : ~StartCopy(h)
    BY <1>2, <2>2, JobPlaces DEF ClonesCopy
  <2> QED
    BY <2>1, <2>2
<1> QED
  BY <1>0, <1>1, <1>2 DEF ClonesCopy

-----------------------------------------------------------------------------
(* The clone *)

\* The container of an owned clone is at its volume's account and has its name, and
\* every record is of a copy into it.
LEMMA OwnedFacts ==
    ASSUME SureCopies, TypeInv, ClonesCopy, NEW v \in Vols, Owned(v)
    PROVE  /\ ContainerOf(v) = v /\ Home(v) \in Accounts
           /\ HomePlace(v) = <<Home(v), v>> /\ HomePlace(v) \in Places
           /\ \A h \in Handlers : pc[h] \in CopySteps => vol[h] = v
           /\ \A j \in JobIds : jobs[j] # NoJob => jobs[j].place = HomePlace(v)
           /\ \A w \in Vols : ContainerOf(w) = v => w = v
<1>1. ContainerOf(v) = v
  BY DEF Owned, ContainerOf
<1>2. Home(v) \in Accounts
  BY ClassFacts DEF Home, TypeInv, TypeOK, OutsideOK
<1>3. \A h \in Handlers : pc[h] \in CopySteps => vol[h] = v
  BY SureFacts DEF ClonesCopy, Owned, TypeInv, HandlerOK, CopySteps
<1>4. \A j \in JobIds : jobs[j] # NoJob => jobs[j].place = HomePlace(v)
  BY SureFacts DEF ClonesCopy, Owned
<1>5. \A w \in Vols : ContainerOf(w) = v => w = v
  BY ConstantsAssumption DEF ContainerOf
<1> QED
  BY <1>1, <1>2, <1>3, <1>4, <1>5 DEF HomePlace, Places, Names

\* A step of one handler leaves the locals of the others alone.
LEMMA StepLocal ==
    ASSUME TypeInv, NEW h \in Handlers, Step(h), NEW g \in Handlers, g # h
    PROVE  pc'[g] = pc[g] /\ vol'[g] = vol[g] /\ acct'[g] = acct[g] /\ job'[g] = job[g]
<1> USE DEF TypeInv, TypeOK, LocalsOK, Goto, Forget, Keep
<1>1. CASE AcquireVolume(h) \/ SelectAccount(h) \/ LockAccountSearch(h)
  BY <1>1 DEF AcquireVolume, SelectAccount, LockAccountSearch
<1>2. CASE EnsureStorageAccount(h) \/ GetDataPlaneKey(h) \/ StoreAccountKey(h) \/ CreateVolumeResponse(h)
  BY <1>2 DEF EnsureStorageAccount, GetDataPlaneKey, StoreAccountKey, CreateVolumeResponse, ReturnError
<1>3. CASE CreateBlobContainer(h) \/ CleanupCheck(h) \/ CleanupDelete(h)
  BY <1>3 DEF CreateBlobContainer, CleanupCheck, CleanupDelete, ReturnError
<1>4. CASE AuthorizeCopy(h) \/ FallbackToSasToken(h) \/ CheckCopyJob(h)
  BY <1>4 DEF AuthorizeCopy, FallbackToSasToken, getAzcopyAuth, CheckCopyJob
<1>5. CASE StartCopy(h) \/ AwaitCopy(h) \/ PollCopy(h)
  BY <1>5 DEF StartCopy, AwaitCopy, PollCopy, CopySucceeded, CopyFailed
<1>6. CASE DeleteAuth(h) \/ DeleteContainer(h)
  BY <1>6 DEF DeleteAuth, DeleteContainer, ReturnDelete
<1> QED
  BY <1>1, <1>2, <1>3, <1>4, <1>5, <1>6 DEF Step

\* Nothing takes a container or the data of an owned clone away.
LEMMA StoreStays ==
    ASSUME SureCopies, TypeInv, ClonesCopy, NoDelete, [Next]_vars,
           NEW v \in Vols, Owned(v), NEW a \in Accounts
    PROVE  /\ container[<<a, v>>] = "present" => container'[<<a, v>>] = "present"
           /\ data[<<a, v>>] = "full" => data'[<<a, v>>] = "full"
<1> DEFINE q == <<a, v>>
           Kept == /\ container[q] = "present" => container'[q] = "present"
                   /\ data[q] = "full" => data'[q] = "full"
<1>0. q \in Places /\ container \in [Places -> {"absent", "present", "deleting"}]
      /\ data \in [Places -> {"empty", "partial", "full"}]
  BY DEF Places, Names, TypeInv, TypeOK, StoreOK
<1>1. ASSUME NEW h \in Handlers, pc[h] \in {"cleanupDelete", "delete"} PROVE Place(h) # q
  <2>1. vol[h] \in Vols /\ vol[h] # v
    BY <1>1 DEF NoDelete, TypeInv, HandlerOK
  <2> QED
    BY <2>1, OwnedFacts DEF Place
<1>2. ASSUME NEW h \in Handlers, CleanupDelete(h) \/ DeleteContainer(h) PROVE Kept
  <2>1. Place(h) # q
    BY <1>1, <1>2 DEF CleanupDelete, DeleteContainer
  <2> QED
    BY <1>0, <1>2, <2>1 DEF CleanupDelete, DeleteContainer, DeleteBlobContainer, store
<1>3. ASSUME NEW h \in Handlers, CreateBlobContainer(h) PROVE Kept
  BY <1>0, <1>3 DEF CreateBlobContainer
<1>4. ASSUME NEW p \in Places, ContainerGone(p) PROVE Kept
  BY <1>0, <1>4 DEF ContainerGone
<1>5. ASSUME NEW j \in JobIds, AzcopyExit(j) PROVE Kept
  BY <1>0, <1>5 DEF AzcopyExit
<1>6. ASSUME UNCHANGED <<container, data>> PROVE Kept
  BY <1>6
<1>7. ASSUME NEW h \in Handlers, Step(h) PROVE Kept
  <2> USE DEF store
  <2>1. CASE AcquireVolume(h) \/ SelectAccount(h) \/ LockAccountSearch(h) \/ EnsureStorageAccount(h)
             \/ GetDataPlaneKey(h) \/ StoreAccountKey(h) \/ CreateVolumeResponse(h)
    BY <1>6, <2>1 DEF AcquireVolume, SelectAccount, LockAccountSearch, EnsureStorageAccount,
                      GetDataPlaneKey, StoreAccountKey, CreateVolumeResponse
  <2>2. CASE AuthorizeCopy(h) \/ FallbackToSasToken(h) \/ CheckCopyJob(h) \/ StartCopy(h)
             \/ AwaitCopy(h) \/ PollCopy(h) \/ CleanupCheck(h) \/ DeleteAuth(h)
    BY <1>6, <2>2 DEF AuthorizeCopy, FallbackToSasToken, getAzcopyAuth, CheckCopyJob, StartCopy,
                      AwaitCopy, PollCopy, CleanupCheck, DeleteAuth
  <2> QED
    BY <1>2, <1>3, <1>7, <2>1, <2>2 DEF Step
<1> QED
  BY <1>4, <1>5, <1>6, <1>7
  DEF Next, CreateVolume, DeleteVolume, ExpireCaches, AccountMoves, Restart, store, vars

\* A call for an owned clone that asks for the job while a record is listed finds it
\* running or completed; completed means that everything was copied.
LEMMA RecordSeen ==
    ASSUME SureCopies, TypeInv, ClonesCopy, CopiesFill, NEW v \in Vols, Owned(v)
    PROVE  /\ \A s \in GetAzcopyJob(v) : s \in {"Completed", "Running", "NotFound"}
           /\ (\E j \in JobIds : jobs[j].listed) => "NotFound" \notin GetAzcopyJob(v)
           /\ "Running" \in GetAzcopyJob(v) => \E j \in JobIds : jobs[j].listed
           /\ "Completed" \in GetAzcopyJob(v) => data[HomePlace(v)] = "full"
<1>1. GetAzcopyJob(v) = {parseAzcopyJobList(AzcopyJobs(v))}
  BY SureFacts DEF GetAzcopyJob
<1>2. ASSUME NEW j \in JobIds, jobs[j].listed
      PROVE  j \in AzcopyJobs(v) /\ jobs[j].status \in {"InProgress"} \cup Completed
  <2>1. jobs[j] \in JobRecord /\ jobs[j] # NoJob
    BY <1>2, JobFacts DEF NoJob, JobRecord
  <2>2. jobs[j].place = <<Home(v), v>>
    BY <2>1, OwnedFacts
  <2> QED
    BY <1>2, <2>1, <2>2 DEF AzcopyJobs, CopiesFill, JobRecord
<1>3. ASSUME NEW j \in AzcopyJobs(v), jobs[j].status \in Completed
      PROVE  data[HomePlace(v)] = "full"
  <2>1. j \in JobIds /\ jobs[j] # NoJob
    BY <1>3 DEF AzcopyJobs, NoJob
  <2> QED
    BY <1>3, <2>1 DEF CopiesFill
<1>4. \A j \in AzcopyJobs(v) : j \in JobIds /\ jobs[j].listed
  BY DEF AzcopyJobs
<1> QED
  BY <1>1, <1>2, <1>3, <1>4 DEF parseAzcopyJobList

\* Nobody comes to delete the container: the provisioner has not asked for it, and
\* the cleanup after a failed copy sees the record.
LEMMA NoDeleteStep ==
    ASSUME SureCopies
    PROVE  TypeInv /\ AtHome /\ ClonesCopy /\ NoDelete /\ CopiesFill /\ CallsAwait /\ [Next]_vars
           => NoDelete'
<1> SUFFICES ASSUME TypeInv, AtHome, ClonesCopy, NoDelete, CopiesFill, CallsAwait, [Next]_vars,
                    NEW v \in Vols, Owned(v)', NEW g \in Handlers, vol'[g] = v,
                    pc'[g] \in {"cleanupDelete", "deleteAuth", "delete"}
             PROVE  FALSE
  BY DEF NoDelete
<1>0. Owned(v)
  BY MatchStays DEF Owned
<1>1. pc[g] \notin {"cleanupDelete", "deleteAuth", "delete"} \/ vol[g] # v
  BY <1>0 DEF NoDelete
<1> USE DEF TypeInv, TypeOK, LocalsOK
<1>2. ASSUME NEW h \in Handlers, Step(h) PROVE FALSE
  <2>1. g = h
    BY <1>1, <1>2, StepLocal
  <2> USE DEF Goto, Forget, Keep
  <2>2. CASE AcquireVolume(h) \/ SelectAccount(h) \/ LockAccountSearch(h)
    BY <2>1, <2>2 DEF AcquireVolume, SelectAccount, LockAccountSearch
  <2>3. CASE EnsureStorageAccount(h) \/ GetDataPlaneKey(h) \/ StoreAccountKey(h) \/ CreateVolumeResponse(h)
    BY <2>1, <2>3 DEF EnsureStorageAccount, GetDataPlaneKey, StoreAccountKey, CreateVolumeResponse, ReturnError
  <2>4. CASE CreateBlobContainer(h) \/ AuthorizeCopy(h) \/ FallbackToSasToken(h)
    BY <2>1, <2>4 DEF CreateBlobContainer, ReturnError, AuthorizeCopy, FallbackToSasToken, getAzcopyAuth
  <2>5. CASE CheckCopyJob(h)
    <3>1. \E s \in {"cleanup", "store", "poll", "start"} : Goto(h, s)
      BY <2>5 DEF CheckCopyJob, GetAzcopyJob, parseAzcopyJobList
    <3> QED
      BY <2>1, <3>1
  <2>6. CASE StartCopy(h) \/ AwaitCopy(h) \/ PollCopy(h)
    BY <2>1, <2>6 DEF StartCopy, AwaitCopy, PollCopy, CopySucceeded, CopyFailed
  <2>7. CASE CleanupCheck(h)
    <3>1. vol[h] = v /\ pc[h] = "cleanup"
      BY <2>1, <2>7 DEF CleanupCheck, ReturnError
    <3>2. \E j \in JobIds : jobs[j].listed
      BY <1>0, <3>1 DEF CallsAwait, Awaits
    <3>3. \A s \in GetAzcopyJob(v) : isAzcopyJobActiveOrCompleted(s)
      BY <1>0, <3>2, RecordSeen DEF isAzcopyJobActiveOrCompleted
    <3>4. ContainerOf(vol[h]) = v
      BY <1>0, <3>1, OwnedFacts
    <3>5. ReturnError(h)
      BY <2>7, <3>3, <3>4 DEF CleanupCheck
    <3> QED
      BY <2>1, <3>5 DEF ReturnError
  <2>8. CASE CleanupDelete(h) \/ DeleteContainer(h)
    BY <2>1, <2>8 DEF CleanupDelete, DeleteContainer, ReturnError, ReturnDelete
  <2>9. CASE DeleteAuth(h)
    BY <1>1, <2>1, <2>9 DEF DeleteAuth, ReturnDelete
  <2> QED
    BY <1>2, <2>2, <2>3, <2>4, <2>5, <2>6, <2>7, <2>8, <2>9 DEF Step
<1>3. ASSUME NEW h \in Handlers, NEW w \in Vols, CreateVolume(h, w) PROVE FALSE
  BY <1>1, <1>3 DEF CreateVolume, Goto
<1>4. ASSUME NEW h \in Handlers, NEW id \in VolumeIDs, DeleteVolume(h, id) PROVE FALSE
  <2>1. CASE g = h
    BY <1>4, <2>1 DEF DeleteVolume, Owned
  <2>2. CASE g # h
    BY <1>1, <1>4, <2>2 DEF DeleteVolume, Goto
  <2> QED
    BY <2>1, <2>2
<1>5. ~Restart
  BY DEF Restart
<1>6. ASSUME UNCHANGED <<pc, vol>> PROVE FALSE
  BY <1>1, <1>6
<1> QED
  BY <1>2, <1>3, <1>4, <1>5, <1>6
  DEF Next, AzcopyExit, ContainerGone, ExpireCaches, AccountMoves, vars, locals

\* The copies of an owned clone stay sure: what starts has its container, what ends
\* has filled it.
LEMMA FillStep ==
    ASSUME SureCopies
    PROVE  TypeInv /\ AtHome /\ ClonesCopy /\ NoDelete /\ CopiesFill /\ CallsAwait /\ [Next]_vars
           => CopiesFill'
<1> SUFFICES ASSUME TypeInv, AtHome, ClonesCopy, NoDelete, CopiesFill, CallsAwait, [Next]_vars,
                    NEW v \in Vols, Owned(v)', NEW j \in JobIds, jobs'[j] # NoJob
             PROVE  /\ jobs'[j].status # "Failed"
                    /\ jobs'[j].alive => jobs'[j].intact /\ container'[HomePlace(v)] = "present"
                    /\ jobs'[j].status \in Completed => data'[HomePlace(v)] = "full"
  BY MatchStays DEF CopiesFill, HomePlace, Home
<1> DEFINE p == HomePlace(v)
           Good(r) == /\ r.status # "Failed"
                      /\ r.alive => r.intact /\ container'[p] = "present"
                      /\ r.status \in Completed => data'[p] = "full"
<1>0. Owned(v)
  BY MatchStays DEF Owned
<1>1. /\ p = <<Home(v), v>> /\ Home(v) \in Accounts /\ p \in Places
      /\ container[p] = "present" => container'[p] = "present"
      /\ data[p] = "full" => data'[p] = "full"
  BY <1>0, OwnedFacts, StoreStays
<1>2. jobs[j] # NoJob => Good(jobs[j])
  BY <1>0, <1>1 DEF CopiesFill
<1>3. ASSUME NEW h \in Handlers, StartCopy(h) PROVE Good(jobs'[j])
  <2>1. CASE jobs'[j] = jobs[j]
    BY <1>2, <2>1
  <2>2. CASE jobs'[j] # jobs[j]
    <3>1. jobs'[j] = [place |-> Place(h), src |-> Params(h).src, status |-> "InProgress",
                      alive |-> TRUE, listed |-> TRUE, intact |-> TRUE]
      BY <1>3, <2>2 DEF StartCopy, TypeInv, TypeOK, StoreOK
    <3>2. pc[h] = "start" /\ vol[h] = v
      BY <1>0, <1>3, OwnedFacts DEF StartCopy, CopySteps
    <3>3. container[p] = "present"
      BY <1>0, <3>2 DEF CallsAwait, Awaits
    <3> QED
      BY <1>1, <3>1, <3>3 DEF Completed
  <2> QED
    BY <2>1, <2>2
<1>4. ASSUME NEW h \in Handlers, Step(h), ~StartCopy(h) PROVE Good(jobs'[j])
  <2>1. ~(pc[h] \in {"cleanupDelete", "delete"} /\ Place(h) = jobs[j].place /\ jobs[j].alive)
    <3> SUFFICES ASSUME pc[h] \in {"cleanupDelete", "delete"}, Place(h) = jobs[j].place,
                        jobs[j].alive
                 PROVE  FALSE
      OBVIOUS
    <3>1. jobs[j].place = <<Home(v), v>>
      BY <1>0, <1>1, OwnedFacts DEF NoJob
    <3>2. vol[h] \in Vols /\ ContainerOf(vol[h]) = v
      BY <3>1 DEF Place, TypeInv, HandlerOK
    <3> QED
      BY <1>0, <3>2, OwnedFacts DEF NoDelete
  <2>2. jobs'[j] = jobs[j]
    BY <1>4, <2>1, JobsOfStep
  <2> QED
    BY <1>2, <2>2
<1>5. ASSUME NEW i \in JobIds, AzcopyExit(i) PROVE Good(jobs'[j])
  <2>1. CASE j # i
    BY <1>2, <1>5, <2>1, JobsOfExit
  <2>2. CASE j = i
    <3>0. jobs[j] \in JobRecord /\ jobs[j].alive
      BY <1>5, <2>2, JobsOfExit
    <3>1. jobs[j] # NoJob
      BY <3>0 DEF NoJob
    <3>2. jobs[j].place = p /\ container[p] = "present" /\ jobs[j].intact
      BY <1>0, <3>0, <3>1, OwnedFacts DEF CopiesFill
    <3>3. data'[p] = "full"
      BY <1>1, <1>5, <2>2, <3>2, SureFacts DEF AzcopyExit, TypeInv, TypeOK, StoreOK
    <3>4. jobs'[j] = [jobs[j] EXCEPT !.status = "Completed", !.alive = FALSE]
      <4>1. PICK o \in JobOutcomes :
               jobs'[j] = IF jobs[j].listed THEN [jobs[j] EXCEPT !.status = o, !.alive = FALSE]
                          ELSE NoJob
        BY <1>5, <2>2, <3>2, JobsOfExit
      <4> QED
        BY <4>1, SureFacts
    <3> QED
      BY <3>0, <3>3, <3>4 DEF JobRecord
  <2> QED
    BY <2>1, <2>2
<1>6. CASE Restart
  <2>1. jobs[j].listed /\ jobs'[j] = [jobs[j] EXCEPT !.alive = FALSE]
    BY <1>6 DEF Restart
  <2>2. jobs[j] \in JobRecord /\ jobs[j] # NoJob
    BY <2>1, JobFacts DEF NoJob, JobRecord
  <2> QED
    BY <1>2, <2>1, <2>2 DEF JobRecord
<1>7. CASE jobs' = jobs
  BY <1>2, <1>7
<1> QED
  BY <1>3, <1>4, <1>5, <1>6, <1>7, JobsOutside

\* A handler's step does not disturb what another call for the clone waits for.
LEMMA AwaitsOthers ==
    ASSUME SureCopies, TypeInv, LockedOnce, AtHome, ClonesCopy, NoDelete, CallsAwait, [Next]_vars,
           NEW v \in Vols, Owned(v), NEW g \in Handlers, vol[g] = v,
           NEW h \in Handlers, Step(h), g # h
    PROVE  Awaits(v, g)'
<1>1. /\ pc'[g] = pc[g] /\ job'[g] = job[g] /\ Awaits(v, g)
  BY StepLocal DEF CallsAwait
<1>2. /\ HomePlace(v)' = HomePlace(v)
      /\ container[HomePlace(v)] = "present" => container'[HomePlace(v)] = "present"
      /\ data[HomePlace(v)] = "full" => data'[HomePlace(v)] = "full"
  BY MatchStays, OwnedFacts, StoreStays DEF HomePlace, Home
<1>3. ASSUME pc[g] \in {"copying", "poll", "cleanup"}, NEW j \in JobIds
      PROVE  jobs'[j].listed = jobs[j].listed /\ jobs'[j].alive = jobs[j].alive
  <2>1. pc[h] \notin CopySteps
    BY <1>3, OwnedFacts, CopyingAtHome DEF CopySteps, LockedOnce
  <2>2. ~StartCopy(h)
    BY <2>1 DEF StartCopy, CopySteps
  <2>3. \/ jobs'[j] = jobs[j]
        \/ jobs'[j] = [jobs[j] EXCEPT !.intact = FALSE] /\ jobs[j].alive
    BY <2>1, <2>2, JobsOfStep DEF CopySteps
  <2> QED
    BY <2>3, JobFacts DEF JobRecord
<1> QED
  BY <1>1, <1>2, <1>3 DEF Awaits

\* A call's own step brings it to what it waits for next.
LEMMA AwaitsOwn ==
    ASSUME SureCopies, TypeInv, LockedOnce, AtHome, ClonesCopy, NoDelete, CopiesFill, CallsAwait,
           [Next]_vars, NEW v \in Vols, Owned(v), NEW h \in Handlers, vol[h] = v, Step(h)
    PROVE  Awaits(v, h)'
<1> USE DEF TypeInv, TypeOK, LocalsOK, Goto, Forget, Keep
<1> DEFINE p == HomePlace(v)
<1>0. p' = p /\ p \in Places /\ ContainerOf(vol[h]) = v
  BY MatchStays, OwnedFacts DEF HomePlace, Home
<1>1. /\ Awaits(v, h)
      /\ container[p] = "present" => container'[p] = "present"
      /\ data[p] = "full" => data'[p] = "full"
  BY OwnedFacts, StoreStays DEF CallsAwait
<1>2. ASSUME pc'[h] \in Steps \ (CopySteps \cup {"store", "respond"}) PROVE Awaits(v, h)'
  BY <1>2 DEF Awaits, CopySteps, Steps
<1>3. CASE AcquireVolume(h) \/ SelectAccount(h) \/ LockAccountSearch(h)
  BY <1>2, <1>3 DEF AcquireVolume, SelectAccount, LockAccountSearch, Steps, CopySteps
<1>4. CASE EnsureStorageAccount(h) \/ GetDataPlaneKey(h)
  BY <1>2, <1>4 DEF EnsureStorageAccount, GetDataPlaneKey, ReturnError, Steps, CopySteps
<1>5. CASE CleanupDelete(h) \/ CleanupCheck(h)
  <2>1. CASE ReturnError(h)
    BY <1>2, <2>1 DEF ReturnError, Steps, CopySteps
  <2>2. CASE Goto(h, "cleanupDelete")
    BY <2>2 DEF Awaits
  <2> QED
    BY <1>5, <2>1, <2>2 DEF CleanupDelete, CleanupCheck
<1>6. CASE DeleteAuth(h) \/ DeleteContainer(h)
  BY <1>2, <1>6 DEF DeleteAuth, DeleteContainer, ReturnDelete, Steps, CopySteps
<1>7. CASE CreateVolumeResponse(h)
  BY <1>2, <1>7 DEF CreateVolumeResponse, Steps, CopySteps
<1>8. CASE CreateBlobContainer(h)
  <2>1. CASE ReturnError(h)
    BY <1>2, <2>1 DEF ReturnError, Steps, CopySteps
  <2>2. CASE ~ReturnError(h)
    <3>1. pc'[h] = "auth" /\ container' = [container EXCEPT ![Place(h)] = "present"]
      BY <1>8, <2>2 DEF CreateBlobContainer, Owned, Params
    <3>2. Place(h) = p
      BY <1>8, CopyingAtHome DEF CreateBlobContainer
    <3>3. container'[p] = "present"
      BY <1>0, <3>1, <3>2 DEF StoreOK
    <3> QED
      BY <1>0, <3>1, <3>3 DEF Awaits
  <2> QED
    BY <2>1, <2>2
<1>9. CASE StoreAccountKey(h)
  <2>1. CASE ReturnError(h)
    BY <1>2, <2>1 DEF ReturnError, Steps, CopySteps
  <2>2. CASE ~ReturnError(h)
    BY <1>0, <1>1, <1>9, <2>2 DEF StoreAccountKey, Awaits
  <2> QED
    BY <2>1, <2>2
<1>10. CASE AuthorizeCopy(h) \/ FallbackToSasToken(h)
  <2>1. pc'[h] = "copyCheck" /\ pc[h] \in {"auth", "fallback"}
    BY <1>10, SureFacts DEF AuthorizeCopy, FallbackToSasToken, getAzcopyAuth, KeyMayFail
  <2> QED
    BY <1>0, <1>1, <2>1 DEF Awaits
<1>11. CASE CheckCopyJob(h)
  <2>1. PICK s \in GetAzcopyJob(v) :
           pc'[h] = CASE s = "Error" -> "cleanup" [] s = "Completed" -> "store"
                      [] s = "Running" -> "poll" [] s = "NotFound" -> "start"
    BY <1>0, <1>11, SureFacts DEF CheckCopyJob
  <2>2. pc[h] = "copyCheck" /\ jobs' = jobs
    BY <1>11 DEF CheckCopyJob, store
  <2>3. s \in {"Completed", "Running", "NotFound"}
    BY RecordSeen
  <2>4. CASE s = "Completed"
    BY <1>0, <1>1, <2>1, <2>4, RecordSeen DEF Awaits
  <2>5. CASE s = "Running"
    BY <1>0, <2>1, <2>2, <2>5, RecordSeen DEF Awaits
  <2>6. CASE s = "NotFound"
    BY <1>0, <1>1, <2>1, <2>2, <2>6 DEF Awaits
  <2> QED
    BY <2>3, <2>4, <2>5, <2>6
<1>12. CASE StartCopy(h)
  <2>1. PICK j \in JobIds :
           /\ jobs' = [jobs EXCEPT ![j] =
                 [place |-> Place(h), src |-> Params(h).src, status |-> "InProgress",
                  alive |-> TRUE, listed |-> TRUE, intact |-> TRUE]]
           /\ job' = [job EXCEPT ![h] = j]
    BY <1>12 DEF StartCopy
  <2>2. /\ pc[h] = "start" /\ pc'[h] = "copying" /\ job'[h] = j
        /\ jobs'[j].listed /\ jobs'[j].alive
    BY <1>12, <2>1 DEF StartCopy, StoreOK
  <2>3. j # "exit0"
    BY ConstantsAssumption DEF Exits
  <2> QED
    BY <1>0, <1>1, <2>2, <2>3 DEF Awaits
<1>13. CASE AwaitCopy(h) \/ PollCopy(h)
  <2>1. CASE CopyFailed(h)
    BY <1>1, <1>13, <2>1 DEF AwaitCopy, PollCopy, CopyFailed, Awaits
  <2>2. CASE CopySucceeded(h)
    <3>1. data[p] = "full"
      <4>1. CASE pc[h] = "copying" /\ job[h] = "exit0"
        BY <1>1, <4>1 DEF Awaits
      <4>2. CASE pc[h] = "poll" /\ \E s \in GetAzcopyJob(v) : s \in {"Completed", "NotFound"}
        <5>1. \E j \in JobIds : jobs[j].listed
          BY <1>1, <4>2 DEF Awaits
        <5> QED
          BY <4>2, <5>1, RecordSeen
      <4>3. pc'[h] = "store"
        BY <2>2 DEF CopySucceeded
      <4> QED
        BY <1>0, <1>13, <4>1, <4>2, <4>3 DEF AwaitCopy, PollCopy, CopyFailed
    <3>2. pc'[h] = "store"
      BY <2>2 DEF CopySucceeded
    <3> QED
      BY <1>0, <1>1, <3>1, <3>2 DEF Awaits
  <2>3. CASE pc[h] = "copying" /\ Goto(h, "fallback")
    BY <1>0, <1>1, <2>3 DEF Awaits
  <2> QED
    BY <1>13, <2>1, <2>2, <2>3 DEF AwaitCopy, PollCopy
<1> QED
  BY <1>3, <1>4, <1>5, <1>6, <1>7, <1>8, <1>9, <1>10, <1>11, <1>12, <1>13 DEF Step

\* A call keeps its volume until it returns.
LEMMA StepVol ==
    ASSUME TypeInv, NEW h \in Handlers, Step(h) PROVE vol'[h] \in {vol[h], None}
<1> USE DEF TypeInv, TypeOK, LocalsOK, Forget, Keep
<1>1. CASE AcquireVolume(h) \/ SelectAccount(h) \/ LockAccountSearch(h) \/ EnsureStorageAccount(h)
  BY <1>1 DEF AcquireVolume, SelectAccount, LockAccountSearch, EnsureStorageAccount, ReturnError
<1>2. CASE GetDataPlaneKey(h) \/ StoreAccountKey(h) \/ CreateVolumeResponse(h) \/ CreateBlobContainer(h)
  BY <1>2 DEF GetDataPlaneKey, StoreAccountKey, CreateVolumeResponse, CreateBlobContainer, ReturnError
<1>3. CASE AuthorizeCopy(h) \/ FallbackToSasToken(h) \/ CheckCopyJob(h) \/ StartCopy(h)
           \/ AwaitCopy(h) \/ PollCopy(h)
  BY <1>3 DEF AuthorizeCopy, FallbackToSasToken, getAzcopyAuth, CheckCopyJob, StartCopy,
              AwaitCopy, PollCopy
<1>4. CASE CleanupCheck(h) \/ CleanupDelete(h) \/ DeleteAuth(h) \/ DeleteContainer(h)
  BY <1>4 DEF CleanupCheck, CleanupDelete, DeleteAuth, DeleteContainer, ReturnError, ReturnDelete
<1> QED
  BY <1>1, <1>2, <1>3, <1>4 DEF Step

\* The end of a copy tells the call that waits for it, and the data is there.
LEMMA AwaitsExit ==
    ASSUME SureCopies, TypeInv, AtHome, ClonesCopy, NoDelete, CopiesFill, CallsAwait, [Next]_vars,
           NEW v \in Vols, Owned(v), NEW g \in Handlers, vol[g] = v,
           NEW i \in JobIds, AzcopyExit(i)
    PROVE  Awaits(v, g)'
<1> DEFINE p == HomePlace(v)
<1>0. p' = p /\ p \in Places
  BY MatchStays, OwnedFacts DEF HomePlace, Home
<1>1. /\ Awaits(v, g) /\ pc' = pc
      /\ container[p] = "present" => container'[p] = "present"
      /\ data[p] = "full" => data'[p] = "full"
  BY OwnedFacts, StoreStays DEF CallsAwait, AzcopyExit
<1>2. jobs[i] \in JobRecord /\ jobs[i].alive
  BY JobsOfExit
<1>3. jobs[i].place = p /\ container[p] = "present" /\ jobs[i].intact
  <2>1. jobs[i] # NoJob
    BY <1>2 DEF NoJob
  <2> QED
    BY <1>2, <2>1, OwnedFacts DEF CopiesFill
<1>4. data'[p] = "full"
  BY <1>0, <1>3, SureFacts DEF AzcopyExit, TypeInv, TypeOK, StoreOK
<1>5. ASSUME NEW j \in JobIds, jobs[j].listed PROVE jobs'[j].listed
  <2>1. CASE j # i
    BY <1>5, <2>1, JobsOfExit
  <2>2. CASE j = i
    <3>1. PICK o : jobs'[i] = [jobs[i] EXCEPT !.status = o, !.alive = FALSE]
      BY <1>5, <2>2, JobsOfExit
    <3> QED
      BY <1>2, <1>5, <2>2, <3>1 DEF JobRecord
  <2> QED
    BY <2>1, <2>2
<1>6. ASSUME job'[g] \in JobIds PROVE job'[g] = job[g] /\ job[g] # i
  BY <1>6, ConstantsAssumption DEF AzcopyExit, Exits, TypeInv, TypeOK, LocalsOK
<1>7. ASSUME pc[g] = "copying", job'[g] \in JobIds PROVE jobs'[job'[g]].alive
  <2>1. job'[g] = job[g] /\ job[g] \in JobIds \ {i}
    BY <1>6, <1>7
  <2>2. jobs'[job[g]] = jobs[job[g]]
    BY <2>1, JobsOfExit
  <2>3. jobs[job[g]].alive
    BY <1>1, <1>7, <2>1 DEF Awaits
  <2> QED
    BY <2>1, <2>2, <2>3
<1> QED
  BY <1>0, <1>1, <1>4, <1>5, <1>7 DEF Awaits

\* Every step keeps the calls for owned clones waiting for what will come.
LEMMA AwaitStep ==
    ASSUME SureCopies
    PROVE  /\ TypeInv /\ LockedOnce /\ AtHome /\ ClonesCopy /\ NoDelete /\ CopiesFill
           /\ CallsAwait /\ [Next]_vars
           => CallsAwait'
<1> SUFFICES ASSUME TypeInv, LockedOnce, AtHome, ClonesCopy, NoDelete, CopiesFill, CallsAwait,
                    [Next]_vars, NEW v \in Vols, Owned(v)', NEW g \in Handlers, vol'[g] = v
             PROVE  Awaits(v, g)'
  BY DEF CallsAwait
<1>0. Owned(v) /\ v # None
  BY MatchStays, ConstantsAssumption DEF Owned
<1>1. ASSUME NEW h \in Handlers, Step(h) PROVE Awaits(v, g)'
  <2>1. CASE g = h
    BY <1>0, <1>1, <2>1, StepVol, AwaitsOwn
  <2>2. CASE g # h
    BY <1>0, <1>1, <2>2, StepLocal, AwaitsOthers
  <2> QED
    BY <2>1, <2>2
<1>2. ASSUME NEW i \in JobIds, AzcopyExit(i) PROVE Awaits(v, g)'
  BY <1>0, <1>2, AwaitsExit DEF AzcopyExit
<1>3. HomePlace(v)' = HomePlace(v)
      /\ (container[HomePlace(v)] = "present" => container'[HomePlace(v)] = "present")
      /\ (data[HomePlace(v)] = "full" => data'[HomePlace(v)] = "full")
  BY <1>0, MatchStays, OwnedFacts, StoreStays DEF HomePlace, Home
<1>4. CASE pc'[g] \in {"idle", "arrived", "deleteAuth"}
  BY <1>4 DEF Awaits
<1>5. ASSUME pc'[g] = pc[g], vol[g] = v, job'[g] = job[g], jobs' = jobs PROVE Awaits(v, g)'
  BY <1>0, <1>3, <1>5 DEF CallsAwait, Awaits
<1>6. ASSUME NEW h \in Handlers,
             (\E w \in Vols : CreateVolume(h, w)) \/ (\E id \in VolumeIDs : DeleteVolume(h, id))
      PROVE  Awaits(v, g)'
  <2>1. CASE g = h
    BY <1>4, <1>6, <2>1 DEF CreateVolume, DeleteVolume, Goto, TypeInv, TypeOK, LocalsOK
  <2>2. CASE g # h
    BY <1>5, <1>6, <2>2 DEF CreateVolume, DeleteVolume, Goto, TypeInv, TypeOK, LocalsOK, store
  <2> QED
    BY <2>1, <2>2
<1>7. CASE Restart
  BY <1>4, <1>7 DEF Restart
<1>8. CASE UNCHANGED <<locals, jobs>>
  BY <1>5, <1>8 DEF locals
<1> QED
  BY <1>1, <1>2, <1>6, <1>7, <1>8
  DEF Next, ContainerGone, ExpireCaches, AccountMoves, vars, store

\* What the provisioner owns came from a call that had its data.
LEMMA AckStep ==
    ASSUME SureCopies
    PROVE  /\ TypeInv /\ AtHome /\ ClonesCopy /\ NoDelete /\ CallsAwait /\ CloneComplete
           /\ [Next]_vars
           => CloneComplete'
<1> SUFFICES ASSUME TypeInv, AtHome, ClonesCopy, NoDelete, CallsAwait, CloneComplete, [Next]_vars,
                    NEW id \in acked', id[2] \in wanted', Class[id[2]].clone,
                    ~Class[id[2]].userNamed
             PROVE  data'[<<id[1], id[2]>>] = "full"
  BY DEF CloneComplete
<1> DEFINE v == id[2]
<1>1. v \in wanted /\ v \in Vols /\ Owned(v)
  BY MatchStays DEF Owned, TypeInv, TypeOK, OutsideOK
<1>2. CASE id \in acked
  <2>1. data[<<id[1], v>>] = "full" /\ id[1] \in Accounts
    BY <1>1, <1>2 DEF CloneComplete, TypeInv, TypeOK, OutsideOK, VolumeIDs
  <2> QED
    BY <1>1, <2>1, StoreStays
<1>3. CASE id \notin acked
  <2>1. PICK h \in Handlers : CreateVolumeResponse(h)
    <3>1. ASSUME NEW h \in Handlers, Step(h), ~CreateVolumeResponse(h) PROVE FALSE
      <4> USE DEF outside
      <4>1. CASE AcquireVolume(h) \/ SelectAccount(h) \/ LockAccountSearch(h) \/ EnsureStorageAccount(h)
                 \/ GetDataPlaneKey(h) \/ CreateBlobContainer(h) \/ StoreAccountKey(h)
        BY <1>3, <4>1 DEF AcquireVolume, SelectAccount, LockAccountSearch, EnsureStorageAccount,
                          GetDataPlaneKey, CreateBlobContainer, StoreAccountKey
      <4>2. CASE AuthorizeCopy(h) \/ FallbackToSasToken(h) \/ CheckCopyJob(h) \/ StartCopy(h)
                 \/ AwaitCopy(h) \/ PollCopy(h)
        BY <1>3, <4>2 DEF AuthorizeCopy, FallbackToSasToken, getAzcopyAuth, CheckCopyJob, StartCopy,
                          AwaitCopy, PollCopy
      <4>3. CASE CleanupCheck(h) \/ CleanupDelete(h) \/ DeleteAuth(h) \/ DeleteContainer(h)
        BY <1>3, <4>3 DEF CleanupCheck, CleanupDelete, DeleteAuth, DeleteContainer
      <4> QED
        BY <3>1, <4>1, <4>2, <4>3 DEF Step
    <3> QED
      BY <1>3, <3>1
      DEF Next, CreateVolume, DeleteVolume, AzcopyExit, ContainerGone, ExpireCaches, AccountMoves,
          Restart, outside, vars
  <2>2. id = <<acct[h], vol[h]>> /\ pc[h] = "respond" /\ data' = data
    BY <1>3, <2>1 DEF CreateVolumeResponse, store
  <2>3. data[HomePlace(v)] = "full"
    BY <1>1, <2>2 DEF CallsAwait, Awaits
  <2>4. HomePlace(v) = <<acct[h], v>>
    BY <1>1, <2>2, OwnedFacts, CopyingAtHome
  <2> QED
    BY <2>2, <2>3, <2>4
<1> QED
  BY <1>2, <1>3

\* A clone that CreateVolume reported holds all of its source for as long as the
\* provisioner wants it: no timeout, repeated or late call, restart, replaced pod or
\* failed reply, creation, deletion or secret makes a call report a copy that did not
\* end, or a cleanup take a copy that did.
THEOREM ClonesAreComplete ==
    ASSUME SureCopies
    PROVE  Spec => []CloneComplete
<1>1. Init => LockedOnce /\ CloneInv
  <2>1. Init => LockedOnce /\ AtHome /\ ClonesCopy
    BY DEF Init, LockedOnce, Creating, AtHome, Searching, Settled, ClonesCopy, CopySteps
  <2>2. Init => NoDelete /\ CopiesFill /\ CallsAwait /\ CloneComplete
    BY DEF Init, NoDelete, CopiesFill, CallsAwait, Awaits, CloneComplete
  <2> QED
    BY <2>1, <2>2 DEF CloneInv
<1>2. TypeInv /\ LockedOnce /\ CloneInv /\ [Next]_vars => CloneInv'
  BY HomeStep, ClonesStep, NoDeleteStep, FillStep, AwaitStep, AckStep DEF CloneInv
<1>3. CloneInv => CloneComplete
  BY DEF CloneInv
<1> QED
  BY <1>1, <1>2, <1>3, TypeInit, TypeStep, LockStep, PTL DEF Spec
-----------------------------------------------------------------------------
(* The entry lock of the account search *)

\* A step that moves nobody to or from the wait for an entry.
LEMMA WaitFrame ==
    ASSUME entryLock' = entryLock,
           \A g \in Handlers : /\ pc'[g] = "ensureWait" <=> pc[g] = "ensureWait"
                               /\ pc[g] = "ensureWait" => vol'[g] = vol[g]
    PROVE  UNCHANGED SearchLock!vars
  BY DEF SearchLock!vars, SearchWants, Params

\* So is every step of a call but those that choose an account, lock its entry and
\* search.
LEMMA OtherStepsWait ==
    ASSUME TypeInv, NEW h \in Handlers, Step(h), ~SelectAccount(h), ~LockAccountSearch(h),
           ~EnsureStorageAccount(h)
    PROVE  UNCHANGED SearchLock!vars
<1> USE DEF TypeInv, TypeOK, LocalsOK, Goto, Forget, Keep, caches
<1>1. entryLock' = entryLock /\ pc[h] # "ensureWait" /\ pc'[h] # "ensureWait"
  <2>1. CASE AcquireVolume(h) \/ GetDataPlaneKey(h) \/ StoreAccountKey(h) \/ CreateVolumeResponse(h)
    BY <2>1 DEF AcquireVolume, GetDataPlaneKey, StoreAccountKey, CreateVolumeResponse, ReturnError
  <2>2. CASE CreateBlobContainer(h) \/ CleanupCheck(h) \/ CleanupDelete(h)
    BY <2>2 DEF CreateBlobContainer, CleanupCheck, CleanupDelete, ReturnError
  <2>3. CASE AuthorizeCopy(h) \/ FallbackToSasToken(h) \/ CheckCopyJob(h)
    BY <2>3 DEF AuthorizeCopy, FallbackToSasToken, getAzcopyAuth, CheckCopyJob, GetAzcopyJob,
                parseAzcopyJobList
  <2>4. CASE StartCopy(h) \/ AwaitCopy(h) \/ PollCopy(h)
    BY <2>4 DEF StartCopy, AwaitCopy, PollCopy, CopySucceeded, CopyFailed
  <2>5. CASE DeleteAuth(h) \/ DeleteContainer(h)
    BY <2>5 DEF DeleteAuth, DeleteContainer, ReturnDelete
  <2> QED
    BY <2>1, <2>2, <2>3, <2>4, <2>5 DEF Step
<1>2. \A g \in Handlers : g # h => pc'[g] = pc[g] /\ vol'[g] = vol[g]
  BY StepLocal
<1> QED
  BY <1>1, <1>2, WaitFrame

\* Every step of the controller is a step of the lock per entry, or one it does not see.
LEMMA SearchTurn ==
    ASSUME TypeInv, SearchInv, [Next]_vars
    PROVE  [SearchLock!Next]_(SearchLock!vars)
<1> USE DEF TypeInv, TypeOK, LocalsOK, CachesOK, caches, store, outside, locals
<1>0. \A h \in Handlers : pc[h] # "idle" => vol[h] \in Vols
  BY DEF HandlerOK
<1>1. ASSUME NEW h \in Handlers, SelectAccount(h) PROVE [SearchLock!Next]_(SearchLock!vars)
  <2> DEFINE k == Params(h).search
  <2>1. /\ pc[h] = "account" /\ entryLock' = entryLock /\ vol' = vol
        /\ pc' = [pc EXCEPT ![h] = "ensureWait"] \/ pc' = [pc EXCEPT ![h] = "key"]
    BY <1>1 DEF SelectAccount, Goto
  <2>2. CASE pc' = [pc EXCEPT ![h] = "key"]
    BY <2>1, <2>2, WaitFrame
  <2>3. CASE pc' = [pc EXCEPT ![h] = "ensureWait"]
    <3>1. SearchWants[h] = None /\ SearchWants' = [SearchWants EXCEPT ![h] = k]
      BY <2>1, <2>3 DEF SearchWants, Params
    <3>2. \A j \in SearchKeys : entryLock[j] # h
      BY <2>1, ConstantsAssumption DEF SearchInv, SearchFreesEntry
    <3>3. k \in SearchKeys
      BY <1>0, <2>1, ClassFacts DEF Params
    <3>4. SearchLock!Ask(h, k)
      BY <2>1, <3>1, <3>2 DEF SearchLock!Ask
    <3> QED
      BY <3>3, <3>4 DEF SearchLock!Next
  <2> QED
    BY <2>1, <2>2, <2>3
<1>2. ASSUME NEW h \in Handlers, LockAccountSearch(h) PROVE [SearchLock!Next]_(SearchLock!vars)
  <2> DEFINE k == Params(h).search
  <2>1. /\ pc[h] = "ensureWait" /\ k \in SearchKeys /\ entryLock[k] = None /\ vol' = vol
        /\ entryLock' = [entryLock EXCEPT ![k] = h] /\ pc' = [pc EXCEPT ![h] = "ensure"]
    BY <1>0, <1>2, ClassFacts DEF LockAccountSearch, Goto, Keep, Params
  <2>2. SearchWants[h] = k /\ k # None
    BY <2>1, ConstantsAssumption DEF SearchWants
  <2>3. SearchWants' = [SearchWants EXCEPT ![h] = None]
    BY <2>1 DEF SearchWants, Params
  <2>4. SearchLock!Grant(h)
    BY <2>1, <2>2, <2>3 DEF SearchLock!Grant
  <2> QED
    BY <2>4 DEF SearchLock!Next
<1>3. ASSUME NEW h \in Handlers, EnsureStorageAccount(h) PROVE [SearchLock!Next]_(SearchLock!vars)
  <2> DEFINE k == Params(h).search
  <2>1. /\ pc[h] = "ensure" /\ k \in SearchKeys /\ entryLock[k] = h
        /\ entryLock' = [entryLock EXCEPT ![k] = None] /\ pc'[h] \in {"key", "idle"}
        /\ \A g \in Handlers : g # h => pc'[g] = pc[g] /\ vol'[g] = vol[g]
    BY <1>0, <1>3, ClassFacts
    DEF EnsureStorageAccount, ReturnError, Goto, Forget, Params, SearchInv, SearchFreesEntry
  <2>2. SearchWants' = SearchWants
    BY <2>1 DEF SearchWants, Params
  <2>3. SearchLock!Free(h, k)
    BY <2>1, <2>2 DEF SearchLock!Free
  <2> QED
    BY <2>1, <2>3 DEF SearchLock!Next
<1>4. ASSUME NEW h \in Handlers, Step(h) PROVE [SearchLock!Next]_(SearchLock!vars)
  BY <1>1, <1>2, <1>3, <1>4, OtherStepsWait
<1>5. ASSUME NEW h \in Handlers, NEW v \in Vols, CreateVolume(h, v)
      PROVE  [SearchLock!Next]_(SearchLock!vars)
  BY <1>5, WaitFrame DEF CreateVolume, Goto
<1>6. ASSUME NEW h \in Handlers, NEW id \in VolumeIDs, DeleteVolume(h, id)
      PROVE  [SearchLock!Next]_(SearchLock!vars)
  BY <1>6, WaitFrame DEF DeleteVolume, Goto
<1>7. ASSUME Restart PROVE [SearchLock!Next]_(SearchLock!vars)
  <2>1. SearchLock!Restart
    BY <1>7 DEF Restart, SearchLock!Restart, SearchWants
  <2> QED
    BY <2>1 DEF SearchLock!Next
<1>8. ASSUME UNCHANGED <<entryLock, pc, vol>> PROVE [SearchLock!Next]_(SearchLock!vars)
  BY <1>8, WaitFrame
<1> QED
  BY <1>4, <1>5, <1>6, <1>7, <1>8
  DEF Next, AzcopyExit, ContainerGone, ExpireCaches, AccountMoves, vars

(***************************************************************************)
(* The account search is a client of the lock per entry as EntryLocks      *)
(* describes it, for any number of calls, search keys and restarts.  With  *)
(* LockMapRefines, which shows that LockMap is such a lock, this is why    *)
(* LockEntry can be one step here.                                         *)
(***************************************************************************)
THEOREM SearchLockRefines == Spec => SearchesTakeTurns
<1>1. Init => SearchInv
  BY DEF Init, SearchInv, SearchFreesEntry, VolMapDecides, Creating
<1>2. Init => LockedOnce
  BY DEF Init, LockedOnce, Creating
<1>3. Init => SearchLock!Init
  BY DEF Init, SearchLock!Init, SearchWants
<1> QED
  BY <1>1, <1>2, <1>3, TypeInit, TypeStep, LockStep, SearchStep, SearchTurn, PTL
  DEF Spec, SearchesTakeTurns
=============================================================================
