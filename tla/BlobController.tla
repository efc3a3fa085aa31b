--------------------------- MODULE BlobController ---------------------------
(***************************************************************************)
(* The controller service of the driver: concurrent CreateVolume and       *)
(* DeleteVolume calls (pkg/blob/controllerserver.go), the per-volume locks *)
(* (pkg/blob/volume_lock.go), the account search cache and volMap          *)
(* (pkg/blob/blob.go), and volume cloning through azcopy, whose jobs are   *)
(* found again by listing them (pkg/util/util.go).                         *)
(*                                                                         *)
(* A handler is one goroutine that serves one call.  It takes a step       *)
(* between two calls to something outside the process, so that every       *)
(* interleaving the code allows is a behaviour.  A request that fails      *)
(* validation changes nothing and is left out; so is an Aborted reply to   *)
(* DeleteVolume.  The caller (the external provisioner), the storage       *)
(* service and azcopy are the environment.                                 *)
(***************************************************************************)
EXTENDS Naturals, FiniteSets

CONSTANTS
    Vols,          \* names of requested volumes (CreateVolumeRequest.Name)
    Accounts,      \* storage accounts
    SearchKeys,    \* lockKey values: one per set of account-search parameters
    UserContainer, \* the one container name given by a storage class
    Handlers,      \* goroutines that serve calls
    JobIds,        \* bound: azcopy jobs known at a time
    Class,         \* parameters of the request for each volume
    HasIdentity,   \* the driver can authorize azcopy with an identity
    JobOutcomes,   \* how an azcopy job may end while its container exists
    Faults,        \* what the environment may do wrong
    MaxRestarts,   \* bound: restarts of the controller
    None           \* no account, no handler, no job

AllFaults ==
    {"ensureFails", "keyFails", "sasFails", "createFails", "deleteFails",
     "secretFails", "listFails", "execFails", "cleanDropsRunning",
     "accountMoves", "replyLost", "restart", "podReplaced"}

Names == Vols \cup {UserContainer}
Places == Accounts \X Names          \* a container on an account
VolumeIDs == Accounts \X Vols        \* rg#account#container#uuid#ns#subs
Completed == {"Completed", "CompletedWithErrors"}
Exits == {"exit0", "exit1"}          \* exit status of an azcopy process

ClassType ==
    [account    : Accounts \cup {None},  \* storageAccount
     secrets    : BOOLEAN,               \* the request carries secrets
     secretName : BOOLEAN,               \* secretName is set
     userNamed  : BOOLEAN,               \* containerName is set
     clone      : BOOLEAN,               \* VolumeContentSource is a volume
     srcAccount : Accounts, src : Names, \* where the source volume is
     storeKey   : BOOLEAN,               \* storeAccountKey
     dataPlane  : BOOLEAN,               \* useDataPlaneAPI
     search     : SearchKeys]            \* lockKey of the account search

ASSUME ConstantsAssumption ==
    /\ Class \in [Vols -> ClassType]
    /\ UserContainer \notin Vols
    /\ None \notin Vols \cup Accounts \cup SearchKeys \cup Handlers \cup JobIds
    /\ JobIds \cap Exits = {}
    /\ HasIdentity \in BOOLEAN
    /\ JobOutcomes \subseteq Completed \cup {"Failed"}
    /\ Faults \subseteq AllFaults
    /\ MaxRestarts \in Nat
    /\ IsFiniteSet(Accounts) /\ Accounts # {}

\* Secrets are only sent with the account they belong to.
ASSUME SecretsAssumption == \A v \in Vols : Class[v].secrets => Class[v].account # None

VARIABLES
    locks,          \* volumeLocks: the names and IDs with an ongoing operation
    volMap,         \* volMap: volume name -> account
    searchCache,    \* accountSearchCache: lockKey -> account
    entryLock,      \* volLockMap: lockKey -> holder
    sasCache,       \* azcopySasTokenCache: accounts that use a SAS token
    dataPlaneCache, \* dataPlaneAPIVolCache: volume IDs and accounts
    pc, vol, acct,  \* per handler: next step, volume name, accountName
    hasKey,         \* per handler: accountKey # ""
    sas,            \* per handler: accountSASToken # ""
    job,            \* per handler: the azcopy process it waits for, or its exit status
    container,      \* storage service: Places -> state of the container
    data,           \* storage service: what the container holds of its source
    jobs,           \* azcopy: processes and the job records on disk
    match,          \* storage service: the account a search finds
    wanted, acked,  \* provisioner: volumes to create, IDs it was given and still owns
    reply,          \* provisioner: last definite answer to CreateVolume
    restarts

locals == <<pc, vol, acct, hasKey, sas, job>>
caches == <<volMap, searchCache, entryLock, sasCache, dataPlaneCache>>
store == <<container, data, jobs>>
outside == <<match, wanted, acked, reply, restarts>>
vars == <<locks, caches, locals, store, outside>>

NoJob == [place |-> None, src |-> None, status |-> "None",
          alive |-> FALSE, listed |-> FALSE, intact |-> FALSE]
JobRecord ==
    [place : Places, src : Names, status : {"InProgress", "Failed"} \cup Completed,
     alive : BOOLEAN, listed : BOOLEAN, intact : BOOLEAN]
JobType == JobRecord \cup {NoJob}

Steps == {"idle", "arrived", "account", "ensureWait", "ensure", "key", "create",
          "auth", "copyCheck", "start", "copying", "poll", "fallback", "cleanup",
          "cleanupDelete", "store", "respond", "deleteAuth", "delete"}
LockKeys == ({"name"} \X Vols) \cup ({"id"} \X VolumeIDs)

Params(h) == Class[vol[h]]
ContainerOf(v) == IF Class[v].userNamed THEN UserContainer ELSE v
Place(h) == <<acct[h], ContainerOf(vol[h])>>
Fault(f) == f \in Faults

Init ==
    /\ locks = {}
    /\ volMap = [v \in Vols |-> None]
    /\ searchCache = [k \in SearchKeys |-> None]
    /\ entryLock = [k \in SearchKeys |-> None]
    /\ sasCache = {} /\ dataPlaneCache = {}
    /\ pc = [h \in Handlers |-> "idle"]
    /\ vol = [h \in Handlers |-> None]
    /\ acct = [h \in Handlers |-> None]
    /\ hasKey = [h \in Handlers |-> FALSE]
    /\ sas = [h \in Handlers |-> FALSE]
    /\ job = [h \in Handlers |-> None]
    /\ container = [p \in Places |-> IF p[2] = UserContainer THEN "present" ELSE "absent"]
    /\ data = [p \in Places |-> "empty"]
    /\ jobs = [j \in JobIds |-> NoJob]
    /\ match \in [SearchKeys -> Accounts]
    /\ wanted = Vols /\ acked = {}
    /\ reply = [v \in Vols |-> "none"]
    /\ restarts = 0

-----------------------------------------------------------------------------
(* The pieces calls are made of. *)

\* The locals of h while it serves nothing.
Forget(h) ==
    /\ vol' = [vol EXCEPT ![h] = None]
    /\ acct' = [acct EXCEPT ![h] = None]
    /\ hasKey' = [hasKey EXCEPT ![h] = FALSE]
    /\ sas' = [sas EXCEPT ![h] = FALSE]
    /\ job' = [job EXCEPT ![h] = None]

Goto(h, step) == pc' = [pc EXCEPT ![h] = step]

\* Mutant: an error path without the Release.
LeakyReturnError(h) ==
    /\ Goto(h, "idle") /\ Forget(h) /\ UNCHANGED locks
    /\ reply' = [reply EXCEPT ![vol[h]] = "Internal"]

\* A CreateVolume call returns an error: the deferred Release runs.
ReturnError(h) ==
    /\ Goto(h, "idle") /\ Forget(h)
    /\ locks' = locks \ {<<"name", vol[h]>>}
    /\ reply' = [reply EXCEPT ![vol[h]] = "Internal"]

\* GetStorageAccesskey is called, and may fail, when neither the account search
\* nor the secrets of the request have given the key.
KeyMayFail(h) == ~hasKey[h] /\ ~Params(h).secrets /\ Fault("keyFails")

Keep(h) == UNCHANGED <<vol, acct, hasKey, sas, job>>

\* azcopy jobs list | grep c -B 3: records whose command names c, as source or
\* destination, on whatever account.
AzcopyJobs(c) ==
    {j \in JobIds : jobs[j].listed /\ c \in {jobs[j].place[2], jobs[j].src}}

\* Mutant: jobs in progress are overlooked.
ParseCompletedOnly(S) ==
    IF \E j \in S : jobs[j].status \in Completed THEN "Completed" ELSE "NotFound"

\* Any completed record decides; then any record in progress.  The callers do
\* not tell the Completed* states apart.
parseAzcopyJobList(S) ==
    IF \E j \in S : jobs[j].status \in Completed THEN "Completed"
    ELSE IF \E j \in S : jobs[j].status = "InProgress" THEN "Running"
    ELSE "NotFound"

\* The answers GetAzcopyJob can give.  When "azcopy jobs list" itself fails,
\* grep reads nothing and exits with status 1, which is taken for "no match".
GetAzcopyJob(c) ==
    {parseAzcopyJobList(AzcopyJobs(c))}
    \cup (IF Fault("listFails") THEN {"NotFound"} ELSE {})
    \cup (IF Fault("execFails") THEN {"Error"} ELSE {})

\* Mutant: only a completed job keeps the container.
isAzcopyJobCompleted(state) == state = "Completed"

isAzcopyJobActiveOrCompleted(state) == state \in {"Running", "Completed"}

\* azcopy jobs clean: the records of finished jobs go, and those of running
\* ones too when the tool does not spare them.
CleanJobs ==
    [j \in JobIds |->
        IF jobs[j].alive
        THEN [jobs[j] EXCEPT !.listed = @ /\ ~Fault("cleanDropsRunning")]
        ELSE IF jobs[j].status = "InProgress" /\ ~Fault("cleanDropsRunning")
        THEN jobs[j] ELSE NoJob]

\* DeleteBlobContainer succeeds: a missing container and one being deleted
\* count as deleted.
DeleteBlobContainer(p) ==
    /\ container' = [container EXCEPT ![p] = IF @ = "present" THEN "deleting" ELSE @]
    /\ data' = [data EXCEPT ![p] = "empty"]
    /\ jobs' = [j \in JobIds |-> IF jobs[j].alive /\ jobs[j].place = p THEN [jobs[j] EXCEPT !.intact = FALSE]
                                 ELSE jobs[j]]

-----------------------------------------------------------------------------
(* CreateVolume *)

\* A call arrives and is validated; for NFS the subnets are updated, so the call
\* may stay here for long before it asks for the lock.
CreateVolume(h, v) ==
    /\ pc[h] = "idle" /\ v \in wanted
    /\ Goto(h, "arrived")
    /\ vol' = [vol EXCEPT ![h] = v]
    /\ UNCHANGED <<locks, caches, acct, hasKey, sas, job, store, outside>>

\* Mutant: Release is deferred before TryAcquire is asked.
EarlyReleaseAcquire(h) ==
    /\ pc[h] = "arrived"
    /\ IF <<"name", vol[h]>> \in locks
       THEN Goto(h, "idle") /\ Forget(h) /\ locks' = locks \ {<<"name", vol[h]>>}
       ELSE Goto(h, "account") /\ locks' = locks \cup {<<"name", vol[h]>>} /\ Keep(h)
    /\ UNCHANGED <<caches, store, outside>>

\* TryAcquire(volName); when it fails the call is Aborted.
AcquireVolume(h) ==
    /\ pc[h] = "arrived"
    /\ IF <<"name", vol[h]>> \in locks
       THEN Goto(h, "idle") /\ Forget(h) /\ UNCHANGED locks
       ELSE Goto(h, "account") /\ locks' = locks \cup {<<"name", vol[h]>>} /\ Keep(h)
    /\ UNCHANGED <<caches, store, outside>>

\* Mutant: the search cache is asked before volMap.
CacheFirstSelect(h) ==
    LET v == vol[h]  k == Params(h).search
        known == IF Params(h).account # None THEN Params(h).account
                 ELSE IF searchCache[k] # None THEN searchCache[k] ELSE volMap[v]
    IN /\ pc[h] = "account"
       /\ acct' = [acct EXCEPT ![h] = known]
       /\ Goto(h, IF known = None THEN "ensureWait" ELSE "key")
       /\ UNCHANGED <<locks, caches, vol, hasKey, sas, job, store, outside>>

\* The account: the one the class or the secrets give, or volMap's, or the one
\* cached for the search, or else the result of a search.
SelectAccount(h) ==
    LET v == vol[h]  k == Params(h).search
        known == IF Params(h).account # None THEN Params(h).account
                 ELSE IF volMap[v] # None THEN volMap[v] ELSE searchCache[k]
    IN /\ pc[h] = "account"
       /\ acct' = [acct EXCEPT ![h] = known]
       /\ Goto(h, IF known = None THEN "ensureWait" ELSE "key")
       /\ UNCHANGED <<locks, caches, vol, hasKey, sas, job, store, outside>>

\* Mutant: the entry is not locked.
SearchUnlocked(h) ==
    /\ pc[h] = "ensureWait" /\ Goto(h, "ensure") /\ Keep(h)
    /\ UNCHANGED <<locks, caches, store, outside>>

\* volLockMap.LockEntry(lockKey); the cache is not read again once it is held.
LockAccountSearch(h) ==
    /\ pc[h] = "ensureWait" /\ entryLock[Params(h).search] = None
    /\ entryLock' = [entryLock EXCEPT ![Params(h).search] = h]
    /\ Goto(h, "ensure")
    /\ UNCHANGED <<locks, volMap, searchCache, sasCache, dataPlaneCache, store, outside>>
    /\ Keep(h)

\* Mutant: the entry stays locked when the search fails.
EnsureKeepsEntry(h) ==
    LET k == Params(h).search IN
    /\ pc[h] = "ensure"
    /\ \/ /\ Goto(h, "key")
          /\ entryLock' = [entryLock EXCEPT ![k] = None]
          /\ acct' = [acct EXCEPT ![h] = match[k]]
          /\ hasKey' = [hasKey EXCEPT ![h] = TRUE]
          /\ searchCache' = [searchCache EXCEPT ![k] = match[k]]
          /\ volMap' = [volMap EXCEPT ![vol[h]] = match[k]]
          /\ UNCHANGED <<locks, vol, sas, job, reply>>
       \/ Fault("ensureFails") /\ ReturnError(h) /\ UNCHANGED <<entryLock, searchCache, volMap>>
    /\ UNCHANGED <<sasCache, dataPlaneCache, store, match, wanted, acked, restarts>>

\* EnsureStorageAccount, UnlockEntry, and the two maps on success.
EnsureStorageAccount(h) ==
    LET k == Params(h).search IN
    /\ pc[h] = "ensure"
    /\ entryLock' = [entryLock EXCEPT ![k] = None]
    /\ \/ /\ Goto(h, "key")
          /\ acct' = [acct EXCEPT ![h] = match[k]]
          /\ hasKey' = [hasKey EXCEPT ![h] = TRUE]
          /\ searchCache' = [searchCache EXCEPT ![k] = match[k]]
          /\ volMap' = [volMap EXCEPT ![vol[h]] = match[k]]
          /\ UNCHANGED <<locks, vol, sas, job, reply>>
       \/ /\ Fault("ensureFails")
          /\ ReturnError(h)
          /\ UNCHANGED <<searchCache, volMap>>
    /\ UNCHANGED <<sasCache, dataPlaneCache, store, match, wanted, acked, restarts>>

\* With useDataPlaneAPI and no secrets the account key is fetched, unless the
\* search returned it.
GetDataPlaneKey(h) ==
    LET needed == Params(h).dataPlane /\ ~Params(h).secrets /\ ~hasKey[h] IN
    /\ pc[h] = "key"
    /\ \/ /\ Goto(h, "create")
          /\ hasKey' = [hasKey EXCEPT ![h] = @ \/ needed]
          /\ UNCHANGED <<locks, vol, acct, sas, job, reply>>
       \/ /\ needed /\ KeyMayFail(h)
          /\ ReturnError(h)
    /\ UNCHANGED <<caches, store, match, wanted, acked, restarts>>

\* CreateBlobContainer: an existing container is fine; one being deleted is
\* tried again until the backoff is used up.
CreateBlobContainer(h) ==
    /\ pc[h] = "create"
    /\ \/ /\ container[Place(h)] # "deleting"
          /\ container' = [container EXCEPT ![Place(h)] = "present"]
          /\ Goto(h, IF Params(h).clone THEN "auth" ELSE "store")
          /\ Keep(h) /\ UNCHANGED <<locks, reply>>
       \/ /\ container[Place(h)] = "deleting" \/ Fault("createFails")
          /\ ReturnError(h)
          /\ UNCHANGED container
    /\ UNCHANGED <<caches, data, jobs, match, wanted, acked, restarts>>

\* getAzcopyAuth: a cached SAS token, else the identity, else a SAS token made
\* with the account key; a failure leads to the cleanup.
getAzcopyAuth(h, useSasToken) ==
    LET identity == /\ ~useSasToken /\ acct[h] \notin dataPlaneCache
                    /\ ~Params(h).secrets /\ ~Params(h).dataPlane /\ ~Params(h).secretName
        viaSas == ~identity \/ acct[h] \in sasCache \/ ~HasIdentity
        viaKey == ~identity \/ (acct[h] \notin sasCache /\ ~HasIdentity)
    IN /\ \/ /\ Goto(h, "copyCheck")
             /\ sas' = [sas EXCEPT ![h] = viaSas]
             /\ sasCache' = IF viaKey THEN sasCache \cup {acct[h]} ELSE sasCache
          \/ /\ viaKey
             /\ KeyMayFail(h) \/ (acct[h] \notin sasCache /\ Fault("sasFails"))
             /\ Goto(h, "cleanup")
             /\ UNCHANGED <<sas, sasCache>>
       /\ UNCHANGED <<locks, volMap, searchCache, entryLock, dataPlaneCache,
                      vol, acct, hasKey, job, store, outside>>

AuthorizeCopy(h) == pc[h] = "auth" /\ getAzcopyAuth(h, FALSE)

\* After AuthorizationPermissionMismatch the copy is tried again with a token.
FallbackToSasToken(h) == pc[h] = "fallback" /\ getAzcopyAuth(h, TRUE)

\* copyBlobContainer up to its switch: the token for another source account may
\* be refused; otherwise the state of an earlier job decides.
CheckCopyJob(h) ==
    LET src == Params(h).srcAccount
        needsToken == sas[h] /\ src # acct[h]
    IN
    /\ pc[h] = "copyCheck"
    /\ \/ /\ needsToken
          /\ Fault("keyFails") \/ (src \notin sasCache /\ Fault("sasFails"))
          /\ Goto(h, "cleanup")
          /\ UNCHANGED sasCache
       \/ \E state \in GetAzcopyJob(ContainerOf(vol[h])) :
             /\ Goto(h, CASE state = "Error" -> "cleanup"
                          [] state = "Completed" -> "store"
                          [] state = "Running" -> "poll"
                          [] state = "NotFound" -> "start")
             /\ sasCache' = IF needsToken THEN sasCache \cup {src} ELSE sasCache
    /\ Keep(h)
    /\ UNCHANGED <<locks, volMap, searchCache, entryLock, dataPlaneCache, store, outside>>

\* execAzcopyCopy in the goroutine of WaitUntilTimeout.
StartCopy(h) ==
    /\ pc[h] = "start"
    /\ \E j \in JobIds :
          /\ jobs[j] = NoJob
          /\ jobs' = [jobs EXCEPT ![j] =
                [place |-> Place(h), src |-> Params(h).src, status |-> "InProgress",
                 alive |-> TRUE, listed |-> TRUE, intact |-> TRUE]]
          /\ job' = [job EXCEPT ![h] = j]
    /\ Goto(h, "copying")
    /\ UNCHANGED <<locks, caches, vol, acct, hasKey, sas, container, data, outside>>

\* The copy is done: err == nil, so the job records are cleaned, or that fails.
CopySucceeded(h) ==
    /\ Goto(h, "store")
    /\ jobs' \in {CleanJobs, jobs}
    /\ job' = [job EXCEPT ![h] = None]

CopyFailed(h) ==
    /\ Goto(h, "cleanup")
    /\ job' = [job EXCEPT ![h] = None]
    /\ UNCHANGED jobs

\* Mutant: a timeout counts as success.
AwaitAssumesSuccess(h) ==
    /\ pc[h] = "copying"
    /\ CopySucceeded(h)
    /\ UNCHANGED <<locks, caches, vol, acct, hasKey, sas, container, data, outside>>

\* WaitUntilTimeout returns: with the process's error, or because time is up
\* while the process goes on.
AwaitCopy(h) ==
    /\ pc[h] = "copying"
    /\ \/ job[h] = "exit0" /\ CopySucceeded(h)
       \/ CopyFailed(h)
       \/ /\ job[h] = "exit1" /\ ~sas[h]
          /\ Goto(h, "fallback")
          /\ job' = [job EXCEPT ![h] = None]
          /\ UNCHANGED jobs
    /\ UNCHANGED <<locks, caches, vol, acct, hasKey, sas, container, data, outside>>

\* Mutant: the poll waits, without a limit, until no job is found.
PollUntilNotFound(h) ==
    /\ pc[h] = "poll"
    /\ "NotFound" \in GetAzcopyJob(ContainerOf(vol[h]))
    /\ CopySucceeded(h)
    /\ UNCHANGED <<locks, caches, vol, acct, hasKey, sas, container, data, outside>>

\* PollUntilContextTimeout over the job started by an earlier call: it ends when
\* the job is no longer running, whatever became of it.
PollCopy(h) ==
    /\ pc[h] = "poll"
    /\ \/ /\ \E state \in GetAzcopyJob(ContainerOf(vol[h])) : state \in {"Completed", "NotFound"}
          /\ CopySucceeded(h)
       \/ CopyFailed(h)
    /\ UNCHANGED <<locks, caches, vol, acct, hasKey, sas, container, data, outside>>

\* Mutant: containers named by the user are not told apart.
CleanupAnyContainer(h) ==
    /\ pc[h] = "cleanup"
    /\ \E state \in GetAzcopyJob(ContainerOf(vol[h])) :
          IF state = "Error" \/ isAzcopyJobActiveOrCompleted(state) THEN ReturnError(h)
          ELSE Goto(h, "cleanupDelete") /\ Keep(h) /\ UNCHANGED <<locks, reply>>
    /\ UNCHANGED <<caches, store, match, wanted, acked, restarts>>

\* cleanupContainerOnFailure: only a container named by the driver, and only when
\* no job for it is found; then the call returns its error.
CleanupCheck(h) ==
    /\ pc[h] = "cleanup"
    /\ \/ /\ \/ Params(h).userNamed
             \/ \E state \in GetAzcopyJob(ContainerOf(vol[h])) :
                   state = "Error" \/ isAzcopyJobActiveOrCompleted(state)
          /\ ReturnError(h)
       \/ /\ ~Params(h).userNamed
          /\ \E state \in GetAzcopyJob(ContainerOf(vol[h])) :
                state # "Error" /\ ~isAzcopyJobActiveOrCompleted(state)
          /\ Goto(h, "cleanupDelete") /\ Keep(h) /\ UNCHANGED <<locks, reply>>
    /\ UNCHANGED <<caches, store, match, wanted, acked, restarts>>

CleanupDelete(h) ==
    /\ pc[h] = "cleanupDelete"
    /\ \/ DeleteBlobContainer(Place(h))
       \/ Fault("deleteFails") /\ UNCHANGED store
    /\ ReturnError(h)
    /\ UNCHANGED <<caches, match, wanted, acked, restarts>>

\* setAzureCredentials creates the secret; one that exists already is kept as it is.
SetAzureCredentialsFails == Fault("secretFails")

\* storeAccountKey: the key is fetched if it is not known and written to a
\* secret.  A failure here leaves the container in place.
StoreAccountKey(h) ==
    LET wants == Params(h).storeKey /\ ~Params(h).secrets IN
    /\ pc[h] = "store"
    /\ \/ Goto(h, "respond") /\ Keep(h) /\ UNCHANGED <<locks, reply>>
       \/ /\ wants /\ (SetAzureCredentialsFails \/ KeyMayFail(h))
          /\ ReturnError(h)
    /\ UNCHANGED <<caches, store, match, wanted, acked, restarts>>

\* The response; the provisioner may have given up on this call, or no longer
\* want the volume.
CreateVolumeResponse(h) ==
    LET id == <<acct[h], vol[h]>> IN
    /\ pc[h] = "respond"
    /\ Goto(h, "idle") /\ Forget(h)
    /\ locks' = locks \ {<<"name", vol[h]>>}
    /\ dataPlaneCache' = IF Params(h).dataPlane THEN dataPlaneCache \cup {id, acct[h]}
                         ELSE dataPlaneCache
    /\ \/ /\ acked' = IF vol[h] \in wanted THEN acked \cup {id} ELSE acked
          /\ reply' = [reply EXCEPT ![vol[h]] = "OK"]
       \/ Fault("replyLost") /\ UNCHANGED <<acked, reply>>
    /\ UNCHANGED <<volMap, searchCache, entryLock, sasCache, store, match, wanted, restarts>>

-----------------------------------------------------------------------------
(* DeleteVolume *)

\* Mutant: the lock is on the container name, under the same kind of key.
DeleteByContainer(h, id) ==
    /\ pc[h] = "idle" /\ id \in acked /\ <<"id", ContainerOf(id[2])>> \notin locks
    /\ locks' = locks \cup {<<"id", ContainerOf(id[2])>>}
    /\ acct' = [acct EXCEPT ![h] = id[1]]
    /\ vol' = [vol EXCEPT ![h] = id[2]]
    /\ wanted' = wanted \ {id[2]}
    /\ Goto(h, "deleteAuth")
    /\ UNCHANGED <<caches, hasKey, sas, job, store, match, acked, reply, restarts>>

\* The provisioner deletes a volume it was given.  The lock is on the volume ID,
\* not on the volume name that CreateVolume locks.
DeleteVolume(h, id) ==
    /\ pc[h] = "idle" /\ id \in acked /\ <<"id", id>> \notin locks
    /\ locks' = locks \cup {<<"id", id>>}
    /\ acct' = [acct EXCEPT ![h] = id[1]]
    /\ vol' = [vol EXCEPT ![h] = id[2]]
    /\ wanted' = wanted \ {id[2]}
    /\ Goto(h, "deleteAuth")
    /\ UNCHANGED <<caches, hasKey, sas, job, store, match, acked, reply, restarts>>

ReturnDelete(h) ==
    /\ Goto(h, "idle") /\ Forget(h)
    /\ locks' = locks \ {<<"id", <<acct[h], vol[h]>>>>}

useDataPlaneAPI(id) == id \in dataPlaneCache \/ id[1] \in dataPlaneCache

\* The key for the data plane API; without it the call fails.
DeleteAuth(h) ==
    LET keyed == ~Params(h).secrets /\ useDataPlaneAPI(<<acct[h], vol[h]>>) IN
    /\ pc[h] = "deleteAuth"
    /\ \/ Goto(h, "delete") /\ Keep(h) /\ UNCHANGED locks
       \/ keyed /\ Fault("keyFails") /\ ReturnDelete(h)
    /\ UNCHANGED <<caches, store, outside>>

DeleteContainer(h) ==
    /\ pc[h] = "delete"
    /\ ReturnDelete(h)
    /\ \/ /\ DeleteBlobContainer(Place(h))
          /\ acked' = acked \ {<<acct[h], vol[h]>>}
       \/ Fault("deleteFails") /\ UNCHANGED <<store, acked>>
    /\ UNCHANGED <<caches, match, wanted, reply, restarts>>

-----------------------------------------------------------------------------
(* Environment *)

\* An azcopy process ends.  A copy into a container that was deleted meanwhile
\* is not whole; without its container it fails.
AzcopyExit(j) ==
    LET p == jobs[j].place IN
    /\ jobs[j].alive
    /\ \E o \in IF container[p] = "present" THEN JobOutcomes ELSE {"Failed"} :
          /\ jobs' = [jobs EXCEPT ![j] = IF @.listed THEN [@ EXCEPT !.status = o, !.alive = FALSE]
                                         ELSE NoJob]
          /\ data' = IF container[p] # "present" THEN data
                     ELSE [data EXCEPT ![p] = IF (o = "Completed" /\ jobs[j].intact) \/ @ = "full"
                                              THEN "full" ELSE "partial"]
          /\ job' = [h \in Handlers |-> IF job[h] = j
                                        THEN IF o = "Completed" THEN "exit0" ELSE "exit1"
                                        ELSE job[h]]
    /\ UNCHANGED <<locks, caches, pc, vol, acct, hasKey, sas, container, outside>>

\* The service finishes deleting a container.
ContainerGone(p) ==
    /\ container[p] = "deleting"
    /\ container' = [container EXCEPT ![p] = "absent"]
    /\ UNCHANGED <<locks, caches, locals, data, jobs, outside>>

\* Entries of the timed caches run out.
ExpireCaches ==
    /\ \/ \E k \in SearchKeys :
             /\ searchCache[k] # None
             /\ searchCache' = [searchCache EXCEPT ![k] = None]
             /\ UNCHANGED <<sasCache, dataPlaneCache>>
       \/ \E a \in sasCache : sasCache' = sasCache \ {a} /\ UNCHANGED <<searchCache, dataPlaneCache>>
       \/ \E x \in dataPlaneCache :
             dataPlaneCache' = dataPlaneCache \ {x} /\ UNCHANGED <<searchCache, sasCache>>
    /\ UNCHANGED <<locks, volMap, entryLock, locals, store, outside>>

\* The account an account search finds changes (new accounts, tags, deletions).
AccountMoves ==
    /\ Fault("accountMoves")
    /\ \E k \in SearchKeys, a \in Accounts : a # match[k] /\ match' = [match EXCEPT ![k] = a]
    /\ UNCHANGED <<locks, caches, locals, store, wanted, acked, reply, restarts>>

\* The container of the controller restarts and kills its azcopy processes.  The
\* job records are on an emptyDir volume: they survive, "InProgress" for ever,
\* unless the whole pod is replaced.
Restart ==
    /\ restarts < MaxRestarts
    /\ restarts' = restarts + 1
    /\ \/ /\ Fault("restart")
          /\ jobs' = [j \in JobIds |-> IF jobs[j].listed THEN [jobs[j] EXCEPT !.alive = FALSE] ELSE NoJob]
       \/ Fault("podReplaced") /\ jobs' = [j \in JobIds |-> NoJob]
    /\ locks' = {}
    /\ volMap' = [v \in Vols |-> None]
    /\ searchCache' = [k \in SearchKeys |-> None]
    /\ entryLock' = [k \in SearchKeys |-> None]
    /\ sasCache' = {} /\ dataPlaneCache' = {}
    /\ pc' = [h \in Handlers |-> "idle"]
    /\ vol' = [h \in Handlers |-> None]
    /\ acct' = [h \in Handlers |-> None]
    /\ hasKey' = [h \in Handlers |-> FALSE]
    /\ sas' = [h \in Handlers |-> FALSE]
    /\ job' = [h \in Handlers |-> None]
    /\ UNCHANGED <<container, data, match, wanted, acked, reply>>

-----------------------------------------------------------------------------
Step(h) ==
    \/ AcquireVolume(h) \/ SelectAccount(h) \/ LockAccountSearch(h)
    \/ EnsureStorageAccount(h) \/ GetDataPlaneKey(h) \/ CreateBlobContainer(h)
    \/ AuthorizeCopy(h) \/ FallbackToSasToken(h) \/ CheckCopyJob(h) \/ StartCopy(h)
    \/ AwaitCopy(h) \/ PollCopy(h) \/ CleanupCheck(h) \/ CleanupDelete(h)
    \/ StoreAccountKey(h) \/ CreateVolumeResponse(h)
    \/ DeleteAuth(h) \/ DeleteContainer(h)

Next ==
    \/ \E h \in Handlers : Step(h)
    \/ \E h \in Handlers, v \in Vols : CreateVolume(h, v)
    \/ \E h \in Handlers, id \in VolumeIDs : DeleteVolume(h, id)
    \/ \E j \in JobIds : AzcopyExit(j)
    \/ \E p \in Places : ContainerGone(p)
    \/ ExpireCaches \/ AccountMoves \/ Restart

Spec == Init /\ [][Next]_vars

\* A goroutine is scheduled and its timers fire, so every step that stays possible
\* is taken; sync.Mutex wakes each waiter in the end.  The provisioner repeats a
\* call until it has an answer, azcopy processes end, and deletions finish.
Fairness ==
    /\ \A h \in Handlers : WF_vars(Step(h)) /\ SF_vars(LockAccountSearch(h))
    /\ \A v \in Vols : SF_vars(\E h \in Handlers : CreateVolume(h, v))
    /\ \A j \in JobIds : WF_vars(AzcopyExit(j))
    /\ \A p \in Places : WF_vars(ContainerGone(p))

FairSpec == Spec /\ Fairness

-----------------------------------------------------------------------------
(* Properties *)

CachesOK ==
    /\ volMap \in [Vols -> Accounts \cup {None}]
    /\ searchCache \in [SearchKeys -> Accounts \cup {None}]
    /\ entryLock \in [SearchKeys -> Handlers \cup {None}]
    /\ sasCache \subseteq Accounts
    /\ dataPlaneCache \subseteq Accounts \cup VolumeIDs

LocalsOK ==
    /\ pc \in [Handlers -> Steps]
    /\ vol \in [Handlers -> Vols \cup {None}]
    /\ acct \in [Handlers -> Accounts \cup {None}]
    /\ hasKey \in [Handlers -> BOOLEAN]
    /\ sas \in [Handlers -> BOOLEAN]
    /\ job \in [Handlers -> JobIds \cup Exits \cup {None}]

StoreOK ==
    /\ container \in [Places -> {"absent", "present", "deleting"}]
    /\ data \in [Places -> {"empty", "partial", "full"}]
    /\ jobs \in [JobIds -> JobType]

OutsideOK ==
    /\ match \in [SearchKeys -> Accounts]
    /\ wanted \subseteq Vols
    /\ acked \subseteq VolumeIDs
    /\ reply \in [Vols -> {"none", "OK", "Internal"}]
    /\ restarts \in 0..MaxRestarts

\* The state of the handlers, caches, locks, containers and jobs has its types.
TypeOK == locks \subseteq LockKeys /\ CachesOK /\ LocalsOK /\ StoreOK /\ OutsideOK

Creating(h) == pc[h] \notin {"idle", "arrived", "deleteAuth", "delete"}

\* TryAcquire and the deferred Release serialize the CreateVolume calls for one
\* name: a lock is held exactly while one call is inside, so no error path leaks
\* it and no return frees the lock of another call.
LockedOnce ==
    /\ \A h \in Handlers : Creating(h) => <<"name", vol[h]>> \in locks
    /\ \A h, g \in Handlers : Creating(h) /\ Creating(g) /\ vol[h] = vol[g] => h = g
    /\ \A v \in Vols : <<"name", v>> \in locks => \E h \in Handlers : Creating(h) /\ vol[h] = v

\* The azcopy processes that write into a container.
Copying(p) == {j \in JobIds : jobs[j].alive /\ jobs[j].place = p}

\* What makes the copies safe: azcopy lists every process that runs, and a handler
\* about to start a copy or to delete its container has seen that none runs.
Recorded ==
    \A j \in JobIds : jobs[j].alive => jobs[j].listed /\ jobs[j].status = "InProgress"
CheckedNoCopy ==
    \A h \in Handlers :
        /\ pc[h] \in {"start", "cleanupDelete"} /\ ~Class[vol[h]].userNamed
           => Copying(Place(h)) = {}
        /\ pc[h] = "cleanupDelete" => ~Class[vol[h]].userNamed

\* cleanupContainerOnFailure never deletes a container while an azcopy process
\* started by this or an earlier call still writes into it.
CleanupSparesCopy ==
    \A h \in Handlers : pc[h] = "cleanupDelete" => Copying(Place(h)) = {}

\* A call that follows a timeout finds the copy that still runs: two azcopy
\* processes never write into one container named by the driver.
OneCopyPerContainer ==
    \A p \in Accounts \X Vols : \A i, j \in Copying(p) : i = j

\* cleanupContainerOnFailure keeps a container into which everything was copied.
CleanupSparesCopied ==
    \A h \in Handlers : pc[h] = "cleanupDelete" => data[Place(h)] # "full"

\* Only DeleteVolume takes a container the user named away.
UserContainerKept ==
    [][\A a \in Accounts :
          LET p == <<a, UserContainer>> IN
          container[p] = "present" /\ container'[p] # "present"
          => \E h \in Handlers : pc[h] = "delete" /\ Place(h) = p]_vars

\* A clone reported as created holds all of its source, for as long as the
\* provisioner owns it and does not delete it.
CloneComplete ==
    \A id \in acked : LET v == id[2] IN
        Class[v].clone /\ ~Class[v].userNamed /\ v \in wanted
        => data[<<id[1], v>>] = "full"

\* A call for a volume in volMap uses the account volMap gives, whatever a search
\* or the cache would give by now: a repeated call stays on the same account.
VolMapDecides ==
    \A h \in Handlers :
        /\ Creating(h) /\ pc[h] \notin {"account", "ensureWait", "ensure"}
        /\ Class[vol[h]].account = None /\ volMap[vol[h]] # None
        => acct[h] = volMap[vol[h]]

\* A failed account search frees its entry as a successful one does: an entry of
\* volLockMap is locked exactly while one call is inside EnsureStorageAccount, so
\* the calls that wait for it never wait for a call that returned.
SearchFreesEntry ==
    /\ \A h \in Handlers : pc[h] = "ensure" => entryLock[Params(h).search] = h
    /\ \A k \in SearchKeys : entryLock[k] # None =>
          \E h \in Handlers : h = entryLock[k] /\ pc[h] = "ensure" /\ Params(h).search = k

\* volLockMap as the account search uses it: the lock per entry that LockMap implements.
SearchWants == [h \in Handlers |-> IF pc[h] = "ensureWait" THEN Params(h).search ELSE None]
SearchLock == INSTANCE EntryLocks
    WITH Threads <- Handlers, Keys <- SearchKeys, wants <- SearchWants, holder <- entryLock

\* The calls use LockEntry and UnlockEntry as they have to be used: a call asks for
\* an entry while it has none, searches only with the entry, and frees its own
\* entry once, on every path and whichever call holds or waits for others.
SearchesTakeTurns == SearchLock!Init /\ [][SearchLock!Next]_(SearchLock!vars)

\* Every call returns: waiting for azcopy, or polling a job that an earlier call
\* left running, holds no handler for ever.
CallsReturn == \A h \in Handlers : pc[h] # "idle" ~> pc[h] = "idle"

\* A CreateVolume call that is repeated until it succeeds does succeed.
CreateSucceeds == \A v \in Vols : v \in wanted ~> (v \notin wanted \/ reply[v] = "OK")
=============================================================================
