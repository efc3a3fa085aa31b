# Azure Blob CSI driver: TLA+ models and proofs

This directory models the parts of the Azure Blob CSI driver in which several
calls, processes and failures meet: provisioning and cloning of volumes in the
controller, mounting of volumes on a node, and the locks, keys, tokens, caches,
subnets and options that both depend on. TLC checks the models on small
instances (`*.cfg`); TLAPS proves the safety properties for every instance
(`*_Proofs.tla`). `PROJECT.json` lists the runs, the mutants that show that each
property can fail, the lines of code behind each definition, the disagreements
found between code and comments, and the hazards the properties are aimed at.

## The system

| Part | State | Operations |
|---|---|---|
| Controller service (`pkg/blob/controllerserver.go`) | `volumeLocks`, `volMap`, `accountSearchCache`, `dataPlaneAPIVolCache`, `azcopySasTokenCache`, `volLockMap` | `CreateVolume`, `DeleteVolume` (and calls that only read their request) |
| Cloning (`controllerserver.go`, `pkg/util/util.go`) | azcopy processes and azcopy's job records on the `azcopy-dir` emptyDir | `copyBlobContainer`, `GetAzcopyJob`, `CleanJobs`, `cleanupContainerOnFailure` |
| Volume locks (`volume_lock.go`) | a set of strings | `TryAcquire`, `Release` |
| LockMap (`util.go`) | a map from keys to mutexes | `LockEntry`, `UnlockEntry` |
| Node service (`nodeserver.go`) | `volumeLocks`; the node's directories and mount table | `NodeStageVolume`, `NodePublishVolume`, `NodeUnpublishVolume`, `NodeUnstageVolume`, `NodeGetVolumeStats` |
| blobfuse-proxy (`pkg/blobfuse-proxy`) | none; starts blobfuse outside the driver | `MountAzureBlob` |
| Credentials (`blob.go`, `azure.go`) | Kubernetes secrets, key vault | `GetAuthEnv`, `GetStorageAccesskey`, `setAzureCredentials` |
| Subnets (`azure.go`) | `subnetCache`, `subnetLockMap`, subnets in Azure | `updateSubnetServiceEndpoints` |
| Everything else | none, or counters | validation, mount options, identity service, metrics, gRPC set-up, health monitor |

The external provisioner calls the controller and repeats a call that failed or
timed out; the kubelet calls the node service in the same way. The controller
changes containers through the storage API and starts azcopy; the node service
runs mount commands, directly or through the proxy. The two services share the
lock type and the volume ID, and no memory.

What is hard here: a call that was given up goes on running beside its retry;
a command (azcopy, `mount.nfs`, blobfuse behind the proxy) outlives the call
that started it; a step fails after an earlier one took effect; what a retry
finds (a job record, a mount, a cache entry) is all it knows about the earlier
attempt; a restart loses the locks and keeps the rest.

What makes the parts correct:

* controller: calls for one volume exclude each other; a retry stays on the same
  account; every call returns; a volume that is asked for is created in the end;
* cloning: one copy per container; a cleanup never deletes what is being or has
  been copied; a clone reported as created is whole; containers named by the user
  are never cleaned up;
* node: what the kubelet was told is unmounted stays unmounted, what it was told
  is mounted is mounted, and shows the volume; pods are served and volumes go away
  in the end;
* locks: one holder per entry, and whoever waits gets it; subnets: what the cache
  claims is true, and lost endpoints come back;
* credentials: a token outlives its use, tokens in shared files stay fresh, old keys
  never replace new ones, and inline volumes do not borrow the cluster's identity;
* options: each flag reaches blobfuse as its user or, without one, the driver meant.

## Modules

| Module | Content |
|---|---|
| `BlobController` | controller service, volume locks, account search, caches, cloning |
| `MCBlobController` | instances of it for TLC |
| `BlobController_Proofs` | types, locks, account search, safety of copies and of the user's containers, `CloneComplete` where copies are sure, and the search as a user of `EntryLocks`, proved |
| `MountContract` | abstract specification: what the kubelet may count on for a staged volume |
| `NodeServer` | node service for one volume on one node; implements `MountContract` |
| `MCNodeServer` | instances of it for TLC |
| `NodeServer_Proofs` | types and `UnmountIsFinal`, proved |
| `StagedVolume_Proofs` | `MountedWhenTold` and `NeverBare` of staged volumes and the refinement of `MountContract`, proved |
| `EntryLocks` | abstract specification: a lock per entry |
| `LockMap` | `util.LockMap` step by step; implements `EntryLocks` |
| `LockMap_Proofs` | mutual exclusion and the refinement of `EntryLocks`, proved |
| `SubnetEndpoints` | `updateSubnetServiceEndpoints`, a client of `LockMap` |
| `SubnetEndpoints_Proofs` | types, `CachedSubnetsServed` and the correct use of `LockMap`, proved |
| `NodeShared` | what volumes of one node share: token files, environment, statistics |
| `NodeShared_Proofs` | types and `InlineKeepsToSecret`, proved |
| `AccountKeys` | keys, SAS tokens and the secret of one storage account |
| `AccountKeys_Proofs` | types, `TokenOutlivesCopy` and `SecretNeverGoesBack`, proved |
| `MountOptions` | the command line of blobfuse |
| `MountOptions_Proofs` | `ArgsAsPromised` and `DistributedOnlyWhereSupported`, proved |
| `MCSubnetEndpoints`, `MCNodeShared`, `MCAccountKeys`, `MCMountOptions` | instances of them for TLC |

### BlobController

`Handlers` are the goroutines that serve calls. `pc[h]` is the next step of
handler `h`, `vol`, `acct`, `hasKey`, `sas` and `job` are the local variables
`volName`, `accountName`, `accountKey # ""`, `accountSASToken # ""` and the azcopy
process the handler waits for. A handler takes one step between two calls to
something outside the process. `Class[v]` holds the parameters of the request for
volume `v` that steer the control.

| Steps | Code |
|---|---|
| `CreateVolume`, `AcquireVolume` | validation, subnet update, `TryAcquire(volName)` |
| `SelectAccount`, `LockAccountSearch`, `EnsureStorageAccount` | account from the class, `volMap`, the cache, or a search under `volLockMap` |
| `GetDataPlaneKey`, `CreateBlobContainer` | key for the data plane API, creation of the container |
| `AuthorizeCopy`, `CheckCopyJob`, `StartCopy`, `AwaitCopy`, `PollCopy`, `FallbackToSasToken` | `getAzcopyAuth` and `copyBlobContainer` |
| `CleanupCheck`, `CleanupDelete` | `cleanupContainerOnFailure` |
| `StoreAccountKey`, `CreateVolumeResponse` | secret, response, data plane cache |
| `DeleteVolume`, `DeleteAuth`, `DeleteContainer` | `DeleteVolume` |

The environment is azcopy (`AzcopyExit`), the storage service (`ContainerGone`,
`AccountMoves`), expiring caches, restarts and the provisioner, which may call at
any time for a volume it wants, also while an earlier call still runs or after it
got an answer. A job record has a `status`, whether its process is `alive`,
whether `azcopy jobs list` shows it (`listed`), and whether its container was
there all the time (`intact`). `Faults` names what may go wrong in an instance;
two of the faults need a word. `listFails`: the list command fails inside a
pipeline whose exit status is grep's. `cleanDropsRunning`: `azcopy jobs clean`,
called without a filter, also removes the record of a job that runs. What azcopy
does there is outside this repository, so both answers are modelled.

Left out: requests that fail validation and Aborted replies to `DeleteVolume`
(they change nothing), `GetContainerInfo` on a malformed ID, contents of keys and
tokens, time (an expiry may happen at any moment). Requests with secrets and
without an account are excluded by `SecretsAssumption`.

Simplified: the container of a volume has the volume's name (`ContainerOf`), which is what
`getValidContainerName` makes of the provisioner's `pvc-<uuid>` names; it shortens or
replaces others. `AzcopyJobs` finds the records with that name as source or destination,
where `grep` also finds names it is a part of; a `pvc-<uuid>` is part of another name only
if a prefix or the user put it there. `getAzcopyAuth` is one step here and four in
`AccountKeys`.

### NodeServer

A path (the staging path, one target per pod) has a directory `dir`, a stack
`mounts` and a number `late` of mount commands that outlived their call. A mount
is one of the file systems `Fs`; `Bare` stands for a bind mount that shows the
node's own staging directory. `dead` are the file systems whose blobfuse died.
`belief` is what the kubelet knows from the answers it got, `pods` what it wants.

| Steps | Code |
|---|---|
| `NodeStageVolume`, `StageLock`, `StageEnsure`, `StageUnmountStale` | lock on ID and path, workload identity, `ensureMountPoint` with `shouldUnmount` |
| `GetAuthEnv`, `MountNFS`, `SetupNFS` | credentials, NFS mount under `WaitUntilTimeout`, chmod and owner |
| `MountBlobfuse`, `WaitForMount`, `CleanupFailedMount`, `RemoveAfterFailedMount` | blobfuse mount, `waitForMount`, the error path |
| `NodePublishVolume`, `PublishEnsure`, `BindMount` | `canSkipRepublishNodeStage`, `ensureMountPoint` without `shouldUnmount`, bind |
| `NodeUnpublishVolume`, `UnpublishUnmount`, `UnpublishRemove` | `CleanupMountPoint` |
| `NodeUnstageVolume`, `UnstageLock`, `UnstageUnmount`, `UnstageRemove` | the same under the lock |

`Mode` selects a staged PV, an inline volume or a workload identity volume; in the
last two `NodePublishVolume` runs `NodeStageVolume` on the target. The kubelet
makes one call at a time for a path, except that it may give up on a call
(`CallerGivesUp`) or restart (`KubeletRestarts`) and then call again while the old
call still runs. It unpublishes and unstages whatever it has tried to mount.

Left out: the mock mount for tests, more than one volume (locks and paths of
different volumes are disjoint; what they share is in `NodeShared`), and a request that
is delayed for minutes before its first steps: `Prompt` are the steps that wait for
nothing, and the kubelet does not give up in them. Errors of `IsLikelyNotMountPoint` and
`List` in `ensureMountPoint` end the call as a failing `mkdir` does, which stands for them.
`RemovePath` always removes the directory of a path that is not mounted: no files are in
it here, and `os.Remove` of one with files would fail the call as a busy mount does.

`MountContract` is the node service as its user sees it, for staged volumes: a call
(`Ask`), a change of its path while it is under way or was given up (`Work`), an answer
(`Answer`), and a kubelet that restarts (`Forget`). It says in one place what may never
happen: a path changes after the kubelet was told of it, an answer is not true, or the
staging path is unmounted while a pod's path may be mounted. `NodeServer!Contract` maps
`belief` to `told`, and the paths with a mount on them to `mounted`.

### LockMap, EntryLocks and SubnetEndpoints

`LockEntry` inserts a mutex under the map's own mutex, lets that go, and looks the
entry up again: the lookup (`ReadEntry`) may meet an insertion (`MapRace`), a data
race on a Go map that finds the right mutex or crashes the process (`RaceCrash`).
`SubnetEndpoints` extends `LockMap` with the calls that use it: a look into
`subnetCache`, the entry lock, reads of all the subnets (`GetSubnet`), writes of
those without the endpoint (`UpdateSubnet`), and the cache (`CacheSubnets`). A key
is the text of the parameter; `Named` says which subnets it means, and two keys can
mean the same one. Subnets are written without an etag, so another writer's old
copy may take an endpoint away (`ForeignRead`, `ForeignWrite`).

`EntryLocks` has no map: `Ask`, `Grant`, `Free`, `Restart`. `LockMap!Abstract` maps
the threads on their way into `LockEntry` to `wants`; the mutexes are `holder`. The
run checks the safety and the fairness of `EntryLocks`. `BlobController` has such a lock
per entry for `volLockMap`, with `LockEntry` in one step; `SearchLock` maps the calls
that wait for it, and `SearchesTakeTurns` says that they use it as `EntryLocks` wants.

### NodeShared

Per volume: the attributes (`AttribType`, those that decide in `GetAuthEnv` and
`NodePublishVolume`), the call in progress and the path (`none`, `bare`, `ok`,
`broken`). Shared: `file`, the token files named `<clientID>-<account>`; `override`,
the environment variable; `statsCache`.

| Steps | Code |
|---|---|
| `CallVolume`, `Context`, `EnsureMountPoint` | `NodePublishVolume` (what it skips, clears and hands on), `ensureMountPoint` |
| `AuthSource`, `SecretFallback`, `GetAuthEnv`, `AfterAuth` | the sources of `GetAuthEnv` in their order; a failure counts only if the volume is not mounted |
| `CompareToken`, `WriteToken`, `WriteTokenFails` | the token file, which opening for writing empties |
| `SetEndpointOverride`, `Mount` | `AZURE_ENDPOINT_OVERRIDE` and the mount that inherits it |
| `NodeGetVolumeStats`, `StatsExpire` | statistics and their cache |

A token is live while its pod runs and the kubelet has no newer one. In the code a
token lasts for a while after the kubelet fetched the next one; here it does not,
which asks more of the driver. `CompareToken` reads the file and, if it differs, empties it
in one step; the write that follows is a step of its own, and two writes at a time do not
mix their bytes.

### AccountKeys

Keys are serial numbers, so newer is larger; the account has two. A call takes its
key from the request, a secret (the one that its class names, or else the account's own)
or Azure (`GetStorageAccesskey`), turns it into a
SAS token (`LookUpSasToken`, `generateSASToken`) or uses the driver's identity
(`getAzcopyAuth`, `FallbackToSasToken`), copies, and stores the key
(`setAzureCredentials`, which writes the account's own secret and keeps one that exists).
The cache is per account, whichever class and key filled it. `secret` has the two
secrets: `"own"`, and `"class"` for the class that names one and for the one that the
provisioner puts into the request. A class without secrets skips the cache and the
identity when `dataPlaneAPIVolCache` has the account; any
data plane call of the account, those outside the model too, puts it there and a restart
or 30 days take it away, so `getAzcopyAuth` goes on with either answer. Time passes in minutes (`Tick`); a copy takes at
most `CopyTime`. `TimesAssumption` (`CacheTTL + CopyTime <= SasTTL`) is what an
administrator who sets `sas-token-expiration-minutes` has to keep to: the driver
does not compare it with the 15 minutes of the cache.

### MountOptions

From the mount flags to the arguments of blobfuse: `CollectOptions` or `RejectOptions`
(inline options, group, `--use-adls`), the probe with `KeepCache` or `FallBack`,
`AddDefaults`, and `MountAzureBlob` in the proxy. `FallBack` enters the loop of
`fallbackToLocalBlockCache`, one step per option: `EnableBlockCache`, `KeepOption` or
`TranslateOption`, and `EndFallback` after the last. `AllowedInline` is what passes the
allowlist and the checks of values in `SanitizeMountOptions`. `Promised` says, flag by
flag, what should come out, without the order of the steps.

An option is a text: spaces (`padded`), a flag and, after "=", a value, which has several
parts once the proxy put its tag in front. The code compares flags, asks what a flag begins
with (`--distributed-cache-`, and a default for `appendDefaultMountOptions`, which does not
trim the spaces), and looks for a text anywhere in the arguments (`gid=`, the proxy's own
flags, `--telemetry` and `telemetryTagPrefix`). `Begins` and `Within` say which texts begin
with which and which have which further on; `HasPrefix`, `HasText` and `InArgs` use them.
They may be any relations that agree with the texts in the code itself (`TextAssumption`).
So `Distributed` is every flag with the prefix, also one that no list of the driver has:
`--distributed-cache-future-option` of `blob_test.go` is in the run.

Left out: a mount flag that holds several options in one text, spaces after an option, and
texts that are looked for and happen to be in the target path, the container's name or the
cache directory. JoinMountOptions sorts; here its result has some fixed order.

## Runs

Where a system may stop (everything deleted or unmounted, the command line
complete), deadlock is not checked.

| Run | Instance | Checks |
|---|---|---|
| `Clone` | one clone from another account, two handlers, two jobs, one restart, all faults but the two that hide a job | `TypeOK`, `LockedOnce`, `CleanupSparesCopy`, `OneCopyPerContainer` |
| `CloneData` | one clone, copies do not fail by themselves, timeouts, late calls, one replaced pod | `CloneComplete`, `CallsReturn`, `CreateSucceeds` |
| `AccountSearch` | two volumes of one search key on two accounts, the second a clone of the first into the user's container; searches and copies fail, the found account changes, caches expire | `VolMapDecides`, `SearchFreesEntry`, `UserContainerKept`, `SearchesTakeTurns` |
| `StagedFuse` | one staged blobfuse volume, two pods, three handlers, the proxy, four mishaps | `TypeOK`, `NeverBare`, `KeepsContract` (which implies `UnmountIsFinal` and `MountedWhenTold`) |
| `StagedNFS` | one staged NFS volume, one pod, three handlers, four mishaps | `UnmountIsFinal`, `MountedWhenTold`, `NeverBare`, `KeepsContract`, `PodServed`, `Unpublished`, `Unstaged` |
| `Workload` | workload identity volume mounted inside the driver, two handlers, four mishaps | `UnmountIsFinal`, `PodServed`, `Unpublished` |
| `Subnets` | two calls, a key that lists two subnets and the key for all subnets, failed requests, another writer, a crash | `TypeOK`, `EntryExclusion`, `CachedSubnetsServed`, `LockPerEntry`, `UpdateReturns`, `EndpointsHeal` |
| `NodeShared` | a volume with a token file and one of fifteen kinds, two tokens per pod, two mishaps | `TypeOK`, `InlineKeepsToSecret`, `TokenStaysFresh`, `StatsCatchUp` |
| `AccountKeys` | two calls, one of a class without secrets and one of each other kind in turn, an identity with or without a role, three keys, tokens of three minutes and entries of two | `TypeOK`, `TokenOutlivesCopy`, `SecretNeverGoesBack`, `ClonesRecover` |
| `MountOptions` | up to two options, each a mount flag or an inline one, every setting of node and volume | `ArgsAsPromised`, `DistributedOnlyWhereSupported` |

Each property says in its comment which behaviour of the code it is about. The
faults a run leaves out are those under which a property of it does not hold. Two
runs show a violation of something that a comment or a document says:

| Run | Shows |
|---|---|
| `FailedCopy` | a failed copy that a later call polled is reported as a created volume |
| `EndpointRace` | two NFS volumes with different endpoint suffixes are staged at once, and a mount helper gets the other one's endpoint |

Seven more configurations, which are not in `PROJECT.json`, end in a violation too:

| Configuration | Module | Shows |
|---|---|---|
| `ListFailure.cfg` | `MCBlobController` | a job that a failing `azcopy jobs list` does not show lets the cleanup delete a container under a running copy (`CleanupSparesCopy`); the comment at `controllerserver.go:595` says that such a failure skips the cleanup |
| `CopiedThenCleaned.cfg` | `MCBlobController` | a finished copy whose record was cleaned is deleted when the next attempt gets no credentials (`CleanupSparesCopied`), against the comment at `controllerserver.go:584` |
| `CleanedByOther.cfg` | `MCBlobController` | two clones and no fault: `azcopy jobs clean` of one call removes the record of the other's finished copy, whose call timed out just before, and the cleanup deletes that container (`CleanupSparesCopied`); the comment at `controllerserver.go:592` names this race between timeout and completion as what its check avoids |
| `MovedAccount.cfg` | `MCBlobController` | after a restart the search finds another account; the record of the finished copy on the first one counts for the empty container of that name on the second, and it is reported as the clone (`CloneComplete`) |
| `StaleJob.cfg` | `MCBlobController` | the record of a copy killed by a restart stays `InProgress` and blocks all retries (`CreateSucceeds`) |
| `BareBind.cfg` | `MCNodeServer` | a bind beside a restage shows an empty directory (`NeverBare`) |
| `SetupFailure.cfg` | `MCNodeServer` | a failed chmod is forgotten by the retry (`PreparedWhenStaged`) |

`Clone` has neither `listFails` (`ListFailure`) nor `cleanDropsRunning`, which hides
a job in the same way. `CloneData` leaves out failing copies because of `FailedCopy`,
a restart that keeps the job records because of `StaleJob`, and failing key requests
because of `CopiedThenCleaned`: a late duplicate of an acknowledged `CreateVolume`
that gets no credentials deletes the clone's container. It has one clone because of
`CleanedByOther`: a late duplicate may lose an acknowledged clone that way too; and the
account found does not change because of `MovedAccount`. Losses that may repeat for
ever (answers, secrets) would only deny `CreateSucceeds` its premise, so they are in
`Clone`. `StagedFuse` leaves out restarts of the kubelet because of `BareBind`.
`Workload` does not check `MountedWhenTold`: `canSkipRepublishNodeStage` is asked
without the volume lock, so a republish may answer OK for the mount of an abandoned
call whose error path then unmounts it (`PodServed` says that this does not last).
`NodeShared` has volumes of one endpoint suffix (`EndpointRace`) and no volume with
`mountWithWorkloadIdentityToken: "1"` (below).

### Other disagreements

These were met while modelling; the first four are visible in the actions.

* `CreateVolume` locks the volume name and `DeleteVolume` the volume ID, so the two
  can run at once for one volume.
* A failure to store the account key leaves the container the call created.
* An account taken from `accountSearchCache` is not stored in `volMap`.
* `ensureMountPoint` neither probes a mount on the `NodePublishVolume` path nor lets
  `NodeStageVolume` go on after it unmounted a stale mount, although its comment says
  both.
* `mountWithWorkloadIdentityToken` is read in three ways: `GetAuthEnv` accepts what
  `ParseBool` does, `canSkipRepublishNodeStage` "true" in any case, and
  `useWorkloadIdentity` only "true". A volume with a `clientID` and the value "1"
  mounts with a token file that is never refreshed, although the comment at
  `nodeserver.go:1056` says that "credential rotation continues on every republish".
* `GetAuthEnv` returns early for the protocol "nfs" only; "aznfs" and "nfsv3" go on to look
  for a key that the mount does not need (`NodeServer` has one NFS protocol, "nfs").
* The comment in `GetAuthEnv` says that the key finally comes from Azure; the
  Kubernetes secret is asked first.
* Statistics of a path that is not mounted are those of the node's disk, and are
  cached like others.
* `appendDefaultMountOptions` compares the beginnings of options without trimming them: a
  default that the user gave after a space is added a second time, and a longer flag that
  begins with a default's name keeps the default away.
* The proxy looks for `--telemetry`, its tag and its own flags anywhere in the arguments: an
  option with such a text in its value keeps the tag or the flag away.
* A group in the inline options is not seen by `checkGidPresentInMountFlags`, so the
  group of the pod is added after it.
* `getValidContainerName` replaces "--" once over the name, so "---" leaves a "--",
  which its comment rules out.

### Bounds

* `JobIds`: azcopy jobs known at a time; `StartCopy` waits for a free one. Two are
  enough for a copy and a second one beside it or after it, three for liveness.
* `Handlers`: two calls at a time in the controller (a call and its late duplicate,
  or a create and a delete), three on the node (a call, an abandoned one, and a
  call on another path; two in `Workload`, which mounts on the target only).
* `MaxRestarts`: one restart is enough to lose all memory.
* `MaxMishaps`: how often something goes wrong, four in the passing runs, enough for
  every triple of failures in one behaviour.
* `MaxLate`, `MaxDepth`, `Fs`: one command left behind per path, as many mounts on a
  path as there are handlers, so that no call waits for the bound, and three file
  systems: a mount over a mount is reached.
* `SubnetEndpoints`: two threads, one of which inserts while the other looks up;
  `MaxCrashes` one; `MaxMishaps` covers a failed request and a foreign write.
* `NodeShared`: `MaxSerial` two tokens per pod, an old and a new one; `MaxMishaps` two.
* `AccountKeys`: `MaxKeys` three, so that one key is regenerated while it is in use;
  `SasTTL`, `CacheTTL` and `CopyTime` are as small as `TimesAssumption` lets them be
  with an entry that ages. `MaxMishaps` one. `Identities` leaves out a driver without
  any identity: its calls go straight to a SAS token, as those of the run may.
* `MountOptions`: `MaxOptions` two options, so that each kind of option meets each other
  one in either order, as flags, inline or one of each, besides those that the request
  adds. Longer lists, such as two distributed options and the local one that both stand
  for, are left to the theorem, which has no bound.

Handlers, jobs, targets and file systems are symmetric in the safety runs; the
liveness runs use no symmetry.

### Fairness

A goroutine that can go on does (`WF` on its steps), because every wait in the code
has a timeout. Waiting for an entry lock needs `SF`: a `sync.Mutex` in starvation
mode hands the lock to its waiters. The provisioner and the kubelet repeat a call
that failed (`SF` on a call per volume or path, since handlers come and go). azcopy
processes and deletions end, and a mount command left behind lands or fails. No
fairness is assumed of faults, and none of `DeleteVolume` in the controller.
In `NodeShared` the kubelet republishes (`requiresRepublish` in the CSIDriver object)
and asks for statistics, and cached statistics run out. In `AccountKeys` time passes;
the administrator and Azure owe nothing, and `ClonesRecover` has the repaired secret
as its premise.

## Proofs

Assumptions are `ConstantsAssumption`, `SecretsAssumption`, `NodeAssumption`,
`LockMapAssumption`, `SubnetsAssumption`, `SharedAssumption`, `KeysAssumption`,
`OptionsAssumption`, `TextAssumption` and `TimesAssumption`. Most of them only say what
kind of values the constants are (the subnets are finitely many, as the code lists them).
Three say more. `SecretsAssumption` excludes a class with secrets and without an account,
as in `deploy/example/storageclass-blob-secret.yaml`: `accountName` stays empty there until
`copyBlobContainer` (`controllerserver.go:922`) takes the source's account, which no module
follows, so nothing is proved of such a class. `TimesAssumption` relates the lifetime of
the SAS cache, of a token and of a copy as the driver's defaults do. `TextAssumption` says
of the flags written in the code which have the prefix of a distributed option, and that
none of the driver's own values looks like telemetry. TLC
evaluates them in the runs of their modules. Three theorems have a condition on the
constants of their own, a named definition: `CopiesAreListed`, `SureCopies` and
`StagingKept`. For each a configuration shows that the property fails without it.

* `BlobController_Proofs!TypeCorrect`: `Spec => []TypeOK`. Inductive with
  `HandlerOK`: a handler that serves a call has a volume, and an account once it
  was chosen.
* `LockCorrect`: `Spec => []LockedOnce`, inductive relative to the types: at most
  one call per name is past `TryAcquire`, it holds the lock, and no return leaks a
  lock or frees another call's.
* `SearchCorrect`: `Spec => [](SearchFreesEntry /\ VolMapDecides)`. Inductive with the
  types and `LockedOnce`: `EnsureStorageAccount` writes `volMap` for its volume, and
  only the lock on the name keeps another call for that volume from having settled
  on another account already. `SearchesFreeEntries` states its first half alone.
* `CopiesAreSafe`: if neither `listFails` nor `cleanDropsRunning` is possible, then
  `Spec => [](CleanupSparesCopy /\ OneCopyPerContainer)`. A cleanup deletes in a
  later step than it looked at the jobs, so the invariant has to say what was seen:
  `Recorded` (a process that runs is listed as in progress) and `CheckedNoCopy` (a
  handler about to start a copy or to delete has no copy in its container). That
  this survives the steps of other handlers rests on `LockedOnce`: only a call for
  the same name could start such a copy, and it is excluded. The names of the
  driver's containers are the volume names, so no other volume gets in the way.
  `CopiesAreAlone` states its second half alone.
* `UserContainersAreKept`: `Spec => UserContainerKept`, an action property. A cleanup
  checks in one step and deletes in another; `CleansOwn` carries the check over.
* `ClonesAreComplete`: under `SureCopies`, `Spec => []CloneComplete`.
  `SureCopies` is what `FailedCopy`, `ListFailure`, `CopiedThenCleaned`, `CleanedByOther`
  and `MovedAccount` show to be needed: copies end well, azcopy runs and lists its jobs,
  tokens can be had, one volume is a clone, and the search keeps finding the same account.
  Restarts, replaced pods, lost replies and failing searches, creations, deletions and
  secrets are allowed. The invariant says where a call and a copy stand: `AtHome` (all
  calls for a volume settle on one account), `ClonesCopy` (all records are of copies
  into the clone's container), `NoDelete` (nobody is about to delete a container the
  provisioner still wants), `CopiesFill` (a copy that runs has its container, one that
  ended has filled it) and `CallsAwait` (while a call waits for a copy, and until its
  cleanup has looked, the record is there). `LockedOnce` is what keeps another call for
  the clone from cleaning that record.
* `SearchLockRefines`: `Spec => SearchesTakeTurns`. Each step of the controller is `Ask`,
  `Grant`, `Free` or `Restart` of `EntryLocks`, or changes nothing there; that a call which
  asks has no entry and one that frees has its own is `SearchFreesEntry`. Together with
  `LockMapRefines` this is why `LockEntry` may be one step in `BlobController`.
* `NodeServer_Proofs!TypeCorrect` and `UnmountsAreFinal`: `Spec => []TypeOK` and
  `Spec => []UnmountIsFinal`. The invariant adds `CallsInOrder` (a call the kubelet
  waits for is alone on its path, which counts as unknown meanwhile) and
  `DirectoryFirst` (nothing is mounted where there is no directory, and "no" is
  answered only when the directory is gone). `NodeUnpublishVolume` holds no lock;
  the removal of the directory is what stops late mounts.
* `StagedVolume_Proofs!ToldIsMounted`: for staged volumes `Spec => []MountedWhenTold`.
  Besides the invariant of `NodeServer_Proofs` it needs `CallsApart` (which calls may be
  on a path at a time: the lock on the staging path has one holder, and an unpublish the
  kubelet waits for comes last) and `FoundMounted` (a stage call that saw its path
  mounted, or mounted it, still has it mounted while it goes on). That is the volume
  lock's doing: nobody else who holds it could have unmounted the path.
* `PodsNeverGetBare` and `StagedWhilePublished`: under `StagingKept` (NFS, or no restarts
  of the kubelet; `BareBind.cfg` shows why) `Spec => []NeverBare` and
  `Spec => [](Published => Mounted(Staging))`. `StagingStays` says that while a target
  may be mounted the staging path is, and no call is at a step that could unmount it;
  `NoBare` follows, since a bind copies what is mounted there.
* `ContractIsKept`: under `StagingKept`, `Spec => KeepsContract`. A handler touches only its
  own path (`StepOnPath`). Where the kubelet has no answer for that path, the contract lets
  it change. Where it has one, the invariants of the earlier theorems say before and after
  the step whether the path is mounted, so that the kubelet sees no change; and
  `StagingStays` after the step says that no pod was left when the staging path went.
* `AccountKeys_Proofs!TypeCorrect` and `TokensOutliveCopies`: `Spec => []TypeOK` and
  `Spec => []TokenOutlivesCopy`. That a token still lasts is not inductive: the next
  minute may end it. `TokenLasts` says what is: the time left on the token and the
  time the copy has used add up to more than `CopyTime`. A minute moves one unit from
  the first to the second, a new copy starts with a token no older than `CacheTTL`.
* `SecretsDoNotGoBack`: `Spec => SecretNeverGoesBack`, from `KeysInOrder`: the account
  always has the last key made among its two and nobody has a newer one.
  `setAzureCredentials` keeps a secret that exists, so a call with an old key never
  overwrites a newer one.
* `LockMap_Proofs!LockMapExcludes`: `LockSpec => []EntryExclusion`. Inductive with
  `EntriesKept` (who is past the check has a mutex in the map, and who inserts has the
  map's mutex and no mutex of that entry exists yet) and `HoldersHold` (a mutex is
  locked by exactly the goroutine between its two calls). Without `EntriesKept` an
  insertion could replace a mutex that is held.
* `LockMapRefines`: `LockSpec => Abstract!Init /\ [][Abstract!Next]_(Abstract!vars)`:
  each step of the map is `Ask`, `Grant`, `Free` or `Restart` of `EntryLocks`, or
  changes nothing there. The fairness of `EntryLocks` is left to TLC (`Subnets`).
* `SubnetEndpoints_Proofs!UsesLockMap`: `Spec => LockSpec`. A call takes and frees its
  entry as the protocol of `LockMap` wants it, so `SubnetEntryExclusion` and
  `SubnetLockRefines` (the safety part of `LockPerEntry`) come from `LockMap_Proofs`.
* `SubnetTypeCorrect` and `CachedSubnetsAreServed`: `Spec => []TypeOK` and
  `Spec => []CachedSubnetsServed`. Inductive with `ReadInside` (a call reads while it has
  its entry, and not more than its key names) and `ReadServed` (a subnet that was read
  with the endpoint, or whose turn is over, has it or lost it to another writer). A call
  caches all subnets of its key when the turn of each is over, though others write old
  copies of them meanwhile.
* `NodeShared_Proofs!SharedTypeCorrect` and `InlineVolumesKeepToSecret`:
  `Spec => []TypeOK` and `Spec => []InlineKeepsToSecret`. What `NodePublishVolume` clears
  is followed through every source `GetAuthEnv` may take, for every combination of
  attributes, where the run has fifteen; `WritesToken` is what the types of the token
  files need.
* `MountOptions_Proofs!ArgsPromiseKept` and `DistributedCacheSafe`: `Spec =>
  []ArgsAsPromised` and `Spec => []DistributedOnlyWhereSupported`, for lists of any length
  and any options, whatever their flags begin with and their values have in them. The loop is steps of the model, so the induction over the list is the
  one over behaviours and needs no theorem about data. `OptionsInv` has a part per stage;
  the one of the loop, `FallbackSoFar`, says of every flag what has been made of the
  options before the position `next`, and which local flags count as given. `OptionsCorrect`
  states the invariant. The lemmas are about `OfFlag`, the options of one flag in their
  order: what appending one option, the defaults in whatever order `SetToSeq` gives them,
  and the telemetry tag do to it.

The proofs changed the models in two points: `AuthSource` and `Promised` were written
as a CASE with overlapping guards, whose order TLA+ leaves open, and the code's order is
now an IF; and the loop of `fallbackToLocalBlockCache`, a fold before, takes a step per
option.

Only model-checked:

* liveness, which is outside what TLAPS proves: `CallsReturn`, `CreateSucceeds`,
  `PodServed`, `Unpublished`, `Unstaged`, `UpdateReturns`, `EndpointsHeal`,
  `TokenStaysFresh`, `StatsCatchUp`, `ClonesRecover` and the fairness in `LockPerEntry`;
* nothing is proved of `MountedWhenTold` for volumes that are not staged, where it does
  not hold (`Workload`, above); `NeverBare` is about bind mounts, which they do not have.

## The plan

Done: all modules, and proofs of every safety property of the passing runs, the
refinements of `EntryLocks` and `MountContract` among them. Left: a contract for volumes
that are not staged, which would have to allow for the republish that answers too early
(`Workload`, above).

## Not modelled

* Validation of names, servers, IDs and values: predicates over strings without state.
  A request that fails them changes nothing.
* Identity service, metrics, gRPC set-up, flag parsing, the calls that answer from
  their request, the proxy's health monitor (it dials and counts), Windows, fakes and
  generated code: no state that a property of the driver depends on.
* The difference between the two storage APIs after `dataPlaneAPIVolCache` lost an
  entry: they differ in what can reach the account, which no module has.
* What azcopy, blobfuse, `mount`, the storage service and Azure's network do inside.
