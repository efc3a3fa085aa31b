----------------------------- MODULE NodeShared -----------------------------
(***************************************************************************)
(* What the volumes of one node share inside the node service: the files   *)
(* with workload identity tokens (one per client and storage account), the *)
(* environment of the process, and the cache of volume statistics.  A call *)
(* that mounts a volume takes its credentials from GetAuthEnv; the kubelet *)
(* repeats NodePublishVolume (requiresRepublish) so that tokens stay fresh.*)
(* Locks, paths and abandoned calls are the subject of NodeServer; here a  *)
(* volume has one path and one call at a time.                             *)
(***************************************************************************)
EXTENDS Naturals

CONSTANTS
    Vols,                   \* volumes, each used by one pod
    Watched,                \* volumes whose statistics the kubelet asks for
    Attribs,                \* Attribs[v]: the attributes that v may have
    Files,                  \* names of token files, <clientID>-<account>
    Suffixes,               \* endpoint suffixes of the clouds
    DriverClientID,         \* the driver has a user-assigned identity
    AllowInlineKeyAccess,   \* allowInlineVolumeKeyAccessWithIdentity
    EnableAznfs,            \* enableAznfsMount
    MaxSerial,              \* bound: tokens that a pod gets
    MaxMishaps,             \* bound: failures
    None

AttribType ==
    [inline : BOOLEAN,                      \* ephemeral volume
     protocol : {"fuse", "nfs", "aznfs", "nfsv3"},
     wiToken : {"", "true", "True", "1"},   \* mountWithWorkloadIdentityToken
     clientID : BOOLEAN, keyVault : BOOLEAN,
     secrets : BOOLEAN,                     \* the request carries secrets
     secretName : BOOLEAN, account : BOOLEAN,
     authType : {"", "key", "MSI", "SPN"},
     onlySecret : BOOLEAN,                  \* getAccountKeyFromSecret
     file : Files, suffix : Suffixes]       \* storageEndpointSuffix

ASSUME SharedAssumption ==
    /\ \A v \in Vols : Attribs[v] # {} /\ Attribs[v] \subseteq AttribType
    /\ {DriverClientID, AllowInlineKeyAccess, EnableAznfs} \subseteq BOOLEAN
    /\ MaxSerial \in Nat \ {0} /\ MaxMishaps \in Nat
    /\ None \notin Vols /\ Watched \subseteq Vols

VARIABLES
    attrib,         \* attributes of each volume
    pc,             \* next step of the call for a volume
    token,          \* serial of the service account token in the request, 0 for none
    mnt,            \* the call found the volume mounted
    env,            \* credentials that the call got, or the mount was given
    mount,          \* the path of a volume: "none", "bare" (a directory), "ok", "broken"
    file,           \* content of a token file: <<volume, serial>> or NoToken
    override,       \* AZURE_ENDPOINT_OVERRIDE in the driver's environment
    seen,           \* endpoint that the mount helper of a volume was given
    serial,         \* serial of the token that the kubelet has for the pod
    running,        \* volumes whose pod runs
    statsCache,     \* cached statistics of a volume, or "none"
    answer,         \* last answer of NodeGetVolumeStats
    mishaps

vars == <<attrib, pc, token, mnt, env, mount, file, override, seen, serial,
          running, statsCache, answer, mishaps>>

Sources == {"none", "token", "serviceAccount", "vault", "request", "secret", "cluster"}
Tokens == Vols \X (1..MaxSerial)
NoToken == <<None, 0>>      \* no file, or an empty one

TypeOK ==
    /\ attrib \in [Vols -> AttribType]
    /\ pc \in [Vols -> {"idle", "ensure", "auth", "write", "setenv", "mount"}]
    /\ token \in [Vols -> 0..MaxSerial]
    /\ mnt \in [Vols -> BOOLEAN]
    /\ env \in [Vols -> Sources]
    /\ mount \in [Vols -> {"none", "bare", "ok", "broken"}]
    /\ file \in [Files -> Tokens \cup {NoToken}]
    /\ override \in Suffixes \cup {""} /\ seen \in [Vols -> Suffixes \cup {""}]
    /\ serial \in [Vols -> 1..MaxSerial]
    /\ running \subseteq Vols
    /\ statsCache \in [Vols -> {"none", "volume", "disk"}]
    /\ answer \in [Vols -> {"none", "volume", "disk", "error", "notFound"}]
    /\ mishaps \in 0..MaxMishaps

Init ==
    /\ attrib \in [Vols -> UNION {Attribs[v] : v \in Vols}]
    /\ \A v \in Vols : attrib[v] \in Attribs[v]
    /\ pc = [v \in Vols |-> "idle"]
    /\ token = [v \in Vols |-> 0]
    /\ mnt = [v \in Vols |-> FALSE]
    /\ env = [v \in Vols |-> "none"]
    /\ mount = [v \in Vols |-> "none"]
    /\ file = [f \in Files |-> NoToken]
    /\ override = ""
    /\ seen = [v \in Vols |-> ""]
    /\ serial = [v \in Vols |-> 1]
    /\ running = Vols
    /\ statsCache = [v \in Vols |-> "none"]
    /\ answer = [v \in Vols |-> "none"]
    /\ mishaps = 0
-----------------------------------------------------------------------------
isNFSProtocol(p) == p \in {"nfs", "aznfs", "nfsv3"}

\* The flag is compared with "true" here, without case in
\* canSkipRepublishNodeStage, and goes through strconv.ParseBool in GetAuthEnv.
useWorkloadIdentity(a) == a.clientID \/ a.wiToken = "true"
ParseBool(flag) == flag \in {"true", "True", "1"}

canSkipRepublishNodeStage(v) ==
    /\ attrib[v].wiToken \notin {"true", "True"}
    /\ mount[v] = "ok"

\* The service account token is known to NodePublishVolume, which stages inline
\* and workload identity volumes itself, and not to the kubelet's NodeStageVolume.
Republished(v) == attrib[v].inline \/ useWorkloadIdentity(attrib[v])

\* Mutant: the context of an inline volume is handed on as it is.
ContextUnchanged(v) == attrib[v]

\* What NodePublishVolume hands to NodeStageVolume: an inline volume loses the
\* secrets of the request and, unless the driver allows it, its account name.
Context(v) ==
    LET a == attrib[v]
    IN IF useWorkloadIdentity(a) \/ ~a.inline THEN a
       ELSE IF AllowInlineKeyAccess THEN [a EXCEPT !.secrets = FALSE]
       ELSE [a EXCEPT !.secrets = FALSE, !.onlySecret = TRUE, !.account = FALSE]

Step(v, to) == pc' = [pc EXCEPT ![v] = to]
Mishap == mishaps < MaxMishaps /\ mishaps' = mishaps + 1
Fine == UNCHANGED mishaps

\* A call returns; its local variables are gone.
Return(v) ==
    /\ Step(v, "idle")
    /\ token' = [token EXCEPT ![v] = 0]
    /\ mnt' = [mnt EXCEPT ![v] = FALSE]

outside == <<attrib, serial, running, statsCache, answer>>

\* The kubelet calls NodePublishVolume or, for a staged volume, NodeStageVolume.
CallVolume(v) ==
    /\ v \in running
    /\ pc[v] = "idle"
    /\ Republished(v) => ~canSkipRepublishNodeStage(v)
    /\ Step(v, "ensure")
    /\ token' = [token EXCEPT ![v] = IF Republished(v) THEN serial[v] ELSE 0]
    /\ UNCHANGED <<outside, mnt, env, mount, file, override, seen, mishaps>>

\* A stale mount is unmounted and the call fails; the next one mounts again.
EnsureMountPoint(v) ==
    /\ pc[v] = "ensure"
    /\ \/ mount[v] = "broken" /\ Return(v)
       \/ /\ mount[v] # "broken"
          /\ mnt' = [mnt EXCEPT ![v] = mount[v] = "ok"]
          /\ Step(v, "auth")
          /\ UNCHANGED token
    /\ mount' = [mount EXCEPT ![v] = IF @ = "ok" THEN @ ELSE "bare"]
    /\ UNCHANGED <<outside, env, file, override, seen, mishaps>>

\* GetAuthEnv came back: a volume that is mounted is done, whatever it says.
AfterAuth(v, source, failed) ==
    \/ /\ failed \/ mnt[v]
       /\ Return(v)
       /\ UNCHANGED env
    \/ /\ ~failed /\ ~mnt[v]
       /\ env' = [env EXCEPT ![v] = source]
       /\ Step(v, IF isNFSProtocol(attrib[v].protocol) THEN "setenv" ELSE "mount")
       /\ UNCHANGED <<token, mnt>>

\* The source of a request without a token file, and whether it can fail.
AuthSource(a) ==
    IF a.protocol = "nfs" THEN "none"
    ELSE IF a.clientID THEN "serviceAccount"
    ELSE IF a.keyVault THEN "vault"
    ELSE IF a.secrets THEN "request"
    ELSE IF a.secretName \/ a.account THEN "secret"
    ELSE "none"

\* Without the secret: MSI needs none, a key comes from the cluster identity.
SecretFallback(a) ==
    CASE a.authType = "MSI" -> "none"
      [] ~a.onlySecret /\ a.authType \in {"", "key"} /\ a.account -> "cluster"
      [] OTHER -> "fail"

UsesTokenFile(a) == a.protocol # "nfs" /\ ParseBool(a.wiToken)

GetAuthEnv(v) ==
    LET a == Context(v)
        source == AuthSource(a)
    IN /\ pc[v] = "auth"
       /\ ~UsesTokenFile(a)
       /\ \/ Fine /\ AfterAuth(v, source, FALSE)
          \/ source \in {"serviceAccount", "vault"} /\ Mishap /\ AfterAuth(v, source, TRUE)
          \/ /\ source = "secret"
             /\ LET other == SecretFallback(a)
                IN \E failed \in BOOLEAN :
                    /\ other = "fail" => failed
                    /\ other = "none" => ~failed
                    /\ AfterAuth(v, other, failed)
             /\ Mishap
       /\ UNCHANGED <<outside, mount, file, override, seen>>

\* Mutant: a token file that has a token is up to date.
CompareNothing(v) ==
    LET a == Context(v)
    IN /\ pc[v] = "auth"
       /\ UsesTokenFile(a)
       /\ IF token[v] = 0 \/ ~(a.clientID \/ DriverClientID)
          THEN AfterAuth(v, "token", TRUE) /\ UNCHANGED file
          ELSE IF file[a.file] # NoToken
          THEN AfterAuth(v, "token", FALSE) /\ UNCHANGED file
          ELSE Step(v, "write") /\ UNCHANGED <<file, env, token, mnt>>
       /\ UNCHANGED <<outside, mount, override, seen, mishaps>>

\* The token file is left alone or opened for writing, which empties it.
CompareToken(v) ==
    LET a == Context(v)
        t == <<v, token[v]>>
    IN /\ pc[v] = "auth"
       /\ UsesTokenFile(a)
       /\ IF token[v] = 0 \/ ~(a.clientID \/ DriverClientID)
          THEN AfterAuth(v, "token", TRUE) /\ UNCHANGED file
          ELSE IF file[a.file] = t
          THEN AfterAuth(v, "token", FALSE) /\ UNCHANGED file
          ELSE /\ file' = [file EXCEPT ![a.file] = NoToken]
               /\ Step(v, "write")
               /\ UNCHANGED <<env, token, mnt>>
       /\ UNCHANGED <<outside, mount, override, seen, mishaps>>

WriteToken(v) ==
    /\ pc[v] = "write"
    /\ file' = [file EXCEPT ![attrib[v].file] = <<v, token[v]>>]
    /\ AfterAuth(v, "token", FALSE)
    /\ UNCHANGED <<outside, mount, override, seen, mishaps>>

WriteTokenFails(v) ==
    /\ pc[v] = "write"
    /\ Mishap
    /\ AfterAuth(v, "token", TRUE)
    /\ UNCHANGED <<outside, mount, file, override, seen>>

\* AZURE_ENDPOINT_OVERRIDE is set for the whole process.
SetEndpointOverride(v) ==
    /\ pc[v] = "setenv"
    /\ override' = IF EnableAznfs /\ attrib[v].protocol # "nfsv3"
                   THEN attrib[v].suffix ELSE override
    /\ Step(v, "mount")
    /\ UNCHANGED <<outside, token, mnt, env, mount, file, seen, mishaps>>

\* A token is good while its pod runs and the kubelet has no newer one.
Live(t) == t \in Tokens /\ t[1] \in running /\ t[2] = serial[t[1]]

\* mount.aznfs inherits the environment; blobfuse signs in with the token file.
Mount(v) ==
    LET a == attrib[v]
        aznfs == EnableAznfs /\ a.protocol \in {"nfs", "aznfs"}
    IN /\ pc[v] = "mount"
       /\ \/ /\ env[v] = "token" => Live(file[a.file])
             /\ mount' = [mount EXCEPT ![v] = "ok"]
             /\ seen' = [seen EXCEPT ![v] = IF aznfs THEN override ELSE a.suffix]
             /\ Fine /\ UNCHANGED env
          \/ /\ \/ env[v] = "token" /\ ~Live(file[a.file]) /\ Fine
                \/ Mishap
             /\ mount' = [mount EXCEPT ![v] = IF isNFSProtocol(a.protocol) THEN @ ELSE "none"]
             /\ env' = [env EXCEPT ![v] = "none"]
             /\ UNCHANGED seen
       /\ Return(v)
       /\ UNCHANGED <<outside, file, override>>
-----------------------------------------------------------------------------
\* What Lstat and statfs say of a path; an unmounted directory is on the node's disk.
Statistics(path) ==
    CASE path = "ok" -> "volume"
      [] path = "bare" -> "disk"
      [] path = "broken" -> "error"
      [] path = "none" -> "notFound"

\* Mutant: failures are cached too.
StatsCacheFailures(v) ==
    /\ v \in running \cap Watched
    /\ statsCache[v] = "none"
    /\ answer' = [answer EXCEPT ![v] = Statistics(mount[v])]
    /\ statsCache' = [statsCache EXCEPT ![v] = Statistics(mount[v])]
    /\ UNCHANGED <<attrib, pc, token, mnt, env, mount, file, override, seen, serial, running, mishaps>>

NodeGetVolumeStats(v) ==
    LET found == Statistics(mount[v])
    IN /\ v \in running \cap Watched
       /\ \/ /\ statsCache[v] # "none"
             /\ answer' = [answer EXCEPT ![v] = statsCache[v]]
             /\ UNCHANGED statsCache
          \/ /\ statsCache[v] = "none"
             /\ answer' = [answer EXCEPT ![v] = found]
             /\ statsCache' = IF found \in {"volume", "disk"}
                              THEN [statsCache EXCEPT ![v] = found] ELSE statsCache
       /\ UNCHANGED <<attrib, pc, token, mnt, env, mount, file, override, seen, serial, running, mishaps>>

\* Mutant: entries are read with CacheReadTypeUnsafe, however old they are.
StatsNeverExpire(v) == v \notin Vols /\ UNCHANGED vars

StatsExpire(v) ==
    /\ statsCache[v] # "none"
    /\ statsCache' = [statsCache EXCEPT ![v] = "none"]
    /\ UNCHANGED <<attrib, pc, token, mnt, env, mount, file, override, seen, serial, running, answer, mishaps>>

TokenRotates(v) ==
    /\ v \in running /\ UsesTokenFile(attrib[v])
    /\ serial[v] < MaxSerial
    /\ serial' = [serial EXCEPT ![v] = @ + 1]
    /\ UNCHANGED <<attrib, pc, token, mnt, env, mount, file, override, seen, running, statsCache, answer, mishaps>>

\* The pod is deleted and the volume unmounted; the token dies with the pod.
PodGoes(v) ==
    /\ v \in running
    /\ pc[v] = "idle"
    /\ running' = running \ {v}
    /\ mount' = [mount EXCEPT ![v] = "none"]
    /\ env' = [env EXCEPT ![v] = "none"]
    /\ seen' = [seen EXCEPT ![v] = ""]
    /\ answer' = [answer EXCEPT ![v] = "none"]
    /\ UNCHANGED <<attrib, pc, token, mnt, file, override, serial, statsCache, mishaps>>

FuseDies(v) ==
    /\ mount[v] = "ok"
    /\ ~isNFSProtocol(attrib[v].protocol)
    /\ Mishap
    /\ mount' = [mount EXCEPT ![v] = "broken"]
    /\ UNCHANGED <<attrib, pc, token, mnt, env, file, override, seen, serial, running, statsCache, answer>>

CallStep(v) ==
    \/ EnsureMountPoint(v) \/ GetAuthEnv(v) \/ CompareToken(v) \/ WriteToken(v)
    \/ WriteTokenFails(v) \/ SetEndpointOverride(v) \/ Mount(v)

Next ==
    \E v \in Vols :
        \/ CallVolume(v) \/ CallStep(v)
        \/ NodeGetVolumeStats(v) \/ StatsExpire(v)
        \/ TokenRotates(v) \/ PodGoes(v) \/ FuseDies(v)

(***************************************************************************)
(* A call that can go on does; the kubelet publishes again and again what  *)
(* NodePublishVolume mounts (requiresRepublish), asks for statistics, and  *)
(* cached statistics run out.                                              *)
(***************************************************************************)
Fairness ==
    \A v \in Vols :
        /\ WF_vars(CallStep(v))
        /\ WF_vars(Republished(v) /\ CallVolume(v))
        /\ WF_vars(NodeGetVolumeStats(v))
        /\ WF_vars(StatsExpire(v))

Spec == Init /\ [][Next]_vars /\ Fairness
-----------------------------------------------------------------------------
(***************************************************************************)
(* Whoever shares the token file, whichever token was written last, and    *)
(* whatever failed without being reported because the volume was mounted   *)
(* already: a mount that signs in with a token file finds a live token in  *)
(* it again, as republishing rewrites the file.                            *)
(***************************************************************************)
TokenStaysFresh ==
    \A v \in Vols : []<>(
        mount[v] = "ok" /\ env[v] = "token" => Live(file[attrib[v].file]))

(***************************************************************************)
(* An inline volume is not given a key that the driver fetched with the    *)
(* identity of the cluster, unless the driver was told to allow it:        *)
(* NodePublishVolume changes the context so that no path through           *)
(* GetAuthEnv, with or without the secret, gets there.                     *)
(***************************************************************************)
InlineKeepsToSecret ==
    \A v \in Vols : attrib[v].inline /\ env[v] = "cluster" => AllowInlineKeyAccess

(***************************************************************************)
(* The cached statistics catch up: when the path of a volume stays as it   *)
(* is (mounted, broken, a bare directory, gone), NodeGetVolumeStats tells  *)
(* so in the end and keeps telling it.                                     *)
(***************************************************************************)
StatsCatchUp ==
    \A v \in Watched, path \in {"none", "bare", "ok", "broken"} :
        <>[](v \in running /\ mount[v] = path) => <>[](answer[v] = Statistics(path))

(***************************************************************************)
(* The mount helper of a volume works with the endpoint suffix of that     *)
(* volume.                                                                 *)
(***************************************************************************)
OwnEndpoint == \A v \in Vols : mount[v] = "ok" => seen[v] = attrib[v].suffix
=============================================================================
