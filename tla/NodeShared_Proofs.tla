-------------------------- MODULE NodeShared_Proofs --------------------------
(***************************************************************************)
(* Proofs about NodeShared, for any volumes, attributes and failures: its  *)
(* state keeps its types, and no path through GetAuthEnv gives an inline   *)
(* volume a key fetched with the identity of the cluster.                  *)
(***************************************************************************)
EXTENDS NodeShared, TLAPS

\* What a call writes into a token file is a token.
WritesToken == \A v \in Vols : pc[v] = "write" => token[v] # 0

Inv == TypeOK /\ WritesToken /\ InlineKeepsToSecret

Calls == {"idle", "ensure", "auth", "write", "setenv", "mount"}
-----------------------------------------------------------------------------
\* The bounds are numbers, and a pod has a token.
LEMMA Bounds == MaxSerial \in Nat \ {0} /\ MaxMishaps \in Nat
  BY SharedAssumption

\* The first state.
LEMMA InvInit == Init => Inv
<1> SUFFICES ASSUME Init PROVE Inv
  OBVIOUS
<1>1. attrib \in [Vols -> AttribType]
  BY SharedAssumption DEF Init
<1>2. file \in [Files -> Tokens \cup {NoToken}]
  BY DEF Init
<1>3. serial \in [Vols -> 1..MaxSerial] /\ token \in [Vols -> 0..MaxSerial] /\ mishaps \in 0..MaxMishaps
  <2>1. 1 \in 1..MaxSerial /\ 0 \in 0..MaxSerial /\ 0 \in 0..MaxMishaps
    BY SharedAssumption
  <2> QED
    BY <2>1 DEF Init
<1>4. /\ mnt \in [Vols -> BOOLEAN] /\ env \in [Vols -> Sources]
      /\ pc \in [Vols -> {"idle", "ensure", "auth", "write", "setenv", "mount"}]
      /\ mount \in [Vols -> {"none", "bare", "ok", "broken"}]
      /\ statsCache \in [Vols -> {"none", "volume", "disk"}]
      /\ answer \in [Vols -> {"none", "volume", "disk", "error", "notFound"}]
  BY DEF Init, Sources
<1>0. override \in Suffixes \cup {""} /\ seen \in [Vols -> Suffixes \cup {""}]
  BY DEF Init
<1>5. TypeOK
  BY <1>1, <1>2, <1>3, <1>4, <1>0 DEF Init, TypeOK
<1> QED
  BY <1>5 DEF Inv, Init, WritesToken, InlineKeepsToSecret

\* The counters' part of the types.
LEMMA Counters ==
    ASSUME Inv
    PROVE  /\ token \in [Vols -> 0..MaxSerial] /\ serial \in [Vols -> 1..MaxSerial]
           /\ mishaps \in 0..MaxMishaps
  BY DEF Inv, TypeOK

\* Context changes a volume's attributes only where an inline volume loses something.
LEMMA ContextFacts ==
    ASSUME Inv, NEW v \in Vols
    PROVE  /\ Context(v).protocol = attrib[v].protocol
           /\ Context(v).clientID = attrib[v].clientID
           /\ Context(v).wiToken = attrib[v].wiToken
           /\ Context(v).file = attrib[v].file /\ attrib[v].file \in Files
           /\ attrib[v].inline /\ ~useWorkloadIdentity(attrib[v]) /\ ~AllowInlineKeyAccess
                => Context(v).onlySecret /\ ~Context(v).account
<1>1. attrib[v] \in AttribType
  BY DEF Inv, TypeOK
<1>2. /\ attrib[v].file \in Files
      /\ DOMAIN attrib[v] = {"inline", "protocol", "wiToken", "clientID", "keyVault", "secrets",
                             "secretName", "account", "authType", "onlySecret", "file", "suffix"}
  BY <1>1 DEF AttribType
<1> QED
  BY <1>1, <1>2 DEF Context, AttribType

\* Only the fall-back for a secret that cannot be read asks with the cluster's identity,
\* and never for an inline volume that may not have the key.
LEMMA NoClusterKey ==
    ASSUME Inv, NEW v \in Vols, attrib[v].inline, ~AllowInlineKeyAccess,
           ~UsesTokenFile(Context(v)), AuthSource(Context(v)) = "secret"
    PROVE  SecretFallback(Context(v)) # "cluster"
<1>1. Context(v).protocol # "nfs" /\ ~Context(v).clientID
  BY DEF AuthSource
<1>2. ~useWorkloadIdentity(attrib[v])
  BY <1>1, ContextFacts DEF UsesTokenFile, ParseBool, useWorkloadIdentity
<1>3. Context(v).onlySecret
  BY <1>2, ContextFacts
<1> QED
  BY <1>3 DEF SecretFallback

\* The values that AuthSource and SecretFallback have.
LEMMA SourceTypes ==
    ASSUME NEW a
    PROVE  /\ AuthSource(a) \in Sources \ {"cluster"}
           /\ SecretFallback(a) \in Sources \cup {"fail"}
  BY DEF AuthSource, SecretFallback, Sources

\* A failure is counted within its bound.
LEMMA MishapType ==
    ASSUME Inv, Mishap \/ Fine \/ UNCHANGED mishaps
    PROVE  mishaps' \in 0..MaxMishaps
  BY Bounds, Counters DEF Mishap, Fine

\* A call returns.
LEMMA ReturnType ==
    ASSUME Inv, NEW v \in Vols, Return(v)
    PROVE  /\ pc' \in [Vols -> Calls] /\ token' \in [Vols -> 0..MaxSerial]
           /\ mnt' \in [Vols -> BOOLEAN]
           /\ WritesToken'
<1>1. pc' \in [Vols -> Calls] /\ mnt' \in [Vols -> BOOLEAN]
  BY DEF Return, Step, Inv, TypeOK, Calls
<1>2. token' \in [Vols -> 0..MaxSerial]
  BY Bounds, Counters DEF Return
<1>3. WritesToken'
  BY DEF Return, Step, Inv, TypeOK, WritesToken
<1> QED
  BY <1>1, <1>2, <1>3

\* The end of GetAuthEnv, given that its credentials may be had.
LEMMA AfterAuthType ==
    ASSUME Inv, NEW v \in Vols, NEW source, NEW failed \in BOOLEAN,
           AfterAuth(v, source, failed), UNCHANGED attrib,
           ~failed => source \in Sources,
           ~failed /\ source = "cluster" /\ attrib[v].inline => AllowInlineKeyAccess
    PROVE  /\ pc' \in [Vols -> Calls] /\ token' \in [Vols -> 0..MaxSerial]
           /\ mnt' \in [Vols -> BOOLEAN] /\ env' \in [Vols -> Sources]
           /\ WritesToken' /\ InlineKeepsToSecret'
<1>1. CASE (failed \/ mnt[v]) /\ Return(v) /\ UNCHANGED env
  <2>1. env' \in [Vols -> Sources] /\ InlineKeepsToSecret'
    BY <1>1 DEF Inv, TypeOK, InlineKeepsToSecret
  <2> QED
    BY <1>1, <2>1, ReturnType
<1>2. CASE /\ ~failed /\ ~mnt[v]
           /\ env' = [env EXCEPT ![v] = source]
           /\ Step(v, IF isNFSProtocol(attrib[v].protocol) THEN "setenv" ELSE "mount")
           /\ UNCHANGED <<token, mnt>>
  <2>1. env' \in [Vols -> Sources]
    BY <1>2 DEF Inv, TypeOK
  <2>2. InlineKeepsToSecret'
    BY <1>2 DEF Inv, TypeOK, InlineKeepsToSecret
  <2>3. pc' \in [Vols -> Calls] /\ WritesToken'
    BY <1>2 DEF Step, Inv, TypeOK, WritesToken, Calls
  <2> QED
    BY <1>2, <2>1, <2>2, <2>3 DEF Inv, TypeOK
<1> QED
  BY <1>1, <1>2 DEF AfterAuth
-----------------------------------------------------------------------------
\* A call begins.
LEMMA CallVolumeKeepsInv ==
    ASSUME Inv, NEW v \in Vols, CallVolume(v)
    PROVE  Inv'
<1>1. token' \in [Vols -> 0..MaxSerial]
  BY Bounds, Counters DEF CallVolume
<1>2. pc' \in [Vols -> Calls] /\ WritesToken'
  BY DEF CallVolume, Step, Inv, TypeOK, WritesToken, Calls
<1>3. UNCHANGED <<attrib, mnt, env, mount, file, override, seen, serial, running, statsCache, answer, mishaps>>
  BY DEF CallVolume, outside
<1> QED
  BY <1>1, <1>2, <1>3 DEF Inv, TypeOK, InlineKeepsToSecret, Calls

\* A stale mount is taken down, or the call goes on.
LEMMA EnsureKeepsInv ==
    ASSUME Inv, NEW v \in Vols, EnsureMountPoint(v)
    PROVE  Inv'
<1>1. /\ pc' \in [Vols -> Calls] /\ token' \in [Vols -> 0..MaxSerial]
      /\ mnt' \in [Vols -> BOOLEAN] /\ WritesToken'
  <2>1. CASE Return(v)
    BY <2>1, ReturnType
  <2>2. CASE /\ mnt' = [mnt EXCEPT ![v] = mount[v] = "ok"]
             /\ Step(v, "auth")
             /\ UNCHANGED token
    <3>1. mnt' \in [Vols -> BOOLEAN]
      BY <2>2 DEF Inv, TypeOK
    <3>2. pc' \in [Vols -> Calls] /\ WritesToken'
      BY <2>2 DEF Step, Inv, TypeOK, WritesToken, Calls
    <3> QED
      BY <2>2, <3>1, <3>2 DEF Inv, TypeOK
  <2> QED
    BY <2>1, <2>2 DEF EnsureMountPoint
<1>2. mount' \in [Vols -> {"none", "bare", "ok", "broken"}]
  BY DEF EnsureMountPoint, Inv, TypeOK
<1>3. UNCHANGED <<attrib, env, file, override, seen, serial, running, statsCache, answer, mishaps>>
  BY DEF EnsureMountPoint, outside
<1> QED
  BY <1>1, <1>2, <1>3 DEF Inv, TypeOK, InlineKeepsToSecret, Calls

\* GetAuthEnv without a token file.
LEMMA GetAuthEnvKeepsInv ==
    ASSUME Inv, NEW v \in Vols, GetAuthEnv(v)
    PROVE  Inv'
<1>1. UNCHANGED <<attrib, mount, file, override, seen, serial, running, statsCache, answer>>
  BY DEF GetAuthEnv, outside
<1>2. mishaps' \in 0..MaxMishaps
  BY MishapType DEF GetAuthEnv
<1>3. PICK source \in Sources \cup {"fail"}, failed \in BOOLEAN :
        /\ AfterAuth(v, source, failed)
        /\ ~failed => source \in Sources
        /\ ~failed /\ source = "cluster" /\ attrib[v].inline => AllowInlineKeyAccess
  <2> DEFINE a == Context(v)
  <2> DEFINE Good(source, failed) ==
               /\ AfterAuth(v, source, failed)
               /\ ~failed => source \in Sources
               /\ ~failed /\ source = "cluster" /\ attrib[v].inline => AllowInlineKeyAccess
  <2>1. ASSUME NEW failed \in BOOLEAN, AfterAuth(v, AuthSource(a), failed)
        PROVE  Good(AuthSource(a), failed)
    <3>1. AuthSource(a) \in Sources /\ AuthSource(a) # "cluster"
      BY SourceTypes
    <3> QED
      BY <2>1, <3>1
  <2>2. ASSUME AuthSource(a) = "secret", NEW failed \in BOOLEAN,
               SecretFallback(a) = "fail" => failed,
               AfterAuth(v, SecretFallback(a), failed)
        PROVE  Good(SecretFallback(a), failed)
    <3>1. ~UsesTokenFile(a)
      BY DEF GetAuthEnv
    <3> QED
      BY <2>2, <3>1, SourceTypes, NoClusterKey
  <2> HIDE DEF a
  <2>3. \/ \E failed \in BOOLEAN : AfterAuth(v, AuthSource(a), failed)
        \/ /\ AuthSource(a) = "secret"
           /\ \E failed \in BOOLEAN :
                 /\ SecretFallback(a) = "fail" => failed
                 /\ AfterAuth(v, SecretFallback(a), failed)
    BY DEF GetAuthEnv, a
  <2>4. \E source \in Sources \cup {"fail"}, failed \in BOOLEAN : Good(source, failed)
    <3> HIDE DEF Good
    <3> QED
      BY <2>1, <2>2, <2>3, SourceTypes
  <2> QED
    BY <2>4
<1>4. /\ pc' \in [Vols -> Calls] /\ token' \in [Vols -> 0..MaxSerial]
      /\ mnt' \in [Vols -> BOOLEAN] /\ env' \in [Vols -> Sources]
      /\ WritesToken' /\ InlineKeepsToSecret'
  BY <1>1, <1>3, AfterAuthType
<1> QED
  BY <1>1, <1>2, <1>4 DEF Inv, TypeOK, Calls

\* The token file is compared, and opened for writing if need be.
LEMMA CompareTokenKeepsInv ==
    ASSUME Inv, NEW v \in Vols, CompareToken(v)
    PROVE  Inv'
<1>1. UNCHANGED <<attrib, mount, override, seen, serial, running, statsCache, answer, mishaps>>
  BY DEF CompareToken, outside
<1>2. CASE (\E failed \in BOOLEAN : AfterAuth(v, "token", failed)) /\ UNCHANGED file
  <2>1. "token" \in Sources
    BY DEF Sources
  <2>2. /\ pc' \in [Vols -> Calls] /\ token' \in [Vols -> 0..MaxSerial]
        /\ mnt' \in [Vols -> BOOLEAN] /\ env' \in [Vols -> Sources]
        /\ WritesToken' /\ InlineKeepsToSecret'
    BY <1>1, <1>2, <2>1, AfterAuthType
  <2> QED
    BY <1>1, <1>2, <2>2 DEF Inv, TypeOK, Calls
<1>3. CASE /\ token[v] # 0
           /\ file' = [file EXCEPT ![Context(v).file] = NoToken]
           /\ Step(v, "write")
           /\ UNCHANGED <<env, token, mnt>>
  <2>1. file' \in [Files -> Tokens \cup {NoToken}]
    BY <1>3 DEF Inv, TypeOK
  <2>2. pc' \in [Vols -> Calls] /\ WritesToken'
    BY <1>3 DEF Step, Inv, TypeOK, WritesToken, Calls
  <2> QED
    BY <1>1, <1>3, <2>1, <2>2 DEF Inv, TypeOK, InlineKeepsToSecret, Calls
<1> QED
  BY <1>2, <1>3 DEF CompareToken

\* The token is written, or that fails.
LEMMA WriteTokenKeepsInv ==
    ASSUME Inv, NEW v \in Vols, WriteToken(v) \/ WriteTokenFails(v)
    PROVE  Inv'
<1>1. UNCHANGED <<attrib, mount, override, seen, serial, running, statsCache, answer>>
  BY DEF WriteToken, WriteTokenFails, outside
<1>2. mishaps' \in 0..MaxMishaps
  BY MishapType DEF WriteToken, WriteTokenFails
<1>3. \E failed \in BOOLEAN : AfterAuth(v, "token", failed)
  BY DEF WriteToken, WriteTokenFails
<1>4. "token" \in Sources
  BY DEF Sources
<1>5. /\ pc' \in [Vols -> Calls] /\ token' \in [Vols -> 0..MaxSerial]
      /\ mnt' \in [Vols -> BOOLEAN] /\ env' \in [Vols -> Sources]
      /\ WritesToken' /\ InlineKeepsToSecret'
  BY <1>1, <1>3, <1>4, AfterAuthType
<1>6. file' \in [Files -> Tokens \cup {NoToken}]
  <2>1. CASE WriteToken(v)
    <3>1. token[v] \in 1..MaxSerial
      BY <2>1, Bounds, Counters DEF WriteToken, Inv, WritesToken
    <3>2. <<v, token[v]>> \in Tokens
      BY <3>1 DEF Tokens
    <3> QED
      BY <2>1, <3>2 DEF WriteToken, Inv, TypeOK
  <2> QED
    BY <2>1 DEF WriteTokenFails, Inv, TypeOK
<1> QED
  BY <1>1, <1>2, <1>5, <1>6 DEF Inv, TypeOK, Calls

\* The endpoint is set for the whole process, then mount.aznfs or blobfuse runs.
LEMMA MountKeepsInv ==
    ASSUME Inv, NEW v \in Vols, SetEndpointOverride(v) \/ Mount(v)
    PROVE  Inv'
<1>0. attrib[v].suffix \in Suffixes
  BY DEF Inv, TypeOK, AttribType
<1>1. CASE SetEndpointOverride(v)
  <2>1. pc' \in [Vols -> Calls] /\ WritesToken'
    BY <1>1 DEF SetEndpointOverride, Step, Inv, TypeOK, WritesToken, Calls
  <2>2. override' \in Suffixes \cup {""}
    BY <1>0, <1>1 DEF SetEndpointOverride, Inv, TypeOK
  <2>3. UNCHANGED <<attrib, token, mnt, env, mount, file, seen, serial, running, statsCache, answer, mishaps>>
    BY <1>1 DEF SetEndpointOverride, outside
  <2> QED
    BY <2>1, <2>2, <2>3 DEF Inv, TypeOK, InlineKeepsToSecret, Calls
<1>2. CASE Mount(v)
  <2>1. /\ pc' \in [Vols -> Calls] /\ token' \in [Vols -> 0..MaxSerial]
        /\ mnt' \in [Vols -> BOOLEAN] /\ WritesToken'
    BY <1>2, ReturnType DEF Mount
  <2>2. mishaps' \in 0..MaxMishaps
    BY <1>2, MishapType DEF Mount
  <2>3. mount' \in [Vols -> {"none", "bare", "ok", "broken"}]
    BY <1>2 DEF Mount, Inv, TypeOK
  <2>4. seen' \in [Vols -> Suffixes \cup {""}]
    <3>1. override \in Suffixes \cup {""}
      BY DEF Inv, TypeOK
    <3>2. \/ UNCHANGED seen
          \/ \E s \in Suffixes \cup {""} : seen' = [seen EXCEPT ![v] = s]
      BY <1>0, <1>2, <3>1 DEF Mount
    <3> QED
      BY <3>2 DEF Inv, TypeOK
  <2>5. UNCHANGED <<attrib, file, override, serial, running, statsCache, answer>>
    BY <1>2 DEF Mount, outside
  <2>6. env' \in [Vols -> Sources] /\ InlineKeepsToSecret'
    <3>1. UNCHANGED env \/ env' = [env EXCEPT ![v] = "none"]
      BY <1>2 DEF Mount
    <3>2. env' \in [Vols -> Sources]
      BY <3>1 DEF Inv, TypeOK, Sources
    <3>3. \A w \in Vols : env'[w] \in {env[w], "none"}
      BY <3>1 DEF Inv, TypeOK
    <3> QED
      BY <2>5, <3>2, <3>3 DEF Inv, InlineKeepsToSecret
  <2> QED
    BY <2>1, <2>2, <2>3, <2>4, <2>5, <2>6 DEF Inv, TypeOK, Calls
<1> QED
  BY <1>1, <1>2

\* Statistics are answered, cached and forgotten.
LEMMA StatsKeepInv ==
    ASSUME Inv, NEW v \in Vols, NodeGetVolumeStats(v) \/ StatsExpire(v)
    PROVE  Inv'
<1>1. UNCHANGED <<attrib, pc, token, mnt, env, mount, file, override, seen, serial, running, mishaps>>
  BY DEF NodeGetVolumeStats, StatsExpire
<1>2. Statistics(mount[v]) \in {"none", "volume", "disk", "error", "notFound"}
  BY DEF Statistics, Inv, TypeOK
<1>3. /\ statsCache \in [Vols -> {"none", "volume", "disk"}]
      /\ answer \in [Vols -> {"none", "volume", "disk", "error", "notFound"}]
  BY DEF Inv, TypeOK
<1>4. statsCache' \in [Vols -> {"none", "volume", "disk"}]
  <2>1. \/ UNCHANGED statsCache
        \/ \E s \in {"none", "volume", "disk"} : statsCache' = [statsCache EXCEPT ![v] = s]
    BY DEF NodeGetVolumeStats, StatsExpire
  <2> QED
    BY <1>3, <2>1
<1>5. answer' \in [Vols -> {"none", "volume", "disk", "error", "notFound"}]
  <2>1. \/ UNCHANGED answer
        \/ answer' = [answer EXCEPT ![v] = Statistics(mount[v])]
        \/ answer' = [answer EXCEPT ![v] = statsCache[v]]
    BY DEF NodeGetVolumeStats, StatsExpire
  <2> QED
    BY <1>2, <1>3, <2>1
<1> QED
  BY <1>1, <1>4, <1>5 DEF Inv, TypeOK, WritesToken, InlineKeepsToSecret

\* Tokens rotate, pods go, blobfuse dies.
LEMMA OutsideKeepsInv ==
    ASSUME Inv, NEW v \in Vols, TokenRotates(v) \/ PodGoes(v) \/ FuseDies(v)
    PROVE  Inv'
<1>1. CASE TokenRotates(v)
  <2>1. serial' \in [Vols -> 1..MaxSerial]
    BY <1>1, Bounds, Counters DEF TokenRotates
  <2> QED
    BY <1>1, <2>1 DEF TokenRotates, Inv, TypeOK, WritesToken, InlineKeepsToSecret
<1>2. CASE PodGoes(v)
  <2>1. env' = [env EXCEPT ![v] = "none"] /\ UNCHANGED <<attrib, pc, token>>
    BY <1>2 DEF PodGoes
  <2>2. env' \in [Vols -> Sources] /\ InlineKeepsToSecret'
    BY <2>1 DEF Inv, TypeOK, InlineKeepsToSecret, Sources
  <2>3. seen' \in [Vols -> Suffixes \cup {""}]
    BY <1>2 DEF PodGoes, Inv, TypeOK
  <2>4. /\ mount' \in [Vols -> {"none", "bare", "ok", "broken"}]
        /\ answer' \in [Vols -> {"none", "volume", "disk", "error", "notFound"}]
        /\ running' \subseteq Vols
    BY <1>2 DEF PodGoes, Inv, TypeOK
  <2>5. UNCHANGED <<attrib, pc, token, mnt, file, override, serial, statsCache, mishaps>>
    BY <1>2 DEF PodGoes
  <2> QED
    BY <2>2, <2>3, <2>4, <2>5 DEF Inv, TypeOK, WritesToken
<1>3. CASE FuseDies(v)
  <2>1. mishaps' \in 0..MaxMishaps
    BY <1>3, MishapType DEF FuseDies
  <2> QED
    BY <1>3, <2>1 DEF FuseDies, Inv, TypeOK, WritesToken, InlineKeepsToSecret
<1> QED
  BY <1>1, <1>2, <1>3
-----------------------------------------------------------------------------
\* The invariant is inductive.
LEMMA InvStep == Inv /\ [Next]_vars => Inv'
<1> SUFFICES ASSUME Inv, [Next]_vars PROVE Inv'
  OBVIOUS
<1>1. ASSUME NEW v \in Vols, CallStep(v) PROVE Inv'
  BY <1>1, EnsureKeepsInv, GetAuthEnvKeepsInv, CompareTokenKeepsInv, WriteTokenKeepsInv, MountKeepsInv
  DEF CallStep
<1>2. CASE UNCHANGED vars
  BY <1>2 DEF vars, Inv, TypeOK, WritesToken, InlineKeepsToSecret
<1> QED
  BY <1>1, <1>2, CallVolumeKeepsInv, StatsKeepInv, OutsideKeepsInv DEF Next

\* The invariant holds in every state.
LEMMA InvHolds == Spec => []Inv
  BY InvInit, InvStep, PTL DEF Spec

(***************************************************************************)
(* The shared state of the node service keeps its types: among them, what  *)
(* is in a token file is a token of a pod or nothing.                      *)
(***************************************************************************)
THEOREM SharedTypeCorrect == Spec => []TypeOK
  BY InvHolds, PTL DEF Inv

(***************************************************************************)
(* Whatever attributes an inline volume has and whatever requests fail, it *)
(* is not mounted with a key fetched with the identity of the cluster,     *)
(* unless the driver allows that.                                          *)
(***************************************************************************)
THEOREM InlineVolumesKeepToSecret == Spec => []InlineKeepsToSecret
  BY InvHolds, PTL DEF Inv
=============================================================================
