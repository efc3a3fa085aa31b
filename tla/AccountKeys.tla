---------------------------- MODULE AccountKeys ----------------------------
(***************************************************************************)
(* The keys of one storage account as CreateVolume uses them for clones:   *)
(* GetStorageAccesskey takes the key from the request, from a Kubernetes   *)
(* secret (the one that the class names, or else the account's own), or    *)
(* from Azure; getAzcopyAuth turns it into a SAS token that is kept in     *)
(* azcopySasTokenCache under the account's name, whoever the key came      *)
(* from; setAzureCredentials stores the key in the account's own secret.   *)
(* Meanwhile keys are regenerated, the administrator updates the secrets,  *)
(* tokens age and copies take time.  Keys are serial numbers.  Time passes *)
(* in minutes.  Locks, containers and azcopy jobs are in BlobController.   *)
(***************************************************************************)
EXTENDS Integers

CONSTANTS
    Threads,                \* CreateVolume calls at a time
    KindsOf,                \* KindsOf[t]: the kinds of classes that t is called for
    SasTTL,                 \* sasTokenExpirationMinutes
    CacheTTL,               \* lifetime of an entry of azcopySasTokenCache
    CopyTime,               \* bound: minutes from the token to the end of a copy
    Identities,             \* what the driver's identity may be
    GetLatestAccountKey,
    StoreAccountKey,
    MaxKeys,                \* bound: keys that Azure generates
    MaxMishaps              \* bound: failures and restarts

\* Nothing in the driver compares the three times; with the defaults (1440 and
\* 15 minutes) a copy may take 1425 minutes.
ASSUME TimesAssumption ==
    /\ SasTTL \in Nat /\ CacheTTL \in Nat \ {0} /\ CopyTime \in Nat
    /\ CacheTTL + CopyTime <= SasTTL

ASSUME KeysAssumption ==
    /\ MaxKeys \in Nat \ {0, 1}
    /\ MaxMishaps \in Nat
    /\ Identities \subseteq {"none", "noRole", "role"}
    /\ {GetLatestAccountKey, StoreAccountKey} \subseteq BOOLEAN
    /\ KindsOf \in [Threads -> SUBSET {"request", "dataPlane", "named", "plain"}]

VARIABLES
    keys,           \* the two keys of the account
    made,           \* keys generated so far
    identity,       \* the driver's identity: "none", "noRole" or "role" on the data
    secret,         \* keys in the Kubernetes secrets, 0 without a secret
    sasCache,       \* cached token: [key, age], or NoEntry
    pc,             \* next step of a call
    kind,           \* what the class of a call asks for
    key,            \* accountKey of a call, 0 while it is empty
    token,          \* token of a call: [key, left], or NoToken
    elapsed,        \* minutes since the call was given its token
    ok,             \* the last call of a thread succeeded
    mishaps

callVars == <<pc, kind, key, token, elapsed, ok>>
vars == <<keys, made, identity, secret, sasCache, callVars, mishaps>>

NoEntry == [key |-> 0, age |-> CacheTTL]
NoToken == [key |-> 0, left |-> 0]     \* the driver's identity, or not there yet

\* "request": the request has secrets; "dataPlane": useDataPlaneAPI;
\* "named": the class has a secretName; "plain": none of these.
Kinds == {"request", "dataPlane", "named", "plain"}

\* "own": azure-storage-account-<name>-secret; "class": the one that a class
\* names, or that the provisioner puts into the request.
SecretNames == {"own", "class"}

Steps == {"idle", "key", "container", "auth", "sasKey", "lookUp", "sign", "copy",
          "storeKey", "store"}

TypeOK ==
    /\ keys \in [1..2 -> 1..MaxKeys]
    /\ made \in 1..MaxKeys
    /\ identity \in Identities
    /\ secret \in [SecretNames -> 0..MaxKeys]
    /\ sasCache \in [key : 0..MaxKeys, age : 0..CacheTTL]
    /\ pc \in [Threads -> Steps]
    /\ kind \in [Threads -> Kinds]
    /\ key \in [Threads -> 0..MaxKeys]
    /\ token \in [Threads -> [key : 0..MaxKeys, left : 0..SasTTL]]
    /\ elapsed \in [Threads -> 0..CopyTime]
    /\ ok \in [Threads -> BOOLEAN]
    /\ mishaps \in 0..MaxMishaps

Init ==
    /\ keys = [i \in 1..2 |-> i]
    /\ made = 2
    /\ identity \in Identities
    /\ \E k \in {0, 1} : secret = [n \in SecretNames |-> IF n = "own" THEN k ELSE 2]
    /\ sasCache = NoEntry
    /\ pc = [t \in Threads |-> "idle"]
    /\ kind = [t \in Threads |-> "plain"]
    /\ key = [t \in Threads |-> 0]
    /\ token = [t \in Threads |-> NoToken]
    /\ elapsed = [t \in Threads |-> 0]
    /\ ok = [t \in Threads |-> FALSE]
    /\ mishaps = 0
-----------------------------------------------------------------------------
Valid == {keys[1], keys[2]}

\* Azure lists both keys: the first one, or the latest one, is taken.
LatestKey == IF keys[1] < keys[2] THEN keys[2] ELSE keys[1]
ListedKey == IF GetLatestAccountKey THEN LatestKey ELSE keys[1]

Mishap == mishaps < MaxMishaps /\ mishaps' = mishaps + 1

Step(t, to) == pc' = [pc EXCEPT ![t] = to]

Return(t, success) ==
    /\ Step(t, "idle")
    /\ kind' = [kind EXCEPT ![t] = "plain"]
    /\ key' = [key EXCEPT ![t] = 0]
    /\ token' = [token EXCEPT ![t] = NoToken]
    /\ elapsed' = [elapsed EXCEPT ![t] = 0]
    /\ ok' = [ok EXCEPT ![t] = success]

\* From the secret if it is there and can be read, else from Azure.
SecretKey(t) == IF kind[t] = "named" THEN secret["class"] ELSE secret["own"]
GetStorageAccesskey(t, to) ==
    \/ /\ key' = [key EXCEPT ![t] = IF SecretKey(t) # 0 THEN SecretKey(t) ELSE ListedKey]
       /\ Step(t, to)
       /\ UNCHANGED <<kind, token, elapsed, ok, mishaps>>
    \/ /\ Mishap
       /\ \/ /\ key' = [key EXCEPT ![t] = ListedKey]
             /\ Step(t, to)
             /\ UNCHANGED <<kind, token, elapsed, ok>>
          \/ Return(t, FALSE)

\* The key is known early when it is in the request or the account was searched for.
CreateVolume(t, k) ==
    /\ pc[t] = "idle"
    /\ k \in KindsOf[t]
    /\ kind' = [kind EXCEPT ![t] = k]
    /\ \E found \in BOOLEAN :
        key' = [key EXCEPT ![t] =
                  IF k = "request" THEN secret["class"] ELSE IF found THEN ListedKey ELSE 0]
    /\ ok' = [ok EXCEPT ![t] = FALSE]
    /\ Step(t, IF k = "dataPlane" /\ key'[t] = 0 THEN "key" ELSE "container")
    /\ UNCHANGED <<keys, made, identity, secret, sasCache, token, elapsed, mishaps>>

GetDataPlaneKey(t) ==
    /\ pc[t] = "key"
    /\ GetStorageAccesskey(t, "container")
    /\ UNCHANGED <<keys, made, identity, secret, sasCache>>

\* With a key the container is created through the data plane, which checks it.
CreateBlobContainer(t) ==
    /\ pc[t] = "container"
    /\ IF kind[t] \in {"request", "dataPlane"} /\ key[t] \notin Valid
       THEN Return(t, FALSE)
       ELSE Step(t, "auth") /\ UNCHANGED <<kind, key, token, elapsed, ok>>
    /\ UNCHANGED <<keys, made, identity, secret, sasCache, mishaps>>

\* Mutant: an entry counts until it is older than its lifetime.
CachedToTheMinute == sasCache.key # 0 /\ sasCache.age <= CacheTTL
Cached == sasCache.key # 0 /\ sasCache.age < CacheTTL
\* Mutant: the token is thought to live on from when it is found.
CachedTokenLives == [key |-> sasCache.key, left |-> SasTTL + CacheTTL - sasCache.age]
CachedToken == [key |-> sasCache.key, left |-> SasTTL - sasCache.age]

\* A call starts azcopy with a token, or with the identity (NoToken).
StartCopy(t, tok) ==
    /\ token' = [token EXCEPT ![t] = tok]
    /\ elapsed' = [elapsed EXCEPT ![t] = 0]
    /\ Step(t, "copy")
    /\ UNCHANGED <<kind, key, ok>>

\* Without secrets (a data plane class has made its own by now) the cache and the
\* identity are asked first, unless the account is in dataPlaneAPIVolCache: any
\* call for a data plane class puts it there, for 30 days.
getAzcopyAuth(t) ==
    /\ pc[t] = "auth"
    /\ \E useDataPlaneAPI \in BOOLEAN :
        LET asksFirst == kind[t] = "plain" /\ ~useDataPlaneAPI
        IN  \/ /\ asksFirst /\ Cached
               /\ StartCopy(t, CachedToken)
            \/ /\ asksFirst /\ ~Cached /\ identity # "none"
               /\ StartCopy(t, NoToken)
            \/ /\ asksFirst => ~Cached /\ identity = "none"
               /\ Step(t, IF key[t] = 0 THEN "sasKey" ELSE "lookUp")
               /\ UNCHANGED <<kind, key, token, elapsed, ok>>
    /\ UNCHANGED <<keys, made, identity, secret, sasCache, mishaps>>

GetSasKey(t) ==
    /\ pc[t] = "sasKey"
    /\ GetStorageAccesskey(t, "lookUp")
    /\ UNCHANGED <<keys, made, identity, secret, sasCache>>

\* generateSASToken: an entry of the cache is used, whatever key it is made with.
LookUpSasToken(t) ==
    /\ pc[t] = "lookUp"
    /\ IF Cached THEN StartCopy(t, CachedToken)
       ELSE Step(t, "sign") /\ UNCHANGED <<kind, key, token, elapsed, ok>>
    /\ UNCHANGED <<keys, made, identity, secret, sasCache, mishaps>>

\* A token is signed, without a check of the key, and cached.
generateSASToken(t) ==
    /\ pc[t] = "sign"
    /\ sasCache' = [key |-> key[t], age |-> 0]
    /\ StartCopy(t, [key |-> key[t], left |-> SasTTL])
    /\ UNCHANGED <<keys, made, identity, secret, mishaps>>

Authorised(t) ==
    IF token[t].key = 0 THEN identity = "role"
    ELSE token[t].key \in Valid /\ token[t].left > 0

CopySucceeds(t) ==
    /\ pc[t] = "copy"
    /\ Authorised(t)
    /\ IF StoreAccountKey /\ kind[t] # "request"
       THEN /\ Step(t, IF key[t] = 0 THEN "storeKey" ELSE "store")
            /\ token' = [token EXCEPT ![t] = NoToken]
            /\ elapsed' = [elapsed EXCEPT ![t] = 0]
            /\ UNCHANGED <<kind, key, ok>>
       ELSE Return(t, TRUE)
    /\ UNCHANGED <<keys, made, identity, secret, sasCache, mishaps>>

\* Mutant: an identity without a role is an error.
NoFallback(t) ==
    /\ pc[t] = "copy"
    /\ token[t].key = 0 /\ identity = "noRole"
    /\ Return(t, FALSE)
    /\ UNCHANGED <<keys, made, identity, secret, sasCache, mishaps>>

\* AuthorizationPermissionMismatch: the call goes on with a SAS token.
FallbackToSasToken(t) ==
    /\ pc[t] = "copy"
    /\ token[t].key = 0 /\ identity = "noRole"
    /\ Step(t, IF key[t] = 0 THEN "sasKey" ELSE "lookUp")
    /\ elapsed' = [elapsed EXCEPT ![t] = 0]
    /\ UNCHANGED <<keys, made, identity, secret, sasCache, kind, key, token, ok, mishaps>>

CopyFails(t) ==
    /\ pc[t] = "copy"
    /\ \/ token[t].key # 0 /\ ~Authorised(t) /\ UNCHANGED mishaps
       \/ Mishap
    /\ Return(t, FALSE)
    /\ UNCHANGED <<keys, made, identity, secret, sasCache>>

GetKeyToStore(t) ==
    /\ pc[t] = "storeKey"
    /\ GetStorageAccesskey(t, "store")
    /\ UNCHANGED <<keys, made, identity, secret, sasCache>>

\* Mutant: a secret that exists is updated.
OverwriteCredentials(t) ==
    /\ pc[t] = "store"
    /\ secret' = [secret EXCEPT !["own"] = key[t]]
    /\ Return(t, TRUE)
    /\ UNCHANGED <<keys, made, identity, sasCache, mishaps>>

\* The secret is created; one that exists already is left as it is.
setAzureCredentials(t) ==
    /\ pc[t] = "store"
    /\ secret' = [secret EXCEPT !["own"] = IF @ = 0 THEN key[t] ELSE @]
    /\ Return(t, TRUE)
    /\ UNCHANGED <<keys, made, identity, sasCache, mishaps>>
-----------------------------------------------------------------------------
RotateKey(i) ==
    /\ made < MaxKeys
    /\ made' = made + 1
    /\ keys' = [keys EXCEPT ![i] = made + 1]
    /\ UNCHANGED <<identity, secret, sasCache, callVars, mishaps>>

\* The administrator puts the latest key into a secret, as the docs ask for.
UpdateSecret(n) ==
    /\ secret[n] # 0
    /\ secret' = [secret EXCEPT ![n] = LatestKey]
    /\ UNCHANGED <<keys, made, identity, sasCache, callVars, mishaps>>

\* A minute passes; azcopy does not take longer than CopyTime.
Tick ==
    /\ \A t \in Threads : pc[t] = "copy" => elapsed[t] < CopyTime
    /\ sasCache' = IF sasCache.age < CacheTTL THEN [sasCache EXCEPT !.age = @ + 1] ELSE sasCache
    /\ token' = [t \in Threads |-> [token[t] EXCEPT !.left = IF @ > 0 THEN @ - 1 ELSE 0]]
    /\ elapsed' = [t \in Threads |-> IF pc[t] = "copy" THEN elapsed[t] + 1 ELSE elapsed[t]]
    /\ UNCHANGED <<keys, made, identity, secret, pc, kind, key, ok, mishaps>>

\* The controller restarts: calls and caches are gone, keys and secrets are not.
Restart ==
    /\ Mishap
    /\ sasCache' = NoEntry
    /\ pc' = [t \in Threads |-> "idle"]
    /\ kind' = [t \in Threads |-> "plain"]
    /\ key' = [t \in Threads |-> 0]
    /\ token' = [t \in Threads |-> NoToken]
    /\ elapsed' = [t \in Threads |-> 0]
    /\ ok' = [t \in Threads |-> FALSE]
    /\ UNCHANGED <<keys, made, identity, secret>>

Work(t) ==
    \/ GetDataPlaneKey(t) \/ CreateBlobContainer(t) \/ getAzcopyAuth(t)
    \/ GetSasKey(t) \/ LookUpSasToken(t) \/ generateSASToken(t)
    \/ CopySucceeds(t) \/ FallbackToSasToken(t) \/ CopyFails(t)
    \/ GetKeyToStore(t) \/ setAzureCredentials(t)

Next ==
    \/ \E t \in Threads, k \in Kinds : CreateVolume(t, k)
    \/ \E t \in Threads : Work(t)
    \/ \E i \in 1..2 : RotateKey(i)
    \/ \E n \in SecretNames : UpdateSecret(n)
    \/ Tick \/ Restart

(***************************************************************************)
(* A call that can go on does, the provisioner asks again, time passes.    *)
(* The administrator and Azure owe nothing.                                *)
(***************************************************************************)
Fairness ==
    /\ \A t \in Threads :
        /\ WF_vars(Work(t))
        /\ WF_vars(\E k \in Kinds : CreateVolume(t, k))
    /\ WF_vars(Tick)

Spec == Init /\ [][Next]_vars /\ Fairness
-----------------------------------------------------------------------------
(***************************************************************************)
(* The token of a copy does not run out under it: a token that is handed   *)
(* out from azcopySasTokenCache may be almost CacheTTL minutes old and     *)
(* still lasts CopyTime minutes, to the minute.                            *)
(***************************************************************************)
TokenOutlivesCopy ==
    \A t \in Threads : pc[t] = "copy" /\ token[t].key # 0 => token[t].left > 0

(***************************************************************************)
(* A call that got its key before the key was regenerated cannot undo the  *)
(* administrator's update of a secret, however late it stores the key:     *)
(* the key in a secret is only ever replaced by a newer one.               *)
(***************************************************************************)
SecretNeverGoesBack ==
    [][\A n \in SecretNames : secret[n] # 0 => secret'[n] >= secret[n]]_vars

(***************************************************************************)
(* Once each secret holds a key that works (or there is none), clones      *)
(* succeed again: tokens made with a dead key, for whichever class, and    *)
(* keys that slow calls still hold leave the cache in the end, and no      *)
(* class is left behind with an old token or an identity without a role.   *)
(***************************************************************************)
ClonesRecover ==
    <>[](\A n \in SecretNames : secret[n] \in Valid \cup {0})
        => \A t \in Threads : []<>(ok[t])
=============================================================================
