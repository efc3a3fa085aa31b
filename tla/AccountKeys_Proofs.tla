------------------------- MODULE AccountKeys_Proofs -------------------------
(***************************************************************************)
(* Proofs about AccountKeys, for any number of calls and keys and for any  *)
(* lifetimes that TimesAssumption admits: types, that the token of a copy  *)
(* never runs out under it, and that the key in a secret never gets older. *)
(***************************************************************************)
EXTENDS AccountKeys, TLAPS

\* What is left of a token and what the copy has used of its time: together
\* they stay above the time that a copy may take.
TokenLasts ==
    \A t \in Threads :
        pc[t] = "copy" /\ token[t].key # 0 => token[t].left + elapsed[t] > CopyTime

\* The latest key of the account is the last one made, and no other is newer.
KeysInOrder ==
    /\ keys[1] <= made /\ keys[2] <= made
    /\ keys[1] = made \/ keys[2] = made
    /\ \A n \in SecretNames : secret[n] <= made
    /\ \A t \in Threads : key[t] <= made

Inv == TypeOK /\ TokenLasts /\ KeysInOrder

\* Any key of the account is one that was made.
LEMMA KeysMade ==
    ASSUME TypeOK, KeysInOrder
    PROVE  /\ ListedKey \in 1..MaxKeys /\ ListedKey <= made
           /\ LatestKey = made
  <1>1. /\ keys[1] \in 1..MaxKeys /\ keys[2] \in 1..MaxKeys /\ made \in 1..MaxKeys
        /\ MaxKeys \in Nat
    BY KeysAssumption DEF TypeOK
  <1>2. /\ keys[1] <= made /\ keys[2] <= made
        /\ keys[1] = made \/ keys[2] = made
    BY DEF KeysInOrder
  <1>3. LatestKey = made
    BY <1>1, <1>2 DEF LatestKey
  <1> QED
    BY <1>1, <1>2, <1>3 DEF ListedKey

\* In the first state.
LEMMA InvInit == Init => Inv
  <1> SUFFICES ASSUME Init PROVE Inv
    OBVIOUS
  <1>1. TypeOK
    BY KeysAssumption, TimesAssumption
    DEF Init, TypeOK, NoEntry, NoToken, Steps, Kinds, SecretNames
  <1>2. TokenLasts /\ KeysInOrder
    BY DEF Init, TokenLasts, KeysInOrder, NoToken, SecretNames
  <1> QED
    BY <1>1, <1>2 DEF Inv

\* A call returns: its variables are reset, the others are left alone.
LEMMA ReturnKeepsInv ==
    ASSUME Inv, NEW t \in Threads, NEW success \in BOOLEAN, Return(t, success),
           UNCHANGED <<keys, made, identity, sasCache>>,
           mishaps' \in 0..MaxMishaps,
           secret' \in [SecretNames -> 0..MaxKeys],
           \A n \in SecretNames : secret'[n] <= made
    PROVE  Inv'
  <1>1. TypeOK'
    BY TimesAssumption, KeysAssumption DEF Inv, TypeOK, Return, Step, NoToken, Steps, Kinds
  <1>2. TokenLasts'
    BY DEF Inv, TypeOK, TokenLasts, Return, Step, NoToken
  <1>3. KeysInOrder'
    BY KeysAssumption DEF Inv, TypeOK, KeysInOrder, Return
  <1> QED
    BY <1>1, <1>2, <1>3 DEF Inv

\* A call goes on to a step before or after the copy.
LEMMA StepKeepsInv ==
    ASSUME Inv, NEW t \in Threads, NEW to \in Steps \ {"copy"}, Step(t, to),
           key' = key \/ \E k \in 1..MaxKeys : k <= made /\ key' = [key EXCEPT ![t] = k],
           token' \in {token, [token EXCEPT ![t] = NoToken]},
           elapsed' \in {elapsed, [elapsed EXCEPT ![t] = 0]},
           elapsed' # elapsed => pc'[t] # "copy",
           UNCHANGED <<keys, made, identity, secret, sasCache, kind, ok>>,
           mishaps' \in 0..MaxMishaps
    PROVE  Inv'
  <1>1. TypeOK'
    <2>1. key' \in [Threads -> 0..MaxKeys]
      BY KeysAssumption DEF Inv, TypeOK
    <2>2. token' \in [Threads -> [key : 0..MaxKeys, left : 0..SasTTL]]
      <3>1. NoToken \in [key : 0..MaxKeys, left : 0..SasTTL]
        BY TimesAssumption, KeysAssumption DEF NoToken
      <3> QED
        BY <3>1 DEF Inv, TypeOK
    <2>3. elapsed' \in [Threads -> 0..CopyTime]
      BY TimesAssumption DEF Inv, TypeOK
    <2>4. pc' \in [Threads -> Steps]
      BY DEF Inv, TypeOK, Step
    <2> QED
      BY <2>1, <2>2, <2>3, <2>4 DEF Inv, TypeOK
  <1>2. TokenLasts'
    BY DEF Inv, TypeOK, TokenLasts, Step, NoToken
  <1>3. KeysInOrder'
    BY KeysAssumption DEF Inv, TypeOK, KeysInOrder
  <1> QED
    BY <1>1, <1>2, <1>3 DEF Inv

\* A copy starts with the identity, or with a token that lasts for it.
LEMMA StartKeepsInv ==
    ASSUME Inv, NEW t \in Threads,
           NEW tok \in [key : 0..MaxKeys, left : 0..SasTTL],
           tok.key # 0 => tok.left > CopyTime,
           StartCopy(t, tok),
           sasCache' \in [key : 0..MaxKeys, age : 0..CacheTTL],
           UNCHANGED <<keys, made, identity, secret, mishaps>>
    PROVE  Inv'
  <1>1. TypeOK'
    BY TimesAssumption, KeysAssumption DEF Inv, TypeOK, StartCopy, Step, Steps
  <1>2. TokenLasts'
    BY TimesAssumption DEF Inv, TypeOK, TokenLasts, StartCopy, Step
  <1>3. KeysInOrder'
    BY DEF Inv, TypeOK, KeysInOrder, StartCopy
  <1> QED
    BY <1>1, <1>2, <1>3 DEF Inv

\* A token from the cache lasts for a copy: its entry is younger than CacheTTL.
LEMMA CachedTokenLasts ==
    ASSUME TypeOK, Cached
    PROVE  /\ CachedToken \in [key : 0..MaxKeys, left : 0..SasTTL]
           /\ CachedToken.left > CopyTime
  BY TimesAssumption, KeysAssumption DEF TypeOK, Cached, CachedToken

\* A key is got, from wherever, or the call fails.
LEMMA GetKeyKeepsInv ==
    ASSUME Inv, NEW t \in Threads, NEW to \in Steps \ {"copy"},
           GetStorageAccesskey(t, to),
           UNCHANGED <<keys, made, identity, secret, sasCache>>
    PROVE  Inv'
  <1>0. mishaps' \in 0..MaxMishaps
    <2>1. mishaps' = mishaps \/ (mishaps < MaxMishaps /\ mishaps' = mishaps + 1)
      BY DEF GetStorageAccesskey, Mishap
    <2>2. mishaps \in 0..MaxMishaps /\ MaxMishaps \in Nat
      BY KeysAssumption DEF Inv, TypeOK
    <2> QED
      BY <2>1, <2>2
  <1>1. CASE Return(t, FALSE)
    <2>1. secret' \in [SecretNames -> 0..MaxKeys] /\ \A n \in SecretNames : secret'[n] <= made
      BY DEF Inv, TypeOK, KeysInOrder
    <2> QED
      BY <1>0, <1>1, <2>1, ReturnKeepsInv
  <1>2. CASE /\ key' = [key EXCEPT ![t] = IF SecretKey(t) # 0 THEN SecretKey(t) ELSE ListedKey]
             /\ Step(t, to) /\ UNCHANGED <<kind, token, elapsed, ok>>
             /\ mishaps' \in 0..MaxMishaps
    <2>0. SecretKey(t) \in 0..MaxKeys /\ SecretKey(t) <= made
      BY DEF SecretKey, SecretNames, Inv, TypeOK, KeysInOrder
    <2>1. (IF SecretKey(t) # 0 THEN SecretKey(t) ELSE ListedKey) \in 1..MaxKeys
      BY <2>0, KeysMade, KeysAssumption DEF Inv
    <2>2. (IF SecretKey(t) # 0 THEN SecretKey(t) ELSE ListedKey) <= made
      BY <2>0, KeysMade DEF Inv
    <2> QED
      BY <1>2, <2>1, <2>2, StepKeepsInv
  <1>3. CASE /\ key' = [key EXCEPT ![t] = ListedKey]
             /\ Step(t, to) /\ UNCHANGED <<kind, token, elapsed, ok>>
             /\ mishaps' \in 0..MaxMishaps
    BY <1>3, KeysMade, StepKeepsInv DEF Inv
  <1> QED
    BY <1>0, <1>1, <1>2, <1>3 DEF GetStorageAccesskey

\* Every step of a call.
LEMMA WorkKeepsInv ==
    ASSUME Inv, NEW t \in Threads, Work(t)
    PROVE  Inv'
  <1> USE DEF Inv
  <1>0. /\ mishaps \in 0..MaxMishaps
        /\ secret \in [SecretNames -> 0..MaxKeys]
        /\ \A n \in SecretNames : secret[n] <= made
    BY DEF TypeOK, KeysInOrder
  <1>1. CASE GetDataPlaneKey(t)
    BY <1>1, GetKeyKeepsInv DEF GetDataPlaneKey, Steps
  <1>2. CASE CreateBlobContainer(t)
    <2>1. CASE Return(t, FALSE)
      BY <1>0, <1>2, <2>1, ReturnKeepsInv DEF CreateBlobContainer
    <2>2. CASE Step(t, "auth") /\ UNCHANGED <<kind, key, token, elapsed, ok>>
      BY <1>0, <1>2, <2>2, StepKeepsInv DEF CreateBlobContainer, Steps
    <2> QED
      BY <1>2, <2>1, <2>2 DEF CreateBlobContainer
  <1>3. CASE getAzcopyAuth(t)
    <2>1. CASE Cached /\ StartCopy(t, CachedToken)
      BY <1>3, <2>1, CachedTokenLasts, StartKeepsInv DEF getAzcopyAuth, TypeOK
    <2>2. CASE StartCopy(t, NoToken)
      <3>1. NoToken \in [key : 0..MaxKeys, left : 0..SasTTL] /\ NoToken.key = 0
        BY TimesAssumption, KeysAssumption DEF NoToken
      <3> QED
        BY <1>3, <2>2, <3>1, StartKeepsInv DEF getAzcopyAuth, TypeOK
    <2>3. CASE /\ Step(t, IF key[t] = 0 THEN "sasKey" ELSE "lookUp")
               /\ UNCHANGED <<kind, key, token, elapsed, ok>>
      <3>1. (IF key[t] = 0 THEN "sasKey" ELSE "lookUp") \in Steps \ {"copy"}
        BY DEF Steps
      <3> QED
        BY <1>0, <1>3, <2>3, <3>1, StepKeepsInv DEF getAzcopyAuth
    <2> QED
      BY <1>3, <2>1, <2>2, <2>3 DEF getAzcopyAuth
  <1>4. CASE GetSasKey(t)
    BY <1>4, GetKeyKeepsInv DEF GetSasKey, Steps
  <1>5. CASE LookUpSasToken(t)
    <2>1. CASE Cached
      BY <1>5, <2>1, CachedTokenLasts, StartKeepsInv DEF LookUpSasToken, TypeOK
    <2>2. CASE ~Cached
      BY <1>0, <1>5, <2>2, StepKeepsInv DEF LookUpSasToken, Steps
    <2> QED
      BY <2>1, <2>2
  <1>6. CASE generateSASToken(t)
    <2>1. [key |-> key[t], left |-> SasTTL] \in [key : 0..MaxKeys, left : 0..SasTTL]
      BY TimesAssumption DEF TypeOK
    <2>2. sasCache' \in [key : 0..MaxKeys, age : 0..CacheTTL]
      BY <1>6, TimesAssumption DEF generateSASToken, TypeOK
    <2>3. SasTTL > CopyTime
      BY TimesAssumption
    <2> QED
      BY <1>6, <2>1, <2>2, <2>3, StartKeepsInv DEF generateSASToken
  <1>7. CASE CopySucceeds(t)
    <2>1. CASE Return(t, TRUE)
      BY <1>0, <1>7, <2>1, ReturnKeepsInv DEF CopySucceeds
    <2>2. CASE /\ Step(t, IF key[t] = 0 THEN "storeKey" ELSE "store")
               /\ token' = [token EXCEPT ![t] = NoToken]
               /\ elapsed' = [elapsed EXCEPT ![t] = 0]
               /\ UNCHANGED <<kind, key, ok>>
      <3>1. (IF key[t] = 0 THEN "storeKey" ELSE "store") \in Steps \ {"copy"}
        BY DEF Steps
      <3>2. pc'[t] # "copy"
        BY <2>2, <3>1 DEF Step, TypeOK
      <3> QED
        BY <1>0, <1>7, <2>2, <3>1, <3>2, StepKeepsInv DEF CopySucceeds
    <2> QED
      BY <1>7, <2>1, <2>2 DEF CopySucceeds
  <1>8. CASE FallbackToSasToken(t)
    <2>1. (IF key[t] = 0 THEN "sasKey" ELSE "lookUp") \in Steps \ {"copy"}
      BY DEF Steps
    <2>2. pc'[t] # "copy"
      BY <1>8, <2>1 DEF FallbackToSasToken, Step, TypeOK
    <2> QED
      BY <1>0, <1>8, <2>1, <2>2, StepKeepsInv DEF FallbackToSasToken
  <1>9. CASE CopyFails(t)
    <2>1. mishaps' \in 0..MaxMishaps
      BY <1>0, <1>9, KeysAssumption DEF CopyFails, Mishap
    <2> QED
      BY <1>0, <1>9, <2>1, ReturnKeepsInv DEF CopyFails
  <1>10. CASE GetKeyToStore(t)
    BY <1>10, GetKeyKeepsInv DEF GetKeyToStore, Steps
  <1>11. CASE setAzureCredentials(t)
    <2>1. secret' \in [SecretNames -> 0..MaxKeys] /\ \A n \in SecretNames : secret'[n] <= made
      BY <1>0, <1>11 DEF setAzureCredentials, TypeOK, KeysInOrder
    <2> QED
      BY <1>0, <1>11, <2>1, ReturnKeepsInv DEF setAzureCredentials
  <1> QED
    BY <1>1, <1>2, <1>3, <1>4, <1>5, <1>6, <1>7, <1>8, <1>9, <1>10, <1>11 DEF Work

\* A new call.
LEMMA CreateVolumeKeepsInv ==
    ASSUME Inv, NEW t \in Threads, NEW k \in Kinds, CreateVolume(t, k)
    PROVE  Inv'
  <1>1. key' \in [Threads -> 0..MaxKeys] /\ \A u \in Threads : key'[u] <= made
    <2>1. PICK found \in BOOLEAN :
            key' = [key EXCEPT ![t] = IF k = "request" THEN secret["class"]
                                      ELSE IF found THEN ListedKey ELSE 0]
      BY DEF CreateVolume
    <2>2. (IF k = "request" THEN secret["class"] ELSE IF found THEN ListedKey ELSE 0) \in 0..MaxKeys
      BY KeysMade, KeysAssumption DEF Inv, TypeOK, SecretNames
    <2>3. (IF k = "request" THEN secret["class"] ELSE IF found THEN ListedKey ELSE 0) <= made
      BY KeysMade, KeysAssumption DEF Inv, TypeOK, KeysInOrder, SecretNames
    <2> QED
      BY <2>1, <2>2, <2>3 DEF Inv, TypeOK, KeysInOrder
  <1>2. pc' \in [Threads -> Steps] /\ pc'[t] # "copy" /\ \A u \in Threads \ {t} : pc'[u] = pc[u]
    BY DEF CreateVolume, Step, Inv, TypeOK, Steps
  <1>3. TypeOK'
    BY <1>1, <1>2 DEF CreateVolume, Inv, TypeOK, Kinds
  <1>4. TokenLasts'
    BY <1>2 DEF CreateVolume, Inv, TokenLasts
  <1>5. KeysInOrder'
    BY <1>1 DEF CreateVolume, Inv, KeysInOrder
  <1> QED
    BY <1>3, <1>4, <1>5 DEF Inv

\* A minute passes: a token that a copy uses loses what the copy gains.
LEMMA TickKeepsInv ==
    ASSUME Inv, Tick
    PROVE  Inv'
  <1>1. TypeOK'
    <2>1. sasCache' \in [key : 0..MaxKeys, age : 0..CacheTTL]
      BY TimesAssumption DEF Tick, Inv, TypeOK
    <2>2. token' \in [Threads -> [key : 0..MaxKeys, left : 0..SasTTL]]
      BY TimesAssumption DEF Tick, Inv, TypeOK
    <2>3. elapsed' \in [Threads -> 0..CopyTime]
      BY TimesAssumption DEF Tick, Inv, TypeOK
    <2> QED
      BY <2>1, <2>2, <2>3 DEF Tick, Inv, TypeOK
  <1>2. TokenLasts'
    <2> SUFFICES ASSUME NEW t \in Threads, pc'[t] = "copy", token'[t].key # 0
                 PROVE  token'[t].left + elapsed'[t] > CopyTime
      BY DEF TokenLasts
    <2>1. /\ token[t].key # 0 /\ pc[t] = "copy"
          /\ token'[t].left = IF token[t].left > 0 THEN token[t].left - 1 ELSE 0
          /\ elapsed'[t] = elapsed[t] + 1
          /\ elapsed[t] < CopyTime
      BY DEF Tick, Inv, TypeOK
    <2>2. token[t].left + elapsed[t] > CopyTime
      BY <2>1 DEF Inv, TokenLasts
    <2>3. token[t].left \in Nat /\ elapsed[t] \in Nat /\ CopyTime \in Nat
      BY TimesAssumption DEF Inv, TypeOK
    <2> QED
      BY <2>1, <2>2, <2>3
  <1>3. KeysInOrder'
    BY DEF Tick, Inv, KeysInOrder
  <1> QED
    BY <1>1, <1>2, <1>3 DEF Inv

\* Azure, the administrator and a restart.
LEMMA OutsideKeepsInv ==
    ASSUME Inv, (\E i \in 1..2 : RotateKey(i)) \/ (\E n \in SecretNames : UpdateSecret(n)) \/ Restart
    PROVE  Inv'
  <1>1. ASSUME NEW i \in 1..2, RotateKey(i) PROVE Inv'
    <2>1. TypeOK'
      BY <1>1, KeysAssumption DEF RotateKey, Inv, TypeOK, callVars
    <2>2. TokenLasts'
      BY <1>1 DEF RotateKey, Inv, TokenLasts, callVars
    <2>3. KeysInOrder'
      BY <1>1, KeysAssumption DEF RotateKey, Inv, TypeOK, KeysInOrder, callVars
    <2> QED
      BY <2>1, <2>2, <2>3 DEF Inv
  <1>2. ASSUME NEW n \in SecretNames, UpdateSecret(n) PROVE Inv'
    <2>1. secret' = [secret EXCEPT ![n] = made]
      BY <1>2, KeysMade DEF UpdateSecret, Inv
    <2>2. TypeOK'
      BY <1>2, <2>1, KeysAssumption DEF UpdateSecret, Inv, TypeOK, callVars
    <2>3. TokenLasts' /\ KeysInOrder'
      BY <1>2, <2>1 DEF UpdateSecret, Inv, TypeOK, TokenLasts, KeysInOrder, callVars
    <2> QED
      BY <2>2, <2>3 DEF Inv
  <1>3. CASE Restart
    <2>1. TypeOK'
      BY <1>3, KeysAssumption, TimesAssumption
      DEF Restart, Mishap, Inv, TypeOK, NoEntry, NoToken, Steps, Kinds
    <2>2. TokenLasts' /\ KeysInOrder'
      BY <1>3 DEF Restart, Inv, TypeOK, TokenLasts, KeysInOrder, NoToken
    <2> QED
      BY <2>1, <2>2 DEF Inv
  <1> QED
    BY <1>1, <1>2, <1>3

\* Every step keeps the invariant.
LEMMA InvStep == Inv /\ [Next]_vars => Inv'
  <1> SUFFICES ASSUME Inv, [Next]_vars PROVE Inv'
    OBVIOUS
  <1>1. CASE UNCHANGED vars
    BY <1>1 DEF vars, callVars, Inv, TypeOK, TokenLasts, KeysInOrder
  <1>2. CASE Next
    BY <1>2, CreateVolumeKeepsInv, WorkKeepsInv, OutsideKeepsInv, TickKeepsInv DEF Next
  <1> QED
    BY <1>1, <1>2

\* The invariant holds always.
THEOREM Invariance == Spec => []Inv
  BY InvInit, InvStep, PTL DEF Spec

(***************************************************************************)
(* The state of AccountKeys keeps its types: tokens and cache entries stay *)
(* within their lifetimes and copies within theirs.                        *)
(***************************************************************************)
THEOREM TypeCorrect == Spec => []TypeOK
  <1>1. Inv => TypeOK
    BY DEF Inv
  <1> QED
    BY <1>1, Invariance, PTL

(***************************************************************************)
(* No token runs out under a copy, for all lifetimes with CacheTTL +       *)
(* CopyTime <= SasTTL, wherever getAzcopyAuth or generateSASToken took it. *)
(***************************************************************************)
THEOREM TokensOutliveCopies == Spec => []TokenOutlivesCopy
  <1>1. Inv => TokenOutlivesCopy
    BY TimesAssumption DEF Inv, TypeOK, TokenLasts, TokenOutlivesCopy
  <1> QED
    BY <1>1, Invariance, PTL

(***************************************************************************)
(* The key in a secret is never replaced by an older one, however long a   *)
(* call held its key before setAzureCredentials.                           *)
(***************************************************************************)
THEOREM SecretsDoNotGoBack == Spec => SecretNeverGoesBack
  <1> DEFINE NotOlder == \A n \in SecretNames : secret[n] # 0 => secret'[n] >= secret[n]
  <1>1. ASSUME Inv, [Next]_vars PROVE [NotOlder]_vars
    <2>0. secret \in [SecretNames -> 0..MaxKeys]
      BY <1>1 DEF Inv, TypeOK
    <2>1. CASE UNCHANGED secret
      BY <2>0, <2>1
    <2>2. ASSUME NEW n \in SecretNames, UpdateSecret(n) PROVE NotOlder
      <3>1. secret' = [secret EXCEPT ![n] = made]
        BY <1>1, <2>2, KeysMade DEF UpdateSecret, Inv
      <3> QED
        BY <1>1, <2>0, <3>1, KeysAssumption DEF Inv, TypeOK, KeysInOrder
    <2>3. ASSUME NEW t \in Threads, setAzureCredentials(t) PROVE NotOlder
      BY <2>0, <2>3 DEF setAzureCredentials
    <2>4. CASE /\ Next
               /\ \A n \in SecretNames : ~UpdateSecret(n)
               /\ \A t \in Threads : ~setAzureCredentials(t)
      <3>1. ASSUME NEW t \in Threads, Work(t) PROVE UNCHANGED secret
        BY <2>4, <3>1 DEF Work, GetDataPlaneKey, CreateBlobContainer, getAzcopyAuth,
           GetSasKey, LookUpSasToken, generateSASToken, CopySucceeds,
           FallbackToSasToken, CopyFails, GetKeyToStore
      <3>2. ASSUME NEW t \in Threads, NEW k \in Kinds, CreateVolume(t, k) PROVE UNCHANGED secret
        BY <3>2 DEF CreateVolume
      <3>3. (\E i \in 1..2 : RotateKey(i)) \/ Tick \/ Restart => UNCHANGED secret
        BY DEF RotateKey, Tick, Restart
      <3> QED
        BY <2>1, <2>4, <3>1, <3>2, <3>3 DEF Next
    <2> QED
      BY <1>1, <2>1, <2>2, <2>3, <2>4 DEF vars
  <1> QED
    BY <1>1, Invariance, PTL DEF Spec, SecretNeverGoesBack
=============================================================================
