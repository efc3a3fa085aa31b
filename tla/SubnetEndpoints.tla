--------------------------- MODULE SubnetEndpoints ---------------------------
(***************************************************************************)
(* updateSubnetServiceEndpoints, which CreateVolume calls for an NFS       *)
(* volume: the service endpoint of Azure Storage is added to the subnets   *)
(* that a storage class names, so that its account can admit them.  The    *)
(* call looks into subnetCache, takes the entry of subnetLockMap, reads    *)
(* all the subnets and then writes back those without the endpoint.  The   *)
(* key of cache and lock is the text of the parameter ("a", "a,b", or ""   *)
(* for every subnet), so two keys can mean one subnet.  Others write these *)
(* subnets too.                                                            *)
(***************************************************************************)
EXTENDS LockMap, Sequences, SequencesExt

CONSTANTS
    Subnets,        \* subnets of the virtual network
    Named,          \* Named[k]: the subnets that key k lists, <<>> for every one
    MaxMishaps      \* bound: failed requests and writes of others

ASSUME SubnetsAssumption ==
    /\ IsFiniteSet(Subnets)
    /\ Named \in [Keys -> Seq(Subnets)]
    /\ MaxMishaps \in Nat

VARIABLES
    served,         \* subnets that have the storage endpoint, in Azure
    subnetCache,    \* resource IDs by key, or None
    read,           \* subnets a call has read, in order: [name, served]
    done,           \* how many of them the call has gone through
    foreign,        \* another writer's copy of a subnet, or None
    overwritten,    \* subnets that lost the endpoint to another writer's copy
    mishaps         \* number of failed requests and writes of others

callVars == <<read, done>>
foreignVars == <<foreign, overwritten>>
vars == <<lockVars, served, subnetCache, callVars, foreignVars, mishaps>>

Copies == [name : Subnets, served : BOOLEAN]

TypeOK ==
    /\ LockTypeOK
    /\ served \subseteq Subnets
    /\ subnetCache \in [Keys -> (SUBSET Subnets) \cup {None}]
    /\ read \in [Threads -> Seq(Copies)]
    /\ done \in [Threads -> Nat] /\ \A t \in Threads : done[t] <= Len(read[t])
    /\ foreign \in Copies \cup {None}
    /\ overwritten \subseteq Subnets
    /\ mishaps \in 0..MaxMishaps

Init ==
    /\ LockInit
    /\ served \in SUBSET Subnets
    /\ subnetCache = [k \in Keys |-> None]
    /\ read = [t \in Threads |-> <<>>]
    /\ done = [t \in Threads |-> 0]
    /\ foreign = None
    /\ overwritten = {}
    /\ mishaps = 0
-----------------------------------------------------------------------------
Mishap == mishaps < MaxMishaps /\ mishaps' = mishaps + 1

Copy(s) == [name |-> s, served |-> s \in served]

\* A whole subnet is written, as it is in a copy.
Put(copy) == served' = IF copy.served THEN served \cup {copy.name} ELSE served \ {copy.name}

\* All the subnets that the call means have been read.
AllRead(t) == IF Named[entry[t]] = <<>> THEN read[t] # <<>>
              ELSE Len(read[t]) = Len(Named[entry[t]])

\* Mutant: the subnets that were gone through are not forgotten.
ReturnKeepsDone(t) ==
    /\ UnlockEntry(t)
    /\ read' = [read EXCEPT ![t] = <<>>]
    /\ UNCHANGED <<done, foreignVars>>

\* The call returns, with or without an error; the deferred UnlockEntry runs.
Return(t) ==
    /\ UnlockEntry(t)
    /\ read' = [read EXCEPT ![t] = <<>>]
    /\ done' = [done EXCEPT ![t] = 0]
    /\ UNCHANGED foreignVars

\* A call whose key is not in the cache; a hit is answered at once.
UpdateSubnetServiceEndpoints(t, k) ==
    /\ subnetCache[k] = None
    /\ LockEntry(t, k)
    /\ UNCHANGED <<served, subnetCache, callVars, foreignVars, mishaps>>

\* One subnet of the list is read, or the list of all of them.
GetSubnet(t) ==
    /\ at[t] = "in"
    /\ ~AllRead(t)
    /\ LET names == Named[entry[t]]
       IN read' = [read EXCEPT ![t] =
                     IF names = <<>> THEN [i \in 1..Len(SetToSeq(Subnets)) |-> Copy(SetToSeq(Subnets)[i])]
                     ELSE Append(@, Copy(names[Len(@) + 1]))]
    /\ UNCHANGED <<lockVars, served, subnetCache, done, foreignVars, mishaps>>

GetFails(t) ==
    /\ Mishap
    /\ at[t] = "in"
    /\ ~AllRead(t)
    /\ Return(t)
    /\ UNCHANGED <<served, subnetCache>>

\* Mutant: the endpoint is added to the copy of the subnet, which is not written.
UpdateCopyOnly(t) ==
    /\ at[t] = "in"
    /\ AllRead(t)
    /\ done[t] < Len(read[t])
    /\ done' = [done EXCEPT ![t] = @ + 1]
    /\ UNCHANGED <<lockVars, served, subnetCache, read, foreignVars, mishaps>>

\* The next subnet: written back with the endpoint if it had none when read.
UpdateSubnet(t) ==
    /\ at[t] = "in"
    /\ AllRead(t)
    /\ done[t] < Len(read[t])
    /\ LET subnet == read[t][done[t] + 1]
       IN \/ subnet.served /\ UNCHANGED <<served, overwritten>>
          \/ /\ ~subnet.served
             /\ Put([subnet EXCEPT !.served = TRUE])
             /\ overwritten' = overwritten \ {subnet.name}
    /\ done' = [done EXCEPT ![t] = @ + 1]
    /\ UNCHANGED <<lockVars, subnetCache, read, foreign, mishaps>>

\* Mutant: a failed write is passed over.
UpdateFailureIgnored(t) ==
    /\ Mishap
    /\ at[t] = "in"
    /\ AllRead(t)
    /\ done[t] < Len(read[t])
    /\ ~read[t][done[t] + 1].served
    /\ done' = [done EXCEPT ![t] = @ + 1]
    /\ UNCHANGED <<lockVars, served, subnetCache, read, foreignVars>>

UpdateFails(t) ==
    /\ Mishap
    /\ at[t] = "in"
    /\ AllRead(t)
    /\ done[t] < Len(read[t])
    /\ ~read[t][done[t] + 1].served
    /\ Return(t)
    /\ UNCHANGED <<served, subnetCache>>

\* The resource IDs are cached and returned.
CacheSubnets(t) ==
    /\ at[t] = "in"
    /\ AllRead(t)
    /\ done[t] = Len(read[t])
    /\ subnetCache' = [subnetCache EXCEPT ![entry[t]] = {c.name : c \in ToSet(read[t])}]
    /\ Return(t)
    /\ UNCHANGED <<served, mishaps>>
-----------------------------------------------------------------------------
CacheExpires(k) ==
    /\ subnetCache[k] # None
    /\ subnetCache' = [subnetCache EXCEPT ![k] = None]
    /\ UNCHANGED <<lockVars, served, callVars, foreignVars, mishaps>>

\* Someone else changes a subnet: a read, and a write of all of it.
ForeignRead(s) ==
    /\ foreign = None
    /\ Mishap
    /\ foreign' = Copy(s)
    /\ UNCHANGED <<lockVars, served, subnetCache, callVars, overwritten>>

ForeignWrite ==
    /\ foreign # None
    /\ Put(foreign)
    /\ overwritten' = overwritten \cup (served \ served')
    /\ foreign' = None
    /\ UNCHANGED <<lockVars, subnetCache, callVars, mishaps>>

\* The data race in LockMap ends the controller and with it every call.
Crash ==
    /\ RaceCrash
    /\ subnetCache' = [k \in Keys |-> None]
    /\ read' = [t \in Threads |-> <<>>]
    /\ done' = [t \in Threads |-> 0]
    /\ UNCHANGED <<served, foreignVars, mishaps>>

Inside(t) ==
    /\ LockStep(t)
    /\ UNCHANGED <<served, subnetCache, callVars, foreignVars, mishaps>>

Work(t) == GetSubnet(t) \/ GetFails(t) \/ UpdateSubnet(t) \/ UpdateFails(t) \/ CacheSubnets(t)

Next ==
    \/ \E t \in Threads, k \in Keys : UpdateSubnetServiceEndpoints(t, k)
    \/ \E t \in Threads : Inside(t) \/ Work(t)
    \/ \E k \in Keys : CacheExpires(k)
    \/ \E s \in Subnets : ForeignRead(s)
    \/ ForeignWrite
    \/ Crash

(***************************************************************************)
(* A goroutine that can go on does; a mutex, which hands itself over to    *)
(* its waiters in starvation mode, is got by whoever waits for it; the     *)
(* provisioner asks again for a class; cache entries run out; another      *)
(* writer finishes.                                                        *)
(***************************************************************************)
Fairness ==
    /\ \A t \in Threads : WF_vars(Work(t)) /\ SF_vars(Inside(t))
    /\ \A k \in Keys : SF_vars(\E t \in Threads : UpdateSubnetServiceEndpoints(t, k))
    /\ \A k \in Keys : WF_vars(CacheExpires(k))
    /\ WF_vars(ForeignWrite)

Spec == Init /\ [][Next]_vars /\ Fairness
-----------------------------------------------------------------------------
(***************************************************************************)
(* A subnet whose resource ID is in subnetCache, and is therefore handed   *)
(* to the firewall of a storage account without another look, has the      *)
(* storage endpoint, unless another writer has since put an older copy of  *)
(* the subnet over it.  Calls for keys that mean the same subnet run side  *)
(* by side, fail half-way and write copies they read long ago.             *)
(***************************************************************************)
CachedSubnetsServed ==
    \A k \in Keys : subnetCache[k] # None =>
        \A s \in subnetCache[k] : s \in served \/ s \in overwritten

(***************************************************************************)
(* An endpoint that was lost to another writer comes back: the cache runs  *)
(* out and the next call for a class finds the subnet without it.          *)
(***************************************************************************)
EndpointsHeal == \A s \in Subnets : <>[](s \in served)

(***************************************************************************)
(* Every call returns, whatever fails and however many calls wait for its  *)
(* entry.                                                                  *)
(***************************************************************************)
UpdateReturns == \A t \in Threads : (at[t] = "lock") ~> (at[t] = "out")

(***************************************************************************)
(* LockEntry and UnlockEntry, with all the steps they consist of, give the *)
(* calls a lock per entry, which a waiting call gets in the end.           *)
(***************************************************************************)
LockPerEntry == Abstract!Spec
=============================================================================
