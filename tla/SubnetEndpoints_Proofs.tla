----------------------- MODULE SubnetEndpoints_Proofs -----------------------
(***************************************************************************)
(* Proofs about SubnetEndpoints, for any subnets, keys and goroutines: it  *)
(* uses LockMap as LockMap is meant to be used, its state keeps its types, *)
(* and what subnetCache says of a subnet is true.                          *)
(***************************************************************************)
EXTENDS SubnetEndpoints, LockMap_Proofs, SequenceTheorems, FiniteSetTheorems

\* What a call knows of a subnet: one that had the endpoint when it was read, or that
\* the call has gone through, has it or has lost it to another writer.
ReadServed ==
    \A t \in Threads : \A i \in 1..Len(read[t]) :
        read[t][i].served \/ i <= done[t] => read[t][i].name \in served \cup overwritten

\* A call reads while it holds its entry, and no more subnets than its key names.
ReadInside ==
    \A t \in Threads :
        /\ at[t] # "in" => read[t] = <<>>
        /\ at[t] = "in" /\ Named[entry[t]] # <<>> => Len(read[t]) <= Len(Named[entry[t]])

Inv == LockInv /\ TypeOK /\ ReadInside /\ ReadServed /\ CachedSubnetsServed
-----------------------------------------------------------------------------
\* Each step of updateSubnetServiceEndpoints is one of LockMap or leaves it alone.
LEMMA StepOfLockMap == [Next]_vars => [LockNext]_lockVars
<1> SUFFICES ASSUME [Next]_vars PROVE [LockNext]_lockVars
  OBVIOUS
<1>1. ASSUME NEW t \in Threads, NEW k \in Keys, UpdateSubnetServiceEndpoints(t, k)
      PROVE  LockNext
  BY <1>1 DEF UpdateSubnetServiceEndpoints, LockNext
<1>2. ASSUME NEW t \in Threads, Inside(t) \/ Return(t) PROVE LockNext
  BY <1>2 DEF Inside, Return, LockNext
<1>3. ASSUME NEW t \in Threads, Work(t) PROVE LockNext \/ UNCHANGED lockVars
  BY <1>2, <1>3 DEF Work, GetSubnet, GetFails, UpdateSubnet, UpdateFails, CacheSubnets
<1>4. CASE Crash
  BY <1>4 DEF Crash, LockNext
<1>5. CASE UNCHANGED vars
  BY <1>5 DEF vars
<1>6. ASSUME \/ \E k \in Keys : CacheExpires(k)
             \/ \E s \in Subnets : ForeignRead(s)
             \/ ForeignWrite
      PROVE  UNCHANGED lockVars
  BY <1>6 DEF CacheExpires, ForeignRead, ForeignWrite
<1> QED
  BY <1>1, <1>2, <1>3, <1>4, <1>5, <1>6 DEF Next

\* The list of all the subnets is a sequence of subnets.
LEMMA SubnetList == SetToSeq(Subnets) \in Seq(Subnets)
<1>1. Cardinality(Subnets) \in Nat /\ ExistsBijection(1..Cardinality(Subnets), Subnets)
  BY SubnetsAssumption, FS_CardinalityType
<1>2. \E f \in [1..Cardinality(Subnets) -> Subnets] : IsInjective(f)
  BY <1>1 DEF ExistsBijection, Bijection, Injection
<1>3. SetToSeq(Subnets) \in [1..Cardinality(Subnets) -> Subnets]
  BY <1>2 DEF SetToSeq
<1>4. [1..Cardinality(Subnets) -> Subnets] \subseteq Seq(Subnets)
  BY <1>1, SeqDef
<1> QED
  BY <1>3, <1>4

\* A copy of a subnet shows what the subnet is.
LEMMA CopyFacts ==
    ASSUME NEW s \in Subnets
    PROVE  /\ Copy(s) \in Copies
           /\ Copy(s).served => Copy(s).name \in served
<1>1. (s \in served) \in BOOLEAN
  OBVIOUS
<1>2. Copy(s) \in Copies
  BY <1>1, Zenon DEF Copy, Copies
<1> QED
  BY <1>2 DEF Copy

\* No step makes a subnet lose the endpoint without a trace.
LEMMA Monotone ==
    ASSUME Inv, [Next]_vars
    PROVE  served \cup overwritten \subseteq served' \cup overwritten'
<1>1. ASSUME NEW t \in Threads, UpdateSubnet(t)
      PROVE  served \cup overwritten \subseteq served' \cup overwritten'
  <2>1. CASE UNCHANGED <<served, overwritten>>
    BY <2>1
  <2>2. PICK subnet : /\ subnet = read[t][done[t] + 1]
                      /\ subnet.served => UNCHANGED <<served, overwritten>>
                      /\ ~subnet.served => /\ Put([subnet EXCEPT !.served = TRUE])
                                           /\ overwritten' = overwritten \ {subnet.name}
    BY <1>1 DEF UpdateSubnet
  <2>3. subnet \in Copies
    BY <1>1, <2>2, ElementOfSeq DEF UpdateSubnet, Inv, TypeOK
  <2>4. CASE ~subnet.served
    <3>1. [subnet EXCEPT !.served = TRUE].served /\ [subnet EXCEPT !.served = TRUE].name = subnet.name
      BY <2>3 DEF Copies
    <3>2. served' = served \cup {subnet.name}
      BY <2>2, <2>4, <3>1 DEF Put
    <3> QED
      BY <2>2, <2>4, <3>2
  <2> QED
    BY <2>1, <2>2, <2>4
<1>2. CASE ForeignWrite
  BY <1>2 DEF ForeignWrite
<1>3. ASSUME UNCHANGED <<served, overwritten>>
      PROVE  served \cup overwritten \subseteq served' \cup overwritten'
  BY <1>3
<1> QED
  BY <1>1, <1>2, <1>3
  DEF Next, vars, foreignVars, UpdateSubnetServiceEndpoints, Inside, Work, GetSubnet, GetFails,
      UpdateFails, CacheSubnets, Return, CacheExpires, ForeignRead, Crash
-----------------------------------------------------------------------------
\* The first state.
LEMMA InvInit == Init => Inv
<1> SUFFICES ASSUME Init PROVE Inv
  OBVIOUS
<1>1. LockInv
  BY LockInvInit DEF Init
<1>2. TypeOK
  <2>1. read \in [Threads -> Seq(Copies)] /\ \A t \in Threads : Len(read[t]) = 0
    <3>1. <<>> \in Seq(Copies) /\ Len(<<>>) = 0
      BY EmptySeq
    <3> QED
      BY <3>1 DEF Init
  <2>2. done \in [Threads -> Nat] /\ \A t \in Threads : done[t] <= Len(read[t])
    BY <2>1 DEF Init
  <2>3. served \subseteq Subnets /\ overwritten \subseteq Subnets /\ mishaps \in 0..MaxMishaps
    BY SubnetsAssumption DEF Init
  <2>4. subnetCache \in [Keys -> (SUBSET Subnets) \cup {None}]
    <3>1. None \in (SUBSET Subnets) \cup {None}
      OBVIOUS
    <3> DEFINE Cached == (SUBSET Subnets) \cup {None}
    <3>2. None \in Cached
      BY <3>1
    <3> HIDE DEF Cached
    <3>3. subnetCache \in [Keys -> Cached]
      BY <3>2 DEF Init
    <3> QED
      BY <3>3 DEF Cached
  <2>5. foreign \in Copies \cup {None}
    BY DEF Init
  <2> QED
    BY <1>1, <2>1, <2>2, <2>3, <2>4, <2>5 DEF TypeOK, LockInv
<1>3. ReadServed /\ ReadInside
  BY DEF Init, LockInit, NewLockMap, ReadServed, ReadInside
<1> QED
  BY <1>1, <1>2, <1>3 DEF Init, Inv, CachedSubnetsServed

\* Types of what is not LockMap's: read and done of one call change, the rest of them
\* is as before.
LEMMA CallType ==
    ASSUME Inv, NEW t \in Threads, NEW r \in Seq(Copies), NEW d \in Nat, d <= Len(r),
           read' = [read EXCEPT ![t] = r], done' = [done EXCEPT ![t] = d]
    PROVE  /\ read' \in [Threads -> Seq(Copies)]
           /\ done' \in [Threads -> Nat] /\ \A u \in Threads : done'[u] <= Len(read'[u])
<1>1. \A u \in Threads : /\ read'[u] = IF u = t THEN r ELSE read[u]
                         /\ done'[u] = IF u = t THEN d ELSE done[u]
  BY DEF Inv, TypeOK
<1>2. Len(r) \in Nat
  BY LenProperties
<1>3. \A u \in Threads : done'[u] <= Len(read'[u])
  BY <1>1, <1>2 DEF Inv, TypeOK
<1> QED
  BY <1>2, <1>3 DEF Inv, TypeOK

\* The part of the invariant about a call, from what the call has read by now.
LEMMA CallServed ==
    ASSUME Inv, [Next]_vars, NEW t \in Threads, NEW r, NEW d,
           read' = [read EXCEPT ![t] = r], done' = [done EXCEPT ![t] = d],
           \A i \in 1..Len(r) :
               r[i].served \/ i <= d => r[i].name \in served' \cup overwritten'
    PROVE  ReadServed'
<1>1. \A u \in Threads : /\ read'[u] = IF u = t THEN r ELSE read[u]
                         /\ done'[u] = IF u = t THEN d ELSE done[u]
  BY DEF Inv, TypeOK
<1>2. served \cup overwritten \subseteq served' \cup overwritten'
  BY Monotone
<1>3. \A u \in Threads : \A i \in 1..Len(read[u]) :
        read[u][i].served \/ i <= done[u] => read[u][i].name \in served' \cup overwritten'
  BY <1>2 DEF Inv, ReadServed
<1> QED
  BY <1>1, <1>3 DEF ReadServed

\* A step that leaves calls and cache as they are.
LEMMA OutsideKeepsServed ==
    ASSUME Inv, [Next]_vars, UNCHANGED callVars,
           \A k \in Keys : subnetCache'[k] \in {subnetCache[k], None}
    PROVE  ReadServed' /\ CachedSubnetsServed'
<1>1. served \cup overwritten \subseteq served' \cup overwritten'
  BY Monotone
<1>2. ReadServed'
  BY <1>1 DEF Inv, ReadServed, callVars
<1>3. CachedSubnetsServed'
  BY <1>1 DEF Inv, CachedSubnetsServed
<1> QED
  BY <1>2, <1>3

\* A call returns: it forgets what it read.
LEMMA ReturnKeepsServed ==
    ASSUME Inv, [Next]_vars, NEW t \in Threads, Return(t)
    PROVE  /\ read' \in [Threads -> Seq(Copies)]
           /\ done' \in [Threads -> Nat] /\ \A u \in Threads : done'[u] <= Len(read'[u])
           /\ UNCHANGED foreignVars
           /\ ReadServed'
<1>1. <<>> \in Seq(Copies) /\ Len(<<>>) = 0
  BY EmptySeq
<1>3. read' = [read EXCEPT ![t] = <<>>] /\ done' = [done EXCEPT ![t] = 0]
  BY DEF Return
<1> DEFINE r == <<>>
<1>4. r \in Seq(Copies) /\ 0 <= Len(r) /\ 1..Len(r) = {} /\ read' = [read EXCEPT ![t] = r]
  BY <1>1, <1>3
<1> HIDE DEF r
<1>5. ReadServed'
  BY <1>3, <1>4, CallServed
<1>6. /\ read' \in [Threads -> Seq(Copies)]
      /\ done' \in [Threads -> Nat] /\ \A u \in Threads : done'[u] <= Len(read'[u])
  BY <1>3, <1>4, CallType
<1> QED
  BY <1>5, <1>6 DEF Return

\* A failure or a write of someone else is counted within the bound.
LEMMA MishapType ==
    ASSUME Inv, Mishap \/ UNCHANGED mishaps
    PROVE  mishaps' \in 0..MaxMishaps
  BY SubnetsAssumption DEF Inv, TypeOK, Mishap

\* A call reads a subnet, or the list of all of them.
LEMMA GetSubnetKeepsInv ==
    ASSUME Inv, [Next]_vars, LockInv', NEW t \in Threads, GetSubnet(t)
    PROVE  Inv'
<1>0. at[t] = "in" /\ entry[t] \in Keys /\ ~AllRead(t)
  BY DEF GetSubnet, Inv, LockInv, EntriesKept
<1>1. /\ read[t] \in Seq(Copies) /\ Len(read[t]) \in Nat
      /\ done[t] \in Nat /\ done[t] <= Len(read[t])
  BY LenProperties DEF Inv, TypeOK
<1>2. Named[entry[t]] \in Seq(Subnets) /\ Len(Named[entry[t]]) \in Nat
  BY <1>0, SubnetsAssumption, LenProperties
<1> DEFINE names == Named[entry[t]]
           list == SetToSeq(Subnets)
           next == names[Len(read[t]) + 1]
           r == IF names = <<>> THEN [i \in 1..Len(list) |-> Copy(list[i])]
                ELSE Append(read[t], Copy(next))
<1>3. read' = [read EXCEPT ![t] = r] /\ done' = [done EXCEPT ![t] = done[t]]
      /\ UNCHANGED <<served, overwritten>>
  BY DEF GetSubnet, foreignVars, Inv, TypeOK
<1>4. /\ r \in Seq(Copies) /\ done[t] <= Len(r)
      /\ \A i \in 1..Len(r) :
           r[i].served \/ i <= done[t] => r[i].name \in served \cup overwritten
  <2>1. CASE names = <<>>
    <3>1. list \in Seq(Subnets) /\ Len(list) \in Nat
      BY SubnetList, LenProperties
    <3>2. \A i \in 1..Len(list) : list[i] \in Subnets
      BY <3>1, ElementOfSeq
    <3>3. \A i \in 1..Len(list) : Copy(list[i]) \in Copies
                                 /\ (Copy(list[i]).served => Copy(list[i]).name \in served)
      BY <3>2, CopyFacts
    <3>4. r \in [1..Len(list) -> Copies] /\ \A i \in 1..Len(list) : r[i] = Copy(list[i])
      BY <2>1, <3>3
    <3>5. r \in Seq(Copies)
      BY <3>1, <3>4, SeqDef
    <3>a. Len(r) = Len(list)
      BY <3>1, <2>1
    <3>6. done[t] = 0
      BY <1>0, <1>1, <2>1, EmptySeq DEF AllRead
    <3> HIDE DEF r
    <3> QED
      BY <3>1, <3>3, <3>4, <3>5, <3>a, <3>6
  <2>2. CASE names # <<>>
    <3>1. Len(read[t]) # Len(names)
      BY <1>0, <2>2 DEF AllRead
    <3>2. Len(read[t]) + 1 \in 1..Len(names)
      BY <1>0, <1>1, <1>2, <2>2, <3>1 DEF Inv, ReadInside
    <3>3. next \in Subnets
      BY <1>2, <3>2, ElementOfSeq
    <3>4. Copy(next) \in Copies /\ (Copy(next).served => Copy(next).name \in served)
      BY <3>3, CopyFacts
    <3>5. /\ r \in Seq(Copies) /\ Len(r) = Len(read[t]) + 1
          /\ \A i \in 1..Len(read[t]) : r[i] = read[t][i]
          /\ r[Len(read[t]) + 1] = Copy(next)
      BY <1>1, <2>2, <3>4, AppendProperties
    <3>6. \A i \in 1..Len(read[t]) :
            read[t][i].served \/ i <= done[t] => read[t][i].name \in served \cup overwritten
      BY DEF Inv, ReadServed
    <3> HIDE DEF r, next
    <3> QED
      BY <1>1, <3>4, <3>5, <3>6
  <2> QED
    BY <2>1, <2>2
<1>5. ReadServed'
  BY <1>3, <1>4, CallServed
<1>6. /\ read' \in [Threads -> Seq(Copies)]
      /\ done' \in [Threads -> Nat] /\ \A u \in Threads : done'[u] <= Len(read'[u])
  <2> HIDE DEF r
  <2> QED
    BY <1>1, <1>3, <1>4, CallType
<1>7. UNCHANGED <<served, subnetCache, foreign, overwritten, mishaps>>
  BY DEF GetSubnet, foreignVars
<1>8. ReadInside'
  <2>1. at' = at /\ entry' = entry
    BY DEF GetSubnet, lockVars
  <2>2. names # <<>> => Len(r) <= Len(names)
    <3> SUFFICES ASSUME names # <<>> PROVE Len(r) <= Len(names)
      OBVIOUS
    <3>1. Len(read[t]) # Len(names) /\ Len(read[t]) <= Len(names)
      BY <1>0 DEF AllRead, Inv, ReadInside
    <3>2. Len(r) = Len(read[t]) + 1
      BY <1>1
    <3> QED
      BY <1>1, <1>2, <3>1, <3>2
  <2>3. \A u \in Threads : read'[u] = IF u = t THEN r ELSE read[u]
    BY <1>3 DEF Inv, TypeOK
  <2> HIDE DEF r
  <2> QED
    BY <1>0, <2>1, <2>2, <2>3 DEF ReadInside, Inv
<1> QED
  BY <1>5, <1>6, <1>7, <1>8 DEF Inv, TypeOK, LockInv, CachedSubnetsServed

\* Who is inside its entry stays there and keeps what it has read.
LEMMA InsideKept ==
    ASSUME Inv, LockInv', UNCHANGED read,
           \A u \in Threads : at[u] = "in" => at'[u] = "in" /\ entry'[u] = entry[u]
    PROVE  ReadInside'
<1>1. Len(<<>>) = 0
  BY EmptySeq
<1>2. ASSUME NEW u \in Threads, at'[u] # "in" PROVE read'[u] = <<>>
  BY <1>2 DEF Inv, ReadInside
<1>3. ASSUME NEW u \in Threads, at'[u] = "in", Named[entry'[u]] # <<>>
      PROVE  Len(read'[u]) <= Len(Named[entry'[u]])
  <2>1. CASE at[u] = "in"
    BY <1>3, <2>1 DEF Inv, ReadInside
  <2>2. CASE at[u] # "in"
    <3>1. entry'[u] \in Keys
      BY <1>3 DEF LockInv, EntriesKept
    <3>2. Len(Named[entry'[u]]) \in Nat
      BY <3>1, SubnetsAssumption, LenProperties
    <3> QED
      BY <1>1, <2>2, <3>2 DEF Inv, ReadInside
  <2> QED
    BY <2>1, <2>2
<1> QED
  BY <1>2, <1>3 DEF ReadInside

\* The call that returns leaves its entry with nothing read, the others stay.
LEMMA ReturnKeepsInside ==
    ASSUME Inv, NEW t \in Threads, Return(t)
    PROVE  ReadInside'
<1>1. /\ at' = [at EXCEPT ![t] = "unlock"] /\ entry' = entry
      /\ read' = [read EXCEPT ![t] = <<>>]
  BY DEF Return, UnlockEntry, Move
<1>2. \A u \in Threads : /\ at'[u] = IF u = t THEN "unlock" ELSE at[u]
                         /\ read'[u] = IF u = t THEN <<>> ELSE read[u]
  BY <1>1 DEF Inv, TypeOK, LockTypeOK
<1> QED
  BY <1>1, <1>2 DEF Inv, ReadInside

\* A subnet is gone through: it had the endpoint when it was read, or has been given it.
LEMMA UpdateSubnetKeepsInv ==
    ASSUME Inv, [Next]_vars, LockInv', NEW t \in Threads, UpdateSubnet(t)
    PROVE  Inv'
<1>1. /\ read[t] \in Seq(Copies) /\ Len(read[t]) \in Nat
      /\ done[t] \in Nat /\ done[t] < Len(read[t])
  BY LenProperties DEF Inv, TypeOK, UpdateSubnet
<1> DEFINE subnet == read[t][done[t] + 1]
<1>2. subnet \in Copies
  BY <1>1, ElementOfSeq
<1>3. subnet.name \in Subnets
  BY <1>2 DEF Copies
<1>4. /\ read' = [read EXCEPT ![t] = read[t]] /\ done' = [done EXCEPT ![t] = done[t] + 1]
      /\ UNCHANGED <<lockVars, subnetCache, read, foreign, mishaps>>
  BY DEF UpdateSubnet, Inv, TypeOK
<1>5. /\ served' \subseteq Subnets /\ overwritten' \subseteq Subnets
      /\ subnet.name \in served' \cup overwritten'
  <2>1. CASE subnet.served /\ UNCHANGED <<served, overwritten>>
    <3>1. done[t] + 1 \in 1..Len(read[t])
      BY <1>1
    <3>2. subnet.name \in served \cup overwritten
      BY <2>1, <3>1 DEF Inv, ReadServed
    <3> QED
      BY <2>1, <3>2 DEF Inv, TypeOK
  <2>2. CASE /\ ~subnet.served
             /\ Put([subnet EXCEPT !.served = TRUE])
             /\ overwritten' = overwritten \ {subnet.name}
    <3>1. [subnet EXCEPT !.served = TRUE].served /\ [subnet EXCEPT !.served = TRUE].name = subnet.name
      BY <1>2 DEF Copies
    <3>2. served' = served \cup {subnet.name}
      BY <2>2, <3>1 DEF Put
    <3> HIDE DEF subnet
    <3> QED
      BY <1>3, <2>2, <3>2 DEF Inv, TypeOK
  <2> QED
    BY <2>1, <2>2 DEF UpdateSubnet
<1>6. served \cup overwritten \subseteq served' \cup overwritten'
  BY Monotone
<1>7. ReadServed'
  <2>1. \A i \in 1..Len(read[t]) : read[t][i].served \/ i <= done[t] + 1 =>
            read[t][i].name \in served' \cup overwritten'
    <3> SUFFICES ASSUME NEW i \in 1..Len(read[t]), read[t][i].served \/ i <= done[t] + 1
                 PROVE  read[t][i].name \in served' \cup overwritten'
      OBVIOUS
    <3>1. CASE i = done[t] + 1
      BY <1>5, <3>1
    <3>2. CASE i # done[t] + 1
      <4>1. read[t][i].served \/ i <= done[t]
        BY <1>1, <3>2
      <4> QED
        BY <1>6, <4>1 DEF Inv, ReadServed
    <3> QED
      BY <3>1, <3>2
  <2> QED
    BY <1>4, <2>1, CallServed
<1>8. /\ read' \in [Threads -> Seq(Copies)]
      /\ done' \in [Threads -> Nat] /\ \A u \in Threads : done'[u] <= Len(read'[u])
  <2>1. done[t] + 1 \in Nat /\ done[t] + 1 <= Len(read[t])
    BY <1>1
  <2> QED
    BY <1>1, <1>4, <2>1, CallType
<1>9. ReadInside'
  BY <1>4, InsideKept DEF lockVars
<1>10. CachedSubnetsServed'
  BY <1>4, <1>6 DEF Inv, CachedSubnetsServed
<1> QED
  BY <1>4, <1>5, <1>7, <1>8, <1>9, <1>10 DEF Inv, TypeOK, LockInv

\* A call that ends with an error leaves the subnets and the cache as they are.
LEMMA FailureKeepsInv ==
    ASSUME Inv, [Next]_vars, LockInv', NEW t \in Threads, GetFails(t) \/ UpdateFails(t)
    PROVE  Inv'
<1>1. Mishap /\ Return(t) /\ UNCHANGED <<served, subnetCache>>
  BY DEF GetFails, UpdateFails
<1>2. mishaps' \in 0..MaxMishaps
  BY <1>1, MishapType
<1>3. /\ read' \in [Threads -> Seq(Copies)]
      /\ done' \in [Threads -> Nat] /\ \A u \in Threads : done'[u] <= Len(read'[u])
      /\ UNCHANGED <<foreign, overwritten>>
      /\ ReadServed'
  BY <1>1, ReturnKeepsServed DEF foreignVars
<1>4. ReadInside'
  BY <1>1, ReturnKeepsInside
<1>5. CachedSubnetsServed'
  BY <1>1, <1>3 DEF Inv, CachedSubnetsServed
<1> QED
  BY <1>1, <1>2, <1>3, <1>4, <1>5 DEF Inv, TypeOK, LockInv

\* The names of all the subnets of a call are cached once it has gone through them.
LEMMA CacheSubnetsKeepsInv ==
    ASSUME Inv, [Next]_vars, LockInv', NEW t \in Threads, CacheSubnets(t)
    PROVE  Inv'
<1>1. entry[t] \in Keys /\ Return(t) /\ UNCHANGED <<served, mishaps>>
  BY DEF CacheSubnets, Inv, LockInv, EntriesKept
<1>2. /\ read' \in [Threads -> Seq(Copies)]
      /\ done' \in [Threads -> Nat] /\ \A u \in Threads : done'[u] <= Len(read'[u])
      /\ UNCHANGED <<foreign, overwritten>>
      /\ ReadServed'
  BY <1>1, ReturnKeepsServed DEF foreignVars
<1>3. ReadInside'
  BY <1>1, ReturnKeepsInside
<1> DEFINE ids == {c.name : c \in ToSet(read[t])}
<1>4. subnetCache' = [subnetCache EXCEPT ![entry[t]] = ids]
  BY DEF CacheSubnets
<1>5. ids \subseteq Subnets /\ ids \subseteq served \cup overwritten
  <2> SUFFICES ASSUME NEW c \in ToSet(read[t])
               PROVE  c.name \in Subnets /\ c.name \in served \cup overwritten
    OBVIOUS
  <2>1. read[t] \in Seq(Copies) /\ Len(read[t]) \in Nat /\ done[t] = Len(read[t])
    BY LenProperties DEF Inv, TypeOK, CacheSubnets
  <2>2. PICK i \in DOMAIN read[t] : c = read[t][i]
    BY DEF ToSet
  <2>3. i \in 1..Len(read[t])
    BY <2>1, <2>2, LenProperties
  <2>4. c \in Copies
    BY <2>1, <2>2, <2>3, ElementOfSeq
  <2> QED
    BY <2>1, <2>2, <2>3, <2>4 DEF Inv, ReadServed, Copies
<1> HIDE DEF ids
<1>6. \A k \in Keys : subnetCache'[k] = IF k = entry[t] THEN ids ELSE subnetCache[k]
  BY <1>1, <1>4 DEF Inv, TypeOK
<1>7. CachedSubnetsServed'
  BY <1>1, <1>2, <1>5, <1>6 DEF Inv, CachedSubnetsServed
<1>8. subnetCache' \in [Keys -> (SUBSET Subnets) \cup {None}]
  BY <1>1, <1>4, <1>5 DEF Inv, TypeOK
<1> QED
  BY <1>1, <1>2, <1>3, <1>7, <1>8 DEF Inv, TypeOK, LockInv

\* Steps of LockMap, and of the cache.
LEMMA LockStepsKeepInv ==
    ASSUME Inv, [Next]_vars, LockInv',
           \/ \E t \in Threads, k \in Keys : UpdateSubnetServiceEndpoints(t, k)
           \/ \E t \in Threads : Inside(t)
           \/ \E k \in Keys : CacheExpires(k)
           \/ UNCHANGED vars
    PROVE  Inv'
<1>1. UNCHANGED <<served, read, done, foreign, overwritten, mishaps>>
  BY DEF UpdateSubnetServiceEndpoints, Inside, CacheExpires, vars, callVars, foreignVars
<1>2. /\ subnetCache' \in [Keys -> (SUBSET Subnets) \cup {None}]
      /\ \A k \in Keys : subnetCache'[k] \in {subnetCache[k], None}
  <2>1. ASSUME NEW k \in Keys, CacheExpires(k)
        PROVE  /\ subnetCache' \in [Keys -> (SUBSET Subnets) \cup {None}]
               /\ \A j \in Keys : subnetCache'[j] \in {subnetCache[j], None}
    BY <2>1 DEF CacheExpires, Inv, TypeOK
  <2>2. CASE UNCHANGED subnetCache
    BY <2>2 DEF Inv, TypeOK
  <2> QED
    BY <2>1, <2>2 DEF UpdateSubnetServiceEndpoints, Inside, vars
<1>3. \A u \in Threads : at[u] = "in" => at'[u] = "in" /\ entry'[u] = entry[u]
  <2>1. ASSUME NEW t \in Threads, NEW k \in Keys, UpdateSubnetServiceEndpoints(t, k)
        PROVE  \A u \in Threads : at[u] = "in" => at'[u] = "in" /\ entry'[u] = entry[u]
    BY <2>1 DEF UpdateSubnetServiceEndpoints, LockEntry, Move, Inv, TypeOK, LockTypeOK
  <2>2. ASSUME NEW t \in Threads, Inside(t)
        PROVE  \A u \in Threads : at[u] = "in" => at'[u] = "in" /\ entry'[u] = entry[u]
    BY <2>2 DEF Inside, LockStep, CheckEntry, addEntry, ReadEntry, AcquireEntry, ReleaseEntry,
                Move, Inv, TypeOK, LockTypeOK
  <2>3. CASE UNCHANGED lockVars
    BY <2>3 DEF lockVars
  <2> QED
    BY <2>1, <2>2, <2>3 DEF CacheExpires, vars
<1>4. ReadInside'
  BY <1>1, <1>3, InsideKept
<1>5. ReadServed' /\ CachedSubnetsServed'
  BY <1>1, <1>2, OutsideKeepsServed DEF callVars
<1> QED
  BY <1>1, <1>2, <1>4, <1>5 DEF Inv, TypeOK, LockInv

\* Another writer reads a subnet and puts a copy of it back.
LEMMA ForeignKeepsInv ==
    ASSUME Inv, [Next]_vars, LockInv', (\E s \in Subnets : ForeignRead(s)) \/ ForeignWrite
    PROVE  Inv'
<1>1. UNCHANGED <<lockVars, subnetCache, read, done>>
  BY DEF ForeignRead, ForeignWrite, callVars
<1>2. mishaps' \in 0..MaxMishaps
  BY MishapType DEF ForeignRead, ForeignWrite
<1>3. foreign' \in Copies \cup {None} /\ served' \subseteq Subnets /\ overwritten' \subseteq Subnets
  <2>1. ASSUME NEW s \in Subnets, ForeignRead(s)
        PROVE  foreign' \in Copies /\ UNCHANGED <<served, overwritten>>
    BY <2>1, CopyFacts DEF ForeignRead
  <2>2. CASE ForeignWrite
    <3>1. foreign \in Copies
      BY <2>2 DEF ForeignWrite, Inv, TypeOK
    <3>2. foreign.name \in Subnets
      BY <3>1 DEF Copies
    <3>3. served' \subseteq Subnets
      BY <2>2, <3>2 DEF ForeignWrite, Put, Inv, TypeOK
    <3>4. overwritten' \subseteq Subnets /\ foreign' = None
      BY <2>2 DEF ForeignWrite, Inv, TypeOK
    <3> QED
      BY <3>3, <3>4
  <2> QED
    BY <2>1, <2>2 DEF Inv, TypeOK
<1>4. ReadInside'
  BY <1>1, InsideKept DEF lockVars
<1>5. ReadServed' /\ CachedSubnetsServed'
  BY <1>1, OutsideKeepsServed DEF callVars
<1> QED
  BY <1>1, <1>2, <1>3, <1>4, <1>5 DEF Inv, TypeOK, LockInv

\* The controller crashes: calls and cache are gone.
LEMMA CrashKeepsInv ==
    ASSUME Inv, LockInv', Crash
    PROVE  Inv'
<1>1. <<>> \in Seq(Copies) /\ Len(<<>>) = 0
  BY EmptySeq
<1>2. read' \in [Threads -> Seq(Copies)] /\ \A t \in Threads : Len(read'[t]) = 0 /\ read'[t] = <<>>
  BY <1>1 DEF Crash
<1>3. done' \in [Threads -> Nat] /\ \A t \in Threads : done'[t] <= Len(read'[t])
  BY <1>2 DEF Crash
<1> DEFINE Cached == (SUBSET Subnets) \cup {None}
<1>4. None \in Cached
  OBVIOUS
<1> HIDE DEF Cached
<1>5. subnetCache' \in [Keys -> Cached] /\ \A k \in Keys : subnetCache'[k] = None
  BY <1>4 DEF Crash
<1>6. UNCHANGED <<served, foreign, overwritten, mishaps>>
  BY DEF Crash, foreignVars
<1>7. \A t \in Threads : at'[t] = "out"
  BY DEF Crash, RaceCrash, NewLockMap
<1>8. ReadInside' /\ ReadServed' /\ CachedSubnetsServed'
  BY <1>2, <1>5, <1>7 DEF ReadInside, ReadServed, CachedSubnetsServed
<1> QED
  BY <1>2, <1>3, <1>5, <1>6, <1>8 DEF Inv, TypeOK, LockInv, Cached
-----------------------------------------------------------------------------
\* The invariant is inductive.
LEMMA InvStep == Inv /\ [Next]_vars => Inv'
<1> SUFFICES ASSUME Inv, [Next]_vars PROVE Inv'
  OBVIOUS
<1>1. LockInv'
  BY StepOfLockMap, LockInvStep DEF Inv
<1>2. ASSUME NEW t \in Threads, Work(t) PROVE Inv'
  BY <1>1, <1>2, GetSubnetKeepsInv, FailureKeepsInv, UpdateSubnetKeepsInv, CacheSubnetsKeepsInv DEF Work
<1> QED
  BY <1>1, <1>2, LockStepsKeepInv, ForeignKeepsInv, CrashKeepsInv DEF Next

\* The invariant holds in every state.
LEMMA InvHolds == Spec => []Inv
  BY InvInit, InvStep, PTL DEF Spec

(***************************************************************************)
(* The state of updateSubnetServiceEndpoints keeps its types, for any      *)
(* number of calls, classes, subnets and failures.                         *)
(***************************************************************************)
THEOREM SubnetTypeCorrect == Spec => []TypeOK
  BY InvHolds, PTL DEF Inv

(***************************************************************************)
(* A cached subnet has the endpoint unless another writer took it away,    *)
(* whichever calls and writers met on the way and whatever failed.         *)
(***************************************************************************)
THEOREM CachedSubnetsAreServed == Spec => []CachedSubnetsServed
  BY InvHolds, PTL DEF Inv

(***************************************************************************)
(* updateSubnetServiceEndpoints uses LockMap as LockMap is specified: what *)
(* is proved of LockMap holds of subnetLockMap.                            *)
(***************************************************************************)
THEOREM UsesLockMap == Spec => LockSpec
<1>1. Init => LockInit
  BY DEF Init
<1> QED
  BY <1>1, StepOfLockMap, PTL DEF Spec, LockSpec

(***************************************************************************)
(* Two calls for one class are never at its subnets at once: UnlockEntry   *)
(* is deferred on every path and unlocks what the call has locked.         *)
(***************************************************************************)
THEOREM SubnetEntryExclusion == Spec => []EntryExclusion
  BY UsesLockMap, LockMapExcludes, PTL

(***************************************************************************)
(* The safety part of LockPerEntry: the calls see a lock per entry.        *)
(***************************************************************************)
THEOREM SubnetLockRefines == Spec => Abstract!Init /\ [][Abstract!Next]_(Abstract!vars)
  BY UsesLockMap, LockMapRefines, PTL
=============================================================================
