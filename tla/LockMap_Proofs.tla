--------------------------- MODULE LockMap_Proofs ---------------------------
(***************************************************************************)
(* Proofs about LockMap, for any number of goroutines and entries: mutual  *)
(* exclusion, and that every step of it is a step of EntryLocks.           *)
(***************************************************************************)
EXTENDS LockMap, TLAPS

\* Who is past the lookup has a mutex in the map; who adds one has the map.
EntriesKept ==
    \A t \in Threads :
        /\ at[t] # "out" => entry[t] \in Keys
        /\ at[t] \in {"reading", "waiting", "in", "unlock"} => entry[t] \in mutexMap
        /\ at[t] = "adding" => mapMutex = t /\ entry[t] \notin mutexMap

\* A mutex is locked by exactly the thread that is between its two calls.
HoldersHold ==
    /\ \A t \in Threads : Holds(t) => holder[entry[t]] = t
    /\ \A k \in Keys : holder[k] # None => Holds(holder[k]) /\ entry[holder[k]] = k

LockInv == LockTypeOK /\ EntriesKept /\ HoldersHold

\* The empty LockMap satisfies the invariant.
LEMMA LockInvInit == LockInit => LockInv
  BY LockMapAssumption
  DEF LockInit, NewLockMap, LockInv, LockTypeOK, EntriesKept, HoldersHold, Holds, LockSteps

\* LockEntry, up to the lock of the mutex.
LEMMA EnterKeepsInv ==
    ASSUME LockInv, NEW t \in Threads,
           (\E k \in Keys : LockEntry(t, k)) \/ CheckEntry(t) \/ addEntry(t) \/ ReadEntry(t)
    PROVE  LockInv'
  <1>1. ASSUME NEW k \in Keys, LockEntry(t, k) PROVE LockInv'
    <2>1. LockTypeOK' /\ EntriesKept'
      BY <1>1 DEF LockEntry, Move, LockInv, LockTypeOK, EntriesKept, LockSteps
    <2>2. HoldersHold'
      BY <1>1, LockMapAssumption DEF LockEntry, Move, LockInv, LockTypeOK, HoldersHold, Holds
    <2> QED
      BY <2>1, <2>2 DEF LockInv
  <1>2. CASE CheckEntry(t)
    <2>1. LockTypeOK' /\ EntriesKept'
      BY <1>2, LockMapAssumption
      DEF CheckEntry, Move, LockInv, LockTypeOK, EntriesKept, LockSteps
    <2>2. HoldersHold'
      BY <1>2, LockMapAssumption DEF CheckEntry, Move, LockInv, LockTypeOK, HoldersHold, Holds
    <2> QED
      BY <2>1, <2>2 DEF LockInv
  <1>3. CASE addEntry(t)
    <2>1. LockTypeOK'
      BY <1>3 DEF addEntry, Move, LockInv, LockTypeOK, EntriesKept, LockSteps
    <2>2. EntriesKept'
      BY <1>3 DEF addEntry, Move, LockInv, LockTypeOK, EntriesKept
    <2>3. \A u \in Threads : Holds(u) => entry[u] # entry[t]
      BY <1>3 DEF addEntry, LockInv, EntriesKept, Holds
    <2>4. HoldersHold'
      BY <1>3, <2>3, LockMapAssumption
      DEF addEntry, Move, LockInv, LockTypeOK, HoldersHold, Holds, EntriesKept
    <2> QED
      BY <2>1, <2>2, <2>4 DEF LockInv
  <1>4. CASE ReadEntry(t)
    <2>1. LockTypeOK' /\ EntriesKept'
      BY <1>4 DEF ReadEntry, Move, LockInv, LockTypeOK, EntriesKept, LockSteps
    <2>2. HoldersHold'
      BY <1>4, LockMapAssumption DEF ReadEntry, Move, LockInv, LockTypeOK, HoldersHold, Holds
    <2> QED
      BY <2>1, <2>2 DEF LockInv
  <1> QED
    BY <1>1, <1>2, <1>3, <1>4

\* The lock of the mutex, and UnlockEntry.
LEMMA LeaveKeepsInv ==
    ASSUME LockInv, NEW t \in Threads, AcquireEntry(t) \/ UnlockEntry(t) \/ ReleaseEntry(t)
    PROVE  LockInv'
  <1>1. CASE AcquireEntry(t)
    <2>1. LockTypeOK' /\ EntriesKept'
      BY <1>1 DEF AcquireEntry, Move, LockInv, LockTypeOK, EntriesKept, LockSteps
    <2>2. \A u \in Threads \ {t} : Holds(u) => entry[u] # entry[t]
      BY <1>1, LockMapAssumption DEF AcquireEntry, LockInv, HoldersHold
    <2>3. HoldersHold'
      BY <1>1, <2>2, LockMapAssumption
      DEF AcquireEntry, Move, LockInv, LockTypeOK, HoldersHold, Holds, EntriesKept
    <2> QED
      BY <2>1, <2>3 DEF LockInv
  <1>2. CASE UnlockEntry(t)
    <2>1. LockTypeOK' /\ EntriesKept'
      BY <1>2 DEF UnlockEntry, Move, LockInv, LockTypeOK, EntriesKept, LockSteps
    <2>2. HoldersHold'
      BY <1>2, LockMapAssumption DEF UnlockEntry, Move, LockInv, LockTypeOK, HoldersHold, Holds
    <2> QED
      BY <2>1, <2>2 DEF LockInv
  <1>3. CASE ReleaseEntry(t)
    <2>1. LockTypeOK' /\ EntriesKept'
      BY <1>3 DEF ReleaseEntry, Move, LockInv, LockTypeOK, EntriesKept, LockSteps
    <2>2. \A u \in Threads \ {t} : Holds(u) => entry[u] # entry[t]
      BY <1>3 DEF ReleaseEntry, LockInv, HoldersHold, Holds
    <2>3. entry[t] \in mutexMap /\ entry[t] \in Keys
      BY <1>3 DEF ReleaseEntry, LockInv, EntriesKept
    <2>4. HoldersHold'
      BY <1>3, <2>2, <2>3, LockMapAssumption
      DEF ReleaseEntry, Move, LockInv, LockTypeOK, HoldersHold, Holds
    <2> QED
      BY <2>1, <2>4 DEF LockInv
  <1> QED
    BY <1>1, <1>2, <1>3

\* Every step keeps the invariant; a crash by the race starts from an empty map.
LEMMA LockInvStep == LockInv /\ [LockNext]_lockVars => LockInv'
  <1> SUFFICES ASSUME LockInv, [LockNext]_lockVars PROVE LockInv'
    OBVIOUS
  <1>1. CASE UNCHANGED lockVars
    BY <1>1 DEF lockVars, LockInv, LockTypeOK, EntriesKept, HoldersHold, Holds
  <1>2. CASE RaceCrash
    BY <1>2, LockMapAssumption
    DEF RaceCrash, LockInv, LockTypeOK, EntriesKept, HoldersHold, Holds, LockSteps
  <1>3. CASE LockNext /\ ~RaceCrash
    BY <1>3, EnterKeepsInv, LeaveKeepsInv DEF LockNext, LockStep
  <1> QED
    BY <1>1, <1>2, <1>3

\* The invariant implies mutual exclusion: a mutex has one holder.
LEMMA LockInvExcludes == LockInv => EntryExclusion
  BY DEF LockInv, LockTypeOK, EntriesKept, HoldersHold, EntryExclusion, Holds

(***************************************************************************)
(* Two goroutines are never between LockEntry and UnlockEntry of one entry *)
(* and UnlockEntry unlocks the caller's mutex, for any number of both.     *)
(***************************************************************************)
THEOREM LockMapExcludes == LockSpec => []EntryExclusion
  BY LockInvInit, LockInvStep, LockInvExcludes, PTL DEF LockSpec

\* A step of LockMap is a step of EntryLocks or changes nothing there.
LEMMA LockStepRefines ==
    ASSUME LockInv, LockInv', [LockNext]_lockVars
    PROVE  [Abstract!Next]_(Abstract!vars)
  <1> USE DEF Abstract!vars, Abstract!Next
  <1>1. CASE UNCHANGED lockVars
    BY <1>1 DEF lockVars, Wants
  <1>2. CASE RaceCrash
    <2>1. Abstract!Restart
      BY <1>2 DEF RaceCrash, Abstract!Restart, Wants
    <2> QED
      BY <2>1
  <1>3. ASSUME NEW t \in Threads, NEW k \in Keys, LockEntry(t, k)
        PROVE  [Abstract!Next]_(Abstract!vars)
    <2>1. Wants[t] = None /\ holder' = holder
      BY <1>3 DEF LockEntry, Wants
    <2>2. \A j \in Keys : holder[j] # t
      BY <1>3, LockMapAssumption DEF LockEntry, LockInv, HoldersHold, Holds
    <2>3. Wants' = [Wants EXCEPT ![t] = k]
      BY <1>3 DEF LockEntry, Move, Wants, LockInv, LockTypeOK
    <2>4. Abstract!Ask(t, k)
      BY <2>1, <2>2, <2>3 DEF Abstract!Ask
    <2> QED
      BY <2>4
  <1>4. ASSUME NEW t \in Threads, CheckEntry(t) \/ ReadEntry(t) \/ UnlockEntry(t)
        PROVE  [Abstract!Next]_(Abstract!vars)
    BY <1>4 DEF CheckEntry, ReadEntry, UnlockEntry, Move, Wants, LockInv, LockTypeOK
  <1>5. ASSUME NEW t \in Threads, addEntry(t)
        PROVE  [Abstract!Next]_(Abstract!vars)
    <2>1. holder[entry[t]] = None
      BY <1>5, LockMapAssumption
      DEF addEntry, LockInv, LockTypeOK, EntriesKept, HoldersHold, Holds
    <2>2. holder' = holder
      BY <1>5, <2>1 DEF addEntry, LockInv, LockTypeOK
    <2>3. Wants' = Wants
      BY <1>5 DEF addEntry, Move, Wants, LockInv, LockTypeOK
    <2> QED
      BY <2>2, <2>3
  <1>6. ASSUME NEW t \in Threads, AcquireEntry(t)
        PROVE  [Abstract!Next]_(Abstract!vars)
    <2>1. entry[t] \in Keys /\ entry[t] # None /\ Wants[t] = entry[t]
      BY <1>6, LockMapAssumption DEF AcquireEntry, Wants, LockInv, EntriesKept
    <2>2. holder[entry[t]] = None /\ holder' = [holder EXCEPT ![entry[t]] = t]
      BY <1>6 DEF AcquireEntry
    <2>3. Wants' = [Wants EXCEPT ![t] = None]
      BY <1>6 DEF AcquireEntry, Move, Wants, LockInv, LockTypeOK
    <2>4. Abstract!Grant(t)
      BY <2>1, <2>2, <2>3 DEF Abstract!Grant
    <2> QED
      BY <2>4
  <1>7. ASSUME NEW t \in Threads, ReleaseEntry(t)
        PROVE  [Abstract!Next]_(Abstract!vars)
    <2>1. entry[t] \in Keys /\ Abstract!Free(t, entry[t])
      BY <1>7 DEF ReleaseEntry, Move, Abstract!Free, Wants, LockInv, LockTypeOK,
                  EntriesKept, HoldersHold, Holds
    <2> QED
      BY <2>1
  <1> QED
    BY <1>1, <1>2, <1>3, <1>4, <1>5, <1>6, <1>7 DEF LockNext, LockStep

(***************************************************************************)
(* LockMap implements the safety part of EntryLocks: LockEntry asks for an *)
(* entry and is granted it only when it is free, UnlockEntry frees it, and *)
(* a crash by the race forgets all.                                        *)
(***************************************************************************)
THEOREM LockMapRefines == LockSpec => Abstract!Init /\ [][Abstract!Next]_(Abstract!vars)
  <1>1. LockInit => Abstract!Init
    BY DEF LockInit, NewLockMap, Abstract!Init, Wants
  <1> QED
    BY <1>1, LockInvInit, LockInvStep, LockStepRefines, PTL DEF LockSpec
=============================================================================
