------------------------------- MODULE LockMap -------------------------------
(***************************************************************************)
(* util.LockMap: a map from strings to mutexes with a mutex of its own,    *)
(* step by step.  LockEntry inserts under the map's mutex, but looks the   *)
(* entry up again after it let that mutex go, so a lookup can meet an      *)
(* insertion of another entry: a data race on a Go map, which ends in the  *)
(* right mutex or in a crash of the process ("concurrent map read and map  *)
(* write", or a nil mutex).                                                *)
(***************************************************************************)
EXTENDS Naturals

CONSTANTS
    Threads,        \* goroutines that use the map
    Keys,           \* entries
    MaxCrashes,     \* bound: crashes by the data race
    None

ASSUME LockMapAssumption ==
    /\ None \notin Threads \cup Keys
    /\ MaxCrashes \in Nat

VARIABLES
    mapMutex,   \* holder of the embedded sync.Mutex while the map is written
    mutexMap,   \* the entries in the map
    holder,     \* holder of the mutex of an entry
    at,         \* next step of a thread inside the LockMap
    entry,      \* argument of the call a thread is in, or the entry it holds
    crashes     \* number of crashes

lockVars == <<mapMutex, mutexMap, holder, at, entry, crashes>>

LockSteps == {"out", "lock", "adding", "reading", "waiting", "in", "unlock"}

LockTypeOK ==
    /\ mapMutex \in Threads \cup {None}
    /\ mutexMap \subseteq Keys
    /\ holder \in [Keys -> Threads \cup {None}]
    /\ at \in [Threads -> LockSteps]
    /\ entry \in [Threads -> Keys \cup {None}]
    /\ crashes \in 0..MaxCrashes

NewLockMap ==
    /\ mapMutex = None
    /\ mutexMap = {}
    /\ holder = [k \in Keys |-> None]
    /\ at = [t \in Threads |-> "out"]
    /\ entry = [t \in Threads |-> None]

LockInit == NewLockMap /\ crashes = 0
-----------------------------------------------------------------------------
Move(t, to) == at' = [at EXCEPT ![t] = to]

\* LockEntry is called.
LockEntry(t, k) ==
    /\ at[t] = "out"
    /\ Move(t, "lock")
    /\ entry' = [entry EXCEPT ![t] = k]
    /\ UNCHANGED <<mapMutex, mutexMap, holder, crashes>>

\* Mutant: a mutex is stored whether or not the entry has one.
CheckAlwaysAdds(t) ==
    /\ at[t] = "lock"
    /\ mapMutex = None
    /\ Move(t, "adding")
    /\ mapMutex' = t
    /\ UNCHANGED <<mutexMap, holder, entry, crashes>>

\* lm.Lock() and the check; without an insertion lm.Unlock() follows at once.
CheckEntry(t) ==
    /\ at[t] = "lock"
    /\ mapMutex = None
    /\ \/ /\ entry[t] \in mutexMap
          /\ Move(t, "reading")
          /\ UNCHANGED mapMutex
       \/ /\ entry[t] \notin mutexMap
          /\ Move(t, "adding")
          /\ mapMutex' = t
    /\ UNCHANGED <<mutexMap, holder, entry, crashes>>

\* addEntry stores a new mutex, then lm.Unlock().
addEntry(t) ==
    /\ at[t] = "adding"
    /\ mutexMap' = mutexMap \cup {entry[t]}
    /\ holder' = [holder EXCEPT ![entry[t]] = None]
    /\ mapMutex' = None
    /\ Move(t, "reading")
    /\ UNCHANGED <<entry, crashes>>

\* lockEntry finds the mutex in the map, without the map's mutex.
ReadEntry(t) ==
    /\ at[t] = "reading"
    /\ Move(t, "waiting")
    /\ UNCHANGED <<mapMutex, mutexMap, holder, entry, crashes>>

\* Mutant: the lock is tried again and again instead of waited for.
AcquireSpins(t) ==
    /\ at[t] = "waiting"
    /\ IF holder[entry[t]] = None
       THEN holder' = [holder EXCEPT ![entry[t]] = t] /\ Move(t, "in")
       ELSE Move(t, "lock") /\ UNCHANGED holder
    /\ UNCHANGED <<mapMutex, mutexMap, entry, crashes>>

\* The mutex of the entry is acquired and LockEntry returns.
AcquireEntry(t) ==
    /\ at[t] = "waiting"
    /\ holder[entry[t]] = None
    /\ holder' = [holder EXCEPT ![entry[t]] = t]
    /\ Move(t, "in")
    /\ UNCHANGED <<mapMutex, mutexMap, entry, crashes>>

\* UnlockEntry is called.
UnlockEntry(t) ==
    /\ at[t] = "in"
    /\ Move(t, "unlock")
    /\ UNCHANGED <<mapMutex, mutexMap, holder, entry, crashes>>

\* Mutant: the mutex of the entry is not unlocked.
ReleaseNothing(t) ==
    /\ at[t] = "unlock"
    /\ mapMutex = None
    /\ Move(t, "out")
    /\ entry' = [entry EXCEPT ![t] = None]
    /\ UNCHANGED <<mapMutex, mutexMap, holder, crashes>>

\* The body of UnlockEntry, under the map's mutex.
ReleaseEntry(t) ==
    /\ at[t] = "unlock"
    /\ mapMutex = None
    /\ holder' = IF entry[t] \in mutexMap
                 THEN [holder EXCEPT ![entry[t]] = None] ELSE holder
    /\ Move(t, "out")
    /\ entry' = [entry EXCEPT ![t] = None]
    /\ UNCHANGED <<mapMutex, mutexMap, crashes>>

\* A thread looks an entry up while another one inserts.
MapRace == \E t, u \in Threads : at[t] = "reading" /\ at[u] = "adding"

\* The race ends in a crash; the process starts again with an empty map.
RaceCrash ==
    /\ MapRace
    /\ crashes < MaxCrashes
    /\ crashes' = crashes + 1
    /\ mapMutex' = None
    /\ mutexMap' = {}
    /\ holder' = [k \in Keys |-> None]
    /\ at' = [t \in Threads |-> "out"]
    /\ entry' = [t \in Threads |-> None]

LockStep(t) ==
    \/ CheckEntry(t) \/ addEntry(t) \/ ReadEntry(t)
    \/ AcquireEntry(t) \/ ReleaseEntry(t)

LockNext ==
    \/ \E t \in Threads, k \in Keys : LockEntry(t, k)
    \/ \E t \in Threads : LockStep(t) \/ UnlockEntry(t)
    \/ RaceCrash

LockSpec == LockInit /\ [][LockNext]_lockVars
-----------------------------------------------------------------------------
Holds(t) == at[t] \in {"in", "unlock"}

(***************************************************************************)
(* Two threads never are between LockEntry and the end of UnlockEntry of   *)
(* one entry, and the mutex that UnlockEntry unlocks is the one that its   *)
(* caller locked (anything else is a fatal error in Go).                   *)
(***************************************************************************)
EntryExclusion ==
    \A t \in Threads : Holds(t) =>
        /\ holder[entry[t]] = t
        /\ entry[t] \in mutexMap
        /\ \A u \in Threads \ {t} : Holds(u) => entry[u] # entry[t]

(***************************************************************************)
(* LockMap implements a lock per entry.  A thread wants an entry from the  *)
(* call of LockEntry until it gets the mutex.                              *)
(***************************************************************************)
Wants == [t \in Threads |->
            IF at[t] \in {"lock", "adding", "reading", "waiting"} THEN entry[t] ELSE None]

Abstract == INSTANCE EntryLocks WITH wants <- Wants
=============================================================================
