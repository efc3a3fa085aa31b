----------------------------- MODULE EntryLocks -----------------------------
(***************************************************************************)
(* What a lock per entry promises to the goroutines that use it: an entry  *)
(* has at most one holder, only the holder frees it, and whoever asks for  *)
(* an entry that is free again and again gets it.  No part of it mentions  *)
(* a map of mutexes; LockMap is shown to implement it.                     *)
(***************************************************************************)
CONSTANTS Threads, Keys, None

VARIABLES
    wants,      \* the entry a thread waits for, or None
    holder      \* the thread that holds an entry, or None

vars == <<wants, holder>>

Init ==
    /\ wants = [t \in Threads |-> None]
    /\ holder = [k \in Keys |-> None]

Ask(t, k) ==
    /\ wants[t] = None
    /\ \A j \in Keys : holder[j] # t
    /\ wants' = [wants EXCEPT ![t] = k]
    /\ UNCHANGED holder

Grant(t) ==
    /\ wants[t] # None
    /\ holder[wants[t]] = None
    /\ holder' = [holder EXCEPT ![wants[t]] = t]
    /\ wants' = [wants EXCEPT ![t] = None]

Free(t, k) ==
    /\ holder[k] = t
    /\ holder' = [holder EXCEPT ![k] = None]
    /\ UNCHANGED wants

\* The process ends and comes back without any memory of its locks.
Restart ==
    /\ wants' = [t \in Threads |-> None]
    /\ holder' = [k \in Keys |-> None]

Next ==
    \/ \E t \in Threads, k \in Keys : Ask(t, k) \/ Free(t, k)
    \/ \E t \in Threads : Grant(t)
    \/ Restart

Spec == Init /\ [][Next]_vars /\ \A t \in Threads : SF_vars(Grant(t))
=============================================================================
