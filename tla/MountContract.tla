--------------------------- MODULE MountContract ---------------------------
(***************************************************************************)
(* What the node service promises of a volume that is staged once and then *)
(* bound for every pod, as far as its user, the kubelet, can see: a path   *)
(* changes only between a call for it and the answer, the answer says what *)
(* is there, and the staging path is not unmounted under a pod.  No part   *)
(* of it mentions handlers, locks, directories or mount commands;          *)
(* NodeServer is shown to implement it.                                    *)
(***************************************************************************)
CONSTANTS Staging, Targets

VARIABLES
    told,       \* what the kubelet was told of a path: "no", "yes" or "unknown"
    mounted     \* the paths on which something is mounted

vars == <<told, mounted>>

Paths == Targets \cup {Staging}
Unpublished == \A t \in Targets : told[t] = "no"

Init ==
    /\ told = [p \in Paths |-> "no"]
    /\ mounted = {}

\* A call: the volume is published while it is staged, unpublished where it may
\* be, staged unless it is, and unstaged after the last pod.
Ask(p) ==
    /\ IF p = Staging THEN told[Staging] # "yes" \/ Unpublished
       ELSE told[Staging] = "yes" \/ told[p] # "no"
    /\ told' = [told EXCEPT ![p] = "unknown"]
    /\ UNCHANGED mounted

\* Something is mounted on a path, or nothing is any more.
Change(p) ==
    \/ mounted' = mounted \cup {p}
    \/ mounted' = mounted \ {p} /\ (p = Staging => Unpublished)
    \/ UNCHANGED mounted

\* While a call is under way, or was given up, its path may change.
Work(p) == told[p] = "unknown" /\ Change(p) /\ UNCHANGED told

Answer(p, b) ==
    /\ told[p] = "unknown"
    /\ Change(p)
    /\ b = "yes" => p \in mounted'
    /\ b = "no" => p \notin mounted'
    /\ told' = [told EXCEPT ![p] = b]

\* The kubelet restarts and has to ask again.
Forget ==
    /\ told' = [p \in Paths |-> IF told[p] = "yes" THEN "unknown" ELSE told[p]]
    /\ UNCHANGED mounted

Next ==
    \/ \E p \in Paths : Ask(p) \/ Work(p)
    \/ \E p \in Paths, b \in {"no", "unknown", "yes"} : Answer(p, b)
    \/ Forget

Spec == Init /\ [][Next]_vars
=============================================================================
