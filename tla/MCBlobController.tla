-------------------------- MODULE MCBlobController --------------------------
(* Instances of BlobController for TLC. *)
EXTENDS BlobController, TLC

CONSTANTS v1, v2, a1, a2, uc, h1, h2, j1, j2, j3, key

Symmetry == Permutations(Handlers) \cup Permutations(JobIds)

\* A volume of a storage class without parameters.
Plain == [account |-> None, secrets |-> FALSE, secretName |-> FALSE,
          userNamed |-> FALSE, clone |-> FALSE, srcAccount |-> a1, src |-> uc,
          storeKey |-> TRUE, dataPlane |-> FALSE, search |-> key]
Clone == [Plain EXCEPT !.clone = TRUE]

OneClone == v1 :> Clone
TwoClones == v1 :> [Clone EXCEPT !.storeKey = FALSE] @@ v2 :> [Clone EXCEPT !.storeKey = FALSE]
\* The source of the clone may be on another account.
FarClone == v1 :> [Clone EXCEPT !.srcAccount = a2]
FarDataPlaneClone == v1 :> [Clone EXCEPT !.srcAccount = a2, !.dataPlane = TRUE]
\* A plain volume beside its clone into a container the user named.
PlainAndUserNamed ==
    v1 :> [Plain EXCEPT !.storeKey = FALSE]
    @@ v2 :> [Clone EXCEPT !.userNamed = TRUE, !.storeKey = FALSE, !.src = v1]
=============================================================================
