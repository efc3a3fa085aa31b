---------------------------- MODULE MCAccountKeys ----------------------------
(***************************************************************************)
(* Two calls at a time: one of a class without secrets, one of another.    *)
(***************************************************************************)
EXTENDS AccountKeys, TLC

CONSTANTS c1, c2

PlainAndOthers == (c1 :> {"plain"}) @@ (c2 :> {"request", "dataPlane", "named"})
=============================================================================
