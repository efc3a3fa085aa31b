---------------------------- MODULE MCNodeShared ----------------------------
(***************************************************************************)
(* Volumes of a node: one that signs in with a token file, and one of many *)
(* kinds, some of which use the same file.                                 *)
(***************************************************************************)
EXTENDS NodeShared, TLC

CONSTANTS v1, v2, f

Base == [inline |-> FALSE, protocol |-> "fuse", wiToken |-> "", clientID |-> FALSE,
         keyVault |-> FALSE, secrets |-> FALSE, secretName |-> FALSE, account |-> TRUE,
         authType |-> "", onlySecret |-> FALSE, file |-> f, suffix |-> "default"]

TokenVolume == [Base EXCEPT !.wiToken = "true", !.clientID = TRUE]

Keyed ==
    { [Base EXCEPT !.inline = i, !.secretName = s[1], !.authType = s[2]] :
        i \in BOOLEAN, s \in {<<FALSE, "">>, <<TRUE, "MSI">>, <<TRUE, "SPN">>} }

Kinds ==
    { TokenVolume,
      [Base EXCEPT !.inline = TRUE, !.wiToken = "True"],
      [Base EXCEPT !.wiToken = "True"],
      [Base EXCEPT !.clientID = TRUE],
      [Base EXCEPT !.secrets = TRUE],
      [Base EXCEPT !.keyVault = TRUE],
      [Base EXCEPT !.protocol = "nfs"],
      [Base EXCEPT !.protocol = "aznfs"],
      [Base EXCEPT !.protocol = "nfsv3"] } \cup Keyed

TokenAndOther == (v1 :> {TokenVolume}) @@ (v2 :> Kinds)

\* Two NFS volumes, one of them in another cloud.
TwoEndpoints ==
    (v1 :> {[Base EXCEPT !.protocol = "nfs"]})
    @@ (v2 :> {[Base EXCEPT !.protocol = "nfs", !.suffix = "custom"]})
=============================================================================
