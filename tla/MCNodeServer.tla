---------------------------- MODULE MCNodeServer ----------------------------
(* Instances of NodeServer for TLC. *)
EXTENDS NodeServer, TLC

CONSTANTS s, t1, t2, h1, h2, h3, f1, f2, f3, bare

Symmetry == Permutations(Targets) \cup Permutations(Handlers) \cup Permutations(Fs)
=============================================================================
