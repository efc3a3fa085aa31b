-------------------------- MODULE MCSubnetEndpoints --------------------------
(***************************************************************************)
(* Keys that overlap: the text "a", the text "b,a", and no text at all.    *)
(***************************************************************************)
EXTENDS SubnetEndpoints

CONSTANTS a, b, one, two, all, c1, c2

Overlapping == [k \in Keys |-> IF k = one THEN <<a>> ELSE IF k = two THEN <<b, a>> ELSE <<>>]
=============================================================================
