------------------------------- MODULE MCChat -------------------------------
(* Instances of Chat for TLC.                                               *)
EXTENDS Chat, TLC

CONSTANTS a, b

MCUsers == {a, b}
MCAllowed == {<<a, b>>, <<b, a>>}
Symmetry == Permutations(MCUsers)
=============================================================================
