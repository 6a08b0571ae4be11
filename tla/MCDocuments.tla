---------------------------- MODULE MCDocuments ----------------------------
(* Instances of Documents for TLC.  Sessions and names are compared only by *)
(* equality, so their permutations are symmetries.                          *)
EXTENDS Documents, TLC

Symmetry == Permutations(Sessions) \cup Permutations(Names)
=============================================================================
