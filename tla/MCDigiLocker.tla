---------------------------- MODULE MCDigiLocker ----------------------------
(* Instances of DigiLocker for TLC.  Employees, processes, sessions and      *)
(* holders are compared only by equality: their permutations are symmetries. *)
EXTENDS DigiLocker, TLC

Symmetry == Permutations(Employees) \cup Permutations(Procs)
              \cup Permutations(Sessions) \cup Permutations(Holders)
=============================================================================
