------------------------------- MODULE MCMail -------------------------------
(* Instances of Mail for TLC.  No symmetry: liveness is checked.            *)
EXTENDS Mail

CONSTANTS p1, p2

MCProcs == {p1, p2}
=============================================================================
