----------------------- MODULE MCSubscriptionSessions -----------------------
(* A small instance of SubscriptionSessions for TLC. *)
EXTENDS SubscriptionSessions, TLC

MCPlans == {"FREE", "CUSTOM"}
MCPrice == [p \in MCPlans |-> 0]
MCCycleSlots == [p \in MCPlans |-> 1]
Symmetry == Permutations(Sessions)
=============================================================================
