--------------------------- MODULE MCSubscription ---------------------------
(* Small instances of Subscription for TLC. *)
EXTENDS SubscriptionRefinement

CONSTANTS c1, c2

\* One zero-priced plan beside the trial, and one with a price.
MCPlans == {"FREE", "CUSTOM", "PRO"}
MCPrice == [p \in MCPlans |-> IF p = "PRO" THEN 29900 ELSE 0]
\* A day for the trial and for CUSTOM, two days for PRO.
MCCycleSlots == [p \in MCPlans |-> IF p = "PRO" THEN 4 ELSE 2]

\* Without the plan that has a price, where CUSTOM comes and goes.
MCTwoPlans == {"FREE", "CUSTOM"}
MCTwoPrice == [p \in MCTwoPlans |-> 0]
MCTwoCycleSlots == [p \in MCTwoPlans |-> 2]
MCLongCycleSlots == [p \in MCTwoPlans |-> IF p = "CUSTOM" THEN 4 ELSE 2]

\* The superadmin adds a row on CUSTOM, clears a scheduled change, or moves the end
\* of a cycle and sets the row active, but suspended.
MCAdminCreates ==
  {[plan |-> "CUSTOM", slots |-> 2, status |-> "ACTIVE", active |-> TRUE]}
MCAdminUpdates ==
  {[schedPlan |-> None], [end |-> 1, active |-> TRUE, status |-> "SUSPENDED"]}
\* The company row is reopened by hand.
MCCompanyUpdates ==
  {[status |-> "ACTIVE", active |-> TRUE]}
=============================================================================
