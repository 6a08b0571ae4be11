----------------------- MODULE SubscriptionRefinement -----------------------
(***************************************************************************)
(* The tenants' and the worker's part of Subscription implements           *)
(* BillingPromise, interrupted handlers included.                          *)
(***************************************************************************)
EXTENDS Subscription

\* The phase the company row stands for.
PhaseOf(c) ==
  CASE company[c] = None -> "unregistered"
    [] company[c] # None /\ company[c].status = "TRIAL" -> "trial"
    [] company[c] # None /\ company[c].status = "ACTIVE" -> "paid"
    [] company[c] # None /\ company[c].status = "SCHEDULED_CHANGE" -> "changing"
    [] OTHER -> "readonly"

OpenRequests(c) ==
  {r \in DOMAIN reqs : reqs[r].company = c /\ reqs[r].status = "PENDING_APPROVAL"}

Promise == INSTANCE BillingPromise WITH
  phase <- [c \in Companies |-> PhaseOf(c)],
  trialSpent <- [c \in Companies |-> Registered(c) /\ company[c].trialUsed],
  asked <- [c \in Companies |-> OpenRequests(c)]

\* Access opens only by a granted request of the company, the trial is entered
\* once, and only a deferred change takes effect by itself.
ImplementsPromise == Promise!Spec
=============================================================================
