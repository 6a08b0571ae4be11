--------------------------- MODULE BillingPromise ---------------------------
(***************************************************************************)
(* What the billing core promises a company, without rows, cycles, commits *)
(* or jobs: access is opened by deciding one of its requests, the trial    *)
(* happens once, and a deferred change is the only thing that takes effect *)
(* without a decision of its own.                                          *)
(***************************************************************************)
EXTENDS Naturals

CONSTANT Companies

VARIABLES
  phase,       \* what the company may do
  trialSpent,  \* it has had its trial
  asked        \* its requests that wait for a decision

vars == <<phase, trialSpent, asked>>

OpenPhase == {"trial", "paid", "changing"}
Phase == {"unregistered", "readonly"} \cup OpenPhase

TypeOK ==
  /\ phase \in [Companies -> Phase]
  /\ trialSpent \in [Companies -> BOOLEAN]
  /\ asked \in [Companies -> SUBSET Nat]

Init ==
  /\ phase = [c \in Companies |-> "unregistered"]
  /\ trialSpent = [c \in Companies |-> FALSE]
  /\ asked = [c \in Companies |-> {}]

\* Company c moves to ph; the trial is only for those that have not had it.
Enter(c, ph) ==
  /\ ph = "trial" => ~trialSpent[c]
  /\ phase' = [phase EXCEPT ![c] = ph]
  /\ trialSpent' = [trialSpent EXCEPT ![c] = @ \/ ph = "trial"]

Register(c) ==
  /\ phase[c] = "unregistered"
  /\ \E ph \in {"readonly", "trial", "paid"} : Enter(c, ph)
  /\ UNCHANGED asked

Ask(c) ==
  /\ phase[c] # "unregistered"
  /\ \E r \in asked'[c] \ asked[c] :
       r \in Nat /\ asked' = [asked EXCEPT ![c] = @ \cup {r}]
  /\ UNCHANGED <<phase, trialSpent>>

Refuse(c) ==
  /\ \E r \in asked[c] : asked' = [asked EXCEPT ![c] = @ \ {r}]
  /\ UNCHANGED <<phase, trialSpent>>

\* A granted request is closed; an interrupted grant may take effect and leave
\* its request open, or be cut off before the company has noticed.
Grant(c) ==
  /\ \E ph \in OpenPhase : Enter(c, ph)
  /\ \E r \in asked[c] : asked' = [asked EXCEPT ![c] = @ \ {r}] \/ UNCHANGED asked

\* The deferred change takes effect.
Change(c) ==
  /\ phase[c] = "changing"
  /\ \E ph \in {"trial", "paid"} : Enter(c, ph)
  /\ UNCHANGED asked

\* Cycles end, of any number of companies at once.
Lapse ==
  /\ \E ended \in SUBSET {c \in Companies : phase[c] # "unregistered"} :
       phase' = [c \in Companies |-> IF c \in ended THEN "readonly" ELSE phase[c]]
  /\ UNCHANGED <<trialSpent, asked>>

Next ==
  \/ \E c \in Companies :
       Register(c) \/ Ask(c) \/ Refuse(c) \/ Grant(c) \/ Change(c)
  \/ Lapse

Spec == Init /\ [][Next]_vars
=============================================================================
