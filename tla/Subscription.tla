---------------------------- MODULE Subscription ----------------------------
(***************************************************************************)
(* The billing core: app/services/subscription_service.py with the tables  *)
(* it writes.  A company row mirrors the billing data of its subscription  *)
(* rows, and every write check of the product reads the company row.       *)
(*                                                                         *)
(* Handlers run one at a time here (SubscriptionSessions interleaves       *)
(* them), but a handler makes several commits, so a crash or an exception  *)
(* may end it after any of them: the ...Interrupted actions, counted by    *)
(* crashes.                                                                *)
(*                                                                         *)
(* Time is counted in slots, two per day: slot 2d is [00:00, 00:15) of day *)
(* d and slot 2d+1 the rest of that day.  The expiry check is due at the   *)
(* beginning of an even slot, the scheduled-change job at the beginning of *)
(* an odd one (app/tasks/worker.py:133-137).  Cycles are whole days, so an *)
(* end date falls in the same kind of slot as its start date.              *)
(***************************************************************************)
EXTENDS Naturals, Sequences, FiniteSets

CONSTANTS
  Companies,     \* companies that may register
  Plans,         \* plan codes
  Free,          \* the code "FREE", the one-time trial
  SignupPlans,   \* the plan codes registration accepts
  MutablePlans,  \* plans the superadmin creates, activates or deactivates
  Price,         \* price_cents of each plan
  CycleSlots,    \* billing_cycle_days (trial_days for Free), in slots
  RequestTypes,  \* the request types tenants use
  AdminCreates,  \* payloads of POST /subscriptions
  AdminUpdates,  \* payloads of PUT /subscriptions/{id}
  CompanyUpdates,  \* payloads of PUT /companies/{id}
  None,          \* SQL NULL, and "no batch is running"
  MaxTime, MaxSubs, MaxRequests, MaxCrashes    \* bounds for TLC

PlanState == {"absent", "active", "inactive"}

BillingStatus == {"TRIAL", "ACTIVE", "PENDING_APPROVAL", "SCHEDULED_CHANGE",
                  "EXPIRED", "SUSPENDED", "CANCELLED"}

\* A company with one of these may use every write operation.
ACTIVE_STATUSES == {"TRIAL", "ACTIVE", "SCHEDULED_CHANGE"}

RequestStatus == {"PENDING_APPROVAL", "APPROVED", "REJECTED"}

CompanyRow == [plan : Plans, end : Nat, status : BillingStatus,
               active : BOOLEAN, trialUsed : BOOLEAN]

SubscriptionRow == [company : Companies, plan : Plans, end : Nat,
                    status : BillingStatus, active : BOOLEAN,
                    schedPlan : Plans \cup {None}, schedAt : Nat \cup {None}]

RequestRow == [company : Companies, type : RequestTypes, plan : Plans,
               immediate : BOOLEAN, status : RequestStatus]

\* The scheduled-change job between two rows: the rows it still has to apply,
\* and the row whose last assignment waits for the session's next commit.
Batch == [todo : SUBSET (Nat \ {0}), unsaved : Nat]

CreatePayload == [plan : Plans, slots : Nat, status : BillingStatus,
                  active : BOOLEAN]

UpdateFields == {"plan", "end", "status", "active", "schedPlan", "schedAt",
                 "trialUsed"}

CompanyFields == {"plan", "end", "status", "active", "trialUsed"}

ASSUME PlanAssumption ==
  /\ Free \in Plans
  /\ SignupPlans \subseteq Plans
  /\ MutablePlans \subseteq Plans
  /\ Price \in [Plans -> Nat]
  /\ CycleSlots \in [Plans -> Nat \ {0}]

ASSUME PayloadAssumption ==
  /\ RequestTypes \subseteq {"UPGRADE", "DOWNGRADE", "RENEWAL", "TRIAL_CONVERSION"}
  /\ AdminCreates \subseteq CreatePayload
  /\ \A e \in AdminUpdates : DOMAIN e \subseteq UpdateFields
  /\ \A e \in CompanyUpdates : DOMAIN e \subseteq CompanyFields
  /\ \A e \in AdminUpdates \cup CompanyUpdates :
       /\ "plan" \in DOMAIN e => e["plan"] \in Plans
       /\ "end" \in DOMAIN e => e["end"] \in Nat
       /\ "status" \in DOMAIN e => e["status"] \in BillingStatus
       /\ "active" \in DOMAIN e => e["active"] \in BOOLEAN
       /\ "trialUsed" \in DOMAIN e => e["trialUsed"] \in BOOLEAN
       /\ "schedPlan" \in DOMAIN e => e["schedPlan"] \in Plans \cup {None}
       /\ "schedAt" \in DOMAIN e => e["schedAt"] \in Nat \cup {None}

ASSUME NoneAssumption ==
  None \notin Plans /\ None \notin Nat /\ None \notin CompanyRow /\ None \notin Batch

VARIABLES
  now,        \* current slot
  catalog,    \* subscription_plans: does the plan exist, is it active
  company,    \* companies: the row, or None before registration
  subs,       \* subscriptions, in creation order
  reqs,       \* subscription_requests, in creation order
  batch,      \* the scheduled-change job while it runs, else None
  jobDue,     \* the 00:15 job of this day has not started yet
  checkedTo,  \* history: the instant the last complete expiry check covered
  crashes     \* handlers interrupted between two commits

vars == <<now, catalog, company, subs, reqs, batch, jobDue, checkedTo, crashes>>

TypeOK ==
  /\ now \in Nat
  /\ catalog \in [Plans -> PlanState]
  /\ company \in [Companies -> CompanyRow \cup {None}]
  /\ subs \in Seq(SubscriptionRow)
  /\ reqs \in Seq(RequestRow)
  /\ batch \in Batch \cup {None}
  /\ batch # None => batch.todo \subseteq DOMAIN subs
  /\ batch # None => batch.unsaved \in {0} \cup DOMAIN subs
  /\ jobDue \in BOOLEAN
  /\ checkedTo \in Nat
  /\ crashes \in Nat

Init ==
  /\ now = 0
  /\ catalog = [p \in Plans |-> IF p \in SignupPlans THEN "active" ELSE "absent"]
  /\ company = [c \in Companies |-> None]
  /\ subs = <<>>
  /\ reqs = <<>>
  /\ batch = None
  /\ jobDue = FALSE
  /\ checkedTo = 0
  /\ crashes = 0

-----------------------------------------------------------------------------
(* Queries *)

Idle == batch = None

Registered(c) == company[c] # None

\* ensure_mutation_allowed: the tenant's write operations are open.
Writable(c) == Registered(c) /\ company[c].status \in ACTIVE_STATUSES

Live(s) == subs[s].active /\ subs[s].status \in ACTIVE_STATUSES

RowsOf(c) == {s \in DOMAIN subs : subs[s].company = c}

LiveRows(c) == {s \in RowsOf(c) : Live(s)}

\* get_active_by_company returns the newest live row.
IsCurrent(s, c) == s \in LiveRows(c) /\ \A t \in LiveRows(c) : t <= s

\* get_plan_by_code finds the plan.
Offered(p) == catalog[p] = "active"

\* mutant: the trial is granted again
TrialAlways(c, p) == TRUE

TrialAllowed(c, p) == p = Free => ~company[c].trialUsed

StatusFor(p) == IF p = Free THEN "TRIAL" ELSE "ACTIVE"

CycleEnd(p) == now + CycleSlots[p]

-----------------------------------------------------------------------------
(* Rows as the service writes them *)

NewRow(c, p) ==
  [company |-> c, plan |-> p, end |-> CycleEnd(p), status |-> StatusFor(p),
   active |-> TRUE, schedPlan |-> None, schedAt |-> None]

\* mutant: the pending change survives the new plan
AppliedRowKeepsSchedule(row, p) ==
  [row EXCEPT !.plan = p, !.end = CycleEnd(p), !.status = StatusFor(p),
              !.active = TRUE]

AppliedRow(row, p) ==
  [row EXCEPT !.plan = p, !.end = CycleEnd(p), !.status = StatusFor(p),
              !.active = TRUE, !.schedPlan = None, !.schedAt = None]

\* mutant: the end date is not copied
AppliedCompanyKeepsEnd(co, p) ==
  [co EXCEPT !.plan = p, !.status = StatusFor(p), !.active = TRUE,
             !.trialUsed = @ \/ p = Free]

AppliedCompany(co, p) ==
  [co EXCEPT !.plan = p, !.end = CycleEnd(p), !.status = StatusFor(p),
             !.active = TRUE, !.trialUsed = @ \/ p = Free]

\* mutant: a status the enum does not have
ScheduledRowOffEnum(row, p) ==
  [row EXCEPT !.status = "SCHEDULED", !.schedPlan = p, !.schedAt = row.end]

ScheduledRow(row, p) ==
  [row EXCEPT !.status = "SCHEDULED_CHANGE", !.schedPlan = p, !.schedAt = row.end]

\* Only the status and the plan are copied: not the end date.
ScheduledCompany(co, row) ==
  [co EXCEPT !.status = "SCHEDULED_CHANGE", !.plan = row.plan]

ExpiredStatus(row) == IF row.status = "SUSPENDED" THEN "SUSPENDED" ELSE "EXPIRED"

\* mutant: the row stays active
ExpiredRowStaysActive(row) == [row EXCEPT !.status = ExpiredStatus(row)]

ExpiredRow(row) == [row EXCEPT !.status = ExpiredStatus(row), !.active = FALSE]

\* mutant: the company keeps its status
DeactivatedCompany(co, row) == [co EXCEPT !.active = FALSE]

ExpiredCompany(co, row) ==
  [co EXCEPT !.status = ExpiredStatus(row), !.active = FALSE]

PendingCompany(p) ==
  [plan |-> p, end |-> CycleEnd(Free), status |-> "PENDING_APPROVAL",
   active |-> TRUE, trialUsed |-> FALSE]

Crash == crashes < MaxCrashes /\ crashes' = crashes + 1

-----------------------------------------------------------------------------
(* Registration *)

\* register_saas_company, then initialize_company_subscription.
Register(c, p) ==
  /\ Idle /\ ~Registered(c) /\ p \in SignupPlans /\ Offered(p)
  /\ Len(subs) < MaxSubs
  /\ subs' = Append(subs, NewRow(c, p))
  /\ company' = [company EXCEPT ![c] = AppliedCompany(PendingCompany(p), p)]
  /\ UNCHANGED <<now, catalog, reqs, batch, jobDue, checkedTo, crashes>>

\* The plan is looked up only after the company and its admin were committed.
RegisterWithoutPlan(c, p) ==
  /\ Idle /\ ~Registered(c) /\ p \in SignupPlans /\ ~Offered(p)
  /\ company' = [company EXCEPT ![c] = PendingCompany(p)]
  /\ UNCHANGED <<now, catalog, subs, reqs, batch, jobDue, checkedTo, crashes>>

\* Interrupted after the commit of the company, or of the subscription row.
RegisterInterrupted(c, p) ==
  /\ Idle /\ ~Registered(c) /\ p \in SignupPlans /\ Offered(p)
  /\ company' = [company EXCEPT ![c] = PendingCompany(p)]
  /\ \/ subs' = subs
     \/ Len(subs) < MaxSubs /\ subs' = Append(subs, NewRow(c, p))
  /\ Crash
  /\ UNCHANGED <<now, catalog, reqs, batch, jobDue, checkedTo>>

-----------------------------------------------------------------------------
(* Change requests *)

\* request_subscription_change.  The proration compares the row's end date, a
\* naive timestamp, with an aware one: the handler raises TypeError before it
\* stores anything whenever the company has a row and the plan has a price.
RequestChange(c, type, p, immediate) ==
  /\ Idle /\ Registered(c) /\ Offered(p)
  /\ RowsOf(c) = {} \/ Price[p] = 0
  /\ Len(reqs) < MaxRequests
  /\ reqs' = Append(reqs, [company |-> c, type |-> type, plan |-> p,
                           immediate |-> immediate,
                           status |-> "PENDING_APPROVAL"])
  /\ UNCHANGED <<now, catalog, company, subs, batch, jobDue, checkedTo, crashes>>

\* mutant: a decided request may be reviewed again
ReviewableAgain(r) == Idle /\ Offered(reqs[r].plan)

\* A request can be decided, even rejected, only while its plan is offered.
Reviewable(r) ==
  /\ Idle
  /\ reqs[r].status = "PENDING_APPROVAL"
  /\ Offered(reqs[r].plan)

Decide(r, status) == reqs' = [reqs EXCEPT ![r].status = status]

Reject(r) ==
  /\ Reviewable(r)
  /\ Decide(r, "REJECTED")
  /\ UNCHANGED <<now, catalog, company, subs, batch, jobDue, checkedTo, crashes>>

Deferred(r, force) ==
  /\ reqs[r].type = "DOWNGRADE"
  /\ ~force /\ ~reqs[r].immediate
  /\ LiveRows(reqs[r].company) # {}

\* An approved downgrade waits for the end of the cycle.
ScheduleDowngrade(r, force) ==
  LET c == reqs[r].company IN
  /\ Reviewable(r) /\ Deferred(r, force)
  /\ \E s \in DOMAIN subs :
       /\ IsCurrent(s, c)
       /\ subs' = [subs EXCEPT ![s] = ScheduledRow(@, reqs[r].plan)]
       /\ company' = [company EXCEPT ![c] = ScheduledCompany(@, subs[s])]
  /\ Decide(r, "APPROVED")
  /\ UNCHANGED <<now, catalog, batch, jobDue, checkedTo, crashes>>

\* mutant: every approval adds a row
PlanAdded(c, p) == Len(subs) < MaxSubs /\ subs' = Append(subs, NewRow(c, p))

\* The rows _apply_subscription_plan leaves: the current row is overwritten, or
\* a row is added when the company has none that is live.
PlanApplied(c, p) ==
  \/ \E s \in DOMAIN subs :
       /\ IsCurrent(s, c)
       /\ subs' = [subs EXCEPT ![s] = AppliedRow(@, p)]
  \/ /\ LiveRows(c) = {}
     /\ Len(subs) < MaxSubs
     /\ subs' = Append(subs, NewRow(c, p))

Approve(r, force) ==
  LET c == reqs[r].company
      p == reqs[r].plan
  IN
  /\ Reviewable(r) /\ ~Deferred(r, force)
  /\ TrialAllowed(c, p)
  /\ PlanApplied(c, p)
  /\ company' = [company EXCEPT ![c] = AppliedCompany(@, p)]
  /\ Decide(r, "APPROVED")
  /\ UNCHANGED <<now, catalog, batch, jobDue, checkedTo, crashes>>

\* The plan is committed before the request is marked: interrupted in between,
\* the request stays pending.  A new row is committed before the company.
ApproveInterrupted(r, force) ==
  LET c == reqs[r].company
      p == reqs[r].plan
  IN
  /\ Reviewable(r) /\ ~Deferred(r, force)
  /\ TrialAllowed(c, p)
  /\ PlanApplied(c, p)
  /\ \/ company' = [company EXCEPT ![c] = AppliedCompany(@, p)]
     \/ LiveRows(c) = {} /\ company' = company
  /\ Crash
  /\ UNCHANGED <<now, catalog, reqs, batch, jobDue, checkedTo>>

-----------------------------------------------------------------------------
(* The expiry check: nightly, or POST /subscriptions/trigger-checks *)

\* mutant: rows that wait for a change are spared
ExpiredUnlessScheduled(cut) ==
  {s \in DOMAIN subs : /\ subs[s].active /\ subs[s].end < cut
                       /\ subs[s].status # "SCHEDULED_CHANGE"}

ExpiredBy(cut) == {s \in DOMAIN subs : subs[s].active /\ subs[s].end < cut}

\* The rows of a check that got through D; of a company with several of them
\* the last one decides (the query has no order).
Suspended(D) ==
  /\ subs' = [s \in DOMAIN subs |->
                IF s \in D THEN ExpiredRow(subs[s]) ELSE subs[s]]
  /\ \E last \in [{subs[s].company : s \in D} -> D] :
       /\ \A c \in DOMAIN last : subs[last[c]].company = c
       /\ company' = [c \in Companies |->
                        IF c \in DOMAIN last
                        THEN ExpiredCompany(company[c], subs[last[c]])
                        ELSE company[c]]

\* The query runs at an instant of this slot: rows ending in this slot may or
\* may not have ended.
SuspendExpired(cut) ==
  /\ Idle
  /\ cut \in {now, now + 1}
  /\ Suspended(ExpiredBy(cut))
  /\ checkedTo' = IF cut > checkedTo THEN cut ELSE checkedTo
  /\ UNCHANGED <<now, catalog, reqs, batch, jobDue, crashes>>

\* Every notification commits what the loop has done so far.
SuspendInterrupted(cut) ==
  /\ Idle
  /\ cut \in {now, now + 1}
  /\ \E D \in SUBSET ExpiredBy(cut) : D # {} /\ Suspended(D)
  /\ Crash
  /\ UNCHANGED <<now, catalog, reqs, batch, jobDue, checkedTo>>

-----------------------------------------------------------------------------
(* The scheduled-change job, 00:15 *)

\* mutant: the status is not part of the query
DueRowsAnyStatus ==
  {s \in DOMAIN subs : subs[s].schedAt # None /\ subs[s].schedAt < now}

\* mutant: the effective date is not part of the query
DueRowsEarly == {s \in DOMAIN subs : subs[s].status = "SCHEDULED_CHANGE"}

DueRows ==
  {s \in DOMAIN subs : /\ subs[s].status = "SCHEDULED_CHANGE"
                       /\ subs[s].schedAt # None
                       /\ subs[s].schedAt < now}

StartScheduledChanges ==
  /\ Idle /\ jobDue
  /\ jobDue' = FALSE
  /\ batch' = [todo |-> DueRows, unsaved |-> 0]
  /\ UNCHANGED <<now, catalog, company, subs, reqs, checkedTo, crashes>>

\* The loop sets ACTIVE on the row after its plan was applied and committed:
\* the next commit of the session stores it.
Saved(rows) ==
  [s \in DOMAIN rows |->
     IF s = batch.unsaved THEN [rows[s] EXCEPT !.status = "ACTIVE"] ELSE rows[s]]

Applicable(s) ==
  Offered(subs[s].schedPlan) /\ TrialAllowed(subs[s].company, subs[s].schedPlan)

ApplyScheduled(s) ==
  LET c == subs[s].company
      p == subs[s].schedPlan
  IN
  /\ ~Idle /\ s \in batch.todo
  /\ p # None /\ Applicable(s)
  /\ subs' = Saved([subs EXCEPT ![s] = AppliedRow(@, p)])
  /\ company' = [company EXCEPT ![c] = AppliedCompany(@, p)]
  /\ batch' = [todo |-> batch.todo \ {s}, unsaved |-> s]
  /\ UNCHANGED <<now, catalog, reqs, jobDue, checkedTo, crashes>>

SkipScheduled(s) ==
  /\ ~Idle /\ s \in batch.todo
  /\ subs[s].schedPlan = None
  /\ batch' = [batch EXCEPT !.todo = @ \ {s}]
  /\ UNCHANGED <<now, catalog, company, subs, reqs, jobDue, checkedTo, crashes>>

\* An HTTPException of one row ends the job: the rows after it wait a day.
AbortScheduledChanges(s) ==
  /\ ~Idle /\ s \in batch.todo
  /\ subs[s].schedPlan # None /\ ~Applicable(s)
  /\ batch' = None
  /\ UNCHANGED <<now, catalog, company, subs, reqs, jobDue, checkedTo, crashes>>

FinishScheduledChanges ==
  /\ ~Idle /\ batch.todo = {}
  /\ subs' = Saved(subs)
  /\ batch' = None
  /\ UNCHANGED <<now, catalog, company, reqs, jobDue, checkedTo, crashes>>

ScheduledChangesInterrupted ==
  /\ ~Idle
  /\ batch' = None
  /\ Crash
  /\ UNCHANGED <<now, catalog, company, subs, reqs, jobDue, checkedTo>>

-----------------------------------------------------------------------------
(* Superadmin operations *)

CreatedRow(c, e) ==
  [company |-> c, plan |-> e.plan, end |-> now + e.slots, status |-> e.status,
   active |-> e.active, schedPlan |-> None, schedAt |-> None]

\* trial_used is left as it was, whatever the plan.
CreatedCompany(co, e) ==
  [co EXCEPT !.plan = e.plan, !.end = now + e.slots, !.status = e.status,
             !.active = e.active]

\* create_subscription: a second row, older ones keep their state, and the
\* company's trial flag is neither checked nor set.
CreateSubscription(c, e) ==
  /\ Idle /\ Registered(c) /\ Offered(e.plan)
  /\ Len(subs) < MaxSubs
  /\ subs' = Append(subs, CreatedRow(c, e))
  /\ company' = [company EXCEPT ![c] = CreatedCompany(@, e)]
  /\ UNCHANGED <<now, catalog, reqs, batch, jobDue, checkedTo, crashes>>

CreateSubscriptionInterrupted(c, e) ==
  /\ Idle /\ Registered(c) /\ Offered(e.plan)
  /\ Len(subs) < MaxSubs
  /\ subs' = Append(subs, CreatedRow(c, e))
  /\ Crash
  /\ UNCHANGED <<now, catalog, company, reqs, batch, jobDue, checkedTo>>

Updated(row, e) ==
  [f \in DOMAIN row |-> IF f \in DOMAIN e THEN e[f] ELSE row[f]]

\* The fields of the payload, and a scheduled plan as the company's plan.
MirroredUpdate(co, e) ==
  LET set == Updated(co, e) IN
  IF "schedPlan" \in DOMAIN e /\ e["schedPlan"] # None
  THEN [set EXCEPT !.plan = e["schedPlan"]]
  ELSE set

\* update_subscription of any row of the company, current or not: the row is
\* committed first, then the company.
UpdateSubscription(s, e) ==
  LET c == subs[s].company IN
  /\ Idle
  /\ subs' = [subs EXCEPT ![s] = Updated(@, e)]
  /\ company' = [company EXCEPT ![c] = MirroredUpdate(@, e)]
  /\ UNCHANGED <<now, catalog, reqs, batch, jobDue, checkedTo, crashes>>

UpdateSubscriptionInterrupted(s, e) ==
  /\ Idle
  /\ subs' = [subs EXCEPT ![s] = Updated(@, e)]
  /\ Crash
  /\ UNCHANGED <<now, catalog, company, reqs, batch, jobDue, checkedTo>>

\* PUT /companies/{id} is open to a superadmin, and to a member while the write
\* check holds; the route sets four fields of an ADMIN's or HR's payload to NULL,
\* which their columns refuse.
EditsCompany(role, c) ==
  \/ role = "SUPERADMIN"
  \/ role = "EMPLOYEE" /\ Writable(c)

\* update_company: billing fields like any other, and no subscription row.
UpdateCompany(role, c, e) ==
  /\ Idle /\ Registered(c) /\ EditsCompany(role, c)
  /\ company' = [company EXCEPT ![c] = Updated(@, e)]
  /\ UNCHANGED <<now, catalog, subs, reqs, batch, jobDue, checkedTo, crashes>>

\* create_plan, and update_plan's is_active.
SetPlan(p, state) ==
  /\ Idle /\ p \in MutablePlans
  /\ state \in {"active", "inactive"}
  /\ catalog' = [catalog EXCEPT ![p] = state]
  /\ UNCHANGED <<now, company, subs, reqs, batch, jobDue, checkedTo, crashes>>

-----------------------------------------------------------------------------
\* The jobs of a day are missed when the worker is down at their time.
Tick ==
  /\ Idle /\ now < MaxTime
  /\ now' = now + 1
  /\ jobDue' = (now' % 2 = 1)
  /\ UNCHANGED <<catalog, company, subs, reqs, batch, checkedTo, crashes>>

\* Everything but the direct writes of subscription and company rows.
TenantNext ==
  \/ \E c \in Companies, p \in Plans :
       Register(c, p) \/ RegisterWithoutPlan(c, p) \/ RegisterInterrupted(c, p)
  \/ \E c \in Companies, t \in RequestTypes, p \in Plans, i \in BOOLEAN :
       RequestChange(c, t, p, i)
  \/ \E r \in DOMAIN reqs : Reject(r)
  \/ \E r \in DOMAIN reqs, force \in BOOLEAN :
       ScheduleDowngrade(r, force) \/ Approve(r, force) \/ ApproveInterrupted(r, force)
  \/ \E cut \in {now, now + 1} : SuspendExpired(cut) \/ SuspendInterrupted(cut)
  \/ StartScheduledChanges
  \/ \E s \in DOMAIN subs :
       ApplyScheduled(s) \/ SkipScheduled(s) \/ AbortScheduledChanges(s)
  \/ FinishScheduledChanges
  \/ ScheduledChangesInterrupted
  \/ \E p \in Plans, state \in PlanState : SetPlan(p, state)
  \/ Tick

AdminWrite ==
  \/ \E c \in Companies, e \in AdminCreates :
       CreateSubscription(c, e) \/ CreateSubscriptionInterrupted(c, e)
  \/ \E s \in DOMAIN subs, e \in AdminUpdates :
       UpdateSubscription(s, e) \/ UpdateSubscriptionInterrupted(s, e)
  \/ \E role \in {"SUPERADMIN", "EMPLOYEE"}, c \in Companies, e \in CompanyUpdates :
       UpdateCompany(role, c, e)

Next == TenantNext \/ AdminWrite

TenantSpec == Init /\ [][TenantNext]_vars

Spec == Init /\ [][Next]_vars

-----------------------------------------------------------------------------
(* Safety of the tenants' and the worker's operations (TenantSpec) *)

\* A company never has two live subscription rows: approvals overwrite the live
\* row, and only a company without one gets a new row.
OneLiveRow ==
  \A s, t \in DOMAIN subs :
    Live(s) /\ Live(t) /\ subs[s].company = subs[t].company => s = t

\* The statuses a company may have while its live row has another: a scheduled
\* change to the trial leaves the row ACTIVE and the company on TRIAL.
SameStatus(co, row) ==
  \/ co.status = row.status
  \/ co.status = "TRIAL" /\ row.status = "ACTIVE" /\ row.plan = Free

\* The company row opens write operations only on the strength of a live
\* subscription row on the same plan, whatever was interrupted: the quota code
\* reads limits from that row, the write check from the company.
WritableBacked ==
  \A c \in Companies :
    Writable(c) => \E s \in LiveRows(c) :
                     /\ subs[s].plan = company[c].plan
                     /\ SameStatus(company[c], subs[s])

\* As long as no handler was interrupted, the copy on the company row is exact:
\* a live row means a writable, active company with the row's end date.
MirrorExact ==
  crashes = 0 =>
    \A s \in DOMAIN subs :
      Live(s) => /\ Writable(subs[s].company)
                 /\ company[subs[s].company].active
                 /\ company[subs[s].company].end = subs[s].end

\* A live row whose change is pending changes exactly at the end of its cycle,
\* and no other live row carries a change.
ScheduleSound ==
  \A s \in DOMAIN subs :
    Live(s) => IF subs[s].status = "SCHEDULED_CHANGE"
               THEN subs[s].schedPlan # None /\ subs[s].schedAt = subs[s].end
               ELSE subs[s].schedPlan = None /\ subs[s].schedAt = None

\* After a complete expiry check the company of every row that had ended is
\* read-only until a later decision gives it a new cycle.
ExpiredIsReadOnly ==
  \A c \in Companies :
    Writable(c) => \E s \in LiveRows(c) : subs[s].end >= checkedTo

\* Once the trial is used, no step starts another one or prolongs it.
TrialNotRepeated ==
  [][\A c \in Companies :
       Registered(c) /\ company[c].trialUsed /\ company'[c].status = "TRIAL"
         => /\ company[c].status = "TRIAL"
            /\ company'[c].end = company[c].end]_vars

\* Request r is decided as approved in this step, or its approval is
\* interrupted after the plan was committed.
Approved(r) ==
  /\ reqs[r].status = "PENDING_APPROVAL"
  /\ reqs'[r].status = "APPROVED" \/ crashes' # crashes

\* A company that was read-only gets write access back only by the approval of
\* a pending request of that company: no job reopens it.
ReopenedByApproval ==
  [][\A c \in Companies :
       Registered(c) /\ ~Writable(c) /\ Writable(c)'
         => \E r \in DOMAIN reqs : reqs[r].company = c /\ Approved(r)]_vars

\* The plan of an existing row changes only to what an approved request of its
\* company asked for, to its scheduled plan after the cycle has ended, or by the
\* superadmin's own write.
PlanChangeJustified ==
  [][\A s \in DOMAIN subs :
       subs'[s].plan # subs[s].plan
         => \/ \E r \in DOMAIN reqs : /\ reqs[r].company = subs[s].company
                                      /\ reqs[r].plan = subs'[s].plan
                                      /\ Approved(r)
            \/ /\ subs[s].schedPlan = subs'[s].plan
               /\ subs[s].end < now
            \/ AdminWrite]_vars

\* Row s is active though it had ended at the last complete expiry check.
Overdue(s) == subs[s].active /\ subs[s].end < checkedTo

\* The superadmin adds row s, or writes its end or whether it is active.
TermWritten(s) ==
  /\ AdminWrite
  /\ s \in DOMAIN subs => \/ subs'[s].active # subs[s].active
                          \/ subs'[s].end # subs[s].end

\* A complete check closes every row that had ended, those the superadmin reopened
\* included, and nothing else than his own write of that row makes one active again:
\* no approval, scheduled change, interrupted handler or write of another field.
EndedRowsStayClosed ==
  [][/\ \A s \in DOMAIN subs' :
          Overdue(s)' => \/ s \in DOMAIN subs /\ Overdue(s)
                         \/ TermWritten(s)
     /\ \A cut \in {now, now + 1} :
          SuspendExpired(cut) =>
            \A s \in DOMAIN subs' : subs'[s].active => subs'[s].end >= cut]_vars

\* A decided request is final, and the rows a check has expired are history.
DecisionsFinal ==
  [][/\ \A r \in DOMAIN reqs :
          reqs[r].status # "PENDING_APPROVAL" => reqs'[r] = reqs[r]
     /\ \A s \in DOMAIN subs :
          subs[s].status = "EXPIRED" => subs'[s] = subs[s]]_vars

-----------------------------------------------------------------------------
(* What the documentation says of the module, and the code does not do *)

\* IMPLEMENTATION_NOTES.md: "scheduled downgrades at the next billing cycle".  An
\* approved downgrade takes effect when the cycle ends, so a row is not expired
\* with its change still pending.
DowngradeNotLost ==
  \A s \in DOMAIN subs : subs[s].status = "EXPIRED" => subs[s].schedPlan = None
=============================================================================
