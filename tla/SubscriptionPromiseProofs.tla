---------------------- MODULE SubscriptionPromiseProofs ----------------------
(***************************************************************************)
(* What a step of the tenants' and the worker's part of Subscription may   *)
(* never do, and that this part implements BillingPromise: for every set   *)
(* of companies and plans, every price list and every bound.               *)
(***************************************************************************)
EXTENDS SubscriptionProofs, SubscriptionRefinement

-----------------------------------------------------------------------------
(* The invariant: what each row says beside AccessInv *)

\* A row is active exactly as long as its status gives access.
ActiveMatches(s) == subs[s].active <=> subs[s].status \in ACTIVE_STATUSES

\* The pending change of row s, if it is live.
ChangeSound(s) ==
  Live(s) => IF subs[s].status = "SCHEDULED_CHANGE"
             THEN subs[s].schedPlan # None /\ subs[s].schedAt = subs[s].end
             ELSE subs[s].schedPlan = None /\ subs[s].schedAt = None

\* A row waits for its change only while its company does.
ChangeMirrored(s) ==
  subs[s].status = "SCHEDULED_CHANGE"
    => company[subs[s].company].status = "SCHEDULED_CHANGE"

EndMirrored(s) ==
  crashes = 0 /\ Live(s) => /\ Writable(subs[s].company)
                            /\ company[subs[s].company].active
                            /\ company[subs[s].company].end = subs[s].end

RowSound(s) == ActiveMatches(s) /\ ChangeSound(s) /\ ChangeMirrored(s) /\ EndMirrored(s)

RowsSound == \A s \in DOMAIN subs : RowSound(s)

\* The rows a batch still has to apply have reached their date.
BatchDue ==
  batch # None => \A s \in batch.todo : subs[s].schedAt \in Nat /\ subs[s].schedAt < now

TenantInv == TypeInv /\ AccessInv /\ RowsSound /\ BatchDue

-----------------------------------------------------------------------------
(* What the steps write *)

\* A row that does not exist yet, or one that a step leaves, is told from the
\* others by the company's only live row.
LEMMA CurrentRow ==
  ASSUME TypeInv, AccessInv, NEW c, NEW s \in DOMAIN subs, IsCurrent(s, c)
  PROVE  /\ subs[s].company = c /\ Live(s)
         /\ \A t \in LiveRows(c) : t = s
BY DEF IsCurrent, LiveRows, RowsOf, AccessInv, OneLiveRow

\* The decision writes the status of one request.
LEMMA DecidedRequest ==
  ASSUME TypeInv, NEW r \in DOMAIN reqs, NEW status, Decide(r, status)
  PROVE  /\ DOMAIN reqs' = DOMAIN reqs
         /\ \A q \in DOMAIN reqs : q # r => reqs'[q] = reqs[q]
         /\ reqs'[r].status = status
         /\ reqs'[r].company = reqs[r].company
<1>1. reqs[r] \in RequestRow
  BY TypeFacts
<1>. QED
  BY <1>1 DEF Decide, RequestRow

\* The fields of the rows and companies written.
LEMMA AppliedFields ==
  ASSUME NEW p \in Plans, NEW row \in SubscriptionRow, NEW co \in CompanyRow
  PROVE  /\ AppliedRow(row, p).company = row.company
         /\ AppliedRow(row, p).plan = p
         /\ AppliedRow(row, p).end = CycleEnd(p)
         /\ AppliedRow(row, p).status = StatusFor(p)
         /\ AppliedRow(row, p).active
         /\ AppliedRow(row, p).schedPlan = None
         /\ AppliedRow(row, p).schedAt = None
         /\ AppliedCompany(co, p).plan = p
         /\ AppliedCompany(co, p).end = CycleEnd(p)
         /\ AppliedCompany(co, p).status = StatusFor(p)
         /\ AppliedCompany(co, p).active
         /\ AppliedCompany(co, p).trialUsed = (co.trialUsed \/ p = Free)
BY DEF AppliedRow, AppliedCompany, SubscriptionRow, CompanyRow

LEMMA StatusForOpen ==
  ASSUME NEW p
  PROVE  /\ StatusFor(p) \in ACTIVE_STATUSES
         /\ StatusFor(p) # "SCHEDULED_CHANGE"
         /\ StatusFor(p) = "TRIAL" <=> p = Free
BY DEF StatusFor, ACTIVE_STATUSES

\* Registration writes the row of a company that had none, and perhaps a first
\* subscription row.
LEMMA RegistrationEffect ==
  ASSUME TypeInv, NEW c \in Companies, NEW p \in Plans,
         Register(c, p) \/ RegisterWithoutPlan(c, p) \/ RegisterInterrupted(c, p)
  PROVE  /\ company[c] = None /\ LiveRows(c) = {} /\ Idle
         /\ \A t \in DOMAIN subs : subs[t].company # c
         /\ \A r \in DOMAIN reqs : reqs[r].company # c
         /\ \A d \in Companies : d # c => company'[d] = company[d]
         /\ UNCHANGED <<now, reqs, batch, checkedTo>>
         /\ \/ /\ company'[c] = AppliedCompany(PendingCompany(p), p)
               /\ subs' = Append(subs, NewRow(c, p))
               /\ UNCHANGED crashes
            \/ /\ company'[c] = PendingCompany(p)
               /\ \/ subs' = subs /\ crashes' \in {crashes, crashes + 1}
                  \/ subs' = Append(subs, NewRow(c, p)) /\ crashes' = crashes + 1
<1>1. company[c] = None
  BY DEF Register, RegisterWithoutPlan, RegisterInterrupted, Registered
<1>2. /\ \A t \in DOMAIN subs : subs[t].company # c
      /\ \A r \in DOMAIN reqs : reqs[r].company # c
  BY <1>1 DEF TypeInv, OwnersRegistered, Registered
<1>3. LiveRows(c) = {}
  BY <1>2 DEF LiveRows, RowsOf
<1>4. CASE Register(c, p)
  BY <1>1, <1>2, <1>3, <1>4 DEF Register, TypeInv, TypeOK
<1>5. CASE RegisterWithoutPlan(c, p)
  BY <1>1, <1>2, <1>3, <1>5 DEF RegisterWithoutPlan, TypeInv, TypeOK
<1>6. CASE RegisterInterrupted(c, p)
  BY <1>1, <1>2, <1>3, <1>6 DEF RegisterInterrupted, Crash, TypeInv, TypeOK
<1>. QED
  BY <1>4, <1>5, <1>6

\* A scheduled downgrade writes the current row, the company and the request.
LEMMA ScheduleEffect ==
  ASSUME TypeInv, AccessInv, NEW r \in DOMAIN reqs, NEW force,
         ScheduleDowngrade(r, force)
  PROVE  \E s \in DOMAIN subs :
           /\ subs[s].company = reqs[r].company /\ Live(s)
           /\ \A t \in LiveRows(reqs[r].company) : t = s
           /\ DOMAIN subs' = DOMAIN subs
           /\ \A t \in DOMAIN subs : t # s => subs'[t] = subs[t]
           /\ subs'[s] = ScheduledRow(subs[s], reqs[r].plan)
           /\ \A d \in Companies : d # reqs[r].company => company'[d] = company[d]
           /\ company'[reqs[r].company] = ScheduledCompany(company[reqs[r].company], subs[s])
           /\ Idle /\ reqs[r].status = "PENDING_APPROVAL"
           /\ Decide(r, "APPROVED")
           /\ UNCHANGED <<now, batch, checkedTo, crashes>>
<1>. DEFINE c == reqs[r].company
            p == reqs[r].plan
<1>1. PICK s \in DOMAIN subs :
        /\ IsCurrent(s, c)
        /\ subs' = [subs EXCEPT ![s] = ScheduledRow(subs[s], p)]
        /\ company' = [company EXCEPT ![c] = ScheduledCompany(company[c], subs[s])]
  BY DEF ScheduleDowngrade
<1>2. subs[s].company = c /\ Live(s) /\ \A t \in LiveRows(c) : t = s
  BY <1>1, CurrentRow
<1>3. c \in Companies
  BY TypeFacts
<1>. QED
  BY <1>1, <1>2, <1>3 DEF ScheduleDowngrade, Reviewable, TypeInv, TypeOK

\* An applied plan overwrites the only live row of the company, or adds one.
LEMMA PlanAppliedEffect ==
  ASSUME TypeInv, AccessInv, NEW c \in Companies, NEW p \in Plans,
         company[c] # None, PlanApplied(c, p)
  PROVE  \E s \in DOMAIN subs' :
           /\ DOMAIN subs' = DOMAIN subs \cup {s}
           /\ \A t \in DOMAIN subs : t # s => subs'[t] = subs[t]
           /\ \A t \in LiveRows(c) : t = s
           /\ s \in DOMAIN subs => Live(s)
           /\ s \in DOMAIN subs => subs[s].company = c
           /\ s \notin DOMAIN subs => LiveRows(c) = {}
           /\ subs'[s].company = c /\ subs'[s].plan = p
           /\ subs'[s].end = CycleEnd(p) /\ subs'[s].status = StatusFor(p)
           /\ subs'[s].active
           /\ subs'[s].schedPlan = None /\ subs'[s].schedAt = None
<1>1. CASE \E s \in DOMAIN subs : /\ IsCurrent(s, c)
                                  /\ subs' = [subs EXCEPT ![s] = AppliedRow(@, p)]
  <2>1. PICK s \in DOMAIN subs : /\ IsCurrent(s, c)
                                 /\ subs' = [subs EXCEPT ![s] = AppliedRow(subs[s], p)]
    BY <1>1
  <2>2. subs[s].company = c /\ Live(s) /\ \A t \in LiveRows(c) : t = s
    BY <2>1, CurrentRow
  <2>3. /\ DOMAIN subs' = DOMAIN subs
        /\ \A t \in DOMAIN subs : t # s => subs'[t] = subs[t]
        /\ subs'[s] = AppliedRow(subs[s], p)
    BY <2>1
  <2>4. subs[s] \in SubscriptionRow /\ company[c] \in CompanyRow
    BY TypeFacts
  <2>5. /\ subs'[s].company = c /\ subs'[s].plan = p
        /\ subs'[s].end = CycleEnd(p) /\ subs'[s].status = StatusFor(p)
        /\ subs'[s].active
        /\ subs'[s].schedPlan = None /\ subs'[s].schedAt = None
    BY <2>2, <2>3, <2>4, AppliedFields
  <2>. QED
    BY <2>2, <2>3, <2>5
<1>2. CASE LiveRows(c) = {} /\ subs' = Append(subs, NewRow(c, p))
  <2>1. NewRow(c, p) \in SubscriptionRow /\ subs \in Seq(SubscriptionRow)
    BY TypeFacts, NewRowType DEF TypeInv, TypeOK
  <2>2. /\ DOMAIN subs' = DOMAIN subs \cup {Len(subs) + 1}
        /\ Len(subs) + 1 \notin DOMAIN subs
        /\ \A j \in DOMAIN subs : subs'[j] = subs[j]
        /\ subs'[Len(subs) + 1] = NewRow(c, p)
    BY <1>2, <2>1, InsertedRow
  <2>. QED
    BY <1>2, <2>2 DEF NewRow
<1>. QED
  BY <1>1, <1>2 DEF PlanApplied

\* So a row that is not live stays, and a row that changes is the company's and
\* gets the plan.
LEMMA PlanAppliedRows ==
  ASSUME TypeInv, AccessInv, NEW c \in Companies, NEW p \in Plans,
         company[c] # None, PlanApplied(c, p), NEW u \in DOMAIN subs
  PROVE  \/ subs'[u] = subs[u]
         \/ /\ Live(u) /\ subs[u].company = c
            /\ subs'[u].plan = p
<1>1. PICK s \in DOMAIN subs' :
        /\ DOMAIN subs' = DOMAIN subs \cup {s}
        /\ \A t \in DOMAIN subs : t # s => subs'[t] = subs[t]
        /\ \A t \in LiveRows(c) : t = s
        /\ s \in DOMAIN subs => Live(s)
        /\ s \in DOMAIN subs => subs[s].company = c
        /\ s \notin DOMAIN subs => LiveRows(c) = {}
        /\ subs'[s].company = c /\ subs'[s].plan = p
        /\ subs'[s].end = CycleEnd(p) /\ subs'[s].status = StatusFor(p)
        /\ subs'[s].active
        /\ subs'[s].schedPlan = None /\ subs'[s].schedAt = None
  BY PlanAppliedEffect
<1>. QED
  BY <1>1

\* An approval also writes the company, unless it is cut off before that.
LEMMA ApproveEffect ==
  ASSUME TypeInv, NEW r \in DOMAIN reqs, NEW force,
         Approve(r, force) \/ ApproveInterrupted(r, force)
  PROVE  LET c == reqs[r].company
             p == reqs[r].plan
         IN
         /\ Idle /\ reqs[r].status = "PENDING_APPROVAL"
         /\ p = Free => ~company[c].trialUsed
         /\ PlanApplied(c, p)
         /\ \A d \in Companies : d # c => company'[d] = company[d]
         /\ \/ /\ company'[c] = AppliedCompany(company[c], p)
               /\ Decide(r, "APPROVED") /\ UNCHANGED crashes
            \/ /\ \/ company'[c] = AppliedCompany(company[c], p)
                  \/ LiveRows(c) = {} /\ company'[c] = company[c]
               /\ crashes' = crashes + 1 /\ UNCHANGED reqs
         /\ UNCHANGED <<now, batch, checkedTo>>
<1>. DEFINE c == reqs[r].company
<1>1. c \in Companies
  BY TypeFacts
<1>2. CASE Approve(r, force)
  BY <1>1, <1>2 DEF Approve, Reviewable, TrialAllowed, TypeInv, TypeOK
<1>3. CASE ApproveInterrupted(r, force)
  BY <1>1, <1>3 DEF ApproveInterrupted, Reviewable, TrialAllowed, Crash, TypeInv, TypeOK
<1>. QED
  BY <1>2, <1>3

\* The expiry check closes the rows of D, and with them their companies.
LEMMA SuspendedEffect ==
  ASSUME TypeInv, NEW D \in SUBSET (DOMAIN subs), Suspended(D)
  PROVE  /\ DOMAIN subs' = DOMAIN subs
         /\ \A s \in DOMAIN subs \ D : subs'[s] = subs[s]
         /\ \A s \in D : /\ subs'[s].company = subs[s].company
                         /\ subs'[s].plan = subs[s].plan
                         /\ ~subs'[s].active
                         /\ subs'[s].status \in {"EXPIRED", "SUSPENDED"}
         /\ \A c \in Companies :
              \/ company'[c] = company[c] /\ \A s \in D : subs[s].company # c
              \/ /\ company[c] \in CompanyRow
                 /\ \E s \in D : subs[s].company = c
                 /\ company'[c].status \in {"EXPIRED", "SUSPENDED"}
                 /\ company'[c].trialUsed = company[c].trialUsed
                 /\ company'[c] # None
<1>1. /\ DOMAIN subs' = DOMAIN subs
      /\ \A s \in DOMAIN subs : subs'[s] = IF s \in D THEN ExpiredRow(subs[s]) ELSE subs[s]
  BY DEF Suspended
<1>2. ASSUME NEW s \in D
      PROVE  /\ subs'[s].company = subs[s].company
             /\ subs'[s].plan = subs[s].plan
             /\ ~subs'[s].active
             /\ subs'[s].status \in {"EXPIRED", "SUSPENDED"}
  <2>1. subs[s] \in SubscriptionRow /\ subs'[s] = ExpiredRow(subs[s])
    BY <1>1, TypeFacts
  <2>. QED
    BY <2>1 DEF ExpiredRow, ExpiredStatus, SubscriptionRow
<1>3. PICK last \in [{subs[s].company : s \in D} -> D] :
        /\ \A d \in DOMAIN last : subs[last[d]].company = d
        /\ company' = [d \in Companies |-> IF d \in DOMAIN last
                                           THEN ExpiredCompany(company[d], subs[last[d]])
                                           ELSE company[d]]
  BY DEF Suspended
<1>4. ASSUME NEW c \in Companies, c \in DOMAIN last
      PROVE  /\ company[c] \in CompanyRow
             /\ \E s \in D : subs[s].company = c
             /\ company'[c].status \in {"EXPIRED", "SUSPENDED"}
             /\ company'[c].trialUsed = company[c].trialUsed
             /\ company'[c] # None
  <2>1. PICK s \in D : subs[s].company = c
    BY <1>3, <1>4
  <2>2. /\ company[c] \in CompanyRow /\ subs[last[c]] \in SubscriptionRow
        /\ company'[c] = ExpiredCompany(company[c], subs[last[c]])
    BY <1>3, <1>4, <2>1, TypeFacts
  <2>3. company'[c] \in CompanyRow
    BY <2>2, ExpiredCompanyType
  <2>. QED
    BY <2>1, <2>2, <2>3, NoneAssumption DEF ExpiredCompany, ExpiredStatus, CompanyRow
<1>5. \A c \in Companies : c \notin DOMAIN last
                             => company'[c] = company[c] /\ \A s \in D : subs[s].company # c
  BY <1>3
<1>. QED
  BY <1>1, <1>2, <1>4, <1>5

\* The job applies row s, which is the company's only live row, and stores the
\* deferred assignment of the row before it.
LEMMA ApplyEffect ==
  ASSUME TypeInv, AccessInv, NEW s \in DOMAIN subs, ApplyScheduled(s)
  PROVE  LET c == subs[s].company
             p == subs[s].schedPlan
         IN
         /\ p \in Plans /\ s \in batch.todo /\ batch # None
         /\ subs[s].status = "SCHEDULED_CHANGE" /\ Live(s)
         /\ \A t \in LiveRows(c) : t = s
         /\ p = Free => ~company[c].trialUsed
         /\ DOMAIN subs' = DOMAIN subs
         /\ subs'[s] = AppliedRow(subs[s], p)
         /\ \A t \in DOMAIN subs : t # s => Kept(t)
         /\ \A t \in batch.todo : t # s => subs'[t] = subs[t]
         /\ \A d \in Companies : d # c => company'[d] = company[d]
         /\ company'[c] = AppliedCompany(company[c], p)
         /\ batch' = [todo |-> batch.todo \ {s}, unsaved |-> s]
         /\ UNCHANGED <<now, reqs, checkedTo, crashes>>
<1>. DEFINE c == subs[s].company
            p == subs[s].schedPlan
            u == batch.unsaved
            rows == [subs EXCEPT ![s] = AppliedRow(subs[s], p)]
<1>1. /\ c \in Companies /\ p \in Plans
      /\ batch # None /\ s \in batch.todo
      /\ subs' = Saved(rows)
      /\ p = Free => ~company[c].trialUsed
      /\ company' = [company EXCEPT ![c] = AppliedCompany(company[c], p)]
      /\ batch' = [todo |-> batch.todo \ {s}, unsaved |-> s]
      /\ UNCHANGED <<now, reqs, checkedTo, crashes>>
  BY TypeFacts DEF ApplyScheduled, Applicable, TrialAllowed, Idle
<1>2. /\ u # s /\ subs[s].status = "SCHEDULED_CHANGE" /\ subs[s].active
      /\ \A t \in batch.todo : t # u
  BY <1>1 DEF AccessInv, BatchWaits, ChangingRows
<1>3. Live(s) /\ \A t \in LiveRows(c) : t = s
  BY <1>2 DEF AccessInv, OneLiveRow, LiveRows, RowsOf, Live, ACTIVE_STATUSES
<1>4. /\ DOMAIN rows = DOMAIN subs
      /\ rows[s] = AppliedRow(subs[s], p)
      /\ \A t \in DOMAIN subs : t # s => rows[t] = subs[t]
  OBVIOUS
<1>5. /\ DOMAIN subs' = DOMAIN subs
      /\ \A t \in DOMAIN subs :
           subs'[t] = IF t = u THEN [rows[t] EXCEPT !.status = "ACTIVE"] ELSE rows[t]
  BY <1>1, <1>4 DEF Saved
<1>6. u \in DOMAIN subs => subs[u].active /\ subs[u].status = StatusFor(subs[u].plan)
  <2>1. 0 \notin DOMAIN subs
    BY LenProperties DEF TypeInv, TypeOK
  <2>. QED
    BY <1>1, <2>1 DEF AccessInv, UnsavedApplied
<1>7. /\ subs'[s] = AppliedRow(subs[s], p)
      /\ \A t \in DOMAIN subs : t # s => Kept(t)
      /\ \A t \in batch.todo : t # s => subs'[t] = subs[t]
  <2>1. batch.todo \subseteq DOMAIN subs
    BY <1>1 DEF TypeInv, TypeOK
  <2>. QED
    BY <1>2, <1>4, <1>5, <1>6, <2>1 DEF Kept
<1>8. /\ \A d \in Companies : d # c => company'[d] = company[d]
      /\ company'[c] = AppliedCompany(company[c], p)
  BY <1>1 DEF TypeInv, TypeOK
<1>. QED
  BY <1>1, <1>2, <1>3, <1>5, <1>7, <1>8

\* The end of the job stores its last assignment.
LEMMA FinishEffect ==
  ASSUME TypeInv, AccessInv, FinishScheduledChanges
  PROVE  /\ batch' = None
         /\ DOMAIN subs' = DOMAIN subs /\ \A t \in DOMAIN subs : Kept(t)
         /\ UNCHANGED <<now, company, reqs, checkedTo, crashes>>
<1>1. /\ batch # None /\ batch' = None /\ subs' = Saved(subs)
      /\ UNCHANGED <<now, company, reqs, checkedTo, crashes>>
  BY DEF FinishScheduledChanges, Idle
<1>2. 0 \notin DOMAIN subs
  BY LenProperties DEF TypeInv, TypeOK
<1>. QED
  BY <1>1, <1>2 DEF AccessInv, UnsavedApplied, Saved, Kept

-----------------------------------------------------------------------------
(* The invariant is kept *)

\* A row that the step keeps stays sound, unless the company of a live row is
\* written.
LEMMA KeptRowSound ==
  ASSUME TypeInv, NEW t \in DOMAIN subs, RowSound(t), Kept(t),
         crashes' = 0 => crashes = 0,
         company'[subs[t].company] = company[subs[t].company] \/ ~Live(t)
  PROVE  RowSound(t)'
<1>1. /\ subs'[t].company = subs[t].company
      /\ subs'[t].end = subs[t].end
      /\ subs'[t].active = subs[t].active
      /\ Live(t)' <=> Live(t)
      /\ subs'[t].status = "SCHEDULED_CHANGE" => subs[t].status = "SCHEDULED_CHANGE"
  BY KeptRow
<1>2. subs[t] \in SubscriptionRow /\ ActiveMatches(t)
  BY TypeFacts DEF RowSound
<1>3. CASE subs'[t] = subs[t]
  <2>1. ActiveMatches(t)' /\ ChangeSound(t)'
    BY <1>1, <1>3 DEF RowSound, ActiveMatches, ChangeSound
  <2>2. ChangeMirrored(t)' /\ EndMirrored(t)'
    BY <1>1, <1>2, <1>3 DEF RowSound, ActiveMatches, ChangeMirrored, EndMirrored, Live,
                            Writable, Registered, ACTIVE_STATUSES
  <2>. QED
    BY <2>1, <2>2 DEF RowSound
<1>4. CASE /\ subs[t].active /\ subs[t].status = StatusFor(subs[t].plan)
           /\ subs'[t] = [subs[t] EXCEPT !.status = "ACTIVE"]
  <2>1. /\ subs'[t].status = "ACTIVE"
        /\ subs'[t].schedPlan = subs[t].schedPlan
        /\ subs'[t].schedAt = subs[t].schedAt
        /\ subs[t].status # "SCHEDULED_CHANGE"
        /\ Live(t)
    BY <1>2, <1>4, StatusForOpen DEF SubscriptionRow, Live
  <2>2. ActiveMatches(t)' /\ ChangeSound(t)' /\ ChangeMirrored(t)'
    BY <1>1, <1>4, <2>1 DEF RowSound, ActiveMatches, ChangeSound, ChangeMirrored, ACTIVE_STATUSES
  <2>3. EndMirrored(t)'
    BY <1>1, <2>1 DEF RowSound, EndMirrored, Writable, Registered
  <2>. QED
    BY <2>2, <2>3 DEF RowSound
<1>. QED
  BY <1>3, <1>4 DEF Kept

\* A step that keeps every row, and writes no company with a live row.
LEMMA KeptRowsSound ==
  ASSUME TypeInv, RowsSound,
         DOMAIN subs' = DOMAIN subs,
         \A t \in DOMAIN subs : Kept(t),
         crashes' = 0 => crashes = 0,
         \A t \in DOMAIN subs :
           company'[subs[t].company] = company[subs[t].company] \/ ~Live(t)
  PROVE  RowsSound'
BY KeptRowSound DEF RowsSound

\* A step that writes or inserts the only live row s of company c.
LEMMA OneRowSound ==
  ASSUME TypeInv, RowsSound,
         NEW c \in Companies, NEW s \in DOMAIN subs',
         \A t \in DOMAIN subs' : t # s => t \in DOMAIN subs /\ Kept(t),
         \A t \in LiveRows(c) : t = s,
         \A d \in Companies : d # c => company'[d] = company[d],
         crashes' = 0 => crashes = 0,
         RowSound(s)'
  PROVE  RowsSound'
<1>. SUFFICES ASSUME NEW t \in DOMAIN subs', t # s
              PROVE  RowSound(t)'
  BY DEF RowsSound
<1>1. t \in DOMAIN subs /\ Kept(t) /\ RowSound(t) /\ subs[t].company \in Companies
  BY TypeFacts DEF RowsSound
<1>2. company'[subs[t].company] = company[subs[t].company] \/ ~Live(t)
  BY <1>1 DEF LiveRows, RowsOf
<1>. QED
  BY <1>1, <1>2, KeptRowSound

\* A row on plan p that starts a new cycle, mirrored unless the step was cut off.
LEMMA NewCycleSound ==
  ASSUME NEW s, NEW c \in Companies, NEW p \in Plans,
         subs'[s].company = c, subs'[s].active,
         subs'[s].status = StatusFor(p),
         subs'[s].schedPlan = None, subs'[s].schedAt = None,
         crashes' = 0 => /\ company'[c].status = StatusFor(p)
                         /\ company'[c].active
                         /\ company'[c].end = subs'[s].end
                         /\ company'[c] # None
  PROVE  RowSound(s)'
<1>1. StatusFor(p) \in ACTIVE_STATUSES /\ StatusFor(p) # "SCHEDULED_CHANGE"
  BY StatusForOpen
<1>. QED
  BY <1>1 DEF RowSound, ActiveMatches, ChangeSound, ChangeMirrored, EndMirrored,
              Writable, Registered

\* The inserted row of company c, mirrored unless the step was cut off.
LEMMA InsertedSound ==
  ASSUME TypeInv, RowsSound, NEW c \in Companies, NEW p \in Plans,
         LiveRows(c) = {},
         subs' = Append(subs, NewRow(c, p)),
         \A d \in Companies : d # c => company'[d] = company[d],
         crashes' = 0 => crashes = 0,
         crashes' = 0 => /\ company'[c].status = StatusFor(p)
                         /\ company'[c].active
                         /\ company'[c].end = CycleEnd(p)
                         /\ company'[c] # None
  PROVE  RowsSound'
<1>1. NewRow(c, p) \in SubscriptionRow /\ subs \in Seq(SubscriptionRow)
  BY TypeFacts, NewRowType DEF TypeInv, TypeOK
<1>2. PICK s \in DOMAIN subs' :
        /\ DOMAIN subs' = DOMAIN subs \cup {s}
        /\ \A t \in DOMAIN subs : subs'[t] = subs[t]
        /\ subs'[s] = NewRow(c, p)
  BY <1>1, InsertedRow
<1>3. RowSound(s)'
  <2>1. /\ subs'[s].company = c /\ subs'[s].active
        /\ subs'[s].status = StatusFor(p) /\ subs'[s].end = CycleEnd(p)
        /\ subs'[s].schedPlan = None /\ subs'[s].schedAt = None
    BY <1>2 DEF NewRow
  <2>. QED
    BY <2>1, NewCycleSound
<1>. QED
  BY <1>2, <1>3, OneRowSound DEF Kept

LEMMA SoundRegistration ==
  ASSUME TypeInv, RowsSound, NEW c \in Companies, NEW p \in Plans,
         Register(c, p) \/ RegisterWithoutPlan(c, p) \/ RegisterInterrupted(c, p)
  PROVE  RowsSound'
<1>1. /\ company[c] = None /\ LiveRows(c) = {}
      /\ \A t \in DOMAIN subs : subs[t].company # c
      /\ \A d \in Companies : d # c => company'[d] = company[d]
      /\ crashes \in Nat
  BY RegistrationEffect DEF TypeInv, TypeOK
<1>2. CASE /\ company'[c] = AppliedCompany(PendingCompany(p), p)
           /\ subs' = Append(subs, NewRow(c, p))
           /\ UNCHANGED crashes
  <2>1. PendingCompany(p) \in CompanyRow
    BY TypeFacts, PendingCompanyType
  <2>2. company'[c] \in CompanyRow
    BY <1>2, <2>1, TypeFacts, AppliedCompanyType
  <2>3. /\ company'[c].status = StatusFor(p) /\ company'[c].active
        /\ company'[c].end = CycleEnd(p)
    BY <1>2, <2>1 DEF AppliedCompany, CompanyRow
  <2>. QED
    BY <1>1, <1>2, <2>2, <2>3, NoneAssumption, InsertedSound
<1>3. CASE subs' = Append(subs, NewRow(c, p)) /\ crashes' = crashes + 1
  BY <1>1, <1>3, InsertedSound
<1>4. CASE subs' = subs /\ crashes' \in {crashes, crashes + 1}
  <2>1. crashes' = 0 => crashes = 0
    BY <1>1, <1>4
  <2>2. \A t \in DOMAIN subs : company'[subs[t].company] = company[subs[t].company]
    BY <1>1, TypeFacts
  <2>. QED
    BY <1>4, <2>1, <2>2, KeptRowsSound DEF Kept
<1>. QED
  BY <1>2, <1>3, <1>4, RegistrationEffect

LEMMA SoundSchedule ==
  ASSUME TypeInv, AccessInv, RowsSound, NEW r \in DOMAIN reqs, NEW force,
         ScheduleDowngrade(r, force)
  PROVE  RowsSound'
<1>. DEFINE c == reqs[r].company
            p == reqs[r].plan
<1>1. c \in Companies /\ p \in Plans /\ company[c] \in CompanyRow
  BY TypeFacts
<1>2. PICK s \in DOMAIN subs :
        /\ subs[s].company = c /\ Live(s) /\ \A t \in LiveRows(c) : t = s
        /\ DOMAIN subs' = DOMAIN subs
        /\ \A t \in DOMAIN subs : t # s => subs'[t] = subs[t]
        /\ subs'[s] = ScheduledRow(subs[s], p)
        /\ \A d \in Companies : d # c => company'[d] = company[d]
        /\ company'[c] = ScheduledCompany(company[c], subs[s])
        /\ UNCHANGED crashes
  BY ScheduleEffect
<1>3. subs[s] \in SubscriptionRow /\ RowSound(s)
  BY TypeFacts DEF RowsSound
<1>4. /\ subs'[s].company = c /\ subs'[s].status = "SCHEDULED_CHANGE"
      /\ subs'[s].active /\ subs'[s].end = subs[s].end
      /\ subs'[s].schedPlan = p /\ subs'[s].schedAt = subs[s].end
  BY <1>2, <1>3 DEF ScheduledRow, SubscriptionRow, Live
<1>5. /\ company'[c] \in CompanyRow
      /\ company'[c].status = "SCHEDULED_CHANGE"
      /\ company'[c].active = company[c].active /\ company'[c].end = company[c].end
  BY <1>1, <1>2, <1>3, ScheduledCompanyType DEF ScheduledCompany, CompanyRow
<1>6. p # None /\ company'[c] # None
  BY <1>1, <1>5, NoneAssumption
<1>7. RowSound(s)'
  BY <1>2, <1>3, <1>4, <1>5, <1>6
     DEF RowSound, ActiveMatches, ChangeSound, ChangeMirrored, EndMirrored,
         Writable, Registered, ACTIVE_STATUSES
<1>. QED
  BY <1>1, <1>2, <1>7, OneRowSound DEF Kept

LEMMA SoundApprove ==
  ASSUME TypeInv, AccessInv, RowsSound, NEW r \in DOMAIN reqs, NEW force,
         Approve(r, force) \/ ApproveInterrupted(r, force)
  PROVE  RowsSound'
<1>. DEFINE c == reqs[r].company
            p == reqs[r].plan
<1>1. /\ c \in Companies /\ p \in Plans /\ company[c] \in CompanyRow /\ company[c] # None
      /\ crashes \in Nat
  BY TypeFacts, NoneAssumption DEF TypeInv, TypeOK
<1>2. /\ PlanApplied(c, p)
      /\ \A d \in Companies : d # c => company'[d] = company[d]
      /\ \/ company'[c] = AppliedCompany(company[c], p) /\ UNCHANGED crashes
         \/ crashes' = crashes + 1
  BY ApproveEffect
<1>. HIDE DEF c, p
<1>3. PICK s \in DOMAIN subs' :
        /\ DOMAIN subs' = DOMAIN subs \cup {s}
        /\ \A t \in DOMAIN subs : t # s => subs'[t] = subs[t]
        /\ \A t \in LiveRows(c) : t = s
        /\ s \in DOMAIN subs => Live(s)
        /\ s \in DOMAIN subs => subs[s].company = c
        /\ s \notin DOMAIN subs => LiveRows(c) = {}
        /\ subs'[s].company = c /\ subs'[s].plan = p
        /\ subs'[s].end = CycleEnd(p) /\ subs'[s].status = StatusFor(p)
        /\ subs'[s].active
        /\ subs'[s].schedPlan = None /\ subs'[s].schedAt = None
  BY <1>1, <1>2, PlanAppliedEffect, SMTT(30)
<1>4. crashes' = 0 => /\ crashes = 0
                      /\ company'[c].status = StatusFor(p)
                      /\ company'[c].active
                      /\ company'[c].end = CycleEnd(p)
                      /\ company'[c] # None
  <2>1. ASSUME company'[c] = AppliedCompany(company[c], p)
        PROVE  /\ company'[c].status = StatusFor(p) /\ company'[c].active
               /\ company'[c].end = CycleEnd(p) /\ company'[c] # None
    <3>1. company'[c] \in CompanyRow
      BY <1>1, <2>1, TypeFacts, AppliedCompanyType
    <3>. QED
      BY <1>1, <2>1, <3>1, NoneAssumption DEF AppliedCompany, CompanyRow
  <2>. QED
    BY <1>1, <1>2, <2>1
<1>5. RowSound(s)'
  BY <1>1, <1>3, <1>4, NewCycleSound
<1>. QED
  BY <1>1, <1>2, <1>3, <1>4, <1>5, OneRowSound DEF Kept

LEMMA SoundSuspend ==
  ASSUME TypeInv, AccessInv, RowsSound, NEW cut \in {now, now + 1},
         SuspendExpired(cut) \/ SuspendInterrupted(cut)
  PROVE  RowsSound'
<1>1. PICK D \in SUBSET ExpiredBy(cut) : Suspended(D)
  BY DEF SuspendExpired, SuspendInterrupted
<1>2. /\ D \in SUBSET (DOMAIN subs)
      /\ \A s \in D : subs[s].active
  BY DEF ExpiredBy
<1>3. crashes' = 0 => crashes = 0
  BY DEF SuspendExpired, SuspendInterrupted, Crash, TypeInv, TypeOK
<1>4. /\ DOMAIN subs' = DOMAIN subs
      /\ \A s \in DOMAIN subs \ D : subs'[s] = subs[s]
      /\ \A s \in D : ~subs'[s].active /\ subs'[s].status \in {"EXPIRED", "SUSPENDED"}
      /\ \A c \in Companies : company'[c] = company[c] \/ \E s \in D : subs[s].company = c
  BY <1>1, <1>2, SuspendedEffect
<1>. SUFFICES ASSUME NEW t \in DOMAIN subs
              PROVE  RowSound(t)'
  BY <1>4 DEF RowsSound
<1>5. RowSound(t) /\ subs[t].company \in Companies
  BY TypeFacts DEF RowsSound
<1>6. CASE t \in D
  BY <1>4, <1>6 DEF RowSound, ActiveMatches, ChangeSound, ChangeMirrored, EndMirrored,
                    Live, ACTIVE_STATUSES
<1>7. CASE t \notin D
  <2>1. ASSUME NEW s \in D, subs[s].company = subs[t].company
        PROVE  ~Live(t)
    <3>1. s \in DOMAIN subs /\ s # t /\ Live(s)
      BY <1>2, <1>7 DEF RowsSound, RowSound, ActiveMatches, Live
    <3>. QED
      BY <2>1, <3>1 DEF AccessInv, OneLiveRow
  <2>2. company'[subs[t].company] = company[subs[t].company] \/ ~Live(t)
    BY <1>4, <1>5, <2>1
  <2>. QED
    BY <1>3, <1>4, <1>5, <1>7, <2>2, KeptRowSound DEF Kept
<1>. QED
  BY <1>6, <1>7

LEMMA SoundApply ==
  ASSUME TypeInv, AccessInv, RowsSound, NEW s \in DOMAIN subs, ApplyScheduled(s)
  PROVE  RowsSound'
<1>. DEFINE c == subs[s].company
            p == subs[s].schedPlan
<1>1. c \in Companies /\ subs[s] \in SubscriptionRow /\ company[c] \in CompanyRow /\ now \in Nat
  BY TypeFacts
<1>2. /\ p \in Plans
      /\ \A t \in LiveRows(c) : t = s
      /\ DOMAIN subs' = DOMAIN subs
      /\ subs'[s] = AppliedRow(subs[s], p)
      /\ \A t \in DOMAIN subs : t # s => Kept(t)
      /\ \A d \in Companies : d # c => company'[d] = company[d]
      /\ company'[c] = AppliedCompany(company[c], p)
      /\ UNCHANGED crashes
  BY ApplyEffect
<1>3. /\ subs'[s].company = c /\ subs'[s].active
      /\ subs'[s].status = StatusFor(p) /\ subs'[s].end = CycleEnd(p)
      /\ subs'[s].schedPlan = None /\ subs'[s].schedAt = None
      /\ company'[c].status = StatusFor(p) /\ company'[c].active
      /\ company'[c].end = CycleEnd(p)
  BY <1>1, <1>2, AppliedFields
<1>4. company'[c] # None
  BY <1>1, <1>2, AppliedCompanyType, NoneAssumption
<1>. HIDE DEF c, p
<1>5. RowSound(s)'
  BY <1>1, <1>2, <1>3, <1>4, NewCycleSound
<1>. QED
  BY <1>1, <1>2, <1>5, OneRowSound

\* Steps that at most store the job's last assignment.
LEMMA SoundQuiet ==
  ASSUME TypeInv, AccessInv, RowsSound,
         \/ \E c \in Companies, type \in RequestTypes, p \in Plans, i \in BOOLEAN :
              RequestChange(c, type, p, i)
         \/ \E r \in DOMAIN reqs : Reject(r)
         \/ StartScheduledChanges
         \/ \E s \in DOMAIN subs : SkipScheduled(s) \/ AbortScheduledChanges(s)
         \/ FinishScheduledChanges
         \/ ScheduledChangesInterrupted
         \/ \E p \in Plans, state \in PlanState : SetPlan(p, state)
         \/ Tick
         \/ UNCHANGED vars
  PROVE  RowsSound'
<1>1. crashes \in Nat
  BY DEF TypeInv, TypeOK
<1>2. CASE FinishScheduledChanges
  BY <1>2, FinishEffect, KeptRowsSound
<1>3. CASE ~FinishScheduledChanges
  <2>1. ASSUME ScheduledChangesInterrupted
        PROVE  subs' = subs /\ company' = company /\ (crashes' = 0 => crashes = 0)
    BY <1>1, <2>1 DEF ScheduledChangesInterrupted, Crash
  <2>2. ASSUME ~ScheduledChangesInterrupted
        PROVE  subs' = subs /\ company' = company /\ crashes' = crashes
    BY <1>3, <2>2 DEF RequestChange, Reject, StartScheduledChanges, SkipScheduled,
                      AbortScheduledChanges, SetPlan, Tick, vars
  <2>3. subs' = subs /\ company' = company /\ (crashes' = 0 => crashes = 0)
    BY <2>1, <2>2
  <2>. QED
    BY <2>3, KeptRowsSound DEF Kept
<1>. QED
  BY <1>2, <1>3

\* Only the job works on a batch, and only when a row has reached its date does
\* the batch hold it.
LEMMA DueNext ==
  ASSUME TypeInv, AccessInv, BatchDue, [TenantNext]_vars
  PROVE  BatchDue'
<1>1. CASE StartScheduledChanges
  <2>1. /\ batch' = [todo |-> DueRows, unsaved |-> 0]
        /\ UNCHANGED <<now, subs>>
    BY <1>1 DEF StartScheduledChanges
  <2>2. \A s \in DueRows : subs[s].schedAt \in Nat /\ subs[s].schedAt < now
    <3>1. \A s \in DOMAIN subs : subs[s].schedAt \in Nat \cup {None}
      BY TypeFacts DEF SubscriptionRow
    <3>. QED
      BY <3>1 DEF DueRows
  <2>. QED
    BY <2>1, <2>2 DEF BatchDue
<1>2. ASSUME NEW s \in DOMAIN subs, ApplyScheduled(s)
      PROVE  BatchDue'
  <2>1. /\ batch # None
        /\ \A t \in batch.todo : t # s => subs'[t] = subs[t]
        /\ batch' = [todo |-> batch.todo \ {s}, unsaved |-> s]
        /\ UNCHANGED now
    BY <1>2, ApplyEffect
  <2>. QED
    BY <2>1 DEF BatchDue
<1>3. ASSUME NEW s \in DOMAIN subs, SkipScheduled(s)
      PROVE  BatchDue'
  <2>1. /\ batch \in Batch /\ batch # None
        /\ batch' = [batch EXCEPT !.todo = batch.todo \ {s}]
        /\ UNCHANGED <<now, subs>>
    BY <1>3 DEF SkipScheduled, Idle, TypeInv, TypeOK
  <2>2. batch'.todo = batch.todo \ {s}
    BY <2>1 DEF Batch
  <2>. QED
    BY <2>1, <2>2 DEF BatchDue
<1>4. CASE UNCHANGED vars
  BY <1>4 DEF vars, BatchDue
<1>5. CASE /\ TenantNext /\ ~StartScheduledChanges
           /\ \A s \in DOMAIN subs : ~ApplyScheduled(s) /\ ~SkipScheduled(s)
  <2>1. batch' = None
    BY <1>5 DEF TenantNext, Register, RegisterWithoutPlan, RegisterInterrupted,
         RequestChange, Reject, ScheduleDowngrade, Approve, ApproveInterrupted, Reviewable,
         SuspendExpired, SuspendInterrupted, AbortScheduledChanges, FinishScheduledChanges,
         ScheduledChangesInterrupted, SetPlan, Tick, Idle
  <2>. QED
    BY <2>1 DEF BatchDue
<1>. QED
  BY <1>1, <1>2, <1>3, <1>4, <1>5

LEMMA SoundNext ==
  ASSUME TypeInv, AccessInv, RowsSound, [TenantNext]_vars
  PROVE  RowsSound'
BY SoundRegistration, SoundSchedule, SoundApprove, SoundSuspend, SoundApply, SoundQuiet
   DEF TenantNext

LEMMA TenantInit == Init => TenantInv
<1>. SUFFICES ASSUME Init PROVE TenantInv
  OBVIOUS
<1>1. DOMAIN subs = {}
  BY EmptySeq, LenProperties DEF Init
<1>2. RowsSound /\ BatchDue
  BY <1>1 DEF RowsSound, BatchDue, Init
<1>. QED
  BY <1>2, TypeInit, AccessInit DEF TenantInv

LEMMA TenantStep ==
  ASSUME TenantInv, [TenantNext]_vars
  PROVE  TenantInv'
BY TypeNext, AccessNext, SoundNext, DueNext DEF Next, TenantInv

LEMMA TenantAlways == TenantSpec => []TenantInv
<1>1. TenantInv /\ [TenantNext]_vars => TenantInv'
  BY TenantStep
<1>. QED
  BY <1>1, TenantInit, PTL DEF TenantSpec

-----------------------------------------------------------------------------
(* Invariants of the tables *)

\* Unless a handler was interrupted, the company row of every live row is an
\* exact copy: open for writes, active, and ending with the row.
THEOREM MirrorIsExact == TenantSpec => []MirrorExact
<1>1. TenantInv => MirrorExact
  BY DEF TenantInv, RowsSound, RowSound, EndMirrored, MirrorExact
<1>. QED
  BY <1>1, TenantAlways, PTL

\* A live row that waits for a change knows the plan and changes at the end of
\* its cycle; no other live row carries a change.
THEOREM ScheduleIsSound == TenantSpec => []ScheduleSound
<1>1. TenantInv => ScheduleSound
  BY DEF TenantInv, RowsSound, RowSound, ChangeSound, ScheduleSound
<1>. QED
  BY <1>1, TenantAlways, PTL

-----------------------------------------------------------------------------
(* What a step may never do *)

\* The steps that write a table, and the others.
LEMMA WritingSteps ==
  ASSUME [TenantNext]_vars
  PROVE  \/ \E c \in Companies, p \in Plans :
              Register(c, p) \/ RegisterWithoutPlan(c, p) \/ RegisterInterrupted(c, p)
         \/ \E c \in Companies, type \in RequestTypes, p \in Plans, i \in BOOLEAN :
              RequestChange(c, type, p, i)
         \/ \E r \in DOMAIN reqs : Reject(r)
         \/ \E r \in DOMAIN reqs, force \in BOOLEAN :
              \/ ScheduleDowngrade(r, force)
              \/ Approve(r, force) \/ ApproveInterrupted(r, force)
         \/ \E cut \in {now, now + 1} : SuspendExpired(cut) \/ SuspendInterrupted(cut)
         \/ \E s \in DOMAIN subs : ApplyScheduled(s)
         \/ FinishScheduledChanges
         \/ UNCHANGED <<company, subs, reqs>>
<1>1. ASSUME \/ \E s \in DOMAIN subs : SkipScheduled(s) \/ AbortScheduledChanges(s)
             \/ StartScheduledChanges \/ ScheduledChangesInterrupted
             \/ \E p \in Plans, state \in PlanState : SetPlan(p, state)
             \/ Tick \/ UNCHANGED vars
      PROVE  UNCHANGED <<company, subs, reqs>>
  BY <1>1 DEF SkipScheduled, AbortScheduledChanges, StartScheduledChanges,
              ScheduledChangesInterrupted, SetPlan, Tick, vars
<1>. QED
  BY <1>1 DEF TenantNext

\* No approval, job or interrupted handler starts or prolongs a second trial:
\* only an applied plan writes TRIAL, and it asks for the flag first.
THEOREM TrialHappensOnce == TenantSpec => TrialNotRepeated
<1>1. ASSUME TenantInv, [TenantNext]_vars
      PROVE  \A c \in Companies :
               Registered(c) /\ company[c].trialUsed /\ company'[c].status = "TRIAL"
                 => /\ company[c].status = "TRIAL"
                    /\ company'[c].end = company[c].end
  <2>. SUFFICES ASSUME NEW c \in Companies, Registered(c), company[c].trialUsed,
                       company'[c].status = "TRIAL", company'[c] # company[c]
                PROVE  FALSE
    OBVIOUS
  <2>1. TypeInv /\ AccessInv /\ company[c] \in CompanyRow /\ company[c] # None
    BY <1>1, TypeFacts DEF TenantInv, Registered
  <2>2. ASSUME NEW d \in Companies, NEW p \in Plans,
               Register(d, p) \/ RegisterWithoutPlan(d, p) \/ RegisterInterrupted(d, p)
        PROVE  FALSE
    BY <2>1, <2>2, RegistrationEffect
  <2>3. ASSUME NEW r \in DOMAIN reqs, NEW force, ScheduleDowngrade(r, force)
        PROVE  FALSE
    <3>1. PICK s \in DOMAIN subs :
            /\ \A d \in Companies : d # reqs[r].company => company'[d] = company[d]
            /\ company'[reqs[r].company] = ScheduledCompany(company[reqs[r].company], subs[s])
      BY <2>1, <2>3, ScheduleEffect
    <3>2. company'[c] = ScheduledCompany(company[c], subs[s])
      BY <3>1
    <3>. QED
      BY <2>1, <3>2 DEF ScheduledCompany, CompanyRow
  <2>4. ASSUME NEW r \in DOMAIN reqs, NEW force,
               Approve(r, force) \/ ApproveInterrupted(r, force)
        PROVE  FALSE
    <3>1. /\ company'[c] = AppliedCompany(company[c], reqs[r].plan)
          /\ reqs[r].plan = Free => ~company[c].trialUsed
          /\ reqs[r].plan \in Plans
      BY <2>1, <2>4, ApproveEffect, TypeFacts
    <3>. QED
      BY <2>1, <3>1, StatusForOpen DEF AppliedCompany, CompanyRow
  <2>5. ASSUME NEW cut \in {now, now + 1}, SuspendExpired(cut) \/ SuspendInterrupted(cut)
        PROVE  FALSE
    <3>1. PICK D \in SUBSET (DOMAIN subs) : Suspended(D)
      BY <2>5 DEF SuspendExpired, SuspendInterrupted, ExpiredBy
    <3>2. company'[c].status \in {"EXPIRED", "SUSPENDED"}
      BY <2>1, <3>1, SuspendedEffect
    <3>. QED
      BY <3>2
  <2>6. ASSUME NEW s \in DOMAIN subs, ApplyScheduled(s)
        PROVE  FALSE
    <3>1. /\ company'[c] = AppliedCompany(company[c], subs[s].schedPlan)
          /\ subs[s].schedPlan = Free => ~company[c].trialUsed
      BY <2>1, <2>6, ApplyEffect
    <3>. QED
      BY <2>1, <3>1, StatusForOpen DEF AppliedCompany, CompanyRow
  <2>7. ~\E d \in Companies, type \in RequestTypes, p \in Plans, i \in BOOLEAN :
          RequestChange(d, type, p, i)
    BY DEF RequestChange
  <2>8. ~FinishScheduledChanges /\ ~\E r \in DOMAIN reqs : Reject(r)
    BY DEF FinishScheduledChanges, Reject
  <2>. QED
    BY <1>1, <2>2, <2>3, <2>4, <2>5, <2>6, <2>7, <2>8, WritingSteps
<1>. QED
  BY <1>1, TenantAlways, PTL DEF TenantSpec, TrialNotRepeated

\* A read-only company gets write access back only when a pending request of its
\* own is approved: the job applies rows of companies that can write already.
THEOREM OnlyApprovalReopens == TenantSpec => ReopenedByApproval
<1>1. ASSUME TenantInv, [TenantNext]_vars
      PROVE  \A c \in Companies :
               Registered(c) /\ ~Writable(c) /\ Writable(c)'
                 => \E r \in DOMAIN reqs : reqs[r].company = c /\ Approved(r)
  <2>. SUFFICES ASSUME NEW c \in Companies, Registered(c), ~Writable(c), Writable(c)'
                PROVE  \E r \in DOMAIN reqs : reqs[r].company = c /\ Approved(r)
    OBVIOUS
  <2>1. /\ TypeInv /\ AccessInv /\ RowsSound
        /\ company[c] \in CompanyRow /\ company[c] # None
        /\ crashes \in Nat
    BY <1>1, TypeFacts DEF TenantInv, Registered, TypeInv, TypeOK
  <2>2. company'[c] # company[c]
    BY DEF Writable, Registered
  <2>3. ASSUME NEW d \in Companies, NEW p \in Plans,
               Register(d, p) \/ RegisterWithoutPlan(d, p) \/ RegisterInterrupted(d, p)
        PROVE  FALSE
    BY <2>1, <2>2, <2>3, RegistrationEffect
  <2>4. ASSUME NEW r \in DOMAIN reqs, NEW force, ScheduleDowngrade(r, force)
        PROVE  reqs[r].company = c /\ Approved(r)
    <3>1. /\ \A d \in Companies : d # reqs[r].company => company'[d] = company[d]
          /\ reqs[r].status = "PENDING_APPROVAL"
          /\ Decide(r, "APPROVED")
      BY <2>1, <2>4, ScheduleEffect
    <3>2. reqs'[r].status = "APPROVED"
      BY <2>1, <3>1, DecidedRequest
    <3>. QED
      BY <2>2, <3>1, <3>2 DEF Approved
  <2>5. ASSUME NEW r \in DOMAIN reqs, NEW force,
               Approve(r, force) \/ ApproveInterrupted(r, force)
        PROVE  reqs[r].company = c /\ Approved(r)
    <3>1. /\ \A d \in Companies : d # reqs[r].company => company'[d] = company[d]
          /\ reqs[r].status = "PENDING_APPROVAL"
          /\ Decide(r, "APPROVED") \/ crashes' = crashes + 1
      BY <2>1, <2>5, ApproveEffect
    <3>2. reqs'[r].status = "APPROVED" \/ crashes' # crashes
      BY <2>1, <3>1, DecidedRequest
    <3>. QED
      BY <2>2, <3>1, <3>2 DEF Approved
  <2>6. ASSUME NEW cut \in {now, now + 1}, SuspendExpired(cut) \/ SuspendInterrupted(cut)
        PROVE  FALSE
    <3>1. PICK D \in SUBSET (DOMAIN subs) : Suspended(D)
      BY <2>6 DEF SuspendExpired, SuspendInterrupted, ExpiredBy
    <3>2. company'[c].status \in {"EXPIRED", "SUSPENDED"}
      BY <2>1, <2>2, <3>1, SuspendedEffect
    <3>. QED
      BY <3>2 DEF Writable, ACTIVE_STATUSES
  <2>7. ASSUME NEW s \in DOMAIN subs, ApplyScheduled(s)
        PROVE  FALSE
    <3>1. /\ subs[s].company = c
          /\ subs[s].status = "SCHEDULED_CHANGE"
      BY <2>1, <2>2, <2>7, ApplyEffect
    <3>2. company[c].status = "SCHEDULED_CHANGE"
      BY <2>1, <3>1 DEF RowsSound, RowSound, ChangeMirrored
    <3>. QED
      BY <3>2 DEF Writable, ACTIVE_STATUSES
  <2>8. ~\E d \in Companies, type \in RequestTypes, p \in Plans, i \in BOOLEAN :
          RequestChange(d, type, p, i)
    BY <2>2 DEF RequestChange
  <2>9. ~FinishScheduledChanges /\ ~\E r \in DOMAIN reqs : Reject(r)
    BY <2>2 DEF FinishScheduledChanges, Reject
  <2>. QED
    BY <1>1, <2>2, <2>3, <2>4, <2>5, <2>6, <2>7, <2>8, <2>9, WritingSteps
<1>. QED
  BY <1>1, TenantAlways, PTL DEF TenantSpec, ReopenedByApproval

\* The plan of a row changes by an approval of its company's request for it, or
\* to its scheduled plan, and then only after its cycle has ended.
THEOREM PlanChangesAreJustified == TenantSpec => PlanChangeJustified
<1>1. ASSUME TenantInv, [TenantNext]_vars
      PROVE  \A s \in DOMAIN subs :
               subs'[s].plan # subs[s].plan
                 => \/ \E r \in DOMAIN reqs : /\ reqs[r].company = subs[s].company
                                              /\ reqs[r].plan = subs'[s].plan
                                              /\ Approved(r)
                    \/ /\ subs[s].schedPlan = subs'[s].plan
                       /\ subs[s].end < now
                    \/ AdminWrite
  <2>. SUFFICES ASSUME NEW s \in DOMAIN subs, subs'[s].plan # subs[s].plan
                PROVE  \/ \E r \in DOMAIN reqs : /\ reqs[r].company = subs[s].company
                                                 /\ reqs[r].plan = subs'[s].plan
                                                 /\ Approved(r)
                       \/ /\ subs[s].schedPlan = subs'[s].plan
                          /\ subs[s].end < now
    OBVIOUS
  <2>1. /\ TypeInv /\ AccessInv /\ RowsSound /\ BatchDue
        /\ subs[s] \in SubscriptionRow
        /\ subs \in Seq(SubscriptionRow)
        /\ crashes \in Nat
    BY <1>1, TypeFacts DEF TenantInv, TypeInv, TypeOK
  <2>2. ~Kept(s)
    BY <2>1, KeptRow
  <2>3. ASSUME NEW c \in Companies, NEW p \in Plans,
               Register(c, p) \/ RegisterWithoutPlan(c, p) \/ RegisterInterrupted(c, p)
        PROVE  FALSE
    <3>1. subs' = subs \/ subs' = Append(subs, NewRow(c, p))
      BY <2>1, <2>3, RegistrationEffect
    <3>2. NewRow(c, p) \in SubscriptionRow
      BY <2>1, TypeFacts, NewRowType
    <3>. QED
      BY <2>1, <2>2, <3>1, <3>2, InsertedRow DEF Kept
  <2>4. ASSUME NEW r \in DOMAIN reqs, NEW force, ScheduleDowngrade(r, force)
        PROVE  FALSE
    <3>1. subs'[s] = ScheduledRow(subs[s], reqs[r].plan)
      BY <2>1, <2>2, <2>4, ScheduleEffect DEF Kept
    <3>. QED
      BY <2>1, <3>1 DEF ScheduledRow, SubscriptionRow
  <2>5. ASSUME NEW r \in DOMAIN reqs, NEW force,
               Approve(r, force) \/ ApproveInterrupted(r, force)
        PROVE  /\ reqs[r].company = subs[s].company
               /\ reqs[r].plan = subs'[s].plan
               /\ Approved(r)
    <3>. DEFINE c == reqs[r].company
                p == reqs[r].plan
    <3>1. /\ PlanApplied(c, p)
          /\ reqs[r].status = "PENDING_APPROVAL"
          /\ Decide(r, "APPROVED") \/ crashes' = crashes + 1
      BY <2>1, <2>5, ApproveEffect
    <3>2. Approved(r)
      BY <2>1, <3>1, DecidedRequest DEF Approved
    <3>3. c \in Companies /\ p \in Plans /\ company[c] # None
      BY <2>1, TypeFacts, NoneAssumption
    <3>. HIDE DEF c, p
    <3>4. subs[s].company = c /\ subs'[s].plan = p
      BY <2>1, <2>2, <3>1, <3>3, PlanAppliedRows DEF Kept
    <3>. QED
      BY <3>2, <3>4 DEF c, p
  <2>6. ASSUME NEW cut \in {now, now + 1}, SuspendExpired(cut) \/ SuspendInterrupted(cut)
        PROVE  FALSE
    <3>1. PICK D \in SUBSET (DOMAIN subs) : Suspended(D)
      BY <2>6 DEF SuspendExpired, SuspendInterrupted, ExpiredBy
    <3>. QED
      BY <2>1, <3>1, SuspendedEffect
  <2>7. ASSUME NEW t \in DOMAIN subs, ApplyScheduled(t)
        PROVE  subs[s].schedPlan = subs'[s].plan /\ subs[s].end < now
    <3>1. /\ t = s
          /\ subs[s].schedPlan \in Plans
          /\ s \in batch.todo /\ batch # None
          /\ subs[s].status = "SCHEDULED_CHANGE" /\ Live(s)
          /\ subs'[s] = AppliedRow(subs[s], subs[s].schedPlan)
      BY <2>1, <2>2, <2>7, ApplyEffect
    <3>2. subs[s].schedAt = subs[s].end /\ subs[s].schedAt < now
      BY <2>1, <3>1 DEF RowsSound, RowSound, ChangeSound, BatchDue
    <3>. QED
      BY <2>1, <3>1, <3>2 DEF AppliedRow, SubscriptionRow
  <2>8. ~\E d \in Companies, type \in RequestTypes, p \in Plans, i \in BOOLEAN :
          RequestChange(d, type, p, i)
    BY DEF RequestChange
  <2>9. ~FinishScheduledChanges /\ ~\E r \in DOMAIN reqs : Reject(r)
    BY <2>1, <2>2, FinishEffect DEF Reject
  <2>. QED
    BY <1>1, <2>3, <2>4, <2>5, <2>6, <2>7, <2>8, <2>9, WritingSteps
<1>. QED
  BY <1>1, TenantAlways, PTL DEF TenantSpec, PlanChangeJustified

\* No step touches a request that was decided, or a row that has expired: a plan
\* is applied to a live row, and the job's last assignment goes to the row it has
\* just applied.
THEOREM DecisionsAreFinal == TenantSpec => DecisionsFinal
<1>1. ASSUME TenantInv, [TenantNext]_vars
      PROVE  /\ \A r \in DOMAIN reqs :
                  reqs[r].status # "PENDING_APPROVAL" => reqs'[r] = reqs[r]
             /\ \A s \in DOMAIN subs :
                  subs[s].status = "EXPIRED" => subs'[s] = subs[s]
  <2>1. /\ TypeInv /\ AccessInv /\ RowsSound
        /\ subs \in Seq(SubscriptionRow) /\ reqs \in Seq(RequestRow)
    BY <1>1 DEF TenantInv, TypeInv, TypeOK
  <2>2. ASSUME NEW r \in DOMAIN reqs, reqs[r].status # "PENDING_APPROVAL"
        PROVE  reqs'[r] = reqs[r]
    <3>1. ASSUME NEW q \in DOMAIN reqs, NEW status, Decide(q, status),
                 reqs[q].status = "PENDING_APPROVAL"
          PROVE  reqs'[r] = reqs[r]
      BY <2>1, <2>2, <3>1, DecidedRequest
    <3>2. ASSUME NEW q \in DOMAIN reqs, Reject(q)
          PROVE  reqs'[r] = reqs[r]
      BY <3>1, <3>2 DEF Reject, Reviewable
    <3>3. ASSUME NEW q \in DOMAIN reqs, NEW force,
                 \/ ScheduleDowngrade(q, force)
                 \/ Approve(q, force) \/ ApproveInterrupted(q, force)
          PROVE  reqs'[r] = reqs[r]
      BY <3>1, <3>3 DEF ScheduleDowngrade, Approve, ApproveInterrupted, Reviewable
    <3>4. ASSUME NEW c \in Companies, NEW type \in RequestTypes, NEW p \in Plans,
                 NEW i \in BOOLEAN, RequestChange(c, type, p, i)
          PROVE  reqs'[r] = reqs[r]
      <4>. DEFINE row == [company |-> c, type |-> type, plan |-> p,
                          immediate |-> i, status |-> "PENDING_APPROVAL"]
      <4>1. row \in RequestRow /\ reqs' = Append(reqs, row)
        BY <3>4 DEF RequestChange, RequestRow, RequestStatus
      <4>. QED
        BY <2>1, <4>1, InsertedRow
    <3>5. ASSUME NEW c \in Companies, NEW p \in Plans,
                 Register(c, p) \/ RegisterWithoutPlan(c, p) \/ RegisterInterrupted(c, p)
          PROVE  reqs'[r] = reqs[r]
      BY <2>1, <3>5, RegistrationEffect
    <3>6. ASSUME \/ \E cut \in {now, now + 1} : SuspendExpired(cut) \/ SuspendInterrupted(cut)
                 \/ \E s \in DOMAIN subs : ApplyScheduled(s)
                 \/ FinishScheduledChanges
          PROVE  reqs'[r] = reqs[r]
      BY <3>6 DEF SuspendExpired, SuspendInterrupted, ApplyScheduled, FinishScheduledChanges
    <3>. QED
      BY <1>1, <3>2, <3>3, <3>4, <3>5, <3>6, WritingSteps
  <2>3. ASSUME NEW s \in DOMAIN subs, subs[s].status = "EXPIRED"
        PROVE  subs'[s] = subs[s]
    <3>1. ~subs[s].active /\ ~Live(s)
      BY <2>1, <2>3 DEF RowsSound, RowSound, ActiveMatches, Live, ACTIVE_STATUSES
    <3>2. Kept(s) => subs'[s] = subs[s]
      BY <3>1 DEF Kept
    <3>3. ASSUME NEW c \in Companies, NEW p \in Plans,
                 Register(c, p) \/ RegisterWithoutPlan(c, p) \/ RegisterInterrupted(c, p)
          PROVE  subs'[s] = subs[s]
      <4>1. subs' = subs \/ subs' = Append(subs, NewRow(c, p))
        BY <2>1, <3>3, RegistrationEffect
      <4>2. NewRow(c, p) \in SubscriptionRow
        BY <2>1, TypeFacts, NewRowType
      <4>. QED
        BY <2>1, <4>1, <4>2, InsertedRow
    <3>4. ASSUME NEW r \in DOMAIN reqs, NEW force, ScheduleDowngrade(r, force)
          PROVE  subs'[s] = subs[s]
      BY <2>1, <3>1, <3>4, ScheduleEffect
    <3>5. ASSUME NEW r \in DOMAIN reqs, NEW force,
                 Approve(r, force) \/ ApproveInterrupted(r, force)
          PROVE  subs'[s] = subs[s]
      <4>1. PlanApplied(reqs[r].company, reqs[r].plan)
        BY <2>1, <3>5, ApproveEffect
      <4>2. /\ reqs[r].company \in Companies /\ reqs[r].plan \in Plans
            /\ company[reqs[r].company] # None
        BY <2>1, TypeFacts, NoneAssumption
      <4>. QED
        BY <2>1, <3>1, <4>1, <4>2, PlanAppliedRows
    <3>6. ASSUME NEW cut \in {now, now + 1}, SuspendExpired(cut) \/ SuspendInterrupted(cut)
          PROVE  subs'[s] = subs[s]
      <4>1. PICK D \in SUBSET (DOMAIN subs) : Suspended(D) /\ \A t \in D : subs[t].active
        BY <3>6 DEF SuspendExpired, SuspendInterrupted, ExpiredBy
      <4>. QED
        BY <2>1, <3>1, <4>1, SuspendedEffect
    <3>7. ASSUME NEW t \in DOMAIN subs, ApplyScheduled(t)
          PROVE  subs'[s] = subs[s]
      BY <2>1, <3>1, <3>2, <3>7, ApplyEffect
    <3>8. ASSUME FinishScheduledChanges
          PROVE  subs'[s] = subs[s]
      BY <2>1, <3>2, <3>8, FinishEffect
    <3>9. ASSUME \/ \E c \in Companies, type \in RequestTypes, p \in Plans, i \in BOOLEAN :
                      RequestChange(c, type, p, i)
                 \/ \E r \in DOMAIN reqs : Reject(r)
          PROVE  subs'[s] = subs[s]
      BY <3>9 DEF RequestChange, Reject
    <3>. QED
      BY <1>1, <3>3, <3>4, <3>5, <3>6, <3>7, <3>8, <3>9, WritingSteps
  <2>. QED
    BY <2>2, <2>3
<1>. QED
  BY <1>1, TenantAlways, PTL DEF TenantSpec, DecisionsFinal

-----------------------------------------------------------------------------
(* The refinement of BillingPromise *)

Spent(c) == Registered(c) /\ company[c].trialUsed

\* Nothing of the promise changes when neither the companies nor the requests do,
\* however subscription rows are written.
LEMMA PromiseStutters ==
  ASSUME UNCHANGED <<company, reqs>>
  PROVE  UNCHANGED Promise!vars
BY DEF Promise!vars, PhaseOf, Registered, OpenRequests

\* The phase of a company that is registered, by its status.
LEMMA PhaseByStatus ==
  ASSUME NEW c \in Companies, company[c] # None
  PROVE  /\ company[c].status = "TRIAL" => PhaseOf(c) = "trial"
         /\ company[c].status = "ACTIVE" => PhaseOf(c) = "paid"
         /\ company[c].status = "SCHEDULED_CHANGE" => PhaseOf(c) = "changing"
         /\ company[c].status \notin ACTIVE_STATUSES => PhaseOf(c) = "readonly"
         /\ PhaseOf(c) # "unregistered"
BY DEF PhaseOf, ACTIVE_STATUSES

\* A step that writes only company c, and moves it to ph.
LEMMA EntersPhase ==
  ASSUME NEW c \in Companies, NEW ph,
         \A d \in Companies : d # c => company'[d] = company[d],
         PhaseOf(c)' = ph,
         ph = "trial" => ~Spent(c),
         Spent(c)' = (Spent(c) \/ ph = "trial")
  PROVE  Promise!Enter(c, ph)
<1>1. \A d \in Companies : d # c => PhaseOf(d)' = PhaseOf(d) /\ Spent(d)' = Spent(d)
  BY DEF PhaseOf, Spent, Registered
<1>2. [d \in Companies |-> PhaseOf(d)]'
        = [[d \in Companies |-> PhaseOf(d)] EXCEPT ![c] = ph]
  BY <1>1
<1>3. [d \in Companies |-> Spent(d)]'
        = [[d \in Companies |-> Spent(d)] EXCEPT ![c] = @ \/ ph = "trial"]
  BY <1>1
<1>4. ph = "trial" => ~[d \in Companies |-> Spent(d)][c]
  OBVIOUS
<1>. QED
  BY <1>2, <1>3, <1>4 DEF Promise!Enter, Spent

LEMMA PromiseInit == Init => Promise!Init
<1>1. ASSUME Init, NEW c \in Companies
      PROVE  PhaseOf(c) = "unregistered" /\ ~Spent(c) /\ OpenRequests(c) = {}
  <2>1. DOMAIN reqs = {} /\ company[c] = None
    BY <1>1, EmptySeq, LenProperties DEF Init
  <2>. QED
    BY <2>1 DEF PhaseOf, Spent, Registered, OpenRequests
<1>. QED
  BY <1>1 DEF Promise!Init, Spent

\* A plan written to the company row of c opens the trial, if it is still due, or
\* the paid phase.
LEMMA AppliedEnters ==
  ASSUME TypeInv, NEW c \in Companies, NEW p \in Plans, NEW co \in CompanyRow,
         company'[c] = AppliedCompany(co, p),
         \A d \in Companies : d # c => company'[d] = company[d],
         p = Free => ~co.trialUsed,
         Spent(c) <=> co.trialUsed
  PROVE  \E ph \in {"trial", "paid"} : Promise!Enter(c, ph)
<1>. DEFINE ph == IF p = Free THEN "trial" ELSE "paid"
<1>1. /\ AppliedCompany(co, p) \in CompanyRow
      /\ AppliedCompany(co, p).status = StatusFor(p)
      /\ AppliedCompany(co, p).trialUsed = (co.trialUsed \/ p = Free)
  BY TypeFacts, AppliedCompanyType DEF AppliedCompany, CompanyRow
<1>2. company'[c] # None /\ company'[c].status = StatusFor(p)
  BY <1>1, NoneAssumption
<1>3. PhaseOf(c)' = ph
  BY <1>2 DEF PhaseOf, StatusFor
<1>4. ph = "trial" => ~Spent(c)
  OBVIOUS
<1>5. Spent(c)' <=> (Spent(c) \/ ph = "trial")
  BY <1>1, <1>2 DEF Spent, Registered
<1>6. Spent(c) \in BOOLEAN /\ Spent(c)' \in BOOLEAN
  BY DEF Spent
<1>7. Spent(c)' = (Spent(c) \/ ph = "trial")
  BY <1>5, <1>6
<1>8. ph \in {"trial", "paid"}
  OBVIOUS
<1>. HIDE DEF ph
<1>. QED
  BY <1>3, <1>4, <1>7, <1>8, EntersPhase

\* A request that is stored waits for its decision; one that is decided does not.
LEMMA AskedOpens ==
  ASSUME TypeInv, NEW row \in RequestRow, row.status = "PENDING_APPROVAL",
         reqs' = Append(reqs, row)
  PROVE  /\ [d \in Companies |-> OpenRequests(d)]'
              = [[d \in Companies |-> OpenRequests(d)]
                   EXCEPT ![row.company] = @ \cup {Len(reqs) + 1}]
         /\ Len(reqs) + 1 \notin OpenRequests(row.company)
         /\ Len(reqs) + 1 \in OpenRequests(row.company)'
         /\ Len(reqs) + 1 \in Nat
<1>1. reqs \in Seq(RequestRow) /\ Len(reqs) \in Nat
  BY LenProperties DEF TypeInv, TypeOK
<1>2. /\ DOMAIN reqs' = DOMAIN reqs \cup {Len(reqs) + 1}
      /\ Len(reqs) + 1 \notin DOMAIN reqs
      /\ \A j \in DOMAIN reqs : reqs'[j] = reqs[j]
      /\ reqs'[Len(reqs) + 1] = row
  BY <1>1, InsertedRow
<1>3. \A d \in Companies :
        OpenRequests(d)' = IF d = row.company
                           THEN OpenRequests(d) \cup {Len(reqs) + 1}
                           ELSE OpenRequests(d)
  BY <1>2 DEF OpenRequests
<1>4. row.company \in Companies
  BY DEF RequestRow
<1>5. [d \in Companies |-> OpenRequests(d)]'
        = [[d \in Companies |-> OpenRequests(d)]
             EXCEPT ![row.company] = @ \cup {Len(reqs) + 1}]
  BY <1>3, <1>4
<1>6. Len(reqs) + 1 \notin OpenRequests(row.company)
  BY <1>2 DEF OpenRequests
<1>7. Len(reqs) + 1 \in OpenRequests(row.company)'
  BY <1>3, <1>4
<1>. QED
  BY <1>1, <1>5, <1>6, <1>7

LEMMA DecidedCloses ==
  ASSUME TypeInv, NEW r \in DOMAIN reqs, NEW status, Decide(r, status),
         reqs[r].status = "PENDING_APPROVAL", status # "PENDING_APPROVAL"
  PROVE  /\ [d \in Companies |-> OpenRequests(d)]'
              = [[d \in Companies |-> OpenRequests(d)]
                   EXCEPT ![reqs[r].company] = @ \ {r}]
         /\ r \in OpenRequests(reqs[r].company)
         /\ reqs[r].company \in Companies
<1>1. /\ DOMAIN reqs' = DOMAIN reqs
      /\ \A q \in DOMAIN reqs : q # r => reqs'[q] = reqs[q]
      /\ reqs'[r].status = status
      /\ reqs'[r].company = reqs[r].company
  BY DecidedRequest
<1>2. \A d \in Companies :
        OpenRequests(d)' = IF d = reqs[r].company
                           THEN OpenRequests(d) \ {r}
                           ELSE OpenRequests(d)
  BY <1>1 DEF OpenRequests
<1>3. reqs[r].company \in Companies
  BY TypeFacts
<1>. QED
  BY <1>2, <1>3, ZenonT(60) DEF OpenRequests

LEMMA SameRequestsSameAsked ==
  ASSUME UNCHANGED reqs
  PROVE  UNCHANGED [d \in Companies |-> OpenRequests(d)]
BY DEF OpenRequests

LEMMA SameCompaniesSamePhase ==
  ASSUME UNCHANGED company
  PROVE  UNCHANGED <<[d \in Companies |-> PhaseOf(d)],
                     [d \in Companies |-> Registered(d) /\ company[d].trialUsed]>>
BY DEF PhaseOf, Registered

LEMMA PromiseRegister ==
  ASSUME TypeInv, NEW c \in Companies, NEW p \in Plans,
         Register(c, p) \/ RegisterWithoutPlan(c, p) \/ RegisterInterrupted(c, p)
  PROVE  Promise!Register(c)
<1>1. /\ company[c] = None
      /\ \A d \in Companies : d # c => company'[d] = company[d]
      /\ UNCHANGED reqs
      /\ \/ company'[c] = AppliedCompany(PendingCompany(p), p)
         \/ company'[c] = PendingCompany(p)
  BY RegistrationEffect
<1>2. PhaseOf(c) = "unregistered" /\ ~Spent(c)
  BY <1>1 DEF PhaseOf, Spent, Registered
<1>3. /\ PendingCompany(p) \in CompanyRow
      /\ ~PendingCompany(p).trialUsed
      /\ PendingCompany(p).status = "PENDING_APPROVAL"
  BY TypeFacts, PendingCompanyType DEF PendingCompany
<1>4. CASE company'[c] = AppliedCompany(PendingCompany(p), p)
  <2>1. \E ph \in {"trial", "paid"} : Promise!Enter(c, ph)
    BY <1>1, <1>2, <1>3, <1>4, AppliedEnters
  <2>. QED
    BY <1>1, <1>2, <2>1, SameRequestsSameAsked DEF Promise!Register
<1>5. CASE company'[c] = PendingCompany(p)
  <2>1. company'[c] # None
    BY <1>3, <1>5, NoneAssumption
  <2>2. PhaseOf(c)' = "readonly" /\ Spent(c)' = FALSE
    BY <1>3, <1>5, <2>1 DEF PhaseOf, Spent, Registered
  <2>3. Spent(c)' = (Spent(c) \/ "readonly" = "trial")
    BY <1>2, <2>2
  <2>4. Promise!Enter(c, "readonly")
    BY <1>1, <2>2, <2>3, EntersPhase
  <2>. QED
    BY <1>1, <1>2, <2>4, SameRequestsSameAsked DEF Promise!Register
<1>. QED
  BY <1>1, <1>4, <1>5

LEMMA PromiseAsk ==
  ASSUME TypeInv, NEW c \in Companies, NEW type \in RequestTypes, NEW p \in Plans,
         NEW i \in BOOLEAN, RequestChange(c, type, p, i)
  PROVE  Promise!Ask(c)
<1>. DEFINE row == [company |-> c, type |-> type, plan |-> p, immediate |-> i,
                    status |-> "PENDING_APPROVAL"]
<1>1. /\ row \in RequestRow /\ row.company = c /\ row.status = "PENDING_APPROVAL"
      /\ reqs' = Append(reqs, row)
      /\ company[c] # None /\ UNCHANGED company
  BY DEF RequestChange, RequestRow, RequestStatus, Registered
<1>. HIDE DEF row
<1>2. /\ [d \in Companies |-> OpenRequests(d)]'
           = [[d \in Companies |-> OpenRequests(d)]
                EXCEPT ![c] = @ \cup {Len(reqs) + 1}]
      /\ Len(reqs) + 1 \notin OpenRequests(c)
      /\ Len(reqs) + 1 \in OpenRequests(c)'
      /\ Len(reqs) + 1 \in Nat
  BY <1>1, AskedOpens
<1>3. PhaseOf(c) # "unregistered"
  BY <1>1, PhaseByStatus
<1>. QED
  BY <1>1, <1>2, <1>3, SameCompaniesSamePhase DEF Promise!Ask

LEMMA PromiseRefuse ==
  ASSUME TypeInv, NEW r \in DOMAIN reqs, Reject(r)
  PROVE  \E c \in Companies : Promise!Refuse(c)
<1>1. /\ Decide(r, "REJECTED") /\ reqs[r].status = "PENDING_APPROVAL"
      /\ UNCHANGED company
  BY DEF Reject, Reviewable
<1>2. /\ [d \in Companies |-> OpenRequests(d)]'
           = [[d \in Companies |-> OpenRequests(d)] EXCEPT ![reqs[r].company] = @ \ {r}]
      /\ r \in OpenRequests(reqs[r].company)
      /\ reqs[r].company \in Companies
  BY <1>1, DecidedCloses
<1>. QED
  BY <1>1, <1>2, SameCompaniesSamePhase DEF Promise!Refuse

LEMMA PromiseSchedule ==
  ASSUME TypeInv, AccessInv, NEW r \in DOMAIN reqs, NEW force,
         ScheduleDowngrade(r, force)
  PROVE  \E c \in Companies : Promise!Grant(c)
<1>1. PICK c \in Companies : c = reqs[r].company
  BY TypeFacts
<1>2. company[c] \in CompanyRow
  BY <1>1, TypeFacts
<1>3. PICK row \in SubscriptionRow :
        /\ \A d \in Companies : d # c => company'[d] = company[d]
        /\ company'[c] = ScheduledCompany(company[c], row)
        /\ reqs[r].status = "PENDING_APPROVAL" /\ Decide(r, "APPROVED")
  <2>1. PICK s \in DOMAIN subs :
           /\ subs[s].company = reqs[r].company /\ Live(s)
           /\ \A t \in LiveRows(reqs[r].company) : t = s
           /\ DOMAIN subs' = DOMAIN subs
           /\ \A t \in DOMAIN subs : t # s => subs'[t] = subs[t]
           /\ subs'[s] = ScheduledRow(subs[s], reqs[r].plan)
           /\ \A d \in Companies : d # reqs[r].company => company'[d] = company[d]
           /\ company'[reqs[r].company] = ScheduledCompany(company[reqs[r].company], subs[s])
           /\ Idle /\ reqs[r].status = "PENDING_APPROVAL"
           /\ Decide(r, "APPROVED")
           /\ UNCHANGED <<now, batch, checkedTo, crashes>>
    BY ScheduleEffect
  <2>. QED
    BY <1>1, <2>1, TypeFacts
<1>4. /\ ScheduledCompany(company[c], row) \in CompanyRow
      /\ ScheduledCompany(company[c], row).status = "SCHEDULED_CHANGE"
      /\ ScheduledCompany(company[c], row).trialUsed = company[c].trialUsed
  BY <1>2, ScheduledCompanyType DEF ScheduledCompany, CompanyRow
<1>5. company[c] # None /\ company'[c] # None
  BY <1>2, <1>3, <1>4, NoneAssumption
<1>6. PhaseOf(c)' = "changing" /\ Spent(c)' = Spent(c)
  BY <1>3, <1>4, <1>5 DEF PhaseOf, Spent, Registered
<1>7. Spent(c)' = (Spent(c) \/ "changing" = "trial")
  <2>1. Spent(c) \in BOOLEAN
    BY DEF Spent
  <2>. QED
    BY <1>6, <2>1
<1>8. Promise!Enter(c, "changing")
  BY <1>3, <1>6, <1>7, EntersPhase
<1>9. /\ [d \in Companies |-> OpenRequests(d)]'
           = [[d \in Companies |-> OpenRequests(d)] EXCEPT ![c] = @ \ {r}]
      /\ r \in OpenRequests(c)
  BY <1>1, <1>3, DecidedCloses
<1>. QED
  BY <1>8, <1>9 DEF Promise!Grant, Promise!OpenPhase

\* An approval is a grant; cut off before the company was written, it is a step
\* the promise does not see.
LEMMA PromiseApprove ==
  ASSUME TypeInv, NEW r \in DOMAIN reqs, NEW force,
         Approve(r, force) \/ ApproveInterrupted(r, force)
  PROVE  (\E c \in Companies : Promise!Grant(c)) \/ UNCHANGED Promise!vars
<1>1. PICK c \in Companies, p \in Plans : c = reqs[r].company /\ p = reqs[r].plan
  BY TypeFacts
<1>2. company[c] \in CompanyRow /\ company[c] # None
  BY <1>1, TypeFacts, NoneAssumption
<1>3. /\ p = Free => ~company[c].trialUsed
      /\ \A d \in Companies : d # c => company'[d] = company[d]
      /\ reqs[r].status = "PENDING_APPROVAL"
      /\ \/ /\ company'[c] = AppliedCompany(company[c], p)
            /\ Decide(r, "APPROVED")
         \/ /\ company'[c] = AppliedCompany(company[c], p)
            /\ UNCHANGED reqs
         \/ /\ company'[c] = company[c]
            /\ UNCHANGED reqs
  BY <1>1, ApproveEffect
<1>4. r \in OpenRequests(c)
  BY <1>1, <1>3 DEF OpenRequests
<1>5. CASE company'[c] = AppliedCompany(company[c], p)
  <2>1. Spent(c) <=> company[c].trialUsed
    BY <1>2 DEF Spent, Registered
  <2>2. \E ph \in {"trial", "paid"} : Promise!Enter(c, ph)
    BY <1>2, <1>3, <1>5, <2>1, AppliedEnters
  <2>3. CASE Decide(r, "APPROVED")
    <3>1. [d \in Companies |-> OpenRequests(d)]'
            = [[d \in Companies |-> OpenRequests(d)] EXCEPT ![c] = @ \ {r}]
      BY <1>1, <1>3, <2>3, DecidedCloses
    <3>. QED
      BY <1>4, <2>2, <3>1 DEF Promise!Grant, Promise!OpenPhase
  <2>4. CASE UNCHANGED reqs
    BY <1>4, <2>2, <2>4, SameRequestsSameAsked DEF Promise!Grant, Promise!OpenPhase
  <2>. QED
    BY <1>3, <2>3, <2>4
<1>6. CASE company'[c] = company[c] /\ UNCHANGED reqs
  <2>1. \A d \in Companies : company'[d] = company[d]
    BY <1>3, <1>6
  <2>. QED
    BY <1>6, <2>1 DEF Promise!vars, PhaseOf, Registered, OpenRequests
<1>. QED
  BY <1>3, <1>5, <1>6

LEMMA PromiseChange ==
  ASSUME TypeInv, AccessInv, RowsSound, NEW s \in DOMAIN subs, ApplyScheduled(s)
  PROVE  \E c \in Companies : Promise!Change(c)
<1>1. PICK c \in Companies : c = subs[s].company
  BY TypeFacts
<1>2. PICK p \in Plans :
        /\ p = Free => ~company[c].trialUsed
        /\ \A d \in Companies : d # c => company'[d] = company[d]
        /\ company'[c] = AppliedCompany(company[c], p)
        /\ UNCHANGED reqs
        /\ subs[s].status = "SCHEDULED_CHANGE"
  BY <1>1, ApplyEffect
<1>3. /\ company[c] \in CompanyRow /\ company[c] # None
      /\ company[c].status = "SCHEDULED_CHANGE"
  BY <1>1, <1>2, TypeFacts, NoneAssumption DEF RowsSound, RowSound, ChangeMirrored
<1>4. PhaseOf(c) = "changing"
  BY <1>3, PhaseByStatus
<1>5. Spent(c) <=> company[c].trialUsed
  BY <1>3 DEF Spent, Registered
<1>6. \E ph \in {"trial", "paid"} : Promise!Enter(c, ph)
  BY <1>2, <1>3, <1>5, AppliedEnters
<1>. QED
  BY <1>2, <1>4, <1>6, SameRequestsSameAsked DEF Promise!Change

LEMMA PromiseLapse ==
  ASSUME TypeInv, NEW cut \in {now, now + 1},
         SuspendExpired(cut) \/ SuspendInterrupted(cut)
  PROVE  Promise!Lapse
<1>1. PICK D \in SUBSET (DOMAIN subs) : Suspended(D)
  BY DEF SuspendExpired, SuspendInterrupted, ExpiredBy
<1>2. UNCHANGED reqs
  BY DEF SuspendExpired, SuspendInterrupted
<1>. DEFINE ended == {c \in Companies : \E s \in D : subs[s].company = c}
<1>3. ASSUME NEW c \in Companies
      PROVE  /\ PhaseOf(c)' = IF c \in ended THEN "readonly" ELSE PhaseOf(c)
             /\ c \in ended => PhaseOf(c) # "unregistered"
             /\ Spent(c)' = Spent(c)
  <2>1. \/ company'[c] = company[c] /\ c \notin ended
        \/ /\ company[c] \in CompanyRow
           /\ c \in ended
           /\ company'[c].status \in {"EXPIRED", "SUSPENDED"}
           /\ company'[c].trialUsed = company[c].trialUsed
           /\ company'[c] # None
    BY <1>1, SuspendedEffect
  <2>2. CASE company'[c] = company[c] /\ c \notin ended
    BY <2>2 DEF PhaseOf, Spent, Registered
  <2>3. CASE /\ company[c] \in CompanyRow /\ c \in ended
             /\ company'[c].status \in {"EXPIRED", "SUSPENDED"}
             /\ company'[c].trialUsed = company[c].trialUsed
             /\ company'[c] # None
    <3>1. company[c] # None
      BY <2>3, NoneAssumption
    <3>2. PhaseOf(c)' = "readonly"
      BY <2>3 DEF PhaseOf
    <3>3. PhaseOf(c) # "unregistered"
      BY <3>1, PhaseByStatus
    <3>4. Spent(c)' = Spent(c)
      BY <2>3, <3>1 DEF Spent, Registered
    <3>. QED
      BY <2>3, <3>2, <3>3, <3>4
  <2>. HIDE DEF ended
  <2>. QED
    BY <2>1, <2>2, <2>3
<1>4. [c \in Companies |-> PhaseOf(c)]'
        = [c \in Companies |-> IF c \in ended
                               THEN "readonly"
                               ELSE [d \in Companies |-> PhaseOf(d)][c]]
  BY <1>3
<1>5. UNCHANGED [c \in Companies |-> Registered(c) /\ company[c].trialUsed]
  BY <1>3 DEF Spent
<1>6. ended \in SUBSET {c \in Companies :
                          [d \in Companies |-> PhaseOf(d)][c] # "unregistered"}
  BY <1>3
<1>. HIDE DEF ended
<1>. QED
  BY <1>2, <1>4, <1>5, <1>6, SameRequestsSameAsked DEF Promise!Lapse

LEMMA PromiseNext ==
  ASSUME TenantInv, [TenantNext]_vars
  PROVE  [Promise!Next]_(Promise!vars)
<1>1. TypeInv /\ AccessInv /\ RowsSound
  BY DEF TenantInv
<1>2. ASSUME FinishScheduledChanges \/ UNCHANGED <<company, subs, reqs>>
      PROVE  UNCHANGED Promise!vars
  <2>1. UNCHANGED <<company, reqs>>
    BY <1>2 DEF FinishScheduledChanges
  <2>. QED
    BY <2>1, PromiseStutters
<1>3. ASSUME NEW c \in Companies, NEW p \in Plans,
             Register(c, p) \/ RegisterWithoutPlan(c, p) \/ RegisterInterrupted(c, p)
      PROVE  Promise!Next
  BY <1>1, <1>3, PromiseRegister DEF Promise!Next
<1>4. ASSUME NEW c \in Companies, NEW type \in RequestTypes, NEW p \in Plans,
             NEW i \in BOOLEAN, RequestChange(c, type, p, i)
      PROVE  Promise!Next
  BY <1>1, <1>4, PromiseAsk DEF Promise!Next
<1>5. ASSUME NEW r \in DOMAIN reqs, Reject(r)
      PROVE  Promise!Next
  BY <1>1, <1>5, PromiseRefuse DEF Promise!Next
<1>6. ASSUME NEW r \in DOMAIN reqs, NEW force,
             \/ ScheduleDowngrade(r, force)
             \/ Approve(r, force) \/ ApproveInterrupted(r, force)
      PROVE  Promise!Next \/ UNCHANGED Promise!vars
  BY <1>1, <1>6, PromiseSchedule, PromiseApprove DEF Promise!Next
<1>7. ASSUME NEW cut \in {now, now + 1}, SuspendExpired(cut) \/ SuspendInterrupted(cut)
      PROVE  Promise!Next
  BY <1>1, <1>7, PromiseLapse DEF Promise!Next
<1>8. ASSUME NEW s \in DOMAIN subs, ApplyScheduled(s)
      PROVE  Promise!Next
  BY <1>1, <1>8, PromiseChange DEF Promise!Next
<1>. QED
  BY <1>2, <1>3, <1>4, <1>5, <1>6, <1>7, <1>8, WritingSteps

\* Whatever is interrupted, and in whatever order requests, jobs and checks come,
\* every step of the billing core is a step of BillingPromise or one it does not
\* see: access opens by a granted request, the trial is entered once, and only a
\* deferred change takes effect by itself.
THEOREM PromiseKept == TenantSpec => ImplementsPromise
<1>1. TenantInv /\ [TenantNext]_vars => [Promise!Next]_(Promise!vars)
  BY PromiseNext
<1>. QED
  BY <1>1, PromiseInit, TenantAlways, PTL DEF TenantSpec, ImplementsPromise, Promise!Spec

-----------------------------------------------------------------------------
(* The expiry check under the superadmin's writes *)

\* Row s is inactive after the step, has begun a cycle in it, keeps its end, or has
\* its term from the superadmin.
CycleKept(s) ==
  \/ ~subs'[s].active
  \/ subs'[s].end > now
  \/ s \in DOMAIN subs /\ subs[s].active /\ subs'[s].end = subs[s].end
  \/ TermWritten(s)

LEMMA CycleBegins ==
  ASSUME TypeInv, NEW p \in Plans
  PROVE  CycleEnd(p) \in Nat /\ CycleEnd(p) > now
BY TypeFacts, PlanAssumption DEF CycleEnd

LEMMA InsertKeepsCycles ==
  ASSUME TypeInv, NEW row \in SubscriptionRow, row.active => row.end > now,
         subs' = Append(subs, row)
  PROVE  \A s \in DOMAIN subs' : CycleKept(s)
<1>1. subs \in Seq(SubscriptionRow)
  BY DEF TypeInv, TypeOK
<1>2. /\ DOMAIN subs' = DOMAIN subs \cup {Len(subs) + 1}
      /\ \A j \in DOMAIN subs : subs'[j] = subs[j]
      /\ subs'[Len(subs) + 1] = row
  BY <1>1, InsertedRow
<1>. QED
  BY <1>2 DEF CycleKept

LEMMA AppliedKeepsCycles ==
  ASSUME TypeInv, NEW c \in Companies, NEW p \in Plans, PlanApplied(c, p)
  PROVE  \A s \in DOMAIN subs' : CycleKept(s)
<1>1. ASSUME NEW s \in DOMAIN subs, subs' = [subs EXCEPT ![s] = AppliedRow(@, p)]
      PROVE  \A t \in DOMAIN subs' : CycleKept(t)
  <2>1. AppliedRow(subs[s], p).end = CycleEnd(p)
    BY TypeFacts DEF AppliedRow, SubscriptionRow
  <2>. QED
    BY <1>1, <2>1, CycleBegins DEF CycleKept
<1>2. NewRow(c, p) \in SubscriptionRow /\ NewRow(c, p).end > now
  BY TypeFacts, NewRowType, CycleBegins DEF NewRow
<1>. QED
  BY <1>1, <1>2, InsertKeepsCycles DEF PlanApplied

LEMMA SavedKeepsCycles ==
  ASSUME TypeInv, NEW rows, rows \in Seq(SubscriptionRow), DOMAIN rows = DOMAIN subs,
         \A s \in DOMAIN subs : rows[s].end > now \/ rows[s] = subs[s],
         subs' = Saved(rows)
  PROVE  \A s \in DOMAIN subs' : CycleKept(s)
<1>1. \A s \in DOMAIN rows : rows[s] \in SubscriptionRow
  BY RowOfTable
<1>2. \A s \in DOMAIN subs : Saved(rows)[s].end = rows[s].end
                             /\ Saved(rows)[s].active = rows[s].active
  BY <1>1 DEF Saved, SubscriptionRow
<1>3. DOMAIN subs' = DOMAIN subs
  BY DEF Saved
<1>. QED
  BY <1>2, <1>3 DEF CycleKept

\* Every step but the expiry check keeps the cycles of the active rows, or is the
\* superadmin's write of one.
LEMMA StepKeepsCycles ==
  ASSUME TypeInv, [Next]_vars,
         ~\E cut \in {now, now + 1} : SuspendExpired(cut) \/ SuspendInterrupted(cut)
  PROVE  /\ \A s \in DOMAIN subs' : CycleKept(s)
         /\ now' \in {now, now + 1} /\ UNCHANGED checkedTo
<1>1. /\ now \in Nat /\ subs \in Seq(SubscriptionRow)
      /\ \A s \in DOMAIN subs : subs[s] \in SubscriptionRow
  BY TypeFacts DEF TypeInv, TypeOK
<1>2. ASSUME UNCHANGED subs
      PROVE  \A s \in DOMAIN subs' : CycleKept(s)
  BY <1>2 DEF CycleKept
<1>3. ASSUME NEW c \in Companies, NEW p \in Plans,
             Register(c, p) \/ RegisterWithoutPlan(c, p) \/ RegisterInterrupted(c, p)
      PROVE  \A s \in DOMAIN subs' : CycleKept(s)
  <2>1. NewRow(c, p) \in SubscriptionRow /\ NewRow(c, p).end > now
    BY <1>1, NewRowType, CycleBegins DEF NewRow
  <2>2. subs' = subs \/ subs' = Append(subs, NewRow(c, p))
    BY <1>3 DEF Register, RegisterWithoutPlan, RegisterInterrupted
  <2>. QED
    BY <1>2, <2>1, <2>2, InsertKeepsCycles
<1>4. ASSUME NEW r \in DOMAIN reqs, NEW force, ScheduleDowngrade(r, force)
      PROVE  \A s \in DOMAIN subs' : CycleKept(s)
  <2>1. PICK s \in DOMAIN subs : subs' = [subs EXCEPT ![s] = ScheduledRow(@, reqs[r].plan)]
    BY <1>4 DEF ScheduleDowngrade
  <2>2. /\ ScheduledRow(subs[s], reqs[r].plan).end = subs[s].end
        /\ ScheduledRow(subs[s], reqs[r].plan).active = subs[s].active
    BY <1>1 DEF ScheduledRow, SubscriptionRow
  <2>. QED
    BY <2>1, <2>2 DEF CycleKept
<1>5. ASSUME NEW r \in DOMAIN reqs, NEW force, Approve(r, force) \/ ApproveInterrupted(r, force)
      PROVE  \A s \in DOMAIN subs' : CycleKept(s)
  <2>1. reqs[r].company \in Companies /\ reqs[r].plan \in Plans
    BY TypeFacts
  <2>2. PlanApplied(reqs[r].company, reqs[r].plan)
    BY <1>5 DEF Approve, ApproveInterrupted
  <2>. QED
    BY <2>1, <2>2, AppliedKeepsCycles
<1>6. ASSUME NEW s \in DOMAIN subs, ApplyScheduled(s)
      PROVE  \A t \in DOMAIN subs' : CycleKept(t)
  <2>. DEFINE rows == [subs EXCEPT ![s] = AppliedRow(@, subs[s].schedPlan)]
  <2>1. subs[s].schedPlan \in Plans /\ subs' = Saved(rows)
    BY <1>1, <1>6 DEF ApplyScheduled, SubscriptionRow
  <2>2. /\ AppliedRow(subs[s], subs[s].schedPlan) \in SubscriptionRow
        /\ AppliedRow(subs[s], subs[s].schedPlan).end > now
    BY <1>1, <2>1, CycleBegins, AppliedRowType, ZenonT(60) DEF AppliedRow, SubscriptionRow
  <2>3. /\ rows \in Seq(SubscriptionRow) /\ DOMAIN rows = DOMAIN subs
        /\ \A t \in DOMAIN subs : rows[t].end > now \/ rows[t] = subs[t]
    BY <1>1, <2>2, ReplacedRow
  <2>. HIDE DEF rows
  <2>. QED
    BY <2>1, <2>3, SavedKeepsCycles
<1>7. ASSUME FinishScheduledChanges
      PROVE  \A s \in DOMAIN subs' : CycleKept(s)
  BY <1>1, <1>7, SavedKeepsCycles DEF FinishScheduledChanges
<1>8. ASSUME NEW c \in Companies, NEW e \in AdminCreates,
             CreateSubscription(c, e) \/ CreateSubscriptionInterrupted(c, e)
      PROVE  \A s \in DOMAIN subs' : CycleKept(s)
  <2>1. e \in CreatePayload
    BY PayloadAssumption
  <2>2. subs' = Append(subs, CreatedRow(c, e)) /\ CreatedRow(c, e) \in SubscriptionRow
    BY <1>1, <1>8, <2>1, CreatedRowType
       DEF CreateSubscription, CreateSubscriptionInterrupted
  <2>3. /\ DOMAIN subs' = DOMAIN subs \cup {Len(subs) + 1}
        /\ Len(subs) + 1 \notin DOMAIN subs
        /\ \A s \in DOMAIN subs : subs'[s] = subs[s]
    BY <1>1, <2>2, InsertedRow
  <2>4. AdminWrite
    BY <1>8 DEF AdminWrite
  <2>. QED
    BY <2>3, <2>4 DEF CycleKept, TermWritten
<1>9. ASSUME NEW s \in DOMAIN subs, NEW e \in AdminUpdates,
             UpdateSubscription(s, e) \/ UpdateSubscriptionInterrupted(s, e)
      PROVE  \A t \in DOMAIN subs' : CycleKept(t)
  <2>1. subs' = [subs EXCEPT ![s] = Updated(@, e)]
    BY <1>9 DEF UpdateSubscription, UpdateSubscriptionInterrupted
  <2>2. AdminWrite
    BY <1>9 DEF AdminWrite
  <2>3. \A t \in DOMAIN subs : /\ subs[t].active \in BOOLEAN
                              /\ subs'[t].active = subs[t].active => CycleKept(t)
    BY <1>1, <2>2 DEF CycleKept, TermWritten, SubscriptionRow
  <2>. QED
    BY <2>1, <2>2, <2>3 DEF TermWritten, CycleKept
<1>10. ASSUME \/ \E c \in Companies, type \in RequestTypes, p \in Plans, i \in BOOLEAN :
                   RequestChange(c, type, p, i)
              \/ \E r \in DOMAIN reqs : Reject(r)
              \/ StartScheduledChanges
              \/ \E s \in DOMAIN subs : SkipScheduled(s) \/ AbortScheduledChanges(s)
              \/ ScheduledChangesInterrupted
              \/ \E p \in Plans, state \in PlanState : SetPlan(p, state)
              \/ \E role \in {"SUPERADMIN", "EMPLOYEE"}, c \in Companies,
                    e \in CompanyUpdates : UpdateCompany(role, c, e)
              \/ Tick
              \/ UNCHANGED vars
      PROVE  \A s \in DOMAIN subs' : CycleKept(s)
  <2>1. UNCHANGED subs
    BY <1>10 DEF RequestChange, Reject, StartScheduledChanges, SkipScheduled,
                 AbortScheduledChanges, ScheduledChangesInterrupted, SetPlan,
                 UpdateCompany, Tick, vars
  <2>. QED
    BY <1>2, <2>1
<1>11. now' \in {now, now + 1} /\ UNCHANGED checkedTo
  BY DEF Next, TenantNext, AdminWrite, Register, RegisterWithoutPlan,
         RegisterInterrupted, RequestChange, Reject, ScheduleDowngrade, Approve,
         ApproveInterrupted, StartScheduledChanges, ApplyScheduled, SkipScheduled,
         AbortScheduledChanges, FinishScheduledChanges, ScheduledChangesInterrupted,
         SetPlan, Tick, CreateSubscription, CreateSubscriptionInterrupted,
         UpdateSubscription, UpdateSubscriptionInterrupted, UpdateCompany, vars
<1>. QED
  BY <1>3, <1>4, <1>5, <1>6, <1>7, <1>8, <1>9, <1>10, <1>11
     DEF Next, TenantNext, AdminWrite

\* What a check has gone through is closed, and the rest is as it was.
LEMMA CheckCloses ==
  ASSUME TypeInv, CheckedSoFar, NEW cut \in {now, now + 1},
         SuspendExpired(cut) \/ SuspendInterrupted(cut)
  PROVE  /\ \A s \in DOMAIN subs' : Overdue(s)' => s \in DOMAIN subs /\ Overdue(s)
         /\ SuspendExpired(cut) =>
              \A s \in DOMAIN subs' : subs'[s].active => subs'[s].end >= cut
         /\ CheckedSoFar'
<1>1. /\ now \in Nat /\ checkedTo \in Nat /\ checkedTo <= now + 1
      /\ \A s \in DOMAIN subs : subs[s].end \in Nat
  <2>1. \A s \in DOMAIN subs : subs[s].end \in Nat
    BY TypeFacts DEF SubscriptionRow
  <2>. QED
    BY <2>1 DEF TypeInv, TypeOK, CheckedSoFar
<1>2. PICK D \in SUBSET (DOMAIN subs) :
        /\ Suspended(D)
        /\ \/ UNCHANGED checkedTo
           \/ checkedTo' = IF cut > checkedTo THEN cut ELSE checkedTo
        /\ UNCHANGED checkedTo \/ D = ExpiredBy(cut)
        /\ SuspendExpired(cut) => D = ExpiredBy(cut)
  <2>1. CASE SuspendExpired(cut)
    BY <2>1 DEF SuspendExpired, ExpiredBy
  <2>2. CASE ~SuspendExpired(cut)
    BY <2>2 DEF SuspendInterrupted, ExpiredBy
  <2>. QED
    BY <2>1, <2>2
<1>3. now' = now
  BY DEF SuspendExpired, SuspendInterrupted
<1>4. \A s \in DOMAIN subs' : subs'[s].active => s \in DOMAIN subs \ D /\ subs'[s] = subs[s]
  BY <1>2, SuspendedEffect
<1>5. ASSUME NEW s \in DOMAIN subs', subs'[s].active, D = ExpiredBy(cut)
      PROVE  subs'[s].end >= cut
  BY <1>1, <1>4, <1>5 DEF ExpiredBy
<1>6. ASSUME NEW s \in DOMAIN subs', Overdue(s)'
      PROVE  s \in DOMAIN subs /\ Overdue(s)
  <2>1. /\ s \in DOMAIN subs /\ subs'[s] = subs[s] /\ subs[s].active
        /\ subs[s].end < checkedTo'
    BY <1>4, <1>6 DEF Overdue
  <2>2. CASE UNCHANGED checkedTo
    BY <2>1, <2>2 DEF Overdue
  <2>3. CASE D = ExpiredBy(cut)
    <3>1. subs[s].end >= cut
      BY <1>5, <2>1, <2>3
    <3>2. subs[s].end < checkedTo
      BY <1>1, <1>2, <2>1, <3>1
    <3>. QED
      BY <2>1, <3>2 DEF Overdue
  <2>. QED
    BY <1>2, <2>2, <2>3
<1>7. CheckedSoFar'
  BY <1>1, <1>2, <1>3 DEF CheckedSoFar
<1>. QED
  BY <1>2, <1>5, <1>6, <1>7

LEMMA ClosedStep ==
  ASSUME TypeInv, TypeInv', CheckedSoFar, [Next]_vars
  PROVE  /\ \A s \in DOMAIN subs' :
              Overdue(s)' => (s \in DOMAIN subs /\ Overdue(s)) \/ TermWritten(s)
         /\ \A cut \in {now, now + 1} :
              SuspendExpired(cut) =>
                \A s \in DOMAIN subs' : subs'[s].active => subs'[s].end >= cut
         /\ CheckedSoFar'
<1>1. CASE \E cut \in {now, now + 1} : SuspendExpired(cut) \/ SuspendInterrupted(cut)
  BY <1>1, CheckCloses
<1>2. CASE ~\E cut \in {now, now + 1} : SuspendExpired(cut) \/ SuspendInterrupted(cut)
  <2>1. /\ \A s \in DOMAIN subs' : CycleKept(s)
        /\ now' \in {now, now + 1} /\ UNCHANGED checkedTo
    BY <1>2, StepKeepsCycles
  <2>2. now \in Nat /\ checkedTo \in Nat /\ checkedTo <= now + 1
    BY DEF TypeInv, TypeOK, CheckedSoFar
  <2>3. CheckedSoFar'
    <3>1. checkedTo <= now + 1 /\ checkedTo <= (now + 1) + 1
      BY <2>2
    <3>2. checkedTo' <= now' + 1
      BY <2>1, <3>1
    <3>. QED
      BY <3>2 DEF CheckedSoFar
  <2>4. ASSUME NEW s \in DOMAIN subs', Overdue(s)'
        PROVE  (s \in DOMAIN subs /\ Overdue(s)) \/ TermWritten(s)
    <3>1. subs'[s].active /\ subs'[s].end < checkedTo
      BY <2>1, <2>4 DEF Overdue
    <3>2. subs'[s].end \in Nat
      <4>1. subs' \in Seq(SubscriptionRow)
        BY DEF TypeInv, TypeOK
      <4>2. subs'[s] \in SubscriptionRow
        BY <4>1, RowOfTable
      <4>. QED
        BY <4>2 DEF SubscriptionRow
    <3>3. ~(subs'[s].end > now)
      BY <2>2, <3>1, <3>2
    <3>. QED
      BY <2>1, <3>1, <3>3 DEF CycleKept, Overdue
  <2>. QED
    BY <1>2, <2>3, <2>4
<1>. QED
  BY <1>1, <1>2

LEMMA CheckedAlways == Spec => [](TypeInv /\ CheckedSoFar)
<1>. DEFINE I == TypeInv /\ CheckedSoFar
<1>1. Init => I
  BY TypeInit, AccessInit DEF AccessInv
<1>2. I /\ [Next]_vars => I'
  BY TypeNext, ClosedStep
<1>. QED
  BY <1>1, <1>2, PTL DEF Spec

\* A complete expiry check closes every row that had ended, and only the superadmin's
\* own write of a row's end or activity makes one active again: no request, approval,
\* job, interruption or other write of his does, whatever payloads he sends.
THEOREM EndedRowsStayShut == Spec => EndedRowsStayClosed
<1>1. ASSUME TypeInv, CheckedSoFar, [Next]_vars
      PROVE  /\ \A s \in DOMAIN subs' :
                  Overdue(s)' => \/ s \in DOMAIN subs /\ Overdue(s)
                                 \/ TermWritten(s)
             /\ \A cut \in {now, now + 1} :
                  SuspendExpired(cut) =>
                    \A s \in DOMAIN subs' : subs'[s].active => subs'[s].end >= cut
  BY <1>1, TypeNext, ClosedStep
<1>. QED
  BY <1>1, CheckedAlways, PTL DEF Spec, EndedRowsStayClosed
=============================================================================
