------------------------- MODULE SubscriptionProofs -------------------------
(***************************************************************************)
(* What holds of Subscription for every set of companies and plans, every  *)
(* price list, every superadmin payload and every bound.                   *)
(***************************************************************************)
EXTENDS Subscription, SequenceTheorems, TLAPS

-----------------------------------------------------------------------------
(* Sequences of rows *)

\* A function on 1..n into S is a sequence over S.
LEMMA FunctionIsSeq ==
  ASSUME NEW S, NEW n \in Nat, NEW f \in [1..n -> S]
  PROVE  f \in Seq(S)
BY SeqDef

\* The rows of a table are rows.
LEMMA RowOfTable ==
  ASSUME NEW S, NEW rows \in Seq(S), NEW i \in DOMAIN rows
  PROVE  rows[i] \in S
BY ElementOfSeq, LenProperties

\* Replacing one row by another row keeps the table a sequence of rows.
LEMMA ReplacedRow ==
  ASSUME NEW S, NEW rows \in Seq(S), NEW i \in DOMAIN rows, NEW e \in S
  PROVE  /\ [rows EXCEPT ![i] = e] \in Seq(S)
         /\ DOMAIN [rows EXCEPT ![i] = e] = DOMAIN rows
         /\ \A j \in DOMAIN rows :
              [rows EXCEPT ![i] = e][j] = IF j = i THEN e ELSE rows[j]
BY ExceptSeq, LenProperties

\* Inserting a row keeps the rows the table had.
LEMMA InsertedRow ==
  ASSUME NEW S, NEW rows \in Seq(S), NEW e \in S
  PROVE  /\ Append(rows, e) \in Seq(S)
         /\ DOMAIN Append(rows, e) = DOMAIN rows \cup {Len(rows) + 1}
         /\ Len(rows) + 1 \notin DOMAIN rows
         /\ \A j \in DOMAIN rows : Append(rows, e)[j] = rows[j]
         /\ Append(rows, e)[Len(rows) + 1] = e
<1>1. Len(rows) \in Nat /\ DOMAIN rows = 1..Len(rows)
  BY LenProperties
<1>2. /\ Append(rows, e) \in Seq(S)
      /\ Len(Append(rows, e)) = Len(rows) + 1
      /\ \A j \in 1..Len(rows) : Append(rows, e)[j] = rows[j]
      /\ Append(rows, e)[Len(rows) + 1] = e
  BY AppendProperties
<1>3. DOMAIN Append(rows, e) = 1..(Len(rows) + 1)
  BY <1>2, LenProperties
<1>. QED
  BY <1>1, <1>2, <1>3

\* A table rewritten row by row keeps its keys.
LEMMA RewrittenRows ==
  ASSUME NEW S, NEW rows \in Seq(S), NEW f, DOMAIN f = DOMAIN rows,
         f = [j \in DOMAIN rows |-> f[j]],
         \A j \in DOMAIN rows : f[j] \in S
  PROVE  f \in Seq(S)
<1>1. Len(rows) \in Nat /\ DOMAIN rows = 1..Len(rows)
  BY LenProperties
<1>2. f \in [1..Len(rows) -> S]
  BY <1>1
<1>. QED
  BY <1>1, <1>2, FunctionIsSeq

-----------------------------------------------------------------------------
(* The rows the service writes are rows *)

LEMMA CycleEndType ==
  ASSUME now \in Nat, NEW p \in Plans
  PROVE  CycleEnd(p) \in Nat /\ CycleEnd(p) > now
BY PlanAssumption DEF CycleEnd

LEMMA StatusForType == ASSUME NEW p PROVE StatusFor(p) \in BillingStatus
BY DEF StatusFor, BillingStatus

LEMMA NewRowType ==
  ASSUME now \in Nat, NEW c \in Companies, NEW p \in Plans
  PROVE  NewRow(c, p) \in SubscriptionRow
BY CycleEndType, StatusForType DEF NewRow, SubscriptionRow

LEMMA AppliedRowType ==
  ASSUME now \in Nat, NEW row \in SubscriptionRow, NEW p \in Plans
  PROVE  /\ AppliedRow(row, p) \in SubscriptionRow
         /\ AppliedRow(row, p).company = row.company
BY CycleEndType, StatusForType DEF AppliedRow, SubscriptionRow

LEMMA ScheduledRowType ==
  ASSUME NEW row \in SubscriptionRow, NEW p \in Plans
  PROVE  /\ ScheduledRow(row, p) \in SubscriptionRow
         /\ ScheduledRow(row, p).company = row.company
BY DEF ScheduledRow, SubscriptionRow, BillingStatus

LEMMA ExpiredRowType ==
  ASSUME NEW row \in SubscriptionRow
  PROVE  /\ ExpiredRow(row) \in SubscriptionRow
         /\ ExpiredRow(row).company = row.company
BY DEF ExpiredRow, ExpiredStatus, SubscriptionRow, BillingStatus

LEMMA CreatedRowType ==
  ASSUME now \in Nat, NEW c \in Companies, NEW e \in CreatePayload
  PROVE  CreatedRow(c, e) \in SubscriptionRow
BY DEF CreatedRow, CreatePayload, SubscriptionRow

LEMMA UpdatedRowType ==
  ASSUME NEW row \in SubscriptionRow, NEW e \in AdminUpdates
  PROVE  /\ Updated(row, e) \in SubscriptionRow
         /\ Updated(row, e).company = row.company
BY PayloadAssumption DEF Updated, SubscriptionRow, UpdateFields

LEMMA PendingCompanyType ==
  ASSUME now \in Nat, NEW p \in Plans
  PROVE  PendingCompany(p) \in CompanyRow
BY CycleEndType, PlanAssumption DEF PendingCompany, CompanyRow, BillingStatus

LEMMA AppliedCompanyType ==
  ASSUME now \in Nat, NEW co \in CompanyRow, NEW p \in Plans
  PROVE  AppliedCompany(co, p) \in CompanyRow
BY CycleEndType, StatusForType DEF AppliedCompany, CompanyRow

LEMMA ScheduledCompanyType ==
  ASSUME NEW co \in CompanyRow, NEW row \in SubscriptionRow
  PROVE  ScheduledCompany(co, row) \in CompanyRow
BY DEF ScheduledCompany, CompanyRow, SubscriptionRow, BillingStatus

LEMMA ExpiredCompanyType ==
  ASSUME NEW co \in CompanyRow, NEW row \in SubscriptionRow
  PROVE  ExpiredCompany(co, row) \in CompanyRow
BY DEF ExpiredCompany, ExpiredStatus, CompanyRow, SubscriptionRow, BillingStatus

LEMMA CreatedCompanyType ==
  ASSUME now \in Nat, NEW co \in CompanyRow, NEW e \in CreatePayload
  PROVE  CreatedCompany(co, e) \in CompanyRow
<1>1. /\ e.plan \in Plans /\ now + e.slots \in Nat
      /\ e.status \in BillingStatus /\ e.active \in BOOLEAN
  BY DEF CreatePayload
<1>. QED
  BY <1>1 DEF CreatedCompany, CompanyRow

LEMMA MirroredUpdateType ==
  ASSUME NEW co \in CompanyRow, NEW e \in AdminUpdates
  PROVE  MirroredUpdate(co, e) \in CompanyRow
<1>1. Updated(co, e) \in CompanyRow
  BY PayloadAssumption DEF Updated, CompanyRow, UpdateFields
<1>. QED
  BY <1>1, PayloadAssumption DEF MirroredUpdate, CompanyRow

-----------------------------------------------------------------------------
(* Type correctness *)

\* The foreign keys: rows and requests belong to companies that registered.
OwnersRegistered ==
  /\ \A s \in DOMAIN subs : Registered(subs[s].company)
  /\ \A r \in DOMAIN reqs : Registered(reqs[r].company)

TypeInv == TypeOK /\ OwnersRegistered

\* What a step must show: the tables stay well typed, no row is deleted and no
\* company unregistered, and a row that is new or changed has a registered owner.
LEMMA TablesSuffice ==
  ASSUME TypeInv,
         company' \in [Companies -> CompanyRow \cup {None}],
         subs' \in Seq(SubscriptionRow),
         reqs' \in Seq(RequestRow),
         \A c \in Companies : company[c] # None => company'[c] # None,
         DOMAIN subs \subseteq DOMAIN subs',
         \A s \in DOMAIN subs' :
           \/ s \in DOMAIN subs /\ subs'[s].company = subs[s].company
           \/ company'[subs'[s].company] # None,
         \A r \in DOMAIN reqs' :
           \/ r \in DOMAIN reqs /\ reqs'[r].company = reqs[r].company
           \/ company'[reqs'[r].company] # None
  PROVE  /\ OwnersRegistered'
         /\ batch' = batch => (/\ batch' \in Batch \cup {None}
                               /\ batch' # None => batch'.todo \subseteq DOMAIN subs'
                               /\ batch' # None => batch'.unsaved \in {0} \cup DOMAIN subs')
<1>1. \A s \in DOMAIN subs : subs[s].company \in Companies
  <2>1. \A s \in DOMAIN subs : subs[s] \in SubscriptionRow
    BY RowOfTable DEF TypeInv, TypeOK
  <2>. QED
    BY <2>1 DEF SubscriptionRow
<1>2. \A r \in DOMAIN reqs : reqs[r].company \in Companies
  <2>1. \A r \in DOMAIN reqs : reqs[r] \in RequestRow
    BY RowOfTable DEF TypeInv, TypeOK
  <2>. QED
    BY <2>1 DEF RequestRow
<1>3. OwnersRegistered'
  BY <1>1, <1>2 DEF TypeInv, OwnersRegistered, Registered
<1>. QED
  BY <1>3 DEF TypeInv, TypeOK

LEMMA TypeInit == Init => TypeInv
<1>. SUFFICES ASSUME Init PROVE TypeInv
  OBVIOUS
<1>1. subs \in Seq(SubscriptionRow) /\ reqs \in Seq(RequestRow)
  BY EmptySeq DEF Init
<1>2. DOMAIN subs = {} /\ DOMAIN reqs = {}
  BY EmptySeq, LenProperties DEF Init
<1>3. TypeOK
  BY <1>1 DEF Init, TypeOK, PlanState
<1>. QED
  BY <1>2, <1>3 DEF TypeInv, OwnersRegistered

\* The facts about the state every step below starts from.
LEMMA TypeFacts ==
  ASSUME TypeInv
  PROVE  /\ now \in Nat
         /\ \A c \in Companies : company[c] # None => company[c] \in CompanyRow
         /\ \A s \in DOMAIN subs : /\ subs[s] \in SubscriptionRow
                                   /\ subs[s].company \in Companies
                                   /\ subs[s].schedPlan \in Plans \cup {None}
                                   /\ company[subs[s].company] \in CompanyRow
         /\ \A r \in DOMAIN reqs : /\ reqs[r] \in RequestRow
                                   /\ reqs[r].company \in Companies
                                   /\ reqs[r].plan \in Plans
                                   /\ company[reqs[r].company] \in CompanyRow
<1>1. now \in Nat /\ \A c \in Companies : company[c] # None => company[c] \in CompanyRow
  BY DEF TypeInv, TypeOK
<1>2. \A s \in DOMAIN subs : subs[s] \in SubscriptionRow /\ company[subs[s].company] # None
  BY RowOfTable DEF TypeInv, TypeOK, OwnersRegistered, Registered
<1>3. \A r \in DOMAIN reqs : reqs[r] \in RequestRow /\ company[reqs[r].company] # None
  BY RowOfTable DEF TypeInv, TypeOK, OwnersRegistered, Registered
<1>4. \A row \in SubscriptionRow : row.company \in Companies /\ row.schedPlan \in Plans \cup {None}
  BY DEF SubscriptionRow
<1>5. \A row \in RequestRow : row.company \in Companies /\ row.plan \in Plans
  BY DEF RequestRow
<1>. QED
  BY <1>1, <1>2, <1>3, <1>4, <1>5

\* A row inserted for a registered company.
LEMMA InsertStep ==
  ASSUME TypeInv, NEW c \in Companies, NEW row \in SubscriptionRow,
         row.company = c,
         subs' = Append(subs, row),
         reqs' = reqs,
         company' \in [Companies -> CompanyRow \cup {None}],
         \A d \in Companies : company[d] # None => company'[d] # None,
         company'[c] # None,
         UNCHANGED batch
  PROVE  /\ OwnersRegistered'
         /\ subs' \in Seq(SubscriptionRow)
         /\ batch' \in Batch \cup {None}
         /\ batch' # None => batch'.todo \subseteq DOMAIN subs'
         /\ batch' # None => batch'.unsaved \in {0} \cup DOMAIN subs'
<1>1. subs \in Seq(SubscriptionRow) /\ reqs' \in Seq(RequestRow)
  BY DEF TypeInv, TypeOK
<1>2. /\ subs' \in Seq(SubscriptionRow)
      /\ DOMAIN subs' = DOMAIN subs \cup {Len(subs) + 1}
      /\ \A j \in DOMAIN subs : subs'[j] = subs[j]
      /\ subs'[Len(subs) + 1] = row
  BY <1>1, InsertedRow
<1>. QED
  BY <1>1, <1>2, TablesSuffice

\* A row replaced by one of the same company.
LEMMA ReplaceStep ==
  ASSUME TypeInv, NEW s \in DOMAIN subs, NEW row \in SubscriptionRow,
         row.company = subs[s].company,
         subs' = [subs EXCEPT ![s] = row],
         reqs' \in Seq(RequestRow),
         DOMAIN reqs' = DOMAIN reqs,
         \A r \in DOMAIN reqs : reqs'[r].company = reqs[r].company,
         company' \in [Companies -> CompanyRow \cup {None}],
         \A d \in Companies : company[d] # None => company'[d] # None,
         UNCHANGED batch
  PROVE  /\ OwnersRegistered'
         /\ subs' \in Seq(SubscriptionRow)
         /\ batch' \in Batch \cup {None}
         /\ batch' # None => batch'.todo \subseteq DOMAIN subs'
         /\ batch' # None => batch'.unsaved \in {0} \cup DOMAIN subs'
<1>1. subs \in Seq(SubscriptionRow)
  BY DEF TypeInv, TypeOK
<1>2. /\ subs' \in Seq(SubscriptionRow)
      /\ DOMAIN subs' = DOMAIN subs
      /\ \A j \in DOMAIN subs : subs'[j] = IF j = s THEN row ELSE subs[j]
  BY <1>1, ReplacedRow
<1>. QED
  BY <1>2, TablesSuffice

\* A company row replaced by a company row.
LEMMA CompanyStep ==
  ASSUME TypeInv, NEW c \in Companies, NEW co \in CompanyRow,
         company' = [company EXCEPT ![c] = co]
  PROVE  /\ company' \in [Companies -> CompanyRow \cup {None}]
         /\ \A d \in Companies : company[d] # None => company'[d] # None
         /\ company'[c] = co
         /\ company'[c] # None
BY NoneAssumption DEF TypeInv, TypeOK

\* The decision of a request.
LEMMA DecideStep ==
  ASSUME TypeInv, NEW r \in DOMAIN reqs, NEW status \in RequestStatus,
         Decide(r, status)
  PROVE  /\ reqs' \in Seq(RequestRow)
         /\ DOMAIN reqs' = DOMAIN reqs
         /\ \A q \in DOMAIN reqs : reqs'[q].company = reqs[q].company
<1>. DEFINE row == [reqs[r] EXCEPT !.status = status]
<1>1. reqs[r] \in RequestRow /\ reqs \in Seq(RequestRow)
  BY TypeFacts DEF TypeInv, TypeOK
<1>2. row \in RequestRow /\ row.company = reqs[r].company
  BY <1>1 DEF RequestRow
<1>3. reqs' = [reqs EXCEPT ![r] = row]
  BY DEF Decide
<1>. QED
  BY <1>1, <1>2, <1>3, ReplacedRow

\* Registration.
LEMMA TypeRegistration ==
  ASSUME TypeInv, NEW c \in Companies, NEW p \in Plans,
         Register(c, p) \/ RegisterWithoutPlan(c, p) \/ RegisterInterrupted(c, p)
  PROVE  TypeInv'
<1>1. /\ NewRow(c, p) \in SubscriptionRow /\ NewRow(c, p).company = c
      /\ PendingCompany(p) \in CompanyRow
      /\ AppliedCompany(PendingCompany(p), p) \in CompanyRow
  BY TypeFacts, NewRowType, PendingCompanyType, AppliedCompanyType DEF NewRow
<1>2. reqs \in Seq(RequestRow) /\ subs \in Seq(SubscriptionRow)
  BY DEF TypeInv, TypeOK
<1>3. /\ \E co \in CompanyRow : company' = [company EXCEPT ![c] = co]
      /\ subs' = subs \/ subs' = Append(subs, NewRow(c, p))
      /\ crashes' \in Nat
      /\ UNCHANGED <<now, catalog, reqs, batch, jobDue, checkedTo>>
  BY <1>1 DEF Register, RegisterWithoutPlan, RegisterInterrupted, Crash, TypeInv, TypeOK
<1>4. /\ company' \in [Companies -> CompanyRow \cup {None}]
      /\ \A d \in Companies : company[d] # None => company'[d] # None
      /\ company'[c] # None
  BY <1>3, CompanyStep
<1>5. CASE subs' = subs
  BY <1>2, <1>3, <1>4, <1>5, TablesSuffice DEF TypeInv, TypeOK
<1>6. CASE subs' = Append(subs, NewRow(c, p))
  BY <1>1, <1>3, <1>4, <1>6, InsertStep DEF TypeInv, TypeOK
<1>. QED
  BY <1>3, <1>5, <1>6

\* Requests and their rejection.
LEMMA TypeRequest ==
  ASSUME TypeInv, NEW c \in Companies, NEW type \in RequestTypes,
         NEW p \in Plans, NEW immediate \in BOOLEAN,
         RequestChange(c, type, p, immediate)
  PROVE  TypeInv'
<1>. DEFINE row == [company |-> c, type |-> type, plan |-> p,
                    immediate |-> immediate, status |-> "PENDING_APPROVAL"]
<1>1. row \in RequestRow /\ row.company = c
  BY DEF RequestRow, RequestStatus
<1>2. reqs \in Seq(RequestRow) /\ subs \in Seq(SubscriptionRow)
  BY DEF TypeInv, TypeOK
<1>3. /\ reqs' = Append(reqs, row)
      /\ company[c] # None
      /\ UNCHANGED <<now, catalog, company, subs, batch, jobDue, checkedTo, crashes>>
  BY DEF RequestChange, Registered
<1>4. /\ reqs' \in Seq(RequestRow)
      /\ DOMAIN reqs' = DOMAIN reqs \cup {Len(reqs) + 1}
      /\ \A j \in DOMAIN reqs : reqs'[j] = reqs[j]
      /\ reqs'[Len(reqs) + 1] = row
  BY <1>1, <1>2, <1>3, InsertedRow
<1>5. OwnersRegistered'
  BY <1>1, <1>2, <1>3, <1>4, TablesSuffice DEF TypeInv, TypeOK
<1>. QED
  BY <1>3, <1>4, <1>5 DEF TypeInv, TypeOK

LEMMA TypeReject ==
  ASSUME TypeInv, NEW r \in DOMAIN reqs, Reject(r)
  PROVE  TypeInv'
<1>1. "REJECTED" \in RequestStatus
  BY DEF RequestStatus
<1>2. /\ reqs' \in Seq(RequestRow)
      /\ DOMAIN reqs' = DOMAIN reqs
      /\ \A q \in DOMAIN reqs : reqs'[q].company = reqs[q].company
  BY <1>1, DecideStep DEF Reject
<1>3. UNCHANGED <<now, catalog, company, subs, batch, jobDue, checkedTo, crashes>>
  BY DEF Reject
<1>4. OwnersRegistered'
  BY <1>2, <1>3, TablesSuffice DEF TypeInv, TypeOK
<1>. QED
  BY <1>2, <1>3, <1>4 DEF TypeInv, TypeOK

LEMMA TypeSchedule ==
  ASSUME TypeInv, NEW r \in DOMAIN reqs, NEW force, ScheduleDowngrade(r, force)
  PROVE  TypeInv'
<1>. DEFINE c == reqs[r].company
            p == reqs[r].plan
<1>1. c \in Companies /\ p \in Plans /\ company[c] \in CompanyRow
  BY TypeFacts
<1>2. PICK s \in DOMAIN subs :
        /\ subs' = [subs EXCEPT ![s] = ScheduledRow(subs[s], p)]
        /\ company' = [company EXCEPT ![c] = ScheduledCompany(company[c], subs[s])]
  BY DEF ScheduleDowngrade
<1>3. subs[s] \in SubscriptionRow
  BY TypeFacts
<1>4. /\ ScheduledRow(subs[s], p) \in SubscriptionRow
      /\ ScheduledRow(subs[s], p).company = subs[s].company
      /\ ScheduledCompany(company[c], subs[s]) \in CompanyRow
  BY <1>1, <1>3, ScheduledRowType, ScheduledCompanyType
<1>5. /\ company' \in [Companies -> CompanyRow \cup {None}]
      /\ \A d \in Companies : company[d] # None => company'[d] # None
  BY <1>1, <1>2, <1>4, CompanyStep
<1>6. /\ reqs' \in Seq(RequestRow)
      /\ DOMAIN reqs' = DOMAIN reqs
      /\ \A q \in DOMAIN reqs : reqs'[q].company = reqs[q].company
  <2>1. "APPROVED" \in RequestStatus /\ Decide(r, "APPROVED")
    BY DEF ScheduleDowngrade, RequestStatus
  <2>. QED
    BY <2>1, DecideStep
<1>7. UNCHANGED <<now, catalog, batch, jobDue, checkedTo, crashes>>
  BY DEF ScheduleDowngrade
<1>. QED
  BY <1>2, <1>4, <1>5, <1>6, <1>7, ReplaceStep DEF TypeInv, TypeOK

\* The rows an applied plan leaves, whatever the step does to the request.
LEMMA PlanAppliedStep ==
  ASSUME TypeInv, NEW c \in Companies, NEW p \in Plans, company[c] # None,
         PlanApplied(c, p),
         reqs' \in Seq(RequestRow),
         DOMAIN reqs' = DOMAIN reqs,
         \A r \in DOMAIN reqs : reqs'[r].company = reqs[r].company,
         company' = [company EXCEPT ![c] = AppliedCompany(company[c], p)] \/ company' = company,
         UNCHANGED batch
  PROVE  /\ OwnersRegistered'
         /\ subs' \in Seq(SubscriptionRow)
         /\ company' \in [Companies -> CompanyRow \cup {None}]
         /\ batch' \in Batch \cup {None}
         /\ batch' # None => batch'.todo \subseteq DOMAIN subs'
         /\ batch' # None => batch'.unsaved \in {0} \cup DOMAIN subs'
<1>1. company[c] \in CompanyRow
  BY TypeFacts
<1>2. AppliedCompany(company[c], p) \in CompanyRow
  BY <1>1, TypeFacts, AppliedCompanyType
<1>3. /\ company' \in [Companies -> CompanyRow \cup {None}]
      /\ \A d \in Companies : company[d] # None => company'[d] # None
      /\ company'[c] # None
  BY <1>2, CompanyStep DEF TypeInv, TypeOK
<1>4. CASE \E s \in DOMAIN subs : subs' = [subs EXCEPT ![s] = AppliedRow(@, p)]
  <2>1. PICK s \in DOMAIN subs : subs' = [subs EXCEPT ![s] = AppliedRow(subs[s], p)]
    BY <1>4
  <2>2. /\ AppliedRow(subs[s], p) \in SubscriptionRow
        /\ AppliedRow(subs[s], p).company = subs[s].company
    BY TypeFacts, AppliedRowType
  <2>. QED
    BY <1>3, <2>1, <2>2, ReplaceStep
<1>5. CASE subs' = Append(subs, NewRow(c, p))
  <2>1. /\ subs \in Seq(SubscriptionRow)
        /\ NewRow(c, p) \in SubscriptionRow
        /\ NewRow(c, p).company = c
    BY TypeFacts, NewRowType DEF NewRow, TypeInv, TypeOK
  <2>2. /\ subs' \in Seq(SubscriptionRow)
        /\ DOMAIN subs' = DOMAIN subs \cup {Len(subs) + 1}
        /\ \A j \in DOMAIN subs : subs'[j] = subs[j]
        /\ subs'[Len(subs) + 1] = NewRow(c, p)
    BY <1>5, <2>1, InsertedRow
  <2>. QED
    BY <1>3, <2>1, <2>2, TablesSuffice
<1>. QED
  BY <1>4, <1>5 DEF PlanApplied

LEMMA TypeApprove ==
  ASSUME TypeInv, NEW r \in DOMAIN reqs, NEW force,
         Approve(r, force) \/ ApproveInterrupted(r, force)
  PROVE  TypeInv'
<1>. DEFINE c == reqs[r].company
            p == reqs[r].plan
<1>1. c \in Companies /\ p \in Plans /\ company[c] \in CompanyRow /\ company[c] # None
  BY TypeFacts, NoneAssumption
<1>2. /\ PlanApplied(c, p)
      /\ company' = [company EXCEPT ![c] = AppliedCompany(company[c], p)] \/ company' = company
      /\ reqs' = reqs \/ Decide(r, "APPROVED")
      /\ crashes' \in Nat
      /\ UNCHANGED <<now, catalog, batch, jobDue, checkedTo>>
  BY DEF Approve, ApproveInterrupted, Crash, TypeInv, TypeOK
<1>3. /\ reqs' \in Seq(RequestRow)
      /\ DOMAIN reqs' = DOMAIN reqs
      /\ \A q \in DOMAIN reqs : reqs'[q].company = reqs[q].company
  <2>1. "APPROVED" \in RequestStatus
    BY DEF RequestStatus
  <2>. QED
    BY <1>2, <2>1, DecideStep DEF TypeInv, TypeOK
<1>. QED
  BY <1>1, <1>2, <1>3, PlanAppliedStep DEF TypeInv, TypeOK

\* The expiry check, complete or interrupted.
LEMMA SuspendedStep ==
  ASSUME TypeInv, NEW D \in SUBSET (DOMAIN subs), Suspended(D), UNCHANGED <<reqs, batch>>
  PROVE  /\ OwnersRegistered'
         /\ subs' \in Seq(SubscriptionRow)
         /\ company' \in [Companies -> CompanyRow \cup {None}]
         /\ batch' \in Batch \cup {None}
         /\ batch' # None => batch'.todo \subseteq DOMAIN subs'
         /\ batch' # None => batch'.unsaved \in {0} \cup DOMAIN subs'
<1>1. subs' = [s \in DOMAIN subs |-> IF s \in D THEN ExpiredRow(subs[s]) ELSE subs[s]]
  BY DEF Suspended
<1>2. \A s \in DOMAIN subs : subs'[s] \in SubscriptionRow /\ subs'[s].company = subs[s].company
  BY <1>1, TypeFacts, ExpiredRowType
<1>3. subs' \in Seq(SubscriptionRow) /\ DOMAIN subs' = DOMAIN subs
  <2>1. DOMAIN subs' = DOMAIN subs /\ subs' = [s \in DOMAIN subs |-> subs'[s]]
    BY <1>1
  <2>. QED
    BY <1>2, <2>1, RewrittenRows DEF TypeInv, TypeOK
<1>4. PICK last \in [{subs[s].company : s \in D} -> D] :
        company' = [c \in Companies |-> IF c \in DOMAIN last
                                        THEN ExpiredCompany(company[c], subs[last[c]])
                                        ELSE company[c]]
  BY DEF Suspended
<1>5. ASSUME NEW c \in Companies, c \in DOMAIN last
      PROVE  ExpiredCompany(company[c], subs[last[c]]) \in CompanyRow
  <2>1. PICK s \in D : c = subs[s].company
    BY <1>5
  <2>2. company[c] \in CompanyRow /\ subs[last[c]] \in SubscriptionRow
    BY <1>5, <2>1, TypeFacts
  <2>. QED
    BY <2>2, ExpiredCompanyType
<1>6. /\ company' \in [Companies -> CompanyRow \cup {None}]
      /\ \A c \in Companies : company[c] # None => company'[c] # None
  BY <1>4, <1>5, NoneAssumption DEF TypeInv, TypeOK
<1>. QED
  BY <1>2, <1>3, <1>6, TablesSuffice DEF TypeInv, TypeOK

LEMMA TypeSuspend ==
  ASSUME TypeInv, NEW cut \in {now, now + 1}, SuspendExpired(cut) \/ SuspendInterrupted(cut)
  PROVE  TypeInv'
<1>1. PICK D \in SUBSET (DOMAIN subs) : Suspended(D)
  BY DEF SuspendExpired, SuspendInterrupted, ExpiredBy
<1>2. /\ checkedTo' \in Nat
      /\ crashes' \in Nat
      /\ UNCHANGED <<now, catalog, reqs, batch, jobDue>>
  BY DEF SuspendExpired, SuspendInterrupted, Crash, TypeInv, TypeOK
<1>. QED
  BY <1>1, <1>2, SuspendedStep DEF TypeInv, TypeOK

\* The scheduled-change job.
LEMMA TypeStart ==
  ASSUME TypeInv, StartScheduledChanges
  PROVE  TypeInv'
<1>1. DOMAIN subs \subseteq Nat \ {0}
  BY LenProperties DEF TypeInv, TypeOK
<1>2. batch' \in Batch /\ batch'.todo \subseteq DOMAIN subs /\ batch'.unsaved = 0
  BY <1>1 DEF StartScheduledChanges, DueRows, Batch
<1>. QED
  BY <1>2 DEF StartScheduledChanges, TypeInv, TypeOK, OwnersRegistered, Registered

\* Storing the deferred assignment keeps the table.
LEMMA SavedRows ==
  ASSUME NEW rows \in Seq(SubscriptionRow)
  PROVE  /\ Saved(rows) \in Seq(SubscriptionRow)
         /\ DOMAIN Saved(rows) = DOMAIN rows
         /\ \A s \in DOMAIN rows : Saved(rows)[s].company = rows[s].company
<1>1. \A s \in DOMAIN rows : rows[s] \in SubscriptionRow
  BY RowOfTable
<1>2. \A row \in SubscriptionRow :
        /\ [row EXCEPT !.status = "ACTIVE"] \in SubscriptionRow
        /\ [row EXCEPT !.status = "ACTIVE"].company = row.company
  BY DEF SubscriptionRow, BillingStatus
<1>3. DOMAIN Saved(rows) = DOMAIN rows /\ Saved(rows) = [s \in DOMAIN rows |-> Saved(rows)[s]]
  BY DEF Saved
<1>4. \A s \in DOMAIN rows : /\ Saved(rows)[s] \in SubscriptionRow
                             /\ Saved(rows)[s].company = rows[s].company
  BY <1>1, <1>2 DEF Saved
<1>. QED
  BY <1>3, <1>4, RewrittenRows

LEMMA TypeApply ==
  ASSUME TypeInv, NEW s \in DOMAIN subs, ApplyScheduled(s)
  PROVE  TypeInv'
<1>. DEFINE c == subs[s].company
            p == subs[s].schedPlan
            rows == [subs EXCEPT ![s] = AppliedRow(subs[s], p)]
<1>1. c \in Companies /\ p \in Plans /\ subs[s] \in SubscriptionRow /\ company[c] \in CompanyRow
  BY TypeFacts DEF ApplyScheduled
<1>2. /\ subs' = Saved(rows)
      /\ company' = [company EXCEPT ![c] = AppliedCompany(company[c], p)]
      /\ batch' = [todo |-> batch.todo \ {s}, unsaved |-> s]
      /\ UNCHANGED <<now, catalog, reqs, jobDue, checkedTo, crashes>>
  BY DEF ApplyScheduled
<1>3. AppliedRow(subs[s], p) \in SubscriptionRow /\ AppliedRow(subs[s], p).company = c
  BY <1>1, TypeFacts, AppliedRowType
<1>4. /\ rows \in Seq(SubscriptionRow)
      /\ DOMAIN rows = DOMAIN subs
      /\ \A j \in DOMAIN subs : rows[j].company = subs[j].company
  BY <1>3, ReplacedRow DEF TypeInv, TypeOK
<1>5. /\ subs' \in Seq(SubscriptionRow)
      /\ DOMAIN subs' = DOMAIN subs
      /\ \A j \in DOMAIN subs : subs'[j].company = subs[j].company
  BY <1>2, <1>4, SavedRows
<1>6. AppliedCompany(company[c], p) \in CompanyRow
  BY <1>1, TypeFacts, AppliedCompanyType
<1>7. /\ company' \in [Companies -> CompanyRow \cup {None}]
      /\ \A d \in Companies : company[d] # None => company'[d] # None
  BY <1>1, <1>2, <1>6, CompanyStep
<1>8. OwnersRegistered'
  BY <1>2, <1>5, <1>7, TablesSuffice DEF TypeInv, TypeOK
<1>9. batch' \in Batch /\ batch'.todo \subseteq DOMAIN subs /\ batch'.unsaved \in DOMAIN subs
  <2>1. batch # None /\ DOMAIN subs \subseteq Nat \ {0}
    BY LenProperties DEF ApplyScheduled, Idle, TypeInv, TypeOK
  <2>. QED
    BY <1>2, <2>1 DEF Batch, TypeInv, TypeOK
<1>. QED
  BY <1>2, <1>5, <1>7, <1>8, <1>9 DEF TypeInv, TypeOK

LEMMA TypeSkip ==
  ASSUME TypeInv, NEW s \in DOMAIN subs, SkipScheduled(s)
  PROVE  TypeInv'
<1>1. batch \in Batch /\ batch' = [batch EXCEPT !.todo = batch.todo \ {s}]
  BY DEF SkipScheduled, Idle, TypeInv, TypeOK
<1>2. /\ batch' \in Batch
      /\ batch'.todo \subseteq batch.todo
      /\ batch'.unsaved = batch.unsaved
  BY <1>1 DEF Batch
<1>. QED
  BY <1>1, <1>2, NoneAssumption DEF SkipScheduled, TypeInv, TypeOK, OwnersRegistered, Registered

LEMMA TypeFinish ==
  ASSUME TypeInv, FinishScheduledChanges
  PROVE  TypeInv'
<1>1. /\ subs' = Saved(subs)
      /\ batch' = None
      /\ UNCHANGED <<now, catalog, company, reqs, jobDue, checkedTo, crashes>>
  BY DEF FinishScheduledChanges
<1>2. /\ subs' \in Seq(SubscriptionRow)
      /\ DOMAIN subs' = DOMAIN subs
      /\ \A j \in DOMAIN subs : subs'[j].company = subs[j].company
  BY <1>1, SavedRows DEF TypeInv, TypeOK
<1>3. OwnersRegistered'
  BY <1>1, <1>2, TablesSuffice DEF TypeInv, TypeOK
<1>. QED
  BY <1>1, <1>2, <1>3 DEF TypeInv, TypeOK

LEMMA TypeJobEnds ==
  ASSUME TypeInv,
         ScheduledChangesInterrupted \/ \E s \in DOMAIN subs : AbortScheduledChanges(s)
  PROVE  TypeInv'
BY DEF ScheduledChangesInterrupted, AbortScheduledChanges, Crash,
       TypeInv, TypeOK, OwnersRegistered, Registered

\* The superadmin's writes.
LEMMA TypeCreate ==
  ASSUME TypeInv, NEW c \in Companies, NEW e \in AdminCreates,
         CreateSubscription(c, e) \/ CreateSubscriptionInterrupted(c, e)
  PROVE  TypeInv'
<1>. DEFINE co == CreatedCompany(company[c], e)
<1>1. e \in CreatePayload /\ company[c] \in CompanyRow /\ now \in Nat
  BY PayloadAssumption, TypeFacts DEF CreateSubscription, CreateSubscriptionInterrupted, Registered
<1>2. /\ CreatedRow(c, e) \in SubscriptionRow
      /\ CreatedRow(c, e).company = c
      /\ co \in CompanyRow
  BY <1>1, CreatedRowType, CreatedCompanyType DEF CreatedRow
<1>3. /\ subs' = Append(subs, CreatedRow(c, e))
      /\ company' = company \/ company' = [company EXCEPT ![c] = co]
      /\ crashes' \in Nat
      /\ UNCHANGED <<now, catalog, reqs, batch, jobDue, checkedTo>>
  BY DEF CreateSubscription, CreateSubscriptionInterrupted, Crash, TypeInv, TypeOK
<1>4. /\ company' \in [Companies -> CompanyRow \cup {None}]
      /\ \A d \in Companies : company[d] # None => company'[d] # None
      /\ company'[c] # None
  BY <1>1, <1>2, <1>3, CompanyStep, NoneAssumption DEF TypeInv, TypeOK
<1>. QED
  BY <1>2, <1>3, <1>4, InsertStep DEF TypeInv, TypeOK

LEMMA TypeUpdate ==
  ASSUME TypeInv, NEW s \in DOMAIN subs, NEW e \in AdminUpdates,
         UpdateSubscription(s, e) \/ UpdateSubscriptionInterrupted(s, e)
  PROVE  TypeInv'
<1>. DEFINE c == subs[s].company
<1>1. c \in Companies /\ subs[s] \in SubscriptionRow /\ company[c] \in CompanyRow
  BY TypeFacts
<1>2. /\ Updated(subs[s], e) \in SubscriptionRow
      /\ Updated(subs[s], e).company = c
      /\ MirroredUpdate(company[c], e) \in CompanyRow
  BY <1>1, UpdatedRowType, MirroredUpdateType
<1>3. /\ subs' = [subs EXCEPT ![s] = Updated(subs[s], e)]
      /\ company' = company \/ company' = [company EXCEPT ![c] = MirroredUpdate(company[c], e)]
      /\ crashes' \in Nat
      /\ UNCHANGED <<now, catalog, reqs, batch, jobDue, checkedTo>>
  BY DEF UpdateSubscription, UpdateSubscriptionInterrupted, Crash, TypeInv, TypeOK
<1>4. /\ company' \in [Companies -> CompanyRow \cup {None}]
      /\ \A d \in Companies : company[d] # None => company'[d] # None
  BY <1>1, <1>2, <1>3, CompanyStep DEF TypeInv, TypeOK
<1>. QED
  BY <1>2, <1>3, <1>4, ReplaceStep DEF TypeInv, TypeOK

LEMMA TypeUpdateCompany ==
  ASSUME TypeInv, NEW role, NEW c \in Companies, NEW e \in CompanyUpdates,
         UpdateCompany(role, c, e)
  PROVE  TypeInv'
<1>. DEFINE co == Updated(company[c], e)
<1>1. company[c] \in CompanyRow
  BY TypeFacts DEF UpdateCompany, Registered
<1>2. co \in CompanyRow
  BY <1>1, PayloadAssumption DEF Updated, CompanyRow, CompanyFields
<1>3. company' = [company EXCEPT ![c] = co]
  BY DEF UpdateCompany
<1>4. /\ company' \in [Companies -> CompanyRow \cup {None}]
      /\ \A d \in Companies : company[d] # None => company'[d] # None
  BY <1>2, <1>3, CompanyStep
<1>. QED
  BY <1>4 DEF UpdateCompany, TypeInv, TypeOK, OwnersRegistered, Registered

\* The catalogue and the clock.
LEMMA TypeSetPlan ==
  ASSUME TypeInv, NEW p \in Plans, NEW state \in PlanState, SetPlan(p, state)
  PROVE  TypeInv'
BY DEF SetPlan, TypeInv, TypeOK, OwnersRegistered, Registered

LEMMA TypeTick ==
  ASSUME TypeInv, Tick
  PROVE  TypeInv'
BY DEF Tick, TypeInv, TypeOK, OwnersRegistered, Registered

LEMMA TypeNext ==
  ASSUME TypeInv, [Next]_vars
  PROVE  TypeInv'
<1>1. CASE UNCHANGED vars
  BY <1>1 DEF vars, TypeInv, TypeOK, OwnersRegistered, Registered
<1>2. CASE TenantNext
  BY <1>2, TypeRegistration, TypeRequest, TypeReject, TypeSchedule, TypeApprove,
     TypeSuspend, TypeStart, TypeApply, TypeSkip, TypeFinish, TypeJobEnds,
     TypeSetPlan, TypeTick
     DEF TenantNext
<1>3. CASE AdminWrite
  BY <1>3, TypeCreate, TypeUpdate, TypeUpdateCompany DEF AdminWrite
<1>. QED
  BY <1>1, <1>2, <1>3 DEF Next

\* The tables stay well typed, and rows and requests belong to registered
\* companies, whatever tenants, reviewers, jobs and the superadmin do.
THEOREM TypeCorrect == Spec => [](TypeOK /\ OwnersRegistered)
<1>1. TypeInv /\ [Next]_vars => TypeInv'
  BY TypeNext
<1>. QED
  BY <1>1, TypeInit, PTL DEF Spec, TypeInv

-----------------------------------------------------------------------------
(* Write access of the tenants' and the worker's part *)

\* The rows a batch still has to apply wait for their change.
BatchWaits ==
  batch # None =>
    /\ batch.unsaved \notin batch.todo
    /\ \A s \in batch.todo : subs[s].status = "SCHEDULED_CHANGE"

\* The row whose last assignment is not stored yet has its plan applied.
UnsavedApplied ==
  batch # None /\ batch.unsaved # 0 =>
    /\ subs[batch.unsaved].active
    /\ subs[batch.unsaved].status = StatusFor(subs[batch.unsaved].plan)

\* A row that waits for its change is live, and knows what to become.
ChangingRows ==
  \A s \in DOMAIN subs :
    subs[s].status = "SCHEDULED_CHANGE" => subs[s].active

CheckedSoFar == checkedTo <= now + 1

\* No active row had ended at the last complete expiry check.
EndedRowsClosed ==
  \A s \in DOMAIN subs : subs[s].active => subs[s].end >= checkedTo

AccessInv ==
  /\ BatchWaits
  /\ UnsavedApplied
  /\ ChangingRows
  /\ CheckedSoFar
  /\ OneLiveRow
  /\ WritableBacked
  /\ EndedRowsClosed

\* The step leaves row t as it is, or stores the deferred assignment of the job.
Kept(t) ==
  \/ subs'[t] = subs[t]
  \/ /\ subs[t].active /\ subs[t].status = StatusFor(subs[t].plan)
     /\ subs'[t] = [subs[t] EXCEPT !.status = "ACTIVE"]

LEMMA KeptRow ==
  ASSUME TypeInv, NEW t \in DOMAIN subs, Kept(t)
  PROVE  /\ subs'[t].company = subs[t].company
         /\ subs'[t].plan = subs[t].plan
         /\ subs'[t].end = subs[t].end
         /\ subs'[t].active = subs[t].active
         /\ Live(t)' <=> Live(t)
         /\ subs'[t].status = "SCHEDULED_CHANGE" => subs[t].status = "SCHEDULED_CHANGE"
         /\ \A co : SameStatus(co, subs[t]) => SameStatus(co, subs'[t])
<1>1. subs[t] \in SubscriptionRow
  BY TypeFacts
<1>2. CASE subs'[t] = subs[t]
  BY <1>2 DEF Live, SameStatus
<1>3. CASE /\ subs[t].active /\ subs[t].status = StatusFor(subs[t].plan)
           /\ subs'[t] = [subs[t] EXCEPT !.status = "ACTIVE"]
  <2>1. /\ subs'[t].company = subs[t].company
        /\ subs'[t].plan = subs[t].plan
        /\ subs'[t].end = subs[t].end
        /\ subs'[t].active = subs[t].active
        /\ subs'[t].status = "ACTIVE"
    BY <1>1, <1>3, ZenonT(60) DEF SubscriptionRow
  <2>2. subs[t].status = IF subs[t].plan = Free THEN "TRIAL" ELSE "ACTIVE"
    BY <1>3 DEF StatusFor
  <2>. QED
    BY <1>3, <2>1, <2>2 DEF Live, ACTIVE_STATUSES, SameStatus
<1>. QED
  BY <1>2, <1>3 DEF Kept

\* A step that keeps every row and every company.
LEMMA KeptStep ==
  ASSUME TypeInv, OneLiveRow, ChangingRows, EndedRowsClosed, WritableBacked,
         DOMAIN subs' = DOMAIN subs,
         \A t \in DOMAIN subs : Kept(t),
         UNCHANGED <<company, checkedTo>>
  PROVE  OneLiveRow' /\ ChangingRows' /\ EndedRowsClosed' /\ WritableBacked'
<1>1. OneLiveRow'
  BY KeptRow DEF OneLiveRow
<1>2. ChangingRows'
  BY KeptRow DEF ChangingRows
<1>3. EndedRowsClosed'
  BY KeptRow DEF EndedRowsClosed
<1>4. WritableBacked'
  <2>. SUFFICES ASSUME NEW c \in Companies, Writable(c)'
                PROVE  \E s \in LiveRows(c)' : /\ subs'[s].plan = company'[c].plan
                                               /\ SameStatus(company'[c], subs'[s])
    BY DEF WritableBacked
  <2>1. PICK s \in LiveRows(c) : /\ subs[s].plan = company[c].plan
                                 /\ SameStatus(company[c], subs[s])
    BY DEF WritableBacked, Writable, Registered
  <2>2. s \in DOMAIN subs /\ subs[s].company = c /\ Live(s)
    BY <2>1 DEF LiveRows, RowsOf
  <2>3. s \in LiveRows(c)'
    BY <2>2, KeptRow DEF LiveRows, RowsOf
  <2>. QED
    BY <2>1, <2>2, <2>3, KeptRow
<1>. QED
  BY <1>1, <1>2, <1>3, <1>4

\* A step that writes or inserts row s of company c, and keeps the other rows
\* and the other companies.
LEMMA OneRowStep ==
  ASSUME TypeInv, OneLiveRow, ChangingRows, EndedRowsClosed, WritableBacked,
         NEW c \in Companies, NEW s \in DOMAIN subs',
         DOMAIN subs \subseteq DOMAIN subs',
         \A t \in DOMAIN subs' : t # s => t \in DOMAIN subs /\ Kept(t),
         s \in DOMAIN subs => subs[s].company = c,
         subs'[s].company = c,
         \A t \in LiveRows(c) : t = s,
         subs'[s].status = "SCHEDULED_CHANGE" => subs'[s].active,
         subs'[s].active => subs'[s].end >= checkedTo,
         checkedTo' = checkedTo,
         \A d \in Companies : d # c => company'[d] = company[d],
         Writable(c)' => /\ Live(s)'
                         /\ subs'[s].plan = company'[c].plan
                         /\ SameStatus(company'[c], subs'[s])
  PROVE  OneLiveRow' /\ ChangingRows' /\ EndedRowsClosed' /\ WritableBacked'
<1>1. OneLiveRow'
  <2>. SUFFICES ASSUME NEW t \in DOMAIN subs', NEW u \in DOMAIN subs',
                       Live(t)', Live(u)', subs'[t].company = subs'[u].company, t # s
                PROVE  t = u
    BY DEF OneLiveRow
  <2>1. t \in DOMAIN subs /\ Live(t) /\ subs[t].company = subs'[t].company
    BY KeptRow
  <2>2. CASE u = s
    BY <2>1, <2>2 DEF LiveRows, RowsOf
  <2>3. CASE u # s
    <3>1. u \in DOMAIN subs /\ Live(u) /\ subs[u].company = subs'[u].company
      BY <2>3, KeptRow
    <3>. QED
      BY <2>1, <3>1 DEF OneLiveRow
  <2>. QED
    BY <2>2, <2>3
<1>2. ChangingRows'
  BY KeptRow DEF ChangingRows
<1>3. EndedRowsClosed'
  BY KeptRow DEF EndedRowsClosed
<1>4. WritableBacked'
  <2>. SUFFICES ASSUME NEW d \in Companies, Writable(d)'
                PROVE  \E t \in LiveRows(d)' : /\ subs'[t].plan = company'[d].plan
                                               /\ SameStatus(company'[d], subs'[t])
    BY DEF WritableBacked
  <2>1. CASE d = c
    <3>1. s \in LiveRows(d)'
      BY <2>1 DEF LiveRows, RowsOf
    <3>. QED
      BY <2>1, <3>1
  <2>2. CASE d # c
    <3>1. PICK t \in LiveRows(d) : /\ subs[t].plan = company[d].plan
                                   /\ SameStatus(company[d], subs[t])
      BY <2>2 DEF WritableBacked, Writable, Registered
    <3>2. t \in DOMAIN subs /\ subs[t].company = d /\ Live(t) /\ t # s
      BY <2>2, <3>1 DEF LiveRows, RowsOf
    <3>3. t \in LiveRows(d)'
      BY <3>2, KeptRow DEF LiveRows, RowsOf
    <3>. QED
      BY <2>2, <3>1, <3>2, <3>3, KeptRow
  <2>. QED
    BY <2>1, <2>2
<1>. QED
  BY <1>1, <1>2, <1>3, <1>4

\* A handler or a job that leaves no batch running.
LEMMA NoBatchStep ==
  ASSUME CheckedSoFar, batch' = None, UNCHANGED <<now, checkedTo>>
  PROVE  BatchWaits' /\ UnsavedApplied' /\ CheckedSoFar'
BY DEF BatchWaits, UnsavedApplied, CheckedSoFar

LEMMA AccessInit == Init => AccessInv
<1>. SUFFICES ASSUME Init PROVE AccessInv
  OBVIOUS
<1>1. DOMAIN subs = {}
  BY EmptySeq, LenProperties DEF Init
<1>2. \A c \in Companies : ~Writable(c)
  BY DEF Init, Writable, Registered
<1>. QED
  BY <1>1, <1>2 DEF Init, AccessInv, BatchWaits, UnsavedApplied, ChangingRows, CheckedSoFar,
     OneLiveRow, WritableBacked, EndedRowsClosed

\* A new cycle ends after everything the expiry checks have covered.
LEMMA NewCycle ==
  ASSUME TypeInv, CheckedSoFar, NEW p \in Plans
  PROVE  CycleEnd(p) \in Nat /\ CycleEnd(p) >= checkedTo
<1>1. now \in Nat /\ checkedTo \in Nat
  BY DEF TypeInv, TypeOK
<1>2. CycleEnd(p) \in Nat /\ CycleEnd(p) > now
  BY <1>1, CycleEndType
<1>. QED
  BY <1>1, <1>2 DEF CheckedSoFar

\* The row and the company an applied plan leaves agree.
LEMMA PlanMirrored ==
  ASSUME NEW p \in Plans, NEW row \in SubscriptionRow, NEW co \in CompanyRow
  PROVE  /\ AppliedRow(row, p).plan = p
         /\ AppliedRow(row, p).end = CycleEnd(p)
         /\ AppliedRow(row, p).status = StatusFor(p)
         /\ AppliedRow(row, p).active
         /\ AppliedCompany(co, p).plan = p
         /\ AppliedCompany(co, p).status = StatusFor(p)
         /\ StatusFor(p) \in ACTIVE_STATUSES
         /\ StatusFor(p) # "SCHEDULED_CHANGE"
BY DEF AppliedRow, AppliedCompany, SubscriptionRow, CompanyRow, StatusFor, ACTIVE_STATUSES

\* A company without a live row has no write access.
LEMMA NoRowNoAccess ==
  ASSUME WritableBacked, NEW c \in Companies, LiveRows(c) = {}
  PROVE  ~Writable(c)
BY DEF WritableBacked

\* A row on plan p inserted for a company without a live row.
LEMMA AccessInsert ==
  ASSUME TypeInv, AccessInv, NEW c \in Companies, NEW p \in Plans, Idle,
         LiveRows(c) = {},
         subs' = Append(subs, NewRow(c, p)),
         \A d \in Companies : d # c => company'[d] = company[d],
         Writable(c)' => company'[c].plan = p /\ company'[c].status = StatusFor(p),
         UNCHANGED <<now, batch, checkedTo>>
  PROVE  AccessInv'
<1>1. NewRow(c, p) \in SubscriptionRow /\ subs \in Seq(SubscriptionRow)
  BY TypeFacts, NewRowType DEF TypeInv, TypeOK
<1>2. /\ DOMAIN subs' = DOMAIN subs \cup {Len(subs) + 1}
      /\ Len(subs) + 1 \notin DOMAIN subs
      /\ \A j \in DOMAIN subs : subs'[j] = subs[j]
      /\ subs'[Len(subs) + 1] = NewRow(c, p)
  BY <1>1, InsertedRow
<1>3. /\ NewRow(c, p).company = c
      /\ NewRow(c, p).plan = p
      /\ NewRow(c, p).end = CycleEnd(p)
      /\ NewRow(c, p).status = StatusFor(p)
      /\ NewRow(c, p).active
      /\ StatusFor(p) \in ACTIVE_STATUSES
      /\ StatusFor(p) # "SCHEDULED_CHANGE"
  BY DEF NewRow, StatusFor, ACTIVE_STATUSES
<1>4. CycleEnd(p) >= checkedTo
  BY NewCycle DEF AccessInv
<1>5. OneLiveRow' /\ ChangingRows' /\ EndedRowsClosed' /\ WritableBacked'
  BY <1>2, <1>3, <1>4, OneRowStep DEF AccessInv, Kept, Live, SameStatus
<1>6. BatchWaits' /\ UnsavedApplied' /\ CheckedSoFar'
  BY NoBatchStep DEF AccessInv, Idle
<1>. QED
  BY <1>5, <1>6 DEF AccessInv

LEMMA AccessRegistration ==
  ASSUME TypeInv, AccessInv, NEW c \in Companies, NEW p \in Plans,
         Register(c, p) \/ RegisterWithoutPlan(c, p) \/ RegisterInterrupted(c, p)
  PROVE  AccessInv'
<1>1. LiveRows(c) = {}
  <2>1. ~Registered(c)
    BY DEF Register, RegisterWithoutPlan, RegisterInterrupted
  <2>. QED
    BY <2>1 DEF TypeInv, OwnersRegistered, LiveRows, RowsOf
<1>2. /\ PendingCompany(p) \in CompanyRow
      /\ PendingCompany(p).status = "PENDING_APPROVAL"
  BY TypeFacts, PendingCompanyType DEF PendingCompany
<1>3. /\ Idle
      /\ UNCHANGED <<now, batch, checkedTo>>
      /\ \A d \in Companies : d # c => company'[d] = company[d]
  BY DEF Register, RegisterWithoutPlan, RegisterInterrupted, TypeInv, TypeOK
<1>4. CASE Register(c, p)
  <2>1. company'[c] = AppliedCompany(PendingCompany(p), p)
    BY <1>4 DEF Register, TypeInv, TypeOK
  <2>2. company'[c].plan = p /\ company'[c].status = StatusFor(p)
    BY <1>2, <2>1 DEF AppliedCompany, CompanyRow
  <2>. QED
    BY <1>1, <1>3, <1>4, <2>2, AccessInsert DEF Register
<1>5. CASE RegisterWithoutPlan(c, p) \/ RegisterInterrupted(c, p)
  <2>1. company'[c] = PendingCompany(p)
    BY <1>5 DEF RegisterWithoutPlan, RegisterInterrupted, TypeInv, TypeOK
  <2>2. ~Writable(c)'
    BY <1>2, <2>1 DEF Writable, ACTIVE_STATUSES
  <2>3. CASE subs' = Append(subs, NewRow(c, p))
    BY <1>1, <1>3, <2>2, <2>3, AccessInsert
  <2>4. CASE subs' = subs
    <3>1. \A d \in Companies : Writable(d)' => Writable(d) /\ company'[d] = company[d]
      BY <1>3, <2>2 DEF Writable, Registered
    <3>2. WritableBacked'
      BY <2>4, <3>1 DEF AccessInv, WritableBacked, LiveRows, RowsOf, Live
    <3>3. OneLiveRow' /\ ChangingRows' /\ EndedRowsClosed'
      BY <1>3, <2>4 DEF AccessInv, OneLiveRow, ChangingRows, EndedRowsClosed, Live
    <3>4. BatchWaits' /\ UnsavedApplied' /\ CheckedSoFar'
      BY <1>3, NoBatchStep DEF AccessInv, Idle
    <3>. QED
      BY <3>2, <3>3, <3>4 DEF AccessInv
  <2>. QED
    BY <1>5, <2>3, <2>4 DEF RegisterWithoutPlan, RegisterInterrupted
<1>. QED
  BY <1>4, <1>5

\* A step that writes neither a subscription nor a company.
LEMMA SameTables ==
  ASSUME AccessInv, UNCHANGED <<subs, company, checkedTo>>
  PROVE  OneLiveRow' /\ ChangingRows' /\ EndedRowsClosed' /\ WritableBacked'
BY DEF AccessInv, OneLiveRow, ChangingRows, EndedRowsClosed, WritableBacked,
       Writable, Registered, LiveRows, RowsOf, Live

LEMMA AccessSameTables ==
  ASSUME TypeInv, AccessInv,
         \/ \E c \in Companies, type \in RequestTypes, p \in Plans, i \in BOOLEAN :
              RequestChange(c, type, p, i)
         \/ \E r \in DOMAIN reqs : Reject(r)
         \/ \E s \in DOMAIN subs : AbortScheduledChanges(s)
         \/ ScheduledChangesInterrupted
         \/ \E p \in Plans, state \in PlanState : SetPlan(p, state)
  PROVE  AccessInv'
<1>1. batch' = None /\ UNCHANGED <<now, subs, company, checkedTo>>
  BY DEF RequestChange, Reject, Reviewable, AbortScheduledChanges,
         ScheduledChangesInterrupted, SetPlan, Idle
<1>. QED
  BY <1>1, SameTables, NoBatchStep DEF AccessInv

LEMMA AccessTick ==
  ASSUME TypeInv, AccessInv, Tick
  PROVE  AccessInv'
<1>1. /\ batch' = None /\ now' = now + 1
      /\ UNCHANGED <<subs, company, checkedTo>>
  BY DEF Tick, Idle
<1>2. CheckedSoFar'
  BY <1>1 DEF AccessInv, CheckedSoFar, TypeInv, TypeOK
<1>3. BatchWaits' /\ UnsavedApplied'
  BY <1>1 DEF BatchWaits, UnsavedApplied
<1>. QED
  BY <1>1, <1>2, <1>3, SameTables DEF AccessInv

LEMMA AccessStart ==
  ASSUME TypeInv, AccessInv, StartScheduledChanges
  PROVE  AccessInv'
<1>1. /\ batch' = [todo |-> DueRows, unsaved |-> 0]
      /\ UNCHANGED <<now, subs, company, checkedTo>>
  BY DEF StartScheduledChanges
<1>2. \A s \in DueRows : s \in DOMAIN subs /\ subs[s].status = "SCHEDULED_CHANGE"
  BY DEF DueRows
<1>3. DOMAIN subs \subseteq Nat \ {0}
  BY LenProperties DEF TypeInv, TypeOK
<1>4. BatchWaits' /\ UnsavedApplied' /\ CheckedSoFar'
  BY <1>1, <1>2, <1>3 DEF AccessInv, BatchWaits, UnsavedApplied, CheckedSoFar
<1>. QED
  BY <1>1, <1>4, SameTables DEF AccessInv

LEMMA AccessSkip ==
  ASSUME TypeInv, AccessInv, NEW s \in DOMAIN subs, SkipScheduled(s)
  PROVE  AccessInv'
<1>1. /\ batch \in Batch /\ batch # None
      /\ batch' = [batch EXCEPT !.todo = batch.todo \ {s}]
      /\ UNCHANGED <<now, subs, company, checkedTo>>
  BY DEF SkipScheduled, Idle, TypeInv, TypeOK
<1>2. batch'.todo \subseteq batch.todo /\ batch'.unsaved = batch.unsaved
  BY <1>1 DEF Batch
<1>3. BatchWaits' /\ UnsavedApplied' /\ CheckedSoFar'
  BY <1>1, <1>2 DEF AccessInv, BatchWaits, UnsavedApplied, CheckedSoFar
<1>. QED
  BY <1>1, <1>3, SameTables DEF AccessInv

LEMMA AccessSchedule ==
  ASSUME TypeInv, AccessInv, NEW r \in DOMAIN reqs, NEW force, ScheduleDowngrade(r, force)
  PROVE  AccessInv'
<1>. DEFINE c == reqs[r].company
            p == reqs[r].plan
<1>1. c \in Companies /\ p \in Plans /\ company[c] \in CompanyRow
  BY TypeFacts
<1>2. PICK s \in DOMAIN subs :
        /\ IsCurrent(s, c)
        /\ subs' = [subs EXCEPT ![s] = ScheduledRow(subs[s], p)]
        /\ company' = [company EXCEPT ![c] = ScheduledCompany(company[c], subs[s])]
  BY DEF ScheduleDowngrade
<1>3. /\ subs[s] \in SubscriptionRow /\ subs[s].company = c
      /\ Live(s) /\ \A t \in LiveRows(c) : t = s
  BY <1>2, TypeFacts DEF IsCurrent, LiveRows, RowsOf, AccessInv, OneLiveRow
<1>4. /\ DOMAIN subs' = DOMAIN subs
      /\ \A t \in DOMAIN subs : t # s => subs'[t] = subs[t]
      /\ subs'[s] = ScheduledRow(subs[s], p)
  BY <1>2
<1>5. /\ subs'[s].company = c /\ subs'[s].plan = subs[s].plan
      /\ subs'[s].status = "SCHEDULED_CHANGE"
      /\ subs'[s].active = subs[s].active /\ subs'[s].end = subs[s].end
  BY <1>3, <1>4 DEF ScheduledRow, SubscriptionRow
<1>6. /\ \A d \in Companies : d # c => company'[d] = company[d]
      /\ company'[c].status = "SCHEDULED_CHANGE" /\ company'[c].plan = subs[s].plan
  BY <1>1, <1>2 DEF ScheduledCompany, CompanyRow, TypeInv, TypeOK
<1>7. /\ subs[s].active
      /\ subs'[s].end >= checkedTo
      /\ Idle /\ UNCHANGED <<now, batch, checkedTo>>
  BY <1>3, <1>5 DEF Live, AccessInv, EndedRowsClosed, ScheduleDowngrade, Reviewable
<1>8. OneLiveRow' /\ ChangingRows' /\ EndedRowsClosed' /\ WritableBacked'
  BY <1>1, <1>3, <1>4, <1>5, <1>6, <1>7, OneRowStep, ZenonT(60)
     DEF AccessInv, Kept, Live, ACTIVE_STATUSES, SameStatus
<1>. QED
  BY <1>7, <1>8, NoBatchStep DEF AccessInv, Idle

\* A plan applied by an approval, the company's commit included or not.
LEMMA AccessPlanApplied ==
  ASSUME TypeInv, AccessInv, NEW c \in Companies, NEW p \in Plans, company[c] # None,
         Idle, PlanApplied(c, p),
         \/ company' = [company EXCEPT ![c] = AppliedCompany(company[c], p)]
         \/ LiveRows(c) = {} /\ company' = company,
         UNCHANGED <<now, batch, checkedTo>>
  PROVE  AccessInv'
<1>1. company[c] \in CompanyRow
  BY TypeFacts
<1>2. /\ \A d \in Companies : d # c => company'[d] = company[d]
      /\ LiveRows(c) # {} => company'[c] = AppliedCompany(company[c], p)
      /\ Writable(c)' => company'[c].plan = p /\ company'[c].status = StatusFor(p)
  <2>1. CASE company' = [company EXCEPT ![c] = AppliedCompany(company[c], p)]
    <3>1. company'[c] = AppliedCompany(company[c], p)
      BY <2>1 DEF TypeInv, TypeOK
    <3>2. company'[c].plan = p /\ company'[c].status = StatusFor(p)
      BY <1>1, <3>1 DEF AppliedCompany, CompanyRow
    <3>. QED
      BY <2>1, <3>1, <3>2
  <2>2. CASE LiveRows(c) = {} /\ company' = company
    <3>1. ~Writable(c)'
      BY <2>2, NoRowNoAccess DEF AccessInv, Writable, Registered
    <3>. QED
      BY <2>2, <3>1
  <2>. QED
    BY <2>1, <2>2
<1>3. CASE /\ LiveRows(c) = {}
           /\ subs' = Append(subs, NewRow(c, p))
  BY <1>2, <1>3, AccessInsert
<1>4. CASE \E s \in DOMAIN subs : /\ IsCurrent(s, c)
                                  /\ subs' = [subs EXCEPT ![s] = AppliedRow(@, p)]
  <2>1. PICK s \in DOMAIN subs : /\ IsCurrent(s, c)
                                 /\ subs' = [subs EXCEPT ![s] = AppliedRow(subs[s], p)]
    BY <1>4
  <2>2. /\ subs[s] \in SubscriptionRow /\ subs[s].company = c
        /\ s \in LiveRows(c) /\ \A t \in LiveRows(c) : t = s
    BY <2>1, TypeFacts DEF IsCurrent, LiveRows, RowsOf, AccessInv, OneLiveRow
  <2>3. /\ DOMAIN subs' = DOMAIN subs
        /\ \A t \in DOMAIN subs : t # s => subs'[t] = subs[t]
        /\ subs'[s] = AppliedRow(subs[s], p)
    BY <2>1
  <2>4. /\ subs'[s].company = c /\ subs'[s].plan = p
        /\ subs'[s].status = StatusFor(p)
        /\ subs'[s].active /\ subs'[s].end = CycleEnd(p)
        /\ StatusFor(p) \in ACTIVE_STATUSES
        /\ StatusFor(p) # "SCHEDULED_CHANGE"
    BY <1>1, <2>2, <2>3, PlanMirrored, AppliedRowType, TypeFacts
  <2>5. CycleEnd(p) >= checkedTo
    BY NewCycle DEF AccessInv
  <2>6. OneLiveRow' /\ ChangingRows' /\ EndedRowsClosed' /\ WritableBacked'
    BY <1>2, <2>2, <2>3, <2>4, <2>5, OneRowStep DEF AccessInv, Kept, Live, SameStatus
  <2>. QED
    BY <2>6, NoBatchStep DEF AccessInv, Idle
<1>. QED
  BY <1>3, <1>4 DEF PlanApplied

LEMMA AccessApprove ==
  ASSUME TypeInv, AccessInv, NEW r \in DOMAIN reqs, NEW force,
         Approve(r, force) \/ ApproveInterrupted(r, force)
  PROVE  AccessInv'
<1>. DEFINE c == reqs[r].company
            p == reqs[r].plan
<1>1. c \in Companies /\ p \in Plans /\ company[c] # None
  BY TypeFacts, NoneAssumption
<1>2. /\ Idle /\ PlanApplied(c, p)
      /\ \/ company' = [company EXCEPT ![c] = AppliedCompany(company[c], p)]
         \/ LiveRows(c) = {} /\ company' = company
      /\ UNCHANGED <<now, batch, checkedTo>>
  BY DEF Approve, ApproveInterrupted, Reviewable
<1>. QED
  BY <1>1, <1>2, AccessPlanApplied

\* The expiry check: the companies of the expired rows lose their access.
LEMMA AccessSuspended ==
  ASSUME TypeInv, AccessInv, NEW D \in SUBSET (DOMAIN subs), Suspended(D), Idle,
         UNCHANGED <<now, batch>>
  PROVE  /\ OneLiveRow' /\ ChangingRows' /\ WritableBacked'
         /\ \A s \in DOMAIN subs' : subs'[s].active =>
              s \in DOMAIN subs \ D /\ subs'[s] = subs[s]
<1>1. /\ DOMAIN subs' = DOMAIN subs
      /\ \A s \in DOMAIN subs : subs'[s] = IF s \in D THEN ExpiredRow(subs[s]) ELSE subs[s]
  BY DEF Suspended
<1>2. ASSUME NEW s \in D
      PROVE  /\ ~subs'[s].active /\ subs'[s].company = subs[s].company
             /\ subs'[s].status \in {"EXPIRED", "SUSPENDED"}
  <2>1. subs[s] \in SubscriptionRow /\ subs'[s] = ExpiredRow(subs[s])
    BY <1>1, TypeFacts
  <2>. QED
    BY <2>1 DEF ExpiredRow, ExpiredStatus, SubscriptionRow
<1>3. \A s \in DOMAIN subs' : subs'[s].active => s \in DOMAIN subs \ D /\ subs'[s] = subs[s]
  BY <1>1, <1>2
<1>4. OneLiveRow'
  BY <1>1, <1>3 DEF AccessInv, OneLiveRow, Live
<1>5. ChangingRows'
  BY <1>1, <1>2 DEF AccessInv, ChangingRows
<1>6. WritableBacked'
  <2>. SUFFICES ASSUME NEW c \in Companies, Writable(c)'
                PROVE  \E s \in LiveRows(c)' : /\ subs'[s].plan = company'[c].plan
                                               /\ SameStatus(company'[c], subs'[s])
    BY DEF WritableBacked
  <2>1. PICK last \in [{subs[s].company : s \in D} -> D] :
          /\ \A d \in DOMAIN last : subs[last[d]].company = d
          /\ company' = [d \in Companies |-> IF d \in DOMAIN last
                                             THEN ExpiredCompany(company[d], subs[last[d]])
                                             ELSE company[d]]
    BY DEF Suspended
  <2>2. ASSUME c \in DOMAIN last PROVE FALSE
    <3>1. PICK s \in D : subs[s].company = c
      BY <2>1, <2>2
    <3>2. company[c] \in CompanyRow /\ company'[c] = ExpiredCompany(company[c], subs[last[c]])
      BY <2>1, <2>2, <3>1, TypeFacts
    <3>3. company'[c].status \in {"EXPIRED", "SUSPENDED"}
      BY <3>2 DEF ExpiredCompany, ExpiredStatus, CompanyRow
    <3>. QED
      BY <3>3 DEF Writable, ACTIVE_STATUSES
  <2>3. company'[c] = company[c] /\ \A s \in D : subs[s].company # c
    BY <2>1, <2>2
  <2>4. PICK s \in LiveRows(c) : /\ subs[s].plan = company[c].plan
                                 /\ SameStatus(company[c], subs[s])
    BY <2>3 DEF AccessInv, WritableBacked, Writable, Registered
  <2>5. s \in DOMAIN subs /\ subs[s].company = c /\ Live(s)
    BY <2>4 DEF LiveRows, RowsOf
  <2>6. s \in LiveRows(c)' /\ subs'[s] = subs[s]
    BY <1>1, <2>3, <2>5 DEF LiveRows, RowsOf, Live
  <2>. QED
    BY <2>3, <2>4, <2>6
<1>. QED
  BY <1>3, <1>4, <1>5, <1>6

LEMMA AccessSuspend ==
  ASSUME TypeInv, AccessInv, NEW cut \in {now, now + 1},
         SuspendExpired(cut) \/ SuspendInterrupted(cut)
  PROVE  AccessInv'
<1>1. now \in Nat /\ checkedTo \in Nat /\ cut \in Nat /\ cut <= now + 1
  BY DEF TypeInv, TypeOK
<1>2. \A s \in DOMAIN subs : subs[s].end \in Nat
  BY TypeFacts DEF SubscriptionRow
<1>3. CASE SuspendExpired(cut)
  <2>1. /\ Idle /\ Suspended(ExpiredBy(cut)) /\ ExpiredBy(cut) \in SUBSET (DOMAIN subs)
        /\ checkedTo' = IF cut > checkedTo THEN cut ELSE checkedTo
        /\ UNCHANGED <<now, batch>>
    BY <1>3 DEF SuspendExpired, ExpiredBy
  <2>2. /\ OneLiveRow' /\ ChangingRows' /\ WritableBacked'
        /\ \A s \in DOMAIN subs' : subs'[s].active =>
             s \in DOMAIN subs \ ExpiredBy(cut) /\ subs'[s] = subs[s]
    BY <2>1, AccessSuspended
  <2>3. EndedRowsClosed'
    BY <1>1, <1>2, <2>1, <2>2 DEF AccessInv, EndedRowsClosed, ExpiredBy
  <2>4. CheckedSoFar'
    BY <1>1, <2>1 DEF AccessInv, CheckedSoFar
  <2>5. BatchWaits' /\ UnsavedApplied'
    BY <2>1 DEF BatchWaits, UnsavedApplied, Idle
  <2>. QED
    BY <2>2, <2>3, <2>4, <2>5 DEF AccessInv
<1>4. CASE SuspendInterrupted(cut)
  <2>1. PICK D \in SUBSET (DOMAIN subs) : Suspended(D)
    BY <1>4 DEF SuspendInterrupted, ExpiredBy
  <2>2. Idle /\ UNCHANGED <<now, batch, checkedTo>>
    BY <1>4 DEF SuspendInterrupted
  <2>3. /\ OneLiveRow' /\ ChangingRows' /\ WritableBacked'
        /\ \A s \in DOMAIN subs' : subs'[s].active =>
             s \in DOMAIN subs \ D /\ subs'[s] = subs[s]
    BY <2>1, <2>2, AccessSuspended
  <2>4. EndedRowsClosed'
    BY <2>2, <2>3 DEF AccessInv, EndedRowsClosed
  <2>. QED
    BY <2>2, <2>3, <2>4, NoBatchStep DEF AccessInv, Idle
<1>. QED
  BY <1>3, <1>4

\* The scheduled-change job applies a row and stores the one before it.
LEMMA AccessApply ==
  ASSUME TypeInv, AccessInv, NEW s \in DOMAIN subs, ApplyScheduled(s)
  PROVE  AccessInv'
<1>. DEFINE c == subs[s].company
            p == subs[s].schedPlan
            u == batch.unsaved
            rows == [subs EXCEPT ![s] = AppliedRow(subs[s], p)]
<1>1. c \in Companies /\ p \in Plans /\ subs[s] \in SubscriptionRow /\ company[c] \in CompanyRow
  BY TypeFacts DEF ApplyScheduled
<1>2. /\ batch # None /\ s \in batch.todo
      /\ subs' = Saved(rows)
      /\ company' = [company EXCEPT ![c] = AppliedCompany(company[c], p)]
      /\ batch' = [todo |-> batch.todo \ {s}, unsaved |-> s]
      /\ UNCHANGED <<now, checkedTo>>
  BY DEF ApplyScheduled, Idle
<1>3. /\ u # s /\ subs[s].status = "SCHEDULED_CHANGE" /\ subs[s].active
      /\ \A t \in batch.todo : t # u /\ subs[t].status = "SCHEDULED_CHANGE"
  BY <1>2 DEF AccessInv, BatchWaits, ChangingRows
<1>4. s \in LiveRows(c) /\ \A t \in LiveRows(c) : t = s
  BY <1>3 DEF AccessInv, OneLiveRow, LiveRows, RowsOf, Live, ACTIVE_STATUSES
<1>5. /\ DOMAIN subs' = DOMAIN subs
      /\ subs'[s] = AppliedRow(subs[s], p)
      /\ \A t \in DOMAIN subs : t # s => Kept(t)
      /\ \A t \in DOMAIN subs : t # s /\ t # u => subs'[t] = subs[t]
  <2>1. /\ DOMAIN rows = DOMAIN subs
        /\ rows[s] = AppliedRow(subs[s], p)
        /\ \A t \in DOMAIN subs : t # s => rows[t] = subs[t]
    OBVIOUS
  <2>2. /\ DOMAIN subs' = DOMAIN subs
        /\ \A t \in DOMAIN subs :
             subs'[t] = IF t = u THEN [rows[t] EXCEPT !.status = "ACTIVE"] ELSE rows[t]
    BY <1>2, <2>1 DEF Saved
  <2>3. u \in DOMAIN subs => subs[u].active /\ subs[u].status = StatusFor(subs[u].plan)
    <3>1. 0 \notin DOMAIN subs
      BY LenProperties DEF TypeInv, TypeOK
    <3>. QED
      BY <1>2, <3>1 DEF AccessInv, UnsavedApplied
  <2>. QED
    BY <1>3, <2>1, <2>2, <2>3 DEF Kept
<1>6. /\ subs'[s].company = c /\ subs'[s].plan = p
      /\ subs'[s].status = StatusFor(p)
      /\ subs'[s].active /\ subs'[s].end = CycleEnd(p)
      /\ StatusFor(p) \in ACTIVE_STATUSES
      /\ StatusFor(p) # "SCHEDULED_CHANGE"
      /\ company'[c].plan = p /\ company'[c].status = StatusFor(p)
  <2>1. company'[c] = AppliedCompany(company[c], p)
    BY <1>1, <1>2 DEF TypeInv, TypeOK
  <2>. QED
    BY <1>1, <1>5, <2>1, PlanMirrored, AppliedRowType, TypeFacts
<1>7. CycleEnd(p) >= checkedTo
  BY <1>1, NewCycle DEF AccessInv
<1>8. OneLiveRow' /\ ChangingRows' /\ EndedRowsClosed' /\ WritableBacked'
  <2>1. \A d \in Companies : d # c => company'[d] = company[d]
    BY <1>2
  <2>2. /\ s \in DOMAIN subs' /\ DOMAIN subs \subseteq DOMAIN subs'
        /\ \A t \in DOMAIN subs' : t # s => t \in DOMAIN subs /\ Kept(t)
    BY <1>5
  <2>3. /\ subs'[s].status # "SCHEDULED_CHANGE"
        /\ subs'[s].end >= checkedTo
        /\ Live(s)'
        /\ subs'[s].plan = company'[c].plan
        /\ SameStatus(company'[c], subs'[s])
    BY <1>6, <1>7 DEF Live, SameStatus
  <2>4. checkedTo' = checkedTo
    BY <1>2
  <2>5. OneLiveRow /\ ChangingRows /\ EndedRowsClosed /\ WritableBacked
    BY DEF AccessInv
  <2>6. c \in Companies /\ subs'[s].company = c
    BY <1>1, <1>6
  <2>. HIDE DEF c
  <2>7. subs[s].company = c
    BY DEF c
  <2>. QED
    BY <1>4, <2>1, <2>2, <2>3, <2>4, <2>5, <2>6, <2>7, OneRowStep
<1>9. BatchWaits'
  <2>1. batch'.todo = batch.todo \ {s} /\ batch'.unsaved = s /\ batch.todo \subseteq DOMAIN subs
    BY <1>2 DEF TypeInv, TypeOK
  <2>. QED
    BY <1>3, <1>5, <2>1 DEF BatchWaits
<1>10. UnsavedApplied' /\ CheckedSoFar'
  BY <1>2, <1>6 DEF AccessInv, UnsavedApplied, StatusFor, CheckedSoFar
<1>. QED
  BY <1>8, <1>9, <1>10 DEF AccessInv

LEMMA AccessFinish ==
  ASSUME TypeInv, AccessInv, FinishScheduledChanges
  PROVE  AccessInv'
<1>1. /\ batch # None /\ batch' = None /\ subs' = Saved(subs)
      /\ UNCHANGED <<now, company, checkedTo>>
  BY DEF FinishScheduledChanges, Idle
<1>2. DOMAIN subs' = DOMAIN subs /\ \A t \in DOMAIN subs : Kept(t)
  <2>1. 0 \notin DOMAIN subs
    BY LenProperties DEF TypeInv, TypeOK
  <2>. QED
    BY <1>1, <2>1 DEF AccessInv, UnsavedApplied, Saved, Kept
<1>. QED
  BY <1>1, <1>2, KeptStep, NoBatchStep DEF AccessInv

LEMMA AccessNext ==
  ASSUME TypeInv, AccessInv, [TenantNext]_vars
  PROVE  AccessInv'
<1>1. CASE UNCHANGED vars
  <2>1. UNCHANGED <<subs, company, checkedTo, batch, now>>
    BY <1>1 DEF vars
  <2>. QED
    BY <2>1, SameTables DEF AccessInv, BatchWaits, UnsavedApplied, CheckedSoFar
<1>2. CASE TenantNext
  BY <1>2, AccessRegistration, AccessSameTables, AccessSchedule, AccessApprove,
     AccessSuspend, AccessStart, AccessApply, AccessSkip, AccessFinish, AccessTick
     DEF TenantNext
<1>. QED
  BY <1>1, <1>2

LEMMA TenantInvariant == TenantSpec => [](TypeInv /\ AccessInv)
<1>1. TypeInv /\ AccessInv /\ [TenantNext]_vars => TypeInv' /\ AccessInv'
  BY TypeNext, AccessNext DEF Next
<1>. QED
  BY <1>1, TypeInit, AccessInit, PTL DEF TenantSpec

\* Reviewers and jobs never leave a company with two live rows.
THEOREM AtMostOneLiveRow == TenantSpec => []OneLiveRow
<1>1. AccessInv => OneLiveRow
  BY DEF AccessInv
<1>. QED
  BY <1>1, TenantInvariant, PTL

\* Write access always rests on a live row on the company's plan, whatever
\* handler was interrupted after whatever commit.
THEOREM AccessIsBacked == TenantSpec => []WritableBacked
<1>1. AccessInv => WritableBacked
  BY DEF AccessInv
<1>. QED
  BY <1>1, TenantInvariant, PTL

\* After a complete expiry check, no company whose rows had all ended can write.
THEOREM ExpiryCloses == TenantSpec => []ExpiredIsReadOnly
<1>1. AccessInv => ExpiredIsReadOnly
  BY DEF AccessInv, WritableBacked, EndedRowsClosed, ExpiredIsReadOnly, LiveRows, RowsOf, Live
<1>. QED
  BY <1>1, TenantInvariant, PTL

=============================================================================
