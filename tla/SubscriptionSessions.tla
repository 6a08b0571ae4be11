------------------------ MODULE SubscriptionSessions ------------------------
(***************************************************************************)
(* The review of change requests and the two nightly jobs as sessions that *)
(* overlap, over the tables of Subscription.  A session runs from one      *)
(* await to the next.  It keeps the rows it has loaded (the identity map   *)
(* of SQLAlchemy does not refresh them, expire_on_commit is off), and its  *)
(* UPDATE names only the columns whose value differs from the loaded one.  *)
(*                                                                         *)
(* Interrupted handlers, withdrawn plans and the superadmin's own writes   *)
(* are Subscription's: batch stays None and catalog constant here.         *)
(***************************************************************************)
EXTENDS Subscription

CONSTANTS
  Sessions,
  MaxStarts      \* bound for TLC: the reviews and jobs begun

ASSUME SessionAssumption == IsFiniteSet(Sessions) /\ MaxStarts \in Nat

VARIABLES
  sess,        \* the session of each request or job
  usage,       \* companies whose usage row of this month exists
  started,
  stale,       \* history: a session wrote over rows changed since it read them
  applied,     \* history: how often the plan of each request was committed
  collisions   \* history: sessions that ended on a duplicate usage row

sessVars == <<sess, usage, started, stale, applied, collisions>>
allVars == <<vars, sessVars>>

Places == {"none", "company", "row", "reject", "schedule", "apply", "insert",
           "refresh", "mirror", "usage", "newusage", "decide", "check", "move",
           "activate"}

\* req is the request under review, rq what was loaded of it; rows and cos are
\* the subscription and company rows as loaded, row the one at hand.
IsSession(x) ==
  /\ x.at \in Places /\ x.decision \in {"REJECT", "APPROVE", "FORCE"}
  /\ x.req \in {0} \cup DOMAIN reqs /\ x.rq \in RequestRow \cup {None}
  /\ x.row \in {0} \cup DOMAIN subs
  /\ DOMAIN x.rows \subseteq DOMAIN subs /\ DOMAIN x.cos \subseteq Companies
  /\ \A i \in DOMAIN x.rows : x.rows[i] \in SubscriptionRow
  /\ \A c \in DOMAIN x.cos : x.cos[c] \in CompanyRow

NoSession == [at |-> "none", req |-> 0, rq |-> None, decision |-> "REJECT",
              rows |-> <<>>, cos |-> <<>>, row |-> 0]

SessTypeOK ==
  /\ TypeOK
  /\ DOMAIN sess = Sessions /\ \A s \in Sessions : IsSession(sess[s])
  /\ usage \subseteq Companies
  /\ started \in Nat /\ stale \in BOOLEAN /\ collisions \in Nat
  /\ applied \in [DOMAIN reqs -> Nat]

SessInit ==
  /\ Init
  /\ sess = [s \in Sessions |-> NoSession]
  /\ usage = {}
  /\ started = 0 /\ stale = FALSE /\ applied = <<>> /\ collisions = 0

-----------------------------------------------------------------------------
At(s, place) == sess[s].at = place
Become(s, session) == sess' = [sess EXCEPT ![s] = session]
Go(s, place) == Become(s, [sess[s] EXCEPT !.at = place])
End(s) == Become(s, NoSession)

Begin(s) == At(s, "none") /\ started < MaxStarts /\ started' = started + 1

LoadRows(R) == [i \in R |-> subs[i]]
LoadCompanies(C) == [c \in C |-> company[c]]

\* The company and the plan of the request under review, the company as loaded.
Tenant(s) == sess[s].rq.company
Wanted(s) == sess[s].rq.plan
Loaded(s) == sess[s].cos[Tenant(s)]

\* mutant: every column is written
WrittenWhole(db, loaded, set, sent) == set

\* An UPDATE of the columns that differ from their loaded value, and of those in
\* sent: a timestamp set to an aware value always differs from a loaded one.
Written(db, loaded, set, sent) ==
  [f \in DOMAIN db |-> IF f \in sent \/ set[f] # loaded[f] THEN set[f] ELSE db[f]]

\* The request under review is no longer what session s has loaded.
RequestMoved(s) == sess[s].req # 0 /\ reqs[sess[s].req] # sess[s].rq

\* mutant: the company is not added to the session
StoreRow(s, i, row, co, sent) ==
  /\ subs' = [subs EXCEPT ![i] = Written(@, sess[s].rows[i], row, sent)]
  /\ UNCHANGED company
  /\ stale' = (stale \/ RequestMoved(s) \/ subs[i] # sess[s].rows[i])

\* Session s commits row i as `row`, and the row's company as `co`.
Store(s, i, row, co, sent) ==
  LET c == subs[i].company IN
  /\ subs' = [subs EXCEPT ![i] = Written(@, sess[s].rows[i], row, sent)]
  /\ company' = [company EXCEPT ![c] = Written(@, sess[s].cos[c], co, sent)]
  /\ stale' = \/ stale \/ RequestMoved(s)
              \/ subs[i] # sess[s].rows[i] \/ company[c] # sess[s].cos[c]

\* What session s holds after that commit.
Stored(s, i, row, co) ==
  [sess[s] EXCEPT !.rows[i] = row, !.cos[subs[i].company] = co]

Quiet == UNCHANGED <<now, catalog, batch, jobDue, checkedTo, crashes>>

-----------------------------------------------------------------------------
(* review_subscription_request, _apply_subscription_plan, _get_usage *)

\* mutant: the status is not asked for
AnyRequest(r) == TRUE

Pending(r) == reqs[r].status = "PENDING_APPROVAL"

StartReview(s, r, decision) ==
  /\ Begin(s) /\ Pending(r)
  /\ Become(s, [NoSession EXCEPT !.at = "company", !.req = r, !.rq = reqs[r],
                                 !.decision = decision])
  /\ UNCHANGED <<vars, usage, stale, applied, collisions>>

ReadCompany(s) ==
  /\ At(s, "company")
  /\ Become(s, [sess[s] EXCEPT
       !.at = IF sess[s].decision = "REJECT" THEN "reject" ELSE "row",
       !.cos = LoadCompanies({Tenant(s)})])
  /\ UNCHANGED <<vars, usage, started, stale, applied, collisions>>

\* The request's own columns: status always differs from what was loaded.
DecideAs(s, status) ==
  reqs' = [reqs EXCEPT ![sess[s].req].status = status]

RejectRequest(s) ==
  /\ At(s, "reject")
  /\ DecideAs(s, "REJECTED") /\ End(s)
  /\ stale' = (stale \/ RequestMoved(s))
  /\ UNCHANGED <<company, subs, usage, started, applied, collisions>> /\ Quiet

Defers(s) == sess[s].rq.type = "DOWNGRADE" /\ sess[s].decision # "FORCE"
                                           /\ ~sess[s].rq.immediate

\* The current row is read; the trial is checked against the company as loaded.
ReadCurrentRow(s) ==
  LET c == Tenant(s)
      refused == Wanted(s) = Free /\ Loaded(s).trialUsed
  IN
  /\ At(s, "row")
  /\ \/ \E i \in DOMAIN subs :
          /\ IsCurrent(i, c)
          /\ IF Defers(s) \/ ~refused
             THEN Become(s, [sess[s] EXCEPT
                    !.at = IF Defers(s) THEN "schedule" ELSE "apply",
                    !.row = i, !.rows = LoadRows({i})])
             ELSE End(s)
     \/ LiveRows(c) = {} /\ IF refused THEN End(s) ELSE Go(s, "insert")
  /\ UNCHANGED <<vars, usage, started, stale, applied, collisions>>

ScheduleChange(s) ==
  LET i == sess[s].row
      held == sess[s].rows[i]
  IN
  /\ At(s, "schedule")
  /\ Store(s, i, ScheduledRow(held, Wanted(s)), ScheduledCompany(Loaded(s), held), {})
  /\ DecideAs(s, "APPROVED") /\ End(s)
  /\ UNCHANGED <<usage, started, applied, collisions>> /\ Quiet

Count(r) == applied' = [applied EXCEPT ![r] = @ + 1]

ApplyPlan(s) ==
  LET i == sess[s].row
      p == Wanted(s)
      row == AppliedRow(sess[s].rows[i], p)
      co == AppliedCompany(Loaded(s), p)
  IN
  /\ At(s, "apply")
  /\ Store(s, i, row, co, {"end"})
  /\ Become(s, [Stored(s, i, row, co) EXCEPT !.at = "usage"])
  /\ Count(sess[s].req)
  /\ UNCHANGED <<reqs, usage, started, collisions>> /\ Quiet

\* subscription_repository.create commits the row before the company changes.
InsertRow(s) ==
  LET i == Len(subs) + 1
      row == NewRow(Tenant(s), Wanted(s))
  IN
  /\ At(s, "insert") /\ i <= MaxSubs
  /\ subs' = Append(subs, row)
  /\ Become(s, [sess[s] EXCEPT !.at = "refresh", !.row = i,
                               !.rows = [j \in {i} |-> row]])
  /\ stale' = (stale \/ LiveRows(Tenant(s)) # {} \/ RequestMoved(s))
  /\ UNCHANGED <<company, reqs, usage, started, applied, collisions>> /\ Quiet

\* Its refresh joins the company, loaded once more; rows keeps the row as it was
\* inserted, for nothing of the row but the end date computed before is used.
RefreshRow(s) ==
  /\ At(s, "refresh")
  /\ Become(s, [sess[s] EXCEPT !.at = "mirror", !.cos = LoadCompanies({Tenant(s)})])
  /\ UNCHANGED <<vars, usage, started, stale, applied, collisions>>

\* The company follows the row inserted; the row itself is not written again.
MirrorPlan(s) ==
  LET c == Tenant(s)
      i == sess[s].row
      held == sess[s].rows[i]
      co == [AppliedCompany(Loaded(s), Wanted(s)) EXCEPT !.end = held.end]
  IN
  /\ At(s, "mirror")
  /\ company' = [company EXCEPT ![c] = Written(@, Loaded(s), co, {"end"})]
  /\ stale' = (stale \/ RequestMoved(s) \/ subs[i] # held \/ company[c] # Loaded(s))
  /\ Become(s, [sess[s] EXCEPT !.at = "usage", !.cos[c] = co])
  /\ Count(sess[s].req)
  /\ UNCHANGED <<subs, reqs, usage, started, collisions>> /\ Quiet

Owner(s) == subs[sess[s].row].company

AfterUsage(s) == IF sess[s].req = 0 THEN "activate" ELSE "decide"

ReadUsage(s) ==
  /\ At(s, "usage")
  /\ Go(s, IF Owner(s) \in usage THEN AfterUsage(s) ELSE "newusage")
  /\ UNCHANGED <<vars, usage, started, stale, applied, collisions>>

\* A second row of the month is refused, and the exception ends the session.
InsertUsage(s) ==
  /\ At(s, "newusage")
  /\ \/ /\ Owner(s) \notin usage
        /\ usage' = usage \cup {Owner(s)}
        /\ Go(s, AfterUsage(s))
        /\ UNCHANGED collisions
     \/ /\ Owner(s) \in usage
        /\ collisions' = collisions + 1
        /\ End(s)
        /\ UNCHANGED usage
  /\ UNCHANGED <<vars, started, stale, applied>>

MarkApproved(s) ==
  /\ At(s, "decide")
  /\ DecideAs(s, "APPROVED") /\ End(s)
  /\ stale' = (stale \/ RequestMoved(s))
  /\ UNCHANGED <<company, subs, usage, started, applied, collisions>> /\ Quiet

-----------------------------------------------------------------------------
(* suspend_expired_companies: one commit for each row, by its notification *)

StartCheck(s, cut) ==
  LET R == ExpiredBy(cut) IN
  /\ Begin(s) /\ cut \in {now, now + 1} /\ R # {}
  /\ Become(s, [NoSession EXCEPT !.at = "check", !.rows = LoadRows(R),
                  !.cos = LoadCompanies({subs[i].company : i \in R})])
  /\ UNCHANGED <<vars, usage, stale, applied, collisions>>

Rest(session, i) ==
  [session EXCEPT !.rows = [j \in DOMAIN session.rows \ {i} |-> session.rows[j]]]

\* The session goes on with the other rows it has loaded, if there are any.
GoOn(s, session, i) ==
  Become(s, IF DOMAIN session.rows = {i} THEN NoSession
            ELSE [Rest(session, i) EXCEPT !.row = 0])

CheckRow(s, i) ==
  LET row == ExpiredRow(sess[s].rows[i])
      co == ExpiredCompany(sess[s].cos[subs[i].company], sess[s].rows[i])
  IN
  /\ At(s, "check")
  /\ Store(s, i, row, co, {})
  /\ GoOn(s, Stored(s, i, row, co), i)
  /\ UNCHANGED <<reqs, usage, started, applied, collisions>> /\ Quiet

-----------------------------------------------------------------------------
(* process_scheduled_changes, at any time here: jobs may start late or overlap *)

\* The loop passes over due rows that have lost their plan.
MovableRows == {i \in DueRows : subs[i].schedPlan # None}

StartMove(s) ==
  /\ Begin(s) /\ MovableRows # {}
  /\ Become(s, [NoSession EXCEPT !.at = "move", !.rows = LoadRows(MovableRows),
                  !.cos = LoadCompanies({subs[i].company : i \in MovableRows})])
  /\ UNCHANGED <<vars, usage, stale, applied, collisions>>

\* A trial that is used ends the job with an HTTPException.
MoveRow(s, i) ==
  LET held == sess[s].rows[i]
      co == sess[s].cos[subs[i].company]
      p == held.schedPlan
      row == AppliedRow(held, p)
  IN
  /\ At(s, "move")
  /\ IF p = Free /\ co.trialUsed
     THEN End(s) /\ UNCHANGED <<company, subs, stale>>
     ELSE /\ Store(s, i, row, AppliedCompany(co, p), {"end"})
          /\ Become(s, [Stored(s, i, row, AppliedCompany(co, p)) EXCEPT
                          !.at = "usage", !.row = i])
  /\ UNCHANGED <<reqs, usage, started, applied, collisions>> /\ Quiet

\* ACTIVE is assigned after that commit, and stored with the next one.
Activate(s) ==
  LET i == sess[s].row
      held == sess[s].rows[i]
      row == [held EXCEPT !.status = "ACTIVE"]
  IN
  /\ At(s, "activate")
  /\ subs' = [subs EXCEPT ![i] = Written(@, held, row, {})]
  /\ stale' = (stale \/ (row # held /\ subs[i] # held))
  /\ GoOn(s, [sess[s] EXCEPT !.at = "move"], i)
  /\ UNCHANGED <<company, reqs, usage, started, applied, collisions>> /\ Quiet

-----------------------------------------------------------------------------
Ask(c, type, p, immediate) ==
  /\ RequestChange(c, type, p, immediate)
  /\ applied' = Append(applied, 0)
  /\ UNCHANGED <<sess, usage, started, stale, collisions>>

SessNext ==
  \/ \E c \in Companies, p \in Plans : Register(c, p) /\ UNCHANGED sessVars
  \/ \E c \in Companies, t \in RequestTypes, p \in Plans, i \in BOOLEAN :
       Ask(c, t, p, i)
  \/ Tick /\ UNCHANGED sessVars
  \/ \E s \in Sessions :
       \/ \E r \in DOMAIN reqs, d \in {"REJECT", "APPROVE", "FORCE"} :
            StartReview(s, r, d)
       \/ ReadCompany(s) \/ RejectRequest(s) \/ ReadCurrentRow(s)
       \/ ScheduleChange(s) \/ ApplyPlan(s) \/ InsertRow(s) \/ RefreshRow(s)
       \/ MirrorPlan(s) \/ ReadUsage(s) \/ InsertUsage(s) \/ MarkApproved(s)
       \/ \E cut \in {now, now + 1} : StartCheck(s, cut)
       \/ \E i \in DOMAIN sess[s].rows : CheckRow(s, i) \/ MoveRow(s, i)
       \/ StartMove(s) \/ Activate(s)

SessSpec == SessInit /\ [][SessNext]_allVars

-----------------------------------------------------------------------------
\* Overlapping sessions break the agreement of the tables only through a write
\* over rows that changed after the session had loaded them (review at
\* subscription_service.py:361-408, expiry check 597-614, scheduled changes
\* 616-650): otherwise a company keeps one live row, and write access rests on it.
FreshAccess == ~stale => OneLiveRow /\ WritableBacked

\* A used trial stays used, whatever stale copy of the company a session writes
\* from: company.trial_used = company.trial_used or is_trial never clears it,
\* because an unchanged column is not in the UPDATE.
TrialStaysSpent ==
  [][\A c \in Companies :
       Registered(c) /\ company[c].trialUsed => company'[c].trialUsed]_allVars

\* Sessions between the commit of the plan of request r and that of its decision.
Applying(r) ==
  {s \in Sessions : sess[s].req = r /\ sess[s].at \in {"usage", "newusage", "decide"}}

\* Without such a write, a plan is committed once for each request and never for
\* a rejected one, except by reviews that have not stored their decision yet or
\* that ended before it on a duplicate usage row (subscription_service.py:123).
FreshDecisions ==
  ~stale => \A r \in DOMAIN reqs :
    LET undecided == collisions + Cardinality(Applying(r)) IN
    /\ reqs[r].status = "REJECTED" /\ applied[r] > 0 => undecided > 0
    /\ applied[r] <= 1 + undecided
=============================================================================
