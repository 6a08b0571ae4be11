---------------------- MODULE SubscriptionSessionsProofs ----------------------
(***************************************************************************)
(* Reviews and nightly jobs that overlap break the agreement of the tables *)
(* only through a write over rows changed since they were loaded, for any  *)
(* number of companies, plans, sessions, requests and starts.              *)
(***************************************************************************)
EXTENDS SubscriptionProofs, SubscriptionSessions, FiniteSetTheorems

-----------------------------------------------------------------------------
(* The invariant *)

RowMaps == UNION {[D -> SubscriptionRow] : D \in SUBSET Nat}
CompanyMaps == UNION {[D -> CompanyRow] : D \in SUBSET Companies}

Session ==
  [at : Places, req : Nat, rq : RequestRow \cup {None},
   decision : {"REJECT", "APPROVE", "FORCE"},
   rows : RowMaps, cos : CompanyMaps, row : Nat]

ReviewPlaces == {"company", "row", "reject", "schedule", "apply", "insert",
                 "refresh", "mirror", "decide"}

\* A session refers to rows and requests that exist.  Below, S stands for subs, Q
\* for reqs and C for company.
Refers(x, S, Q) ==
  /\ x.req \in {0} \cup DOMAIN Q
  /\ x.row \in {0} \cup DOMAIN S
  /\ DOMAIN x.rows \subseteq DOMAIN S

\* A review has read its request while it was pending, and its company.
Reviews(x, C) ==
  /\ x.at \in ReviewPlaces => x.req # 0
  /\ x.req # 0 => /\ x.rq \in RequestRow /\ x.rq.status = "PENDING_APPROVAL"
                  /\ C[x.rq.company] # None
  /\ x.at \in ReviewPlaces \ {"company", "decide"} => x.rq.company \in DOMAIN x.cos

\* The row at hand: live when the review loaded it, on the plan the review has
\* inserted it with, and of the company under review.
HoldsRow(x, S) ==
  /\ x.at \in {"schedule", "apply", "refresh", "mirror"} =>
       x.row \in DOMAIN x.rows /\ S[x.row].company = x.rq.company
  /\ x.at \in {"usage", "newusage", "activate"} => x.row \in DOMAIN x.rows
  /\ x.at \in {"schedule", "apply"} =>
       x.rows[x.row].active /\ x.rows[x.row].status \in ACTIVE_STATUSES
  /\ x.at \in {"refresh", "mirror"} =>
       /\ x.rows[x.row].plan = x.rq.plan /\ x.rows[x.row].active
       /\ x.rows[x.row].status = StatusFor(x.rq.plan)

\* A job knows the companies of its rows; the rows the scheduled-change job still has
\* to apply wait for a plan, and the one before its last assignment has its plan.
Works(x, S) ==
  /\ x.at \in {"check", "move", "activate"} => x.req = 0
  /\ x.req = 0 => \A i \in DOMAIN x.rows : S[i].company \in DOMAIN x.cos
  /\ x.at = "move" => x.row = 0
  /\ x.req = 0 /\ x.at # "check" => \A i \in DOMAIN x.rows : i # x.row =>
       x.rows[i].status = "SCHEDULED_CHANGE" /\ x.rows[i].schedPlan \in Plans
  /\ x.req = 0 /\ x.at \in {"usage", "newusage", "activate"} =>
       x.rows[x.row].active /\ x.rows[x.row].status = StatusFor(x.rows[x.row].plan)

Sound(x, S, Q, C) ==
  x \in Session /\ Refers(x, S, Q) /\ Reviews(x, C) /\ HoldsRow(x, S) /\ Works(x, S)

SessionsSound ==
  /\ DOMAIN sess = Sessions
  /\ \A s \in Sessions : Sound(sess[s], subs, reqs, company)

CountsTyped ==
  /\ usage \subseteq Companies
  /\ started \in Nat /\ stale \in BOOLEAN /\ collisions \in Nat
  /\ applied \in Seq(Nat) /\ Len(applied) = Len(reqs)

\* The jobs are sessions here: Subscription's own job never runs.
Typed ==
  TypeInv /\ batch = None /\ checkedTo = 0 /\ SessionsSound /\ CountsTyped

\* Without a stale write the tables agree as after handlers run one by one,
Agreed == ~stale => AccessInv

\* and every commit of a plan is the one of its request's approval, or of a review
\* that has not stored its decision, or of one that has ended before it.
Due(r) ==
  applied[r] <= collisions + Cardinality(Applying(r))
                  + (IF reqs[r].status = "APPROVED" THEN 1 ELSE 0)

DecisionsDue == ~stale => \A r \in DOMAIN reqs : Due(r)

SessInv == Typed /\ Agreed /\ DecisionsDue

-----------------------------------------------------------------------------
(* Rows as loaded and as written *)

LEMMA RowMap ==
  ASSUME NEW f \in RowMaps
  PROVE  /\ DOMAIN f \subseteq Nat
         /\ f = [i \in DOMAIN f |-> f[i]]
         /\ \A i \in DOMAIN f : f[i] \in SubscriptionRow
BY DEF RowMaps

LEMMA IsRowMap ==
  ASSUME NEW f, DOMAIN f \subseteq Nat, f = [i \in DOMAIN f |-> f[i]],
         \A i \in DOMAIN f : f[i] \in SubscriptionRow
  PROVE  f \in RowMaps
<1>1. f \in [DOMAIN f -> SubscriptionRow]
  OBVIOUS
<1>. QED
  BY <1>1 DEF RowMaps

LEMMA CompanyMap ==
  ASSUME NEW f \in CompanyMaps
  PROVE  /\ DOMAIN f \subseteq Companies
         /\ f = [c \in DOMAIN f |-> f[c]]
         /\ \A c \in DOMAIN f : f[c] \in CompanyRow
BY DEF CompanyMaps

LEMMA IsCompanyMap ==
  ASSUME NEW f, DOMAIN f \subseteq Companies, f = [c \in DOMAIN f |-> f[c]],
         \A c \in DOMAIN f : f[c] \in CompanyRow
  PROVE  f \in CompanyMaps
<1>1. f \in [DOMAIN f -> CompanyRow]
  OBVIOUS
<1>. QED
  BY <1>1 DEF CompanyMaps

\* Loading rows and companies that exist.
LEMMA LoadedRows ==
  ASSUME TypeInv, NEW R \in SUBSET DOMAIN subs
  PROVE  /\ LoadRows(R) \in RowMaps /\ DOMAIN LoadRows(R) = R
         /\ \A i \in R : LoadRows(R)[i] = subs[i]
<1>1. DOMAIN subs \subseteq Nat
  BY LenProperties DEF TypeInv, TypeOK
<1>2. \A i \in R : subs[i] \in SubscriptionRow
  BY TypeFacts
<1>3. /\ DOMAIN LoadRows(R) = R /\ LoadRows(R) = [i \in DOMAIN LoadRows(R) |-> LoadRows(R)[i]]
      /\ \A i \in R : LoadRows(R)[i] = subs[i]
  BY DEF LoadRows
<1>. QED
  BY <1>1, <1>2, <1>3, IsRowMap

LEMMA LoadedCompanies ==
  ASSUME TypeInv, NEW D \in SUBSET Companies, \A c \in D : company[c] # None
  PROVE  /\ LoadCompanies(D) \in CompanyMaps /\ DOMAIN LoadCompanies(D) = D
         /\ \A c \in D : LoadCompanies(D)[c] = company[c]
<1>1. \A c \in D : company[c] \in CompanyRow
  BY TypeFacts
<1>2. /\ DOMAIN LoadCompanies(D) = D
      /\ LoadCompanies(D) = [c \in DOMAIN LoadCompanies(D) |-> LoadCompanies(D)[c]]
      /\ \A c \in D : LoadCompanies(D)[c] = company[c]
  BY DEF LoadCompanies
<1>. QED
  BY <1>1, <1>2, IsCompanyMap

\* A row or a company held again as it was stored.
LEMMA HeldRows ==
  ASSUME NEW f \in RowMaps, NEW i \in DOMAIN f, NEW row \in SubscriptionRow
  PROVE  /\ [f EXCEPT ![i] = row] \in RowMaps
         /\ DOMAIN [f EXCEPT ![i] = row] = DOMAIN f
         /\ \A j \in DOMAIN f : [f EXCEPT ![i] = row][j] = IF j = i THEN row ELSE f[j]
<1> DEFINE g == [f EXCEPT ![i] = row]
<1>1. /\ DOMAIN g = DOMAIN f /\ g = [j \in DOMAIN g |-> g[j]]
      /\ \A j \in DOMAIN f : g[j] = IF j = i THEN row ELSE f[j]
  OBVIOUS
<1>2. /\ DOMAIN f \subseteq Nat
      /\ \A j \in DOMAIN f : f[j] \in SubscriptionRow
  BY RowMap
<1>3. g \in RowMaps
  <2> HIDE DEF g
  <2>. QED
    BY <1>1, <1>2, IsRowMap
<1>. QED
  BY <1>1, <1>3

LEMMA HeldCompanies ==
  ASSUME NEW f \in CompanyMaps, NEW c \in DOMAIN f, NEW co \in CompanyRow
  PROVE  /\ [f EXCEPT ![c] = co] \in CompanyMaps
         /\ DOMAIN [f EXCEPT ![c] = co] = DOMAIN f
<1> DEFINE g == [f EXCEPT ![c] = co]
<1>1. /\ DOMAIN g = DOMAIN f /\ g = [d \in DOMAIN g |-> g[d]]
      /\ \A d \in DOMAIN f : g[d] = IF d = c THEN co ELSE f[d]
  OBVIOUS
<1>2. /\ DOMAIN f \subseteq Companies
      /\ \A d \in DOMAIN f : f[d] \in CompanyRow
  BY CompanyMap
<1>3. g \in CompanyMaps
  <2> HIDE DEF g
  <2>. QED
    BY <1>1, <1>2, IsCompanyMap
<1>. QED
  BY <1>1, <1>3

\* An UPDATE leaves a row, of the same company,
LEMMA WrittenRow ==
  ASSUME NEW db \in SubscriptionRow, NEW held \in SubscriptionRow,
         NEW row \in SubscriptionRow, row.company = held.company,
         NEW sent \in {{}, {"end"}}
  PROVE  /\ Written(db, held, row, sent) \in SubscriptionRow
         /\ Written(db, held, row, sent).company = db.company
BY DEF Written, SubscriptionRow

\* a company that has used its trial if it had before,
LEMMA WrittenCompany ==
  ASSUME NEW db \in CompanyRow, NEW held \in CompanyRow, NEW co \in CompanyRow,
         co.trialUsed \in {held.trialUsed, TRUE}, NEW sent \in {{}, {"end"}}
  PROVE  /\ Written(db, held, co, sent) \in CompanyRow
         /\ db.trialUsed => Written(db, held, co, sent).trialUsed
BY DEF Written, CompanyRow

\* and all that was set, if nothing has changed since it was loaded.
LEMMA WrittenFreshRow ==
  ASSUME NEW held \in SubscriptionRow, NEW row \in SubscriptionRow, NEW sent
  PROVE  Written(held, held, row, sent) = row
BY DEF Written, SubscriptionRow

LEMMA WrittenFreshCompany ==
  ASSUME NEW held \in CompanyRow, NEW co \in CompanyRow, NEW sent
  PROVE  Written(held, held, co, sent) = co
BY DEF Written, CompanyRow

-----------------------------------------------------------------------------
(* Sessions while the tables grow *)

\* No step deletes a row or a request, gives a row another owner or unregisters a
\* company.
Grows ==
  /\ DOMAIN subs \subseteq DOMAIN subs' /\ DOMAIN reqs \subseteq DOMAIN reqs'
  /\ \A i \in DOMAIN subs : subs'[i].company = subs[i].company
  /\ \A c \in Companies : company[c] # None => company'[c] # None

TrialKept ==
  \A c \in Companies :
    Registered(c) /\ company[c].trialUsed => company'[c].trialUsed

LEMMA SoundKept ==
  ASSUME NEW x, Sound(x, subs, reqs, company), Grows
  PROVE  Sound(x, subs', reqs', company')
<1>1. x \in Session /\ Refers(x, subs, reqs) /\ Reviews(x, company)
      /\ HoldsRow(x, subs) /\ Works(x, subs)
  BY DEF Sound
<1>2. Refers(x, subs', reqs')
  BY <1>1 DEF Refers, Grows
<1>3. Reviews(x, company')
  <2>1. x.req # 0 => x.rq.company \in Companies
    BY <1>1 DEF Reviews, RequestRow
  <2>. QED
    BY <1>1, <2>1 DEF Reviews, Grows
<1>4. DOMAIN x.rows \subseteq DOMAIN subs
  BY <1>1 DEF Refers
<1>5. HoldsRow(x, subs')
  BY <1>1, <1>4 DEF HoldsRow, Grows
<1>6. Works(x, subs')
  BY <1>1, <1>4 DEF Works, Grows
<1>. QED
  BY <1>1, <1>2, <1>3, <1>5, <1>6 DEF Sound

\* One session moves on,
LEMMA SessionMoves ==
  ASSUME SessionsSound, Grows, NEW s \in Sessions, NEW x,
         Sound(x, subs', reqs', company'), sess' = [sess EXCEPT ![s] = x]
  PROVE  SessionsSound'
<1>1. DOMAIN sess' = Sessions
  BY DEF SessionsSound
<1>2. ASSUME NEW t \in Sessions PROVE Sound(sess'[t], subs', reqs', company')
  <2>1. CASE t = s
    BY <2>1 DEF SessionsSound
  <2>2. CASE t # s
    <3>1. sess'[t] = sess[t]
      BY <2>2 DEF SessionsSound
    <3>2. Sound(sess[t], subs, reqs, company)
      BY DEF SessionsSound
    <3>. QED
      BY <3>1, <3>2, SoundKept
  <2>. QED
    BY <2>1, <2>2
<1>. QED
  BY <1>1, <1>2 DEF SessionsSound

\* or none does.
LEMMA SessionsStay ==
  ASSUME SessionsSound, Grows, sess' = sess
  PROVE  SessionsSound'
<1>1. ASSUME NEW t \in Sessions PROVE Sound(sess'[t], subs', reqs', company')
  <2>1. Sound(sess[t], subs, reqs, company)
    BY DEF SessionsSound
  <2>. QED
    BY <2>1, SoundKept
<1>. QED
  BY <1>1 DEF SessionsSound

\* A session that has ended holds nothing.
LEMMA EndedIsSound ==
  Sound(NoSession, subs, reqs, company) /\ Sound(NoSession, subs', reqs', company')
<1>1. <<>> \in RowMaps /\ <<>> \in CompanyMaps
  <2>1. DOMAIN <<>> = {} /\ <<>> = [i \in {} |-> <<>>[i]]
    OBVIOUS
  <2>. QED
    BY <2>1, IsRowMap, IsCompanyMap
<1>2. NoSession \in Session
  BY <1>1 DEF NoSession, Session, Places
<1>3. /\ NoSession.at = "none" /\ NoSession.req = 0 /\ NoSession.row = 0
      /\ DOMAIN NoSession.rows = {}
  BY DEF NoSession
<1>. QED
  BY <1>2, <1>3 DEF Sound, Refers, Reviews, HoldsRow, Works, ReviewPlaces

-----------------------------------------------------------------------------
(* Steps on the tables *)

\* A step that leaves the tables alone.
LEMMA SameTablesTyped ==
  ASSUME TypeInv, UNCHANGED vars
  PROVE  TypeInv' /\ Grows /\ TrialKept
<1>1. TypeInv'
  BY TypeNext
<1>. QED
  BY <1>1 DEF vars, Grows, TrialKept, TypeInv, TypeOK

\* The rest of a step that stays within the types, by what it does to the requests.
LEMMA RestTyped ==
  ASSUME TypeInv, Quiet,
         reqs' \in Seq(RequestRow), company' \in [Companies -> CompanyRow \cup {None}],
         subs' \in Seq(SubscriptionRow), OwnersRegistered', batch = None
  PROVE  TypeInv'
BY DEF TypeInv, TypeOK, Quiet

\* The decision of a request by a session that has read it.
LEMMA SessionDecides ==
  ASSUME TypeInv, NEW s \in Sessions, sess[s].req \in DOMAIN reqs,
         NEW status \in RequestStatus, DecideAs(s, status)
  PROVE  /\ reqs' \in Seq(RequestRow)
         /\ DOMAIN reqs' = DOMAIN reqs /\ Len(reqs') = Len(reqs)
         /\ \A q \in DOMAIN reqs : reqs'[q].company = reqs[q].company
<1>1. Decide(sess[s].req, status)
  BY DEF Decide, DecideAs
<1>2. /\ reqs' \in Seq(RequestRow) /\ DOMAIN reqs' = DOMAIN reqs
      /\ \A q \in DOMAIN reqs : reqs'[q].company = reqs[q].company
  BY <1>1, DecideStep
<1>3. reqs \in Seq(RequestRow)
  BY DEF TypeInv, TypeOK
<1>4. Len(reqs') = Len(reqs)
  <2>1. DOMAIN reqs = 1..Len(reqs) /\ Len(reqs) \in Nat
    BY <1>3, LenProperties
  <2>2. DOMAIN reqs' = 1..Len(reqs') /\ Len(reqs') \in Nat
    BY <1>2, LenProperties
  <2>. QED
    BY <1>2, <2>1, <2>2
<1>. QED
  BY <1>2, <1>4

\* The commit of a row with its company.
LEMMA StoreTyped ==
  ASSUME Typed, Quiet, NEW s \in Sessions, NEW i \in DOMAIN sess[s].rows,
         subs[i].company \in DOMAIN sess[s].cos,
         NEW row \in SubscriptionRow, row.company = sess[s].rows[i].company,
         NEW co \in CompanyRow,
         co.trialUsed \in {sess[s].cos[subs[i].company].trialUsed, TRUE},
         NEW sent \in {{}, {"end"}}, Store(s, i, row, co, sent),
         reqs' \in Seq(RequestRow), DOMAIN reqs' = DOMAIN reqs,
         \A r \in DOMAIN reqs : reqs'[r].company = reqs[r].company
  PROVE  TypeInv' /\ Grows /\ TrialKept
<1> DEFINE c == subs[i].company
<1>1. Sound(sess[s], subs, reqs, company) /\ TypeInv /\ batch = None
  BY DEF Typed, SessionsSound
<1>2. /\ i \in DOMAIN subs /\ sess[s].rows \in RowMaps /\ sess[s].cos \in CompanyMaps
      /\ sess[s].rows[i] \in SubscriptionRow /\ sess[s].cos[c] \in CompanyRow
  <2>1. /\ sess[s].rows \in RowMaps /\ sess[s].cos \in CompanyMaps
        /\ DOMAIN sess[s].rows \subseteq DOMAIN subs
    BY <1>1 DEF Sound, Session, Refers
  <2>. QED
    BY <2>1, RowMap, CompanyMap
<1>3. subs[i] \in SubscriptionRow /\ c \in Companies /\ company[c] \in CompanyRow
  BY <1>1, <1>2, TypeFacts
<1> DEFINE new == Written(subs[i], sess[s].rows[i], row, sent)
           newco == Written(company[c], sess[s].cos[c], co, sent)
<1>4. new \in SubscriptionRow /\ new.company = subs[i].company
  <2>1. PICK held \in SubscriptionRow : held = sess[s].rows[i]
    BY <1>2
  <2>2. PICK db \in SubscriptionRow : db = subs[i]
    BY <1>3
  <2>3. row.company = held.company
    BY <2>1
  <2>4. Written(db, held, row, sent) \in SubscriptionRow
        /\ Written(db, held, row, sent).company = db.company
    BY <2>3, WrittenRow, ZenonT(60)
  <2>. QED
    BY <2>1, <2>2, <2>4
<1>5. newco \in CompanyRow /\ (company[c].trialUsed => newco.trialUsed)
  BY <1>2, <1>3, WrittenCompany
<1>6. subs' = [subs EXCEPT ![i] = new] /\ company' = [company EXCEPT ![c] = newco]
  BY DEF Store
<1> HIDE DEF new, newco
<1>7. /\ company' \in [Companies -> CompanyRow \cup {None}]
      /\ \A d \in Companies : company[d] # None => company'[d] # None
      /\ company'[c] = newco
  BY <1>1, <1>3, <1>5, <1>6, CompanyStep
<1>8. UNCHANGED batch
  BY DEF Quiet
<1>9. OwnersRegistered' /\ subs' \in Seq(SubscriptionRow)
  BY <1>1, <1>2, <1>4, <1>6, <1>7, <1>8, ReplaceStep
<1>10. TypeInv'
  BY <1>1, <1>7, <1>9, RestTyped
<1>11. subs \in Seq(SubscriptionRow) /\ company \in [Companies -> CompanyRow \cup {None}]
  BY <1>1 DEF TypeInv, TypeOK
<1>12. /\ DOMAIN subs' = DOMAIN subs
       /\ \A j \in DOMAIN subs : subs'[j] = IF j = i THEN new ELSE subs[j]
  BY <1>2, <1>4, <1>6, <1>11, ReplacedRow
<1>13. Grows
  BY <1>4, <1>7, <1>12 DEF Grows
<1>14. TrialKept
  BY <1>5, <1>6, <1>11 DEF TrialKept
<1>. QED
  BY <1>10, <1>13, <1>14

-----------------------------------------------------------------------------
(* Every step keeps the types, what sessions know, and used trials *)

LEMMA TypedFacts ==
  ASSUME Typed, NEW s \in Sessions
  PROVE  /\ TypeInv /\ batch = None /\ checkedTo = 0 /\ SessionsSound /\ CountsTyped
         /\ Sound(sess[s], subs, reqs, company)
         /\ sess[s] \in Session
         /\ Refers(sess[s], subs, reqs) /\ Reviews(sess[s], company)
         /\ HoldsRow(sess[s], subs) /\ Works(sess[s], subs)
BY DEF Typed, SessionsSound, Sound

\* The tables have grown within their types, and session s goes on as x.
LEMMA StepTyped ==
  ASSUME Typed, TypeInv', Grows, UNCHANGED <<batch, checkedTo>>, CountsTyped',
         NEW s \in Sessions, NEW x, Become(s, x), Sound(x, subs', reqs', company')
  PROVE  Typed'
<1>1. SessionsSound /\ batch = None /\ checkedTo = 0
  BY DEF Typed
<1>2. SessionsSound'
  BY <1>1, SessionMoves DEF Become
<1>. QED
  BY <1>1, <1>2 DEF Typed

\* A session that only reads.
LEMMA ReadTyped ==
  ASSUME Typed, UNCHANGED vars, CountsTyped',
         NEW s \in Sessions, NEW x, Become(s, x), Sound(x, subs, reqs, company)
  PROVE  Typed' /\ TrialKept
<1>1. TypeInv
  BY DEF Typed
<1>2. TypeInv' /\ Grows /\ TrialKept
  BY <1>1, SameTablesTyped
<1>3. Sound(x, subs', reqs', company') /\ UNCHANGED <<batch, checkedTo>>
  BY DEF vars
<1>. QED
  BY <1>2, <1>3, StepTyped

LEMMA SameCounts ==
  ASSUME Typed, UNCHANGED <<usage, stale, applied, collisions, reqs>>,
         started' \in {started, started + 1}
  PROVE  CountsTyped'
BY DEF Typed, CountsTyped

LEMMA StartReviewTyped ==
  ASSUME Typed, NEW s \in Sessions, NEW r \in DOMAIN reqs,
         NEW d \in {"REJECT", "APPROVE", "FORCE"}, StartReview(s, r, d)
  PROVE  Typed' /\ TrialKept
<1> DEFINE x == [NoSession EXCEPT !.at = "company", !.req = r, !.rq = reqs[r],
                                  !.decision = d]
<1>1. /\ Become(s, x) /\ UNCHANGED vars /\ Pending(r)
      /\ UNCHANGED <<usage, stale, applied, collisions, reqs>> /\ started' = started + 1
  BY DEF StartReview, Begin, vars
<1>2. TypeInv
  BY DEF Typed
<1>3. r \in Nat /\ reqs[r] \in RequestRow /\ company[reqs[r].company] # None
  <2>1. DOMAIN reqs \subseteq Nat
    BY <1>2, LenProperties DEF TypeInv, TypeOK
  <2>2. company[reqs[r].company] # None
    BY <1>2 DEF TypeInv, OwnersRegistered, Registered
  <2>. QED
    BY <1>2, <2>1, <2>2, TypeFacts
<1>4. NoSession \in Session
  BY EndedIsSound DEF Sound
<1>5. /\ x \in Session /\ x.at = "company" /\ x.req = r /\ x.rq = reqs[r]
      /\ x.rows = NoSession.rows /\ x.row = NoSession.row
  <2>1. PICK n \in Session : n = NoSession
    BY <1>4
  <2>2. [n EXCEPT !.at = "company", !.req = r, !.rq = reqs[r], !.decision = d] \in Session
    BY <1>3 DEF Session, Places
  <2>. QED
    BY <2>1, <2>2 DEF Session
<1>6. NoSession.row = 0 /\ DOMAIN NoSession.rows = {}
  BY DEF NoSession
<1>7. r # 0
  <2>1. DOMAIN reqs = 1..Len(reqs) /\ Len(reqs) \in Nat
    BY <1>2, LenProperties DEF TypeInv, TypeOK
  <2>. QED
    BY <2>1
<1> HIDE DEF x
<1>8. Sound(x, subs, reqs, company)
  <2>1. Refers(x, subs, reqs)
    BY <1>5, <1>6 DEF Refers
  <2>2. Reviews(x, company)
    BY <1>1, <1>3, <1>5, <1>7 DEF Reviews, Pending, ReviewPlaces
  <2>3. HoldsRow(x, subs) /\ Works(x, subs)
    BY <1>5, <1>6, <1>7 DEF HoldsRow, Works
  <2>. QED
    BY <1>5, <2>1, <2>2, <2>3 DEF Sound
<1>9. CountsTyped'
  BY <1>1, SameCounts
<1>. QED
  BY <1>1, <1>8, <1>9, ReadTyped

LEMMA ReadCompanyTyped ==
  ASSUME Typed, NEW s \in Sessions, ReadCompany(s)
  PROVE  Typed' /\ TrialKept
<1> DEFINE D == {Tenant(s)}
           at == IF sess[s].decision = "REJECT" THEN "reject" ELSE "row"
<1>1. /\ sess[s].at = "company" /\ UNCHANGED vars
      /\ Become(s, [sess[s] EXCEPT !.at = at, !.cos = LoadCompanies(D)])
      /\ UNCHANGED <<usage, stale, applied, collisions, reqs, started>>
  BY DEF ReadCompany, At, vars
<1>2. PICK y \in Session : y = sess[s]
  BY TypedFacts
<1>3. /\ Refers(y, subs, reqs) /\ Reviews(y, company) /\ HoldsRow(y, subs)
      /\ Works(y, subs) /\ TypeInv
  BY <1>2, TypedFacts
<1>4. y.req # 0 /\ y.rq \in RequestRow /\ company[y.rq.company] # None
      /\ y.rq.status = "PENDING_APPROVAL"
  BY <1>1, <1>2, <1>3 DEF Reviews, ReviewPlaces
<1>5. D = {y.rq.company} /\ y.rq.company \in Companies
  BY <1>2, <1>4 DEF Tenant, RequestRow
<1>6. LoadCompanies(D) \in CompanyMaps /\ DOMAIN LoadCompanies(D) = D
  BY <1>3, <1>4, <1>5, LoadedCompanies
<1> DEFINE x == [y EXCEPT !.at = at, !.cos = LoadCompanies(D)]
<1>7. at \in {"reject", "row"}
  OBVIOUS
<1> HIDE DEF D, at
<1>8. /\ x \in Session /\ x.at = at /\ x.req = y.req /\ x.rq = y.rq
      /\ x.rows = y.rows /\ x.row = y.row /\ DOMAIN x.cos = D
  BY <1>6, <1>7 DEF Session, Places
<1>9. Become(s, x)
  BY <1>1, <1>2
<1> HIDE DEF x
<1>10. Sound(x, subs, reqs, company)
  <2>1. Refers(x, subs, reqs)
    BY <1>3, <1>8 DEF Refers
  <2>2. Reviews(x, company)
    BY <1>4, <1>5, <1>8 DEF Reviews
  <2>3. HoldsRow(x, subs) /\ Works(x, subs)
    BY <1>4, <1>7, <1>8 DEF HoldsRow, Works
  <2>. QED
    BY <1>8, <2>1, <2>2, <2>3 DEF Sound
<1>11. CountsTyped'
  BY <1>1, SameCounts
<1>. QED
  BY <1>1, <1>9, <1>10, <1>11, ReadTyped

LEMMA ReadCurrentRowTyped ==
  ASSUME Typed, NEW s \in Sessions, ReadCurrentRow(s)
  PROVE  Typed' /\ TrialKept
<1>1. /\ sess[s].at = "row" /\ UNCHANGED vars
      /\ UNCHANGED <<usage, stale, applied, collisions, reqs, started>>
  BY DEF ReadCurrentRow, At, vars
<1>2. PICK y \in Session : y = sess[s]
  BY TypedFacts
<1>3. /\ Refers(y, subs, reqs) /\ Reviews(y, company) /\ HoldsRow(y, subs)
      /\ Works(y, subs) /\ TypeInv
  BY <1>2, TypedFacts
<1>4. /\ y.req # 0 /\ y.rq \in RequestRow /\ company[y.rq.company] # None
      /\ y.rq.status = "PENDING_APPROVAL" /\ y.rq.company \in DOMAIN y.cos
  BY <1>1, <1>2, <1>3 DEF Reviews, ReviewPlaces
<1>5. CountsTyped'
  BY <1>1, SameCounts
<1>6. CASE End(s)
  <2>1. Become(s, NoSession) /\ Sound(NoSession, subs, reqs, company)
    BY <1>6, EndedIsSound DEF End
  <2>. QED
    BY <1>1, <1>5, <2>1, ReadTyped
<1>7. CASE Go(s, "insert")
  <2> DEFINE x == [y EXCEPT !.at = "insert"]
  <2>1. /\ x \in Session /\ x.at = "insert" /\ x.req = y.req /\ x.rq = y.rq
        /\ x.rows = y.rows /\ x.row = y.row /\ x.cos = y.cos
    BY DEF Session, Places
  <2>2. Become(s, x)
    BY <1>2, <1>7 DEF Go
  <2> HIDE DEF x
  <2>3. Sound(x, subs, reqs, company)
    BY <1>3, <1>4, <2>1 DEF Sound, Refers, Reviews, HoldsRow, Works
  <2>. QED
    BY <1>1, <1>5, <2>2, <2>3, ReadTyped
<1>8. ASSUME NEW i \in DOMAIN subs, IsCurrent(i, Tenant(s)), NEW at \in {"schedule", "apply"},
             Become(s, [sess[s] EXCEPT !.at = at, !.row = i, !.rows = LoadRows({i})])
      PROVE  Typed' /\ TrialKept
  <2>1. /\ LoadRows({i}) \in RowMaps /\ DOMAIN LoadRows({i}) = {i}
        /\ LoadRows({i})[i] = subs[i]
    BY <1>3, LoadedRows
  <2>2. subs[i].company = y.rq.company /\ subs[i].active /\ subs[i].status \in ACTIVE_STATUSES
    BY <1>2, <1>8 DEF IsCurrent, LiveRows, RowsOf, Live, Tenant
  <2>3. i \in Nat
    BY <1>3, LenProperties DEF TypeInv, TypeOK
  <2> DEFINE x == [y EXCEPT !.at = at, !.row = i, !.rows = LoadRows({i})]
  <2>4. /\ x \in Session /\ x.at = at /\ x.req = y.req /\ x.rq = y.rq
        /\ x.rows = LoadRows({i}) /\ x.row = i /\ x.cos = y.cos
    BY <2>1, <2>3 DEF Session, Places
  <2>5. Become(s, x)
    BY <1>2, <1>8
  <2> HIDE DEF x
  <2>6. Sound(x, subs, reqs, company)
    <3>1. Refers(x, subs, reqs)
      BY <1>3, <2>1, <2>4 DEF Refers
    <3>2. Reviews(x, company)
      BY <1>4, <2>4 DEF Reviews
    <3>3. HoldsRow(x, subs)
      BY <2>1, <2>2, <2>4 DEF HoldsRow
    <3>4. Works(x, subs)
      BY <1>4, <2>4 DEF Works
    <3>. QED
      BY <2>4, <3>1, <3>2, <3>3, <3>4 DEF Sound
  <2>. QED
    BY <1>1, <1>5, <2>5, <2>6, ReadTyped
<1>9. ReadCurrentRow(s) =>
        \/ End(s) \/ Go(s, "insert")
        \/ \E i \in DOMAIN subs, at \in {"schedule", "apply"} :
             /\ IsCurrent(i, Tenant(s))
             /\ Become(s, [sess[s] EXCEPT !.at = at, !.row = i, !.rows = LoadRows({i})])
  BY DEF ReadCurrentRow
<1>. QED
  BY <1>6, <1>7, <1>8, <1>9

LEMMA RefreshRowTyped ==
  ASSUME Typed, NEW s \in Sessions, RefreshRow(s)
  PROVE  Typed' /\ TrialKept
<1> DEFINE D == {Tenant(s)}
<1>1. /\ sess[s].at = "refresh" /\ UNCHANGED vars
      /\ Become(s, [sess[s] EXCEPT !.at = "mirror", !.cos = LoadCompanies(D)])
      /\ UNCHANGED <<usage, stale, applied, collisions, reqs, started>>
  BY DEF RefreshRow, At, vars
<1>2. PICK y \in Session : y = sess[s]
  BY TypedFacts
<1>3. /\ Refers(y, subs, reqs) /\ Reviews(y, company) /\ HoldsRow(y, subs)
      /\ Works(y, subs) /\ TypeInv
  BY <1>2, TypedFacts
<1>4. y.req # 0 /\ y.rq \in RequestRow /\ company[y.rq.company] # None
      /\ y.rq.status = "PENDING_APPROVAL"
  BY <1>1, <1>2, <1>3 DEF Reviews, ReviewPlaces
<1>5. D = {y.rq.company} /\ y.rq.company \in Companies
  BY <1>2, <1>4 DEF Tenant, RequestRow
<1>6. LoadCompanies(D) \in CompanyMaps /\ DOMAIN LoadCompanies(D) = D
  BY <1>3, <1>4, <1>5, LoadedCompanies
<1> DEFINE x == [y EXCEPT !.at = "mirror", !.cos = LoadCompanies(D)]
<1> HIDE DEF D
<1>8. /\ x \in Session /\ x.at = "mirror" /\ x.req = y.req /\ x.rq = y.rq
      /\ x.rows = y.rows /\ x.row = y.row /\ DOMAIN x.cos = D
  BY <1>6 DEF Session, Places
<1>9. Become(s, x)
  BY <1>1, <1>2
<1> HIDE DEF x
<1>10. Sound(x, subs, reqs, company)
  <2>1. Refers(x, subs, reqs)
    BY <1>3, <1>8 DEF Refers
  <2>2. Reviews(x, company)
    BY <1>4, <1>5, <1>8 DEF Reviews
  <2>3. HoldsRow(x, subs) /\ Works(x, subs)
    BY <1>1, <1>2, <1>3, <1>4, <1>8 DEF HoldsRow, Works
  <2>. QED
    BY <1>8, <2>1, <2>2, <2>3 DEF Sound
<1>11. CountsTyped'
  BY <1>1, SameCounts
<1>. QED
  BY <1>1, <1>9, <1>10, <1>11, ReadTyped

\* Past the usage row a session holds what it held before.
LEMMA UsagePassed ==
  ASSUME NEW y \in Session, Sound(y, subs, reqs, company),
         y.at \in {"usage", "newusage"},
         NEW at, at = "newusage" \/ at = IF y.req = 0 THEN "activate" ELSE "decide"
  PROVE  Sound([y EXCEPT !.at = at], subs, reqs, company)
<1> DEFINE x == [y EXCEPT !.at = at]
<1>1. at \in Places /\ (at = "activate" => y.req = 0) /\ (at = "decide" => y.req # 0)
      /\ at \in {"newusage", "activate", "decide"}
  BY DEF Places
<1>2. /\ x \in Session /\ x.at = at /\ x.req = y.req /\ x.rq = y.rq
      /\ x.rows = y.rows /\ x.row = y.row /\ x.cos = y.cos
  BY <1>1 DEF Session
<1>3. /\ Refers(y, subs, reqs) /\ Reviews(y, company) /\ HoldsRow(y, subs)
      /\ Works(y, subs)
  BY DEF Sound
<1> HIDE DEF x
<1>4. Refers(x, subs, reqs)
  BY <1>2, <1>3 DEF Refers
<1>5. Reviews(x, company)
  BY <1>1, <1>2, <1>3 DEF Reviews, ReviewPlaces
<1>6. HoldsRow(x, subs)
  BY <1>1, <1>2, <1>3 DEF HoldsRow
<1>7. Works(x, subs)
  BY <1>1, <1>2, <1>3 DEF Works
<1>8. Sound(x, subs, reqs, company)
  BY <1>2, <1>4, <1>5, <1>6, <1>7 DEF Sound
<1>. QED
  BY <1>8 DEF x

LEMMA ReadUsageTyped ==
  ASSUME Typed, NEW s \in Sessions, ReadUsage(s)
  PROVE  Typed' /\ TrialKept
<1> DEFINE at == IF Owner(s) \in usage THEN AfterUsage(s) ELSE "newusage"
<1>1. /\ sess[s].at = "usage" /\ UNCHANGED vars /\ Go(s, at)
      /\ UNCHANGED <<usage, stale, applied, collisions, reqs, started>>
  BY DEF ReadUsage, At, vars
<1>2. PICK y \in Session : y = sess[s] /\ Sound(y, subs, reqs, company)
  BY TypedFacts
<1>3. at = "newusage" \/ at = IF y.req = 0 THEN "activate" ELSE "decide"
  BY <1>2 DEF AfterUsage
<1> HIDE DEF at
<1>4. Become(s, [y EXCEPT !.at = at])
  BY <1>1, <1>2 DEF Go
<1>5. Sound([y EXCEPT !.at = at], subs, reqs, company)
  BY <1>1, <1>2, <1>3, UsagePassed
<1>6. CountsTyped'
  BY <1>1, SameCounts
<1>. QED
  BY <1>1, <1>4, <1>5, <1>6, ReadTyped

LEMMA InsertUsageTyped ==
  ASSUME Typed, NEW s \in Sessions, InsertUsage(s)
  PROVE  Typed' /\ TrialKept
<1>1. /\ sess[s].at = "newusage" /\ UNCHANGED vars
      /\ UNCHANGED <<stale, applied, started, reqs>>
  BY DEF InsertUsage, At, vars
<1>2. PICK y \in Session : y = sess[s] /\ Sound(y, subs, reqs, company)
  BY TypedFacts
<1>3. Owner(s) \in Companies
  <2>1. y.row \in DOMAIN subs /\ TypeInv
    BY <1>1, <1>2, TypedFacts DEF Sound, HoldsRow, Refers
  <2>. QED
    BY <1>2, <2>1, TypeFacts DEF Owner
<1>4. CASE usage' = usage \cup {Owner(s)} /\ Go(s, AfterUsage(s)) /\ UNCHANGED collisions
  <2> DEFINE at == AfterUsage(s)
  <2>1. at = IF y.req = 0 THEN "activate" ELSE "decide"
    BY <1>2 DEF AfterUsage
  <2>2. Become(s, [y EXCEPT !.at = at])
    BY <1>2, <1>4 DEF Go
  <2> HIDE DEF at
  <2>3. Sound([y EXCEPT !.at = at], subs, reqs, company)
    BY <1>1, <1>2, <2>1, UsagePassed
  <2>4. CountsTyped'
    BY <1>1, <1>3, <1>4 DEF Typed, CountsTyped
  <2>. QED
    BY <1>1, <2>2, <2>3, <2>4, ReadTyped
<1>5. CASE collisions' = collisions + 1 /\ End(s) /\ UNCHANGED usage
  <2>1. Become(s, NoSession) /\ Sound(NoSession, subs, reqs, company)
    BY <1>5, EndedIsSound DEF End
  <2>2. CountsTyped'
    BY <1>1, <1>5 DEF Typed, CountsTyped
  <2>. QED
    BY <1>1, <2>1, <2>2, ReadTyped
<1>. QED
  BY <1>4, <1>5 DEF InsertUsage

\* A job has loaded rows and their companies.
LEMMA JobLoaded ==
  ASSUME TypeInv, NEW R \in SUBSET DOMAIN subs, NEW at \in {"check", "move"},
         at = "move" => \A i \in R : subs[i].status = "SCHEDULED_CHANGE"
                                     /\ subs[i].schedPlan \in Plans
  PROVE  Sound([NoSession EXCEPT !.at = at, !.rows = LoadRows(R),
                  !.cos = LoadCompanies({subs[i].company : i \in R})],
               subs, reqs, company)
<1> DEFINE D == {subs[i].company : i \in R}
<1>1. D \in SUBSET Companies /\ \A c \in D : company[c] # None
  <2>1. \A i \in R : subs[i].company \in Companies /\ company[subs[i].company] # None
    BY TypeFacts DEF TypeInv, OwnersRegistered, Registered
  <2>. QED
    BY <2>1
<1>2. \A i \in R : subs[i].company \in D
  OBVIOUS
<1> HIDE DEF D
<1>3. /\ LoadRows(R) \in RowMaps /\ DOMAIN LoadRows(R) = R
      /\ \A i \in R : LoadRows(R)[i] = subs[i]
  BY LoadedRows
<1>4. LoadCompanies(D) \in CompanyMaps /\ DOMAIN LoadCompanies(D) = D
  BY <1>1, LoadedCompanies
<1>5. PICK y \in Session : y = NoSession
  BY EndedIsSound DEF Sound
<1>6. y.req = 0 /\ y.row = 0
  BY <1>5 DEF NoSession
<1> DEFINE x == [y EXCEPT !.at = at, !.rows = LoadRows(R), !.cos = LoadCompanies(D)]
<1>7. /\ x \in Session /\ x.at = at /\ x.req = y.req /\ x.rq = y.rq
      /\ x.rows = LoadRows(R) /\ x.row = y.row /\ x.cos = LoadCompanies(D)
  BY <1>3, <1>4 DEF Session, Places
<1> HIDE DEF x
<1>8. Refers(x, subs, reqs)
  BY <1>3, <1>6, <1>7 DEF Refers
<1>9. Reviews(x, company) /\ HoldsRow(x, subs)
  BY <1>6, <1>7 DEF Reviews, ReviewPlaces, HoldsRow
<1>10. Works(x, subs)
  BY <1>2, <1>3, <1>4, <1>6, <1>7 DEF Works
<1>11. Sound(x, subs, reqs, company)
  BY <1>7, <1>8, <1>9, <1>10 DEF Sound
<1>. QED
  BY <1>5, <1>11 DEF x, D

LEMMA StartJobTyped ==
  ASSUME Typed, NEW s \in Sessions,
         StartMove(s) \/ \E cut \in {now, now + 1} : StartCheck(s, cut)
  PROVE  Typed' /\ TrialKept
<1>1. /\ UNCHANGED vars
      /\ UNCHANGED <<usage, stale, applied, collisions, reqs>> /\ started' = started + 1
  BY DEF StartMove, StartCheck, Begin, vars
<1>2. TypeInv
  BY DEF Typed
<1>3. PICK R \in SUBSET DOMAIN subs, at \in {"check", "move"} :
        /\ Become(s, [NoSession EXCEPT !.at = at, !.rows = LoadRows(R),
                        !.cos = LoadCompanies({subs[i].company : i \in R})])
        /\ at = "move" => R = MovableRows
  <2>1. CASE StartMove(s)
    BY <2>1 DEF StartMove, MovableRows, DueRows
  <2>2. CASE \E cut \in {now, now + 1} : StartCheck(s, cut)
    BY <2>2 DEF StartCheck, ExpiredBy
  <2>. QED
    BY <2>1, <2>2
<1>4. \A i \in MovableRows : subs[i].status = "SCHEDULED_CHANGE" /\ subs[i].schedPlan \in Plans
  BY <1>2, TypeFacts DEF MovableRows, DueRows
<1>5. Sound([NoSession EXCEPT !.at = at, !.rows = LoadRows(R),
               !.cos = LoadCompanies({subs[i].company : i \in R})], subs, reqs, company)
  BY <1>2, <1>3, <1>4, JobLoaded
<1>6. CountsTyped'
  BY <1>1, SameCounts
<1>. QED
  BY <1>1, <1>3, <1>5, <1>6, ReadTyped

\* What a session holds after a commit.
LEMMA StoredSession ==
  ASSUME NEW s, sess[s] \in Session, NEW i \in DOMAIN sess[s].rows,
         subs[i].company \in DOMAIN sess[s].cos,
         NEW row \in SubscriptionRow, NEW co \in CompanyRow
  PROVE  /\ Stored(s, i, row, co) \in Session
         /\ Stored(s, i, row, co).at = sess[s].at
         /\ Stored(s, i, row, co).req = sess[s].req
         /\ Stored(s, i, row, co).rq = sess[s].rq
         /\ Stored(s, i, row, co).row = sess[s].row
         /\ DOMAIN Stored(s, i, row, co).rows = DOMAIN sess[s].rows
         /\ DOMAIN Stored(s, i, row, co).cos = DOMAIN sess[s].cos
         /\ \A j \in DOMAIN sess[s].rows :
              Stored(s, i, row, co).rows[j] = IF j = i THEN row ELSE sess[s].rows[j]
<1>1. PICK y \in Session : y = sess[s]
  OBVIOUS
<1>2. y.rows \in RowMaps /\ y.cos \in CompanyMaps
  BY DEF Session
<1> DEFINE c == subs[i].company
           f == [y.rows EXCEPT ![i] = row]
           g == [y.cos EXCEPT ![c] = co]
           z == [y EXCEPT !.rows = f, !.cos = g]
<1>3. /\ f \in RowMaps /\ DOMAIN f = DOMAIN y.rows
      /\ \A j \in DOMAIN y.rows : f[j] = IF j = i THEN row ELSE y.rows[j]
  BY <1>1, <1>2, HeldRows
<1>4. g \in CompanyMaps /\ DOMAIN g = DOMAIN y.cos
  BY <1>1, <1>2, HeldCompanies
<1>5. Stored(s, i, row, co) = z
  BY <1>1 DEF Session, Stored
<1> HIDE DEF f, g
<1>6. /\ z \in Session /\ z.at = y.at /\ z.req = y.req /\ z.rq = y.rq
      /\ z.row = y.row /\ z.rows = f /\ z.cos = g
  BY <1>3, <1>4 DEF Session
<1> HIDE DEF z
<1>. QED
  BY <1>1, <1>3, <1>4, <1>5, <1>6

\* A job goes on with the rest of its rows, or ends.
LEMMA GoneOn ==
  ASSUME NEW z \in Session, NEW i, z.req = 0, z.at \in {"check", "move"},
         DOMAIN z.rows \subseteq DOMAIN subs',
         \A j \in DOMAIN z.rows : subs'[j].company \in DOMAIN z.cos,
         z.at = "move" => \A j \in DOMAIN z.rows : j # i =>
           z.rows[j].status = "SCHEDULED_CHANGE" /\ z.rows[j].schedPlan \in Plans,
         NEW s, GoOn(s, z, i)
  PROVE  \E x : Become(s, x) /\ Sound(x, subs', reqs', company')
<1> DEFINE R == DOMAIN z.rows \ {i}
           f == [j \in R |-> z.rows[j]]
           x == [z EXCEPT !.rows = f, !.row = 0]
<1>1. CASE DOMAIN z.rows = {i}
  <2>1. Become(s, NoSession)
    BY <1>1 DEF GoOn
  <2>. QED
    BY <2>1, EndedIsSound
<1>2. CASE DOMAIN z.rows # {i}
  <2>1. f \in RowMaps /\ DOMAIN f = R /\ \A j \in R : f[j] = z.rows[j]
    <3>1. z.rows \in RowMaps
      BY DEF Session
    <3>2. DOMAIN z.rows \subseteq Nat /\ \A j \in DOMAIN z.rows : z.rows[j] \in SubscriptionRow
      BY <3>1, RowMap
    <3>3. DOMAIN f = R /\ f = [j \in DOMAIN f |-> f[j]] /\ \A j \in R : f[j] = z.rows[j]
      OBVIOUS
    <3> HIDE DEF f
    <3>. QED
      BY <3>2, <3>3, IsRowMap
  <2>2. Become(s, x)
    <3>1. [[z EXCEPT !.rows = f] EXCEPT !.row = 0] = x
      BY DEF Session
    <3>. QED
      BY <1>2, <3>1 DEF GoOn, Rest
  <2> HIDE DEF f
  <2>3. /\ x \in Session /\ x.at = z.at /\ x.req = 0 /\ x.rq = z.rq
        /\ x.rows = f /\ x.row = 0 /\ x.cos = z.cos
    BY <2>1 DEF Session
  <2> HIDE DEF x
  <2>4. Refers(x, subs', reqs')
    BY <2>1, <2>3 DEF Refers
  <2>5. Reviews(x, company') /\ HoldsRow(x, subs')
    BY <2>3 DEF Reviews, ReviewPlaces, HoldsRow
  <2>6. Works(x, subs')
    BY <2>1, <2>3 DEF Works
  <2>. QED
    BY <2>2, <2>3, <2>4, <2>5, <2>6 DEF Sound
<1>. QED
  BY <1>1, <1>2

LEMMA CountTyped ==
  ASSUME CountsTyped, TypeInv, NEW r \in DOMAIN reqs, Count(r)
  PROVE  /\ applied' \in Seq(Nat) /\ Len(applied') = Len(reqs)
         /\ \A q \in DOMAIN reqs : applied'[q] = applied[q] + (IF q = r THEN 1 ELSE 0)
<1>1. /\ applied \in Seq(Nat) /\ Len(applied) = Len(reqs) /\ reqs \in Seq(RequestRow)
  BY DEF CountsTyped, TypeInv, TypeOK
<1>2. DOMAIN applied = DOMAIN reqs
  BY <1>1, LenProperties
<1>3. \A q \in DOMAIN reqs : applied[q] \in Nat
  BY <1>1, <1>2, LenProperties, ElementOfSeq
<1> DEFINE n == applied[r] + 1
<1>4. n \in Nat
  BY <1>3
<1>5. applied' = [applied EXCEPT ![r] = n]
  BY DEF Count
<1> HIDE DEF n
<1>6. /\ applied' \in Seq(Nat) /\ DOMAIN applied' = DOMAIN applied
      /\ \A q \in DOMAIN applied : applied'[q] = IF q = r THEN n ELSE applied[q]
  BY <1>1, <1>2, <1>4, <1>5, ReplacedRow
<1>7. Len(applied') = Len(applied)
  <2>1. DOMAIN applied = 1..Len(applied) /\ Len(applied) \in Nat
    BY <1>1, LenProperties
  <2>2. DOMAIN applied' = 1..Len(applied') /\ Len(applied') \in Nat
    BY <1>6, LenProperties
  <2>. QED
    BY <1>6, <2>1, <2>2
<1>. QED
  BY <1>1, <1>2, <1>3, <1>6, <1>7 DEF n

LEMMA RejectTyped ==
  ASSUME Typed, NEW s \in Sessions, RejectRequest(s) \/ MarkApproved(s)
  PROVE  Typed' /\ TrialKept
<1>1. /\ sess[s].at \in {"reject", "decide"} /\ End(s) /\ Quiet
      /\ UNCHANGED <<company, subs, usage, started, applied, collisions>>
      /\ stale' \in BOOLEAN
  BY DEF RejectRequest, MarkApproved, At
<1>2. PICK status \in RequestStatus : DecideAs(s, status)
  BY DEF RejectRequest, MarkApproved, RequestStatus
<1>3. TypeInv /\ batch = None /\ CountsTyped
  BY TypedFacts
<1>4. sess[s].req \in DOMAIN reqs
  BY <1>1, TypedFacts DEF Refers, Reviews, ReviewPlaces
<1>5. /\ reqs' \in Seq(RequestRow)
      /\ DOMAIN reqs' = DOMAIN reqs /\ Len(reqs') = Len(reqs)
      /\ \A q \in DOMAIN reqs : reqs'[q].company = reqs[q].company
  BY <1>2, <1>3, <1>4, SessionDecides
<1>6. OwnersRegistered'
  BY <1>1, <1>3, <1>5 DEF TypeInv, OwnersRegistered, Registered
<1>7. TypeInv'
  <2>1. subs' \in Seq(SubscriptionRow) /\ company' \in [Companies -> CompanyRow \cup {None}]
    BY <1>1, <1>3 DEF TypeInv, TypeOK
  <2>. QED
    BY <1>1, <1>3, <1>5, <1>6, <2>1, RestTyped
<1>8. Grows /\ TrialKept
  BY <1>1, <1>5 DEF Grows, TrialKept
<1>9. CountsTyped'
  BY <1>1, <1>3, <1>5 DEF CountsTyped
<1>10. Become(s, NoSession) /\ UNCHANGED <<batch, checkedTo>>
  BY <1>1 DEF End, Quiet
<1>. QED
  BY <1>7, <1>8, <1>9, <1>10, EndedIsSound, StepTyped

LEMMA InsertRowTyped ==
  ASSUME Typed, NEW s \in Sessions, InsertRow(s)
  PROVE  Typed' /\ TrialKept
<1> DEFINE i == Len(subs) + 1
           c == Tenant(s)
           row == NewRow(c, Wanted(s))
<1>1. /\ sess[s].at = "insert" /\ subs' = Append(subs, row) /\ Quiet
      /\ Become(s, [sess[s] EXCEPT !.at = "refresh", !.row = i, !.rows = [j \in {i} |-> row]])
      /\ UNCHANGED <<company, reqs, usage, started, applied, collisions>>
      /\ stale' \in BOOLEAN
  BY DEF InsertRow, At
<1>2. PICK y \in Session : y = sess[s]
  BY TypedFacts
<1>3. /\ Refers(y, subs, reqs) /\ Reviews(y, company) /\ TypeInv /\ batch = None
      /\ CountsTyped /\ now \in Nat
  BY <1>2, TypedFacts, TypeFacts
<1>4. /\ y.req # 0 /\ y.rq \in RequestRow /\ company[y.rq.company] # None
      /\ y.rq.status = "PENDING_APPROVAL" /\ y.rq.company \in DOMAIN y.cos
  BY <1>1, <1>2, <1>3 DEF Reviews, ReviewPlaces
<1>5. c = y.rq.company /\ c \in Companies /\ y.rq.plan \in Plans /\ Wanted(s) = y.rq.plan
  BY <1>2, <1>4 DEF Tenant, Wanted, RequestRow
<1>6. /\ row \in SubscriptionRow /\ row.company = c /\ row.plan = y.rq.plan
      /\ row.status = StatusFor(y.rq.plan) /\ row.active
  BY <1>3, <1>5, NewRowType DEF NewRow
<1>7. subs \in Seq(SubscriptionRow) /\ company \in [Companies -> CompanyRow \cup {None}]
      /\ reqs \in Seq(RequestRow)
  BY <1>3 DEF TypeInv, TypeOK
<1> HIDE DEF row, c
<1>8. /\ DOMAIN subs' = DOMAIN subs \cup {i}
      /\ \A j \in DOMAIN subs : subs'[j] = subs[j]
      /\ subs'[i] = row
  BY <1>1, <1>6, <1>7, InsertedRow
<1>9. i \in Nat
  BY <1>7, LenProperties
<1>10. OwnersRegistered' /\ subs' \in Seq(SubscriptionRow)
  <2>1. /\ company' \in [Companies -> CompanyRow \cup {None}]
        /\ \A d \in Companies : company[d] # None => company'[d] # None
        /\ company'[c] # None /\ reqs' = reqs /\ UNCHANGED batch
    BY <1>1, <1>4, <1>5, <1>7 DEF Quiet
  <2>. QED
    BY <1>1, <1>3, <1>5, <1>6, <2>1, InsertStep
<1>11. TypeInv'
  <2>1. reqs' \in Seq(RequestRow) /\ company' \in [Companies -> CompanyRow \cup {None}]
    BY <1>1, <1>7
  <2>. QED
    BY <1>1, <1>3, <1>10, <2>1, RestTyped
<1>12. Grows /\ TrialKept
  BY <1>1, <1>8 DEF Grows, TrialKept
<1> HIDE DEF i
<1> DEFINE f == [j \in {i} |-> row]
           x == [y EXCEPT !.at = "refresh", !.row = i, !.rows = f]
<1>13. f \in RowMaps /\ DOMAIN f = {i} /\ f[i] = row
  <2>1. DOMAIN f = {i} /\ f = [j \in DOMAIN f |-> f[j]] /\ f[i] = row
    OBVIOUS
  <2> HIDE DEF f
  <2>. QED
    BY <1>6, <1>9, <2>1, IsRowMap
<1>14. Become(s, x)
  BY <1>1, <1>2
<1> HIDE DEF f
<1>15. /\ x \in Session /\ x.at = "refresh" /\ x.req = y.req /\ x.rq = y.rq
       /\ x.rows = f /\ x.row = i /\ x.cos = y.cos
  BY <1>9, <1>13 DEF Session, Places
<1> HIDE DEF x
<1>16. Sound(x, subs', reqs', company')
  <2>1. Refers(x, subs', reqs')
    BY <1>1, <1>3, <1>8, <1>13, <1>15 DEF Refers
  <2>2. Reviews(x, company')
    BY <1>1, <1>4, <1>15 DEF Reviews
  <2>3. HoldsRow(x, subs')
    BY <1>5, <1>6, <1>8, <1>13, <1>15 DEF HoldsRow
  <2>4. Works(x, subs')
    BY <1>4, <1>15 DEF Works
  <2>. QED
    BY <1>15, <2>1, <2>2, <2>3, <2>4 DEF Sound
<1>17. CountsTyped' /\ UNCHANGED <<batch, checkedTo>>
  BY <1>1, <1>3 DEF CountsTyped, Quiet
<1>. QED
  BY <1>11, <1>12, <1>14, <1>16, <1>17, StepTyped

LEMMA MirrorPlanTyped ==
  ASSUME Typed, NEW s \in Sessions, MirrorPlan(s)
  PROVE  Typed' /\ TrialKept
<1> DEFINE c == Tenant(s)
           held == sess[s].rows[sess[s].row]
           co == [AppliedCompany(Loaded(s), Wanted(s)) EXCEPT !.end = held.end]
           new == Written(company[c], Loaded(s), co, {"end"})
<1>1. /\ sess[s].at = "mirror" /\ company' = [company EXCEPT ![c] = new] /\ Quiet
      /\ Become(s, [sess[s] EXCEPT !.at = "usage", !.cos[c] = co])
      /\ Count(sess[s].req)
      /\ UNCHANGED <<subs, reqs, usage, started, collisions>>
      /\ stale' \in BOOLEAN
  BY DEF MirrorPlan, At
<1>2. PICK y \in Session : y = sess[s]
  BY TypedFacts
<1>3. /\ Refers(y, subs, reqs) /\ Reviews(y, company) /\ HoldsRow(y, subs)
      /\ TypeInv /\ batch = None /\ CountsTyped /\ now \in Nat
  BY <1>2, TypedFacts, TypeFacts
<1>4. /\ y.req # 0 /\ y.rq \in RequestRow /\ company[y.rq.company] # None
      /\ y.rq.status = "PENDING_APPROVAL" /\ y.rq.company \in DOMAIN y.cos
      /\ y.row \in DOMAIN y.rows
  BY <1>1, <1>2, <1>3 DEF Reviews, ReviewPlaces, HoldsRow
<1>5. c = y.rq.company /\ c \in Companies /\ Wanted(s) = y.rq.plan /\ y.rq.plan \in Plans
  BY <1>2, <1>4 DEF Tenant, Wanted, RequestRow
<1>6. /\ y.rows \in RowMaps /\ y.cos \in CompanyMaps
      /\ held \in SubscriptionRow /\ Loaded(s) \in CompanyRow
  <2>1. y.rows \in RowMaps /\ y.cos \in CompanyMaps
    BY DEF Session
  <2>. QED
    BY <1>2, <1>4, <2>1, RowMap, CompanyMap DEF Loaded, Tenant
<1>7. co \in CompanyRow /\ co.trialUsed \in {Loaded(s).trialUsed, TRUE}
  <2>1. PICK a \in CompanyRow : a = AppliedCompany(Loaded(s), Wanted(s))
    BY <1>3, <1>5, <1>6, AppliedCompanyType
  <2>2. a.trialUsed \in {Loaded(s).trialUsed, TRUE}
    BY <1>6, <2>1 DEF AppliedCompany, CompanyRow
  <2>3. held.end \in Nat
    BY <1>6 DEF SubscriptionRow
  <2>. QED
    BY <2>1, <2>2, <2>3 DEF CompanyRow
<1>8. company[c] \in CompanyRow
  BY <1>3, <1>4, <1>5, TypeFacts
<1> HIDE DEF c, held, co
<1>9. new \in CompanyRow /\ (company[c].trialUsed => new.trialUsed)
  BY <1>6, <1>7, <1>8, WrittenCompany
<1> HIDE DEF new
<1>10. /\ company' \in [Companies -> CompanyRow \cup {None}]
       /\ \A d \in Companies : company[d] # None => company'[d] # None
  BY <1>1, <1>3, <1>5, <1>9, CompanyStep
<1>11. TypeInv'
  <2>1. subs' \in Seq(SubscriptionRow) /\ reqs' \in Seq(RequestRow)
    BY <1>1, <1>3 DEF TypeInv, TypeOK
  <2>2. OwnersRegistered'
    BY <1>1, <1>3, <1>10, TypeFacts DEF TypeInv, OwnersRegistered, Registered
  <2>. QED
    BY <1>1, <1>3, <1>10, <2>1, <2>2, RestTyped
<1>12. Grows
  BY <1>1, <1>10 DEF Grows
<1>13. TrialKept
  <2>1. company \in [Companies -> CompanyRow \cup {None}]
    BY <1>3 DEF TypeInv, TypeOK
  <2>. QED
    BY <1>1, <1>9, <2>1 DEF TrialKept
<1> DEFINE f == [y.cos EXCEPT ![c] = co]
           x == [y EXCEPT !.at = "usage", !.cos = f]
<1>14. f \in CompanyMaps /\ DOMAIN f = DOMAIN y.cos
  BY <1>4, <1>5, <1>6, <1>7, HeldCompanies
<1>15. Become(s, x)
  <2>1. x = [y EXCEPT !.at = "usage", !.cos[c] = co]
    BY DEF Session
  <2>. QED
    BY <1>1, <1>2, <2>1
<1> HIDE DEF f
<1>16. /\ x \in Session /\ x.at = "usage" /\ x.req = y.req /\ x.rq = y.rq
       /\ x.rows = y.rows /\ x.row = y.row /\ x.cos = f
  BY <1>14 DEF Session, Places
<1> HIDE DEF x
<1>17. Sound(x, subs', reqs', company')
  <2>1. Refers(x, subs', reqs')
    BY <1>1, <1>3, <1>16 DEF Refers
  <2>2. Reviews(x, company')
    BY <1>4, <1>5, <1>10, <1>16 DEF Reviews, ReviewPlaces
  <2>3. HoldsRow(x, subs') /\ Works(x, subs')
    BY <1>4, <1>16 DEF HoldsRow, Works
  <2>. QED
    BY <1>16, <2>1, <2>2, <2>3 DEF Sound
<1>18. CountsTyped' /\ UNCHANGED <<batch, checkedTo>>
  <2>1. sess[s].req \in DOMAIN reqs
    BY <1>2, <1>3, <1>4 DEF Refers
  <2>2. applied' \in Seq(Nat) /\ Len(applied') = Len(reqs)
    BY <1>1, <1>3, <2>1, CountTyped
  <2>. QED
    BY <1>1, <1>3, <2>2 DEF CountsTyped, Quiet
<1>. QED
  BY <1>11, <1>12, <1>13, <1>15, <1>17, <1>18, StepTyped

LEMMA ScheduleChangeTyped ==
  ASSUME Typed, NEW s \in Sessions, ScheduleChange(s)
  PROVE  Typed' /\ TrialKept
<1> DEFINE i == sess[s].row
           held == sess[s].rows[i]
           row == ScheduledRow(held, Wanted(s))
           co == ScheduledCompany(Loaded(s), held)
<1>1. /\ sess[s].at = "schedule" /\ Store(s, i, row, co, {}) /\ Quiet
      /\ DecideAs(s, "APPROVED") /\ End(s)
      /\ UNCHANGED <<usage, started, applied, collisions>>
  BY DEF ScheduleChange, At
<1>2. PICK y \in Session : y = sess[s]
  BY TypedFacts
<1>3. /\ Refers(y, subs, reqs) /\ Reviews(y, company) /\ HoldsRow(y, subs)
      /\ TypeInv /\ batch = None /\ CountsTyped
  BY <1>2, TypedFacts
<1>4. /\ y.req # 0 /\ y.rq \in RequestRow /\ y.rq.company \in DOMAIN y.cos
      /\ y.row \in DOMAIN y.rows /\ subs[y.row].company = y.rq.company
  BY <1>1, <1>2, <1>3 DEF Reviews, ReviewPlaces, HoldsRow
<1>5. /\ y.rows \in RowMaps /\ y.cos \in CompanyMaps /\ y.rq.plan \in Plans
      /\ held \in SubscriptionRow /\ Loaded(s) \in CompanyRow
      /\ Loaded(s) = y.cos[subs[i].company] /\ Wanted(s) = y.rq.plan
  <2>1. y.rows \in RowMaps /\ y.cos \in CompanyMaps
    BY DEF Session
  <2>. QED
    BY <1>2, <1>4, <2>1, RowMap, CompanyMap DEF Loaded, Tenant, Wanted, RequestRow
<1>6. row \in SubscriptionRow /\ row.company = held.company
  BY <1>5, ScheduledRowType
<1>7. co \in CompanyRow /\ co.trialUsed = Loaded(s).trialUsed
  BY <1>5, ScheduledCompanyType DEF ScheduledCompany, CompanyRow
<1>8. /\ reqs' \in Seq(RequestRow)
      /\ DOMAIN reqs' = DOMAIN reqs /\ Len(reqs') = Len(reqs)
      /\ \A q \in DOMAIN reqs : reqs'[q].company = reqs[q].company
  BY <1>1, <1>2, <1>3, <1>4, SessionDecides DEF Refers, RequestStatus
<1>9. /\ i \in DOMAIN sess[s].rows /\ subs[i].company \in DOMAIN sess[s].cos
      /\ row.company = sess[s].rows[i].company
      /\ co.trialUsed \in {sess[s].cos[subs[i].company].trialUsed, TRUE}
  BY <1>2, <1>4, <1>5, <1>6, <1>7
<1> HIDE DEF i, row, co
<1>10. TypeInv' /\ Grows /\ TrialKept
  BY <1>1, <1>6, <1>7, <1>8, <1>9, StoreTyped
<1>11. CountsTyped' /\ UNCHANGED <<batch, checkedTo>> /\ Become(s, NoSession)
  BY <1>1, <1>3, <1>8 DEF CountsTyped, Quiet, Store, End
<1>. QED
  BY <1>10, <1>11, EndedIsSound, StepTyped

LEMMA ApplyPlanTyped ==
  ASSUME Typed, NEW s \in Sessions, ApplyPlan(s)
  PROVE  Typed' /\ TrialKept
<1> DEFINE i == sess[s].row
           held == sess[s].rows[i]
           p == Wanted(s)
           row == AppliedRow(held, p)
           co == AppliedCompany(Loaded(s), p)
           c == subs[i].company
<1>1. /\ sess[s].at = "apply" /\ Store(s, i, row, co, {"end"}) /\ Quiet
      /\ Become(s, [Stored(s, i, row, co) EXCEPT !.at = "usage"])
      /\ Count(sess[s].req)
      /\ UNCHANGED <<reqs, usage, started, collisions>>
  BY DEF ApplyPlan, At
<1>2. PICK y \in Session : y = sess[s]
  BY TypedFacts
<1>3. /\ Refers(y, subs, reqs) /\ Reviews(y, company) /\ HoldsRow(y, subs)
      /\ TypeInv /\ batch = None /\ CountsTyped /\ now \in Nat
  BY <1>2, TypedFacts, TypeFacts
<1>4. /\ y.req # 0 /\ y.rq \in RequestRow /\ y.rq.company \in DOMAIN y.cos
      /\ y.row \in DOMAIN y.rows /\ subs[y.row].company = y.rq.company
      /\ y.rq.status = "PENDING_APPROVAL" /\ company[y.rq.company] # None
  BY <1>1, <1>2, <1>3 DEF Reviews, ReviewPlaces, HoldsRow
<1>5. /\ y.rows \in RowMaps /\ y.cos \in CompanyMaps /\ p \in Plans
      /\ held \in SubscriptionRow /\ Loaded(s) \in CompanyRow
      /\ Loaded(s) = y.cos[c] /\ c = y.rq.company
  <2>1. y.rows \in RowMaps /\ y.cos \in CompanyMaps
    BY DEF Session
  <2>. QED
    BY <1>2, <1>4, <2>1, RowMap, CompanyMap DEF Loaded, Tenant, Wanted, RequestRow
<1>6. row \in SubscriptionRow /\ row.company = held.company
  BY <1>3, <1>5, AppliedRowType
<1>7. co \in CompanyRow /\ co.trialUsed \in {Loaded(s).trialUsed, TRUE}
  BY <1>3, <1>5, AppliedCompanyType DEF AppliedCompany, CompanyRow
<1>8. /\ reqs' \in Seq(RequestRow) /\ DOMAIN reqs' = DOMAIN reqs
      /\ \A q \in DOMAIN reqs : reqs'[q].company = reqs[q].company
  BY <1>1, <1>3 DEF TypeInv, TypeOK
<1>9. /\ i \in DOMAIN sess[s].rows /\ subs[i].company \in DOMAIN sess[s].cos
      /\ row.company = sess[s].rows[i].company
      /\ co.trialUsed \in {sess[s].cos[subs[i].company].trialUsed, TRUE}
  BY <1>2, <1>4, <1>5, <1>6, <1>7
<1> HIDE DEF row, co
<1>11. TypeInv' /\ Grows /\ TrialKept
  <2> HIDE DEF i
  <2>. QED
    BY <1>1, <1>6, <1>7, <1>8, <1>9, StoreTyped
<1>12. CountsTyped' /\ UNCHANGED <<batch, checkedTo>>
  <2>1. sess[s].req \in DOMAIN reqs
    BY <1>2, <1>3, <1>4 DEF Refers
  <2>2. applied' \in Seq(Nat) /\ Len(applied') = Len(reqs)
    BY <1>1, <1>3, <2>1, CountTyped
  <2>. QED
    BY <1>1, <1>3, <2>2 DEF CountsTyped, Quiet, Store
<1>13. PICK z \in Session :
         /\ z = Stored(s, i, row, co)
         /\ z.req = y.req /\ z.rq = y.rq /\ z.row = y.row
         /\ DOMAIN z.rows = DOMAIN y.rows /\ DOMAIN z.cos = DOMAIN y.cos
  <2> HIDE DEF i
  <2>. QED
    BY <1>2, <1>6, <1>7, <1>9, StoredSession
<1> DEFINE x == [z EXCEPT !.at = "usage"]
<1>14. /\ x \in Session /\ x.at = "usage" /\ x.req = y.req /\ x.rq = y.rq
       /\ x.rows = z.rows /\ x.row = y.row /\ x.cos = z.cos
  BY <1>13 DEF Session, Places
<1>15. Become(s, x)
  BY <1>1, <1>13
<1> HIDE DEF x
<1>16. Sound(x, subs', reqs', company')
  <2>1. Refers(x, subs', reqs')
    BY <1>3, <1>11, <1>13, <1>14 DEF Refers, Grows
  <2>2. Reviews(x, company')
    <3>1. company'[y.rq.company] # None
      BY <1>4, <1>11 DEF Grows, RequestRow
    <3>. QED
      BY <1>4, <1>14, <3>1 DEF Reviews, ReviewPlaces
  <2>3. HoldsRow(x, subs') /\ Works(x, subs')
    BY <1>4, <1>13, <1>14 DEF HoldsRow, Works
  <2>. QED
    BY <1>14, <2>1, <2>2, <2>3 DEF Sound
<1>. QED
  BY <1>11, <1>12, <1>15, <1>16, StepTyped

LEMMA CheckRowTyped ==
  ASSUME Typed, NEW s \in Sessions, NEW i \in DOMAIN sess[s].rows, CheckRow(s, i)
  PROVE  Typed' /\ TrialKept
<1> DEFINE held == sess[s].rows[i]
           c == subs[i].company
           row == ExpiredRow(held)
           co == ExpiredCompany(sess[s].cos[c], held)
<1>1. /\ sess[s].at = "check" /\ Store(s, i, row, co, {}) /\ Quiet
      /\ GoOn(s, Stored(s, i, row, co), i)
      /\ UNCHANGED <<reqs, usage, started, applied, collisions>>
  BY DEF CheckRow, At
<1>2. PICK y \in Session : y = sess[s]
  BY TypedFacts
<1>3. /\ Refers(y, subs, reqs) /\ Works(y, subs)
      /\ TypeInv /\ batch = None /\ CountsTyped
  BY <1>2, TypedFacts
<1>4. y.req = 0 /\ \A j \in DOMAIN y.rows : subs[j].company \in DOMAIN y.cos
  BY <1>1, <1>2, <1>3 DEF Works
<1>5. held \in SubscriptionRow /\ y.cos[c] \in CompanyRow /\ c \in DOMAIN y.cos
  <2>1. y.rows \in RowMaps /\ y.cos \in CompanyMaps
    BY DEF Session
  <2>. QED
    BY <1>2, <1>4, <2>1, RowMap, CompanyMap
<1>6. row \in SubscriptionRow /\ row.company = held.company
  BY <1>5, ExpiredRowType
<1>7. co \in CompanyRow /\ co.trialUsed = sess[s].cos[c].trialUsed
  BY <1>2, <1>5, ExpiredCompanyType DEF ExpiredCompany, CompanyRow
<1>8. /\ reqs' \in Seq(RequestRow) /\ DOMAIN reqs' = DOMAIN reqs
      /\ \A q \in DOMAIN reqs : reqs'[q].company = reqs[q].company
  BY <1>1, <1>3 DEF TypeInv, TypeOK
<1> HIDE DEF row, co
<1>9. TypeInv' /\ Grows /\ TrialKept
  BY <1>1, <1>2, <1>5, <1>6, <1>7, <1>8, StoreTyped
<1>10. CountsTyped' /\ UNCHANGED <<batch, checkedTo>>
  BY <1>1, <1>3 DEF CountsTyped, Quiet, Store
<1>11. PICK z \in Session :
         /\ z = Stored(s, i, row, co) /\ z.at = "check" /\ z.req = 0
         /\ DOMAIN z.rows = DOMAIN y.rows /\ DOMAIN z.cos = DOMAIN y.cos
  BY <1>1, <1>2, <1>4, <1>5, <1>6, <1>7, StoredSession
<1>12. /\ DOMAIN z.rows \subseteq DOMAIN subs'
       /\ \A j \in DOMAIN z.rows : subs'[j].company \in DOMAIN z.cos
  BY <1>3, <1>4, <1>9, <1>11 DEF Refers, Grows
<1>13. \E x : Become(s, x) /\ Sound(x, subs', reqs', company')
  <2>1. GoOn(s, z, i)
    BY <1>1, <1>11
  <2>. QED
    BY <1>11, <1>12, <2>1, GoneOn
<1>. QED
  BY <1>9, <1>10, <1>13, StepTyped

LEMMA MoveRowTyped ==
  ASSUME Typed, NEW s \in Sessions, NEW i \in DOMAIN sess[s].rows, MoveRow(s, i)
  PROVE  Typed' /\ TrialKept
<1> DEFINE held == sess[s].rows[i]
           c == subs[i].company
           p == held.schedPlan
           row == AppliedRow(held, p)
           co == AppliedCompany(sess[s].cos[c], p)
<1>1. /\ sess[s].at = "move" /\ Quiet
      /\ UNCHANGED <<reqs, usage, started, applied, collisions>>
  BY DEF MoveRow, At
<1>2. PICK y \in Session : y = sess[s]
  BY TypedFacts
<1>3. /\ Refers(y, subs, reqs) /\ Works(y, subs)
      /\ TypeInv /\ batch = None /\ CountsTyped /\ now \in Nat
  BY <1>2, TypedFacts, TypeFacts
<1>4. /\ y.req = 0 /\ y.row = 0
      /\ \A j \in DOMAIN y.rows : subs[j].company \in DOMAIN y.cos
      /\ \A j \in DOMAIN y.rows : j # 0 =>
           y.rows[j].status = "SCHEDULED_CHANGE" /\ y.rows[j].schedPlan \in Plans
  BY <1>1, <1>2, <1>3 DEF Works
<1>5. held \in SubscriptionRow /\ y.cos[c] \in CompanyRow /\ c \in DOMAIN y.cos
  <2>1. y.rows \in RowMaps /\ y.cos \in CompanyMaps
    BY DEF Session
  <2>. QED
    BY <1>2, <1>4, <2>1, RowMap, CompanyMap
<1>6. i \in DOMAIN subs /\ i \in Nat \ {0} /\ 0 \notin DOMAIN y.rows
  <2>1. DOMAIN subs = 1..Len(subs) /\ Len(subs) \in Nat
    BY <1>3, LenProperties DEF TypeInv, TypeOK
  <2>. QED
    BY <1>2, <1>3, <2>1 DEF Refers
<1>7. p \in Plans
  BY <1>2, <1>4, <1>6
<1>8. row \in SubscriptionRow /\ row.company = held.company
      /\ row.active /\ row.status = StatusFor(row.plan)
  BY <1>3, <1>5, <1>7, AppliedRowType DEF AppliedRow, SubscriptionRow
<1>9. co \in CompanyRow /\ co.trialUsed \in {sess[s].cos[c].trialUsed, TRUE}
  BY <1>2, <1>3, <1>5, <1>7, AppliedCompanyType, ZenonT(60) DEF AppliedCompany, CompanyRow
<1>10. CASE End(s) /\ UNCHANGED <<company, subs, stale>>
  <2>1. Become(s, NoSession) /\ Sound(NoSession, subs, reqs, company)
    BY <1>10, EndedIsSound DEF End
  <2>2. UNCHANGED vars /\ CountsTyped'
    BY <1>1, <1>3, <1>10 DEF Quiet, vars, CountsTyped
  <2>. QED
    BY <2>1, <2>2, ReadTyped
<1>11. CASE /\ Store(s, i, row, co, {"end"})
            /\ Become(s, [Stored(s, i, row, co) EXCEPT !.at = "usage", !.row = i])
  <2>1. /\ reqs' \in Seq(RequestRow) /\ DOMAIN reqs' = DOMAIN reqs
        /\ \A q \in DOMAIN reqs : reqs'[q].company = reqs[q].company
    BY <1>1, <1>3 DEF TypeInv, TypeOK
  <2> HIDE DEF row, co, c
  <2>2. TypeInv' /\ Grows /\ TrialKept
    <3>1. c = subs[i].company /\ held = sess[s].rows[i]
      BY DEF c
    <3>2. Store(s, i, row, co, {"end"})
      BY <1>11
    <3>3. row.company = sess[s].rows[i].company
      BY <1>8
    <3>. QED
      BY <1>1, <1>2, <1>5, <1>8, <1>9, <2>1, <3>1, <3>2, <3>3, StoreTyped
  <2>3. CountsTyped' /\ UNCHANGED <<batch, checkedTo>>
    BY <1>1, <1>3, <1>11 DEF CountsTyped, Quiet, Store
  <2>4. PICK z \in Session :
          /\ z = Stored(s, i, row, co) /\ z.req = 0
          /\ DOMAIN z.rows = DOMAIN y.rows /\ DOMAIN z.cos = DOMAIN y.cos
          /\ \A j \in DOMAIN y.rows : z.rows[j] = IF j = i THEN row ELSE y.rows[j]
    BY <1>2, <1>4, <1>5, <1>8, <1>9, StoredSession DEF c
  <2> DEFINE x == [z EXCEPT !.at = "usage", !.row = i]
  <2>5. /\ x \in Session /\ x.at = "usage" /\ x.req = 0
        /\ x.rows = z.rows /\ x.row = i /\ x.cos = z.cos
    BY <1>6, <2>4, ZenonT(60) DEF Session, Places
  <2>6. Become(s, x)
    BY <1>11, <2>4
  <2> HIDE DEF x
  <2>7. Refers(x, subs', reqs')
    BY <1>3, <1>6, <2>2, <2>4, <2>5 DEF Refers, Grows
  <2>8. Reviews(x, company') /\ HoldsRow(x, subs')
    BY <1>2, <2>4, <2>5 DEF Reviews, ReviewPlaces, HoldsRow
  <2>9. Works(x, subs')
    <3>1. \A j \in DOMAIN x.rows : subs'[j].company \in DOMAIN x.cos
      BY <1>3, <1>4, <2>2, <2>4, <2>5 DEF Refers, Grows
    <3>2. \A j \in DOMAIN x.rows : j # x.row =>
            x.rows[j].status = "SCHEDULED_CHANGE" /\ x.rows[j].schedPlan \in Plans
      BY <1>4, <1>6, <2>4, <2>5
    <3>3. x.rows[x.row].active /\ x.rows[x.row].status = StatusFor(x.rows[x.row].plan)
      BY <1>2, <1>8, <2>4, <2>5
    <3>. QED
      BY <2>5, <3>1, <3>2, <3>3 DEF Works
  <2>. QED
    BY <2>2, <2>3, <2>5, <2>6, <2>7, <2>8, <2>9, StepTyped DEF Sound
<1>. QED
  BY <1>10, <1>11 DEF MoveRow

LEMMA ActivateTyped ==
  ASSUME Typed, NEW s \in Sessions, Activate(s)
  PROVE  Typed' /\ TrialKept
<1> DEFINE i == sess[s].row
           held == sess[s].rows[i]
           row == [held EXCEPT !.status = "ACTIVE"]
           new == Written(subs[i], held, row, {})
<1>1. /\ sess[s].at = "activate" /\ Quiet /\ subs' = [subs EXCEPT ![i] = new]
      /\ GoOn(s, [sess[s] EXCEPT !.at = "move"], i)
      /\ UNCHANGED <<company, reqs, usage, started, applied, collisions>>
      /\ stale' \in BOOLEAN
  BY DEF Activate, At
<1>2. PICK y \in Session : y = sess[s]
  BY TypedFacts
<1>3. /\ Refers(y, subs, reqs) /\ Works(y, subs) /\ HoldsRow(y, subs)
      /\ TypeInv /\ batch = None /\ CountsTyped
  BY <1>2, TypedFacts
<1>4. /\ y.req = 0 /\ i \in DOMAIN y.rows
      /\ \A j \in DOMAIN y.rows : subs[j].company \in DOMAIN y.cos
      /\ \A j \in DOMAIN y.rows : j # i =>
           y.rows[j].status = "SCHEDULED_CHANGE" /\ y.rows[j].schedPlan \in Plans
  BY <1>1, <1>2, <1>3 DEF Works, HoldsRow
<1>5. held \in SubscriptionRow /\ i \in DOMAIN subs /\ subs[i] \in SubscriptionRow
  <2>1. y.rows \in RowMaps
    BY DEF Session
  <2>. QED
    BY <1>2, <1>3, <1>4, <2>1, RowMap, TypeFacts DEF Refers
<1>6. row \in SubscriptionRow /\ row.company = held.company
  <2>1. PICK h \in SubscriptionRow : h = held
    BY <1>5
  <2>2. [h EXCEPT !.status = "ACTIVE"] \in SubscriptionRow
        /\ [h EXCEPT !.status = "ACTIVE"].company = h.company
    BY DEF SubscriptionRow, BillingStatus
  <2>. QED
    BY <2>1, <2>2
<1>7. new \in SubscriptionRow /\ new.company = subs[i].company
  <2>1. PICK db \in SubscriptionRow, h \in SubscriptionRow, r \in SubscriptionRow :
          db = subs[i] /\ h = held /\ r = row /\ r.company = h.company
    BY <1>5, <1>6
  <2>2. r.company = h.company
    BY <2>1
  <2>3. PICK sent \in {{}, {"end"}} : sent = {}
    OBVIOUS
  <2>4. Written(db, h, r, sent) \in SubscriptionRow /\ Written(db, h, r, sent).company = db.company
    BY <2>2, WrittenRow, ZenonT(60)
  <2>. QED
    BY <2>1, <2>3, <2>4
<1> HIDE DEF new
<1>8. subs \in Seq(SubscriptionRow) /\ company \in [Companies -> CompanyRow \cup {None}]
      /\ reqs \in Seq(RequestRow)
  BY <1>3 DEF TypeInv, TypeOK
<1>9. OwnersRegistered' /\ subs' \in Seq(SubscriptionRow)
  <2>1. /\ company' \in [Companies -> CompanyRow \cup {None}] /\ UNCHANGED batch
        /\ \A d \in Companies : company[d] # None => company'[d] # None
        /\ reqs' \in Seq(RequestRow) /\ DOMAIN reqs' = DOMAIN reqs
        /\ \A r \in DOMAIN reqs : reqs'[r].company = reqs[r].company
    BY <1>1, <1>8 DEF Quiet
  <2> HIDE DEF i
  <2>. QED
    BY <1>1, <1>3, <1>5, <1>7, <2>1, ReplaceStep
<1>10. TypeInv'
  <2>1. reqs' \in Seq(RequestRow) /\ company' \in [Companies -> CompanyRow \cup {None}]
    BY <1>1, <1>8
  <2>. QED
    BY <1>1, <1>3, <1>9, <2>1, RestTyped
<1>11. Grows /\ TrialKept
  BY <1>1, <1>5, <1>7, <1>8, ReplacedRow DEF Grows, TrialKept
<1>12. CountsTyped' /\ UNCHANGED <<batch, checkedTo>>
  BY <1>1, <1>3 DEF CountsTyped, Quiet
<1> DEFINE z == [y EXCEPT !.at = "move"]
<1>13. /\ z \in Session /\ z.at = "move" /\ z.req = 0 /\ z.rows = y.rows /\ z.cos = y.cos
  BY <1>4 DEF Session, Places
<1>14. GoOn(s, z, i)
  BY <1>1, <1>2
<1> HIDE DEF z, i
<1>15. /\ DOMAIN z.rows \subseteq DOMAIN subs'
       /\ \A j \in DOMAIN z.rows : subs'[j].company \in DOMAIN z.cos
  BY <1>3, <1>4, <1>11, <1>13 DEF Refers, Grows
<1>16. \E x : Become(s, x) /\ Sound(x, subs', reqs', company')
  BY <1>4, <1>13, <1>14, <1>15, GoneOn
<1>. QED
  BY <1>10, <1>11, <1>12, <1>16, StepTyped

\* Registrations, requests and the clock.
LEMMA OutsideTyped ==
  ASSUME Typed,
         \/ \E c \in Companies, p \in Plans : Register(c, p) /\ UNCHANGED sessVars
         \/ \E c \in Companies, t \in RequestTypes, p \in Plans, i \in BOOLEAN :
              Ask(c, t, p, i)
         \/ Tick /\ UNCHANGED sessVars
  PROVE  Typed' /\ TrialKept
<1>1. TypeInv /\ SessionsSound /\ CountsTyped /\ batch = None /\ checkedTo = 0
  BY DEF Typed
<1>2. /\ subs \in Seq(SubscriptionRow) /\ company \in [Companies -> CompanyRow \cup {None}]
      /\ reqs \in Seq(RequestRow)
  BY <1>1 DEF TypeInv, TypeOK
<1>3. ASSUME TypeInv', Grows, CountsTyped', UNCHANGED <<batch, checkedTo, sess>>
      PROVE  Typed'
  BY <1>1, <1>3, SessionsStay DEF Typed
<1>4. ASSUME NEW c \in Companies, NEW p \in Plans, Register(c, p), UNCHANGED sessVars
      PROVE  Typed' /\ TrialKept
  <2>1. TypeInv'
    BY <1>1, <1>4, TypeRegistration
  <2>2. company[c] = None /\ subs' = Append(subs, NewRow(c, p))
        /\ company' = [company EXCEPT ![c] = AppliedCompany(PendingCompany(p), p)]
        /\ UNCHANGED <<reqs, batch, checkedTo>>
    BY <1>4 DEF Register, Registered
  <2>3. NewRow(c, p) \in SubscriptionRow
    BY <1>1, TypeFacts, NewRowType
  <2>4. \A i \in DOMAIN subs : i \in DOMAIN subs' /\ subs'[i] = subs[i]
    BY <1>2, <2>2, <2>3, InsertedRow
  <2>5. Grows /\ TrialKept
    BY <1>2, <2>2, <2>4 DEF Grows, TrialKept, Registered
  <2>6. CountsTyped'
    BY <1>1, <1>4, <2>2 DEF CountsTyped, sessVars
  <2>. QED
    BY <1>3, <1>4, <2>1, <2>2, <2>5, <2>6 DEF sessVars
<1>5. ASSUME NEW c \in Companies, NEW t \in RequestTypes, NEW p \in Plans,
             NEW i \in BOOLEAN, Ask(c, t, p, i)
      PROVE  Typed' /\ TrialKept
  <2>1. RequestChange(c, t, p, i) /\ applied' = Append(applied, 0)
        /\ UNCHANGED <<sess, usage, started, stale, collisions>>
    BY <1>5 DEF Ask
  <2>2. TypeInv'
    BY <1>1, <2>1, TypeRequest
  <2> DEFINE r == [company |-> c, type |-> t, plan |-> p, immediate |-> i,
                   status |-> "PENDING_APPROVAL"]
  <2>3. reqs' = Append(reqs, r) /\ UNCHANGED <<company, subs, batch, checkedTo>>
    BY <2>1 DEF RequestChange
  <2>4. r \in RequestRow
    BY DEF RequestRow, RequestStatus
  <2> HIDE DEF r
  <2>5. DOMAIN reqs \subseteq DOMAIN reqs' /\ Len(reqs') = Len(reqs) + 1
    BY <1>2, <2>3, <2>4, InsertedRow, AppendProperties
  <2>6. Grows /\ TrialKept
    BY <2>3, <2>5 DEF Grows, TrialKept
  <2>7. applied' \in Seq(Nat) /\ Len(applied') = Len(applied) + 1
    BY <1>1, <2>1, AppendProperties DEF CountsTyped
  <2>8. CountsTyped'
    BY <1>1, <2>1, <2>5, <2>7 DEF CountsTyped
  <2>. QED
    BY <1>3, <2>1, <2>2, <2>3, <2>6, <2>8
<1>6. ASSUME Tick, UNCHANGED sessVars PROVE Typed' /\ TrialKept
  <2>1. TypeInv'
    BY <1>1, <1>6, TypeTick
  <2>2. UNCHANGED <<company, subs, reqs, batch, checkedTo>>
    BY <1>6 DEF Tick
  <2>3. Grows /\ TrialKept
    BY <2>2 DEF Grows, TrialKept
  <2>4. CountsTyped'
    BY <1>1, <1>6, <2>2 DEF CountsTyped, sessVars
  <2>. QED
    BY <1>3, <1>6, <2>1, <2>2, <2>3, <2>4 DEF sessVars
<1>. QED
  BY <1>4, <1>5, <1>6

LEMMA TypedNext ==
  ASSUME Typed, [SessNext]_allVars
  PROVE  Typed' /\ TrialKept
<1>1. CASE UNCHANGED allVars
  <2>1. UNCHANGED vars /\ UNCHANGED sessVars
    BY <1>1 DEF allVars
  <2>2. TypeInv' /\ Grows /\ TrialKept
    BY <2>1, SameTablesTyped DEF Typed
  <2>3. SessionsSound'
    BY <2>1, <2>2, SessionsStay DEF Typed, sessVars
  <2>4. CountsTyped'
    BY <2>1 DEF Typed, CountsTyped, sessVars, vars
  <2>. QED
    BY <2>1, <2>2, <2>3, <2>4 DEF Typed, vars
<1>2. CASE SessNext
  BY <1>2, OutsideTyped, StartReviewTyped, ReadCompanyTyped, RejectTyped,
     ReadCurrentRowTyped, ScheduleChangeTyped, ApplyPlanTyped, InsertRowTyped,
     RefreshRowTyped, MirrorPlanTyped, ReadUsageTyped, InsertUsageTyped,
     StartJobTyped, CheckRowTyped, MoveRowTyped, ActivateTyped DEF SessNext
<1>. QED
  BY <1>1, <1>2

-----------------------------------------------------------------------------
(* Without a stale write the tables agree *)

\* A commit that is not stale: what it writes is what the session had loaded,
\* and what it leaves is what the session holds.
LEMMA FreshStore ==
  ASSUME Typed, NEW s \in Sessions, NEW i \in DOMAIN sess[s].rows,
         subs[i].company \in DOMAIN sess[s].cos,
         NEW row \in SubscriptionRow, NEW co \in CompanyRow, NEW sent,
         Store(s, i, row, co, sent), ~stale'
  PROVE  /\ ~stale /\ ~RequestMoved(s)
         /\ subs[i] = sess[s].rows[i] /\ company[subs[i].company] = sess[s].cos[subs[i].company]
         /\ subs' = [subs EXCEPT ![i] = row]
         /\ company' = [company EXCEPT ![subs[i].company] = co]
<1> DEFINE c == subs[i].company
<1>1. /\ ~stale /\ ~RequestMoved(s)
      /\ subs[i] = sess[s].rows[i] /\ company[c] = sess[s].cos[c]
      /\ subs' = [subs EXCEPT ![i] = Written(subs[i], sess[s].rows[i], row, sent)]
      /\ company' = [company EXCEPT ![c] = Written(company[c], sess[s].cos[c], co, sent)]
  BY DEF Store
<1>2. sess[s].rows[i] \in SubscriptionRow /\ sess[s].cos[c] \in CompanyRow
  <2>1. sess[s].rows \in RowMaps /\ sess[s].cos \in CompanyMaps
    BY TypedFacts DEF Session
  <2>. QED
    BY <2>1, RowMap, CompanyMap
<1>3. /\ Written(sess[s].rows[i], sess[s].rows[i], row, sent) = row
      /\ Written(sess[s].cos[c], sess[s].cos[c], co, sent) = co
  BY <1>2, WrittenFreshRow, WrittenFreshCompany
<1>. QED
  BY <1>1, <1>3

\* A live row replaced by one that stays active and backs its company.
LEMMA LiveRowStep ==
  ASSUME Typed, AccessInv, Quiet, NEW i \in DOMAIN subs, Live(i),
         NEW row \in SubscriptionRow, row.company = subs[i].company, row.active,
         NEW co \in CompanyRow,
         subs' = [subs EXCEPT ![i] = row],
         company' = [company EXCEPT ![subs[i].company] = co],
         row.status \in ACTIVE_STATUSES, row.plan = co.plan, SameStatus(co, row)
  PROVE  AccessInv'
<1>1. TypeInv /\ batch = None /\ checkedTo = 0
  BY DEF Typed
<1>2. subs \in Seq(SubscriptionRow) /\ company \in [Companies -> CompanyRow \cup {None}]
  BY <1>1 DEF TypeInv, TypeOK
<1>3. PICK c \in Companies : c = subs[i].company
  BY <1>1, TypeFacts
<1>4. /\ DOMAIN subs' = DOMAIN subs
      /\ \A j \in DOMAIN subs : subs'[j] = IF j = i THEN row ELSE subs[j]
  BY <1>2, ReplacedRow
<1>5. /\ company'[c] = co /\ \A d \in Companies : d # c => company'[d] = company[d]
  BY <1>2, <1>3
<1>6. \A t \in LiveRows(c) : t = i
  BY <1>3 DEF AccessInv, OneLiveRow, LiveRows, RowsOf
<1>7. OneLiveRow' /\ ChangingRows' /\ EndedRowsClosed' /\ WritableBacked'
  <2>1. OneLiveRow /\ ChangingRows /\ EndedRowsClosed /\ WritableBacked
    BY DEF AccessInv
  <2>2. \A t \in DOMAIN subs' : t # i => t \in DOMAIN subs /\ Kept(t)
    BY <1>4 DEF Kept
  <2>3. i \in DOMAIN subs' /\ subs'[i] = row /\ DOMAIN subs \subseteq DOMAIN subs'
    BY <1>4
  <2>4. row.end \in Nat /\ checkedTo' = checkedTo
    BY DEF SubscriptionRow, Quiet
  <2>5. subs'[i].active => subs'[i].end >= checkedTo
    BY <1>1, <2>3, <2>4
  <2>6. Writable(c)' => /\ Live(i)' /\ subs'[i].plan = company'[c].plan
                        /\ SameStatus(company'[c], subs'[i])
    BY <1>5, <2>3 DEF Live
  <2>7. subs[i].company = c /\ subs'[i].company = c
    BY <1>3, <2>3
  <2>8. subs'[i].status = "SCHEDULED_CHANGE" => subs'[i].active
    BY <2>3
  <2>. QED
    BY <1>1, <1>3, <1>5, <1>6, <2>1, <2>2, <2>3, <2>4, <2>5, <2>6, <2>7, <2>8,
       OneRowStep
<1>8. BatchWaits' /\ UnsavedApplied' /\ CheckedSoFar'
  BY <1>1, NoBatchStep DEF AccessInv, Quiet
<1>. QED
  BY <1>7, <1>8 DEF AccessInv

LEMMA ScheduleChangeAgrees ==
  ASSUME Typed, Agreed, NEW s \in Sessions, ScheduleChange(s), ~stale'
  PROVE  AccessInv'
<1> DEFINE i == sess[s].row
           held == sess[s].rows[i]
           row == ScheduledRow(held, Wanted(s))
           co == ScheduledCompany(Loaded(s), held)
<1>1. /\ sess[s].at = "schedule" /\ Store(s, i, row, co, {}) /\ Quiet
  BY DEF ScheduleChange, At
<1>2. PICK y \in Session : y = sess[s]
  BY TypedFacts
<1>3. /\ Refers(y, subs, reqs) /\ Reviews(y, company) /\ HoldsRow(y, subs)
  BY <1>2, TypedFacts
<1>4. /\ y.rq \in RequestRow /\ y.rq.company \in DOMAIN y.cos
      /\ y.row \in DOMAIN y.rows /\ subs[y.row].company = y.rq.company
      /\ y.rows[y.row].active /\ y.rows[y.row].status \in ACTIVE_STATUSES
      /\ y.row \in DOMAIN subs
  BY <1>1, <1>2, <1>3 DEF Refers, Reviews, ReviewPlaces, HoldsRow
<1>5. /\ held \in SubscriptionRow /\ Loaded(s) \in CompanyRow /\ Wanted(s) \in Plans
  <2>1. y.rows \in RowMaps /\ y.cos \in CompanyMaps
    BY DEF Session
  <2>. QED
    BY <1>2, <1>4, <2>1, RowMap, CompanyMap DEF Loaded, Tenant, Wanted, RequestRow
<1>6. row \in SubscriptionRow /\ row.company = held.company /\ co \in CompanyRow
  BY <1>5, ScheduledRowType, ScheduledCompanyType
<1>7. /\ row.status = "SCHEDULED_CHANGE" /\ row.active = held.active /\ row.plan = held.plan
      /\ co.status = "SCHEDULED_CHANGE" /\ co.plan = held.plan
  BY <1>5 DEF ScheduledRow, ScheduledCompany, SubscriptionRow, CompanyRow
<1>8. i \in DOMAIN sess[s].rows /\ subs[i].company \in DOMAIN sess[s].cos
  BY <1>2, <1>4
<1> HIDE DEF row, co
<1>9. /\ ~stale /\ subs[i] = held /\ subs' = [subs EXCEPT ![i] = row]
      /\ company' = [company EXCEPT ![subs[i].company] = co]
  <2> HIDE DEF i
  <2>. QED
    BY <1>1, <1>6, <1>8, FreshStore
<1>10. Live(i) /\ i \in DOMAIN subs
  BY <1>2, <1>4, <1>9 DEF Live
<1>11. row.status \in ACTIVE_STATUSES /\ row.plan = co.plan /\ SameStatus(co, row)
       /\ row.active /\ row.company = subs[i].company
  BY <1>2, <1>4, <1>6, <1>7, <1>9 DEF ACTIVE_STATUSES, SameStatus
<1> HIDE DEF i, held
<1>. QED
  BY <1>1, <1>6, <1>9, <1>10, <1>11, LiveRowStep DEF Agreed

LEMMA ApplyPlanAgrees ==
  ASSUME Typed, Agreed, NEW s \in Sessions, ApplyPlan(s), ~stale'
  PROVE  AccessInv'
<1> DEFINE i == sess[s].row
           held == sess[s].rows[i]
           row == AppliedRow(held, Wanted(s))
           co == AppliedCompany(Loaded(s), Wanted(s))
<1>1. /\ sess[s].at = "apply" /\ Store(s, i, row, co, {"end"}) /\ Quiet
  BY DEF ApplyPlan, At
<1>2. PICK y \in Session : y = sess[s]
  BY TypedFacts
<1>3. /\ Refers(y, subs, reqs) /\ Reviews(y, company) /\ HoldsRow(y, subs) /\ now \in Nat
  BY <1>2, TypedFacts, TypeFacts
<1>4. /\ y.rq \in RequestRow /\ y.rq.company \in DOMAIN y.cos
      /\ y.row \in DOMAIN y.rows /\ subs[y.row].company = y.rq.company
      /\ y.rows[y.row].active /\ y.rows[y.row].status \in ACTIVE_STATUSES
      /\ y.row \in DOMAIN subs
  BY <1>1, <1>2, <1>3 DEF Refers, Reviews, ReviewPlaces, HoldsRow
<1>5. /\ held \in SubscriptionRow /\ Loaded(s) \in CompanyRow /\ Wanted(s) \in Plans
  <2>1. y.rows \in RowMaps /\ y.cos \in CompanyMaps
    BY DEF Session
  <2>. QED
    BY <1>2, <1>4, <2>1, RowMap, CompanyMap DEF Loaded, Tenant, Wanted, RequestRow
<1>6. /\ row \in SubscriptionRow /\ row.company = held.company /\ co \in CompanyRow
  BY <1>3, <1>5, AppliedRowType, AppliedCompanyType
<1>7. /\ row.status \in ACTIVE_STATUSES /\ row.plan = co.plan /\ SameStatus(co, row)
      /\ row.active
  BY <1>5, PlanMirrored DEF SameStatus
<1>8. i \in DOMAIN sess[s].rows /\ subs[i].company \in DOMAIN sess[s].cos
  BY <1>2, <1>4
<1> HIDE DEF row, co
<1>9. /\ ~stale /\ subs[i] = held /\ subs' = [subs EXCEPT ![i] = row]
      /\ company' = [company EXCEPT ![subs[i].company] = co]
  <2> HIDE DEF i
  <2>. QED
    BY <1>1, <1>6, <1>8, FreshStore
<1>10. Live(i) /\ i \in DOMAIN subs /\ row.company = subs[i].company
  BY <1>2, <1>4, <1>6, <1>9 DEF Live
<1> HIDE DEF i, held
<1>. QED
  BY <1>1, <1>6, <1>7, <1>9, <1>10, LiveRowStep DEF Agreed

LEMMA MirrorPlanAgrees ==
  ASSUME Typed, Agreed, NEW s \in Sessions, MirrorPlan(s), ~stale'
  PROVE  AccessInv'
<1> DEFINE i == sess[s].row
           held == sess[s].rows[i]
           c == Tenant(s)
           co == [AppliedCompany(Loaded(s), Wanted(s)) EXCEPT !.end = held.end]
<1>1. /\ sess[s].at = "mirror" /\ Quiet /\ UNCHANGED subs
      /\ company' = [company EXCEPT ![c] = Written(company[c], Loaded(s), co, {"end"})]
      /\ ~stale /\ subs[i] = held /\ company[c] = Loaded(s)
  BY DEF MirrorPlan, At
<1>2. PICK y \in Session : y = sess[s]
  BY TypedFacts
<1>3. /\ Refers(y, subs, reqs) /\ Reviews(y, company) /\ HoldsRow(y, subs) /\ now \in Nat
      /\ TypeInv
  BY <1>2, TypedFacts, TypeFacts
<1>4. /\ y.rq \in RequestRow /\ y.rq.company \in DOMAIN y.cos
      /\ y.row \in DOMAIN y.rows /\ subs[y.row].company = y.rq.company
      /\ y.rows[y.row].active /\ y.rows[y.row].plan = y.rq.plan
      /\ y.rows[y.row].status = StatusFor(y.rq.plan)
      /\ y.row \in DOMAIN subs
  BY <1>1, <1>2, <1>3 DEF Refers, Reviews, ReviewPlaces, HoldsRow
<1>5. /\ held \in SubscriptionRow /\ Loaded(s) \in CompanyRow /\ Wanted(s) \in Plans
      /\ c = subs[i].company /\ Wanted(s) = y.rq.plan
  <2>1. y.rows \in RowMaps /\ y.cos \in CompanyMaps
    BY DEF Session
  <2>. QED
    BY <1>2, <1>4, <2>1, RowMap, CompanyMap DEF Loaded, Tenant, Wanted, RequestRow
<1>6. co \in CompanyRow /\ co.plan = Wanted(s) /\ co.status = StatusFor(Wanted(s))
  <2>1. PICK a \in CompanyRow : a = AppliedCompany(Loaded(s), Wanted(s))
    BY <1>3, <1>5, AppliedCompanyType
  <2>2. a.plan = Wanted(s) /\ a.status = StatusFor(Wanted(s))
    BY <1>5, <2>1, PlanMirrored
  <2>3. held.end \in Nat
    BY <1>5 DEF SubscriptionRow
  <2>. QED
    BY <2>1, <2>2, <2>3 DEF CompanyRow
<1> HIDE DEF co
<1>7. company' = [company EXCEPT ![c] = co]
  BY <1>1, <1>5, <1>6, WrittenFreshCompany, ZenonT(60)
<1>8. subs' = [subs EXCEPT ![i] = held]
  BY <1>1, <1>3 DEF TypeInv, TypeOK
<1>9. StatusFor(Wanted(s)) \in ACTIVE_STATUSES
  BY DEF StatusFor, ACTIVE_STATUSES
<1>10. /\ held.status = StatusFor(Wanted(s)) /\ held.active /\ held.plan = Wanted(s)
       /\ i \in DOMAIN subs /\ held.company = subs[i].company
  BY <1>1, <1>2, <1>4, <1>5
<1>11. Live(i) /\ SameStatus(co, held) /\ held.plan = co.plan
  BY <1>1, <1>6, <1>9, <1>10 DEF Live, SameStatus
<1>12. company' = [company EXCEPT ![subs[i].company] = co]
  BY <1>5, <1>7
<1> HIDE DEF i, held, c
<1>. QED
  BY <1>1, <1>5, <1>6, <1>8, <1>9, <1>10, <1>11, <1>12, LiveRowStep DEF Agreed

LEMMA MoveRowAgrees ==
  ASSUME Typed, Agreed, NEW s \in Sessions, NEW i \in DOMAIN sess[s].rows,
         MoveRow(s, i), ~stale'
  PROVE  AccessInv'
<1> DEFINE held == sess[s].rows[i]
           c == subs[i].company
           p == held.schedPlan
           row == AppliedRow(held, p)
           co == AppliedCompany(sess[s].cos[c], p)
<1>1. sess[s].at = "move" /\ Quiet
  BY DEF MoveRow, At
<1>2. PICK y \in Session : y = sess[s]
  BY TypedFacts
<1>3. /\ Refers(y, subs, reqs) /\ Works(y, subs) /\ TypeInv /\ batch = None /\ now \in Nat
  BY <1>2, TypedFacts, TypeFacts
<1>4. /\ c \in DOMAIN y.cos /\ i \in DOMAIN subs
      /\ held.status = "SCHEDULED_CHANGE" /\ p \in Plans
  <2>1. 0 \notin DOMAIN subs
    <3>1. DOMAIN subs = 1..Len(subs)
      BY <1>3, LenProperties DEF TypeInv, TypeOK
    <3>. QED
      BY <3>1
  <2>2. DOMAIN y.rows \subseteq DOMAIN subs
    BY <1>3 DEF Refers
  <2>. QED
    BY <1>1, <1>2, <1>3, <2>1, <2>2 DEF Works
<1>5. held \in SubscriptionRow /\ y.cos[c] \in CompanyRow
  <2>1. y.rows \in RowMaps /\ y.cos \in CompanyMaps
    BY DEF Session
  <2>. QED
    BY <1>2, <1>4, <2>1, RowMap, CompanyMap
<1>6. /\ row \in SubscriptionRow /\ row.company = held.company /\ co \in CompanyRow
  BY <1>2, <1>3, <1>4, <1>5, AppliedRowType, AppliedCompanyType
<1>7. /\ row.status \in ACTIVE_STATUSES /\ row.plan = co.plan /\ SameStatus(co, row)
      /\ row.active
  BY <1>2, <1>4, <1>5, PlanMirrored DEF SameStatus
<1>8. CASE UNCHANGED <<company, subs, stale>>
  <2>1. AccessInv
    BY <1>8 DEF Agreed
  <2>2. UNCHANGED checkedTo
    BY <1>1 DEF Quiet
  <2>3. OneLiveRow' /\ ChangingRows' /\ EndedRowsClosed' /\ WritableBacked'
    BY <1>8, <2>1, <2>2, SameTables
  <2>4. BatchWaits' /\ UnsavedApplied' /\ CheckedSoFar'
    BY <1>1, <1>3, <2>1, NoBatchStep DEF AccessInv, Quiet
  <2>. QED
    BY <2>3, <2>4 DEF AccessInv
<1>9. CASE Store(s, i, row, co, {"end"})
  <2> HIDE DEF row, co
  <2>1. /\ ~stale /\ subs[i] = held /\ subs' = [subs EXCEPT ![i] = row]
        /\ company' = [company EXCEPT ![subs[i].company] = co]
    BY <1>2, <1>4, <1>6, <1>9, FreshStore
  <2>2. ChangingRows /\ AccessInv
    BY <2>1 DEF Agreed, AccessInv
  <2>3. Live(i) /\ row.company = subs[i].company
    BY <1>4, <1>6, <2>1, <2>2 DEF Live, ChangingRows, ACTIVE_STATUSES
  <2> HIDE DEF held, c, p
  <2>. QED
    BY <1>1, <1>4, <1>6, <1>7, <2>1, <2>2, <2>3, LiveRowStep
<1>. QED
  BY <1>8, <1>9 DEF MoveRow

LEMMA CheckRowAgrees ==
  ASSUME Typed, Agreed, NEW s \in Sessions, NEW i \in DOMAIN sess[s].rows,
         CheckRow(s, i), ~stale'
  PROVE  AccessInv'
<1> DEFINE held == sess[s].rows[i]
           row == ExpiredRow(held)
           co == ExpiredCompany(sess[s].cos[subs[i].company], held)
<1>1. /\ sess[s].at = "check" /\ Quiet /\ Store(s, i, row, co, {})
  BY DEF CheckRow, At
<1>2. PICK y \in Session : y = sess[s]
  BY TypedFacts
<1>3. /\ Refers(y, subs, reqs) /\ Works(y, subs) /\ TypeInv /\ batch = None /\ checkedTo = 0
  BY <1>2, TypedFacts
<1>4. i \in DOMAIN subs /\ subs[i].company \in DOMAIN y.cos
  BY <1>1, <1>2, <1>3 DEF Refers, Works
<1>5. PICK c \in Companies : c = subs[i].company
  BY <1>3, <1>4, TypeFacts
<1>6. held \in SubscriptionRow /\ sess[s].cos[c] \in CompanyRow
  <2>1. y.rows \in RowMaps /\ y.cos \in CompanyMaps
    BY DEF Session
  <2>. QED
    BY <1>2, <1>4, <1>5, <2>1, RowMap, CompanyMap
<1>7. /\ row \in SubscriptionRow /\ row.company = held.company /\ co \in CompanyRow
      /\ ~row.active /\ row.status # "SCHEDULED_CHANGE" /\ co.status \notin ACTIVE_STATUSES
  BY <1>5, <1>6, ExpiredRowType, ExpiredCompanyType, ZenonT(60)
     DEF ExpiredRow, ExpiredCompany, ExpiredStatus, ACTIVE_STATUSES, SubscriptionRow, CompanyRow
<1> HIDE DEF row, co
<1>8. /\ ~stale /\ subs[i] = held /\ subs' = [subs EXCEPT ![i] = row]
      /\ company' = [company EXCEPT ![c] = co]
  BY <1>1, <1>2, <1>4, <1>5, <1>6, <1>7, FreshStore
<1>9. subs \in Seq(SubscriptionRow) /\ company \in [Companies -> CompanyRow \cup {None}]
  BY <1>3 DEF TypeInv, TypeOK
<1>10. /\ DOMAIN subs' = DOMAIN subs /\ subs'[i] = row
       /\ \A t \in DOMAIN subs : t # i => subs'[t] = subs[t]
  BY <1>4, <1>7, <1>8, <1>9, ReplacedRow
<1>11. /\ company'[c] = co /\ \A d \in Companies : d # c => company'[d] = company[d]
  BY <1>8, <1>9
<1>12. AccessInv /\ checkedTo' = checkedTo
  BY <1>1, <1>8 DEF Agreed, Quiet
<1>13. OneLiveRow'
  <2>1. \A t \in DOMAIN subs' : Live(t)' => t \in DOMAIN subs /\ Live(t) /\ subs'[t] = subs[t]
    BY <1>7, <1>10 DEF Live
  <2>. QED
    BY <1>12, <2>1 DEF AccessInv, OneLiveRow
<1>14. ChangingRows' /\ EndedRowsClosed'
  BY <1>7, <1>10, <1>12 DEF AccessInv, ChangingRows, EndedRowsClosed
<1>15. WritableBacked'
  <2> SUFFICES ASSUME NEW d \in Companies, Writable(d)'
               PROVE  \E t \in LiveRows(d)' : /\ subs'[t].plan = company'[d].plan
                                              /\ SameStatus(company'[d], subs'[t])
    BY DEF WritableBacked
  <2>1. d # c
    BY <1>7, <1>11 DEF Writable
  <2>2. company'[d] = company[d] /\ Writable(d)
    BY <1>11, <2>1 DEF Writable, Registered
  <2>3. PICK t \in LiveRows(d) : /\ subs[t].plan = company[d].plan
                                 /\ SameStatus(company[d], subs[t])
    BY <1>12, <2>2 DEF AccessInv, WritableBacked
  <2>4. t # i /\ subs'[t] = subs[t] /\ t \in DOMAIN subs /\ subs[t].company = d /\ Live(t)
    BY <1>5, <1>10, <2>1, <2>3 DEF LiveRows, RowsOf
  <2>5. t \in LiveRows(d)'
    BY <1>10, <2>4 DEF LiveRows, RowsOf, Live
  <2>. QED
    BY <2>2, <2>3, <2>4, <2>5
<1>16. BatchWaits' /\ UnsavedApplied' /\ CheckedSoFar'
  BY <1>1, <1>3, <1>12, NoBatchStep DEF AccessInv, Quiet
<1>. QED
  BY <1>13, <1>14, <1>15, <1>16 DEF AccessInv

LEMMA ActivateAgrees ==
  ASSUME Typed, Agreed, NEW s \in Sessions, Activate(s), ~stale'
  PROVE  AccessInv'
<1> DEFINE i == sess[s].row
           held == sess[s].rows[i]
           row == [held EXCEPT !.status = "ACTIVE"]
<1>1. /\ sess[s].at = "activate" /\ Quiet
      /\ subs' = [subs EXCEPT ![i] = Written(subs[i], held, row, {})]
      /\ UNCHANGED company /\ ~stale /\ (row # held => subs[i] = held)
  BY DEF Activate, At
<1>2. PICK y \in Session : y = sess[s]
  BY TypedFacts
<1>3. /\ Refers(y, subs, reqs) /\ Works(y, subs) /\ HoldsRow(y, subs)
      /\ TypeInv /\ batch = None
  BY <1>2, TypedFacts
<1>4. /\ i \in DOMAIN y.rows /\ i \in DOMAIN subs
      /\ held.active /\ held.status = StatusFor(held.plan)
  BY <1>1, <1>2, <1>3 DEF Works, HoldsRow, Refers
<1>5. held \in SubscriptionRow /\ subs[i] \in SubscriptionRow
  <2>1. y.rows \in RowMaps
    BY DEF Session
  <2>. QED
    BY <1>2, <1>3, <1>4, <2>1, RowMap, TypeFacts
<1>6. subs \in Seq(SubscriptionRow) /\ AccessInv /\ checkedTo' = checkedTo
  BY <1>1, <1>3 DEF TypeInv, TypeOK, Agreed, Quiet
<1>7. PICK new \in SubscriptionRow :
        /\ subs' = [subs EXCEPT ![i] = new]
        /\ \/ new = subs[i]
           \/ /\ subs[i].active /\ subs[i].status = StatusFor(subs[i].plan)
              /\ new = [subs[i] EXCEPT !.status = "ACTIVE"]
  <2>1. CASE row = held
    <3>1. PICK db \in SubscriptionRow, h \in SubscriptionRow : db = subs[i] /\ h = held
      BY <1>5
    <3>2. Written(db, h, h, {}) = db
      BY DEF Written, SubscriptionRow
    <3>3. Written(subs[i], held, row, {}) = subs[i]
      BY <2>1, <3>1, <3>2
    <3>. QED
      BY <1>1, <1>5, <3>3
  <2>2. CASE row # held
    <3>1. PICK h \in SubscriptionRow : h = held
      BY <1>5
    <3>2. [h EXCEPT !.status = "ACTIVE"] \in SubscriptionRow
      BY DEF SubscriptionRow, BillingStatus
    <3>3. row \in SubscriptionRow /\ subs[i] = held
      BY <1>1, <2>2, <3>1, <3>2
    <3> HIDE DEF row
    <3>4. Written(held, held, row, {}) = row
      BY <1>5, <3>3, WrittenFreshRow
    <3>5. subs' = [subs EXCEPT ![i] = row]
      BY <1>1, <3>3, <3>4
    <3>. QED
      BY <1>4, <3>3, <3>5 DEF row
  <2>. QED
    BY <2>1, <2>2
<1> HIDE DEF i, held, row
<1>8. /\ DOMAIN subs' = DOMAIN subs
      /\ \A j \in DOMAIN subs : subs'[j] = IF j = i THEN new ELSE subs[j]
  BY <1>4, <1>6, <1>7, ReplacedRow
<1>9. \A t \in DOMAIN subs : Kept(t)
  BY <1>7, <1>8 DEF Kept
<1>10. OneLiveRow' /\ ChangingRows' /\ EndedRowsClosed' /\ WritableBacked'
  BY <1>1, <1>3, <1>6, <1>8, <1>9, KeptStep DEF AccessInv
<1>11. BatchWaits' /\ UnsavedApplied' /\ CheckedSoFar'
  BY <1>1, <1>3, <1>6, NoBatchStep DEF AccessInv, Quiet
<1>. QED
  BY <1>10, <1>11 DEF AccessInv

LEMMA InsertRowAgrees ==
  ASSUME Typed, Agreed, NEW s \in Sessions, InsertRow(s), ~stale'
  PROVE  AccessInv'
<1>1. /\ sess[s].at = "insert" /\ subs' = Append(subs, NewRow(Tenant(s), Wanted(s))) /\ Quiet
      /\ UNCHANGED company /\ ~stale /\ LiveRows(Tenant(s)) = {}
  BY DEF InsertRow, At
<1>2. PICK y \in Session : y = sess[s]
  BY TypedFacts
<1>3. Reviews(y, company) /\ TypeInv /\ batch = None
  BY <1>2, TypedFacts
<1>4. y.rq \in RequestRow
  BY <1>1, <1>2, <1>3 DEF Reviews, ReviewPlaces
<1>5. PICK c \in Companies, p \in Plans : c = Tenant(s) /\ p = Wanted(s)
  BY <1>2, <1>4 DEF Tenant, Wanted, RequestRow
<1>6. AccessInv
  BY <1>1 DEF Agreed
<1>7. ~Writable(c)'
  <2>1. ~Writable(c)
    BY <1>1, <1>5, <1>6, NoRowNoAccess DEF AccessInv
  <2>. QED
    BY <1>1, <2>1 DEF Writable, Registered
<1>8. Idle /\ UNCHANGED <<now, batch, checkedTo>>
  BY <1>1, <1>3 DEF Idle, Quiet
<1>. QED
  BY <1>1, <1>3, <1>5, <1>6, <1>7, <1>8, AccessInsert

\* Steps on neither subscriptions nor companies.
LEMMA AsideAgrees ==
  ASSUME Typed, Agreed, stale => stale', UNCHANGED <<company, subs, batch, checkedTo, now>>,
         ~stale'
  PROVE  AccessInv'
<1>1. AccessInv /\ batch = None
  BY DEF Agreed, Typed
<1>2. OneLiveRow' /\ ChangingRows' /\ EndedRowsClosed' /\ WritableBacked'
  BY <1>1, SameTables
<1>3. BatchWaits' /\ UnsavedApplied' /\ CheckedSoFar'
  BY <1>1, NoBatchStep DEF AccessInv
<1>. QED
  BY <1>2, <1>3 DEF AccessInv

LEMMA OutsideAgrees ==
  ASSUME Typed, Agreed, ~stale',
         \/ \E c \in Companies, p \in Plans : Register(c, p) /\ UNCHANGED sessVars
         \/ \E c \in Companies, t \in RequestTypes, p \in Plans, i \in BOOLEAN :
              Ask(c, t, p, i)
         \/ Tick /\ UNCHANGED sessVars
  PROVE  AccessInv'
<1>1. ~stale
  BY DEF sessVars, Ask
<1>2. AccessInv /\ TypeInv
  BY <1>1 DEF Agreed, Typed
<1>. QED
  BY <1>2, AccessRegistration, AccessSameTables, AccessTick DEF Ask

LEMMA AgreedNext ==
  ASSUME Typed, Agreed, [SessNext]_allVars
  PROVE  Agreed'
<1> SUFFICES ASSUME ~stale' PROVE AccessInv'
  BY DEF Agreed
<1>1. CASE UNCHANGED allVars
  BY <1>1, AsideAgrees DEF allVars, vars, sessVars
<1>2. ASSUME NEW s \in Sessions, UNCHANGED vars, UNCHANGED stale
      PROVE  AccessInv'
  BY <1>2, AsideAgrees DEF vars
<1>3. ASSUME NEW s \in Sessions,
             \/ \E r \in DOMAIN reqs, d \in {"REJECT", "APPROVE", "FORCE"} : StartReview(s, r, d)
             \/ ReadCompany(s) \/ ReadCurrentRow(s) \/ RefreshRow(s) \/ ReadUsage(s)
             \/ InsertUsage(s) \/ StartMove(s)
             \/ \E cut \in {now, now + 1} : StartCheck(s, cut)
      PROVE  UNCHANGED vars /\ UNCHANGED stale
  BY <1>3 DEF StartReview, ReadCompany, ReadCurrentRow, RefreshRow, ReadUsage, InsertUsage,
     StartMove, StartCheck
<1>4. ASSUME NEW s \in Sessions, RejectRequest(s) \/ MarkApproved(s)
      PROVE  AccessInv'
  BY <1>4, AsideAgrees DEF RejectRequest, MarkApproved, Quiet
<1>5. CASE SessNext
  BY <1>2, <1>3, <1>4, <1>5, OutsideAgrees, ScheduleChangeAgrees, ApplyPlanAgrees,
     InsertRowAgrees, MirrorPlanAgrees, CheckRowAgrees, MoveRowAgrees, ActivateAgrees
     DEF SessNext
<1>. QED
  BY <1>1, <1>5

-----------------------------------------------------------------------------
(* Without a stale write every commit of a plan is accounted for *)

\* A session between the commit of the plan of request r and that of its decision.
Decides(x, r) == x.req = r /\ x.at \in {"usage", "newusage", "decide"}

LEMMA ApplyingCount ==
  ASSUME SessionsSound, NEW r
  PROVE  /\ Applying(r) \subseteq Sessions /\ IsFiniteSet(Applying(r))
         /\ Cardinality(Applying(r)) \in Nat
<1>1. Applying(r) \in SUBSET Sessions
  BY DEF Applying
<1>2. IsFiniteSet(Sessions)
  BY SessionAssumption
<1>3. IsFiniteSet(Applying(r))
  BY <1>1, <1>2, FS_Subset
<1>. QED
  BY <1>1, <1>3, FS_CardinalityType

\* One session enters them, leaves them, or neither.
LEMMA ApplyingStep ==
  ASSUME SessionsSound, NEW s \in Sessions, NEW x, Become(s, x), NEW r
  PROVE  /\ Cardinality(Applying(r)') \in Nat
         /\ Cardinality(Applying(r)) <= Cardinality(Applying(r)') + 1
         /\ ~Decides(sess[s], r) \/ Decides(x, r)
              => Cardinality(Applying(r)) <= Cardinality(Applying(r)')
         /\ ~Decides(sess[s], r) /\ Decides(x, r)
              => Cardinality(Applying(r)') = Cardinality(Applying(r)) + 1
<1> DEFINE A == Applying(r)
<1>1. /\ A \subseteq Sessions /\ IsFiniteSet(A) /\ Cardinality(A) \in Nat
      /\ s \in A <=> Decides(sess[s], r)
  BY ApplyingCount DEF Applying, Decides
<1>2. \A t \in Sessions : sess'[t] = IF t = s THEN x ELSE sess[t]
  BY DEF Become, SessionsSound
<1>3. Applying(r)' = IF Decides(x, r) THEN Applying(r) \cup {s} ELSE Applying(r) \ {s}
  BY <1>2 DEF Applying, Decides
<1> HIDE DEF A
<1>4. CASE Decides(x, r)
  <2>1. Cardinality(A \cup {s}) = IF s \in A THEN Cardinality(A) ELSE Cardinality(A) + 1
    BY <1>1, FS_AddElement
  <2>. QED
    BY <1>1, <1>3, <1>4, <2>1 DEF A
<1>5. CASE ~Decides(x, r)
  <2>1. /\ IsFiniteSet(A \ {s})
        /\ Cardinality(A \ {s}) = IF s \in A THEN Cardinality(A) - 1 ELSE Cardinality(A)
    BY <1>1, FS_RemoveElement
  <2>2. Cardinality(A \ {s}) \in Nat
    BY <2>1, FS_CardinalityType
  <2>. QED
    BY <1>1, <1>3, <1>5, <2>1, <2>2 DEF A
<1>. QED
  BY <1>4, <1>5

LEMMA DueFacts ==
  ASSUME Typed, NEW r \in DOMAIN reqs
  PROVE  /\ SessionsSound /\ applied[r] \in Nat /\ collisions \in Nat
         /\ Cardinality(Applying(r)) \in Nat
<1>1. /\ applied \in Seq(Nat) /\ Len(applied) = Len(reqs) /\ reqs \in Seq(RequestRow)
      /\ SessionsSound /\ collisions \in Nat
  BY DEF Typed, CountsTyped, TypeInv, TypeOK
<1>2. DOMAIN applied = DOMAIN reqs
  BY <1>1, LenProperties
<1>3. applied[r] \in Nat
  BY <1>1, <1>2, LenProperties, ElementOfSeq
<1>. QED
  BY <1>1, <1>3, ApplyingCount

\* No session leaves them, and no plan is committed.
LEMMA DueKept ==
  ASSUME Typed, NEW r \in DOMAIN reqs, Due(r), UNCHANGED <<applied, collisions>>,
         reqs[r].status = "APPROVED" => reqs'[r].status = "APPROVED",
         NEW s \in Sessions, NEW x, Become(s, x),
         ~Decides(sess[s], r) \/ Decides(x, r)
  PROVE  Due(r)'
BY DueFacts, ApplyingStep DEF Due

\* One enters them as the plan is committed.
LEMMA DueCounted ==
  ASSUME Typed, NEW r \in DOMAIN reqs, Due(r), UNCHANGED <<reqs, collisions>>,
         NEW s \in Sessions, NEW x, Become(s, x), Count(sess[s].req),
         sess[s].req \in DOMAIN reqs,
         sess[s].at \in {"apply", "mirror"}, x.req = sess[s].req, x.at = "usage"
  PROVE  Due(r)'
<1>1. PICK q \in DOMAIN reqs : q = sess[s].req
  OBVIOUS
<1>2. applied'[r] = applied[r] + (IF r = q THEN 1 ELSE 0)
  BY <1>1, CountTyped DEF Typed
<1>3. ~Decides(sess[s], r) /\ (r = q => Decides(x, r))
  BY <1>1 DEF Decides
<1>. QED
  BY <1>2, <1>3, DueFacts, ApplyingStep DEF Due

\* The decision of one request leaves the others.
LEMMA DecidedRequest ==
  ASSUME TypeInv, NEW s \in Sessions, sess[s].req \in DOMAIN reqs,
         NEW status, DecideAs(s, status), NEW r \in DOMAIN reqs
  PROVE  reqs'[r].status = IF r = sess[s].req THEN status ELSE reqs[r].status
<1>1. reqs \in Seq(RequestRow)
  BY DEF TypeInv, TypeOK
<1>2. PICK row \in RequestRow : row = reqs[r]
  BY <1>1, ElementOfSeq, LenProperties
<1>3. [row EXCEPT !.status = status].status = status
  BY DEF RequestRow
<1>4. PICK q \in DOMAIN reqs : q = sess[s].req
  OBVIOUS
<1>5. reqs' = [reqs EXCEPT ![q].status = status]
  BY <1>4 DEF DecideAs
<1>6. reqs'[r] = IF r = q THEN [reqs[r] EXCEPT !.status = status] ELSE reqs[r]
  BY <1>1, <1>5
<1>. QED
  BY <1>2, <1>3, <1>4, <1>6

\* A review that decides has read its request while it was pending, and nothing has
\* changed since.
LEMMA PendingStill ==
  ASSUME Typed, NEW s \in Sessions, sess[s].at \in ReviewPlaces, ~RequestMoved(s)
  PROVE  /\ sess[s].req \in DOMAIN reqs
         /\ reqs[sess[s].req].status = "PENDING_APPROVAL"
BY TypedFacts DEF Reviews, Refers, RequestMoved

LEMMA RejectDue ==
  ASSUME Typed, NEW s \in Sessions, RejectRequest(s), ~stale',
         NEW r \in DOMAIN reqs, Due(r)
  PROVE  Due(r)'
<1>1. /\ sess[s].at = "reject" /\ ~RequestMoved(s) /\ DecideAs(s, "REJECTED")
      /\ Become(s, NoSession) /\ UNCHANGED <<applied, collisions>>
  BY DEF RejectRequest, At, End
<1>2. sess[s].req \in DOMAIN reqs /\ reqs[sess[s].req].status = "PENDING_APPROVAL"
  BY <1>1, PendingStill DEF ReviewPlaces
<1>3. reqs[r].status = "APPROVED" => reqs'[r].status = "APPROVED"
  BY <1>1, <1>2, DecidedRequest DEF Typed
<1>4. ~Decides(sess[s], r)
  BY <1>1 DEF Decides
<1>. QED
  BY <1>1, <1>3, <1>4, DueKept

LEMMA ScheduleDue ==
  ASSUME Typed, NEW s \in Sessions, ScheduleChange(s),
         NEW r \in DOMAIN reqs, Due(r)
  PROVE  Due(r)'
<1>1. /\ sess[s].at = "schedule" /\ DecideAs(s, "APPROVED")
      /\ Become(s, NoSession) /\ UNCHANGED <<applied, collisions>>
  BY DEF ScheduleChange, At, End
<1>2. sess[s].req \in DOMAIN reqs
  BY <1>1, TypedFacts DEF Reviews, Refers, ReviewPlaces
<1>3. reqs[r].status = "APPROVED" => reqs'[r].status = "APPROVED"
  BY <1>1, <1>2, DecidedRequest DEF Typed
<1>4. ~Decides(sess[s], r)
  BY <1>1 DEF Decides
<1>. QED
  BY <1>1, <1>3, <1>4, DueKept

\* The review that marks its request approved leaves the sessions that still had to,
\* and the request was not approved before.
LEMMA MarkApprovedDue ==
  ASSUME Typed, NEW s \in Sessions, MarkApproved(s), ~stale',
         NEW r \in DOMAIN reqs, Due(r)
  PROVE  Due(r)'
<1>1. /\ sess[s].at = "decide" /\ ~RequestMoved(s) /\ DecideAs(s, "APPROVED")
      /\ Become(s, NoSession) /\ UNCHANGED <<applied, collisions>>
  BY DEF MarkApproved, At, End
<1>2. sess[s].req \in DOMAIN reqs /\ reqs[sess[s].req].status = "PENDING_APPROVAL"
  BY <1>1, PendingStill DEF ReviewPlaces
<1>3. reqs'[r].status = IF r = sess[s].req THEN "APPROVED" ELSE reqs[r].status
  BY <1>1, <1>2, DecidedRequest DEF Typed
<1>4. CASE r = sess[s].req
  <2>1. reqs[r].status # "APPROVED" /\ reqs'[r].status = "APPROVED"
    BY <1>2, <1>3, <1>4
  <2>. QED
    BY <1>1, <2>1, DueFacts, ApplyingStep DEF Due
<1>5. CASE r # sess[s].req
  <2>1. ~Decides(sess[s], r)
    BY <1>5 DEF Decides
  <2>. QED
    BY <1>1, <1>3, <1>5, <2>1, DueKept
<1>. QED
  BY <1>4, <1>5

LEMMA ApplyPlanDue ==
  ASSUME Typed, NEW s \in Sessions, ApplyPlan(s), NEW r \in DOMAIN reqs, Due(r)
  PROVE  Due(r)'
<1>1. PICK x : Become(s, x) /\ x.at = "usage" /\ x.req = sess[s].req
  <2> DEFINE i == sess[s].row
             row == AppliedRow(sess[s].rows[i], Wanted(s))
             co == AppliedCompany(Loaded(s), Wanted(s))
  <2>1. Become(s, [Stored(s, i, row, co) EXCEPT !.at = "usage"])
    BY DEF ApplyPlan
  <2>2. PICK y \in Session : y = sess[s]
    BY TypedFacts
  <2> HIDE DEF i, row, co
  <2>3. /\ [Stored(s, i, row, co) EXCEPT !.at = "usage"].at = "usage"
        /\ [Stored(s, i, row, co) EXCEPT !.at = "usage"].req = sess[s].req
    BY <2>2 DEF Stored, Session
  <2>. QED
    BY <2>1, <2>3
<1>2. sess[s].at = "apply" /\ Count(sess[s].req) /\ UNCHANGED <<reqs, collisions>>
  BY DEF ApplyPlan, At
<1>3. sess[s].req \in DOMAIN reqs
  BY <1>2, TypedFacts DEF Reviews, Refers, ReviewPlaces
<1>. QED
  BY <1>1, <1>2, <1>3, DueCounted

LEMMA MirrorPlanDue ==
  ASSUME Typed, NEW s \in Sessions, MirrorPlan(s), NEW r \in DOMAIN reqs, Due(r)
  PROVE  Due(r)'
<1>1. PICK x : Become(s, x) /\ x.at = "usage" /\ x.req = sess[s].req
  <2>1. PICK y \in Session : y = sess[s]
    BY TypedFacts
  <2>2. PICK c, co : Become(s, [sess[s] EXCEPT !.at = "usage", !.cos[c] = co])
    BY DEF MirrorPlan
  <2>3. /\ [sess[s] EXCEPT !.at = "usage", !.cos[c] = co].at = "usage"
        /\ [sess[s] EXCEPT !.at = "usage", !.cos[c] = co].req = sess[s].req
    BY <2>1 DEF Session
  <2>. QED
    BY <2>2, <2>3
<1>2. sess[s].at = "mirror" /\ Count(sess[s].req) /\ UNCHANGED <<reqs, collisions>>
  BY DEF MirrorPlan, At
<1>3. sess[s].req \in DOMAIN reqs
  BY <1>2, TypedFacts DEF Reviews, Refers, ReviewPlaces
<1>. QED
  BY <1>1, <1>2, <1>3, DueCounted

\* Past the usage row a review still has to decide, unless it ends there.
LEMMA UsageDue ==
  ASSUME Typed, NEW s \in Sessions, ReadUsage(s) \/ InsertUsage(s),
         NEW r \in DOMAIN reqs, Due(r)
  PROVE  Due(r)'
<1>1. sess[s].at \in {"usage", "newusage"} /\ UNCHANGED <<reqs, applied>>
  BY DEF ReadUsage, InsertUsage, At, vars
<1>2. PICK y \in Session : y = sess[s]
  BY TypedFacts
<1>3. CASE collisions' = collisions + 1 /\ Become(s, NoSession)
  BY <1>1, <1>3, DueFacts, ApplyingStep DEF Due
<1>4. ASSUME NEW at \in {AfterUsage(s), "newusage"}, Go(s, at), UNCHANGED collisions
      PROVE  Due(r)'
  <2>1. Become(s, [y EXCEPT !.at = at])
    BY <1>2, <1>4 DEF Go
  <2>2. [y EXCEPT !.at = at].at = at /\ [y EXCEPT !.at = at].req = y.req
    BY DEF Session
  <2>3. Decides(sess[s], r) => Decides([y EXCEPT !.at = at], r)
    <3> SUFFICES ASSUME Decides(sess[s], r) PROVE Decides([y EXCEPT !.at = at], r)
      OBVIOUS
    <3>1. y.req = r /\ r # 0
      <4>1. reqs \in Seq(RequestRow)
        BY DEF Typed, TypeInv, TypeOK
      <4>2. DOMAIN reqs = 1..Len(reqs)
        BY <4>1, LenProperties
      <4>. QED
        BY <1>2, <4>2 DEF Decides
    <3>2. at \in {"decide", "newusage"}
      BY <1>2, <3>1 DEF AfterUsage
    <3>. QED
      BY <2>2, <3>1, <3>2 DEF Decides
  <2>. QED
    BY <1>1, <1>4, <2>1, <2>3, DueKept
<1>5. CASE ReadUsage(s)
  BY <1>4, <1>5 DEF ReadUsage
<1>6. CASE InsertUsage(s)
  BY <1>3, <1>4, <1>6 DEF InsertUsage, End
<1>. QED
  BY <1>5, <1>6

\* The steps of sessions that are not between those two commits, and leave requests
\* and counts alone.
LEMMA ElsewhereDue ==
  ASSUME Typed, NEW s \in Sessions,
         \/ \E q \in DOMAIN reqs, d \in {"REJECT", "APPROVE", "FORCE"} : StartReview(s, q, d)
         \/ ReadCompany(s) \/ ReadCurrentRow(s) \/ InsertRow(s) \/ RefreshRow(s)
         \/ \E cut \in {now, now + 1} : StartCheck(s, cut)
         \/ \E i \in DOMAIN sess[s].rows : CheckRow(s, i) \/ MoveRow(s, i)
         \/ StartMove(s) \/ Activate(s),
         NEW r \in DOMAIN reqs, Due(r)
  PROVE  Due(r)'
<1>1. UNCHANGED <<reqs, applied, collisions>>
  BY DEF StartReview, ReadCompany, ReadCurrentRow, InsertRow, RefreshRow, StartCheck,
     CheckRow, MoveRow, StartMove, Activate, vars
<1>2. sess[s].at \in {"none", "company", "row", "insert", "refresh", "check", "move",
                      "activate"}
  BY DEF StartReview, ReadCompany, ReadCurrentRow, InsertRow, RefreshRow, StartCheck,
     CheckRow, MoveRow, StartMove, Activate, Begin, At
<1>3. \E x : Become(s, x)
  <2>1. CASE \/ \E q \in DOMAIN reqs, d \in {"REJECT", "APPROVE", "FORCE"} : StartReview(s, q, d)
             \/ ReadCompany(s) \/ InsertRow(s) \/ RefreshRow(s)
             \/ \E cut \in {now, now + 1} : StartCheck(s, cut)
             \/ StartMove(s)
    BY <2>1 DEF StartReview, ReadCompany, InsertRow, RefreshRow, StartCheck, StartMove
  <2>2. CASE ReadCurrentRow(s)
    BY <2>2 DEF ReadCurrentRow, End, Go
  <2>3. CASE Activate(s) \/ \E i \in DOMAIN sess[s].rows : CheckRow(s, i) \/ MoveRow(s, i)
    BY <2>3 DEF Activate, CheckRow, MoveRow, GoOn, End
  <2>. QED
    BY <2>1, <2>2, <2>3
<1>4. PICK x : Become(s, x)
  BY <1>3
<1>5. ~Decides(sess[s], r)
  BY <1>2 DEF Decides
<1>. QED
  BY <1>1, <1>4, <1>5, DueKept

\* A request asked for has no commit yet.
LEMMA AskDue ==
  ASSUME Typed, Typed', NEW c \in Companies, NEW t \in RequestTypes, NEW p \in Plans,
         NEW i \in BOOLEAN, Ask(c, t, p, i), NEW r \in DOMAIN reqs',
         r \in DOMAIN reqs => Due(r)
  PROVE  Due(r)'
<1> DEFINE q == [company |-> c, type |-> t, plan |-> p, immediate |-> i,
                 status |-> "PENDING_APPROVAL"]
<1>1. /\ reqs' = Append(reqs, q) /\ applied' = Append(applied, 0)
      /\ UNCHANGED <<sess, collisions>>
  BY DEF Ask, RequestChange
<1>2. q \in RequestRow
  BY DEF RequestRow, RequestStatus
<1> HIDE DEF q
<1>3. /\ reqs \in Seq(RequestRow) /\ applied \in Seq(Nat) /\ Len(applied) = Len(reqs)
      /\ SessionsSound' /\ collisions' \in Nat
  BY DEF Typed, CountsTyped, TypeInv, TypeOK
<1>4. Applying(r)' = Applying(r) /\ Cardinality(Applying(r)) \in Nat
  BY <1>1, ApplyingCount DEF Applying, Typed
<1>5. CASE r \in DOMAIN reqs
  <2>1. reqs'[r] = reqs[r] /\ applied'[r] = applied[r]
    BY <1>1, <1>2, <1>3, <1>5, AppendProperties, LenProperties
  <2>. QED
    BY <1>1, <1>4, <1>5, <2>1 DEF Due
<1>6. CASE r \notin DOMAIN reqs
  <2>1. r = Len(reqs) + 1 /\ applied'[r] = 0
    BY <1>1, <1>2, <1>3, <1>6, AppendProperties, LenProperties
  <2>. QED
    BY <1>3, <1>4, <2>1 DEF Due
<1>. QED
  BY <1>5, <1>6

LEMMA DecisionsNext ==
  ASSUME Typed, DecisionsDue, [SessNext]_allVars
  PROVE  DecisionsDue'
<1> SUFFICES ASSUME ~stale', NEW r \in DOMAIN reqs' PROVE Due(r)'
  BY DEF DecisionsDue
<1>1. Typed'
  BY TypedNext
<1>2. CASE UNCHANGED <<sess, reqs, stale, applied, collisions>>
  BY <1>2 DEF DecisionsDue, Due, Applying
<1>3. ASSUME NEW c \in Companies, NEW t \in RequestTypes, NEW p \in Plans, NEW i \in BOOLEAN,
             Ask(c, t, p, i)
      PROVE  Due(r)'
  <2>1. ~stale
    BY <1>3 DEF Ask
  <2>2. r \in DOMAIN reqs => Due(r)
    BY <2>1 DEF DecisionsDue
  <2>. QED
    BY <1>1, <1>3, <2>2, AskDue
<1>4. ASSUME NEW s \in Sessions,
             \/ \E q \in DOMAIN reqs, d \in {"REJECT", "APPROVE", "FORCE"} : StartReview(s, q, d)
             \/ ReadCompany(s) \/ RejectRequest(s) \/ ReadCurrentRow(s)
             \/ ScheduleChange(s) \/ ApplyPlan(s) \/ InsertRow(s) \/ RefreshRow(s)
             \/ MirrorPlan(s) \/ ReadUsage(s) \/ InsertUsage(s) \/ MarkApproved(s)
             \/ \E cut \in {now, now + 1} : StartCheck(s, cut)
             \/ \E i \in DOMAIN sess[s].rows : CheckRow(s, i) \/ MoveRow(s, i)
             \/ StartMove(s) \/ Activate(s)
      PROVE  Due(r)'
  <2>1. ~stale
    BY <1>4 DEF StartReview, ReadCompany, RejectRequest, ReadCurrentRow, ScheduleChange,
       ApplyPlan, InsertRow, RefreshRow, MirrorPlan, ReadUsage, InsertUsage, MarkApproved,
       StartCheck, CheckRow, MoveRow, StartMove, Activate, Store
  <2>2. DOMAIN reqs' = DOMAIN reqs
    <3>1. CASE UNCHANGED reqs
      BY <3>1
    <3>2. ASSUME NEW status \in RequestStatus, DecideAs(s, status) PROVE DOMAIN reqs' = DOMAIN reqs
      BY <3>2 DEF DecideAs
    <3>. QED
      BY <1>4, <3>1, <3>2 DEF StartReview, ReadCompany, RejectRequest, ReadCurrentRow,
         ScheduleChange, ApplyPlan, InsertRow, RefreshRow, MirrorPlan, ReadUsage, InsertUsage,
         MarkApproved, StartCheck, CheckRow, MoveRow, StartMove, Activate, vars, RequestStatus
  <2>3. r \in DOMAIN reqs /\ Due(r)
    BY <2>1, <2>2 DEF DecisionsDue
  <2>. QED
    BY <1>4, <2>3, ElsewhereDue, RejectDue, ScheduleDue, ApplyPlanDue, MirrorPlanDue,
       UsageDue, MarkApprovedDue
<1>5. CASE UNCHANGED allVars
  BY <1>2, <1>5 DEF allVars, vars, sessVars
<1>6. CASE SessNext
  <2>1. ASSUME NEW c \in Companies, NEW p \in Plans, Register(c, p), UNCHANGED sessVars
        PROVE  Due(r)'
    BY <1>2, <2>1 DEF Register, sessVars
  <2>2. ASSUME Tick, UNCHANGED sessVars PROVE Due(r)'
    BY <1>2, <2>2 DEF Tick, sessVars
  <2>. QED
    BY <1>3, <1>4, <1>6, <2>1, <2>2 DEF SessNext
<1>. QED
  BY <1>5, <1>6

-----------------------------------------------------------------------------
(* The theorems *)

LEMMA SessionsInit == SessInit => SessInv
<1> SUFFICES ASSUME SessInit PROVE SessInv
  OBVIOUS
<1>1. TypeInv /\ AccessInv
  BY TypeInit, AccessInit DEF SessInit
<1>2. batch = None /\ checkedTo = 0 /\ reqs = <<>>
  BY DEF SessInit, Init
<1>3. SessionsSound
  BY EndedIsSound DEF SessInit, SessionsSound
<1>4. CountsTyped
  <2>1. applied \in Seq(Nat) /\ Len(applied) = Len(reqs)
    BY <1>2, EmptySeq DEF SessInit
  <2>. QED
    BY <2>1 DEF SessInit, CountsTyped
<1>5. DOMAIN reqs = {}
  BY <1>2, EmptySeq, LenProperties
<1>. QED
  BY <1>1, <1>2, <1>3, <1>4, <1>5 DEF SessInv, Typed, Agreed, DecisionsDue

LEMMA SessionsNext ==
  ASSUME SessInv, [SessNext]_allVars
  PROVE  SessInv'
BY TypedNext, AgreedNext, DecisionsNext DEF SessInv

LEMMA SessionsInvariant == SessSpec => []SessInv
<1>1. SessInv /\ [SessNext]_allVars => SessInv'
  BY SessionsNext
<1>. QED
  BY <1>1, SessionsInit, PTL DEF SessSpec

\* Whatever the sessions of reviews and jobs interleave, what they hold stays rows,
\* companies and requests that exist, and every write leaves the tables well typed
\* (subscription_service.py:361-650).
THEOREM SessionsTypeCorrect == SessSpec => []SessTypeOK
<1>1. SessInv => SessTypeOK
  <2> SUFFICES ASSUME SessInv PROVE SessTypeOK
    OBVIOUS
  <2>1. Typed /\ TypeOK /\ DOMAIN sess = Sessions /\ CountsTyped /\ TypeInv
    BY DEF SessInv, Typed, TypeInv, SessionsSound
  <2>2. ASSUME NEW s \in Sessions PROVE IsSession(sess[s])
    <3>1. PICK x \in Session : x = sess[s]
      BY <2>1, TypedFacts
    <3>2. Refers(x, subs, reqs)
      BY <2>1, <3>1, TypedFacts
    <3>3. x.rows \in RowMaps /\ x.cos \in CompanyMaps
      BY DEF Session
    <3>4. /\ \A i \in DOMAIN x.rows : x.rows[i] \in SubscriptionRow
          /\ \A c \in DOMAIN x.cos : x.cos[c] \in CompanyRow
          /\ DOMAIN x.cos \subseteq Companies
      BY <3>3, RowMap, CompanyMap
    <3>5. /\ x.at \in Places /\ x.decision \in {"REJECT", "APPROVE", "FORCE"}
          /\ x.rq \in RequestRow \cup {None}
      BY DEF Session
    <3>. QED
      BY <3>1, <3>2, <3>4, <3>5 DEF IsSession, Refers
  <2>3. applied \in [DOMAIN reqs -> Nat]
    <3>1. /\ applied \in Seq(Nat) /\ Len(applied) = Len(reqs) /\ reqs \in Seq(RequestRow)
      BY <2>1 DEF CountsTyped, TypeInv, TypeOK
    <3>2. DOMAIN applied = DOMAIN reqs
      BY <3>1, LenProperties
    <3>. QED
      BY <3>1, <3>2, LenProperties, ElementOfSeq
  <2>. QED
    BY <2>1, <2>2, <2>3 DEF SessTypeOK, CountsTyped
<1>. QED
  BY <1>1, SessionsInvariant, PTL

\* As long as no session has written over rows that changed after it loaded them, a
\* company keeps at most one live row and its write access rests on it, however the
\* reviews, the expiry check and the scheduled changes overlap.
THEOREM FreshTablesAgree == SessSpec => []FreshAccess
<1>1. SessInv => FreshAccess
  BY DEF SessInv, Agreed, AccessInv, FreshAccess
<1>. QED
  BY <1>1, SessionsInvariant, PTL

\* Until then a plan is committed once for each request, and never for one that was
\* rejected, but for reviews between the commit of the plan and that of the decision
\* or ended there by a duplicate usage row (subscription_service.py:123, 361-408).
THEOREM FreshDecisionsHold == SessSpec => []FreshDecisions
<1>1. SessInv => FreshDecisions
  <2> SUFFICES ASSUME SessInv, ~stale, NEW r \in DOMAIN reqs
               PROVE  LET undecided == collisions + Cardinality(Applying(r)) IN
                      /\ reqs[r].status = "REJECTED" /\ applied[r] > 0 => undecided > 0
                      /\ applied[r] <= 1 + undecided
    BY DEF FreshDecisions
  <2>1. Due(r)
    BY DEF SessInv, DecisionsDue
  <2>2. /\ applied[r] \in Nat /\ collisions \in Nat /\ Cardinality(Applying(r)) \in Nat
    BY DueFacts DEF SessInv
  <2>. QED
    BY <2>1, <2>2 DEF Due
<1>. QED
  BY <1>1, SessionsInvariant, PTL

\* A used trial stays used in every step of every interleaving, stale or not: a
\* session that copies an old company row never clears the flag.
THEOREM TrialsStaySpent == SessSpec => TrialStaysSpent
<1>1. ASSUME SessInv, [SessNext]_allVars
      PROVE  \A c \in Companies :
               Registered(c) /\ company[c].trialUsed => company'[c].trialUsed
  BY <1>1, TypedNext DEF SessInv, TrialKept
<1>. QED
  BY <1>1, SessionsInvariant, PTL DEF SessSpec, TrialStaysSpent
=============================================================================
