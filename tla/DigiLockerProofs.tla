--------------------------- MODULE DigiLockerProofs ---------------------------
(***************************************************************************)
(* A row linked with a refresh token stays of one holder, a state lets one *)
(* callback through, and only sessions that overlap tear a row: for any    *)
(* number of employees, accounts, processes, sessions, states, issues and  *)
(* restarts.                                                               *)
(***************************************************************************)
EXTENDS DigiLocker, SequenceTheorems, TLAPS

-----------------------------------------------------------------------------
(* The invariant *)

\* Number n is none, or one that DigiLocker has issued.
IsIssued(n) == n \in {0} \cup DOMAIN grants

RowsIssued ==
  \A e \in Employees : \A n \in {row[e].access, row[e].refresh, row[e].id} : IsIssued(n)

\* What OneHolder says of a row.
Kept(r) == r.id = 0 \/ ~grants[r.id].refresh \/ OfOneHolder(r)

\* A session that refreshes shows the token it has read, and what it is issued is for
\* the holder of that token; what a session was issued is newer than what it has read.
SessionSound(s) ==
  /\ ~At(s, "idle") => sess[s].emp \in Employees /\ IsIssued(sess[s].read.refresh)
  /\ sess[s].at \in {"exchange", "ask"} => sess[s].holder \in Holders
  /\ sess[s].at \in {"ask", "refresh"} => /\ sess[s].read.linkedStatus
                                          /\ sess[s].read.refresh # 0
  /\ At(s, "ask") => sess[s].holder = grants[sess[s].read.refresh].holder
  /\ sess[s].at \in {"link", "refresh"} => /\ sess[s].grant \in DOMAIN grants
                                           /\ sess[s].read.refresh <= sess[s].grant
  /\ At(s, "refresh")
       => grants[sess[s].grant].holder = grants[sess[s].read.refresh].holder

SessionsSound == \A s \in Sessions : SessionSound(s)

\* An open state has let nobody through yet.
StatesFresh ==
  \A k \in DOMAIN states : taken[k] <= IF states[k].open THEN 0 ELSE 1

LinkInv ==
  /\ TypeOK /\ RowsIssued /\ SessionsSound /\ StatesFresh
  /\ OneHolder /\ OnlyRacesTear /\ TokensInOrder

-----------------------------------------------------------------------------
(* Rows of a table *)

LEMMA RowOfTable ==
  ASSUME NEW S, NEW rows \in Seq(S), NEW i \in DOMAIN rows
  PROVE  rows[i] \in S
BY LenProperties, ElementOfSeq

LEMMA InsertedRow ==
  ASSUME NEW S, NEW rows \in Seq(S), NEW e \in S
  PROVE  /\ Append(rows, e) \in Seq(S)
         /\ DOMAIN Append(rows, e) = DOMAIN rows \cup {Len(rows) + 1}
         /\ Len(rows) + 1 \notin DOMAIN rows
         /\ \A j \in DOMAIN rows : j <= Len(rows) /\ Append(rows, e)[j] = rows[j]
         /\ Append(rows, e)[Len(rows) + 1] = e
<1>1. Len(rows) \in Nat /\ DOMAIN rows = 1..Len(rows)
  BY LenProperties
<1>2. /\ Append(rows, e) \in Seq(S)
      /\ Len(Append(rows, e)) = Len(rows) + 1
      /\ \A j \in 1..Len(rows) : Append(rows, e)[j] = rows[j]
      /\ Append(rows, e)[Len(rows) + 1] = e
  BY AppendProperties
<1>3. DOMAIN Append(rows, e) = 1..(Len(rows) + 1)
  BY <1>2, LenProperties
<1>. QED
  BY <1>1, <1>2, <1>3

\* A table rewritten row by row.
LEMMA RewrittenRows ==
  ASSUME NEW S, NEW rows \in Seq(S), NEW f,
         f = [j \in DOMAIN rows |-> f[j]], \A j \in DOMAIN rows : f[j] \in S
  PROVE  f \in Seq(S)
<1>1. Len(rows) \in Nat /\ DOMAIN rows = 1..Len(rows)
  BY LenProperties
<1>2. f \in [1..Len(rows) -> S]
  BY <1>1
<1>. QED
  BY <1>1, <1>2, SeqDef

-----------------------------------------------------------------------------
(* What a step does to the sessions *)

\* The facts the other lemmas use of the invariant.
LEMMA LinkFacts ==
  ASSUME LinkInv
  PROVE  /\ \A e \in Employees : row[e] \in Credentials
         /\ \A s \in Sessions : sess[s] \in Session /\ SessionSound(s)
         /\ \A k \in DOMAIN states : states[k] \in StateRecord
         /\ \A n \in DOMAIN grants : n \in Nat \ {0} /\ grants[n] \in Grant
         /\ DOMAIN taken = DOMAIN states
         /\ Len(grants) \in Nat /\ DOMAIN grants = 1 .. Len(grants)
<1>1. /\ row \in [Employees -> Credentials] /\ sess \in [Sessions -> Session]
      /\ states \in Seq(StateRecord) /\ grants \in Seq(Grant)
      /\ DOMAIN taken = DOMAIN states
      /\ SessionsSound
  BY DEF LinkInv, TypeOK
<1>2. /\ \A k \in DOMAIN states : states[k] \in StateRecord
      /\ \A n \in DOMAIN grants : grants[n] \in Grant
  BY <1>1, RowOfTable
<1>3. Len(grants) \in Nat /\ DOMAIN grants = 1 .. Len(grants)
  BY <1>1, LenProperties
<1>. QED
  BY <1>1, <1>2, <1>3 DEF SessionsSound

\* One session changes; the others are as they were, or idle.
LEMMA SessionStep ==
  ASSUME LinkInv, NEW f, sess' = [s \in Sessions |-> f[s]],
         \A n \in DOMAIN grants : n \in DOMAIN grants' /\ grants'[n] = grants[n],
         \A s \in Sessions :
           \/ f[s] = sess[s] \/ f[s] = IdleSession
           \/ /\ f[s] \in Session /\ f[s].grant \in {0} \cup DOMAIN grants'
              /\ SessionSound(s)'
  PROVE  /\ sess' \in [Sessions -> Session]
         /\ \A s \in Sessions : sess'[s].grant \in {0} \cup DOMAIN grants'
         /\ SessionsSound'
<1>1. IdleSession \in Session /\ IdleSession.grant = 0 /\ IdleSession.at = "idle"
  BY DEF IdleSession, Session, Unlinked, Credentials
<1>2. \A s \in Sessions : /\ sess[s] \in Session /\ SessionSound(s)
                          /\ sess[s].grant \in {0} \cup DOMAIN grants
  BY LinkFacts DEF LinkInv, TypeOK
<1>3. ASSUME NEW s \in Sessions
      PROVE  /\ sess'[s] \in Session /\ sess'[s].grant \in {0} \cup DOMAIN grants'
             /\ SessionSound(s)'
  <2>1. sess'[s] = f[s]
    OBVIOUS
  <2>2. CASE f[s] = sess[s]
    BY <1>2, <2>1, <2>2 DEF SessionSound, IsIssued, At
  <2>3. CASE f[s] = IdleSession
    BY <1>1, <2>1, <2>3 DEF SessionSound, At
  <2>. QED
    BY <2>1, <2>2, <2>3
<1>. QED
  BY <1>3 DEF SessionsSound

LEMMA EndStep ==
  ASSUME LinkInv, NEW s \in Sessions, End(s), UNCHANGED grants
  PROVE  /\ sess' \in [Sessions -> Session]
         /\ \A t \in Sessions : sess'[t].grant \in {0} \cup DOMAIN grants'
         /\ SessionsSound'
<1>. DEFINE f == [t \in Sessions |-> IF t = s THEN IdleSession ELSE sess[t]]
<1>1. sess' = [t \in Sessions |-> f[t]]
  BY DEF End, LinkInv, TypeOK
<1>2. \A t \in Sessions : f[t] = sess[t] \/ f[t] = IdleSession
  OBVIOUS
<1>. HIDE DEF f
<1>. QED
  BY <1>1, <1>2, SessionStep

LEMMA BeginStep ==
  ASSUME LinkInv, NEW s \in Sessions, NEW step \in {"exchange", "ask", "unlink"},
         NEW e \in Employees, NEW p \in Procs, NEW holder \in Holders \cup {None},
         Begin(s, step, e, p, holder),
         step # "unlink" => holder \in Holders,
         step = "ask" => /\ row[e].linkedStatus /\ row[e].refresh # 0
                         /\ holder = grants[row[e].refresh].holder,
         UNCHANGED <<row, grants>>
  PROVE  /\ sess' \in [Sessions -> Session]
         /\ \A t \in Sessions : sess'[t].grant \in {0} \cup DOMAIN grants'
         /\ SessionsSound'
<1>. DEFINE x == [at |-> step, emp |-> e, proc |-> p, holder |-> holder,
                  read |-> row[e], grant |-> 0]
            f == [t \in Sessions |-> IF t = s THEN x ELSE sess[t]]
<1>1. /\ sess' = [t \in Sessions |-> f[t]]
      /\ sess'[s] = x
  BY DEF Begin, LinkInv, TypeOK
<1>2. row[e] \in Credentials /\ row[e].refresh \in {0} \cup DOMAIN grants
  BY LinkFacts DEF LinkInv, RowsIssued, IsIssued
<1>3. x \in Session /\ x.grant = 0
  BY <1>2 DEF Session
<1>4. SessionSound(s)'
  BY <1>1, <1>2 DEF SessionSound, IsIssued, At
<1>5. \A t \in Sessions : t # s => f[t] = sess[t]
  OBVIOUS
<1>6. f[s] = x
  OBVIOUS
<1>. HIDE DEF f, x
<1>. QED
  BY <1>1, <1>3, <1>4, <1>5, <1>6, SessionStep

LEMMA AnswerStep ==
  ASSUME LinkInv, NEW s \in Sessions, NEW next \in {"link", "refresh"},
         Answer(s, next),
         sess[s].at = IF next = "link" THEN "exchange" ELSE "ask"
  PROVE  /\ sess' \in [Sessions -> Session]
         /\ \A t \in Sessions : sess'[t].grant \in {0} \cup DOMAIN grants'
         /\ SessionsSound'
         /\ grants' \in Seq(Grant)
         /\ \A n \in DOMAIN grants : n \in DOMAIN grants' /\ grants'[n] = grants[n]
<1>0. grants \in Seq(Grant) /\ sess \in [Sessions -> Session]
  BY DEF LinkInv, TypeOK
<1>1. CASE End(s) /\ UNCHANGED grants
  BY <1>0, <1>1, EndStep
<1>2. ASSUME NEW refresh \in BOOLEAN,
             grants' = Append(grants, [holder |-> sess[s].holder, refresh |-> refresh]),
             sess' = [sess EXCEPT ![s] = [@ EXCEPT !.at = next, !.grant = Len(grants) + 1]]
      PROVE  /\ sess' \in [Sessions -> Session]
             /\ \A t \in Sessions : sess'[t].grant \in {0} \cup DOMAIN grants'
             /\ SessionsSound'
             /\ grants' \in Seq(Grant)
             /\ \A n \in DOMAIN grants : n \in DOMAIN grants' /\ grants'[n] = grants[n]
  <2>. DEFINE g == [holder |-> sess[s].holder, refresh |-> refresh]
              x == [sess[s] EXCEPT !.at = next, !.grant = Len(grants) + 1]
              f == [t \in Sessions |-> IF t = s THEN x ELSE sess[t]]
  <2>1. /\ sess[s] \in Session /\ sess[s].emp \in Employees /\ sess[s].holder \in Holders
        /\ sess[s].read.refresh \in {0} \cup DOMAIN grants
        /\ next = "refresh" =>
             /\ sess[s].read.linkedStatus /\ sess[s].read.refresh # 0
             /\ sess[s].holder = grants[sess[s].read.refresh].holder
    BY LinkFacts DEF SessionSound, IsIssued, At
  <2>2. g \in Grant /\ g.holder = sess[s].holder
    BY <2>1 DEF Grant
  <2>3. /\ grants' \in Seq(Grant)
        /\ DOMAIN grants' = DOMAIN grants \cup {Len(grants) + 1}
        /\ \A n \in DOMAIN grants : n <= Len(grants) /\ grants'[n] = grants[n]
        /\ grants'[Len(grants) + 1] = g
    BY <1>0, <1>2, <2>2, InsertedRow
  <2>4. /\ Len(grants) \in Nat /\ Len(grants) + 1 \in Nat
        /\ \A n \in DOMAIN grants : n \in Nat
    BY LinkFacts
  <2>5. /\ x \in Session /\ x.at = next /\ x.grant = Len(grants) + 1
        /\ x.emp = sess[s].emp /\ x.read = sess[s].read
    <3>1. PICK y \in Session, n \in Nat : y = sess[s] /\ n = Len(grants) + 1
      BY <2>1, <2>4
    <3>2. x = [y EXCEPT !.at = next, !.grant = n]
      BY <3>1
    <3>. HIDE DEF x
    <3>3. /\ x \in Session /\ x.at = next /\ x.grant = n
          /\ x.emp = y.emp /\ x.read = y.read
      BY <3>2 DEF Session
    <3>. QED
      BY <3>1, <3>3
  <2>6. sess' = [t \in Sessions |-> f[t]] /\ sess'[s] = x
    BY <1>0, <1>2
  <2>7. f[s] = x /\ \A t \in Sessions : t # s => f[t] = sess[t]
    OBVIOUS
  <2>. HIDE DEF f, x, g
  <2>8. SessionSound(s)'
    BY <2>1, <2>2, <2>3, <2>4, <2>5, <2>6, SMTT(30) DEF SessionSound, IsIssued, At
  <2>. QED
    BY <2>3, <2>5, <2>6, <2>7, <2>8, SessionStep
<1>. QED
  BY <1>1, <1>2 DEF Answer

-----------------------------------------------------------------------------
(* What a step does to the rows *)

\* One row is written, with tokens that are the employee's.
LEMMA WriteStep ==
  ASSUME LinkInv, NEW e \in Employees, NEW new \in Credentials, NEW race \in BOOLEAN,
         row' = [row EXCEPT ![e] = new],
         raced' = [raced EXCEPT ![e] = race],
         \A n \in {new.access, new.refresh, new.id} : IsIssued(n),
         ~race => Whole(new) /\ Kept(new) /\ new.refresh <= new.access,
         UNCHANGED grants
  PROVE  /\ row' \in [Employees -> Credentials]
         /\ raced' \in [Employees -> BOOLEAN]
         /\ RowsIssued' /\ OneHolder' /\ OnlyRacesTear' /\ TokensInOrder'
<1>1. row \in [Employees -> Credentials] /\ raced \in [Employees -> BOOLEAN]
  BY DEF LinkInv, TypeOK
<1>2. /\ \A d \in Employees : row'[d] = IF d = e THEN new ELSE row[d]
      /\ \A d \in Employees : raced'[d] = IF d = e THEN race ELSE raced[d]
  BY <1>1
<1>3. row' \in [Employees -> Credentials]
  BY <1>1
<1>4. raced' \in [Employees -> BOOLEAN]
  BY <1>1
<1>5. RowsIssued'
  BY <1>2 DEF LinkInv, RowsIssued, IsIssued
<1>6. OnlyRacesTear'
  BY <1>2 DEF LinkInv, OnlyRacesTear
<1>7. TokensInOrder'
  BY <1>2 DEF LinkInv, TokensInOrder
<1>8. OneHolder'
  BY <1>2 DEF LinkInv, OneHolder, Kept, OfOneHolder
<1>. QED
  BY <1>3, <1>4, <1>5, <1>6, <1>7, <1>8

\* The rows and the states are as they were.
LEMMA SameRows ==
  ASSUME LinkInv, UNCHANGED <<row, raced>>,
         \A n \in DOMAIN grants : n \in DOMAIN grants' /\ grants'[n] = grants[n]
  PROVE  /\ row' \in [Employees -> Credentials]
         /\ raced' \in [Employees -> BOOLEAN]
         /\ RowsIssued' /\ OneHolder' /\ OnlyRacesTear' /\ TokensInOrder'
<1>1. RowsIssued'
  BY DEF LinkInv, RowsIssued, IsIssued
<1>2. OneHolder'
  <2>1. ASSUME NEW e \in Employees, ~raced[e], row[e].id # 0
        PROVE  Kept(row[e])'
    <3>1. /\ Kept(row[e]) /\ row[e].id \in DOMAIN grants
          /\ \A n \in {row[e].access, row[e].refresh} : n # 0 => n \in DOMAIN grants
      BY <2>1 DEF LinkInv, OneHolder, Kept, RowsIssued, IsIssued
    <3>. QED
      BY <2>1, <3>1 DEF Kept, OfOneHolder
  <2>. QED
    BY <2>1 DEF OneHolder, Kept
<1>. QED
  BY <1>1, <1>2 DEF LinkInv, TypeOK, OnlyRacesTear, TokensInOrder

LEMMA SameStates ==
  ASSUME LinkInv, UNCHANGED <<states, taken>>
  PROVE  /\ states' \in Seq(StateRecord) /\ taken' \in Seq(Nat)
         /\ DOMAIN taken' = DOMAIN states' /\ StatesFresh'
BY DEF LinkInv, TypeOK, StatesFresh

\* What the session that commits knows, and what it may write.
LEMMA CommitFacts ==
  ASSUME LinkInv, NEW s \in Sessions, sess[s].at \in {"link", "refresh", "unlink"}
  PROVE  /\ sess[s].emp \in Employees /\ sess[s].read \in Credentials
         /\ row[sess[s].emp] \in Credentials
         /\ \A n \in {row[sess[s].emp].access, row[sess[s].emp].refresh,
                      row[sess[s].emp].id} : IsIssued(n)
         /\ raced[sess[s].emp] \/ Whole(row[sess[s].emp])
         /\ raced[sess[s].emp] \/ Kept(row[sess[s].emp])
         /\ raced[sess[s].emp]
            \/ row[sess[s].emp].refresh <= row[sess[s].emp].access
         /\ raced[sess[s].emp] \in BOOLEAN
<1>1. sess[s] \in Session /\ sess[s].emp \in Employees
  BY LinkFacts DEF SessionSound, At
<1>2. sess[s].read \in Credentials
  BY <1>1 DEF Session
<1>3. raced[sess[s].emp] \/ Kept(row[sess[s].emp])
  BY <1>1 DEF LinkInv, OneHolder, Kept
<1>4. /\ \A n \in {row[sess[s].emp].access, row[sess[s].emp].refresh,
                row[sess[s].emp].id} : IsIssued(n)
      /\ row[sess[s].emp] \in Credentials
  BY <1>1, LinkFacts DEF LinkInv, RowsIssued
<1>5. /\ raced[sess[s].emp] \/ Whole(row[sess[s].emp])
      /\ raced[sess[s].emp] \/ row[sess[s].emp].refresh <= row[sess[s].emp].access
      /\ raced[sess[s].emp] \in BOOLEAN
  BY <1>1 DEF LinkInv, OnlyRacesTear, TokensInOrder, TypeOK
<1>. QED
  BY <1>1, <1>2, <1>3, <1>4, <1>5

LEMMA LinkedRow ==
  ASSUME NEW r \in Credentials, NEW read \in Credentials, NEW n \in Nat, n # 0
  PROVE  LET l == Linked(r, read, n) IN
         /\ l \in Credentials
         /\ l.access = n /\ l.id = n /\ l.expiry = n /\ l.linked = n
         /\ l.refresh \in {n, r.refresh}
         /\ read = r => l.linkedStatus
BY DEF Linked, Credentials

LEMMA LinkedRefresh ==
  ASSUME NEW r \in Credentials, NEW read \in Credentials, NEW n \in Nat, grants[n].refresh
  PROVE  Linked(r, read, n).refresh = n
BY DEF Linked, Credentials

LEMMA RefreshedRow ==
  ASSUME NEW r \in Credentials, NEW n \in Nat, n # 0
  PROVE  LET l == Refreshed(r, n) IN
         /\ l \in Credentials
         /\ l.access = n /\ l.expiry = n /\ l.id = r.id /\ l.linked = r.linked
         /\ l.refresh \in {n, r.refresh}
         /\ l.linkedStatus = r.linkedStatus
BY DEF Refreshed, Credentials

LEMMA ClearedRow ==
  ASSUME NEW r \in Credentials, NEW read \in Credentials
  PROVE  LET l == Cleared(r, read) IN
         /\ l \in Credentials
         /\ l.access \in {0, r.access} /\ l.refresh \in {0, r.refresh}
         /\ l.id \in {0, r.id}
         /\ read = r => l = Unlinked
<1>1. Unlinked \in Credentials
  BY DEF Unlinked, Credentials
<1>. QED
  BY <1>1 DEF Cleared, Unlinked, Credentials

LEMMA SaveSessions ==
  ASSUME LinkInv, NEW s \in Sessions, End(s), UNCHANGED <<states, grants, crashes, taken>>,
         row' \in [Employees -> Credentials], raced' \in [Employees -> BOOLEAN],
         RowsIssued', OneHolder', OnlyRacesTear', TokensInOrder'
  PROVE  LinkInv'
<1>1. /\ sess' \in [Sessions -> Session]
      /\ \A t \in Sessions : sess'[t].grant \in {0} \cup DOMAIN grants'
      /\ SessionsSound'
  BY EndStep
<1>2. /\ states' \in Seq(StateRecord) /\ taken' \in Seq(Nat)
      /\ DOMAIN taken' = DOMAIN states' /\ StatesFresh'
  BY SameStates
<1>. QED
  BY <1>1, <1>2 DEF LinkInv, TypeOK

LEMMA LinkCallback ==
  ASSUME LinkInv, NEW s \in Sessions, CallbackSave(s)
  PROVE  LinkInv'
<1>. DEFINE e == sess[s].emp
            n == sess[s].grant
            new == Linked(row[e], sess[s].read, n)
            race == Stale(s)
<1>1. /\ sess[s].at = "link"
      /\ row' = [row EXCEPT ![e] = new] /\ raced' = [raced EXCEPT ![e] = race]
      /\ End(s) /\ UNCHANGED <<states, grants, crashes, taken>>
  BY DEF CallbackSave, At
<1>2. /\ e \in Employees /\ sess[s].read \in Credentials /\ row[e] \in Credentials
      /\ \A k \in {row[e].access, row[e].refresh, row[e].id} : IsIssued(k)
  BY <1>1, CommitFacts
<1>3. /\ n # 0 /\ IsIssued(n) /\ sess[s].read.refresh <= n /\ n \in Nat
  BY <1>1, LinkFacts DEF SessionSound, IsIssued
<1>4. /\ new \in Credentials
      /\ new.access = n /\ new.id = n /\ new.expiry = n /\ new.linked = n
      /\ new.refresh \in {n, row[e].refresh}
      /\ sess[s].read = row[e] => new.linkedStatus
  BY <1>2, <1>3, LinkedRow
<1>5. race \in BOOLEAN /\ (~race => sess[s].read = row[e])
  BY DEF Stale
<1>6. ASSUME grants[n].refresh PROVE new.refresh = n
  BY <1>2, <1>3, <1>6, LinkedRefresh
<1>. HIDE DEF e, n, new, race
<1>7. \A k \in {new.access, new.refresh, new.id} : IsIssued(k)
  BY <1>2, <1>3, <1>4
<1>8. ~race => Whole(new) /\ Kept(new) /\ new.refresh <= new.access
  BY <1>3, <1>4, <1>5, <1>6 DEF Whole, Kept, OfOneHolder
<1>9. /\ row' \in [Employees -> Credentials] /\ raced' \in [Employees -> BOOLEAN]
      /\ RowsIssued' /\ OneHolder' /\ OnlyRacesTear' /\ TokensInOrder'
  BY <1>1, <1>2, <1>4, <1>5, <1>7, <1>8, WriteStep
<1>. QED
  BY <1>1, <1>9, SaveSessions

LEMMA LinkRefresh ==
  ASSUME LinkInv, NEW s \in Sessions, RefreshSave(s)
  PROVE  LinkInv'
<1>. DEFINE e == sess[s].emp
            n == sess[s].grant
            new == Refreshed(row[e], n)
            race == raced[e] \/ Stale(s)
<1>1. /\ sess[s].at = "refresh"
      /\ row' = [row EXCEPT ![e] = new] /\ raced' = [raced EXCEPT ![e] = race]
      /\ End(s) /\ UNCHANGED <<states, grants, crashes, taken>>
  BY DEF RefreshSave, At
<1>2. /\ e \in Employees /\ sess[s].read \in Credentials /\ row[e] \in Credentials
      /\ \A k \in {row[e].access, row[e].refresh, row[e].id} : IsIssued(k)
      /\ raced[e] \/ Whole(row[e])
      /\ raced[e] \/ Kept(row[e])
      /\ raced[e] \in BOOLEAN
  BY <1>1, CommitFacts
<1>3. /\ n # 0 /\ IsIssued(n) /\ sess[s].read.refresh <= n /\ n \in Nat
      /\ sess[s].read.linkedStatus
      /\ grants[n].holder = grants[sess[s].read.refresh].holder
  BY <1>1, LinkFacts DEF SessionSound, IsIssued, At
<1>4. /\ new \in Credentials
      /\ new.access = n /\ new.expiry = n
      /\ new.id = row[e].id /\ new.linked = row[e].linked
      /\ new.refresh \in {n, row[e].refresh}
      /\ new.linkedStatus = row[e].linkedStatus
  BY <1>2, <1>3, RefreshedRow
<1>5. race \in BOOLEAN /\ (~race => ~raced[e] /\ sess[s].read = row[e])
  BY <1>2 DEF Stale
<1>. HIDE DEF e, n, new, race
<1>6. \A k \in {new.access, new.refresh, new.id} : IsIssued(k)
  BY <1>2, <1>3, <1>4
<1>7. ASSUME ~race
      PROVE  Whole(new) /\ Kept(new) /\ new.refresh <= new.access
  <2>1. /\ row[e].linkedStatus /\ row[e].refresh <= n
        /\ Whole(row[e]) /\ Kept(row[e])
        /\ grants[n].holder = grants[row[e].refresh].holder
    BY <1>2, <1>3, <1>5, <1>7
  <2>2. row[e] # Unlinked
    BY <2>1 DEF Unlinked
  <2>3. Kept(new)
    BY <1>3, <1>4, <2>1 DEF Kept, OfOneHolder
  <2>. QED
    BY <1>3, <1>4, <2>1, <2>2, <2>3 DEF Whole
<1>8. /\ row' \in [Employees -> Credentials] /\ raced' \in [Employees -> BOOLEAN]
      /\ RowsIssued' /\ OneHolder' /\ OnlyRacesTear' /\ TokensInOrder'
  BY <1>1, <1>2, <1>4, <1>5, <1>6, <1>7, WriteStep
<1>. QED
  BY <1>1, <1>8, SaveSessions

LEMMA LinkUnlink ==
  ASSUME LinkInv, NEW s \in Sessions, UnlinkSave(s)
  PROVE  LinkInv'
<1>. DEFINE e == sess[s].emp
            new == Cleared(row[e], sess[s].read)
            race == Stale(s)
<1>1. /\ sess[s].at = "unlink"
      /\ row' = [row EXCEPT ![e] = new] /\ raced' = [raced EXCEPT ![e] = race]
      /\ End(s) /\ UNCHANGED <<states, grants, crashes, taken>>
  BY DEF UnlinkSave, At
<1>2. /\ e \in Employees /\ sess[s].read \in Credentials /\ row[e] \in Credentials
      /\ \A k \in {row[e].access, row[e].refresh, row[e].id} : IsIssued(k)
  BY <1>1, CommitFacts
<1>3. /\ new \in Credentials
      /\ new.access \in {0, row[e].access} /\ new.refresh \in {0, row[e].refresh}
      /\ new.id \in {0, row[e].id}
      /\ sess[s].read = row[e] => new = Unlinked
  BY <1>2, ClearedRow
<1>4. race \in BOOLEAN /\ (~race => sess[s].read = row[e])
  BY DEF Stale
<1>. HIDE DEF e, new, race
<1>5. \A k \in {new.access, new.refresh, new.id} : IsIssued(k)
  BY <1>2, <1>3 DEF IsIssued
<1>6. ~race => Whole(new) /\ Kept(new) /\ new.refresh <= new.access
  BY <1>3, <1>4 DEF Whole, Kept, Unlinked
<1>7. /\ row' \in [Employees -> Credentials] /\ raced' \in [Employees -> BOOLEAN]
      /\ RowsIssued' /\ OneHolder' /\ OnlyRacesTear' /\ TokensInOrder'
  BY <1>1, <1>2, <1>3, <1>4, <1>5, <1>6, WriteStep
<1>. QED
  BY <1>1, <1>7, SaveSessions

-----------------------------------------------------------------------------
(* The other steps *)

LEMMA LinkAuthorize ==
  ASSUME LinkInv, NEW e \in Employees, NEW p \in Procs, Authorize(e, p)
  PROVE  LinkInv'
<1>. DEFINE x == [emp |-> e, proc |-> p, open |-> TRUE]
<1>1. /\ states' = Append(states, x) /\ taken' = Append(taken, 0)
      /\ UNCHANGED <<row, sess, grants, crashes, raced>>
  BY DEF Authorize
<1>2. /\ states \in Seq(StateRecord) /\ taken \in Seq(Nat)
      /\ DOMAIN taken = DOMAIN states /\ StatesFresh
      /\ x \in StateRecord /\ x.open
  BY DEF LinkInv, TypeOK, StateRecord
<1>. HIDE DEF x
<1>3. Len(taken) = Len(states)
  BY <1>2, LenProperties
<1>4. /\ states' \in Seq(StateRecord)
      /\ DOMAIN states' = DOMAIN states \cup {Len(states) + 1}
      /\ \A k \in DOMAIN states : states'[k] = states[k]
      /\ states'[Len(states) + 1] = x
  BY <1>1, <1>2, InsertedRow
<1>5. /\ taken' \in Seq(Nat)
      /\ DOMAIN taken' = DOMAIN taken \cup {Len(states) + 1}
      /\ \A k \in DOMAIN taken : taken'[k] = taken[k]
      /\ taken'[Len(states) + 1] = 0
  BY <1>1, <1>2, <1>3, InsertedRow
<1>6. StatesFresh'
  BY <1>2, <1>4, <1>5 DEF StatesFresh
<1>7. /\ row' \in [Employees -> Credentials] /\ raced' \in [Employees -> BOOLEAN]
      /\ RowsIssued' /\ OneHolder' /\ OnlyRacesTear' /\ TokensInOrder'
  BY <1>1, SameRows
<1>8. SessionsSound'
  BY <1>1 DEF LinkInv, SessionsSound, SessionSound, IsIssued, At
<1>. QED
  BY <1>1, <1>2, <1>4, <1>5, <1>6, <1>7, <1>8 DEF LinkInv, TypeOK

LEMMA LinkStart ==
  ASSUME LinkInv, NEW s \in Sessions, NEW k \in DOMAIN states,
         NEW holder \in Holders, CallbackStart(s, k, holder)
  PROVE  LinkInv'
<1>1. /\ states[k].open /\ states[k] \in StateRecord
      /\ states' = [states EXCEPT ![k].open = FALSE]
      /\ taken' = [taken EXCEPT ![k] = @ + 1]
      /\ Begin(s, "exchange", states[k].emp, states[k].proc, holder)
      /\ UNCHANGED <<row, grants, crashes, raced>>
  BY LinkFacts DEF CallbackStart
<1>2. states[k].emp \in Employees /\ states[k].proc \in Procs
  BY <1>1 DEF StateRecord
<1>3. /\ sess' \in [Sessions -> Session]
      /\ \A t \in Sessions : sess'[t].grant \in {0} \cup DOMAIN grants'
      /\ SessionsSound'
  BY <1>1, <1>2, BeginStep
<1>4. /\ states \in Seq(StateRecord) /\ taken \in Seq(Nat)
      /\ DOMAIN taken = DOMAIN states /\ StatesFresh
      /\ taken[k] = 0
  <2>1. taken \in Seq(Nat) /\ k \in DOMAIN taken /\ taken[k] <= 0
    BY <1>1 DEF LinkInv, TypeOK, StatesFresh
  <2>2. taken[k] \in Nat
    BY <2>1, RowOfTable
  <2>. QED
    BY <2>1, <2>2 DEF LinkInv, TypeOK
<1>. DEFINE x == [states[k] EXCEPT !.open = FALSE]
<1>5. x \in StateRecord /\ ~x.open
  BY <1>1 DEF StateRecord
<1>6. /\ states' \in Seq(StateRecord) /\ DOMAIN states' = DOMAIN states
      /\ \A j \in DOMAIN states : states'[j] = IF j = k THEN x ELSE states[j]
  BY <1>1, <1>4, <1>5, ExceptSeq, LenProperties
<1>7. /\ taken' \in Seq(Nat) /\ DOMAIN taken' = DOMAIN taken
      /\ \A j \in DOMAIN taken : taken'[j] = IF j = k THEN 1 ELSE taken[j]
  <2>1. taken' = [taken EXCEPT ![k] = 1]
    BY <1>1, <1>4
  <2>. QED
    BY <1>4, <2>1, ExceptSeq, LenProperties
<1>. HIDE DEF x
<1>8. StatesFresh'
  BY <1>4, <1>5, <1>6, <1>7 DEF StatesFresh
<1>9. /\ row' \in [Employees -> Credentials] /\ raced' \in [Employees -> BOOLEAN]
      /\ RowsIssued' /\ OneHolder' /\ OnlyRacesTear' /\ TokensInOrder'
  BY <1>1, SameRows
<1>. QED
  BY <1>1, <1>3, <1>4, <1>6, <1>7, <1>8, <1>9 DEF LinkInv, TypeOK

LEMMA LinkAnswer ==
  ASSUME LinkInv, NEW s \in Sessions, Exchange(s) \/ RefreshAnswer(s)
  PROVE  LinkInv'
<1>1. UNCHANGED <<row, states, crashes, taken, raced>>
  BY DEF Exchange, RefreshAnswer
<1>2. \E next \in {"link", "refresh"} :
         Answer(s, next) /\ sess[s].at = IF next = "link" THEN "exchange" ELSE "ask"
  BY DEF Exchange, RefreshAnswer, At
<1>3. /\ sess' \in [Sessions -> Session]
      /\ \A t \in Sessions : sess'[t].grant \in {0} \cup DOMAIN grants'
      /\ SessionsSound'
      /\ grants' \in Seq(Grant)
      /\ \A n \in DOMAIN grants : n \in DOMAIN grants' /\ grants'[n] = grants[n]
  BY <1>2, AnswerStep
<1>4. /\ row' \in [Employees -> Credentials] /\ raced' \in [Employees -> BOOLEAN]
      /\ RowsIssued' /\ OneHolder' /\ OnlyRacesTear' /\ TokensInOrder'
  BY <1>1, <1>3, SameRows
<1>. QED
  BY <1>1, <1>3, <1>4, SameStates DEF LinkInv, TypeOK

LEMMA LinkBegin ==
  ASSUME LinkInv, NEW s \in Sessions, NEW e \in Employees, NEW p \in Procs,
         RefreshStart(s, e, p) \/ UnlinkStart(s, e, p)
  PROVE  LinkInv'
<1>1. UNCHANGED <<row, states, grants, crashes, taken, raced>>
  BY DEF RefreshStart, UnlinkStart
<1>2. \/ /\ Begin(s, "ask", e, p, grants[row[e].refresh].holder)
         /\ row[e].linkedStatus /\ row[e].refresh # 0
         /\ grants[row[e].refresh].holder \in Holders
      \/ Begin(s, "unlink", e, p, None)
  <2>1. CASE RefreshStart(s, e, p)
    <3>1. row[e].refresh # 0 /\ IsIssued(row[e].refresh)
      BY <2>1 DEF RefreshStart, LinkInv, RowsIssued
    <3>2. grants[row[e].refresh] \in Grant
      BY <3>1, LinkFacts DEF IsIssued
    <3>. QED
      BY <2>1, <3>1, <3>2 DEF RefreshStart, Grant
  <2>2. CASE UnlinkStart(s, e, p)
    BY <2>2 DEF UnlinkStart
  <2>. QED
    BY <2>1, <2>2
<1>3. /\ sess' \in [Sessions -> Session]
      /\ \A t \in Sessions : sess'[t].grant \in {0} \cup DOMAIN grants'
      /\ SessionsSound'
  BY <1>1, <1>2, BeginStep
<1>4. /\ row' \in [Employees -> Credentials] /\ raced' \in [Employees -> BOOLEAN]
      /\ RowsIssued' /\ OneHolder' /\ OnlyRacesTear' /\ TokensInOrder'
  BY <1>1, SameRows
<1>. QED
  BY <1>1, <1>3, <1>4, SameStates DEF LinkInv, TypeOK

\* A restart closes states and forgets sessions.
LEMMA LinkRestart ==
  ASSUME LinkInv, NEW p \in Procs, Restart(p)
  PROVE  LinkInv'
<1>. DEFINE f == [k \in DOMAIN states |->
                    [states[k] EXCEPT !.open = @ /\ states[k].proc # p]]
            g == [s \in Sessions |-> IF sess[s].proc = p THEN IdleSession ELSE sess[s]]
<1>1. /\ states' = f /\ sess' = [s \in Sessions |-> g[s]]
      /\ crashes' = crashes + 1 /\ UNCHANGED <<row, grants, taken, raced>>
  BY DEF Restart
<1>2. \A k \in DOMAIN states : f[k] \in StateRecord /\ (f[k].open => states[k].open)
  <2>1. ASSUME NEW k \in DOMAIN states
        PROVE  f[k] \in StateRecord /\ (f[k].open => states[k].open)
    <3>1. states[k] \in StateRecord
      BY LinkFacts
    <3>2. f[k] = [states[k] EXCEPT !.open = states[k].open /\ states[k].proc # p]
      OBVIOUS
    <3>. HIDE DEF f
    <3>. QED
      BY <3>1, <3>2 DEF StateRecord
  <2>. QED
    BY <2>1
<1>3. DOMAIN f = DOMAIN states /\ f = [k \in DOMAIN states |-> f[k]]
  OBVIOUS
<1>4. \A s \in Sessions : g[s] = sess[s] \/ g[s] = IdleSession
  OBVIOUS
<1>. HIDE DEF f, g
<1>5. /\ states' \in Seq(StateRecord) /\ DOMAIN states' = DOMAIN states
      /\ taken' \in Seq(Nat) /\ DOMAIN taken' = DOMAIN taken
  BY <1>1, <1>2, <1>3, RewrittenRows DEF LinkInv, TypeOK
<1>6. StatesFresh'
  <2>1. ASSUME NEW k \in DOMAIN states
        PROVE  taken[k] <= IF f[k].open THEN 0 ELSE 1
    <3>1. /\ taken[k] <= IF states[k].open THEN 0 ELSE 1
          /\ taken[k] \in Nat
      BY RowOfTable DEF LinkInv, TypeOK, StatesFresh
    <3>. QED
      BY <1>2, <3>1
  <2>. QED
    BY <1>1, <1>5, <2>1 DEF StatesFresh
<1>7. /\ sess' \in [Sessions -> Session]
      /\ \A t \in Sessions : sess'[t].grant \in {0} \cup DOMAIN grants'
      /\ SessionsSound'
  BY <1>1, <1>4, SessionStep
<1>8. /\ row' \in [Employees -> Credentials] /\ raced' \in [Employees -> BOOLEAN]
      /\ RowsIssued' /\ OneHolder' /\ OnlyRacesTear' /\ TokensInOrder'
  BY <1>1, SameRows
<1>. QED
  BY <1>1, <1>5, <1>6, <1>7, <1>8 DEF LinkInv, TypeOK

LEMMA LinkInit == Init => LinkInv
<1>1. ASSUME Init PROVE LinkInv
  <2>1. /\ states \in Seq(StateRecord) /\ grants \in Seq(Grant) /\ taken \in Seq(Nat)
        /\ DOMAIN states = {} /\ DOMAIN taken = {}
    BY <1>1, EmptySeq, LenProperties DEF Init
  <2>2. Unlinked \in Credentials /\ IdleSession \in Session
    BY DEF Unlinked, Credentials, IdleSession, Session
  <2>3. IdleSession.at = "idle" /\ IdleSession.grant = 0
    BY DEF IdleSession
  <2>4. TypeOK
    BY <1>1, <2>1, <2>2, <2>3 DEF Init, TypeOK
  <2>5. RowsIssued /\ OneHolder /\ TokensInOrder
    BY <1>1 DEF Init, RowsIssued, OneHolder, TokensInOrder, Unlinked, IsIssued
  <2>6. OnlyRacesTear
    BY <1>1 DEF Init, OnlyRacesTear, Whole
  <2>7. SessionsSound /\ StatesFresh
    BY <1>1, <2>1, <2>3 DEF Init, SessionsSound, SessionSound, At, StatesFresh
  <2>. QED
    BY <2>4, <2>5, <2>6, <2>7 DEF LinkInv
<1>. QED
  BY <1>1

LEMMA LinkNext ==
  ASSUME LinkInv, [Next]_vars
  PROVE  LinkInv'
<1>1. CASE UNCHANGED vars
  BY <1>1 DEF vars, LinkInv, TypeOK, RowsIssued, SessionsSound, SessionSound, IsIssued, At,
              StatesFresh, OneHolder, OfOneHolder, OnlyRacesTear, TokensInOrder
<1>2. ASSUME NEW e \in Employees, EmployeeRequest(e) PROVE LinkInv'
  BY <1>2, LinkAuthorize, LinkBegin DEF EmployeeRequest
<1>. QED
  BY <1>1, <1>2, LinkStart, LinkAnswer, LinkCallback, LinkRefresh, LinkUnlink, LinkRestart
     DEF Next

LEMMA LinkAlways == Spec => []LinkInv
<1>1. LinkInv /\ [Next]_vars => LinkInv'
  BY LinkNext
<1>. QED
  BY <1>1, LinkInit, PTL DEF Spec

-----------------------------------------------------------------------------
(* The theorems *)

\* The credential columns, the states, the sessions and the issues stay well typed.
THEOREM TypeCorrect == Spec => []TypeOK
<1>1. LinkInv => TypeOK
  BY DEF LinkInv
<1>. QED
  BY <1>1, LinkAlways, PTL

\* Whosever codes the callbacks bring: id, access and refresh token of a row linked
\* with a refresh token stay those of one DigiLocker account, through refreshes and
\* links of other accounts, unless two sessions raced.
THEOREM RowsAreOfOneHolder == Spec => []OneHolder
<1>1. LinkInv => OneHolder
  BY DEF LinkInv
<1>. QED
  BY <1>1, LinkAlways, PTL

\* A state lets one callback through, in all processes and whenever they restart.
THEOREM StatesAreUsedOnce == Spec => []StateUsedOnce
<1>1. ASSUME LinkInv PROVE StateUsedOnce
  <2>1. \A k \in DOMAIN states : taken[k] \in Nat
    BY <1>1, RowOfTable DEF LinkInv, TypeOK
  <2>. QED
    BY <1>1, <2>1 DEF LinkInv, StatesFresh, StateUsedOnce
<1>. QED
  BY <1>1, LinkAlways, PTL

\* A row is linked or unlinked as a whole, unless it was last written over a
\* change that its session had not seen.
THEOREM RacesAloneTear == Spec => []OnlyRacesTear
<1>1. LinkInv => OnlyRacesTear
  BY DEF LinkInv
<1>. QED
  BY <1>1, LinkAlways, PTL

\* Unless two sessions raced, the access token of a row is at least as new as the
\* refresh token beside it.
THEOREM TokensAreInOrder == Spec => []TokensInOrder
<1>1. LinkInv => TokensInOrder
  BY DEF LinkInv
<1>. QED
  BY <1>1, LinkAlways, PTL
=============================================================================
