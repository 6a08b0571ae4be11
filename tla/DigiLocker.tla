----------------------------- MODULE DigiLocker -----------------------------
(***************************************************************************)
(* Linking an employee's DigiLocker account:                               *)
(* app/services/digilocker_service.py with its routes, and the credential  *)
(* columns of employees (app/repositories/employee_repository.py).         *)
(*                                                                         *)
(* A session reads the employee's row, may ask DigiLocker for tokens (up   *)
(* to 30 seconds), and then commits the columns it changed since it read   *)
(* them.  The OAuth states live in the memory of the process that made     *)
(* them.  What DigiLocker issues together carries one number, and issues   *)
(* are numbered in the order DigiLocker makes them; each is for the holder *)
(* of one DigiLocker account, whom the service never compares with the     *)
(* employee.                                                               *)
(***************************************************************************)
EXTENDS Naturals, Sequences

CONSTANTS
  Employees, Procs, Sessions,
  Holders,    \* DigiLocker accounts, by holder
  None,       \* the employee of an idle session
  MaxStates, MaxGrants, MaxCrashes    \* bounds for TLC

ASSUME DigiLockerAssumption ==
  /\ None \notin Employees \cup Holders
  /\ MaxStates \in Nat /\ MaxGrants \in Nat /\ MaxCrashes \in Nat

\* The credential columns: the number of the issue they come from, 0 for NULL.
\* linked is digilocker_linked_at, linkedStatus is digilocker_status = LINKED.
Credentials == [id : Nat, access : Nat, refresh : Nat, expiry : Nat,
                linkedStatus : BOOLEAN, linked : Nat]

Unlinked == [id |-> 0, access |-> 0, refresh |-> 0, expiry |-> 0,
             linkedStatus |-> FALSE, linked |-> 0]

VARIABLES
  row,        \* the credential columns of each employee
  states,     \* _oauth_state_store of all processes; a popped state is not open
  sess,       \* what each session has read, and where it is
  grants,     \* what DigiLocker has issued: to whom, with a refresh token?
  crashes,
  taken,      \* history: how many callbacks have passed with a state
  raced       \* history: the row was last written over a change not seen

vars == <<row, states, sess, grants, crashes, taken, raced>>

StateRecord == [emp : Employees, proc : Procs, open : BOOLEAN]
Grant == [holder : Holders, refresh : BOOLEAN]

Session == [at : {"idle", "exchange", "link", "ask", "refresh", "unlink"},
            emp : Employees \cup {None}, proc : Procs \cup {None},
            holder : Holders \cup {None}, read : Credentials, grant : Nat]

IdleSession == [at |-> "idle", emp |-> None, proc |-> None, holder |-> None,
                read |-> Unlinked, grant |-> 0]

TypeOK ==
  /\ row \in [Employees -> Credentials]
  /\ states \in Seq(StateRecord)
  /\ sess \in [Sessions -> Session]
  /\ grants \in Seq(Grant)
  /\ \A s \in Sessions : sess[s].grant \in {0} \cup DOMAIN grants
  /\ taken \in Seq(Nat) /\ DOMAIN taken = DOMAIN states
  /\ raced \in [Employees -> BOOLEAN]
  /\ crashes \in Nat

Init ==
  /\ row = [e \in Employees |-> Unlinked]
  /\ states = <<>> /\ grants = <<>> /\ taken = <<>>
  /\ sess = [s \in Sessions |-> IdleSession]
  /\ raced = [e \in Employees |-> FALSE]
  /\ crashes = 0

-----------------------------------------------------------------------------
At(s, step) == sess[s].at = step

\* A handler starts with the employee's row as it is now; holder is whose code or
\* refresh token it will show to DigiLocker.
Begin(s, step, e, p, holder) ==
  /\ At(s, "idle")
  /\ sess' = [sess EXCEPT ![s] = [at |-> step, emp |-> e, proc |-> p,
                        holder |-> holder, read |-> row[e], grant |-> 0]]

End(s) == sess' = [sess EXCEPT ![s] = IdleSession]

Stale(s) == sess[s].read # row[sess[s].emp]

\* mutant: an answer without a token is taken for one
AnswerInvented(s, next) ==
  /\ sess' = [sess EXCEPT ![s] = [@ EXCEPT !.at = next, !.grant = Len(grants) + 1]]
  /\ UNCHANGED grants

\* DigiLocker issues tokens, with or without a refresh token; or it answers
\* without a token, with an error or not at all.
Answer(s, next) ==
  \/ /\ Len(grants) < MaxGrants
     /\ \E refresh \in BOOLEAN :
          grants' = Append(grants, [holder |-> sess[s].holder, refresh |-> refresh])
     /\ sess' = [sess EXCEPT ![s] = [@ EXCEPT !.at = next,
                                              !.grant = Len(grants) + 1]]
  \/ End(s) /\ UNCHANGED grants

-----------------------------------------------------------------------------
(* authorize, callback *)

Authorize(e, p) ==
  /\ Len(states) < MaxStates
  /\ states' = Append(states, [emp |-> e, proc |-> p, open |-> TRUE])
  /\ taken' = Append(taken, 0)
  /\ UNCHANGED <<row, sess, grants, crashes, raced>>

\* mutant: the state stays in the store
CallbackKeepsState(s, k, holder) ==
  /\ states[k].open
  /\ taken' = [taken EXCEPT ![k] = @ + 1]
  /\ Begin(s, "exchange", states[k].emp, states[k].proc, holder)
  /\ UNCHANGED <<row, states, grants, crashes, raced>>

\* Only the process that made the state knows it; it forgets it at once.  The state
\* says whose row is linked; the code is a parameter of its own, anybody's.
CallbackStart(s, k, holder) ==
  /\ states[k].open
  /\ states' = [states EXCEPT ![k].open = FALSE]
  /\ taken' = [taken EXCEPT ![k] = @ + 1]
  /\ Begin(s, "exchange", states[k].emp, states[k].proc, holder)
  /\ UNCHANGED <<row, grants, crashes, raced>>

Exchange(s) ==
  /\ At(s, "exchange") /\ Answer(s, "link")
  /\ UNCHANGED <<row, states, crashes, taken, raced>>

\* mutant: a refresh token that is there is kept
LinkedButRefresh(r, read, n) ==
  [r EXCEPT !.id = n, !.access = n, !.expiry = n, !.linked = n,
            !.refresh = IF @ = 0 /\ grants[n].refresh THEN n ELSE @,
            !.linkedStatus = @ \/ ~read.linkedStatus]

\* The status is not written over a LINKED that was read; without a refresh token in
\* the answer the one that is there stays.
Linked(r, read, n) ==
  [r EXCEPT !.id = n, !.access = n, !.expiry = n, !.linked = n,
            !.refresh = IF grants[n].refresh THEN n ELSE @,
            !.linkedStatus = @ \/ ~read.linkedStatus]

CallbackSave(s) ==
  LET e == sess[s].emp IN
  /\ At(s, "link")
  /\ row' = [row EXCEPT ![e] = Linked(@, sess[s].read, sess[s].grant)]
  /\ raced' = [raced EXCEPT ![e] = Stale(s)]
  /\ End(s)
  /\ UNCHANGED <<states, grants, crashes, taken>>

-----------------------------------------------------------------------------
(* refresh-token *)

RefreshStart(s, e, p) ==
  /\ row[e].linkedStatus /\ row[e].refresh # 0
  /\ Begin(s, "ask", e, p, grants[row[e].refresh].holder)
  /\ UNCHANGED <<row, states, grants, crashes, taken, raced>>

RefreshAnswer(s) ==
  /\ At(s, "ask") /\ Answer(s, "refresh")
  /\ UNCHANGED <<row, states, crashes, taken, raced>>

Refreshed(r, n) ==
  [r EXCEPT !.access = n, !.expiry = n,
            !.refresh = IF grants[n].refresh THEN n ELSE @]

RefreshSave(s) ==
  LET e == sess[s].emp IN
  /\ At(s, "refresh")
  /\ row' = [row EXCEPT ![e] = Refreshed(@, sess[s].grant)]
  /\ raced' = [raced EXCEPT ![e] = @ \/ Stale(s)]
  /\ End(s)
  /\ UNCHANGED <<states, grants, crashes, taken>>

-----------------------------------------------------------------------------
(* unlink *)

UnlinkStart(s, e, p) ==
  /\ Begin(s, "unlink", e, p, None)
  /\ UNCHANGED <<row, states, grants, crashes, taken, raced>>

\* mutant: the status stays LINKED
ClearedButStatus(r, read) ==
  [Unlinked EXCEPT !.linkedStatus = r.linkedStatus]

\* mutant: the refresh token is forgotten
ClearedButRefresh(r, read) == [Unlinked EXCEPT !.refresh = r.refresh]

\* A column that was read as NULL is left alone.
Cleared(r, read) ==
  [c \in DOMAIN r |-> IF read[c] = Unlinked[c] THEN r[c] ELSE Unlinked[c]]

UnlinkSave(s) ==
  LET e == sess[s].emp IN
  /\ At(s, "unlink")
  /\ row' = [row EXCEPT ![e] = Cleared(@, sess[s].read)]
  /\ raced' = [raced EXCEPT ![e] = Stale(s)]
  /\ End(s)
  /\ UNCHANGED <<states, grants, crashes, taken>>

-----------------------------------------------------------------------------
\* A process restarts: its states and its sessions are gone.
Restart(p) ==
  /\ crashes < MaxCrashes
  /\ crashes' = crashes + 1
  /\ states' = [k \in DOMAIN states |->
                  [states[k] EXCEPT !.open = @ /\ states[k].proc # p]]
  /\ sess' = [s \in Sessions |-> IF sess[s].proc = p THEN IdleSession ELSE sess[s]]
  /\ UNCHANGED <<row, grants, taken, raced>>

\* The routes act on the row of the employee who calls (employee_id is
\* current_user.id), in whichever process; status and documents only read.
EmployeeRequest(e) ==
  \E p \in Procs :
    \/ Authorize(e, p)
    \/ \E s \in Sessions : RefreshStart(s, e, p) \/ UnlinkStart(s, e, p)

Next ==
  \/ \E e \in Employees : EmployeeRequest(e)
  \/ \E s \in Sessions :
       \/ \E k \in DOMAIN states, holder \in Holders : CallbackStart(s, k, holder)
       \/ Exchange(s) \/ CallbackSave(s)
       \/ RefreshAnswer(s) \/ RefreshSave(s)
       \/ UnlinkSave(s)
  \/ \E p \in Procs : Restart(p)

Spec == Init /\ [][Next]_vars

-----------------------------------------------------------------------------
\* Id, access and refresh token of one account.
OfOneHolder(r) ==
  \A n \in {r.access, r.refresh} : n # 0 /\ grants[n].holder = grants[r.id].holder

\* A row that was linked with a refresh token stays of one holder through refreshes
\* and links of other accounts, unless it was written over a change not seen.
OneHolder ==
  \A e \in Employees :
    raced[e] \/ row[e].id = 0 \/ ~grants[row[e].id].refresh \/ OfOneHolder(row[e])

\* A state lets one callback through, in all processes together and whenever
\* they restart.
StateUsedOnce == \A k \in DOMAIN states : taken[k] <= 1

Whole(r) ==
  \/ r = Unlinked
  \/ r.linkedStatus /\ 0 \notin {r.id, r.access, r.expiry, r.linked}

\* Only a write over a change its session has not seen leaves a row that is
\* neither linked nor unlinked, and one link or unlink that nobody disturbs
\* repairs it.
OnlyRacesTear == \A e \in Employees : raced[e] \/ Whole(row[e])

\* A refresh token is never newer than the access token beside it, unless two
\* sessions raced.
TokensInOrder ==
  \A e \in Employees : raced[e] \/ row[e].refresh <= row[e].access
=============================================================================
