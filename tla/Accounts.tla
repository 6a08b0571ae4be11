------------------------------ MODULE Accounts ------------------------------
(***************************************************************************)
(* Onboarding of one company's employees: app/services/employee_service.py *)
(* and the password part of app/services/auth_service.py with their routes.*)
(*                                                                         *)
(* An employee is created in four commits (user, employee, seat count,     *)
(* reset token), row after row of an import; several server processes do   *)
(* so at the same time, nothing is locked, and a superadmin may delete the *)
(* user between any two of them.  A step is what happens between two       *)
(* accesses of the database.  The company object of a session keeps the    *)
(* count it was loaded with until the ORM refreshes it.                    *)
(*                                                                         *)
(* The company stays writable (Subscription models that), mails are the    *)
(* business of Mail, and a password is what it does: the temporary one     *)
(* admits nobody.                                                          *)
(***************************************************************************)
EXTENDS Naturals, Sequences, FiniteSets

CONSTANTS
  Emails,
  Missing, Invalid,   \* rows of an import without an email, with a wrong one
  Imports,            \* the requests: sequences of rows; one row: POST /employees
  Sessions,
  Limit,              \* companies.employee_limit
  MaxStarts, MaxTokens, MaxDeletes, MaxCuts   \* bounds for TLC

ASSUME AccountsAssumption ==
  /\ Limit \in Nat
  /\ IsFiniteSet(Sessions)
  /\ Imports \subseteq Seq(Emails \cup {Missing, Invalid})
  /\ {Missing, Invalid} \cap Emails = {}
  /\ MaxStarts \in Nat /\ MaxTokens \in Nat /\ MaxDeletes \in Nat /\ MaxCuts \in Nat

Progress == {"none", "INVITED", "REGISTERED", "COMPLETED"}

\* A user row with what its employee row says of the onboarding.
UserRow == [email : Emails, live : BOOLEAN, must_change_password : BOOLEAN,
            is_verified : BOOLEAN, employee : Progress]

TokenRow == [user : Nat \ {0}, used : BOOLEAN]

VARIABLES
  users,      \* users, by id; a deleted row is no longer live
  tokens,     \* password_reset_tokens, by id; they go with their user
  count,      \* companies.current_employee_count
  loggedIn,   \* users that hold an access token
  sess,       \* what each session has read, and where it is
  starts, deletes, cuts,
  created,    \* history: employee rows ever committed
  torn,       \* history: users whose creation was cut off
  spent,      \* history: how often a token has reset a password
  overlapped  \* history: two creations have been under way at once

rows == <<users, tokens, count, loggedIn>>
history == <<created, torn, spent, overlapped>>
bounds == <<starts, deletes, cuts>>
vars == <<rows, sess, bounds, history>>

Steps == {"idle", "row", "vacant", "user", "employee", "seat", "counted",
          "noted", "reset", "register", "registered"}

Session == [at : Steps, todo : Seq(Emails \cup {Missing, Invalid}),
            user : Nat, seen : Nat, token : Nat]

IdleSession == [at |-> "idle", todo |-> <<>>, user |-> 0, seen |-> 0, token |-> 0]

TypeOK ==
  /\ users \in Seq(UserRow)
  /\ tokens \in Seq(TokenRow)
  /\ \A k \in DOMAIN tokens : tokens[k].user \in DOMAIN users
  /\ count \in Nat
  /\ loggedIn \subseteq DOMAIN users
  /\ sess \in [Sessions -> Session]
  /\ \A s \in Sessions : /\ sess[s].user \in {0} \cup DOMAIN users
                         /\ sess[s].token \in {0} \cup DOMAIN tokens
  /\ starts \in Nat /\ deletes \in Nat /\ cuts \in Nat
  /\ created \in Nat /\ torn \subseteq DOMAIN users
  /\ spent \in Seq(Nat) /\ DOMAIN spent = DOMAIN tokens
  /\ overlapped \in BOOLEAN

Init ==
  /\ users = <<>> /\ tokens = <<>> /\ count = 0 /\ loggedIn = {}
  /\ sess = [s \in Sessions |-> IdleSession]
  /\ starts = 0 /\ deletes = 0 /\ cuts = 0
  /\ created = 0 /\ torn = {} /\ spent = <<>> /\ overlapped = FALSE

-----------------------------------------------------------------------------
At(s, step) == sess[s].at = step

Move(s, step) == sess' = [sess EXCEPT ![s].at = step]

End(s) == sess' = [sess EXCEPT ![s] = IdleSession]

\* A row of the import is done or has failed without a failed flush.
NextRow(s) ==
  sess' = [sess EXCEPT ![s] = [@ EXCEPT !.at = "row", !.user = 0,
                                        !.todo = Tail(sess[s].todo)]]

Creating(s) == sess[s].at \in {"row", "vacant", "user", "employee", "seat",
                               "counted", "noted"}

Live(u) == users[u].live

Taken(email) == \E u \in DOMAIN users : Live(u) /\ users[u].email = email

IssueToken(u) ==
  /\ tokens' = Append(tokens, [user |-> u, used |-> FALSE])
  /\ spent' = Append(spent, 0)

-----------------------------------------------------------------------------
(* create_employee, for each row of an import *)

\* The session loads the company with its user.
ImportStart(s, import) ==
  /\ At(s, "idle") /\ starts < MaxStarts
  /\ starts' = starts + 1
  /\ sess' = [sess EXCEPT ![s] = [IdleSession EXCEPT !.at = "row",
                                    !.todo = import, !.seen = count]]
  /\ overlapped' = (overlapped \/ \E r \in Sessions : Creating(r))
  /\ UNCHANGED <<rows, deletes, cuts, created, torn, spent>>

\* ensure_employee_capacity, on the company object the session holds
HasCapacity(s) == sess[s].seen + 1 <= Limit

RowCheck(s) ==
  LET todo == sess[s].todo IN
  /\ At(s, "row")
  /\ IF todo = <<>> \/ Head(todo) = Invalid
     THEN End(s)
     ELSE IF Head(todo) # Missing /\ HasCapacity(s) /\ ~Taken(Head(todo))
     THEN Move(s, "vacant")
     ELSE NextRow(s)
  /\ UNCHANGED <<rows, bounds, history>>

\* A failed flush (here: the unique email) leaves the ORM session unusable, so
\* the rows that are left fail as well.
InsertUser(s) ==
  LET email == Head(sess[s].todo) IN
  /\ At(s, "vacant")
  /\ IF Taken(email)
     THEN End(s) /\ UNCHANGED users
     ELSE /\ users' = Append(users, [email |-> email, live |-> TRUE,
                must_change_password |-> TRUE, is_verified |-> FALSE,
                employee |-> "none"])
          /\ sess' = [sess EXCEPT ![s] = [@ EXCEPT !.at = "user",
                                                   !.user = Len(users) + 1]]
  /\ UNCHANGED <<tokens, count, loggedIn, bounds, history>>

\* With the user deleted, either its refresh fails or the foreign key does.
InsertEmployee(s) ==
  LET u == sess[s].user IN
  /\ At(s, "user")
  /\ \/ /\ Live(u)
        /\ users' = [users EXCEPT ![u].employee = "INVITED"]
        /\ created' = created + 1
        /\ Move(s, "employee")
     \/ /\ ~Live(u)
        /\ NextRow(s) \/ End(s)
        /\ UNCHANGED <<users, created>>
  /\ UNCHANGED <<tokens, count, loggedIn, bounds, torn, spent, overlapped>>

\* Refreshing the employee refreshes the company that is loaded with it.
SeatRead(s) ==
  /\ At(s, "employee")
  /\ IF Live(sess[s].user)
     THEN sess' = [sess EXCEPT ![s] = [@ EXCEPT !.at = "seat", !.seen = count]]
     ELSE NextRow(s)
  /\ UNCHANGED <<rows, bounds, history>>

\* mutant: the count is written for the rows of the whole import
SeatSaveAll(s) ==
  /\ At(s, "seat")
  /\ count' = sess[s].seen + Len(sess[s].todo)
  /\ Move(s, "counted")
  /\ UNCHANGED <<users, tokens, loggedIn, bounds, history>>

\* update_employee_count writes back what the session has seen.
SeatSave(s) ==
  /\ At(s, "seat")
  /\ count' = sess[s].seen + 1
  /\ Move(s, "counted")
  /\ UNCHANGED <<users, tokens, loggedIn, bounds, history>>

\* mutant: the company is not refreshed for the next row
SeatKept(s) ==
  /\ At(s, "counted")
  /\ Move(s, "noted")
  /\ UNCHANGED <<rows, bounds, history>>

SeatReread(s) ==
  /\ At(s, "counted")
  /\ sess' = [sess EXCEPT ![s] = [@ EXCEPT !.at = "noted", !.seen = count]]
  /\ UNCHANGED <<rows, bounds, history>>

TokenSave(s) ==
  LET u == sess[s].user IN
  /\ At(s, "noted")
  /\ IF Live(u)
     THEN Len(tokens) < MaxTokens /\ IssueToken(u) /\ NextRow(s)
     ELSE End(s) /\ UNCHANGED <<tokens, spent>>
  /\ UNCHANGED <<users, count, loggedIn, bounds, created, torn, overlapped>>

-----------------------------------------------------------------------------
(* Passwords, login and the employee's own registration *)

ForgotPassword(u) ==
  /\ Live(u) /\ Len(tokens) < MaxTokens
  /\ IssueToken(u)
  /\ UNCHANGED <<users, count, loggedIn, sess, bounds, created, torn, overlapped>>

Usable(k) == ~tokens[k].used /\ Live(tokens[k].user)

ResetStart(s, k) ==
  /\ At(s, "idle") /\ Usable(k)
  /\ sess' = [sess EXCEPT ![s] = [IdleSession EXCEPT !.at = "reset", !.token = k]]
  /\ UNCHANGED <<rows, bounds, history>>

\* mutant: the new password leaves must_change_password set
ResetSaveForgets(s) ==
  LET k == sess[s].token IN
  /\ At(s, "reset")
  /\ End(s)
  /\ tokens' = [tokens EXCEPT ![k].used = TRUE]
  /\ spent' = [spent EXCEPT ![k] = @ + 1]
  /\ UNCHANGED <<users, count, loggedIn, bounds, created, torn, overlapped>>

ResetSave(s) ==
  LET k == sess[s].token  u == tokens[k].user IN
  /\ At(s, "reset")
  /\ End(s)
  /\ IF Live(u)
     THEN /\ users' = [users EXCEPT ![u].must_change_password = FALSE]
          /\ tokens' = [tokens EXCEPT ![k].used = TRUE]
          /\ spent' = [spent EXCEPT ![k] = @ + 1]
     ELSE UNCHANGED <<users, tokens, spent>>
  /\ UNCHANGED <<count, loggedIn, bounds, created, torn, overlapped>>

\* mutant: login does not look at must_change_password
MayLogInAtOnce(u) == Live(u)

\* Both logins ask for it, the one with the password and the one with a code.
MayLogIn(u) == Live(u) /\ ~users[u].must_change_password

Login(u) ==
  /\ MayLogIn(u)
  /\ loggedIn' = loggedIn \cup {u}
  /\ UNCHANGED <<users, tokens, count, sess, bounds, history>>

RegisterStart(s, u) ==
  /\ At(s, "idle") /\ u \in loggedIn
  /\ Live(u) /\ users[u].employee # "none"
  /\ sess' = [sess EXCEPT ![s] = [IdleSession EXCEPT !.at = "register", !.user = u]]
  /\ UNCHANGED <<rows, bounds, history>>

\* mutant: a step the column does not know
RegisteredOffEnum(row) ==
  [row EXCEPT !.is_verified = TRUE, !.employee = "VERIFIED"]

Registered(row) ==
  [row EXCEPT !.is_verified = TRUE,
              !.employee = IF @ = "COMPLETED" THEN @ ELSE "REGISTERED"]

\* The user and the employee are committed together ...
RegisterSave(s) ==
  LET u == sess[s].user IN
  /\ At(s, "register")
  /\ IF Live(u)
     THEN users' = [users EXCEPT ![u] = Registered(@)] /\ Move(s, "registered")
     ELSE End(s) /\ UNCHANGED users
  /\ UNCHANGED <<tokens, count, loggedIn, bounds, history>>

\* ... and registration_completed in a commit of its own.
RegisterComplete(s) ==
  LET u == sess[s].user IN
  /\ At(s, "registered")
  /\ End(s)
  /\ users' = IF Live(u) THEN [users EXCEPT ![u].employee = "COMPLETED"] ELSE users
  /\ UNCHANGED <<tokens, count, loggedIn, bounds, history>>

-----------------------------------------------------------------------------
\* A deleted user takes the employee and the tokens along; the seat stays counted.
DeleteUser(u) ==
  /\ Live(u) /\ deletes < MaxDeletes
  /\ deletes' = deletes + 1
  /\ users' = [users EXCEPT ![u].live = FALSE]
  /\ UNCHANGED <<tokens, count, loggedIn, sess, starts, cuts, history>>

\* A session ends between two steps: its process dies, or the database refuses
\* its next statement (an import answers, its remaining rows failed).
Cut(s) ==
  /\ ~At(s, "idle") /\ cuts < MaxCuts
  /\ cuts' = cuts + 1
  /\ torn' = IF Creating(s) THEN torn \cup ({sess[s].user} \ {0}) ELSE torn
  /\ End(s)
  /\ UNCHANGED <<rows, starts, deletes, created, spent, overlapped>>

Next ==
  \/ \E s \in Sessions :
       \/ \E import \in Imports : ImportStart(s, import)
       \/ RowCheck(s) \/ InsertUser(s) \/ InsertEmployee(s) \/ SeatRead(s)
       \/ SeatSave(s) \/ SeatReread(s) \/ TokenSave(s)
       \/ \E k \in DOMAIN tokens : ResetStart(s, k)
       \/ ResetSave(s)
       \/ \E u \in DOMAIN users : RegisterStart(s, u)
       \/ RegisterSave(s) \/ RegisterComplete(s)
       \/ Cut(s)
  \/ \E u \in DOMAIN users : ForgotPassword(u) \/ Login(u) \/ DeleteUser(u)

Spec == Init /\ [][Next]_vars

-----------------------------------------------------------------------------
\* A company never pays for a seat it did not fill: however creations overlap
\* and wherever they are cut, the count stays within the employees created.
SeatsEarned == count <= created

\* As long as creations do not overlap and none is cut, the limit holds through
\* imports of any length, and every employee is counted.
SerialSeats ==
  ~overlapped /\ cuts = 0 /\ deletes = 0 =>
    /\ created <= Limit
    /\ (\A s \in Sessions : ~Creating(s)) => count = created

\* Somebody who must set a password can: an unused token is there, unless the
\* session that creates the account has not come to it, or was cut before.
InvitedCanEnter ==
  \A u \in DOMAIN users :
    Live(u) /\ users[u].must_change_password =>
      \/ \E k \in DOMAIN tokens : tokens[k].user = u /\ ~tokens[k].used
      \/ u \in torn
      \/ \E s \in Sessions : Creating(s) /\ sess[s].user = u

\* "The employee MUST use this token [...] before they can log in": whoever has
\* filled in a profile is verified and has set a password with a token.
OnboardingOrder ==
  \A u \in DOMAIN users :
    Live(u) /\ users[u].employee \in {"REGISTERED", "COMPLETED"} =>
      /\ users[u].is_verified /\ ~users[u].must_change_password
      /\ \E k \in DOMAIN tokens : tokens[k].user = u /\ spent[k] > 0

-----------------------------------------------------------------------------
(* What the documentation says and the code does not keep *)

\* IMPLEMENTATION_NOTES: "password-reset tokens are one-time use".  The token is read
\* as unused in one transaction and marked used at the end of the handler.
TokenUsedOnce == \A k \in DOMAIN tokens : spent[k] <= 1
=============================================================================
