----------------------------- MODULE AccountsProofs -----------------------------
(***************************************************************************)
(* Seats are earned and, one import after the other, within the limit; who *)
(* must set a password can, and nobody is registered before: for any       *)
(* number of emails, sessions, imports, tokens, deletions and cuts.        *)
(***************************************************************************)
EXTENDS Accounts, SequenceTheorems, FiniteSetTheorems, TLAPS

-----------------------------------------------------------------------------
(* The invariant *)

\* What a session holds at each place.
SessionSound(s) ==
  /\ sess[s].at \in {"user", "employee", "seat", "counted", "noted", "register",
                     "registered"}
       => sess[s].user # 0
  /\ sess[s].at \in {"row", "vacant"} => sess[s].user = 0
  /\ At(s, "reset") => sess[s].token # 0
  /\ sess[s].at \in {"vacant", "user", "employee", "seat", "counted", "noted"}
       => sess[s].todo # <<>>
  /\ At(s, "vacant") => Head(sess[s].todo) \in Emails

SessionsSound == \A s \in Sessions : SessionSound(s)

Typed == TypeOK /\ SessionsSound

\* Every session that has created an employee and not counted it has a seat among those
\* created, beside the ones in the count or the ones it has read there.
Owing == {s \in Sessions : sess[s].at \in {"employee", "seat"}}

SeatsOwed ==
  /\ count + Cardinality(Owing) <= created
  /\ \A s \in Sessions : At(s, "seat") => sess[s].seen + Cardinality(Owing) <= created

\* One import at a time, none cut, nobody deleted: its session knows the count, but
\* between the commit of an employee and that of the seat.
Serial == ~overlapped /\ cuts = 0 /\ deletes = 0

SerialSound(s) ==
  /\ sess[s].at \in {"row", "vacant", "user", "noted"}
       => sess[s].seen = count /\ created = count
  /\ sess[s].at \in {"vacant", "user"} => created + 1 <= Limit
  /\ At(s, "employee") => created = count + 1
  /\ At(s, "seat") => created = count + 1 /\ sess[s].seen = count
  /\ At(s, "counted") => created = count

SerialKept ==
  /\ deletes = 0 => \A u \in DOMAIN users : Live(u)
  /\ Serial =>
       /\ \A s, t \in Sessions : Creating(s) /\ Creating(t) => s = t
       /\ \A s \in Sessions : SerialSound(s)

\* Who has set a password did so with a token; only they log in and register.
PasswordSet(u) == ~users[u].must_change_password

OnboardingSound ==
  /\ \A u \in DOMAIN users :
       PasswordSet(u) => \E k \in DOMAIN tokens : tokens[k].user = u /\ spent[k] > 0
  /\ \A u \in loggedIn : PasswordSet(u)
  /\ \A s \in Sessions : sess[s].at \in {"register", "registered"}
                           => PasswordSet(sess[s].user)
  /\ \A s \in Sessions : At(s, "registered") => users[sess[s].user].is_verified
  /\ \A u \in DOMAIN users :
       users[u].employee \in {"REGISTERED", "COMPLETED"}
         => users[u].is_verified /\ PasswordSet(u)

AccountsInv ==
  /\ Typed /\ SeatsOwed /\ SerialKept /\ SerialSeats
  /\ InvitedCanEnter /\ OnboardingSound

-----------------------------------------------------------------------------
(* Rows of a table *)

LEMMA RowOfTable ==
  ASSUME NEW S, NEW table \in Seq(S), NEW i \in DOMAIN table
  PROVE  table[i] \in S
BY LenProperties, ElementOfSeq

LEMMA InsertedRow ==
  ASSUME NEW S, NEW table \in Seq(S), NEW e \in S
  PROVE  /\ Append(table, e) \in Seq(S)
         /\ DOMAIN Append(table, e) = DOMAIN table \cup {Len(table) + 1}
         /\ Len(table) + 1 \notin DOMAIN table /\ Len(table) + 1 \in Nat \ {0}
         /\ \A j \in DOMAIN table : j < Len(table) + 1 /\ Append(table, e)[j] = table[j]
         /\ Append(table, e)[Len(table) + 1] = e
<1>1. Len(table) \in Nat /\ DOMAIN table = 1..Len(table)
  BY LenProperties
<1>2. /\ Append(table, e) \in Seq(S)
      /\ Len(Append(table, e)) = Len(table) + 1
      /\ \A j \in 1..Len(table) : Append(table, e)[j] = table[j]
      /\ Append(table, e)[Len(table) + 1] = e
  BY AppendProperties
<1>3. DOMAIN Append(table, e) = 1..(Len(table) + 1)
  BY <1>2, LenProperties
<1>. QED
  BY <1>1, <1>2, <1>3

LEMMA UpdatedRow ==
  ASSUME NEW S, NEW table \in Seq(S), NEW i \in DOMAIN table, NEW e \in S
  PROVE  /\ [table EXCEPT ![i] = e] \in Seq(S)
         /\ DOMAIN [table EXCEPT ![i] = e] = DOMAIN table
         /\ \A j \in DOMAIN table :
              [table EXCEPT ![i] = e][j] = IF j = i THEN e ELSE table[j]
BY LenProperties, ExceptSeq

-----------------------------------------------------------------------------
(* What a step does to the sessions *)

LEMMA Facts ==
  ASSUME Typed
  PROVE  /\ users \in Seq(UserRow) /\ tokens \in Seq(TokenRow) /\ spent \in Seq(Nat)
         /\ DOMAIN spent = DOMAIN tokens
         /\ count \in Nat /\ created \in Nat /\ deletes \in Nat /\ cuts \in Nat
         /\ overlapped \in BOOLEAN /\ loggedIn \subseteq DOMAIN users
         /\ sess \in [Sessions -> Session]
         /\ \A u \in DOMAIN users : u \in Nat \ {0} /\ users[u] \in UserRow
         /\ \A k \in DOMAIN tokens : /\ k \in Nat \ {0} /\ tokens[k] \in TokenRow
                                     /\ tokens[k].user \in DOMAIN users
                                     /\ spent[k] \in Nat
         /\ \A s \in Sessions : /\ sess[s] \in Session /\ SessionSound(s)
                                /\ sess[s].user \in {0} \cup DOMAIN users
                                /\ sess[s].token \in {0} \cup DOMAIN tokens
<1>1. /\ users \in Seq(UserRow) /\ tokens \in Seq(TokenRow) /\ spent \in Seq(Nat)
      /\ DOMAIN spent = DOMAIN tokens
  BY DEF Typed, TypeOK
<1>2. /\ \A u \in DOMAIN users : u \in Nat \ {0} /\ users[u] \in UserRow
      /\ \A k \in DOMAIN tokens : /\ k \in Nat \ {0} /\ tokens[k] \in TokenRow
                                  /\ spent[k] \in Nat
  BY <1>1, RowOfTable, LenProperties
<1>. QED
  BY <1>1, <1>2 DEF Typed, TypeOK, SessionsSound

LEMMA IdleTyped ==
  /\ IdleSession \in Session /\ IdleSession.at = "idle" /\ IdleSession.user = 0
  /\ IdleSession.token = 0
<1>1. <<>> \in Seq(Emails \cup {Missing, Invalid})
  BY EmptySeq
<1>. QED
  BY <1>1 DEF IdleSession, Session, Steps

\* Session s alone has changed.
Only(s) ==
  /\ sess' \in [Sessions -> Session]
  /\ \A t \in Sessions : t # s => sess'[t] = sess[t]

LEMMA BecomeFacts ==
  ASSUME Typed, NEW s \in Sessions, NEW x \in Session, sess' = [sess EXCEPT ![s] = x]
  PROVE  Only(s) /\ sess'[s] = x
BY Facts DEF Only

LEMMA EndFacts ==
  ASSUME Typed, NEW s \in Sessions, End(s)
  PROVE  Only(s) /\ sess'[s] = IdleSession
BY IdleTyped, BecomeFacts DEF End

LEMMA MoveFacts ==
  ASSUME Typed, NEW s \in Sessions, NEW step \in Steps, Move(s, step)
  PROVE  /\ Only(s) /\ sess'[s].at = step
         /\ sess'[s].todo = sess[s].todo /\ sess'[s].user = sess[s].user
         /\ sess'[s].seen = sess[s].seen /\ sess'[s].token = sess[s].token
<1>1. PICK y \in Session : y = sess[s]
  BY Facts
<1>. DEFINE x == [y EXCEPT !.at = step]
<1>2. /\ x \in Session /\ x.at = step
      /\ x.todo = y.todo /\ x.user = y.user /\ x.seen = y.seen /\ x.token = y.token
  BY DEF Session
<1>3. sess' = [sess EXCEPT ![s] = x]
  BY <1>1 DEF Move
<1>. HIDE DEF x
<1>. QED
  BY <1>1, <1>2, <1>3, BecomeFacts

LEMMA NextRowFacts ==
  ASSUME Typed, NEW s \in Sessions, sess[s].todo # <<>>, NextRow(s)
  PROVE  /\ Only(s) /\ sess'[s].at = "row" /\ sess'[s].user = 0
         /\ sess'[s].seen = sess[s].seen /\ sess'[s].token = sess[s].token
<1>1. PICK y \in Session : y = sess[s]
  BY Facts
<1>2. y.todo \in Seq(Emails \cup {Missing, Invalid})
  BY DEF Session
<1>3. PICK l \in Seq(Emails \cup {Missing, Invalid}) : l = Tail(y.todo)
  BY <1>1, <1>2, HeadTailProperties
<1>. DEFINE x == [y EXCEPT !.at = "row", !.user = 0, !.todo = l]
<1>4. /\ x \in Session /\ x.at = "row"
      /\ x.user = 0 /\ x.seen = y.seen /\ x.token = y.token
  BY DEF Session, Steps
<1>5. sess' = [sess EXCEPT ![s] = x]
  BY <1>1, <1>3 DEF NextRow
<1>. HIDE DEF x
<1>. QED
  BY <1>1, <1>4, <1>5, BecomeFacts

\* The session reads the count.
LEMMA ReadFacts ==
  ASSUME Typed, NEW s \in Sessions, NEW step \in Steps,
         sess' = [sess EXCEPT ![s] = [@ EXCEPT !.at = step, !.seen = count]]
  PROVE  /\ Only(s) /\ sess'[s].at = step
         /\ sess'[s].todo = sess[s].todo /\ sess'[s].user = sess[s].user
         /\ sess'[s].seen = count /\ sess'[s].token = sess[s].token
<1>1. PICK y \in Session : y = sess[s]
  BY Facts
<1>. DEFINE x == [y EXCEPT !.at = step, !.seen = count]
<1>2. /\ x \in Session /\ x.at = step
      /\ x.todo = y.todo /\ x.user = y.user /\ x.seen = count /\ x.token = y.token
  BY Facts DEF Session
<1>3. sess' = [sess EXCEPT ![s] = x]
  BY <1>1
<1>. HIDE DEF x
<1>. QED
  BY <1>1, <1>2, <1>3, BecomeFacts

LEMMA ImportStartFacts ==
  ASSUME Typed, NEW s \in Sessions, NEW import \in Imports, ImportStart(s, import)
  PROVE  /\ Only(s) /\ sess'[s].at = "row" /\ sess'[s].user = 0
         /\ sess'[s].seen = count /\ sess'[s].token = 0
<1>. DEFINE x == [IdleSession EXCEPT !.at = "row", !.todo = import, !.seen = count]
<1>1. import \in Seq(Emails \cup {Missing, Invalid})
  BY AccountsAssumption
<1>2. /\ x \in Session /\ x.at = "row" /\ x.user = 0 /\ x.seen = count /\ x.token = 0
  BY <1>1, Facts DEF IdleSession, Session, Steps
<1>3. sess' = [sess EXCEPT ![s] = x]
  BY DEF ImportStart
<1>. HIDE DEF x
<1>. QED
  BY <1>2, <1>3, BecomeFacts

LEMMA ResetStartFacts ==
  ASSUME Typed, NEW s \in Sessions, NEW k \in DOMAIN tokens, ResetStart(s, k)
  PROVE  /\ Only(s) /\ sess'[s].at = "reset" /\ sess'[s].user = 0
         /\ sess'[s].token = k
<1>. DEFINE x == [IdleSession EXCEPT !.at = "reset", !.token = k]
<1>1. <<>> \in Seq(Emails \cup {Missing, Invalid}) /\ k \in Nat
  BY Facts, EmptySeq
<1>2. /\ x \in Session /\ x.at = "reset" /\ x.user = 0 /\ x.token = k
  BY <1>1 DEF IdleSession, Session, Steps
<1>3. sess' = [sess EXCEPT ![s] = x]
  BY DEF ResetStart
<1>. HIDE DEF x
<1>. QED
  BY <1>2, <1>3, BecomeFacts

LEMMA RegisterStartFacts ==
  ASSUME Typed, NEW s \in Sessions, NEW u \in DOMAIN users, RegisterStart(s, u)
  PROVE  /\ Only(s) /\ sess'[s].at = "register" /\ sess'[s].user = u
         /\ sess'[s].token = 0
<1>. DEFINE x == [IdleSession EXCEPT !.at = "register", !.user = u]
<1>1. <<>> \in Seq(Emails \cup {Missing, Invalid}) /\ u \in Nat
  BY Facts, EmptySeq
<1>2. /\ x \in Session /\ x.at = "register" /\ x.user = u /\ x.token = 0
  BY <1>1 DEF IdleSession, Session, Steps
<1>3. sess' = [sess EXCEPT ![s] = x]
  BY DEF RegisterStart
<1>. HIDE DEF x
<1>. QED
  BY <1>2, <1>3, BecomeFacts

-----------------------------------------------------------------------------
(* What a step does to the users and the tokens *)

\* What is said of user u's password and profile is the same.
SamePassword(u) == users'[u].must_change_password = users[u].must_change_password
SameLife(u) == users'[u].live = users[u].live
SameProfile(u) == /\ users'[u].is_verified = users[u].is_verified
                  /\ users'[u].employee = users[u].employee

SameUsers == users' \in Seq(UserRow) /\ DOMAIN users' = DOMAIN users

LEMMA InsertUserFacts ==
  ASSUME Typed, NEW s \in Sessions, InsertUser(s)
  PROVE  \/ End(s) /\ UNCHANGED users
         \/ LET n == Len(users) + 1 IN
            /\ Only(s) /\ sess'[s].at = "user" /\ sess'[s].user = n
            /\ sess'[s].todo = sess[s].todo /\ sess'[s].seen = sess[s].seen
            /\ sess'[s].token = sess[s].token
            /\ users' \in Seq(UserRow) /\ DOMAIN users' = DOMAIN users \cup {n}
            /\ n \notin DOMAIN users /\ n \in Nat \ {0}
            /\ \A u \in DOMAIN users : users'[u] = users[u]
            /\ users'[n].live = TRUE /\ users'[n].must_change_password = TRUE
            /\ users'[n].is_verified = FALSE /\ users'[n].employee = "none"
<1>1. CASE ~(End(s) /\ UNCHANGED users)
  <2>. DEFINE e == [email |-> Head(sess[s].todo), live |-> TRUE,
                    must_change_password |-> TRUE, is_verified |-> FALSE,
                    employee |-> "none"]
  <2>1. PICK y \in Session, n \in Nat : y = sess[s] /\ n = Len(users) + 1
    BY Facts, LenProperties
  <2>. DEFINE x == [y EXCEPT !.at = "user", !.user = n]
  <2>2. users' = Append(users, e) /\ sess' = [sess EXCEPT ![s] = x]
    BY <1>1, <2>1 DEF InsertUser
  <2>3. Head(sess[s].todo) \in Emails
    BY Facts DEF InsertUser, SessionSound, At
  <2>4. /\ e \in UserRow /\ e.live = TRUE /\ e.must_change_password = TRUE
        /\ e.is_verified = FALSE /\ e.employee = "none"
    BY <2>3 DEF UserRow, Progress
  <2>5. /\ x \in Session /\ x.at = "user" /\ x.user = n
        /\ x.todo = y.todo /\ x.seen = y.seen /\ x.token = y.token
    BY DEF Session, Steps
  <2>. HIDE DEF e, x
  <2>6. Only(s) /\ sess'[s] = x
    BY <2>2, <2>5, BecomeFacts
  <2>7. /\ users' \in Seq(UserRow) /\ DOMAIN users' = DOMAIN users \cup {Len(users) + 1}
        /\ Len(users) + 1 \notin DOMAIN users /\ Len(users) + 1 \in Nat \ {0}
        /\ \A u \in DOMAIN users : users'[u] = users[u]
        /\ users'[Len(users) + 1] = e
    BY <2>2, <2>4, Facts, InsertedRow
  <2>. QED
    BY <2>1, <2>4, <2>5, <2>6, <2>7
<1>. QED
  BY <1>1

LEMMA UserUpdated ==
  ASSUME Typed, NEW u \in DOMAIN users, NEW row \in UserRow,
         users' = [users EXCEPT ![u] = row]
  PROVE  SameUsers /\ \A v \in DOMAIN users : users'[v] = IF v = u THEN row ELSE users[v]
BY Facts, UpdatedRow DEF SameUsers

LEMMA InvitedFacts ==
  ASSUME Typed, NEW u \in DOMAIN users, users' = [users EXCEPT ![u].employee = "INVITED"]
  PROVE  /\ SameUsers /\ \A v \in DOMAIN users : SamePassword(v) /\ SameLife(v)
         /\ \A v \in DOMAIN users :
              /\ users'[v].is_verified = users[v].is_verified
              /\ users'[v].employee = IF v = u THEN "INVITED" ELSE users[v].employee
<1>1. PICK y \in UserRow : y = users[u]
  BY Facts
<1>. DEFINE x == [y EXCEPT !.employee = "INVITED"]
<1>2. /\ x \in UserRow /\ x.live = y.live /\ x.is_verified = y.is_verified
      /\ x.must_change_password = y.must_change_password /\ x.employee = "INVITED"
  BY DEF UserRow, Progress
<1>3. users' = [users EXCEPT ![u] = x]
  BY <1>1
<1>. HIDE DEF x
<1>. QED
  BY <1>1, <1>2, <1>3, UserUpdated DEF SamePassword, SameLife

LEMMA PasswordFacts ==
  ASSUME Typed, NEW u \in DOMAIN users,
         users' = [users EXCEPT ![u].must_change_password = FALSE]
  PROVE  /\ SameUsers /\ \A v \in DOMAIN users : SameLife(v) /\ SameProfile(v)
         /\ \A v \in DOMAIN users :
              users'[v].must_change_password =
                IF v = u THEN FALSE ELSE users[v].must_change_password
<1>1. PICK y \in UserRow : y = users[u]
  BY Facts
<1>. DEFINE x == [y EXCEPT !.must_change_password = FALSE]
<1>2. /\ x \in UserRow /\ x.live = y.live /\ x.is_verified = y.is_verified
      /\ x.must_change_password = FALSE /\ x.employee = y.employee
  BY DEF UserRow
<1>3. users' = [users EXCEPT ![u] = x]
  BY <1>1
<1>. HIDE DEF x
<1>. QED
  BY <1>1, <1>2, <1>3, UserUpdated DEF SameProfile, SameLife

LEMMA RegisteredFacts ==
  ASSUME Typed, NEW u \in DOMAIN users, users' = [users EXCEPT ![u] = Registered(@)]
  PROVE  /\ SameUsers /\ \A v \in DOMAIN users : SamePassword(v) /\ SameLife(v)
         /\ \A v \in DOMAIN users : v # u => SameProfile(v)
         /\ users'[u].is_verified = TRUE
<1>1. PICK y \in UserRow : y = users[u]
  BY Facts
<1>. DEFINE x == Registered(y)
<1>2. /\ x \in UserRow /\ x.live = y.live /\ x.is_verified = TRUE
      /\ x.must_change_password = y.must_change_password
  BY DEF UserRow, Registered, Progress
<1>3. users' = [users EXCEPT ![u] = x]
  BY <1>1
<1>. HIDE DEF x
<1>. QED
  BY <1>1, <1>2, <1>3, UserUpdated DEF SamePassword, SameLife, SameProfile

LEMMA CompletedFacts ==
  ASSUME Typed, NEW u \in DOMAIN users, users' = [users EXCEPT ![u].employee = "COMPLETED"]
  PROVE  /\ SameUsers /\ \A v \in DOMAIN users : SamePassword(v) /\ SameLife(v)
         /\ \A v \in DOMAIN users : v # u => SameProfile(v)
         /\ users'[u].is_verified = users[u].is_verified
<1>1. PICK y \in UserRow : y = users[u]
  BY Facts
<1>. DEFINE x == [y EXCEPT !.employee = "COMPLETED"]
<1>2. /\ x \in UserRow /\ x.live = y.live /\ x.is_verified = y.is_verified
      /\ x.must_change_password = y.must_change_password
  BY DEF UserRow, Progress
<1>3. users' = [users EXCEPT ![u] = x]
  BY <1>1
<1>. HIDE DEF x
<1>. QED
  BY <1>1, <1>2, <1>3, UserUpdated DEF SamePassword, SameLife, SameProfile

LEMMA DeletedFacts ==
  ASSUME Typed, NEW u \in DOMAIN users, users' = [users EXCEPT ![u].live = FALSE]
  PROVE  /\ SameUsers /\ \A v \in DOMAIN users : SamePassword(v) /\ SameProfile(v)
         /\ \A v \in DOMAIN users : users'[v].live = IF v = u THEN FALSE ELSE users[v].live
<1>1. PICK y \in UserRow : y = users[u]
  BY Facts
<1>. DEFINE x == [y EXCEPT !.live = FALSE]
<1>2. /\ x \in UserRow /\ x.live = FALSE /\ x.is_verified = y.is_verified
      /\ x.must_change_password = y.must_change_password /\ x.employee = y.employee
  BY DEF UserRow
<1>3. users' = [users EXCEPT ![u] = x]
  BY <1>1
<1>. HIDE DEF x
<1>. QED
  BY <1>1, <1>2, <1>3, UserUpdated DEF SamePassword, SameProfile

LEMMA IssueTokenFacts ==
  ASSUME Typed, NEW u \in DOMAIN users, IssueToken(u)
  PROVE  LET n == Len(tokens) + 1 IN
         /\ tokens' \in Seq(TokenRow) /\ DOMAIN tokens' = DOMAIN tokens \cup {n}
         /\ spent' \in Seq(Nat) /\ DOMAIN spent' = DOMAIN tokens'
         /\ n \notin DOMAIN tokens /\ n \in Nat \ {0}
         /\ \A k \in DOMAIN tokens : tokens'[k] = tokens[k] /\ spent'[k] = spent[k]
         /\ tokens'[n].user = u /\ tokens'[n].used = FALSE /\ spent'[n] = 0
<1>. DEFINE e == [user |-> u, used |-> FALSE]
<1>1. e \in TokenRow /\ e.user = u /\ e.used = FALSE
  BY Facts DEF TokenRow
<1>2. tokens' = Append(tokens, e) /\ spent' = Append(spent, 0)
  BY DEF IssueToken
<1>. HIDE DEF e
<1>3. Len(tokens) = Len(spent)
  BY Facts, LenProperties
<1>4. /\ tokens' \in Seq(TokenRow) /\ DOMAIN tokens' = DOMAIN tokens \cup {Len(tokens) + 1}
      /\ Len(tokens) + 1 \notin DOMAIN tokens /\ Len(tokens) + 1 \in Nat \ {0}
      /\ \A k \in DOMAIN tokens : tokens'[k] = tokens[k]
      /\ tokens'[Len(tokens) + 1] = e
  BY <1>1, <1>2, Facts, InsertedRow
<1>5. /\ spent' \in Seq(Nat) /\ DOMAIN spent' = DOMAIN spent \cup {Len(spent) + 1}
      /\ \A k \in DOMAIN spent : spent'[k] = spent[k]
      /\ spent'[Len(spent) + 1] = 0
  BY <1>2, Facts, InsertedRow
<1>6. DOMAIN spent = DOMAIN tokens
  BY Facts
<1>. QED
  BY <1>1, <1>3, <1>4, <1>5, <1>6

LEMMA TokenUpdated ==
  ASSUME Typed, NEW k \in DOMAIN tokens, NEW row \in TokenRow,
         tokens' = [tokens EXCEPT ![k] = row]
  PROVE  /\ tokens' \in Seq(TokenRow) /\ DOMAIN tokens' = DOMAIN tokens
         /\ \A j \in DOMAIN tokens : tokens'[j] = IF j = k THEN row ELSE tokens[j]
BY Facts, UpdatedRow

LEMMA SpendFacts ==
  ASSUME Typed, NEW k \in DOMAIN tokens,
         tokens' = [tokens EXCEPT ![k].used = TRUE],
         spent' = [spent EXCEPT ![k] = @ + 1]
  PROVE  /\ tokens' \in Seq(TokenRow) /\ DOMAIN tokens' = DOMAIN tokens
         /\ spent' \in Seq(Nat) /\ DOMAIN spent' = DOMAIN tokens
         /\ \A j \in DOMAIN tokens :
              /\ tokens'[j].user = tokens[j].user
              /\ tokens'[j].used = IF j = k THEN TRUE ELSE tokens[j].used
              /\ spent'[j] = IF j = k THEN spent[k] + 1 ELSE spent[j]
<1>1. PICK y \in TokenRow, n \in Nat : y = tokens[k] /\ n = spent[k] + 1
  BY Facts
<1>. DEFINE x == [y EXCEPT !.used = TRUE]
<1>2. x \in TokenRow /\ x.user = y.user /\ x.used = TRUE
  BY DEF TokenRow
<1>3. tokens' = [tokens EXCEPT ![k] = x] /\ spent' = [spent EXCEPT ![k] = n]
  BY <1>1
<1>. HIDE DEF x
<1>4. /\ tokens' \in Seq(TokenRow) /\ DOMAIN tokens' = DOMAIN tokens
      /\ \A j \in DOMAIN tokens : tokens'[j] = IF j = k THEN x ELSE tokens[j]
  BY <1>2, <1>3, TokenUpdated
<1>5. /\ spent' \in Seq(Nat) /\ DOMAIN spent' = DOMAIN tokens
      /\ \A j \in DOMAIN tokens : spent'[j] = IF j = k THEN n ELSE spent[j]
  BY <1>3, Facts, UpdatedRow
<1>. QED
  BY <1>1, <1>2, <1>4, <1>5

-----------------------------------------------------------------------------
(* Types *)

Tables ==
  /\ users \in Seq(UserRow) /\ tokens \in Seq(TokenRow) /\ spent \in Seq(Nat)
  /\ \A k \in DOMAIN tokens : tokens[k].user \in DOMAIN users
  /\ DOMAIN spent = DOMAIN tokens

\* No id is ever given up.
Kept == DOMAIN users \subseteq DOMAIN users' /\ DOMAIN tokens \subseteq DOMAIN tokens'

LEMMA TablesNext ==
  ASSUME Typed, Next
  PROVE  Tables' /\ Kept
<1>0. Tables
  BY DEF Typed, TypeOK, Tables
<1>. USE DEF rows, history
<1>1. ASSUME UNCHANGED <<users, tokens, spent>> PROVE Tables' /\ Kept
  BY <1>0, <1>1 DEF Tables, Kept
<1>2. ASSUME SameUsers, UNCHANGED <<tokens, spent>> PROVE Tables' /\ Kept
  BY <1>0, <1>2 DEF Tables, Kept, SameUsers
<1>3. ASSUME NEW u \in DOMAIN users, IssueToken(u), UNCHANGED users PROVE Tables' /\ Kept
  <2>. DEFINE n == Len(tokens) + 1
  <2>1. /\ tokens' \in Seq(TokenRow) /\ DOMAIN tokens' = DOMAIN tokens \cup {n}
        /\ spent' \in Seq(Nat) /\ DOMAIN spent' = DOMAIN tokens'
        /\ \A k \in DOMAIN tokens : tokens'[k] = tokens[k]
        /\ tokens'[n].user = u
    BY <1>3, IssueTokenFacts
  <2>. HIDE DEF n
  <2>. QED
    BY <1>0, <1>3, <2>1 DEF Tables, Kept
<1>4. ASSUME NEW s \in Sessions, InsertUser(s) PROVE Tables' /\ Kept
  <2>1. CASE UNCHANGED users
    BY <1>1, <1>4, <2>1 DEF InsertUser
  <2>2. CASE ~UNCHANGED users
    <3>1. /\ users' \in Seq(UserRow) /\ DOMAIN users \subseteq DOMAIN users'
          /\ UNCHANGED <<tokens, spent>>
      BY <1>4, <2>2, InsertUserFacts DEF InsertUser
    <3>. QED
      BY <1>0, <3>1 DEF Tables, Kept
  <2>. QED
    BY <2>1, <2>2
<1>5. ASSUME NEW s \in Sessions PROVE SessionSound(s) /\ sess[s].user \in {0} \cup DOMAIN users
                                      /\ sess[s].token \in {0} \cup DOMAIN tokens
  BY <1>5, Facts
<1>6. ASSUME NEW s \in Sessions, InsertEmployee(s) PROVE Tables' /\ Kept
  <2>1. sess[s].user \in DOMAIN users /\ UNCHANGED <<tokens, spent>>
    BY <1>5, <1>6 DEF InsertEmployee, SessionSound, At
  <2>2. CASE UNCHANGED users
    BY <1>1, <2>1, <2>2
  <2>3. CASE users' = [users EXCEPT ![sess[s].user].employee = "INVITED"]
    BY <1>2, <2>1, <2>3, InvitedFacts
  <2>. QED
    BY <1>6, <2>2, <2>3 DEF InsertEmployee
<1>7. ASSUME NEW s \in Sessions, TokenSave(s) PROVE Tables' /\ Kept
  <2>1. sess[s].user \in DOMAIN users
    BY <1>5, <1>7 DEF TokenSave, SessionSound, At
  <2>. QED
    BY <1>1, <1>3, <1>7, <2>1 DEF TokenSave
<1>8. ASSUME NEW s \in Sessions, ResetSave(s) PROVE Tables' /\ Kept
  <2>1. CASE UNCHANGED <<users, tokens, spent>>
    BY <1>1, <2>1
  <2>2. CASE ~UNCHANGED <<users, tokens, spent>>
    <3>1. sess[s].token \in DOMAIN tokens
      BY <1>5, <1>8 DEF ResetSave, SessionSound, At
    <3>2. PICK k \in DOMAIN tokens, u \in DOMAIN users : k = sess[s].token /\ u = tokens[k].user
      BY <3>1, Facts
    <3>3. /\ users' = [users EXCEPT ![u].must_change_password = FALSE]
          /\ tokens' = [tokens EXCEPT ![k].used = TRUE]
          /\ spent' = [spent EXCEPT ![k] = @ + 1]
      BY <1>8, <2>2, <3>2 DEF ResetSave
    <3>4. SameUsers
      BY <3>3, PasswordFacts
    <3>5. /\ tokens' \in Seq(TokenRow) /\ DOMAIN tokens' = DOMAIN tokens
          /\ spent' \in Seq(Nat) /\ DOMAIN spent' = DOMAIN tokens
          /\ \A j \in DOMAIN tokens : tokens'[j].user = tokens[j].user
      BY <3>3, SpendFacts
    <3>. QED
      BY <1>0, <3>4, <3>5 DEF Tables, Kept, SameUsers
  <2>. QED
    BY <2>1, <2>2
<1>9. ASSUME NEW s \in Sessions, RegisterSave(s) PROVE Tables' /\ Kept
  <2>1. sess[s].user \in DOMAIN users /\ UNCHANGED <<tokens, spent>>
    BY <1>5, <1>9 DEF RegisterSave, SessionSound, At
  <2>2. CASE UNCHANGED users
    BY <1>1, <2>1, <2>2
  <2>3. CASE users' = [users EXCEPT ![sess[s].user] = Registered(@)]
    BY <1>2, <2>1, <2>3, RegisteredFacts
  <2>. QED
    BY <1>9, <2>2, <2>3 DEF RegisterSave
<1>10. ASSUME NEW s \in Sessions, RegisterComplete(s) PROVE Tables' /\ Kept
  <2>1. sess[s].user \in DOMAIN users /\ UNCHANGED <<tokens, spent>>
    BY <1>5, <1>10 DEF RegisterComplete, SessionSound, At
  <2>2. CASE users' = users
    BY <1>1, <2>1, <2>2
  <2>3. CASE users' = [users EXCEPT ![sess[s].user].employee = "COMPLETED"]
    BY <1>2, <2>1, <2>3, CompletedFacts
  <2>. QED
    BY <1>10, <2>2, <2>3 DEF RegisterComplete
<1>11. ASSUME NEW s \in Sessions,
              \/ \E import \in Imports : ImportStart(s, import)
              \/ RowCheck(s) \/ SeatRead(s) \/ SeatSave(s) \/ SeatReread(s) \/ Cut(s)
              \/ \E k \in DOMAIN tokens : ResetStart(s, k)
              \/ \E u \in DOMAIN users : RegisterStart(s, u)
       PROVE  Tables' /\ Kept
  BY <1>1, <1>11 DEF ImportStart, RowCheck, SeatRead, SeatSave, SeatReread, Cut,
                     ResetStart, RegisterStart
<1>12. ASSUME NEW u \in DOMAIN users, ForgotPassword(u) \/ Login(u) \/ DeleteUser(u)
       PROVE  Tables' /\ Kept
  BY <1>1, <1>2, <1>3, <1>12, DeletedFacts DEF ForgotPassword, Login, DeleteUser
<1>. HIDE DEF rows, history
<1>. QED
  BY <1>4, <1>6, <1>7, <1>8, <1>9, <1>10, <1>11, <1>12 DEF Next

\* A session knows at its new place what it must.
LEMMA TypedSession ==
  ASSUME Typed, NEW s \in Sessions, Only(s), SessionSound(s)', Kept,
         sess'[s].user \in {0} \cup DOMAIN users',
         sess'[s].token \in {0} \cup DOMAIN tokens'
  PROVE  /\ sess' \in [Sessions -> Session] /\ SessionsSound'
         /\ \A t \in Sessions : /\ sess'[t].user \in {0} \cup DOMAIN users'
                                /\ sess'[t].token \in {0} \cup DOMAIN tokens'
<1>1. sess' \in [Sessions -> Session] /\ \A t \in Sessions : t # s => sess'[t] = sess[t]
  BY DEF Only
<1>2. SessionsSound'
  BY <1>1, Facts DEF SessionsSound, SessionSound, At
<1>3. \A t \in Sessions : /\ sess'[t].user \in {0} \cup DOMAIN users'
                          /\ sess'[t].token \in {0} \cup DOMAIN tokens'
  BY <1>1, Facts DEF Kept
<1>. QED
  BY <1>1, <1>2, <1>3

LEMMA TypedSessions ==
  ASSUME Typed, Next, Kept
  PROVE  /\ sess' \in [Sessions -> Session] /\ SessionsSound'
         /\ \A t \in Sessions : /\ sess'[t].user \in {0} \cup DOMAIN users'
                                /\ sess'[t].token \in {0} \cup DOMAIN tokens'
<1>. DEFINE Goal == /\ sess' \in [Sessions -> Session] /\ SessionsSound'
                    /\ \A t \in Sessions : /\ sess'[t].user \in {0} \cup DOMAIN users'
                                           /\ sess'[t].token \in {0} \cup DOMAIN tokens'
<1>0. ASSUME NEW s \in Sessions
      PROVE  /\ SessionSound(s) /\ sess[s].user \in {0} \cup DOMAIN users'
             /\ sess[s].token \in {0} \cup DOMAIN tokens'
  BY <1>0, Facts DEF Kept
<1>1. ASSUME NEW s \in Sessions, End(s) PROVE Goal
  <2>1. SessionSound(s)'
    BY <1>1, EndFacts, IdleTyped DEF SessionSound, At
  <2>. QED
    BY <1>1, <2>1, EndFacts, IdleTyped, TypedSession
<1>2. ASSUME NEW s \in Sessions, NextRow(s), sess[s].todo # <<>> PROVE Goal
  <2>1. SessionSound(s)'
    BY <1>2, NextRowFacts DEF SessionSound, At
  <2>. QED
    BY <1>0, <1>2, <2>1, NextRowFacts, TypedSession
<1>3. ASSUME NEW s \in Sessions, NEW import \in Imports, ImportStart(s, import) PROVE Goal
  <2>1. SessionSound(s)'
    BY <1>3, ImportStartFacts DEF SessionSound, At
  <2>. QED
    BY <1>3, <2>1, ImportStartFacts, TypedSession
<1>4. ASSUME NEW s \in Sessions, RowCheck(s) PROVE Goal
  <2>1. CASE /\ Move(s, "vacant") /\ sess[s].todo # <<>>
             /\ Head(sess[s].todo) \notin {Missing, Invalid}
    <3>1. PICK l \in Seq(Emails \cup {Missing, Invalid}) : l = sess[s].todo
      BY Facts DEF Session
    <3>2. Head(l) \in Emails \cup {Missing, Invalid}
      BY <2>1, <3>1, HeadTailProperties
    <3>3. Head(sess[s].todo) \in Emails
      BY <2>1, <3>1, <3>2
    <3>4. SessionSound(s)'
      BY <1>0, <1>4, <2>1, <3>3, MoveFacts DEF SessionSound, RowCheck, At, Steps
    <3>. QED
      BY <1>0, <2>1, <3>4, MoveFacts, TypedSession DEF Steps
  <2>. QED
    BY <1>1, <1>2, <1>4, <2>1 DEF RowCheck
<1>5. ASSUME NEW s \in Sessions, InsertUser(s) PROVE Goal
  <2>1. CASE End(s)
    BY <1>1, <2>1
  <2>2. CASE ~End(s)
    <3>. DEFINE n == Len(users) + 1
    <3>1. /\ Only(s) /\ sess'[s].at = "user" /\ sess'[s].user = n
          /\ sess'[s].todo = sess[s].todo
          /\ sess'[s].token = sess[s].token
          /\ n \in DOMAIN users' /\ n # 0
      BY <1>5, <2>2, InsertUserFacts
    <3>. HIDE DEF n
    <3>2. SessionSound(s)'
      BY <1>0, <1>5, <3>1 DEF SessionSound, InsertUser, At
    <3>. QED
      BY <1>0, <3>1, <3>2, TypedSession
  <2>. QED
    BY <2>1, <2>2
<1>6. ASSUME NEW s \in Sessions, NEW step \in {"employee", "counted"}, Move(s, step),
             sess[s].at \in {"user", "seat"}
      PROVE  Goal
  <2>1. SessionSound(s)'
    BY <1>0, <1>6, MoveFacts DEF SessionSound, At, Steps
  <2>. QED
    BY <1>0, <1>6, <2>1, MoveFacts, TypedSession DEF Steps
<1>7. ASSUME NEW s \in Sessions, InsertEmployee(s) \/ SeatSave(s) PROVE Goal
  <2>1. sess[s].at \in {"user", "seat"} /\ sess[s].todo # <<>>
    BY <1>0, <1>7 DEF InsertEmployee, SeatSave, At, SessionSound
  <2>. QED
    BY <1>1, <1>2, <1>6, <1>7, <2>1 DEF InsertEmployee, SeatSave
<1>8. ASSUME NEW s \in Sessions, NEW step \in {"seat", "noted"},
             sess' = [sess EXCEPT ![s] = [@ EXCEPT !.at = step, !.seen = count]],
             sess[s].at \in {"employee", "counted"}
      PROVE  Goal
  <2>0. step \in Steps
    BY DEF Steps
  <2>1. SessionSound(s)'
    BY <1>0, <1>8, <2>0, ReadFacts DEF SessionSound, At
  <2>. QED
    BY <1>0, <1>8, <2>0, <2>1, ReadFacts, TypedSession
<1>9. ASSUME NEW s \in Sessions, SeatRead(s) \/ SeatReread(s) PROVE Goal
  <2>1. sess[s].at \in {"employee", "counted"} /\ sess[s].todo # <<>>
    BY <1>0, <1>9 DEF SeatRead, SeatReread, At, SessionSound
  <2>. QED
    BY <1>2, <1>8, <1>9, <2>1 DEF SeatRead, SeatReread
<1>10. ASSUME NEW s \in Sessions, TokenSave(s) PROVE Goal
  <2>1. sess[s].todo # <<>>
    BY <1>0, <1>10 DEF TokenSave, At, SessionSound
  <2>. QED
    BY <1>1, <1>2, <1>10, <2>1 DEF TokenSave
<1>11. ASSUME NEW s \in Sessions, NEW k \in DOMAIN tokens, ResetStart(s, k) PROVE Goal
  <2>1. SessionSound(s)' /\ k \in DOMAIN tokens'
    BY <1>11, ResetStartFacts, Facts DEF SessionSound, At, Kept
  <2>. QED
    BY <1>11, <2>1, ResetStartFacts, TypedSession
<1>12. ASSUME NEW s \in Sessions, NEW u \in DOMAIN users, RegisterStart(s, u) PROVE Goal
  <2>1. SessionSound(s)' /\ u \in DOMAIN users'
    BY <1>12, RegisterStartFacts, Facts DEF SessionSound, At, Kept
  <2>. QED
    BY <1>12, <2>1, RegisterStartFacts, TypedSession
<1>13. ASSUME NEW s \in Sessions, RegisterSave(s) PROVE Goal
  <2>1. CASE Move(s, "registered")
    <3>1. SessionSound(s)'
      BY <1>0, <1>13, <2>1, MoveFacts DEF RegisterSave, SessionSound, At, Steps
    <3>. QED
      BY <1>0, <2>1, <3>1, MoveFacts, TypedSession DEF Steps
  <2>. QED
    BY <1>1, <1>13, <2>1 DEF RegisterSave
<1>14. ASSUME NEW s \in Sessions, ResetSave(s) \/ RegisterComplete(s) \/ Cut(s) PROVE Goal
  BY <1>1, <1>14 DEF ResetSave, RegisterComplete, Cut
<1>15. ASSUME NEW u \in DOMAIN users, ForgotPassword(u) \/ Login(u) \/ DeleteUser(u)
       PROVE  Goal
  <2>1. UNCHANGED sess
    BY <1>15 DEF ForgotPassword, Login, DeleteUser
  <2>. QED
    BY <1>0, <2>1, Facts DEF SessionsSound, SessionSound, At
<1>. QED
  BY <1>3, <1>4, <1>5, <1>7, <1>9, <1>10, <1>11, <1>12, <1>13, <1>14, <1>15 DEF Next

\* The columns and counters no session holds.
Columns ==
  /\ count \in Nat /\ loggedIn \subseteq DOMAIN users
  /\ starts \in Nat /\ deletes \in Nat /\ cuts \in Nat
  /\ created \in Nat /\ torn \subseteq DOMAIN users /\ overlapped \in BOOLEAN

LEMMA TypedColumns ==
  ASSUME Typed, Next, Kept
  PROVE  Columns'
<1>0. Columns /\ DOMAIN users \subseteq DOMAIN users'
  BY DEF Typed, TypeOK, Columns, Kept
<1>. USE DEF rows, bounds, history, Columns
<1>1. ASSUME NEW s \in Sessions
      PROVE  sess[s].seen \in Nat /\ sess[s].user \in {0} \cup DOMAIN users
  BY <1>1, Facts DEF Session
<1>2. ASSUME NEW s \in Sessions, NEW import \in Imports, ImportStart(s, import)
      PROVE  Columns'
  BY <1>0, <1>2 DEF ImportStart
<1>3. ASSUME NEW s \in Sessions,
             \/ RowCheck(s) \/ InsertUser(s) \/ SeatRead(s) \/ SeatReread(s)
             \/ \E k \in DOMAIN tokens : ResetStart(s, k)
             \/ \E u \in DOMAIN users : RegisterStart(s, u)
             \/ RegisterSave(s) \/ RegisterComplete(s)
      PROVE  Columns'
  <2>1. UNCHANGED <<count, loggedIn, bounds, created, torn, overlapped>>
    BY <1>3 DEF RowCheck, InsertUser, SeatRead, SeatReread, ResetStart, RegisterStart,
                RegisterSave, RegisterComplete
  <2>. QED
    BY <1>0, <2>1
<1>4. ASSUME NEW s \in Sessions, InsertEmployee(s) PROVE Columns'
  BY <1>0, <1>4 DEF InsertEmployee
<1>5. ASSUME NEW s \in Sessions, SeatSave(s) PROVE Columns'
  BY <1>0, <1>1, <1>5 DEF SeatSave
<1>6. ASSUME NEW s \in Sessions, TokenSave(s) \/ ResetSave(s) PROVE Columns'
  <2>1. UNCHANGED <<count, loggedIn, bounds, created, torn, overlapped>>
    BY <1>6 DEF TokenSave, ResetSave
  <2>. QED
    BY <1>0, <2>1
<1>7. ASSUME NEW s \in Sessions, Cut(s) PROVE Columns'
  <2>1. torn' \subseteq DOMAIN users
    BY <1>0, <1>1, <1>7 DEF Cut
  <2>. QED
    BY <1>0, <1>7, <2>1 DEF Cut
<1>8. ASSUME NEW u \in DOMAIN users, ForgotPassword(u) PROVE Columns'
  BY <1>0, <1>8 DEF ForgotPassword
<1>9. ASSUME NEW u \in DOMAIN users, Login(u) PROVE Columns'
  BY <1>0, <1>9 DEF Login
<1>10. ASSUME NEW u \in DOMAIN users, DeleteUser(u) PROVE Columns'
  BY <1>0, <1>10 DEF DeleteUser
<1>. HIDE DEF rows, bounds, history, Columns
<1>. QED
  BY <1>2, <1>3, <1>4, <1>5, <1>6, <1>7, <1>8, <1>9, <1>10 DEF Next

LEMMA TypedNext ==
  ASSUME Typed, [Next]_vars
  PROVE  Typed'
<1>1. CASE Next
  <2>1. Tables' /\ Kept
    BY <1>1, TablesNext
  <2>2. Columns'
    BY <1>1, <2>1, TypedColumns
  <2>. QED
    BY <1>1, <2>1, <2>2, TypedSessions DEF Typed, TypeOK, Columns, Tables
<1>2. CASE UNCHANGED vars
  BY <1>2 DEF vars, rows, bounds, history, Typed, TypeOK, SessionsSound, SessionSound, At
<1>. QED
  BY <1>1, <1>2

-----------------------------------------------------------------------------
(* Seats *)

LEMMA Subset ==
  ASSUME NEW S \in SUBSET Sessions
  PROVE  IsFiniteSet(S) /\ Cardinality(S) \in Nat /\ Cardinality(S) <= Cardinality(Sessions)
         /\ Cardinality(Sessions) \in Nat
BY AccountsAssumption, FS_Subset, FS_CardinalityType

LEMMA SetGains ==
  ASSUME NEW S \in SUBSET Sessions, NEW s \in Sessions, s \notin S
  PROVE  Cardinality(S \cup {s}) = Cardinality(S) + 1
BY Subset, FS_AddElement

LEMMA SetLoses ==
  ASSUME NEW S \in SUBSET Sessions, NEW s \in S
  PROVE  Cardinality(S \ {s}) = Cardinality(S) - 1
BY Subset, FS_RemoveElement

\* The sessions that owe a seat, when session s alone has changed.
LEMMA OwingChanges ==
  ASSUME NEW s \in Sessions, Only(s)
  PROVE  /\ Owing' = IF sess'[s].at \in {"employee", "seat"}
                     THEN Owing \cup {s} ELSE Owing \ {s}
         /\ s \in Owing <=> sess[s].at \in {"employee", "seat"}
         /\ Owing \in SUBSET Sessions /\ Owing' \in SUBSET Sessions
BY DEF Owing, Only

LEMMA SeatFacts ==
  ASSUME Typed, NEW s \in Sessions, Only(s)
  PROVE  /\ count \in Nat /\ created \in Nat /\ Cardinality(Owing) \in Nat
         /\ \A t \in Sessions : sess[t].seen \in Nat
         /\ \A t \in Sessions : t # s => sess'[t] = sess[t]
BY Facts, OwingChanges, Subset DEF Session, Only

\* A step that counts nobody: who owed a seat still owes it, or will not count it.
LEMMA NoSeat ==
  ASSUME Typed, SeatsOwed, NEW s \in Sessions, Only(s),
         sess'[s].at \in {"employee", "seat"} => s \in Owing,
         At(s, "seat")' => sess'[s].seen = count,
         UNCHANGED <<count, created>>
  PROVE  SeatsOwed'
<1>1. /\ count \in Nat /\ created \in Nat /\ Cardinality(Owing) \in Nat
      /\ \A t \in Sessions : sess[t].seen \in Nat
      /\ \A t \in Sessions : t # s => sess'[t] = sess[t]
  BY SeatFacts
<1>2. Owing' = Owing \/ (s \in Owing /\ Owing' = Owing \ {s})
  BY OwingChanges
<1>3. Cardinality(Owing') \in Nat /\ Cardinality(Owing') <= Cardinality(Owing)
  BY <1>1, <1>2, OwingChanges, Subset, SetLoses
<1>4. count + Cardinality(Owing') <= created
  BY <1>1, <1>3 DEF SeatsOwed
<1>5. ASSUME NEW t \in Sessions, At(t, "seat")'
      PROVE  sess'[t].seen + Cardinality(Owing') <= created
  <2>1. CASE t = s
    BY <1>4, <1>5, <2>1
  <2>2. CASE t # s
    BY <1>1, <1>3, <1>5, <2>2 DEF SeatsOwed, At
  <2>. QED
    BY <2>1, <2>2
<1>. QED
  BY <1>4, <1>5 DEF SeatsOwed

LEMMA HiredSeats ==
  ASSUME Typed, SeatsOwed, NEW s \in Sessions, At(s, "user"), Move(s, "employee"),
         created' = created + 1, UNCHANGED count
  PROVE  SeatsOwed'
<1>1. Only(s) /\ sess'[s].at = "employee" /\ sess[s].at = "user"
  BY MoveFacts DEF Steps, At
<1>2. /\ count \in Nat /\ created \in Nat /\ Cardinality(Owing) \in Nat
      /\ \A t \in Sessions : sess[t].seen \in Nat
      /\ \A t \in Sessions : t # s => sess'[t] = sess[t]
  BY <1>1, SeatFacts
<1>3. s \notin Owing /\ Owing' = Owing \cup {s}
  BY <1>1, OwingChanges
<1>4. Cardinality(Owing') = Cardinality(Owing) + 1
  BY <1>1, <1>3, OwingChanges, SetGains
<1>. QED
  BY <1>1, <1>2, <1>4 DEF SeatsOwed, At

LEMMA SeatSaveSeats ==
  ASSUME Typed, SeatsOwed, NEW s \in Sessions, SeatSave(s)
  PROVE  SeatsOwed'
<1>1. /\ Only(s) /\ sess'[s].at = "counted" /\ sess[s].at = "seat"
      /\ count' = sess[s].seen + 1 /\ created' = created
  BY MoveFacts DEF SeatSave, Steps, history, At
<1>2. /\ count \in Nat /\ created \in Nat /\ Cardinality(Owing) \in Nat
      /\ \A t \in Sessions : sess[t].seen \in Nat
      /\ \A t \in Sessions : t # s => sess'[t] = sess[t]
  BY <1>1, SeatFacts
<1>3. s \in Owing /\ Owing' = Owing \ {s}
  BY <1>1, OwingChanges
<1>4. Cardinality(Owing') = Cardinality(Owing) - 1
  BY <1>1, <1>3, OwingChanges, SetLoses
<1>5. count' + Cardinality(Owing') <= created'
  BY <1>1, <1>2, <1>4 DEF SeatsOwed, At
<1>6. ASSUME NEW t \in Sessions, At(t, "seat")'
      PROVE  sess'[t].seen + Cardinality(Owing') <= created'
  <2>1. t # s /\ sess'[t] = sess[t] /\ sess[t].at = "seat"
    BY <1>1, <1>2, <1>6 DEF At
  <2>. QED
    BY <1>1, <1>2, <1>4, <2>1 DEF SeatsOwed, At
<1>. QED
  BY <1>5, <1>6 DEF SeatsOwed

LEMMA SeatsNext ==
  ASSUME Typed, SeatsOwed, Next
  PROVE  SeatsOwed'
<1>. USE DEF rows, history
<1>0. ASSUME NEW s \in Sessions PROVE SessionSound(s)
  BY <1>0, Facts
<1>1. ASSUME NEW s \in Sessions, NEW step \in Steps \ {"employee", "seat"}, Move(s, step),
             UNCHANGED <<count, created>>
      PROVE  SeatsOwed'
  BY <1>1, MoveFacts, NoSeat DEF At
<1>2. ASSUME NEW s \in Sessions, End(s), UNCHANGED <<count, created>> PROVE SeatsOwed'
  BY <1>2, EndFacts, IdleTyped, NoSeat DEF At
<1>3. ASSUME NEW s \in Sessions, NextRow(s), sess[s].todo # <<>>, UNCHANGED <<count, created>>
      PROVE  SeatsOwed'
  BY <1>3, NextRowFacts, NoSeat DEF At
<1>4. ASSUME NEW s \in Sessions, NEW import \in Imports, ImportStart(s, import)
      PROVE  SeatsOwed'
  BY <1>4, ImportStartFacts, NoSeat DEF ImportStart, At
<1>5. ASSUME NEW s \in Sessions, RowCheck(s) PROVE SeatsOwed'
  BY <1>1, <1>2, <1>3, <1>5 DEF RowCheck, Steps
<1>6. ASSUME NEW s \in Sessions, InsertUser(s) PROVE SeatsOwed'
  <2>1. CASE End(s)
    BY <1>2, <1>6, <2>1 DEF InsertUser
  <2>2. CASE ~End(s)
    BY <1>6, <2>2, InsertUserFacts, NoSeat DEF InsertUser, At
  <2>. QED
    BY <2>1, <2>2
<1>7. ASSUME NEW s \in Sessions, InsertEmployee(s) PROVE SeatsOwed'
  <2>1. sess[s].todo # <<>>
    BY <1>0, <1>7 DEF InsertEmployee, At, SessionSound
  <2>. QED
    BY <1>2, <1>3, <1>7, <2>1, HiredSeats DEF InsertEmployee
<1>8. ASSUME NEW s \in Sessions, SeatRead(s) PROVE SeatsOwed'
  <2>1. sess[s].todo # <<>> /\ sess[s].at = "employee" /\ UNCHANGED <<count, created>>
    BY <1>0, <1>8 DEF SeatRead, At, SessionSound
  <2>2. CASE sess' = [sess EXCEPT ![s] = [@ EXCEPT !.at = "seat", !.seen = count]]
    <3>1. Only(s) /\ sess'[s].seen = count
      BY <2>2, ReadFacts DEF Steps
    <3>. QED
      BY <2>1, <3>1, OwingChanges, NoSeat
  <2>. QED
    BY <1>3, <1>8, <2>1, <2>2 DEF SeatRead
<1>9. ASSUME NEW s \in Sessions, SeatReread(s) PROVE SeatsOwed'
  <2>1. Only(s) /\ sess'[s].at = "noted"
    BY <1>9, ReadFacts DEF SeatReread, Steps
  <2>. QED
    BY <1>9, <2>1, NoSeat DEF SeatReread, At
<1>10. ASSUME NEW s \in Sessions, TokenSave(s) PROVE SeatsOwed'
  <2>1. sess[s].todo # <<>>
    BY <1>0, <1>10 DEF TokenSave, At, SessionSound
  <2>. QED
    BY <1>2, <1>3, <1>10, <2>1 DEF TokenSave
<1>11. ASSUME NEW s \in Sessions, NEW k \in DOMAIN tokens, ResetStart(s, k) PROVE SeatsOwed'
  BY <1>11, ResetStartFacts, NoSeat DEF ResetStart, At
<1>12. ASSUME NEW s \in Sessions, NEW u \in DOMAIN users, RegisterStart(s, u) PROVE SeatsOwed'
  BY <1>12, RegisterStartFacts, NoSeat DEF RegisterStart, At
<1>13. ASSUME NEW s \in Sessions,
              ResetSave(s) \/ RegisterSave(s) \/ RegisterComplete(s) \/ Cut(s)
       PROVE  SeatsOwed'
  BY <1>1, <1>2, <1>13 DEF ResetSave, RegisterSave, RegisterComplete, Cut, Steps
<1>14. ASSUME NEW u \in DOMAIN users, ForgotPassword(u) \/ Login(u) \/ DeleteUser(u)
       PROVE  SeatsOwed'
  <2>1. UNCHANGED <<sess, count, created>>
    BY <1>14 DEF ForgotPassword, Login, DeleteUser
  <2>2. Owing' = Owing /\ \A s \in Sessions : At(s, "seat")' <=> At(s, "seat")
    BY <2>1 DEF Owing, At
  <2>. QED
    BY <2>1, <2>2 DEF SeatsOwed
<1>. HIDE DEF rows, history
<1>. QED
  BY <1>4, <1>5, <1>6, <1>7, <1>8, <1>9, <1>10, <1>11, <1>12, <1>13, <1>14, SeatSaveSeats
  DEF Next

-----------------------------------------------------------------------------
(* The limit, one import after the other *)

Settled == SerialKept /\ SerialSeats

\* Nobody dies but by a deletion.
LEMMA LivesNext ==
  ASSUME Typed, Next, deletes' = 0, SerialKept
  PROVE  /\ deletes = 0 /\ \A u \in DOMAIN users : Live(u)
         /\ \A u \in DOMAIN users' : Live(u)'
<1>. USE DEF rows, history, bounds
<1>1. deletes = 0 /\ ~ \E u \in DOMAIN users : DeleteUser(u)
  <2>1. ~ \E u \in DOMAIN users : DeleteUser(u)
    BY Facts DEF DeleteUser
  <2>. QED
    BY <2>1 DEF Next, ImportStart, RowCheck, InsertUser, InsertEmployee, SeatRead, SeatSave,
       SeatReread, TokenSave, ResetStart, ResetSave, RegisterStart, RegisterSave,
       RegisterComplete, Cut, ForgotPassword, Login
<1>2. \A u \in DOMAIN users : Live(u)
  BY <1>1 DEF SerialKept
<1>. DEFINE Goal == \A u \in DOMAIN users' : Live(u)'
<1>3. ASSUME UNCHANGED users PROVE Goal
  BY <1>2, <1>3 DEF Live
<1>4. ASSUME SameUsers, \A v \in DOMAIN users : SameLife(v) PROVE Goal
  BY <1>2, <1>4 DEF Live, SameUsers, SameLife
<1>5. ASSUME NEW s \in Sessions, InsertUser(s) PROVE Goal
  <2>1. CASE UNCHANGED users
    BY <1>3, <2>1
  <2>2. CASE ~UNCHANGED users
    <3>. DEFINE n == Len(users) + 1
    <3>1. /\ DOMAIN users' = DOMAIN users \cup {n}
          /\ \A u \in DOMAIN users : users'[u] = users[u]
          /\ users'[n].live = TRUE
      BY <1>5, <2>2, InsertUserFacts
    <3>. HIDE DEF n
    <3>. QED
      BY <1>2, <3>1 DEF Live
  <2>. QED
    BY <2>1, <2>2
<1>6. ASSUME NEW s \in Sessions, InsertEmployee(s) \/ RegisterSave(s) \/ RegisterComplete(s)
      PROVE  Goal
  <2>1. sess[s].user \in DOMAIN users
    BY <1>6, Facts DEF InsertEmployee, RegisterSave, RegisterComplete, SessionSound, At
  <2>2. \/ UNCHANGED users
        \/ users' = [users EXCEPT ![sess[s].user].employee = "INVITED"]
        \/ users' = [users EXCEPT ![sess[s].user] = Registered(@)]
        \/ users' = [users EXCEPT ![sess[s].user].employee = "COMPLETED"]
    BY <1>6 DEF InsertEmployee, RegisterSave, RegisterComplete
  <2>. QED
    BY <1>3, <1>4, <2>1, <2>2, InvitedFacts, RegisteredFacts, CompletedFacts
<1>7. ASSUME NEW s \in Sessions, ResetSave(s) PROVE Goal
  <2>1. sess[s].token \in DOMAIN tokens
    BY <1>7, Facts DEF ResetSave, SessionSound, At
  <2>2. PICK u \in DOMAIN users : u = tokens[sess[s].token].user
    BY <2>1, Facts
  <2>3. \/ UNCHANGED users
        \/ users' = [users EXCEPT ![u].must_change_password = FALSE]
    BY <1>7, <2>2 DEF ResetSave
  <2>. QED
    BY <1>3, <1>4, <2>3, PasswordFacts
<1>8. ASSUME NEW s \in Sessions,
             \/ \E import \in Imports : ImportStart(s, import)
             \/ RowCheck(s) \/ SeatRead(s) \/ SeatSave(s) \/ SeatReread(s) \/ TokenSave(s)
             \/ Cut(s)
             \/ \E k \in DOMAIN tokens : ResetStart(s, k)
             \/ \E u \in DOMAIN users : RegisterStart(s, u)
      PROVE  Goal
  BY <1>3, <1>8 DEF ImportStart, RowCheck, SeatRead, SeatSave, SeatReread, TokenSave, Cut,
                    ResetStart, RegisterStart
<1>9. ASSUME NEW u \in DOMAIN users, ForgotPassword(u) \/ Login(u) PROVE Goal
  BY <1>3, <1>9 DEF ForgotPassword, Login
<1>. HIDE DEF rows, history, bounds, Goal
<1>10. Goal
  BY <1>1, <1>5, <1>6, <1>7, <1>8, <1>9 DEF Next
<1>. QED
  BY <1>1, <1>2, <1>10 DEF Goal

LEMMA SerialBefore ==
  ASSUME Typed, Next, Serial'
  PROVE  Serial
<1>. USE DEF rows, history, bounds
<1>1. ASSUME UNCHANGED <<overlapped, cuts, deletes>> PROVE Serial
  BY <1>1 DEF Serial
<1>2. ASSUME NEW s \in Sessions, NEW import \in Imports, ImportStart(s, import) PROVE Serial
  BY <1>2 DEF ImportStart, Serial
<1>3. ASSUME NEW s \in Sessions, Cut(s) PROVE Serial
  BY <1>3, Facts DEF Cut, Serial
<1>4. ASSUME NEW u \in DOMAIN users, DeleteUser(u) PROVE Serial
  BY <1>4, Facts DEF DeleteUser, Serial
<1>5. ASSUME NEW s \in Sessions,
             \/ RowCheck(s) \/ InsertUser(s) \/ InsertEmployee(s) \/ SeatRead(s)
             \/ SeatSave(s) \/ SeatReread(s) \/ TokenSave(s)
             \/ \E k \in DOMAIN tokens : ResetStart(s, k)
             \/ ResetSave(s) \/ RegisterSave(s) \/ RegisterComplete(s)
             \/ \E u \in DOMAIN users : RegisterStart(s, u)
      PROVE  Serial
  BY <1>1, <1>5 DEF RowCheck, InsertUser, InsertEmployee, SeatRead, SeatSave, SeatReread,
                    TokenSave, ResetStart, ResetSave, RegisterStart, RegisterSave,
                    RegisterComplete
<1>6. ASSUME NEW u \in DOMAIN users, ForgotPassword(u) \/ Login(u) PROVE Serial
  BY <1>1, <1>6 DEF ForgotPassword, Login
<1>. HIDE DEF rows, history, bounds
<1>. QED
  BY <1>2, <1>3, <1>4, <1>5, <1>6 DEF Next

\* The session that creates goes on or ends with the count it knows.
LEMMA SerialStep ==
  ASSUME Typed, Settled, Next, NEW s \in Sessions, Only(s),
         Creating(s)' => Creating(s),
         Creating(s) \/ UNCHANGED <<count, created>>,
         Serial' /\ Creating(s) =>
           /\ SerialSound(s)' /\ created' <= Limit
           /\ ~Creating(s)' => count' = created'
  PROVE  Settled'
<1>1. deletes' = 0 => \A u \in DOMAIN users' : Live(u)'
  BY LivesNext DEF Settled
<1>2. SUFFICES ASSUME Serial'
               PROVE  /\ \A r, t \in Sessions : Creating(r)' /\ Creating(t)' => r = t
                      /\ \A t \in Sessions : SerialSound(t)'
                      /\ created' <= Limit
                      /\ (\A t \in Sessions : ~Creating(t)') => count' = created'
  BY <1>1, <1>2 DEF Settled, SerialKept, SerialSeats, Serial
<1>3. Serial
  BY <1>2, SerialBefore
<1>4. /\ \A r, t \in Sessions : Creating(r) /\ Creating(t) => r = t
      /\ \A t \in Sessions : SerialSound(t)
      /\ created <= Limit
      /\ (\A t \in Sessions : ~Creating(t)) => count = created
  BY <1>3 DEF Settled, SerialKept, SerialSeats, Serial
<1>5. \A t \in Sessions : t # s => sess'[t] = sess[t] /\ (Creating(t)' <=> Creating(t))
  BY DEF Only, Creating
<1>6. \A t \in Sessions : ~Creating(t)' => SerialSound(t)'
  BY DEF Creating, SerialSound, At
<1>7. CASE Creating(s)
  <2>1. \A t \in Sessions : t # s => ~Creating(t)'
    BY <1>4, <1>5, <1>7
  <2>. QED
    BY <1>2, <1>6, <1>7, <2>1
<1>8. CASE ~Creating(s)
  <2>1. ~Creating(s)' /\ count' = count /\ created' = created
    BY <1>8
  <2>2. \A t \in Sessions : Creating(t)' <=> Creating(t)
    BY <1>5, <1>8, <2>1
  <2>3. \A t \in Sessions : Creating(t)' => SerialSound(t)'
    BY <1>4, <1>5, <2>1 DEF SerialSound, At
  <2>. QED
    BY <1>4, <1>6, <2>1, <2>2, <2>3
<1>. QED
  BY <1>7, <1>8

\* What the session that creates knows, when nothing is cut or deleted.
LEMMA SerialFacts ==
  ASSUME Typed, Settled, Next, NEW s \in Sessions, Serial'
  PROVE  /\ SerialSound(s) /\ created <= Limit
         /\ \A u \in DOMAIN users : Live(u)
         /\ count \in Nat /\ created \in Nat /\ Limit \in Nat /\ cuts \in Nat
<1>1. Serial /\ \A u \in DOMAIN users : Live(u)
  BY SerialBefore, LivesNext DEF Settled, Serial
<1>. QED
  BY <1>1, Facts, AccountsAssumption DEF Settled, SerialKept, SerialSeats, Serial

\* It gives a row up before the employee is there, or ends.
LEMMA SerialRow ==
  ASSUME Typed, Settled, Next, NEW s \in Sessions,
         End(s) \/ (NextRow(s) /\ sess[s].todo # <<>>),
         UNCHANGED <<count, created>>,
         sess[s].at \in {"row", "vacant", "user", "noted"}
  PROVE  Settled'
<1>1. /\ Only(s) /\ sess'[s].at \in {"idle", "row"}
      /\ sess'[s].at = "row" => sess'[s].seen = sess[s].seen
  BY EndFacts, NextRowFacts, IdleTyped
<1>2. ASSUME Serial'
      PROVE  SerialSound(s)' /\ created' <= Limit /\ count' = created'
  BY <1>1, <1>2, SerialFacts DEF SerialSound, At
<1>. QED
  BY <1>1, <1>2, SerialStep DEF Creating

\* Who does not create does not begin to.
LEMMA SerialOther ==
  ASSUME Typed, Settled, Next, NEW s \in Sessions, Only(s),
         ~Creating(s), ~Creating(s)', UNCHANGED <<count, created>>
  PROVE  Settled'
BY SerialStep

LEMMA SerialImport ==
  ASSUME Typed, Settled, Next, NEW s \in Sessions, NEW import \in Imports,
         ImportStart(s, import)
  PROVE  Settled'
<1>1. /\ Only(s) /\ sess'[s].at = "row" /\ sess'[s].seen = count
      /\ UNCHANGED <<count, created>>
  BY ImportStartFacts DEF ImportStart, rows
<1>2. deletes' = 0 => \A u \in DOMAIN users' : Live(u)'
  BY LivesNext DEF Settled
<1>3. CASE ~Serial'
  BY <1>2, <1>3 DEF Settled, SerialKept, SerialSeats, Serial
<1>4. CASE Serial'
  <2>1. Serial /\ \A r \in Sessions : ~Creating(r)
    BY <1>4, SerialBefore DEF Serial, ImportStart
  <2>2. created <= Limit /\ count = created
    BY <2>1 DEF Settled, SerialSeats, Serial
  <2>3. \A t \in Sessions : t # s => ~Creating(t)'
    BY <1>1, <2>1 DEF Only, Creating
  <2>4. SerialSound(s)' /\ Creating(s)'
    BY <1>1, <2>2 DEF SerialSound, Creating, At
  <2>5. \A t \in Sessions : SerialSound(t)'
    BY <2>3, <2>4 DEF SerialSound, Creating, At
  <2>. QED
    BY <1>1, <1>2, <2>2, <2>3, <2>4, <2>5 DEF Settled, SerialKept, SerialSeats
<1>. QED
  BY <1>3, <1>4

LEMMA SerialNext ==
  ASSUME Typed, Settled, Next
  PROVE  Settled'
<1>. USE DEF rows, history, bounds
<1>0. ASSUME NEW s \in Sessions
      PROVE  SessionSound(s) /\ sess[s].user \in {0} \cup DOMAIN users
  BY <1>0, Facts
<1>1. ASSUME NEW s \in Sessions, RowCheck(s) PROVE Settled'
  <2>1. CASE Move(s, "vacant") /\ HasCapacity(s)
    <3>1. /\ Only(s) /\ sess'[s].at = "vacant" /\ sess'[s].seen = sess[s].seen
          /\ UNCHANGED <<count, created>> /\ sess[s].at = "row"
      BY <1>1, <2>1, MoveFacts DEF RowCheck, Steps, At
    <3>2. ASSUME Serial' PROVE SerialSound(s)' /\ created' <= Limit
      BY <2>1, <3>1, <3>2, SerialFacts DEF SerialSound, HasCapacity, At
    <3>. QED
      BY <3>1, <3>2, SerialStep DEF Creating
  <2>2. /\ sess[s].at = "row" /\ UNCHANGED <<count, created>>
        /\ End(s) \/ (NextRow(s) /\ sess[s].todo # <<>>) \/ (Move(s, "vacant") /\ HasCapacity(s))
    BY <1>1 DEF RowCheck, At
  <2>. QED
    BY <2>1, <2>2, SerialRow
<1>2. ASSUME NEW s \in Sessions, InsertUser(s) PROVE Settled'
  <2>1. CASE End(s)
    <3>1. sess[s].at = "vacant" /\ UNCHANGED <<count, created>>
      BY <1>2 DEF InsertUser, At
    <3>. QED
      BY <2>1, <3>1, SerialRow
  <2>2. CASE ~End(s)
    <3>1. /\ Only(s) /\ sess'[s].at = "user" /\ sess'[s].seen = sess[s].seen
          /\ UNCHANGED <<count, created>> /\ sess[s].at = "vacant"
      BY <1>2, <2>2, InsertUserFacts DEF InsertUser, At
    <3>2. ASSUME Serial' PROVE SerialSound(s)' /\ created' <= Limit
      BY <3>1, <3>2, SerialFacts DEF SerialSound, At
    <3>. QED
      BY <3>1, <3>2, SerialStep DEF Creating
  <2>. QED
    BY <2>1, <2>2
<1>3. ASSUME NEW s \in Sessions, InsertEmployee(s) PROVE Settled'
  <2>1. CASE created' = created + 1 /\ Move(s, "employee")
    <3>1. /\ Only(s) /\ sess'[s].at = "employee" /\ sess[s].at = "user"
          /\ count' = count
      BY <1>3, <2>1, MoveFacts DEF InsertEmployee, Steps, At
    <3>2. ASSUME Serial' PROVE SerialSound(s)' /\ created' <= Limit
      BY <2>1, <3>1, <3>2, SerialFacts DEF SerialSound, At
    <3>. QED
      BY <3>1, <3>2, SerialStep DEF Creating
  <2>. QED
    BY <1>0, <1>3, <2>1, SerialRow DEF InsertEmployee, SessionSound, At
<1>4. ASSUME NEW s \in Sessions, SeatRead(s) PROVE Settled'
  <2>1. /\ sess[s].user \in DOMAIN users /\ sess[s].todo # <<>>
        /\ sess[s].at = "employee" /\ UNCHANGED <<count, created>>
    BY <1>0, <1>4 DEF SeatRead, SessionSound, At
  <2>2. CASE sess' = [sess EXCEPT ![s] = [@ EXCEPT !.at = "seat", !.seen = count]]
    <3>1. Only(s) /\ sess'[s].at = "seat" /\ sess'[s].seen = count
      BY <2>2, ReadFacts DEF Steps
    <3>2. ASSUME Serial' PROVE SerialSound(s)' /\ created' <= Limit
      BY <2>1, <3>1, <3>2, SerialFacts DEF SerialSound, At
    <3>. QED
      BY <2>1, <3>1, <3>2, SerialStep DEF Creating
  <2>3. CASE NextRow(s) /\ ~Live(sess[s].user)
    <3>1. Only(s) /\ sess'[s].at = "row"
      BY <2>1, <2>3, NextRowFacts
    <3>2. ~Serial'
      BY <2>1, <2>3, SerialFacts
    <3>. QED
      BY <2>1, <3>1, <3>2, SerialStep DEF Creating
  <2>. QED
    BY <1>4, <2>2, <2>3 DEF SeatRead
<1>5. ASSUME NEW s \in Sessions, SeatSave(s) PROVE Settled'
  <2>1. /\ Only(s) /\ sess'[s].at = "counted" /\ sess[s].at = "seat"
        /\ count' = sess[s].seen + 1 /\ created' = created
    BY <1>5, MoveFacts DEF SeatSave, Steps, At
  <2>2. ASSUME Serial' PROVE SerialSound(s)' /\ created' <= Limit
    BY <2>1, <2>2, SerialFacts DEF SerialSound, At
  <2>. QED
    BY <2>1, <2>2, SerialStep DEF Creating
<1>6. ASSUME NEW s \in Sessions, SeatReread(s) PROVE Settled'
  <2>1. /\ Only(s) /\ sess'[s].at = "noted" /\ sess[s].at = "counted"
        /\ sess'[s].seen = count /\ UNCHANGED <<count, created>>
    BY <1>6, ReadFacts DEF SeatReread, Steps, At
  <2>2. ASSUME Serial' PROVE SerialSound(s)' /\ created' <= Limit
    BY <2>1, <2>2, SerialFacts DEF SerialSound, At
  <2>. QED
    BY <2>1, <2>2, SerialStep DEF Creating
<1>7. ASSUME NEW s \in Sessions, TokenSave(s) PROVE Settled'
  BY <1>0, <1>7, SerialRow DEF TokenSave, SessionSound, At
<1>8. ASSUME NEW s \in Sessions, NEW k \in DOMAIN tokens, ResetStart(s, k) PROVE Settled'
  BY <1>8, ResetStartFacts, SerialOther DEF ResetStart, Creating, At
<1>9. ASSUME NEW s \in Sessions, NEW u \in DOMAIN users, RegisterStart(s, u) PROVE Settled'
  BY <1>9, RegisterStartFacts, SerialOther DEF RegisterStart, Creating, At
<1>10. ASSUME NEW s \in Sessions, ResetSave(s) \/ RegisterSave(s) \/ RegisterComplete(s)
       PROVE  Settled'
  <2>1. Only(s) /\ sess'[s].at \in {"idle", "registered"}
    BY <1>10, EndFacts, MoveFacts, IdleTyped
    DEF ResetSave, RegisterSave, RegisterComplete, Steps
  <2>. QED
    BY <1>10, <2>1, SerialOther DEF ResetSave, RegisterSave, RegisterComplete, Creating, At
<1>11. ASSUME NEW s \in Sessions, Cut(s) PROVE Settled'
  <2>1. Only(s) /\ sess'[s].at = "idle" /\ UNCHANGED <<count, created>>
    BY <1>11, EndFacts, IdleTyped DEF Cut
  <2>2. ~Serial'
    BY <1>11, Facts DEF Cut, Serial
  <2>. QED
    BY <2>1, <2>2, SerialStep DEF Creating
<1>12. ASSUME NEW u \in DOMAIN users, ForgotPassword(u) \/ Login(u) \/ DeleteUser(u)
       PROVE  Settled'
  <2>1. UNCHANGED <<sess, count, created>>
    BY <1>12 DEF ForgotPassword, Login, DeleteUser
  <2>2. deletes' = 0 => \A v \in DOMAIN users' : Live(v)'
    BY LivesNext DEF Settled
  <2>3. Serial' => Serial
    BY SerialBefore
  <2>. QED
    BY <2>1, <2>2, <2>3
    DEF Settled, SerialKept, SerialSeats, SerialSound, Serial, Creating, At
<1>. HIDE DEF rows, history, bounds
<1>. QED
  BY <1>1, <1>2, <1>3, <1>4, <1>5, <1>6, <1>7, <1>8, <1>9, <1>10, <1>11, <1>12,
     SerialImport
  DEF Next

-----------------------------------------------------------------------------
(* Who must set a password *)

MustEnter(u) == Live(u) /\ users[u].must_change_password

Admitted(u) == \E k \in DOMAIN tokens : tokens[k].user = u /\ ~tokens[k].used

CreatedBy(s, u) == Creating(s) /\ sess[s].user = u

\* Nobody newly has to set a password, no token is used: the session that creates u
\* holds on to it, or u needs it no longer.
LEMMA EntryStep ==
  ASSUME Typed, InvitedCanEnter, NEW s \in Sessions, Only(s),
         \A u \in DOMAIN users' : MustEnter(u)' =>
           \/ u \in DOMAIN users /\ MustEnter(u)
           \/ Admitted(u)' \/ u \in torn' \/ CreatedBy(s, u)',
         \A u \in DOMAIN users : Admitted(u) => ~MustEnter(u)' \/ Admitted(u)',
         torn \subseteq torn',
         \A u \in DOMAIN users : CreatedBy(s, u) =>
           ~MustEnter(u)' \/ Admitted(u)' \/ u \in torn' \/ CreatedBy(s, u)'
  PROVE  InvitedCanEnter'
<1>1. \A t \in Sessions : t # s => \A u \in DOMAIN users : CreatedBy(t, u) => CreatedBy(t, u)'
  BY DEF Only, CreatedBy, Creating
<1>2. ASSUME NEW u \in DOMAIN users', MustEnter(u)'
      PROVE  Admitted(u)' \/ u \in torn' \/ \E t \in Sessions : CreatedBy(t, u)'
  <2>1. CASE u \in DOMAIN users /\ MustEnter(u)
    <3>1. Admitted(u) \/ u \in torn \/ \E t \in Sessions : CreatedBy(t, u)
      BY <2>1 DEF InvitedCanEnter, MustEnter, Admitted, CreatedBy
    <3>. QED
      BY <1>1, <1>2, <2>1, <3>1
  <2>. QED
    BY <1>2, <2>1
<1>. QED
  BY <1>2 DEF InvitedCanEnter, MustEnter, Admitted, CreatedBy

\* The users and tokens are the same, the session that creates u holds on to it.
LEMMA EntryQuiet ==
  ASSUME Typed, InvitedCanEnter, NEW s \in Sessions, Only(s), UNCHANGED <<users, tokens>>,
         torn \subseteq torn',
         \A u \in DOMAIN users : CreatedBy(s, u) =>
           ~Live(u) \/ u \in torn' \/ CreatedBy(s, u)'
  PROVE  InvitedCanEnter'
<1>1. \A u \in DOMAIN users : /\ MustEnter(u)' <=> MustEnter(u)
                              /\ Admitted(u)' <=> Admitted(u)
                              /\ MustEnter(u) => Live(u)
  BY DEF MustEnter, Admitted, Live
<1>. QED
  BY <1>1, EntryStep

\* Users change in what is not asked here.
LEMMA EntrySame ==
  ASSUME Typed, InvitedCanEnter, NEW s \in Sessions, Only(s), UNCHANGED <<tokens, torn>>,
         SameUsers, \A u \in DOMAIN users : SamePassword(u) /\ SameLife(u),
         \A u \in DOMAIN users : CreatedBy(s, u) => ~Live(u) \/ CreatedBy(s, u)'
  PROVE  InvitedCanEnter'
<1>1. \A u \in DOMAIN users : /\ MustEnter(u)' <=> MustEnter(u)
                              /\ Admitted(u)' <=> Admitted(u)
                              /\ MustEnter(u) => Live(u)
  BY DEF MustEnter, Admitted, Live, SamePassword, SameLife
<1>. QED
  BY <1>1, EntryStep DEF SameUsers

\* A token is issued, to who needs it or to anybody.
LEMMA EntryIssued ==
  ASSUME Typed, NEW u \in DOMAIN users, IssueToken(u)
  PROVE  Admitted(u)' /\ \A v \in DOMAIN users : Admitted(v) => Admitted(v)'
<1>. DEFINE n == Len(tokens) + 1
<1>1. /\ DOMAIN tokens' = DOMAIN tokens \cup {n}
      /\ \A k \in DOMAIN tokens : tokens'[k] = tokens[k]
      /\ tokens'[n].user = u /\ tokens'[n].used = FALSE
  BY IssueTokenFacts
<1>. HIDE DEF n
<1>. QED
  BY <1>1 DEF Admitted

LEMMA InsertUserEntry ==
  ASSUME Typed, InvitedCanEnter, NEW s \in Sessions, InsertUser(s)
  PROVE  InvitedCanEnter'
<1>0. SessionSound(s) /\ At(s, "vacant") /\ UNCHANGED <<tokens, torn>>
  BY Facts DEF InsertUser, history
<1>1. \A u \in DOMAIN users : ~CreatedBy(s, u)
  BY <1>0, Facts DEF SessionSound, At, CreatedBy
<1>2. CASE End(s) /\ UNCHANGED users
  BY <1>0, <1>1, <1>2, EndFacts, EntryQuiet
<1>3. CASE ~(End(s) /\ UNCHANGED users)
  <2>0. PICK n \in Nat : n = Len(users) + 1
    BY Facts, LenProperties
  <2>1. /\ Only(s) /\ sess'[s].at = "user" /\ sess'[s].user = n
        /\ DOMAIN users' = DOMAIN users \cup {n}
        /\ \A u \in DOMAIN users : users'[u] = users[u]
    BY <1>3, <2>0, InsertUserFacts
  <2>2. \A u \in DOMAIN users : /\ MustEnter(u)' <=> MustEnter(u)
                                /\ Admitted(u)' <=> Admitted(u)
    BY <1>0, <2>1 DEF MustEnter, Admitted, Live
  <2>3. CreatedBy(s, n)'
    BY <2>1 DEF CreatedBy, Creating
  <2>. QED
    BY <1>0, <1>1, <2>1, <2>2, <2>3, EntryStep
<1>. QED
  BY <1>2, <1>3

LEMMA TokenSaveEntry ==
  ASSUME Typed, InvitedCanEnter, NEW s \in Sessions, TokenSave(s)
  PROVE  InvitedCanEnter'
<1>0. /\ SessionSound(s) /\ sess[s].at = "noted" /\ UNCHANGED <<users, torn>>
      /\ sess[s].user \in DOMAIN users /\ sess[s].todo # <<>>
  BY Facts DEF TokenSave, SessionSound, At
<1>1. PICK u \in DOMAIN users : u = sess[s].user
  BY <1>0
<1>2. \A v \in DOMAIN users : (MustEnter(v)' <=> MustEnter(v)) /\ (CreatedBy(s, v) => v = u)
  BY <1>0, <1>1 DEF MustEnter, Live, CreatedBy
<1>3. CASE IssueToken(u) /\ NextRow(s)
  <2>1. Only(s)
    BY <1>0, <1>3, NextRowFacts
  <2>2. Admitted(u)' /\ \A v \in DOMAIN users : Admitted(v) => Admitted(v)'
    BY <1>3, EntryIssued
  <2>. QED
    BY <1>0, <1>2, <2>1, <2>2, EntryStep
<1>4. CASE End(s) /\ ~Live(u) /\ UNCHANGED tokens
  BY <1>0, <1>2, <1>4, EndFacts, EntryQuiet
<1>. QED
  BY <1>1, <1>3, <1>4 DEF TokenSave

LEMMA ResetSaveEntry ==
  ASSUME Typed, InvitedCanEnter, NEW s \in Sessions, ResetSave(s)
  PROVE  InvitedCanEnter'
<1>0. Only(s) /\ At(s, "reset") /\ torn' = torn /\ sess[s].token \in DOMAIN tokens
  BY EndFacts, Facts DEF ResetSave, SessionSound, At
<1>1. \A v \in DOMAIN users : ~CreatedBy(s, v)
  BY <1>0 DEF CreatedBy, Creating, At
<1>2. PICK k \in DOMAIN tokens, u \in DOMAIN users : k = sess[s].token /\ u = tokens[k].user
  BY <1>0, Facts
<1>3. CASE UNCHANGED <<users, tokens, spent>>
  BY <1>0, <1>1, <1>3, EntryQuiet
<1>4. CASE ~UNCHANGED <<users, tokens, spent>>
  <2>1. /\ users' = [users EXCEPT ![u].must_change_password = FALSE]
        /\ tokens' = [tokens EXCEPT ![k].used = TRUE]
        /\ spent' = [spent EXCEPT ![k] = @ + 1]
    BY <1>2, <1>4 DEF ResetSave
  <2>2. /\ SameUsers
        /\ \A v \in DOMAIN users :
             /\ SameLife(v)
             /\ users'[v].must_change_password =
                  IF v = u THEN FALSE ELSE users[v].must_change_password
    BY <2>1, PasswordFacts
  <2>3. /\ DOMAIN tokens' = DOMAIN tokens
        /\ \A j \in DOMAIN tokens :
             /\ tokens'[j].user = tokens[j].user
             /\ tokens'[j].used = IF j = k THEN TRUE ELSE tokens[j].used
    BY <2>1, SpendFacts
  <2>4. \A v \in DOMAIN users : MustEnter(v)' => MustEnter(v) /\ v # u
    BY <2>2 DEF MustEnter, Live, SameLife
  <2>5. \A v \in DOMAIN users : v # u /\ Admitted(v) => Admitted(v)'
    BY <1>2, <2>3 DEF Admitted
  <2>. QED
    BY <1>0, <1>1, <2>2, <2>4, <2>5, EntryStep DEF SameUsers
<1>. QED
  BY <1>3, <1>4

\* Nobody moves; users and tokens come to no harm.
LEMMA EntryStill ==
  ASSUME InvitedCanEnter, UNCHANGED <<sess, torn>>, DOMAIN users' = DOMAIN users,
         \A u \in DOMAIN users : (MustEnter(u)' => MustEnter(u)) /\ (Admitted(u) => Admitted(u)')
  PROVE  InvitedCanEnter'
<1>1. \A s \in Sessions : \A u \in DOMAIN users : CreatedBy(s, u)' <=> CreatedBy(s, u)
  BY DEF CreatedBy, Creating
<1>2. ASSUME NEW u \in DOMAIN users', MustEnter(u)'
      PROVE  Admitted(u)' \/ u \in torn' \/ \E t \in Sessions : CreatedBy(t, u)'
  <2>1. MustEnter(u)
    BY <1>2
  <2>2. Admitted(u) \/ u \in torn \/ \E t \in Sessions : CreatedBy(t, u)
    BY <2>1 DEF InvitedCanEnter, MustEnter, Admitted, CreatedBy
  <2>. QED
    BY <1>1, <2>2
<1>. QED
  BY <1>2 DEF InvitedCanEnter, MustEnter, Admitted, CreatedBy

LEMMA EntryNext ==
  ASSUME Typed, InvitedCanEnter, Next
  PROVE  InvitedCanEnter'
<1>. USE DEF rows, history
<1>0. ASSUME NEW s \in Sessions
      PROVE  /\ SessionSound(s) /\ sess[s].user \in {0} \cup DOMAIN users
             /\ 0 \notin DOMAIN users
  BY <1>0, Facts
<1>1. ASSUME NEW s \in Sessions, NEW step \in {"vacant", "counted"}, Move(s, step), Creating(s),
             UNCHANGED <<users, tokens, torn>>
      PROVE  InvitedCanEnter'
  <2>1. Only(s) /\ sess'[s].at = step /\ sess'[s].user = sess[s].user
    BY <1>1, MoveFacts DEF Steps
  <2>. QED
    BY <1>1, <2>1, EntryQuiet DEF CreatedBy, Creating
<1>2. ASSUME NEW s \in Sessions, Only(s), UNCHANGED <<users, tokens, torn>>,
             \A u \in DOMAIN users : CreatedBy(s, u) => ~Live(u)
      PROVE  InvitedCanEnter'
  BY <1>2, EntryQuiet
<1>3. ASSUME NEW s \in Sessions, NEW import \in Imports, ImportStart(s, import)
      PROVE  InvitedCanEnter'
  BY <1>2, <1>3, ImportStartFacts DEF ImportStart, CreatedBy, Creating, At
<1>4. ASSUME NEW s \in Sessions, RowCheck(s) PROVE InvitedCanEnter'
  <2>1. /\ sess[s].at = "row" /\ sess[s].user = 0 /\ UNCHANGED <<users, tokens, torn>>
        /\ End(s) \/ (NextRow(s) /\ sess[s].todo # <<>>) \/ Move(s, "vacant")
    BY <1>0, <1>4 DEF RowCheck, SessionSound, At
  <2>2. \A u \in DOMAIN users : ~CreatedBy(s, u)
    BY <1>0, <2>1 DEF CreatedBy
  <2>3. Only(s)
    BY <2>1, EndFacts, NextRowFacts, MoveFacts DEF Steps
  <2>. QED
    BY <1>2, <2>1, <2>2, <2>3
<1>5. ASSUME NEW s \in Sessions, InsertEmployee(s) PROVE InvitedCanEnter'
  <2>1. /\ sess[s].at = "user" /\ sess[s].user \in DOMAIN users /\ sess[s].todo # <<>>
        /\ UNCHANGED <<tokens, torn>>
    BY <1>0, <1>5 DEF InsertEmployee, SessionSound, At
  <2>2. CASE Move(s, "employee")
             /\ users' = [users EXCEPT ![sess[s].user].employee = "INVITED"]
    <3>1. /\ Only(s) /\ sess'[s].at = "employee" /\ sess'[s].user = sess[s].user
      BY <2>2, MoveFacts DEF Steps
    <3>2. SameUsers /\ \A u \in DOMAIN users : SamePassword(u) /\ SameLife(u)
      BY <2>1, <2>2, InvitedFacts
    <3>3. \A u \in DOMAIN users : CreatedBy(s, u) => CreatedBy(s, u)'
      BY <3>1 DEF CreatedBy, Creating
    <3>. QED
      BY <2>1, <3>1, <3>2, <3>3, EntrySame
  <2>3. CASE ~Live(sess[s].user) /\ (NextRow(s) \/ End(s)) /\ UNCHANGED users
    <3>1. Only(s)
      BY <2>1, <2>3, NextRowFacts, EndFacts
    <3>. QED
      BY <1>2, <2>1, <2>3, <3>1 DEF CreatedBy
  <2>. QED
    BY <1>5, <2>2, <2>3 DEF InsertEmployee
<1>6. ASSUME NEW s \in Sessions, SeatRead(s) \/ SeatReread(s) PROVE InvitedCanEnter'
  <2>1. /\ Creating(s) /\ sess[s].todo # <<>> /\ UNCHANGED <<users, tokens, torn>>
        /\ \/ \E step \in {"seat", "noted"} :
                sess' = [sess EXCEPT ![s] = [@ EXCEPT !.at = step, !.seen = count]]
           \/ NextRow(s) /\ ~Live(sess[s].user)
    BY <1>0, <1>6 DEF SeatRead, SeatReread, SessionSound, Creating, At
  <2>2. CASE NextRow(s) /\ ~Live(sess[s].user)
    BY <1>2, <2>1, <2>2, NextRowFacts DEF CreatedBy
  <2>3. ASSUME NEW step \in {"seat", "noted"},
               sess' = [sess EXCEPT ![s] = [@ EXCEPT !.at = step, !.seen = count]]
        PROVE  InvitedCanEnter'
    <3>1. step \in Steps
      BY DEF Steps
    <3>2. Only(s) /\ sess'[s].at = step /\ sess'[s].user = sess[s].user
      BY <2>3, <3>1, ReadFacts
    <3>. QED
      BY <2>1, <3>2, EntryQuiet DEF CreatedBy, Creating
  <2>. QED
    BY <2>1, <2>2, <2>3
<1>7. ASSUME NEW s \in Sessions, SeatSave(s) PROVE InvitedCanEnter'
  BY <1>1, <1>7 DEF SeatSave, Creating, At
<1>8. ASSUME NEW s \in Sessions, NEW k \in DOMAIN tokens, ResetStart(s, k)
      PROVE  InvitedCanEnter'
  BY <1>2, <1>8, ResetStartFacts DEF ResetStart, CreatedBy, Creating, At
<1>9. ASSUME NEW s \in Sessions, NEW u \in DOMAIN users, RegisterStart(s, u)
      PROVE  InvitedCanEnter'
  BY <1>2, <1>9, RegisterStartFacts DEF RegisterStart, CreatedBy, Creating, At
<1>10. ASSUME NEW s \in Sessions, RegisterSave(s) \/ RegisterComplete(s) PROVE InvitedCanEnter'
  <2>1. /\ sess[s].at \in {"register", "registered"} /\ sess[s].user \in DOMAIN users
        /\ UNCHANGED <<tokens, torn>>
    BY <1>0, <1>10 DEF RegisterSave, RegisterComplete, SessionSound, At
  <2>2. Only(s)
    BY <1>10, EndFacts, MoveFacts DEF RegisterSave, RegisterComplete, Steps
  <2>3. \A u \in DOMAIN users : ~CreatedBy(s, u)
    BY <2>1 DEF CreatedBy, Creating
  <2>4. \/ UNCHANGED users
        \/ users' = [users EXCEPT ![sess[s].user] = Registered(@)]
        \/ users' = [users EXCEPT ![sess[s].user].employee = "COMPLETED"]
    BY <1>10 DEF RegisterSave, RegisterComplete
  <2>5. \/ UNCHANGED users
        \/ SameUsers /\ \A u \in DOMAIN users : SamePassword(u) /\ SameLife(u)
    BY <2>1, <2>4, RegisteredFacts, CompletedFacts
  <2>. QED
    BY <1>2, <2>1, <2>2, <2>3, <2>5, EntrySame
<1>11. ASSUME NEW s \in Sessions, Cut(s) PROVE InvitedCanEnter'
  <2>1. Only(s) /\ torn \subseteq torn' /\ UNCHANGED <<users, tokens>>
    BY <1>11, EndFacts DEF Cut
  <2>2. \A u \in DOMAIN users : CreatedBy(s, u) => u \in torn'
    BY <1>0, <1>11 DEF Cut, CreatedBy
  <2>. QED
    BY <2>1, <2>2, EntryQuiet
<1>12. ASSUME NEW u \in DOMAIN users, ForgotPassword(u) \/ Login(u) PROVE InvitedCanEnter'
  <2>1. UNCHANGED <<users, sess, torn>> /\ (IssueToken(u) \/ UNCHANGED tokens)
    BY <1>12 DEF ForgotPassword, Login
  <2>2. \A v \in DOMAIN users : MustEnter(v)' <=> MustEnter(v)
    BY <2>1 DEF MustEnter, Live
  <2>3. \A v \in DOMAIN users : Admitted(v) => Admitted(v)'
    BY <2>1, EntryIssued DEF Admitted
  <2>. QED
    BY <2>1, <2>2, <2>3, EntryStill
<1>13. ASSUME NEW u \in DOMAIN users, DeleteUser(u) PROVE InvitedCanEnter'
  <2>1. /\ UNCHANGED <<tokens, sess, torn>> /\ SameUsers
        /\ \A v \in DOMAIN users : SamePassword(v)
        /\ \A v \in DOMAIN users : users'[v].live = IF v = u THEN FALSE ELSE users[v].live
    BY <1>13, DeletedFacts DEF DeleteUser
  <2>2. \A v \in DOMAIN users : (MustEnter(v)' => MustEnter(v)) /\ (Admitted(v) => Admitted(v)')
    BY <2>1 DEF MustEnter, Live, Admitted, SamePassword
  <2>. QED
    BY <2>1, <2>2, EntryStill DEF SameUsers
<1>. HIDE DEF rows, history
<1>. QED
  BY <1>3, <1>4, <1>5, <1>6, <1>7, <1>8, <1>9, <1>10, <1>11, <1>12, <1>13,
     InsertUserEntry, TokenSaveEntry, ResetSaveEntry
  DEF Next

-----------------------------------------------------------------------------
(* Onboarding *)

Proven(u) == \E k \in DOMAIN tokens : tokens[k].user = u /\ spent[k] > 0

Profiled(u) == users[u].employee \in {"REGISTERED", "COMPLETED"}

Registering(s) == sess[s].at \in {"register", "registered"}

\* What has been reached stays reached; what is reached anew rests on what was before.
LEMMA OnboardingStep ==
  ASSUME Typed, OnboardingSound, DOMAIN users \subseteq DOMAIN users',
         \A u \in DOMAIN users : /\ PasswordSet(u) => PasswordSet(u)'
                                 /\ users[u].is_verified => users'[u].is_verified
                                 /\ Proven(u) => Proven(u)',
         \A u \in DOMAIN users' : PasswordSet(u)' =>
           (u \in DOMAIN users /\ PasswordSet(u)) \/ Proven(u)',
         \A u \in loggedIn' : u \in loggedIn \/ PasswordSet(u)',
         \A t \in Sessions : Registering(t)' =>
           \/ sess'[t] = sess[t]
           \/ /\ PasswordSet(sess[t].user)'
              /\ At(t, "registered")' => users'[sess'[t].user].is_verified,
         \A u \in DOMAIN users' : Profiled(u)' =>
           \/ u \in DOMAIN users /\ Profiled(u)
           \/ users'[u].is_verified /\ PasswordSet(u)'
  PROVE  OnboardingSound'
<1>1. \A u \in DOMAIN users' : PasswordSet(u)' => Proven(u)'
  BY DEF OnboardingSound, Proven
<1>2. \A u \in loggedIn' : PasswordSet(u)'
  BY Facts DEF OnboardingSound
<1>3. ASSUME NEW t \in Sessions, Registering(t)'
      PROVE  /\ PasswordSet(sess[t].user)'
             /\ At(t, "registered")' => users'[sess'[t].user].is_verified
  <2>1. CASE sess'[t] = sess[t]
    <3>1. Registering(t) /\ (At(t, "registered")' <=> At(t, "registered"))
      BY <1>3, <2>1 DEF Registering, At
    <3>0. sess[t].user \in DOMAIN users
      BY <3>1, Facts DEF SessionSound, Registering
    <3>2. PICK u \in DOMAIN users : u = sess[t].user
      BY <3>0
    <3>3. PasswordSet(u) /\ (At(t, "registered") => users[u].is_verified)
      BY <3>1, <3>2 DEF OnboardingSound, Registering
    <3>4. PasswordSet(u)' /\ (At(t, "registered") => users'[u].is_verified)
      BY <3>3
    <3>5. sess'[t].user = u
      BY <2>1, <3>2
    <3>. QED
      BY <3>1, <3>4, <3>5 DEF PasswordSet
  <2>. QED
    BY <1>3, <2>1
<1>4. \A u \in DOMAIN users' : Profiled(u)' => users'[u].is_verified /\ PasswordSet(u)'
  BY DEF OnboardingSound, Profiled
<1>. QED
  BY <1>1, <1>2, <1>3, <1>4 DEF OnboardingSound, Proven, Profiled, Registering, At

\* Nobody's password or profile changes, nobody logs in or registers.
LEMMA OnboardingQuiet ==
  ASSUME Typed, OnboardingSound, DOMAIN users' = DOMAIN users, UNCHANGED loggedIn,
         \A u \in DOMAIN users :
           /\ SamePassword(u) /\ users'[u].is_verified = users[u].is_verified
           /\ Profiled(u)' => Profiled(u)
           /\ Proven(u) => Proven(u)',
         \A t \in Sessions : Registering(t)' => sess'[t] = sess[t]
  PROVE  OnboardingSound'
<1>1. \A u \in DOMAIN users : PasswordSet(u)' <=> PasswordSet(u)
  BY DEF PasswordSet, SamePassword
<1>. QED
  BY <1>1, OnboardingStep

\* Tokens stay with their users, and what they have done.
LEMMA ProvenStays ==
  ASSUME \A k \in DOMAIN tokens : /\ k \in DOMAIN tokens' /\ tokens'[k].user = tokens[k].user
                                  /\ spent[k] > 0 => spent'[k] > 0
  PROVE  \A u : Proven(u) => Proven(u)'
BY DEF Proven

LEMMA ProvenIssued ==
  ASSUME Typed, NEW u \in DOMAIN users, IssueToken(u)
  PROVE  \A v : Proven(v) => Proven(v)'
BY IssueTokenFacts, ProvenStays

\* The users and what the tokens have done are the same.
LEMMA OnboardingSame ==
  ASSUME Typed, OnboardingSound, UNCHANGED <<users, loggedIn>>,
         \A u \in DOMAIN users : Proven(u) => Proven(u)',
         \A t \in Sessions : Registering(t)' => sess'[t] = sess[t]
  PROVE  OnboardingSound'
BY OnboardingQuiet DEF SamePassword, Profiled

LEMMA InsertUserOnboarding ==
  ASSUME Typed, OnboardingSound, NEW s \in Sessions, InsertUser(s)
  PROVE  OnboardingSound'
<1>1. UNCHANGED <<tokens, spent, loggedIn>>
  BY DEF InsertUser, history
<1>2. \A u : Proven(u)' <=> Proven(u)
  BY <1>1 DEF Proven
<1>3. CASE End(s) /\ UNCHANGED users
  <2>1. \A t \in Sessions : Registering(t)' => sess'[t] = sess[t]
    BY <1>3, EndFacts, IdleTyped DEF Only, Registering
  <2>. QED
    BY <1>1, <1>2, <1>3, <2>1, OnboardingSame
<1>4. CASE ~(End(s) /\ UNCHANGED users)
  <2>0. PICK n \in Nat : n = Len(users) + 1
    BY Facts, LenProperties
  <2>1. /\ Only(s) /\ sess'[s].at = "user"
        /\ DOMAIN users' = DOMAIN users \cup {n}
        /\ \A u \in DOMAIN users : users'[u] = users[u]
        /\ users'[n].must_change_password = TRUE /\ users'[n].employee = "none"
    BY <1>4, <2>0, InsertUserFacts
  <2>2. /\ \A u \in DOMAIN users : PasswordSet(u)' <=> PasswordSet(u)
        /\ \A u \in DOMAIN users : Profiled(u)' <=> Profiled(u)
        /\ ~PasswordSet(n)' /\ ~Profiled(n)'
    BY <2>1 DEF PasswordSet, Profiled
  <2>3. \A t \in Sessions : Registering(t)' => sess'[t] = sess[t]
    BY <2>1 DEF Only, Registering
  <2>. QED
    BY <1>1, <1>2, <2>1, <2>2, <2>3, OnboardingStep
<1>. QED
  BY <1>3, <1>4

LEMMA ResetSaveOnboarding ==
  ASSUME Typed, OnboardingSound, NEW s \in Sessions, ResetSave(s)
  PROVE  OnboardingSound'
<1>1. /\ \A t \in Sessions : Registering(t)' => sess'[t] = sess[t]
      /\ UNCHANGED loggedIn /\ sess[s].token \in DOMAIN tokens
  BY EndFacts, IdleTyped, Facts DEF ResetSave, SessionSound, At, Only, Registering
<1>2. PICK k \in DOMAIN tokens, u \in DOMAIN users : k = sess[s].token /\ u = tokens[k].user
  BY <1>1, Facts
<1>3. CASE UNCHANGED <<users, tokens, spent>>
  <2>1. \A v : Proven(v) => Proven(v)'
    BY <1>3, ProvenStays
  <2>. QED
    BY <1>1, <1>3, <2>1, OnboardingSame
<1>4. CASE ~UNCHANGED <<users, tokens, spent>>
  <2>1. /\ users' = [users EXCEPT ![u].must_change_password = FALSE]
        /\ tokens' = [tokens EXCEPT ![k].used = TRUE]
        /\ spent' = [spent EXCEPT ![k] = @ + 1]
    BY <1>2, <1>4 DEF ResetSave
  <2>2. /\ SameUsers
        /\ \A v \in DOMAIN users :
             /\ SameProfile(v)
             /\ users'[v].must_change_password =
                  IF v = u THEN FALSE ELSE users[v].must_change_password
    BY <2>1, PasswordFacts
  <2>3. /\ DOMAIN tokens' = DOMAIN tokens
        /\ \A j \in DOMAIN tokens :
             /\ tokens'[j].user = tokens[j].user
             /\ spent'[j] = IF j = k THEN spent[k] + 1 ELSE spent[j]
    BY <2>1, SpendFacts
  <2>4. spent[k] \in Nat /\ spent'[k] > 0
    BY <2>3, Facts
  <2>5. Proven(u)' /\ \A v : Proven(v) => Proven(v)'
    <3>1. Proven(u)'
      BY <1>2, <2>3, <2>4 DEF Proven
    <3>2. \A j \in DOMAIN tokens : spent[j] > 0 => spent'[j] > 0
      BY <2>3, <2>4
    <3>. QED
      BY <2>3, <3>1, <3>2, ProvenStays
  <2>6. \A v \in DOMAIN users :
          /\ PasswordSet(v) => PasswordSet(v)'
          /\ PasswordSet(v)' => PasswordSet(v) \/ v = u
          /\ users'[v].is_verified = users[v].is_verified
          /\ Profiled(v)' <=> Profiled(v)
    BY <2>2 DEF PasswordSet, SameProfile, Profiled
  <2>. QED
    BY <1>1, <2>2, <2>5, <2>6, OnboardingStep DEF SameUsers
<1>. QED
  BY <1>3, <1>4

\* The employee who registers has set a password.
LEMMA RegisterOnboarding ==
  ASSUME Typed, OnboardingSound, NEW s \in Sessions, RegisterSave(s) \/ RegisterComplete(s)
  PROVE  OnboardingSound'
<1>1. /\ Registering(s) /\ UNCHANGED <<tokens, spent, loggedIn>>
      /\ sess[s].user \in DOMAIN users
      /\ RegisterComplete(s) => At(s, "registered")
  BY Facts DEF RegisterSave, RegisterComplete, history, Registering, SessionSound, At
<1>2. PICK u \in DOMAIN users : u = sess[s].user
  BY <1>1
<1>3. /\ PasswordSet(u) /\ (RegisterComplete(s) => users[u].is_verified)
      /\ \A v : Proven(v) <=> Proven(v)'
  BY <1>1, <1>2 DEF OnboardingSound, Registering, Proven
<1>4. CASE End(s) /\ UNCHANGED users
  <2>1. \A t \in Sessions : Registering(t)' => sess'[t] = sess[t]
    BY <1>4, EndFacts, IdleTyped DEF Only, Registering
  <2>. QED
    BY <1>1, <1>3, <1>4, <2>1, OnboardingSame
<1>5. CASE /\ \/ users' = [users EXCEPT ![u] = Registered(@)]
              \/ RegisterComplete(s) /\ users' = [users EXCEPT ![u].employee = "COMPLETED"]
           /\ Move(s, "registered") \/ End(s)
  <2>1. /\ SameUsers /\ \A v \in DOMAIN users : SamePassword(v)
        /\ \A v \in DOMAIN users : v # u => SameProfile(v)
        /\ users'[u].is_verified
    BY <1>3, <1>5, RegisteredFacts, CompletedFacts
  <2>2. \A t \in Sessions : Registering(t)' => sess'[t] = sess[t] \/ (t = s /\ sess'[t].user = u)
    BY <1>2, <1>5, EndFacts, MoveFacts, IdleTyped DEF Only, Registering, Steps
  <2>3. \A v \in DOMAIN users :
          /\ PasswordSet(v)' <=> PasswordSet(v)
          /\ users[v].is_verified => users'[v].is_verified
          /\ v # u => (Profiled(v)' <=> Profiled(v))
    BY <2>1 DEF PasswordSet, SamePassword, SameProfile, Profiled
  <2>4. \A t \in Sessions : Registering(t)' =>
          \/ sess'[t] = sess[t]
          \/ /\ PasswordSet(sess[t].user)'
             /\ At(t, "registered")' => users'[sess'[t].user].is_verified
    <3>1. PasswordSet(u)'
      BY <1>3, <2>3
    <3>. QED
      BY <2>1, <2>2, <3>1 DEF PasswordSet
  <2>. QED
    BY <1>1, <1>3, <2>1, <2>3, <2>4, OnboardingStep DEF SameUsers
<1>. QED
  BY <1>2, <1>4, <1>5 DEF RegisterSave, RegisterComplete

LEMMA OnboardingNext ==
  ASSUME Typed, OnboardingSound, Next
  PROVE  OnboardingSound'
<1>. USE DEF rows, history
<1>0. ASSUME NEW s \in Sessions
      PROVE  SessionSound(s) /\ sess[s].user \in {0} \cup DOMAIN users
  BY <1>0, Facts
<1>1. ASSUME NEW s \in Sessions, Only(s), ~Registering(s)',
             UNCHANGED <<users, loggedIn, tokens, spent>>
      PROVE  OnboardingSound'
  <2>1. \A u \in DOMAIN users : Proven(u) => Proven(u)'
    BY <1>1 DEF Proven
  <2>2. \A t \in Sessions : Registering(t)' => sess'[t] = sess[t]
    BY <1>1 DEF Only
  <2>. QED
    BY <1>1, <2>1, <2>2, OnboardingSame
<1>2. ASSUME NEW s \in Sessions, NEW import \in Imports, ImportStart(s, import)
      PROVE  OnboardingSound'
  BY <1>1, <1>2, ImportStartFacts DEF ImportStart, Registering
<1>3. ASSUME NEW s \in Sessions, RowCheck(s) \/ Cut(s) PROVE OnboardingSound'
  <2>1. UNCHANGED <<users, loggedIn, tokens, spent>>
        /\ (End(s) \/ (NextRow(s) /\ sess[s].todo # <<>>) \/ Move(s, "vacant"))
    BY <1>3 DEF RowCheck, Cut
  <2>2. Only(s) /\ sess'[s].at \in {"idle", "row", "vacant"}
    BY <2>1, EndFacts, IdleTyped, NextRowFacts, MoveFacts DEF Steps
  <2>. QED
    BY <1>1, <2>1, <2>2 DEF Registering
<1>4. ASSUME NEW s \in Sessions, InsertEmployee(s) PROVE OnboardingSound'
  <2>1. /\ sess[s].user \in DOMAIN users /\ sess[s].todo # <<>>
        /\ UNCHANGED <<loggedIn, tokens, spent>>
        /\ End(s) \/ NextRow(s) \/ Move(s, "employee")
    BY <1>0, <1>4 DEF InsertEmployee, SessionSound, At
  <2>2. Only(s) /\ ~Registering(s)'
    BY <2>1, EndFacts, IdleTyped, NextRowFacts, MoveFacts DEF Steps, Registering
  <2>3. CASE UNCHANGED users
    BY <1>1, <2>1, <2>2, <2>3
  <2>4. CASE users' = [users EXCEPT ![sess[s].user].employee = "INVITED"]
    <3>1. /\ SameUsers
          /\ \A v \in DOMAIN users :
               /\ SamePassword(v) /\ users'[v].is_verified = users[v].is_verified
               /\ users'[v].employee = IF v = sess[s].user THEN "INVITED" ELSE users[v].employee
      BY <2>1, <2>4, InvitedFacts
    <3>2. \A v \in DOMAIN users : (Profiled(v)' => Profiled(v)) /\ (Proven(v) => Proven(v)')
      BY <2>1, <3>1 DEF Profiled, Proven
    <3>3. \A t \in Sessions : Registering(t)' => sess'[t] = sess[t]
      BY <2>2 DEF Only
    <3>. QED
      BY <2>1, <3>1, <3>2, <3>3, OnboardingQuiet DEF SameUsers
  <2>. QED
    BY <1>4, <2>3, <2>4 DEF InsertEmployee
<1>5. ASSUME NEW s \in Sessions, SeatRead(s) \/ SeatSave(s) \/ SeatReread(s)
      PROVE  OnboardingSound'
  <2>1. /\ sess[s].todo # <<>> /\ UNCHANGED <<users, loggedIn, tokens, spent>>
        /\ \/ NextRow(s) \/ Move(s, "counted")
           \/ \E step \in {"seat", "noted"} :
                sess' = [sess EXCEPT ![s] = [@ EXCEPT !.at = step, !.seen = count]]
    BY <1>0, <1>5 DEF SeatRead, SeatSave, SeatReread, SessionSound, At
  <2>2. ASSUME NEW step \in {"seat", "noted"},
               sess' = [sess EXCEPT ![s] = [@ EXCEPT !.at = step, !.seen = count]]
        PROVE  Only(s) /\ ~Registering(s)'
    <3>1. step \in Steps
      BY DEF Steps
    <3>. QED
      BY <2>2, <3>1, ReadFacts DEF Registering
  <2>3. ASSUME NextRow(s) \/ Move(s, "counted")
        PROVE  Only(s) /\ ~Registering(s)'
    BY <2>1, <2>3, NextRowFacts, MoveFacts DEF Steps, Registering
  <2>. QED
    BY <1>1, <2>1, <2>2, <2>3
<1>6. ASSUME NEW s \in Sessions, TokenSave(s) PROVE OnboardingSound'
  <2>1. /\ sess[s].user \in DOMAIN users /\ sess[s].todo # <<>>
        /\ UNCHANGED <<users, loggedIn>>
    BY <1>0, <1>6 DEF TokenSave, SessionSound, At
  <2>2. Only(s) /\ ~Registering(s)'
    BY <1>6, <2>1, EndFacts, IdleTyped, NextRowFacts DEF TokenSave, Registering
  <2>3. \A u \in DOMAIN users : Proven(u) => Proven(u)'
    BY <1>6, <2>1, ProvenIssued DEF TokenSave, Proven
  <2>4. \A t \in Sessions : Registering(t)' => sess'[t] = sess[t]
    BY <2>2 DEF Only
  <2>. QED
    BY <2>1, <2>3, <2>4, OnboardingSame
<1>7. ASSUME NEW s \in Sessions, NEW k \in DOMAIN tokens, ResetStart(s, k)
      PROVE  OnboardingSound'
  BY <1>1, <1>7, ResetStartFacts DEF ResetStart, Registering
<1>8. ASSUME NEW s \in Sessions, NEW u \in DOMAIN users, RegisterStart(s, u)
      PROVE  OnboardingSound'
  <2>1. /\ Only(s) /\ sess'[s].at = "register" /\ sess'[s].user = u
        /\ UNCHANGED <<users, loggedIn, tokens, spent>> /\ u \in loggedIn
    BY <1>8, RegisterStartFacts DEF RegisterStart
  <2>2. \A v \in DOMAIN users : /\ PasswordSet(v)' <=> PasswordSet(v)
                                /\ Proven(v)' <=> Proven(v)
                                /\ Profiled(v)' <=> Profiled(v)
    BY <2>1 DEF PasswordSet, Proven, Profiled
  <2>3. PasswordSet(u)'
    BY <2>1, <2>2 DEF OnboardingSound
  <2>4. \A t \in Sessions : Registering(t)' =>
          \/ sess'[t] = sess[t]
          \/ /\ PasswordSet(sess[t].user)'
             /\ At(t, "registered")' => users'[sess'[t].user].is_verified
    BY <2>1, <2>3 DEF Only, At, PasswordSet
  <2>. QED
    BY <2>1, <2>2, <2>4, OnboardingStep
<1>9. ASSUME NEW u \in DOMAIN users, ForgotPassword(u) PROVE OnboardingSound'
  <2>1. \A v : Proven(v) => Proven(v)'
    BY <1>9, ProvenIssued DEF ForgotPassword
  <2>. QED
    BY <1>9, <2>1, OnboardingSame DEF ForgotPassword
<1>10. ASSUME NEW u \in DOMAIN users, Login(u) PROVE OnboardingSound'
  <2>1. UNCHANGED <<users, tokens, spent, sess>> /\ loggedIn' = loggedIn \cup {u}
        /\ PasswordSet(u)
    BY <1>10 DEF Login, MayLogIn, PasswordSet
  <2>2. \A v \in DOMAIN users : /\ PasswordSet(v)' <=> PasswordSet(v)
                                /\ Proven(v)' <=> Proven(v)
                                /\ Profiled(v)' <=> Profiled(v)
    BY <2>1 DEF PasswordSet, Proven, Profiled
  <2>. QED
    BY <2>1, <2>2, OnboardingStep
<1>11. ASSUME NEW u \in DOMAIN users, DeleteUser(u) PROVE OnboardingSound'
  <2>1. /\ UNCHANGED <<tokens, spent, sess, loggedIn>> /\ SameUsers
        /\ \A v \in DOMAIN users : SamePassword(v) /\ SameProfile(v)
    BY <1>11, DeletedFacts DEF DeleteUser
  <2>2. \A v \in DOMAIN users : (Profiled(v)' => Profiled(v)) /\ (Proven(v) => Proven(v)')
    BY <2>1 DEF Profiled, Proven, SameProfile
  <2>. QED
    BY <2>1, <2>2, OnboardingQuiet DEF SameUsers, SameProfile
<1>. HIDE DEF rows, history
<1>. QED
  BY <1>2, <1>3, <1>4, <1>5, <1>6, <1>7, <1>8, <1>9, <1>10, <1>11,
     InsertUserOnboarding, ResetSaveOnboarding, RegisterOnboarding
  DEF Next

-----------------------------------------------------------------------------
(* The invariant is inductive *)

LEMMA InvInit ==
  ASSUME Init
  PROVE  AccountsInv
<1>1. /\ users \in Seq(UserRow) /\ tokens \in Seq(TokenRow) /\ spent \in Seq(Nat)
      /\ DOMAIN users = {} /\ DOMAIN tokens = {} /\ DOMAIN spent = {}
  BY EmptySeq DEF Init
<1>2. \A s \in Sessions : sess[s] = IdleSession
  BY DEF Init
<1>3. Typed
  BY <1>1, <1>2, IdleTyped DEF Init, Typed, TypeOK, SessionsSound, SessionSound, At
<1>4. SeatsOwed
  <2>1. Owing = {}
    BY <1>2, IdleTyped DEF Owing
  <2>. QED
    BY <1>2, <2>1, IdleTyped, FS_EmptySet DEF Init, SeatsOwed, At
<1>5. SerialKept /\ SerialSeats
  BY <1>1, <1>2, IdleTyped, AccountsAssumption
  DEF Init, SerialKept, SerialSeats, SerialSound, Serial, Creating, At
<1>6. InvitedCanEnter
  BY <1>1 DEF InvitedCanEnter
<1>7. OnboardingSound
  BY <1>1, <1>2, IdleTyped DEF Init, OnboardingSound, At
<1>. QED
  BY <1>3, <1>4, <1>5, <1>6, <1>7 DEF AccountsInv, Typed

LEMMA InvNext ==
  ASSUME AccountsInv, [Next]_vars
  PROVE  AccountsInv'
<1>1. Typed /\ Typed'
  BY TypedNext DEF AccountsInv
<1>2. CASE Next
  BY <1>1, <1>2, SeatsNext, SerialNext, EntryNext, OnboardingNext
  DEF AccountsInv, Settled
<1>3. CASE UNCHANGED vars
  <2>. USE <1>3 DEF vars, rows, bounds, history
  <2>1. SeatsOwed'
    BY DEF AccountsInv, SeatsOwed, Owing, At
  <2>2. SerialKept' /\ SerialSeats'
    BY DEF AccountsInv, SerialKept, SerialSeats, SerialSound, Serial, Creating, Live, At
  <2>3. InvitedCanEnter'
    BY DEF AccountsInv, InvitedCanEnter, Live, Creating
  <2>4. OnboardingSound'
    BY DEF AccountsInv, OnboardingSound, PasswordSet, At
  <2>. QED
    BY <1>1, <2>1, <2>2, <2>3, <2>4 DEF AccountsInv
<1>. QED
  BY <1>2, <1>3

LEMMA AccountsAreSound == Spec => []AccountsInv
BY InvInit, InvNext, PTL DEF Spec

-----------------------------------------------------------------------------
\* Every variable of the onboarding stays in its type, whatever sessions overlap: a
\* session and a token only ever refer to a user that exists.
THEOREM TypeCorrect == Spec => []TypeOK
<1>1. AccountsInv => TypeOK
  BY DEF AccountsInv, Typed
<1>. QED
  BY <1>1, AccountsAreSound, PTL

\* company_repository.update_employee_count writes back a count read earlier: however
\* creations overlap, fail or are cut, it never exceeds the employees created.
THEOREM SeatsAreEarned == Spec => []SeatsEarned
<1>1. AccountsInv => SeatsEarned
  <2>. SUFFICES ASSUME AccountsInv PROVE SeatsEarned
    OBVIOUS
  <2>1. count \in Nat /\ created \in Nat /\ Cardinality(Owing) \in Nat
    BY Facts, Subset DEF AccountsInv, Owing
  <2>. QED
    BY <2>1 DEF AccountsInv, SeatsOwed, SeatsEarned
<1>. QED
  BY <1>1, AccountsAreSound, PTL

\* ensure_employee_capacity checks a company object that was loaded earlier: as long
\* as no two creations overlap and none is cut, an import of any length stays within
\* the limit, and when it is done everybody it created is counted.
THEOREM SerialSeatsHold == Spec => []SerialSeats
<1>1. AccountsInv => SerialSeats
  BY DEF AccountsInv
<1>. QED
  BY <1>1, AccountsAreSound, PTL

\* The token of create_employee is the fourth commit: somebody who must set a password
\* has an unused one, or the session that creates the account has not come to it, or
\* was cut before.
THEOREM WhoIsInvitedCanEnter == Spec => []InvitedCanEnter
<1>1. AccountsInv => InvitedCanEnter
  BY DEF AccountsInv
<1>. QED
  BY <1>1, AccountsAreSound, PTL

\* Who has filled in a profile is verified and has set a password with a token, though
\* the employee registers in two commits and tokens are read before they are marked.
THEOREM OnboardingIsOrdered == Spec => []OnboardingOrder
<1>1. AccountsInv => OnboardingOrder
  <2>. SUFFICES ASSUME AccountsInv, NEW u \in DOMAIN users,
                       users[u].employee \in {"REGISTERED", "COMPLETED"}
                PROVE  /\ users[u].is_verified /\ ~users[u].must_change_password
                       /\ \E k \in DOMAIN tokens : tokens[k].user = u /\ spent[k] > 0
    BY DEF OnboardingOrder
  <2>. QED
    BY DEF AccountsInv, OnboardingSound, PasswordSet
<1>. QED
  BY <1>1, AccountsAreSound, PTL
=============================================================================
