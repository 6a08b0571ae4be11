--------------------------- MODULE DocumentsProofs ---------------------------
(***************************************************************************)
(* Replacements that overlap lose no file, no upload is charged that was   *)
(* not stored, and letters are mailed once per session that can race: for  *)
(* any number of employees, names, sessions, uploads and cuts.             *)
(***************************************************************************)
EXTENDS Documents, SequenceTheorems, FiniteSetTheorems, TLAPS

-----------------------------------------------------------------------------
(* The invariant *)

\* What a session knows at each place.
SessionSound(s) ==
  /\ sess[s].at \in {"upload", "found", "written", "cleared", "saved", "allowed",
                     "counted"}
       => /\ sess[s].emp \in Employees /\ sess[s].type \in Types
          /\ sess[s].path \in Paths
  /\ sess[s].at \in {"fetch", "fetched"}
       => sess[s].emp \in Employees /\ sess[s].type \in Types
  /\ At(s, "fetch") => sess[s].old = None
  /\ sess[s].at \in {"send", "checked", "mailed"} => sess[s].emp \in Employees
  /\ sess[s].at \in {"cleared", "fetched", "decide"} => sess[s].doc # 0
  /\ At(s, "decide") => sess[s].outcome \in {"VERIFIED", "REJECTED"}

SessionsSound == \A s \in Sessions : SessionSound(s)

\* An upload whose row is not committed yet.
Pending(s) == sess[s].at \in {"upload", "found", "written", "cleared"}

\* Its path is its own: no row names it, nobody is going to delete it, and once
\* the file is written it is there.
OwnPath(s) ==
  Pending(s) =>
    /\ \A d \in DOMAIN docs : docs[d].path # sess[s].path
    /\ \A r \in Sessions : /\ sess[r].old # sess[s].path
                           /\ r # s => sess[r].path # sess[s].path
    /\ sess[s].at \in {"written", "cleared"} => sess[s].path \in disk

\* A file belongs to one row, and only a session that has read that row deletes it.
Apart ==
  /\ \A d, e \in DOMAIN docs :
       docs[d].path = docs[e].path => d = e \/ docs[d].path = None
  /\ \A s \in Sessions, d \in DOMAIN docs :
       sess[s].old = docs[d].path => d = sess[s].doc \/ docs[d].path = None
  /\ \A s \in Sessions : OwnPath(s)

PathsApart == DistinctNames => Apart

\* Every session that has stored its upload and not charged it has its upload among
\* the stored ones, beside those the counter holds or the session has read there.
Charging == {s \in Sessions : sess[s].at \in {"saved", "allowed", "counted"}}

ChargesDue ==
  /\ usage + Cardinality(Charging) <= stored
  /\ \A s \in Sessions :
       At(s, "counted") => sess[s].seen + Cardinality(Charging) <= stored

\* Sessions that may mail an employee's letters yet, and those that have.
Sending == [e \in Employees |->
  {s \in Sessions : sess[s].emp = e /\ sess[s].at \in {"send", "checked"}}]
Mailed == [e \in Employees |-> {s \in Sessions : sess[s].emp = e /\ At(s, "mailed")}]

\* Until the flag is committed every mail has its session at the commit or cut there;
\* afterwards only the sessions that have seen the flag unset are left.
LettersDue ==
  \A e \in Employees :
    /\ e \notin sent => mailed[e] <= Cardinality(Mailed[e]) + crashes
    /\ mailed[e] + Cardinality(Sending[e]) <= Cardinality(Sessions) + crashes

DocumentsInv ==
  /\ TypeOK /\ SessionsSound
  /\ PathsApart /\ FilesKept
  /\ ChargesDue /\ LettersDue

\* What the other parts need of types.
Typed == TypeOK /\ SessionsSound

-----------------------------------------------------------------------------
(* Rows of a table *)

LEMMA RowOfTable ==
  ASSUME NEW S, NEW rows \in Seq(S), NEW i \in DOMAIN rows
  PROVE  rows[i] \in S
BY LenProperties, ElementOfSeq

LEMMA InsertedRow ==
  ASSUME NEW S, NEW rows \in Seq(S), NEW e \in S
  PROVE  /\ Append(rows, e) \in Seq(S)
         /\ DOMAIN Append(rows, e) = DOMAIN rows \cup {Len(rows) + 1}
         /\ Len(rows) + 1 \notin DOMAIN rows /\ Len(rows) + 1 \in Nat \ {0}
         /\ \A j \in DOMAIN rows : Append(rows, e)[j] = rows[j]
         /\ Append(rows, e)[Len(rows) + 1] = e
<1>1. Len(rows) \in Nat /\ DOMAIN rows = 1..Len(rows)
  BY LenProperties
<1>2. /\ Append(rows, e) \in Seq(S)
      /\ Len(Append(rows, e)) = Len(rows) + 1
      /\ \A j \in 1..Len(rows) : Append(rows, e)[j] = rows[j]
      /\ Append(rows, e)[Len(rows) + 1] = e
  BY AppendProperties
<1>3. DOMAIN Append(rows, e) = 1..(Len(rows) + 1)
  BY <1>2, LenProperties
<1>. QED
  BY <1>1, <1>2, <1>3

LEMMA UpdatedRow ==
  ASSUME NEW S, NEW rows \in Seq(S), NEW i \in DOMAIN rows, NEW e \in S
  PROVE  /\ [rows EXCEPT ![i] = e] \in Seq(S)
         /\ DOMAIN [rows EXCEPT ![i] = e] = DOMAIN rows
         /\ \A j \in DOMAIN rows :
              [rows EXCEPT ![i] = e][j] = IF j = i THEN e ELSE rows[j]
BY LenProperties, ExceptSeq

-----------------------------------------------------------------------------
(* What a step does to the sessions *)

LEMMA Facts ==
  ASSUME Typed
  PROVE  /\ docs \in Seq(DocumentRow) /\ disk \subseteq Paths
         /\ usage \in Nat /\ stored \in Nat /\ crashes \in Nat
         /\ mailed \in [Employees -> Nat]
         /\ sess \in [Sessions -> Session]
         /\ \A d \in DOMAIN docs : docs[d] \in DocumentRow
         /\ \A s \in Sessions : /\ sess[s] \in Session /\ SessionSound(s)
                                /\ sess[s].doc \in {0} \cup DOMAIN docs
BY RowOfTable DEF Typed, TypeOK, SessionsSound

LEMMA IdleTyped ==
  /\ IdleSession \in Session /\ IdleSession.at = "idle" /\ IdleSession.doc = 0
  /\ IdleSession.old = None /\ IdleSession.path = None
BY DEF IdleSession, Session, Steps

\* Session s alone has changed.
Only(s) ==
  /\ sess' \in [Sessions -> Session]
  /\ \A t \in Sessions : t # s => sess'[t] = sess[t]

LEMMA BeginFacts ==
  ASSUME Typed, NEW s \in Sessions, NEW x \in Session, Begin(s, x)
  PROVE  Only(s) /\ sess'[s] = x
BY Facts DEF Begin, Only

LEMMA EndFacts ==
  ASSUME Typed, NEW s \in Sessions, End(s)
  PROVE  Only(s) /\ sess'[s] = IdleSession
BY Facts, IdleTyped DEF End, Only

LEMMA MoveFacts ==
  ASSUME Typed, NEW s \in Sessions, NEW step \in Steps, Move(s, step)
  PROVE  /\ Only(s)
         /\ sess'[s].at = step /\ sess'[s].emp = sess[s].emp
         /\ sess'[s].type = sess[s].type /\ sess'[s].path = sess[s].path
         /\ sess'[s].doc = sess[s].doc /\ sess'[s].old = sess[s].old
         /\ sess'[s].status = sess[s].status /\ sess'[s].outcome = sess[s].outcome
         /\ sess'[s].seen = sess[s].seen
<1>1. PICK y \in Session : y = sess[s]
  BY Facts
<1>. DEFINE x == [y EXCEPT !.at = step]
<1>2. sess' = [sess EXCEPT ![s] = x]
  BY <1>1 DEF Move
<1>3. /\ x \in Session
      /\ x.at = step /\ x.emp = y.emp /\ x.type = y.type /\ x.path = y.path
      /\ x.doc = y.doc /\ x.old = y.old /\ x.status = y.status
      /\ x.outcome = y.outcome /\ x.seen = y.seen
  BY DEF Session
<1>. HIDE DEF x
<1>4. Only(s) /\ sess'[s] = x
  BY <1>2, <1>3, Facts DEF Only
<1>. QED
  BY <1>1, <1>3, <1>4

LEMMA UploadStartFacts ==
  ASSUME Typed, NEW s \in Sessions, NEW e \in Employees, NEW t \in Types, NEW p \in Paths,
         UploadStart(s, e, t, p)
  PROVE  /\ Only(s)
         /\ sess'[s].at = "upload" /\ sess'[s].emp = e /\ sess'[s].type = t
         /\ sess'[s].path = p /\ sess'[s].doc = 0 /\ sess'[s].old = None
<1>. DEFINE x == [IdleSession EXCEPT !.at = "upload", !.emp = e, !.type = t, !.path = p]
<1>1. /\ x \in Session
      /\ x.at = "upload" /\ x.emp = e /\ x.type = t
      /\ x.path = p /\ x.doc = 0 /\ x.old = None
  BY DEF IdleSession, Session, Steps
<1>2. Begin(s, x)
  BY DEF UploadStart
<1>. HIDE DEF x
<1>. QED
  BY <1>1, <1>2, BeginFacts

LEMMA UploadLookupFacts ==
  ASSUME Typed, NEW s \in Sessions, UploadLookup(s)
  PROVE  /\ Only(s)
         /\ \/ sess'[s] = IdleSession
            \/ /\ sess'[s].at = "found" /\ sess'[s].emp = sess[s].emp
               /\ sess'[s].type = sess[s].type /\ sess'[s].path = sess[s].path
               /\ \/ sess'[s].doc = sess[s].doc /\ sess'[s].old = sess[s].old
                  \/ sess'[s].doc \in DOMAIN docs
                     /\ sess'[s].old = docs[sess'[s].doc].path
<1>1. \/ Move(s, "found") \/ End(s)
      \/ \E d \in DOMAIN docs :
           sess' = [sess EXCEPT ![s] = [@ EXCEPT !.at = "found", !.doc = d,
                         !.old = docs[d].path, !.status = docs[d].status]]
  BY DEF UploadLookup
<1>2. CASE Move(s, "found")
  BY <1>2, MoveFacts DEF Steps
<1>3. CASE End(s)
  BY <1>3, EndFacts
<1>4. ASSUME NEW d \in DOMAIN docs,
             sess' = [sess EXCEPT ![s] = [@ EXCEPT !.at = "found", !.doc = d,
                           !.old = docs[d].path, !.status = docs[d].status]]
      PROVE  /\ Only(s)
             /\ sess'[s].at = "found" /\ sess'[s].emp = sess[s].emp
             /\ sess'[s].type = sess[s].type /\ sess'[s].path = sess[s].path
             /\ sess'[s].doc = d /\ sess'[s].old = docs[d].path
  <2>1. PICK y \in Session : y = sess[s]
    BY Facts
  <2>. DEFINE x == [y EXCEPT !.at = "found", !.doc = d, !.old = docs[d].path,
                             !.status = docs[d].status]
  <2>2. docs[d] \in DocumentRow /\ d \in Nat
    BY Facts, LenProperties
  <2>3. /\ x \in Session
        /\ x.at = "found" /\ x.emp = y.emp /\ x.type = y.type /\ x.path = y.path
        /\ x.doc = d /\ x.old = docs[d].path
    BY <2>2 DEF Session, Steps, DocumentRow
  <2>4. Begin(s, x)
    BY <1>4, <2>1 DEF Begin
  <2>. HIDE DEF x
  <2>. QED
    BY <2>1, <2>3, <2>4, BeginFacts
<1>. QED
  BY <1>1, <1>2, <1>3, <1>4

LEMMA UploadCountFacts ==
  ASSUME Typed, NEW s \in Sessions, UploadCount(s)
  PROVE  /\ Only(s)
         /\ sess'[s].at = "counted" /\ sess'[s].emp = sess[s].emp
         /\ sess'[s].type = sess[s].type /\ sess'[s].path = sess[s].path
         /\ sess'[s].doc = sess[s].doc /\ sess'[s].old = sess[s].old
         /\ sess'[s].seen = usage
<1>1. PICK y \in Session : y = sess[s]
  BY Facts
<1>. DEFINE x == [y EXCEPT !.at = "counted", !.seen = usage]
<1>2. /\ x \in Session
      /\ x.at = "counted" /\ x.emp = y.emp /\ x.type = y.type /\ x.path = y.path
      /\ x.doc = y.doc /\ x.old = y.old /\ x.seen = usage
  BY Facts DEF Session, Steps
<1>3. Begin(s, x)
  BY <1>1 DEF UploadCount, Begin
<1>. HIDE DEF x
<1>. QED
  BY <1>1, <1>2, <1>3, BeginFacts

LEMMA FetchStartFacts ==
  ASSUME Typed, NEW s \in Sessions, NEW e \in Employees, NEW t \in Types, FetchStart(s, e, t)
  PROVE  /\ Only(s)
         /\ sess'[s].at = "fetch" /\ sess'[s].emp = e /\ sess'[s].type = t
         /\ sess'[s].path = None /\ sess'[s].doc = 0 /\ sess'[s].old = None
<1>. DEFINE x == [IdleSession EXCEPT !.at = "fetch", !.emp = e, !.type = t]
<1>1. /\ x \in Session
      /\ x.at = "fetch" /\ x.emp = e /\ x.type = t
      /\ x.path = None /\ x.doc = 0 /\ x.old = None
  BY DEF IdleSession, Session, Steps
<1>2. Begin(s, x)
  BY DEF FetchStart
<1>. HIDE DEF x
<1>. QED
  BY <1>1, <1>2, BeginFacts

LEMMA FetchCreateFacts ==
  ASSUME Typed, NEW s \in Sessions, FetchCreate(s)
  PROVE  /\ Only(s)
         /\ sess'[s].at = "fetched" /\ sess'[s].emp = sess[s].emp
         /\ sess'[s].type = sess[s].type /\ sess'[s].path = sess[s].path
         /\ sess'[s].doc = Len(docs) + 1 /\ sess'[s].old = sess[s].old
<1>1. PICK y \in Session, n \in Nat : y = sess[s] /\ n = Len(docs) + 1
  BY Facts, LenProperties
<1>. DEFINE x == [y EXCEPT !.at = "fetched", !.doc = n]
<1>2. /\ x \in Session
      /\ x.at = "fetched" /\ x.emp = y.emp /\ x.type = y.type /\ x.path = y.path
      /\ x.doc = n /\ x.old = y.old
  BY DEF Session, Steps
<1>3. Begin(s, x)
  BY <1>1 DEF FetchCreate, Begin
<1>. HIDE DEF x
<1>. QED
  BY <1>1, <1>2, <1>3, BeginFacts

LEMMA DecideStartFacts ==
  ASSUME Typed, NEW s \in Sessions, NEW d \in DOMAIN docs,
         NEW o \in {"VERIFIED", "REJECTED"}, DecideStart(s, d, o)
  PROVE  /\ Only(s)
         /\ sess'[s].at = "decide" /\ sess'[s].path = None /\ sess'[s].doc = d
         /\ sess'[s].old = docs[d].path /\ sess'[s].outcome = o /\ d # 0
<1>. DEFINE x == [IdleSession EXCEPT !.at = "decide", !.doc = d, !.old = docs[d].path,
                                     !.status = docs[d].status, !.outcome = o]
<1>1. docs[d] \in DocumentRow /\ d \in Nat /\ d # 0
  BY Facts, LenProperties
<1>2. /\ x \in Session
      /\ x.at = "decide" /\ x.path = None /\ x.doc = d
      /\ x.old = docs[d].path /\ x.outcome = o
  BY <1>1 DEF IdleSession, Session, Steps, DocumentRow, VerificationStatus
<1>3. Begin(s, x)
  BY DEF DecideStart
<1>. HIDE DEF x
<1>. QED
  BY <1>1, <1>2, <1>3, BeginFacts

LEMMA SendStartFacts ==
  ASSUME Typed, NEW s \in Sessions, NEW e \in Employees, SendStart(s, e)
  PROVE  /\ Only(s)
         /\ sess'[s].at = "send" /\ sess'[s].emp = e
         /\ sess'[s].path = None /\ sess'[s].doc = 0 /\ sess'[s].old = None
<1>. DEFINE x == [IdleSession EXCEPT !.at = "send", !.emp = e]
<1>1. /\ x \in Session
      /\ x.at = "send" /\ x.emp = e /\ x.path = None /\ x.doc = 0 /\ x.old = None
  BY DEF IdleSession, Session, Steps
<1>2. Begin(s, x)
  BY DEF SendStart
<1>. HIDE DEF x
<1>. QED
  BY <1>1, <1>2, BeginFacts

-----------------------------------------------------------------------------
(* What a step does to the rows *)

\* The paths of all rows are as they were.
SamePaths ==
  /\ docs' \in Seq(DocumentRow) /\ DOMAIN docs' = DOMAIN docs
  /\ \A d \in DOMAIN docs : docs'[d].path = docs[d].path

\* A row is added, with path p.
OneMore(p) ==
  /\ docs' \in Seq(DocumentRow) /\ DOMAIN docs' = DOMAIN docs \cup {Len(docs) + 1}
  /\ Len(docs) + 1 \notin DOMAIN docs /\ Len(docs) + 1 \in Nat \ {0}
  /\ \A d \in DOMAIN docs : docs'[d].path = docs[d].path
  /\ docs'[Len(docs) + 1].path = p

LEMMA UploadSaveRows ==
  ASSUME Typed, NEW s \in Sessions, UploadSave(s)
  PROVE  \/ At(s, "written") /\ OneMore(sess[s].path)
         \/ /\ At(s, "cleared") /\ sess[s].doc \in DOMAIN docs
            /\ docs' \in Seq(DocumentRow) /\ DOMAIN docs' = DOMAIN docs
            /\ \A d \in DOMAIN docs :
                 docs'[d].path = IF d = sess[s].doc /\ sess[s].path # sess[s].old
                                 THEN sess[s].path ELSE docs[d].path
<1>. DEFINE x == sess[s]
<1>1. /\ docs \in Seq(DocumentRow) /\ SessionSound(s) /\ x.doc \in {0} \cup DOMAIN docs
      /\ \A d \in DOMAIN docs : docs[d] \in DocumentRow
  BY Facts
<1>2. CASE At(s, "written") /\ x.doc = 0
  <2>. DEFINE e == [emp |-> x.emp, type |-> x.type, path |-> x.path, status |-> "PENDING"]
  <2>1. docs' = Append(docs, e)
    BY <1>2 DEF UploadSave, At
  <2>2. e \in DocumentRow /\ e.path = x.path
    BY <1>1, <1>2 DEF SessionSound, At, DocumentRow, VerificationStatus
  <2>. HIDE DEF e
  <2>. QED
    BY <1>1, <1>2, <2>1, <2>2, InsertedRow DEF OneMore
<1>3. CASE At(s, "cleared")
  <2>1. x.doc \in DOMAIN docs /\ x.path \in Paths
    BY <1>1, <1>3 DEF SessionSound, At
  <2>2. PICK row \in DocumentRow : row = docs[x.doc]
    BY <1>1, <2>1
  <2>. DEFINE e == ReplacedRow(row, x)
  <2>3. docs' = [docs EXCEPT ![x.doc] = e]
    BY <1>3, <2>2 DEF UploadSave, At
  <2>4. e \in DocumentRow /\ e.path = IF x.path = x.old THEN row.path ELSE x.path
    BY <2>1 DEF ReplacedRow, DocumentRow, VerificationStatus
  <2>. HIDE DEF e
  <2>5. /\ docs' \in Seq(DocumentRow) /\ DOMAIN docs' = DOMAIN docs
        /\ \A d \in DOMAIN docs : docs'[d] = IF d = x.doc THEN e ELSE docs[d]
    BY <1>1, <2>1, <2>3, <2>4, UpdatedRow
  <2>. QED
    BY <1>3, <2>1, <2>2, <2>4, <2>5
<1>. QED
  BY <1>2, <1>3 DEF UploadSave

LEMMA FetchCreateRows ==
  ASSUME Typed, NEW s \in Sessions, FetchCreate(s)
  PROVE  OneMore(None)
<1>. DEFINE e == [emp |-> sess[s].emp, type |-> sess[s].type, path |-> None,
                  status |-> "PENDING"]
<1>1. docs \in Seq(DocumentRow) /\ SessionSound(s)
  BY Facts
<1>2. docs' = Append(docs, e)
  BY DEF FetchCreate
<1>3. e \in DocumentRow /\ e.path = None
  BY <1>1 DEF FetchCreate, SessionSound, At, DocumentRow, VerificationStatus
<1>. HIDE DEF e
<1>. QED
  BY <1>1, <1>2, <1>3, InsertedRow DEF OneMore

LEMMA FetchVerifyRows ==
  ASSUME Typed, NEW s \in Sessions, FetchVerify(s)
  PROVE  SamePaths
<1>1. /\ docs \in Seq(DocumentRow) /\ sess[s].doc \in DOMAIN docs
      /\ \A d \in DOMAIN docs : docs[d] \in DocumentRow
  BY Facts DEF FetchVerify, SessionSound, At
<1>2. PICK row \in DocumentRow : row = docs[sess[s].doc]
  BY <1>1
<1>. DEFINE e == [row EXCEPT !.status = "VERIFIED"]
<1>3. docs' = [docs EXCEPT ![sess[s].doc] = e]
  BY <1>2 DEF FetchVerify
<1>4. e \in DocumentRow /\ e.path = row.path
  BY DEF DocumentRow, VerificationStatus
<1>. HIDE DEF e
<1>. QED
  BY <1>1, <1>2, <1>3, <1>4, UpdatedRow DEF SamePaths

LEMMA DecideSaveRows ==
  ASSUME Typed, NEW s \in Sessions, DecideSave(s)
  PROVE  SamePaths
<1>1. /\ docs \in Seq(DocumentRow) /\ sess[s].doc \in DOMAIN docs
      /\ sess[s].outcome \in {"VERIFIED", "REJECTED"}
      /\ \A d \in DOMAIN docs : docs[d] \in DocumentRow
  BY Facts DEF DecideSave, SessionSound, At
<1>2. PICK row \in DocumentRow : row = docs[sess[s].doc]
  BY <1>1
<1>. DEFINE e == DecidedRow(row, sess[s])
<1>3. docs' = [docs EXCEPT ![sess[s].doc] = e]
  BY <1>2 DEF DecideSave
<1>4. e \in DocumentRow /\ e.path = row.path
  BY <1>1 DEF DecidedRow, DocumentRow, VerificationStatus
<1>. HIDE DEF e
<1>. QED
  BY <1>1, <1>2, <1>3, <1>4, UpdatedRow DEF SamePaths

-----------------------------------------------------------------------------
(* Types *)

\* A session knows at its new place what it must, the rows are still rows.
LEMMA TypedSession ==
  ASSUME Typed, NEW s \in Sessions, Only(s), SessionSound(s)',
         docs' \in Seq(DocumentRow), DOMAIN docs \subseteq DOMAIN docs',
         sess'[s].doc \in {0} \cup DOMAIN docs'
  PROVE  /\ sess' \in [Sessions -> Session]
         /\ \A t \in Sessions : sess'[t].doc \in {0} \cup DOMAIN docs'
         /\ docs' \in Seq(DocumentRow)
         /\ SessionsSound'
BY Facts DEF Only, SessionsSound, SessionSound, At

LEMMA TypedEnd ==
  ASSUME Typed, NEW s \in Sessions, End(s),
         docs' \in Seq(DocumentRow), DOMAIN docs \subseteq DOMAIN docs'
  PROVE  /\ sess' \in [Sessions -> Session]
         /\ \A t \in Sessions : sess'[t].doc \in {0} \cup DOMAIN docs'
         /\ docs' \in Seq(DocumentRow)
         /\ SessionsSound'
BY EndFacts, IdleTyped, TypedSession DEF SessionSound, At

\* Moves on: what it must know at the new place it must have known at the old one.
LEMMA TypedMove ==
  ASSUME Typed, NEW s \in Sessions, NEW step \in Steps, Move(s, step),
         \/ sess[s].at \in {"upload", "found", "written", "cleared", "saved", "allowed"}
            /\ step \in {"found", "written", "cleared", "saved", "allowed"}
         \/ sess[s].at \in {"send", "checked"} /\ step \in {"checked", "mailed"},
         step = "cleared" => sess[s].doc # 0,
         docs' \in Seq(DocumentRow), DOMAIN docs \subseteq DOMAIN docs'
  PROVE  /\ sess' \in [Sessions -> Session]
         /\ \A t \in Sessions : sess'[t].doc \in {0} \cup DOMAIN docs'
         /\ docs' \in Seq(DocumentRow)
         /\ SessionsSound'
<1>1. SessionSound(s) /\ sess[s].doc \in {0} \cup DOMAIN docs
  BY Facts
<1>2. SessionSound(s)'
  BY <1>1, MoveFacts DEF SessionSound, At
<1>. QED
  BY <1>1, <1>2, MoveFacts, TypedSession

LEMMA TypedSessions ==
  ASSUME Typed, Next
  PROVE  /\ sess' \in [Sessions -> Session]
         /\ \A t \in Sessions : sess'[t].doc \in {0} \cup DOMAIN docs'
         /\ docs' \in Seq(DocumentRow)
         /\ SessionsSound'
<1>. DEFINE Goal == /\ sess' \in [Sessions -> Session]
                    /\ \A t \in Sessions : sess'[t].doc \in {0} \cup DOMAIN docs'
                    /\ docs' \in Seq(DocumentRow)
                    /\ SessionsSound'
<1>0. docs \in Seq(DocumentRow)
  BY Facts
<1>1. ASSUME NEW s \in Sessions, NEW e \in Employees, NEW t \in Types, NEW p \in Paths,
             UploadStart(s, e, t, p)
      PROVE  Goal
  <2>1. SessionSound(s)'
    BY <1>1, UploadStartFacts DEF SessionSound, At
  <2>2. UNCHANGED docs
    BY <1>1 DEF UploadStart
  <2>. QED
    BY <1>0, <1>1, <2>1, <2>2, UploadStartFacts, TypedSession
<1>2. ASSUME NEW s \in Sessions, UploadLookup(s) PROVE Goal
  <2>1. UNCHANGED docs /\ sess[s].at = "upload" /\ SessionSound(s)
    BY <1>2, Facts DEF UploadLookup, docVars, At
  <2>2. SessionSound(s)' /\ sess'[s].doc \in {0} \cup DOMAIN docs'
    BY <1>2, <2>1, UploadLookupFacts, Facts, IdleTyped DEF SessionSound, At
  <2>. QED
    BY <1>0, <1>2, <2>1, <2>2, UploadLookupFacts, TypedSession
<1>3. ASSUME NEW s \in Sessions, UploadWrite(s) PROVE Goal
  BY <1>0, <1>3, TypedMove DEF UploadWrite, At, Steps
<1>4. ASSUME NEW s \in Sessions, UploadDeleteOld(s) PROVE Goal
  BY <1>0, <1>4, TypedMove DEF UploadDeleteOld, At, Steps
<1>5. ASSUME NEW s \in Sessions, UploadSave(s) PROVE Goal
  <2>1. docs' \in Seq(DocumentRow) /\ DOMAIN docs \subseteq DOMAIN docs'
    BY <1>5, UploadSaveRows DEF OneMore
  <2>. QED
    BY <1>5, <2>1, TypedMove DEF UploadSave, At, Steps
<1>6. ASSUME NEW s \in Sessions, UploadCheckAgain(s) PROVE Goal
  BY <1>0, <1>6, TypedMove, TypedEnd DEF UploadCheckAgain, At, Steps, docVars
<1>7. ASSUME NEW s \in Sessions, UploadCount(s) PROVE Goal
  <2>1. UNCHANGED docs /\ sess[s].at = "allowed" /\ SessionSound(s)
    BY <1>7, Facts DEF UploadCount, docVars, At
  <2>2. SessionSound(s)' /\ sess'[s].doc \in {0} \cup DOMAIN docs'
    BY <1>7, <2>1, UploadCountFacts, Facts DEF SessionSound, At
  <2>. QED
    BY <1>0, <1>7, <2>1, <2>2, UploadCountFacts, TypedSession
<1>8. ASSUME NEW s \in Sessions, UploadCharge(s) PROVE Goal
  BY <1>0, <1>8, TypedEnd DEF UploadCharge
<1>9. ASSUME NEW s \in Sessions, NEW e \in Employees, NEW t \in Types, FetchStart(s, e, t)
      PROVE  Goal
  <2>1. SessionSound(s)' /\ UNCHANGED docs
    BY <1>9, FetchStartFacts, ZenonT(60) DEF SessionSound, At, FetchStart
  <2>. QED
    BY <1>0, <1>9, <2>1, FetchStartFacts, TypedSession
<1>10. ASSUME NEW s \in Sessions, FetchCreate(s) PROVE Goal
  <2>1. sess[s].at = "fetch" /\ SessionSound(s)
    BY <1>10, Facts DEF FetchCreate, At
  <2>2. OneMore(None)
    BY <1>10, FetchCreateRows
  <2>3. SessionSound(s)'
    BY <1>10, <2>1, <2>2, FetchCreateFacts DEF SessionSound, At, OneMore
  <2>. QED
    BY <1>10, <2>2, <2>3, FetchCreateFacts, TypedSession DEF OneMore
<1>11. ASSUME NEW s \in Sessions, FetchVerify(s) PROVE Goal
  BY <1>11, FetchVerifyRows, TypedEnd DEF FetchVerify, SamePaths
<1>12. ASSUME NEW s \in Sessions, NEW d \in DOMAIN docs, NEW o \in {"VERIFIED", "REJECTED"},
              DecideStart(s, d, o)
       PROVE  Goal
  <2>1. SessionSound(s)' /\ UNCHANGED docs
    BY <1>12, DecideStartFacts DEF SessionSound, At, DecideStart, docVars
  <2>. QED
    BY <1>0, <1>12, <2>1, DecideStartFacts, TypedSession
<1>13. ASSUME NEW s \in Sessions, DecideSave(s) PROVE Goal
  BY <1>13, DecideSaveRows, TypedEnd DEF DecideSave, SamePaths
<1>14. ASSUME NEW s \in Sessions, NEW e \in Employees, SendStart(s, e) PROVE Goal
  <2>1. SessionSound(s)' /\ UNCHANGED docs
    BY <1>14, SendStartFacts DEF SessionSound, At, SendStart, docVars
  <2>. QED
    BY <1>0, <1>14, <2>1, SendStartFacts, TypedSession
<1>15. ASSUME NEW s \in Sessions, SendCheck(s) PROVE Goal
  BY <1>0, <1>15, TypedMove, TypedEnd DEF SendCheck, At, Steps, docVars
<1>16. ASSUME NEW s \in Sessions, SendMail(s) PROVE Goal
  BY <1>0, <1>16, TypedMove DEF SendMail, At, Steps, docVars
<1>17. ASSUME NEW s \in Sessions, SendFlag(s) PROVE Goal
  BY <1>0, <1>17, TypedEnd DEF SendFlag
<1>18. ASSUME NEW s \in Sessions, Cut(s) PROVE Goal
  BY <1>0, <1>18, TypedEnd DEF Cut, docVars
<1>19. ASSUME UNCHANGED <<sess, docs>> PROVE Goal
  BY <1>19, Facts DEF Typed, TypeOK, SessionsSound, SessionSound, At
<1>20. ASSUME NEW e \in Employees, UploadLetters(e) PROVE Goal
  BY <1>19, <1>20 DEF UploadLetters
<1>21. ASSUME ResetStart \/ ResetSave PROVE Goal
  BY <1>19, <1>21 DEF ResetStart, ResetSave
<1>. QED
  BY <1>1, <1>2, <1>3, <1>4, <1>5, <1>6, <1>7, <1>8, <1>9, <1>10, <1>11, <1>12, <1>13,
     <1>14, <1>15, <1>16, <1>17, <1>18, <1>20, <1>21
  DEF Next, UploadStep

\* The columns and counters no session holds.
Columns ==
  /\ disk \subseteq Paths /\ usage \in Nat
  /\ letters \subseteq Employees /\ sent \subseteq Employees
  /\ reset \in [at : {"due", "read", "done"}, seen : Nat]
  /\ started \in Nat /\ stored \in Nat /\ crashes \in Nat
  /\ mailed \in [Employees -> Nat]
  /\ reviewed \subseteq Paths /\ torn \subseteq Paths

LEMMA TypedColumns ==
  ASSUME Typed, Next
  PROVE  Columns'
<1>0. Columns
  BY DEF Typed, TypeOK, Columns
<1>. USE DEF docVars, history, Columns
<1>1. ASSUME NEW s \in Sessions PROVE sess[s] \in Session /\ SessionSound(s)
  BY <1>1, Facts
<1>2. ASSUME NEW s \in Sessions, NEW e \in Employees, NEW t \in Types, NEW p \in Paths,
             UploadStart(s, e, t, p)
      PROVE  Columns'
  BY <1>0, <1>2 DEF UploadStart
<1>3. ASSUME NEW s \in Sessions,
             UploadLookup(s) \/ UploadCheckAgain(s) \/ UploadCount(s) \/ SendCheck(s)
      PROVE  Columns'
  BY <1>0, <1>3 DEF UploadLookup, UploadCheckAgain, UploadCount, SendCheck
<1>4. ASSUME NEW s \in Sessions, UploadWrite(s) PROVE Columns'
  BY <1>0, <1>1, <1>4 DEF UploadWrite, SessionSound, At
<1>5. ASSUME NEW s \in Sessions, UploadDeleteOld(s) PROVE Columns'
  BY <1>0, <1>5 DEF UploadDeleteOld
<1>6. ASSUME NEW s \in Sessions, UploadSave(s) PROVE Columns'
  BY <1>0, <1>6 DEF UploadSave
<1>7. ASSUME NEW s \in Sessions, UploadCharge(s) PROVE Columns'
  BY <1>0, <1>1, <1>7 DEF UploadCharge, Charged, Session
<1>8. ASSUME NEW s \in Sessions, NEW e \in Employees, NEW t \in Types, FetchStart(s, e, t)
      PROVE  Columns'
  BY <1>0, <1>8 DEF FetchStart
<1>9. ASSUME NEW s \in Sessions, FetchCreate(s) \/ FetchVerify(s) PROVE Columns'
  BY <1>0, <1>9 DEF FetchCreate, FetchVerify
<1>10. ASSUME NEW s \in Sessions, NEW d \in DOMAIN docs, NEW o \in {"VERIFIED", "REJECTED"},
              DecideStart(s, d, o)
       PROVE  Columns'
  BY <1>0, <1>10 DEF DecideStart
<1>11. ASSUME NEW s \in Sessions, DecideSave(s) PROVE Columns'
  BY <1>0, <1>1, <1>11 DEF DecideSave, Session
<1>12. ASSUME NEW s \in Sessions, NEW e \in Employees, SendStart(s, e) PROVE Columns'
  BY <1>0, <1>12 DEF SendStart
<1>13. ASSUME NEW s \in Sessions, SendMail(s) PROVE Columns'
  BY <1>0, <1>1, <1>13 DEF SendMail, SessionSound, At
<1>14. ASSUME NEW s \in Sessions, SendFlag(s) PROVE Columns'
  BY <1>0, <1>1, <1>14 DEF SendFlag, SessionSound, At
<1>15. ASSUME NEW s \in Sessions, Cut(s) PROVE Columns'
  BY <1>0, <1>1, <1>15 DEF Cut, Session
<1>16. ASSUME NEW e \in Employees, UploadLetters(e) PROVE Columns'
  BY <1>0, <1>16 DEF UploadLetters
<1>17. ASSUME ResetStart \/ ResetSave PROVE Columns'
  BY <1>0, <1>17 DEF ResetStart, ResetSave
<1>. HIDE DEF docVars, history, Columns
<1>. QED
  BY <1>2, <1>3, <1>4, <1>5, <1>6, <1>7, <1>8, <1>9, <1>10, <1>11, <1>12, <1>13,
     <1>14, <1>15, <1>16, <1>17
  DEF Next, UploadStep

LEMMA TypedNext ==
  ASSUME Typed, [Next]_vars
  PROVE  Typed'
<1>1. CASE Next
  BY <1>1, TypedSessions, TypedColumns DEF Typed, TypeOK, Columns
<1>2. CASE UNCHANGED vars
  BY <1>2 DEF vars, docVars, history, Typed, TypeOK, SessionsSound, SessionSound, At
<1>. QED
  BY <1>1, <1>2

-----------------------------------------------------------------------------
(* Files *)

LEMMA PathFacts ==
  ASSUME Typed
  PROVE  /\ None \notin Paths
         /\ \A s \in Sessions : Pending(s) => sess[s].path \in Paths
BY Facts, DocumentAssumption DEF SessionSound, Pending

\* No file goes, no row changes its path, and nobody comes to a path of its own.
LEMMA QuietStep ==
  ASSUME Typed, Apart, DistinctNames, FilesKept,
         NEW s \in Sessions, Only(s),
         DOMAIN docs \subseteq DOMAIN docs',
         \A d \in DOMAIN docs' :
           docs'[d].path = IF d \in DOMAIN docs THEN docs[d].path ELSE None,
         disk \subseteq disk', torn \subseteq torn',
         sess'[s].path \in {sess[s].path, None},
         \/ sess'[s].old = None
         \/ sess'[s].old = sess[s].old /\ sess'[s].doc = sess[s].doc
         \/ sess'[s].doc \in DOMAIN docs /\ sess'[s].old = docs[sess'[s].doc].path,
         Pending(s)' => /\ Pending(s) /\ sess'[s].path = sess[s].path
                        /\ \/ sess'[s].at = "found"
                           \/ sess[s].path \in disk',
         At(s, "cleared") => sess[s].old \in torn' \cup {None}
  PROVE  Apart' /\ FilesKept'
<1>. DEFINE P == [d \in DOMAIN docs |-> docs[d].path]
            Q == [d \in DOMAIN docs' |-> docs'[d].path]
<1>1. \A d \in DOMAIN docs : P[d] = docs[d].path
  OBVIOUS
<1>2. \A d \in DOMAIN docs' : docs'[d].path = IF d \in DOMAIN docs THEN P[d] ELSE None
  OBVIOUS
<1>3. \A t \in Sessions : t # s => sess'[t] = sess[t]
  BY DEF Only
<1>4. \A d, e \in DOMAIN docs' :
        docs'[d].path = docs'[e].path => d = e \/ docs'[d].path = None
  BY <1>1, <1>2 DEF Apart
<1>5. \A t \in Sessions, d \in DOMAIN docs' :
        sess'[t].old = docs'[d].path => d = sess'[t].doc \/ docs'[d].path = None
  <2>. SUFFICES ASSUME NEW t \in Sessions, NEW d \in DOMAIN docs,
                       sess'[t].old = docs[d].path, docs[d].path # None
                PROVE  d = sess'[t].doc
    BY <1>2
  <2>1. CASE t # s
    BY <1>3, <2>1 DEF Apart
  <2>2. CASE t = s
    BY <2>2 DEF Apart
  <2>. QED
    BY <2>1, <2>2
<1>6. ASSUME NEW t \in Sessions PROVE OwnPath(t)'
  <2>. SUFFICES ASSUME Pending(t)'
                PROVE  /\ \A d \in DOMAIN docs' : docs'[d].path # sess'[t].path
                       /\ \A r \in Sessions : /\ sess'[r].old # sess'[t].path
                                              /\ r # t => sess'[r].path # sess'[t].path
                       /\ sess'[t].at \in {"written", "cleared"} => sess'[t].path \in disk'
    BY DEF OwnPath
  <2>1. Pending(t) /\ sess'[t].path = sess[t].path
    BY <1>3 DEF Pending
  <2>2. sess[t].path \in Paths /\ None \notin Paths
    BY <2>1, PathFacts
  <2>3. OwnPath(t)
    BY DEF Apart
  <2>4. \A d \in DOMAIN docs' : docs'[d].path # sess'[t].path
    BY <1>2, <2>1, <2>2, <2>3 DEF OwnPath
  <2>5. ASSUME NEW r \in Sessions
        PROVE  sess'[r].old # sess'[t].path /\ (r # t => sess'[r].path # sess'[t].path)
    <3>1. CASE r # s
      BY <1>3, <2>1, <2>3, <3>1 DEF OwnPath
    <3>2. CASE r = s
      BY <2>1, <2>2, <2>3, <3>2 DEF OwnPath
    <3>. QED
      BY <3>1, <3>2
  <2>6. sess'[t].at \in {"written", "cleared"} => sess'[t].path \in disk'
    <3>1. CASE t # s
      BY <1>3, <2>1, <2>3, <3>1 DEF OwnPath
    <3>2. CASE t = s
      BY <2>1, <3>2
    <3>. QED
      BY <3>1, <3>2
  <2>. QED
    BY <2>4, <2>5, <2>6
<1>7. FilesKept'
  <2>. SUFFICES ASSUME NEW d \in DOMAIN docs, docs[d].path # None
                PROVE  \/ docs[d].path \in disk'
                       \/ \E t \in Sessions : At(t, "cleared")' /\ sess'[t].old = docs[d].path
                       \/ docs[d].path \in torn'
    BY <1>2 DEF FilesKept
  <2>1. CASE docs[d].path \in disk \/ docs[d].path \in torn
    BY <2>1
  <2>2. ASSUME NEW t \in Sessions, At(t, "cleared"), sess[t].old = docs[d].path
        PROVE  \/ docs[d].path \in torn'
               \/ At(t, "cleared")' /\ sess'[t].old = docs[d].path
    BY <1>3, <2>2 DEF At
  <2>. QED
    BY <2>1, <2>2 DEF FilesKept
<1>. QED
  BY <1>4, <1>5, <1>6, <1>7 DEF Apart

\* A name that is not in use becomes the upload's own path.
LEMMA UploadStartPaths ==
  ASSUME Typed, Apart, DistinctNames, FilesKept, NEW s \in Sessions,
         NEW e \in Employees, NEW k \in Types, NEW p \in Paths, UploadStart(s, e, k, p)
  PROVE  Apart' /\ FilesKept'
<1>1. /\ \A d \in DOMAIN docs : docs[d].path # p
      /\ \A r \in Sessions : sess[r].path # p /\ sess[r].old # p
      /\ UNCHANGED <<docs, disk, torn>> /\ sess[s].at = "idle"
  BY DEF UploadStart, InUse, history, At
<1>2. /\ \A t \in Sessions : t # s => sess'[t] = sess[t]
      /\ sess'[s].at = "upload" /\ sess'[s].path = p /\ sess'[s].old = None
      /\ p # None
  BY UploadStartFacts, PathFacts DEF Only
<1>3. ASSUME NEW t \in Sessions PROVE OwnPath(t)'
  <2>1. CASE t = s
    BY <1>1, <1>2, <2>1 DEF OwnPath
  <2>2. CASE t # s /\ Pending(t)
    <3>1. OwnPath(t) /\ sess[t].path # None
      BY <2>2, PathFacts DEF Apart
    <3>. QED
      BY <1>1, <1>2, <2>2, <3>1 DEF OwnPath
  <2>3. CASE t # s /\ ~Pending(t)
    BY <1>2, <2>3 DEF OwnPath, Pending
  <2>. QED
    BY <2>1, <2>2, <2>3
<1>4. \A t \in Sessions, d \in DOMAIN docs :
        sess'[t].old = docs[d].path => d = sess'[t].doc \/ docs[d].path = None
  BY <1>2 DEF Apart
<1>5. FilesKept'
  BY <1>1, <1>2 DEF FilesKept, At
<1>. QED
  BY <1>1, <1>3, <1>4, <1>5 DEF Apart

\* The deleted file is nobody's, or that of a row whose session is at the commit.
LEMMA UploadDeleteOldPaths ==
  ASSUME Typed, Apart, DistinctNames, FilesKept, NEW s \in Sessions, UploadDeleteOld(s)
  PROVE  Apart' /\ FilesKept'
<1>1. /\ sess[s].at = "written" /\ disk' = disk \ {sess[s].old}
      /\ UNCHANGED <<docs, torn>> /\ Move(s, "cleared")
  BY DEF UploadDeleteOld, history, At
<1>2. /\ \A t \in Sessions : t # s => sess'[t] = sess[t]
      /\ sess'[s].at = "cleared" /\ sess'[s].path = sess[s].path
      /\ sess'[s].old = sess[s].old /\ sess'[s].doc = sess[s].doc
  BY <1>1, MoveFacts DEF Only, Steps
<1>3. \A t \in Sessions : /\ sess'[t].path = sess[t].path /\ sess'[t].old = sess[t].old
                          /\ sess'[t].doc = sess[t].doc
                          /\ Pending(t)' <=> Pending(t)
  BY <1>1, <1>2 DEF Pending
<1>4. ASSUME NEW t \in Sessions PROVE OwnPath(t)'
  <2>1. OwnPath(t) /\ OwnPath(s)
    BY DEF Apart
  <2>2. Pending(t) => sess[s].old # sess[t].path
    BY <2>1 DEF OwnPath
  <2>3. sess'[t].at \in {"written", "cleared"} /\ Pending(t) => sess[t].path \in disk
    BY <1>1, <1>2, <2>1 DEF OwnPath, Pending
  <2>. QED
    BY <1>1, <1>3, <2>1, <2>2, <2>3 DEF OwnPath
<1>5. FilesKept'
  BY <1>1, <1>2 DEF FilesKept, At
<1>. QED
  BY <1>1, <1>3, <1>4, <1>5 DEF Apart

\* The row that is saved names the upload's own file, which is there.
LEMMA UploadSavePaths ==
  ASSUME Typed, Apart, DistinctNames, FilesKept, NEW s \in Sessions, UploadSave(s)
  PROVE  Apart' /\ FilesKept'
<1>. DEFINE p == sess[s].path
<1>1. /\ sess[s].at \in {"written", "cleared"}
      /\ UNCHANGED <<disk, torn>> /\ Move(s, "saved")
  BY DEF UploadSave, At
<1>2. /\ \A t \in Sessions : t # s => sess'[t] = sess[t]
      /\ sess'[s].at = "saved" /\ sess'[s].path = p
      /\ sess'[s].old = sess[s].old /\ sess'[s].doc = sess[s].doc
  BY <1>1, MoveFacts DEF Only, Steps
<1>3. /\ \A t \in Sessions : /\ sess'[t].path = sess[t].path /\ sess'[t].old = sess[t].old
                             /\ sess'[t].doc = sess[t].doc
                             /\ Pending(t)' => Pending(t) /\ t # s
      /\ p \in Paths /\ p # None /\ p \in disk
      /\ \A d \in DOMAIN docs : docs[d].path # p
      /\ \A t \in Sessions : sess[t].old # p /\ (t # s => sess[t].path # p)
  <2>1. Pending(s) /\ OwnPath(s)
    BY <1>1 DEF Pending, Apart
  <2>. QED
    BY <1>1, <1>2, <2>1, PathFacts DEF Pending, OwnPath
<1>4. PICK n \in DOMAIN docs' :
        /\ DOMAIN docs \subseteq DOMAIN docs' /\ DOMAIN docs' \subseteq DOMAIN docs \cup {n}
        /\ \A d \in DOMAIN docs' : docs'[d].path = IF d = n THEN p ELSE docs[d].path
        /\ At(s, "cleared") => n = sess[s].doc
  <2>1. CASE At(s, "written") /\ OneMore(p)
    BY <2>1 DEF OneMore, At
  <2>2. CASE ~(At(s, "written") /\ OneMore(p))
    <3>1. /\ At(s, "cleared") /\ sess[s].doc \in DOMAIN docs
          /\ DOMAIN docs' = DOMAIN docs
          /\ \A d \in DOMAIN docs :
                 docs'[d].path = IF d = sess[s].doc /\ p # sess[s].old
                                 THEN p ELSE docs[d].path
      BY <2>2, UploadSaveRows
    <3>. QED
      BY <1>3, <3>1
  <2>. QED
    BY <2>1, <2>2
<1>. HIDE DEF p
<1>5. \A d, e \in DOMAIN docs' :
        docs'[d].path = docs'[e].path => d = e \/ docs'[d].path = None
  BY <1>3, <1>4 DEF Apart
<1>6. \A t \in Sessions, d \in DOMAIN docs' :
        sess'[t].old = docs'[d].path => d = sess'[t].doc \/ docs'[d].path = None
  BY <1>3, <1>4 DEF Apart
<1>7. ASSUME NEW t \in Sessions PROVE OwnPath(t)'
  <2>. SUFFICES ASSUME Pending(t)' PROVE OwnPath(t)'
    BY DEF OwnPath
  <2>1. OwnPath(t) /\ Pending(t) /\ t # s /\ sess'[t] = sess[t]
    BY <1>2, <1>3 DEF Apart
  <2>. QED
    BY <1>1, <1>3, <1>4, <2>1 DEF OwnPath
<1>8. FilesKept'
  <2>. SUFFICES ASSUME NEW d \in DOMAIN docs', docs'[d].path # None
                PROVE  \/ docs'[d].path \in disk
                       \/ \E t \in Sessions : At(t, "cleared")' /\ sess'[t].old = docs'[d].path
                       \/ docs'[d].path \in torn
    BY <1>1 DEF FilesKept
  <2>1. CASE d = n
    BY <1>3, <1>4, <2>1
  <2>2. CASE d # n
    <3>1. d \in DOMAIN docs /\ docs'[d].path = docs[d].path /\ docs[d].path # None
      BY <1>4, <2>2
    <3>2. ASSUME NEW t \in Sessions, At(t, "cleared"), sess[t].old = docs[d].path
          PROVE  At(t, "cleared")' /\ sess'[t].old = docs[d].path
      <4>1. d = sess[t].doc
        BY <3>1, <3>2 DEF Apart
      <4>2. t # s
        BY <1>4, <2>2, <3>2, <4>1
      <4>. QED
        BY <1>2, <3>2, <4>2 DEF At
    <3>. QED
      BY <3>1, <3>2 DEF FilesKept
  <2>. QED
    BY <2>1, <2>2
<1>. QED
  BY <1>5, <1>6, <1>7, <1>8 DEF Apart

\* A session that only moves on, outside the three steps above.
LEMMA QuietMove ==
  ASSUME Typed, Apart, DistinctNames, FilesKept,
         NEW s \in Sessions, NEW step \in Steps, Move(s, step),
         sess[s].at # "cleared",
         \/ step \notin {"upload", "found", "written", "cleared"}
         \/ At(s, "upload") /\ step = "found"
         \/ At(s, "found") /\ step = "written" /\ sess[s].path \in disk',
         UNCHANGED docs, disk \subseteq disk', torn \subseteq torn'
  PROVE  Apart' /\ FilesKept'
<1>1. /\ Only(s) /\ sess'[s].at = step /\ sess'[s].path = sess[s].path
      /\ sess'[s].old = sess[s].old /\ sess'[s].doc = sess[s].doc
  BY MoveFacts
<1>2. Pending(s)' => /\ Pending(s)
                     /\ sess'[s].at = "found" \/ sess[s].path \in disk'
  BY <1>1 DEF Pending, At
<1>. QED
  BY <1>1, <1>2, QuietStep DEF At

LEMMA QuietEnd ==
  ASSUME Typed, Apart, DistinctNames, FilesKept, NEW s \in Sessions, End(s),
         DOMAIN docs' = DOMAIN docs,
         \A d \in DOMAIN docs : docs'[d].path = docs[d].path,
         UNCHANGED disk, torn \subseteq torn',
         At(s, "cleared") => sess[s].old \in torn' \cup {None}
  PROVE  Apart' /\ FilesKept'
<1>1. Only(s) /\ sess'[s].old = None /\ sess'[s].path = None /\ ~Pending(s)'
  BY EndFacts, IdleTyped DEF Pending
<1>. QED
  BY <1>1, QuietStep

LEMMA FilesNext ==
  ASSUME Typed, Apart, DistinctNames, FilesKept, Next
  PROVE  Apart' /\ FilesKept'
<1>. DEFINE Goal == Apart' /\ FilesKept'
<1>. USE DEF docVars, history
<1>1. ASSUME NEW s \in Sessions, UploadLookup(s) PROVE Goal
  <2>1. At(s, "upload") /\ UNCHANGED <<docs, disk, torn>>
    BY <1>1 DEF UploadLookup
  <2>2. /\ Only(s)
        /\ \/ sess'[s] = IdleSession
           \/ /\ sess'[s].at = "found" /\ sess'[s].path = sess[s].path
              /\ \/ sess'[s].doc = sess[s].doc /\ sess'[s].old = sess[s].old
                 \/ sess'[s].doc \in DOMAIN docs
                    /\ sess'[s].old = docs[sess'[s].doc].path
    BY <1>1, UploadLookupFacts
  <2>3. CASE sess'[s] = IdleSession
    BY <2>1, <2>2, <2>3, QuietStep, IdleTyped DEF Pending, At
  <2>4. CASE sess'[s] # IdleSession
    BY <2>1, <2>2, <2>4, QuietStep DEF Pending, At
  <2>. QED
    BY <2>3, <2>4
<1>2. ASSUME NEW s \in Sessions, UploadWrite(s) PROVE Goal
  BY <1>2, QuietMove DEF UploadWrite, Steps, At
<1>3. ASSUME NEW s \in Sessions, UploadCheckAgain(s) PROVE Goal
  BY <1>3, QuietMove, QuietEnd DEF UploadCheckAgain, Steps, At
<1>4. ASSUME NEW s \in Sessions, UploadCount(s) PROVE Goal
  <2>1. At(s, "allowed") /\ UNCHANGED <<docs, disk, torn>>
    BY <1>4 DEF UploadCount
  <2>2. /\ Only(s) /\ sess'[s].path = sess[s].path /\ ~Pending(s)'
        /\ sess'[s].doc = sess[s].doc /\ sess'[s].old = sess[s].old
    BY <1>4, UploadCountFacts DEF Pending
  <2>. QED
    BY <2>1, <2>2, QuietStep DEF At
<1>5. ASSUME NEW s \in Sessions, UploadCharge(s) PROVE Goal
  BY <1>5, QuietEnd DEF UploadCharge, At
<1>6. ASSUME NEW s \in Sessions, NEW e \in Employees, NEW t \in Types, FetchStart(s, e, t)
      PROVE  Goal
  <2>1. At(s, "idle") /\ UNCHANGED <<docs, disk, torn>>
    BY <1>6 DEF FetchStart
  <2>2. Only(s) /\ sess'[s].path = None /\ sess'[s].old = None /\ ~Pending(s)'
    BY <1>6, FetchStartFacts DEF Pending
  <2>. QED
    BY <2>1, <2>2, QuietStep DEF At
<1>7. ASSUME NEW s \in Sessions, FetchCreate(s) PROVE Goal
  <2>1. At(s, "fetch") /\ UNCHANGED <<disk, torn>> /\ sess[s].old = None
    BY <1>7, Facts DEF FetchCreate, SessionSound
  <2>2. /\ Only(s) /\ sess'[s].path = sess[s].path /\ sess'[s].old = None
        /\ ~Pending(s)'
    BY <1>7, <2>1, FetchCreateFacts DEF Pending
  <2>3. /\ DOMAIN docs \subseteq DOMAIN docs'
        /\ \A d \in DOMAIN docs' :
             docs'[d].path = IF d \in DOMAIN docs THEN docs[d].path ELSE None
    BY <1>7, FetchCreateRows DEF OneMore
  <2>. QED
    BY <2>1, <2>2, <2>3, QuietStep DEF At
<1>8. ASSUME NEW s \in Sessions, FetchVerify(s) PROVE Goal
  BY <1>8, FetchVerifyRows, QuietEnd DEF FetchVerify, SamePaths, At
<1>9. ASSUME NEW s \in Sessions, NEW d \in DOMAIN docs, NEW o \in {"VERIFIED", "REJECTED"},
             DecideStart(s, d, o)
      PROVE  Goal
  <2>1. At(s, "idle") /\ UNCHANGED <<docs, disk, torn>>
    BY <1>9 DEF DecideStart
  <2>2. /\ Only(s) /\ sess'[s].path = None /\ ~Pending(s)'
        /\ sess'[s].doc \in DOMAIN docs /\ sess'[s].old = docs[sess'[s].doc].path
    BY <1>9, DecideStartFacts DEF Pending
  <2>. QED
    BY <2>1, <2>2, QuietStep DEF At
<1>10. ASSUME NEW s \in Sessions, DecideSave(s) PROVE Goal
  BY <1>10, DecideSaveRows, QuietEnd DEF DecideSave, SamePaths, At
<1>11. ASSUME NEW s \in Sessions, NEW e \in Employees, SendStart(s, e) PROVE Goal
  <2>1. At(s, "idle") /\ UNCHANGED <<docs, disk, torn>>
    BY <1>11 DEF SendStart
  <2>2. Only(s) /\ sess'[s].path = None /\ sess'[s].old = None /\ ~Pending(s)'
    BY <1>11, SendStartFacts DEF Pending
  <2>. QED
    BY <2>1, <2>2, QuietStep DEF At
<1>12. ASSUME NEW s \in Sessions, SendCheck(s) PROVE Goal
  BY <1>12, QuietMove, QuietEnd DEF SendCheck, Steps, At
<1>13. ASSUME NEW s \in Sessions, SendMail(s) PROVE Goal
  BY <1>13, QuietMove DEF SendMail, Steps, At
<1>14. ASSUME NEW s \in Sessions, SendFlag(s) PROVE Goal
  BY <1>14, QuietEnd DEF SendFlag, At
<1>15. ASSUME NEW s \in Sessions, Cut(s) PROVE Goal
  BY <1>15, QuietEnd DEF Cut
<1>16. ASSUME UNCHANGED <<sess, docs, disk, torn>> PROVE Goal
  BY <1>16 DEF Apart, OwnPath, Pending, FilesKept, At
<1>17. ASSUME NEW e \in Employees, UploadLetters(e) PROVE Goal
  BY <1>16, <1>17 DEF UploadLetters
<1>18. ASSUME ResetStart \/ ResetSave PROVE Goal
  BY <1>16, <1>18 DEF ResetStart, ResetSave
<1>. HIDE DEF docVars, history, Goal
<1>19. ASSUME NEW s \in Sessions, UploadStep(s) PROVE Goal
  BY <1>1, <1>2, <1>3, <1>4, <1>5, <1>19, UploadDeleteOldPaths, UploadSavePaths
  DEF UploadStep, Goal
<1>20. ASSUME NEW s \in Sessions, NEW e \in Employees, NEW t \in Types, NEW p \in Paths,
              UploadStart(s, e, t, p)
       PROVE  Goal
  BY <1>20, UploadStartPaths DEF Goal
<1>21. Goal
  BY <1>6, <1>7, <1>8, <1>9, <1>10, <1>11, <1>12, <1>13, <1>14, <1>15, <1>17, <1>18,
     <1>19, <1>20
  DEF Next
<1>. QED
  BY <1>21 DEF Goal

-----------------------------------------------------------------------------
(* Charges *)

LEMMA Subset ==
  ASSUME NEW S \in SUBSET Sessions
  PROVE  IsFiniteSet(S) /\ Cardinality(S) \in Nat /\ Cardinality(S) <= Cardinality(Sessions)
         /\ Cardinality(Sessions) \in Nat
BY DocumentAssumption, FS_Subset, FS_CardinalityType

LEMMA SetGains ==
  ASSUME NEW S \in SUBSET Sessions, NEW s \in Sessions, s \notin S
  PROVE  Cardinality(S \cup {s}) = Cardinality(S) + 1
BY Subset, FS_AddElement

LEMMA SetLoses ==
  ASSUME NEW S \in SUBSET Sessions, NEW s \in S
  PROVE  Cardinality(S \ {s}) = Cardinality(S) - 1
BY Subset, FS_RemoveElement

\* The sessions that owe a charge, when session s alone has changed.
LEMMA ChargingChanges ==
  ASSUME NEW s \in Sessions, Only(s)
  PROVE  /\ Charging' = IF sess'[s].at \in {"saved", "allowed", "counted"}
                        THEN Charging \cup {s} ELSE Charging \ {s}
         /\ s \in Charging <=> sess[s].at \in {"saved", "allowed", "counted"}
         /\ Charging \in SUBSET Sessions /\ Charging' \in SUBSET Sessions
BY DEF Charging, Only

\* A step that charges nothing: who owed still owes, or was cut.
LEMMA NoCharge ==
  ASSUME Typed, ChargesDue, NEW s \in Sessions, Only(s),
         sess'[s].at \in {"saved", "allowed", "counted"} => s \in Charging,
         At(s, "counted")' => sess'[s].seen = usage,
         UNCHANGED <<usage, stored>>
  PROVE  ChargesDue'
<1>1. /\ usage \in Nat /\ stored \in Nat
      /\ \A t \in Sessions : sess[t].seen \in Nat
      /\ \A t \in Sessions : t # s => sess'[t] = sess[t]
  BY Facts DEF Session, Only
<1>2. Charging' = Charging \/ (s \in Charging /\ Charging' = Charging \ {s})
  BY ChargingChanges
<1>3. Cardinality(Charging) \in Nat /\ Cardinality(Charging') \in Nat
      /\ Cardinality(Charging') <= Cardinality(Charging)
  BY <1>2, ChargingChanges, Subset, SetLoses
<1>4. usage + Cardinality(Charging') <= stored
  BY <1>1, <1>3 DEF ChargesDue
<1>5. ASSUME NEW t \in Sessions, At(t, "counted")'
      PROVE  sess'[t].seen + Cardinality(Charging') <= stored
  <2>1. CASE t = s
    BY <1>4, <1>5, <2>1
  <2>2. CASE t # s
    BY <1>1, <1>3, <1>5, <2>2 DEF ChargesDue, At
  <2>. QED
    BY <2>1, <2>2
<1>. QED
  BY <1>4, <1>5 DEF ChargesDue

LEMMA UploadSaveCharges ==
  ASSUME Typed, ChargesDue, NEW s \in Sessions, UploadSave(s)
  PROVE  ChargesDue'
<1>1. /\ Only(s) /\ sess'[s].at = "saved" /\ sess[s].at \in {"written", "cleared"}
      /\ usage' = usage /\ stored' = stored + 1
  BY MoveFacts DEF UploadSave, Steps, At
<1>2. /\ usage \in Nat /\ stored \in Nat
      /\ \A t \in Sessions : sess[t].seen \in Nat
      /\ \A t \in Sessions : t # s => sess'[t] = sess[t]
  BY <1>1, Facts DEF Session, Only
<1>3. s \notin Charging /\ Charging' = Charging \cup {s}
  BY <1>1, ChargingChanges
<1>4. Cardinality(Charging) \in Nat /\ Cardinality(Charging') = Cardinality(Charging) + 1
  BY <1>1, <1>3, ChargingChanges, Subset, SetGains
<1>. QED
  BY <1>1, <1>2, <1>4 DEF ChargesDue, At

LEMMA UploadChargeCharges ==
  ASSUME Typed, ChargesDue, NEW s \in Sessions, UploadCharge(s)
  PROVE  ChargesDue'
<1>1. /\ Only(s) /\ sess'[s].at = "idle" /\ sess[s].at = "counted"
      /\ usage' = sess[s].seen + 1 /\ stored' = stored
  BY EndFacts, IdleTyped DEF UploadCharge, Charged, history, At
<1>2. /\ usage \in Nat /\ stored \in Nat
      /\ \A t \in Sessions : sess[t].seen \in Nat
      /\ \A t \in Sessions : t # s => sess'[t] = sess[t]
  BY <1>1, Facts DEF Session, Only
<1>3. s \in Charging /\ Charging' = Charging \ {s}
  BY <1>1, ChargingChanges
<1>4. Cardinality(Charging) \in Nat /\ Cardinality(Charging') = Cardinality(Charging) - 1
  BY <1>1, <1>3, ChargingChanges, Subset, SetLoses
<1>5. usage' + Cardinality(Charging') <= stored
  BY <1>1, <1>2, <1>4 DEF ChargesDue, At
<1>6. ASSUME NEW t \in Sessions, At(t, "counted")'
      PROVE  sess'[t].seen + Cardinality(Charging') <= stored
  <2>1. t # s /\ sess'[t] = sess[t] /\ sess[t].at = "counted"
    BY <1>1, <1>2, <1>6 DEF At
  <2>. QED
    BY <1>2, <1>4, <2>1 DEF ChargesDue, At
<1>. QED
  BY <1>1, <1>5, <1>6 DEF ChargesDue

LEMMA ChargesNext ==
  ASSUME Typed, ChargesDue, Next
  PROVE  ChargesDue'
<1>. USE DEF docVars, history
<1>1. ASSUME NEW s \in Sessions, NEW step \in Steps \ {"counted"}, Move(s, step),
             step \in {"saved", "allowed"} => sess[s].at \in {"saved", "allowed", "counted"},
             UNCHANGED <<usage, stored>>
      PROVE  ChargesDue'
  <2>1. Only(s) /\ sess'[s].at = step
    BY <1>1, MoveFacts
  <2>. QED
    BY <1>1, <2>1, ChargingChanges, NoCharge DEF At
<1>2. ASSUME NEW s \in Sessions, End(s), UNCHANGED <<usage, stored>> PROVE ChargesDue'
  BY <1>2, EndFacts, IdleTyped, NoCharge DEF At
<1>3. ASSUME NEW s \in Sessions, NEW e \in Employees, NEW t \in Types, NEW p \in Paths,
             UploadStart(s, e, t, p)
      PROVE  ChargesDue'
  BY <1>3, UploadStartFacts, NoCharge DEF UploadStart, At
<1>4. ASSUME NEW s \in Sessions, UploadLookup(s) PROVE ChargesDue'
  <2>1. Only(s) /\ sess'[s].at \in {"idle", "found"} /\ UNCHANGED <<usage, stored>>
    BY <1>4, UploadLookupFacts, IdleTyped DEF UploadLookup
  <2>. QED
    BY <2>1, NoCharge DEF At
<1>5. ASSUME NEW s \in Sessions, UploadWrite(s) \/ UploadDeleteOld(s) PROVE ChargesDue'
  BY <1>1, <1>5 DEF UploadWrite, UploadDeleteOld, Steps
<1>6. ASSUME NEW s \in Sessions, UploadCheckAgain(s) PROVE ChargesDue'
  BY <1>1, <1>2, <1>6 DEF UploadCheckAgain, Steps, At
<1>7. ASSUME NEW s \in Sessions, UploadCount(s) PROVE ChargesDue'
  <2>1. /\ Only(s) /\ sess'[s].seen = usage /\ s \in Charging
        /\ UNCHANGED <<usage, stored>>
    BY <1>7, UploadCountFacts, ChargingChanges DEF UploadCount, At
  <2>. QED
    BY <2>1, NoCharge
<1>8. ASSUME NEW s \in Sessions, NEW e \in Employees, NEW t \in Types, FetchStart(s, e, t)
      PROVE  ChargesDue'
  BY <1>8, FetchStartFacts, NoCharge DEF FetchStart, At
<1>9. ASSUME NEW s \in Sessions, FetchCreate(s) PROVE ChargesDue'
  BY <1>9, FetchCreateFacts, NoCharge DEF FetchCreate, At
<1>10. ASSUME NEW s \in Sessions, FetchVerify(s) \/ DecideSave(s) \/ SendFlag(s) \/ Cut(s)
       PROVE  ChargesDue'
  BY <1>2, <1>10 DEF FetchVerify, DecideSave, SendFlag, Cut
<1>11. ASSUME NEW s \in Sessions, NEW d \in DOMAIN docs, NEW o \in {"VERIFIED", "REJECTED"},
              DecideStart(s, d, o)
       PROVE  ChargesDue'
  BY <1>11, DecideStartFacts, NoCharge DEF DecideStart, At
<1>12. ASSUME NEW s \in Sessions, NEW e \in Employees, SendStart(s, e) PROVE ChargesDue'
  BY <1>12, SendStartFacts, NoCharge DEF SendStart, At
<1>13. ASSUME NEW s \in Sessions, SendCheck(s) \/ SendMail(s) PROVE ChargesDue'
  BY <1>1, <1>2, <1>13 DEF SendCheck, SendMail, Steps
<1>14. ASSUME UNCHANGED sess, usage' \in {0, usage}, UNCHANGED stored PROVE ChargesDue'
  <2>1. usage \in Nat /\ stored \in Nat /\ Cardinality(Charging) \in Nat
    BY Facts, Subset DEF Charging
  <2>2. Charging' = Charging /\ \A s \in Sessions : At(s, "counted")' <=> At(s, "counted")
    BY <1>14 DEF Charging, At
  <2>. QED
    BY <1>14, <2>1, <2>2 DEF ChargesDue
<1>15. ASSUME NEW e \in Employees, UploadLetters(e) PROVE ChargesDue'
  BY <1>14, <1>15 DEF UploadLetters
<1>16. ASSUME ResetStart \/ ResetSave PROVE ChargesDue'
  BY <1>14, <1>16 DEF ResetStart, ResetSave
<1>. HIDE DEF docVars, history
<1>. QED
  BY <1>3, <1>4, <1>5, <1>6, <1>7, <1>8, <1>9, <1>10, <1>11, <1>12, <1>13, <1>15, <1>16,
     UploadSaveCharges, UploadChargeCharges
  DEF Next, UploadStep

-----------------------------------------------------------------------------
(* Letters *)

LEMMA SendingChanges ==
  ASSUME NEW s \in Sessions, Only(s), NEW e \in Employees
  PROVE  LET was == sess[s].emp = e /\ sess[s].at \in {"send", "checked"}
             is == sess'[s].emp = e /\ sess'[s].at \in {"send", "checked"}
         IN  /\ (was <=> is) => Sending'[e] = Sending[e]
             /\ is => Sending'[e] = Sending[e] \cup {s}
             /\ ~is => Sending'[e] = Sending[e] \ {s}
             /\ was <=> s \in Sending[e]
BY DEF Sending, Only

LEMMA MailedChanges ==
  ASSUME NEW s \in Sessions, Only(s), NEW e \in Employees
  PROVE  LET was == sess[s].emp = e /\ sess[s].at = "mailed"
             is == sess'[s].emp = e /\ sess'[s].at = "mailed"
         IN  /\ (was <=> is) => Mailed'[e] = Mailed[e]
             /\ is => Mailed'[e] = Mailed[e] \cup {s}
             /\ ~is => Mailed'[e] = Mailed[e] \ {s}
             /\ was <=> s \in Mailed[e]
BY DEF Mailed, Only, At

LEMMA Disjoint ==
  ASSUME NEW S \in SUBSET Sessions, NEW T \in SUBSET Sessions, S \cap T = {}
  PROVE  Cardinality(S) + Cardinality(T) <= Cardinality(Sessions)
<1>1. /\ IsFiniteSet(S) /\ IsFiniteSet(T)
      /\ Cardinality(S) \in Nat /\ Cardinality(T) \in Nat
  BY Subset
<1>2. Cardinality(S \cup T) = Cardinality(S) + Cardinality(T)
  <2>1. Cardinality(S \cup T) = Cardinality(S) + Cardinality(T) - Cardinality(S \cap T)
    BY <1>1, FS_Union
  <2>2. Cardinality(S \cap T) = 0
    BY FS_EmptySet
  <2>. QED
    BY <1>1, <2>1, <2>2
<1>3. Cardinality(S \cup T) <= Cardinality(Sessions)
  BY Subset
<1>. QED
  BY <1>2, <1>3

LEMMA SendingFinite ==
  ASSUME NEW e \in Employees
  PROVE  /\ Sending[e] \in SUBSET Sessions /\ Mailed[e] \in SUBSET Sessions
         /\ Sending[e] \cap Mailed[e] = {}
         /\ Cardinality(Sending[e]) \in Nat /\ Cardinality(Mailed[e]) \in Nat
         /\ Cardinality(Sessions) \in Nat
<1>1. /\ Sending[e] \in SUBSET Sessions /\ Mailed[e] \in SUBSET Sessions
      /\ Sending[e] \cap Mailed[e] = {}
  BY DEF Sending, Mailed, At
<1>. QED
  BY <1>1, Subset

\* Nobody starts to send, mails, or raises the flag.
LEMMA NoLetter ==
  ASSUME Typed, LettersDue, NEW s \in Sessions, Only(s),
         sess'[s].at \in {"send", "checked"} => sess'[s].emp \in Employees /\ s \in Sending[sess'[s].emp],
         sess[s].at # "mailed", sess'[s].at # "mailed",
         UNCHANGED <<mailed, sent>>, crashes' \in Nat, crashes' >= crashes
  PROVE  LettersDue'
<1>. SUFFICES ASSUME NEW e \in Employees
              PROVE  /\ e \notin sent => mailed[e] <= Cardinality(Mailed'[e]) + crashes'
                     /\ mailed[e] + Cardinality(Sending'[e]) <= Cardinality(Sessions) + crashes'
  BY DEF LettersDue
<1>1. crashes \in Nat /\ mailed[e] \in Nat
  BY Facts
<1>2. /\ Mailed'[e] = Mailed[e]
      /\ Sending'[e] = Sending[e] \/ (s \in Sending[e] /\ Sending'[e] = Sending[e] \ {s})
  BY SendingChanges, MailedChanges
<1>3. Cardinality(Sending'[e]) \in Nat /\ Cardinality(Sending'[e]) <= Cardinality(Sending[e])
  <2>1. CASE Sending'[e] = Sending[e]
    BY <2>1, SendingFinite
  <2>2. CASE s \in Sending[e] /\ Sending'[e] = Sending[e] \ {s}
    BY <2>2, SendingFinite, SetLoses, Subset
  <2>. QED
    BY <1>2, <2>1, <2>2
<1>. QED
  BY <1>1, <1>2, <1>3, SendingFinite DEF LettersDue

\* A session that starts has read the flag unset: every mail is still with a session
\* that has not raised it, or with one that was cut.
LEMMA SendStartLetters ==
  ASSUME Typed, LettersDue, NEW s \in Sessions, NEW d \in Employees, SendStart(s, d)
  PROVE  LettersDue'
<1>. SUFFICES ASSUME NEW e \in Employees
              PROVE  /\ e \notin sent => mailed[e] <= Cardinality(Mailed'[e]) + crashes
                     /\ mailed[e] + Cardinality(Sending'[e]) <= Cardinality(Sessions) + crashes
  BY DEF LettersDue, SendStart, docVars, history
<1>1. crashes \in Nat /\ mailed[e] \in Nat
  BY Facts
<1>2. /\ Only(s) /\ sess'[s].at = "send" /\ sess'[s].emp = d /\ sess[s].at = "idle"
      /\ d \notin sent
  BY SendStartFacts DEF SendStart, At
<1>3. Mailed'[e] = Mailed[e] /\ (e # d => Sending'[e] = Sending[e])
  BY <1>2, SendingChanges, MailedChanges
<1>4. CASE e # d
  BY <1>1, <1>3, <1>4 DEF LettersDue
<1>5. CASE e = d
  <2>1. mailed[e] <= Cardinality(Mailed[e]) + crashes
    BY <1>2, <1>5 DEF LettersDue
  <2>2. /\ Cardinality(Sending'[e]) \in Nat /\ Cardinality(Mailed[e]) \in Nat
        /\ Cardinality(Sending'[e]) + Cardinality(Mailed[e]) <= Cardinality(Sessions)
        /\ Cardinality(Sessions) \in Nat
    <3>1. Sending'[e] = Sending[e] \cup {s} /\ s \notin Mailed[e]
      BY <1>2, <1>5, SendingChanges, MailedChanges
    <3>2. /\ Sending'[e] \in SUBSET Sessions /\ Mailed[e] \in SUBSET Sessions
          /\ Sending'[e] \cap Mailed[e] = {}
      BY <3>1, SendingFinite
    <3>. QED
      BY <3>2, Subset, Disjoint
  <2>. QED
    BY <1>1, <1>3, <2>1, <2>2
<1>. QED
  BY <1>4, <1>5

LEMMA SendMailLetters ==
  ASSUME Typed, LettersDue, NEW s \in Sessions, SendMail(s)
  PROVE  LettersDue'
<1>. SUFFICES ASSUME NEW e \in Employees
              PROVE  /\ e \notin sent => mailed'[e] <= Cardinality(Mailed'[e]) + crashes
                     /\ mailed'[e] + Cardinality(Sending'[e]) <= Cardinality(Sessions) + crashes
  BY DEF LettersDue, SendMail, docVars
<1>1. crashes \in Nat /\ mailed \in [Employees -> Nat] /\ mailed[e] \in Nat
  BY Facts
<1>2. /\ Only(s) /\ sess'[s].at = "mailed" /\ sess'[s].emp = sess[s].emp
      /\ sess[s].at = "checked"
  BY MoveFacts DEF SendMail, At, Steps
<1>3. mailed'[e] = IF e = sess[s].emp THEN mailed[e] + 1 ELSE mailed[e]
  BY <1>1 DEF SendMail
<1>4. CASE e # sess[s].emp
  <2>1. Mailed'[e] = Mailed[e] /\ Sending'[e] = Sending[e]
    BY <1>2, <1>4, SendingChanges, MailedChanges
  <2>. QED
    BY <1>1, <1>3, <1>4, <2>1 DEF LettersDue
<1>5. CASE e = sess[s].emp
  <2>1. /\ s \notin Mailed[e] /\ Mailed'[e] = Mailed[e] \cup {s}
        /\ s \in Sending[e] /\ Sending'[e] = Sending[e] \ {s}
    BY <1>2, <1>5, SendingChanges, MailedChanges
  <2>2. /\ Cardinality(Mailed'[e]) = Cardinality(Mailed[e]) + 1
        /\ Cardinality(Sending'[e]) = Cardinality(Sending[e]) - 1
    BY <2>1, SendingFinite, SetGains, SetLoses
  <2>. QED
    BY <1>1, <1>3, <1>5, <2>2, SendingFinite DEF LettersDue
<1>. QED
  BY <1>4, <1>5

\* A session at the flag ends: it has raised it, or it is one cut more.
LEMMA MailedEnds ==
  ASSUME Typed, LettersDue, NEW s \in Sessions, End(s), At(s, "mailed"),
         UNCHANGED mailed, sent \subseteq sent', crashes' \in Nat,
         \/ sess[s].emp \in sent' /\ crashes' = crashes
         \/ crashes' = crashes + 1
  PROVE  LettersDue'
<1>. SUFFICES ASSUME NEW e \in Employees
              PROVE  /\ e \notin sent' => mailed[e] <= Cardinality(Mailed'[e]) + crashes'
                     /\ mailed[e] + Cardinality(Sending'[e]) <= Cardinality(Sessions) + crashes'
  BY DEF LettersDue
<1>1. crashes \in Nat /\ mailed[e] \in Nat
  BY Facts
<1>2. Only(s) /\ sess'[s].at = "idle" /\ sess[s].at = "mailed"
  BY EndFacts, IdleTyped DEF At
<1>3. Sending'[e] = Sending[e]
  BY <1>2, SendingChanges, MailedChanges
<1>4. Mailed'[e] = Mailed[e] \/ (sess[s].emp = e /\ s \in Mailed[e] /\ Mailed'[e] = Mailed[e] \ {s})
  BY <1>2, SendingChanges, MailedChanges
<1>5. Cardinality(Mailed'[e]) >= Cardinality(Mailed[e]) - 1
      /\ (sess[s].emp # e => Mailed'[e] = Mailed[e])
      /\ Cardinality(Mailed'[e]) \in Nat
  <2>1. SUFFICES ASSUME s \in Mailed[e], Mailed'[e] = Mailed[e] \ {s}
                 PROVE  /\ Cardinality(Mailed'[e]) >= Cardinality(Mailed[e]) - 1
                        /\ Cardinality(Mailed'[e]) \in Nat
    BY <1>4, SendingFinite
  <2>2. Cardinality(Mailed[e] \ {s}) = Cardinality(Mailed[e]) - 1
        /\ Mailed[e] \ {s} \in SUBSET Sessions
    BY <2>1, SendingFinite, SetLoses
  <2>3. Cardinality(Mailed[e] \ {s}) \in Nat
    BY <2>2, Subset
  <2>. QED
    BY <2>1, <2>2, <2>3
<1>. QED
  BY <1>1, <1>3, <1>5, SendingFinite DEF LettersDue

LEMMA LettersNext ==
  ASSUME Typed, LettersDue, Next
  PROVE  LettersDue'
<1>. USE DEF docVars, history
<1>0. crashes \in Nat
  BY Facts
<1>1. ASSUME NEW s \in Sessions, Only(s), sess[s].at # "mailed",
             sess'[s].at \notin {"send", "checked", "mailed"},
             UNCHANGED <<mailed, sent>>, crashes' \in {crashes, crashes + 1}
      PROVE  LettersDue'
  BY <1>0, <1>1, NoLetter
<1>2. ASSUME NEW s \in Sessions, NEW step \in Steps \ {"send", "checked", "mailed"},
             Move(s, step), sess[s].at # "mailed", UNCHANGED <<mailed, sent, crashes>>
      PROVE  LettersDue'
  BY <1>0, <1>1, <1>2, MoveFacts
<1>3. ASSUME NEW s \in Sessions, End(s), sess[s].at # "mailed",
             UNCHANGED <<mailed, sent>>, crashes' \in {crashes, crashes + 1}
      PROVE  LettersDue'
  BY <1>0, <1>1, <1>3, EndFacts, IdleTyped
<1>4. ASSUME NEW s \in Sessions, NEW e \in Employees, NEW t \in Types, NEW p \in Paths,
             UploadStart(s, e, t, p)
      PROVE  LettersDue'
  BY <1>1, <1>4, UploadStartFacts DEF UploadStart, At
<1>5. ASSUME NEW s \in Sessions, UploadLookup(s) PROVE LettersDue'
  <2>1. Only(s) /\ sess'[s].at \in {"idle", "found"} /\ sess[s].at = "upload"
    BY <1>5, UploadLookupFacts, IdleTyped DEF UploadLookup, At
  <2>. QED
    BY <1>1, <1>5, <2>1 DEF UploadLookup
<1>6. ASSUME NEW s \in Sessions, UploadWrite(s) \/ UploadDeleteOld(s) PROVE LettersDue'
  BY <1>2, <1>6 DEF UploadWrite, UploadDeleteOld, Steps, At
<1>7. ASSUME NEW s \in Sessions, UploadSave(s) PROVE LettersDue'
  BY <1>2, <1>7 DEF UploadSave, Steps, At
<1>8. ASSUME NEW s \in Sessions, UploadCheckAgain(s) PROVE LettersDue'
  BY <1>2, <1>3, <1>8 DEF UploadCheckAgain, Steps, At
<1>9. ASSUME NEW s \in Sessions, UploadCount(s) PROVE LettersDue'
  BY <1>1, <1>9, UploadCountFacts DEF UploadCount, At
<1>10. ASSUME NEW s \in Sessions, UploadCharge(s) PROVE LettersDue'
  BY <1>3, <1>10 DEF UploadCharge, At
<1>11. ASSUME NEW s \in Sessions, NEW e \in Employees, NEW t \in Types, FetchStart(s, e, t)
      PROVE  LettersDue'
  BY <1>1, <1>11, FetchStartFacts DEF FetchStart, At
<1>12. ASSUME NEW s \in Sessions, FetchCreate(s) PROVE LettersDue'
  BY <1>1, <1>12, FetchCreateFacts DEF FetchCreate, At
<1>13. ASSUME NEW s \in Sessions, FetchVerify(s) PROVE LettersDue'
  BY <1>3, <1>13 DEF FetchVerify, At
<1>14. ASSUME NEW s \in Sessions, NEW d \in DOMAIN docs, NEW o \in {"VERIFIED", "REJECTED"},
              DecideStart(s, d, o)
       PROVE  LettersDue'
  BY <1>1, <1>14, DecideStartFacts DEF DecideStart, At
<1>15. ASSUME NEW s \in Sessions, DecideSave(s) PROVE LettersDue'
  BY <1>3, <1>15 DEF DecideSave, At
<1>16. ASSUME NEW s \in Sessions, SendCheck(s) PROVE LettersDue'
  <2>1. sess[s].at = "send" /\ UNCHANGED <<mailed, sent, crashes>>
    BY <1>16 DEF SendCheck, At
  <2>2. CASE End(s)
    BY <1>3, <2>1, <2>2
  <2>3. CASE Move(s, "checked")
    <3>1. /\ Only(s) /\ sess'[s].at = "checked" /\ sess'[s].emp = sess[s].emp
          /\ sess[s].emp \in Employees
      BY <2>1, <2>3, MoveFacts, Facts DEF Steps, SessionSound
    <3>2. s \in Sending[sess'[s].emp]
      BY <2>1, <3>1 DEF Sending
    <3>. QED
      BY <1>0, <2>1, <3>1, <3>2, NoLetter
  <2>. QED
    BY <1>16, <2>2, <2>3 DEF SendCheck
<1>17. ASSUME NEW s \in Sessions, SendFlag(s) PROVE LettersDue'
  BY <1>0, <1>17, MailedEnds DEF SendFlag
<1>18. ASSUME NEW s \in Sessions, Cut(s) PROVE LettersDue'
  <2>1. CASE At(s, "mailed")
    BY <1>0, <1>18, <2>1, MailedEnds DEF Cut
  <2>2. CASE ~At(s, "mailed")
    BY <1>3, <1>18, <2>2 DEF Cut, At
  <2>. QED
    BY <2>1, <2>2
<1>19. ASSUME UNCHANGED <<sess, mailed, sent, crashes>> PROVE LettersDue'
  BY <1>19 DEF LettersDue, Sending, Mailed, At
<1>20. ASSUME NEW e \in Employees, UploadLetters(e) PROVE LettersDue'
  BY <1>19, <1>20 DEF UploadLetters
<1>21. ASSUME ResetStart \/ ResetSave PROVE LettersDue'
  BY <1>19, <1>21 DEF ResetStart, ResetSave
<1>. HIDE DEF docVars, history
<1>. QED
  BY <1>4, <1>5, <1>6, <1>7, <1>8, <1>9, <1>10, <1>11, <1>12, <1>13, <1>14, <1>15, <1>16,
     <1>17, <1>18, <1>20, <1>21, SendStartLetters, SendMailLetters
  DEF Next, UploadStep

-----------------------------------------------------------------------------
(* The invariant holds *)

LEMMA InvInit ==
  ASSUME Init
  PROVE  DocumentsInv
<1>1. docs \in Seq(DocumentRow) /\ DOMAIN docs = {}
  BY EmptySeq DEF Init
<1>2. \A s \in Sessions : sess[s] = IdleSession
  BY DEF Init
<1>3. Typed
  BY <1>1, <1>2, IdleTyped
  DEF Init, Typed, TypeOK, SessionsSound, SessionSound, At
<1>4. PathsApart /\ FilesKept
  BY <1>1, <1>2, IdleTyped DEF PathsApart, Apart, OwnPath, Pending, FilesKept
<1>5. ChargesDue
  <2>1. Charging = {}
    BY <1>2, IdleTyped DEF Charging
  <2>. QED
    BY <1>2, <2>1, IdleTyped, FS_EmptySet DEF Init, ChargesDue, At
<1>6. LettersDue
  <2>1. ASSUME NEW e \in Employees PROVE Sending[e] = {} /\ Mailed[e] = {}
    BY <1>2, IdleTyped DEF Sending, Mailed, At
  <2>2. Cardinality({}) = 0 /\ Cardinality(Sessions) \in Nat
    BY FS_EmptySet, Subset
  <2>3. \A e \in Employees : /\ mailed[e] <= Cardinality(Mailed[e]) + crashes
                              /\ mailed[e] + Cardinality(Sending[e]) <= Cardinality(Sessions) + crashes
    <3>1. (\A e \in Employees : mailed[e] = 0) /\ crashes = 0
      BY DEF Init
    <3>2. ASSUME NEW e \in Employees
          PROVE  /\ mailed[e] <= Cardinality(Mailed[e]) + crashes
                 /\ mailed[e] + Cardinality(Sending[e]) <= Cardinality(Sessions) + crashes
      <4>1. mailed[e] = 0 /\ Cardinality(Mailed[e]) = 0 /\ Cardinality(Sending[e]) = 0
        BY <2>1, <2>2, <3>1
      <4>. QED
        BY <2>2, <3>1, <4>1
    <3>. QED
      BY <3>2
  <2>. QED
    BY <2>3 DEF LettersDue
<1>. QED
  BY <1>3, <1>4, <1>5, <1>6 DEF DocumentsInv, Typed

LEMMA InvNext ==
  ASSUME DocumentsInv, [Next]_vars
  PROVE  DocumentsInv'
<1>1. Typed /\ Typed'
  BY TypedNext DEF DocumentsInv, Typed
<1>2. CASE Next
  <2>1. PathsApart' /\ FilesKept'
    BY <1>1, <1>2, FilesNext DEF DocumentsInv, PathsApart, FilesKept
  <2>. QED
    BY <1>1, <1>2, <2>1, ChargesNext, LettersNext DEF DocumentsInv, Typed
<1>3. CASE UNCHANGED vars
  <2>. USE <1>3 DEF vars, docVars, history
  <2>1. PathsApart' /\ FilesKept'
    BY DEF DocumentsInv, PathsApart, Apart, OwnPath, Pending, FilesKept, At
  <2>2. ChargesDue'
    BY DEF DocumentsInv, ChargesDue, Charging, At
  <2>3. LettersDue'
    BY DEF DocumentsInv, LettersDue, Sending, Mailed, At
  <2>. QED
    BY <1>1, <2>1, <2>2, <2>3 DEF DocumentsInv, Typed
<1>. QED
  BY <1>2, <1>3

LEMMA DocumentsAreSound == Spec => []DocumentsInv
BY InvInit, InvNext, PTL DEF Spec

-----------------------------------------------------------------------------
\* Every variable of the document flow stays in its type, whatever sessions overlap:
\* a session only ever refers to a row that exists.
THEOREM TypeCorrect == Spec => []TypeOK
<1>1. DocumentsInv => TypeOK
  BY DEF DocumentsInv
<1>. QED
  BY <1>1, DocumentsAreSound, PTL

\* Replacements of document_service.upload_document delete the old file before the
\* row is saved, and overlap: as long as names are distinct no row loses its file
\* but between that deletion and the commit, or when a session was cut there.
THEOREM FilesAreKept == Spec => []FilesKept
<1>1. DocumentsInv => FilesKept
  BY DEF DocumentsInv
<1>. QED
  BY <1>1, DocumentsAreSound, PTL

\* The monthly counter is checked, read and written back in steps of their own, and
\* reset by a job: it never runs ahead of the uploads that were stored.
THEOREM ChargesAreStored == Spec => []ChargedUploadsStored
<1>1. DocumentsInv => ChargedUploadsStored
  <2>. SUFFICES ASSUME DocumentsInv PROVE ChargedUploadsStored
    OBVIOUS
  <2>1. usage \in Nat /\ stored \in Nat /\ Cardinality(Charging) \in Nat
    BY Subset DEF DocumentsInv, TypeOK, Charging
  <2>. QED
    BY <2>1 DEF DocumentsInv, ChargesDue, ChargedUploadsStored
<1>. QED
  BY <1>1, DocumentsAreSound, PTL

\* send-letters looks at letters_sent before it mails and sets it afterwards: an
\* employee gets at most one mail per session, and one per session that was cut.
THEOREM LettersAreBounded == Spec => []LettersBounded
<1>1. DocumentsInv => LettersBounded
  <2>. SUFFICES ASSUME DocumentsInv, NEW e \in Employees
                PROVE  mailed[e] <= Cardinality(Sessions) + crashes
    BY DEF LettersBounded
  <2>1. mailed[e] \in Nat /\ crashes \in Nat
    BY DEF DocumentsInv, TypeOK
  <2>. QED
    BY <2>1, SendingFinite DEF DocumentsInv, LettersDue
<1>. QED
  BY <1>1, DocumentsAreSound, PTL
=============================================================================
