----------------------------- MODULE Documents -----------------------------
(***************************************************************************)
(* Verification documents of one company's employees:                      *)
(* app/services/document_service.py with its routes, the file store, the   *)
(* monthly upload counter and the offer letters that wait for verified     *)
(* documents.                                                              *)
(*                                                                         *)
(* A session is a request being handled.  Several server processes handle  *)
(* requests at the same time, and nothing is locked: a session reads a     *)
(* row, and later commits the columns it changed since it read them (the   *)
(* ORM leaves a column alone that was set to the value it was loaded       *)
(* with).  A step below is what happens between two accesses of the        *)
(* database or the file store.                                             *)
(*                                                                         *)
(* The company stays writable here (Subscription models that), the usage   *)
(* row of the month exists, and of the quotas only the number of uploads   *)
(* is kept: bytes are counted the same way.                                *)
(***************************************************************************)
EXTENDS Naturals, Sequences, FiniteSets

CONSTANTS
  Employees,
  Types,         \* DocumentType
  FetchTypes,    \* the types that are fetched from DigiLocker
  Names,         \* file names the employees' browsers send
  Sessions,
  Limit,         \* monthly_document_uploads of the company's plan
  DistinctNames, \* employees never send a name that is still in use
  None,          \* SQL NULL, and the path of a fetched document
  MaxUploads, MaxCrashes    \* bounds for TLC

\* Files are stored under the employee's folder and the name the browser sent.
Paths == Employees \X Names

VerificationStatus == {"NOT_SUBMITTED", "PENDING", "VERIFIED", "REJECTED"}

DocumentRow == [emp : Employees, type : Types, path : Paths \cup {None},
                status : VerificationStatus]

ASSUME DocumentAssumption ==
  /\ Limit \in Nat
  /\ FetchTypes \subseteq Types
  /\ IsFiniteSet(Sessions)
  /\ DistinctNames \in BOOLEAN
  /\ None \notin Paths /\ None \notin Employees /\ None \notin Types
  /\ None \notin Nat

VARIABLES
  docs,       \* documents, in creation order
  disk,       \* the upload directory: the paths that hold a file
  usage,      \* subscription_usage.monthly_document_uploads of this month
  sess,       \* what each session has read, and where it is
  letters,    \* employees whose letters have been uploaded
  sent,       \* employees.letters_sent
  reset,      \* the monthly reset job, and the count it has read
  started,    \* uploads and fetches begun
  stored,     \* history: uploads whose document row was committed
  reviewed,   \* history: paths whose present file an approving session has read
  mailed,     \* history: how often an employee's letters were mailed
  torn,       \* history: paths deleted by sessions that were then cut off
  crashes

docVars == <<docs, disk, usage, letters, sent, reset, started>>
history == <<stored, reviewed, mailed, torn>>
vars == <<docVars, history, sess, crashes>>

Steps == {"idle", "upload", "found", "written", "cleared", "saved", "allowed",
          "counted", "fetch", "fetched", "decide", "send", "checked", "mailed"}

Session == [at : Steps, emp : Employees \cup {None}, type : Types \cup {None},
            path : Paths \cup {None}, doc : Nat, old : Paths \cup {None},
            status : VerificationStatus \cup {None},
            outcome : VerificationStatus \cup {None}, seen : Nat]

IdleSession == [at |-> "idle", emp |-> None, type |-> None, path |-> None,
                doc |-> 0, old |-> None, status |-> None,
                outcome |-> None, seen |-> 0]

TypeOK ==
  /\ docs \in Seq(DocumentRow)
  /\ disk \subseteq Paths
  /\ usage \in Nat
  /\ sess \in [Sessions -> Session]
  /\ \A s \in Sessions : sess[s].doc \in {0} \cup DOMAIN docs
  /\ letters \subseteq Employees /\ sent \subseteq Employees
  /\ reset \in [at : {"due", "read", "done"}, seen : Nat]
  /\ started \in Nat /\ stored \in Nat /\ crashes \in Nat
  /\ mailed \in [Employees -> Nat]
  /\ reviewed \subseteq Paths /\ torn \subseteq Paths

Init ==
  /\ docs = <<>>
  /\ disk = {}
  /\ usage = 0
  /\ sess = [s \in Sessions |-> IdleSession]
  /\ letters = {} /\ sent = {}
  /\ reset = [at |-> "due", seen |-> 0]
  /\ started = 0 /\ stored = 0 /\ crashes = 0
  /\ reviewed = {}
  /\ mailed = [e \in Employees |-> 0]
  /\ torn = {}

-----------------------------------------------------------------------------
At(s, step) == sess[s].at = step

Begin(s, x) == sess' = [sess EXCEPT ![s] = x]

Move(s, step) == sess' = [sess EXCEPT ![s].at = step]

End(s) == sess' = [sess EXCEPT ![s] = IdleSession]

RowsOf(e, t) == {d \in DOMAIN docs : docs[d].emp = e /\ docs[d].type = t}

InUse(p) ==
  \/ p \in disk
  \/ \E d \in DOMAIN docs : docs[d].path = p
  \/ \E s \in Sessions : p \in {sess[s].path, sess[s].old}

\* ensure_document_upload_capacity
Capacity == usage + 1 <= Limit

-----------------------------------------------------------------------------
(* upload_document *)

UploadStart(s, e, t, p) ==
  /\ At(s, "idle") /\ started < MaxUploads
  /\ p[1] = e
  /\ DistinctNames => ~InUse(p)
  /\ Capacity
  /\ started' = started + 1
  /\ Begin(s, [IdleSession EXCEPT !.at = "upload", !.emp = e, !.type = t, !.path = p])
  /\ UNCHANGED <<docs, disk, usage, letters, sent, reset, history, crashes>>

\* The employee's document of this type, if there is one.
UploadLookup(s) ==
  LET found == RowsOf(sess[s].emp, sess[s].type) IN
  /\ At(s, "upload")
  /\ \/ found = {} /\ Move(s, "found")
     \/ \E d \in DOMAIN docs :
          /\ found = {d}
          /\ sess' = [sess EXCEPT ![s] = [@ EXCEPT !.at = "found", !.doc = d,
                         !.old = docs[d].path, !.status = docs[d].status]]
     \* scalar_one_or_none raises on several rows
     \/ Cardinality(found) > 1 /\ End(s)
  /\ UNCHANGED <<docVars, history, crashes>>

UploadWrite(s) ==
  /\ At(s, "found")
  /\ disk' = disk \cup {sess[s].path}
  /\ reviewed' = reviewed \ {sess[s].path}
  /\ Move(s, "written")
  /\ UNCHANGED <<docs, usage, letters, sent, reset, started, stored, mailed,
                 torn, crashes>>

\* The replaced document's file is deleted before the row is saved.
UploadDeleteOld(s) ==
  /\ At(s, "written") /\ sess[s].doc # 0
  /\ disk' = disk \ {sess[s].old}
  /\ Move(s, "cleared")
  /\ UNCHANGED <<docs, usage, letters, sent, reset, started, history, crashes>>

\* mutant: the row keeps the path of the deleted file
ReplacedRowKeepsPath(row, x) ==
  [row EXCEPT !.status = IF x.status = "PENDING" THEN @ ELSE "PENDING"]

\* What the UPDATE of a replaced document leaves: the columns whose value
\* differs from the one that was loaded.
ReplacedRow(row, x) ==
  [row EXCEPT !.path = IF x.path = x.old THEN @ ELSE x.path,
              !.status = IF x.status = "PENDING" THEN @ ELSE "PENDING"]

UploadSave(s) ==
  LET x == sess[s] IN
  /\ \/ /\ At(s, "cleared")
        /\ docs' = [docs EXCEPT ![x.doc] = ReplacedRow(@, x)]
     \/ /\ At(s, "written") /\ x.doc = 0
        /\ docs' = Append(docs, [emp |-> x.emp, type |-> x.type,
                                 path |-> x.path, status |-> "PENDING"])
  /\ stored' = stored + 1
  /\ Move(s, "saved")
  /\ UNCHANGED <<disk, usage, letters, sent, reset, started, reviewed,
                 mailed, torn, crashes>>

\* increment_monthly_uploads checks the capacity again, on a fresh read: the
\* request may fail here, its document stored.
UploadCheckAgain(s) ==
  /\ At(s, "saved")
  /\ IF Capacity THEN Move(s, "allowed") ELSE End(s)
  /\ UNCHANGED <<docVars, history, crashes>>

\* The counter is read once more for the increment ...
UploadCount(s) ==
  /\ At(s, "allowed")
  /\ sess' = [sess EXCEPT ![s] = [@ EXCEPT !.at = "counted", !.seen = usage]]
  /\ UNCHANGED <<docVars, history, crashes>>

\* mutant: an upload is charged twice
ChargedTwice(seen) == seen + 2

Charged(seen) == seen + 1

\* ... and written back as a value.
UploadCharge(s) ==
  /\ At(s, "counted")
  /\ usage' = Charged(sess[s].seen)
  /\ End(s)
  /\ UNCHANGED <<docs, disk, letters, sent, reset, started, history, crashes>>

-----------------------------------------------------------------------------
(* fetch_from_digilocker: always a new row, no file, no charge *)

FetchStart(s, e, t) ==
  /\ At(s, "idle") /\ started < MaxUploads
  /\ t \in FetchTypes
  /\ Capacity
  /\ started' = started + 1
  /\ Begin(s, [IdleSession EXCEPT !.at = "fetch", !.emp = e, !.type = t])
  /\ UNCHANGED <<docs, disk, usage, letters, sent, reset, history, crashes>>

FetchCreate(s) ==
  /\ At(s, "fetch")
  /\ docs' = Append(docs, [emp |-> sess[s].emp, type |-> sess[s].type,
                           path |-> None, status |-> "PENDING"])
  /\ sess' = [sess EXCEPT ![s] = [@ EXCEPT !.at = "fetched",
                                           !.doc = Len(docs) + 1]]
  /\ UNCHANGED <<disk, usage, letters, sent, reset, started, history, crashes>>

FetchVerify(s) ==
  /\ At(s, "fetched")
  /\ docs' = [docs EXCEPT ![sess[s].doc].status = "VERIFIED"]
  /\ End(s)
  /\ UNCHANGED <<disk, usage, letters, sent, reset, started, history, crashes>>

-----------------------------------------------------------------------------
(* verify_document and reject_document *)

DecideStart(s, d, outcome) ==
  /\ At(s, "idle")
  /\ Begin(s, [IdleSession EXCEPT !.at = "decide", !.doc = d, !.old = docs[d].path,
                                  !.status = docs[d].status, !.outcome = outcome])
  /\ UNCHANGED <<docVars, history, crashes>>

\* mutant: the status of a rejection is not one of the column's values
DecidedRowOffEnum(row, x) ==
  [row EXCEPT !.status = IF x.outcome = "REJECTED" THEN "DECLINED" ELSE x.outcome]

\* What the UPDATE leaves: a status that was loaded is not written again.
DecidedRow(row, x) ==
  [row EXCEPT !.status = IF x.status = x.outcome THEN @ ELSE x.outcome]

DecideSave(s) ==
  LET x == sess[s] IN
  /\ At(s, "decide")
  /\ docs' = [docs EXCEPT ![x.doc] = DecidedRow(@, x)]
  /\ reviewed' = IF x.outcome = "VERIFIED"
                 THEN reviewed \cup ({x.old} \ {None}) ELSE reviewed
  /\ End(s)
  /\ UNCHANGED <<disk, usage, letters, sent, reset, started, stored, mailed,
                 torn, crashes>>

-----------------------------------------------------------------------------
(* upload-letters and send-letters *)

UploadLetters(e) ==
  /\ e \notin letters
  /\ letters' = letters \cup {e}
  /\ UNCHANGED <<docs, disk, usage, sent, reset, started, history, sess, crashes>>

\* mutant: nobody looks whether the letters were sent before
SendStartAgain(s, e) ==
  /\ At(s, "idle") /\ e \in letters
  /\ Begin(s, [IdleSession EXCEPT !.at = "send", !.emp = e])
  /\ UNCHANGED <<docVars, history, crashes>>

SendStart(s, e) ==
  /\ At(s, "idle") /\ e \in letters /\ e \notin sent
  /\ Begin(s, [IdleSession EXCEPT !.at = "send", !.emp = e])
  /\ UNCHANGED <<docVars, history, crashes>>

AllVerified(e) ==
  LET own == {d \in DOMAIN docs : docs[d].emp = e} IN
  own # {} /\ \A d \in own : docs[d].status = "VERIFIED"

SendCheck(s) ==
  /\ At(s, "send")
  /\ IF AllVerified(sess[s].emp) THEN Move(s, "checked") ELSE End(s)
  /\ UNCHANGED <<docVars, history, crashes>>

SendMail(s) ==
  /\ At(s, "checked")
  /\ mailed' = [mailed EXCEPT ![sess[s].emp] = @ + 1]
  /\ Move(s, "mailed")
  /\ UNCHANGED <<docVars, stored, reviewed, torn, crashes>>

SendFlag(s) ==
  /\ At(s, "mailed")
  /\ sent' = sent \cup {sess[s].emp}
  /\ End(s)
  /\ UNCHANGED <<docs, disk, usage, letters, reset, started, history, crashes>>

-----------------------------------------------------------------------------
(* reset_monthly_usage on the first of the month: it zeroes the month's rows, *)
(* and commits after the last company                                         *)

ResetStart ==
  /\ reset.at = "due"
  /\ reset' = [at |-> "read", seen |-> usage]
  /\ UNCHANGED <<docs, disk, usage, letters, sent, started, history, sess, crashes>>

ResetSave ==
  /\ reset.at = "read"
  /\ usage' = IF reset.seen = 0 THEN usage ELSE 0
  /\ reset' = [at |-> "done", seen |-> 0]
  /\ UNCHANGED <<docs, disk, letters, sent, started, history, sess, crashes>>

-----------------------------------------------------------------------------
\* A session ends between two steps: its process dies, or the database refuses
\* its next statement.
Cut(s) ==
  /\ ~At(s, "idle") /\ crashes < MaxCrashes
  /\ crashes' = crashes + 1
  /\ torn' = IF At(s, "cleared") THEN torn \cup ({sess[s].old} \ {None}) ELSE torn
  /\ End(s)
  /\ UNCHANGED <<docVars, stored, reviewed, mailed>>

UploadStep(s) ==
  \/ UploadLookup(s) \/ UploadWrite(s) \/ UploadDeleteOld(s) \/ UploadSave(s)
  \/ UploadCheckAgain(s) \/ UploadCount(s) \/ UploadCharge(s)

Next ==
  \/ \E s \in Sessions :
       \/ \E e \in Employees, t \in Types, p \in Paths : UploadStart(s, e, t, p)
       \/ UploadStep(s)
       \/ \E e \in Employees, t \in Types : FetchStart(s, e, t)
       \/ FetchCreate(s) \/ FetchVerify(s)
       \/ \E d \in DOMAIN docs, o \in {"VERIFIED", "REJECTED"} : DecideStart(s, d, o)
       \/ DecideSave(s)
       \/ \E e \in Employees : SendStart(s, e)
       \/ SendCheck(s) \/ SendMail(s) \/ SendFlag(s)
       \/ Cut(s)
  \/ \E e \in Employees : UploadLetters(e)
  \/ ResetStart \/ ResetSave

Spec == Init /\ [][Next]_vars

-----------------------------------------------------------------------------
\* Whatever replacements overlap, as long as names are distinct the file of
\* every uploaded document is on disk, except between the deletion and the
\* commit of one replacement: a session that was cut there leaves it torn.
FilesKept ==
  DistinctNames =>
    \A d \in DOMAIN docs :
      docs[d].path # None =>
        \/ docs[d].path \in disk
        \/ \E s \in Sessions : At(s, "cleared") /\ sess[s].old = docs[d].path
        \/ docs[d].path \in torn

\* The monthly counter never runs ahead of the uploads that were stored,
\* although it is checked, read and written back in separate steps: a company
\* is never charged for an upload it does not have.
ChargedUploadsStored == usage <= stored

\* Letters are mailed at most once per session that can be between the check of
\* the flag and its commit, and once more for every session that was cut there.
LettersBounded ==
  \A e \in Employees : mailed[e] <= Cardinality(Sessions) + crashes

-----------------------------------------------------------------------------
(* What the repository says, and the code does not keep *)

\* README.md: "Mark an uploaded document as manually verified".  A verified
\* document names the file that the session approving it had read.
VerifiedWasReviewed ==
  \A d \in DOMAIN docs :
    docs[d].status = "VERIFIED" /\ docs[d].path # None
      => docs[d].path \in reviewed
=============================================================================
