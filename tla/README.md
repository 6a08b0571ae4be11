# A TLA+ model of the DVP document-verification backend

The repository is a FastAPI service: tenants (companies) register on a
subscription plan, onboard employees, collect and verify their documents, chat
and raise tickets; the operator (superadmin) reviews subscription requests.
PostgreSQL holds the business data, MongoDB chat and tickets, Redis one-time
codes and the ARQ queue. Four uvicorn processes serve requests and one ARQ
worker runs the nightly jobs (`docker-compose.yml`, `app/tasks/worker.py`).

This directory holds the TLA+ modules, the TLC configurations and the proofs.

    tlc -workers 2 -config SubscriptionTenant.cfg MCSubscription
    tlc -workers 2 -config SubscriptionSessions.cfg MCSubscriptionSessions
    tlc -workers 2 -config Documents.cfg MCDocuments
    tlc -workers 2 -config Accounts.cfg MCAccounts
    tlc -workers 2 -config DigiLocker.cfg MCDigiLocker
    tlc -workers 2 -config Mail.cfg MCMail
    tlc -workers 2 -config Chat.cfg MCChat
    tlapm SubscriptionProofs.tla          # and, in the same way, the other *Proofs:
        # SubscriptionPromiseProofs, SubscriptionSessionsProofs, DocumentsProofs,
        # AccountsProofs, DigiLockerProofs, MailProofs, ChatProofs

## 1. Inventory

Each request runs on one SQLAlchemy session (`core/database/postgres.py`):
`autoflush=False`, `expire_on_commit=False`, READ COMMITTED, no row locks, no
version columns. Nearly every repository call commits, so one handler is a
series of transactions, and every `await` lets other requests in.

| component | state | operations | talks to |
|---|---|---|---|
| Subscription lifecycle (`subscription_service`, `auth_service.register_saas_company`) | plans, `companies` billing columns, `subscriptions`, `subscription_requests` | register, request, review, create, update, apply plan, write check | nightly jobs, notifications, every service that writes |
| Nightly jobs (`tasks/worker.py`) | none of their own | expiry check 00:00, scheduled changes 00:15, monthly reset | subscription lifecycle, usage |
| Usage and quotas | `subscription_usage` per company and month | get or create, capacity check, increment, reset | documents, employees |
| Employee onboarding | users, employees, seat count, reset tokens | create, bulk import, register, letters | usage, email, auth |
| Documents and storage | document records, files | upload or replace, verify, reject, mock fetch | usage, storage |
| Authentication | users, OTP records and cache, reset tokens | login, refresh, OTP, forgot and reset password | Redis, email |
| DigiLocker link | OAuth states in memory, encrypted tokens | authorize, callback, status, fetch, refresh, unlink | external provider |
| Email queue | `email_logs`, ARQ jobs | queue, dispatch, record the outcome | ARQ or BackgroundTasks |
| Chat and presence | connection table in memory, conversations, messages | connect, disconnect, send, read, broadcast | MongoDB |
| Tickets | ticket documents | create, reply, list | MongoDB |
| Companies, departments, superadmin portal | single rows | create, read, update, delete | |
| Notifications, audit log | append-only rows | create | websocket |
| Roles and tenant access | none | checks before handlers | |

What is hard, and what correctness means, per component:

* **Subscription lifecycle and jobs.** The company row is a hand-kept copy of
  its subscription row; six code paths write both. The write check reads the
  copy, quotas read the row. Handlers commit in the middle; the two nightly jobs
  meet at the end of a cycle; sessions work on stale copies. Correct: one live
  row per company, write access backed by it, expired companies read-only until
  a request is approved, one trial per company, plans change only by an
  approved request or a due schedule, decided requests final.
* **Usage.** Read-modify-write counters shared by uploads and the reset.
  Correct: counters bound what was stored, limits hold, a month has one row.
* **Onboarding.** Four commits per employee and a seat counter without a lock;
  a mail between test and set. Correct: no seat without an employee, whoever must
  set a password can, letters go out a bounded number of times.
* **Documents.** File system and table change in separate steps. Correct: a
  record names an existing file, a verdict belongs to the file it was given for.
* **Authentication.** A cache in front of a table, per process without Redis.
  Correct: a code or token works once (a token does not: section 5), the attempt
  limit holds.
* **DigiLocker.** Await on the provider between read and write, states in the
  memory of one process, a code that may be anybody's. Correct: the tokens of a row
  are those of the account it is linked to, a state works once, a row is linked or
  unlinked as a whole.
* **Email.** Queue or in-process fallback, crash of the worker, refusal of the
  provider. Correct: a queued mail is eventually sent, the log is truthful, only
  crashes repeat a mail.
* **Chat.** Table keyed by user, in the memory of a process, while connections come
  and go; awaits between look-up and insert. Correct: a listening user is in the
  table, a stored message reaches its receiver or its notifications, a pair keeps one
  thread.

`PROJECT.json` lists every component with its status and every hazard with the
line where it bites.

## 2. Plan

1. `Subscription`, `BillingPromise`, `SubscriptionRefinement`,
   `SubscriptionProofs`: the billing core, commit by commit. **Done.**
2. `SubscriptionSessions`: the review and the nightly jobs as overlapping
   sessions over the same tables. **Done.**
3. `Documents`: records, files, upload counter, letters. **Done.**
4. `Accounts`: creation and import of employees, seats, reset tokens, first login
   and registration. **Done.**
5. `DigiLocker`: link, refresh and unlink around awaits. **Done.**
6. `Mail`: queue, fallback, log, crashes; liveness. **Done.**
7. `Chat`: connections, presence, conversations, delivery. **Done.**
8. One-time codes, tickets and the editing of single rows: left out, see
   section 7.

Theorems, in order: type correctness and the safety invariants of `Subscription`;
its action properties and the step simulation of `BillingPromise`; the invariants
of `Mail`, `DigiLocker`, `Documents`, `Chat` and `Accounts`; `SubscriptionSessions`.
All of them are **done** (section 6). What a passing run checks and no theorem states
is liveness, which stays with TLC. No module uses ENABLED or a RECURSIVE operator.

## 3. What is modelled

### Subscription

| variable | code |
|---|---|
| `now` | the clock, two slots a day: `[00:00, 00:15)` and the rest |
| `catalog` | `subscription_plans.is_active`, or no such plan |
| `company` | billing columns of `companies`; `None` before registration |
| `subs` | `subscriptions` in creation order: company, plan, end, status, active, scheduled plan and instant |
| `reqs` | `subscription_requests` in creation order |
| `batch` | the scheduled-change job between two rows: rows left, and the row whose `ACTIVE` waits for the next commit (line 647 runs after the commit of line 480) |
| `jobDue` | today's 00:15 job has not started |
| `checkedTo` | history: instant covered by the last complete expiry check |
| `crashes` | history: handlers cut off between two commits |

Actions are handlers. `Register` is `register_saas_company` with
`initialize_company_subscription`; `RequestChange`, `Reject`,
`ScheduleDowngrade`, `Approve` the request flow; `SuspendExpired` the expiry
check (nightly or `POST /trigger-checks`, so enabled at any time);
`StartScheduledChanges`, `ApplyScheduled`, `SkipScheduled`,
`AbortScheduledChanges`, `FinishScheduledChanges` the 00:15 job, row by row;
`CreateSubscription`, `UpdateSubscription`, `SetPlan` the superadmin;
`UpdateCompany` is `PUT /companies/{id}`, which may write the billing columns of
the company row and no subscription row. Each
handler with several commits has an `...Interrupted` twin that ends after one
of the earlier commits. A `Tick` may pass the time of a job without running it:
the worker may be down, and ARQ does not catch up.

`TenantSpec` leaves out the direct writes of subscription and company rows
(`AdminWrite`), which are allowed to break the agreement of the tables;
`Spec` has everything. `EditsCompany` says whose company update succeeds: the
route sets four fields of an ADMIN's or HR's payload to `None`, an assigned field
is no longer unset, and the UPDATE writes NULL into columns that refuse it.

Abstractions, all of data:

* Handlers are serial here, except that the scheduled-change job is split into
  rows to show what an aborted job leaves. `SubscriptionSessions` overlaps them.
* `employee_limit`, feature flags, start dates and the `trial_used` column of
  subscription rows are left out: nothing in this component branches on them.
* Prices and cycle lengths are constants; `SetPlan` covers creation, activation
  and deactivation. A superadmin's end date lies at or after the present slot.
* Request types other than DOWNGRADE follow the same branch of the review; the
  route for renewals does not exist (`request_renewal` has no caller) and is a
  `RequestChange` of type RENEWAL.
* A registration cut off between the company and its admin leaves a company
  nobody can act for; it is the same state here as one cut off after the admin.
* Due rows and expired rows come without an order, as from their queries.
* Reads of notifications, audit rows and mails do not matter; that each of them
  commits the session does, and is where handlers can be cut off.

### BillingPromise and SubscriptionRefinement

`BillingPromise` says what a company may rely on without mentioning rows,
cycles, commits or jobs: a phase, whether the trial is spent, and the requests
waiting for a decision. `SubscriptionRefinement` maps the company row to the
phase and the pending requests to the set, and `ImplementsPromise` checks every
step of `TenantSpec`, interrupted ones included, against it.

### Documents

| variable | code |
|---|---|
| `docs` | `documents` in creation order: employee, type, path of `file_url`, status |
| `disk` | files under the upload directory |
| `usage` | this month's `monthly_document_uploads` of the company |
| `sess` | the requests being handled: where each is, and the columns it has read |
| `letters`, `sent` | employees whose letters are stored; `employees.letters_sent` |
| `reset` | the monthly reset job and the count it has read |
| `started` | uploads and fetches begun, bounded by `MaxUploads` |
| `stored`, `reviewed`, `mailed`, `torn`, `crashes` | history |

Each session runs one handler, and each action is what happens up to the next
access of the database or the file store: an upload is `UploadStart`,
`UploadLookup`, `UploadWrite`, `UploadDeleteOld` (replacements only),
`UploadSave`, `UploadCheckAgain`, `UploadCount`, `UploadCharge`. `Cut` ends a
session anywhere. A session keeps the row it has read and its UPDATE names only
the columns it changed: `ReplacedRow` and `DecidedRow` leave a column alone that
was set to the value loaded, as SQLAlchemy does. A re-upload that read PENDING
therefore does not undo a verdict committed since.

Abstractions: a fetched document has the path `None`, as no file is stored for
it; bytes are counted like uploads and left out; the month's usage row exists;
the write check of the company is `Subscription`'s; storing letters again
changes nothing the model has. A file name sent twice is the same path.
`DistinctNames` states of the environment that browsers never send a name still
in use; without it a replacement can delete its own file (section 5).

### SubscriptionSessions

Extends `Subscription` with sessions that run from one await to the next.

| variable | code |
|---|---|
| `sess` | each request or job: where it is, the request under review, the subscription and company rows as loaded |
| `usage` | companies whose usage row of the month exists (`_get_usage`), none at first |
| `started` | reviews and jobs begun, bounded by `MaxStarts` |
| `stale`, `applied`, `collisions` | history: a write over rows changed since they were loaded; how often the plan of each request was committed; sessions ended by a duplicate usage row |

`StartReview` to `MarkApproved` are `review_subscription_request` with
`_apply_subscription_plan` and `_get_usage`, `StartCheck` and `CheckRow` the
expiry check, `StartMove`, `MoveRow` and `Activate` the scheduled-change job, which
passes over due rows that have lost their plan (`MovableRows`).
A company without a live row gets one in three steps: `InsertRow` commits the row,
`RefreshRow` loads the company joined to it, `MirrorPlan` commits the company with
the plan and the end date of the row inserted. The row itself is not written a
second time, and other sessions run between the three.
`Written` is SQLAlchemy's UPDATE: the columns whose value differs from the loaded
one, and timestamps set to an aware value, which always differ. The company is
loaded before the current row is (lines 367 and 388), and joined to every row the
jobs load, so a session may hold the two from different instants.

Abstractions: requests, registrations and the clock are atomic, as in
`Subscription`; nothing is interrupted and no plan is withdrawn (`batch` stays
`None`, `catalog` constant); the expiry check commits once per row, with its
notification; the job may start at any time.

### Accounts

| variable | code |
|---|---|
| `users` | `users` with the progress of the employee row of the same id; a deleted one is not live |
| `tokens` | `password_reset_tokens` |
| `count` | `companies.current_employee_count` |
| `loggedIn` | users that hold an access token |
| `sess` | each request: the rows of the import still to come, the user, the count its company object was loaded with, the token |
| `starts`, `deletes`, `cuts` | bounded by `MaxStarts`, `MaxDeletes`, `MaxCuts` |
| `created`, `torn`, `spent`, `overlapped` | history; `spent` counts the resets made with a token |

`ImportStart`, `RowCheck`, `InsertUser`, `InsertEmployee`, `SeatRead`,
`SeatSave`, `SeatReread`, `TokenSave` are `create_employee`, once for each row of
a bulk import (one row: `POST /employees`); `ForgotPassword`, `ResetStart`,
`ResetSave` the password part of `auth_service`; `Login` both logins;
`RegisterStart`, `RegisterSave`, `RegisterComplete` the employee's registration;
`DeleteUser` the superadmin's. `Cut` ends a session anywhere: its process dies or
the database refuses a statement. The write check of the company and the mails
belong to other modules; temporary passwords admit nobody. Users whom the
superadmin creates or edits directly are left out.

### DigiLocker

| variable | code |
|---|---|
| `row` | credential columns of each employee, as numbers of the issue they come from |
| `states` | `_oauth_state_store` of all processes |
| `sess` | each request: its step, employee and process, the row it has read, whose code or refresh token it shows |
| `grants` | what DigiLocker has issued, in order, and to which account |
| `crashes`, `taken`, `raced` | history; `crashes` is bounded |

`Authorize`, `CallbackStart`, `Exchange`, `CallbackSave` are the link,
`RefreshStart`, `RefreshAnswer`, `RefreshSave` the refresh, `UnlinkStart`,
`UnlinkSave` the unlink; `Restart` empties the states and sessions of a process.
`Answer` is the provider: tokens with or without a refresh token, or none.
`Holders` are the DigiLocker accounts. The callback's route asks for no login and
takes `code` and `state` as independent parameters: the state says whose row is
written, the code may belong to any account, and the service never compares the
two. An answer to a refresh token is issued to the account the token is of.
A callback may be served by any process and is refused by one that does not hold
its state, which changes nothing: its state then stays in the memory of the process
that made it, where no one removes it. Status and documents change no state; for a
linked row they end in TypeError (section 5).

Encryption is left out. `docker-compose.yml` sets no `FERNET_ENCRYPTION_KEY`, and
without one `utils/encryption.py` makes a key per process; then a refresh is refused
in every process but the one that stored the token, before anything is changed.
Refused requests change nothing here, so these behaviours are among those of the
model; with a key that is set, all processes share it and all of them occur.

### Mail

| variable | code |
|---|---|
| `mails` | every mail: plain or logged, its process, where it is, the columns of `email_logs`, ARQ's tries, how often it left |
| `redis` | Redis answers |
| `attached` | processes that found Redis at start-up |
| `crashes`, `outages` | bounded by `MaxCrashes`, `MaxOutages` |

Plain mails (`Ask`, `Enqueue`, `WorkerTake`, `WorkerSend`, `WorkerAck`,
`RunFallback`) are the one-time code, reset and invitation jobs; the jobs print
their mail and cannot fail. Logged mails (`Attempt`, `Send`, `MarkSent`,
`MarkRefused`) are `send_email_job`, always inline: no caller of `queue_email`
passes background tasks. `Outcomes` is the provider: SMTP may refuse a mail, or
take it and raise all the same. `CommitFails` is the database refusing a commit of
`send_email_job`, that of SENT after the delivery included: the exception takes the
branch of a refused mail, and ends the job when that branch cannot commit either.
`Restart` and `WorkerRestart` lose what a process
held and put the worker's jobs back into Redis.

### Chat

| variable | code |
|---|---|
| `conns` | every WebSocket with its handler: place, receiver, conversation and message at hand; size of the table and count of removals when its broadcast began |
| `table` | `active_connections`, one connection per user |
| `convs`, `msgs` | conversations and messages of MongoDB in insertion order |
| `removals` | entries ever deleted from the table, by which a broadcast notices changed keys |
| `ousted` | history: connections that the disconnect of another one removed |
| `faults`, `crashes` | database errors and deaths of the process, bounded by `MaxFaults`, `MaxCrashes` |

A step of a handler runs from one await to the next. `Open` to
`AnnouncedOffline` are connect and disconnect with their presence broadcast,
`Receive` to `Echo` the receive loop with `get_or_create_conversation`,
`save_message`, delivery or notification, and the sender's copy. `Fault` is a
database error at the await a handler is in, `ClientGone` a closed socket the
server has not heard of. `Restart` is the death of the process: handlers, sockets
and table are gone, MongoDB is not. The model is one process; each of the four has
a table of its own and does not see the sockets of the others. A broadcast has one
await, enough for two users; the `read` flag, the history and the malformed message
itself are left out (the answer to one, `Refuse`, can end the handler).

## 4. Runs

| run | question | bounds | result |
|---|---|---|---|
| `tenant` | do the tables stay consistent under tenants, reviewers, jobs, a withdrawn plan and one cut-off handler, and is the promise kept? | 1 company, 2 plans, one of which comes and goes, 2 rows, 2 requests, 6 slots, 1 interruption | 1 054 672 states, holds |
| `admin` | what survives direct writes of rows and withdrawn plans? | 1 company, 2 plans, 2 rows, 1 downgrade request, 4 slots, 1 interruption | 820 508 states, holds |
| `sessions` | what may overlapping reviews and jobs break? | 1 company, 2 plans, cycles of one slot, 2 sessions, 3 starts, 3 rows, 2 requests, 3 slots | 1 445 973 states, holds |
| `documents` | do overlapping uploads, reviews, mails and the reset keep files and charges? | 2 sessions, 1 employee, 1 type, 3 names, 3 uploads, limit 2, 1 cut, distinct names | 3 093 575 states, holds |
| `accounts` | do seats, tokens and progress agree under overlapping creations, imports, resets, deletions and a cut? | 2 sessions, 2 emails, limit 1, 2 starts of up to 2 employees, 2 tokens, 1 deletion, 1 cut | 950 080 states, holds |
| `digilocker` | what may overlapping links, refreshes and unlinks leave? | 2 employees, 2 accounts, 2 processes, 2 sessions, 2 states, 3 grants, 1 restart | 571 493 states, holds |
| `mail` | are mails sent, logged and ended through crashes and outages? | 2 processes, 2 mails, 2 crashes, 1 outage, retry limit 3, 2 tries, SMTP | 69 975 states, holds |
| `chat` | does every message find its receiver and every listener stay reachable? | 2 users, 3 connections, 2 messages, 1 database error, 1 death of the process | 2 355 096 states, holds |
| `downgrade_lost` | is an approved downgrade ever lost? | no interruption | violated |
| `unseen_file` | does a VERIFIED document name the file its reviewer read? | 2 sessions, 2 uploads, no cut | violated |
| `token_reuse` | does a reset token work once? | 2 sessions, no deletion, no cut | violated |
| `reconnect_lost` | is a user's newest listening socket in the table? | 2 connections, no fault, no death | violated |

Bounds. Two rows are enough for every conflict between rows of a company (an
expired one and its successor, an interrupted insertion and its repetition);
two requests for repeated decisions and a trial asked for twice; cycles of one
and two days within three days let a cycle end, be checked, be extended and end
again. Companies share nothing but the order of rows inside one job, so one
company is enough for the exhaustive run; the proofs cover any number.
The direct payloads are one new row, a cleared schedule, a row given another end and
made active, but suspended, and a company reopened.

`tenant` checks: `OneLiveRow`, `WritableBacked` (write access rests on a live
row on the company's plan), `MirrorExact` (end date and activity are copied
exactly when nothing was interrupted), `ScheduleSound` (a pending change
belongs to the end of the current cycle), `ExpiredIsReadOnly`, and of steps
`TrialNotRepeated`, `ReopenedByApproval` (no job reopens a company),
`PlanChangeJustified`, `DecisionsFinal`. CUSTOM is withdrawn and offered again at any
time there: registrations stop after the company, approvals are refused, and the job
aborts on a row whose plan is gone. The instance has no priced plan, because the only
thing a price changes is that its request fails (section 5).

`admin` checks `EndedRowsStayClosed`: a complete expiry check closes every active row
whose end it covers, rows the superadmin reopened included, and afterwards no request,
approval, job, interruption or write of another field makes one active again. Only the
superadmin's own write of the row's end or activity does, which the payloads include.

`sessions` checks: `FreshAccess` and `FreshDecisions` (whatever overlaps, one live
row backs write access and a plan is committed once per request, unless a session
wrote over rows that had changed since it loaded them: the history variable
`stale` says exactly which writes a version column would refuse) and
`TrialStaysSpent` (not even such a write gives a used trial back). Two sessions and
three starts let a review meet a review, a check or the job, and a third one follow.
Four starts (6 032 168 states) hold as well, but take longer than a run should; the
theorems of section 6 have no bound on sessions or starts.

`documents` checks: `FilesKept` (the file of a row is on disk, except between
the deletion and the commit of one replacement, which a cut makes permanent),
`ChargedUploadsStored` (the counter, read and written back in separate steps and
zeroed by a job with a stale read, never exceeds the uploads stored) and
`LettersBounded` (a mail for each session between the check of `letters_sent`
and its commit, and for each cut, no more). Two sessions are the smallest number
that overlaps; three uploads let a replacement overlap another one of the same
row, and exceed the limit of two; the row, the names and the counter of one
employee are the only things sessions share.

`accounts` checks: `SeatsEarned` (no seat is counted without an employee, however
creations overlap or are cut), `SerialSeats` (without overlap, cut or deletion the
limit holds through imports of any length), `InvitedCanEnter` (whoever must set a
password has a token for it) and `OnboardingOrder`.
`digilocker` checks: `OneHolder` (a row whose link brought a refresh token holds id,
access and refresh token of one account, whoever's codes come in between),
`StateUsedOnce`, `OnlyRacesTear` and `TokensInOrder` (only a write over a change its
session had not seen leaves a row half linked, or a refresh token newer than its
access token).
`chat` checks: `ListenerReachable` (while a handler listens, it is in the table for
its user, unless that user has opened a later connection or the disconnect of
another one of the user's connections removed it), `MessageTold` (a stored message
is told, unless its receiver's socket closed, the database failed or the process
died) and `OneThread` (a second conversation of a pair gets no message but the one it
was made for). Three connections let one user reconnect while the other writes.

The four violated runs state what the repository says, without the exemptions of the
properties above. `token_reuse` is the two resets that share a token and
`reconnect_lost` the connection in `ousted`; `downgrade_lost` is the two nightly jobs
at the end of a cycle, `unseen_file` a verdict and a replacement. The other properties
with an exemption or a bound are one-sided as well, and say so here: `SeatsEarned`,
`ChargedUploadsStored` and `LettersBounded` bound a number from above and do not say
that nothing is lost or repeated; `FreshAccess`, `FreshDecisions`, `OnlyRacesTear` and
`TokensInOrder` say that a stale write is the only thing that breaks the tables, not
that there is none. What such a write leaves is in section 5.

`mail` checks `LogTellsTruth` and `RepeatedOnlyByCrash`, and two liveness
properties: `QueuedMailArrives` and `EveryMailEnds`. Their fairness is weak, on
the steps of each mail and on the return of Redis. A handler or background task
that has been started is run by the event loop until it ends, unless its process
dies; the worker polls the queue for as long as it lives; worker, Redis and API
are restarted by Docker (`docker-compose.yml`, `restart: unless-stopped`).
Nobody has to ask for a mail and nothing has to crash. One outage and two crashes
let a job run out of its tries, and a process start without Redis.
No other specification assumes fairness: a nightly job may never run.

Deadlock is checked in `tenant`, `admin`, `documents` and `digilocker`, where
something is always enabled (an expiry check, a review, an unlink). `sessions`,
`accounts`, `mail` and `chat` switch it off: with their bounds used up everybody
has finished and the system really stops.

## 5. Findings

Shown by a run:

1. **Scheduled downgrades are lost.** The 00:00 check expires rows that wait for
   their change; the 00:15 job only selects rows in SCHEDULED_CHANGE. The company
   ends read-only instead of on the smaller plan (run `downgrade_lost`).
2. **A verdict lands on another file.** `verify_document` marks the row VERIFIED
   without comparing its file with the one it had read; an upload that commits
   in between leaves a file nobody has seen VERIFIED (run `unseen_file`).
3. **A reset token works twice.** It is read as unused and marked used in one commit
   at the end of the handler: two resets at once both set a password. The notes call
   the tokens one-time (run `token_reuse`).
4. **The newest socket is forgotten.** The disconnect of an older socket removes the
   entry of its user, which is the newer one (run `reconnect_lost`).

Observed while modelling, with the place to look at. The models have these behaviours,
except where section 3 says otherwise:

* Paid plans cannot be requested: the proration compares a naive timestamp with an
  aware one and raises TypeError for every plan with a price, once the company has a
  subscription row (`subscription_service.py:301`).
* The mail fallback sends nothing: without a queue the job function is scheduled
  without its `ctx` argument and ends in TypeError after the response (`queue.py:63`).
* Two reviewers who have both read a request as pending both apply it: its plan is
  committed twice, or committed and then rejected (`subscription_service.py:364`). A
  version check on the request row alone would not prevent it: the plan is committed
  before the request.
* A review or the scheduled-change job that loaded its rows before the expiry check
  commits over them after it: the company is open and its row is closed, or a renewal
  is overwritten (`subscription_service.py:394`, `:616`).
* The end of an older row closes a company that has a live one, after the superadmin
  has added it (`subscription_service.py:606`).
* A request for a withdrawn plan is stuck: the plan is looked up before the decision
  is read, so that not even a rejection succeeds (`subscription_service.py:368`).
* Two creations that both read the count before either has changed it exceed the
  employee limit (`employee_service.py:28`, `company_repository.py:20`).
* Of two uploads that read the counter together one is not counted, and an upload that
  finds the last slot taken is stored and not counted either
  (`subscription_service.py:547`, `document_service.py:77`). An upload that read the
  counter before the monthly reset undoes the reset.
* Letters go out twice when two requests test `letters_sent` before either mail is sent
  (`routes/employees.py:202`).
* A refresh that asked DigiLocker before an unlink and commits after it leaves a row
  without a link that holds tokens (`digilocker_service.py:206`).
* A second link whose answer has no refresh token keeps that of the first account, and
  the next refresh stores that account's access token (`digilocker_service.py:110`,
  `employee_repository.py:44`).
* Another handler that changes the table during the presence broadcast of `connect`,
  which no `try` guards, leaves an entry nobody serves (`websocket_service.py:61`).
* A mail that was refused stays in RETRYING: nothing enqueues its log again
  (`worker.py:93`).
* With an unchanged file name a re-upload is written to the path of the old file
  and then deleted as the old file (`document_service.py:44`).
* The callback of DigiLocker never compares the account of the code with the
  employee of the state (`routes/digilocker.py:40`, `digilocker_service.py:71`), and
  nothing keeps two employees from holding the same `digilocker_id`
  (`models/employee.py:56`; `DIGILOCKER_INTEGRATION_PLAN.md:74` calls it unique).
* Without `FERNET_ENCRYPTION_KEY` every process encrypts with a key of its own, and
  stored tokens are unreadable in the others and after a restart
  (`utils/encryption.py:17`).
* Two first uses of a month collide in `_get_usage`, and the review that fails
  there leaves its request pending with the plan applied.
* `get_link_status` and `fetch_documents` of DigiLocker compare a naive expiry with
  an aware now and raise TypeError for every linked employee
  (`digilocker_service.py:153`, `:179`).
* A company update by an ADMIN or HR, and a profile update by an employee, set
  fields of the payload to `None`, which `exclude_unset` does not drop: NULL goes
  into NOT NULL columns and the update fails (`routes/companies.py:44`,
  `routes/employees.py:114`).
* Seats are never given back: `DeleteUser` leaves the count.

## 6. What is proved

Every invariant and every action property that a passing run checks is a theorem: for
every set of companies, plans, employees, users, names and sessions, every price
list and payload, and every value of the bounds. Each proof has the same plan: an
inductive invariant, checked by TLC on the bounds of the run first, one lemma per
action that the step keeps it, one temporal step. The invariants, and what had to
be added to the properties to make them inductive:

**`SubscriptionProofs`** (`TypeInv /\ AccessInv`): `TypeCorrect`,
`AtMostOneLiveRow`, `AccessIsBacked`, `ExpiryCloses`. Well-typed tables alone are
not inductive: a plan is written into the company row of a request's or row's
owner, which must exist. `OwnersRegistered` is that foreign key. `AccessInv` adds
`BatchWaits` (rows a running job still has to apply are in SCHEDULED_CHANGE and
are not the unsaved one), `UnsavedApplied` (the unsaved row already has its plan,
so storing ACTIVE changes no access), `ChangingRows` (a row in SCHEDULED_CHANGE is
active), `CheckedSoFar` (no check looks beyond the present slot) and
`EndedRowsClosed`. `ExpiredIsReadOnly` is not inductive; it follows from
`WritableBacked` and `EndedRowsClosed`. Two lemmas carry the argument:
`OneRowStep` (a step that writes one row of one company) and `KeptStep` (a step
that at most stores the job's deferred assignment).

**`SubscriptionPromiseProofs`** (`TenantInv`): `MirrorIsExact`, `ScheduleIsSound`,
the action properties `TrialHappensOnce`, `OnlyApprovalReopens`,
`PlanChangesAreJustified`, `DecisionsAreFinal`, and `PromiseKept`: `TenantSpec`
implements `BillingPromise`, initial states and every step, interrupted ones
included. `TenantInv` adds to `AccessInv` what each row says (`RowSound`: a row is
active exactly while its status gives access, a pending change is in SCHEDULED_CHANGE
on both rows) and `BatchDue` (the rows of a running batch have reached their date,
and still have: without it the job could change a plan before its cycle ends).
`EndedRowsStayShut` is about `Spec`, with the superadmin's writes, whatever their
payloads. It needs no invariant but `TypeInv` and `CheckedSoFar`: a complete check
leaves no active row before the instant it covers (`CheckCloses`), and every other step
keeps end and activity of a row, gives it an end that lies ahead, or is the superadmin's
own write of them (`CycleKept`, `StepKeepsCycles`). That an active row never ended
before the last check (`EndedRowsClosed`) is a part of `AccessInv` and holds for
`TenantSpec` only: `PUT /subscriptions/{id}` may move an end into the past.

**`SubscriptionSessionsProofs`** (`SessInv == Typed /\ Agreed /\ DecisionsDue`):
`SessionsTypeCorrect`, `FreshTablesAgree`, `FreshDecisionsHold` and, of steps,
`TrialsStaySpent`. `Typed` says of every session what it holds at each place
(`Sound`: the request was pending when it was read, the row at hand belongs to the
company under review and was live, or has the plan it was inserted with); that
stays true because no step deletes a row or gives it another owner (`Grows`).
`Agreed` is `~stale => AccessInv`: a commit that is not stale writes what a serial
handler would have written (`FreshStore`, `LiveRowStep`), so the invariant of the
serial model carries over. `DecisionsDue` counts: the commits of the plan of a
request are at most one if it is approved, one for each session between the two
commits, one for each that collided; a session that marks it approved leaves that
set, and the request was still pending because the write is not stale.
`TrialsStaySpent` needs no history: an UPDATE writes the flag only where it differs
from the loaded one, and then it sets it (`WrittenCompany`).

**`DocumentsProofs`** (`DocumentsInv`): `TypeCorrect`, `FilesAreKept`,
`ChargesAreStored`, `LettersAreBounded`. `PathsApart` is the reason files survive:
the path of an upload that is not committed is no row's, no other session's, and
nobody's to delete. `ChargesDue` counts the sessions that still have to charge,
beside the counter and beside every stale read of it; `LettersDue` counts those that
may still mail.

**`AccountsProofs`** (`AccountsInv`): `TypeCorrect`, `SeatsAreEarned`,
`SerialSeatsHold`, `WhoIsInvitedCanEnter`, `OnboardingIsOrdered`. `SeatsOwed` is the
same counting argument for the seats; `SerialKept` follows a single import through its
commits, where the session alone knows the count; `OnboardingSound` carries the
password from the token to the login and to both commits of the registration.

**`DigiLockerProofs`** (`LinkInv`): `TypeCorrect`, `RowsAreOfOneHolder`,
`StatesAreUsedOnce`, `RacesAloneTear`, `TokensAreInOrder`. What a session holds was
issued to the holder whose code or refresh token it showed, and after the refresh
token it has read (`SessionSound`); a session that is not stale commits over the row
it read, whose refresh token was of the account of the link; an open state has let
nobody through (`StatesFresh`).

**`MailProofs`** (`MailInv`): `MailsAreSound`, `TypeCorrect`, `LogIsTrue`,
`CopiesAreCrashes`. A mail's place says what its log row says and how often it has
left; a plain mail in the queue has left at most once for each crash.

**`ChatProofs`** (`ChatInv`): `TypeCorrect`, `ListenersAreReachable`,
`MessagesAreTold`, `SecondsStayShort`. `TableSound` says whose connection the table
holds: only the user's own, and of a user's connections the newest, unless it was
ousted; `SecondsSound` that a second conversation has one message or one handler about to
save one.

Assumptions: those the modules state of their constants (`PlanAssumption`,
`PayloadAssumption`, `NoneAssumption`, `SessionAssumption`, `DocumentAssumption`,
`AccountsAssumption`, `DigiLockerAssumption`, `MailAssumption`, `ChatAssumption`),
which TLC evaluates in every run. The only one that is not about types or about
values being distinct is that the set of sessions is finite where sessions are
counted: a server has finitely many requests at hand.

What the proofs changed in the models: with four starts `FreshAccess` failed, in a
state no run had reached, because an inserted row was written once more when its
company followed. The code does not write the row again; `MirrorPlan` and
`RefreshRow` now say so, and the bound is no longer what makes the property true.

Only model-checked: `QueuedMailArrives` and `EveryMailEnds`, which are liveness and out
of the prover's reach, and the properties of the runs that are violated.

## 7. Not modelled

* **One-time codes, refresh tokens, change-password.** The code cache, its table
  and the attempt counter are three copies of one number with an expiry; the two
  hazards listed for them (a cache per process, a counter read and written back)
  are visible in the code without a search. Signing and hashing are library code.
* **Tickets, departments, editing and creating single rows** (employees' profiles,
  users made or edited by the superadmin, marking chat messages read): one read
  and one write that share nothing with the operations modelled. The status of a
  ticket only moves from OPEN to IN_PROGRESS.
* **The byte counter** of the usage row moves with the upload counter.
* **Expiry reminders, dashboards, statistics, history, audit and notification
  lists** read, or append rows nothing reads back.
* **Role and tenant checks** are stateless; each action has the actors they admit.
* Mail rendering, file formats of the bulk import, settings, middleware, logging,
  migrations and the seeding scripts.
