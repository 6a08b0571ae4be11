-------------------------------- MODULE Mail --------------------------------
(***************************************************************************)
(* How mails leave the system: app/tasks/queue.py, the mail jobs of        *)
(* app/tasks/worker.py and app/services/email_service.py.                  *)
(*                                                                         *)
(* Plain mails (one-time password, reset link, onboarding) become ARQ jobs *)
(* in Redis, or background tasks of the API process when that process has  *)
(* no queue.  Logged mails (subscription notices) have a row in email_logs *)
(* and are sent inline by the process that wrote the row: no caller passes *)
(* background tasks.  API processes, the worker and Redis crash; their     *)
(* containers are restarted (docker-compose.yml: restart: unless-stopped). *)
(***************************************************************************)
EXTENDS Naturals, Sequences

CONSTANTS
  Procs,        \* API processes (uvicorn --workers)
  Provider,     \* EMAIL_PROVIDER: "smtp" or "console"
  RetryLimit,   \* EMAIL_QUEUE_RETRY_LIMIT
  MaxTries,     \* arq: how often a job is started
  MaxMails, MaxCrashes, MaxOutages   \* bounds for TLC

ASSUME MailAssumption ==
  /\ Provider \in {"smtp", "console"}
  /\ RetryLimit \in Nat \ {0, 1} /\ MaxTries \in Nat \ {0}
  /\ MaxMails \in Nat /\ MaxCrashes \in Nat /\ MaxOutages \in Nat

VARIABLES
  mails,      \* the mails, in the order they were asked for
  redis,      \* Redis answers
  attached,   \* processes that found Redis when they started
  crashes, outages

vars == <<mails, redis, attached, crashes, outages>>

\* Where a mail is.  Held by its API process: asked, fallback, logged,
\* attempted, sent, refused.  Held by Redis and the worker: queued, working, mailed.
Held == {"asked", "fallback", "logged", "attempted", "sent", "refused"}
Ended == {"done", "abandoned", "failed", "lost"}
Places == Held \cup {"queued", "working", "mailed"} \cup Ended

EmailStatus == {"QUEUED", "SENT", "FAILED", "RETRYING"}

\* status, attempts and error are columns of email_logs; tries is arq's count,
\* delivered the history of what left.
MailRecord == [kind : {"plain", "logged"}, proc : Procs, at : Places,
               status : EmailStatus, attempts : Nat, error : BOOLEAN,
               tries : Nat, delivered : Nat]

TypeOK ==
  /\ mails \in Seq(MailRecord)
  /\ redis \in BOOLEAN
  /\ attached \subseteq Procs
  /\ crashes \in Nat /\ outages \in Nat

Init ==
  /\ mails = <<>>
  /\ redis \in BOOLEAN
  /\ attached = IF redis THEN Procs ELSE {}
  /\ crashes = 0 /\ outages = 0

-----------------------------------------------------------------------------
At(m, place) == mails[m].at = place

Change(m, fields) ==
  /\ mails' = [mails EXCEPT ![m] = [f \in DOMAIN @ |->
                 IF f \in DOMAIN fields THEN fields[f] ELSE @[f]]]
  /\ UNCHANGED <<redis, attached, crashes, outages>>

\* A handler needs a mail; a logged one has its row at once.
Ask(p, kind) ==
  /\ Len(mails) < MaxMails
  /\ mails' = Append(mails, [kind |-> kind, proc |-> p,
       at |-> IF kind = "plain" THEN "asked" ELSE "logged",
       status |-> "QUEUED", attempts |-> 0, error |-> FALSE,
       tries |-> 0, delivered |-> 0])
  /\ UNCHANGED <<redis, attached, crashes, outages>>

-----------------------------------------------------------------------------
(* Plain mails *)

\* mutant: the flag is imported before startup has set it
NeverHasPool(p) == FALSE

\* get_arq_pool: the flag is imported with the value it has after startup.
HasPool(p) == p \in attached

\* enqueue_task, whose exception also leads to the fallback
Enqueue(m) ==
  /\ At(m, "asked")
  /\ Change(m, [at |-> IF HasPool(mails[m].proc) /\ redis THEN "queued" ELSE "fallback"])

\* The background task calls the job without its ctx argument: TypeError.
RunFallback(m) == At(m, "fallback") /\ Change(m, [at |-> "failed"])

\* mutant: a job that was started once is not taken again
WorkerTakeOnce(m) ==
  /\ At(m, "queued") /\ redis /\ mails[m].tries = 0
  /\ Change(m, [at |-> "working", tries |-> 1])

\* arq starts a job again after a crash, up to a number of tries.
WorkerTake(m) ==
  /\ At(m, "queued") /\ redis
  /\ IF mails[m].tries < MaxTries
     THEN Change(m, [at |-> "working", tries |-> mails[m].tries + 1])
     ELSE Change(m, [at |-> "abandoned"])

\* send_otp_email and its two siblings print the mail: they do not fail.
Printed(m) == [at |-> "mailed", delivered |-> mails[m].delivered + 1]

\* mutant: a job sends its mail once more when it has been tried before
WorkerSendEach(m) ==
  /\ At(m, "working")
  /\ Change(m, [at |-> "mailed",
                delivered |-> mails[m].delivered + mails[m].tries])

\* send_otp_email_job, send_reset_password_email_job, send_onboarding_email_job
WorkerSend(m) ==
  /\ At(m, "working")
  /\ Change(m, Printed(m))

WorkerAck(m) == At(m, "mailed") /\ redis /\ Change(m, [at |-> "done"])

-----------------------------------------------------------------------------
(* Logged mails: send_email_job, inline *)

\* mutant: the row says SENT before the provider has taken the mail
AttemptMarksSent(m) ==
  /\ At(m, "logged")
  /\ Change(m, [at |-> "attempted", status |-> "SENT",
                attempts |-> mails[m].attempts + 1])

Attempt(m) ==
  /\ At(m, "logged")
  /\ Change(m, [at |-> "attempted", status |-> "RETRYING",
                attempts |-> mails[m].attempts + 1])

\* EmailProvider.send: the console takes every mail; an SMTP server may refuse
\* one, or take it and break the dialogue, which raises as well.
Outcomes ==
  {[taken |-> 1, raised |-> FALSE]} \cup
    IF Provider = "smtp" THEN [taken : {0, 1}, raised : {TRUE}] ELSE {}

Send(m) ==
  /\ At(m, "attempted")
  /\ \E outcome \in Outcomes :
       Change(m, [at |-> IF outcome.raised THEN "refused" ELSE "sent",
                  delivered |-> mails[m].delivered + outcome.taken])

MarkSent(m) == At(m, "sent") /\ Change(m, [at |-> "done", status |-> "SENT"])

\* mutant: a status the column does not know
RefusedOffEnum(m) == IF mails[m].attempts >= RetryLimit THEN "FAILED" ELSE "REFUSED"

RefusedStatus(m) ==
  IF mails[m].attempts >= RetryLimit THEN "FAILED" ELSE "RETRYING"

\* The exception is raised again, and queue_email drops it.
MarkRefused(m) ==
  /\ At(m, "refused")
  /\ Change(m, [at |-> "done", status |-> RefusedStatus(m), error |-> TRUE])

\* The database refuses a commit, of the attempt or of SENT: its exception takes
\* the branch of a refused mail, and is the end when that branch cannot commit.
CommitFails(m) ==
  \/ At(m, "logged") /\ Change(m, [at |-> "refused"])
  \/ At(m, "sent") /\ Change(m, [at |-> "refused"])
  \/ At(m, "refused") /\ Change(m, [at |-> "lost"])

-----------------------------------------------------------------------------
(* Crashes, restarts, outages *)

\* What an API process held is lost; it looks for Redis when it starts again.
Restart(p) ==
  /\ crashes < MaxCrashes
  /\ crashes' = crashes + 1
  /\ mails' = [m \in DOMAIN mails |->
                 IF mails[m].proc = p /\ mails[m].at \in Held
                 THEN [mails[m] EXCEPT !.at = "lost"] ELSE mails[m]]
  /\ attached' = IF redis THEN attached \cup {p} ELSE attached \ {p}
  /\ UNCHANGED <<redis, outages>>

\* The worker dies: its jobs stay in Redis.
WorkerRestart ==
  /\ crashes < MaxCrashes
  /\ crashes' = crashes + 1
  /\ mails' = [m \in DOMAIN mails |->
                 IF mails[m].at \in {"working", "mailed"}
                 THEN [mails[m] EXCEPT !.at = "queued"] ELSE mails[m]]
  /\ UNCHANGED <<redis, attached, outages>>

RedisDown ==
  /\ redis /\ outages < MaxOutages
  /\ redis' = FALSE /\ outages' = outages + 1
  /\ UNCHANGED <<mails, attached, crashes>>

RedisUp ==
  /\ ~redis /\ redis' = TRUE
  /\ UNCHANGED <<mails, attached, crashes, outages>>

Step(m) ==
  \/ Enqueue(m) \/ RunFallback(m)
  \/ WorkerTake(m) \/ WorkerSend(m) \/ WorkerAck(m)
  \/ Attempt(m) \/ Send(m) \/ MarkSent(m) \/ MarkRefused(m)
  \/ CommitFails(m)

Next ==
  \/ \E p \in Procs : Restart(p) \/ \E kind \in {"plain", "logged"} : Ask(p, kind)
  \/ \E m \in DOMAIN mails : Step(m)
  \/ WorkerRestart \/ RedisDown \/ RedisUp

\* Handlers, background tasks and the worker go on, Redis is restarted; nobody
\* has to ask for a mail, and nothing has to crash.
Fairness ==
  /\ \A m \in 1 .. MaxMails : WF_vars(m \in DOMAIN mails /\ Step(m))
  /\ WF_vars(RedisUp)

Spec == Init /\ [][Next]_vars /\ Fairness

-----------------------------------------------------------------------------
Logged(m) == mails[m].kind = "logged"

\* A row that says SENT was delivered, and one that the handler has finished
\* says SENT or names the error: never QUEUED, never an attempt without an end.
LogTellsTruth ==
  \A m \in DOMAIN mails :
    Logged(m) =>
      /\ mails[m].status = "SENT" => mails[m].delivered = 1
      /\ At(m, "done") => \/ mails[m].status = "SENT"
                          \/ mails[m].status # "QUEUED" /\ mails[m].error

\* Nobody gets a mail more often than the worker crashed while sending it, plus
\* once; a logged mail arrives at most once.
RepeatedOnlyByCrash ==
  \A m \in DOMAIN mails :
    mails[m].delivered <= IF Logged(m) THEN 1 ELSE crashes + 1

\* A mail asked of a process with a queue arrives, whatever crashes, unless Redis
\* was out at some time, that process died first, or the job ran out of tries.
QueuedMailArrives ==
  \A m \in 1 .. MaxMails :
    m \in DOMAIN mails /\ At(m, "asked") /\ mails[m].proc \in attached
      ~> m \in DOMAIN mails /\ (\/ mails[m].delivered > 0
                                \/ mails[m].at \in {"lost", "abandoned"}
                                \/ outages > 0)

\* Nothing stays under way for ever: outages and crashes only delay the end.
EveryMailEnds ==
  \A m \in 1 .. MaxMails :
    m \in DOMAIN mails ~> m \in DOMAIN mails /\ mails[m].at \in Ended
=============================================================================
