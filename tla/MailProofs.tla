------------------------------ MODULE MailProofs ------------------------------
(***************************************************************************)
(* The log of the mails tells the truth, and nobody gets a mail more often *)
(* than the worker crashed: for any number of mails, processes, retries,   *)
(* crashes and outages.                                                    *)
(***************************************************************************)
EXTENDS Mail, SequenceTheorems, TLAPS

-----------------------------------------------------------------------------
(* The invariant: where a mail is says what its row says and what has left *)

LoggedPlaces == {"logged", "attempted", "sent", "refused", "done", "lost"}

PlainPlaces == Places \ {"logged", "attempted", "sent", "refused"}

\* A logged mail: its row is at most as far as the provider.
LoggedSound(x) ==
  /\ x.at \in LoggedPlaces
  /\ x.at \in {"logged", "attempted"} => x.delivered = 0 /\ x.status # "SENT"
  /\ x.at = "sent" => x.delivered = 1 /\ x.status # "SENT"
  /\ x.at = "refused" => x.status # "SENT"
  /\ x.at = "done" => x.status = "SENT" \/ (x.status # "QUEUED" /\ x.error)
  /\ x.status = "SENT" => x.delivered = 1
  /\ x.delivered <= 1

\* A plain mail that may be sent (again) has left at most once for each of the
\* n crashes; one that has been sent, once more.
PlainSound(x, n) ==
  /\ x.at \in PlainPlaces
  /\ x.at \in {"asked", "fallback"} => x.delivered = 0
  /\ x.at \in {"queued", "working"} => x.delivered <= n
  /\ x.delivered <= n + 1

Sound(x, n) == IF x.kind = "logged" THEN LoggedSound(x) ELSE PlainSound(x, n)

MailInv == TypeOK /\ \A m \in DOMAIN mails : Sound(mails[m], crashes)

-----------------------------------------------------------------------------
(* Rows of a table *)

LEMMA RowOfTable ==
  ASSUME NEW S, NEW rows \in Seq(S), NEW i \in DOMAIN rows
  PROVE  rows[i] \in S
BY LenProperties, ElementOfSeq

LEMMA InsertedRow ==
  ASSUME NEW S, NEW rows \in Seq(S), NEW e \in S
  PROVE  /\ Append(rows, e) \in Seq(S)
         /\ DOMAIN Append(rows, e) = DOMAIN rows \cup {Len(rows) + 1}
         /\ \A j \in DOMAIN rows : Append(rows, e)[j] = rows[j]
         /\ Append(rows, e)[Len(rows) + 1] = e
<1>1. Len(rows) \in Nat /\ DOMAIN rows = 1..Len(rows)
  BY LenProperties
<1>2. /\ Append(rows, e) \in Seq(S)
      /\ Len(Append(rows, e)) = Len(rows) + 1
      /\ \A j \in 1..Len(rows) : Append(rows, e)[j] = rows[j]
      /\ Append(rows, e)[Len(rows) + 1] = e
  BY AppendProperties
<1>3. DOMAIN Append(rows, e) = 1..(Len(rows) + 1)
  BY <1>2, LenProperties
<1>. QED
  BY <1>1, <1>2, <1>3

\* A table rewritten row by row.
LEMMA RewrittenRows ==
  ASSUME NEW S, NEW rows \in Seq(S), NEW f,
         f = [j \in DOMAIN rows |-> f[j]], \A j \in DOMAIN rows : f[j] \in S
  PROVE  f \in Seq(S)
<1>1. Len(rows) \in Nat /\ DOMAIN rows = 1..Len(rows)
  BY LenProperties
<1>2. f \in [1..Len(rows) -> S]
  BY <1>1
<1>. QED
  BY <1>1, <1>2, SeqDef

-----------------------------------------------------------------------------
(* What the steps do to the mails *)

\* A crash more never makes a mail unsound.
LEMMA SoundLonger ==
  ASSUME NEW x \in MailRecord, NEW n \in Nat, NEW k \in Nat, n <= k, Sound(x, n)
  PROVE  Sound(x, k)
BY DEF Sound, LoggedSound, PlainSound, MailRecord

\* A step rewrites the mails: each one stays a sound record.
LEMMA RewriteStep ==
  ASSUME MailInv, NEW f, mails' = [m \in DOMAIN mails |-> f[m]],
         \A m \in DOMAIN mails : f[m] \in MailRecord /\ Sound(f[m], crashes'),
         redis' \in BOOLEAN, attached' \subseteq Procs,
         crashes' \in Nat, outages' \in Nat
  PROVE  MailInv'
<1>1. mails \in Seq(MailRecord)
  BY DEF MailInv, TypeOK
<1>2. DOMAIN mails' = DOMAIN mails /\ \A m \in DOMAIN mails : mails'[m] = f[m]
  OBVIOUS
<1>3. mails' \in Seq(MailRecord)
  BY <1>1, <1>2, RewrittenRows
<1>. QED
  BY <1>2, <1>3 DEF MailInv, TypeOK

\* The mail that a step changes, field by field.
Changed(x, fields) ==
  [f \in DOMAIN x |-> IF f \in DOMAIN fields THEN fields[f] ELSE x[f]]

LEMMA ChangeStep ==
  ASSUME MailInv, NEW m \in DOMAIN mails, NEW fields, Change(m, fields),
         Changed(mails[m], fields) \in MailRecord,
         Sound(Changed(mails[m], fields), crashes)
  PROVE  MailInv'
<1>. DEFINE f == [k \in DOMAIN mails |->
                    IF k = m THEN Changed(mails[m], fields) ELSE mails[k]]
<1>1. mails \in Seq(MailRecord) /\ \A k \in DOMAIN mails : mails[k] \in MailRecord
  BY RowOfTable DEF MailInv, TypeOK
<1>2. mails' = [k \in DOMAIN mails |-> f[k]]
  <2>1. mails' = [mails EXCEPT ![m] = Changed(mails[m], fields)]
    BY DEF Change, Changed
  <2>. QED
    BY <1>1, <2>1
<1>3. UNCHANGED <<redis, attached, crashes, outages>>
  BY DEF Change
<1>4. \A k \in DOMAIN mails : f[k] \in MailRecord /\ Sound(f[k], crashes)
  BY <1>1 DEF MailInv
<1>. HIDE DEF f
<1>. QED
  BY <1>2, <1>3, <1>4, RewriteStep DEF MailInv, TypeOK

LEMMA MailFields ==
  ASSUME MailInv, NEW m \in DOMAIN mails
  PROVE  /\ mails[m] \in MailRecord
         /\ Sound(mails[m], crashes)
         /\ crashes \in Nat
BY RowOfTable DEF MailInv, TypeOK

\* A step writes only fields it has.
LEMMA AskStep ==
  ASSUME MailInv, NEW p \in Procs, NEW kind \in {"plain", "logged"}, Ask(p, kind)
  PROVE  MailInv'
<1>. DEFINE x == [kind |-> kind, proc |-> p,
                  at |-> IF kind = "plain" THEN "asked" ELSE "logged",
                  status |-> "QUEUED", attempts |-> 0, error |-> FALSE,
                  tries |-> 0, delivered |-> 0]
<1>1. /\ mails' = Append(mails, x)
      /\ UNCHANGED <<redis, attached, crashes, outages>>
  BY DEF Ask
<1>2. x \in MailRecord
  BY DEF MailRecord, EmailStatus, Places, Held
<1>3. crashes \in Nat /\ mails \in Seq(MailRecord)
  BY DEF MailInv, TypeOK
<1>4. Sound(x, crashes)
  BY <1>3 DEF Sound, LoggedSound, PlainSound, LoggedPlaces, PlainPlaces, Places, Held
<1>. HIDE DEF x
<1>5. /\ mails' \in Seq(MailRecord)
      /\ DOMAIN mails' = DOMAIN mails \cup {Len(mails) + 1}
      /\ \A j \in DOMAIN mails : mails'[j] = mails[j]
      /\ mails'[Len(mails) + 1] = x
  BY <1>1, <1>2, <1>3, InsertedRow
<1>. QED
  BY <1>1, <1>4, <1>5 DEF MailInv, TypeOK

LEMMA PlainStep ==
  ASSUME MailInv, NEW m \in DOMAIN mails,
         \/ Enqueue(m) \/ RunFallback(m)
         \/ WorkerTake(m) \/ WorkerSend(m) \/ WorkerAck(m)
  PROVE  MailInv'
<1>. DEFINE x == mails[m]
<1>1. /\ x \in MailRecord /\ Sound(x, crashes) /\ crashes \in Nat
  BY MailFields
<1>2. PICK fields : Change(m, fields) /\
        \/ fields = [at |-> IF HasPool(x.proc) /\ redis THEN "queued" ELSE "fallback"]
           /\ x.at = "asked"
        \/ fields = [at |-> "failed"] /\ x.at = "fallback"
        \/ fields = [at |-> "working", tries |-> x.tries + 1] /\ x.at = "queued"
        \/ fields = [at |-> "abandoned"] /\ x.at = "queued"
        \/ fields = [at |-> "mailed", delivered |-> x.delivered + 1] /\ x.at = "working"
        \/ fields = [at |-> "done"] /\ x.at = "mailed"
  BY DEF Enqueue, RunFallback, WorkerTake, WorkerSend, WorkerAck, Printed, At
<1>. DEFINE y == Changed(x, fields)
<1>. HIDE DEF x
<1>3. x.kind = "plain"
  BY <1>1, <1>2 DEF Sound, LoggedSound, LoggedPlaces, MailRecord
<1>4. y \in MailRecord /\ Sound(y, crashes)
  <2>1. CASE fields = [at |-> IF HasPool(x.proc) /\ redis THEN "queued" ELSE "fallback"]
             /\ x.at = "asked"
    BY <1>1, <1>3, <2>1 DEF Changed, Sound, PlainSound, PlainPlaces, MailRecord, Places, Held
  <2>2. CASE fields = [at |-> "failed"] /\ x.at = "fallback"
    BY <1>1, <1>3, <2>2 DEF Changed, Sound, PlainSound, PlainPlaces, MailRecord, Places, Held, Ended
  <2>3. CASE fields = [at |-> "working", tries |-> x.tries + 1] /\ x.at = "queued"
    BY <1>1, <1>3, <2>3 DEF Changed, Sound, PlainSound, PlainPlaces, MailRecord, Places, Held
  <2>4. CASE fields = [at |-> "abandoned"] /\ x.at = "queued"
    BY <1>1, <1>3, <2>4 DEF Changed, Sound, PlainSound, PlainPlaces, MailRecord, Places, Held, Ended
  <2>5. CASE fields = [at |-> "mailed", delivered |-> x.delivered + 1] /\ x.at = "working"
    BY <1>1, <1>3, <2>5 DEF Changed, Sound, PlainSound, PlainPlaces, MailRecord, Places, Held
  <2>6. CASE fields = [at |-> "done"] /\ x.at = "mailed"
    BY <1>1, <1>3, <2>6 DEF Changed, Sound, PlainSound, PlainPlaces, MailRecord, Places, Held, Ended
  <2>. QED
    BY <1>2, <2>1, <2>2, <2>3, <2>4, <2>5, <2>6
<1>. QED
  BY <1>2, <1>4, ChangeStep DEF x

LEMMA LoggedStep ==
  ASSUME MailInv, NEW m \in DOMAIN mails,
         \/ Attempt(m) \/ Send(m) \/ MarkSent(m) \/ MarkRefused(m)
         \/ CommitFails(m)
  PROVE  MailInv'
<1>. DEFINE x == mails[m]
<1>1. /\ x \in MailRecord /\ Sound(x, crashes) /\ crashes \in Nat
  BY MailFields
<1>2. PICK fields : Change(m, fields) /\
        \/ /\ fields = [at |-> "attempted", status |-> "RETRYING",
                        attempts |-> x.attempts + 1]
           /\ x.at = "logged"
        \/ /\ \E outcome \in Outcomes :
                fields = [at |-> IF outcome.raised THEN "refused" ELSE "sent",
                          delivered |-> x.delivered + outcome.taken]
           /\ x.at = "attempted"
        \/ fields = [at |-> "done", status |-> "SENT"] /\ x.at = "sent"
        \/ /\ fields = [at |-> "done", status |-> RefusedStatus(m), error |-> TRUE]
           /\ x.at = "refused"
        \/ fields = [at |-> "refused"] /\ x.at \in {"logged", "sent"}
        \/ fields = [at |-> "lost"] /\ x.at = "refused"
  BY DEF Attempt, Send, MarkSent, MarkRefused, CommitFails, At
<1>3. RefusedStatus(m) \in {"FAILED", "RETRYING"}
  BY DEF RefusedStatus
<1>. DEFINE y == Changed(x, fields)
<1>. HIDE DEF x
<1>4. x.kind = "logged"
  BY <1>1, <1>2 DEF Sound, PlainSound, PlainPlaces, MailRecord
<1>5. y \in MailRecord /\ Sound(y, crashes)
  <2>1. CASE /\ fields = [at |-> "attempted", status |-> "RETRYING",
                          attempts |-> x.attempts + 1]
             /\ x.at = "logged"
    BY <1>1, <1>4, <2>1 DEF Changed, Sound, LoggedSound, LoggedPlaces, MailRecord,
                            Places, Held, EmailStatus
  <2>2. CASE /\ \E outcome \in Outcomes :
                  fields = [at |-> IF outcome.raised THEN "refused" ELSE "sent",
                            delivered |-> x.delivered + outcome.taken]
             /\ x.at = "attempted"
    <3>. DEFINE Effect(taken, raised) ==
                  [at |-> IF raised THEN "refused" ELSE "sent",
                   delivered |-> x.delivered + taken]
    <3>1. PICK outcome \in Outcomes : fields = Effect(outcome.taken, outcome.raised)
      BY <2>2
    <3>2. /\ outcome.taken \in {0, 1} /\ outcome.raised \in BOOLEAN
          /\ outcome.raised \/ outcome.taken = 1
      <4>1. \/ outcome = [taken |-> 1, raised |-> FALSE]
            \/ outcome \in [taken : {0, 1}, raised : {TRUE}]
        BY DEF Outcomes
      <4>2. CASE outcome = [taken |-> 1, raised |-> FALSE]
        <5>1. outcome.taken = 1 /\ outcome.raised = FALSE
          BY <4>2
        <5>. QED
          BY <5>1
      <4>3. CASE outcome \in [taken : {0, 1}, raised : {TRUE}]
        <5>1. outcome.taken \in {0, 1} /\ outcome.raised = TRUE
          BY <4>3
        <5>. QED
          BY <5>1
      <4>. QED
        BY <4>1, <4>2, <4>3
    <3>. QED
      BY <1>1, <1>4, <2>2, <3>1, <3>2 DEF Changed, Sound, LoggedSound, LoggedPlaces,
                                    MailRecord, Places, Held
  <2>3. CASE fields = [at |-> "done", status |-> "SENT"] /\ x.at = "sent"
    BY <1>1, <1>4, <2>3 DEF Changed, Sound, LoggedSound, LoggedPlaces, MailRecord,
                            Places, Held, Ended, EmailStatus
  <2>4. CASE /\ fields = [at |-> "done", status |-> RefusedStatus(m), error |-> TRUE]
             /\ x.at = "refused"
    BY <1>1, <1>3, <1>4, <2>4 DEF Changed, Sound, LoggedSound, LoggedPlaces, MailRecord,
                            Places, Held, Ended, EmailStatus
  <2>5. CASE fields = [at |-> "refused"] /\ x.at \in {"logged", "sent"}
    BY <1>1, <1>4, <2>5 DEF Changed, Sound, LoggedSound, LoggedPlaces, MailRecord,
                            Places, Held
  <2>6. CASE fields = [at |-> "lost"] /\ x.at = "refused"
    BY <1>1, <1>4, <2>6 DEF Changed, Sound, LoggedSound, LoggedPlaces, MailRecord,
                            Places, Held, Ended
  <2>. QED
    BY <1>2, <2>1, <2>2, <2>3, <2>4, <2>5, <2>6
<1>. QED
  BY <1>2, <1>5, ChangeStep DEF x

\* A crash loses what the process held, and returns the worker's jobs.
LEMMA CrashStep ==
  ASSUME MailInv, WorkerRestart \/ \E p \in Procs : Restart(p)
  PROVE  MailInv'
<1>1. /\ crashes \in Nat /\ crashes' = crashes + 1 /\ outages \in Nat
      /\ redis \in BOOLEAN /\ attached \subseteq Procs
      /\ attached' \subseteq Procs /\ UNCHANGED <<redis, outages>>
  BY DEF WorkerRestart, Restart, MailInv, TypeOK
<1>2. ASSUME NEW m \in DOMAIN mails, NEW place \in Places,
             \/ place = "lost" /\ mails[m].at \in Held
             \/ place = "queued" /\ mails[m].at \in {"working", "mailed"}
      PROVE  /\ [mails[m] EXCEPT !.at = place] \in MailRecord
             /\ Sound([mails[m] EXCEPT !.at = place], crashes')
  <2>1. mails[m] \in MailRecord /\ Sound(mails[m], crashes)
    BY MailFields
  <2>. QED
    BY <1>1, <1>2, <2>1 DEF Sound, LoggedSound, PlainSound, LoggedPlaces, PlainPlaces,
                            MailRecord, Places, Held, Ended
<1>3. \A m \in DOMAIN mails : mails[m] \in MailRecord /\ Sound(mails[m], crashes')
  BY <1>1, MailFields, SoundLonger
<1>4. CASE WorkerRestart
  <2>. DEFINE f == [m \in DOMAIN mails |->
                      IF mails[m].at \in {"working", "mailed"}
                      THEN [mails[m] EXCEPT !.at = "queued"] ELSE mails[m]]
  <2>1. mails' = [m \in DOMAIN mails |-> f[m]]
    BY <1>4 DEF WorkerRestart
  <2>2. \A m \in DOMAIN mails : f[m] \in MailRecord /\ Sound(f[m], crashes')
    BY <1>2, <1>3 DEF Places
  <2>. HIDE DEF f
  <2>. QED
    BY <1>1, <2>1, <2>2, RewriteStep
<1>5. CASE \E p \in Procs : Restart(p)
  <2>1. PICK p \in Procs : Restart(p)
    BY <1>5
  <2>. DEFINE f == [m \in DOMAIN mails |->
                      IF mails[m].proc = p /\ mails[m].at \in Held
                      THEN [mails[m] EXCEPT !.at = "lost"] ELSE mails[m]]
  <2>2. mails' = [m \in DOMAIN mails |-> f[m]]
    BY <2>1 DEF Restart
  <2>3. \A m \in DOMAIN mails : f[m] \in MailRecord /\ Sound(f[m], crashes')
    BY <1>2, <1>3 DEF Places, Ended
  <2>. HIDE DEF f
  <2>. QED
    BY <1>1, <2>2, <2>3, RewriteStep
<1>. QED
  BY <1>4, <1>5

LEMMA MailInit == Init => MailInv
<1>1. ASSUME Init PROVE MailInv
  <2>1. mails \in Seq(MailRecord) /\ DOMAIN mails = {}
    BY <1>1, EmptySeq, LenProperties DEF Init
  <2>. QED
    BY <1>1, <2>1 DEF Init, MailInv, TypeOK
<1>. QED
  BY <1>1

LEMMA MailNext ==
  ASSUME MailInv, [Next]_vars
  PROVE  MailInv'
<1>1. ASSUME NEW m \in DOMAIN mails, Step(m) PROVE MailInv'
  BY <1>1, PlainStep, LoggedStep DEF Step
<1>2. ASSUME RedisDown \/ RedisUp \/ UNCHANGED vars PROVE MailInv'
  <2>1. UNCHANGED <<mails, attached, crashes>> /\ redis' \in BOOLEAN /\ outages' \in Nat
    <3>1. UNCHANGED <<mails, attached, crashes>> /\ redis' \in BOOLEAN
      BY <1>2 DEF RedisDown, RedisUp, vars, MailInv, TypeOK
    <3>2. outages' \in Nat
      BY <1>2 DEF RedisDown, RedisUp, vars, MailInv, TypeOK
    <3>. QED
      BY <3>1, <3>2
  <2>. QED
    BY <2>1 DEF MailInv, TypeOK
<1>. QED
  BY <1>1, <1>2, AskStep, CrashStep DEF Next

\* Every mail is where its kind can be, and its row and the number of its copies
\* agree with that place.
THEOREM MailsAreSound == Spec => []MailInv
<1>1. MailInv /\ [Next]_vars => MailInv'
  BY MailNext
<1>. QED
  BY <1>1, MailInit, PTL DEF Spec

\* The mails, the queue and the counters stay well typed.
THEOREM TypeCorrect == Spec => []TypeOK
<1>1. MailInv => TypeOK
  BY DEF MailInv
<1>. QED
  BY <1>1, MailsAreSound, PTL

\* A row of email_logs that says SENT was delivered, and a mail whose handler has
\* finished says so or names its error, whichever process died in between.
THEOREM LogIsTrue == Spec => []LogTellsTruth
<1>1. ASSUME MailInv PROVE LogTellsTruth
  <2>1. \A m \in DOMAIN mails : mails[m] \in MailRecord /\ Sound(mails[m], crashes)
    BY <1>1, MailFields
  <2>. QED
    BY <2>1 DEF LogTellsTruth, Logged, At, Sound, LoggedSound
<1>. QED
  BY <1>1, MailsAreSound, PTL

\* Copies of a plain mail are paid for by crashes; a logged mail leaves once.
THEOREM CopiesAreCrashes == Spec => []RepeatedOnlyByCrash
<1>1. ASSUME MailInv PROVE RepeatedOnlyByCrash
  <2>1. \A m \in DOMAIN mails : mails[m] \in MailRecord /\ Sound(mails[m], crashes)
    BY <1>1, MailFields
  <2>. QED
    BY <2>1 DEF RepeatedOnlyByCrash, Logged, Sound, LoggedSound, PlainSound
<1>. QED
  BY <1>1, MailsAreSound, PTL
=============================================================================
