----------------------------- MODULE MailQueue -----------------------------
(***************************************************************************)
(* The delivery of mail: service/mailqueue/worker.go, notifications.go,    *)
(* queue.go and the transactions of database/mail.go.  Every server        *)
(* process runs one worker; the workers share the tables mail_control,     *)
(* mail_jobs and mail_accounts, and a lease in mail_control lets one of    *)
(* them work.                                                              *)
(*                                                                         *)
(* A worker may be slow between any two statements, so a lease can run     *)
(* out anywhere.  Of the clock the order of three instants is kept: the    *)
(* end of the lease, the instant before which nobody may send, and the     *)
(* deadline of a worker's network calls.  Which open job is due, and       *)
(* whether it has expired, is left open at every step.                     *)
(***************************************************************************)
EXTENDS Naturals, FiniteSets

CONSTANTS
    Mailers,        \* server processes
    Installations,  \* the installations to consider
    MaxJobs,        \* jobs; the first ones announce the audit entries
    Absent,         \* no process, no job, no instant
    MaxRestarts     \* bound on crashes and stops

Jobs == 1..MaxJobs

ASSUME BoundAssumption == MaxJobs \in Nat /\ MaxRestarts \in Nat
ASSUME InstallationsAssumption ==
    Installations \subseteq [processes : SUBSET Mailers, pending : Nat, quota : Nat, entries : 0..MaxJobs]
\* Absent is no process, no job and no set of jobs; a process is no instant.
ASSUME AbsentAssumption ==
    /\ Mailers \intersect {Absent, "past", "delay"} = {}
    /\ Absent \notin Jobs /\ \A S \in SUBSET Jobs : Absent # S

VARIABLES
    site,           \* the installation: its processes, its limit of open jobs (MaxPendingJobs),
                    \* what its account may send, and the audit entries that come (a bound)
    job,            \* mail_jobs.status
    lease,          \* mail_control.lease_owner, and whether lease_until is ahead
    nextSend,       \* mail_control.next_send_at: past, or who set it
    cursor,         \* mail_control.audit_cursor, from the instant mail was switched on
    account,        \* mail_accounts: the jobs the counters of the account stand for
    logged,         \* audit entries that are to be announced by mail
    mailer,         \* the worker goroutines
    submitted,      \* how often a job reached the provider
    billed,         \* the jobs the provider charges for
    late,           \* a result was saved after another worker had had the lease
    restarts

mailTables == <<job, lease, nextSend, cursor, account>>
provider == <<submitted, billed>>
deployed == site.processes
mailVars == <<site, mailTables, logged, mailer, provider, late, restarts>>

\* queued stands for paused too, ended for sent, failed or unknown, unsent for expired or
\* cancelled; interrupted is unknown with the code mail_submission_interrupted.
Open == {"queued", "sending", "checking"}
Final == {"ended", "unsent", "interrupted"}

\* completion: what process or finish leaves for complete.
NoResult == [job |-> Absent, status |-> "none", refund |-> FALSE, account |-> Absent, delay |-> FALSE]

\* Start: a new worker has a new name and has not recovered anything.
Fresh == [pc |-> "idle", job |-> Absent, status |-> "none", paced |-> FALSE,
          cursor |-> 0, recovered |-> FALSE, dead |-> FALSE, account |-> {},
          pending |-> NoResult, lost |-> FALSE]

MailInit ==
    /\ site \in Installations
    /\ job = [j \in Jobs |-> "none"]
    /\ lease = [owner |-> Absent, valid |-> FALSE]
    /\ nextSend = "past" /\ cursor = 0 /\ account = {} /\ logged = 0
    /\ mailer = [p \in Mailers |-> Fresh]
    /\ submitted = [j \in Jobs |-> 0] /\ billed = {}
    /\ late = FALSE /\ restarts = 0

Goto(p, pc) == mailer' = [mailer EXCEPT ![p].pc = pc]

\* The end of a step: what the worker keeps is whether it has recovered, and an unsaved result.
EndStep(p, result) ==
    mailer' = [mailer EXCEPT ![p] = [Fresh EXCEPT !.recovered = mailer[p].recovered, !.pending = result,
                                                  !.lost = mailer[p].lost /\ result # NoResult]]

-----------------------------------------------------------------------------
(* Handlers and other parts of the server that ask for mail *)

Pending == {j \in Jobs : job[j] \in Open}
Queued(j) == [job EXCEPT ![j] = "queued"]

\* Enqueue with a fresh identifier; QueueMailJob refuses when the queue is full.
Enqueue(j) ==
    /\ j > site.entries /\ job[j] = "none"
    /\ Cardinality(Pending) < site.pending
    /\ job' = Queued(j)
    /\ UNCHANGED <<site, lease, nextSend, cursor, account, logged, mailer, provider,
                   late, restarts>>

\* Another part of the server writes an audit entry.
Log ==
    /\ logged < site.entries
    /\ logged' = logged + 1
    /\ UNCHANGED <<site, mailTables, mailer, provider, late, restarts>>

-----------------------------------------------------------------------------
(* The beginning of step *)

\* AcquireMailLease: whoever asks gets the lease unless another one holds a valid lease.  A
\* worker with an unsaved result goes on with it, the others with recovery and notifications.
AcquireLease(p) ==
    /\ p \in deployed /\ mailer[p].pc = "idle"
    /\ lease.owner = p \/ ~lease.valid
    /\ lease' = [owner |-> p, valid |-> TRUE]
    /\ mailer' = [q \in Mailers |->
           IF q # p
           THEN [mailer[q] EXCEPT !.lost = mailer[q].pc # "idle" \/ mailer[q].pending # NoResult]
           ELSE IF mailer[p].pending # NoResult
           THEN [mailer[p] EXCEPT !.pc = IF mailer[p].pending.refund THEN "refund" ELSE "save"]
           ELSE [mailer[p] EXCEPT !.pc = IF mailer[p].recovered THEN "notify" ELSE "recover",
                                  !.paced = nextSend # "past", !.cursor = cursor, !.lost = FALSE]]
    /\ UNCHANGED <<site, job, nextSend, cursor, account, logged, provider, late, restarts>>

\* requireMailLeaseTx compares lease_until with an instant read before the transaction: a
\* lease that has run out since then is still accepted from its owner, or no longer.
Owns(p) == lease.owner = p
MayBeRefused(p) == lease.owner # p \/ ~lease.valid

\* A bug: what was interrupted is put back into the queue.
Requeued(j) == "queued"

\* A submission that was interrupted is not known to have happened.
Interrupted(j) == "interrupted"

\* RecoverMailAttempts, once for each worker.
Recover(p) ==
    /\ mailer[p].pc = "recover" /\ Owns(p)
    /\ job' = [j \in Jobs |-> IF job[j] = "sending" THEN Interrupted(j) ELSE job[j]]
    /\ mailer' = [mailer EXCEPT ![p].pc = "notify", ![p].recovered = TRUE]
    /\ UNCHANGED <<site, lease, nextSend, cursor, account, logged, provider, late,
                   restarts>>

\* QueueMailJob finds the identifier, which is made of the number of the entry.
Known(j) == job[j] # "none"

\* The queue has no room for one more job.
Full == Cardinality(Pending) >= site.pending

\* A bug: an entry whose job finds the queue full counts as announced.
NotifyAnyway(p) ==
    LET k == mailer[p].cursor + 1 IN
    /\ mailer[p].pc = "notify" /\ k <= logged
    /\ job' = IF Known(k) \/ Full THEN job ELSE Queued(k)
    /\ Goto(p, "advance")
    /\ UNCHANGED <<site, lease, nextSend, cursor, account, logged, provider, late,
                   restarts>>

\* notifications: the job of the next entry is queued unless it exists.
Notify(p) ==
    LET k == mailer[p].cursor + 1 IN
    /\ mailer[p].pc = "notify" /\ k <= logged
    /\ Known(k) \/ ~Full
    /\ job' = IF Known(k) THEN job ELSE Queued(k)
    /\ Goto(p, "advance")
    /\ UNCHANGED <<site, lease, nextSend, cursor, account, logged, provider, late,
                   restarts>>

\* The entries are all announced, or the queue is full: the step goes on.
Notified(p) ==
    LET k == mailer[p].cursor + 1 IN
    mailer[p].pc = "notify" /\ (k <= logged => ~Known(k) /\ Full)

\* AdvanceMailAuditCursor: nothing happens, and nobody notices, without the lease.
AdvanceCursor(p) ==
    LET k == mailer[p].cursor + 1 IN
    /\ mailer[p].pc = "advance"
    /\ \/ Owns(p) /\ cursor < k /\ cursor' = k
       \/ (MayBeRefused(p) \/ cursor >= k) /\ UNCHANGED cursor
    /\ mailer' = [mailer EXCEPT ![p].pc = "notify", ![p].cursor = k]
    /\ UNCHANGED <<site, job, lease, nextSend, account, logged, provider, late,
                   restarts>>

-----------------------------------------------------------------------------
(* process, up to the attempt *)

\* NextMailJob and LoadMailAccount read without a lock, and nobody else can save anything as
\* long as the worker owns the lease; the deadline of the network calls runs from here.
NextJob(p, j) ==
    /\ Notified(p) /\ job[j] \in {"queued", "checking"}
    /\ mailer' = [mailer EXCEPT ![p].pc = "process", ![p].job = j, ![p].status = job[j],
                                ![p].account = account, ![p].dead = FALSE]
    /\ UNCHANGED <<site, mailTables, logged, provider, late, restarts>>

\* No job is due, or calibrateOne fetches the budget of an account instead; the step ends.
NoJob(p) ==
    /\ Notified(p)
    /\ EndStep(p, NoResult)
    /\ UNCHANGED <<site, mailTables, logged, provider, late, restarts>>

\* The result of a job, for complete; the rest of what process knew is not used any more.
Result(p, status, refund, saved, delay) ==
    mailer' = [mailer EXCEPT ![p] = [Fresh EXCEPT !.pc = IF refund THEN "refund" ELSE "save",
                  !.recovered = mailer[p].recovered, !.lost = mailer[p].lost,
                  !.pending = [job |-> mailer[p].job, status |-> status, refund |-> refund,
                               account |-> saved, delay |-> delay]]]

\* An expired job, one whose account is gone, or one nobody may receive ends here, without
\* having been sent; of one that was sent nothing more will be known.
GiveUp(p) ==
    /\ mailer[p].pc = "process"
    /\ Result(p, IF mailer[p].status = "checking" THEN "ended" ELSE "unsent", FALSE, Absent, FALSE)
    /\ UNCHANGED <<site, mailTables, logged, provider, late, restarts>>

\* A bug: the delay after the last mail is not looked at.
NotYetNever(p) == FALSE

\* Nobody may send before next_send_at, as AcquireMailLease returned it.
NotYet(p) == mailer[p].status # "checking" /\ mailer[p].paced

\* SaveMailAttempt writes a job that has not ended, or of which only an interrupted submission
\* is known.
Accepts(j) == job[j] \in Open \cup {"interrupted"}

\* pause, or the wait for next_send_at or for an account that is switched off.
Postpone(p) ==
    LET j == mailer[p].job IN
    /\ mailer[p].pc = "process" /\ Owns(p) /\ Accepts(j)
    /\ job' = [job EXCEPT ![j] = mailer[p].status]
    /\ EndStep(p, NoResult)
    /\ UNCHANGED <<site, lease, nextSend, cursor, account, logged, provider, late,
                   restarts>>

\* failPreparation: the account is kept with the result until both are saved.
FailPreparation(p) ==
    /\ mailer[p].pc = "process" /\ ~NotYet(p)
    /\ Result(p, "ended", FALSE, mailer[p].account, mailer[p].status # "checking")
    /\ UNCHANGED <<site, mailTables, logged, provider, late, restarts>>

\* Check: the provider knows no more yet, or has nothing more to say.
StillChecking(p) ==
    /\ mailer[p].pc = "process" /\ mailer[p].status = "checking" /\ Owns(p) /\ Accepts(mailer[p].job)
    /\ job' = [job EXCEPT ![mailer[p].job] = "checking"]
    /\ EndStep(p, NoResult)
    /\ UNCHANGED <<site, lease, nextSend, cursor, account, logged, provider, late,
                   restarts>>

\* The provider may say that it does not charge for what it could not deliver.
Checked(p) ==
    /\ mailer[p].pc = "process" /\ mailer[p].status = "checking"
    /\ \E refund \in BOOLEAN :
           /\ billed' = IF refund THEN billed \ {mailer[p].job} ELSE billed
           /\ Result(p, "ended", refund, Absent, FALSE)
    /\ UNCHANGED <<site, mailTables, logged, submitted, late, restarts>>

-----------------------------------------------------------------------------
(* The attempt *)

\* Reserve
WithinQuota(p) == Cardinality(mailer[p].account) < site.quota

\* The worker once the attempt is saved.
Sending(p) == [mailer EXCEPT ![p].pc = "submit", ![p].status = "none", ![p].paced = FALSE, ![p].account = {}]

\* SaveMailAttempt puts the mark, the reservation and the instant before which nobody may send
\* into one transaction; nothing is sent without it.
Mark(p) ==
    LET j == mailer[p].job IN
    /\ mailer[p].pc = "process" /\ mailer[p].status # "checking" /\ ~NotYet(p) /\ WithinQuota(p) /\ Owns(p) /\ Accepts(j)
    /\ job' = [job EXCEPT ![j] = "sending"]
    /\ account' = mailer[p].account \cup {j}
    /\ nextSend' = p
    /\ mailer' = Sending(p)
    /\ UNCHANGED <<site, lease, cursor, logged, provider, late, restarts>>

\* A bug: the request is repeated when no answer comes.
SubmitRetried(p) ==
    LET j == mailer[p].job IN
    /\ mailer[p].pc = "submit" /\ ~mailer[p].dead
    /\ submitted' = [submitted EXCEPT ![j] = @ + 1]
    /\ billed' \in {billed, billed \cup {j}}
    /\ mailer' \in {[mailer EXCEPT ![p].pc = pc] : pc \in {"submit", "answer"}}
    /\ UNCHANGED <<site, mailTables, logged, late, restarts>>

\* Send: the message reaches the provider, which charges for it or not.
Submit(p) ==
    LET j == mailer[p].job IN
    /\ mailer[p].pc = "submit" /\ ~mailer[p].dead
    /\ submitted' = [submitted EXCEPT ![j] = @ + 1]
    /\ billed' \in {billed, billed \cup {j}}
    /\ Goto(p, "answer")
    /\ UNCHANGED <<site, mailTables, logged, late, restarts>>

\* Send fails before anything was submitted.
NotSubmitted(p) ==
    /\ mailer[p].pc = "submit"
    /\ \E refund \in BOOLEAN : Result(p, "ended", refund, Absent, TRUE)
    /\ UNCHANGED <<site, mailTables, logged, provider, late, restarts>>

\* A bug: whatever was not accepted is paid back.
RefundableUnlessSent(j) == TRUE

\* Chargeable: only an error that says the provider does not charge is followed by a refund.
Refundable(j) == j \notin billed

\* The answer of the provider, or an error, at the latest when the deadline passes.
Answer(p) ==
    LET j == mailer[p].job IN
    /\ mailer[p].pc = "answer"
    /\ \/ j \in billed /\ Result(p, "checking", FALSE, Absent, TRUE)
       \/ Result(p, "ended", FALSE, Absent, TRUE)
       \/ Refundable(j) /\ Result(p, "ended", TRUE, Absent, TRUE)
    /\ UNCHANGED <<site, mailTables, logged, provider, late, restarts>>

-----------------------------------------------------------------------------
(* complete *)

\* A refund is taken off the account as it is now.
LoadRefund(p) ==
    /\ mailer[p].pc = "refund"
    /\ mailer' = [mailer EXCEPT ![p].pc = "save",
                                ![p].pending.account = account \ {mailer[p].pending.job}]
    /\ UNCHANGED <<site, mailTables, logged, provider, late, restarts>>

Saves(p) == mailer[p].pc = "save" /\ Owns(p)

\* A bug: a result that cannot be saved is dropped.
KeepNothing(p) == NoResult

\* What a failed save leaves for the next step.
Kept(p) == mailer[p].pending

\* SaveMailAttempt: job, account and delay in one transaction.
SaveResult(p) ==
    LET r == mailer[p].pending IN
    /\ Saves(p) /\ Accepts(r.job)
    /\ job' = [job EXCEPT ![r.job] = r.status]
    /\ account' = IF r.account = Absent THEN account ELSE r.account
    /\ nextSend' = IF r.delay THEN "delay" ELSE nextSend
    /\ late' = (late \/ mailer[p].lost)
    /\ EndStep(p, NoResult)
    /\ UNCHANGED <<site, lease, cursor, logged, provider, restarts>>

\* ErrFinalized
SaveFinalized(p) ==
    /\ Saves(p) /\ ~Accepts(mailer[p].pending.job)
    /\ EndStep(p, NoResult)
    /\ UNCHANGED <<site, mailTables, logged, provider, late, restarts>>

\* A transaction that needs the lease does not find it, or finds a job that has ended.
Refused(p) ==
    /\ \/ mailer[p].pc \in {"recover", "process", "save"} /\ MayBeRefused(p)
       \/ mailer[p].pc = "process" /\ ~Accepts(mailer[p].job)
    /\ EndStep(p, Kept(p))
    /\ UNCHANGED <<site, mailTables, logged, provider, late, restarts>>

\* A statement fails and is rolled back, or process calibrates the account first: the step ends.
StepFails(p) ==
    /\ mailer[p].pc \notin {"idle", "submit", "answer"}
    /\ EndStep(p, Kept(p))
    /\ UNCHANGED <<site, mailTables, logged, provider, late, restarts>>

-----------------------------------------------------------------------------
(* Time, crashes and shutdown *)

LeaseRunsOut ==
    /\ lease.valid
    /\ lease' = [lease EXCEPT !.valid = FALSE]
    /\ UNCHANGED <<site, job, nextSend, cursor, account, logged, mailer, provider, late,
                   restarts>>

\* The deadline of the network calls passes; a call that is under way ends by then (Answer).
Deadline(p) ==
    /\ mailer[p].pc = "submit" /\ ~mailer[p].dead
    /\ mailer' = [mailer EXCEPT ![p].dead = TRUE]
    /\ UNCHANGED <<site, mailTables, logged, provider, late, restarts>>

\* The mark of an attempt sets next_send_at to thirty seconds and the delay from then, which
\* is not before the deadline of the attempt.
NextSendPasses ==
    /\ nextSend # "past"
    /\ nextSend \in Mailers =>
           mailer[nextSend].pc # "answer" /\ (mailer[nextSend].pc = "submit" => mailer[nextSend].dead)
    /\ nextSend' = "past"
    /\ UNCHANGED <<site, job, lease, cursor, account, logged, mailer, provider, late,
                   restarts>>

\* The process dies and is started again: its worker has a new name, and the lease is held by
\* a name nobody has.
MailCrash(p) ==
    /\ p \in deployed /\ restarts < MaxRestarts
    /\ restarts' = restarts + 1
    /\ mailer' = [mailer EXCEPT ![p] = Fresh]
    /\ lease' = IF lease.owner = p THEN [lease EXCEPT !.owner = Absent] ELSE lease
    /\ UNCHANGED <<site, job, nextSend, cursor, account, logged, provider, late>>

\* The shutdown function waits for the step to end and releases the lease; a result that is
\* not saved is gone.
StopMailer(p) ==
    /\ p \in deployed /\ mailer[p].pc = "idle" /\ restarts < MaxRestarts
    /\ restarts' = restarts + 1
    /\ mailer' = [mailer EXCEPT ![p] = Fresh]
    /\ lease' = IF lease.owner = p THEN [owner |-> Absent, valid |-> FALSE] ELSE lease
    /\ UNCHANGED <<site, job, nextSend, cursor, account, logged, provider, late>>

-----------------------------------------------------------------------------

\* What the worker does by itself within a step.
Work(p) ==
    \/ Recover(p) \/ Notify(p) \/ AdvanceCursor(p)
    \/ (\E j \in Jobs : NextJob(p, j)) \/ NoJob(p) \/ GiveUp(p) \/ Postpone(p) \/ FailPreparation(p)
    \/ StillChecking(p) \/ Checked(p) \/ Mark(p) \/ Submit(p) \/ NotSubmitted(p) \/ Answer(p)
    \/ LoadRefund(p) \/ SaveResult(p) \/ SaveFinalized(p) \/ Refused(p)

MailNext ==
    \/ \E j \in Jobs : Enqueue(j)
    \/ Log \/ LeaseRunsOut \/ NextSendPasses
    \/ \E p \in Mailers : AcquireLease(p) \/ Work(p) \/ StepFails(p) \/ Deadline(p)
                          \/ MailCrash(p) \/ StopMailer(p)

MailSpec == MailInit /\ [][MailNext]_mailVars

-----------------------------------------------------------------------------
(* Properties *)

\* The worker, the tables and what they refer to: the lease belongs to a process that is
\* deployed, and the cursor does not pass the entries there are.
MailTypeOK ==
    /\ site \in Installations
    /\ \A j \in Jobs : job[j] \in {"none"} \cup Open \cup Final
    /\ lease.owner \in deployed \cup {Absent} /\ lease.valid \in BOOLEAN
    /\ nextSend \in {"past", "delay"} \cup deployed
    /\ cursor \in 0..logged /\ logged \in 0..site.entries
    /\ account \subseteq Jobs /\ billed \subseteq Jobs
    /\ \A p \in Mailers : mailer[p].pc \in
           {"idle", "recover", "notify", "advance", "process", "submit", "answer", "refund", "save"}

\* No message is submitted twice, whatever process dies, stops or loses its lease at whatever
\* point (RecoverMailAttempts: "marks interrupted submissions indeterminate instead of sending
\* duplicates"; the deduplication of QueueMailJob).
SubmittedOnce == \A j \in Jobs : submitted[j] <= 1

\* Two workers never submit at the same time (AcquireMailLease "permits one serial network
\* worker"): not the lease alone but next_send_at, set beyond the deadline of an attempt,
\* keeps a successor back.  A result saved late takes that instant back.
OneSubmission ==
    ~late => \A p, q \in Mailers : mailer[p].pc = "answer" /\ mailer[q].pc = "answer" => p = q

\* What the provider charges is in the counters of the account, and within its quota: a
\* reservation is committed before the message is sent and refunded only if nothing is
\* charged, once (Reserve, Refund, complete).
QuotaCounted == ~late => billed \subseteq account /\ Cardinality(account) <= site.quota

\* A message that reached the provider is never recorded as one that did not (finish,
\* SaveMailAttempt).
RecordTrue ==
    ~late => \A j \in Jobs : submitted[j] > 0 =>
                 job[j] \notin {"none", "queued", "unsent"}

\* An audit entry the cursor has passed since mail was switched on has its job
\* (AdvanceMailAuditCursor "acknowledges durable audit notifications only after their jobs
\* exist").
NotificationsQueued ==
    \A k \in 1..cursor : job[k] # "none"

\* A job that is marked as being sent is in the hands of a worker or will be found by one that
\* has yet to recover: no mark is forgotten by the process that set it (Start, step, complete).
MarksAreFollowed ==
    \A j \in Jobs : job[j] = "sending" =>
        \E p \in deployed : \/ ~mailer[p].recovered
                            \/ mailer[p].pc \in {"submit", "answer"} /\ mailer[p].job = j
                            \/ mailer[p].pending.job = j

\* The tables, the worker that holds a job and the account it charges stay consistent through
\* deaths, lost leases and refused transactions.
MailConsistent ==
    /\ MailTypeOK /\ OneSubmission /\ QuotaCounted /\ RecordTrue
    /\ NotificationsQueued /\ MarksAreFollowed
=============================================================================
