--------------------------- MODULE AnalysisQueue ---------------------------
(***************************************************************************)
(* The durable analysis queue of the backend: the tables analysis_jobs and *)
(* analysis_tasks (app/store/jobs.py), the worker API that drives them     *)
(* (app/api/workers.py), the local executor (app/analysis_jobs.py) and the *)
(* maintenance loop (app/maintenance.py).                                  *)
(*                                                                         *)
(* Every request runs in a thread of its own on its own SQLite connection. *)
(* A connection opened with isolation_level="IMMEDIATE" runs SELECTs in    *)
(* autocommit and opens its transaction at the first INSERT/UPDATE, so a   *)
(* handler that reads and then writes is several atomic steps here, and a  *)
(* step is one transaction (or one autocommit SELECT).                     *)
(*                                                                         *)
(* Time is abstracted to the set `lapsed' of leases whose                  *)
(* lease_expires_at has passed.  Worker statistics (analysis_workers),     *)
(* messages and timestamps are left out: nothing in the queue reads them.  *)
(***************************************************************************)
EXTENDS Naturals, FiniteSets

CONSTANTS
    Jobs,          \* rows of analysis_jobs of an "analyze*" kind
    Tasks,         \* rows of analysis_tasks
    JobOf,         \* the job a task belongs to
    Workers,       \* worker ids that can hold a lease
    LocalWorkers,  \* those of the local executor ("local-<job id>")
    Handlers,      \* threads that run API requests and the local executor
    Maintenance,   \* the thread of the maintenance loop
    NoOwner,       \* lease_owner IS NULL
    MaxAttempts,   \* analysis_jobs.max_attempts
    MaxClaims,     \* bound: leases lapse or are released only below it
    MaxAborts      \* bound: requests that die between two statements

ASSUME ConstantsAssumption ==
    /\ Tasks # {}
    /\ JobOf \in [Tasks -> Jobs]
    /\ LocalWorkers \subseteq Workers
    /\ NoOwner \notin Workers
    /\ Maintenance \notin Handlers
    /\ MaxAttempts \in Nat \ {0}
    /\ MaxClaims \in Nat
    /\ MaxAborts \in Nat

VARIABLES
    job,        \* analysis_jobs.status
    status,     \* analysis_tasks.status
    owner,      \* analysis_tasks.lease_owner
    attempts,   \* analysis_tasks.attempts
    voided,     \* tasks with stage = 'cancelled'
    lapsed,     \* leased tasks with lease_expires_at < now
    saved,      \* tasks whose result is in the database
    changed,    \* tasks whose track no longer has the task's size and mtime
    pc,         \* next statement of each thread
    call,       \* arguments of the request a thread serves
    verdict,    \* fail_analysis_task: the status it computed from its read
    todo,       \* jobs a thread still has to refresh
    after,      \* where a thread continues once todo is empty
    current,    \* refresh_analysis_job: the job it works on
    settled,    \* refresh_analysis_job: its counts said done + failed >= total
    aborts      \* requests that died so far

queueVars == <<job, status, owner, attempts, voided, lapsed, saved>>
threadVars == <<pc, call, verdict, todo, after, current, settled>>
vars == <<queueVars, changed, threadVars, aborts>>

Threads == Handlers \cup {Maintenance}

TasksOf(j) == {t \in Tasks : JobOf[t] = j}

\* The statuses no handler is meant to leave again.
Terminal == {"completed", "final_failed"}

AllSettled(j) == \A t \in TasksOf(j) : status[t] \in Terminal

JobsOf(S) == {JobOf[t] : t \in S}

Remote(w) == w \notin LocalWorkers

Leased(w) == {t \in Tasks : status[t] = "leased" /\ owner[t] = w}

Calls ==
    [worker : Workers \cup {NoOwner}, task : Tasks, retryable : BOOLEAN]

NoCall ==
    [worker |-> NoOwner, task |-> CHOOSE t \in Tasks : TRUE, retryable |-> FALSE]

NoJob == CHOOSE j \in Jobs : TRUE

Labels ==
    {"idle", "refresh", "count", "write", "claim", "validate", "save",
     "complete", "failRead", "failWrite", "audio", "release", "poll", "active"}

\* Where a thread goes on after refreshing jobs.
Resumptions == {"idle", "claim", "release", "validate", "failRead", "active"}

-----------------------------------------------------------------------------

Init ==
    /\ job = [j \in Jobs |-> "absent"]
    /\ status = [t \in Tasks |-> "absent"]
    /\ owner = [t \in Tasks |-> NoOwner]
    /\ attempts = [t \in Tasks |-> 0]
    /\ voided = {}
    /\ lapsed = {}
    /\ saved = {}
    /\ changed = {}
    /\ pc = [p \in Threads |-> "idle"]
    /\ call = [p \in Threads |-> NoCall]
    /\ verdict = [p \in Threads |-> "queued"]
    /\ todo = [p \in Threads |-> {}]
    /\ after = [p \in Threads |-> "idle"]
    /\ current = [p \in Threads |-> NoJob]
    /\ settled = [p \in Threads |-> FALSE]
    /\ aborts = 0

-----------------------------------------------------------------------------
(* Control of a thread. *)

Goto(p, label) == pc' = [pc EXCEPT ![p] = label]

\* Run refresh_analysis_job for every job of S, then continue at `label'.
RefreshThen(p, S, label) ==
    /\ Goto(p, IF S = {} THEN label ELSE "refresh")
    /\ todo' = [todo EXCEPT ![p] = S]
    /\ after' = [after EXCEPT ![p] = IF S = {} THEN "idle" ELSE label]

\* A thread starts serving a request about task t.
Request(p, w, t, retryable) ==
    /\ pc[p] = "idle"
    /\ call' = [call EXCEPT ![p] =
           [worker |-> w, task |-> t, retryable |-> retryable]]

\* The thread has no more use for its arguments.
Drop(p) == call' = [call EXCEPT ![p] = NoCall]

-----------------------------------------------------------------------------
(* Functions of the store that handlers share. *)

\* expire_analysis_leases, first half: the SELECT of the jobs concerned and
\* the UPDATE of the rows.  `now' is read once before both, so between them
\* the set of rows can only shrink, which at most refreshes a job more.
ExpireRows ==
    /\ status' = [t \in Tasks |-> IF t \in lapsed THEN "queued" ELSE status[t]]
    /\ owner' = [t \in Tasks |-> IF t \in lapsed THEN NoOwner ELSE owner[t]]
    /\ lapsed' = {}
    /\ UNCHANGED <<job, attempts, voided, saved>>

\* expire_analysis_leases as the first call of a handler that goes on at `label'.
ExpireThen(p, extra, label) ==
    /\ ExpireRows
    /\ RefreshThen(p, JobsOf(lapsed) \cup extra, label)

\* The rows of S get a status that is not a lease.
Settle(S, value) ==
    /\ status' = [t \in Tasks |-> IF t \in S THEN value ELSE status[t]]
    /\ owner' = [t \in Tasks |-> IF t \in S THEN NoOwner ELSE owner[t]]
    /\ lapsed' = lapsed \ S

\* refresh_analysis_job, first SELECT: only queued and running jobs go on.
RefreshRead(p) ==
    /\ pc[p] = "refresh"
    /\ \E j \in todo[p] :
         IF job[j] = "running"
         THEN /\ Goto(p, "count")
              /\ current' = [current EXCEPT ![p] = j]
              /\ todo' = [todo EXCEPT ![p] = @ \ {j}]
              /\ UNCHANGED after
         ELSE /\ RefreshThen(p, todo[p] \ {j}, after[p])
              /\ UNCHANGED current
    /\ UNCHANGED <<queueVars, changed, call, verdict, settled, aborts>>

\* Faulty: tasks that are being worked on are not counted as open.
RefreshCountIgnoresLeases(p) ==
    /\ pc[p] = "count"
    /\ Goto(p, "write")
    /\ settled' = [settled EXCEPT ![p] =
           \A t \in TasksOf(current[p]) : status[t] # "queued"]
    /\ UNCHANGED <<queueVars, changed, call, verdict, todo, after, current, aborts>>

\* refresh_analysis_job, second SELECT: the counts.
RefreshCount(p) ==
    /\ pc[p] = "count"
    /\ Goto(p, "write")
    /\ settled' = [settled EXCEPT ![p] = AllSettled(current[p])]
    /\ UNCHANGED <<queueVars, changed, call, verdict, todo, after, current, aborts>>

\* refresh_analysis_job, the UPDATE: it has no condition on the job's status.
RefreshWrite(p) ==
    /\ pc[p] = "write"
    /\ job' = [job EXCEPT ![current[p]] =
           IF settled[p] THEN "completed" ELSE "running"]
    /\ RefreshThen(p, todo[p], after[p])
    /\ current' = [current EXCEPT ![p] = NoJob]
    /\ settled' = [settled EXCEPT ![p] = FALSE]
    /\ UNCHANGED <<status, owner, attempts, voided, lapsed, saved, changed, call,
                   verdict, aborts>>

\* Faulty: a status of its own for tasks to be retried, which no claim knows.
VerdictRetryable(retryable, tried) ==
    IF retryable /\ tried < MaxAttempts THEN "failed_retryable" ELSE "final_failed"

\* Faulty: the attempt that failed is counted twice.
VerdictOffByOne(retryable, tried) ==
    IF retryable /\ tried + 1 < MaxAttempts THEN "queued" ELSE "final_failed"

\* The status a failed task gets: another attempt while some are left.
Verdict(retryable, tried) ==
    IF retryable /\ tried < MaxAttempts THEN "queued" ELSE "final_failed"

\* fail_analysis_task, the SELECT and the status computed from it.
FailRead(p) ==
    /\ pc[p] = "failRead"
    /\ LET t == call[p].task
       IN IF status[t] = "final_failed" /\ t \in voided
          THEN Goto(p, "idle") /\ Drop(p) /\ UNCHANGED verdict
          ELSE /\ Goto(p, "failWrite")
               /\ UNCHANGED call
               /\ verdict' = [verdict EXCEPT ![p] =
                      Verdict(call[p].retryable, attempts[t])]
    /\ UNCHANGED <<queueVars, changed, todo, after, current, settled, aborts>>

\* fail_analysis_task, the UPDATE.  Without a worker id it has no owner clause.
FailWrite(p) ==
    /\ pc[p] = "failWrite"
    /\ LET t == call[p].task
       IN /\ IF call[p].worker \in {NoOwner, owner[t]}
             THEN Settle({t}, verdict[p]) /\ voided' = voided \ {t}
             ELSE UNCHANGED <<status, owner, lapsed, voided>>
          /\ RefreshThen(p, {JobOf[t]}, "idle")
    /\ Drop(p)
    /\ verdict' = [verdict EXCEPT ![p] = "queued"]
    /\ UNCHANGED <<job, attempts, saved, changed, current, settled, aborts>>

-----------------------------------------------------------------------------
(* Creating, cancelling and reading jobs. *)

\* create_analysis_job is one transaction; _analyze_job and the API then read
\* the job back with get_analysis_job.
CreateJob(p, j) ==
    /\ pc[p] = "idle"
    /\ job[j] = "absent"
    /\ job' = [job EXCEPT ![j] = IF TasksOf(j) = {} THEN "completed" ELSE "running"]
    /\ status' = [t \in Tasks |-> IF JobOf[t] = j THEN "queued" ELSE status[t]]
    /\ Goto(p, "poll")
    /\ after' = [after EXCEPT ![p] = "idle"]
    /\ todo' = [todo EXCEPT ![p] = {j}]
    /\ UNCHANGED <<owner, attempts, voided, lapsed, saved, changed, call, verdict,
                   current, settled, aborts>>

\* get_analysis_job after something else of the same thread: the leases are
\* expired, then the jobs the thread holds in todo are refreshed with theirs.
Poll(p) ==
    /\ pc[p] = "poll"
    /\ ExpireThen(p, todo[p], "idle")
    /\ UNCHANGED <<changed, call, verdict, current, settled, aborts>>

\* GET of one job (S = {j}), or the expiry alone (register, S = {}).
PollCall(p, S) ==
    /\ pc[p] = "idle"
    /\ ExpireThen(p, S, "idle")
    /\ UNCHANGED <<changed, call, verdict, current, settled, aborts>>

\* cancel_analysis_job: one transaction, whatever the job's status is.
Cancel(p, j) ==
    /\ pc[p] = "idle"
    /\ job[j] # "absent"
    /\ LET open == {t \in TasksOf(j) : status[t] \in {"queued", "leased"}}
       IN Settle(open, "final_failed") /\ voided' = voided \cup open
    /\ job' = [job EXCEPT ![j] = "cancelled"]
    /\ UNCHANGED <<attempts, saved, changed, threadVars, aborts>>

-----------------------------------------------------------------------------
(* Claiming and releasing tasks. *)

\* claim_analysis_tasks.  POST /workers/claim expires leases once more before it
\* (like POST /workers/register): that is a PollCall with S = {}.
ClaimCall(p, w) ==
    /\ Request(p, w, NoCall.task, FALSE)
    /\ ExpireThen(p, {}, "claim")
    /\ UNCHANGED <<changed, verdict, current, settled, aborts>>

\* The rest of it selects and updates in one BEGIN IMMEDIATE transaction.
\* The limit and the creation order leave any set of claimable rows possible,
\* but the empty one only when there is none.  `attempts' is not looked at.
ClaimTake(p) ==
    /\ pc[p] = "claim"
    /\ LET w == call[p].worker
           claimable == {t \in Tasks : status[t] = "queued" /\ job[JobOf[t]] = "running"}
       IN \E S \in SUBSET claimable :
            /\ (S = {}) <=> (claimable = {})
            /\ status' = [t \in Tasks |-> IF t \in S THEN "leased" ELSE status[t]]
            /\ owner' = [t \in Tasks |-> IF t \in S THEN w ELSE owner[t]]
            /\ attempts' = [t \in Tasks |-> attempts[t] + (IF t \in S THEN 1 ELSE 0)]
    /\ Goto(p, "idle")
    /\ Drop(p)
    /\ UNCHANGED <<job, voided, lapsed, saved, changed, verdict, todo, after,
                   current, settled, aborts>>

\* The deadline of a lease passes.
LeaseLapses(t) ==
    /\ status[t] = "leased" /\ t \notin lapsed
    /\ attempts[t] < MaxClaims
    /\ lapsed' = lapsed \cup {t}
    /\ UNCHANGED <<job, status, owner, attempts, voided, saved, changed, threadVars,
                   aborts>>

\* POST /workers/release
ReleaseCall(p, w) ==
    /\ Remote(w)
    /\ Request(p, w, NoCall.task, FALSE)
    /\ ExpireThen(p, {}, "release")
    /\ UNCHANGED <<changed, verdict, current, settled, aborts>>

\* release_analysis_tasks with a list of task ids, or with none for all of them.
\* Its SELECT only decides which jobs are refreshed.
Release(p) ==
    /\ pc[p] = "release"
    /\ \E S \in SUBSET Leased(call[p].worker) :
         /\ \A t \in S : attempts[t] < MaxClaims
         /\ Settle(S, "queued")
         /\ RefreshThen(p, JobsOf(S), "idle")
    /\ Drop(p)
    /\ UNCHANGED <<job, attempts, voided, saved, changed, verdict, current, settled,
                   aborts>>

-----------------------------------------------------------------------------
(* Results and failures.  Only claims reveal task ids; a report may be late,   *)
(* repeated or of a worker whose lease has passed to another.                  *)

Given(t) == attempts[t] > 0

\* POST /workers/results with one item
SubmitCall(p, w, t) ==
    /\ Remote(w) /\ Given(t)
    /\ Request(p, w, t, FALSE)
    /\ ExpireThen(p, {}, "validate")
    /\ UNCHANGED <<changed, verdict, current, settled, aborts>>

\* Faulty: the task is closed before its result is saved.
AcceptedUnsaved == "complete"

\* What accept_embedding, accept_features and accept_heads do first.
Accepted == "save"

\* validate_worker_task_identity; what it raises goes to reject_task.
Validate(p) ==
    /\ pc[p] = "validate"
    /\ LET t == call[p].task
       IN Goto(p, IF t \in Leased(call[p].worker) /\ t \notin changed
                  THEN Accepted ELSE "failRead")
    /\ UNCHANGED <<queueVars, changed, call, verdict, todo, after, current, settled,
                   aborts>>

\* save_embedding / save_features / save_model_output, before the task is closed
Save(p) ==
    /\ pc[p] = "save"
    /\ saved' = saved \cup {call[p].task}
    /\ Goto(p, "complete")
    /\ UNCHANGED <<job, status, owner, attempts, voided, lapsed, changed, call,
                   verdict, todo, after, current, settled, aborts>>

\* Saving raises, possibly after a part of the result was written.
SaveFails(p) ==
    /\ pc[p] = "save"
    /\ Goto(p, "failRead")
    /\ UNCHANGED <<queueVars, changed, call, verdict, todo, after, current, settled,
                   aborts>>

\* Faulty: the UPDATE of complete_analysis_task has no owner clause.
MayCompleteAny(t, w) == TRUE

\* The WHERE clause of complete_analysis_task: it asks for the lease owner only.
MayComplete(t, w) == owner[t] = w

\* complete_analysis_task and the refresh after it; the caller never looks at
\* how many rows the UPDATE changed.
Complete(p) ==
    /\ pc[p] = "complete"
    /\ LET t == call[p].task
       IN /\ IF MayComplete(t, call[p].worker)
             THEN Settle({t}, "completed") /\ voided' = voided \ {t}
             ELSE UNCHANGED <<status, owner, lapsed, voided>>
          /\ RefreshThen(p, {JobOf[t]}, "idle")
    /\ Drop(p)
    /\ UNCHANGED <<job, attempts, saved, changed, verdict, current, settled, aborts>>

\* POST /workers/failures with one item
FailCall(p, w, t, retryable) ==
    /\ Remote(w) /\ Given(t)
    /\ Request(p, w, t, retryable)
    /\ ExpireThen(p, {}, "failRead")
    /\ UNCHANGED <<changed, verdict, current, settled, aborts>>

\* The local executor reports a task it analysed itself: no expiry and no
\* validation come first.  The get_analysis_job it calls next is a PollCall.
LocalReport(p, w, t, retryable, label) ==
    /\ w \in LocalWorkers
    /\ Given(t)
    /\ Request(p, w, t, retryable)
    /\ Goto(p, label)
    /\ UNCHANGED <<queueVars, changed, verdict, todo, after, current, settled, aborts>>

LocalDone(p, w, t) == LocalReport(p, w, t, FALSE, "save")

LocalFail(p, w, t, retryable) == LocalReport(p, w, t, retryable, "failRead")

\* GET /workers/tasks/<t>/audio has no worker id; the row it reads tells the
\* handler who holds the lease.
AudioCall(p, t) ==
    /\ status[t] = "leased"
    /\ Request(p, owner[t], t, TRUE)
    /\ Goto(p, "audio")
    /\ UNCHANGED <<queueVars, changed, verdict, todo, after, current, settled, aborts>>

\* The rest of that handler: 409 when the job is not running; a track that is
\* gone or changed, or a file that is, fails the task for good and without an
\* owner clause; a failed download is a retryable failure of the lease owner
\* read first; otherwise the file is served.
Audio(p) ==
    /\ pc[p] = "audio"
    /\ LET t == call[p].task
       IN \/ /\ job[JobOf[t]] # "running" \/ t \notin changed
             /\ Goto(p, "idle")
             /\ Drop(p)
          \/ /\ job[JobOf[t]] = "running"
             /\ Goto(p, "failRead")
             /\ call' = [call EXCEPT ![p].worker = NoOwner, ![p].retryable = FALSE]
          \/ /\ job[JobOf[t]] = "running" /\ t \notin changed
             /\ Goto(p, "failRead")
             /\ UNCHANGED call
    /\ UNCHANGED <<queueVars, changed, verdict, todo, after, current, settled, aborts>>

-----------------------------------------------------------------------------
(* The maintenance loop and the environment. *)

\* run_maintenance_tick: expire_analysis_leases, then refresh_active_analysis_jobs.
Tick ==
    /\ pc[Maintenance] = "idle"
    /\ ExpireThen(Maintenance, {}, "active")
    /\ UNCHANGED <<changed, call, verdict, current, settled, aborts>>

\* Faulty: no job is taken for active.
NothingActive == {}

\* The jobs refresh_active_analysis_jobs selects.
ActiveJobs == {j \in Jobs : job[j] = "running"}

RefreshActive ==
    /\ pc[Maintenance] = "active"
    /\ RefreshThen(Maintenance, ActiveJobs, "idle")
    /\ UNCHANGED <<queueVars, changed, call, verdict, current, settled, aborts>>

\* A scan finds another size or mtime for the task's file, or no file.
TrackChanges(t) ==
    /\ t \notin changed
    /\ changed' = changed \cup {t}
    /\ UNCHANGED <<queueVars, threadVars, aborts>>

\* A request dies between two statements: the process is killed, or SQLite
\* stays locked longer than sqlite_retry tries.
Abort(p) ==
    /\ pc[p] # "idle"
    /\ aborts < MaxAborts
    /\ aborts' = aborts + 1
    /\ Goto(p, "idle")
    /\ Drop(p)
    /\ verdict' = [verdict EXCEPT ![p] = "queued"]
    /\ todo' = [todo EXCEPT ![p] = {}]
    /\ after' = [after EXCEPT ![p] = "idle"]
    /\ current' = [current EXCEPT ![p] = NoJob]
    /\ settled' = [settled EXCEPT ![p] = FALSE]
    /\ UNCHANGED <<queueVars, changed>>

-----------------------------------------------------------------------------

\* The statements a thread runs once it serves a request.
Continue(p) ==
    \/ RefreshRead(p) \/ RefreshCount(p) \/ RefreshWrite(p)
    \/ Poll(p) \/ ClaimTake(p) \/ Release(p)
    \/ Validate(p) \/ Save(p) \/ SaveFails(p) \/ Complete(p)
    \/ FailRead(p) \/ FailWrite(p) \/ Audio(p)

\* A worker tells the queue what became of task t.
Report(p, w, t) ==
    \/ SubmitCall(p, w, t) \/ LocalDone(p, w, t)
    \/ \E retryable \in BOOLEAN :
         FailCall(p, w, t, retryable) \/ LocalFail(p, w, t, retryable)

Start(p) ==
    \/ \E j \in Jobs : CreateJob(p, j) \/ Cancel(p, j) \/ PollCall(p, {j})
    \/ PollCall(p, {})
    \/ \E w \in Workers : ClaimCall(p, w) \/ ReleaseCall(p, w)
    \/ \E w \in Workers, t \in Tasks : Report(p, w, t)
    \/ \E t \in Tasks : AudioCall(p, t)

Next ==
    \/ \E p \in Handlers : Start(p)
    \/ \E p \in Threads : Continue(p) \/ Abort(p)
    \/ Tick \/ RefreshActive
    \/ \E t \in Tasks : LeaseLapses(t) \/ TrackChanges(t)

Spec == Init /\ [][Next]_vars

\* A thread that serves a request runs on; the maintenance loop ticks every 15
\* seconds.  Workers poll in a loop: some remote worker keeps asking for tasks,
\* and the owner of a lease that no longer lapses (MaxClaims) reports in the
\* end.  Requests compete for the threads, hence strong fairness.
Fairness ==
    /\ \A p \in Threads : WF_vars(Continue(p))
    /\ WF_vars(Tick) /\ WF_vars(RefreshActive)
    /\ SF_vars(\E p \in Handlers, w \in Workers : Remote(w) /\ ClaimCall(p, w))
    /\ \A t \in Tasks :
         SF_vars(\E p \in Handlers, w \in Workers :
                   owner[t] = w /\ Report(p, w, t))

FairSpec == Spec /\ Fairness

-----------------------------------------------------------------------------

TypeOK ==
    /\ job \in [Jobs -> {"absent", "running", "completed", "cancelled"}]
    /\ status \in [Tasks -> {"absent", "queued", "leased"} \cup Terminal]
    /\ owner \in [Tasks -> Workers \cup {NoOwner}]
    /\ attempts \in [Tasks -> Nat]
    /\ voided \subseteq Tasks
    /\ lapsed \subseteq Tasks
    /\ saved \subseteq Tasks
    /\ changed \subseteq Tasks
    /\ pc \in [Threads -> Labels]
    /\ call \in [Threads -> Calls]
    /\ verdict \in [Threads -> {"queued", "final_failed"}]
    /\ todo \in [Threads -> SUBSET Jobs]
    /\ after \in [Threads -> Resumptions]
    /\ current \in [Threads -> Jobs]
    /\ settled \in [Threads -> BOOLEAN]
    /\ aborts \in Nat

\* A task is held by a worker exactly while its row says leased: the UPDATEs of
\* complete_analysis_task and fail_analysis_task look at the owner only, and
\* rely on every other path that ends a lease to have cleared it.
LeaseHasOwner == \A t \in Tasks : status[t] = "leased" <=> owner[t] # NoOwner

\* A completed task has its result in the database, whichever lease it was
\* completed under and whatever died in between.
ResultBeforeCompletion == \A t \in Tasks : status[t] = "completed" => t \in saved

\* A job is never closed over a task that is still to be done: the refresh
\* decides from counts read before it writes, while other threads claim,
\* expire and release tasks of the same job.
ClosedJobsAreSettled ==
    \A j \in Jobs : job[j] \in {"completed", "cancelled"} => AllSettled(j)

\* A settled task is never given out again, by no interleaving of late reports,
\* expiries, releases and cancellations.  Only an audio request that read the
\* lease before it ended still turns a completed task into a failed one.
KeepsSettled ==
    \A t \in Tasks :
        /\ status[t] = "final_failed" => status'[t] = "final_failed"
        /\ status[t] = "completed" =>
             \/ status'[t] = "completed"
             \/ /\ status'[t] = "final_failed"
                /\ \E p \in Threads : pc[p] = "failWrite" /\ call[p] =
                     [worker |-> NoOwner, task |-> t, retryable |-> FALSE]

SettledIsForever == [][KeepsSettled]_vars

\* Every job ends and stays ended, whatever requests were lost and although a
\* refresh that read its counts too early may put it back to running.
JobsCloseForGood == \A j \in Jobs : <>[](job[j] # "running")

\* A retryable failure ends a task only after MaxAttempts claims, however old
\* the row is that fail_analysis_task decided from.
RetriesAreNotCutShort ==
    \A p \in Threads :
        pc[p] = "failWrite" /\ call[p].retryable /\ verdict[p] = "final_failed"
            => attempts[call[p].task] >= MaxAttempts

-----------------------------------------------------------------------------
(* The queue implements TaskLifecycle. *)

Phase ==
    [j \in Jobs |->
        CASE job[j] = "absent" -> "absent"
          [] job[j] = "running" -> "open"
          [] OTHER -> "closed"]

Stage ==
    [t \in Tasks |->
        CASE status[t] = "absent" -> "absent"
          [] status[t] = "queued" -> "waiting"
          [] status[t] = "leased" -> "held"
          [] status[t] = "completed" -> "done"
          [] OTHER -> "refused"]

Lifecycle ==
    INSTANCE TaskLifecycle WITH phase <- Phase, stage <- Stage, results <- saved

\* Every step of the threads is a step of the abstract lifecycle or none.
ImplementsLifecycle == Lifecycle!Spec

=============================================================================
