---------------------------- MODULE DeferredJobs ----------------------------
(***************************************************************************)
(* The in-memory job registry and its queue of deferred jobs               *)
(* (app/services/jobs.py, app/state.py), driven by the launch and cancel   *)
(* routes (app/api/jobs.py), the threads that run the jobs                 *)
(* (app/analysis_jobs.py) and the maintenance loop (app/maintenance.py).   *)
(*                                                                         *)
(* DEFERRED_JOBS_LOCK guards the queue and JOBS_LOCK each access to JOBS,  *)
(* but a job's status is set after the queue's lock is given up.  A step   *)
(* is one critical section or one statement on the database; a section of  *)
(* DEFERRED_JOBS_LOCK that reads shared state twice is two steps with the  *)
(* lock held.                                                              *)
(*                                                                         *)
(* Kinds of job: "memory" lives in JOBS only (index, aggregates, ...);     *)
(* "progress" also has a row of analysis_jobs that its own thread closes   *)
(* (navidrome-sync); "analysis" has a row that the analysis queue closes,  *)
(* some time after its starter has returned or, with the local executor,   *)
(* while its thread claims tasks until there are none.                     *)
(***************************************************************************)
EXTENDS Naturals, Sequences, SequencesExt, FiniteSets

CONSTANTS
    Jobs,         \* job ids
    KindOf,       \* the kind of each
    Cancellable,  \* jobs a user may cancel
    Readers,      \* threads that serve GET /jobs
    NoJob,
    NoThread

ASSUME ConstantsAssumption ==
    /\ KindOf \in [Jobs -> {"memory", "progress", "analysis"}]
    /\ Cancellable \subseteq Jobs
    /\ NoJob \notin Jobs

VARIABLES
    mem,       \* JOBS[j].status
    dur,       \* analysis_jobs.status
    order,     \* DEFERRED_JOB_ORDER
    starters,  \* keys of DEFERRED_JOB_STARTERS
    lock,      \* who holds DEFERRED_JOBS_LOCK
    pc,        \* next step of each thread
    picked,    \* next_job_id of maybe_start_next_deferred_job
    back,      \* where a thread continues after maybe_start_next_deferred_job
    seen,      \* rows a thread read for sync_memory_jobs_from_durable_jobs
    runs       \* how often the body of a job was started

queueVars == <<order, starters>>
localVars == <<picked, back, seen>>
vars == <<mem, dur, queueVars, lock, pc, localVars, runs>>

Request(j) == <<"request", j>>    \* the launch route and its background task
Runner(j) == <<"runner", j>>      \* the thread of _run_deferred_job
Canceller(j) == <<"cancel", j>>   \* the cancel route
Maintenance == <<"maintenance", NoJob>>
Reader(r) == <<"reader", r>>

Syncers == {Maintenance} \cup {Reader(r) : r \in Readers}

Threads == {Request(j) : j \in Jobs} \cup {Runner(j) : j \in Jobs}
              \cup {Canceller(j) : j \in Cancellable} \cup Syncers

Active == {"queued", "running"}

\* Faulty: rows are created "queued".
QueuedRow == "queued"

\* The status create_analysis_job and create_progress_job insert.
NewRow == "running"

Waiting == {order[i] : i \in 1..Len(order)}

MemoryBusy == \E j \in Jobs : mem[j] \in Active
DurableBusy == \E j \in Jobs : dur[j] \in Active

-----------------------------------------------------------------------------

Init ==
    /\ mem = [j \in Jobs |-> "absent"]
    /\ dur = [j \in Jobs |-> "absent"]
    /\ order = <<>>
    /\ starters = {}
    /\ lock = NoThread
    /\ pc = [x \in Threads |->
                CASE x \in {Runner(j) : j \in Jobs} -> "none"
                  [] x \in Syncers -> "idle"
                  [] OTHER -> "new"]
    /\ picked = [x \in Threads |-> NoJob]
    /\ back = [x \in Threads |-> "done"]
    /\ seen = [x \in Syncers |-> [j \in Jobs |-> "absent"]]
    /\ runs = [j \in Jobs |-> 0]

Goto(x, label) == pc' = [pc EXCEPT ![x] = label]

\* Call maybe_start_next_deferred_job and go on at `label'.
PickThen(x, label) ==
    /\ Goto(x, "pick")
    /\ back' = [back EXCEPT ![x] = label]

Free == lock = NoThread

-----------------------------------------------------------------------------
(* create_deferred_job_if_busy and the launch without it. *)

\* Under DEFERRED_JOBS_LOCK: the part of has_active_job that looks at JOBS.
CheckMemory(j) ==
    /\ pc[Request(j)] = "new"
    /\ Free
    /\ lock' = Request(j)
    /\ Goto(Request(j), IF MemoryBusy THEN "enqueue" ELSE "checkDurable")
    /\ UNCHANGED <<mem, dur, queueVars, localVars, runs>>

\* Its part that looks at analysis_jobs; when idle the lock is released.
CheckDurable(j) ==
    /\ pc[Request(j)] = "checkDurable"
    /\ IF DurableBusy
       THEN Goto(Request(j), "enqueue") /\ UNCHANGED lock
       ELSE Goto(Request(j), "create") /\ lock' = NoThread
    /\ UNCHANGED <<mem, dur, queueVars, localVars, runs>>

\* The order once job j is deferred.
Enqueued(j) == Append(order, j)

\* create_job, still under the lock, gives the job the status "queued".
Enqueue(j) ==
    /\ pc[Request(j)] = "enqueue"
    /\ mem' = [mem EXCEPT ![j] = "queued"]
    /\ starters' = starters \cup {j}
    /\ order' = Enqueued(j)
    /\ lock' = NoThread
    /\ Goto(Request(j), "defer")
    /\ UNCHANGED <<dur, localVars, runs>>

Defer(j) ==
    /\ pc[Request(j)] = "defer"
    /\ mem' = [mem EXCEPT ![j] = "deferred"]
    /\ Goto(Request(j), "done")
    /\ UNCHANGED <<dur, queueVars, lock, localVars, runs>>

Create(j) ==
    /\ pc[Request(j)] = "create"
    /\ mem' = [mem EXCEPT ![j] = "queued"]
    /\ Goto(Request(j), "start")
    /\ UNCHANGED <<dur, queueVars, lock, localVars, runs>>

-----------------------------------------------------------------------------
(* The body of a job, in its request's background task or in its runner. *)

Body(j) == {Request(j), Runner(j)}

\* A runner still has to forget the starter it ran.
AfterBody(x) == IF x[1] = "runner" THEN "cleanup" ELSE "done"

Start(j, x) ==
    /\ pc[x] = "start"
    /\ runs' = [runs EXCEPT ![j] = @ + 1]
    /\ \/ /\ KindOf[j] = "memory"
          /\ mem' = [mem EXCEPT ![j] = "running"]
          /\ Goto(x, "finish")
          /\ UNCHANGED dur
       \/ /\ KindOf[j] = "progress"
          /\ dur' = [dur EXCEPT ![j] = NewRow]
          /\ Goto(x, "proceed")
          /\ UNCHANGED mem
       \/ /\ KindOf[j] = "analysis"
          /\ dur' = [dur EXCEPT ![j] = NewRow]
          /\ Goto(x, "announce")
          /\ UNCHANGED mem
       \/ /\ KindOf[j] = "analysis"   \* no track lacks an embedding
          /\ dur' = [dur EXCEPT ![j] = "completed"]
          /\ Goto(x, "announceEmpty")
          /\ UNCHANGED mem
    /\ UNCHANGED <<queueVars, lock, localVars>>

\* start_now tells JOBS what has become of the row, and leaves the tasks to remote
\* workers or goes on as the local executor.
Announce(j, x) ==
    \/ /\ pc[x] = "announce"
       /\ mem' = [mem EXCEPT ![j] = "running"]
       /\ Goto(x, AfterBody(x)) \/ Goto(x, "proceed")
       /\ UNCHANGED <<dur, queueVars, lock, localVars, runs>>
    \/ /\ pc[x] = "announceEmpty"
       /\ mem' = [mem EXCEPT ![j] = "completed"]
       /\ PickThen(x, AfterBody(x))
       /\ UNCHANGED <<dur, queueVars, lock, picked, seen, runs>>

\* The thread says that it runs: to the row (_navidrome_sync_job) or to JOBS
\* (_analyze_job).  A job that was cancelled meanwhile runs again.
Proceed(j, x) ==
    /\ pc[x] = "proceed"
    /\ IF KindOf[j] = "analysis"
       THEN mem' = [mem EXCEPT ![j] = "running"] /\ UNCHANGED dur
       ELSE dur' = [dur EXCEPT ![j] = "running"] /\ UNCHANGED mem
    /\ Goto(x, "finish")
    /\ UNCHANGED <<queueVars, lock, localVars, runs>>

\* finish_job, or update_progress_job with a final status, then the next job.
\* The local executor is through when there is nothing to claim and its row is
\* closed.  A job that was cancelled meanwhile is overwritten.
Finish(j, x) ==
    /\ pc[x] = "finish"
    /\ KindOf[j] = "analysis" => dur[j] \notin Active
    /\ IF KindOf[j] = "progress"
       THEN dur' = [dur EXCEPT ![j] = "completed"] /\ UNCHANGED mem
       ELSE mem' = [mem EXCEPT ![j] = "completed"] /\ UNCHANGED dur
    /\ PickThen(x, AfterBody(x))
    /\ UNCHANGED <<queueVars, lock, picked, seen, runs>>

\* The analysis queue settles the last task of a job.
DurableCloses(j) ==
    /\ KindOf[j] = "analysis" /\ dur[j] = "running"
    /\ dur' = [dur EXCEPT ![j] = "completed"]
    /\ UNCHANGED <<mem, queueVars, lock, pc, localVars, runs>>

-----------------------------------------------------------------------------
(* _run_deferred_job *)

RunnerBegins(j) ==
    /\ pc[Runner(j)] = "begin"
    /\ Free
    /\ Goto(Runner(j), IF j \in starters THEN "start" ELSE "done")
    /\ UNCHANGED <<mem, dur, queueVars, lock, localVars, runs>>

\* Faulty: only the starter is popped.
UnqueueKeepsPlace(j) == starters' = starters \ {j} /\ UNCHANGED order

\* The job leaves the queue: its starter is popped and its place, if any.
Unqueue(j) ==
    /\ starters' = starters \ {j}
    /\ order' = RemoveFirst(order, j)

RunnerCleansUp(j) ==
    /\ pc[Runner(j)] = "cleanup"
    /\ Free
    /\ Unqueue(j)
    /\ PickThen(Runner(j), "done")
    /\ UNCHANGED <<mem, dur, lock, picked, seen, runs>>

-----------------------------------------------------------------------------
(* maybe_start_next_deferred_job *)

PickMemory(x) ==
    /\ pc[x] = "pick"
    /\ Free
    /\ IF MemoryBusy
       THEN Goto(x, back[x]) /\ UNCHANGED lock
       ELSE Goto(x, "pickDurable") /\ lock' = x
    /\ UNCHANGED <<mem, dur, queueVars, localVars, runs>>

\* The i-th candidate is deferred and has a starter.
Ready(i) == order[i] \in starters /\ mem[order[i]] = "deferred"

\* The oldest candidate.
IsFirst(i) == Ready(i) /\ \A k \in 1..(i - 1) : ~Ready(k)

\* Faulty: the picked job stays in the order until it has run.
KeepPicked(i) == SubSeq(order, i, Len(order))

\* Popping the candidates up to the i-th.
PopThrough(i) == SubSeq(order, i + 1, Len(order))

\* The first candidate that is deferred and has a starter leaves the order;
\* the stale ones before it leave both.  The lock is released.
PickDurable(x) ==
    /\ pc[x] = "pickDurable"
    /\ lock' = NoThread
    /\ LET stale(n) == {order[k] : k \in 1..n}
       IN \/ /\ DurableBusy
             /\ Goto(x, back[x])
             /\ UNCHANGED <<queueVars, picked>>
          \/ /\ ~DurableBusy
             /\ \A i \in 1..Len(order) : ~Ready(i)
             /\ starters' = starters \ stale(Len(order))
             /\ order' = <<>>
             /\ Goto(x, back[x])
             /\ UNCHANGED picked
          \/ /\ ~DurableBusy
             /\ \E i \in 1..Len(order) :
                  /\ IsFirst(i)
                  /\ starters' = starters \ stale(i - 1)
                  /\ order' = PopThrough(i)
                  /\ picked' = [picked EXCEPT ![x] = order[i]]
             /\ Goto(x, "mark")
    /\ UNCHANGED <<mem, dur, back, seen, runs>>

\* update_job(status="queued") and Thread(...).start(), without the lock.
Mark(x) ==
    /\ pc[x] = "mark"
    /\ mem' = [mem EXCEPT ![picked[x]] = "queued"]
    /\ pc' = [pc EXCEPT ![x] = back[x], ![Runner(picked[x])] = "begin"]
    /\ picked' = [picked EXCEPT ![x] = NoJob]
    /\ UNCHANGED <<dur, queueVars, lock, back, seen, runs>>

-----------------------------------------------------------------------------
(* cancel_job *)

\* store.cancel_analysis_job, for a job the user can see.
CancelDurable(j) ==
    /\ pc[Canceller(j)] = "new"
    /\ mem[j] # "absent"
    /\ dur' = [dur EXCEPT ![j] = IF @ = "absent" THEN @ ELSE "cancelled"]
    /\ Goto(Canceller(j), "cancelMemory")
    /\ UNCHANGED <<mem, queueVars, lock, localVars, runs>>

CancelMemory(j) ==
    /\ pc[Canceller(j)] = "cancelMemory"
    /\ mem' = [mem EXCEPT ![j] = "cancelled"]
    /\ Goto(Canceller(j), IF mem[j] = "deferred" THEN "unqueue" ELSE "done")
    /\ UNCHANGED <<dur, queueVars, lock, localVars, runs>>

CancelUnqueue(j) ==
    /\ pc[Canceller(j)] = "unqueue"
    /\ Free
    /\ Unqueue(j)
    /\ PickThen(Canceller(j), "done")
    /\ UNCHANGED <<mem, dur, lock, picked, seen, runs>>

-----------------------------------------------------------------------------
(* sync_memory_jobs_from_durable_jobs, in the maintenance tick, which then      *)
(* picks a job, and in GET /jobs, which does not.                               *)

ReadRows(x) ==
    /\ pc[x] = "idle"
    /\ seen' = [seen EXCEPT ![x] = dur]
    /\ Goto(x, "sync")
    /\ UNCHANGED <<mem, dur, queueVars, lock, picked, back, runs>>

\* Faulty: the maintenance tick does not pick either.
NeverPicks == {}

\* The thread that picks a job after it has synchronised.
Picks == {Maintenance}

\* Faulty: rows that are closed are skipped.
OpenRows(row) == {j \in Jobs : mem[j] # "absent" /\ row[j] \in Active}

\* The jobs of JOBS that have a row.
Matched(row) == {j \in Jobs : mem[j] # "absent" /\ row[j] # "absent"}

Sync(x) ==
    /\ pc[x] = "sync"
    /\ mem' = [j \in Jobs |-> IF j \in Matched(seen[x]) THEN seen[x][j] ELSE mem[j]]
    /\ seen' = [seen EXCEPT ![x] = [j \in Jobs |-> "absent"]]
    /\ IF x \in Picks
       THEN PickThen(x, "idle")
       ELSE Goto(x, "idle") /\ UNCHANGED back
    /\ UNCHANGED <<dur, queueVars, lock, picked, runs>>

-----------------------------------------------------------------------------

Pick(x) == PickMemory(x) \/ PickDurable(x) \/ Mark(x)

Perform(j, x) ==
    Start(j, x) \/ Announce(j, x) \/ Proceed(j, x) \/ Finish(j, x) \/ Pick(x)

Serve(j) ==
    \/ CheckDurable(j) \/ Enqueue(j) \/ Defer(j) \/ Create(j)
    \/ Perform(j, Request(j))

Run(j) == RunnerBegins(j) \/ RunnerCleansUp(j) \/ Perform(j, Runner(j))

Cancel(j) == CancelMemory(j) \/ CancelUnqueue(j) \/ Pick(Canceller(j))

Poll(x) == ReadRows(x) \/ Sync(x) \/ Pick(x)

Next ==
    \/ \E j \in Jobs : CheckMemory(j) \/ Serve(j) \/ Run(j) \/ DurableCloses(j)
    \/ \E j \in Cancellable : CancelDurable(j) \/ Cancel(j)
    \/ \E x \in Syncers : Poll(x)

Spec == Init /\ [][Next]_vars

\* The thread that serves, runs or cancels a job.
Attend(j) == Serve(j) \/ Run(j) \/ (j \in Cancellable /\ Cancel(j))

\* Threads that run go on running; a thread that waits for DEFERRED_JOBS_LOCK
\* gets it in the end (strong fairness), for it is held for a few statements
\* only and the ticks that take it come 15 seconds apart.  One condition for all
\* threads of jobs says as much as one for each: each is through after a few steps,
\* so that none of them can starve another.  For the same reason the tick needs no
\* more than weak fairness.  The analysis queue closes every job
\* (AnalysisQueue!JobsCloseForGood).  Nobody has to launch or to cancel a job.
Fairness ==
    /\ SF_vars(\E j \in Jobs : Attend(j))
    /\ \A j \in Jobs : KindOf[j] = "analysis" => WF_vars(DurableCloses(j))
    /\ WF_vars(Poll(Maintenance))

FairSpec == Spec /\ Fairness

-----------------------------------------------------------------------------

Statuses == {"absent", "queued", "running", "completed", "cancelled"}

Labels ==
    {"new", "checkDurable", "enqueue", "defer", "create", "start", "announce",
     "announceEmpty", "proceed", "finish", "none", "begin", "cleanup", "pick", "pickDurable",
     "mark", "cancelMemory", "unqueue", "idle", "sync", "done"}

TypeOK ==
    /\ mem \in [Jobs -> Statuses \cup {"deferred"}]
    /\ dur \in [Jobs -> Statuses \ {"queued"}]
    /\ order \in Seq(Jobs)
    /\ starters \subseteq Jobs
    /\ lock \in Threads \cup {NoThread}
    /\ pc \in [Threads -> Labels]
    /\ picked \in [Threads -> Jobs \cup {NoJob}]
    /\ back \in [Threads -> {"done", "cleanup", "idle"}]
    /\ seen \in [Syncers -> [Jobs -> Statuses]]
    /\ runs \in [Jobs -> Nat]

\* A place in the order is backed by a starter and taken once: the two
\* structures agree between critical sections, whoever picks or cancels.
OrderHasStarters ==
    lock = NoThread => Waiting \subseteq starters /\ IsInjective(order)

\* No job is started twice: neither by two pickers nor by its request and a
\* picker.
RunsOnce == \A j \in Jobs : runs[j] <= 1

\* Jobs are picked in the order they were deferred in.
PickedInOrder ==
    [][\A x \in Threads : picked'[x] # picked[x] /\ picked'[x] # NoJob =>
          \A i \in 1..Len(order) :
              \/ mem[order[i]] # "deferred"
              \/ \E k \in 1..i : order[k] = picked'[x]]_vars

\* Until a user cancels one: a job that was launched is run, although the wake-up
\* at the end of the previous job may find the new one not yet deferred.  A job
\* stays launched and a body stays run: again and again there is a moment at which
\* no launched job still has to be run.
LaunchedJobsRun ==
    []<>( \/ \E j \in Cancellable : pc[Canceller(j)] # "new"
          \/ \A j \in Jobs : mem[j] # "absent" => runs[j] > 0 )

\* A job that was started is closed in the end, in JOBS and in its row, and stays so,
\* although its thread overwrites a cancel and rows read earlier overwrite JOBS.
StartedJobsClose ==
    <>[](\A j \in Jobs : runs[j] > 0 => mem[j] \notin Active /\ dur[j] \notin Active)

\* A deferred job waits for the jobs before it, and those that users cancel do
\* not keep it waiting.
DeferredJobsMoveOn ==
    \A j \in Jobs \ Cancellable : mem[j] = "deferred" ~> mem[j] # "deferred"

=============================================================================
