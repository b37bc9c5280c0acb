---------------------------- MODULE WorkerClient ----------------------------
(***************************************************************************)
(* One run after another of the analysis worker (WorkerRuntime in          *)
(* app/cli.py) against the queue of the backend.  The queue is reduced to  *)
(* what the worker's requests do to a row of analysis_tasks, one request a *)
(* step: AnalysisQueue models its threads.                                 *)
(*                                                                         *)
(* The main thread runs _run_loop: it claims, takes the futures of the     *)
(* download and CPU pools that are done, runs the buffered model batches   *)
(* and submits.  A task can be claimed a second time while the first claim *)
(* is still in the pipeline, so what is in flight are copies: a task with  *)
(* the number of its claim.                                                *)
(*                                                                         *)
(* The payloads, the metrics and the temporary files are left out: a file  *)
(* that an earlier copy has deleted is one more reason for a step to fail. *)
(***************************************************************************)
EXTENDS Naturals, FiniteSets

CONSTANTS
    Tasks,         \* rows of analysis_tasks
    MaxAttempts,   \* analysis_jobs.max_attempts
    ClaimBatch,    \* --claim-batch-size
    MaxInflight,   \* --max-inflight-tasks
    SubmitBatch,   \* --submit-batch-size
    HeadBatch,     \* target_tasks of process_ready_head_batches
    Options,       \* how the worker is started, what the tasks are, and for how long
    MaxClaims,     \* bound: leases in hand lapse only below it
    MaxCopies      \* bound: claims of a task, those after a lapse or a release included

\* What a task's model makes of it: the branch of the pipeline it takes.
Kinds == {"features", "heads", "embedding", "direct"}

ASSUME ConstantsAssumption ==
    /\ Options \subseteq [kind : [Tasks -> Kinds],
                          once : BOOLEAN,       \* --once
                          limit : Nat,          \* --max-tasks-before-exit, 0 for none
                          faults : Nat,         \* bound: lost requests, interrupts, kills
                          runs : Nat \ {0}]     \* bound: runs (restart: unless-stopped)
    /\ {MaxAttempts, ClaimBatch, MaxInflight, SubmitBatch, HeadBatch, MaxClaims, MaxCopies}
           \subseteq Nat \ {0}
    /\ MaxAttempts <= MaxClaims /\ MaxClaims <= MaxCopies
    /\ IsFiniteSet(Tasks)

VARIABLES
    option,     \* the one of Options the worker runs with
    stage,      \* of a task on the server; "leased" is by this worker
    attempts,   \* analysis_tasks.attempts
    pc,         \* where the main thread is
    draining,   \* self.draining
    leaving,    \* the flush under way is the last one, after the loop
    leased,     \* self.leased_task_ids
    acked,      \* self.acknowledged_task_ids
    at,         \* where a copy is in the pipeline
    results,    \* copies in self.results, feature_results and head_results
    failures,   \* copies in self.failures, with retryable
    answered,   \* tasks the replies to the flush under way acknowledge
    unseen,     \* tasks leased by a claim whose reply was lost
    faults,     \* faults so far
    runs        \* runs so far

server == <<stage, attempts>>
buffers == <<results, failures>>
control == <<pc, draining, leaving, answered>>
books == <<leased, acked, unseen>>
vars == <<option, server, control, books, at, buffers, faults, runs>>

Copies == [task : Tasks, claim : 1..MaxCopies]

\* download_future done: the audio is there, answered 409, or anything else failed.
Pending == {"download", "fetched", "conflict", "broken", "cpu", "preprocess"}
Ready == {"readyHeads", "readyEmbedding"}

In(P) == {c \in Copies : at[c] \in P}

TasksIn(S) == {c.task : c \in S}

Failure(c, retryable) == [copy |-> c, retryable |-> retryable]

FailureOf(S, retryable) == {Failure(c, retryable) : c \in S}

-----------------------------------------------------------------------------

Init ==
    /\ option \in Options
    /\ stage = [t \in Tasks |-> "queued"]
    /\ attempts = [t \in Tasks |-> 0]
    /\ pc = "loop"
    /\ draining = FALSE
    /\ leaving = FALSE
    /\ leased = {} /\ acked = {} /\ unseen = {}
    /\ at = [c \in Copies |-> "none"]
    /\ results = {} /\ failures = {}
    /\ answered = {}
    /\ faults = 0
    /\ runs = 1

-----------------------------------------------------------------------------
(* The server. *)

\* get_worker_task_state: leased by this worker, and its job still running.
Active(t) == stage[t] = "leased"

Settled == {"completed", "final_failed"}

\* The copies a run still works on or has buffered an answer for.
InHand == In(Pending \cup Ready) \cup results \cup {f.copy : f \in failures}

\* A lease nobody works for lapses; one that is in hand only below the bound.
LeaseLapses(t) ==
    /\ stage[t] = "leased"
    /\ attempts[t] < MaxClaims \/ pc = "exited" \/ t \notin TasksIn(InHand)
    /\ stage' = [stage EXCEPT ![t] = "queued"]
    /\ UNCHANGED <<option, attempts, control, books, at, buffers, faults, runs>>

\* The task ends without this worker: its job is cancelled, or the lease has
\* lapsed and another worker has claimed and answered it.
EndsElsewhere(t) ==
    /\ stage[t] \in {"queued", "leased"}
    /\ stage' = [stage EXCEPT ![t] = "final_failed"]
    /\ UNCHANGED <<option, attempts, control, books, at, buffers, faults, runs>>

\* What POST /workers/results does to the rows of S: those this worker holds
\* are completed, or refused when their track has changed; of the others the
\* item is rejected and fail_analysis_task finds another lease_owner.
Record(S, refused) ==
    stage' = [t \in Tasks |->
        IF t \notin S \/ stage[t] # "leased" THEN stage[t]
        ELSE IF t \in refused THEN "final_failed" ELSE "completed"]

\* Faulty: a status of its own for tasks to be retried, which no claim knows.
VerdictRetryable(t, retryable) ==
    IF retryable /\ attempts[t] < MaxAttempts THEN "failed_retryable" ELSE "final_failed"

\* The status fail_analysis_task gives a task this worker holds.
Verdict(t, retryable) ==
    IF retryable /\ attempts[t] < MaxAttempts THEN "queued" ELSE "final_failed"

\* What POST /workers/failures does: the first failure of a task ends the lease.
Refuse(F) ==
    stage' = [t \in Tasks |->
        IF stage[t] # "leased" \/ ~\E f \in F : f.copy.task = t THEN stage[t]
        ELSE Verdict(t, (CHOOSE f \in F : f.copy.task = t).retryable)]

Fault ==
    /\ faults < option.faults
    /\ faults' = faults + 1

-----------------------------------------------------------------------------
(* Claiming. *)

\* Faulty: batches that wait for the model are not counted.
RoomIgnoresReady == IF MaxInflight > Cardinality(In(Pending))
                    THEN MaxInflight - Cardinality(In(Pending)) ELSE 0

\* Faulty: the next batch waits for leased_task_ids, which never shrinks.
RoomWaitsForLeases == IF leased = {} THEN MaxInflight ELSE 0

\* The capacity claim_more computes.
Room == IF MaxInflight > Cardinality(In(Pending \cup Ready))
        THEN MaxInflight - Cardinality(In(Pending \cup Ready)) ELSE 0

\* Rows the claim takes.  The limit leaves any of them possible.
Claimable(S) ==
    /\ S # {} /\ \A t \in S : stage[t] = "queued" /\ attempts[t] < MaxCopies
    /\ Cardinality(S) <= ClaimBatch /\ Cardinality(S) <= Room

Take(S) ==
    /\ stage' = [t \in Tasks |-> IF t \in S THEN "leased" ELSE stage[t]]
    /\ attempts' = [t \in Tasks |-> attempts[t] + (IF t \in S THEN 1 ELSE 0)]

\* claim_more: each task claimed is submitted to the download pool.
Claim ==
    /\ pc = "loop" /\ ~draining
    /\ \E S \in SUBSET Tasks :
         /\ Claimable(S)
         /\ Take(S)
         /\ leased' = leased \cup S
         /\ at' = [c \in Copies |->
                IF c.task \in S /\ c.claim = attempts'[c.task] THEN "download" ELSE at[c]]
         /\ unseen' = unseen \ S
    /\ UNCHANGED <<option, control, acked, buffers, faults, runs>>

\* The server leases the tasks, and the reply is lost.  With --once the worker
\* gives up; else it goes on ("claim failed").
ClaimLost ==
    /\ pc = "loop" /\ ~draining
    /\ \E S \in SUBSET Tasks :
         /\ Claimable(S)
         /\ Take(S)
         /\ unseen' = unseen \cup S
    /\ pc' = IF option.once THEN "release" ELSE "loop"
    /\ Fault
    /\ UNCHANGED <<option, draining, leaving, answered, leased, acked, at, buffers, runs>>

-----------------------------------------------------------------------------
(* The pipeline. *)

\* The buffers the step leaves decide whether flush_worker_buffers comes next.
MaybeFlush ==
    pc' = IF Cardinality(results') + Cardinality(failures') >= SubmitBatch
          THEN "results" ELSE "loop"

\* The copy leaves the pipeline with a result or a failure in the buffers.
AppendResult(c) == results' = results \cup {c} /\ UNCHANGED failures
AppendFailure(c) ==
    /\ \E retryable \in BOOLEAN : failures' = failures \cup {Failure(c, retryable)}
    /\ UNCHANGED results

\* close_inactive_task: TRUE when the server says that the task is not active;
\* FALSE when it is, or when it cannot be asked.
Closes(t) ==
    /\ ~Active(t)
    /\ acked' = acked \cup {t}
    /\ UNCHANGED faults
DoesNotClose(t) ==
    /\ \/ Active(t) /\ UNCHANGED faults
       \/ Fault
    /\ UNCHANGED acked

Move(c, place) == at' = [at EXCEPT ![c] = place]

\* The download thread: the audio request answers 409 unless the task is leased,
\* and may end the task when the file is gone.
Download(c) ==
    /\ at[c] = "download"
    /\ \/ /\ Active(c.task)
          /\ \E place \in {"fetched", "broken"} : Move(c, place)
          /\ UNCHANGED stage
       \/ /\ Active(c.task)
          /\ Move(c, "broken")
          /\ stage' = [stage EXCEPT ![c.task] = "final_failed"]
       \/ /\ ~Active(c.task)
          /\ Move(c, "conflict")
          /\ UNCHANGED stage
    /\ UNCHANGED <<option, attempts, control, books, buffers, faults, runs>>

\* Faulty: heads are taken for a model that runs at once, and skipped there.
RouteNoHeads(c) ==
    LET kind == option.kind[c.task]
    IN CASE kind = "features" -> "cpu"
         [] kind = "embedding" -> "preprocess"
         [] OTHER -> "none"

\* The next place of a downloaded copy; "direct" models run on the main thread.
Route(c) ==
    LET kind == option.kind[c.task]
    IN CASE kind = "features" -> "cpu"
         [] kind = "heads" -> "readyHeads"
         [] kind = "embedding" -> "preprocess"
         [] OTHER -> "none"

\* _handle_download_future, the download succeeded.
Downloaded(c) ==
    /\ pc = "loop" /\ at[c] = "fetched"
    /\ \/ /\ draining
          /\ Move(c, "none")
          /\ UNCHANGED <<pc, buffers>>
       \/ /\ ~draining /\ option.kind[c.task] # "direct"
          /\ Move(c, Route(c))
          /\ UNCHANGED <<pc, buffers>>
       \/ /\ ~draining /\ option.kind[c.task] = "direct"
          /\ Move(c, "none")
          /\ AppendResult(c) \/ AppendFailure(c)
          /\ MaybeFlush
    /\ UNCHANGED <<option, server, draining, leaving, answered, books, faults, runs>>

\* _handle_download_future, the download raised: only a 409 asks for the state.
DownloadFailed(c) ==
    /\ pc = "loop" /\ at[c] \in {"conflict", "broken"}
    /\ Move(c, "none")
    /\ \/ /\ at[c] = "conflict" /\ Closes(c.task)
          /\ UNCHANGED <<pc, buffers>>
       \/ /\ \/ at[c] = "conflict" /\ DoesNotClose(c.task)
             \/ at[c] = "broken" /\ UNCHANGED <<acked, faults>>
          /\ AppendFailure(c)
          /\ MaybeFlush
    /\ UNCHANGED <<option, server, draining, leaving, answered, leased, unseen, runs>>

\* _handle_cpu_future: a failure is kept even when draining.
Analysed(c) ==
    /\ pc = "loop" /\ at[c] = "cpu"
    /\ Move(c, "none")
    /\ \/ draining /\ UNCHANGED <<pc, buffers>>
       \/ ~draining /\ AppendResult(c) /\ MaybeFlush
       \/ AppendFailure(c) /\ MaybeFlush
    /\ UNCHANGED <<option, server, draining, leaving, answered, books, faults, runs>>

\* _handle_embedding_future, the patches are there.
Preprocessed(c) ==
    /\ pc = "loop" /\ at[c] = "preprocess"
    /\ \/ /\ ~draining /\ Active(c.task)
          /\ Move(c, "readyEmbedding")
          /\ UNCHANGED <<acked, faults>>
       \/ /\ draining \/ ~Active(c.task)
          /\ Move(c, "none")
          /\ Closes(c.task) \/ DoesNotClose(c.task)
    /\ UNCHANGED <<option, server, control, leased, unseen, buffers, runs>>

\* _handle_embedding_future, the decoding or the look at the state raised: an
\* inactive task is closed, another gets the Essentia fallback.
PreprocessFailed(c) ==
    /\ pc = "loop" /\ at[c] = "preprocess"
    /\ Move(c, "none")
    /\ \/ /\ Closes(c.task)
          /\ UNCHANGED <<pc, buffers>>
       \/ /\ DoesNotClose(c.task)
          /\ AppendResult(c) \/ AppendFailure(c)
          /\ MaybeFlush
    /\ UNCHANGED <<option, server, draining, leaving, answered, leased, unseen, runs>>

\* What the batches do with items that are not active any more: they are closed,
\* unless the question about their state gets no answer.
CloseAll(S) ==
    LET inactive == {c \in S : ~Active(c.task)}
    IN \/ acked' = acked \cup TasksIn(inactive) /\ UNCHANGED faults
       \/ \E missed \in inactive :
            /\ acked' = acked \cup TasksIn(inactive \ {missed})
            /\ Fault

Leave(S) == at' = [c \in Copies |-> IF c \in S THEN "none" ELSE at[c]]

\* The items of a batch that go on to the model.
Working(S) == {c \in S : ~draining /\ Active(c.task)}

\* process_ready_embedding_batches for the one embedding model.  Whether there
\* are patches enough for a batch is left open.
ProcessEmbeddings ==
    /\ pc = "loop"
    /\ In({"readyEmbedding"}) # {}
    /\ LET batch == In({"readyEmbedding"})
           work == Working(batch)
       IN /\ Leave(batch)
          /\ \/ /\ work = {}
                /\ CloseAll(batch)
                /\ UNCHANGED <<pc, buffers>>
             \/ /\ work # {}
                /\ CloseAll(batch \ work)
                /\ results' = results \cup work
                /\ UNCHANGED failures
                /\ MaybeFlush
             \* The model raised, or the look at some state: the fallback runs
             \* for the whole batch, what was appended before stays.
             \/ /\ IF work = {}
                   THEN ~draining /\ Fault /\ acked' = acked
                   ELSE CloseAll(batch \ work)
                /\ \E early \in SUBSET work, good \in SUBSET batch, retryable \in BOOLEAN :
                     /\ results' = results \cup early \cup good
                     /\ failures' = failures \cup FailureOf(batch \ good, retryable)
                /\ MaybeFlush
    /\ UNCHANGED <<option, server, draining, leaving, answered, leased, unseen, runs>>

\* Whether process_ready_head_batches has a batch: a full one, or the loop has
\* nothing else to wait for.
HeadsDue == Cardinality(In({"readyHeads"})) >= HeadBatch \/ In(Pending) = {}

\* process_ready_head_batches.  Items whose patches cannot be extracted, or whose
\* state cannot be asked, fail one by one; when none is left the function returns
\* before maybe_flush.
ProcessHeads ==
    /\ pc = "loop"
    /\ HeadsDue
    /\ \E batch \in SUBSET In({"readyHeads"}) :
         LET work == Working(batch)
         IN /\ batch # {}
            /\ Cardinality(batch) = HeadBatch \/ batch = In({"readyHeads"})
            /\ Cardinality(batch) <= HeadBatch
            /\ Leave(batch)
            /\ \E bad \in SUBSET batch, retryable \in BOOLEAN :
                 /\ IF bad \subseteq work THEN CloseAll(batch \ work)
                    ELSE ~draining /\ Fault /\ acked' = acked \cup TasksIn(batch \ (work \cup bad))
                 /\ \/ /\ results' = results \cup (work \ bad)
                       /\ failures' = failures \cup FailureOf(bad, retryable)
                    \/ /\ failures' = failures \cup FailureOf(work \cup bad, retryable)
                       /\ UNCHANGED results
                 /\ IF work \subseteq bad THEN UNCHANGED pc ELSE MaybeFlush
    /\ UNCHANGED <<option, server, draining, leaving, answered, leased, unseen, runs>>

-----------------------------------------------------------------------------
(* submit_worker_buffers.  post_worker_submit_json repeats a request until it *)
(* is answered, so a reply that is lost, or 503 half way, is another try.     *)

SubmitResults ==
    /\ pc = "results"
    /\ \E refused \in SUBSET TasksIn(results) : Record(TasksIn(results), refused)
    /\ answered' = TasksIn(results)
    /\ results' = {}
    /\ pc' = "failures"
    /\ UNCHANGED <<option, attempts, draining, leaving, books, at, failures, faults, runs>>

SubmitLost ==
    /\ pc \in {"results", "failures"}
    /\ \/ /\ pc = "results"
          /\ \E S \in (SUBSET TasksIn(results)) \ {{}} : Record(S, {})
       \/ pc = "failures" /\ failures # {} /\ Refuse(failures)
    /\ Fault
    /\ UNCHANGED <<option, attempts, control, books, at, buffers, runs>>

\* The failures, the bookkeeping, and the limit that makes the worker drain.
SubmitFailures ==
    /\ pc = "failures"
    /\ Refuse(failures)
    /\ acked' = acked \cup answered \cup {f.copy.task : f \in failures}
    /\ failures' = {}
    /\ answered' = {}
    /\ draining' = (draining \/ (option.limit > 0 /\ Cardinality(acked') >= option.limit))
    /\ pc' = IF leaving THEN "release" ELSE "loop"
    /\ UNCHANGED <<option, attempts, leaving, leased, unseen, at, results, faults, runs>>

-----------------------------------------------------------------------------
(* Ending a run. *)

\* request_drain
StopRequested ==
    /\ pc # "exited" /\ ~draining
    /\ draining' = TRUE
    /\ UNCHANGED <<option, server, pc, leaving, answered, books, at, buffers, faults, runs>>

\* Faulty: the drain does not submit what is in the buffers.
AfterLoopAtOnce == "release"

\* What run does after _run_loop returned True.
AfterLoop == "results"

\* The loop's condition is false; the pools are shut down and what is still in
\* them is dropped.
LeaveLoop ==
    /\ pc = "loop" /\ draining
    /\ pc' = AfterLoop
    /\ leaving' = TRUE
    /\ Leave(Copies)
    /\ UNCHANGED <<option, server, draining, answered, books, buffers, faults, runs>>

\* --once: with nothing in flight after an empty claim _run_loop returns False,
\* and a claim that fails exits: nothing is submitted.
OnceEnds ==
    /\ option.once
    /\ pc = "loop" /\ ~draining
    /\ \/ /\ In(Pending \cup Ready) = {}
          /\ \A t \in Tasks : stage[t] # "queued"
          /\ UNCHANGED faults
       \/ Fault
    /\ pc' = "release"
    /\ Leave(Copies)
    /\ UNCHANGED <<option, server, draining, leaving, answered, books, buffers, runs>>

\* What nothing catches ends the run past the last flush: a heartbeat that
\* fails, a reply post_worker_submit_json does not repeat, a second SIGINT.
Interrupted ==
    /\ pc \in {"loop", "results", "failures"}
    /\ pc' = "release"
    /\ Leave(Copies)
    /\ Fault
    /\ UNCHANGED <<option, server, draining, leaving, answered, books, buffers, runs>>

\* leased_task_ids - acknowledged_task_ids
Unreleased == leased \ acked

\* The finally block of run: the request to release, which may fail.
Release ==
    /\ pc = "release"
    /\ pc' = "exited"
    /\ \/ /\ stage' = [t \in Tasks |->
               IF t \in Unreleased /\ stage[t] = "leased" THEN "queued" ELSE stage[t]]
          /\ UNCHANGED faults
       \/ Fault /\ UNCHANGED stage
    /\ UNCHANGED <<option, attempts, draining, leaving, answered, books, at, buffers, runs>>

Kill ==
    /\ pc # "exited"
    /\ pc' = "exited"
    /\ Fault
    /\ UNCHANGED <<option, server, draining, leaving, answered, books, at, buffers, runs>>

\* The container starts again, with nothing but its options and the worker's id.
Restart ==
    /\ pc = "exited" /\ runs < option.runs
    /\ runs' = runs + 1
    /\ pc' = "loop"
    /\ draining' = FALSE /\ leaving' = FALSE /\ answered' = {}
    /\ leased' = {} /\ acked' = {}
    /\ unseen' = {t \in Tasks : stage[t] = "leased"}
    /\ at' = [c \in Copies |-> "none"]
    /\ results' = {} /\ failures' = {}
    /\ UNCHANGED <<option, server, faults>>

-----------------------------------------------------------------------------

Handle(c) ==
    Downloaded(c) \/ DownloadFailed(c) \/ Analysed(c) \/ Preprocessed(c) \/ PreprocessFailed(c)

\* The main thread, which never waits for anything but its pools and requests.
Run ==
    \/ \E c \in Copies : Handle(c)
    \/ ProcessEmbeddings \/ ProcessHeads
    \/ SubmitResults \/ SubmitFailures
    \/ LeaveLoop \/ OnceEnds \/ Release

Next ==
    \/ Claim \/ ClaimLost \/ Run
    \/ \E c \in Copies : Download(c)
    \/ SubmitLost \/ StopRequested \/ Interrupted \/ Kill \/ Restart
    \/ \E t \in Tasks : LeaseLapses(t) \/ EndsElsewhere(t)

Spec == Init /\ [][Next]_vars

\* The main thread and the pools run on.  _run_loop claims in every turn, so a
\* task that keeps being there is claimed.  Leases lapse by the clock.
Fairness ==
    /\ WF_vars(Run)
    /\ SF_vars(Claim)
    /\ WF_vars(\E c \in Copies : Download(c))
    /\ WF_vars(\E t \in Tasks : LeaseLapses(t) /\ t \notin TasksIn(InHand))

FairSpec == Spec /\ Fairness

-----------------------------------------------------------------------------

TypeOK ==
    /\ option \in Options
    /\ stage \in [Tasks -> {"queued", "leased"} \cup Settled]
    /\ attempts \in [Tasks -> 0..MaxCopies]
    /\ pc \in {"loop", "results", "failures", "release", "exited"}
    /\ draining \in BOOLEAN /\ leaving \in BOOLEAN
    /\ leased \subseteq Tasks /\ acked \subseteq Tasks /\ unseen \subseteq Tasks
    /\ at \in [Copies -> {"none"} \cup Pending \cup Ready]
    /\ results \subseteq Copies
    /\ failures \subseteq [copy : Copies, retryable : BOOLEAN]
    /\ answered \subseteq Tasks
    /\ faults \in 0..option.faults
    /\ runs \in 1..option.runs

\* While the worker runs, each lease the server thinks it holds is one it works
\* for: whatever was closed, dropped, failed, answered or claimed twice, no task
\* waits for its lease to lapse because the worker has forgotten it.
LeasesAreInWork ==
    pc \in {"loop", "results", "failures"} /\ ~draining =>
        \A t \in Tasks : stage[t] = "leased" => t \in unseen \cup TasksIn(InHand)

\* The pipeline never holds more than max_inflight_tasks, which bounds the open
\* connections and the decoded audio, through every claim, batch and retry.
PipelineIsBounded == Cardinality(In(Pending \cup Ready)) <= MaxInflight

\* A drain that nothing disturbs leaves nothing behind: no answer unsent, and
\* no lease but of tasks acknowledged before they were claimed again (or that an
\* earlier run left).
DrainLeaves ==
    pc = "exited" /\ leaving /\ faults = 0 =>
        /\ results = {} /\ failures = {}
        /\ \A t \in Tasks : stage[t] = "leased" => t \in acked \cup unseen

\* A worker that stays up answers every task, or another does: no task is lost
\* in a pool, a batch or a buffer.  Heads are excepted: the failures of a batch
\* without a single good item wait for the next flush.
EveryTaskIsAnswered ==
    <>[](pc # "exited" /\ ~draining) =>
        \A t \in Tasks : option.kind[t] # "heads" => <>[](stage[t] \in Settled)

=============================================================================
