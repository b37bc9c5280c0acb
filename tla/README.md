# Discocs: models and proofs

Discocs is a self-hosted music service: a FastAPI backend over SQLite
(`app/`), a React player (`ui/`), a Telegram bot (`discocs_bot/`), analysis
workers on other machines (`app/cli.py`) and a tools agent on a workstation
(`tools/agent/`). This directory holds TLA+ models of the parts of it in which
several processes, requests or callbacks work on the same state, the TLC
configurations that check them, and TLAPS proofs of their safety properties.

Run `tlc -workers 2 -config X.cfg M` for a run and `tlapm M.tla` for a proof
module. `PROJECT.json` lists the runs, the lines of source each definition
stands for, the hazards of the code and the faulty variants (the definitions
commented *Faulty*) that each property was seen to reject.

## 1. The system

### Components and their state

| Component | Source | State | Operations |
|---|---|---|---|
| Analysis queue | `app/store/jobs.py` | tables `analysis_jobs`, `analysis_tasks` | create, claim, expire, complete, fail, release, cancel, refresh |
| Worker API | `app/api/workers.py`, `app/analysis_helpers.py` | none of its own | register, claim, audio, results, failures, release |
| Local executor | `app/analysis_jobs.py` | thread of the server | the same queue, as worker `local-<job>` |
| Worker client | `app/cli.py` | claimed tasks, batches not yet sent | claim, heartbeat, analyse, submit, drain |
| Maintenance loop | `app/maintenance.py` | none | tick: expire, refresh, sync, start a deferred job, cache refreshes |
| Deferred jobs | `app/services/jobs.py`, `app/state.py`, `app/api/jobs.py` | `JOBS`, `DEFERRED_JOB_ORDER`, `DEFERRED_JOB_STARTERS`, a lock | launch, defer, pick, run, finish, cancel, sync |
| Tools worker, server | `app/store/tools.py`, `app/api/tools.py` | `tool_jobs`, `tool_workers`, `label_agent_descriptions` | create, poll/claim, progress, control, next labels, result, revert |
| Tools worker, agent | `tools/agent/agent.py` | main loop, a thread per label | describe run, pause, cancel, GPU checks, retries |
| Playback queue | `app/store/playback.py`, `app/api/playback.py` | `playback_sessions`, `queue_items`, events | create, replace, append, remove, move, jump, shuffle, handover, events |
| Autoplay | `app/autoplay.py` | pool in the session's state | refill |
| Labels | `app/store/labels.py`, `label_merge.py`, `app/services/label_sync/` | labels, descriptions, sync state | edit, merge, sync, revert |
| Presence, listen-along | `app/services/presence.py`, `listen_along.py` | in-memory cache | record, snapshot, follow |
| Listening history | `app/store/playback.py`, `listens.py`, `mixes.py`, `app/serializers/playback.py` | `playback_events`, `listens`, play counts | record, scrobble, import, rebuild |
| Web player | `ui/src/store/playerStore.ts`, `ui/src/lib/backgroundRetry.ts`, `ui/src/engine/` | local pointer, pending jump and handover, retry timers | jump, refresh, handover, retry |
| Bot | `discocs_bot/bot/` | loading cards, work files, `telegram_audio_cache` | prepare, encode, upload, edit, fall back, clean up |
| Sessions, devices, shares | `app/auth.py`, `app/store/sessions.py`, `devices.py`, `shares.py` | one row each | issue, check, revoke |
| Library, Navidrome sync | `app/navidrome_sync.py`, `app/store/library.py` | catalogue | upsert pages, mark stale |
| Recommender, mixes, flow, map | `app/recommender.py`, `app/mixes.py`, `app/services/*`, `app/projection.py` | vectors, aggregates | scoring |
| Timeline artifacts | `app/timeline/`, `app/store/timeline.py` | files per track | compute, read |

### How they interact

Everything on the server meets in one SQLite database in WAL mode. Each request
runs in a thread pool on a connection of its own, opened with
`isolation_level="IMMEDIATE"`: Python runs a `SELECT` in autocommit and opens
the write transaction before the first `INSERT`/`UPDATE`/`DELETE`. **So a store
method that reads and then writes is at least two atomic steps**, and every model
here cuts its actions there. A method whose first statement writes, or that says
`BEGIN IMMEDIATE`, is one step. Remote workers and the agent call over HTTP,
repeat what failed, and may be repeated while the first copy is being served.
Jobs of the page live in the memory of the server (`JOBS`) and, for most kinds,
also as a durable row; the maintenance tick copies the durable status over the
one in memory. The page of the player keeps a queue pointer of its own and
brings it to the server's by requests that overtake each other. The bot is one
process; its deliveries are asyncio tasks that share the work files of a song.

### What is hard, and what makes each component correct

* **Analysis queue.** Leases lapse while their workers work; late and repeated
  reports; `refresh_analysis_job` decides from counts and writes without a
  condition; requests die between two transactions. Correct: a settled task is
  never handed out again, a completed task has its result, a closed job has no
  open task, no retry is cut short, every job ends.
* **Worker client.** A lease lapses and its task is claimed again while the
  first copy is still in a pool, a batch or a buffer; audio, models and requests
  fail one by one; a drain must answer what it has and release the rest.
  Correct: no lease is forgotten, the pipeline is bounded, a drain leaves
  nothing, every task is answered.
* **Deferred jobs.** Two structures and a status, one lock that guards only part
  of them, two sources of truth about what is active. Correct: nothing is
  started twice, lost or overtaken, and what was launched is run.
* **Tools worker.** Restarts and repeated requests at the agent, read-then-write
  on the server, a cancel that depends on when the worker was last seen, labels
  folded into others. Correct: one agent per job, "done" means described, jobs
  end.
* **Playback queue.** Positions under a UNIQUE index that removed rows keep
  occupying, reorders that park rows at negative positions, reads before the
  transaction that uses them, late events that bring rows back. Correct: the
  positions spell the order the commands promise, additions and shuffles find
  their places free, the pointer is on a row of the queue.
* **Listening history.** A report is sent again while its first copy is served;
  a listen is decided when it comes and derived once more by a replay; counts go
  to Navidrome and come back. Correct: one event per report, the live decision
  equals the replay, nothing is counted twice.
* **Web player.** Retry loops that newer calls supersede, replies that arrive
  late, a handover repeated until it is acknowledged. Correct: no timer that
  nobody can stop, no flip away from a jump under way, no pointer moved twice.
* **Bot.** Lost answers that make a retry fail, a fallback that deletes the card
  that already holds the audio, work files named by the song. Correct: the audio
  is delivered once, files are cleaned up, every delivery ends.
* **Others.** Presence expires and is overwritten out of order; label text is
  written by people, merges and agents; a refill writes back a state it read
  before.

The list with lines is `hazards` in `PROJECT.json`.

## 2. Modules

| Module | Models | Proofs |
|---|---|---|
| `TaskLifecycle` | what the analysis queue promises: tasks waiting, held, done or refused; jobs open or closed | |
| `AnalysisQueue` | queue, worker API, local executor and maintenance tick, statement by statement | `AnalysisQueueProofs`, with the refinement of `TaskLifecycle` |
| `WorkerClient` | the analysis worker against a queue reduced to its rows | `WorkerClientProofs` |
| `DeferredJobs` | in-memory jobs, order, starters, lock, durable rows | `DeferredJobsProofs` |
| `ToolJobs` | `tool_jobs`, its API and the agent | `ToolJobsProofs` |
| `QueueOrder` | what the playback queue promises: rows in one order, and what a command may do to them | |
| `PlaybackQueue` | rows with positions, pointer, shuffle flag; read step and transaction of each command | `PlaybackQueueProofs`, with the refinement of `QueueOrder` |
| `ListeningHistory` | events, listens, play counts, Navidrome | `ListeningHistoryProofs` |
| `PlayerSync` | the page's pointer and retry loops against the session's pointer | `PlayerSyncProofs` |
| `BotDelivery` | deliveries of one song to Telegram | `BotDeliveryProofs` |
| `MC*` | instances for TLC | |

`WorkerClient` does not compose with `AnalysisQueue`: each request is one step on
the rows there, and the statements of a request are what `AnalysisQueue` is about.
`PlayerSync` likewise has of the server what a request does to the pointer.

### AnalysisQueue

A *thread* is an API request or the local executor (`Handlers`) or the
maintenance loop. `pc[p]` is its next statement, `call[p]` the request's
arguments; `todo`, `after`, `current` and `settled` are the local variables of
the `refresh_analysis_job` calls that nearly every handler makes. The row of a
task is `status`, `owner`, `attempts`; `voided` is the stage "cancelled" that
`fail_analysis_task` asks for; `lapsed` is the set of leases whose deadline has
passed, which is all of time that the code looks at. `saved` is the result in
the embedding, feature or score tables; `changed` says that the file's size or
mtime is no longer the task's. Correspondence of actions to handlers:

* `ClaimCall; RefreshRead*; ClaimTake`: `claim_analysis_tasks`, expiry first.
* `SubmitCall; Validate; Save | SaveFails; Complete`: `POST /workers/results`
  for one item; a failure of validation or saving continues in
  `FailRead; FailWrite`. A batch is several such requests in a row.
* `FailCall; FailRead; FailWrite`, `ReleaseCall; Release`, `Cancel`, `PollCall`.
* `AudioCall; Audio`: the one handler that fails a task without an owner.
* `LocalDone`, `LocalFail`: the executor of the server, which neither expires
  nor validates first.
* `Tick; RefreshActive`: the maintenance loop.
* `Abort`: the process or the request dies between two statements.

A worker may report any task that was ever claimed, at any time and any number
of times: that covers lost answers, repeated requests and workers that went on
after their lease lapsed.

### WorkerClient

`WorkerRuntime` of `app/cli.py`, run after run of the container. Its main thread
is `_run_loop`: `Claim` (`claim_more`), `Handle` (a finished future of the
download or CPU pool), `ProcessEmbeddings` and `ProcessHeads` (the buffered
model batches), `SubmitResults`/`SubmitFailures` (`flush_worker_buffers`, reached
from `MaybeFlush`), `LeaveLoop`, `OnceEnds`, `Release`, `Restart`. What is in
flight are *copies*: a task with the number of its claim, for a task can be
claimed again while the first copy is still in the pipeline. `leased` and
`acked` are the sets the worker keeps; `unseen` are leases of a claim whose reply
was lost. Left out: payloads, metrics, heartbeats, the backend that is chosen
by availability ("auto") and the temporary files, whose absence is one more
reason for a step to fail.

### DeferredJobs

Kinds of jobs: `"memory"` jobs live in `JOBS` only, `"progress"` jobs have a
durable row that the job itself closes, `"analysis"` jobs one that the analysis
queue closes, which the thread of the local executor waits for. `Start` makes
the row, `Announce` tells `JOBS` of it (`start_now`), `Proceed` is the "running"
that the job's thread writes, which undoes a cancel, `Finish` its end. Threads are launch requests (with their background task), runners,
cancel requests, the maintenance loop and readers of the job list. `lock` is
`DEFERRED_JOBS_LOCK`; `JOBS_LOCK` guards single accesses and is atomicity of a
step. `picked` is the job a picker holds after it released the lock and before
it marked it. Left out: a database that fails while a job is being started.

### ToolJobs

`Poll`, `ProgressRead`/`ProgressWrite`, `Record`, `ControlRead`/`ControlWrite`,
`CheckActive`/`Create` are the server; a request in flight that its agent gave
up stays in `handlers` or `strays` and is served later or never. The agent's
main loop is `Report`, then one of `Drop`, `Rest`, `Fetch`, `LoadFails`, with
`LookAgain` before the last report; a label's thread is `Researched`, then
`PostResult`. `quiet` is the 90 seconds without a request. `Restart` forgets the
agent, and `StrayPoll` is its long poll, which goes on at the server and claims
(`ClaimRows`, as `Poll` does) when nobody waits for the answer;
`GpuTaken`/`GpuFree` are another program on the workstation. `list` is
`params.label_ids`, fixed when the job is created, as a set: its order is that
of `LabelsOf`, from which `First` takes the labels of an answer. `Merge` is the
label sync folding one label into another at any moment, so that the list names
labels (`gone`) whose row, with the credit of its last result, is no more.

### PlaybackQueue and QueueOrder

`rows` is the table `queue_items` of one session: position, source position,
whether it is removed. Each command of a page is a thread: a step that reads
(`ReadLast`, `FindRow`, `ReadList`, `ReadRows`, ...) and keeps what it needs in
`calls`, then its transaction (`Add`, `Jump`, `Move`, `Reorder`, ...). `Commit`
rolls back what meets the unique index and notes the command in `failed`;
`InTheWay` is the same for the rows that a reorder writes one after another.
`Heard` and `Started` are events of a row that come whenever they like. The
order the positions give is the relation `Ordered(rows)`, and a reorder writes
`Places`, the index of each row in an order. `QueueOrder` has that relation as
its variable (`before`) and knows no positions; `Order` is the refinement.
`Init` is a queue as `create_playback_session` makes it; its mode may have shuffled
the sources while the flag is off. `TypeOK`, `OnlyMovesFail` and `ImplementsOrder`
are about one request at a time: two additions at once do clash in the index.
Left out: the tracks, the PATCH of the current item, other sessions, and the
positions and statuses that a client may supply when it replaces a queue.

### ListeningHistory

`events` is the log (an event's index is its rowid), `listens` and `plays` the
tables derived from it, `navidrome` the count there. `Check; Record; Scrobble`
is `POST /events` with the look for a duplicate, the transaction and the
submission after it; `FetchSong; ImportPlays` is the import of play counts,
`RecomputePreferences` and `ReadLog; Backfill` the two rebuilds, `Start` the
server with an empty or a filled table of listens, `DatePasses` the day the rule
of listens changes. A report may name no track (`None`): it is logged and never a
listen. `Crash` drops every thread.

### PlayerSync

JavaScript runs one callback at a time, so a step is what runs between two
awaits. `net` holds the requests under way, each in a slot with its phase at the
server and its reply; `Drop` loses it on either way. `registry` and `live` are
the entries and the intervals of `backgroundRetry.ts`; `starting` and
`preparing` are jumps and handovers that wait for a deck. `Confirmed` may leave the
handover pending, as when the engine fails to retire the old deck.

### BotDelivery

A delivery is an asyncio task; `step` is the call it awaits. All deliveries are
of one song, since work files are named by the song: what one writes another
overwrites or deletes. Every Telegram call may be answered, done with its answer
lost, or refused, and `telegram_retry` repeats it up to `Attempts` times. The
database may fail too: while the track is looked up, when a file_id is saved after
the upload, the edit or the send, and when `_finalize_delivery` logs the event; the
delivery has then failed although its audio may be in the chat. `trouble` counts
what was lost, refused or failed in this way. Left out: the bytes in the files, albums, links to other
services, the effect of the cover on the cache key, the message of an upload that
Telegram does not take for audio, and a call that is still in flight when the
process is killed.

## 3. Runs

| Run | Instance | Shows |
|---|---|---|
| `queue` | 2 jobs, one of them empty; 1 task, a remote worker and the local executor, 1 request thread and the tick | the queue's invariants, `SettledIsForever`, `ImplementsLifecycle`, `JobsCloseForGood` |
| `worker_client` | 2 tasks; every branch of the pipeline, `--once`, a limit, a fault, two runs | nothing forgotten, the pipeline bounded, drains leave nothing, tasks are answered |
| `deferred` | 3 jobs of 3 kinds, one of them cancelled | order, starters, starts, `LaunchedJobsRun`, `StartedJobsClose` |
| `deferred_stuck` | 3 jobs, one cancel | **violated**: `DeferredJobsMoveOn` |
| `tools_labels` | 2 agents, 1 job of 2 labels, 2 slots, 1 loss, pauses, cancels, merges | one agent per job, done means described, no thread left behind |
| `tools_live` | 1 agent, 2 jobs with the same label, 1 loss, cancels of both, resumes of the first | `JobsEnd`, and done means described although each job takes the other's credit |
| `tools_resumed` | 1 agent, 1 job, cancel and resume | **violated**: `DroppedJobsClose` |
| `playback_queue` | 1 thread, up to 3 rows | `TypeOK`, `OnlyMovesFail`, `ImplementsOrder` |
| `playback_shuffle` | 2 threads | **violated**: `NoAdditionStaysParked` |
| `listening_history` | 2 threads, 3 events, 2 tracks | one event per report, live decision = replay, counts |
| `player_sync` | 3 items, 2 requests under way, 2 moves, 2 handovers | timers, pinned page, handovers |
| `bot_delivery` | 2 deliveries in two qualities that share the source, one of them in trouble without end | audio once, files, `RetriesRunOut`, `DeliveriesEnd` |

Every passing run ends in under three minutes on two cores; the largest are
`tools_labels` with 2.7 million distinct states and `player_sync` with 2.4.

### Bounds

The theorems of section 4 hold for every value of these constants (those of
`PlaybackQueue` for a thread at a time), so that for the safety properties a bound
decides only how much TLC sees of what is then proved. For liveness the bounds
are all there is.

* `MaxAttempts = 2`: one retry is granted, one is refused. Two claims
  (`MaxClaims`) let a report of the first lease arrive during the second. In
  `FairSpec` it is the assumption that leases do not lapse for ever: the code
  hands a task out again without looking at `attempts`.
* `MaxAborts`, `MaxLosses`, `faults`: one death or loss is enough for every pair
  of statements to be separated; `queue` has two.
* Three deferred jobs are a running one, a waiting one and one behind it; each is
  launched once. `Readers = {}`: a reader does what the tick does.
* `Wishes` says what the admins ask for each job. `tools_live` has two jobs and no
  pause, which begins nothing that a busy GPU does not begin too; `tools_labels` has
  one job, two labels and two agents, with pauses. Foreign credits and a job behind
  one that is revived need two jobs, label threads and merges do not.
* `MaxInflight = 2`, `ClaimBatch = 2`, `SubmitBatch = 1`, `HeadBatch = 2`: batches
  fill and stay half full. `MaxCopies = 4` is never reached by a claim.
* Three rows of a playback queue are one before, at and behind the pointer; a
  removed row in the way of a move needs two.
* Three events are a threshold, its completion and one of another play; each may
  come twice.
* `Slots = 2` and `MaxMoves = 2`, `MaxHandovers = 2`: any two requests overtake
  each other.
* `Attempts = 2` stands for the bot's four. One delivery may meet seven troubles,
  more than the six that `RetriesRunOut` allows, so that it is not the bound that
  ends its retries; the other one meets one at most.
* Symmetry is used only in runs without liveness: agents, threads, items.

### Fairness

* `AnalysisQueue`: threads that serve a request go on, the maintenance loop ticks
  every 15 seconds (weak); workers poll in a loop, so a claim or a report by the
  owner that is possible again and again happens (strong: they compete for
  request threads).
* `DeferredJobs`: a thread waiting for the lock gets it (strong): it is held for a
  few statements. One condition stands for all threads of jobs, since each is through
  after finitely many steps and cannot starve another. The analysis queue closes its
  jobs (weak), as `JobsCloseForGood` shows.
* `WorkerClient`: main thread and downloads run on (weak), the loop claims in
  every turn (strong), leases that nobody works for lapse (weak).
* `ToolJobs`: requests are served, the GPU is given back, labels' threads end
  (weak); the model loads if tried again and again and reports come due (strong).
* `BotDelivery`: a task goes on (weak) and gets its place at the encoder, a
  first-come-first-served semaphore (strong); this assumes that ffmpeg ends.
* `JobsEnd` assumes of the admins that they leave each job at "run" or at "cancel",
  and that no agent is told again and again to go on after it has begun to drop its
  labels. The second assumption is not the code's to make: without it `tools_resumed`
  fails.
* Nothing forces an admin to launch, cancel or poll. Deaths, restarts, losses and
  refusals are never fair. The other modules state no fairness.

### What the violated runs say

* `deferred_stuck`: a cancel between the pick of a job and its mark pops the
  starter of a job that is then marked queued (`app/services/jobs.py:172`): it
  never runs and everything behind it waits.
* `tools_resumed`: a cancel sets the agent's `stop` (`tools/agent/agent.py:298`) and
  nothing clears it. Resumed before its threads have ended, the agent fetches labels
  for ever and drops each (line 263); `docs/tools.md:28` says that it closes the job.
  The page still offers "Pause" and then "Resume" after a cancel
  (`app/ui.html:5377`). Only another cancel or a restart of the
  agent ends it.
* `playback_shuffle`: `set_queue_shuffle` reads the rows, another thread appends
  one, the reorder parks it at a negative position and never places it
  (`app/store/playback.py:511`). It plays first, where the docstring (505-506)
  says that it stays at the end.

### Disagreements without a run of their own

* Queue: a refresh overwrites a cancel that committed after it read
  (`app/store/jobs.py:836`); the job then ends as `completed`.
* Deferred jobs: a picker gives up the lock before it marks the job it picked
  (`app/services/jobs.py:170`), so that the tick sees nothing active and starts the
  next deferred job beside it, although each is shown as "Waiting for previous job"
  (line 133); a cancelled job that was already picked still starts, and one that
  is cancelled before its thread writes "running" runs on; a job cancelled while it
  is being deferred stays deferred without a place
  (`app/services/jobs.py:104-135`).
* Tools: progress read before a cancel and written after it revives the job
  (`app/store/tools.py:175`), against `docs/tools.md:27`, and `JobsEnd` shows that it
  ends again; two requests look for an active job before either creates one
  (`app/api/tools.py:127`), against `docs/tools.md:30`; `describe_next` cuts its list
  to the limit before it drops merged labels (`app/store/tools.py:291`), which is why
  `DoneIsDescribed` asks for fewer folded labels than slots; a long poll that its
  agent gave up can claim a job which nobody works on until the agent polls again.
* Playback: a move meets the index when a removed row holds a place it needs
  (`app/store/playback.py:646-690`), which `OnlyMovesFail` allows; a jump that
  read its row before the queue was replaced points to a row that is gone.
* Worker: a task acknowledged and then claimed again is not released by a drain
  (`app/cli.py:2006`), which `DrainLeaves` excepts; the failures of a head batch
  without a good item wait for the next flush; `--once` with a submit batch
  larger than what is buffered leaves answers unsent.
* Player: a cancelled retry key starts again at generation 1, so that an older
  attempt takes the newer jump's place in the registry
  (`backgroundRetry.ts:37-40`); a refresh that is answered late turns the pointer
  back after the jump was acknowledged; a jump whose deck is awaited while a
  handover supersedes it is scheduled all the same.
* Bot: a delivery whose audio is in the chat ends with the excuse for a failure when
  its event or its file_id cannot be saved (`delivery.py:180`, 731, 764); two
  deliveries in different qualities share files, so that a file_id may be cached for
  the wrong one; a failed preparation leaves its files to the sweep of the next
  start; a failure after the card became audio writes its text into
  the caption.

## 4. Proofs

Every invariant and every action property that a passing run checks, and both
refinements, are theorems of their specifications; `PickedInOrder` of `DeferredJobs`
is proved and in no run. The hypotheses are the named
assumptions on the constants (`ConstantsAssumption`, `BoundsAssumption`, ...),
which TLC evaluates in the runs; only `PlaybackQueueProofs` assumes more.

Each proof has the same shape: an inductive invariant, one lemma for each action
that can disturb it, `Init => IInv`, `IInv /\ [Next]_vars => IInv'`, and the
property as a consequence of `IInv` or of a step under it.

| Module | Theorems | The inductive invariant adds |
|---|---|---|
| `AnalysisQueueProofs` | `TypeCorrectness`, `LeasesHaveOwners`, `ResultsComeFirst`, `ClosedJobsStaySettled`, `RetriesAreGranted`, `SettledStays`, `Refinement` | what each local variable of a thread still guarantees when it is used |
| `WorkerClientProofs` | `TypeCorrectness`, `NoLeaseIsForgotten`, `PipelineStaysBounded`, `DrainsLeaveNothing` | which leases the worker knows of, and what a last flush has emptied |
| `DeferredJobsProofs` | `TypeCorrectness`, `QueueIsConsistent`, `JobsRunOnce`, `JobsArePickedInOrder` | the one way of a job through its request, the order, a picker and its runner |
| `ToolJobsProofs` | `TypeCorrectness`, `OneAgentWorksOnAJob`, `NoThreadIsLeftBehind`, `DoneJobsAreDescribed` | who may own a job, which reports are awaited, and what an empty answer proved |
| `PlaybackQueueProofs` | `TypeCorrectness`, `AddAndShuffleSucceed`, `PositionsSpellTheOrder` | what a thread has read is still true when it writes |
| `ListeningHistoryProofs` | `TypeCorrectness`, `ReportsAreRecordedOnce`, `LiveDecisionsAreDerived`, `NavidromeNeverCountsTwice`, `PlayCountsAreReal` | where each listen is on its way to Navidrome, and what a call has read |
| `PlayerSyncProofs` | `TypeCorrectness`, `TimersCanBeStopped`, `PagePinned`, `HandoverMovesPointerOnce` | what a request under way carries |
| `BotDeliveryProofs` | `TypeCorrectness`, `EveryAudioIsDeliveredOnce`, `AttemptsRunOut`, `OnlyFailuresLeaveFiles` | how many copies and troubles there can be at each step, and whose files they are |

### The arguments

* **AnalysisQueue.** `IInv == TypeOK /\ QueueInv /\ \A p : ThreadInv(p)`.
  `ClosedJobsAreSettled` says nothing of a thread that has counted and not yet
  written. `ThreadInv` does: a thread with `settled` has a `current` job whose
  tasks are all terminal; one about to complete has the result saved; a verdict
  `final_failed` on a retryable failure was computed from attempts that have only
  grown. That these facts survive the steps of *other* threads is isolated in one
  notion (`Monotone`: attempts and results only grow, terminal tasks stay
  terminal, jobs are not created again), proved once per action. `Refinement`
  maps each action, under `IInv`, to one action of `TaskLifecycle` or a stutter:
  a refresh may reopen a job and close it only over settled tasks.
* **WorkerClient.** A copy leaves the pipeline only for a buffer or when its task
  is not leased (`NoneDropped`), and every action either keeps the leases or
  puts what it claims in hand: that is `NoLeaseIsForgotten`. The bound of the
  pipeline is on a finite set (`HeldInv`, `CountsInv`), to which a claim adds at
  most one copy for each task it takes, and it takes at most the room that is
  left. For a drain, `KnownInv` says that a lease was told or its reply lost, and
  `FlushInv` what is empty at each stage of the last flush.
* **DeferredJobs.** `JobInv`: as long as a job can still be started it is in one
  place, and has not run. A waiting job has its starter, so a pick passes over a
  place only when its job is not deferred any more: `JobsArePickedInOrder`.
* **ToolJobs.** `Shape`, `QueuedIsFree`, `ReportsInv` and `AgentInv` give one
  agent per job. For `DoneJobsAreDescribed` the fact carried from the empty answer
  of the server, through the agent's last look and a report in flight, to the row
  is `Complete(j)`, which no step takes back: results only grow and folded labels
  stay folded. It begins with `FirstCovers`: if the first labels of a set, as many
  as were asked for, are all folded away, though fewer than that are, the set has
  no others.
* **PlaybackQueue.** Under `OneRequest` (one thread) `Knows(call)` relates what a
  command has read to the rows as they are when it writes: the last position is
  still above all, the planned places are distinct and agree with the order.
  `PlacesFollow` says that the index of a row in an order counts from 0 without a
  gap and is below another's exactly when the row is before it; with it, parking
  and placing meet no row, and the new positions spell the order `QueueOrder`
  asks for. `OneRequest` is not a convenience: `playback_shuffle` refutes these
  facts for two threads. The attempt at `TypeCorrectness` also showed that a
  session with more rows than `MaxRows` had been an initial state; `Init` excludes
  it.
* **ListeningHistory.** `NavidromeInv` counts each listen once: it is with
  Navidrome, with a thread about to submit it, or lost. A count that an import
  has read never exceeds what is there by now (`PlaysInv`), and what a rebuild
  has read is in the table already (`DerivedInv`).
* **PlayerSync.** An interval's number is the one its key's entry names
  (`RetryInv`); requests carry the item or client id of their call (`NetInv`).
* **BotDelivery.** `Tally(d)` is the count of copies per step: one for the upload,
  one for the card, and one for each call that was lost, refused or failed.
  `Spent(d)` is the same for the troubles themselves: at the call a delivery has
  come to, so many lie behind it and so many are those of the call's own attempts.

### What is only model-checked

Liveness, which the provers cannot reach: `JobsCloseForGood`, `LaunchedJobsRun`,
`StartedJobsClose`, `JobsEnd`, `EveryTaskIsAnswered` and `DeliveriesEnd`, each on its
instance and under the fairness above. So are the three violated properties. Sequences are
avoided where an order as a relation says the same (`QueueOrder`, `Places`,
`First`), because what a recursive definition computes cannot be proved by
induction here.

## 5. Plan

1. Label descriptions and the label sync: agent text against editorial edits,
   revert and merge, and the leases of a resumable run. Read so far: an edit made
   between the SELECT and the UPDATE of `save_agent_description` or `revert` is
   lost; hand text on a split label is dropped by a merge; `labels.id` is used
   again after a merge; a cancelled and relaunched sync overlaps its first run.
2. `PlaybackQueue` with several threads: which part of `TypeOK` and of `QueueOrder`
   remains true when a reorder and an addition overlap.
3. Restarts of the server in `DeferredJobs`, which leave a `"progress"` row
   running for ever.
4. Albums in `BotDelivery`; autoplay's refill as a client of `PlaybackQueue`.
5. Presence and listen-along; likes in `ListeningHistory`.

## 6. Not modelled

Texts, messages, progress figures, timestamps other than deadlines; worker
statistics; the content of vectors and scores and everything computed from
them (recommender, mixes, flow, map: floating point); single-statement stores
(sessions, devices, shares); the catalogue import, whose pages are idempotent
upserts; decks, prefetching and presentation of the player; texts and albums of
the bot; the workstation's command-line tools; deployment. `PROJECT.json` gives
the reason for each component.
