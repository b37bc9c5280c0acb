------------------------------ MODULE ToolJobs ------------------------------
(***************************************************************************)
(* Jobs of the tools worker: the table tool_jobs (app/store/tools.py), the *)
(* API over it (app/api/tools.py) and the agent on the workstation that    *)
(* polls for a job and works through its labels (tools/agent/agent.py).    *)
(*                                                                         *)
(* The agent waits for every answer and repeats a request that fails; a    *)
(* request it gave up may still be served.  As in AnalysisQueue, a handler *)
(* that reads with a SELECT and then writes takes two steps; a handler     *)
(* whose first statement writes is one transaction.                        *)
(*                                                                         *)
(* Only `describe' jobs are modelled: a music-fill command is one report   *)
(* of "done".  Texts, models and counters are left out.  Labels disappear   *)
(* while a job runs: the label sync folds duplicates into one of them.     *)
(***************************************************************************)
EXTENDS Naturals, FiniteSets, FiniteSetsExt, SequencesExt

CONSTANTS
    MaxJobs,     \* bound: jobs ever created
    Labels,
    LabelsOf,    \* the labels that the scope of each job asks for, largest first
    Workers,     \* ids of the agents
    Admins,      \* threads that serve the admin page
    Wishes,      \* what admins ask for each job: some of "run", "pause", "cancel"
    Nobody,      \* worker_id IS NULL
    Slots,       \* config "jobs": labels described at the same time
    MaxLosses    \* bound: requests given up, restarts and GPU shortages

Jobs == 1 .. MaxJobs

ASSUME ConstantsAssumption ==
    /\ MaxJobs \in Nat \ {0}
    /\ LabelsOf \in [Jobs -> Seq(Labels)]
    /\ \A j \in Jobs : IsInjective(LabelsOf[j])
    /\ IsFiniteSet(Labels)
    /\ Nobody \notin Workers
    /\ Wishes \in [Jobs -> SUBSET {"run", "pause", "cancel"}]
    /\ Slots \in Nat \ {0}
    /\ MaxLosses \in Nat

VARIABLES
    status,    \* tool_jobs.status
    control,   \* tool_jobs.control
    holder,    \* tool_jobs.worker_id
    list,      \* params.label_ids, in the order of LabelsOf
    credit,    \* label_agent_descriptions.job_id, 0 for a label without a row
    gone,      \* labels folded into another one: no row in labels
    quiet,     \* workers whose seen_at is more than 90 seconds old
    admin,     \* where each admin thread is and what it has read
    handlers,  \* progress requests between their SELECT and their UPDATE
    agent,     \* each agent's main thread: DescribeJob.run
    thinking,  \* labels whose thread works on them
    posting,   \* labels whose thread is past its last look at the stop event
    strays,    \* results whose sender gave up, not yet served
    busy,      \* agents whose GPU something else needs
    losses,    \* requests given up, restarts and GPU shortages so far
    results    \* history: <<job, label>> with a result of the job

rows == <<status, control, holder, list, credit, gone, quiet>>
inside == <<agent, thinking, posting, busy>>
vars == <<rows, admin, handlers, inside, strays, losses, results>>

Finished == {"done", "failed", "cancelled"}

Active == {j \in Jobs : status[j] \in {"queued", "running", "paused"}}

Idle == [pc |-> "idle", job |-> 0, wants |-> "run", asked |-> "running",
         stopped |-> FALSE, exhausted |-> FALSE]

NoRequest == [pc |-> "idle", job |-> 0, wish |-> "run", closes |-> FALSE]

Running(w) == thinking[w] \cup posting[w]

\* Faulty: labels that have a result are described again.
TodoForEver(j, exclude) == {l \in list[j] : l \notin exclude}

\* Faulty: a label that any job has described counts.
TodoOfAnyJob(j, exclude) == {l \in list[j] : credit[l] = 0 /\ l \notin exclude}

\* The labels of the job that have no result of the job.
Todo(j, exclude) == {l \in list[j] : credit[l] # j /\ l \notin exclude}

\* The labels of S before l in the order of the job.
Before(j, S, l) ==
    {k \in S : \E m, n \in DOMAIN LabelsOf[j] :
                  m < n /\ LabelsOf[j][m] = k /\ LabelsOf[j][n] = l}

\* The first labels of S, at most limit of them.
First(j, S, limit) == {l \in S : Cardinality(Before(j, S, l)) < limit}

\* describe_next: the list is cut before describe_inputs drops the labels that
\* have no row any more.
DescribeNext(j, limit, exclude) == First(j, Todo(j, exclude), limit) \ gone

Init ==
    /\ status = [j \in Jobs |-> "absent"]
    /\ control = [j \in Jobs |-> "run"]
    /\ holder = [j \in Jobs |-> Nobody]
    /\ list = [j \in Jobs |-> {}]
    /\ credit = [l \in Labels |-> 0]
    /\ gone = {}
    /\ quiet = {}
    /\ admin = [a \in Admins |-> NoRequest]
    /\ handlers = {}
    /\ agent = [w \in Workers |-> Idle]
    /\ thinking = [w \in Workers |-> {}]
    /\ posting = [w \in Workers |-> {}]
    /\ strays = {}
    /\ busy = {}
    /\ losses = 0
    /\ results = {}

-----------------------------------------------------------------------------
(* The admin page. *)

\* POST /tools/jobs: active_tool_job finds nothing ...
CheckActive(a) ==
    /\ admin[a].pc = "idle"
    /\ Active = {}
    /\ admin' = [admin EXCEPT ![a].pc = "create"]
    /\ UNCHANGED <<rows, handlers, inside, strays, losses, results>>

\* ... describe_label_ids lists the labels of the scope, and create_tool_job
\* inserts the next row unless there are none.
Create(a) ==
    /\ admin[a].pc = "create"
    /\ \E j \in Jobs :
         LET found == ToSet(LabelsOf[j]) \ gone
         IN /\ status[j] = "absent"
            /\ \A i \in 1 .. j - 1 : status[i] # "absent"
            /\ status' = [status EXCEPT ![j] = IF found = {} THEN @ ELSE "queued"]
            /\ list' = [list EXCEPT ![j] = found]
    /\ admin' = [admin EXCEPT ![a] = NoRequest]
    /\ UNCHANGED <<control, holder, credit, gone, quiet, handlers, inside, strays, losses,
                   results>>

\* POST /tools/jobs/<j>/control reads the job and whether its worker is online.
\* A cancel `closes' the job at once when nobody can confirm it: no worker has it or
\* its worker is away.
ControlCall(a, j, wish) ==
    /\ admin[a].pc = "idle"
    /\ status[j] # "absent"
    /\ admin' = [admin EXCEPT ![a] =
           [pc |-> "status", job |-> j, wish |-> wish,
            closes |-> wish = "cancel" /\ holder[j] \in quiet \cup {Nobody}]]
    /\ UNCHANGED <<rows, handlers, inside, strays, losses, results>>

\* set_tool_job_control, the SELECT: a finished job is left alone, and a cancel
\* closes one in the queue.
ControlRead(a) ==
    /\ admin[a].pc = "status"
    /\ LET r == admin[a]
           closes == r.closes \/ (r.wish = "cancel" /\ status[r.job] = "queued")
       IN admin' = [admin EXCEPT ![a] =
              IF status[r.job] \in Finished
              THEN NoRequest
              ELSE [r EXCEPT !.pc = "write", !.closes = closes]]
    /\ UNCHANGED <<rows, handlers, inside, strays, losses, results>>

\* Faulty: the wish is written where the status belongs.
ClosedByWish == "cancel"

\* The status of a job that is closed at once.
ClosedByAdmin == "cancelled"

\* Its UPDATEs.
ControlWrite(a) ==
    /\ admin[a].pc = "write"
    /\ LET r == admin[a]
       IN /\ control' = [control EXCEPT ![r.job] = r.wish]
          /\ status' = [status EXCEPT ![r.job] = IF r.closes THEN ClosedByAdmin ELSE @]
    /\ admin' = [admin EXCEPT ![a] = NoRequest]
    /\ UNCHANGED <<holder, list, credit, gone, quiet, handlers, inside, strays, losses,
                   results>>

-----------------------------------------------------------------------------
(* The API of the agents. *)

Open(j) == status[j] \in {"running", "paused"}

\* Faulty: the worker's id is not asked for.
OwnOfAnyone(w) == {j \in Jobs : Open(j)}

\* The unfinished jobs in the worker's name.
Own(w) == {j \in Jobs : Open(j) /\ holder[j] = w}

Wanted == {j \in Jobs : control[j] # "cancel"}

\* Faulty: a restarted worker does not get its job back.
OldestQueued(w) ==
    LET queued == {j \in Wanted : status[j] = "queued"}
    IN IF queued = {} THEN {} ELSE {Min(queued)}

\* The job for a worker, if any: its own unfinished one (it was restarted),
\* else the oldest in the queue.
NextJob(w) ==
    LET mine == Own(w) \cap Wanted
        queued == {j \in Wanted : status[j] = "queued"}
    IN IF mine # {} THEN {Min(mine)}
       ELSE IF queued # {} THEN {Min(queued)} ELSE {}

\* Own jobs cancelled while the worker was off: it will not finish them.
Unwanted(w) == Own(w) \ Wanted

\* claim_tool_job, one transaction: its first statement writes.  The poll before
\* it says that the worker is there.
ClaimRows(w) ==
    LET next == NextJob(w)
    IN /\ status' = [j \in Jobs |->
              IF j \in Unwanted(w) THEN "cancelled"
              ELSE IF j \in next /\ status[j] = "queued" THEN "running" ELSE status[j]]
       /\ holder' = [j \in Jobs |-> IF j \in next THEN w ELSE holder[j]]
       /\ quiet' = quiet \ {w}
       /\ UNCHANGED <<control, list, credit, gone>>

\* POST /tools/workers/<w>/poll: tool_worker_seen, then the claim.  The agent's
\* first iteration always reports.
Poll(w) ==
    /\ agent[w].pc = "idle"
    /\ ClaimRows(w)
    /\ LET next == NextJob(w)
       IN agent' = [agent EXCEPT ![w] =
              IF next = {} THEN @
              ELSE [Idle EXCEPT !.pc = "report", !.job = Min(next),
                       !.asked = IF w \in busy THEN "paused" ELSE "running"]]
    /\ UNCHANGED <<admin, handlers, thinking, posting, strays, busy, losses, results>>

\* The answer to a progress request: the agent goes on with its iteration, or
\* is through with the job if that was its last report.
Answered(w, wants) ==
    agent' = [agent EXCEPT ![w] =
        IF @.pc = "close" THEN Idle
        ELSE [@ EXCEPT !.pc = "act", !.wants = wants, !.asked = "running"]]

\* update_tool_job, the SELECT.  A finished job is not written.
ProgressRead(w) ==
    /\ agent[w].pc \in {"report", "close"}
    /\ \A h \in handlers : ~(h.worker = w /\ h.awaited)
    /\ LET j == agent[w].job
       IN IF status[j] \in Finished
          THEN /\ Answered(w, IF status[j] = "cancelled" THEN "cancel" ELSE control[j])
               /\ quiet' = quiet \ {w}
               /\ UNCHANGED handlers
          ELSE /\ handlers' = handlers \cup
                      {[worker |-> w, job |-> j, asked |-> agent[w].asked,
                        control |-> control[j], awaited |-> TRUE]}
               /\ UNCHANGED <<agent, quiet>>
    /\ UNCHANGED <<status, control, holder, list, credit, gone, admin, thinking, posting, strays,
                   busy, losses, results>>

\* update_tool_job, the UPDATE: what the row has become meanwhile is not asked.
ProgressWrite(h) ==
    /\ h \in handlers
    /\ status' = [status EXCEPT ![h.job] = h.asked]
    /\ quiet' = quiet \ {h.worker}
    /\ handlers' = handlers \ {h}
    /\ IF h.awaited THEN Answered(h.worker, h.control) ELSE UNCHANGED agent
    /\ UNCHANGED <<control, holder, list, credit, gone, admin, thinking, posting, strays, busy,
                   losses, results>>

\* save_agent_description credits the label to the job, whatever the job's status.
\* For a label without a row it answers 404, which nobody looks at.
Record(j, l) ==
    IF l \in gone
    THEN UNCHANGED <<credit, results>>
    ELSE /\ credit' = [credit EXCEPT ![l] = j]
         /\ results' = results \cup {<<j, l>>}

StrayResult(j, l) ==
    /\ <<j, l>> \in strays
    /\ Record(j, l)
    /\ strays' = strays \ {<<j, l>>}
    /\ UNCHANGED <<status, control, holder, list, gone, quiet, admin, handlers, inside, losses>>

-----------------------------------------------------------------------------
(* The agent: the main thread of DescribeJob.run. *)

At(w, label) == agent[w].pc = label

\* In an iteration, past the report if one was due.
Acts(w) == agent[w].pc \in {"loop", "act"}

\* The end of an iteration.
NextIteration(w, exhausted) ==
    agent' = [agent EXCEPT ![w].exhausted = exhausted,
        ![w].pc = IF exhausted /\ Running(w) = {} THEN "check" ELSE "loop"]

\* The top of an iteration; a report is due every few seconds.  When none is,
\* the steps below follow at once.
Report(w) ==
    /\ At(w, "loop")
    /\ agent' = [agent EXCEPT ![w].pc = "report", ![w].asked =
           IF (agent[w].wants = "pause" \/ w \in busy) /\ Running(w) = {}
           THEN "paused" ELSE "running"]
    /\ UNCHANGED <<rows, admin, handlers, thinking, posting, strays, busy, losses, results>>

\* The agent's last report on the job.
Close(w, final) == agent' = [agent EXCEPT ![w].pc = "close", ![w].asked = final]

\* Faulty: a dropped job is reported as done.
DroppedAsDone == "done"

\* Faulty: threads that still run are not waited for.
ThreadsForgotten(w) == TRUE

\* The last report of a job that was dropped.
Dropped == "cancelled"

\* No thread of a label is left.
ThreadsEnded(w) == Running(w) = {}

\* control == "cancel": drop what was begun; confirm when no thread is left.
Drop(w) ==
    /\ Acts(w)
    /\ agent[w].wants = "cancel"
    /\ IF ThreadsEnded(w)
       THEN Close(w, Dropped)
       ELSE agent' = [agent EXCEPT ![w].pc = "loop", ![w].stopped = TRUE]
    /\ UNCHANGED <<rows, admin, handlers, thinking, posting, strays, busy, losses, results>>

\* A pause, a busy GPU, no free slot or no label left: nothing new is begun.
Rest(w) ==
    /\ Acts(w)
    /\ agent[w].wants # "cancel"
    /\ \/ agent[w].wants = "pause" \/ w \in busy
       \/ agent[w].exhausted \/ Cardinality(Running(w)) >= Slots
    /\ NextIteration(w, agent[w].exhausted)
    /\ UNCHANGED <<rows, admin, handlers, thinking, posting, strays, busy, losses, results>>

\* POST describe/next; the labels in work are excluded.
Fetch(w) ==
    /\ Acts(w)
    /\ agent[w].wants = "run" /\ w \notin busy
    /\ ~agent[w].exhausted
    /\ Cardinality(Running(w)) < Slots
    /\ LET fetched == DescribeNext(agent[w].job, Slots - Cardinality(Running(w)), Running(w))
       IN /\ thinking' = [thinking EXCEPT ![w] = @ \cup fetched]
          /\ NextIteration(w, fetched = {} /\ Running(w) = {})
    /\ UNCHANGED <<rows, admin, handlers, posting, strays, busy, losses, results>>

\* The model does not load: the exception waits for the threads, then the job
\* is reported as failed.
LoadFails(w) ==
    /\ Acts(w)
    /\ agent[w].wants = "run" /\ w \notin busy
    /\ ~agent[w].exhausted
    /\ Cardinality(Running(w)) < Slots
    /\ agent' = [agent EXCEPT ![w].pc = "drain"]
    /\ UNCHANGED <<rows, admin, handlers, thinking, posting, strays, busy, losses, results>>

Fail(w) ==
    /\ At(w, "drain")
    /\ ThreadsEnded(w)
    /\ Close(w, "failed")
    /\ UNCHANGED <<rows, admin, handlers, thinking, posting, strays, busy, losses, results>>

\* Before it says "done" the agent asks once more, with nothing excluded.
LookAgain(w) ==
    /\ At(w, "check")
    /\ IF DescribeNext(agent[w].job, 1, {}) = {}
       THEN Close(w, "done")
       ELSE agent' = [agent EXCEPT ![w].pc = "loop", ![w].exhausted = FALSE]
    /\ UNCHANGED <<rows, admin, handlers, thinking, posting, strays, busy, losses, results>>

-----------------------------------------------------------------------------
(* The agent: the thread of a label. *)

\* The research ended, well or with an exception: unless the job was stopped,
\* there is a result to send.
Researched(w, l) ==
    /\ l \in thinking[w]
    /\ thinking' = [thinking EXCEPT ![w] = @ \ {l}]
    /\ posting' = [posting EXCEPT ![w] = IF agent[w].stopped THEN @ ELSE @ \cup {l}]
    /\ UNCHANGED <<rows, admin, handlers, agent, strays, busy, losses, results>>

\* POST describe/results
PostResult(w, l) ==
    /\ l \in posting[w]
    /\ Record(agent[w].job, l)
    /\ posting' = [posting EXCEPT ![w] = @ \ {l}]
    /\ UNCHANGED <<status, control, holder, list, gone, quiet, admin, handlers, agent, thinking,
                   strays, busy, losses>>

-----------------------------------------------------------------------------
(* What happens around them. *)

\* The label sync finds that two labels are one and folds the other into main.
\* Its record moves along if main takes over its text.
Merge(main, other) ==
    /\ main # other
    /\ {main, other} \cap gone = {}
    /\ gone' = gone \cup {other}
    /\ \E job \in {credit[main]} \cup ({credit[other]} \ {0}) :
         /\ credit' = [credit EXCEPT ![main] = job, ![other] = 0]
         /\ results' = results \cup ({<<job, main>>} \cap (Jobs \X Labels))
    /\ UNCHANGED <<status, control, holder, list, quiet, admin, handlers, inside, strays, losses>>

Unheard(w) ==
    handlers' = {IF h.worker = w THEN [h EXCEPT !.awaited = FALSE] ELSE h : h \in handlers}

Lose == losses < MaxLosses /\ losses' = losses + 1

\* A progress request times out or the connection breaks: _call repeats it.
\* The report of a failed job is not repeated, the job stays with the worker.
ProgressLost(w) ==
    /\ Lose
    /\ \E h \in handlers : h.worker = w /\ h.awaited
    /\ Unheard(w)
    /\ agent' = [agent EXCEPT ![w] = IF @.asked = "failed" THEN Idle ELSE @]
    /\ UNCHANGED <<rows, admin, thinking, posting, strays, busy, results>>

\* A result is sent again although the first request may still be served.
ResultLost(w, l) ==
    /\ Lose
    /\ l \in posting[w]
    /\ strays' = strays \cup {<<agent[w].job, l>>}
    /\ UNCHANGED <<rows, admin, handlers, inside, results>>

\* The agent's process or machine restarts; what it had sent may still be served.
Restart(w) ==
    /\ Lose
    /\ Unheard(w)
    /\ agent' = [agent EXCEPT ![w] = Idle]
    /\ thinking' = [thinking EXCEPT ![w] = {}]
    /\ posting' = [posting EXCEPT ![w] = {}]
    /\ \E S \in SUBSET posting[w] : strays' = strays \cup ({agent[w].job} \X S)
    /\ UNCHANGED <<rows, admin, busy, results>>

\* A long poll that the agent gave up goes on on the server for up to a minute and
\* claims a job for it, whatever the agent is at by then.
StrayPoll(w) ==
    /\ Lose
    /\ ClaimRows(w)
    /\ UNCHANGED <<admin, handlers, inside, strays, results>>

\* The server deploys: requests between two statements are gone.
HandlerDies(h) ==
    /\ h \in handlers
    /\ Lose
    /\ handlers' = handlers \ {h}
    /\ agent' = [agent EXCEPT ![h.worker] =
           IF h.awaited /\ @.asked = "failed" THEN Idle ELSE @]
    /\ UNCHANGED <<rows, admin, thinking, posting, strays, busy, results>>

\* 90 seconds without a request: the model loads, the machine sleeps.
FallsQuiet(w) ==
    /\ w \notin quiet
    /\ quiet' = quiet \cup {w}
    /\ UNCHANGED <<status, control, holder, list, credit, gone, admin, handlers, inside, strays,
                   losses, results>>

\* Another program takes the GPU memory, or gives it back.
GpuTaken(w) ==
    /\ Lose
    /\ w \notin busy
    /\ busy' = busy \cup {w}
    /\ UNCHANGED <<rows, admin, handlers, agent, thinking, posting, strays, results>>

GpuFree(w) ==
    /\ w \in busy
    /\ busy' = busy \ {w}
    /\ UNCHANGED <<rows, admin, handlers, agent, thinking, posting, strays, losses, results>>

-----------------------------------------------------------------------------

Manage(a) ==
    \/ CheckActive(a) \/ Create(a) \/ ControlRead(a) \/ ControlWrite(a)
    \/ \E j \in Jobs : \E wish \in Wishes[j] : ControlCall(a, j, wish)

Work(w) ==
    \/ Poll(w) \/ ProgressRead(w)
    \/ Report(w) \/ Drop(w) \/ Rest(w) \/ Fetch(w)
    \/ LoadFails(w) \/ Fail(w) \/ LookAgain(w)

Describe(w, l) == Researched(w, l) \/ PostResult(w, l)

Trouble(w) ==
    \/ ProgressLost(w) \/ Restart(w) \/ StrayPoll(w) \/ FallsQuiet(w) \/ GpuTaken(w)
    \/ \E l \in Labels : ResultLost(w, l)

Next ==
    \/ \E a \in Admins : Manage(a)
    \/ \E w \in Workers : Work(w) \/ Trouble(w) \/ GpuFree(w)
    \/ \E w \in Workers, l \in Labels : Describe(w, l)
    \/ \E h \in handlers : ProgressWrite(h) \/ HandlerDies(h)
    \/ \E j \in Jobs, l \in Labels : StrayResult(j, l)
    \/ \E main, other \in Labels : Merge(main, other)

Spec == Init /\ [][Next]_vars

\* Threads run on, requests are served in the end, the program that took the GPU
\* ends, the model loads if it is tried again and again, and reports come due.
Fairness ==
    /\ \A a \in Admins : WF_vars(Create(a) \/ ControlRead(a) \/ ControlWrite(a))
    /\ \A w \in Workers :
         /\ WF_vars(Work(w)) /\ SF_vars(Fetch(w)) /\ SF_vars(Report(w))
         /\ WF_vars(GpuFree(w))
         /\ \A l \in Labels : WF_vars(Describe(w, l))
    /\ WF_vars(\E h \in handlers : ProgressWrite(h))
    /\ WF_vars(\E j \in Jobs, l \in Labels : StrayResult(j, l))

FairSpec == Spec /\ Fairness

-----------------------------------------------------------------------------

Calls ==
    [worker : Workers, job : Jobs, control : {"run", "pause", "cancel"}, awaited : BOOLEAN,
     asked : {"running", "paused"} \cup Finished]

TypeOK ==
    /\ status \in [Jobs -> {"absent", "queued", "running", "paused"} \cup Finished]
    /\ control \in [Jobs -> {"run", "pause", "cancel"}]
    /\ holder \in [Jobs -> Workers \cup {Nobody}]
    /\ list \in [Jobs -> SUBSET Labels]
    /\ credit \in [Labels -> Jobs \cup {0}] /\ gone \subseteq Labels
    /\ quiet \subseteq Workers /\ busy \subseteq Workers
    /\ admin \in [Admins ->
           [pc : {"idle", "create", "status", "write"}, job : Jobs \cup {0},
            wish : {"run", "pause", "cancel"}, closes : BOOLEAN]]
    /\ handlers \subseteq Calls
    /\ agent \in [Workers ->
           [pc : {"idle", "loop", "report", "act", "check", "drain", "close"},
            job : Jobs \cup {0}, wants : {"run", "pause", "cancel"},
            asked : {"running", "paused"} \cup Finished,
            stopped : BOOLEAN, exhausted : BOOLEAN]]
    /\ thinking \in [Workers -> SUBSET Labels]
    /\ posting \in [Workers -> SUBSET Labels]
    /\ strays \subseteq Jobs \X Labels
    /\ losses \in 0 .. MaxLosses
    /\ results \subseteq Jobs \X Labels

\* Two agents never work on the same job, although polls are answered late, the
\* agents restart and a job that was closed under its agent can be asked for
\* again: whoever works on a job is the worker in its row.
OneAgentPerJob ==
    \A w \in Workers : agent[w].pc # "idle" => holder[agent[w].job] = w

\* The labels of a job's list that are still there and never had a result of it.
LeftOut(j) == {l \in list[j] \ gone : <<j, l>> \notin results}

\* While fewer labels of its list were folded away than are described at a time, a
\* job says "done" only when each of the others has had a result of this very job:
\* restarts, repeated requests and results that another job wrote over do not let
\* the agent leave one out.
DoneIsDescribed ==
    \A j \in Jobs :
        status[j] = "done" /\ Cardinality(list[j] \cap gone) < Slots => LeftOut(j) = {}

\* A label's thread that the agent still waits for belongs to the job it is on,
\* and the agent reports the end of a job only when no such thread is left.
NothingLeftBehind ==
    \A w \in Workers : agent[w].pc \in {"idle", "close"} => Running(w) = {}

\* The agent has begun to drop the labels of its job and was told to go on.
Resumed(w) == agent[w].stopped /\ agent[w].wants # "cancel"

\* Once the admins leave every job at "run" or at "cancel", and no agent is told to
\* go on after it began to drop its labels, the jobs all end and stay ended, although
\* late progress may revive one for a while: a cancel closes its job, confirmed by
\* the agent or not.  A job that is kept paused keeps its agent, and the jobs behind
\* it wait.
JobsEnd ==
    (/\ <>[][FALSE]_control
     /\ <>[](/\ \A j \in Jobs : control[j] # "pause"
             /\ \A w \in Workers : ~Resumed(w)))
        => <>[](\A j \in Jobs : status[j] \in Finished \cup {"absent"})

\* Of an agent that begins to drop the labels of its job, docs/tools.md says that it
\* closes the job itself then: it gets through with it although the admins wish it
\* to run again meanwhile, and leave it at that.
DroppedJobsClose ==
    (\A j \in Jobs : <>[](control[j] = "run"))
        => \A w \in Workers : agent[w].stopped ~> agent[w].pc = "idle"

=============================================================================
