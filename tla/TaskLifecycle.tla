--------------------------- MODULE TaskLifecycle ---------------------------
(***************************************************************************)
(* What the analysis queue promises, without its threads, leases, retries  *)
(* and statements: a task waits, is held, and ends done or refused; a job  *)
(* is closed only when all its tasks have ended.                           *)
(***************************************************************************)
EXTENDS Naturals

CONSTANTS Jobs, Tasks, JobOf

VARIABLES
    phase,   \* of a job: absent, open or closed
    stage,   \* of a task: absent, waiting, held, done or refused
    results  \* tasks with a recorded result

vars == <<phase, stage, results>>

TasksOf(j) == {t \in Tasks : JobOf[t] = j}

Ended(j) == \A t \in TasksOf(j) : stage[t] \in {"done", "refused"}

\* The tasks of S move to `value', the others stay.
Move(S, value) == stage' = [t \in Tasks |-> IF t \in S THEN value ELSE stage[t]]

Init ==
    /\ phase = [j \in Jobs |-> "absent"]
    /\ stage = [t \in Tasks |-> "absent"]
    /\ results = {}

\* A job comes with all its tasks; one without tasks is closed at once.
Post(j) ==
    /\ phase[j] = "absent"
    /\ phase' = [phase EXCEPT ![j] = IF TasksOf(j) = {} THEN "closed" ELSE "open"]
    /\ Move(TasksOf(j), "waiting")
    /\ UNCHANGED results

\* Only waiting tasks of open jobs are given out.
Take(S) ==
    /\ \A t \in S : stage[t] = "waiting" /\ phase[JobOf[t]] = "open"
    /\ Move(S, "held")
    /\ UNCHANGED <<phase, results>>

\* A lease lapses, is released or ends in a failure worth another attempt.
GiveBack(S) ==
    /\ \A t \in S : stage[t] = "held"
    /\ Move(S, "waiting")
    /\ UNCHANGED <<phase, results>>

Record(t) ==
    /\ stage[t] # "absent"
    /\ results' = results \cup {t}
    /\ UNCHANGED <<phase, stage>>

\* Only a held task with a result is done.
Finish(t) ==
    /\ stage[t] = "held" /\ t \in results
    /\ Move({t}, "done")
    /\ UNCHANGED <<phase, results>>

\* A task may be refused at any time, even when it is done already.
Refuse(t) ==
    /\ stage[t] # "absent"
    /\ Move({t}, "refused")
    /\ UNCHANGED <<phase, results>>

Close(j) ==
    /\ phase[j] # "absent" /\ Ended(j)
    /\ phase' = [phase EXCEPT ![j] = "closed"]
    /\ UNCHANGED <<stage, results>>

\* A refresh that is late may open a closed job again.
Reopen(j) ==
    /\ phase[j] = "closed"
    /\ phase' = [phase EXCEPT ![j] = "open"]
    /\ UNCHANGED <<stage, results>>

\* Cancelling refuses what has not ended and closes the job in the same step.
Abandon(j) ==
    /\ phase[j] # "absent"
    /\ phase' = [phase EXCEPT ![j] = "closed"]
    /\ Move({t \in TasksOf(j) : stage[t] \in {"waiting", "held"}}, "refused")
    /\ UNCHANGED results

Next ==
    \/ \E j \in Jobs : Post(j) \/ Close(j) \/ Reopen(j) \/ Abandon(j)
    \/ \E S \in SUBSET Tasks : Take(S) \/ GiveBack(S)
    \/ \E t \in Tasks : Record(t) \/ Finish(t) \/ Refuse(t)

Spec == Init /\ [][Next]_vars

=============================================================================
