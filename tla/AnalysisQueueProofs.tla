------------------------ MODULE AnalysisQueueProofs ------------------------
(***************************************************************************)
(* Proofs about AnalysisQueue.  The invariant is split into what relates   *)
(* the rows of the tables (QueueInv) and what a thread still knows of them *)
(* (ThreadInv).  No step of another thread breaks what a thread knows,     *)
(* because every step is Monotone: rows stay, settled tasks stay settled,  *)
(* results stay recorded and attempts only grow.                           *)
(***************************************************************************)
EXTENDS AnalysisQueue, TLAPS

\* Rows of a job and of its tasks appear together; only leases lapse.
RowsAgree ==
    \A t \in Tasks :
        /\ status[t] = "absent" <=> job[JobOf[t]] = "absent"
        /\ attempts[t] > 0 => status[t] # "absent"
        /\ t \in lapsed => status[t] = "leased"

QueueInv ==
    /\ LeaseHasOwner
    /\ ResultBeforeCompletion
    /\ ClosedJobsAreSettled
    /\ RowsAgree

\* Labels at which call[p].task is the task of the request.
OnTask == {"validate", "save", "complete", "failRead", "failWrite", "audio"}

\* Labels at which call[p].worker is a worker.
ByWorker == {"claim", "validate", "save", "complete"}

ThreadInv(p) ==
    /\ pc[p] \in OnTask \/ after[p] \in OnTask => status[call[p].task] # "absent"
    /\ pc[p] \notin {"refresh", "count", "write"} => after[p] = "idle"
    /\ pc[p] \in ByWorker \/ after[p] \in ByWorker => call[p].worker # NoOwner
    /\ pc[p] = "complete" => call[p].task \in saved
    /\ pc[p] \in {"count", "write"} => job[current[p]] # "absent"
    /\ pc[p] = "write" /\ settled[p] => AllSettled(current[p])
    /\ call[p].worker = NoOwner => call[p].retryable = FALSE
    /\ pc[p] = "failWrite" /\ verdict[p] = "queued" => call[p].retryable
    /\ pc[p] = "failWrite" /\ call[p].retryable /\ verdict[p] = "final_failed"
           => attempts[call[p].task] >= MaxAttempts

IInv == TypeOK /\ QueueInv /\ \A p \in Threads : ThreadInv(p)

Monotone ==
    /\ \A t \in Tasks :
         /\ status[t] # "absent" => status'[t] # "absent"
         /\ status[t] \in Terminal => status'[t] \in Terminal
         /\ attempts'[t] >= attempts[t]
    /\ \A j \in Jobs : job[j] # "absent" => job'[j] # "absent"
    /\ saved \subseteq saved'

\* The local variables of thread p are what they were.
Idles(p) ==
    /\ pc'[p] = pc[p] /\ call'[p] = call[p] /\ verdict'[p] = verdict[p]
    /\ after'[p] = after[p] /\ current'[p] = current[p] /\ settled'[p] = settled[p]

\* What a step of thread p owes for IInv: the others only see it Monotone.
StepOK(p) ==
    /\ TypeOK' /\ QueueInv' /\ ThreadInv(p)' /\ Monotone /\ KeepsSettled
    /\ \A q \in Threads \ {p} : Idles(q)

-----------------------------------------------------------------------------

\* The values that stand for "no request" and "no job" are of the right type.
LEMMA Defaults == NoCall \in Calls /\ NoCall.worker = NoOwner
                  /\ NoCall.retryable = FALSE /\ NoJob \in Jobs
BY ConstantsAssumption DEF NoCall, NoJob, Calls

\* What thread q knows survives any monotone step of another thread.
LEMMA KnowledgeIsStable ==
    ASSUME TypeOK, TypeOK', Monotone, NEW q \in Threads, Idles(q), ThreadInv(q)
    PROVE  ThreadInv(q)'
<1>1. call[q].task \in Tasks /\ current[q] \in Jobs
  BY DEF TypeOK, Calls
<1>2. AllSettled(current[q]) => AllSettled(current[q])'
  BY DEF Monotone, Idles, AllSettled, TasksOf
<1>3. attempts[call[q].task] \in Nat /\ attempts'[call[q].task] \in Nat
  BY <1>1 DEF TypeOK
<1>4. attempts[call[q].task] >= MaxAttempts => attempts'[call[q].task] >= MaxAttempts
  BY <1>1, <1>3, ConstantsAssumption DEF Monotone
<1> QED
  BY <1>1, <1>2, <1>4 DEF ThreadInv, Idles, Monotone

\* A step that does what StepOK asks preserves the invariant.
LEMMA StepPreserves ==
    ASSUME IInv, NEW p \in Threads, StepOK(p)
    PROVE  IInv'
<1>1. \A q \in Threads \ {p} : ThreadInv(q)'
  BY KnowledgeIsStable DEF IInv, StepOK
<1> QED
  BY <1>1 DEF IInv, StepOK

-----------------------------------------------------------------------------
(* The parts of QueueInv and Monotone that whole groups of actions share. *)

\* A step that only moves a thread leaves the rows as they are.
LEMMA RowsUnchanged ==
    ASSUME IInv, UNCHANGED queueVars
    PROVE  QueueInv' /\ Monotone /\ KeepsSettled
<1>1. QueueInv'
  BY DEF IInv, QueueInv, LeaseHasOwner, ResultBeforeCompletion,
     ClosedJobsAreSettled, AllSettled, RowsAgree, queueVars
<1>2. Monotone
  BY DEF IInv, TypeOK, Monotone, queueVars
<1>3. KeepsSettled
  BY DEF KeepsSettled, queueVars
<1> QED
  BY <1>1, <1>2, <1>3

\* Expiring leases puts back leased tasks only, of jobs that are not closed.
LEMMA ExpireKeeps ==
    ASSUME IInv, ExpireRows
    PROVE  QueueInv' /\ Monotone /\ KeepsSettled
<1> USE DEF IInv, QueueInv, ExpireRows, RowsAgree
<1>1. LeaseHasOwner'
  BY DEF LeaseHasOwner
<1>2. ResultBeforeCompletion'
  BY DEF ResultBeforeCompletion
<1>3. ClosedJobsAreSettled'
  BY DEF ClosedJobsAreSettled, AllSettled, TasksOf, Terminal
<1>4. RowsAgree'
  BY DEF TypeOK
<1>5. Monotone
  BY DEF Monotone, TypeOK, Terminal
<1>6. KeepsSettled
  BY DEF KeepsSettled
<1> QED
  BY <1>1, <1>2, <1>3, <1>4, <1>5, <1>6

-----------------------------------------------------------------------------
(* Control of requests that only read. *)

LEMMA RefreshReadStep ==
    ASSUME IInv, NEW p \in Threads,
           RefreshRead(p)
    PROVE  StepOK(p)
<1> USE DEF IInv, RefreshRead
<1>1. TypeOK'
  BY DEF TypeOK, Terminal, Threads, Labels, Resumptions, queueVars,
     RefreshThen, Goto
<1>2. QueueInv' /\ Monotone /\ KeepsSettled
  BY RowsUnchanged
<1>3. ThreadInv(p)'
  BY DEF ThreadInv, TypeOK, OnTask, ByWorker, queueVars, Resumptions,
     RefreshThen, Goto
<1>4. \A q \in Threads \ {p} : Idles(q)
  BY DEF TypeOK, Idles, RefreshThen, Goto
<1> QED
  BY <1>1, <1>2, <1>3, <1>4 DEF StepOK

LEMMA RefreshCountStep ==
    ASSUME IInv, NEW p \in Threads,
           RefreshCount(p)
    PROVE  StepOK(p)
<1> USE DEF IInv, RefreshCount
<1>1. TypeOK'
  BY DEF TypeOK, Labels, AllSettled, queueVars, Goto
<1>2. QueueInv' /\ Monotone /\ KeepsSettled
  BY RowsUnchanged
<1>3. ThreadInv(p)'
  BY DEF ThreadInv, TypeOK, OnTask, ByWorker, queueVars, AllSettled, Goto
<1>4. \A q \in Threads \ {p} : Idles(q)
  BY DEF Idles, Goto
<1> QED
  BY <1>1, <1>2, <1>3, <1>4 DEF StepOK

LEMMA ValidateStep ==
    ASSUME IInv, NEW p \in Threads,
           Validate(p)
    PROVE  StepOK(p)
<1> USE DEF IInv, Validate, Accepted
<1>1. TypeOK'
  BY DEF TypeOK, Labels, queueVars, Goto
<1>2. QueueInv' /\ Monotone /\ KeepsSettled
  BY RowsUnchanged
<1>3. ThreadInv(p)'
  BY <1>1, <1>2, KnowledgeIsStable, Defaults, ConstantsAssumption DEF
     ThreadInv, TypeOK, OnTask, ByWorker, Monotone, Calls, queueVars,
     threadVars, Threads, AllSettled, TasksOf, Terminal, Resumptions, QueueInv,
     RowsAgree, LeaseHasOwner, Labels, Goto, Leased, Idles
<1>4. \A q \in Threads \ {p} : Idles(q)
  BY DEF Idles, Goto
<1> QED
  BY <1>1, <1>2, <1>3, <1>4 DEF StepOK

LEMMA SaveFailsStep ==
    ASSUME IInv, NEW p \in Threads,
           SaveFails(p)
    PROVE  StepOK(p)
<1> USE DEF IInv, SaveFails
<1>1. TypeOK'
  BY DEF TypeOK, Labels, queueVars, Goto
<1>2. QueueInv' /\ Monotone /\ KeepsSettled
  BY RowsUnchanged
<1>3. ThreadInv(p)'
  BY DEF ThreadInv, OnTask, ByWorker, queueVars, Goto
<1>4. \A q \in Threads \ {p} : Idles(q)
  BY DEF Idles, Goto
<1> QED
  BY <1>1, <1>2, <1>3, <1>4 DEF StepOK

LEMMA FailReadStep ==
    ASSUME IInv, NEW p \in Threads,
           FailRead(p)
    PROVE  StepOK(p)
<1> USE DEF IInv, FailRead, Verdict
<1>1. TypeOK'
  BY Defaults DEF TypeOK, Threads, Labels, queueVars, Goto, Drop
<1>2. QueueInv' /\ Monotone /\ KeepsSettled
  BY RowsUnchanged
<1>3. ThreadInv(p)'
  BY <1>1, <1>2, KnowledgeIsStable, Defaults, ConstantsAssumption DEF
     ThreadInv, TypeOK, OnTask, ByWorker, Monotone, Calls, queueVars,
     threadVars, Threads, AllSettled, TasksOf, Terminal, Resumptions, QueueInv,
     RowsAgree, LeaseHasOwner, Labels, Goto, Drop, Idles
<1>4. \A q \in Threads \ {p} : Idles(q)
  BY DEF TypeOK, Idles, Goto, Drop
<1> QED
  BY <1>1, <1>2, <1>3, <1>4 DEF StepOK

LEMMA LocalReportStep ==
    ASSUME IInv, NEW p \in Threads, NEW w \in Workers, NEW t \in Tasks,
    NEW retryable \in BOOLEAN, NEW label \in {"save", "failRead"},
           LocalReport(p, w, t, retryable, label)
    PROVE  StepOK(p)
<1> USE DEF IInv, LocalReport
<1>1. TypeOK'
  BY DEF TypeOK, Calls, Labels, queueVars, Request, Goto
<1>2. QueueInv' /\ Monotone /\ KeepsSettled
  BY RowsUnchanged
<1>3. ThreadInv(p)'
  BY <1>1, <1>2, KnowledgeIsStable, Defaults, ConstantsAssumption DEF
     ThreadInv, TypeOK, OnTask, ByWorker, Monotone, Calls, queueVars,
     threadVars, Threads, AllSettled, TasksOf, Terminal, Resumptions, QueueInv,
     RowsAgree, LeaseHasOwner, Labels, Request, Goto, Given, Idles
<1>4. \A q \in Threads \ {p} : Idles(q)
  BY DEF Idles, Request, Goto
<1> QED
  BY <1>1, <1>2, <1>3, <1>4 DEF StepOK

LEMMA AudioCallStep ==
    ASSUME IInv, NEW p \in Threads, NEW t \in Tasks,
           AudioCall(p, t)
    PROVE  StepOK(p)
<1> USE DEF IInv, AudioCall
<1>1. TypeOK'
  BY DEF TypeOK, Calls, Labels, queueVars, Request, Goto
<1>2. QueueInv' /\ Monotone /\ KeepsSettled
  BY RowsUnchanged
<1>3. ThreadInv(p)'
  BY <1>1, <1>2, KnowledgeIsStable, Defaults, ConstantsAssumption DEF
     ThreadInv, TypeOK, OnTask, ByWorker, Monotone, Calls, queueVars,
     threadVars, Threads, AllSettled, TasksOf, Terminal, Resumptions, QueueInv,
     RowsAgree, LeaseHasOwner, Labels, Request, Goto, Idles
<1>4. \A q \in Threads \ {p} : Idles(q)
  BY DEF Idles, Request, Goto
<1> QED
  BY <1>1, <1>2, <1>3, <1>4 DEF StepOK

LEMMA AudioStep ==
    ASSUME IInv, NEW p \in Threads,
           Audio(p)
    PROVE  StepOK(p)
<1> USE DEF IInv, Audio
<1>1. TypeOK'
  BY Defaults DEF TypeOK, Threads, Calls, Labels, Resumptions, queueVars, Goto,
     Drop
<1>2. QueueInv' /\ Monotone /\ KeepsSettled
  BY RowsUnchanged
<1>3. ThreadInv(p)'
  BY <1>1, <1>2, KnowledgeIsStable, Defaults, ConstantsAssumption DEF
     ThreadInv, TypeOK, OnTask, ByWorker, Monotone, Calls, queueVars,
     threadVars, Threads, AllSettled, TasksOf, Terminal, Resumptions, QueueInv,
     RowsAgree, LeaseHasOwner, Labels, Goto, Drop, Idles
<1>4. \A q \in Threads \ {p} : Idles(q)
  BY DEF TypeOK, Idles, Goto, Drop
<1> QED
  BY <1>1, <1>2, <1>3, <1>4 DEF StepOK

LEMMA AbortStep ==
    ASSUME IInv, NEW p \in Threads,
           Abort(p)
    PROVE  StepOK(p)
<1> USE DEF IInv, Abort
<1>1. TypeOK'
  BY Defaults DEF TypeOK, Labels, Resumptions, queueVars, Goto, Drop
<1>2. QueueInv' /\ Monotone /\ KeepsSettled
  BY RowsUnchanged
<1>3. ThreadInv(p)'
  BY <1>1, <1>2, KnowledgeIsStable, Defaults, ConstantsAssumption DEF
     ThreadInv, TypeOK, OnTask, ByWorker, Monotone, Calls, queueVars,
     threadVars, Threads, AllSettled, TasksOf, Terminal, Resumptions, QueueInv,
     RowsAgree, LeaseHasOwner, Labels, Goto, Drop, Idles
<1>4. \A q \in Threads \ {p} : Idles(q)
  BY DEF Idles, Goto, Drop
<1> QED
  BY <1>1, <1>2, <1>3, <1>4 DEF StepOK

LEMMA TrackChangesStep ==
    ASSUME IInv, NEW p \in Threads, NEW t \in Tasks,
           TrackChanges(t)
    PROVE  StepOK(p)
<1> USE DEF IInv, TrackChanges
<1>1. TypeOK'
  BY DEF TypeOK, queueVars, threadVars
<1>2. QueueInv' /\ Monotone /\ KeepsSettled
  BY RowsUnchanged
<1>3. ThreadInv(p)'
  BY <1>1, <1>2, KnowledgeIsStable DEF threadVars, Idles
<1>4. \A q \in Threads \ {p} : Idles(q)
  BY DEF Idles, threadVars
<1> QED
  BY <1>1, <1>2, <1>3, <1>4 DEF StepOK

LEMMA RefreshActiveStep ==
    ASSUME IInv, RefreshActive
    PROVE  StepOK(Maintenance)
<1> USE DEF IInv, RefreshActive, ActiveJobs
<1>1. TypeOK'
  BY DEF TypeOK, Labels, Resumptions, queueVars, RefreshThen, Goto
<1>2. QueueInv' /\ Monotone /\ KeepsSettled
  BY RowsUnchanged
<1>3. ThreadInv(Maintenance)'
  BY <1>1, <1>2, KnowledgeIsStable, Defaults, ConstantsAssumption DEF
     ThreadInv, TypeOK, OnTask, ByWorker, Monotone, Calls, queueVars,
     threadVars, Threads, AllSettled, TasksOf, Terminal, Resumptions, QueueInv,
     RowsAgree, LeaseHasOwner, Labels, RefreshThen, Goto, Idles
<1>4. \A q \in Threads \ {Maintenance} : Idles(q)
  BY DEF Idles, RefreshThen, Goto
<1> QED
  BY <1>1, <1>2, <1>3, <1>4 DEF StepOK

-----------------------------------------------------------------------------
(* Requests that start by expiring leases. *)

LEMMA PollStep ==
    ASSUME IInv, NEW p \in Threads,
           Poll(p)
    PROVE  StepOK(p)
<1> USE DEF IInv, Poll
<1>1. TypeOK'
  BY ConstantsAssumption DEF TypeOK, Labels, Resumptions, JobsOf, ExpireThen,
     ExpireRows, RefreshThen, Goto
<1>2. QueueInv' /\ Monotone /\ KeepsSettled
  BY ExpireKeeps DEF ExpireThen
<1>3. ThreadInv(p)'
  BY <1>1, <1>2, KnowledgeIsStable, Defaults, ConstantsAssumption DEF
     ThreadInv, TypeOK, OnTask, ByWorker, Monotone, Calls, queueVars,
     threadVars, Threads, AllSettled, TasksOf, Terminal, Resumptions, QueueInv,
     RowsAgree, LeaseHasOwner, Labels, ExpireThen, ExpireRows, RefreshThen,
     Goto, Idles
<1>4. \A q \in Threads \ {p} : Idles(q)
  BY DEF Idles, ExpireThen, RefreshThen, Goto
<1> QED
  BY <1>1, <1>2, <1>3, <1>4 DEF StepOK

LEMMA PollCallStep ==
    ASSUME IInv, NEW p \in Threads, NEW S \in SUBSET Jobs,
           PollCall(p, S)
    PROVE  StepOK(p)
<1> USE DEF IInv, PollCall
<1>1. TypeOK'
  BY ConstantsAssumption DEF TypeOK, Labels, Resumptions, JobsOf, ExpireThen,
     ExpireRows, RefreshThen, Goto
<1>2. QueueInv' /\ Monotone /\ KeepsSettled
  BY ExpireKeeps DEF ExpireThen
<1>3. ThreadInv(p)'
  BY <1>1, <1>2, KnowledgeIsStable, Defaults, ConstantsAssumption DEF
     ThreadInv, TypeOK, OnTask, ByWorker, Monotone, Calls, queueVars,
     threadVars, Threads, AllSettled, TasksOf, Terminal, Resumptions, QueueInv,
     RowsAgree, LeaseHasOwner, Labels, ExpireThen, ExpireRows, RefreshThen,
     Goto, Idles
<1>4. \A q \in Threads \ {p} : Idles(q)
  BY DEF Idles, ExpireThen, RefreshThen, Goto
<1> QED
  BY <1>1, <1>2, <1>3, <1>4 DEF StepOK

LEMMA ClaimCallStep ==
    ASSUME IInv, NEW p \in Threads, NEW w \in Workers,
           ClaimCall(p, w)
    PROVE  StepOK(p)
<1> USE DEF IInv, ClaimCall
<1>1. TypeOK'
  BY Defaults, ConstantsAssumption DEF TypeOK, Calls, Labels, Resumptions,
     JobsOf, Request, ExpireThen, ExpireRows, RefreshThen, Goto
<1>2. QueueInv' /\ Monotone /\ KeepsSettled
  BY ExpireKeeps DEF ExpireThen
<1>3. ThreadInv(p)'
  BY <1>1, <1>2, KnowledgeIsStable, Defaults, ConstantsAssumption DEF
     ThreadInv, TypeOK, OnTask, ByWorker, Monotone, Calls, queueVars,
     threadVars, Threads, AllSettled, TasksOf, Terminal, Resumptions, QueueInv,
     RowsAgree, LeaseHasOwner, Labels, Request, ExpireThen, ExpireRows,
     RefreshThen, Goto, Idles
<1>4. \A q \in Threads \ {p} : Idles(q)
  BY DEF Idles, Request, ExpireThen, RefreshThen, Goto
<1> QED
  BY <1>1, <1>2, <1>3, <1>4 DEF StepOK

LEMMA ReleaseCallStep ==
    ASSUME IInv, NEW p \in Threads, NEW w \in Workers,
           ReleaseCall(p, w)
    PROVE  StepOK(p)
<1> USE DEF IInv, ReleaseCall
<1>1. TypeOK'
  BY Defaults, ConstantsAssumption DEF TypeOK, Calls, Labels, Resumptions,
     JobsOf, Request, ExpireThen, ExpireRows, RefreshThen, Goto
<1>2. QueueInv' /\ Monotone /\ KeepsSettled
  BY ExpireKeeps DEF ExpireThen
<1>3. ThreadInv(p)'
  BY <1>1, <1>2, KnowledgeIsStable, Defaults, ConstantsAssumption DEF
     ThreadInv, TypeOK, OnTask, ByWorker, Monotone, Calls, queueVars,
     threadVars, Threads, AllSettled, TasksOf, Terminal, Resumptions, QueueInv,
     RowsAgree, LeaseHasOwner, Labels, Request, ExpireThen, ExpireRows,
     RefreshThen, Goto, Idles
<1>4. \A q \in Threads \ {p} : Idles(q)
  BY DEF Idles, Request, ExpireThen, RefreshThen, Goto
<1> QED
  BY <1>1, <1>2, <1>3, <1>4 DEF StepOK

LEMMA SubmitCallStep ==
    ASSUME IInv, NEW p \in Threads, NEW w \in Workers, NEW t \in Tasks,
           SubmitCall(p, w, t)
    PROVE  StepOK(p)
<1> USE DEF IInv, SubmitCall
<1>1. TypeOK'
  BY ConstantsAssumption DEF TypeOK, Calls, Labels, Resumptions, JobsOf,
     Request, ExpireThen, ExpireRows, RefreshThen, Goto
<1>2. QueueInv' /\ Monotone /\ KeepsSettled
  BY ExpireKeeps DEF ExpireThen
<1>3. ThreadInv(p)'
  BY <1>1, <1>2, KnowledgeIsStable, Defaults, ConstantsAssumption DEF
     ThreadInv, TypeOK, OnTask, ByWorker, Monotone, Calls, queueVars,
     threadVars, Threads, AllSettled, TasksOf, Terminal, Resumptions, QueueInv,
     RowsAgree, LeaseHasOwner, Labels, Request, Given, ExpireThen, ExpireRows,
     RefreshThen, Goto, Idles
<1>4. \A q \in Threads \ {p} : Idles(q)
  BY DEF Idles, Request, ExpireThen, RefreshThen, Goto
<1> QED
  BY <1>1, <1>2, <1>3, <1>4 DEF StepOK

LEMMA FailCallStep ==
    ASSUME IInv, NEW p \in Threads, NEW w \in Workers, NEW t \in Tasks,
    NEW retryable \in BOOLEAN,
           FailCall(p, w, t, retryable)
    PROVE  StepOK(p)
<1> USE DEF IInv, FailCall
<1>1. TypeOK'
  BY ConstantsAssumption DEF TypeOK, Calls, Labels, Resumptions, JobsOf,
     Request, ExpireThen, ExpireRows, RefreshThen, Goto
<1>2. QueueInv' /\ Monotone /\ KeepsSettled
  BY ExpireKeeps DEF ExpireThen
<1>3. ThreadInv(p)'
  BY <1>1, <1>2, KnowledgeIsStable, Defaults, ConstantsAssumption DEF
     ThreadInv, TypeOK, OnTask, ByWorker, Monotone, Calls, queueVars,
     threadVars, Threads, AllSettled, TasksOf, Terminal, Resumptions, QueueInv,
     RowsAgree, LeaseHasOwner, Labels, Request, Given, ExpireThen, ExpireRows,
     RefreshThen, Goto, Idles
<1>4. \A q \in Threads \ {p} : Idles(q)
  BY DEF Idles, Request, ExpireThen, RefreshThen, Goto
<1> QED
  BY <1>1, <1>2, <1>3, <1>4 DEF StepOK

LEMMA TickStep ==
    ASSUME IInv, Tick
    PROVE  StepOK(Maintenance)
<1> USE DEF IInv, Tick
<1>1. TypeOK'
  BY ConstantsAssumption DEF TypeOK, Threads, Labels, Resumptions, JobsOf,
     ExpireThen, ExpireRows, RefreshThen, Goto
<1>2. QueueInv' /\ Monotone /\ KeepsSettled
  BY ExpireKeeps DEF ExpireThen
<1>3. ThreadInv(Maintenance)'
  BY <1>1, <1>2, KnowledgeIsStable, Defaults, ConstantsAssumption DEF
     ThreadInv, TypeOK, OnTask, ByWorker, Monotone, Calls, queueVars,
     threadVars, Threads, AllSettled, TasksOf, Terminal, Resumptions, QueueInv,
     RowsAgree, LeaseHasOwner, Labels, ExpireThen, ExpireRows, RefreshThen,
     Goto, Idles
<1>4. \A q \in Threads \ {Maintenance} : Idles(q)
  BY DEF Idles, ExpireThen, RefreshThen, Goto
<1> QED
  BY <1>1, <1>2, <1>3, <1>4 DEF StepOK

-----------------------------------------------------------------------------
(* Statements that change rows. *)

LEMMA CreateJobStep ==
    ASSUME IInv, NEW p \in Threads, NEW j \in Jobs,
           CreateJob(p, j)
    PROVE  StepOK(p)
<1> USE DEF IInv, CreateJob
<1>1. TypeOK'
  BY DEF TypeOK, Labels, Resumptions, Goto
<1>2. QueueInv' /\ Monotone /\ KeepsSettled
  <2>1. LeaseHasOwner'
    BY DEF QueueInv, RowsAgree, LeaseHasOwner
  <2>2. ResultBeforeCompletion'
    BY DEF QueueInv, ResultBeforeCompletion
  <2>3. Monotone
    BY DEF Monotone, QueueInv, RowsAgree, TypeOK, Terminal
  <2>4. ClosedJobsAreSettled'
    BY DEF QueueInv, ClosedJobsAreSettled, AllSettled, TasksOf
  <2>5. RowsAgree'
    BY DEF TypeOK, QueueInv, RowsAgree
  <2>6. KeepsSettled
    BY DEF KeepsSettled, QueueInv, RowsAgree
  <2> QED
    BY <2>1, <2>2, <2>3, <2>4, <2>5, <2>6 DEF QueueInv
<1>3. ThreadInv(p)'
  BY DEF ThreadInv, OnTask, ByWorker, Goto
<1>4. \A q \in Threads \ {p} : Idles(q)
  BY DEF Idles, Goto
<1> QED
  BY <1>1, <1>2, <1>3, <1>4 DEF StepOK

LEMMA CancelStep ==
    ASSUME IInv, NEW p \in Threads, NEW j \in Jobs,
           Cancel(p, j)
    PROVE  StepOK(p)
<1> USE DEF IInv, Cancel
<1>1. TypeOK'
  BY DEF TypeOK, Terminal, TasksOf, threadVars, Settle
<1>2. QueueInv' /\ Monotone /\ KeepsSettled
  <2>1. LeaseHasOwner'
    BY DEF QueueInv, LeaseHasOwner, Settle
  <2>2. ResultBeforeCompletion'
    BY DEF QueueInv, ResultBeforeCompletion, Settle
  <2>3. Monotone
    BY DEF Monotone, TypeOK, Settle, Terminal
  <2>4. ClosedJobsAreSettled'
    BY DEF TypeOK, QueueInv, RowsAgree, ClosedJobsAreSettled, AllSettled,
       Settle, TasksOf, Terminal
  <2>5. RowsAgree'
    BY DEF QueueInv, RowsAgree, Settle
  <2>6. KeepsSettled
    BY DEF KeepsSettled, Settle
  <2> QED
    BY <2>1, <2>2, <2>3, <2>4, <2>5, <2>6 DEF QueueInv
<1>3. ThreadInv(p)'
  BY <1>1, <1>2, KnowledgeIsStable DEF threadVars, Idles
<1>4. \A q \in Threads \ {p} : Idles(q)
  BY DEF Idles, threadVars
<1> QED
  BY <1>1, <1>2, <1>3, <1>4 DEF StepOK

LEMMA ClaimTakeStep ==
    ASSUME IInv, NEW p \in Threads,
           ClaimTake(p)
    PROVE  StepOK(p)
<1> USE DEF IInv, ClaimTake
<1>1. TypeOK'
  BY Defaults DEF TypeOK, Calls, Labels, Goto, Drop
<1>2. QueueInv' /\ Monotone /\ KeepsSettled
  <2>1. LeaseHasOwner'
    BY DEF QueueInv, LeaseHasOwner, ThreadInv, ByWorker
  <2>2. ResultBeforeCompletion'
    BY DEF QueueInv, ResultBeforeCompletion
  <2>3. Monotone
    BY DEF Monotone, TypeOK, Terminal
  <2>4. ClosedJobsAreSettled'
    BY DEF QueueInv, ClosedJobsAreSettled, AllSettled, TasksOf
  <2>5. RowsAgree'
    BY DEF TypeOK, QueueInv, RowsAgree
  <2>6. KeepsSettled
    BY DEF KeepsSettled
  <2> QED
    BY <2>1, <2>2, <2>3, <2>4, <2>5, <2>6 DEF QueueInv
<1>3. ThreadInv(p)'
  BY <1>1, Defaults DEF ThreadInv, TypeOK, OnTask, ByWorker, threadVars,
     Terminal, Resumptions, QueueInv, RowsAgree, Labels, Goto, Drop
<1>4. \A q \in Threads \ {p} : Idles(q)
  BY DEF Idles, Goto, Drop
<1> QED
  BY <1>1, <1>2, <1>3, <1>4 DEF StepOK

LEMMA LeaseLapsesStep ==
    ASSUME IInv, NEW p \in Threads, NEW t \in Tasks,
           LeaseLapses(t)
    PROVE  StepOK(p)
<1> USE DEF IInv, LeaseLapses
<1>1. TypeOK'
  BY DEF TypeOK, threadVars
<1>2. QueueInv' /\ Monotone /\ KeepsSettled
  <2>1. LeaseHasOwner'
    BY DEF QueueInv, LeaseHasOwner
  <2>2. ResultBeforeCompletion'
    BY DEF QueueInv, ResultBeforeCompletion
  <2>3. Monotone
    BY DEF Monotone, TypeOK
  <2>4. ClosedJobsAreSettled'
    BY DEF QueueInv, ClosedJobsAreSettled, AllSettled
  <2>5. RowsAgree'
    BY DEF QueueInv, RowsAgree
  <2>6. KeepsSettled
    BY DEF KeepsSettled
  <2> QED
    BY <2>1, <2>2, <2>3, <2>4, <2>5, <2>6 DEF QueueInv
<1>3. ThreadInv(p)'
  BY <1>1, <1>2, KnowledgeIsStable DEF threadVars, Idles
<1>4. \A q \in Threads \ {p} : Idles(q)
  BY DEF Idles, threadVars
<1> QED
  BY <1>1, <1>2, <1>3, <1>4 DEF StepOK

LEMMA ReleaseStep ==
    ASSUME IInv, NEW p \in Threads,
           Release(p)
    PROVE  StepOK(p)
<1> USE DEF IInv, Release
<1>1. TypeOK'
  BY Defaults, ConstantsAssumption DEF TypeOK, Labels, Resumptions, JobsOf,
     Settle, RefreshThen, Goto, Drop, Leased
<1>2. QueueInv' /\ Monotone /\ KeepsSettled
  <2>1. LeaseHasOwner'
    BY DEF QueueInv, LeaseHasOwner, Settle
  <2>2. ResultBeforeCompletion'
    BY DEF QueueInv, ResultBeforeCompletion, Settle
  <2>3. Monotone
    BY DEF Monotone, TypeOK, Settle, Leased, Terminal
  <2>4. ClosedJobsAreSettled'
    BY <2>3 DEF QueueInv, ClosedJobsAreSettled, AllSettled, TasksOf, Monotone
  <2>5. RowsAgree'
    BY DEF QueueInv, RowsAgree, Settle, Leased
  <2>6. KeepsSettled
    BY DEF KeepsSettled, Settle, Leased
  <2> QED
    BY <2>1, <2>2, <2>3, <2>4, <2>5, <2>6 DEF QueueInv
<1>3. ThreadInv(p)'
  BY Defaults DEF ThreadInv, OnTask, ByWorker, RefreshThen, Goto, Drop
<1>4. \A q \in Threads \ {p} : Idles(q)
  BY DEF Idles, RefreshThen, Goto, Drop
<1> QED
  BY <1>1, <1>2, <1>3, <1>4 DEF StepOK

LEMMA SaveStep ==
    ASSUME IInv, NEW p \in Threads,
           Save(p)
    PROVE  StepOK(p)
<1> USE DEF IInv, Save
<1>1. TypeOK'
  BY DEF TypeOK, Calls, Labels, Goto
<1>2. QueueInv' /\ Monotone /\ KeepsSettled
  <2>1. LeaseHasOwner'
    BY DEF QueueInv, LeaseHasOwner
  <2>2. ResultBeforeCompletion'
    BY DEF QueueInv, ResultBeforeCompletion
  <2>3. Monotone
    BY DEF Monotone, TypeOK
  <2>4. ClosedJobsAreSettled'
    BY DEF QueueInv, ClosedJobsAreSettled, AllSettled
  <2>5. RowsAgree'
    BY DEF QueueInv, RowsAgree
  <2>6. KeepsSettled
    BY DEF KeepsSettled
  <2> QED
    BY <2>1, <2>2, <2>3, <2>4, <2>5, <2>6 DEF QueueInv
<1>3. ThreadInv(p)'
  BY DEF ThreadInv, OnTask, ByWorker, Goto
<1>4. \A q \in Threads \ {p} : Idles(q)
  BY DEF Idles, Goto
<1> QED
  BY <1>1, <1>2, <1>3, <1>4 DEF StepOK

LEMMA CompleteStep ==
    ASSUME IInv, NEW p \in Threads,
           Complete(p)
    PROVE  StepOK(p)
<1> USE DEF IInv, Complete, MayComplete
<1>1. TypeOK'
  BY Defaults, ConstantsAssumption DEF TypeOK, Terminal, Calls, Labels,
     Resumptions, Settle, RefreshThen, Goto, Drop
<1>2. QueueInv' /\ Monotone /\ KeepsSettled
  <2>1. LeaseHasOwner'
    BY DEF QueueInv, LeaseHasOwner, Settle
  <2>2. ResultBeforeCompletion'
    BY DEF QueueInv, ResultBeforeCompletion, Settle, ThreadInv
  <2>3. Monotone
    BY DEF Monotone, TypeOK, Settle, Terminal
  <2>4. ClosedJobsAreSettled'
    BY <2>3 DEF QueueInv, ClosedJobsAreSettled, AllSettled, TasksOf, Monotone
  <2>5. RowsAgree'
    BY DEF QueueInv, RowsAgree, Settle, ThreadInv, OnTask
  <2>6. KeepsSettled
    BY DEF KeepsSettled, QueueInv, LeaseHasOwner, Settle, ThreadInv, ByWorker
  <2> QED
    BY <2>1, <2>2, <2>3, <2>4, <2>5, <2>6 DEF QueueInv
<1>3. ThreadInv(p)'
  BY <1>1, <1>2, KnowledgeIsStable, Defaults, ConstantsAssumption DEF
     ThreadInv, TypeOK, OnTask, ByWorker, Monotone, Calls, queueVars,
     threadVars, Threads, AllSettled, TasksOf, Terminal, Resumptions, QueueInv,
     RowsAgree, LeaseHasOwner, Labels, Settle, RefreshThen, Goto, Drop, Idles
<1>4. \A q \in Threads \ {p} : Idles(q)
  BY DEF Idles, RefreshThen, Goto, Drop
<1> QED
  BY <1>1, <1>2, <1>3, <1>4 DEF StepOK

LEMMA FailWriteStep ==
    ASSUME IInv, NEW p \in Threads,
           FailWrite(p)
    PROVE  StepOK(p)
<1> USE DEF IInv, FailWrite
<1>1. TypeOK'
  BY Defaults, ConstantsAssumption DEF TypeOK, Terminal, Calls, Labels,
     Resumptions, Settle, RefreshThen, Goto, Drop
<1>2. QueueInv' /\ Monotone /\ KeepsSettled
  <2>1. LeaseHasOwner'
    BY DEF TypeOK, QueueInv, LeaseHasOwner, Settle
  <2>2. ResultBeforeCompletion'
    BY DEF TypeOK, QueueInv, ResultBeforeCompletion, Settle
  <2>3. Monotone
    BY DEF Monotone, QueueInv, LeaseHasOwner, TypeOK, Settle, Terminal,
       ThreadInv
  <2>4. ClosedJobsAreSettled'
    BY <2>3 DEF QueueInv, ClosedJobsAreSettled, AllSettled, TasksOf, Monotone
  <2>5. RowsAgree'
    BY DEF TypeOK, QueueInv, RowsAgree, Settle, ThreadInv, OnTask
  <2>6. KeepsSettled
    <3>1. call[p] = [worker |-> call[p].worker, task |-> call[p].task,
                     retryable |-> call[p].retryable]
      BY DEF TypeOK, Calls
    <3>2. call[p].worker = NoOwner => call[p].retryable = FALSE /\ verdict[p] = "final_failed"
      BY DEF ThreadInv, TypeOK
    <3>3. \A t \in Tasks : status[t] \in Terminal => owner[t] = NoOwner
      BY DEF QueueInv, LeaseHasOwner, Terminal
    <3>4. ASSUME NEW t \in Tasks, status[t] \in Terminal, status'[t] # status[t]
          PROVE  /\ call[p] =
                      [worker |-> NoOwner, task |-> t, retryable |-> FALSE]
                 /\ status'[t] = "final_failed"
      BY <3>1, <3>2, <3>3, <3>4 DEF Settle, TypeOK
    <3> QED
      BY <3>4 DEF KeepsSettled, Terminal
  <2> QED
    BY <2>1, <2>2, <2>3, <2>4, <2>5, <2>6 DEF QueueInv
<1>3. ThreadInv(p)'
  BY <1>1, <1>2, Defaults DEF ThreadInv, TypeOK, OnTask, ByWorker, Monotone,
     Calls, queueVars, threadVars, AllSettled, Terminal, QueueInv, RowsAgree,
     LeaseHasOwner, Labels, Settle, RefreshThen, Goto, Drop
<1>4. \A q \in Threads \ {p} : Idles(q)
  BY DEF Idles, RefreshThen, Goto, Drop
<1> QED
  BY <1>1, <1>2, <1>3, <1>4 DEF StepOK

LEMMA RefreshWriteStep ==
    ASSUME IInv, NEW p \in Threads,
           RefreshWrite(p)
    PROVE  StepOK(p)
<1> USE DEF IInv, RefreshWrite
<1>1. TypeOK'
  BY Defaults DEF TypeOK, Labels, Resumptions, RefreshThen, Goto
<1>2. QueueInv' /\ Monotone /\ KeepsSettled
  <2>1. LeaseHasOwner'
    BY DEF QueueInv, LeaseHasOwner
  <2>2. ResultBeforeCompletion'
    BY DEF QueueInv, ResultBeforeCompletion
  <2>3. Monotone
    BY DEF Monotone, TypeOK
  <2>4. ClosedJobsAreSettled'
    BY DEF QueueInv, ClosedJobsAreSettled, AllSettled, ThreadInv
  <2>5. RowsAgree'
    BY DEF QueueInv, RowsAgree, ThreadInv
  <2>6. KeepsSettled
    BY DEF KeepsSettled
  <2> QED
    BY <2>1, <2>2, <2>3, <2>4, <2>5, <2>6 DEF QueueInv
<1>3. ThreadInv(p)'
  BY <1>1, <1>2, KnowledgeIsStable, Defaults, ConstantsAssumption DEF
     ThreadInv, TypeOK, OnTask, ByWorker, Monotone, Calls, queueVars,
     threadVars, Threads, AllSettled, TasksOf, Terminal, Resumptions, QueueInv,
     RowsAgree, LeaseHasOwner, Labels, RefreshThen, Goto, Idles
<1>4. \A q \in Threads \ {p} : Idles(q)
  BY DEF Idles, RefreshThen, Goto
<1> QED
  BY <1>1, <1>2, <1>3, <1>4 DEF StepOK

-----------------------------------------------------------------------------
(* Putting the actions together. *)

LEMMA InitInv == Init => IInv
<1> SUFFICES ASSUME Init PROVE IInv
  OBVIOUS
<1>1. TypeOK
  BY Defaults DEF Init, TypeOK, Labels, Resumptions
<1>2. QueueInv
  BY ConstantsAssumption DEF Init, QueueInv, LeaseHasOwner,
     ResultBeforeCompletion, ClosedJobsAreSettled, RowsAgree
<1>3. \A p \in Threads : ThreadInv(p)
  BY Defaults DEF Init, ThreadInv, OnTask, ByWorker
<1> QED
  BY <1>1, <1>2, <1>3 DEF IInv

LEMMA StutterInv == IInv /\ UNCHANGED vars => IInv'
BY DEF IInv, TypeOK, QueueInv, LeaseHasOwner, ResultBeforeCompletion,
   ClosedJobsAreSettled,
   RowsAgree, ThreadInv, AllSettled, TasksOf, vars, queueVars, threadVars

LEMMA ContinueStep ==
    ASSUME IInv, NEW p \in Threads, Continue(p)
    PROVE  StepOK(p)
BY RefreshReadStep, RefreshCountStep, RefreshWriteStep, PollStep,
   ClaimTakeStep, ReleaseStep, ValidateStep, SaveStep, SaveFailsStep,
   CompleteStep, FailReadStep, FailWriteStep, AudioStep DEF Continue

LEMMA StartStep ==
    ASSUME IInv, NEW p \in Threads, Start(p)
    PROVE  StepOK(p)
<1>1. CASE \E j \in Jobs : CreateJob(p, j)
  BY <1>1, CreateJobStep
<1>2. CASE \E j \in Jobs : Cancel(p, j)
  BY <1>2, CancelStep
<1>3. CASE \E S \in SUBSET Jobs : PollCall(p, S)
  BY <1>3, PollCallStep
<1>4. CASE \E w \in Workers : ClaimCall(p, w) \/ ReleaseCall(p, w)
  BY <1>4, ClaimCallStep, ReleaseCallStep
<1>5. CASE \E w \in Workers, t \in Tasks : Report(p, w, t)
  <2> PICK w \in Workers, t \in Tasks : Report(p, w, t)
    BY <1>5
  <2>1. CASE SubmitCall(p, w, t)
    BY <2>1, SubmitCallStep
  <2>2. CASE LocalDone(p, w, t)
    BY <2>2, LocalReportStep DEF LocalDone
  <2>3. CASE \E retryable \in BOOLEAN : FailCall(p, w, t, retryable)
    BY <2>3, FailCallStep
  <2>4. CASE \E retryable \in BOOLEAN : LocalFail(p, w, t, retryable)
    BY <2>4, LocalReportStep DEF LocalFail
  <2> QED
    BY <2>1, <2>2, <2>3, <2>4 DEF Report
<1>6. CASE \E t \in Tasks : AudioCall(p, t)
  BY <1>6, AudioCallStep
<1> QED
  BY <1>1, <1>2, <1>3, <1>4, <1>5, <1>6 DEF Start

\* Every step of the specification is a good step of some thread.
LEMMA NextStep ==
    ASSUME IInv, Next
    PROVE  \E p \in Threads : StepOK(p)
<1>1. CASE \E p \in Handlers : Start(p)
  BY <1>1, StartStep DEF Threads
<1>2. CASE \E p \in Threads : Continue(p) \/ Abort(p)
  BY <1>2, ContinueStep, AbortStep
<1>3. CASE Tick \/ RefreshActive
  BY <1>3, TickStep, RefreshActiveStep DEF Threads
<1>4. CASE \E t \in Tasks : LeaseLapses(t) \/ TrackChanges(t)
  BY <1>4, LeaseLapsesStep, TrackChangesStep DEF Threads
<1> QED
  BY <1>1, <1>2, <1>3, <1>4 DEF Next

LEMMA NextInv == IInv /\ [Next]_vars => IInv'
BY NextStep, StepPreserves, StutterInv

\* The invariant of the queue: it holds in every reachable state of every
\* instance.
THEOREM Invariance == Spec => []IInv
BY InitInv, NextInv, PTL DEF Spec

\* Type correctness.
THEOREM TypeCorrectness == Spec => []TypeOK
<1>1. IInv => TypeOK
  BY DEF IInv
<1> QED
  BY <1>1, Invariance, PTL

\* A lease never outlives its owner's name, for any number of jobs, workers and
\* threads, however the statements of the handlers interleave.
THEOREM LeasesHaveOwners == Spec => []LeaseHasOwner
<1>1. IInv => LeaseHasOwner
  BY DEF IInv, QueueInv
<1> QED
  BY <1>1, Invariance, PTL

\* A task is completed by the transaction that stores its result, or after it
\* (store_model_output, complete_analysis_task).
THEOREM ResultsComeFirst == Spec => []ResultBeforeCompletion
<1>1. IInv => ResultBeforeCompletion
  BY DEF IInv, QueueInv
<1> QED
  BY <1>1, Invariance, PTL

\* No job is closed over a task that is still to be answered
\* (refresh_analysis_job).
THEOREM ClosedJobsStaySettled == Spec => []ClosedJobsAreSettled
<1>1. IInv => ClosedJobsAreSettled
  BY DEF IInv, QueueInv
<1> QED
  BY <1>1, Invariance, PTL

\* fail_analysis_task never gives a task fewer attempts than its job grants.
THEOREM RetriesAreGranted == Spec => []RetriesAreNotCutShort
<1>1. IInv => RetriesAreNotCutShort
  BY DEF IInv, ThreadInv, RetriesAreNotCutShort
<1> QED
  BY <1>1, Invariance, PTL

\* No interleaving gives a settled task out again.
THEOREM SettledStays == Spec => SettledIsForever
<1>1. IInv /\ [Next]_vars => [KeepsSettled]_vars
  BY NextStep DEF StepOK
<1> QED
  BY <1>1, Invariance, PTL DEF Spec, SettledIsForever

-----------------------------------------------------------------------------
(* AnalysisQueue implements TaskLifecycle: under the invariant every       *)
(* statement of a thread is one step of the lifecycle, or leaves phases,   *)
(* stages and results alone.                                               *)

\* The stage of one row and the phase of one job, as Stage and Phase map them.
StageOf(s) ==
    CASE s = "absent" -> "absent"
      [] s = "queued" -> "waiting"
      [] s = "leased" -> "held"
      [] s = "completed" -> "done"
      [] OTHER -> "refused"

PhaseOf(s) ==
    CASE s = "absent" -> "absent"
      [] s = "running" -> "open"
      [] OTHER -> "closed"

\* What a step of the queue owes to the lifecycle.
Refines == Lifecycle!Next \/ UNCHANGED Lifecycle!vars

LEMMA Mapped ==
    /\ Stage = [t \in Tasks |-> StageOf(status[t])]
    /\ Phase = [j \in Jobs |-> PhaseOf(job[j])]
BY DEF Stage, Phase, StageOf, PhaseOf

LEMMA MappedNext ==
    /\ Stage' = [t \in Tasks |-> StageOf(status'[t])]
    /\ Phase' = [j \in Jobs |-> PhaseOf(job'[j])]
BY DEF Stage, Phase, StageOf, PhaseOf

LEMMA StageValues ==
    /\ StageOf("absent") = "absent" /\ StageOf("queued") = "waiting"
    /\ StageOf("leased") = "held" /\ StageOf("completed") = "done"
    /\ StageOf("final_failed") = "refused"
BY DEF StageOf

LEMMA PhaseValues ==
    /\ PhaseOf("absent") = "absent" /\ PhaseOf("running") = "open"
    /\ PhaseOf("completed") = "closed" /\ PhaseOf("cancelled") = "closed"
BY DEF PhaseOf

\* Steps that write neither jobs, task statuses nor results.
LEMMA Stutters ==
    ASSUME UNCHANGED <<job, status, saved>>
    PROVE  Refines
BY DEF Refines, Lifecycle!vars, Stage, Phase

\* The rows of S, all of them present, are settled as `value'.
LEMMA Moves ==
    ASSUME NEW S, NEW value, Settle(S, value)
    PROVE  Lifecycle!Move(S, StageOf(value))
BY Mapped, MappedNext DEF Settle, Lifecycle!Move

LEMMA SamePhase ==
    ASSUME UNCHANGED job
    PROVE  UNCHANGED Phase
BY DEF Phase

-----------------------------------------------------------------------------

\* Lapsed leases are given back.
LEMMA ExpireRefines ==
    ASSUME IInv, ExpireRows
    PROVE  Refines
<1>1. \A t \in lapsed : Stage[t] = "held"
  BY Mapped, StageValues DEF IInv, TypeOK, QueueInv, RowsAgree
<1>2. Lifecycle!Move(lapsed, "waiting")
  BY Mapped, MappedNext, StageValues DEF ExpireRows, Lifecycle!Move
<1>3. Lifecycle!GiveBack(lapsed)
  BY <1>1, <1>2, SamePhase DEF Lifecycle!GiveBack, ExpireRows
<1> QED
  BY <1>3 DEF Refines, Lifecycle!Next, IInv, TypeOK

\* A new job is posted with its tasks.
LEMMA CreateRefines ==
    ASSUME IInv, NEW p \in Threads, NEW j \in Jobs, CreateJob(p, j)
    PROVE  Refines
<1>1. Phase[j] = "absent"
  BY Mapped, PhaseValues DEF CreateJob
<1>2. Phase' = [Phase EXCEPT ![j] = IF TasksOf(j) = {} THEN "closed" ELSE "open"]
  BY Mapped, MappedNext, PhaseValues DEF CreateJob, IInv, TypeOK
<1>3. Lifecycle!Move(TasksOf(j), "waiting")
  BY Mapped, MappedNext, StageValues DEF CreateJob, Lifecycle!Move, TasksOf
<1>4. Lifecycle!Post(j)
  BY <1>1, <1>2, <1>3 DEF Lifecycle!Post, Lifecycle!TasksOf, TasksOf, CreateJob
<1> QED
  BY <1>4 DEF Refines, Lifecycle!Next

\* A cancelled job is abandoned.
LEMMA CancelRefines ==
    ASSUME IInv, NEW p \in Threads, NEW j \in Jobs, Cancel(p, j)
    PROVE  Refines
<1> DEFINE open == {t \in TasksOf(j) : status[t] \in {"queued", "leased"}}
<1>1. open = {t \in TasksOf(j) : Stage[t] \in {"waiting", "held"}}
  BY Mapped, StageValues DEF IInv, TypeOK, Terminal, TasksOf
<1>2. Lifecycle!Move(open, "refused")
  BY Moves, StageValues DEF Cancel
<1>3. Phase[j] # "absent"
  BY Mapped, PhaseValues DEF Cancel, IInv, TypeOK
<1>4. Phase' = [Phase EXCEPT ![j] = "closed"]
  BY Mapped, MappedNext, PhaseValues DEF Cancel, IInv, TypeOK
<1>5. Lifecycle!Abandon(j)
  BY <1>1, <1>2, <1>3, <1>4
     DEF Lifecycle!Abandon, Lifecycle!TasksOf, TasksOf, Cancel
<1> QED
  BY <1>5 DEF Refines, Lifecycle!Next

\* A claim takes waiting tasks of open jobs.
LEMMA ClaimRefines ==
    ASSUME IInv, NEW p \in Threads, ClaimTake(p)
    PROVE  Refines
<1>1. PICK S \in SUBSET {t \in Tasks : status[t] = "queued" /\ job[JobOf[t]] = "running"} :
        status' = [t \in Tasks |-> IF t \in S THEN "leased" ELSE status[t]]
  BY DEF ClaimTake
<1>2. \A t \in S : Stage[t] = "waiting" /\ Phase[JobOf[t]] = "open"
  BY Mapped, StageValues, PhaseValues, ConstantsAssumption
<1>3. Lifecycle!Move(S, "held")
  BY <1>1, Mapped, MappedNext, StageValues DEF Lifecycle!Move
<1>4. Lifecycle!Take(S)
  BY <1>2, <1>3, SamePhase DEF Lifecycle!Take, ClaimTake
<1> QED
  BY <1>4 DEF Refines, Lifecycle!Next

\* Released leases are given back.
LEMMA ReleaseRefines ==
    ASSUME IInv, NEW p \in Threads, Release(p)
    PROVE  Refines
<1>1. PICK S \in SUBSET Leased(call[p].worker) : Settle(S, "queued")
  BY DEF Release
<1>2. \A t \in S : Stage[t] = "held"
  BY Mapped, StageValues DEF Leased
<1>3. Lifecycle!GiveBack(S)
  BY <1>1, <1>2, Moves, StageValues, SamePhase DEF Lifecycle!GiveBack, Release
<1> QED
  BY <1>3 DEF Refines, Lifecycle!Next, Leased

\* A saved result is recorded for a task that exists.
LEMMA SaveRefines ==
    ASSUME IInv, NEW p \in Threads, Save(p)
    PROVE  Refines
<1> DEFINE t == call[p].task
<1>1. t \in Tasks /\ status[t] # "absent"
  BY DEF IInv, TypeOK, Calls, ThreadInv, OnTask, Save
<1>2. Stage[t] # "absent"
  BY <1>1, Mapped, StageValues DEF IInv, TypeOK, Terminal
<1>3. UNCHANGED <<Phase, Stage>> /\ saved' = saved \cup {t}
  BY DEF Save, Phase, Stage
<1>4. Lifecycle!Record(t)
  BY <1>2, <1>3 DEF Lifecycle!Record
<1> QED
  BY <1>1, <1>4 DEF Refines, Lifecycle!Next

\* Who completes a task as its lease owner finishes it; anyone else does nothing.
LEMMA CompleteRefines ==
    ASSUME IInv, NEW p \in Threads, Complete(p)
    PROVE  Refines
<1> DEFINE t == call[p].task
<1>1. t \in Tasks /\ t \in saved /\ call[p].worker # NoOwner
  BY DEF IInv, TypeOK, Calls, ThreadInv, ByWorker, Complete
<1>2. CASE owner[t] = call[p].worker
  <2>1. Stage[t] = "held"
    BY <1>1, <1>2, Mapped, StageValues DEF IInv, QueueInv, LeaseHasOwner
  <2>2. Lifecycle!Move({t}, "done")
    BY <1>2, Moves, StageValues DEF Complete, MayComplete
  <2>3. Lifecycle!Finish(t)
    BY <1>1, <2>1, <2>2, SamePhase DEF Lifecycle!Finish, Complete
  <2> QED
    BY <1>1, <2>3 DEF Refines, Lifecycle!Next
<1>3. CASE owner[t] # call[p].worker
  BY <1>3, Stutters DEF Complete, MayComplete
<1> QED
  BY <1>2, <1>3

\* A failure gives a held task back, or refuses the task.
LEMMA FailRefines ==
    ASSUME IInv, NEW p \in Threads, FailWrite(p)
    PROVE  Refines
<1> DEFINE t == call[p].task
<1>1. t \in Tasks /\ status[t] # "absent" /\ verdict[p] \in {"queued", "final_failed"}
  BY DEF IInv, TypeOK, Calls, ThreadInv, OnTask, FailWrite
<1>2. CASE call[p].worker \notin {NoOwner, owner[t]}
  BY <1>2, Stutters DEF FailWrite
<1>3. CASE call[p].worker \in {NoOwner, owner[t]} /\ verdict[p] = "queued"
  <2>1. call[p].retryable /\ call[p].worker # NoOwner
    BY <1>3 DEF IInv, ThreadInv, FailWrite
  <2>2. Stage[t] = "held"
    BY <1>1, <1>3, <2>1, Mapped, StageValues DEF IInv, QueueInv, LeaseHasOwner
  <2>3. Lifecycle!Move({t}, "waiting")
    BY <1>3, Moves, StageValues DEF FailWrite
  <2>4. Lifecycle!GiveBack({t})
    BY <2>2, <2>3, SamePhase DEF Lifecycle!GiveBack, FailWrite
  <2> QED
    BY <1>1, <2>4 DEF Refines, Lifecycle!Next
<1>4. CASE call[p].worker \in {NoOwner, owner[t]} /\ verdict[p] = "final_failed"
  <2>1. Stage[t] # "absent"
    BY <1>1, Mapped, StageValues DEF IInv, TypeOK, Terminal
  <2>2. Lifecycle!Move({t}, "refused")
    BY <1>4, Moves, StageValues DEF FailWrite
  <2>3. Lifecycle!Refuse(t)
    BY <2>1, <2>2, SamePhase DEF Lifecycle!Refuse, FailWrite
  <2> QED
    BY <1>1, <2>3 DEF Refines, Lifecycle!Next
<1> QED
  BY <1>1, <1>2, <1>3, <1>4

\* A refresh closes a job whose tasks have ended, or opens one that was closed.
LEMMA RefreshRefines ==
    ASSUME IInv, NEW p \in Threads, RefreshWrite(p)
    PROVE  Refines
<1> DEFINE j == current[p]
<1>1. j \in Jobs /\ job[j] # "absent" /\ job[j] \in {"running", "completed", "cancelled"}
  BY DEF IInv, TypeOK, ThreadInv, RefreshWrite
<1>2. Phase[j] # "absent"
  BY <1>1, Mapped, PhaseValues
<1>3. UNCHANGED <<Stage, saved>>
  BY DEF RefreshWrite, Stage
<1>4. CASE settled[p]
  <2>1. AllSettled(j)
    BY <1>4 DEF IInv, ThreadInv, RefreshWrite
  <2>2. Lifecycle!Ended(j)
    BY <2>1, Mapped, StageValues
       DEF AllSettled, Lifecycle!Ended, Lifecycle!TasksOf, TasksOf, Terminal
  <2>3. Phase' = [Phase EXCEPT ![j] = "closed"]
    BY <1>1, <1>4, Mapped, MappedNext, PhaseValues DEF RefreshWrite, IInv, TypeOK
  <2>4. Lifecycle!Close(j)
    BY <1>2, <1>3, <2>2, <2>3 DEF Lifecycle!Close
  <2> QED
    BY <1>1, <2>4 DEF Refines, Lifecycle!Next
<1>5. CASE ~settled[p] /\ job[j] = "running"
  <2>1. UNCHANGED job
    BY <1>1, <1>5 DEF RefreshWrite, IInv, TypeOK
  <2> QED
    BY <2>1, Stutters DEF RefreshWrite
<1>6. CASE ~settled[p] /\ job[j] # "running"
  <2>1. Phase[j] = "closed"
    BY <1>1, <1>6, Mapped, PhaseValues
  <2>2. Phase' = [Phase EXCEPT ![j] = "open"]
    BY <1>1, <1>6, Mapped, MappedNext, PhaseValues DEF RefreshWrite, IInv, TypeOK
  <2>3. Lifecycle!Reopen(j)
    BY <1>3, <2>1, <2>2 DEF Lifecycle!Reopen
  <2> QED
    BY <1>1, <2>3 DEF Refines, Lifecycle!Next
<1> QED
  BY <1>4, <1>5, <1>6

-----------------------------------------------------------------------------

LEMMA ContinueRefines ==
    ASSUME IInv, NEW p \in Threads, Continue(p)
    PROVE  Refines
<1>1. CASE RefreshRead(p) \/ RefreshCount(p) \/ FailRead(p) \/ Validate(p)
           \/ SaveFails(p) \/ Audio(p)
  BY <1>1, Stutters
     DEF RefreshRead, RefreshCount, FailRead, Validate, SaveFails, Audio, queueVars
<1>2. CASE RefreshWrite(p)
  BY <1>2, RefreshRefines
<1>3. CASE Poll(p)
  BY <1>3, ExpireRefines DEF Poll, ExpireThen
<1>4. CASE ClaimTake(p)
  BY <1>4, ClaimRefines
<1>5. CASE Release(p)
  BY <1>5, ReleaseRefines
<1>6. CASE Save(p)
  BY <1>6, SaveRefines
<1>7. CASE Complete(p)
  BY <1>7, CompleteRefines
<1>8. CASE FailWrite(p)
  BY <1>8, FailRefines
<1> QED
  BY <1>1, <1>2, <1>3, <1>4, <1>5, <1>6, <1>7, <1>8 DEF Continue

LEMMA StartRefines ==
    ASSUME IInv, NEW p \in Threads, Start(p)
    PROVE  Refines
<1>1. CASE \E j \in Jobs : CreateJob(p, j)
  BY <1>1, CreateRefines
<1>2. CASE \E j \in Jobs : Cancel(p, j)
  BY <1>2, CancelRefines
<1>3. CASE \E S \in SUBSET Jobs : PollCall(p, S)
  BY <1>3, ExpireRefines DEF PollCall, ExpireThen
<1>4. CASE \E w \in Workers : ClaimCall(p, w) \/ ReleaseCall(p, w)
  BY <1>4, ExpireRefines DEF ClaimCall, ReleaseCall, ExpireThen
<1>5. CASE \E w \in Workers, t \in Tasks : Report(p, w, t)
  <2>1. PICK w \in Workers, t \in Tasks : Report(p, w, t)
    BY <1>5
  <2>2. CASE SubmitCall(p, w, t)
    BY <2>2, ExpireRefines DEF SubmitCall, ExpireThen
  <2>3. CASE \E retryable \in BOOLEAN : FailCall(p, w, t, retryable)
    BY <2>3, ExpireRefines DEF FailCall, ExpireThen
  <2>4. CASE \/ LocalDone(p, w, t)
             \/ \E retryable \in BOOLEAN : LocalFail(p, w, t, retryable)
    BY <2>4, Stutters DEF LocalDone, LocalFail, LocalReport, queueVars
  <2> QED
    BY <2>1, <2>2, <2>3, <2>4 DEF Report
<1>6. CASE \E t \in Tasks : AudioCall(p, t)
  BY <1>6, Stutters DEF AudioCall, queueVars
<1> QED
  BY <1>1, <1>2, <1>3, <1>4, <1>5, <1>6 DEF Start

LEMMA NextRefines ==
    ASSUME IInv, [Next]_vars
    PROVE  Refines
<1>1. CASE \E p \in Handlers : Start(p)
  BY <1>1, StartRefines DEF Threads
<1>2. CASE \E p \in Threads : Continue(p)
  BY <1>2, ContinueRefines
<1>3. CASE \E p \in Threads : Abort(p)
  BY <1>3, Stutters DEF Abort, queueVars
<1>4. CASE Tick
  BY <1>4, ExpireRefines DEF Tick, ExpireThen
<1>5. CASE RefreshActive
  BY <1>5, Stutters DEF RefreshActive, queueVars
<1>6. CASE \E t \in Tasks : LeaseLapses(t) \/ TrackChanges(t)
  BY <1>6, Stutters DEF LeaseLapses, TrackChanges, queueVars
<1>7. CASE UNCHANGED vars
  BY <1>7, Stutters DEF vars, queueVars
<1> QED
  BY <1>1, <1>2, <1>3, <1>4, <1>5, <1>6, <1>7 DEF Next

\* For any jobs, tasks, workers and threads the queue implements TaskLifecycle:
\* in particular a task is done only after it was held and its result recorded.
THEOREM Refinement == Spec => ImplementsLifecycle
<1>1. Init => Lifecycle!Init
  BY Mapped, StageValues, PhaseValues DEF Init, Lifecycle!Init
<1>2. IInv /\ [Next]_vars => [Lifecycle!Next]_(Lifecycle!vars)
  BY NextRefines DEF Refines
<1> QED
  BY <1>1, <1>2, Invariance, PTL DEF Spec, ImplementsLifecycle, Lifecycle!Spec

=============================================================================
