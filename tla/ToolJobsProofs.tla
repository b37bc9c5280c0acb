--------------------------- MODULE ToolJobsProofs ---------------------------
(***************************************************************************)
(* What holds of ToolJobs for any jobs, labels, agents and admins, however *)
(* many requests are lost: its types, no two agents work on one job, an    *)
(* agent never leaves a label's thread behind, and a job that is done has  *)
(* left no label out.                                                      *)
(***************************************************************************)
EXTENDS ToolJobs, FiniteSetTheorems, WellFoundedInduction, TLAPS

Statuses == {"absent", "queued", "running", "paused"} \cup Finished

Asked == {"running", "paused"} \cup Finished

Agents ==
    [pc : {"idle", "loop", "report", "act", "check", "drain", "close"}, job : Jobs \cup {0},
     wants : {"run", "pause", "cancel"}, asked : Asked, stopped : BOOLEAN, exhausted : BOOLEAN]

Requests ==
    [pc : {"idle", "create", "status", "write"}, job : Jobs \cup {0},
     wish : {"run", "pause", "cancel"}, closes : BOOLEAN]

Shape ==
    /\ status \in [Jobs -> Statuses]
    /\ control \in [Jobs -> {"run", "pause", "cancel"}]
    /\ holder \in [Jobs -> Workers \cup {Nobody}]
    /\ handlers \subseteq Calls
    /\ agent \in [Workers -> Agents]
    /\ admin \in [Admins -> Requests]
    /\ DOMAIN thinking = Workers /\ DOMAIN posting = Workers

\* A job gets its worker when it leaves the queue, and never returns to it.
QueuedIsFree == \A j \in Jobs : status[j] \in {"absent", "queued"} => holder[j] = Nobody

\* What the agent of w is at.
AgentInv(w) ==
    /\ agent[w].pc # "idle" => agent[w].job \in Jobs /\ holder[agent[w].job] = w
    /\ agent[w].pc \in {"idle", "close", "check"} => Running(w) = {}
    /\ agent[w].pc # "close" => agent[w].asked \in {"running", "paused"}

\* An agent waits for one report at a time.
ReportsInv ==
    \A h \in handlers : h.awaited =>
        /\ agent[h.worker].pc \in {"report", "close"}
        /\ \A g \in handlers : g.awaited /\ g.worker = h.worker => g = h

IInv == Shape /\ QueuedIsFree /\ ReportsInv /\ \A w \in Workers : AgentInv(w)

-----------------------------------------------------------------------------

LEMMA MinOfJobs ==
    ASSUME NEW S \in SUBSET Jobs, S # {}
    PROVE  Min(S) \in S
<1>1. S \subseteq Nat
  BY ConstantsAssumption DEF Jobs
<1>2. PICK n \in S : \A m \in S : ~(<<m, n>> \in OpToRel(<, Nat))
  BY <1>1, NatLessThanWellFounded, WFMin
<1>3. \A m \in S : n <= m
  <2>1. \A m \in S : ~(m < n)
    BY <1>1, <1>2, Zenon DEF OpToRel
  <2> QED
    BY <1>1, <2>1
<1> QED
  BY <1>2, <1>3 DEF Min

LEMMA InitInv == Init => IInv
<1> SUFFICES ASSUME Init PROVE IInv
  OBVIOUS
<1>1. Shape
  BY DEF Init, Shape, Statuses, Agents, Asked, Requests, Idle, NoRequest, Calls
<1>2. QueuedIsFree /\ ReportsInv
  BY DEF Init, QueuedIsFree, ReportsInv
<1>3. \A w \in Workers : AgentInv(w)
  BY DEF Init, AgentInv, Running, Idle
<1> QED
  BY <1>1, <1>2, <1>3 DEF IInv

\* The admin page closes jobs and makes new ones, and takes none from its worker.
LEMMA AdminInv ==
    ASSUME IInv, NEW a \in Admins, Manage(a)
    PROVE  IInv'
<1>1. UNCHANGED <<holder, handlers, inside>>
  BY DEF Manage, CheckActive, Create, ControlRead, ControlWrite, ControlCall, rows
<1>2. admin' \in [Admins -> Requests]
  <2>1. admin \in [Admins -> Requests] /\ NoRequest \in Requests
    BY DEF IInv, Shape, Requests, NoRequest
  <2>2. CASE CheckActive(a)
    BY <2>1, <2>2 DEF CheckActive, Requests
  <2>3. CASE Create(a) \/ ControlWrite(a)
    BY <2>1, <2>3 DEF Create, ControlWrite
  <2>4. CASE ControlRead(a)
    <3> DEFINE closes == admin[a].closes \/ (admin[a].wish = "cancel" /\ status[admin[a].job] = "queued")
               r == [admin[a] EXCEPT !.pc = "write", !.closes = closes]
    <3>1. r \in Requests
      BY <2>1 DEF Requests
    <3>2. admin' = [admin EXCEPT ![a] = IF status[admin[a].job] \in Finished THEN NoRequest ELSE r]
      BY <2>4 DEF ControlRead
    <3> HIDE DEF r
    <3> QED
      BY <2>1, <3>1, <3>2
  <2>5. ASSUME NEW j \in Jobs, NEW wish \in Wishes[j], ControlCall(a, j, wish)
        PROVE  admin' \in [Admins -> Requests]
    <3>1. [pc |-> "status", job |-> j, wish |-> wish,
           closes |-> wish = "cancel" /\ holder[j] \in quiet \cup {Nobody}] \in Requests
      BY ConstantsAssumption DEF Requests
    <3> QED
      BY <2>1, <2>5, <3>1 DEF ControlCall
  <2> QED
    BY <2>2, <2>3, <2>4, <2>5 DEF Manage
<1>3. control' \in [Jobs -> {"run", "pause", "cancel"}]
  BY DEF Manage, CheckActive, Create, ControlRead, ControlWrite, ControlCall, IInv, Shape, Requests,
         rows
<1>4. /\ status' \in [Jobs -> Statuses]
      /\ \A j \in Jobs : status'[j] \in {"absent", "queued"} => status[j] \in {"absent", "queued"}
  BY DEF Manage, CheckActive, Create, ControlRead, ControlWrite, ControlCall, IInv, Shape, rows,
         ClosedByAdmin, Statuses, Finished
<1> QED
  BY <1>1, <1>2, <1>3, <1>4
  DEF IInv, Shape, QueuedIsFree, ReportsInv, AgentInv, Running, inside

\* claim_tool_job: only the queue, and what is its own already, is taken.
LEMMA ClaimTakes ==
    ASSUME NEW w \in Workers
    PROVE  NextJob(w) = {} \/ \E n \in Jobs : /\ NextJob(w) = {n}
                                            /\ \/ status[n] = "queued"
                                               \/ Open(n) /\ holder[n] = w
<1> DEFINE mine == Own(w) \cap Wanted
           queued == {j \in Wanted : status[j] = "queued"}
<1>1. mine \in SUBSET Jobs /\ queued \in SUBSET Jobs
  BY DEF Own, Wanted
<1>2. mine # {} => Min(mine) \in mine
  BY <1>1, MinOfJobs
<1>3. queued # {} => Min(queued) \in queued
  BY <1>1, MinOfJobs
<1>4. \A n \in mine : Open(n) /\ holder[n] = w /\ n \in Jobs
  BY DEF Own
<1>5. \A n \in queued : status[n] = "queued" /\ n \in Jobs
  BY DEF Wanted
<1> HIDE DEF mine, queued
<1>6. NextJob(w) = IF mine # {} THEN {Min(mine)} ELSE IF queued # {} THEN {Min(queued)} ELSE {}
  BY DEF NextJob, mine, queued
<1> QED
  BY <1>2, <1>3, <1>4, <1>5, <1>6

LEMMA PollInv ==
    ASSUME IInv, NEW w \in Workers, Poll(w)
    PROVE  IInv'
<1> DEFINE next == NextJob(w)
<1>1. next = {} \/ \E n \in Jobs : /\ next = {n}
                                   /\ \/ status[n] = "queued"
                                      \/ Open(n) /\ holder[n] = w
  BY ClaimTakes
<1> HIDE DEF next
<1>2. /\ status' = [j \in Jobs |->
              IF j \in Unwanted(w) THEN "cancelled"
              ELSE IF j \in next /\ status[j] = "queued" THEN "running" ELSE status[j]]
      /\ holder' = [j \in Jobs |-> IF j \in next THEN w ELSE holder[j]]
      /\ agent' = [agent EXCEPT ![w] =
              IF next = {} THEN @
              ELSE [Idle EXCEPT !.pc = "report", !.job = Min(next),
                       !.asked = IF w \in busy THEN "paused" ELSE "running"]]
      /\ agent[w].pc = "idle"
      /\ UNCHANGED <<control, admin, handlers, thinking, posting>>
  BY DEF Poll, ClaimRows, next
<1>3. next # {} => \E n \in Jobs : next = {n} /\ Min(next) = n
  <2>1. \A n : Min({n}) \in {n} \/ n \notin Jobs
    BY MinOfJobs
  <2> QED
    BY <1>1, <2>1
<1>4. Shape'
  <2>1. agent' \in [Workers -> Agents]
    BY <1>2, <1>3 DEF IInv, Shape, Agents, Idle, Asked
  <2> QED
    BY <1>2, <2>1 DEF IInv, Shape, Statuses, Finished
<1>5. QueuedIsFree'
  BY <1>1, <1>2 DEF IInv, Shape, QueuedIsFree, Open
<1>6. ASSUME NEW v \in Workers PROVE AgentInv(v)'
  <2>1. AgentInv(v) /\ AgentInv(w)
    BY DEF IInv
  <2>2. CASE v = w
    BY <1>2, <1>3, <2>1, <2>2 DEF IInv, Shape, AgentInv, Running, Idle, Agents
  <2>3. CASE v # w
    <3>1. agent'[v] = agent[v] /\ Running(v)' = Running(v)
      BY <1>2, <2>3 DEF IInv, Shape, Running
    <3>2. agent[v].pc # "idle" => agent[v].job \notin next
      BY <1>1, <2>1, <2>3, ConstantsAssumption DEF IInv, AgentInv, QueuedIsFree
    <3> QED
      BY <1>2, <2>1, <3>1, <3>2 DEF AgentInv
  <2> QED
    BY <2>2, <2>3
<1>7. ReportsInv'
  BY <1>2 DEF IInv, Shape, ReportsInv, Calls
<1> QED
  BY <1>4, <1>5, <1>6, <1>7 DEF IInv

\* A claim that nobody waits for takes no job from an agent either.
LEMMA StrayPollInv ==
    ASSUME IInv, NEW w \in Workers, StrayPoll(w)
    PROVE  IInv'
<1> DEFINE next == NextJob(w)
<1>1. next = {} \/ \E n \in Jobs : /\ next = {n}
                                   /\ \/ status[n] = "queued"
                                      \/ Open(n) /\ holder[n] = w
  BY ClaimTakes
<1> HIDE DEF next
<1>2. /\ status' = [j \in Jobs |->
              IF j \in Unwanted(w) THEN "cancelled"
              ELSE IF j \in next /\ status[j] = "queued" THEN "running" ELSE status[j]]
      /\ holder' = [j \in Jobs |-> IF j \in next THEN w ELSE holder[j]]
      /\ UNCHANGED <<control, admin, handlers, agent, thinking, posting>>
  BY DEF StrayPoll, ClaimRows, inside, next
<1>3. Shape' /\ ReportsInv'
  BY <1>2 DEF IInv, Shape, ReportsInv, Statuses, Finished
<1>4. QueuedIsFree'
  BY <1>1, <1>2 DEF IInv, Shape, QueuedIsFree, Open
<1>5. ASSUME NEW v \in Workers PROVE AgentInv(v)'
  <2>1. AgentInv(v) /\ Running(v)' = Running(v)
    BY <1>2 DEF IInv, Running
  <2>2. agent[v].pc # "idle" => holder'[agent[v].job] = v
    BY <1>1, <1>2, <2>1, ConstantsAssumption DEF IInv, AgentInv, QueuedIsFree
  <2> QED
    BY <1>2, <2>1, <2>2 DEF AgentInv
<1> QED
  BY <1>3, <1>4, <1>5 DEF IInv

-----------------------------------------------------------------------------
(* Reports. *)

\* A step of one agent that keeps its job: the others and the rows stay.
LEMMA AgentMoves ==
    ASSUME IInv, NEW w \in Workers, NEW r \in Agents, agent' = [agent EXCEPT ![w] = r],
           \A v \in Workers \ {w} : Running(v)' = Running(v),
           DOMAIN thinking' = Workers, DOMAIN posting' = Workers,
           r.pc # "idle" => agent[w].pc # "idle" /\ r.job = agent[w].job,
           r.pc \in {"idle", "close", "check"} => Running(w)' = {},
           r.pc # "close" => r.asked \in {"running", "paused"},
           UNCHANGED <<control, holder, admin>>,
           status' \in [Jobs -> Statuses],
           \A j \in Jobs : status'[j] \in {"absent", "queued"} => status[j] \in {"absent", "queued"},
           handlers' \subseteq Calls,
           ReportsInv'
    PROVE  IInv'
<1>1. Shape'
  BY DEF IInv, Shape
<1>2. QueuedIsFree'
  BY DEF IInv, QueuedIsFree
<1>3. ASSUME NEW v \in Workers PROVE AgentInv(v)'
  <2>1. AgentInv(v)
    BY DEF IInv
  <2>2. CASE v = w
    <3>1. agent'[w] = r
      BY DEF IInv, Shape
    <3> QED
      BY <2>1, <2>2, <3>1 DEF AgentInv
  <2>3. CASE v # w
    <3>1. agent'[v] = agent[v] /\ Running(v)' = Running(v)
      BY <2>3 DEF IInv, Shape
    <3> QED
      BY <2>1, <3>1 DEF AgentInv
  <2> QED
    BY <2>2, <2>3
<1> QED
  BY <1>1, <1>2, <1>3 DEF IInv

\* What an agent is after its answer.
LEMMA AnsweredIs ==
    ASSUME IInv, NEW w \in Workers, NEW wants \in {"run", "pause", "cancel"},
           Answered(w, wants), agent[w].pc \in {"report", "close"}
    PROVE  \E r \in Agents :
              /\ agent' = [agent EXCEPT ![w] = r]
              /\ r.pc # "idle" => r.job = agent[w].job
              /\ r.pc \in {"idle", "close", "check"} => Running(w) = {}
              /\ r.pc # "close" /\ r.asked \in {"running", "paused"}
<1>1. CASE agent[w].pc = "close"
  <2>1. agent' = [agent EXCEPT ![w] = Idle] /\ Idle \in Agents
    BY <1>1 DEF Answered, Agents, Idle, Asked
  <2>2. Running(w) = {}
    BY <1>1 DEF IInv, AgentInv
  <2> QED
    BY <2>1, <2>2 DEF Idle
<1>2. CASE agent[w].pc = "report"
  <2> DEFINE r == [agent[w] EXCEPT !.pc = "act", !.wants = wants, !.asked = "running"]
  <2>1. /\ r \in Agents /\ r.pc = "act" /\ r.job = agent[w].job /\ r.asked = "running"
    BY DEF IInv, Shape, Agents, Asked
  <2>2. agent' = [agent EXCEPT ![w] = r]
    BY <1>2 DEF Answered
  <2> HIDE DEF r
  <2> QED
    BY <2>1, <2>2
<1> QED
  BY <1>1, <1>2

LEMMA ProgressReadInv ==
    ASSUME IInv, NEW w \in Workers, ProgressRead(w)
    PROVE  IInv'
<1> DEFINE j == agent[w].job
<1>1. j \in Jobs /\ agent[w].pc \in {"report", "close"} /\ agent[w].asked \in Asked
      /\ \A h \in handlers : ~(h.worker = w /\ h.awaited)
  BY DEF ProgressRead, IInv, AgentInv, Shape, Agents
<1>2. CASE status[j] \in Finished
  <2>1. /\ Answered(w, IF status[j] = "cancelled" THEN "cancel" ELSE control[j])
        /\ UNCHANGED <<handlers, status, control, holder, admin, thinking, posting>>
    BY <1>2 DEF ProgressRead
  <2>2. (IF status[j] = "cancelled" THEN "cancel" ELSE control[j]) \in {"run", "pause", "cancel"}
    BY <1>1 DEF IInv, Shape
  <2>3. PICK r \in Agents :
              /\ agent' = [agent EXCEPT ![w] = r]
              /\ r.pc # "idle" => r.job = agent[w].job
              /\ r.pc \in {"idle", "close", "check"} => Running(w) = {}
              /\ r.pc # "close" /\ r.asked \in {"running", "paused"}
    BY <1>1, <2>1, <2>2, AnsweredIs
  <2>4. ReportsInv'
    BY <1>1, <2>1, <2>3 DEF IInv, ReportsInv, Shape, Calls
  <2>5. Shape /\ \A v \in Workers : Running(v)' = Running(v)
    BY <2>1 DEF Running, IInv
  <2> QED
    BY <1>1, <2>1, <2>3, <2>4, <2>5, AgentMoves DEF Shape
<1>3. CASE status[j] \notin Finished
  <2> DEFINE new == [worker |-> w, job |-> j, asked |-> agent[w].asked,
                     control |-> control[j], awaited |-> TRUE]
  <2>1. /\ handlers' = handlers \cup {new}
        /\ UNCHANGED <<agent, status, control, holder, admin, thinking, posting>>
    BY <1>3 DEF ProgressRead
  <2>2. new \in Calls
    BY <1>1 DEF Calls, Asked, IInv, Shape
  <2>3. ReportsInv'
    <3>1. new.worker = w /\ new.awaited
      OBVIOUS
    <3> HIDE DEF new
    <3> QED
      BY <1>1, <2>1, <3>1 DEF IInv, ReportsInv
  <2> QED
    BY <2>1, <2>2, <2>3 DEF IInv, Shape, QueuedIsFree, AgentInv, Running
<1> QED
  BY <1>2, <1>3

LEMMA ProgressWriteInv ==
    ASSUME IInv, NEW h \in handlers, ProgressWrite(h)
    PROVE  IInv'
<1>1. h \in Calls /\ h.worker \in Workers /\ h.job \in Jobs /\ h.asked \in Asked
      /\ h.control \in {"run", "pause", "cancel"}
  BY DEF IInv, Shape, Calls, Asked
<1>2. /\ status' = [status EXCEPT ![h.job] = h.asked]
      /\ handlers' = handlers \ {h}
      /\ UNCHANGED <<control, holder, admin, thinking, posting>>
  BY DEF ProgressWrite
<1>3. /\ status' \in [Jobs -> Statuses]
      /\ \A j \in Jobs : status'[j] \in {"absent", "queued"} => status[j] \in {"absent", "queued"}
  BY <1>1, <1>2 DEF IInv, Shape, Statuses, Asked, Finished
<1>4. CASE h.awaited
  <2>1. Answered(h.worker, h.control) /\ agent[h.worker].pc \in {"report", "close"}
    BY <1>4 DEF ProgressWrite, IInv, ReportsInv
  <2>2. PICK w \in Workers : w = h.worker
    BY <1>1
  <2>3. PICK r \in Agents :
              /\ agent' = [agent EXCEPT ![w] = r]
              /\ r.pc # "idle" => r.job = agent[w].job
              /\ r.pc \in {"idle", "close", "check"} => Running(w) = {}
              /\ r.pc # "close" /\ r.asked \in {"running", "paused"}
    BY <1>1, <2>1, <2>2, AnsweredIs
  <2>4. ReportsInv'
    <3>1. ASSUME NEW g \in handlers', g.awaited
          PROVE  /\ agent'[g.worker].pc \in {"report", "close"}
                 /\ \A f \in handlers' : f.awaited /\ f.worker = g.worker => f = g
      <4>1. g \in handlers /\ g # h /\ g.worker \in Workers
        BY <1>2, <3>1 DEF IInv, Shape, Calls
      <4>2. g.worker # w
        BY <1>4, <2>2, <3>1, <4>1 DEF IInv, ReportsInv
      <4>3. agent'[g.worker] = agent[g.worker]
        BY <2>3, <4>1, <4>2 DEF IInv, Shape
      <4> QED
        BY <1>2, <3>1, <4>1, <4>3 DEF IInv, ReportsInv
    <3> QED
      BY <3>1 DEF ReportsInv
  <2>5. \A v \in Workers : Running(v)' = Running(v)
    BY <1>2 DEF Running
  <2>6. agent[w].pc # "idle" /\ handlers' \subseteq Calls /\ Shape
    BY <1>2, <2>1, <2>2 DEF IInv, Shape
  <2> QED
    BY <1>2, <1>3, <2>3, <2>4, <2>5, <2>6, AgentMoves DEF Shape
<1>5. CASE ~h.awaited
  <2>1. UNCHANGED agent
    BY <1>5 DEF ProgressWrite
  <2> QED
    BY <1>2, <1>3, <2>1 DEF IInv, Shape, QueuedIsFree, ReportsInv, AgentInv, Running
<1> QED
  BY <1>4, <1>5

-----------------------------------------------------------------------------
(* The agent's threads. *)

\* A step of an agent that has no request under way.
LEMMA OwnStep ==
    ASSUME IInv, NEW w \in Workers, NEW r \in Agents, agent' = [agent EXCEPT ![w] = r],
           agent[w].pc \in {"loop", "act", "drain", "check"},
           r.pc # "idle", r.job = agent[w].job,
           r.pc \in {"close", "check"} => Running(w)' = {},
           r.pc # "close" => r.asked \in {"running", "paused"},
           \A v \in Workers \ {w} : Running(v)' = Running(v),
           DOMAIN thinking' = Workers, DOMAIN posting' = Workers,
           UNCHANGED <<status, control, holder, admin, handlers>>
    PROVE  IInv'
<1>1. ReportsInv'
  <2>1. ASSUME NEW g \in handlers, g.awaited
        PROVE  agent'[g.worker].pc \in {"report", "close"}
    <3>1. g.worker \in Workers /\ g.worker # w
      BY <2>1 DEF IInv, Shape, Calls, ReportsInv
    <3>2. agent'[g.worker] = agent[g.worker]
      BY <3>1 DEF IInv, Shape
    <3> QED
      BY <2>1, <3>2 DEF IInv, ReportsInv
  <2> QED
    BY <2>1 DEF IInv, ReportsInv
<1>2. Shape
  BY DEF IInv
<1> QED
  BY <1>1, <1>2, AgentMoves DEF Shape

LEMMA MainThreadInv ==
    ASSUME IInv, NEW w \in Workers,
           Report(w) \/ Drop(w) \/ Rest(w) \/ Fetch(w) \/ LoadFails(w) \/ Fail(w) \/ LookAgain(w)
    PROVE  IInv'
<1>1. agent[w] \in Agents /\ agent[w].pc \in {"loop", "act", "drain", "check"}
  BY DEF IInv, Shape, Report, Drop, Rest, Fetch, LoadFails, Fail, LookAgain, At, Acts
<1>2. agent[w].asked \in {"running", "paused"}
  BY <1>1 DEF IInv, AgentInv
<1>3. /\ UNCHANGED <<status, control, holder, admin, handlers>>
      /\ DOMAIN thinking' = Workers /\ DOMAIN posting' = Workers
      /\ \A v \in Workers \ {w} : Running(v)' = Running(v)
  BY DEF IInv, Shape, Report, Drop, Rest, Fetch, LoadFails, Fail, LookAgain, rows, Running
<1>4. CASE Report(w)
  <2> DEFINE a == IF (agent[w].wants = "pause" \/ w \in busy) /\ Running(w) = {}
                  THEN "paused" ELSE "running"
             r == [agent[w] EXCEPT !.pc = "report", !.asked = a]
  <2>1. r \in Agents /\ r.pc = "report" /\ r.job = agent[w].job
        /\ r.asked \in {"running", "paused"}
    BY <1>1 DEF Agents, Asked
  <2>2. agent' = [agent EXCEPT ![w] = r]
    BY <1>4 DEF Report
  <2> HIDE DEF r
  <2> QED
    BY <1>1, <1>3, <2>1, <2>2, OwnStep
<1>5. ASSUME NEW final \in Finished, Close(w, final), Running(w) = {},
             UNCHANGED <<thinking, posting>>
      PROVE  IInv'
  <2> DEFINE r == [agent[w] EXCEPT !.pc = "close", !.asked = final]
  <2>1. r \in Agents /\ r.pc = "close" /\ r.job = agent[w].job
    BY <1>1 DEF Agents, Asked
  <2>2. agent' = [agent EXCEPT ![w] = r] /\ Running(w)' = {}
    BY <1>5 DEF Close, Running
  <2> HIDE DEF r
  <2> QED
    BY <1>1, <1>3, <2>1, <2>2, OwnStep
<1>6. ASSUME NEW e \in BOOLEAN, NextIteration(w, e), Running(w)' = {} \/ ~(e /\ Running(w) = {})
      PROVE  IInv'
  <2> DEFINE pc == IF e /\ Running(w) = {} THEN "check" ELSE "loop"
             r == [agent[w] EXCEPT !.exhausted = e, !.pc = pc]
  <2>1. r \in Agents /\ r.pc = pc /\ r.job = agent[w].job /\ r.asked = agent[w].asked
    BY <1>1 DEF Agents
  <2>2. agent' = [agent EXCEPT ![w] = r]
    BY <1>6 DEF NextIteration
  <2>3. pc \in {"check", "loop"} /\ (pc = "check" => Running(w)' = {})
    BY <1>6
  <2> HIDE DEF r, pc
  <2> QED
    BY <1>1, <1>2, <1>3, <2>1, <2>2, <2>3, OwnStep
<1>7. CASE Drop(w)
  <2>1. CASE ThreadsEnded(w)
    BY <1>5, <1>7, <2>1 DEF Drop, Dropped, Finished, ThreadsEnded
  <2>2. CASE ~ThreadsEnded(w)
    <3> DEFINE r == [agent[w] EXCEPT !.pc = "loop", !.stopped = TRUE]
    <3>1. r \in Agents /\ r.pc = "loop" /\ r.job = agent[w].job /\ r.asked = agent[w].asked
      BY <1>1 DEF Agents
    <3>2. agent' = [agent EXCEPT ![w] = r]
      BY <1>7, <2>2 DEF Drop
    <3> HIDE DEF r
    <3> QED
      BY <1>1, <1>2, <1>3, <3>1, <3>2, OwnStep
  <2> QED
    BY <2>1, <2>2
<1>8. CASE Rest(w)
  <2>1. agent[w].exhausted \in BOOLEAN
    BY <1>1 DEF Agents
  <2>2. Running(w)' = Running(w) /\ NextIteration(w, agent[w].exhausted)
    BY <1>8 DEF Rest, Running
  <2> QED
    BY <1>6, <2>1, <2>2
<1>9. CASE Fetch(w)
  <2> DEFINE fetched == DescribeNext(agent[w].job, Slots - Cardinality(Running(w)), Running(w))
  <2>1. /\ thinking' = [thinking EXCEPT ![w] = @ \cup fetched]
        /\ posting' = posting
        /\ NextIteration(w, fetched = {} /\ Running(w) = {})
    BY <1>9 DEF Fetch
  <2> HIDE DEF fetched
  <2>2. fetched = {} /\ Running(w) = {} => Running(w)' = {}
    BY <2>1 DEF Running, IInv, Shape
  <2> QED
    BY <1>6, <2>1, <2>2
<1>10. CASE LoadFails(w)
  <2> DEFINE r == [agent[w] EXCEPT !.pc = "drain"]
  <2>1. r \in Agents /\ r.pc = "drain" /\ r.job = agent[w].job /\ r.asked = agent[w].asked
    BY <1>1 DEF Agents
  <2>2. agent' = [agent EXCEPT ![w] = r]
    BY <1>10 DEF LoadFails
  <2> HIDE DEF r
  <2> QED
    BY <1>1, <1>2, <1>3, <2>1, <2>2, OwnStep
<1>11. CASE Fail(w)
  BY <1>5, <1>11 DEF Fail, Finished, ThreadsEnded
<1>12. CASE LookAgain(w)
  <2>1. Running(w) = {} /\ UNCHANGED <<thinking, posting>>
    BY <1>12 DEF LookAgain, At, IInv, AgentInv
  <2>2. CASE Close(w, "done")
    BY <1>5, <2>1, <2>2 DEF Finished
  <2>3. CASE agent' = [agent EXCEPT ![w].pc = "loop", ![w].exhausted = FALSE]
    <3> DEFINE r == [agent[w] EXCEPT !.pc = "loop", !.exhausted = FALSE]
    <3>1. r \in Agents /\ r.pc = "loop" /\ r.job = agent[w].job /\ r.asked = agent[w].asked
      BY <1>1 DEF Agents
    <3>2. agent' = [agent EXCEPT ![w] = r]
      BY <2>3
    <3> HIDE DEF r
    <3> QED
      BY <1>1, <1>2, <1>3, <3>1, <3>2, OwnStep
  <2> QED
    BY <1>12, <2>2, <2>3 DEF LookAgain
<1> QED
  BY <1>4, <1>7, <1>8, <1>9, <1>10, <1>11, <1>12

\* Threads of labels end; none begins.
LEMMA DescribeInv ==
    ASSUME IInv, NEW w \in Workers, NEW l \in Labels, Describe(w, l)
    PROVE  IInv'
<1>1. UNCHANGED <<status, control, holder, admin, handlers, agent>>
  BY DEF Describe, Researched, PostResult, rows
<1>2. DOMAIN thinking' = Workers /\ DOMAIN posting' = Workers
  BY DEF Describe, Researched, PostResult, IInv, Shape
<1>3. \A v \in Workers : Running(v)' \subseteq Running(v)
  BY DEF Describe, Researched, PostResult, IInv, Shape, Running
<1> QED
  BY <1>1, <1>2, <1>3 DEF IInv, Shape, QueuedIsFree, ReportsInv, AgentInv

-----------------------------------------------------------------------------
(* What happens around them. *)

LEMMA UnheardOf ==
    ASSUME IInv, NEW w \in Workers, Unheard(w)
    PROVE  /\ handlers' \subseteq Calls
           /\ \A g \in handlers' : g.awaited => g \in handlers /\ g.worker # w
<1> SUFFICES ASSUME NEW g \in handlers'
             PROVE  g \in Calls /\ (g.awaited => g \in handlers /\ g.worker # w)
  OBVIOUS
<1>1. PICK h \in handlers : g = IF h.worker = w THEN [h EXCEPT !.awaited = FALSE] ELSE h
  BY DEF Unheard
<1>2. h \in Calls
  BY DEF IInv, Shape
<1>3. CASE h.worker = w
  BY <1>1, <1>2, <1>3 DEF Calls
<1>4. CASE h.worker # w
  BY <1>1, <1>2, <1>4
<1> QED
  BY <1>3, <1>4

\* An agent that is through with its job, and of whom no request is awaited.
LEMMA LeavesJob ==
    ASSUME IInv, NEW w \in Workers, agent' = [agent EXCEPT ![w] = Idle],
           Running(w)' = {}, \A v \in Workers \ {w} : Running(v)' = Running(v),
           DOMAIN thinking' = Workers, DOMAIN posting' = Workers,
           handlers' \subseteq Calls,
           \A g \in handlers' : g.awaited => g \in handlers /\ g.worker # w,
           UNCHANGED <<status, control, holder, admin>>
    PROVE  IInv'
<1>1. Idle \in Agents /\ Idle.pc = "idle" /\ Idle.asked = "running"
  BY DEF Idle, Agents, Asked
<1>2. ReportsInv'
  <2>1. ASSUME NEW g \in handlers', g.awaited
        PROVE  agent'[g.worker].pc \in {"report", "close"}
    <3>1. g \in handlers /\ g.worker # w /\ g.worker \in Workers
      BY <2>1 DEF Calls
    <3>2. agent'[g.worker] = agent[g.worker]
      BY <3>1 DEF IInv, Shape
    <3> QED
      BY <2>1, <3>1, <3>2 DEF IInv, ReportsInv
  <2> QED
    BY <2>1 DEF IInv, ReportsInv
<1>3. Shape
  BY DEF IInv
<1> QED
  BY <1>1, <1>2, <1>3, AgentMoves DEF Shape

\* Requests under way become fewer, or are given up; nothing else changes.
LEMMA RequestsEnd ==
    ASSUME IInv, handlers' \subseteq Calls,
           \A g \in handlers' : g.awaited => g \in handlers,
           UNCHANGED <<status, control, holder, admin, agent, thinking, posting>>
    PROVE  IInv'
BY DEF IInv, Shape, QueuedIsFree, ReportsInv, AgentInv, Running

LEMMA TroubleInv ==
    ASSUME IInv, NEW w \in Workers, Trouble(w) \/ GpuFree(w)
    PROVE  IInv'
<1>1. CASE ProgressLost(w)
  <2>1. /\ handlers' \subseteq Calls
        /\ \A g \in handlers' : g.awaited => g \in handlers /\ g.worker # w
    BY <1>1, UnheardOf DEF ProgressLost
  <2>2. UNCHANGED <<status, control, holder, admin, thinking, posting>>
    BY <1>1 DEF ProgressLost, rows
  <2>3. CASE agent[w].asked = "failed"
    <3>1. Running(w) = {}
      BY <2>3 DEF IInv, AgentInv
    <3>2. agent' = [agent EXCEPT ![w] = Idle]
      BY <1>1, <2>3 DEF ProgressLost
    <3>3. Running(w)' = {} /\ \A v \in Workers : Running(v)' = Running(v)
      BY <2>2, <3>1 DEF Running
    <3> QED
      BY <2>1, <2>2, <3>2, <3>3, LeavesJob DEF IInv, Shape
  <2>4. CASE agent[w].asked # "failed"
    <3>1. UNCHANGED agent
      BY <1>1, <2>4 DEF ProgressLost, IInv, Shape
    <3> QED
      BY <2>1, <2>2, <3>1, RequestsEnd
  <2> QED
    BY <2>3, <2>4
<1>2. CASE Restart(w)
  <2>1. /\ handlers' \subseteq Calls
        /\ \A g \in handlers' : g.awaited => g \in handlers /\ g.worker # w
    BY <1>2, UnheardOf DEF Restart
  <2>2. /\ UNCHANGED <<status, control, holder, admin>>
        /\ agent' = [agent EXCEPT ![w] = Idle]
        /\ DOMAIN thinking' = Workers /\ DOMAIN posting' = Workers
        /\ Running(w)' = {} /\ \A v \in Workers \ {w} : Running(v)' = Running(v)
    BY <1>2 DEF Restart, rows, IInv, Shape, Running
  <2> QED
    BY <2>1, <2>2, LeavesJob
<1>3. CASE FallsQuiet(w) \/ GpuTaken(w) \/ GpuFree(w) \/ \E l \in Labels : ResultLost(w, l)
  <2>1. UNCHANGED <<status, control, holder, admin, agent, thinking, posting, handlers>>
    BY <1>3 DEF FallsQuiet, GpuTaken, GpuFree, ResultLost, rows, inside
  <2> QED
    BY <2>1, RequestsEnd DEF IInv, Shape
<1>4. CASE StrayPoll(w)
  BY <1>4, StrayPollInv
<1> QED
  BY <1>1, <1>2, <1>3, <1>4 DEF Trouble

LEMMA HandlerDiesInv ==
    ASSUME IInv, NEW h \in handlers, HandlerDies(h)
    PROVE  IInv'
<1>1. /\ handlers' = handlers \ {h}
      /\ UNCHANGED <<status, control, holder, admin, thinking, posting>>
  BY DEF HandlerDies, rows
<1>2. handlers' \subseteq Calls /\ \A g \in handlers' : g.awaited => g \in handlers
  BY <1>1 DEF IInv, Shape
<1>3. PICK w \in Workers : w = h.worker
  BY DEF IInv, Shape, Calls
<1>4. CASE h.awaited /\ agent[w].asked = "failed"
  <2>1. Running(w) = {}
    BY <1>4 DEF IInv, AgentInv
  <2>2. agent' = [agent EXCEPT ![w] = Idle]
    BY <1>3, <1>4 DEF HandlerDies
  <2>3. Running(w)' = {} /\ \A v \in Workers : Running(v)' = Running(v)
    BY <1>1, <2>1 DEF Running
  <2>4. \A g \in handlers' : g.awaited => g \in handlers /\ g.worker # w
    BY <1>1, <1>3, <1>4 DEF IInv, ReportsInv
  <2> QED
    BY <1>1, <1>2, <2>2, <2>3, <2>4, LeavesJob DEF IInv, Shape
<1>5. CASE ~(h.awaited /\ agent[w].asked = "failed")
  <2>1. UNCHANGED agent
    BY <1>3, <1>5 DEF HandlerDies, IInv, Shape
  <2> QED
    BY <1>1, <1>2, <2>1, RequestsEnd
<1> QED
  BY <1>4, <1>5

-----------------------------------------------------------------------------
(* Every step, and the theorems. *)

LEMMA NextInv == IInv /\ [Next]_vars => IInv'
<1> SUFFICES ASSUME IInv, [Next]_vars PROVE IInv'
  OBVIOUS
<1>1. CASE \E a \in Admins : Manage(a)
  BY <1>1, AdminInv
<1>2. ASSUME NEW w \in Workers, Work(w) PROVE IInv'
  BY <1>2, PollInv, ProgressReadInv, MainThreadInv DEF Work
<1>3. CASE \E w \in Workers : Trouble(w) \/ GpuFree(w)
  BY <1>3, TroubleInv
<1>4. CASE \E w \in Workers, l \in Labels : Describe(w, l)
  BY <1>4, DescribeInv
<1>5. CASE \E h \in handlers : ProgressWrite(h) \/ HandlerDies(h)
  BY <1>5, ProgressWriteInv, HandlerDiesInv
<1>6. CASE \/ \E j \in Jobs, l \in Labels : StrayResult(j, l)
           \/ \E main, other \in Labels : Merge(main, other)
           \/ UNCHANGED vars
  <2>1. UNCHANGED <<status, control, holder, admin, agent, thinking, posting, handlers>>
    BY <1>6 DEF StrayResult, Merge, vars, rows, inside
  <2> QED
    BY <2>1, RequestsEnd DEF IInv, Shape
<1> QED
  BY <1>1, <1>2, <1>3, <1>4, <1>5, <1>6 DEF Next

LEMMA Invariance == Spec => []IInv
BY InitInv, NextInv, PTL DEF Spec

\* Whoever works on a job is the worker in its row, so two agents never work on
\* the same job (claim_tool_job and the agent's loop, with every request repeated
\* or lost and agents that restart).
THEOREM OneAgentWorksOnAJob == Spec => []OneAgentPerJob
<1>1. IInv => OneAgentPerJob
  BY DEF IInv, AgentInv, OneAgentPerJob
<1> QED
  BY <1>1, Invariance, PTL

\* The agent reports the end of a job, and takes the next, only when no thread of
\* a label is left (DescribeJob.run: cancel, failure and the end of the list).
THEOREM NoThreadIsLeftBehind == Spec => []NothingLeftBehind
<1>1. IInv => NothingLeftBehind
  BY DEF IInv, AgentInv, NothingLeftBehind
<1> QED
  BY <1>1, Invariance, PTL

-----------------------------------------------------------------------------
(* Types of what the argument above did not need.                            *)

\* The labels, and what is under way.
LabelTypes ==
    /\ list \in [Jobs -> SUBSET Labels]
    /\ credit \in [Labels -> Jobs \cup {0}] /\ gone \subseteq Labels
    /\ quiet \subseteq Workers /\ busy \subseteq Workers
    /\ thinking \in [Workers -> SUBSET Labels]
    /\ posting \in [Workers -> SUBSET Labels]
    /\ strays \subseteq Jobs \X Labels
    /\ losses \in 0 .. MaxLosses
    /\ results \subseteq Jobs \X Labels

LEMMA TypesAre == IInv /\ LabelTypes => TypeOK
BY DEF IInv, Shape, LabelTypes, TypeOK, Statuses, Agents, Asked, Requests

LEMMA LossType ==
    ASSUME LabelTypes, Lose
    PROVE  losses' \in 0 .. MaxLosses
BY ConstantsAssumption DEF LabelTypes, Lose

LEMMA RecordTypes ==
    ASSUME LabelTypes, NEW j \in Jobs, NEW l \in Labels, Record(j, l)
    PROVE  credit' \in [Labels -> Jobs \cup {0}] /\ results' \subseteq Jobs \X Labels
BY DEF LabelTypes, Record

LEMMA DescribeNextIs ==
    ASSUME LabelTypes, NEW j \in Jobs, NEW limit, NEW exclude
    PROVE  DescribeNext(j, limit, exclude) \subseteq Labels
BY DEF LabelTypes, DescribeNext, First, Todo

LEMMA LabelTypesNext ==
    ASSUME IInv, LabelTypes, [Next]_vars
    PROVE  LabelTypes'
<1>1. ASSUME NEW a \in Admins, Manage(a) PROVE LabelTypes'
  <2>1. UNCHANGED <<credit, gone, quiet, inside, strays, losses, results>>
    BY <1>1 DEF Manage, CheckActive, Create, ControlRead, ControlWrite, ControlCall, rows
  <2>2. list' \in [Jobs -> SUBSET Labels]
    <3>1. CASE Create(a)
      <4>1. PICK j \in Jobs : list' = [list EXCEPT ![j] = ToSet(LabelsOf[j]) \ gone]
        BY <3>1 DEF Create
      <4>2. LabelsOf[j] \in Seq(Labels)
        BY ConstantsAssumption
      <4>3. ToSet(LabelsOf[j]) \subseteq Labels
        BY <4>2 DEF ToSet
      <4> QED
        BY <4>1, <4>3 DEF LabelTypes
    <3>2. CASE UNCHANGED list
      BY <3>2 DEF LabelTypes
    <3> QED
      BY <1>1, <3>1, <3>2 DEF Manage, CheckActive, ControlRead, ControlWrite, ControlCall, rows
  <2> QED
    BY <2>1, <2>2 DEF LabelTypes, inside
<1>2. ASSUME NEW w \in Workers, Poll(w) \/ ProgressRead(w) PROVE LabelTypes'
  BY <1>2 DEF Poll, ClaimRows, ProgressRead, LabelTypes
<1>3. ASSUME NEW w \in Workers,
             Report(w) \/ Drop(w) \/ Rest(w) \/ LoadFails(w) \/ Fail(w) \/ LookAgain(w)
      PROVE  LabelTypes'
  BY <1>3 DEF Report, Drop, Rest, LoadFails, Fail, LookAgain, rows, LabelTypes
<1>4. ASSUME NEW w \in Workers, Fetch(w) PROVE LabelTypes'
  <2> DEFINE fetched == DescribeNext(agent[w].job, Slots - Cardinality(Running(w)), Running(w))
  <2>1. agent[w].job \in Jobs
    BY <1>4 DEF Fetch, Acts, IInv, AgentInv
  <2>2. fetched \subseteq Labels
    BY <2>1, DescribeNextIs
  <2>3. thinking' = [thinking EXCEPT ![w] = @ \cup fetched]
    BY <1>4 DEF Fetch
  <2> HIDE DEF fetched
  <2>4. thinking' \in [Workers -> SUBSET Labels]
    BY <2>2, <2>3 DEF LabelTypes
  <2> QED
    BY <1>4, <2>4 DEF Fetch, rows, LabelTypes
<1>5. ASSUME NEW w \in Workers, NEW l \in Labels, Researched(w, l) PROVE LabelTypes'
  BY <1>5 DEF Researched, rows, LabelTypes
\* Only an agent on a job has results to send.
<1>6. \A w \in Workers : posting[w] # {} => agent[w].job \in Jobs
  BY DEF IInv, AgentInv, Running
<1>7. ASSUME NEW w \in Workers, NEW l \in Labels, PostResult(w, l) PROVE LabelTypes'
  <2>1. agent[w].job \in Jobs
    BY <1>6, <1>7 DEF PostResult
  <2> QED
    BY <1>7, <2>1, RecordTypes DEF PostResult, LabelTypes
<1>8. ASSUME NEW w \in Workers, NEW l \in Labels, ResultLost(w, l) PROVE LabelTypes'
  <2>1. agent[w].job \in Jobs
    BY <1>6, <1>8 DEF ResultLost
  <2> QED
    BY <1>8, <2>1, LossType DEF ResultLost, rows, inside, LabelTypes
<1>9. ASSUME NEW w \in Workers, Restart(w) PROVE LabelTypes'
  <2>1. PICK S \in SUBSET posting[w] : strays' = strays \cup ({agent[w].job} \X S)
    BY <1>9 DEF Restart
  <2>2. strays' \subseteq Jobs \X Labels
    BY <1>6, <2>1 DEF LabelTypes
  <2>3. /\ thinking' \in [Workers -> SUBSET Labels] /\ posting' \in [Workers -> SUBSET Labels]
        /\ UNCHANGED <<list, credit, gone, quiet, busy, results>>
    BY <1>9 DEF Restart, rows, LabelTypes
  <2>4. losses' \in 0 .. MaxLosses
    BY <1>9, LossType DEF Restart
  <2> QED
    BY <2>2, <2>3, <2>4 DEF LabelTypes
<1>10. ASSUME NEW w \in Workers,
              \/ ProgressLost(w) \/ StrayPoll(w) \/ FallsQuiet(w)
              \/ GpuTaken(w) \/ GpuFree(w)
       PROVE  LabelTypes'
  <2>1. CASE ProgressLost(w) \/ GpuTaken(w)
    BY <2>1, LossType DEF ProgressLost, GpuTaken, rows, LabelTypes
  <2>2. CASE FallsQuiet(w) \/ GpuFree(w)
    BY <2>2 DEF FallsQuiet, GpuFree, rows, inside, LabelTypes
  <2>3. CASE StrayPoll(w)
    BY <2>3, LossType DEF StrayPoll, ClaimRows, inside, LabelTypes
  <2> QED
    BY <1>10, <2>1, <2>2, <2>3
<1>11. ASSUME NEW h \in handlers, ProgressWrite(h) \/ HandlerDies(h) PROVE LabelTypes'
  <2>1. CASE ProgressWrite(h)
    BY <2>1 DEF ProgressWrite, LabelTypes
  <2>2. CASE HandlerDies(h)
    BY <2>2, LossType DEF HandlerDies, rows, LabelTypes
  <2> QED
    BY <1>11, <2>1, <2>2
<1>12. ASSUME NEW j \in Jobs, NEW l \in Labels, StrayResult(j, l) PROVE LabelTypes'
  BY <1>12, RecordTypes DEF StrayResult, inside, LabelTypes
<1>13. ASSUME NEW main \in Labels, NEW other \in Labels, Merge(main, other) PROVE LabelTypes'
  <2>1. PICK job \in {credit[main]} \cup ({credit[other]} \ {0}) :
           /\ credit' = [credit EXCEPT ![main] = job, ![other] = 0]
           /\ results' = results \cup ({<<job, main>>} \cap (Jobs \X Labels))
    BY <1>13 DEF Merge
  <2>2. job \in Jobs \cup {0}
    BY DEF LabelTypes
  <2>3. credit' \in [Labels -> Jobs \cup {0}] /\ results' \subseteq Jobs \X Labels
    BY <2>1, <2>2 DEF LabelTypes
  <2> QED
    BY <1>13, <2>3 DEF Merge, inside, LabelTypes
<1>14. CASE UNCHANGED vars
  BY <1>14 DEF vars, rows, inside, LabelTypes
<1> QED
  BY <1>1, <1>2, <1>3, <1>4, <1>5, <1>7, <1>8, <1>9, <1>10, <1>11, <1>12, <1>13, <1>14
  DEF Next, Work, Trouble, Describe

LEMMA LabelInvariance == Spec => []LabelTypes
<1>1. Init => LabelTypes
  BY ConstantsAssumption DEF Init, LabelTypes
<1>2. IInv /\ LabelTypes /\ [Next]_vars => LabelTypes'
  BY LabelTypesNext
<1> QED
  BY <1>1, <1>2, Invariance, PTL DEF Spec

\* Every variable stays in its type.
THEOREM TypeCorrectness == Spec => []TypeOK
BY TypesAre, Invariance, LabelInvariance, PTL

-----------------------------------------------------------------------------
(* What "done" means.  An agent asks for as many labels as it has slots when  *)
(* nothing runs: an empty answer then says that each label that is still      *)
(* there has its result, unless the labels folded away fill the answer.       *)

Complete(j) == Cardinality(list[j] \cap gone) < Slots => LeftOut(j) = {}

ListInv == \A j \in Jobs : list[j] \subseteq ToSet(LabelsOf[j])

CreditInv == \A l \in Labels : credit[l] # 0 => <<credit[l], l>> \in results

DoneInv == \A j \in Jobs : status[j] = "done" => Complete(j)

CallsInv ==
    \A h \in handlers : status[h.job] # "absent" /\ (h.asked = "done" => Complete(h.job))

CheckInv ==
    \A w \in Workers : agent[w].pc # "idle" =>
        /\ agent[w].exhausted \/ agent[w].asked = "done" => Complete(agent[w].job)
        /\ agent[w].pc = "check" => agent[w].exhausted

\* When the first labels of a set are in G, and G holds fewer of the set than were
\* looked at, then all of the set is in G.
LEMMA FirstCovers ==
    ASSUME NEW j \in Jobs, NEW S \in SUBSET Labels, NEW G, NEW limit \in Nat,
           S \subseteq ToSet(LabelsOf[j]),
           First(j, S, limit) \subseteq G, Cardinality(S \cap G) < limit
    PROVE  S \subseteq G
<1> SUFFICES ASSUME S \ G # {} PROVE FALSE
  OBVIOUS
<1> DEFINE order == LabelsOf[j]
           I == {i \in DOMAIN order : order[i] \in S \ G}
<1>1. order \in Seq(Labels) /\ IsInjective(order)
  BY ConstantsAssumption
<1>2. DOMAIN order \subseteq Nat
  BY <1>1
<1>3. I # {} /\ I \subseteq Nat
  BY <1>2 DEF ToSet
<1>4. PICK n \in I : \A m \in I : ~(<<m, n>> \in OpToRel(<, Nat))
  BY <1>3, NatLessThanWellFounded, WFMin
<1>5. \A m \in I : ~(m < n)
  BY <1>3, <1>4, Zenon DEF OpToRel
<1> DEFINE x == order[n]
<1>6. x \in S \ G
  BY <1>4
<1>7. Before(j, S, x) \subseteq S \cap G
  <2> SUFFICES ASSUME NEW k \in S, NEW m \in DOMAIN order, NEW p \in DOMAIN order,
                      m < p, order[m] = k, order[p] = x, k \notin G
               PROVE  FALSE
    BY DEF Before
  <2>1. p = n
    BY <1>1, <1>4 DEF IsInjective
  <2>2. m \in I
    OBVIOUS
  <2> QED
    BY <1>5, <2>1, <2>2
<1>8. IsFiniteSet(S \cap G)
  BY ConstantsAssumption, FS_Subset
<1>9. /\ Cardinality(Before(j, S, x)) <= Cardinality(S \cap G)
      /\ Cardinality(Before(j, S, x)) \in Nat /\ Cardinality(S \cap G) \in Nat
  BY <1>7, <1>8, FS_Subset, FS_CardinalityType
<1>10. Cardinality(Before(j, S, x)) < limit
  BY <1>9
<1> QED
  BY <1>6, <1>10 DEF First

\* Labels that are gone stay so, results are kept, and so is a job's list.
LEMMA Monotone ==
    ASSUME IInv, LabelTypes, [Next]_vars
    PROVE  /\ gone \subseteq gone' /\ results \subseteq results'
           /\ \A j \in Jobs : status[j] # "absent" => list'[j] = list[j] /\ status'[j] # "absent"
<1>1. ASSUME NEW a \in Admins, Manage(a)
      PROVE  /\ UNCHANGED <<gone, results>>
             /\ \A j \in Jobs : status[j] # "absent" => list'[j] = list[j] /\ status'[j] # "absent"
  BY <1>1 DEF Manage, CheckActive, Create, ControlRead, ControlWrite, ControlCall, rows, ClosedByAdmin,
              LabelTypes, IInv, Shape
<1>2. ASSUME NEW w \in Workers, Work(w) \/ Trouble(w) \/ GpuFree(w)
      PROVE  /\ UNCHANGED <<gone, results, list>>
             /\ \A j \in Jobs : status[j] # "absent" => status'[j] # "absent"
  BY <1>2 DEF Work, Poll, ClaimRows, ProgressRead, Report, Drop, Rest, Fetch, LoadFails, Fail,
              LookAgain,
              Trouble, ProgressLost, Restart, StrayPoll, FallsQuiet, GpuTaken, ResultLost,
              GpuFree, rows, inside
<1>3. ASSUME NEW j \in Jobs, NEW l \in Labels, Record(j, l) PROVE results \subseteq results'
  BY <1>3 DEF Record
<1>4. ASSUME NEW w \in Workers, NEW l \in Labels, Describe(w, l)
      PROVE  results \subseteq results' /\ UNCHANGED <<gone, status, list>>
  BY <1>4 DEF Describe, Researched, PostResult, Record, rows
<1>5. ASSUME NEW h \in handlers, ProgressWrite(h) \/ HandlerDies(h)
      PROVE  /\ UNCHANGED <<gone, results, list>>
             /\ \A j \in Jobs : status[j] # "absent" => status'[j] # "absent"
  <2>1. h.asked # "absent"
    BY DEF IInv, Shape, Calls, Finished
  <2> QED
    BY <1>5, <2>1 DEF ProgressWrite, HandlerDies, rows, IInv, Shape
<1>6. ASSUME NEW j \in Jobs, NEW l \in Labels, StrayResult(j, l)
      PROVE  results \subseteq results' /\ UNCHANGED <<gone, status, list>>
  BY <1>3, <1>6 DEF StrayResult
<1>7. ASSUME NEW main \in Labels, NEW other \in Labels, Merge(main, other)
      PROVE  results \subseteq results' /\ gone \subseteq gone' /\ UNCHANGED <<status, list>>
  BY <1>7 DEF Merge
<1>8. CASE UNCHANGED vars
  BY <1>8 DEF vars, rows
<1> QED
  BY <1>1, <1>2, <1>4, <1>5, <1>6, <1>7, <1>8 DEF Next

LEMMA CompleteStays ==
    ASSUME IInv, LabelTypes, [Next]_vars, NEW j \in Jobs, status[j] # "absent", Complete(j)
    PROVE  Complete(j)'
<1>1. list'[j] = list[j] /\ gone \subseteq gone' /\ results \subseteq results'
  BY Monotone
<1>2. list[j] \cap gone \subseteq list[j] \cap gone' /\ list[j] \subseteq Labels
  BY <1>1 DEF LabelTypes
<1>3. IsFiniteSet(list[j] \cap gone')
  BY <1>2, ConstantsAssumption, FS_Subset
<1>4. /\ Cardinality(list[j] \cap gone) <= Cardinality(list[j] \cap gone')
      /\ Cardinality(list[j] \cap gone) \in Nat /\ Cardinality(list[j] \cap gone') \in Nat
  BY <1>2, <1>3, FS_Subset, FS_CardinalityType
<1> QED
  BY <1>1, <1>4, ConstantsAssumption DEF Complete, LeftOut

LEMMA CreditNext ==
    ASSUME IInv, LabelTypes, CreditInv, [Next]_vars
    PROVE  CreditInv'
<1>1. results \subseteq results'
  BY Monotone
<1>2. ASSUME NEW j \in Jobs, NEW l \in Labels, Record(j, l) PROVE CreditInv'
  BY <1>2 DEF Record, CreditInv, LabelTypes
<1>3. ASSUME NEW main \in Labels, NEW other \in Labels, Merge(main, other) PROVE CreditInv'
  <2>1. PICK job \in {credit[main]} \cup ({credit[other]} \ {0}) :
           /\ credit' = [credit EXCEPT ![main] = job, ![other] = 0]
           /\ results' = results \cup ({<<job, main>>} \cap (Jobs \X Labels))
    BY <1>3 DEF Merge
  <2>2. job \in Jobs \cup {0}
    BY DEF LabelTypes
  <2> QED
    BY <2>1, <2>2, <1>1 DEF LabelTypes, CreditInv
<1>4. CASE UNCHANGED credit
  BY <1>1, <1>4 DEF CreditInv
<1>5. ASSUME NEW w \in Workers, NEW l \in Labels, PostResult(w, l)
      PROVE  agent[w].job \in Jobs /\ Record(agent[w].job, l)
  BY <1>5 DEF PostResult, IInv, AgentInv, Running
<1>6. ASSUME NEW w \in Workers, NEW l \in Labels, Describe(w, l)
      PROVE  UNCHANGED credit \/ PostResult(w, l)
  BY <1>6 DEF Describe, Researched, rows
<1>7. ASSUME NEW j \in Jobs, NEW l \in Labels, StrayResult(j, l) PROVE Record(j, l)
  BY <1>7 DEF StrayResult
<1>8. ASSUME NEW a \in Admins, Manage(a) PROVE UNCHANGED credit
  BY <1>8 DEF Manage, CheckActive, Create, ControlRead, ControlWrite, ControlCall, rows
<1>9. ASSUME NEW w \in Workers, Work(w) \/ Trouble(w) \/ GpuFree(w) PROVE UNCHANGED credit
  BY <1>9 DEF Work, Poll, ClaimRows, ProgressRead, Report, Drop, Rest, Fetch, LoadFails, Fail,
              LookAgain,
              Trouble, ProgressLost, Restart, StrayPoll, FallsQuiet, GpuTaken, ResultLost,
              GpuFree, rows, inside
<1>10. ASSUME NEW h \in handlers, ProgressWrite(h) \/ HandlerDies(h) PROVE UNCHANGED credit
  BY <1>10 DEF ProgressWrite, HandlerDies, rows
<1>11. CASE UNCHANGED vars
  BY <1>4, <1>11 DEF vars, rows
<1> QED
  BY <1>2, <1>3, <1>4, <1>5, <1>6, <1>7, <1>8, <1>9, <1>10, <1>11 DEF Next

LEMMA ListNext ==
    ASSUME IInv, LabelTypes, ListInv, [Next]_vars
    PROVE  ListInv'
<1>1. CASE \E a \in Admins : Create(a)
  <2>1. PICK j \in Jobs : list' = [list EXCEPT ![j] = ToSet(LabelsOf[j]) \ gone]
    BY <1>1 DEF Create
  <2> QED
    BY <2>1 DEF ListInv, LabelTypes
<1>2. CASE ~\E a \in Admins : Create(a)
  <2>1. UNCHANGED list
    BY <1>2 DEF Next, Manage, CheckActive, ControlRead, ControlWrite, ControlCall, Work, Poll,
                ClaimRows,
         ProgressRead, Report, Drop, Rest, Fetch, LoadFails, Fail, LookAgain, Trouble, ProgressLost,
         Restart, StrayPoll, FallsQuiet, GpuTaken, ResultLost, GpuFree, Describe, Researched,
         PostResult,
         ProgressWrite, HandlerDies, StrayResult, Merge, rows, inside, vars
  <2> QED
    BY <2>1 DEF ListInv
<1> QED
  BY <1>1, <1>2

\* An agent's job has been created, for it has a worker.
LEMMA AgentsJob ==
    ASSUME IInv, NEW w \in Workers, agent[w].pc # "idle"
    PROVE  agent[w].job \in Jobs /\ status[agent[w].job] # "absent"
BY ConstantsAssumption DEF IInv, AgentInv, QueuedIsFree

\* An empty answer to an agent with all slots free.
LEMMA NothingLeft ==
    ASSUME IInv, LabelTypes, ListInv, CreditInv, NEW j \in Jobs, DescribeNext(j, Slots, {}) = {}
    PROVE  Complete(j)
<1> SUFFICES ASSUME Cardinality(list[j] \cap gone) < Slots, NEW l \in list[j] \ gone
             PROVE  <<j, l>> \in results
  BY DEF Complete, LeftOut
<1> DEFINE S == Todo(j, {})
<1>1. S \in SUBSET Labels /\ S \subseteq list[j] /\ S \subseteq ToSet(LabelsOf[j])
  BY DEF Todo, LabelTypes, ListInv
<1>2. First(j, S, Slots) \subseteq gone
  BY DEF DescribeNext
<1>3. list[j] \subseteq Labels
  BY DEF LabelTypes
<1>4. IsFiniteSet(list[j] \cap gone)
  BY <1>3, ConstantsAssumption, FS_Subset
<1>5. /\ Cardinality(S \cap gone) <= Cardinality(list[j] \cap gone)
      /\ Cardinality(S \cap gone) \in Nat /\ Cardinality(list[j] \cap gone) \in Nat
  BY <1>1, <1>4, FS_Subset, FS_CardinalityType
<1>6. Slots \in Nat /\ Cardinality(S \cap gone) < Slots
  BY <1>5, ConstantsAssumption
<1> HIDE DEF S
<1>7. S \subseteq gone
  BY <1>1, <1>2, <1>6, FirstCovers
<1>8. credit[l] = j
  BY <1>7 DEF S, Todo
<1> QED
  BY <1>3, <1>8 DEF CreditInv, Jobs

\* How an agent comes to be exhausted, to ask for "done", or to look again.
LEMMA AgentSteps ==
    ASSUME IInv, LabelTypes, [Next]_vars, NEW w \in Workers, agent'[w].pc # "idle"
    PROVE  /\ agent'[w].exhausted =>
               \/ agent[w].pc # "idle" /\ agent[w].exhausted /\ agent'[w].job = agent[w].job
               \/ /\ agent[w].pc # "idle" /\ agent'[w].job = agent[w].job
                  /\ DescribeNext(agent[w].job, Slots, {}) = {}
           /\ agent'[w].asked = "done" =>
               /\ agent[w].pc # "idle" /\ agent'[w].job = agent[w].job
               /\ agent[w].asked = "done" \/ agent[w].pc = "check"
           /\ agent'[w].pc = "check" => agent'[w].exhausted \/ agent'[w] = agent[w]
<1> DEFINE Goal ==
      /\ agent'[w].exhausted =>
               \/ agent[w].pc # "idle" /\ agent[w].exhausted /\ agent'[w].job = agent[w].job
               \/ /\ agent[w].pc # "idle" /\ agent'[w].job = agent[w].job
                  /\ DescribeNext(agent[w].job, Slots, {}) = {}
      /\ agent'[w].asked = "done" =>
               /\ agent[w].pc # "idle" /\ agent'[w].job = agent[w].job
               /\ agent[w].asked = "done" \/ agent[w].pc = "check"
      /\ agent'[w].pc = "check" => agent'[w].exhausted \/ agent'[w] = agent[w]
<1>0. agent \in [Workers -> Agents]
  BY DEF IInv, Shape
<1>1. CASE agent'[w] = agent[w]
  BY <1>1
<1>2. CASE Poll(w)
  BY <1>0, <1>2 DEF Poll, ClaimRows, Idle, Agents
<1>3. ASSUME NEW wants, Answered(w, wants), agent[w].pc # "idle" PROVE Goal
  <2>1. CASE agent[w].pc = "close"
    BY <1>0, <1>3, <2>1 DEF Answered, Idle, Agents
  <2>2. CASE agent[w].pc # "close"
    BY <1>0, <1>3, <2>2 DEF Answered, Agents
  <2> QED
    BY <2>1, <2>2
<1>4. CASE Report(w) \/ LoadFails(w)
  BY <1>0, <1>4 DEF Report, LoadFails, At, Acts, Agents
<1>5. CASE Drop(w) \/ Fail(w)
  <2>1. agent[w].pc # "idle"
    BY <1>5 DEF Drop, Fail, At, Acts
  <2>2. CASE Close(w, "cancelled") \/ Close(w, "failed")
    BY <1>0, <2>1, <2>2 DEF Close, Agents
  <2>3. CASE agent' = [agent EXCEPT ![w].pc = "loop", ![w].stopped = TRUE]
    BY <1>0, <2>1, <2>3 DEF Agents
  <2> QED
    BY <1>5, <2>2, <2>3 DEF Drop, Fail, Dropped
<1>6. CASE LookAgain(w)
  BY <1>0, <1>6 DEF LookAgain, Close, At, Agents
<1>7. CASE Rest(w)
  BY <1>0, <1>7 DEF Rest, NextIteration, Acts, Agents
<1>8. CASE Fetch(w)
  <2> DEFINE fetched == DescribeNext(agent[w].job, Slots - Cardinality(Running(w)), Running(w))
  <2>1. agent[w].pc # "idle" /\ NextIteration(w, fetched = {} /\ Running(w) = {})
    BY <1>8 DEF Fetch, Acts
  <2>2. Running(w) = {} => Slots - Cardinality(Running(w)) = Slots
    BY FS_EmptySet, ConstantsAssumption
  <2>3. fetched = {} /\ Running(w) = {} => DescribeNext(agent[w].job, Slots, {}) = {}
    BY <2>2
  <2> HIDE DEF fetched
  <2>4. /\ agent'[w].job = agent[w].job /\ agent'[w].asked = agent[w].asked
        /\ agent'[w].exhausted = (fetched = {} /\ Running(w) = {})
        /\ agent'[w].pc = "check" => fetched = {} /\ Running(w) = {}
    BY <1>0, <2>1 DEF NextIteration, Agents
  <2> QED
    BY <2>1, <2>3, <2>4
<1>9. \/ agent'[w] = agent[w] \/ agent'[w] = Idle \/ Poll(w)
      \/ agent[w].pc # "idle" /\ \E wants : Answered(w, wants)
      \/ Report(w) \/ Drop(w) \/ Rest(w) \/ Fetch(w) \/ LoadFails(w) \/ Fail(w) \/ LookAgain(w)
  <2>1. ASSUME NEW a \in Admins, Manage(a) PROVE UNCHANGED agent
    BY <2>1 DEF Manage, CheckActive, Create, ControlRead, ControlWrite, ControlCall, inside
  <2>2. ASSUME NEW v \in Workers, Work(v), v # w PROVE agent'[w] = agent[w]
    BY <1>0, <2>2 DEF Work, Poll, ClaimRows, ProgressRead, Answered, Report, Drop, Rest, Fetch,
                      LoadFails,
                      Fail, LookAgain, Close, NextIteration
  <2>3. CASE Work(w)
    BY <1>0, <2>3 DEF Work, ProgressRead
  <2>4. ASSUME NEW v \in Workers, Trouble(v) \/ GpuFree(v)
        PROVE  agent'[w] = agent[w] \/ agent'[w] = Idle
    BY <1>0, <2>4 DEF Trouble, ProgressLost, Restart, StrayPoll, FallsQuiet, GpuTaken, GpuFree,
                      ResultLost, inside
  <2>5. ASSUME NEW h \in handlers, ProgressWrite(h)
        PROVE  agent'[w] = agent[w] \/ (agent[w].pc # "idle" /\ \E wants : Answered(w, wants))
    <3>1. CASE h.worker = w
      BY <2>5, <3>1 DEF ProgressWrite, IInv, ReportsInv
    <3>2. CASE h.worker # w
      BY <1>0, <2>5, <3>2 DEF ProgressWrite, Answered
    <3> QED
      BY <3>1, <3>2
  <2>6. ASSUME NEW h \in handlers, HandlerDies(h) PROVE agent'[w] = agent[w] \/ agent'[w] = Idle
    BY <1>0, <2>6 DEF HandlerDies
  <2>7. CASE \/ \E v \in Workers, l \in Labels : Describe(v, l)
             \/ \E j \in Jobs, l \in Labels : StrayResult(j, l)
             \/ \E main, other \in Labels : Merge(main, other)
             \/ UNCHANGED vars
    BY <2>7 DEF Describe, Researched, PostResult, StrayResult, Merge, vars, inside
  <2> QED
    BY <2>1, <2>2, <2>3, <2>4, <2>5, <2>6, <2>7 DEF Next
<1>10. CASE agent'[w] = Idle
  BY <1>10 DEF Idle
<1> QED
  BY <1>1, <1>2, <1>3, <1>4, <1>5, <1>6, <1>7, <1>8, <1>9, <1>10

LEMMA CheckNext ==
    ASSUME IInv, IInv', LabelTypes, ListInv, CreditInv, CheckInv, [Next]_vars
    PROVE  CheckInv'
<1> SUFFICES ASSUME NEW w \in Workers, agent'[w].pc # "idle"
             PROVE  /\ agent'[w].exhausted \/ agent'[w].asked = "done" => Complete(agent[w].job)'
                    /\ agent'[w].pc = "check" => agent'[w].exhausted
  BY DEF CheckInv
<1>1. ASSUME agent[w].pc # "idle", agent'[w].job = agent[w].job, Complete(agent[w].job)
      PROVE  Complete(agent[w].job)'
  <2>1. PICK j \in Jobs : j = agent[w].job /\ status[j] # "absent"
    BY <1>1, AgentsJob
  <2>2. Complete(j)'
    BY <1>1, <2>1, CompleteStays
  <2> QED
    BY <1>1, <2>1, <2>2 DEF Complete, LeftOut
<1>2. CASE agent'[w].exhausted
  BY <1>1, <1>2, AgentSteps, AgentsJob, NothingLeft DEF CheckInv
<1>3. CASE agent'[w].asked = "done"
  BY <1>1, <1>3, AgentSteps DEF CheckInv
<1>4. agent'[w].pc = "check" => agent'[w].exhausted
  BY AgentSteps DEF CheckInv
<1> QED
  BY <1>2, <1>3, <1>4

\* A report under way is one its agent has sent, or was under way before.
LEMMA CallsNext ==
    ASSUME IInv, IInv', LabelTypes, CheckInv, CallsInv, [Next]_vars
    PROVE  CallsInv'
<1>1. ASSUME NEW h \in handlers'
      PROVE  /\ h.job \in Jobs /\ status[h.job] # "absent"
             /\ h.asked = "done" => Complete(h.job)
  <2>1. CASE \E g \in handlers : h.job = g.job /\ h.asked = g.asked
    BY <2>1 DEF CallsInv, IInv, Shape, Calls
  <2>2. CASE \E w \in Workers : /\ agent[w].pc # "idle"
                               /\ h.job = agent[w].job /\ h.asked = agent[w].asked
    BY <2>2, AgentsJob DEF CheckInv
  <2>3. \/ \E g \in handlers : h.job = g.job /\ h.asked = g.asked
        \/ \E w \in Workers : /\ agent[w].pc # "idle"
                              /\ h.job = agent[w].job /\ h.asked = agent[w].asked
    <3>1. CASE h \in handlers
      BY <3>1
    <3>2. ASSUME NEW w \in Workers, Unheard(w), h \notin handlers
          PROVE  \E g \in handlers : h.job = g.job /\ h.asked = g.asked
      <4>1. PICK g \in handlers : h = IF g.worker = w THEN [g EXCEPT !.awaited = FALSE] ELSE g
        BY <3>2 DEF Unheard
      <4>2. g \in Calls
        BY DEF IInv, Shape
      <4> QED
        BY <4>1, <4>2 DEF Calls
    <3>3. ASSUME NEW w \in Workers, ProgressRead(w), h \notin handlers
          PROVE  agent[w].pc # "idle" /\ h.job = agent[w].job /\ h.asked = agent[w].asked
      <4> DEFINE new == [worker |-> w, job |-> agent[w].job, asked |-> agent[w].asked,
                         control |-> control[agent[w].job], awaited |-> TRUE]
      <4>1. handlers' = handlers \cup {new}
        BY <3>3 DEF ProgressRead
      <4>2. h = new
        BY <3>3, <4>1
      <4> QED
        BY <3>3, <4>2 DEF ProgressRead
    <3>4. CASE handlers' \subseteq handlers
      BY <3>1, <3>4
    <3>5. ASSUME NEW w \in Workers, Work(w)
          PROVE  handlers' = handlers \/ ProgressRead(w)
      BY <3>5 DEF Work, Poll, Report, Drop, Rest, Fetch, LoadFails, Fail, LookAgain
    <3>6. ASSUME NEW w \in Workers, Trouble(w) \/ GpuFree(w)
          PROVE  handlers' = handlers \/ Unheard(w)
      BY <3>6 DEF Trouble, ProgressLost, Restart, StrayPoll, FallsQuiet, GpuTaken, ResultLost,
                  GpuFree
    <3>7. \/ handlers' \subseteq handlers
          \/ \E w \in Workers : Unheard(w) \/ ProgressRead(w)
      BY <3>5, <3>6 DEF Next, Manage, CheckActive, Create, ControlRead, ControlWrite, ControlCall,
         Describe, Researched, PostResult, ProgressWrite, HandlerDies, StrayResult, Merge, vars
    <3> QED
      BY <3>1, <3>2, <3>3, <3>4, <3>7
  <2> QED
    BY <2>1, <2>2, <2>3
<1> SUFFICES ASSUME NEW h \in handlers'
             PROVE  status'[h.job] # "absent" /\ (h.asked = "done" => Complete(h.job)')
  BY DEF CallsInv, Complete, LeftOut
<1>2. PICK j \in Jobs : j = h.job /\ status[j] # "absent" /\ (h.asked = "done" => Complete(j))
  BY <1>1
<1> QED
  BY <1>2, Monotone, CompleteStays

\* Only a report makes a job "done".
LEMMA DoneNext ==
    ASSUME IInv, LabelTypes, CallsInv, DoneInv, [Next]_vars
    PROVE  DoneInv'
<1>1. ASSUME NEW j \in Jobs, status'[j] = "done"
      PROVE  status[j] = "done" \/ \E h \in handlers : h.job = j /\ h.asked = "done"
  <2>1. ASSUME NEW h \in handlers, ProgressWrite(h)
        PROVE  status[j] = "done" \/ (h.job = j /\ h.asked = "done")
    BY <1>1, <2>1 DEF ProgressWrite, IInv, Shape
  <2>2. ASSUME NEW a \in Admins, Manage(a) PROVE status[j] = "done"
    BY <1>1, <2>2 DEF Manage, CheckActive, Create, ControlRead, ControlWrite, ControlCall, rows,
                      ClosedByAdmin, IInv, Shape
  <2>3. ASSUME NEW w \in Workers, Work(w) \/ Trouble(w) \/ GpuFree(w) PROVE status[j] = "done"
    BY <1>1, <2>3 DEF Work, Poll, ClaimRows, ProgressRead, Report, Drop, Rest, Fetch, LoadFails,
                      Fail,
         LookAgain, Trouble, ProgressLost, Restart, StrayPoll, FallsQuiet, GpuTaken, ResultLost,
         GpuFree, rows
  <2>4. CASE \/ \E h \in handlers : HandlerDies(h)
             \/ \E v \in Workers, l \in Labels : Describe(v, l)
             \/ \E k \in Jobs, l \in Labels : StrayResult(k, l)
             \/ \E main, other \in Labels : Merge(main, other)
             \/ UNCHANGED vars
    BY <1>1, <2>4 DEF HandlerDies, Describe, Researched, PostResult, StrayResult, Merge, vars, rows
  <2> QED
    BY <2>1, <2>2, <2>3, <2>4 DEF Next
<1>2. ASSUME NEW j \in Jobs, status'[j] = "done" PROVE Complete(j)'
  <2>1. Complete(j) /\ status[j] # "absent"
    BY <1>1, <1>2 DEF DoneInv, CallsInv
  <2> QED
    BY <2>1, CompleteStays
<1> QED
  BY <1>2 DEF DoneInv, Complete, LeftOut

DescribedInv == ListInv /\ CreditInv /\ CheckInv /\ CallsInv /\ DoneInv

\* A job is "done" only when each label of its list that was not folded away has
\* had a result of this job, unless as many were folded away as are described at a
\* time (DescribeJob.run, describe_next), through restarts, lost and late requests.
THEOREM DoneJobsAreDescribed == Spec => []DoneIsDescribed
<1>1. Init => DescribedInv
  BY DEF Init, Idle, DescribedInv, ListInv, CreditInv, CheckInv, CallsInv, DoneInv
<1>2. /\ IInv /\ IInv' /\ LabelTypes /\ DescribedInv /\ [Next]_vars
      => DescribedInv'
  BY ListNext, CreditNext, CheckNext, CallsNext, DoneNext DEF DescribedInv
<1>3. DescribedInv => DoneIsDescribed
  BY DEF DescribedInv, DoneInv, Complete, DoneIsDescribed
<1> QED
  BY <1>1, <1>2, <1>3, Invariance, LabelInvariance, PTL DEF Spec

=============================================================================
