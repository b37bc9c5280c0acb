------------------------- MODULE DeferredJobsProofs -------------------------
(***************************************************************************)
(* What holds of DeferredJobs for any jobs of any kinds, whoever cancels   *)
(* and however many threads synchronise: a place in the order has its      *)
(* starter and is the job's only one, no job is started twice, and no pick *)
(* overtakes a job that waits before it.                                   *)
(*                                                                         *)
(* The argument is that a job passes once, and one way only, through its   *)
(* request, the order, a picker's hands and its runner: as long as it can  *)
(* still be started it is in one of these and has not run.                 *)
(***************************************************************************)
EXTENDS DeferredJobs, TLAPS

\* Labels of a request before it has started its job or deferred it.
Early == {"new", "checkDurable", "enqueue", "create", "start"}

\* Nobody has picked the job, and it has no runner.
Unpicked(j) == pc[Runner(j)] = "none" /\ \A x \in Threads : picked[x] # j

JobInv(j) ==
    /\ runs[j] <= 1
    /\ pc[Request(j)] \in Early => runs[j] = 0 /\ j \notin Waiting /\ Unpicked(j)
    /\ j \in Waiting => runs[j] = 0 /\ j \in starters /\ Unpicked(j)
    /\ \A x \in Threads : picked[x] = j =>
          /\ runs[j] = 0 /\ pc[Runner(j)] = "none"
          /\ \A y \in Threads : picked[y] = j => y = x
    /\ pc[Runner(j)] \in {"begin", "start"} => runs[j] = 0

IInv ==
    /\ TypeOK
    /\ IsInjective(order)
    /\ \A x \in Threads : pc[x] = "mark" => picked[x] \in Jobs
    /\ \A j \in Jobs : JobInv(j)

-----------------------------------------------------------------------------
(* Threads and sequences. *)

LEMMA ThreadsDiffer ==
    /\ \A j \in Jobs : Request(j) \in Threads /\ Runner(j) \in Threads
    /\ \A j \in Cancellable : Canceller(j) \in Threads /\ j \in Jobs
    /\ \A x \in Syncers : x \in Threads
    /\ \A j, k \in Jobs : /\ Request(j) # Runner(k)
                          /\ Request(j) = Request(k) => j = k
                          /\ Runner(j) = Runner(k) => j = k
    /\ \A j \in Jobs : \A k \in Cancellable : Canceller(k) # Request(j) /\ Canceller(k) # Runner(j)
    /\ \A j \in Jobs : \A x \in Syncers : x # Request(j) /\ x # Runner(j)
<1>1. Cancellable \subseteq Jobs
  BY ConstantsAssumption
<1> QED
  BY <1>1 DEF Threads, Syncers, Request, Runner, Canceller, Maintenance, Reader

\* What is behind a place.
LEMMA RestOf ==
    ASSUME NEW s \in Seq(Jobs), NEW m \in 1..Len(s)
    PROVE  LET rest == SubSeq(s, m + 1, Len(s))
           IN /\ rest \in Seq(Jobs) /\ Len(rest) = Len(s) - m
              /\ \A i \in 1..(Len(s) - m) : rest[i] = s[m + i]
              /\ DOMAIN rest = 1..(Len(s) - m)
OBVIOUS

\* What taking a job's place out of the order leaves.
LEMMA RemoveFirstKeeps ==
    ASSUME NEW s \in Seq(Jobs), IsInjective(s), NEW e
    PROVE  LET t == RemoveFirst(s, e)
           IN /\ t \in Seq(Jobs) /\ IsInjective(t)
              /\ \A i \in 1..Len(t) : \E k \in 1..Len(s) : t[i] = s[k] /\ s[k] # e
<1>1. CASE ~\E i \in 1..Len(s) : s[i] = e
  BY <1>1 DEF RemoveFirst
<1>2. CASE \E i \in 1..Len(s) : s[i] = e
  <2> DEFINE I == {i \in 1..Len(s) : s[i] = e}
             n == Min(I)
             t == RemoveAt(s, n)
  <2>1. PICK m \in 1..Len(s) : s[m] = e
    BY <1>2
  <2>2. I = {m}
    BY <2>1 DEF IsInjective
  <2>3. n = m
    BY <2>1, <2>2 DEF Min
  <2>4. RemoveFirst(s, e) = t
    BY <1>2, <2>1, <2>2 DEF RemoveFirst, SelectInSeq
  <2> DEFINE before == SubSeq(s, 1, m - 1)
             after == SubSeq(s, m + 1, Len(s))
  <2>5. /\ before \in Seq(Jobs) /\ Len(before) = m - 1
        /\ \A i \in 1..(m - 1) : before[i] = s[i]
        /\ after \in Seq(Jobs) /\ Len(after) = Len(s) - m
        /\ \A i \in 1..(Len(s) - m) : after[i] = s[m + i]
    BY <2>1
  <2>6. t = before \o after
    BY <2>3 DEF RemoveAt
  <2> HIDE DEF before, after, t
  <2>7. /\ t \in Seq(Jobs) /\ Len(t) = Len(s) - 1 /\ Len(s) \in Nat
        /\ DOMAIN t = 1..Len(t) /\ DOMAIN s = 1..Len(s)
    <3>0. before \in Seq(Jobs) /\ after \in Seq(Jobs)
      BY <2>5
    <3>1. t \in Seq(Jobs) /\ Len(t) = Len(before) + Len(after)
      BY <2>6, <3>0
    <3>2. Len(s) \in Nat /\ m \in Nat
      OBVIOUS
    <3>3. Len(t) = Len(s) - 1
      BY <2>5, <3>1, <3>2
    <3> QED
      BY <3>1, <3>2, <3>3
  <2>8. \A i \in 1..Len(t) : t[i] = IF i < m THEN s[i] ELSE s[i + 1]
    <3> SUFFICES ASSUME NEW i \in 1..Len(t) PROVE t[i] = IF i < m THEN s[i] ELSE s[i + 1]
      OBVIOUS
    <3>1. CASE i < m
      <4>1. t[i] = before[i]
        BY <2>1, <2>5, <2>6, <2>7, <3>1
      <4> QED
        BY <2>1, <2>5, <3>1, <4>1
    <3>2. CASE ~(i < m)
      <4>1. /\ i - (m - 1) \in 1..(Len(s) - m)
            /\ m + (i - (m - 1)) = i + 1
        BY <2>1, <2>7, <3>2
      <4>2. t[i] = after[i - (m - 1)]
        BY <2>1, <2>5, <2>6, <2>7, <3>2, <4>1
      <4>3. after[i - (m - 1)] = s[m + (i - (m - 1))]
        BY <2>5, <4>1
      <4> QED
        BY <3>2, <4>1, <4>2, <4>3
    <3> QED
      BY <3>1, <3>2
  <2>9. \A i \in 1..Len(t) : \E k \in 1..Len(s) : t[i] = s[k] /\ k # m
    <3> SUFFICES ASSUME NEW i \in 1..Len(t)
                 PROVE  \E k \in 1..Len(s) : t[i] = s[k] /\ k # m
      OBVIOUS
    <3>1. CASE i < m
      BY <2>1, <2>7, <2>8, <3>1
    <3>2. CASE ~(i < m)
      <4>1. i + 1 \in 1..Len(s) /\ i + 1 # m /\ t[i] = s[i + 1]
        BY <2>1, <2>7, <2>8, <3>2
      <4> QED
        BY <4>1
    <3> QED
      BY <3>1, <3>2
  <2>10. IsInjective(t)
    <3> SUFFICES ASSUME NEW a \in 1..Len(t), NEW b \in 1..Len(t), t[a] = t[b]
                 PROVE  a = b
      BY <2>7 DEF IsInjective
    <3>1. PICK c \in 1..Len(s), d \in 1..Len(s) :
             /\ t[a] = s[c] /\ c = IF a < m THEN a ELSE a + 1
             /\ t[b] = s[d] /\ d = IF b < m THEN b ELSE b + 1
      BY <2>1, <2>7, <2>8
    <3>2. c = d
      BY <2>7, <3>1 DEF IsInjective
    <3> QED
      BY <2>1, <2>7, <3>1, <3>2
  <2> QED
    BY <2>1, <2>4, <2>7, <2>9, <2>10 DEF IsInjective
<1> QED
  BY <1>1, <1>2

\* What follows for the jobs in the order.
LEMMA UnqueueKeeps ==
    ASSUME TypeOK, IsInjective(order), NEW j, Unqueue(j)
    PROVE  /\ order' \in Seq(Jobs) /\ IsInjective(order)'
           /\ Waiting' \subseteq Waiting \ {j}
           /\ starters' = starters \ {j}
<1>1. order \in Seq(Jobs) /\ order' = RemoveFirst(order, j)
  BY DEF TypeOK, Unqueue
<1> QED
  BY <1>1, RemoveFirstKeeps DEF Unqueue, Waiting

-----------------------------------------------------------------------------
(* The invariant. *)

LEMMA InitInv == Init => IInv
<1> SUFFICES ASSUME Init PROVE IInv
  OBVIOUS
<1>1. TypeOK
  BY ConstantsAssumption, ThreadsDiffer DEF Init, TypeOK, Statuses, Labels, Active
<1>2. IsInjective(order) /\ Waiting = {}
  BY DEF Init, IsInjective, Waiting
<1>3. \A x \in Threads : picked[x] \notin Jobs /\ pc[x] # "mark"
  BY ConstantsAssumption DEF Init
<1>4. \A j \in Jobs : pc[Runner(j)] = "none" /\ runs[j] = 0
  BY ThreadsDiffer DEF Init
<1> QED
  BY <1>1, <1>2, <1>3, <1>4 DEF IInv, JobInv, Unpicked

\* Where a thread may go without a job being picked, begun or deferred.
Onward(x, label) ==
    /\ pc[x] # "none" /\ label \notin {"none", "begin", "mark"}
    /\ label \in Early =>
          \/ pc[x] \in Early /\ \E k \in Jobs : x = Request(k)
          \/ pc[x] = "begin" /\ label = "start" /\ \E k \in Jobs : x = Runner(k)

\* Such a step, whatever it does to the statuses; places may be given up.
LEMMA ThreadMoves ==
    ASSUME IInv, TypeOK', NEW x \in Threads, NEW label, Onward(x, label),
           pc' = [pc EXCEPT ![x] = label],
           IsInjective(order)', Waiting' \subseteq Waiting, Waiting' \subseteq starters',
           UNCHANGED <<picked, runs>>
    PROVE  IInv'
<1>1. ASSUME NEW j \in Jobs PROVE JobInv(j)'
  <2>1. JobInv(j)
    BY DEF IInv
  <2>2. pc'[Request(j)] \in Early => pc[Request(j)] \in Early
    BY ThreadsDiffer DEF IInv, TypeOK, Onward
  <2>3. /\ pc'[Runner(j)] \in {"begin", "start"} => pc[Runner(j)] \in {"begin", "start"}
        /\ pc[Runner(j)] = "none" => pc'[Runner(j)] = "none"
    BY ThreadsDiffer DEF IInv, TypeOK, Early, Onward
  <2>4. j \in Waiting' => j \in Waiting /\ j \in starters'
    OBVIOUS
  <2>5. Unpicked(j) => Unpicked(j)'
    BY <2>3 DEF Unpicked
  <2>6. pc[Runner(j)] = "none" => pc'[Runner(j)] = "none"
    BY <2>3
  <2> QED
    BY <2>1, <2>2, <2>3, <2>4, <2>5 DEF JobInv
<1>2. \A y \in Threads : pc'[y] = "mark" => picked'[y] \in Jobs
  BY DEF IInv, TypeOK, Onward
<1> QED
  BY <1>1, <1>2 DEF IInv

\* The statuses and the rows change, no thread moves.
LEMMA StatusesChange ==
    ASSUME IInv, TypeOK', UNCHANGED <<pc, order, starters, picked, runs>>
    PROVE  IInv'
BY DEF IInv, JobInv, Unpicked, Waiting, IsInjective

LEMMA WaitingHasStarters ==
    ASSUME IInv
    PROVE  Waiting \subseteq starters /\ Waiting \subseteq Jobs
BY DEF IInv, JobInv, Waiting, TypeOK

-----------------------------------------------------------------------------
(* The launch of a job. *)

LEMMA LaunchInv ==
    ASSUME IInv, NEW j \in Jobs,
           CheckMemory(j) \/ CheckDurable(j) \/ Defer(j) \/ Create(j)
    PROVE  IInv'
<1> DEFINE x == Request(j)
<1>1. x \in Threads
  BY ThreadsDiffer
<1>2. TypeOK'
  BY <1>1 DEF CheckMemory, CheckDurable, Defer, Create, Goto, queueVars, localVars, IInv, TypeOK,
              Labels, Statuses
<1>3. PICK label : /\ Onward(x, label)
                   /\ pc' = [pc EXCEPT ![x] = label]
  BY DEF CheckMemory, CheckDurable, Defer, Create, Goto, Onward, Early
<1>4. UNCHANGED <<queueVars, picked, runs>>
  BY DEF CheckMemory, CheckDurable, Defer, Create, localVars
<1>5. IsInjective(order)' /\ Waiting' = Waiting /\ Waiting' \subseteq starters'
  BY <1>4, WaitingHasStarters DEF queueVars, Waiting, IsInjective, IInv
<1> QED
  BY <1>1, <1>2, <1>3, <1>4, <1>5, ThreadMoves

LEMMA EnqueueInv ==
    ASSUME IInv, NEW j \in Jobs, Enqueue(j)
    PROVE  IInv'
<1> DEFINE x == Request(j)
<1>1. x \in Threads /\ pc[x] \in Early
  BY ThreadsDiffer DEF Enqueue, Early
<1>2. runs[j] = 0 /\ j \notin Waiting /\ Unpicked(j)
  BY <1>1 DEF IInv, JobInv
<1>3. /\ order \in Seq(Jobs) /\ order' = Append(order, j) /\ order' \in Seq(Jobs)
      /\ Waiting' = Waiting \cup {j} /\ IsInjective(order)'
  <2>1. order \in Seq(Jobs) /\ order' = Append(order, j) /\ order' \in Seq(Jobs)
    BY DEF IInv, TypeOK, Enqueue, Enqueued
  <2>2. /\ Len(order') = Len(order) + 1 /\ Len(order) \in Nat
        /\ \A i \in 1..Len(order) : order'[i] = order[i]
        /\ order'[Len(order) + 1] = j
    BY <2>1
  <2>3. Waiting' = Waiting \cup {j}
    BY <2>2 DEF Waiting
  <2>4. DOMAIN order' = 1..(Len(order) + 1) /\ DOMAIN order = 1..Len(order)
    BY <2>1
  <2>5. IsInjective(order)'
    BY <1>2, <2>2, <2>4 DEF IsInjective, Waiting, IInv
  <2> QED
    BY <2>1, <2>3, <2>5
<1>4. TypeOK'
  BY <1>1, <1>3 DEF Enqueue, Goto, localVars, IInv, TypeOK, Labels, Statuses
<1>5. pc' = [pc EXCEPT ![x] = "defer"] /\ UNCHANGED <<picked, runs>> /\ starters' = starters \cup {j}
  BY DEF Enqueue, Goto, localVars
<1>6. ASSUME NEW k \in Jobs PROVE JobInv(k)'
  <2>1. JobInv(k)
    BY DEF IInv
  <2>2. pc'[Request(k)] \in Early => pc[Request(k)] \in Early /\ k # j
    BY <1>1, <1>5, ThreadsDiffer DEF IInv, TypeOK, Early
  <2>3. pc'[Runner(k)] = pc[Runner(k)]
    BY <1>5, ThreadsDiffer DEF IInv, TypeOK
  <2>4. Unpicked(k) => Unpicked(k)'
    BY <1>5, <2>3 DEF Unpicked
  <2> QED
    BY <1>2, <1>3, <1>5, <2>1, <2>2, <2>3, <2>4 DEF JobInv
<1>7. \A y \in Threads : pc'[y] = "mark" => picked'[y] \in Jobs
  BY <1>5 DEF IInv, TypeOK
<1> QED
  BY <1>3, <1>4, <1>6, <1>7 DEF IInv

-----------------------------------------------------------------------------
(* The body of a job. *)

LEMMA StartInv ==
    ASSUME IInv, NEW j \in Jobs, NEW x \in Body(j), Start(j, x)
    PROVE  IInv'
<1>1. x \in Threads /\ x \in {Request(j), Runner(j)} /\ pc[x] = "start"
  BY ThreadsDiffer DEF Body, Start
<1>2. runs[j] = 0 /\ j \notin Waiting /\ \A y \in Threads : picked[y] # j
  BY <1>1 DEF IInv, JobInv, Early, Unpicked
<1>3. PICK label \in {"finish", "proceed", "announce", "announceEmpty"} : pc' = [pc EXCEPT ![x] = label]
  BY DEF Start, Goto
<1>4. runs' = [runs EXCEPT ![j] = 1]
  BY <1>2 DEF Start
<1>5. UNCHANGED <<order, starters, picked>>
  BY DEF Start, queueVars, localVars
<1>6. TypeOK'
  <2>1. runs' \in [Jobs -> Nat] /\ pc' \in [Threads -> Labels]
    BY <1>1, <1>3, <1>4 DEF IInv, TypeOK, Labels
  <2>2. mem' \in [Jobs -> Statuses \cup {"deferred"}] /\ dur' \in [Jobs -> Statuses \ {"queued"}]
    BY DEF Start, NewRow, IInv, TypeOK, Statuses
  <2>3. UNCHANGED <<queueVars, lock, localVars>>
    BY DEF Start
  <2> QED
    BY <2>1, <2>2, <2>3 DEF queueVars, localVars, IInv, TypeOK
<1>7. ASSUME NEW k \in Jobs PROVE JobInv(k)'
  <2>1. JobInv(k)
    BY DEF IInv
  <2>2. pc'[Request(k)] \in Early => pc[Request(k)] \in Early
    BY <1>1, <1>3, ThreadsDiffer DEF IInv, TypeOK, Early
  <2>3. /\ pc[Runner(k)] = "none" => pc'[Runner(k)] = "none"
        /\ pc'[Runner(k)] \in {"begin", "start"} => pc[Runner(k)] \in {"begin", "start"}
    BY <1>1, <1>3, ThreadsDiffer DEF IInv, TypeOK
  <2>4. Unpicked(k) => Unpicked(k)'
    BY <1>5, <2>3 DEF Unpicked
  <2>5. CASE k # j
    <3>1. runs'[k] = runs[k]
      BY <1>4, <2>5 DEF IInv, TypeOK
    <3> QED
      BY <1>5, <2>1, <2>2, <2>3, <2>4, <3>1 DEF JobInv, Waiting
  <2>6. CASE k = j
    <3>1. runs'[j] = 1
      BY <1>4 DEF IInv, TypeOK
    <3>2. pc'[Request(j)] \notin Early
      BY <1>1, <1>2, <1>3, <2>1, <2>6, ThreadsDiffer DEF IInv, TypeOK, Early, JobInv, Unpicked
    <3>3. pc'[Runner(j)] \notin {"begin", "start"}
      BY <1>1, <1>3, <2>1, <2>6, ThreadsDiffer DEF IInv, TypeOK, Early, JobInv, Unpicked
    <3> QED
      BY <1>2, <1>5, <2>6, <3>1, <3>2, <3>3 DEF JobInv, Waiting
  <2> QED
    BY <2>5, <2>6
<1>8. \A y \in Threads : pc'[y] = "mark" => picked'[y] \in Jobs
  BY <1>3, <1>5 DEF IInv, TypeOK
<1> QED
  BY <1>5, <1>6, <1>7, <1>8 DEF IInv, IsInjective

LEMMA BodyInv ==
    ASSUME IInv, NEW j \in Jobs, NEW x \in Body(j),
           Finish(j, x) \/ Announce(j, x) \/ Proceed(j, x)
    PROVE  IInv'
<1>1. x \in Threads
  BY ThreadsDiffer DEF Body
<1>2. PICK label \in {"pick", "cleanup", "done", "proceed", "finish"} : pc' = [pc EXCEPT ![x] = label]
  BY DEF Finish, Announce, Proceed, Goto, PickThen, AfterBody
<1>3. TypeOK'
  <2>1. AfterBody(x) \in {"cleanup", "done"}
    BY DEF AfterBody
  <2>2. pc' \in [Threads -> Labels]
    BY <1>1, <1>2 DEF IInv, TypeOK, Labels
  <2>3. back' \in [Threads -> {"done", "cleanup", "idle"}]
    BY <2>1 DEF Finish, Announce, Proceed, PickThen, localVars, IInv, TypeOK
  <2>4. mem' \in [Jobs -> Statuses \cup {"deferred"}] /\ dur' \in [Jobs -> Statuses \ {"queued"}]
    BY DEF Finish, Announce, Proceed, IInv, TypeOK, Statuses
  <2>5. UNCHANGED <<queueVars, lock, picked, seen, runs>>
    BY DEF Finish, Announce, Proceed, localVars
  <2> QED
    BY <2>2, <2>3, <2>4, <2>5 DEF queueVars, IInv, TypeOK
<1>4. Onward(x, label)
  BY <1>2 DEF Finish, Announce, Proceed, Onward, Early
<1>5. UNCHANGED <<queueVars, picked, runs>>
  BY DEF Finish, Announce, Proceed, localVars
<1>6. IsInjective(order)' /\ Waiting' = Waiting /\ Waiting' \subseteq starters'
  BY <1>5, WaitingHasStarters DEF queueVars, Waiting, IsInjective, IInv
<1> QED
  BY <1>1, <1>2, <1>3, <1>4, <1>5, <1>6, ThreadMoves

-----------------------------------------------------------------------------
(* The runner of a deferred job, and cancelling. *)

LEMMA RunnerInv ==
    ASSUME IInv, NEW j \in Jobs, RunnerBegins(j) \/ RunnerCleansUp(j)
    PROVE  IInv'
<1> DEFINE x == Runner(j)
<1>1. x \in Threads
  BY ThreadsDiffer
<1>2. CASE RunnerBegins(j)
  <2>1. TypeOK'
    BY <1>1, <1>2 DEF RunnerBegins, Goto, queueVars, localVars, IInv, TypeOK, Labels
  <2>2. PICK label \in {"start", "done"} : pc' = [pc EXCEPT ![x] = label]
    BY <1>2 DEF RunnerBegins, Goto
  <2>5. Onward(x, label)
    BY <1>2, <2>2 DEF RunnerBegins, Onward, Early
  <2>3. UNCHANGED <<queueVars, picked, runs>>
    BY <1>2 DEF RunnerBegins, localVars
  <2>4. IsInjective(order)' /\ Waiting' = Waiting /\ Waiting' \subseteq starters'
    BY <2>3, WaitingHasStarters DEF queueVars, Waiting, IsInjective, IInv
  <2> QED
    BY <1>1, <2>1, <2>2, <2>3, <2>4, <2>5, ThreadMoves
<1>3. CASE RunnerCleansUp(j)
  <2>1. /\ order' \in Seq(Jobs) /\ IsInjective(order)'
        /\ Waiting' \subseteq Waiting \ {j} /\ starters' = starters \ {j}
    BY <1>3, UnqueueKeeps DEF RunnerCleansUp, IInv
  <2>2. TypeOK'
    BY <1>1, <1>3, <2>1
    DEF RunnerCleansUp, Goto, PickThen, queueVars, localVars, IInv, TypeOK, Labels
  <2>3. Onward(x, "pick") /\ pc' = [pc EXCEPT ![x] = "pick"] /\ UNCHANGED <<picked, runs>>
    BY <1>3 DEF RunnerCleansUp, PickThen, Goto, Onward, Early
  <2> QED
    BY <1>1, <2>1, <2>2, <2>3, ThreadMoves, WaitingHasStarters
<1> QED
  BY <1>2, <1>3

LEMMA CancelInv ==
    ASSUME IInv, NEW j \in Cancellable,
           CancelDurable(j) \/ CancelMemory(j) \/ CancelUnqueue(j)
    PROVE  IInv'
<1> DEFINE x == Canceller(j)
<1>1. x \in Threads /\ j \in Jobs /\ \A k \in Jobs : x # Request(k) /\ x # Runner(k)
  BY ThreadsDiffer
<1>2. CASE CancelDurable(j) \/ CancelMemory(j)
  <2>1. TypeOK'
    BY <1>1, <1>2
    DEF CancelDurable, CancelMemory, Goto, queueVars, localVars, IInv, TypeOK, Labels, Statuses
  <2>2. PICK label : Onward(x, label) /\ pc' = [pc EXCEPT ![x] = label]
    BY <1>2 DEF CancelDurable, CancelMemory, Goto, Onward, Early
  <2>3. UNCHANGED <<queueVars, picked, runs>>
    BY <1>2 DEF CancelDurable, CancelMemory, localVars
  <2>4. IsInjective(order)' /\ Waiting' = Waiting /\ Waiting' \subseteq starters'
    BY <2>3, WaitingHasStarters DEF queueVars, Waiting, IsInjective, IInv
  <2> QED
    BY <1>1, <2>1, <2>2, <2>3, <2>4, ThreadMoves
<1>3. CASE CancelUnqueue(j)
  <2>1. /\ order' \in Seq(Jobs) /\ IsInjective(order)'
        /\ Waiting' \subseteq Waiting \ {j} /\ starters' = starters \ {j}
    BY <1>3, UnqueueKeeps DEF CancelUnqueue, IInv
  <2>2. TypeOK'
    BY <1>1, <1>3, <2>1
    DEF CancelUnqueue, Goto, PickThen, queueVars, localVars, IInv, TypeOK, Labels
  <2>3. Onward(x, "pick") /\ pc' = [pc EXCEPT ![x] = "pick"] /\ UNCHANGED <<picked, runs>>
    BY <1>3 DEF CancelUnqueue, PickThen, Goto, Onward, Early
  <2> QED
    BY <1>1, <2>1, <2>2, <2>3, ThreadMoves, WaitingHasStarters
<1> QED
  BY <1>2, <1>3

LEMMA SyncInv ==
    ASSUME IInv, NEW x \in Syncers, ReadRows(x) \/ Sync(x)
    PROVE  IInv'
<1>1. x \in Threads /\ \A k \in Jobs : x # Request(k) /\ x # Runner(k)
  BY ThreadsDiffer
<1>2. PICK label \in {"sync", "pick", "idle"} : pc' = [pc EXCEPT ![x] = label] /\ Onward(x, label)
  BY DEF ReadRows, Sync, Goto, PickThen, Onward, Early
<1>3. TypeOK'
  <2>1. mem' \in [Jobs -> Statuses \cup {"deferred"}] /\ seen' \in [Syncers -> [Jobs -> Statuses]]
    <3>1. /\ \A k \in Jobs : mem[k] \in Statuses \cup {"deferred"} /\ seen[x][k] \in Statuses
          /\ [k \in Jobs |-> "absent"] \in [Jobs -> Statuses] /\ dur \in [Jobs -> Statuses]
      BY DEF IInv, TypeOK, Statuses
    <3>2. seen' \in [Syncers -> [Jobs -> Statuses]]
      BY <3>1 DEF ReadRows, Sync, IInv, TypeOK
    <3>3. mem' \in [Jobs -> Statuses \cup {"deferred"}]
      BY <3>1 DEF ReadRows, Sync, IInv, TypeOK
    <3> QED
      BY <3>2, <3>3
  <2>2. back' \in [Threads -> {"done", "cleanup", "idle"}] /\ pc' \in [Threads -> Labels]
    BY <1>1, <1>2 DEF ReadRows, Sync, PickThen, IInv, TypeOK, Labels
  <2> QED
    BY <2>1, <2>2 DEF ReadRows, Sync, queueVars, IInv, TypeOK
<1>4. UNCHANGED <<queueVars, picked, runs>>
  BY DEF ReadRows, Sync
<1>5. IsInjective(order)' /\ Waiting' = Waiting /\ Waiting' \subseteq starters'
  BY <1>4, WaitingHasStarters DEF queueVars, Waiting, IsInjective, IInv
<1> QED
  BY <1>1, <1>2, <1>3, <1>4, <1>5, ThreadMoves

-----------------------------------------------------------------------------
(* Picking the next job. *)

LEMMA PickMemoryInv ==
    ASSUME IInv, NEW x \in Threads, PickMemory(x)
    PROVE  IInv'
<1>1. back[x] \in {"done", "cleanup", "idle"}
  BY DEF IInv, TypeOK
<1>2. TypeOK'
  BY <1>1 DEF PickMemory, Goto, queueVars, localVars, IInv, TypeOK, Labels
<1>3. PICK label : Onward(x, label) /\ pc' = [pc EXCEPT ![x] = label]
  BY <1>1 DEF PickMemory, Goto, Onward, Early
<1>4. UNCHANGED <<queueVars, picked, runs>>
  BY DEF PickMemory, localVars
<1>5. IsInjective(order)' /\ Waiting' = Waiting /\ Waiting' \subseteq starters'
  BY <1>4, WaitingHasStarters DEF queueVars, Waiting, IsInjective, IInv
<1> QED
  BY <1>2, <1>3, <1>4, <1>5, ThreadMoves

\* The order behind the i-th place, with the starters of the places before gone.
LEMMA PopKeeps ==
    ASSUME IInv, NEW i \in 1..Len(order), order' = PopThrough(i),
           starters' = starters \ {order[k] : k \in 1..(i - 1)}
    PROVE  /\ order' \in Seq(Jobs) /\ IsInjective(order)'
           /\ Waiting' \subseteq Waiting \ {order[i]} /\ Waiting' \subseteq starters'
<1>1. order \in Seq(Jobs) /\ IsInjective(order) /\ DOMAIN order = 1..Len(order) /\ Len(order) \in Nat
  BY DEF IInv, TypeOK
<1>2. /\ order' \in Seq(Jobs) /\ Len(order') = Len(order) - i
      /\ \A k \in 1..(Len(order) - i) : order'[k] = order[i + k]
      /\ DOMAIN order' = 1..(Len(order) - i)
  <2>1. order' = SubSeq(order, i + 1, Len(order))
    BY DEF PopThrough
  <2> QED
    BY <1>1, <2>1, RestOf
<1>3. IsInjective(order)'
  <2> SUFFICES ASSUME NEW a \in 1..(Len(order) - i), NEW b \in 1..(Len(order) - i),
                      order'[a] = order'[b]
               PROVE  a = b
    BY <1>2 DEF IsInjective
  <2>1. order[i + a] = order[i + b] /\ i + a \in 1..Len(order) /\ i + b \in 1..Len(order)
    BY <1>1, <1>2
  <2>2. i + a = i + b
    BY <1>1, <2>1 DEF IsInjective
  <2> QED
    BY <2>2
<1>4. ASSUME NEW j \in Waiting'
      PROVE  j \in Waiting /\ j # order[i] /\ \A k \in 1..(i - 1) : order[k] # j
  <2>1. PICK k \in 1..(Len(order) - i) : j = order[i + k]
    BY <1>2 DEF Waiting
  <2>2. i + k \in 1..Len(order)
    BY <1>1, <2>1
  <2> QED
    BY <1>1, <2>1, <2>2 DEF Waiting, IsInjective
<1> QED
  BY <1>2, <1>3, <1>4, WaitingHasStarters

LEMMA PickDurableInv ==
    ASSUME IInv, NEW x \in Threads, PickDurable(x)
    PROVE  IInv'
<1>1. back[x] \in {"done", "cleanup", "idle"}
  BY DEF IInv, TypeOK
<1>2. CASE UNCHANGED picked /\ pc' = [pc EXCEPT ![x] = back[x]]
           /\ (UNCHANGED queueVars \/ (order' = <<>> /\ starters' \subseteq starters))
  <2>1. order' \in Seq(Jobs) /\ starters' \subseteq Jobs
    <3>1. order \in Seq(Jobs) /\ starters \subseteq Jobs /\ <<>> \in Seq(Jobs)
      BY DEF IInv, TypeOK
    <3> QED
      BY <1>2, <3>1 DEF queueVars
  <2>2. TypeOK'
    BY <1>1, <1>2, <2>1 DEF PickDurable, IInv, TypeOK, Labels
  <2>3. Onward(x, back[x])
    BY <1>1 DEF PickDurable, Onward, Early
  <2>4. IsInjective(order)' /\ Waiting' \subseteq Waiting /\ Waiting' \subseteq starters'
    <3>1. CASE UNCHANGED queueVars
      BY <3>1, WaitingHasStarters DEF queueVars, Waiting, IsInjective, IInv
    <3>2. CASE order' = <<>>
      <4>1. Waiting' = {} /\ DOMAIN order' = {}
        BY <3>2 DEF Waiting
      <4> QED
        BY <4>1 DEF IsInjective
    <3> QED
      BY <1>2, <3>1, <3>2
  <2>5. UNCHANGED runs
    BY DEF PickDurable
  <2> QED
    BY <1>2, <2>2, <2>3, <2>4, <2>5, ThreadMoves
<1>3. ASSUME NEW i \in 1..Len(order), IsFirst(i), order' = PopThrough(i),
             starters' = starters \ {order[k] : k \in 1..(i - 1)},
             picked' = [picked EXCEPT ![x] = order[i]],
             pc' = [pc EXCEPT ![x] = "mark"]
      PROVE  IInv'
  <2>1. PICK n \in Jobs : n = order[i]
    BY DEF IInv, TypeOK
  <2>2. n \in Waiting
    BY <2>1 DEF Waiting
  <2>3. runs[n] = 0 /\ Unpicked(n) /\ pc[Request(n)] \notin Early
    BY <2>2 DEF IInv, JobInv
  <2>4. /\ order' \in Seq(Jobs) /\ IsInjective(order)'
        /\ Waiting' \subseteq Waiting \ {n} /\ Waiting' \subseteq starters'
    BY <1>3, <2>1, PopKeeps
  <2>5. TypeOK'
    BY <1>3, <2>1, <2>4 DEF PickDurable, IInv, TypeOK, Labels
  <2>6. pc[x] = "pickDurable" /\ UNCHANGED runs
    BY DEF PickDurable
  <2>7. ASSUME NEW k \in Jobs PROVE JobInv(k)'
    <3>1. JobInv(k)
      BY DEF IInv
    <3>2. /\ pc'[Request(k)] \in Early => pc[Request(k)] \in Early /\ k # n
          /\ pc'[Runner(k)] \in {"begin", "start"} => pc[Runner(k)] \in {"begin", "start"}
          /\ pc[Runner(k)] = "none" => pc'[Runner(k)] = "none"
      BY <1>3, <2>3, <2>6, ThreadsDiffer DEF IInv, TypeOK, Early
    <3>3. \A y \in Threads : picked'[y] = k => (y = x /\ k = n) \/ (y # x /\ picked[y] = k)
      BY <1>3, <2>1 DEF IInv, TypeOK
    <3>4. CASE k = n
      BY <2>3, <2>4, <2>6, <3>1, <3>2, <3>3, <3>4 DEF JobInv, Unpicked
    <3>5. CASE k # n
      <4>1. Unpicked(k) => Unpicked(k)'
        BY <3>2, <3>3, <3>5 DEF Unpicked
      <4>2. k \in Waiting' => k \in Waiting /\ k \in starters'
        BY <2>4
      <4>3. \A y \in Threads : picked'[y] = k => picked[y] = k
        BY <3>3, <3>5
      <4> QED
        BY <2>6, <3>1, <3>2, <4>1, <4>2, <4>3 DEF JobInv
    <3> QED
      BY <3>4, <3>5
  <2>8. \A y \in Threads : pc'[y] = "mark" => picked'[y] \in Jobs
    BY <1>3, <2>1 DEF IInv, TypeOK
  <2> QED
    BY <2>4, <2>5, <2>7, <2>8 DEF IInv
<1> QED
  BY <1>2, <1>3 DEF PickDurable, Goto

LEMMA MarkInv ==
    ASSUME IInv, NEW x \in Threads, Mark(x)
    PROVE  IInv'
<1>1. back[x] \in {"done", "cleanup", "idle"} /\ pc[x] = "mark"
  BY DEF IInv, TypeOK, Mark
<1>2. PICK n \in Jobs : n = picked[x]
  BY <1>1 DEF IInv
<1>3. runs[n] = 0 /\ pc[Runner(n)] = "none" /\ \A y \in Threads : picked[y] = n => y = x
  BY <1>2 DEF IInv, JobInv
<1>4. n \notin Waiting /\ pc[Request(n)] \notin Early
  BY <1>2 DEF IInv, JobInv, Unpicked
<1>5. Runner(n) \in Threads /\ Runner(n) # x
  BY <1>1, <1>3, ThreadsDiffer
<1>6. /\ pc' = [pc EXCEPT ![x] = back[x], ![Runner(n)] = "begin"]
      /\ picked' = [picked EXCEPT ![x] = NoJob]
      /\ mem' = [mem EXCEPT ![n] = "queued"]
      /\ UNCHANGED <<order, starters, runs, dur, lock, back, seen>>
  BY <1>2 DEF Mark, queueVars
<1>7. TypeOK'
  BY <1>1, <1>5, <1>6 DEF IInv, TypeOK, Labels, Statuses
<1>8. \A y \in Threads : picked'[y] \in Jobs => y # x /\ picked[y] = picked'[y]
  BY <1>6, ConstantsAssumption DEF IInv, TypeOK
<1>9. ASSUME NEW k \in Jobs PROVE JobInv(k)'
  <2>1. JobInv(k)
    BY DEF IInv
  <2>2. pc'[Request(k)] \in Early => pc[Request(k)] \in Early /\ k # n
    BY <1>1, <1>4, <1>6, ThreadsDiffer DEF IInv, TypeOK, Early
  <2>3. CASE k = n
    <3>1. \A y \in Threads : picked'[y] # n
      BY <1>3, <1>8
    <3> QED
      BY <1>3, <1>4, <1>6, <2>1, <2>2, <2>3, <3>1 DEF JobInv, Waiting
  <2>4. CASE k # n
    <3>1. /\ pc'[Runner(k)] \in {"begin", "start"} => pc[Runner(k)] \in {"begin", "start"}
          /\ pc[Runner(k)] = "none" => pc'[Runner(k)] = "none"
      BY <1>1, <1>6, <2>4, ThreadsDiffer DEF IInv, TypeOK
    <3>2. Unpicked(k) => Unpicked(k)'
      BY <1>8, <3>1 DEF Unpicked
    <3> QED
      BY <1>6, <1>8, <2>1, <2>2, <3>1, <3>2 DEF JobInv, Waiting
  <2> QED
    BY <2>3, <2>4
<1>10. \A y \in Threads : pc'[y] = "mark" => picked'[y] \in Jobs
  BY <1>1, <1>5, <1>6 DEF IInv, TypeOK
<1> QED
  BY <1>6, <1>7, <1>9, <1>10 DEF IInv, IsInjective

LEMMA PickInv ==
    ASSUME IInv, NEW x \in Threads, Pick(x)
    PROVE  IInv'
BY PickMemoryInv, PickDurableInv, MarkInv DEF Pick

-----------------------------------------------------------------------------

LEMMA NextInv == IInv /\ [Next]_vars => IInv'
<1> SUFFICES ASSUME IInv, [Next]_vars PROVE IInv'
  OBVIOUS
<1>1. ASSUME NEW j \in Jobs, NEW x \in Body(j), Perform(j, x) PROVE IInv'
  <2>1. x \in Threads
    BY ThreadsDiffer DEF Body
  <2> QED
    BY <1>1, <2>1, StartInv, BodyInv, PickInv DEF Perform
<1>2. ASSUME NEW j \in Jobs, CheckMemory(j) \/ Serve(j) PROVE IInv'
  BY <1>1, <1>2, LaunchInv, EnqueueInv DEF Serve, Body
<1>3. ASSUME NEW j \in Jobs, Run(j) PROVE IInv'
  BY <1>1, <1>3, RunnerInv DEF Run, Body
<1>4. ASSUME NEW j \in Jobs, DurableCloses(j) PROVE IInv'
  <2>1. TypeOK'
    BY <1>4 DEF DurableCloses, queueVars, localVars, IInv, TypeOK, Statuses
  <2> QED
    BY <1>4, <2>1, StatusesChange DEF DurableCloses, queueVars, localVars
<1>5. ASSUME NEW j \in Cancellable, CancelDurable(j) \/ Cancel(j) PROVE IInv'
  BY <1>5, CancelInv, PickInv, ThreadsDiffer DEF Cancel
<1>6. ASSUME NEW x \in Syncers, Poll(x) PROVE IInv'
  BY <1>6, SyncInv, PickInv, ThreadsDiffer DEF Poll
<1>7. CASE UNCHANGED vars
  <2>1. TypeOK'
    BY <1>7 DEF vars, queueVars, localVars, IInv, TypeOK
  <2> QED
    BY <1>7, <2>1, StatusesChange DEF vars, queueVars, localVars
<1> QED
  BY <1>2, <1>3, <1>4, <1>5, <1>6, <1>7 DEF Next

THEOREM Invariance == Spec => []IInv
BY InitInv, NextInv, PTL DEF Spec

-----------------------------------------------------------------------------
(* The properties. *)

\* Every variable stays in its type.
THEOREM TypeCorrectness == Spec => []TypeOK
<1>1. IInv => TypeOK
  BY DEF IInv
<1> QED
  BY <1>1, Invariance, PTL

\* The order and the starters agree, whoever picks, cancels or cleans up
\* (DEFERRED_JOB_ORDER, DEFERRED_JOB_STARTERS).
THEOREM QueueIsConsistent == Spec => []OrderHasStarters
<1>1. IInv => OrderHasStarters
  BY WaitingHasStarters DEF IInv, OrderHasStarters
<1> QED
  BY <1>1, Invariance, PTL

\* No job is started twice, by pickers or by its own request
\* (maybe_start_next_deferred_job, _run_deferred_job).
THEOREM JobsRunOnce == Spec => []RunsOnce
<1>1. IInv => RunsOnce
  BY DEF IInv, JobInv, RunsOnce
<1> QED
  BY <1>1, Invariance, PTL

\* Only PickDurable gives a thread a job.
LEMMA PickedBy ==
    ASSUME IInv, [Next]_vars, NEW x \in Threads, picked'[x] # picked[x], picked'[x] # NoJob
    PROVE  \E y \in Threads : PickDurable(y)
<1>1. ASSUME NEW j \in Jobs, NEW y \in Body(j), Perform(j, y)
      PROVE  y \in Threads /\ (UNCHANGED picked \/ Pick(y))
  <2>1. y \in Threads
    BY ThreadsDiffer DEF Body
  <2> QED
    BY <1>1, <2>1 DEF Perform, Start, Finish, Announce, Proceed, localVars
<1>2. ASSUME NEW j \in Jobs, Serve(j) \/ Run(j) \/ CheckMemory(j) \/ DurableCloses(j)
      PROVE  UNCHANGED picked \/ \E y \in Threads : Pick(y)
  <2>1. Request(j) \in Body(j) /\ Runner(j) \in Body(j)
    BY DEF Body
  <2> QED
    BY <1>1, <1>2, <2>1 DEF Serve, Run, CheckMemory, CheckDurable, Enqueue, Defer, Create,
       DurableCloses, RunnerBegins, RunnerCleansUp, localVars
<1>3. ASSUME NEW j \in Cancellable, CancelDurable(j) \/ Cancel(j)
      PROVE  UNCHANGED picked \/ \E y \in Threads : Pick(y)
  BY <1>3, ThreadsDiffer DEF CancelDurable, Cancel, CancelMemory, CancelUnqueue, localVars
<1>4. ASSUME NEW y \in Syncers, Poll(y)
      PROVE  UNCHANGED picked \/ \E z \in Threads : Pick(z)
  BY <1>4, ThreadsDiffer DEF Poll, ReadRows, Sync
<1>5. UNCHANGED picked \/ \E y \in Threads : Pick(y)
  BY <1>2, <1>3, <1>4 DEF Next, vars, localVars
<1>6. PICK y \in Threads : Pick(y)
  BY <1>5
<1>7. ~PickMemory(y) /\ ~Mark(y)
  BY DEF PickMemory, Mark, localVars, IInv, TypeOK
<1> QED
  BY <1>6, <1>7 DEF Pick

\* Jobs are picked in the order they were deferred in: the candidates before the
\* one picked are not deferred any more, for none of them lacks its starter
\* (maybe_start_next_deferred_job).
THEOREM JobsArePickedInOrder == Spec => PickedInOrder
<1> DEFINE Step ==
        \A x \in Threads : picked'[x] # picked[x] /\ picked'[x] # NoJob =>
           \A i \in 1..Len(order) :
               \/ mem[order[i]] # "deferred"
               \/ \E k \in 1..i : order[k] = picked'[x]
<1>1. IInv /\ [Next]_vars => Step
  <2> SUFFICES ASSUME IInv, [Next]_vars, NEW x \in Threads,
                      picked'[x] # picked[x], picked'[x] # NoJob,
                      NEW i \in 1..Len(order), mem[order[i]] = "deferred"
               PROVE  \E k \in 1..i : order[k] = picked'[x]
    OBVIOUS
  <2>1. PICK y \in Threads : PickDurable(y)
    BY PickedBy
  <2>2. PICK n \in 1..Len(order) : IsFirst(n) /\ picked' = [picked EXCEPT ![y] = order[n]]
    BY <2>1 DEF PickDurable
  <2>3. y = x /\ picked'[x] = order[n]
    BY <2>2 DEF IInv, TypeOK
  <2>4. order[i] \in starters
    BY WaitingHasStarters DEF Waiting
  <2>5. Len(order) \in Nat
    BY DEF IInv, TypeOK
  <2>6. ~(i < n)
    BY <2>2, <2>4, <2>5 DEF IsFirst, Ready
  <2>7. n \in 1..i
    BY <2>5, <2>6
  <2> QED
    BY <2>3, <2>7
<1>2. Spec => [][Step]_vars
  BY <1>1, Invariance, PTL DEF Spec
<1> QED
  BY <1>2 DEF PickedInOrder

=============================================================================
