------------------------- MODULE WorkerClientProofs -------------------------
(***************************************************************************)
(* What holds of WorkerClient for any tasks, options and bounds: its types, *)
(* that the pipeline never holds more than max_inflight_tasks, that the     *)
(* worker forgets no lease while it runs, and that a drain nothing disturbs *)
(* leaves nothing behind.                                                   *)
(***************************************************************************)
EXTENDS WorkerClient, FiniteSetTheorems, TLAPS

Held == In(Pending \cup Ready)

\* The bound is on a finite set: each claim adds at most one copy per task.
HeldInv ==
    /\ at \in [Copies -> {"none"} \cup Pending \cup Ready]
    /\ IsFiniteSet(Held)
    /\ Cardinality(Held) <= MaxInflight

\* A claim's numbers are the counts of its tasks.
CountsInv == attempts \in [Tasks -> Nat]

IInv == HeldInv /\ CountsInv

-----------------------------------------------------------------------------

\* Copies that move on or leave.
LEMMA FewerHeld ==
    ASSUME HeldInv, at' \in [Copies -> {"none"} \cup Pending \cup Ready],
           \A c \in Copies : at[c] = "none" => at'[c] = "none"
    PROVE  HeldInv'
<1>1. Held' \subseteq Held
  BY DEF HeldInv, Held, In, Pending, Ready
<1>2. IsFiniteSet(Held') /\ Cardinality(Held') <= Cardinality(Held)
  BY <1>1, FS_Subset DEF HeldInv
<1>3. Cardinality(Held) \in Nat /\ Cardinality(Held') \in Nat /\ MaxInflight \in Nat
  BY <1>2, FS_CardinalityType, ConstantsAssumption DEF HeldInv
<1> QED
  BY <1>2, <1>3 DEF HeldInv

LEMMA MoveKeeps ==
    ASSUME HeldInv, NEW c \in Copies, at[c] # "none",
           NEW place \in {"none"} \cup Pending \cup Ready, Move(c, place)
    PROVE  HeldInv'
<1>1. at' \in [Copies -> {"none"} \cup Pending \cup Ready]
  BY DEF Move, HeldInv
<1> QED
  BY <1>1, FewerHeld DEF Move, HeldInv

LEMMA LeaveKeeps ==
    ASSUME HeldInv, NEW S, Leave(S)
    PROVE  HeldInv'
<1>1. at' \in [Copies -> {"none"} \cup Pending \cup Ready]
  BY DEF Leave, HeldInv
<1> QED
  BY <1>1, FewerHeld DEF Leave, HeldInv

\* The copies of a claim are as many as its tasks.
LEMMA OneCopyPerTask ==
    ASSUME NEW S \in SUBSET Tasks, IsFiniteSet(S), NEW count \in [Tasks -> Nat]
    PROVE  LET new == {c \in Copies : c.task \in S /\ c.claim = count[c.task]}
           IN IsFiniteSet(new) /\ Cardinality(new) <= Cardinality(S)
<1> DEFINE new == {c \in Copies : c.task \in S /\ c.claim = count[c.task]}
           f == [c \in new |-> c.task]
<1>1. f \in Injection(new, S)
  <2>1. f \in [new -> S]
    OBVIOUS
  <2>2. \A c, d \in new : f[c] = f[d] => c = d
    BY DEF Copies
  <2> QED
    BY <2>1, <2>2 DEF Injection, IsInjective
<1> QED
  BY <1>1, FS_Injection

\* claim_more: there is room for every task of the claim.
LEMMA ClaimKeeps ==
    ASSUME IInv, Claim
    PROVE  IInv'
<1>1. PICK S \in SUBSET Tasks :
         /\ Claimable(S) /\ Take(S)
         /\ at' = [c \in Copies |->
                IF c.task \in S /\ c.claim = attempts'[c.task] THEN "download" ELSE at[c]]
  BY DEF Claim
<1> DEFINE new == {c \in Copies : c.task \in S /\ c.claim = attempts'[c.task]}
<1>2. CountsInv'
  BY <1>1 DEF Take, IInv, CountsInv
<1>3. IsFiniteSet(S) /\ Cardinality(S) \in Nat /\ S # {}
  BY <1>1, ConstantsAssumption, FS_Subset, FS_CardinalityType DEF Claimable
<1>4. IsFiniteSet(new) /\ Cardinality(new) <= Cardinality(S) /\ Cardinality(new) \in Nat
  <2>1. attempts' \in [Tasks -> Nat]
    BY <1>2 DEF CountsInv
  <2> QED
    BY <1>3, <2>1, OneCopyPerTask, FS_CardinalityType
<1>5. Held' \subseteq Held \cup new
  BY <1>1 DEF Held, In, Pending, Ready
<1>6. IsFiniteSet(Held) /\ Cardinality(Held) \in Nat /\ MaxInflight \in Nat
      /\ Cardinality(Held) <= MaxInflight
  BY FS_CardinalityType, ConstantsAssumption DEF IInv, HeldInv
<1>7. Cardinality(S) <= MaxInflight - Cardinality(Held)
  <2>1. Cardinality(S) # 0
    BY <1>3, FS_EmptySet
  <2> QED
    BY <1>1, <1>3, <1>6, <2>1 DEF Claimable, Room, Held
<1>8. IsFiniteSet(Held \cup new) /\ Cardinality(Held \cup new) <= Cardinality(Held) + Cardinality(new)
  <2>1. IsFiniteSet(Held \cap new)
    BY <1>4, FS_Subset
  <2>2. Cardinality(Held \cap new) \in Nat
    BY <2>1, FS_CardinalityType
  <2>3. /\ IsFiniteSet(Held \cup new)
        /\ Cardinality(Held \cup new)
              = Cardinality(Held) + Cardinality(new) - Cardinality(Held \cap new)
    BY <1>4, <1>6, FS_Union
  <2> QED
    BY <1>4, <1>6, <2>2, <2>3
<1>9. IsFiniteSet(Held') /\ Cardinality(Held') <= Cardinality(Held \cup new)
      /\ Cardinality(Held') \in Nat /\ Cardinality(Held \cup new) \in Nat
  BY <1>5, <1>8, FS_Subset, FS_CardinalityType
<1>10. at' \in [Copies -> {"none"} \cup Pending \cup Ready]
  BY <1>1 DEF IInv, HeldInv, Pending
<1>11. HeldInv'
  BY <1>3, <1>4, <1>6, <1>7, <1>8, <1>9, <1>10 DEF HeldInv
<1> QED
  BY <1>2, <1>11 DEF IInv

-----------------------------------------------------------------------------
(* Every other step. *)

\* A place a copy may go to is one of the pipeline, or none.
LEMMA HandleKeeps ==
    ASSUME IInv, NEW c \in Copies, Handle(c) \/ Download(c)
    PROVE  IInv'
<1>1. at[c] # "none"
  BY DEF Handle, Download, Downloaded, DownloadFailed, Analysed, Preprocessed, PreprocessFailed
<1>2. PICK place \in {"none"} \cup Pending \cup Ready : Move(c, place)
  <2>1. Route(c) \in {"none"} \cup Pending \cup Ready
    BY DEF Route, Pending, Ready
  <2> QED
    BY <2>1 DEF Handle, Download, Downloaded, DownloadFailed, Analysed, Preprocessed,
                PreprocessFailed, Pending, Ready
<1>3. HeldInv'
  BY <1>1, <1>2, MoveKeeps DEF IInv
<1>4. UNCHANGED attempts
  BY DEF Handle, Download, Downloaded, DownloadFailed, Analysed, Preprocessed, PreprocessFailed,
         server
<1> QED
  BY <1>3, <1>4 DEF IInv, CountsInv

LEMMA BatchesKeep ==
    ASSUME IInv, ProcessEmbeddings \/ ProcessHeads \/ LeaveLoop \/ OnceEnds \/ Interrupted
    PROVE  IInv'
<1>1. PICK S : Leave(S)
  BY DEF ProcessEmbeddings, ProcessHeads, LeaveLoop, OnceEnds, Interrupted
<1>2. UNCHANGED attempts
  BY DEF ProcessEmbeddings, ProcessHeads, LeaveLoop, OnceEnds, Interrupted, server
<1> QED
  BY <1>1, <1>2, LeaveKeeps DEF IInv, CountsInv

\* Requests, and what happens on the server, leave the pipeline alone.
LEMMA RequestsKeep ==
    ASSUME IInv, UNCHANGED at, CountsInv'
    PROVE  IInv'
BY DEF IInv, HeldInv, Held, In

LEMMA InitInv == Init => IInv
<1> SUFFICES ASSUME Init PROVE IInv
  OBVIOUS
<1>1. Held = {}
  BY DEF Init, Held, In, Pending, Ready
<1>2. IsFiniteSet(Held) /\ Cardinality(Held) = 0 /\ 0 <= MaxInflight
  BY <1>1, FS_EmptySet, ConstantsAssumption
<1> QED
  BY <1>2 DEF Init, IInv, HeldInv, CountsInv

LEMMA NextInv == IInv /\ [Next]_vars => IInv'
<1> SUFFICES ASSUME IInv, [Next]_vars PROVE IInv'
  OBVIOUS
<1>1. CASE ClaimLost
  BY <1>1, RequestsKeep DEF ClaimLost, Take, IInv, CountsInv
<1>2. CASE Run
  <2>1. CASE SubmitResults \/ SubmitFailures \/ Release
    BY <2>1, RequestsKeep DEF SubmitResults, SubmitFailures, Release, IInv, CountsInv
  <2> QED
    BY <1>2, <2>1, HandleKeeps, BatchesKeep DEF Run
<1>3. CASE SubmitLost \/ StopRequested \/ Kill
  BY <1>3, RequestsKeep DEF SubmitLost, StopRequested, Kill, server, IInv, CountsInv
<1>4. CASE Restart
  <2>1. at' \in [Copies -> {"none"} \cup Pending \cup Ready] /\ \A c \in Copies : at'[c] = "none"
    BY <1>4 DEF Restart
  <2>2. HeldInv'
    BY <2>1, FewerHeld DEF IInv
  <2> QED
    BY <1>4, <2>2 DEF Restart, server, IInv, CountsInv
<1>5. ASSUME NEW t \in Tasks, LeaseLapses(t) \/ EndsElsewhere(t) PROVE IInv'
  BY <1>5, RequestsKeep DEF LeaseLapses, EndsElsewhere, IInv, CountsInv
<1>6. CASE UNCHANGED vars
  BY <1>6, RequestsKeep DEF vars, server, IInv, CountsInv
<1> QED
  BY <1>1, <1>2, <1>3, <1>4, <1>5, <1>6, ClaimKeeps, HandleKeeps, BatchesKeep DEF Next

\* The pipeline is bounded, whatever its batches, failures and retries do
\* (claim_more, inflight_count).
THEOREM PipelineStaysBounded == Spec => []PipelineIsBounded
<1>1. IInv => PipelineIsBounded
  BY DEF IInv, HeldInv, Held, PipelineIsBounded
<1> QED
  BY <1>1, InitInv, NextInv, PTL DEF Spec

-----------------------------------------------------------------------------
(* Types.  Each step but the claims and the restart changes a few variables. *)

Places == {"none"} \cup Pending \cup Ready

LEMMA FaultType ==
    ASSUME TypeOK, Fault, UNCHANGED option
    PROVE  faults' \in 0..option'.faults
BY ConstantsAssumption DEF TypeOK, Fault

LEMMA FailureTypes ==
    ASSUME NEW S \in SUBSET Copies, NEW retryable \in BOOLEAN
    PROVE  FailureOf(S, retryable) \subseteq [copy : Copies, retryable : BOOLEAN]
BY DEF FailureOf, Failure

LEMMA VerdictType ==
    ASSUME NEW t, NEW retryable
    PROVE  Verdict(t, retryable) \in {"queued", "final_failed"}
BY DEF Verdict

LEMMA AppendType ==
    ASSUME TypeOK, NEW c \in Copies, AppendResult(c) \/ AppendFailure(c)
    PROVE  results' \subseteq Copies /\ failures' \subseteq [copy : Copies, retryable : BOOLEAN]
BY DEF TypeOK, AppendResult, AppendFailure, Failure

LEMMA CloseType ==
    ASSUME TypeOK, NEW t \in Tasks, Closes(t) \/ DoesNotClose(t), UNCHANGED option
    PROVE  acked' \subseteq Tasks /\ faults' \in 0..option'.faults
<1>1. acked' \subseteq Tasks
  BY DEF TypeOK, Closes, DoesNotClose
<1>2. CASE UNCHANGED faults
  BY <1>1, <1>2 DEF TypeOK
<1>3. CASE Fault
  BY <1>1, <1>3, FaultType
<1> QED
  BY <1>2, <1>3 DEF Closes, DoesNotClose

LEMMA CloseAllType ==
    ASSUME TypeOK, NEW S \in SUBSET Copies, CloseAll(S), UNCHANGED option
    PROVE  acked' \subseteq Tasks /\ faults' \in 0..option'.faults
<1>1. acked' \subseteq Tasks
  BY DEF TypeOK, CloseAll, TasksIn, Copies
<1>2. CASE UNCHANGED faults
  BY <1>1, <1>2 DEF TypeOK
<1>3. CASE Fault
  BY <1>1, <1>3, FaultType
<1> QED
  BY <1>2, <1>3 DEF CloseAll

LEMMA HandleType ==
    ASSUME TypeOK, NEW c \in Copies, Handle(c)
    PROVE  TypeOK'
<1>1. c.task \in Tasks
  BY DEF Copies
<1>2. Route(c) \in Places
  BY DEF Route, Places, Pending, Ready
<1>3. /\ UNCHANGED <<option, server, draining, leaving, answered, leased, unseen, runs>>
      /\ \E place \in Places : Move(c, place)
      /\ pc' \in {pc, "results", "loop"}
      /\ UNCHANGED <<results, failures>> \/ AppendResult(c) \/ AppendFailure(c)
      /\ UNCHANGED <<acked, faults>> \/ Closes(c.task) \/ DoesNotClose(c.task)
  <2>1. CASE Downloaded(c)
    BY <1>2, <2>1 DEF Downloaded, Places, MaybeFlush, control, books, buffers
  <2>2. CASE DownloadFailed(c)
    BY <2>2 DEF DownloadFailed, Places, MaybeFlush, buffers
  <2>3. CASE Analysed(c)
    BY <2>3 DEF Analysed, Places, MaybeFlush, books, buffers
  <2>4. CASE Preprocessed(c)
    BY <2>4 DEF Preprocessed, Places, Ready, control, buffers
  <2>5. CASE PreprocessFailed(c)
    BY <2>5 DEF PreprocessFailed, Places, MaybeFlush, buffers
  <2> QED
    BY <2>1, <2>2, <2>3, <2>4, <2>5 DEF Handle
<1>4. at' \in [Copies -> Places]
  BY <1>3 DEF TypeOK, Move, Places
<1>5. results' \subseteq Copies /\ failures' \subseteq [copy : Copies, retryable : BOOLEAN]
  BY <1>3, AppendType DEF TypeOK
<1>6. acked' \subseteq Tasks /\ faults' \in 0..option'.faults
  BY <1>1, <1>3, CloseType DEF TypeOK
<1> QED
  BY <1>3, <1>4, <1>5, <1>6 DEF TypeOK, server, Places

LEMMA BatchesType ==
    ASSUME TypeOK, ProcessEmbeddings \/ ProcessHeads
    PROVE  TypeOK'
<1>1. UNCHANGED <<option, server, draining, leaving, answered, leased, unseen, runs>>
  BY DEF ProcessEmbeddings, ProcessHeads
<1>2. pc' \in {pc, "results", "loop"}
  BY DEF ProcessEmbeddings, ProcessHeads, MaybeFlush, buffers
<1>3. at' \in [Copies -> Places]
  BY DEF ProcessEmbeddings, ProcessHeads, Leave, TypeOK, Places
<1>4. /\ results' \subseteq Copies
      /\ failures' \subseteq [copy : Copies, retryable : BOOLEAN]
      /\ acked' \subseteq Tasks /\ faults' \in 0..option'.faults
  <2>1. \A S \in SUBSET Copies : Working(S) \subseteq S
    BY DEF Working
  <2>2. CASE ProcessEmbeddings
    <3> DEFINE batch == In({"readyEmbedding"})
               work == Working(batch)
    <3>1. batch \subseteq Copies /\ work \subseteq batch /\ batch \ work \subseteq Copies
      BY <2>1 DEF In
    <3>2. acked' \subseteq Tasks /\ faults' \in 0..option'.faults
      <4>1. CloseAll(batch) \/ CloseAll(batch \ work) \/ (Fault /\ acked' = acked)
        BY <2>2 DEF ProcessEmbeddings
      <4> QED
        BY <1>1, <3>1, <4>1, CloseAllType, FaultType DEF TypeOK
    <3>3. \/ UNCHANGED <<results, failures>>
          \/ results' = results \cup work /\ UNCHANGED failures
          \/ \E early \in SUBSET work, good \in SUBSET batch, retryable \in BOOLEAN :
                 /\ results' = results \cup early \cup good
                 /\ failures' = failures \cup FailureOf(batch \ good, retryable)
      BY <2>2 DEF ProcessEmbeddings, buffers
    <3>4. results' \subseteq Copies /\ failures' \subseteq [copy : Copies, retryable : BOOLEAN]
      <4>1. \A good \in SUBSET batch : batch \ good \in SUBSET Copies
        BY <3>1
      <4>2. \A good \in SUBSET batch, retryable \in BOOLEAN :
               FailureOf(batch \ good, retryable) \subseteq [copy : Copies, retryable : BOOLEAN]
        BY <4>1, FailureTypes
      <4> HIDE DEF batch, work
      <4> QED
        BY <3>1, <3>3, <4>2 DEF TypeOK
    <3> QED
      BY <3>2, <3>4
  <2>3. CASE ProcessHeads
    <3>1. PICK batch \in SUBSET In({"readyHeads"}), bad \in SUBSET In({"readyHeads"}),
                retryable \in BOOLEAN :
             /\ bad \subseteq batch
             /\ LET work == Working(batch)
                IN /\ IF bad \subseteq work THEN CloseAll(batch \ work)
                      ELSE ~draining /\ Fault /\ acked' = acked \cup TasksIn(batch \ (work \cup bad))
                   /\ \/ /\ results' = results \cup (work \ bad)
                         /\ failures' = failures \cup FailureOf(bad, retryable)
                      \/ /\ failures' = failures \cup FailureOf(work \cup bad, retryable)
                         /\ UNCHANGED results
      BY <2>3 DEF ProcessHeads
    <3> DEFINE work == Working(batch)
    <3>2. batch \subseteq Copies /\ work \subseteq batch /\ batch \ work \subseteq Copies
      BY <2>1 DEF In
    <3>3. acked' \subseteq Tasks /\ faults' \in 0..option'.faults
      <4>1. CASE CloseAll(batch \ work)
        BY <1>1, <3>2, <4>1, CloseAllType
      <4>2. CASE Fault /\ acked' = acked \cup TasksIn(batch \ (work \cup bad))
        BY <1>1, <3>2, <4>2, FaultType DEF TypeOK, TasksIn, Copies
      <4> QED
        BY <3>1, <4>1, <4>2
    <3>4. results' \subseteq Copies /\ failures' \subseteq [copy : Copies, retryable : BOOLEAN]
      <4>1. bad \in SUBSET Copies /\ work \cup bad \in SUBSET Copies
        BY <3>2 DEF In
      <4>2. /\ FailureOf(bad, retryable) \subseteq [copy : Copies, retryable : BOOLEAN]
            /\ FailureOf(work \cup bad, retryable) \subseteq [copy : Copies, retryable : BOOLEAN]
        BY <4>1, FailureTypes
      <4> QED
        BY <3>1, <3>2, <4>2 DEF TypeOK
    <3> QED
      BY <3>3, <3>4
  <2> QED
    BY <2>2, <2>3
<1> QED
  BY <1>1, <1>2, <1>3, <1>4 DEF TypeOK, server, Places

LEMMA ClaimsType ==
    ASSUME TypeOK, Claim \/ ClaimLost
    PROVE  TypeOK'
<1>1. PICK S \in SUBSET Tasks : Claimable(S) /\ Take(S)
  BY DEF Claim, ClaimLost
<1>2. stage' \in [Tasks -> {"queued", "leased"} \cup Settled]
  BY <1>1 DEF Take, TypeOK
<1>3. attempts' \in [Tasks -> 0..MaxCopies]
  <2>1. MaxCopies \in Nat
    BY ConstantsAssumption
  <2>2. \A t \in S : attempts[t] < MaxCopies
    BY <1>1 DEF Claimable
  <2>3. \A t \in Tasks : attempts[t] + (IF t \in S THEN 1 ELSE 0) \in 0..MaxCopies
    BY <2>1, <2>2 DEF TypeOK
  <2> QED
    BY <1>1, <2>3 DEF Take
<1>4. CASE Claim
  BY <1>2, <1>3, <1>4 DEF Claim, TypeOK, Pending, control, buffers
<1>5. CASE ClaimLost
  BY <1>2, <1>3, <1>5, FaultType DEF ClaimLost, TypeOK, buffers
<1> QED
  BY <1>4, <1>5

LEMMA NextType == TypeOK /\ [Next]_vars => TypeOK'
<1> SUFFICES ASSUME TypeOK, [Next]_vars PROVE TypeOK'
  OBVIOUS
<1>1. CASE SubmitResults \/ SubmitFailures \/ SubmitLost
  <2>1. stage' \in [Tasks -> {"queued", "leased"} \cup Settled]
    <3>1. \/ \E S, refused : Record(S, refused)
          \/ Refuse(failures)
      BY <1>1 DEF SubmitResults, SubmitFailures, SubmitLost
    <3>2. ASSUME NEW S, NEW refused, Record(S, refused)
          PROVE  stage' \in [Tasks -> {"queued", "leased"} \cup Settled]
      BY <3>2 DEF Record, TypeOK, Settled
    <3>3. CASE Refuse(failures)
      BY <3>3, VerdictType DEF Refuse, TypeOK, Settled
    <3> QED
      BY <3>1, <3>2, <3>3
  <2>2. CASE SubmitResults
    BY <2>1, <2>2 DEF SubmitResults, TypeOK, books, TasksIn, Copies
  <2>3. CASE SubmitFailures
    <3>1. acked' \subseteq Tasks
      BY <2>3 DEF SubmitFailures, TypeOK, Copies
    <3>2. UNCHANGED <<option, attempts, leaving, leased, unseen, at, results, faults, runs>>
          /\ failures' = {} /\ answered' = {} /\ draining' \in BOOLEAN
          /\ pc' \in {"release", "loop"}
      BY <2>3 DEF SubmitFailures, TypeOK
    <3> QED
      BY <2>1, <3>1, <3>2 DEF TypeOK
  <2>4. CASE SubmitLost
    BY <2>1, <2>4, FaultType DEF SubmitLost, TypeOK, control, books, buffers
  <2> QED
    BY <1>1, <2>2, <2>3, <2>4
<1>2. CASE LeaveLoop \/ StopRequested
  BY <1>2 DEF LeaveLoop, StopRequested, AfterLoop, Leave, TypeOK, server, books, buffers
<1>3. CASE OnceEnds \/ Interrupted
  <2>1. faults' \in 0..option'.faults
    BY <1>3, FaultType DEF OnceEnds, Interrupted, TypeOK
  <2> QED
    BY <1>3, <2>1 DEF OnceEnds, Interrupted, Leave, TypeOK, server, books, buffers
<1>4. CASE Release \/ Kill
  <2>1. faults' \in 0..option'.faults
    BY <1>4, FaultType DEF Release, Kill, TypeOK
  <2>2. stage' \in [Tasks -> {"queued", "leased"} \cup Settled]
    BY <1>4 DEF Release, Kill, TypeOK, server
  <2> QED
    BY <1>4, <2>1, <2>2 DEF Release, Kill, TypeOK, server, books, buffers
<1>5. CASE Restart
  <2>1. option.runs \in Nat
    BY ConstantsAssumption DEF TypeOK
  <2>2. option' = option /\ runs' \in 1..option'.runs
    BY <1>5, <2>1 DEF Restart, TypeOK
  <2>3. leased' = {} /\ acked' = {} /\ unseen' \subseteq Tasks
    BY <1>5 DEF Restart
  <2> QED
    BY <1>5, <2>2, <2>3 DEF Restart, TypeOK, server
<1>6. ASSUME NEW t \in Tasks, LeaseLapses(t) \/ EndsElsewhere(t) PROVE TypeOK'
  BY <1>6 DEF LeaseLapses, EndsElsewhere, TypeOK, Settled, control, books, buffers
<1>7. ASSUME NEW c \in Copies, Download(c) PROVE TypeOK'
  BY <1>7 DEF Download, Move, TypeOK, Pending, Settled, control, books, buffers, Copies
<1>8. CASE UNCHANGED vars
  BY <1>8 DEF vars, server, buffers, control, books, TypeOK
<1> QED
  BY <1>1, <1>2, <1>3, <1>4, <1>5, <1>6, <1>7, <1>8, ClaimsType, HandleType, BatchesType
  DEF Next, Run

\* The worker's state and the rows of its tasks stay well-typed.
THEOREM TypeCorrectness == Spec => []TypeOK
<1>1. Init => TypeOK
  <2> SUFFICES ASSUME Init PROVE TypeOK
    OBVIOUS
  <2>1. MaxCopies \in Nat /\ option.faults \in Nat /\ option.runs \in Nat \ {0}
    BY ConstantsAssumption DEF Init
  <2>2. faults \in 0..option.faults /\ runs \in 1..option.runs
    BY <2>1 DEF Init
  <2>3. stage \in [Tasks -> {"queued", "leased"} \cup Settled]
        /\ attempts \in [Tasks -> 0..MaxCopies]
    BY <2>1 DEF Init
  <2>4. at \in [Copies -> {"none"} \cup Pending \cup Ready]
    BY DEF Init
  <2> QED
    BY <2>2, <2>3, <2>4 DEF Init, TypeOK
<1> QED
  BY <1>1, NextType, PTL DEF Spec

-----------------------------------------------------------------------------
(* No lease is forgotten: a copy leaves the pipeline only for a buffer, or    *)
(* when its task is not leased any more.                                      *)

Running == pc \in {"loop", "results", "failures"} /\ ~draining

\* A copy of a leased task that was in hand still is.
NoneDropped == \A c \in InHand : stage'[c.task] = "leased" => c \in InHand'

LEMMA InWorkKept ==
    ASSUME LeasesAreInWork, Running' => Running, unseen \subseteq unseen',
           \A t \in Tasks : stage'[t] = "leased" => stage[t] = "leased",
           Running' => NoneDropped
    PROVE  LeasesAreInWork'
<1> SUFFICES ASSUME Running', NEW t \in Tasks, stage'[t] = "leased"
             PROVE  t \in unseen' \cup TasksIn(InHand)'
  BY DEF LeasesAreInWork, Running
<1>1. t \in unseen \cup TasksIn(InHand)
  BY DEF LeasesAreInWork, Running
<1>2. CASE t \in unseen
  BY <1>2
<1>3. CASE t \in TasksIn(InHand)
  BY <1>3 DEF NoneDropped, TasksIn
<1> QED
  BY <1>1, <1>2, <1>3

\* Buffers that only grow take what leaves the pipeline.
LEMMA BuffersTake ==
    ASSUME TypeOK, results \subseteq results', failures \subseteq failures',
           \A c \in Copies : at[c] \in Pending \cup Ready /\ stage'[c.task] = "leased"
                                => c \in InHand'
    PROVE  NoneDropped
BY DEF NoneDropped, InHand, In, TypeOK

\* The record of a failure, and its copy.
LEMMA FailureInHand ==
    ASSUME NEW S \in SUBSET Copies, NEW retryable, FailureOf(S, retryable) \subseteq failures'
    PROVE  S \subseteq InHand'
<1> SUFFICES ASSUME NEW c \in S PROVE c \in InHand'
  OBVIOUS
<1>1. Failure(c, retryable) \in failures' /\ Failure(c, retryable).copy = c
  BY DEF FailureOf, Failure
<1> QED
  BY <1>1 DEF InHand

LEMMA HandleDropsNone ==
    ASSUME TypeOK, NEW c \in Copies, Handle(c), ~draining
    PROVE  NoneDropped
<1>1. results \subseteq results' /\ failures \subseteq failures'
  BY DEF Handle, Downloaded, DownloadFailed, Analysed, Preprocessed, PreprocessFailed,
         AppendResult, AppendFailure, buffers
<1>2. UNCHANGED stage
  BY DEF Handle, Downloaded, DownloadFailed, Analysed, Preprocessed, PreprocessFailed, server
<1>3. \/ c \in results' \/ \E f \in failures' : f.copy = c
      \/ \E place \in Pending \cup Ready : Move(c, place)
      \/ stage[c.task] # "leased"
  <2>1. CASE AppendResult(c)
    BY <2>1 DEF AppendResult
  <2>2. CASE AppendFailure(c)
    <3>1. PICK retryable \in BOOLEAN : Failure(c, retryable) \in failures'
      BY <2>2 DEF AppendFailure
    <3>2. Failure(c, retryable).copy = c
      BY DEF Failure
    <3> QED
      BY <3>1, <3>2
  <2>3. CASE Downloaded(c)
    <3>1. CASE option.kind[c.task] # "direct"
      <4>1. option.kind[c.task] \in Kinds
        BY ConstantsAssumption DEF TypeOK, Copies
      <4>2. Route(c) \in Pending \cup Ready
        BY <3>1, <4>1 DEF Route, Kinds, Pending, Ready
      <4> QED
        BY <2>1, <2>2, <2>3, <4>2 DEF Downloaded
    <3> QED
      BY <2>1, <2>2, <2>3, <3>1 DEF Downloaded
  <2>4. CASE DownloadFailed(c)
    BY <2>1, <2>2, <2>4 DEF DownloadFailed, Closes, Active
  <2>5. CASE Analysed(c)
    BY <2>1, <2>2, <2>5 DEF Analysed
  <2>6. CASE Preprocessed(c)
    BY <2>6 DEF Preprocessed, Active, Ready
  <2>7. CASE PreprocessFailed(c)
    BY <2>1, <2>2, <2>7 DEF PreprocessFailed, Closes, Active
  <2> QED
    BY <2>3, <2>4, <2>5, <2>6, <2>7 DEF Handle
<1>4. \A d \in Copies : d # c => at'[d] = at[d]
  BY DEF Handle, Downloaded, DownloadFailed, Analysed, Preprocessed, PreprocessFailed, Move, TypeOK
<1>5. ASSUME NEW d \in Copies, at[d] \in Pending \cup Ready, stage'[d.task] = "leased"
      PROVE  d \in InHand'
  <2>1. CASE d # c
    BY <1>4, <1>5, <2>1 DEF InHand, In
  <2>2. CASE d = c
    BY <1>2, <1>3, <1>5, <2>2 DEF InHand, In, Move, TypeOK
  <2> QED
    BY <2>1, <2>2
<1> QED
  BY <1>1, <1>5, BuffersTake

LEMMA EmbeddingsDropNone ==
    ASSUME TypeOK, ProcessEmbeddings, ~draining
    PROVE  NoneDropped
<1> DEFINE batch == In({"readyEmbedding"})
           work == Working(batch)
<1>1. UNCHANGED stage /\ Leave(batch)
  BY DEF ProcessEmbeddings, server
<1>2. batch \subseteq Copies /\ \A c \in batch \ work : stage[c.task] # "leased"
  BY DEF In, Working, Active
<1>3. \/ work = {} /\ UNCHANGED <<results, failures>>
      \/ results' = results \cup work /\ UNCHANGED failures
      \/ \E good \in SUBSET batch, retryable \in BOOLEAN :
           /\ results \cup good \subseteq results'
           /\ failures' = failures \cup FailureOf(batch \ good, retryable)
  BY DEF ProcessEmbeddings, buffers
<1>4. results \subseteq results' /\ failures \subseteq failures' /\ work \subseteq InHand'
  <2>1. CASE work = {} /\ UNCHANGED <<results, failures>>
    BY <2>1
  <2>2. CASE results' = results \cup work /\ UNCHANGED failures
    BY <2>2 DEF InHand
  <2>3. CASE \E good \in SUBSET batch, retryable \in BOOLEAN :
                 /\ results \cup good \subseteq results'
                 /\ failures' = failures \cup FailureOf(batch \ good, retryable)
    <3>1. PICK good \in SUBSET batch, retryable \in BOOLEAN :
             /\ results \cup good \subseteq results'
             /\ failures' = failures \cup FailureOf(batch \ good, retryable)
      BY <2>3
    <3>2. batch \ good \in SUBSET Copies
      BY <1>2
    <3>3. batch \ good \subseteq InHand'
      BY <3>1, <3>2, FailureInHand
    <3>4. work \subseteq batch
      BY DEF Working
    <3> HIDE DEF batch, work
    <3> QED
      BY <3>1, <3>3, <3>4 DEF InHand
  <2> QED
    BY <1>3, <2>1, <2>2, <2>3
<1>5. ASSUME NEW c \in Copies, at[c] \in Pending \cup Ready, stage'[c.task] = "leased"
      PROVE  c \in InHand'
  <2>1. CASE c \in batch
    BY <1>1, <1>2, <1>4, <1>5, <2>1
  <2>2. CASE c \notin batch
    BY <1>1, <1>5, <2>2 DEF Leave, InHand, In
  <2> QED
    BY <2>1, <2>2
<1> QED
  BY <1>4, <1>5, BuffersTake

LEMMA HeadsDropNone ==
    ASSUME TypeOK, ProcessHeads, ~draining
    PROVE  NoneDropped
<1>1. PICK batch \in SUBSET In({"readyHeads"}) :
         LET work == Working(batch)
         IN /\ Leave(batch)
            /\ \E bad \in SUBSET batch, retryable \in BOOLEAN :
                 \/ /\ results' = results \cup (work \ bad)
                    /\ failures' = failures \cup FailureOf(bad, retryable)
                 \/ /\ failures' = failures \cup FailureOf(work \cup bad, retryable)
                    /\ UNCHANGED results
  BY DEF ProcessHeads
<1> DEFINE work == Working(batch)
<1>2. batch \subseteq Copies /\ \A c \in batch \ work : stage[c.task] # "leased"
  BY DEF In, Working, Active
<1>3. work \subseteq batch
  BY DEF Working
<1>4. PICK bad \in SUBSET batch, retryable \in BOOLEAN :
         \/ /\ results' = results \cup (work \ bad)
            /\ failures' = failures \cup FailureOf(bad, retryable)
         \/ /\ failures' = failures \cup FailureOf(work \cup bad, retryable)
            /\ UNCHANGED results
  BY <1>1
<1> HIDE DEF work
<1>5. results \subseteq results' /\ failures \subseteq failures' /\ work \subseteq InHand'
  <2>1. CASE /\ results' = results \cup (work \ bad)
             /\ failures' = failures \cup FailureOf(bad, retryable)
    <3>1. bad \in SUBSET Copies
      BY <1>2
    <3>2. bad \subseteq InHand'
      BY <2>1, <3>1, FailureInHand
    <3> QED
      BY <2>1, <3>2 DEF InHand
  <2>2. CASE /\ failures' = failures \cup FailureOf(work \cup bad, retryable)
             /\ UNCHANGED results
    <3>1. work \cup bad \in SUBSET Copies
      BY <1>2, <1>3
    <3>2. work \cup bad \subseteq InHand'
      BY <2>2, <3>1, FailureInHand
    <3> QED
      BY <2>2, <3>2
  <2> QED
    BY <1>4, <2>1, <2>2
<1>6. UNCHANGED stage
  BY DEF ProcessHeads, server
<1>7. ASSUME NEW c \in Copies, at[c] \in Pending \cup Ready, stage'[c.task] = "leased"
      PROVE  c \in InHand'
  <2>1. CASE c \in batch
    BY <1>2, <1>5, <1>6, <1>7, <2>1
  <2>2. CASE c \notin batch
    BY <1>1, <1>7, <2>2 DEF Leave, InHand, In
  <2> QED
    BY <2>1, <2>2
<1> QED
  BY <1>5, <1>7, BuffersTake

\* claim_more: a task claimed is in hand as the copy with its number.
LEMMA ClaimIsInWork ==
    ASSUME TypeOK, TypeOK', LeasesAreInWork, Claim
    PROVE  LeasesAreInWork'
<1>1. PICK S \in SUBSET Tasks :
         /\ Claimable(S) /\ Take(S)
         /\ at' = [c \in Copies |->
                IF c.task \in S /\ c.claim = attempts'[c.task] THEN "download" ELSE at[c]]
         /\ unseen' = unseen \ S
  BY DEF Claim
<1>2. UNCHANGED <<results, failures, pc, draining>> /\ pc = "loop" /\ ~draining
  BY DEF Claim, control, buffers
<1>3. \A c \in InHand : c \in InHand'
  BY <1>1, <1>2 DEF InHand, In, Pending
<1>4. ASSUME NEW t \in S PROVE t \in TasksIn(InHand)'
  <2> DEFINE c == [task |-> t, claim |-> attempts'[t]]
  <2>1. attempts'[t] \in 1..MaxCopies
    <3>1. attempts'[t] = attempts[t] + 1 /\ attempts[t] \in Nat /\ attempts'[t] \in 0..MaxCopies
      BY <1>1 DEF Take, TypeOK
    <3> QED
      BY <3>1
  <2>2. c \in Copies
    BY <2>1 DEF Copies
  <2>3. at'[c] = "download"
    BY <1>1, <2>2
  <2> QED
    BY <2>2, <2>3 DEF InHand, In, Pending, TasksIn
<1>5. ASSUME NEW t \in Tasks, stage'[t] = "leased", t \notin S
      PROVE  t \in unseen' \cup TasksIn(InHand)'
  <2>1. stage[t] = "leased"
    BY <1>1, <1>5 DEF Take
  <2>2. t \in unseen \cup TasksIn(InHand)
    BY <1>2, <2>1 DEF LeasesAreInWork
  <2> QED
    BY <1>1, <1>3, <1>5, <2>2 DEF TasksIn
<1> QED
  BY <1>4, <1>5 DEF LeasesAreInWork

LEMMA InWorkNext ==
    ASSUME TypeOK, TypeOK', LeasesAreInWork, [Next]_vars
    PROVE  LeasesAreInWork'
<1>1. CASE ClaimLost
  <2>1. PICK S \in SUBSET Tasks : Take(S) /\ unseen' = unseen \cup S
    BY <1>1 DEF ClaimLost
  <2>2. UNCHANGED <<at, results, failures, draining>> /\ pc = "loop"
    BY <1>1 DEF ClaimLost, buffers
  <2>3. InHand' = InHand
    BY <2>2 DEF InHand, In
  <2>4. ASSUME NEW t \in Tasks, stage'[t] = "leased", ~draining
        PROVE  t \in unseen' \cup TasksIn(InHand)'
    <3>1. t \in S \/ stage[t] = "leased"
      BY <2>1, <2>4 DEF Take
    <3> QED
      BY <2>1, <2>2, <2>3, <2>4, <3>1 DEF LeasesAreInWork, TasksIn
  <2> QED
    BY <2>2, <2>4 DEF LeasesAreInWork
<1>2. ASSUME NEW c \in Copies, Handle(c) PROVE LeasesAreInWork'
  <2>1. UNCHANGED <<stage, draining, unseen>> /\ pc = "loop"
    BY <1>2 DEF Handle, Downloaded, DownloadFailed, Analysed, Preprocessed, PreprocessFailed,
                server, books, control
  <2>2. ~draining' => NoneDropped
    BY <1>2, <2>1, HandleDropsNone
  <2> QED
    BY <2>1, <2>2, InWorkKept DEF Running
<1>3. CASE ProcessEmbeddings \/ ProcessHeads
  <2>1. UNCHANGED <<stage, draining, unseen>> /\ pc = "loop"
    BY <1>3 DEF ProcessEmbeddings, ProcessHeads, server
  <2>2. ~draining' => NoneDropped
    BY <1>3, <2>1, EmbeddingsDropNone, HeadsDropNone
  <2> QED
    BY <2>1, <2>2, InWorkKept DEF Running
<1>4. CASE SubmitResults
  <2>1. PICK refused : Record(TasksIn(results), refused)
    BY <1>4 DEF SubmitResults
  <2>2. UNCHANGED <<draining, unseen, at, failures>> /\ pc = "results"
    BY <1>4 DEF SubmitResults, books
  <2>3. \A t \in Tasks : stage'[t] = "leased" => stage[t] = "leased" /\ t \notin TasksIn(results)
    BY <2>1 DEF Record
  <2>4. NoneDropped
    BY <2>2, <2>3 DEF NoneDropped, InHand, In, TasksIn, TypeOK, Copies
  <2> QED
    BY <2>2, <2>3, <2>4, InWorkKept DEF Running
<1>5. CASE SubmitFailures
  <2>1. UNCHANGED <<unseen, at, results>> /\ pc = "failures" /\ (draining => draining')
    BY <1>5 DEF SubmitFailures
  <2>2. \A t \in Tasks : stage'[t] = "leased"
                            => stage[t] = "leased" /\ ~\E f \in failures : f.copy.task = t
    BY <1>5, VerdictType DEF SubmitFailures, Refuse
  <2>3. NoneDropped
    BY <2>1, <2>2 DEF NoneDropped, InHand, In, TypeOK, Copies
  <2> QED
    BY <2>1, <2>2, <2>3, InWorkKept DEF Running
<1>6. CASE SubmitLost
  <2>1. UNCHANGED <<pc, draining, unseen, at, results, failures>>
    BY <1>6 DEF SubmitLost, control, books, buffers
  <2>2. \A t \in Tasks : stage'[t] = "leased" => stage[t] = "leased"
    BY <1>6, VerdictType DEF SubmitLost, Record, Refuse
  <2>3. NoneDropped
    BY <2>1 DEF NoneDropped, InHand, In
  <2> QED
    BY <2>1, <2>2, <2>3, InWorkKept DEF Running
\* Steps after which the worker does not run, or drains.
<1>7. CASE LeaveLoop \/ OnceEnds \/ Release \/ StopRequested \/ Interrupted \/ Kill
  BY <1>7 DEF LeaveLoop, OnceEnds, Release, StopRequested, Interrupted, Kill, LeasesAreInWork
\* A new run has seen none of the leases it holds.
<1>8. CASE Restart
  BY <1>8 DEF Restart, LeasesAreInWork, server
<1>9. ASSUME NEW t \in Tasks, LeaseLapses(t) \/ EndsElsewhere(t) PROVE LeasesAreInWork'
  <2>1. UNCHANGED <<pc, draining, unseen, at, results, failures>>
    BY <1>9 DEF LeaseLapses, EndsElsewhere, control, books, buffers
  <2>2. \A u \in Tasks : stage'[u] = "leased" => stage[u] = "leased"
    BY <1>9 DEF LeaseLapses, EndsElsewhere, TypeOK
  <2>3. NoneDropped
    BY <2>1 DEF NoneDropped, InHand, In
  <2> QED
    BY <2>1, <2>2, <2>3, InWorkKept DEF Running
<1>10. ASSUME NEW c \in Copies, Download(c) PROVE LeasesAreInWork'
  <2>1. UNCHANGED <<pc, draining, unseen, results, failures>>
    BY <1>10 DEF Download, control, books, buffers
  <2>2. \A u \in Tasks : stage'[u] = "leased" => stage[u] = "leased"
    BY <1>10 DEF Download, TypeOK
  <2>3. \A d \in Copies : at[d] \in Pending \cup Ready => at'[d] \in Pending \cup Ready
    BY <1>10 DEF Download, Move, TypeOK, Pending
  <2>4. NoneDropped
    BY <2>1, <2>3, BuffersTake DEF InHand, In
  <2> QED
    BY <2>1, <2>2, <2>4, InWorkKept DEF Running
<1>11. CASE UNCHANGED vars
  <2>1. UNCHANGED <<pc, draining, unseen, at, results, failures, stage>>
    BY <1>11 DEF vars, control, books, buffers, server
  <2>2. NoneDropped
    BY <2>1 DEF NoneDropped, InHand, In
  <2> QED
    BY <2>1, <2>2, InWorkKept DEF Running
<1> QED
  BY <1>1, <1>2, <1>3, <1>4, <1>5, <1>6, <1>7, <1>8, <1>9, <1>10, <1>11, ClaimIsInWork
  DEF Next, Run

\* While the worker runs, each lease the server thinks it holds is of a task it
\* works on, has an answer for, or never heard of (WorkerRuntime._run_loop).
THEOREM NoLeaseIsForgotten == Spec => []LeasesAreInWork
<1>1. Init => LeasesAreInWork
  BY DEF Init, LeasesAreInWork
<1>2. TypeOK /\ TypeOK' /\ LeasesAreInWork /\ [Next]_vars => LeasesAreInWork'
  BY InWorkNext
<1> QED
  BY <1>1, <1>2, TypeCorrectness, PTL DEF Spec

-----------------------------------------------------------------------------
(* The end of a run.                                                         *)

\* The worker has heard of its leases, or a reply was lost.
KnownInv == \A t \in Tasks : stage[t] = "leased" => t \in leased \cup unseen

\* The last flush empties the buffers one after the other, and the release
\* leaves the leases that were acknowledged.
FlushInv ==
    faults = 0 =>
        /\ leaving => draining /\ pc # "loop"
        /\ leaving /\ pc = "failures" => results = {}
        /\ leaving /\ pc \in {"release", "exited"} => results = {} /\ failures = {}
        /\ pc = "exited" => \A t \in Tasks : stage[t] = "leased" => t \in acked \cup unseen

\* Only a claim leases a task.
LEMMA OnlyClaimsLease ==
    ASSUME TypeOK, [Next]_vars, ~Claim, ~ClaimLost,
           NEW t \in Tasks, stage'[t] = "leased"
    PROVE  stage[t] = "leased"
<1>1. CASE SubmitResults \/ SubmitFailures \/ SubmitLost \/ Release
  BY <1>1, VerdictType DEF SubmitResults, SubmitFailures, SubmitLost, Release, Record, Refuse
<1>2. CASE UNCHANGED stage
  BY <1>2
<1>3. ASSUME NEW u \in Tasks, NEW other \in {"queued", "final_failed"},
             stage' = [stage EXCEPT ![u] = other]
      PROVE  stage[t] = "leased"
  BY <1>3 DEF TypeOK
<1>4. \/ UNCHANGED stage
      \/ SubmitResults \/ SubmitFailures \/ SubmitLost \/ Release
      \/ \E u \in Tasks, other \in {"queued", "final_failed"} :
            stage' = [stage EXCEPT ![u] = other]
  <2>1. ASSUME NEW c \in Copies, Handle(c) PROVE UNCHANGED stage
    BY <2>1 DEF Handle, Downloaded, DownloadFailed, Analysed, Preprocessed, PreprocessFailed, server
  <2>2. CASE ProcessEmbeddings \/ ProcessHeads \/ LeaveLoop \/ OnceEnds
    BY <2>2 DEF ProcessEmbeddings, ProcessHeads, LeaveLoop, OnceEnds, server
  <2>3. CASE StopRequested \/ Interrupted \/ Kill \/ Restart \/ UNCHANGED vars
    BY <2>3 DEF StopRequested, Interrupted, Kill, Restart, vars, server
  <2>4. ASSUME NEW u \in Tasks, LeaseLapses(u) \/ EndsElsewhere(u)
        PROVE  \E other \in {"queued", "final_failed"} : stage' = [stage EXCEPT ![u] = other]
    BY <2>4 DEF LeaseLapses, EndsElsewhere
  <2>5. ASSUME NEW c \in Copies, Download(c)
        PROVE  \/ UNCHANGED stage
               \/ \E u \in Tasks, other \in {"queued", "final_failed"} :
                     stage' = [stage EXCEPT ![u] = other]
    BY <2>5 DEF Download, Copies
  <2> QED
    BY <2>1, <2>2, <2>3, <2>4, <2>5 DEF Next, Run
<1> QED
  BY <1>1, <1>2, <1>3, <1>4

LEMMA KnownNext ==
    ASSUME TypeOK, KnownInv, [Next]_vars
    PROVE  KnownInv'
<1>1. CASE Claim \/ ClaimLost
  <2>1. PICK S \in SUBSET Tasks :
           /\ Take(S)
           /\ \/ leased' = leased \cup S /\ unseen' = unseen \ S
              \/ leased' = leased /\ unseen' = unseen \cup S
    BY <1>1 DEF Claim, ClaimLost
  <2> QED
    BY <2>1 DEF KnownInv, Take
<1>2. CASE Restart
  BY <1>2 DEF KnownInv, Restart, server
<1>3. CASE ~Claim /\ ~ClaimLost /\ ~Restart
  <2>1. UNCHANGED <<leased, unseen>>
    BY <1>3 DEF Next, Run, Handle, Downloaded, DownloadFailed, Analysed, Preprocessed,
         PreprocessFailed, ProcessEmbeddings, ProcessHeads, SubmitResults, SubmitFailures, SubmitLost,
         LeaveLoop, OnceEnds, Release, StopRequested, Interrupted, Kill, LeaseLapses, EndsElsewhere,
         Download, vars, books
  <2>2. \A t \in Tasks : stage'[t] = "leased" => stage[t] = "leased"
    BY <1>3, OnlyClaimsLease
  <2> QED
    BY <2>1, <2>2 DEF KnownInv
<1> QED
  BY <1>1, <1>2, <1>3

\* A fault ends what is said of undisturbed runs.
LEMMA FaultsStay ==
    ASSUME TypeOK, Fault
    PROVE  faults' # 0
BY DEF TypeOK, Fault

LEMMA FlushNext ==
    ASSUME TypeOK, KnownInv, FlushInv, [Next]_vars
    PROVE  FlushInv'
<1> SUFFICES ASSUME faults' = 0 PROVE FlushInv'
  BY DEF FlushInv
<1>0. ~Fault
  BY FaultsStay
<1>1. CASE pc = "loop" /\ pc' # "exited" /\ ~LeaveLoop
  <2>1. ~leaving /\ UNCHANGED leaving
    <3>1. faults = 0
      BY <1>0, <1>1 DEF TypeOK, Next, Run, Handle, Claim, ClaimLost, Downloaded, DownloadFailed,
           Analysed, Preprocessed, PreprocessFailed, ProcessEmbeddings, ProcessHeads, SubmitResults,
           SubmitFailures, SubmitLost, OnceEnds, Release, StopRequested, Interrupted, Kill, Restart,
           LeaseLapses, EndsElsewhere, Download, Closes, DoesNotClose, CloseAll, vars
    <3>2. UNCHANGED leaving
      BY <1>1 DEF Next, Run, Handle, Claim, ClaimLost, Downloaded, DownloadFailed, Analysed,
           Preprocessed, PreprocessFailed, ProcessEmbeddings, ProcessHeads, SubmitResults,
           SubmitFailures, SubmitLost, OnceEnds, Release, StopRequested, Interrupted, Kill, Restart,
           LeaseLapses, EndsElsewhere, Download, vars, control
    <3> QED
      BY <1>1, <3>1, <3>2 DEF FlushInv
  <2> QED
    BY <1>1, <2>1 DEF FlushInv
<1>2. CASE LeaveLoop
  BY <1>2 DEF LeaveLoop, AfterLoop, FlushInv
<1>3. CASE SubmitResults
  BY <1>3 DEF SubmitResults, FlushInv, books
<1>4. CASE SubmitFailures
  BY <1>4 DEF SubmitFailures, FlushInv
<1>5. CASE Release
  <2>1. /\ stage' = [t \in Tasks |->
               IF t \in Unreleased /\ stage[t] = "leased" THEN "queued" ELSE stage[t]]
        /\ UNCHANGED <<faults, acked, unseen, draining, leaving, results, failures>>
        /\ pc = "release" /\ pc' = "exited"
    BY <1>0, <1>5 DEF Release, books, buffers
  <2>2. \A t \in Tasks : stage'[t] = "leased" => t \in acked' \cup unseen'
    BY <2>1 DEF KnownInv, Unreleased
  <2> QED
    BY <2>1, <2>2 DEF FlushInv
<1>6. CASE Restart
  BY <1>6 DEF Restart, FlushInv
<1>7. CASE StopRequested
  BY <1>7 DEF StopRequested, FlushInv, server, books, buffers
\* What happens outside the main thread.
<1> DEFINE Aside ==
             /\ UNCHANGED <<pc, draining, leaving, results, failures, acked, unseen, faults>>
             /\ \A t \in Tasks : stage'[t] = "leased" => stage[t] = "leased"
<1>8. CASE Aside
  BY <1>8 DEF FlushInv
<1> QED
  <2>1. ASSUME NEW c \in Copies, Handle(c) PROVE pc = "loop" /\ pc' # "exited"
    BY <2>1 DEF Handle, Downloaded, DownloadFailed, Analysed, Preprocessed, PreprocessFailed,
                MaybeFlush, control
  <2>2. CASE Claim \/ ClaimLost \/ ProcessEmbeddings \/ ProcessHeads \/ OnceEnds
    BY <1>1, <1>2, <2>2 DEF Claim, ClaimLost, ProcessEmbeddings, ProcessHeads, OnceEnds, MaybeFlush,
                       control
  <2>3. ASSUME NEW t \in Tasks, LeaseLapses(t) \/ EndsElsewhere(t) PROVE Aside
    BY <2>3 DEF LeaseLapses, EndsElsewhere, control, books, buffers, TypeOK
  <2>4. ASSUME NEW c \in Copies, Download(c) PROVE Aside
    BY <2>4 DEF Download, control, books, buffers, TypeOK
  <2>5. ASSUME UNCHANGED vars PROVE Aside
    BY <2>5 DEF vars, control, books, buffers, server
  <2>6. ASSUME NEW c \in Copies, Handle(c) PROVE FlushInv'
    BY <1>1, <1>2, <2>1, <2>6
  <2>7. CASE Run
    BY <1>2, <1>3, <1>4, <1>5, <2>2, <2>6, <2>7 DEF Run
  <2>8. ~SubmitLost /\ ~Interrupted /\ ~Kill
    BY <1>0 DEF SubmitLost, Interrupted, Kill
  <2> HIDE DEF Aside
  <2> QED
    BY <1>6, <1>7, <1>8, <2>2, <2>3, <2>4, <2>5, <2>7, <2>8 DEF Next

\* A drain that nothing disturbs sends every answer and keeps no lease but of
\* tasks acknowledged before (WorkerRuntime.run, the flush and the finally).
THEOREM DrainsLeaveNothing == Spec => []DrainLeaves
<1>1. Init => KnownInv /\ FlushInv
  BY DEF Init, KnownInv, FlushInv
<1>2. TypeOK /\ KnownInv /\ FlushInv /\ [Next]_vars => (KnownInv /\ FlushInv)'
  BY KnownNext, FlushNext
<1>3. FlushInv => DrainLeaves
  BY DEF FlushInv, DrainLeaves
<1> QED
  BY <1>1, <1>2, <1>3, TypeCorrectness, PTL DEF Spec

=============================================================================
