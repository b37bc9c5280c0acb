-------------------------- MODULE PlayerSyncProofs --------------------------
(***************************************************************************)
(* What holds of PlayerSync for any items, any number of requests under    *)
(* way and any number of moves: every interval can be stopped, the page    *)
(* stays on a jump that is not acknowledged, and a handover moves the      *)
(* server's pointer once.                                                  *)
(***************************************************************************)
EXTENDS PlayerSync, TLAPS

\* An attempt carries what its call was given: a jump has its item.
Call(by) ==
    /\ by \in Attempts
    /\ by.generation # 0
    /\ by.key = "jump" => by.item \in Items

Phases == {"sent", "moved", "clicked", "handed", "answered", "failed", "confirming"}

Requests ==
    [op : Keys \cup {"handover"}, item : Items \cup {None}, id : 0..MaxHandovers,
     by : Attempts \cup {NoAttempt}, phase : Phases, reply : Items \cup {None}]

Request(r) ==
    /\ r \in Requests
    /\ r.op # "refresh" => r.item \in Items
    /\ r.op = "handover" => r.id # 0
    /\ r.phase = "answered" => r.reply \in Items
    /\ r.op # "handover" => Call(r.by)
    /\ r.by # NoAttempt => Call(r.by)

NetInv == net \in [Slots -> {None} \cup {r \in Requests : Request(r)}]

StoreInv ==
    /\ ptr \in Items /\ current \in Items
    /\ done \subseteq 1..MaxHandovers
    /\ jump \in Items \cup {None}
    /\ handover \in Handovers \cup {None} /\ preparing \subseteq Handovers
    /\ starting \in Seq(Items)
    /\ begun \in Nat

\* An interval's number is the one of its key's entry; with two keys there is
\* always a third number to give.
RetryInv ==
    /\ registry \in [Keys -> [generation : Nat, timer : 0..3]]
    /\ \A k \in Keys : registry[k].generation = 0 => registry[k].timer = 0
    /\ \A t \in live :
          /\ t \in [timer : 1..3, by : Attempts]
          /\ Call(t.by)
          /\ registry[t.by.key].timer = t.timer

IInv == NetInv /\ StoreInv /\ RetryInv

-----------------------------------------------------------------------------
(* Requests keep their shape. *)

LEMMA SendKeeps ==
    ASSUME NetInv, NEW op, NEW item, NEW id, NEW by, Send(op, item, id, by),
           op \in Keys \cup {"handover"}, item \in Items \cup {None}, id \in 0..MaxHandovers,
           by \in Attempts \cup {NoAttempt},
           op # "refresh" => item \in Items,
           op = "handover" => id # 0,
           op # "handover" => Call(by),
           by # NoAttempt => Call(by)
    PROVE  NetInv'
<1>1. PICK s \in Free : net' = [net EXCEPT ![s] =
          [op |-> op, item |-> item, id |-> id, by |-> by, phase |-> "sent", reply |-> None]]
  BY DEF Send
<1> DEFINE new == [op |-> op, item |-> item, id |-> id, by |-> by, phase |-> "sent", reply |-> None]
<1>2. Request(new)
  <2>1. new \in Requests
    BY ConstantsAssumption DEF Requests, Phases
  <2>2. /\ new.op = op /\ new.item = item /\ new.id = id /\ new.by = by
        /\ new.phase # "answered"
    OBVIOUS
  <2> QED
    BY <2>1, <2>2 DEF Request
<1> QED
  BY <1>1, <1>2 DEF NetInv, Free, Request, Call

LEMMA PhaseKeeps ==
    ASSUME NetInv, NEW s \in Slots, net[s] # None, NEW p \in Phases, p # "answered",
           Phase(s, p)
    PROVE  NetInv'
<1>1. Request(net[s])
  BY DEF NetInv
<1>2. Request([net[s] EXCEPT !.phase = p])
  BY <1>1 DEF Request, Requests
<1> QED
  BY <1>2 DEF NetInv, Phase, Request, Call

LEMMA FinishKeeps ==
    ASSUME NetInv, NEW s \in Slots, Finish(s)
    PROVE  NetInv'
BY DEF NetInv, Finish, Request, Call

LEMMA AnswerKeeps ==
    ASSUME NetInv, StoreInv, NEW s \in Slots, Answer(s)
    PROVE  NetInv'
<1>1. net[s] # None /\ Request(net[s])
  BY DEF Answer, Is, NetInv
<1> DEFINE new == [net[s] EXCEPT !.phase = "answered", !.reply = ptr]
<1>2. Request(new)
  <2>1. new \in Requests
    BY <1>1, ConstantsAssumption DEF Request, Requests, StoreInv, Phases
  <2>2. /\ new.op = net[s].op /\ new.item = net[s].item /\ new.id = net[s].id
        /\ new.by = net[s].by /\ new.reply = ptr
    BY <1>1 DEF Request, Requests
  <2> QED
    BY <1>1, <2>1, <2>2 DEF Request, StoreInv
<1> QED
  BY <1>2 DEF NetInv, Answer, Request, Call

-----------------------------------------------------------------------------
(* Intervals stay registered. *)

LEMMA ForgetKeeps ==
    ASSUME RetryInv, NEW key \in Keys, Forget(key)
    PROVE  RetryInv'
BY DEF RetryInv, Forget, NoEntry, Call, Attempts

LEMMA ScheduleKeeps ==
    ASSUME RetryInv, NetInv, NEW op \in Keys, NEW item \in Items \cup {None},
           op = "jump" => item \in Items, Schedule(op, item)
    PROVE  RetryInv' /\ NetInv'
<1> DEFINE by == [key |-> op, item |-> item, generation |-> registry[op].generation + 1]
<1>1. registry[op].generation \in Nat
  BY DEF RetryInv
<1>2. Call(by)
  BY <1>1 DEF Call, Attempts
<1>3. Send(op, item, 0, by)
  BY DEF Schedule
<1>4. NetInv'
  <2>1. by \in Attempts
    BY <1>2 DEF Call
  <2>2. 0 \in 0..MaxHandovers
    BY ConstantsAssumption
  <2>3. op \in Keys /\ op # "handover" /\ (op # "refresh" => item \in Items)
    BY DEF Keys
  <2> QED
    BY <1>2, <1>3, <2>1, <2>2, <2>3, SendKeeps
<1>5. RetryInv'
  BY <1>1 DEF RetryInv, Schedule, Call, Attempts
<1> QED
  BY <1>4, <1>5

\* With at most one interval per key, one of three numbers is free.
LEMMA FreshTimer ==
    ASSUME RetryInv
    PROVE  NewTimer \in 1..3 /\ \A t \in live : t.timer # NewTimer
<1>1. \A t \in live : t.timer = registry["jump"].timer \/ t.timer = registry["refresh"].timer
  BY DEF RetryInv, Call, Attempts, Keys
<1>2. registry["jump"].timer \in 0..3 /\ registry["refresh"].timer \in 0..3
  BY DEF RetryInv, Keys
<1>3. \E n \in 1..3 : n # registry["jump"].timer /\ n # registry["refresh"].timer
  BY <1>2
<1>4. \E n \in 1..3 : \A t \in live : t.timer # n
  BY <1>1, <1>3
<1> QED
  BY <1>4 DEF NewTimer

LEMMA FailKeeps ==
    ASSUME RetryInv, NetInv, NEW s \in Slots, Fail(s)
    PROVE  RetryInv' /\ NetInv'
<1> DEFINE by == net[s].by
<1>1. NetInv'
  BY FinishKeeps DEF Fail
<1>2. CASE by # NoAttempt /\ SetsTimer(by)
  <2>1. Call(by)
    BY <1>2 DEF NetInv, Request, Fail
  <2>2. registry[by.key].generation = by.generation /\ registry[by.key].timer = 0
    BY <1>2 DEF SetsTimer, IsCurrent
  <2>3. /\ live' = live \cup {[timer |-> NewTimer, by |-> by]}
        /\ registry' = [registry EXCEPT ![by.key].timer = NewTimer]
    BY <1>2 DEF Fail
  <2>4. NewTimer \in 1..3
    BY FreshTimer
  <2>5. by \in Attempts /\ by.key \in Keys /\ by.generation # 0
    BY <2>1 DEF Call, Attempts
  <2>6. registry' \in [Keys -> [generation : Nat, timer : 0..3]]
    BY <2>3, <2>4, <2>5 DEF RetryInv
  <2>7. \A k \in Keys : registry'[k].generation = 0 => registry'[k].timer = 0
    BY <2>2, <2>3, <2>4, <2>5 DEF RetryInv
  <2>8. ASSUME NEW t \in live'
        PROVE  /\ t \in [timer : 1..3, by : Attempts]
               /\ Call(t.by)
               /\ registry'[t.by.key].timer = t.timer
    <3>1. CASE t \in live
      <4>1. t \in [timer : 1..3, by : Attempts] /\ registry[t.by.key].timer = t.timer /\ Call(t.by)
        BY <3>1 DEF RetryInv
      <4>2. t.by.key # by.key
        BY <4>1, <2>2
      <4>3. t.by.key \in Keys
        BY <4>1 DEF Attempts
      <4> QED
        BY <4>1, <4>2, <4>3, <2>3, <2>5 DEF RetryInv
    <3>2. CASE t = [timer |-> NewTimer, by |-> by]
      BY <3>2, <2>1, <2>3, <2>4, <2>5 DEF RetryInv
    <3> QED
      BY <3>1, <3>2, <2>3
  <2>9. RetryInv'
    BY <2>6, <2>7, <2>8 DEF RetryInv, Call
  <2> QED
    BY <1>1, <2>9
<1>3. CASE ~(by # NoAttempt /\ SetsTimer(by))
  BY <1>1, <1>3 DEF Fail, RetryInv, retries, Call
<1> QED
  BY <1>2, <1>3

LEMMA SucceedKeeps ==
    ASSUME RetryInv, NEW by, Call(by), Succeed(by)
    PROVE  RetryInv'
<1>1. CASE IsCurrent(by)
  <2>1. by.key \in Keys
    BY <1>1 DEF Call, Attempts
  <2> QED
    BY <1>1, <2>1, ForgetKeeps DEF Succeed
<1>2. CASE ~IsCurrent(by)
  BY <1>2 DEF Succeed, retries, RetryInv, Call
<1> QED
  BY <1>1, <1>2

-----------------------------------------------------------------------------
(* The invariant. *)

LEMMA InitInv == Init => IInv
<1> SUFFICES ASSUME Init PROVE IInv
  OBVIOUS
<1>1. NetInv
  BY DEF Init, NetInv
<1>2. StoreInv
  BY DEF Init, StoreInv
<1>3. RetryInv
  BY DEF Init, RetryInv, NoEntry
<1> QED
  BY <1>1, <1>2, <1>3 DEF IInv

\* The requests of a slot as the server serves it.
LEMMA ServeInv ==
    ASSUME IInv, NEW s \in Slots, Serve(s)
    PROVE  IInv'
<1>1. CASE Answer(s)
  BY <1>1, AnswerKeeps DEF IInv, Answer, StoreInv, RetryInv, store, retries, Call
<1>2. ASSUME NEW op \in {"jump", "handover"}, NEW phase \in Phases, Is(s, op, phase)
      PROVE  Request(net[s]) /\ net[s].op = op /\ net[s] # None
  BY <1>2 DEF Is, IInv, NetInv
<1>3. CASE ServeJump(s)
  <2>1. net[s].item \in Items /\ net[s] # None
    BY <1>2, <1>3 DEF ServeJump, Request, Phases
  <2>2. NetInv'
    BY <1>3, <2>1, PhaseKeeps DEF ServeJump, IInv, Phases
  <2> QED
    BY <1>3, <2>1, <2>2 DEF ServeJump, IInv, StoreInv, RetryInv, store, retries, Call
<1>4. CASE ServeClick(s)
  <2>1. net[s].item \in Items /\ net[s] # None
    BY <1>2, <1>4 DEF ServeClick, Request, Phases
  <2>2. NetInv'
    BY <1>4, <2>1, PhaseKeeps DEF ServeClick, IInv, Phases
  <2> QED
    BY <1>4, <2>1, <2>2 DEF ServeClick, IInv, StoreInv, RetryInv, store, retries, Call
<1>5. CASE ServeHandover(s)
  <2>1. net[s].item \in Items /\ net[s] # None /\ net[s].id \in 1..MaxHandovers
    BY <1>2, <1>5, ConstantsAssumption DEF ServeHandover, Request, Requests, Phases
  <2>2. NetInv'
    BY <1>5, <2>1, PhaseKeeps DEF ServeHandover, IInv, Phases
  <2> QED
    BY <1>5, <2>1, <2>2
    DEF ServeHandover, PointerAfter, IInv, StoreInv, RetryInv, store, retries, Call
<1> QED
  BY <1>1, <1>3, <1>4, <1>5 DEF Serve

\* What the page does with a reply, or without one.
LEMMA ReceiveInv ==
    ASSUME IInv, NEW s \in Slots, Receive(s) \/ Drop(s)
    PROVE  IInv'
<1>1. ASSUME net[s] # None
      PROVE  Request(net[s])
  BY <1>1 DEF IInv, NetInv
<1>2. CASE JumpAnswered(s)
  <2>1. Request(net[s]) /\ net[s].reply \in Items
    BY <1>1, <1>2 DEF JumpAnswered, Is, Request
  <2>2. NetInv' /\ RetryInv'
    BY <1>2, <2>1, FinishKeeps, SucceedKeeps DEF JumpAnswered, Is, IInv, Request
  <2> QED
    BY <1>2, <2>1, <2>2 DEF JumpAnswered, IInv, StoreInv, Shown
<1>3. CASE RefreshAnswered(s)
  <2>1. Request(net[s]) /\ net[s].reply \in Items
    BY <1>1, <1>3 DEF RefreshAnswered, Is, Request
  <2>2. NetInv' /\ RetryInv'
    BY <1>3, <2>1, FinishKeeps, SucceedKeeps DEF RefreshAnswered, Is, IInv, Request
  <2> QED
    BY <1>3, <2>1, <2>2 DEF RefreshAnswered, IInv, StoreInv, Shown
<1>4. CASE HandoverAnswered(s)
  <2>1. net[s] # None /\ net[s].reply \in Items
    BY <1>1, <1>4 DEF HandoverAnswered, Is, Request
  <2>2. NetInv'
    BY <1>4, <2>1, PhaseKeeps DEF HandoverAnswered, IInv, Phases
  <2> QED
    BY <1>4, <2>1, <2>2 DEF HandoverAnswered, IInv, StoreInv, RetryInv, Shown, retries, Call
<1>5. CASE Confirmed(s)
  BY <1>5, FinishKeeps DEF Confirmed, IInv, StoreInv, RetryInv, retries, Call
<1>6. CASE Fail(s)
  BY <1>6, FailKeeps DEF Fail, IInv, StoreInv, store
<1>7. CASE Drop(s)
  <2>1. NetInv'
    BY <1>7, PhaseKeeps DEF Drop, IInv, Phases
  <2> QED
    BY <1>7, <2>1 DEF Drop, IInv, StoreInv, RetryInv, store, retries, Call
<1> QED
  BY <1>2, <1>3, <1>4, <1>5, <1>6, <1>7 DEF Receive

LEMMA NextInv == IInv /\ [Next]_vars => IInv'
<1> SUFFICES ASSUME IInv, [Next]_vars PROVE IInv'
  OBVIOUS
<1>1. ASSUME NEW i \in Items, Jump(i) PROVE IInv'
  BY <1>1 DEF Jump, IInv, NetInv, StoreInv, RetryInv, retries, Call, Request
<1>2. ASSUME NEW i \in Items, BeginHandover(i) PROVE IInv'
  <2>1. RetryInv'
    <3>1. CASE jump # None
      BY <1>2, <3>1, ForgetKeeps DEF BeginHandover, IInv, Keys
    <3>2. CASE jump = None
      BY <1>2, <3>2 DEF BeginHandover, IInv, RetryInv, retries, Call
    <3> QED
      BY <3>1, <3>2
  <2>2. [item |-> i, id |-> begun + 1] \in Handovers
    BY <1>2, ConstantsAssumption DEF BeginHandover, IInv, StoreInv, Handovers
  <2> QED
    BY <1>2, <2>1, <2>2 DEF BeginHandover, IInv, NetInv, StoreInv, Request, Call
<1>3. ASSUME SyncJump PROVE IInv'
  <2>1. Head(starting) \in Items /\ Tail(starting) \in Seq(Items)
    BY <1>3 DEF SyncJump, IInv, StoreInv
  <2>2. RetryInv' /\ NetInv'
    BY <1>3, <2>1, ScheduleKeeps DEF SyncJump, IInv, Keys
  <2> QED
    BY <1>3, <2>1, <2>2 DEF SyncJump, IInv, StoreInv
<1>4. ASSUME Refresh PROVE IInv'
  <2>1. RetryInv' /\ NetInv'
    BY <1>4, ScheduleKeeps DEF Refresh, IInv, Keys
  <2> QED
    BY <1>4, <2>1 DEF Refresh, IInv, StoreInv, store
<1>5. ASSUME Reconcile PROVE IInv'
  <2>1. handover.item \in Items /\ handover.id \in 0..MaxHandovers /\ handover.id # 0
    BY <1>5, ConstantsAssumption DEF Reconcile, IInv, StoreInv, Handovers
  <2>2. NetInv'
    BY <1>5, <2>1, SendKeeps DEF Reconcile, IInv
  <2> QED
    BY <1>5, <2>2 DEF Reconcile, IInv, StoreInv, RetryInv, store, retries, Call
<1>6. ASSUME NEW h \in preparing, DeckPlays(h) PROVE IInv'
  <2>1. h \in Handovers /\ h.item \in Items /\ h.id \in 0..MaxHandovers /\ h.id # 0
    BY <1>6, ConstantsAssumption DEF IInv, StoreInv, Handovers
  <2>2. NetInv'
    BY <1>6, <2>1, SendKeeps DEF DeckPlays, IInv
  <2> QED
    BY <1>6, <2>1, <2>2 DEF DeckPlays, IInv, StoreInv, RetryInv, retries, Call
<1>7. ASSUME NEW h \in preparing, DeckFails(h) PROVE IInv'
  BY <1>7 DEF DeckFails, IInv, NetInv, StoreInv, RetryInv, retries, Call, Request
<1>8. ASSUME NEW t \in live, Tick(t) PROVE IInv'
  <2>1. Call(t.by) /\ t.by \in Attempts /\ t.by.key \in Keys /\ t.by.item \in Items \cup {None}
    BY <1>8 DEF IInv, RetryInv, Call, Attempts
  <2>2. t.by.key # "handover" /\ (t.by.key # "refresh" => t.by.item \in Items)
    BY <2>1 DEF Call, Keys
  <2>3. NetInv'
    BY <1>8, <2>1, <2>2, SendKeeps, ConstantsAssumption DEF Tick, IInv
  <2> QED
    BY <1>8, <2>3 DEF Tick, IInv, StoreInv, RetryInv, store, retries, Call
<1>9. CASE UNCHANGED vars
  BY <1>9 DEF vars, store, retries, IInv, NetInv, StoreInv, RetryInv, Call, Request
<1> QED
  BY <1>1, <1>2, <1>3, <1>4, <1>5, <1>6, <1>7, <1>8, <1>9, ServeInv, ReceiveInv DEF Next

THEOREM Invariance == Spec => []IInv
BY InitInv, NextInv, PTL DEF Spec

-----------------------------------------------------------------------------
(* The properties. *)

\* Every variable stays in its type.
THEOREM TypeCorrectness == Spec => []TypeOK
<1>1. IInv => TypeOK
  <2> SUFFICES ASSUME IInv PROVE TypeOK
    OBVIOUS
  <2>1. \A s \in Slots : net[s] # None => Request(net[s])
    BY DEF IInv, NetInv
  <2>2. \A s \in Slots : net[s] # None =>
           /\ net[s].op \in Keys \cup {"handover"}
           /\ net[s].by \in Attempts \cup {NoAttempt}
           /\ net[s].phase = "answered" => net[s].reply \in Items
    BY <2>1 DEF Request, Requests
  <2>3. \A t \in live : t.timer \in Nat \ {0} /\ t.by \in Attempts
    BY DEF IInv, RetryInv
  <2> QED
    BY <2>2, <2>3 DEF TypeOK, IInv, StoreInv, RetryInv
<1> QED
  BY <1>1, Invariance, PTL

\* Every interval can be stopped by the next call under its key, or cancelled.
THEOREM TimersCanBeStopped == Spec => []TimersAreRegistered
<1>1. IInv => TimersAreRegistered
  BY DEF IInv, RetryInv, TimersAreRegistered
<1> QED
  BY <1>1, Invariance, PTL

\* An envelope does not turn the page away from a jump that is not acknowledged.
THEOREM PagePinned == Spec => PageIsPinned
<1> DEFINE Pinned ==
      (jump # None /\ jump' = jump /\ current' # current) =>
          current' = jump \/ \E h \in preparing : handover' = h /\ current' = h.item
<1>1. [Next]_vars => Pinned
  <2> SUFFICES ASSUME [Next]_vars, jump # None, jump' = jump, current' # current
               PROVE  current' = jump \/ \E h \in preparing : handover' = h /\ current' = h.item
    OBVIOUS
  <2>1. ASSUME NEW i \in Items, Jump(i) \/ BeginHandover(i) PROVE current' = jump
    BY <2>1 DEF Jump, BeginHandover
  <2>2. CASE SyncJump \/ Refresh \/ Reconcile
    BY <2>2 DEF SyncJump, Refresh, Reconcile, store
  <2>3. ASSUME NEW h \in preparing, DeckPlays(h) \/ DeckFails(h)
        PROVE  handover' = h /\ current' = h.item
    BY <2>3 DEF DeckPlays, DeckFails
  <2>4. ASSUME NEW t \in live, Tick(t) PROVE FALSE
    BY <2>4 DEF Tick, store
  <2>5. ASSUME NEW s \in Slots, Serve(s) \/ Drop(s) PROVE FALSE
    BY <2>5 DEF Serve, Drop, Answer, ServeJump, ServeClick, ServeHandover, store
  <2>6. ASSUME NEW s \in Slots, Receive(s) PROVE current' = jump
    BY <2>6 DEF Receive, JumpAnswered, RefreshAnswered, HandoverAnswered, Confirmed, Fail, Shown, store
  <2>7. CASE UNCHANGED vars
    BY <2>7 DEF vars, store
  <2> QED
    BY <2>1, <2>2, <2>3, <2>4, <2>5, <2>6, <2>7 DEF Next
<1> QED
  BY <1>1, PTL DEF Spec, PageIsPinned

\* A handover that the server knows is answered without moving its pointer.
THEOREM HandoverMovesPointerOnce == Spec => HandoverMovesOnce
<1> DEFINE Once ==
      \A s \in Slots :
         (Is(s, "handover", "sent") /\ net[s].id \in done /\ ptr' # ptr) => net'[s] = net[s]
<1>1. IInv /\ [Next]_vars => Once
  <2> SUFFICES ASSUME IInv, [Next]_vars, ptr' # ptr,
                      NEW s \in Slots, Is(s, "handover", "sent"), net[s].id \in done
               PROVE  net'[s] = net[s]
    OBVIOUS
  <2>1. PICK r \in Slots : ServeJump(r) \/ ServeClick(r) \/ ServeHandover(r)
    BY DEF Next, vars, store, retries, Jump, BeginHandover, SyncJump, Refresh, Reconcile,
           DeckPlays, DeckFails, Tick, Drop, Serve, Answer, Receive, JumpAnswered,
           RefreshAnswered, HandoverAnswered, Confirmed, Fail
  <2>2. r # s
    BY <2>1 DEF ServeJump, ServeClick, ServeHandover, PointerAfter, Is
  <2> QED
    BY <2>1, <2>2 DEF ServeJump, ServeClick, ServeHandover, Phase, IInv, NetInv
<1> QED
  BY <1>1, Invariance, PTL DEF Spec, HandoverMovesOnce

=============================================================================
