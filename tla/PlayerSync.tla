----------------------------- MODULE PlayerSync -----------------------------
(***************************************************************************)
(* The queue pointer of the web player and the one of its playback         *)
(* session on the server (ui/src/store/playerStore.ts and                  *)
(* ui/src/lib/backgroundRetry.ts against app/api/playback.py).             *)
(*                                                                         *)
(* A jump changes the local pointer at once and tells the server later, in *)
(* a retry loop that a newer jump supersedes; a handover to a prepared     *)
(* deck changes it when the deck plays and is repeated with one client id  *)
(* until it is acknowledged; a refresh brings the server's pointer back.   *)
(* Requests may overtake each other, fail before they arrive or lose their *)
(* reply.                                                                  *)
(*                                                                         *)
(* JavaScript runs one callback at a time: a step is what runs between two *)
(* awaits.  The queue's items do not change here, and one session lasts;   *)
(* tracks, telemetry without effect on the pointer and audio are left out. *)
(***************************************************************************)
EXTENDS Naturals, Sequences, FiniteSets

CONSTANTS
    Items,         \* queue items of the session
    None,          \* null
    Slots,         \* bound: requests under way at a time
    MaxMoves,      \* bound: jumps and refreshes
    MaxHandovers   \* bound: handovers begun

ASSUME ConstantsAssumption ==
    /\ None \notin Items
    /\ Items # {}
    /\ MaxMoves \in Nat /\ MaxHandovers \in Nat

VARIABLES
    ptr,        \* playback_sessions.current_queue_item_id
    done,       \* client ids of handover_completed events
    current,    \* currentQueueItemId
    jump,       \* pendingQueueJump
    handover,   \* pendingHandover
    starting,   \* jumps whose playTrack is awaited, oldest first
    preparing,  \* handovers whose deck is awaited
    registry,   \* per key: generation (0 for no entry) and timer
    live,       \* intervals that are set
    net,        \* per slot: a request of the page
    moves,      \* jumps and refreshes so far
    begun       \* handovers begun so far

retries == <<registry, live>>
store == <<current, jump, handover, starting, preparing>>
vars == <<ptr, done, store, retries, net, moves, begun>>

Keys == {"jump", "refresh"}

Handovers == [item : Items, id : 1..MaxHandovers]

\* A call of scheduleBackgroundRetry: what its `attempt' closes over.
Attempts == [key : Keys, item : Items \cup {None}, generation : Nat]

NoAttempt == [key |-> None, item |-> None, generation |-> 0]

NoEntry == [generation |-> 0, timer |-> 0]

-----------------------------------------------------------------------------
(* Requests. *)

Free == {s \in Slots : net[s] = None}

\* The page sends a request; `by' is the attempt of a retry loop, if any.
Send(op, item, id, by) ==
    \E s \in Free :
        /\ \A r \in Free : s <= r
        /\ net' = [net EXCEPT ![s] =
               [op |-> op, item |-> item, id |-> id, by |-> by, phase |-> "sent", reply |-> None]]

Phase(s, phase) == net' = [net EXCEPT ![s].phase = phase]

Finish(s) == net' = [net EXCEPT ![s] = None]

Is(s, op, phase) == net[s] # None /\ net[s].op = op /\ net[s].phase = phase

\* The handler of each request ends by reading the session, as GET queue does.
Answer(s) ==
    /\ Is(s, "refresh", "sent") \/ Is(s, "jump", "clicked") \/ Is(s, "handover", "handed")
    /\ net' = [net EXCEPT ![s].phase = "answered", ![s].reply = ptr]
    /\ UNCHANGED <<ptr, done, store, retries, moves, begun>>

\* PATCH queue "jump": jump_to_queue_item is a transaction, ...
ServeJump(s) ==
    /\ Is(s, "jump", "sent")
    /\ ptr' = net[s].item
    /\ Phase(s, "moved")
    /\ UNCHANGED <<done, store, retries, moves, begun>>

\* ... and the queue_click event another, which moves the pointer once more.
ServeClick(s) ==
    /\ Is(s, "jump", "moved")
    /\ ptr' = net[s].item
    /\ Phase(s, "clicked")
    /\ UNCHANGED <<done, store, retries, moves, begun>>

\* Faulty: the command is obeyed each time it comes.
PointerAlwaysMoves(item, id) == item

\* Where handover_queue_item leaves the pointer: a client id that is known is
\* answered and does nothing.
PointerAfter(item, id) == IF id \in done THEN ptr ELSE item

\* PATCH queue "handover"
ServeHandover(s) ==
    /\ Is(s, "handover", "sent")
    /\ ptr' = PointerAfter(net[s].item, net[s].id)
    /\ done' = done \cup {net[s].id}
    /\ Phase(s, "handed")
    /\ UNCHANGED <<store, retries, moves, begun>>

\* The connection drops, before the server or on the way back.
Drop(s) ==
    /\ net[s] # None /\ net[s].phase \notin {"failed", "confirming"}
    /\ Phase(s, "failed")
    /\ UNCHANGED <<ptr, done, store, retries, moves, begun>>

-----------------------------------------------------------------------------
(* backgroundRetry.ts *)

IsCurrent(by) == registry[by.key].generation = by.generation

\* scheduleBackgroundRetry
Schedule(op, item) ==
    LET entry == registry[op]
    IN /\ live' = {t \in live : t.timer # entry.timer}
       /\ registry' = [registry EXCEPT ![op] =
              [generation |-> entry.generation + 1, timer |-> 0]]
       /\ Send(op, item, 0, [key |-> op, item |-> item, generation |-> entry.generation + 1])

\* cancelBackgroundRetry, and what a success does.
Forget(key) ==
    /\ live' = {t \in live : t.timer # registry[key].timer}
    /\ registry' = [registry EXCEPT ![key] = NoEntry]

\* The interval fires, whether or not the previous attempt has ended.
Tick(t) ==
    /\ Send(t.by.key, t.by.item, 0, t.by)
    /\ UNCHANGED <<ptr, done, store, retries, moves, begun>>

\* Faulty: each failure sets an interval.
SetsTimerAlways(by) == IsCurrent(by)

\* Faulty: a superseded attempt sets one too.
SetsTimerLate(by) == registry[by.key].timer = 0

\* When a failed attempt sets the interval.
SetsTimer(by) == IsCurrent(by) /\ registry[by.key].timer = 0

\* setInterval: a number that no other interval has.  Each key has one at most.
NewTimer == CHOOSE n \in 1..3 : \A t \in live : t.timer # n

\* A request has failed: a handover waits for the next reconciliation.
Fail(s) ==
    /\ net[s] # None /\ net[s].phase = "failed"
    /\ LET by == net[s].by
       IN IF by # NoAttempt /\ SetsTimer(by)
          THEN /\ live' = live \cup {[timer |-> NewTimer, by |-> by]}
               /\ registry' = [registry EXCEPT ![by.key].timer = NewTimer]
          ELSE UNCHANGED retries
    /\ Finish(s)
    /\ UNCHANGED <<ptr, done, store, moves, begun>>

\* The then-callback of an attempt that succeeded.
Succeed(by) == IF IsCurrent(by) THEN Forget(by.key) ELSE UNCHANGED retries

-----------------------------------------------------------------------------
(* playerStore.ts *)

\* Faulty: the envelope's pointer is taken as it comes.
ShownAsSent(item) == item

\* applyEnvelope: the pointer an envelope leaves, with a pending jump pinned.
Shown(item) == IF jump # None THEN jump ELSE item

\* jumpToQueueItem for an item that is known, before playTrack is awaited.  The
\* user clicks, skips, or the track ends.
Jump(i) ==
    /\ moves < MaxMoves
    /\ moves' = moves + 1
    /\ jump' = i
    /\ current' = i
    /\ starting' = Append(starting, i)
    /\ UNCHANGED <<ptr, done, handover, preparing, retries, net, begun>>

\* The rest of it, syncQueueJump.
SyncJump ==
    /\ starting # <<>>
    /\ Schedule("jump", Head(starting))
    /\ starting' = Tail(starting)
    /\ UNCHANGED <<ptr, done, current, jump, handover, preparing, moves, begun>>

\* The attempt of a jump is answered: only the latest jump is applied.
JumpAnswered(s) ==
    /\ Is(s, "jump", "answered")
    /\ IF jump = net[s].item
       THEN current' = Shown(net[s].reply) /\ jump' = None
       ELSE UNCHANGED <<current, jump>>
    /\ Succeed(net[s].by)
    /\ Finish(s)
    /\ UNCHANGED <<ptr, done, handover, starting, preparing, moves, begun>>

\* refreshQueue, without a handover to reconcile.
Refresh ==
    /\ handover = None
    /\ moves < MaxMoves
    /\ moves' = moves + 1
    /\ Schedule("refresh", None)
    /\ UNCHANGED <<ptr, done, store, begun>>

RefreshAnswered(s) ==
    /\ Is(s, "refresh", "answered")
    /\ current' = Shown(net[s].reply)
    /\ Succeed(net[s].by)
    /\ Finish(s)
    /\ UNCHANGED <<ptr, done, jump, handover, starting, preparing, moves, begun>>

\* skipNext with a prepared deck: handoverToPrepared up to its first await.  The
\* pending jump is abandoned and its retry cancelled.
BeginHandover(i) ==
    /\ handover = None
    /\ i # current
    /\ begun < MaxHandovers
    /\ begun' = begun + 1
    /\ preparing' = preparing \cup {[item |-> i, id |-> begun + 1]}
    /\ IF jump # None THEN Forget("jump") ELSE UNCHANGED retries
    /\ jump' = None
    /\ UNCHANGED <<ptr, done, current, handover, starting, net, moves>>

\* The deck plays: the pointer moves, and the server is told.
DeckPlays(h) ==
    /\ current' = h.item
    /\ handover' = h
    /\ preparing' = preparing \ {h}
    /\ Send("handover", h.item, h.id, NoAttempt)
    /\ UNCHANGED <<ptr, done, jump, starting, retries, moves, begun>>

DeckFails(h) ==
    /\ preparing' = preparing \ {h}
    /\ UNCHANGED <<ptr, done, current, jump, handover, starting, retries, net, moves, begun>>

\* skipNext or refreshQueue while a handover is pending.
Reconcile ==
    /\ handover # None
    /\ Send("handover", handover.item, handover.id, NoAttempt)
    /\ UNCHANGED <<ptr, done, store, retries, moves, begun>>

\* reconcilePendingHandover up to confirmHandover, ...
HandoverAnswered(s) ==
    /\ Is(s, "handover", "answered")
    /\ current' = Shown(net[s].reply)
    /\ Phase(s, "confirming")
    /\ UNCHANGED <<ptr, done, jump, handover, starting, preparing, retries, moves, begun>>

\* ... and after it, whichever handover is pending by then.  When the engine
\* fails to retire the old deck, it stays pending and is told once more.
Confirmed(s) ==
    /\ Is(s, "handover", "confirming")
    /\ handover' = None \/ UNCHANGED handover
    /\ Finish(s)
    /\ UNCHANGED <<ptr, done, current, jump, starting, preparing, retries, moves, begun>>

-----------------------------------------------------------------------------

Init ==
    /\ ptr \in Items /\ current = ptr
    /\ done = {}
    /\ jump = None /\ handover = None
    /\ starting = <<>> /\ preparing = {}
    /\ registry = [k \in Keys |-> NoEntry]
    /\ live = {}
    /\ net = [s \in Slots |-> None]
    /\ moves = 0 /\ begun = 0

Serve(s) == Answer(s) \/ ServeJump(s) \/ ServeClick(s) \/ ServeHandover(s)

Receive(s) ==
    JumpAnswered(s) \/ RefreshAnswered(s) \/ HandoverAnswered(s) \/ Confirmed(s) \/ Fail(s)

Next ==
    \/ \E i \in Items : Jump(i) \/ BeginHandover(i)
    \/ SyncJump \/ Refresh \/ Reconcile
    \/ \E h \in preparing : DeckPlays(h) \/ DeckFails(h)
    \/ \E t \in live : Tick(t)
    \/ \E s \in Slots : Serve(s) \/ Receive(s) \/ Drop(s)

Spec == Init /\ [][Next]_vars

-----------------------------------------------------------------------------
(* Properties. *)

\* TYPE: the server's pointer is always an item; a retry loop has a timer only
\* under a generation.
TypeOK ==
    /\ ptr \in Items /\ current \in Items
    /\ done \subseteq 1..MaxHandovers
    /\ jump \in Items \cup {None}
    /\ handover \in Handovers \cup {None} /\ preparing \subseteq Handovers
    /\ starting \in Seq(Items)
    /\ \A k \in Keys :
           /\ registry[k].generation \in Nat
           /\ registry[k].generation = 0 => registry[k].timer = 0
    /\ \A t \in live : t.timer \in Nat \ {0} /\ t.by \in Attempts
    /\ \A s \in Slots : net[s] # None =>
           /\ net[s].op \in Keys \cup {"handover"}
           /\ net[s].by \in Attempts \cup {NoAttempt}
           /\ net[s].phase = "answered" => net[s].reply \in Items

\* Every interval that is set is the one its key's entry names, so that a newer
\* call or a cancellation can still stop it: none runs on for ever
\* (scheduleBackgroundRetry, cancelBackgroundRetry).
TimersAreRegistered == \A t \in live : registry[t.by.key].timer = t.timer

\* While a jump is unacknowledged, what the page shows is turned back to the jump
\* or on to a deck that begins to play, and never to another item that an envelope
\* names (applyEnvelope).
PageIsPinned ==
    [][(jump # None /\ jump' = jump /\ current' # current) =>
           current' = jump \/ \E h \in preparing : handover' = h /\ current' = h.item]_vars

\* A handover that is repeated until its reply arrives moves the server's pointer
\* at most once: a repetition does not take back a move made since
\* (handover_queue_item, reconcilePendingHandover).
HandoverMovesOnce ==
    [][\A s \in Slots :
          (Is(s, "handover", "sent") /\ net[s].id \in done /\ ptr' # ptr) =>
              net'[s] = net[s]]_vars

=============================================================================
