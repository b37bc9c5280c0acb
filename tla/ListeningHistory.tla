-------------------------- MODULE ListeningHistory --------------------------
(***************************************************************************)
(* What one user has listened to: the log of playback events, the table of *)
(* listens derived from it, the play counts and what Navidrome is told     *)
(* (app/store/playback.py, app/store/listens.py, app/store/_helpers.py,    *)
(* app/serializers/playback.py, app/navidrome_sync.py, app/store/mixes.py).*)
(*                                                                         *)
(* A request is one call in a thread of the server.  A statement that only *)
(* reads runs outside the transaction that its method opens with its first *)
(* write, so what it has read may be old by then.  Pages send a report     *)
(* again when they have no answer; the server may stop at any point.       *)
(*                                                                         *)
(* An event's number is its rowid.  Scores, skips, likes and the rows of   *)
(* releases and artists are left out: they move with the track's counts or *)
(* not with the log at all.                                                *)
(***************************************************************************)
EXTENDS Integers, Sequences, FiniteSets

CONSTANTS
    Tracks,
    Reports,     \* what pages report: [type, session, item, track, real, client]
    None,        \* no session, queue item, track or client id; a free thread
    Threads,
    MaxEvents,   \* bound: events in the log
    MaxOthers    \* bound: plays of a track with other Navidrome clients

Types == {"play_threshold_reached", "completed", "skipped"}

ASSUME ReportsAssumption ==
    /\ None \notin Tracks
    /\ \A r \in Reports : r.type \in Types /\ r.track \in Tracks \cup {None}

ASSUME BoundsAssumption == MaxEvents \in Nat /\ MaxOthers \in Nat

\* The thread pool of the server has a limit.
ASSUME ThreadsAssumption == IsFiniteSet(Threads)

VARIABLES
    up,        \* the server runs and its schema is initialised
    clock,     \* before or after COMPLETED_LISTEN_UNTIL
    events,    \* playback_events, by rowid
    listens,   \* event_id of the rows of listens
    plays,     \* user_track_preferences.play_count
    navidrome, \* Navidrome's play count of the track
    others,    \* of these, plays of other clients
    calls      \* per thread: the request it serves

vars == <<up, clock, events, listens, plays, navidrome, others, calls>>

Eras == {"before", "after"}

Events == {[report |-> r, at |-> c] : r \in Reports, c \in Eras}

-----------------------------------------------------------------------------
(* _helpers.py *)

ListenTypes == {"play_threshold_reached", "completed"}

\* Whether an earlier event is of the same play.
SamePlay(e, prior) ==
    IF e.item # None THEN prior.item = e.item ELSE prior.track = e.track

\* playback_event_is_listen: `priors' are events of the same session.
IsListen(event, priors) ==
    LET e == event.report
    IN /\ e.track # None
       /\ \/ e.type = "play_threshold_reached"
          \/ /\ e.type = "completed" /\ event.at = "before" /\ e.real
             /\ \/ e.session = None
                \/ \A p \in priors : p.report.type \notin ListenTypes \/ ~SamePlay(e, p.report)

-----------------------------------------------------------------------------
(* listens.py *)

OfSession(log, numbers, session) ==
    {log[m] : m \in {k \in numbers : log[k].report.session = session}}

\* Faulty: the new event is among its own priors.
EarlierAndItself(log) == DOMAIN log

\* _prior_session_events: the rows of the session other than the new event's.
OtherRows(log) == DOMAIN log \ {Len(log)}

\* record_listen_for_event, on the log that ends with the event
IsNewListen(log) ==
    LET event == log[Len(log)]
    IN IsListen(event, OfSession(log, OtherRows(log), event.report.session))

\* backfill_listens_from_events: what a replay of the log derives
Backfilled(log) ==
    {n \in DOMAIN log :
        IsListen(log[n], OfSession(log, 1..(n - 1), log[n].report.session))}

-----------------------------------------------------------------------------
(* Playback events. *)

\* The track's events that count as a play.
ThresholdsOf(log, t) ==
    {n \in DOMAIN log : log[n].report.type = "play_threshold_reached" /\ log[n].report.track = t}

Free(c) == calls[c] = None

Serves(c, op) == calls[c] # None /\ calls[c].op = op

Done(c) == calls' = [calls EXCEPT ![c] = None]

Known(client) == client # None /\ \E n \in DOMAIN events : events[n].report.client = client

\* A page reports an event, for the first time or again.
Report(c, r) ==
    /\ up /\ Free(c)
    /\ Len(events) < MaxEvents
    /\ calls' = [calls EXCEPT ![c] = [op |-> "check", event |-> [report |-> r, at |-> clock]]]
    /\ UNCHANGED <<up, clock, events, listens, plays, navidrome, others>>

\* Faulty: a duplicate that its thread finds is submitted again.
AnswerOfEachReport(event) ==
    IF event.report.type = "play_threshold_reached"
    THEN [op |-> "scrobble", track |-> event.report.track]
    ELSE None

\* record_playback_event for a client id that is known: nothing is submitted.
AnswerOfDuplicate(event) == None

\* The look for a duplicate, before the transaction.
Check(c) ==
    /\ Serves(c, "check")
    /\ calls' = [calls EXCEPT ![c] =
           IF Known(@.event.report.client) THEN AnswerOfDuplicate(@.event)
           ELSE [@ EXCEPT !.op = "record"]]
    /\ UNCHANGED <<up, clock, events, listens, plays, navidrome, others>>

\* Faulty: the second of two equal reports is recorded too.
AlwaysInserted(client) == TRUE

\* The unique index on the user's client ids.
Inserted(client) == ~Known(client)

\* Faulty: a finished track counts as well.
PlayedBy(event, t) ==
    event.report.track = t /\ event.report.type \in ListenTypes

\* _apply_track_preference_event: when play_count grows.
CountsFor(event, t) ==
    event.report.track = t /\ event.report.type = "play_threshold_reached"

\* Faulty: the listen is stored whether or not the event is.
RecordByParts(c) ==
    /\ Serves(c, "record")
    /\ LET log == Append(events, calls[c].event)
       IN /\ events' = IF Inserted(calls[c].event.report.client) THEN log ELSE events
          /\ listens' = IF IsNewListen(log) THEN listens \cup {Len(log)} ELSE listens
    /\ Done(c)
    /\ UNCHANGED <<up, clock, plays, navidrome, others>>

\* The transaction: the event, its listen and the counts.  A constraint that
\* fails leaves nothing behind.
Record(c) ==
    /\ Serves(c, "record")
    /\ LET event == calls[c].event
           log == Append(events, event)
       IN IF Inserted(event.report.client)
          THEN /\ Len(events) < MaxEvents
               /\ events' = log
               /\ listens' = IF IsNewListen(log) THEN listens \cup {Len(log)} ELSE listens
               /\ plays' = [t \in Tracks |-> IF CountsFor(event, t) THEN plays[t] + 1 ELSE plays[t]]
               /\ calls' = [calls EXCEPT ![c] =
                      IF IsNewListen(log) THEN [op |-> "scrobble", track |-> event.report.track]
                      ELSE None]
          ELSE /\ Done(c)
               /\ UNCHANGED <<events, listens, plays>>
    /\ UNCHANGED <<up, clock, navidrome, others>>

\* maybe_scrobble_navidrome_play, once; a failure is logged and forgotten.
Scrobble(c) ==
    /\ Serves(c, "scrobble")
    /\ navidrome' = [navidrome EXCEPT ![calls[c].track] = @ + 1]
    /\ Done(c)
    /\ UNCHANGED <<up, clock, events, listens, plays, others>>

ScrobbleFails(c) ==
    /\ Serves(c, "scrobble")
    /\ Done(c)
    /\ UNCHANGED <<up, clock, events, listens, plays, navidrome, others>>

-----------------------------------------------------------------------------
(* Play counts from Navidrome, and the two rebuilds. *)

\* The user plays the track with another client.
PlayElsewhere(t) ==
    /\ \A u \in Tracks : others[u] < MaxOthers
    /\ others' = [others EXCEPT ![t] = @ + 1]
    /\ navidrome' = [navidrome EXCEPT ![t] = @ + 1]
    /\ UNCHANGED <<up, clock, events, listens, plays, calls>>

\* refresh_navidrome_play_state has a song from Navidrome, ...
FetchSong(c, t) ==
    /\ up /\ Free(c)
    /\ calls' = [calls EXCEPT ![c] = [op |-> "import", track |-> t, count |-> navidrome[t]]]
    /\ UNCHANGED <<up, clock, events, listens, plays, navidrome, others>>

\* Faulty: what Navidrome counts is added.
Summed(count, imported) == count + imported

\* The play_count that import_external_track_play_state leaves.
Imported(count, imported) == IF count < imported THEN imported ELSE count

\* ... and writes its count.
ImportPlays(c) ==
    /\ Serves(c, "import")
    /\ plays' = [plays EXCEPT ![calls[c].track] = Imported(@, calls[c].count)]
    /\ Done(c)
    /\ UNCHANGED <<up, clock, events, listens, navidrome, others>>

\* recompute_user_preferences: the replay of the log replaces the counts.
RecomputePreferences ==
    /\ up
    /\ plays' = [t \in Tracks |-> Cardinality(ThresholdsOf(events, t))]
    /\ UNCHANGED <<up, clock, events, listens, navidrome, others, calls>>

\* backfill_listens reads the log, ...
ReadLog(c) ==
    /\ up /\ Free(c)
    /\ calls' = [calls EXCEPT ![c] = [op |-> "backfill", listens |-> Backfilled(events)]]
    /\ UNCHANGED <<up, clock, events, listens, plays, navidrome, others>>

\* ... and inserts what is missing.
Backfill(c) ==
    /\ Serves(c, "backfill")
    /\ listens' = listens \cup calls[c].listens
    /\ Done(c)
    /\ UNCHANGED <<up, clock, events, plays, navidrome, others>>

-----------------------------------------------------------------------------
(* The server and the date. *)

Crash ==
    /\ up
    /\ up' = FALSE
    /\ calls' = [c \in Threads |-> None]
    /\ UNCHANGED <<clock, events, listens, plays, navidrome, others>>

\* Faulty: the table is only created.
StartsWith(current, log) == current

\* _backfill_listens: an empty table is derived.
ListensAtStart(current, log) == IF current = {} THEN Backfilled(log) ELSE current

Start ==
    /\ ~up
    /\ up' = TRUE
    /\ listens' = ListensAtStart(listens, events)
    /\ UNCHANGED <<clock, events, plays, navidrome, others, calls>>

\* COMPLETED_LISTEN_UNTIL passes.
DatePasses ==
    /\ clock = "before"
    /\ clock' = "after"
    /\ UNCHANGED <<up, events, listens, plays, navidrome, others, calls>>

\* A log from before the table of listens; Navidrome has been told of its plays.
Init ==
    /\ up = FALSE
    /\ clock = "before"
    /\ events \in {<<>>} \cup {<<e>> : e \in {f \in Events : f.at = "before"}}
    /\ listens = {}
    /\ plays = [t \in Tracks |-> Cardinality(ThresholdsOf(events, t))]
    /\ navidrome = [t \in Tracks |->
           Cardinality({n \in Backfilled(events) : events[n].report.track = t})]
    /\ others = [t \in Tracks |-> 0]
    /\ calls = [c \in Threads |-> None]

Call(c) ==
    \/ Check(c) \/ Record(c) \/ Scrobble(c) \/ ScrobbleFails(c)
    \/ ImportPlays(c) \/ Backfill(c)

Next ==
    \/ \E c \in Threads :
          \/ \E r \in Reports : Report(c, r)
          \/ \E t \in Tracks : FetchSong(c, t)
          \/ ReadLog(c) \/ Call(c)
    \/ \E t \in Tracks : PlayElsewhere(t)
    \/ RecomputePreferences
    \/ Crash \/ Start \/ DatePasses

Spec == Init /\ [][Next]_vars

-----------------------------------------------------------------------------
(* Properties. *)

Jobs ==
    [op : {"check", "record"}, event : Events]
        \cup [op : {"scrobble"}, track : Tracks]
        \cup [op : {"import"}, track : Tracks, count : Nat]
        \cup [op : {"backfill"}, listens : SUBSET (Nat \ {0})]

\* TYPE: the log is a sequence of events, a listen is one of its numbers, counts
\* are natural and no thread works while the server is down.
TypeOK ==
    /\ up \in BOOLEAN
    /\ clock \in Eras
    /\ events \in Seq(Events)
    /\ listens \subseteq DOMAIN events
    /\ plays \in [Tracks -> Nat]
    /\ navidrome \in [Tracks -> Nat] /\ others \in [Tracks -> Nat]
    /\ calls \in [Threads -> Jobs \cup {None}]
    /\ ~up => \A c \in Threads : calls[c] = None

\* What was decided event by event, amid retries, crashes and rebuilds, is what a
\* replay of the whole log derives (record_listen_for_event,
\* backfill_listens_from_events; "exactly the history the live decision saw").
ListensAreDerived == up => listens = Backfilled(events)

\* A report that is sent again, even while the first is still being served, is one
\* event (record_playback_event).
OneEventPerReport ==
    \A m, n \in DOMAIN events :
        (events[m].report.client = events[n].report.client /\ events[m].report.client # None)
            => m = n

ListensOf(t) == {n \in listens : events[n].report.track = t}

\* Navidrome counts a listen at most once: what a retry, a crash or a failed call
\* leaves is at worst missing there (maybe_scrobble_navidrome_play).
NavidromeCountsOnce ==
    up => \A t \in Tracks : navidrome[t] <= Cardinality(ListensOf(t)) + others[t]

\* A track's play count has every threshold of the log, and no play that is
\* neither a listen nor another client's: counts that go to Navidrome and come
\* back are not counted twice (import_external_track_play_state,
\* recompute_user_preferences).
PlaysAreReal ==
    up => \A t \in Tracks :
              /\ Cardinality(ThresholdsOf(events, t)) <= plays[t]
              /\ plays[t] <= Cardinality(ListensOf(t)) + others[t]

=============================================================================
