----------------------- MODULE ListeningHistoryProofs -----------------------
(***************************************************************************)
(* What holds of ListeningHistory for any tracks, reports and threads: a   *)
(* report is one event however often it is sent, the table of listens is   *)
(* what a replay of the log derives, and no play is counted twice, here or *)
(* by Navidrome.                                                           *)
(***************************************************************************)
EXTENDS ListeningHistory, FiniteSetTheorems, TLAPS

LogInv == events \in Seq(Events)

\* Only a table that was never filled is empty against the log, and what a
\* rebuild has read is in the table already, or its server is gone.
DerivedInv ==
    /\ listens = Backfilled(events) \/ (~up /\ listens = {})
    /\ \A c \in Threads :
          (calls[c] # None /\ calls[c].op = "backfill") => calls[c].listens \subseteq Backfilled(events)

CallsInv ==
    /\ up \in BOOLEAN /\ clock \in Eras
    /\ plays \in [Tracks -> Nat] /\ navidrome \in [Tracks -> Nat] /\ others \in [Tracks -> Nat]
    /\ calls \in [Threads -> Jobs \cup {None}]
    /\ ~up => \A c \in Threads : calls[c] = None

\* The listens of a track by a replay, and the threads about to submit one.
DerivedOf(t) == {n \in Backfilled(events) : events[n].report.track = t}

Owed(t) == {c \in Threads : Serves(c, "scrobble") /\ calls[c].track = t}

\* A listen is with Navidrome, with a thread, or lost.
NavidromeInv ==
    \A t \in Tracks :
        navidrome[t] + Cardinality(Owed(t)) <= Cardinality(DerivedOf(t)) + others[t]

\* Counts that a thread has read never exceed what there is by now.
PlaysInv ==
    /\ \A t \in Tracks :
          /\ Cardinality(ThresholdsOf(events, t)) <= plays[t]
          /\ plays[t] <= Cardinality(DerivedOf(t)) + others[t]
    /\ \A c \in Threads : Serves(c, "import") =>
          calls[c].count <= Cardinality(DerivedOf(calls[c].track)) + others[calls[c].track]

CountInv == NavidromeInv /\ PlaysInv

IInv == LogInv /\ CallsInv /\ DerivedInv /\ OneEventPerReport /\ CountInv

-----------------------------------------------------------------------------
(* The log. *)

\* An event that is appended changes what earlier rows were: nothing.  Whether
\* it is a listen is decided live as a replay decides it.
LEMMA BackfilledOfAppend ==
    ASSUME NEW log \in Seq(Events), NEW e \in Events
    PROVE  LET longer == Append(log, e)
           IN /\ longer \in Seq(Events)
              /\ Backfilled(longer) =
                    Backfilled(log) \cup (IF IsNewListen(longer) THEN {Len(longer)} ELSE {})
<1> DEFINE longer == Append(log, e)
           N == Len(log)
<1>1. /\ longer \in Seq(Events) /\ Len(longer) = N + 1 /\ N \in Nat
      /\ DOMAIN log = 1..N /\ DOMAIN longer = 1..(N + 1)
      /\ \A n \in 1..N : longer[n] = log[n]
  OBVIOUS
<1> HIDE DEF longer, N
<1>2. ASSUME NEW n \in 1..N
      PROVE  n \in Backfilled(longer) <=> n \in Backfilled(log)
  <2>1. \A m \in 1..(n - 1) : longer[m] = log[m]
    BY <1>1
  <2>2. longer[n] = log[n]
    BY <1>1
  <2>3. OfSession(longer, 1..(n - 1), longer[n].report.session)
           = OfSession(log, 1..(n - 1), log[n].report.session)
    BY <2>1, <2>2 DEF OfSession
  <2>4. n \in DOMAIN longer /\ n \in DOMAIN log
    BY <1>1
  <2> QED
    BY <2>2, <2>3, <2>4 DEF Backfilled
<1>3. N + 1 \in Backfilled(longer) <=> IsNewListen(longer)
  <2>1. OtherRows(longer) = 1..((N + 1) - 1)
    BY <1>1 DEF OtherRows
  <2>2. N + 1 \in DOMAIN longer
    BY <1>1
  <2> QED
    BY <1>1, <2>1, <2>2 DEF Backfilled, IsNewListen
<1>4. Backfilled(longer) \subseteq 1..(N + 1) /\ Backfilled(log) \subseteq 1..N
  BY <1>1 DEF Backfilled
<1>5. Backfilled(longer) = Backfilled(log) \cup (IF IsNewListen(longer) THEN {N + 1} ELSE {})
  BY <1>1, <1>2, <1>3, <1>4
<1> QED
  BY <1>1, <1>5 DEF longer

\* A client id that is not known may be appended.
LEMMA UniqueOfAppend ==
    ASSUME LogInv, OneEventPerReport, NEW e \in Events, Inserted(e.report.client),
           events' = Append(events, e)
    PROVE  OneEventPerReport'
<1>1. /\ DOMAIN events = 1..Len(events) /\ Len(events) \in Nat
      /\ DOMAIN events' = 1..(Len(events) + 1)
      /\ \A n \in 1..Len(events) : events'[n] = events[n]
      /\ events'[Len(events) + 1] = e
  BY DEF LogInv
<1> QED
  BY <1>1 DEF OneEventPerReport, Inserted, Known

-----------------------------------------------------------------------------
(* Numbers. *)

LEMMA FiniteLog ==
    ASSUME NEW log \in Seq(Events)
    PROVE  /\ IsFiniteSet(DOMAIN log)
           /\ Backfilled(log) \subseteq DOMAIN log
           /\ \A S \in SUBSET DOMAIN log : IsFiniteSet(S) /\ Cardinality(S) \in Nat
<1>1. DOMAIN log = 1..Len(log) /\ Len(log) \in Nat
  OBVIOUS
<1>2. IsFiniteSet(DOMAIN log)
  BY <1>1, FS_Interval
<1> QED
  BY <1>2, FS_Subset, FS_CardinalityType DEF Backfilled

\* Every threshold is a listen.
LEMMA ThresholdsCount ==
    ASSUME LogInv, NEW t \in Tracks
    PROVE  /\ ThresholdsOf(events, t) \subseteq DerivedOf(t)
           /\ Cardinality(ThresholdsOf(events, t)) \in Nat
           /\ Cardinality(DerivedOf(t)) \in Nat
           /\ Cardinality(ThresholdsOf(events, t)) <= Cardinality(DerivedOf(t))
<1>1. ThresholdsOf(events, t) \subseteq DerivedOf(t)
  BY ReportsAssumption DEF ThresholdsOf, DerivedOf, Backfilled, IsListen
<1>2. DerivedOf(t) \subseteq DOMAIN events
  BY DEF DerivedOf, Backfilled
<1>3. IsFiniteSet(DerivedOf(t)) /\ Cardinality(DerivedOf(t)) \in Nat
  BY <1>2, FiniteLog DEF LogInv
<1>4. ThresholdsOf(events, t) \subseteq DOMAIN events
  BY DEF ThresholdsOf
<1>5. Cardinality(ThresholdsOf(events, t)) \in Nat
  BY <1>4, FiniteLog DEF LogInv
<1> QED
  BY <1>1, <1>3, <1>5, FS_Subset

LEMMA OwedFinite ==
    ASSUME NEW t
    PROVE  IsFiniteSet(Owed(t)) /\ Cardinality(Owed(t)) \in Nat
BY ThreadsAssumption, FS_Subset, FS_CardinalityType DEF Owed

\* A step that leaves the log and Navidrome alone, and starts no submission.
LEMMA CountsKept ==
    ASSUME IInv, UNCHANGED <<events, navidrome, others>>,
           \A t \in Tracks : Owed(t)' \subseteq Owed(t),
           \/ UNCHANGED plays
           \/ \A t \in Tracks :
                 /\ plays'[t] <= Cardinality(DerivedOf(t)) + others[t]
                 /\ Cardinality(ThresholdsOf(events, t)) <= plays'[t],
           \A c \in Threads : Serves(c, "import")' =>
              calls'[c].count <= Cardinality(DerivedOf(calls'[c].track)) + others[calls'[c].track]
    PROVE  CountInv'
<1>1. ASSUME NEW t \in Tracks
      PROVE  DerivedOf(t)' = DerivedOf(t) /\ ThresholdsOf(events, t)' = ThresholdsOf(events, t)
  BY DEF DerivedOf, ThresholdsOf
<1>2. NavidromeInv'
  <2> SUFFICES ASSUME NEW t \in Tracks
               PROVE  (navidrome[t] + Cardinality(Owed(t)) <= Cardinality(DerivedOf(t)) + others[t])'
    BY DEF NavidromeInv
  <2>1. Cardinality(Owed(t)') <= Cardinality(Owed(t)) /\ Cardinality(Owed(t)') \in Nat
    BY OwedFinite, FS_Subset, FS_CardinalityType
  <2>2. navidrome[t] \in Nat /\ others[t] \in Nat /\ Cardinality(DerivedOf(t)) \in Nat
        /\ Cardinality(Owed(t)) \in Nat
    BY ThresholdsCount, OwedFinite DEF IInv, CallsInv
  <2>3. navidrome[t] + Cardinality(Owed(t)) <= Cardinality(DerivedOf(t)) + others[t]
    BY DEF IInv, CountInv, NavidromeInv
  <2> QED
    BY <1>1, <2>1, <2>2, <2>3
<1>3. PlaysInv'
  <2>1. ASSUME NEW t \in Tracks
        PROVE  (Cardinality(ThresholdsOf(events, t)) <= plays[t]
                  /\ plays[t] <= Cardinality(DerivedOf(t)) + others[t])'
    BY <1>1 DEF IInv, CountInv, PlaysInv
  <2>2. ASSUME NEW c \in Threads, Serves(c, "import")'
        PROVE  (calls[c].count <= Cardinality(DerivedOf(calls[c].track)) + others[calls[c].track])'
    BY <2>2 DEF DerivedOf
  <2> QED
    BY <2>1, <2>2 DEF PlaysInv
<1> QED
  BY <1>2, <1>3 DEF CountInv

-----------------------------------------------------------------------------
(* The invariant. *)

LEMMA InitInv == Init => IInv
<1> SUFFICES ASSUME Init PROVE IInv
  OBVIOUS
<1>1. LogInv
  <2>1. CASE events = <<>>
    BY <2>1 DEF LogInv
  <2>2. CASE events # <<>>
    <3>1. PICK e \in Events : events = <<e>>
      BY <2>2 DEF Init
    <3> QED
      BY <3>1 DEF LogInv
  <2> QED
    BY <2>1, <2>2
<1>2. DerivedInv
  BY DEF Init, DerivedInv
<1>3. OneEventPerReport
  <2>1. \A m, n \in DOMAIN events : m = n
    <3>1. events = <<>> \/ \E e : events = <<e>>
      BY DEF Init
    <3> QED
      BY <3>1
  <2> QED
    BY <2>1 DEF OneEventPerReport
<1>4. \A t \in Tracks : /\ plays[t] = Cardinality(ThresholdsOf(events, t))
                        /\ navidrome[t] = Cardinality(DerivedOf(t))
                        /\ Owed(t) = {} /\ others[t] = 0
  BY DEF Init, DerivedOf, Owed, Serves
<1>5. CallsInv
  <2>1. \A t \in Tracks : plays[t] \in Nat /\ navidrome[t] \in Nat
    BY <1>1, <1>4, ThresholdsCount
  <2> QED
    BY <2>1 DEF Init, CallsInv, Eras
<1>6. CountInv
  <2>1. \A c \in Threads : ~Serves(c, "import")
    BY DEF Init, Serves
  <2>2. \A t \in Tracks : /\ Cardinality(DerivedOf(t)) \in Nat
                          /\ Cardinality(ThresholdsOf(events, t)) \in Nat
                          /\ Cardinality(ThresholdsOf(events, t)) <= Cardinality(DerivedOf(t))
    BY <1>1, ThresholdsCount
  <2> QED
    BY <1>4, <2>1, <2>2, FS_EmptySet DEF CountInv, NavidromeInv, PlaysInv
<1> QED
  BY <1>1, <1>2, <1>3, <1>5, <1>6 DEF IInv

\* Which request a thread serves says what it carries.
LEMMA JobOf ==
    ASSUME CallsInv, NEW c \in Threads, calls[c] # None
    PROVE  /\ up /\ calls[c] \in Jobs
           /\ calls[c].op \in {"check", "record"} => calls[c].event \in Events
           /\ calls[c].op = "scrobble" => calls[c].track \in Tracks
           /\ calls[c].op = "import" => calls[c].track \in Tracks /\ calls[c].count \in Nat
<1>1. up /\ calls[c] \in Jobs
  BY DEF CallsInv
<1> QED
  BY <1>1 DEF Jobs

\* A step that gives a thread its next request, or none, and submits nothing.
LEMMA CallChanges ==
    ASSUME IInv, NEW c \in Threads, up, NEW job \in Jobs \cup {None},
           calls' = [calls EXCEPT ![c] = job],
           UNCHANGED <<up, clock, events, listens, plays, navidrome, others>>,
           job # None =>
              /\ job.op # "scrobble"
              /\ job.op = "import" =>
                    job.count <= Cardinality(DerivedOf(job.track)) + others[job.track]
              /\ job.op = "backfill" => job.listens \subseteq Backfilled(events)
    PROVE  IInv'
<1>1. LogInv' /\ OneEventPerReport'
  BY DEF IInv, LogInv, OneEventPerReport
<1>2. CallsInv'
  BY DEF IInv, CallsInv
<1>3. DerivedInv'
  BY DEF IInv, CallsInv, DerivedInv
<1>4. CountInv'
  <2>1. \A t \in Tracks : Owed(t)' \subseteq Owed(t)
    BY DEF Owed, Serves, IInv, CallsInv
  <2>2. ASSUME NEW d \in Threads, Serves(d, "import")'
        PROVE  calls'[d].count <= Cardinality(DerivedOf(calls'[d].track)) + others[calls'[d].track]
    <3>1. CASE d = c
      BY <2>2, <3>1 DEF Serves, IInv, CallsInv
    <3>2. CASE d # c
      BY <2>2, <3>2 DEF Serves, IInv, CallsInv, CountInv, PlaysInv
    <3> QED
      BY <3>1, <3>2
  <2> QED
    BY <2>1, <2>2, CountsKept
<1> QED
  BY <1>1, <1>2, <1>3, <1>4 DEF IInv

\* The row, its listen and the counts in one transaction.
LEMMA RecordInv ==
    ASSUME IInv, NEW c \in Threads, Record(c)
    PROVE  IInv'
<1> DEFINE event == calls[c].event
           log == Append(events, event)
<1>1. up /\ event \in Events /\ calls[c] # None
  BY JobOf DEF Record, Serves, IInv
<1>2. CASE ~Inserted(event.report.client)
  BY <1>1, <1>2, CallChanges DEF Record, Done
<1>3. CASE Inserted(event.report.client)
  <2>1. /\ events' = log
        /\ listens' = IF IsNewListen(log) THEN listens \cup {Len(log)} ELSE listens
        /\ plays' = [t \in Tracks |-> IF CountsFor(event, t) THEN plays[t] + 1 ELSE plays[t]]
        /\ calls' = [calls EXCEPT ![c] =
               IF IsNewListen(log) THEN [op |-> "scrobble", track |-> event.report.track]
               ELSE None]
        /\ UNCHANGED <<up, clock, navidrome, others>>
    BY <1>3 DEF Record
  <2>2. /\ log \in Seq(Events)
        /\ Backfilled(log) = Backfilled(events) \cup (IF IsNewListen(log) THEN {Len(log)} ELSE {})
    BY <1>1, BackfilledOfAppend DEF IInv, LogInv
  <2>3. LogInv' /\ OneEventPerReport'
    BY <1>1, <1>3, <2>1, <2>2, UniqueOfAppend DEF IInv, LogInv
  <2>4. IsNewListen(log) => event.report.track \in Tracks
    <3>1. event.report.track \in Tracks \cup {None}
      BY <1>1, ReportsAssumption DEF Events
    <3>2. log[Len(log)] = event
      BY <1>1 DEF IInv, LogInv
    <3> QED
      BY <3>1, <3>2 DEF IsNewListen, IsListen
  <2>5. CallsInv'
    <3>1. IsNewListen(log) => [op |-> "scrobble", track |-> event.report.track] \in Jobs
      BY <2>4 DEF Jobs
    <3>2. plays' \in [Tracks -> Nat]
      BY <2>1 DEF IInv, CallsInv
    <3> HIDE DEF event, log
    <3> QED
      BY <1>1, <2>1, <3>1, <3>2 DEF IInv, CallsInv
  <2>6. DerivedInv'
    <3>1. listens' = Backfilled(log)
      BY <1>1, <2>1, <2>2 DEF IInv, DerivedInv
    <3>2. ASSUME NEW d \in Threads, calls'[d] # None, calls'[d].op = "backfill"
          PROVE  calls'[d].listens \subseteq Backfilled(log)
      <4>1. d # c
        BY <2>1, <3>2 DEF IInv, CallsInv
      <4>2. calls'[d] = calls[d]
        BY <2>1, <4>1 DEF IInv, CallsInv
      <4> QED
        BY <2>2, <3>2, <4>2 DEF IInv, DerivedInv
    <3> QED
      BY <2>1, <3>1, <3>2 DEF DerivedInv
  <2>7. CountInv'
    <3> DEFINE N == Len(events)
    <3>1. /\ Len(log) = N + 1 /\ N \in Nat /\ DOMAIN events = 1..N
          /\ DOMAIN log = 1..(N + 1)
          /\ log[N + 1] = event /\ \A n \in 1..N : log[n] = events[n]
      BY <1>1 DEF IInv, LogInv
    <3>2. Backfilled(events) \subseteq 1..N
      BY <3>1 DEF Backfilled
    <3> HIDE DEF N, log, event
    <3>3. ASSUME NEW t \in Tracks
          PROVE  /\ DerivedOf(t)' = DerivedOf(t) \cup
                       (IF IsNewListen(log) /\ event.report.track = t THEN {N + 1} ELSE {})
                 /\ N + 1 \notin DerivedOf(t)
      BY <2>1, <2>2, <3>1, <3>2 DEF DerivedOf
    <3>4. ASSUME NEW t \in Tracks
          PROVE  /\ ThresholdsOf(events, t)' = ThresholdsOf(events, t) \cup
                       (IF CountsFor(event, t) THEN {N + 1} ELSE {})
                 /\ N + 1 \notin ThresholdsOf(events, t)
      BY <2>1, <3>1 DEF ThresholdsOf, CountsFor
    <3>5. ASSUME NEW t \in Tracks, CountsFor(event, t)
          PROVE  IsNewListen(log) /\ event.report.track = t
      BY <3>1, <3>5, ReportsAssumption DEF CountsFor, IsNewListen, IsListen
    <3>6. ASSUME NEW t \in Tracks
          PROVE  /\ Cardinality(DerivedOf(t)') =
                       Cardinality(DerivedOf(t)) +
                       (IF IsNewListen(log) /\ event.report.track = t THEN 1 ELSE 0)
                 /\ Cardinality(ThresholdsOf(events, t)') =
                       Cardinality(ThresholdsOf(events, t)) + (IF CountsFor(event, t) THEN 1 ELSE 0)
                 /\ Cardinality(Owed(t)') <=
                       Cardinality(Owed(t)) +
                       (IF IsNewListen(log) /\ event.report.track = t THEN 1 ELSE 0)
      <4>1. IsFiniteSet(DerivedOf(t)) /\ IsFiniteSet(ThresholdsOf(events, t)) /\ IsFiniteSet(Owed(t))
        <5>1. DerivedOf(t) \subseteq DOMAIN events /\ ThresholdsOf(events, t) \subseteq DOMAIN events
          BY DEF DerivedOf, ThresholdsOf, Backfilled
        <5> QED
          BY <5>1, FiniteLog, OwedFinite DEF IInv, LogInv
      <4>2. Cardinality(DerivedOf(t)) \in Nat /\ Cardinality(ThresholdsOf(events, t)) \in Nat
            /\ Cardinality(Owed(t)) \in Nat
        BY ThresholdsCount, OwedFinite DEF IInv
      <4>3. Owed(t)' \subseteq
               Owed(t) \cup (IF IsNewListen(log) /\ event.report.track = t THEN {c} ELSE {})
        BY <2>1 DEF Owed, Serves, IInv, CallsInv
      <4>4. CASE IsNewListen(log) /\ event.report.track = t
        <5>1. Cardinality(Owed(t)') <= Cardinality(Owed(t) \cup {c})
          BY <4>1, <4>3, <4>4, FS_AddElement, FS_Subset
        <5>2. Cardinality(Owed(t) \cup {c}) <= Cardinality(Owed(t)) + 1
          <6>1. Cardinality(Owed(t) \cup {c}) =
                   IF c \in Owed(t) THEN Cardinality(Owed(t)) ELSE Cardinality(Owed(t)) + 1
            BY <4>1, FS_AddElement
          <6> QED
            BY <6>1, <4>2
        <5>3. Cardinality(Owed(t) \cup {c}) \in Nat /\ Cardinality(Owed(t)') \in Nat
          BY <4>1, <4>3, <4>4, FS_AddElement, FS_Subset, FS_CardinalityType
        <5>4. Cardinality(DerivedOf(t)') = Cardinality(DerivedOf(t)) + 1
          BY <3>3, <4>1, <4>4, FS_AddElement
        <5>5. Cardinality(ThresholdsOf(events, t)') =
                 Cardinality(ThresholdsOf(events, t)) + (IF CountsFor(event, t) THEN 1 ELSE 0)
          <6>1. CASE CountsFor(event, t)
            BY <3>4, <4>1, <6>1, FS_AddElement
          <6>2. CASE ~CountsFor(event, t)
            BY <3>4, <4>2, <6>2
          <6> QED
            BY <6>1, <6>2
        <5> QED
          BY <4>2, <4>4, <5>1, <5>2, <5>3, <5>4, <5>5
      <4>5. CASE ~(IsNewListen(log) /\ event.report.track = t)
        <5>1. Cardinality(Owed(t)') <= Cardinality(Owed(t))
          BY <4>1, <4>3, <4>5, FS_Subset
        <5>2. DerivedOf(t)' = DerivedOf(t) /\ ~CountsFor(event, t)
              /\ ThresholdsOf(events, t)' = ThresholdsOf(events, t)
          BY <3>3, <3>4, <3>5, <4>5
        <5> QED
          BY <4>2, <4>5, <5>1, <5>2
      <4> QED
        BY <4>4, <4>5
    <3>7. NavidromeInv'
      <4> SUFFICES ASSUME NEW t \in Tracks
                   PROVE  (navidrome[t] + Cardinality(Owed(t)) <= Cardinality(DerivedOf(t)) + others[t])'
        BY DEF NavidromeInv
      <4>1. navidrome[t] + Cardinality(Owed(t)) <= Cardinality(DerivedOf(t)) + others[t]
        BY DEF IInv, CountInv, NavidromeInv
      <4>2. Cardinality(Owed(t)) \in Nat /\ Cardinality(DerivedOf(t)) \in Nat
            /\ navidrome[t] \in Nat /\ others[t] \in Nat
        BY ThresholdsCount, OwedFinite DEF IInv, CallsInv
      <4>3. Cardinality(Owed(t)') \in Nat
        <5>1. Owed(t)' \subseteq Threads
          BY DEF Owed
        <5> QED
          BY <5>1, ThreadsAssumption, FS_Subset, FS_CardinalityType
      <4> QED
        BY <2>1, <3>6, <4>1, <4>2, <4>3
    <3>8. PlaysInv'
      <4>1. ASSUME NEW t \in Tracks
            PROVE  (Cardinality(ThresholdsOf(events, t)) <= plays[t]
                      /\ plays[t] <= Cardinality(DerivedOf(t)) + others[t])'
        <5>1. /\ Cardinality(ThresholdsOf(events, t)) <= plays[t]
              /\ plays[t] <= Cardinality(DerivedOf(t)) + others[t]
          BY DEF IInv, CountInv, PlaysInv
        <5>2. /\ Cardinality(ThresholdsOf(events, t)) \in Nat /\ Cardinality(DerivedOf(t)) \in Nat
              /\ plays[t] \in Nat /\ others[t] \in Nat
          BY ThresholdsCount DEF IInv, CallsInv
        <5>3. plays'[t] = plays[t] + (IF CountsFor(event, t) THEN 1 ELSE 0)
          BY <2>1, <5>2
        <5> QED
          BY <2>1, <3>5, <3>6, <5>1, <5>2, <5>3
      <4>2. ASSUME NEW d \in Threads, Serves(d, "import")'
            PROVE  (calls[d].count <= Cardinality(DerivedOf(calls[d].track)) + others[calls[d].track])'
        <5>1. d # c /\ calls'[d] = calls[d] /\ Serves(d, "import")
          BY <2>1, <4>2 DEF Serves, IInv, CallsInv
        <5>2. calls[d].track \in Tracks /\ calls[d].count \in Nat
          BY <5>1, JobOf DEF Serves, IInv
        <5>3. calls[d].count <= Cardinality(DerivedOf(calls[d].track)) + others[calls[d].track]
          BY <5>1 DEF IInv, CountInv, PlaysInv
        <5>4. /\ Cardinality(DerivedOf(calls[d].track)) \in Nat /\ others[calls[d].track] \in Nat
          BY <5>2, ThresholdsCount DEF IInv, CallsInv
        <5>5. PICK t \in Tracks : t = calls[d].track
          BY <5>2
        <5>6. /\ Cardinality(DerivedOf(t)') >= Cardinality(DerivedOf(t))
              /\ Cardinality(DerivedOf(t)') \in Nat
          BY <3>6, <5>4, <5>5
        <5>7. calls'[d].track = t /\ calls'[d].count = calls[d].count
          BY <5>1, <5>5
        <5>8. (Cardinality(DerivedOf(calls[d].track)))' = Cardinality(DerivedOf(t)')
          BY <5>7 DEF DerivedOf
        <5> QED
          BY <2>1, <5>2, <5>3, <5>4, <5>5, <5>6, <5>7, <5>8
      <4> QED
        BY <4>1, <4>2 DEF PlaysInv
    <3> QED
      BY <3>7, <3>8 DEF CountInv
  <2> QED
    BY <2>3, <2>5, <2>6, <2>7 DEF IInv
<1> QED
  BY <1>2, <1>3

\* Navidrome has been told, or a play elsewhere has been counted there.
LEMMA ScrobbleInv ==
    ASSUME IInv, NEW c \in Threads, Scrobble(c)
    PROVE  IInv'
<1>1. up /\ calls[c] # None /\ calls[c].track \in Tracks
  BY JobOf DEF Scrobble, Serves, IInv
<1>2. PICK told \in Tracks : told = calls[c].track
  BY <1>1
<1>3. LogInv' /\ OneEventPerReport'
  BY DEF Scrobble, IInv, LogInv, OneEventPerReport
<1>4. CallsInv' /\ DerivedInv'
  BY <1>1 DEF Scrobble, Done, IInv, CallsInv, DerivedInv
<1>5. NavidromeInv'
  <2> SUFFICES ASSUME NEW t \in Tracks
               PROVE  (navidrome[t] + Cardinality(Owed(t)) <= Cardinality(DerivedOf(t)) + others[t])'
    BY DEF NavidromeInv
  <2>1. navidrome[t] + Cardinality(Owed(t)) <= Cardinality(DerivedOf(t)) + others[t]
    BY DEF IInv, CountInv, NavidromeInv
  <2>2. Cardinality(Owed(t)) \in Nat /\ Cardinality(DerivedOf(t)) \in Nat
        /\ navidrome[t] \in Nat /\ others[t] \in Nat
    BY ThresholdsCount, OwedFinite DEF IInv, CallsInv
  <2>3. DerivedOf(t)' = DerivedOf(t) /\ others' = others
    BY DEF Scrobble, DerivedOf
  <2>4. Owed(t)' = Owed(t) \ {c} /\ (c \in Owed(t) <=> t = told)
    BY <1>1, <1>2 DEF Scrobble, Done, Owed, Serves, IInv, CallsInv
  <2>5. Cardinality(Owed(t)') = IF t = told THEN Cardinality(Owed(t)) - 1 ELSE Cardinality(Owed(t))
    BY <2>4, OwedFinite, FS_RemoveElement
  <2>6. navidrome'[t] = IF t = told THEN navidrome[t] + 1 ELSE navidrome[t]
    BY <1>2 DEF Scrobble, IInv, CallsInv
  <2> QED
    BY <2>1, <2>2, <2>3, <2>5, <2>6
<1>6. PlaysInv'
  <2>1. \A t \in Tracks : DerivedOf(t)' = DerivedOf(t)
    BY DEF Scrobble, DerivedOf
  <2>2. ASSUME NEW d \in Threads, Serves(d, "import")'
        PROVE  calls'[d] = calls[d] /\ Serves(d, "import") /\ calls[d].track \in Tracks
    BY <2>2, JobOf DEF Scrobble, Done, Serves, IInv, CallsInv
  <2>3. ASSUME NEW d \in Threads, Serves(d, "import")'
        PROVE  (calls[d].count <= Cardinality(DerivedOf(calls[d].track)) + others[calls[d].track])'
    <3>1. DerivedOf(calls[d].track)' = DerivedOf(calls[d].track)
      BY <2>2, <2>3 DEF Scrobble, DerivedOf
    <3> QED
      BY <2>2, <2>3, <3>1 DEF Scrobble, IInv, CountInv, PlaysInv
  <2> QED
    BY <2>1, <2>3 DEF Scrobble, IInv, CountInv, PlaysInv, ThresholdsOf
<1> QED
  BY <1>3, <1>4, <1>5, <1>6 DEF IInv, CountInv

LEMMA PlayElsewhereInv ==
    ASSUME IInv, NEW played \in Tracks, PlayElsewhere(played)
    PROVE  IInv'
<1>1. LogInv' /\ OneEventPerReport' /\ CallsInv' /\ DerivedInv'
  BY DEF PlayElsewhere, IInv, LogInv, OneEventPerReport, CallsInv, DerivedInv
<1>2. ASSUME NEW t \in Tracks
      PROVE  /\ DerivedOf(t)' = DerivedOf(t) /\ Owed(t)' = Owed(t)
             /\ ThresholdsOf(events, t)' = ThresholdsOf(events, t)
             /\ Cardinality(DerivedOf(t)) \in Nat /\ Cardinality(Owed(t)) \in Nat
             /\ navidrome[t] \in Nat /\ others[t] \in Nat /\ plays[t] \in Nat
             /\ navidrome'[t] = IF t = played THEN navidrome[t] + 1 ELSE navidrome[t]
             /\ others'[t] = IF t = played THEN others[t] + 1 ELSE others[t]
  <2>1. /\ DerivedOf(t)' = DerivedOf(t) /\ Owed(t)' = Owed(t)
        /\ ThresholdsOf(events, t)' = ThresholdsOf(events, t)
    BY DEF PlayElsewhere, DerivedOf, Owed, Serves, ThresholdsOf
  <2>2. Cardinality(DerivedOf(t)) \in Nat /\ Cardinality(Owed(t)) \in Nat
    BY ThresholdsCount, OwedFinite DEF IInv
  <2> QED
    BY <2>1, <2>2 DEF PlayElsewhere, IInv, CallsInv
<1>3. NavidromeInv'
  BY <1>2 DEF IInv, CountInv, NavidromeInv
<1>4. PlaysInv'
  <2>1. ASSUME NEW d \in Threads, Serves(d, "import")'
        PROVE  (calls[d].count <= Cardinality(DerivedOf(calls[d].track)) + others[calls[d].track])'
    <3>1. calls'[d] = calls[d] /\ Serves(d, "import")
      BY <2>1 DEF PlayElsewhere, Serves
    <3>2. calls[d].track \in Tracks /\ calls[d].count \in Nat
      BY <3>1, JobOf DEF Serves, IInv
    <3>3. calls[d].count <= Cardinality(DerivedOf(calls[d].track)) + others[calls[d].track]
      BY <3>1 DEF IInv, CountInv, PlaysInv
    <3>4. DerivedOf(calls[d].track)' = DerivedOf(calls[d].track)
      BY <3>1 DEF PlayElsewhere, DerivedOf
    <3> QED
      BY <1>2, <3>1, <3>2, <3>3, <3>4
  <2>2. plays' = plays /\ events' = events
    BY DEF PlayElsewhere
  <2> QED
    BY <1>2, <2>1, <2>2 DEF IInv, CountInv, PlaysInv
<1> QED
  BY <1>1, <1>3, <1>4 DEF IInv, CountInv

\* Steps of a thread that change a table, but neither the log nor Navidrome.
LEMMA ImportInv ==
    ASSUME IInv, NEW c \in Threads, ImportPlays(c)
    PROVE  IInv'
<1>1. /\ calls[c].track \in Tracks /\ calls[c].count \in Nat /\ calls[c] # None
      /\ calls[c].count <= Cardinality(DerivedOf(calls[c].track)) + others[calls[c].track]
  BY JobOf DEF ImportPlays, Serves, IInv, CountInv, PlaysInv
<1>2. PICK of \in Tracks : of = calls[c].track
  BY <1>1
<1>3. PICK count \in Nat : count = calls[c].count
  BY <1>1
<1>4. plays' = [plays EXCEPT ![of] = IF plays[of] < count THEN count ELSE plays[of]]
  BY <1>2, <1>3 DEF ImportPlays, Imported
<1>5. LogInv' /\ OneEventPerReport'
  BY DEF ImportPlays, IInv, LogInv, OneEventPerReport
<1>6. CallsInv' /\ DerivedInv'
  BY <1>4 DEF ImportPlays, Done, IInv, CallsInv, DerivedInv
<1>7. CountInv'
  <2>1. \A t \in Tracks : Owed(t)' \subseteq Owed(t)
    BY DEF ImportPlays, Done, Owed, Serves, IInv, CallsInv
  <2>2. ASSUME NEW t \in Tracks
        PROVE  /\ plays'[t] <= Cardinality(DerivedOf(t)) + others[t]
               /\ Cardinality(ThresholdsOf(events, t)) <= plays'[t]
    <3>1. /\ Cardinality(ThresholdsOf(events, t)) \in Nat /\ Cardinality(DerivedOf(t)) \in Nat
          /\ plays[t] \in Nat /\ others[t] \in Nat
      BY ThresholdsCount DEF IInv, CallsInv
    <3>2. /\ Cardinality(ThresholdsOf(events, t)) <= plays[t]
          /\ plays[t] <= Cardinality(DerivedOf(t)) + others[t]
      BY DEF IInv, CountInv, PlaysInv
    <3>3. t = of => count <= Cardinality(DerivedOf(t)) + others[t]
      BY <1>1, <1>2, <1>3
    <3>4. plays'[t] = IF t = of /\ plays[t] < count THEN count ELSE plays[t]
      BY <1>4 DEF IInv, CallsInv
    <3> QED
      BY <3>1, <3>2, <3>3, <3>4
  <2>3. ASSUME NEW d \in Threads, Serves(d, "import")'
        PROVE  calls'[d].count <= Cardinality(DerivedOf(calls'[d].track)) + others[calls'[d].track]
    BY <2>3 DEF ImportPlays, Done, Serves, IInv, CallsInv, CountInv, PlaysInv
  <2>4. UNCHANGED <<events, navidrome, others>>
    BY DEF ImportPlays
  <2> QED
    BY <2>1, <2>2, <2>3, <2>4, CountsKept
<1> QED
  BY <1>5, <1>6, <1>7 DEF IInv

LEMMA BackfillInv ==
    ASSUME IInv, NEW c \in Threads, Backfill(c)
    PROVE  IInv'
<1>1. up /\ calls[c] # None /\ calls[c].listens \subseteq Backfilled(events)
  BY JobOf DEF Backfill, Serves, IInv, DerivedInv
<1>2. listens' = listens
  BY <1>1 DEF Backfill, IInv, DerivedInv
<1> QED
  BY <1>1, <1>2, CallChanges DEF Backfill, Done

LEMMA RecomputeInv ==
    ASSUME IInv, RecomputePreferences
    PROVE  IInv'
<1>1. \A t \in Tracks : /\ Cardinality(ThresholdsOf(events, t)) \in Nat
                        /\ Cardinality(DerivedOf(t)) \in Nat /\ others[t] \in Nat
                        /\ Cardinality(ThresholdsOf(events, t)) <= Cardinality(DerivedOf(t))
  BY ThresholdsCount DEF IInv, CallsInv
<1>2. CountInv'
  <2>1. ASSUME NEW d \in Threads, Serves(d, "import")'
        PROVE  calls'[d].count <= Cardinality(DerivedOf(calls'[d].track)) + others[calls'[d].track]
    BY <2>1 DEF RecomputePreferences, Serves, IInv, CountInv, PlaysInv
  <2>2. \A t \in Tracks : Owed(t)' \subseteq Owed(t)
    BY DEF RecomputePreferences, Owed, Serves
  <2>3. UNCHANGED <<events, navidrome, others>>
    BY DEF RecomputePreferences
  <2>4. \A t \in Tracks : /\ plays'[t] <= Cardinality(DerivedOf(t)) + others[t]
                          /\ Cardinality(ThresholdsOf(events, t)) <= plays'[t]
    BY <1>1 DEF RecomputePreferences
  <2> QED
    BY <2>1, <2>2, <2>3, <2>4, CountsKept
<1> QED
  BY <1>1, <1>2 DEF RecomputePreferences, IInv, LogInv, OneEventPerReport, CallsInv, DerivedInv

\* The server stops or starts, or the date passes.
LEMMA ServerInv ==
    ASSUME IInv, Crash \/ Start \/ DatePasses
    PROVE  IInv'
<1>1. LogInv' /\ OneEventPerReport'
  BY DEF Crash, Start, DatePasses, IInv, LogInv, OneEventPerReport
<1>2. CallsInv'
  BY DEF Crash, Start, DatePasses, IInv, CallsInv, Eras
<1>3. DerivedInv'
  BY DEF Crash, Start, DatePasses, ListensAtStart, IInv, CallsInv, DerivedInv
<1>4. CountInv'
  <2>1. ASSUME NEW d \in Threads, Serves(d, "import")'
        PROVE  calls'[d].count <= Cardinality(DerivedOf(calls'[d].track)) + others[calls'[d].track]
    BY <2>1 DEF Crash, Start, DatePasses, Serves, IInv, CountInv, PlaysInv
  <2>2. \A t \in Tracks : Owed(t)' \subseteq Owed(t)
    BY DEF Crash, Start, DatePasses, Owed, Serves
  <2>3. UNCHANGED <<events, navidrome, others, plays>>
    BY DEF Crash, Start, DatePasses
  <2> QED
    BY <2>1, <2>2, <2>3, CountsKept
<1> QED
  BY <1>1, <1>2, <1>3, <1>4 DEF IInv

\* Steps that only move a thread to its next request.
LEMMA ThreadInv ==
    ASSUME IInv, NEW c \in Threads,
           \/ \E r \in Reports : Report(c, r)
           \/ \E t \in Tracks : FetchSong(c, t)
           \/ ReadLog(c) \/ Check(c) \/ ScrobbleFails(c)
    PROVE  IInv'
<1>1. ASSUME NEW r \in Reports, Report(c, r) PROVE IInv'
  <2>1. [op |-> "check", event |-> [report |-> r, at |-> clock]] \in Jobs
    BY DEF Jobs, Events, IInv, CallsInv
  <2> QED
    BY <1>1, <2>1, CallChanges DEF Report
<1>2. ASSUME NEW t \in Tracks, FetchSong(c, t) PROVE IInv'
  <2>1. /\ navidrome[t] \in Nat /\ others[t] \in Nat /\ Cardinality(DerivedOf(t)) \in Nat
        /\ Cardinality(Owed(t)) \in Nat
        /\ navidrome[t] + Cardinality(Owed(t)) <= Cardinality(DerivedOf(t)) + others[t]
    BY ThresholdsCount, OwedFinite DEF IInv, CallsInv, CountInv, NavidromeInv
  <2>2. [op |-> "import", track |-> t, count |-> navidrome[t]] \in Jobs
    BY <2>1 DEF Jobs
  <2>3. navidrome[t] <= Cardinality(DerivedOf(t)) + others[t]
    BY <2>1
  <2> QED
    BY <1>2, <2>2, <2>3, CallChanges DEF FetchSong
<1>3. CASE ReadLog(c)
  <2>1. Backfilled(events) \in SUBSET (Nat \ {0})
    BY DEF Backfilled, IInv, LogInv
  <2>2. [op |-> "backfill", listens |-> Backfilled(events)] \in Jobs
    BY <2>1 DEF Jobs
  <2> QED
    BY <1>3, <2>2, CallChanges DEF ReadLog
<1>4. CASE Check(c)
  <2>1. up /\ calls[c] \in Jobs /\ calls[c] # None /\ calls[c].op = "check"
    BY <1>4, JobOf DEF Check, Serves, IInv
  <2>2. [calls[c] EXCEPT !.op = "record"] \in Jobs
        /\ [calls[c] EXCEPT !.op = "record"].op = "record"
    BY <2>1 DEF Jobs
  <2>3. PICK job : /\ job \in {None, [calls[c] EXCEPT !.op = "record"]}
                   /\ calls' = [calls EXCEPT ![c] = job]
    BY <1>4 DEF Check, AnswerOfDuplicate
  <2> QED
    BY <1>4, <2>1, <2>2, <2>3, CallChanges DEF Check
<1>5. CASE ScrobbleFails(c)
  <2>1. up
    BY <1>5, JobOf DEF ScrobbleFails, Serves, IInv
  <2> QED
    BY <1>5, <2>1, CallChanges DEF ScrobbleFails, Done
<1> QED
  BY <1>1, <1>2, <1>3, <1>4, <1>5

LEMMA NextInv == IInv /\ [Next]_vars => IInv'
<1> SUFFICES ASSUME IInv, [Next]_vars PROVE IInv'
  OBVIOUS
<1>1. ASSUME NEW c \in Threads, Call(c) PROVE IInv'
  BY <1>1, ThreadInv, RecordInv, ScrobbleInv, ImportInv, BackfillInv DEF Call
<1>2. CASE UNCHANGED vars
  <2>1. \A t \in Tracks : Owed(t)' \subseteq Owed(t)
    BY <1>2 DEF vars, Owed, Serves
  <2>2. ASSUME NEW d \in Threads, Serves(d, "import")'
        PROVE  calls'[d].count <= Cardinality(DerivedOf(calls'[d].track)) + others[calls'[d].track]
    BY <1>2, <2>2 DEF vars, Serves, IInv, CountInv, PlaysInv
  <2>3. CountInv'
    BY <1>2, <2>1, <2>2, CountsKept DEF vars
  <2> QED
    BY <1>2, <2>3 DEF vars, IInv, LogInv, OneEventPerReport, CallsInv, DerivedInv
<1> QED
  BY <1>1, <1>2, ThreadInv, PlayElsewhereInv, RecomputeInv, ServerInv DEF Next

THEOREM Invariance == Spec => []IInv
BY InitInv, NextInv, PTL DEF Spec

-----------------------------------------------------------------------------
(* The properties. *)

\* Every variable stays in its type.
THEOREM TypeCorrectness == Spec => []TypeOK
<1>1. IInv => TypeOK
  BY FiniteLog DEF IInv, LogInv, CallsInv, DerivedInv, TypeOK
<1> QED
  BY <1>1, Invariance, PTL

\* A report that a page sends again is recorded once, whichever threads serve it
\* (record_playback_event).
THEOREM ReportsAreRecordedOnce == Spec => []OneEventPerReport
<1>1. IInv => OneEventPerReport
  BY DEF IInv
<1> QED
  BY <1>1, Invariance, PTL

\* The table of listens is the replay of the log, through crashes and rebuilds
\* (record_listen_for_event, backfill_listens_from_events).
THEOREM LiveDecisionsAreDerived == Spec => []ListensAreDerived
<1>1. IInv => ListensAreDerived
  BY DEF IInv, DerivedInv, ListensAreDerived
<1> QED
  BY <1>1, Invariance, PTL

\* Navidrome never counts a play that is not in the log or another client's
\* (maybe_scrobble_navidrome_play).
THEOREM NavidromeNeverCountsTwice == Spec => []NavidromeCountsOnce
<1>1. IInv => NavidromeCountsOnce
  <2> SUFFICES ASSUME IInv, up, NEW t \in Tracks
               PROVE  navidrome[t] <= Cardinality(ListensOf(t)) + others[t]
    BY DEF NavidromeCountsOnce
  <2>1. ListensOf(t) = DerivedOf(t)
    BY DEF IInv, DerivedInv, ListensOf, DerivedOf
  <2>2. /\ navidrome[t] \in Nat /\ others[t] \in Nat /\ Cardinality(DerivedOf(t)) \in Nat
        /\ Cardinality(Owed(t)) \in Nat
    BY ThresholdsCount, OwedFinite DEF IInv, CallsInv
  <2>3. navidrome[t] + Cardinality(Owed(t)) <= Cardinality(DerivedOf(t)) + others[t]
    BY DEF IInv, CountInv, NavidromeInv
  <2> QED
    BY <2>1, <2>2, <2>3
<1> QED
  BY <1>1, Invariance, PTL

\* A play count is between the thresholds of the log and all the plays there are
\* (import_external_track_play_state, recompute_user_preferences).
THEOREM PlayCountsAreReal == Spec => []PlaysAreReal
<1>1. IInv => PlaysAreReal
  <2> SUFFICES ASSUME IInv, up, NEW t \in Tracks
               PROVE  /\ Cardinality(ThresholdsOf(events, t)) <= plays[t]
                      /\ plays[t] <= Cardinality(ListensOf(t)) + others[t]
    BY DEF PlaysAreReal
  <2>1. ListensOf(t) = DerivedOf(t)
    BY DEF IInv, DerivedInv, ListensOf, DerivedOf
  <2> QED
    BY <2>1 DEF IInv, CountInv, PlaysInv
<1> QED
  BY <1>1, Invariance, PTL

=============================================================================
