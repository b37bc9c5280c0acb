------------------------- MODULE MCListeningHistory -------------------------
(* The instance of ListeningHistory that TLC checks. *)
EXTENDS ListeningHistory, TLC

CONSTANTS t1, t2, s1, q1, e1, c1, c2

SameThreads == Permutations({c1, c2})

Of(type, session, item, client) ==
    [type |-> type, session |-> session, item |-> item, track |-> t1, real |-> TRUE,
     client |-> client]

\* A threshold that is retried under its id, and finished tracks: with and without a
\* queue item, of another track, and a report that names no track.
MCReports ==
    { Of("play_threshold_reached", s1, q1, e1),
      Of("completed", s1, q1, None),
      Of("completed", s1, None, None),
      [Of("completed", s1, None, None) EXCEPT !.track = t2],
      [Of("play_threshold_reached", s1, None, None) EXCEPT !.track = None] }

=============================================================================
