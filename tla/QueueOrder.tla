----------------------------- MODULE QueueOrder -----------------------------
(***************************************************************************)
(* What the queue of a playback session promises: the rows in one order, a *)
(* row that is current, and what each command may do to them.  Positions   *)
(* and the statements that write them belong to PlaybackQueue, which       *)
(* implements this while its requests come one at a time.                  *)
(***************************************************************************)
EXTENDS Integers

CONSTANTS Rows, None

VARIABLES
    before,   \* <<r, s>> for each row r that plays before row s
    source,   \* per row: its index in the source, None for a row added later
    hidden,   \* rows the user has removed
    current   \* the row that plays, or None

vars == <<before, source, hidden, current>>

Present == DOMAIN source

\* b puts the rows of S one behind the other.
IsOrder(b, S) ==
    /\ b \subseteq S \X S
    /\ \A r \in S : <<r, r>> \notin b
    /\ \A r, s \in S : r # s => <<r, s>> \in b \/ <<s, r>> \in b
    /\ \A r, s, t \in S : <<r, s>> \in b /\ <<s, t>> \in b => <<r, t>> \in b

IsFirst(r, b, S) == r \in S /\ \A s \in S \ {r} : <<r, s>> \in b

\* The first row plays, if there is one.
PlaysFirst(row, b, S) == IF S = {} THEN row = None ELSE IsFirst(row, b, S)

Init ==
    /\ Present \subseteq Rows
    /\ IsOrder(before, Present)
    /\ \A r \in Present : source[r] \in Nat
    /\ \A r, s \in Present : source[r] = source[s] => r = s
    /\ hidden = {}
    /\ PlaysFirst(current, before, Present)

\* Rows that are new go behind all others.
Add ==
    /\ \E added \in SUBSET (Rows \ Present) :
           /\ source' = [r \in Present \cup added |-> IF r \in added THEN None ELSE source[r]]
           /\ IsOrder(before', Present \cup added)
           /\ before \cup (Present \X added) \subseteq before'
    /\ UNCHANGED <<hidden, current>>

\* A new queue in place of the old one, in the order of its source, plays from its
\* first row.
Replace ==
    /\ \E new \in SUBSET (Rows \ Present) :
           /\ DOMAIN source' = new
           /\ \A r, s \in new : <<r, s>> \in before' <=> source'[r] < source'[s]
           /\ IsOrder(before', new)
           /\ PlaysFirst(current', before', new)
    /\ hidden' = {}

Hide(r) == r \in Present /\ hidden' = hidden \cup {r} /\ UNCHANGED <<before, source, current>>

Show(r) == r \in Present /\ hidden' = hidden \ {r} /\ UNCHANGED <<before, source, current>>

Play(r) ==
    /\ r \in Present
    /\ current' = r
    /\ hidden' = hidden \ {r}
    /\ UNCHANGED <<before, source>>

\* The rows of S keep their order.
Keeps(S) == \A r, s \in S : <<r, s>> \in before' <=> <<r, s>> \in before

\* A row that is not hidden takes another place; the other visible rows keep their
\* order.
Move(r) ==
    /\ r \in Present \ hidden
    /\ IsOrder(before', Present)
    /\ Keeps(Present \ (hidden \cup {r}))
    /\ UNCHANGED <<source, hidden, current>>

\* The rows up to the current one.
Played == {r \in Present : current \in Present /\ (r = current \/ <<r, current>> \in before)}

\* Shuffle on: "rearranges only what has not played yet".
Shuffle ==
    /\ IsOrder(before', Present)
    /\ Keeps(Played)
    /\ Played \X (Present \ Played) \subseteq before'
    /\ UNCHANGED <<source, hidden, current>>

\* Shuffle off: the source order, and behind it what was added, as it stands.
Restore ==
    /\ IsOrder(before', Present)
    /\ LET Added == {r \in Present : source[r] = None}
       IN /\ Keeps(Added)
          /\ (Present \ Added) \X Added \subseteq before'
          /\ \A r, s \in Present \ Added : <<r, s>> \in before' <=> source[r] < source[s]
    /\ UNCHANGED <<source, hidden, current>>

Next ==
    \/ Add \/ Replace \/ Shuffle \/ Restore
    \/ \E r \in Rows : Hide(r) \/ Show(r) \/ Play(r) \/ Move(r)

Spec == Init /\ [][Next]_vars

=============================================================================
