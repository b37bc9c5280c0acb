--------------------------- MODULE PlaybackQueue ----------------------------
(***************************************************************************)
(* The queue of one playback session: the rows of queue_items with their   *)
(* positions, the session's pointer and its shuffle flag, and the commands *)
(* of the pages (app/store/playback.py and app/api/playback.py).           *)
(*                                                                         *)
(* A command is served by a thread.  Its statements that only read run on  *)
(* their own; its transaction opens with the first write, and a violation  *)
(* of the unique index on (session_id, position) rolls it back.  Commands  *)
(* of several threads interleave here statement by statement; TypeOK,      *)
(* OnlyMovesFail and ImplementsOrder are about one thread.                 *)
(*                                                                         *)
(* Tracks, scores and autoplay's choice of tracks are left out; of a row's *)
(* status only whether it is "removed" matters here.                       *)
(***************************************************************************)
EXTENDS Integers, FiniteSets, FiniteSetsExt, Functions

CONSTANTS
    None,       \* no row, no source position, an idle thread
    Threads,
    Handovers,  \* client ids of handovers
    MaxRows     \* bound: rows ever inserted

ASSUME MaxRowsAssumption == MaxRows \in Nat

VARIABLES
    rows,      \* queue_items: position, source_position, whether it is removed
    made,      \* rows inserted so far; a row's id is its number
    current,   \* playback_sessions.current_queue_item_id
    shuffled,  \* playback_sessions.shuffle_enabled
    handed,    \* client ids of handover_completed events
    calls,     \* per thread: what it serves and has read
    failed     \* commands that have met the unique index

vars == <<rows, made, current, shuffled, handed, calls, failed>>

-----------------------------------------------------------------------------
(* Reading and writing the table. *)

\* ORDER BY position: <<r, s>> for each row r before row s
Ordered(table) ==
    {p \in (DOMAIN table) \X (DOMAIN table) : table[p[1]].position < table[p[2]].position}

Visible(table) == {r \in DOMAIN table : ~table[r].removed}

\* The indices of the rows of S in an order of them.
Places(S, order) == [r \in S |-> Cardinality({s \in S : <<s, r>> \in order})]

\* The rows that are given a place get it as position; others keep theirs.
Placed(table, places) ==
    [r \in DOMAIN table |->
        IF r \in DOMAIN places THEN [table[r] EXCEPT !.position = places[r]] ELSE table[r]]

Clash(table) ==
    \E r, s \in DOMAIN table : r # s /\ table[r].position = table[s].position

Idle(c) == calls[c] = None

Serves(c, op) == calls[c] # None /\ calls[c].op = op

Go(c, call) == calls' = [calls EXCEPT ![c] = call]

\* The transaction of a command ends: committed, or rolled back by the index.
Commit(c, table) ==
    IF Clash(table)
    THEN rows' = rows /\ failed' = failed \cup {calls[c].op}
    ELSE rows' = table /\ failed' = failed

SetRemoved(r, flag) ==
    IF r \in DOMAIN rows THEN [rows EXCEPT ![r].removed = flag] ELSE rows

-----------------------------------------------------------------------------
(* Replacing, adding, removing. *)

\* Faulty: the pointer of the queue that was.
PointerKept(n) == current

\* The pointer to the first of n new rows.
FirstOfNew(n) == IF n = 0 THEN None ELSE made + 1

\* replace_queue_items
Replace(c, n) ==
    /\ Idle(c) /\ made + n <= MaxRows
    /\ made' = made + n
    /\ rows' = [r \in (made + 1)..(made + n) |->
           [position |-> r - made - 1, source |-> r - made - 1, removed |-> FALSE]]
    /\ current' = FirstOfNew(n)
    /\ UNCHANGED <<shuffled, handed, calls, failed>>

\* Faulty: the number of visible rows as the highest position.
LastVisible(table) == Cardinality(Visible(table)) - 1

\* COALESCE(MAX(position), -1)
LastPosition(table) == Max({table[r].position : r \in DOMAIN table} \cup {-1})

\* append_queue_items has read the highest position, ...
ReadLast(c, n) ==
    /\ Idle(c) /\ made + n <= MaxRows
    /\ Go(c, [op |-> "add", count |-> n, last |-> LastPosition(rows)])
    /\ UNCHANGED <<rows, made, current, shuffled, handed, failed>>

\* ... and inserts behind it.
Add(c) ==
    /\ Serves(c, "add")
    /\ made + calls[c].count <= MaxRows
    /\ LET new == (made + 1)..(made + calls[c].count)
       IN Commit(c, [r \in DOMAIN rows \cup new |->
              IF r \in new
              THEN [position |-> calls[c].last + (r - made), source |-> None, removed |-> FALSE]
              ELSE rows[r]])
    /\ made' = made + calls[c].count
    /\ Go(c, None)
    /\ UNCHANGED <<current, shuffled, handed>>

\* remove_queue_item; the event "removed_from_queue" that follows sets the status
\* once more.
Remove1(c, r) ==
    /\ Idle(c)
    /\ r \in DOMAIN rows
    /\ rows' = SetRemoved(r, TRUE)
    /\ Go(c, [op |-> "removed", row |-> r])
    /\ UNCHANGED <<made, current, shuffled, handed, failed>>

Remove2(c) ==
    /\ Serves(c, "removed")
    /\ rows' = SetRemoved(calls[c].row, TRUE)
    /\ Go(c, None)
    /\ UNCHANGED <<made, current, shuffled, handed, failed>>

\* A completed or skipped event of a row, whenever it comes, sets its status.
Heard(c, r) ==
    /\ Idle(c)
    /\ r \in DOMAIN rows
    /\ rows' = SetRemoved(r, FALSE)
    /\ UNCHANGED <<made, current, shuffled, handed, calls, failed>>

\* So does a track_started event, which also makes the row current.
Started(c, r) ==
    /\ Idle(c)
    /\ r \in DOMAIN rows
    /\ rows' = SetRemoved(r, FALSE)
    /\ current' = r
    /\ UNCHANGED <<made, shuffled, handed, calls, failed>>

-----------------------------------------------------------------------------
(* Moving the pointer. *)

\* jump_to_queue_item finds the row, ...
FindRow(c, r) ==
    /\ Idle(c)
    /\ r \in DOMAIN rows
    /\ Go(c, [op |-> "jump", row |-> r])
    /\ UNCHANGED <<rows, made, current, shuffled, handed, failed>>

\* ... writes, ...
Jump(c) ==
    /\ Serves(c, "jump")
    /\ rows' = SetRemoved(calls[c].row, FALSE)
    /\ current' = calls[c].row
    /\ Go(c, [op |-> "click", row |-> calls[c].row])
    /\ UNCHANGED <<made, shuffled, handed, failed>>

\* ... and the event "queue_click" writes again, if the row is still there.
Click(c) ==
    /\ Serves(c, "click")
    /\ rows' = SetRemoved(calls[c].row, FALSE)
    /\ current' = IF calls[c].row \in DOMAIN rows THEN calls[c].row ELSE current
    /\ Go(c, None)
    /\ UNCHANGED <<made, shuffled, handed, failed>>

\* handover_queue_item looks for its client id and the row, ...
FindHandover(c, r, h) ==
    /\ Idle(c)
    /\ h \notin handed /\ r \in DOMAIN rows
    /\ Go(c, [op |-> "handover", row |-> r, id |-> h])
    /\ UNCHANGED <<rows, made, current, shuffled, handed, failed>>

\* ... and writes; a client id that is there by now rolls it back.
Handover(c) ==
    /\ Serves(c, "handover")
    /\ IF calls[c].id \in handed
       THEN UNCHANGED <<rows, current, handed>>
       ELSE /\ rows' = SetRemoved(calls[c].row, FALSE)
            /\ current' = calls[c].row
            /\ handed' = handed \cup {calls[c].id}
    /\ Go(c, None)
    /\ UNCHANGED <<made, shuffled, failed>>

-----------------------------------------------------------------------------
(* Reordering. *)

\* move_queue_item: the new places of the visible rows
Inserted(table, r, place) ==
    LET others == Visible(table) \ {r}
        at == Min({place, Cardinality(others)})
        old == Places(others, Ordered(table))
    IN [s \in Visible(table) |->
           IF s = r THEN at ELSE IF old[s] < at THEN old[s] ELSE old[s] + 1]

ReadList(c, r, place) ==
    /\ Idle(c)
    /\ r \in Visible(rows)
    /\ Go(c, [op |-> "move", places |-> Inserted(rows, r, place)])
    /\ UNCHANGED <<rows, made, current, shuffled, handed, failed>>

Move(c) ==
    /\ Serves(c, "move")
    /\ Commit(c, Placed(rows, calls[c].places))
    /\ Go(c, None)
    /\ UNCHANGED <<made, current, shuffled, handed>>

\* PATCH session: the flag as it was, ...
ReadFlag(c, on) ==
    /\ Idle(c)
    /\ Go(c, [op |-> "flag", on |-> on, was |-> shuffled])
    /\ UNCHANGED <<rows, made, current, shuffled, handed, failed>>

\* ... the flag as it is to be; the queue follows only a change.
SetFlag(c) ==
    /\ Serves(c, "flag")
    /\ shuffled' = calls[c].on
    /\ Go(c, IF calls[c].on # calls[c].was THEN [op |-> "session", on |-> calls[c].on] ELSE None)
    /\ UNCHANGED <<rows, made, current, handed, failed>>

\* set_queue_shuffle reads the session, ...
ReadSession(c) ==
    /\ Serves(c, "session")
    /\ Go(c, [op |-> "rows", on |-> calls[c].on, current |-> current])
    /\ UNCHANGED <<rows, made, current, shuffled, handed, failed>>

\* The rows that stay: those up to the current one.
Pivot(table, row) ==
    IF row \in DOMAIN table THEN {r \in DOMAIN table : table[r].position <= table[row].position}
    ELSE {}

Shuffles(table, row) ==
    LET old == Places(DOMAIN table, Ordered(table))
    IN {new \in Injection(DOMAIN table, 0 .. Cardinality(DOMAIN table) - 1) :
           \A r \in Pivot(table, row) : new[r] = old[r]}

\* Faulty: rows without a source position are sorted as its index 0.
NoneFirst(r, s) ==
    LET At(t) == IF rows[t].source = None THEN 0 ELSE rows[t].source
    IN At(r) < At(s) \/ (At(r) = At(s) /\ rows[r].position < rows[s].position)

\* The sort key of the source order.
SourceLess(r, s) ==
    IF rows[r].source = None THEN rows[s].source = None /\ rows[r].position < rows[s].position
    ELSE rows[s].source = None \/ rows[r].source < rows[s].source

SourceOrder == {p \in (DOMAIN rows) \X (DOMAIN rows) : SourceLess(p[1], p[2])}

\* ... then the rows, ...
ReadRows(c) ==
    /\ Serves(c, "rows")
    /\ \E places \in (IF calls[c].on THEN Shuffles(rows, calls[c].current)
                      ELSE {Places(DOMAIN rows, SourceOrder)}) :
          Go(c, IF DOMAIN rows = {} THEN None ELSE [op |-> "shuffle", places |-> places])
    /\ UNCHANGED <<rows, made, current, shuffled, handed, failed>>

\* Every row in a negative range, if all were outside it
Parked(table) == [r \in DOMAIN table |-> [table[r] EXCEPT !.position = -1 - @]]

\* The rows are written one after another: one that another shuffle has left in the
\* negative range, or that comes out of it, may be in the way of an earlier write.
InTheWay(places) ==
    \/ \E r, s \in DOMAIN rows : r # s /\ rows[s].position = Parked(rows)[r].position
    \/ \E r \in DOMAIN places \cap DOMAIN rows :
          Parked(rows)[r].position \in 0 .. places[r] - 1

\* ... parks every row, and places those it has read.
Reorder(c) ==
    /\ Serves(c, "shuffle")
    /\ IF InTheWay(calls[c].places)
       THEN rows' = rows /\ failed' = failed \cup {"shuffle"}
       ELSE Commit(c, Placed(Parked(rows), calls[c].places))
    /\ Go(c, None)
    /\ UNCHANGED <<made, current, shuffled, handed>>

-----------------------------------------------------------------------------

\* create_playback_session, with a shuffled source or not: its mode may ask for the
\* shuffle while the flag is off.
Init ==
    /\ made \in 0..2 /\ made <= MaxRows
    /\ shuffled \in BOOLEAN
    /\ \E sources \in {f \in [1..made -> 0..(made - 1)] : IsInjective(f)} :
          rows = [r \in 1..made |-> [position |-> r - 1, source |-> sources[r], removed |-> FALSE]]
    /\ current = IF made = 0 THEN None ELSE 1
    /\ handed = {}
    /\ calls = [c \in Threads |-> None]
    /\ failed = {}

Command(c) ==
    \/ \E n \in 0..2 : Replace(c, n)
    \/ \E n \in 1..2 : ReadLast(c, n)
    \/ \E r \in 1..made :
          \/ Remove1(c, r) \/ Heard(c, r) \/ Started(c, r) \/ FindRow(c, r)
          \/ \E h \in Handovers : FindHandover(c, r, h)
          \/ \E place \in 0..made : ReadList(c, r, place)
    \/ \E on \in BOOLEAN : ReadFlag(c, on)

Step(c) ==
    \/ Add(c) \/ Remove2(c) \/ Jump(c) \/ Click(c) \/ Handover(c) \/ Move(c)
    \/ SetFlag(c) \/ ReadSession(c) \/ ReadRows(c) \/ Reorder(c)

Next == \E c \in Threads : Command(c) \/ Step(c)

Spec == Init /\ [][Next]_vars

-----------------------------------------------------------------------------
(* Properties. *)

\* TYPE: rows are numbered as they were made, no two share a position.
TypeOK ==
    /\ made \in 0..MaxRows
    /\ DOMAIN rows \subseteq 1..made
    /\ ~Clash(rows)
    /\ \A r \in DOMAIN rows :
          /\ rows[r].position \in Int /\ rows[r].removed \in BOOLEAN
          /\ rows[r].source \in 0..MaxRows \cup {None}
    /\ current \in DOMAIN rows \cup {None}
    /\ shuffled \in BOOLEAN
    /\ handed \subseteq Handovers

Order == INSTANCE QueueOrder WITH
    Rows <- 1..MaxRows,
    before <- Ordered(rows),
    source <- [r \in DOMAIN rows |-> rows[r].source],
    hidden <- {r \in DOMAIN rows : rows[r].removed}

\* One request after another, the positions always encode what QueueOrder promises:
\* new rows come last, a move disturbs no other visible row, shuffling spares what
\* has played, and turning it off restores the source with the additions behind it
\* (append_queue_items, move_queue_item, set_queue_shuffle).  Requests at the same
\* time break it, see NoAdditionStaysParked.
ImplementsOrder == Order!Spec

\* Only a move meets the index, when a removed row still holds a place it needs:
\* additions and reorders find theirs free (append_queue_items, set_queue_shuffle).
\* That is so while requests come one at a time: two additions that both read the
\* last position before either inserts do clash.
OnlyMovesFail == failed \subseteq {"move"}

\* An addition that a reorder has parked comes back to the end: "items appended later
\* by autoplay have none and stay at the end in their existing order"
\* (set_queue_shuffle).
NoAdditionStaysParked ==
    \A r \in DOMAIN rows : rows[r].source = None => rows[r].position >= 0

=============================================================================
