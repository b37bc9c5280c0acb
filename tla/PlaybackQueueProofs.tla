------------------------ MODULE PlaybackQueueProofs -------------------------
(***************************************************************************)
(* Proofs about PlaybackQueue when its requests come one at a time.  What  *)
(* a thread has read is then still true when it writes (Knows), so the     *)
(* places it writes are free, and positions always spell the order that    *)
(* QueueOrder promises.                                                    *)
(***************************************************************************)
EXTENDS PlaybackQueue, FiniteSetTheorems, WellFoundedInduction, TLAPS

RowType == [position : Int, source : 0..MaxRows \cup {None}, removed : BOOLEAN]

\* Rows have a position each and, if they come from the source, an index each; none
\* is left parked.
RowsInv ==
    /\ made \in 0..MaxRows
    /\ DOMAIN rows \subseteq 1..made
    /\ rows \in [DOMAIN rows -> RowType]
    /\ ~Clash(rows)
    /\ \A r \in DOMAIN rows : rows[r].position >= 0
    /\ \A r, s \in DOMAIN rows :
          rows[r].source # None /\ rows[r].source = rows[s].source => r = s

SessionInv ==
    /\ current \in DOMAIN rows \cup {None}
    /\ shuffled \in BOOLEAN
    /\ handed \subseteq Handovers

\* Each row of S has a place of its own.
Distinct(places, S) == places \in [S -> Nat] /\ IsInjective(places)

\* Two rows have their places in the order of their positions.
Agree(places, r, s) == places[r] < places[s] <=> rows[r].position < rows[s].position

MovePlan(places) ==
    /\ Distinct(places, Visible(rows))
    /\ \E r \in Visible(rows) : \A s, t \in Visible(rows) \ {r} : Agree(places, s, t)

SparesPlayed(places) ==
    \A r \in Pivot(rows, current), s \in DOMAIN rows : Agree(places, r, s)

FollowsSource(places) ==
    \A r, s \in DOMAIN rows : places[r] < places[s] <=> SourceLess(r, s)

ShufflePlan(places) ==
    /\ Distinct(places, DOMAIN rows)
    /\ SparesPlayed(places) \/ FollowsSource(places)

\* What a thread has read holds until it writes.
Knows(call) ==
    /\ call.op = "add" =>
          /\ call.count \in 1..2 /\ call.last \in Int /\ call.last >= -1
          /\ \A r \in DOMAIN rows : rows[r].position <= call.last
    /\ call.op \in {"removed", "jump", "click", "handover"} => call.row \in DOMAIN rows
    /\ call.op = "handover" => call.id \in Handovers
    /\ call.op = "move" => MovePlan(call.places)
    /\ call.op \in {"flag", "session", "rows"} => call.on \in BOOLEAN
    /\ call.op = "rows" => call.current = current
    /\ call.op = "shuffle" => ShufflePlan(call.places)

CallsInv ==
    /\ calls = [c \in Threads |-> calls[c]]
    /\ \A c \in Threads : calls[c] # None => Knows(calls[c])

\* Requests come one at a time.
OneRequest == \A c, d \in Threads : c = d

IInv == RowsInv /\ SessionInv /\ CallsInv /\ OnlyMovesFail

-----------------------------------------------------------------------------
(* Orders and places. *)

\* b puts the rows of S, and perhaps others, one behind the other.
Ranks(b, S) ==
    /\ \A r \in S : <<r, r>> \notin b
    /\ \A r, s \in S : r # s => <<r, s>> \in b \/ <<s, r>> \in b
    /\ \A r, s, t \in S : <<r, s>> \in b /\ <<s, t>> \in b => <<r, t>> \in b

LEMMA SmallerSet ==
    ASSUME NEW S, IsFiniteSet(S), NEW T \in SUBSET S, T # S
    PROVE  Cardinality(T) < Cardinality(S)
<1>1. Cardinality(T) <= Cardinality(S) /\ Cardinality(T) # Cardinality(S)
  BY FS_Subset
<1>2. Cardinality(T) \in Nat /\ Cardinality(S) \in Nat
  BY FS_Subset, FS_CardinalityType
<1> QED
  BY <1>1, <1>2

\* The greatest element of a finite set of integers is one.
LEMMA MaxIsGreatest ==
    ASSUME NEW S \in SUBSET Int, IsFiniteSet(S), S # {}
    PROVE  Max(S) \in S /\ \A n \in S : n <= Max(S)
<1> DEFINE Above(n) == {m \in S : m > n}
           I == {Cardinality(Above(n)) : n \in S}
<1>1. \A n \in S : IsFiniteSet(Above(n)) /\ Cardinality(Above(n)) \in Nat
  BY FS_Subset, FS_CardinalityType
<1>2. I \subseteq Nat /\ I # {}
  BY <1>1
<1>3. PICK k \in I : \A i \in I : ~(<<i, k>> \in OpToRel(<, Nat))
  BY <1>2, NatLessThanWellFounded, WFMin
<1>4. PICK n \in S : k = Cardinality(Above(n))
  BY <1>3
<1>5. ASSUME NEW m \in S, m > n PROVE FALSE
  <2>1. Above(m) \in SUBSET Above(n) /\ Above(m) # Above(n)
    <3>1. m \in Above(n) /\ m \notin Above(m)
      BY <1>5
    <3>2. \A x \in Above(m) : x \in Above(n)
      BY <1>5
    <3> QED
      BY <3>1, <3>2, Zenon
  <2>2. Cardinality(Above(m)) < Cardinality(Above(n))
    BY <2>1, <1>1, SmallerSet
  <2>3. Cardinality(Above(m)) \in I /\ Cardinality(Above(m)) \in Nat /\ k \in Nat
    BY <1>1, <1>2, <1>3
  <2>4. \A i \in I : i \in Nat => ~(i < k)
    BY <2>3, <1>3, Zenon DEF OpToRel
  <2> QED
    BY <2>2, <2>3, <2>4, <1>4
<1>6. \E x \in S : \A y \in S : x >= y
  BY <1>5
<1> QED
  BY <1>6 DEF Max

\* Places count from 0, without a gap, in the order they are taken from.
LEMMA PlacesFollow ==
    ASSUME NEW S, IsFiniteSet(S), NEW b, Ranks(b, S)
    PROVE  /\ Places(S, b) \in Injection(S, 0 .. Cardinality(S) - 1)
           /\ \A r, s \in S : Places(S, b)[r] < Places(S, b)[s] <=> <<r, s>> \in b
           /\ \A n \in 0 .. Cardinality(S) - 1 : \E r \in S : Places(S, b)[r] = n
<1> DEFINE p == Places(S, b)
           Ahead(r) == {s \in S : <<s, r>> \in b}
           N == 0 .. Cardinality(S) - 1
<1>0. \A r \in S : Ahead(r) \in SUBSET S
  OBVIOUS
<1>1. \A r \in S : IsFiniteSet(Ahead(r)) /\ Cardinality(Ahead(r)) \in Nat
  BY <1>0, FS_Subset, FS_CardinalityType
<1>2. p = [r \in S |-> Cardinality(Ahead(r))]
  BY DEF Places
<1>3. Cardinality(S) \in Nat
  BY FS_CardinalityType
<1>4. ASSUME NEW r \in S PROVE Cardinality(Ahead(r)) < Cardinality(S)
  <2>1. Ahead(r) \in SUBSET S /\ Ahead(r) # S
    BY DEF Ranks
  <2> QED
    BY <2>1, SmallerSet
<1>5. ASSUME NEW r \in S, NEW s \in S, <<r, s>> \in b PROVE p[r] < p[s]
  <2>1. Ahead(r) \in SUBSET Ahead(s) /\ Ahead(r) # Ahead(s)
    BY <1>5 DEF Ranks
  <2>2. Cardinality(Ahead(r)) < Cardinality(Ahead(s))
    BY <2>1, <1>1, SmallerSet
  <2> QED
    BY <2>2, <1>2
<1>6. p \in [S -> N]
  <2>1. \A r \in S : Cardinality(Ahead(r)) \in N
    <3> HIDE DEF Ahead
    <3> QED
      BY <1>1, <1>3, <1>4
  <2> HIDE DEF Ahead, N, p
  <2> QED
    BY <2>1, <1>2
<1>7. \A r, s \in S : p[r] < p[s] <=> <<r, s>> \in b
  <2> SUFFICES ASSUME NEW r \in S, NEW s \in S PROVE p[r] < p[s] <=> <<r, s>> \in b
    OBVIOUS
  <2>1. p[r] \in Int /\ p[s] \in Int
    BY <1>6
  <2>2. r = s \/ <<r, s>> \in b \/ <<s, r>> \in b
    BY DEF Ranks
  <2>3. <<s, r>> \in b => p[s] < p[r]
    BY <1>5
  <2>4. <<r, s>> \in b => p[r] < p[s]
    BY <1>5
  <2> QED
    BY <2>1, <2>2, <2>3, <2>4
<1>8. IsInjective(p)
  <2>1. \A r, s \in S : p[r] = p[s] => r = s
    BY <1>6, <1>7 DEF Ranks
  <2> QED
    BY <2>1, <1>2 DEF IsInjective
<1>9. IsFiniteSet(N) /\ Cardinality(N) = Cardinality(S)
  BY <1>3, FS_Interval
<1>10. p \in Surjection(S, N)
  BY <1>6, <1>8, <1>9, FS_Injection DEF Injection
<1> QED
  BY <1>6, <1>7, <1>8, <1>10 DEF Injection, Surjection

LEMMA RanksOfPart ==
    ASSUME NEW S, NEW b, Ranks(b, S), NEW T \in SUBSET S
    PROVE  Ranks(b, T)
BY DEF Ranks

LEMMA RowsAreFinite == RowsInv => IsFiniteSet(DOMAIN rows)
<1>1. MaxRows \in Int /\ 1 \in Int
  BY MaxRowsAssumption
<1>2. RowsInv => made \in Int
  BY MaxRowsAssumption DEF RowsInv
<1> QED
  BY <1>2, FS_Interval, FS_Subset DEF RowsInv

\* Positions order the rows.
LEMMA TableRanks ==
    ASSUME NEW table, \A r \in DOMAIN table : table[r].position \in Int, ~Clash(table)
    PROVE  /\ Ranks(Ordered(table), DOMAIN table)
           /\ Order!IsOrder(Ordered(table), DOMAIN table)
           /\ \A r, s \in DOMAIN table :
                 <<r, s>> \in Ordered(table) <=> table[r].position < table[s].position
<1>1. \A r, s \in DOMAIN table : r # s => table[r].position # table[s].position
  BY DEF Clash
<1>2. \A r, s \in DOMAIN table :
         <<r, s>> \in Ordered(table) <=> table[r].position < table[s].position
  BY DEF Ordered
<1>3. Ranks(Ordered(table), DOMAIN table)
  BY <1>1, <1>2 DEF Ranks
<1>4. Ordered(table) \subseteq (DOMAIN table) \X (DOMAIN table)
  BY DEF Ordered
<1> QED
  BY <1>2, <1>3, <1>4 DEF Ranks, Order!IsOrder

LEMMA PositionsRank ==
    ASSUME RowsInv
    PROVE  /\ Ranks(Ordered(rows), DOMAIN rows)
           /\ \A r, s \in DOMAIN rows :
                 <<r, s>> \in Ordered(rows) <=> rows[r].position < rows[s].position
<1>1. \A r \in DOMAIN rows : rows[r].position \in Int
  BY DEF RowsInv, RowType
<1> QED
  BY <1>1, TableRanks DEF RowsInv

\* So do the source and, behind it, the positions of what was added.
LEMMA SourceRanks ==
    ASSUME RowsInv
    PROVE  /\ Ranks(SourceOrder, DOMAIN rows)
           /\ \A r, s \in DOMAIN rows : <<r, s>> \in SourceOrder <=> SourceLess(r, s)
<1>1. \A r \in DOMAIN rows : rows[r].position \in Int
  BY DEF RowsInv, RowType
<1>2. \A r \in DOMAIN rows : rows[r].source # None => rows[r].source \in Int
  BY MaxRowsAssumption DEF RowsInv, RowType
<1>3. \A r, s \in DOMAIN rows : r # s => rows[r].position # rows[s].position
  BY DEF RowsInv, Clash
<1>4. \A r, s \in DOMAIN rows : <<r, s>> \in SourceOrder <=> SourceLess(r, s)
  BY DEF SourceOrder
<1>5. \A r \in DOMAIN rows : ~SourceLess(r, r)
  BY <1>1, <1>2 DEF SourceLess
<1>6. \A r, s \in DOMAIN rows : r # s => SourceLess(r, s) \/ SourceLess(s, r)
  BY <1>1, <1>2, <1>3 DEF SourceLess, RowsInv
<1>7. \A r, s, t \in DOMAIN rows : SourceLess(r, s) /\ SourceLess(s, t) => SourceLess(r, t)
  BY <1>1, <1>2 DEF SourceLess
<1> QED
  BY <1>4, <1>5, <1>6, <1>7 DEF Ranks

-----------------------------------------------------------------------------
(* What is planned from the rows. *)

\* move_queue_item gives each visible row a place of its own and disturbs none but
\* the one it moves.
LEMMA MoveIsPlanned ==
    ASSUME RowsInv, NEW r \in Visible(rows), NEW place \in Nat
    PROVE  MovePlan(Inserted(rows, r, place))
<1> DEFINE others == Visible(rows) \ {r}
           old == Places(others, Ordered(rows))
           at == Min({place, Cardinality(others)})
           new == Inserted(rows, r, place)
<1>1. others \in SUBSET DOMAIN rows /\ Visible(rows) \in SUBSET DOMAIN rows
  BY DEF Visible
<1>2. IsFiniteSet(others) /\ Cardinality(others) \in Nat
  BY <1>1, RowsAreFinite, FS_Subset, FS_CardinalityType
<1>3. Ranks(Ordered(rows), others)
  BY <1>1, PositionsRank, RanksOfPart
<1>4. /\ old \in Injection(others, 0 .. Cardinality(others) - 1)
      /\ \A s, t \in others : old[s] < old[t] <=> <<s, t>> \in Ordered(rows)
  BY <1>2, <1>3, PlacesFollow
<1>5. old \in [others -> Nat] /\ \A s, t \in others : old[s] = old[t] => s = t
  <2>1. 0 .. Cardinality(others) - 1 \subseteq Nat
    BY <1>2
  <2>2. old \in [others -> 0 .. Cardinality(others) - 1] /\ IsInjective(old)
    BY <1>4 DEF Injection
  <2>3. DOMAIN old = others
    BY <2>2
  <2> QED
    BY <2>1, <2>2, <2>3 DEF IsInjective
<1>6. at \in Nat
  <2>1. \E x \in {place, Cardinality(others)} : \A y \in {place, Cardinality(others)} : x =< y
    BY <1>2
  <2> QED
    BY <2>1, <1>2 DEF Min
<1>7. new = [s \in Visible(rows) |->
           IF s = r THEN at ELSE IF old[s] < at THEN old[s] ELSE old[s] + 1]
  BY DEF Inserted
<1> HIDE DEF others, old, at, new
<1>8. \A s \in Visible(rows) : s = r \/ s \in others
  BY DEF others
<1>9. r \notin others /\ others \subseteq Visible(rows)
  BY DEF others
<1>10. /\ new[r] = at
       /\ \A s \in others : new[s] = IF old[s] < at THEN old[s] ELSE old[s] + 1
  BY <1>7, <1>9
<1>11. new \in [Visible(rows) -> Nat]
  BY <1>5, <1>6, <1>7, <1>8
<1>12. \A s \in others : new[s] # new[r]
  BY <1>5, <1>6, <1>10
<1>13. \A s, t \in others : new[s] < new[t] <=> old[s] < old[t]
  BY <1>5, <1>6, <1>10
<1>14. \A s, t \in others : new[s] = new[t] => s = t
  BY <1>5, <1>6, <1>10
<1>15. IsInjective(new)
  BY <1>8, <1>11, <1>12, <1>14 DEF IsInjective
<1>16. \A s, t \in others : Agree(new, s, t)
  BY <1>1, <1>4, <1>13, PositionsRank DEF Agree
<1> QED
  BY <1>11, <1>15, <1>16 DEF MovePlan, Distinct, others, new

\* set_queue_shuffle turned on leaves what has played where it was.
LEMMA ShuffleIsPlanned ==
    ASSUME RowsInv, NEW new \in Shuffles(rows, current)
    PROVE  ShufflePlan(new)
<1> DEFINE D == DOMAIN rows
           old == Places(D, Ordered(rows))
           N == 0 .. Cardinality(D) - 1
<1>1. IsFiniteSet(D) /\ Cardinality(D) \in Nat
  BY RowsAreFinite, FS_CardinalityType
<1>2. /\ old \in Injection(D, N)
      /\ \A r, s \in D : old[r] < old[s] <=> <<r, s>> \in Ordered(rows)
      /\ \A n \in N : \E r \in D : old[r] = n
  BY <1>1, PositionsRank, PlacesFollow
<1>3. new \in Injection(D, N) /\ \A r \in Pivot(rows, current) : new[r] = old[r]
  BY DEF Shuffles
<1>4. /\ \A r \in D : new[r] \in Nat /\ old[r] \in Nat /\ new[r] \in N
      /\ \A r, s \in D : (new[r] = new[s] \/ old[r] = old[s]) => r = s
  BY <1>1, <1>2, <1>3 DEF Injection, IsInjective
<1>5. Distinct(new, D)
  BY <1>3, <1>4 DEF Distinct, Injection
<1>6. \A r, s \in D : old[r] < old[s] <=> rows[r].position < rows[s].position
  BY <1>2, PositionsRank
<1>7. \A r \in D : rows[r].position \in Int
  BY DEF RowsInv, RowType
<1>8. \A r \in Pivot(rows, current), s \in D :
         r \in D /\ (rows[s].position < rows[r].position => s \in Pivot(rows, current))
  BY <1>7 DEF Pivot
<1> HIDE DEF D, old, N
<1>9. ASSUME NEW r \in Pivot(rows, current), NEW s \in D PROVE new[r] < new[s] <=> old[r] < old[s]
  <2>1. r \in D /\ new[r] = old[r]
    BY <1>3, <1>8
  <2>2. CASE s \in Pivot(rows, current)
    BY <1>3, <2>1, <2>2
  <2>3. CASE s \notin Pivot(rows, current)
    <3>1. ~(old[s] < old[r]) /\ s # r
      BY <1>6, <1>8, <2>1, <2>3
    <3>2. old[r] < old[s]
      BY <3>1, <1>4, <2>1
    <3>3. PICK t \in D : old[t] = new[s]
      BY <1>2, <1>4
    <3>4. t \notin Pivot(rows, current)
      <4>1. t \in Pivot(rows, current) => new[t] = new[s]
        BY <3>3, <1>3
      <4> QED
        BY <4>1, <1>4, <2>3
    <3>5. ~(old[t] < old[r]) /\ t # r
      BY <1>6, <1>8, <2>1, <3>4
    <3>6. new[r] < new[s]
      BY <3>3, <3>5, <2>1, <1>4
    <3> QED
      BY <3>2, <3>6
  <2> QED
    BY <2>2, <2>3
<1>10. SparesPlayed(new)
  BY <1>6, <1>8, <1>9 DEF SparesPlayed, Agree, D
<1> QED
  BY <1>5, <1>10 DEF ShufflePlan, D

\* Turned off, it restores the source order.
LEMMA RestoreIsPlanned ==
    ASSUME RowsInv
    PROVE  ShufflePlan(Places(DOMAIN rows, SourceOrder))
<1> DEFINE D == DOMAIN rows
           new == Places(D, SourceOrder)
           N == 0 .. Cardinality(D) - 1
<1>1. IsFiniteSet(D) /\ Cardinality(D) \in Nat
  BY RowsAreFinite, FS_CardinalityType
<1>2. /\ new \in Injection(D, N)
      /\ \A r, s \in D : new[r] < new[s] <=> <<r, s>> \in SourceOrder
  BY <1>1, SourceRanks, PlacesFollow
<1>3. N \subseteq Nat
  BY <1>1
<1>4. \A r, s \in D : new[r] < new[s] <=> SourceLess(r, s)
  BY <1>2, SourceRanks
<1> HIDE DEF new, N
<1>5. Distinct(new, D)
  BY <1>2, <1>3 DEF Distinct, Injection
<1> QED
  BY <1>4, <1>5 DEF ShufflePlan, FollowsSource, new

-----------------------------------------------------------------------------
(* What is written. *)

LEMMA CallsNext ==
    ASSUME OneRequest, CallsInv, NEW c \in Threads, NEW call, Go(c, call),
           call = None \/ Knows(call)'
    PROVE  CallsInv'
<1>1. \A d \in Threads : d = c
  BY DEF OneRequest
<1>2. calls' = [d \in Threads |-> call]
  BY <1>1 DEF CallsInv, Go
<1> QED
  BY <1>2 DEF CallsInv

\* The status of a row changes and nothing else.
LEMMA FlagWritten ==
    ASSUME RowsInv, NEW r \in DOMAIN rows, NEW flag \in BOOLEAN,
           rows' = SetRemoved(r, flag), made' = made
    PROVE  /\ RowsInv'
           /\ DOMAIN rows' = DOMAIN rows
           /\ \A s \in DOMAIN rows : /\ rows'[s].position = rows[s].position
                                     /\ rows'[s].source = rows[s].source
                                     /\ rows'[s].removed = IF s = r THEN flag ELSE rows[s].removed
<1>1. rows' = [rows EXCEPT ![r].removed = flag]
  BY DEF SetRemoved
<1>2. DOMAIN rows' = DOMAIN rows
  BY <1>1
<1>3. \A s \in DOMAIN rows : /\ rows'[s].position = rows[s].position
                             /\ rows'[s].source = rows[s].source
                             /\ rows'[s].removed = IF s = r THEN flag ELSE rows[s].removed
  BY <1>1 DEF RowsInv, RowType
<1>4. rows' \in [DOMAIN rows' -> RowType]
  BY <1>1 DEF RowsInv, RowType
<1>5. ~Clash(rows)'
  BY <1>2, <1>3 DEF RowsInv, Clash
<1>6. RowsInv'
  BY <1>2, <1>3, <1>4, <1>5 DEF RowsInv
<1> QED
  BY <1>2, <1>3, <1>6

LEMMA LastIsLast ==
    ASSUME RowsInv
    PROVE  /\ LastPosition(rows) \in Int /\ LastPosition(rows) >= -1
           /\ \A r \in DOMAIN rows : rows[r].position <= LastPosition(rows)
<1> DEFINE P == {rows[r].position : r \in DOMAIN rows}
           f == [r \in DOMAIN rows |-> rows[r].position]
<1>1. f \in Surjection(DOMAIN rows, P)
  BY DEF Surjection
<1>2. IsFiniteSet(P)
  BY <1>1, RowsAreFinite, FS_Surjection
<1>3. IsFiniteSet(P \cup {-1})
  BY <1>2, FS_AddElement
<1>4. P \cup {-1} \in SUBSET Int /\ P \cup {-1} # {}
  BY DEF RowsInv, RowType
<1>5. LastPosition(rows) \in P \cup {-1} /\ \A n \in P \cup {-1} : n <= LastPosition(rows)
  BY <1>3, <1>4, MaxIsGreatest DEF LastPosition
<1> QED
  BY <1>4, <1>5

\* Rows that are moved get their new places if none is taken, and nothing else
\* changes.
LEMMA Moved ==
    ASSUME RowsInv, NEW places, MovePlan(places)
    PROVE  LET table == Placed(rows, places)
           IN /\ DOMAIN table = DOMAIN rows
              /\ table \in [DOMAIN rows -> RowType]
              /\ \A r \in DOMAIN rows :
                    /\ table[r].source = rows[r].source
                    /\ table[r].removed = rows[r].removed
                    /\ table[r].position >= 0
                    /\ r \in Visible(rows) => table[r].position = places[r]
<1> DEFINE table == Placed(rows, places)
<1>1. places \in [Visible(rows) -> Nat]
  BY DEF MovePlan, Distinct
<1>2. table = [r \in DOMAIN rows |->
                 IF r \in Visible(rows) THEN [rows[r] EXCEPT !.position = places[r]] ELSE rows[r]]
  BY <1>1 DEF Placed
<1>3. ASSUME NEW r \in DOMAIN rows
      PROVE  /\ table[r] \in RowType
             /\ table[r].source = rows[r].source
             /\ table[r].removed = rows[r].removed
             /\ table[r].position >= 0
             /\ r \in Visible(rows) => table[r].position = places[r]
  <2>1. rows[r] \in RowType /\ rows[r].position >= 0
    BY DEF RowsInv
  <2>2. CASE r \in Visible(rows)
    <3>1. table[r] = [rows[r] EXCEPT !.position = places[r]] /\ places[r] \in Nat
      BY <1>1, <1>2, <2>2
    <3> QED
      BY <2>1, <3>1 DEF RowType
  <2>3. CASE r \notin Visible(rows)
    BY <1>2, <2>1, <2>3
  <2> QED
    BY <2>2, <2>3
<1>4. table \in [DOMAIN rows -> RowType]
  BY <1>2, <1>3
<1> QED
  BY <1>2, <1>3, <1>4

\* A reorder finds every place free: no row was parked, and each gets another place.
LEMMA Reordered ==
    ASSUME RowsInv, NEW places, ShufflePlan(places)
    PROVE  LET table == Placed(Parked(rows), places)
           IN /\ ~InTheWay(places)
              /\ ~Clash(table)
              /\ DOMAIN table = DOMAIN rows
              /\ table \in [DOMAIN rows -> RowType]
              /\ \A r \in DOMAIN rows :
                    /\ table[r].source = rows[r].source
                    /\ table[r].removed = rows[r].removed
                    /\ table[r].position = places[r] /\ places[r] >= 0
<1> DEFINE table == Placed(Parked(rows), places)
<1>1. /\ places \in [DOMAIN rows -> Nat]
      /\ \A r, s \in DOMAIN rows : places[r] = places[s] => r = s
  BY DEF ShufflePlan, Distinct, IsInjective
<1>2. \A r \in DOMAIN rows : rows[r] \in RowType /\ rows[r].position >= 0
  BY DEF RowsInv
<1>3. ASSUME NEW r \in DOMAIN rows
      PROVE  /\ Parked(rows)[r] \in RowType
             /\ Parked(rows)[r].position < 0
             /\ Parked(rows)[r].source = rows[r].source
             /\ Parked(rows)[r].removed = rows[r].removed
  <2>1. Parked(rows)[r] = [rows[r] EXCEPT !.position = -1 - rows[r].position]
    BY DEF Parked
  <2>2. PICK row : row = rows[r]
    OBVIOUS
  <2>3. row \in RowType /\ row.position >= 0 /\ row.position \in Int
    BY <1>2, <2>2 DEF RowType
  <2> QED
    BY <2>1, <2>2, <2>3 DEF RowType
<1>4. \A r \in DOMAIN rows : rows[r].position \in Int
  BY <1>2 DEF RowType
<1>5. ~InTheWay(places)
  <2>1. \A r \in DOMAIN rows : Parked(rows)[r].position \in Int /\ Parked(rows)[r].position < 0
    BY <1>3 DEF RowType
  <2>2. \A r, s \in DOMAIN rows : rows[s].position # Parked(rows)[r].position
    BY <1>2, <1>4, <2>1
  <2>3. \A r \in DOMAIN rows : \A n : Parked(rows)[r].position \notin 0 .. n
    BY <2>1
  <2> QED
    BY <2>2, <2>3, Zenon DEF InTheWay
<1>6. DOMAIN Parked(rows) = DOMAIN rows
  BY DEF Parked
<1>7. table = [r \in DOMAIN rows |-> [Parked(rows)[r] EXCEPT !.position = places[r]]]
  BY <1>1, <1>6 DEF Placed
<1>8. ASSUME NEW r \in DOMAIN rows
      PROVE  /\ table[r] \in RowType
             /\ table[r].source = rows[r].source
             /\ table[r].removed = rows[r].removed
             /\ table[r].position = places[r] /\ places[r] >= 0
  <2>1. places[r] \in Nat
    BY <1>1
  <2>2. /\ Parked(rows)[r] \in RowType
        /\ Parked(rows)[r].source = rows[r].source
        /\ Parked(rows)[r].removed = rows[r].removed
    BY <1>3
  <2>3. table[r] = [Parked(rows)[r] EXCEPT !.position = places[r]]
    BY <1>7
  <2> HIDE DEF table
  <2> QED
    BY <2>1, <2>2, <2>3 DEF RowType
<1>9. table \in [DOMAIN rows -> RowType]
  BY <1>7, <1>8
<1>10. ~Clash(table)
  <2>1. DOMAIN table = DOMAIN rows
    BY <1>7
  <2> HIDE DEF table
  <2> QED
    BY <1>1, <1>8, <2>1 DEF Clash
<1> QED
  BY <1>5, <1>7, <1>8, <1>9, <1>10

-----------------------------------------------------------------------------
(* The order that the rows spell. *)

Source == [r \in DOMAIN rows |-> rows[r].source]

Hidden == {r \in DOMAIN rows : rows[r].removed}

\* What a step owes to the order.
Refines == Order!Next \/ UNCHANGED Order!vars

LEMMA PresentIs ==
    /\ Order!Present = DOMAIN rows
    /\ DOMAIN Source = DOMAIN rows
    /\ \A r \in DOMAIN rows : Source[r] = rows[r].source
BY DEF Order!Present, Source

LEMMA Stutters ==
    ASSUME UNCHANGED <<rows, current>>
    PROVE  Refines
BY DEF Refines, Order!vars

\* Positions and sources that stay spell the same order.
LEMMA Unmoved ==
    ASSUME DOMAIN rows' = DOMAIN rows,
           \A r \in DOMAIN rows : /\ rows'[r].position = rows[r].position
                                 /\ rows'[r].source = rows[r].source
    PROVE  Ordered(rows)' = Ordered(rows) /\ Source' = Source
<1>1. Ordered(rows)' = Ordered(rows)
  BY DEF Ordered
<1>2. Source' = Source
  BY DEF Source
<1> QED
  BY <1>1, <1>2

\* A status that changes hides or shows the row, and may make it current.
LEMMA FlagRefines ==
    ASSUME RowsInv, NEW r \in DOMAIN rows, NEW flag \in BOOLEAN,
           rows' = SetRemoved(r, flag), made' = made,
           current' = current \/ (flag = FALSE /\ current' = r)
    PROVE  Refines
<1>1. r \in 1..MaxRows
  BY MaxRowsAssumption DEF RowsInv
<1>2. Ordered(rows)' = Ordered(rows) /\ Source' = Source
  BY FlagWritten, Unmoved
<1>3. Hidden' = IF flag THEN Hidden \cup {r} ELSE Hidden \ {r}
  BY FlagWritten DEF Hidden
<1>4. r \in Order!Present
  BY PresentIs
<1>5. CASE flag = TRUE /\ current' = current
  <2>1. Order!Hide(r)
    BY <1>2, <1>3, <1>4, <1>5 DEF Order!Hide, Source, Hidden
  <2> QED
    BY <2>1, <1>1 DEF Refines, Order!Next
<1>6. CASE flag = FALSE /\ current' = current
  <2>1. Order!Show(r)
    BY <1>2, <1>3, <1>4, <1>6 DEF Order!Show, Source, Hidden
  <2> QED
    BY <2>1, <1>1 DEF Refines, Order!Next
<1>7. CASE flag = FALSE /\ current' = r
  <2>1. Order!Play(r)
    BY <1>2, <1>3, <1>4, <1>7 DEF Order!Play, Source, Hidden
  <2> QED
    BY <2>1, <1>1 DEF Refines, Order!Next
<1> QED
  BY <1>5, <1>6, <1>7

-----------------------------------------------------------------------------
(* Every step keeps the invariant and refines the order. *)

StepOK == IInv' /\ Refines

LEMMA InitOK == Init => IInv /\ Order!Init
<1> SUFFICES ASSUME Init PROVE IInv /\ Order!Init
  OBVIOUS
<1>1. PICK sources \in [1..made -> 0..(made - 1)] :
         /\ IsInjective(sources)
         /\ rows = [r \in 1..made |-> [position |-> r - 1, source |-> sources[r], removed |-> FALSE]]
  BY DEF Init
<1>2. made \in 0..2 /\ made <= MaxRows /\ made \in Nat
  BY DEF Init
<1>3. DOMAIN rows = 1..made
  BY <1>1
<1>4. \A r \in 1..made : /\ rows[r].position = r - 1 /\ rows[r].source = sources[r]
                         /\ rows[r].removed = FALSE /\ sources[r] \in 0..(made - 1)
  BY <1>1
<1>5. \A r, s \in 1..made : sources[r] = sources[s] => r = s
  BY <1>1 DEF IsInjective
<1>6. rows \in [DOMAIN rows -> RowType]
  <2>1. \A r \in 1..made : sources[r] \in 0..MaxRows /\ r - 1 \in Int
    BY <1>2, <1>4, MaxRowsAssumption
  <2> QED
    BY <1>1, <1>3, <2>1 DEF RowType
<1>7. ~Clash(rows)
  BY <1>3, <1>4 DEF Clash
<1>8. RowsInv
  BY <1>2, <1>3, <1>4, <1>5, <1>6, <1>7, MaxRowsAssumption DEF RowsInv
<1>9. current = IF made = 0 THEN None ELSE 1
  BY DEF Init
<1>10. IInv
  BY <1>2, <1>3, <1>8, <1>9 DEF Init, IInv, SessionInv, CallsInv, OnlyMovesFail
<1>11. /\ Order!IsOrder(Ordered(rows), DOMAIN rows)
       /\ \A r, s \in DOMAIN rows :
             <<r, s>> \in Ordered(rows) <=> rows[r].position < rows[s].position
  <2>1. \A r \in DOMAIN rows : rows[r].position \in Int
    BY <1>3, <1>4
  <2> QED
    BY <2>1, <1>7, TableRanks
<1>12. Order!PlaysFirst(current, Ordered(rows), DOMAIN rows)
  <2>1. CASE made = 0
    BY <1>3, <1>9, <2>1 DEF Order!PlaysFirst
  <2>2. CASE made # 0
    <3>1. 1 \in 1..made /\ current = 1
      BY <1>2, <1>9, <2>2
    <3>2. \A s \in DOMAIN rows \ {1} : <<1, s>> \in Ordered(rows)
      BY <1>3, <1>4, <1>11, <3>1
    <3> QED
      BY <1>3, <3>1, <3>2 DEF Order!PlaysFirst, Order!IsFirst
  <2> QED
    BY <2>1, <2>2
<1>13. \A r \in DOMAIN rows : Source[r] \in Nat
  BY <1>2, <1>3, <1>4, PresentIs
<1>14. \A r, s \in DOMAIN rows : Source[r] = Source[s] => r = s
  BY <1>3, <1>4, <1>5, PresentIs
<1>15. Hidden = {}
  BY <1>3, <1>4 DEF Hidden
<1>16. DOMAIN rows \subseteq 1..MaxRows
  BY <1>2, <1>3, MaxRowsAssumption
<1>17. Order!Init
  BY <1>11, <1>12, <1>13, <1>14, <1>15, <1>16, PresentIs DEF Order!Init, Source, Hidden
<1> QED
  BY <1>10, <1>17

\* A thread that is idle and stays so.
LEMMA StaysIdle ==
    ASSUME CallsInv, NEW c \in Threads, Idle(c), UNCHANGED calls
    PROVE  Go(c, None)
BY DEF CallsInv, Idle, Go

LEMMA RowsStay ==
    ASSUME RowsInv, UNCHANGED <<rows, made>>
    PROVE  RowsInv'
BY DEF RowsInv, Clash

\* Steps that only read.
LEMMA QuietStep ==
    ASSUME IInv, OneRequest, NEW c \in Threads, NEW call, Go(c, call),
           call = None \/ Knows(call)',
           UNCHANGED <<rows, made, current, handed, failed>>, shuffled' \in BOOLEAN
    PROVE  StepOK
<1>1. CallsInv'
  BY CallsNext DEF IInv
<1>2. RowsInv'
  BY RowsStay DEF IInv
<1>3. SessionInv' /\ OnlyMovesFail'
  BY DEF IInv, SessionInv, OnlyMovesFail
<1> QED
  BY <1>1, <1>2, <1>3, Stutters DEF StepOK, IInv

\* Steps that set the status of a row.
LEMMA FlagStep ==
    ASSUME IInv, OneRequest, NEW c \in Threads, NEW call, Go(c, call),
           call = None \/ Knows(call)',
           NEW r \in DOMAIN rows, NEW flag \in BOOLEAN, rows' = SetRemoved(r, flag),
           current' = current \/ (flag = FALSE /\ current' = r),
           handed' \subseteq Handovers, UNCHANGED <<made, shuffled, failed>>
    PROVE  StepOK
<1>1. CallsInv'
  BY CallsNext DEF IInv
<1>2. RowsInv' /\ DOMAIN rows' = DOMAIN rows
  BY FlagWritten DEF IInv
<1>3. SessionInv' /\ OnlyMovesFail'
  BY <1>2 DEF IInv, SessionInv, OnlyMovesFail
<1>4. Refines
  BY FlagRefines DEF IInv
<1> QED
  BY <1>1, <1>2, <1>3, <1>4 DEF StepOK, IInv

LEMMA FlagSteps ==
    ASSUME IInv, OneRequest, NEW c \in Threads, NEW r \in 1..made,
           Remove1(c, r) \/ Heard(c, r) \/ Started(c, r)
    PROVE  StepOK
<1>1. r \in DOMAIN rows /\ UNCHANGED <<made, shuffled, handed, failed>> /\ handed' \subseteq Handovers
  BY DEF Remove1, Heard, Started, IInv, SessionInv
<1>2. CASE Remove1(c, r)
  <2>1. rows' = SetRemoved(r, TRUE) /\ current' = current
    BY <1>2 DEF Remove1
  <2>2. PICK call : call = [op |-> "removed", row |-> r] /\ Go(c, call)
    BY <1>2 DEF Remove1
  <2>3. Knows(call)'
    BY <1>1, <2>1, <2>2, FlagWritten DEF Knows, IInv
  <2> QED
    BY <1>1, <2>1, <2>2, <2>3, FlagStep
<1>3. CASE Heard(c, r) \/ Started(c, r)
  <2>1. /\ rows' = SetRemoved(r, FALSE) /\ (current' = current \/ current' = r)
        /\ Idle(c) /\ UNCHANGED calls
    BY <1>3 DEF Heard, Started
  <2>2. Go(c, None)
    BY <2>1, StaysIdle DEF IInv
  <2> QED
    BY <1>1, <2>1, <2>2, FlagStep
<1> QED
  BY <1>2, <1>3

LEMMA Follows ==
    ASSUME IInv, OneRequest, NEW c \in Threads,
           Remove2(c) \/ Jump(c) \/ Click(c) \/ Handover(c)
    PROVE  StepOK
<1>1. calls[c] # None /\ Knows(calls[c])
  BY DEF Remove2, Jump, Click, Handover, Serves, IInv, CallsInv
<1>2. PICK r \in DOMAIN rows : r = calls[c].row
  BY <1>1 DEF Knows, Remove2, Jump, Click, Handover, Serves
<1>3. UNCHANGED <<made, shuffled, failed>> /\ handed' \subseteq Handovers
  BY <1>1 DEF Knows, Remove2, Jump, Click, Handover, Serves, IInv, SessionInv
<1>4. CASE Remove2(c)
  BY <1>2, <1>3, <1>4, FlagStep DEF Remove2
<1>5. CASE Jump(c)
  <2>1. rows' = SetRemoved(r, FALSE) /\ current' = r
    BY <1>2, <1>5 DEF Jump
  <2>2. PICK call : call = [op |-> "click", row |-> r] /\ Go(c, call)
    BY <1>2, <1>5 DEF Jump
  <2>3. Knows(call)'
    BY <1>3, <2>1, <2>2, FlagWritten DEF Knows, IInv
  <2> QED
    BY <1>3, <2>1, <2>2, <2>3, FlagStep
<1>6. CASE Click(c)
  BY <1>2, <1>3, <1>6, FlagStep DEF Click
<1>7. CASE Handover(c) /\ calls[c].id \in handed
  BY <1>3, <1>7, QuietStep DEF Handover, IInv, SessionInv
<1>8. CASE Handover(c) /\ calls[c].id \notin handed
  BY <1>2, <1>3, <1>8, FlagStep DEF Handover
<1> QED
  BY <1>4, <1>5, <1>6, <1>7, <1>8

\* The commands that begin by reading.
LEMMA Reads ==
    ASSUME IInv, OneRequest, NEW c \in Threads,
           \/ \E n \in 1..2 : ReadLast(c, n)
           \/ \E r \in 1..made :
                 \/ FindRow(c, r) \/ \E h \in Handovers : FindHandover(c, r, h)
                 \/ \E place \in 0..made : ReadList(c, r, place)
           \/ \E on \in BOOLEAN : ReadFlag(c, on)
    PROVE  StepOK
<1>1. /\ UNCHANGED <<rows, made, current, handed, failed>>
      /\ shuffled' \in BOOLEAN
  BY DEF ReadLast, FindRow, FindHandover, ReadList, ReadFlag, IInv, SessionInv
<1>2. \A call : Knows(call) => Knows(call)'
  BY <1>1 DEF Knows, MovePlan, ShufflePlan, SparesPlayed, FollowsSource, SourceLess,
     Agree, Visible, Pivot
<1>3. \A call : Go(c, call) /\ Knows(call) => StepOK
  BY <1>1, <1>2, QuietStep
<1>4. ASSUME NEW n \in 1..2, ReadLast(c, n) PROVE StepOK
  <2>1. PICK call : call = [op |-> "add", count |-> n, last |-> LastPosition(rows)] /\ Go(c, call)
    BY <1>4 DEF ReadLast
  <2>2. Knows(call)
    BY <2>1, LastIsLast DEF Knows, IInv
  <2> QED
    BY <1>3, <2>1, <2>2
<1>5. ASSUME NEW r \in 1..made, FindRow(c, r) PROVE StepOK
  <2>1. PICK call : call = [op |-> "jump", row |-> r] /\ Go(c, call)
    BY <1>5 DEF FindRow
  <2>2. Knows(call)
    BY <1>5, <2>1 DEF Knows, FindRow
  <2> QED
    BY <1>3, <2>1, <2>2
<1>6. ASSUME NEW r \in 1..made, NEW h \in Handovers, FindHandover(c, r, h) PROVE StepOK
  <2>1. PICK call : call = [op |-> "handover", row |-> r, id |-> h] /\ Go(c, call)
    BY <1>6 DEF FindHandover
  <2>2. Knows(call)
    BY <1>6, <2>1 DEF Knows, FindHandover
  <2> QED
    BY <1>3, <2>1, <2>2
<1>7. ASSUME NEW r \in 1..made, NEW place \in 0..made, ReadList(c, r, place) PROVE StepOK
  <2>1. PICK call : call = [op |-> "move", places |-> Inserted(rows, r, place)] /\ Go(c, call)
    BY <1>7 DEF ReadList
  <2>2. r \in Visible(rows) /\ place \in Nat
    BY <1>7, MaxRowsAssumption DEF ReadList, IInv, RowsInv
  <2>3. MovePlan(Inserted(rows, r, place))
    BY <2>2, MoveIsPlanned DEF IInv
  <2>4. Knows(call)
    BY <2>1, <2>3 DEF Knows
  <2> QED
    BY <1>3, <2>1, <2>4
<1>8. ASSUME NEW on \in BOOLEAN, ReadFlag(c, on) PROVE StepOK
  <2>1. PICK call : call = [op |-> "flag", on |-> on, was |-> shuffled] /\ Go(c, call)
    BY <1>8 DEF ReadFlag
  <2>2. Knows(call)
    BY <2>1 DEF Knows
  <2> QED
    BY <1>3, <2>1, <2>2
<1> QED
  BY <1>4, <1>5, <1>6, <1>7, <1>8

\* The request that changes the flag, up to the plan of its reorder.
LEMMA Flags ==
    ASSUME IInv, OneRequest, NEW c \in Threads, SetFlag(c) \/ ReadSession(c) \/ ReadRows(c)
    PROVE  StepOK
<1>1. calls[c] # None /\ Knows(calls[c])
  BY DEF SetFlag, ReadSession, ReadRows, Serves, IInv, CallsInv
<1>2. /\ UNCHANGED <<rows, made, current, handed, failed>>
      /\ shuffled' \in BOOLEAN
      /\ calls[c].on \in BOOLEAN
  BY <1>1 DEF SetFlag, ReadSession, ReadRows, Serves, IInv, SessionInv, Knows
<1>3. \A call : Knows(call) => Knows(call)'
  BY <1>2 DEF Knows, MovePlan, ShufflePlan, SparesPlayed, FollowsSource, SourceLess,
     Agree, Visible, Pivot
<1>4. \A call : Go(c, call) /\ (call = None \/ Knows(call)) => StepOK
  BY <1>2, <1>3, QuietStep
<1>5. CASE SetFlag(c)
  <2>1. CASE calls[c].on # calls[c].was
    <3>1. PICK call : call = [op |-> "session", on |-> calls[c].on] /\ Go(c, call)
      BY <1>5, <2>1 DEF SetFlag
    <3>2. Knows(call)
      BY <1>2, <3>1 DEF Knows
    <3> QED
      BY <1>4, <3>1, <3>2
  <2>2. CASE calls[c].on = calls[c].was
    BY <1>4, <1>5, <2>2 DEF SetFlag
  <2> QED
    BY <2>1, <2>2
<1>6. CASE ReadSession(c)
  <2>1. PICK call : call = [op |-> "rows", on |-> calls[c].on, current |-> current] /\ Go(c, call)
    BY <1>6 DEF ReadSession
  <2>2. Knows(call)
    BY <1>2, <2>1 DEF Knows
  <2> QED
    BY <1>4, <2>1, <2>2
<1>7. CASE ReadRows(c)
  <2>1. calls[c].current = current
    BY <1>1, <1>7 DEF ReadRows, Serves, Knows
  <2>2. PICK places \in (IF calls[c].on THEN Shuffles(rows, current)
                        ELSE {Places(DOMAIN rows, SourceOrder)}) :
           Go(c, IF DOMAIN rows = {} THEN None ELSE [op |-> "shuffle", places |-> places])
    BY <1>7, <2>1 DEF ReadRows
  <2>3. ShufflePlan(places)
    BY <2>2, ShuffleIsPlanned, RestoreIsPlanned DEF IInv
  <2>4. CASE DOMAIN rows = {}
    BY <1>4, <2>2, <2>4
  <2>5. CASE DOMAIN rows # {}
    <3>1. PICK call : call = [op |-> "shuffle", places |-> places] /\ Go(c, call)
      BY <2>2, <2>5
    <3>2. Knows(call)
      BY <2>3, <3>1 DEF Knows
    <3> QED
      BY <1>4, <3>1, <3>2
  <2> QED
    BY <2>4, <2>5
<1> QED
  BY <1>5, <1>6, <1>7

\* The order of a table that is committed.
LEMMA Committed ==
    ASSUME NEW table, \A r \in DOMAIN table : table[r].position \in Int, ~Clash(table),
           rows' = table
    PROVE  /\ ~Clash(rows)'
           /\ Order!IsOrder(Ordered(rows)', DOMAIN table)
           /\ \A r, s \in DOMAIN table :
                 <<r, s>> \in Ordered(rows)' <=> table[r].position < table[s].position
<1>1. Ordered(rows)' = Ordered(table)
  BY DEF Ordered
<1>2. ~Clash(rows)'
  BY DEF Clash
<1> QED
  BY <1>1, <1>2, TableRanks

\* A reorder or a move that is committed keeps the invariant.
LEMMA SameRows ==
    ASSUME IInv, OneRequest, NEW c \in Threads, Go(c, None), NEW table,
           rows' = table, ~Clash(table), DOMAIN table = DOMAIN rows,
           table \in [DOMAIN rows -> RowType],
           \A r \in DOMAIN rows : /\ table[r].source = rows[r].source
                                 /\ table[r].position >= 0,
           UNCHANGED <<made, current, shuffled, handed, failed>>
    PROVE  IInv'
<1>1. CallsInv'
  BY CallsNext DEF IInv
<1>2. SessionInv' /\ OnlyMovesFail'
  BY DEF IInv, SessionInv, OnlyMovesFail
<1>3. ~Clash(rows)'
  BY DEF Clash
<1>4. RowsInv'
  BY <1>3 DEF IInv, RowsInv
<1> QED
  BY <1>1, <1>2, <1>4 DEF IInv

LEMMA MoveStep ==
    ASSUME IInv, OneRequest, NEW c \in Threads, Move(c)
    PROVE  StepOK
<1> DEFINE table == Placed(rows, calls[c].places)
<1>1. calls[c] # None /\ calls[c].op = "move" /\ MovePlan(calls[c].places)
  BY DEF Move, Serves, IInv, CallsInv, Knows
<1>2. /\ Go(c, None) /\ UNCHANGED <<made, current, shuffled, handed>>
      /\ Commit(c, table)
  BY DEF Move
<1>3. PICK places : places = calls[c].places
  OBVIOUS
<1>4. PICK r \in Visible(rows) : \A s, t \in Visible(rows) \ {r} : Agree(places, s, t)
  BY <1>1, <1>3 DEF MovePlan
<1>5. /\ DOMAIN table = DOMAIN rows
      /\ table \in [DOMAIN rows -> RowType]
      /\ \A s \in DOMAIN rows :
            /\ table[s].source = rows[s].source
            /\ table[s].removed = rows[s].removed
            /\ table[s].position >= 0
            /\ s \in Visible(rows) => table[s].position = places[s]
  BY <1>1, <1>3, Moved DEF IInv
<1>6. \A s \in DOMAIN table : table[s].position \in Int
  BY <1>5 DEF RowType
<1> HIDE DEF table
<1>7. CASE Clash(table)
  <2>1. rows' = rows /\ failed' = failed \cup {"move"}
    BY <1>1, <1>2, <1>7 DEF Commit
  <2>2. RowsInv'
    BY <1>2, <2>1, RowsStay DEF IInv
  <2>3. SessionInv' /\ OnlyMovesFail'
    BY <1>2, <2>1 DEF IInv, SessionInv, OnlyMovesFail
  <2>4. CallsInv'
    BY <1>2, CallsNext DEF IInv
  <2> QED
    BY <1>2, <2>1, <2>2, <2>3, <2>4, Stutters DEF StepOK, IInv
<1>8. CASE ~Clash(table)
  <2>1. rows' = table /\ failed' = failed
    BY <1>2, <1>8 DEF Commit
  <2>2. IInv'
    BY <1>2, <1>5, <1>8, <2>1, SameRows
  <2>3. /\ Order!IsOrder(Ordered(rows)', DOMAIN rows)
        /\ \A s, t \in DOMAIN rows :
              <<s, t>> \in Ordered(rows)' <=> table[s].position < table[t].position
    BY <1>5, <1>6, <1>8, <2>1, Committed
  <2>4. Source' = Source /\ Hidden' = Hidden
    BY <1>5, <2>1 DEF Source, Hidden
  <2>5. \A s \in Visible(rows) \ {r} : s \in DOMAIN rows /\ table[s].position = places[s]
    BY <1>5 DEF Visible
  <2>6. \A s, t \in Visible(rows) \ {r} :
           <<s, t>> \in Ordered(rows)' <=> <<s, t>> \in Ordered(rows)
    BY <1>4, <2>3, <2>5, PositionsRank DEF Agree, IInv
  <2>7. r \in DOMAIN rows \ Hidden /\ DOMAIN rows \ (Hidden \cup {r}) = Visible(rows) \ {r}
    BY DEF Visible, Hidden
  <2>8. Order!Move(r)
    BY <1>2, <2>3, <2>4, <2>6, <2>7, PresentIs DEF Order!Move, Order!Keeps, Source, Hidden
  <2>9. r \in 1..MaxRows
    BY <2>7, MaxRowsAssumption DEF IInv, RowsInv
  <2> QED
    BY <2>2, <2>8, <2>9 DEF StepOK, Refines, Order!Next
<1> QED
  BY <1>7, <1>8

LEMMA ReorderStep ==
    ASSUME IInv, OneRequest, NEW c \in Threads, Reorder(c)
    PROVE  StepOK
<1>1. calls[c] # None /\ ShufflePlan(calls[c].places)
  BY DEF Reorder, Serves, IInv, CallsInv, Knows
<1>2. PICK places : places = calls[c].places
  OBVIOUS
<1> DEFINE table == Placed(Parked(rows), places)
<1>3. /\ ~InTheWay(places) /\ ~Clash(table)
      /\ DOMAIN table = DOMAIN rows
      /\ table \in [DOMAIN rows -> RowType]
      /\ \A r \in DOMAIN rows :
            /\ table[r].source = rows[r].source
            /\ table[r].removed = rows[r].removed
            /\ table[r].position = places[r] /\ places[r] >= 0
  BY <1>1, <1>2, Reordered DEF IInv
<1>4. /\ Go(c, None) /\ UNCHANGED <<made, current, shuffled, handed, failed>>
      /\ rows' = table
  BY <1>2, <1>3 DEF Reorder, Commit
<1>5. \A s \in DOMAIN table : table[s].position \in Int
  BY <1>3 DEF RowType
<1> HIDE DEF table
<1>6. IInv'
  BY <1>3, <1>4, SameRows
<1>7. /\ Order!IsOrder(Ordered(rows)', DOMAIN rows)
      /\ \A s, t \in DOMAIN rows :
            <<s, t>> \in Ordered(rows)' <=> places[s] < places[t]
  BY <1>3, <1>4, <1>5, Committed
<1>8. Source' = Source /\ Hidden' = Hidden
  BY <1>3, <1>4 DEF Source, Hidden
<1>9. \A r \in DOMAIN rows : rows[r].position \in Int
  BY DEF IInv, RowsInv, RowType
<1>10. \A r, s \in DOMAIN rows :
          <<r, s>> \in Ordered(rows) <=> rows[r].position < rows[s].position
  BY PositionsRank DEF IInv
<1>11. CASE SparesPlayed(places)
  <2>1. \A r, s \in DOMAIN rows : r \in Pivot(rows, current) =>
           (<<r, s>> \in Ordered(rows)' <=> <<r, s>> \in Ordered(rows))
    BY <1>7, <1>10, <1>11 DEF SparesPlayed, Agree
  <2>2. Order!Played = Pivot(rows, current)
    <3>1. \A r, s \in DOMAIN rows : r # s => rows[r].position # rows[s].position
      BY DEF IInv, RowsInv, Clash
    <3>2. Order!Played = {r \in DOMAIN rows :
             current \in DOMAIN rows /\ (r = current \/ <<r, current>> \in Ordered(rows))}
      BY PresentIs DEF Order!Played
    <3> QED
      BY <1>9, <1>10, <3>1, <3>2 DEF Pivot
  <2>3. Pivot(rows, current) \subseteq DOMAIN rows
    BY DEF Pivot
  <2>4. \A r \in Pivot(rows, current), s \in DOMAIN rows \ Pivot(rows, current) :
           <<r, s>> \in Ordered(rows)
    <3>1. ASSUME NEW r \in Pivot(rows, current), NEW s \in DOMAIN rows \ Pivot(rows, current)
          PROVE  rows[r].position < rows[s].position
      <4>1. /\ current \in DOMAIN rows /\ r \in DOMAIN rows
            /\ rows[r].position <= rows[current].position
            /\ ~(rows[s].position <= rows[current].position)
        BY DEF Pivot
      <4> QED
        BY <4>1, <1>9
    <3> QED
      BY <3>1, <1>10, <2>3
  <2>5. Pivot(rows, current) \X (DOMAIN rows \ Pivot(rows, current)) \subseteq Ordered(rows)'
    BY <2>1, <2>3, <2>4
  <2>6. \A r, s \in Pivot(rows, current) :
           <<r, s>> \in Ordered(rows)' <=> <<r, s>> \in Ordered(rows)
    BY <2>1, <2>3
  <2>7. Order!Shuffle
    BY <1>4, <1>7, <1>8, <2>2, <2>5, <2>6, PresentIs
    DEF Order!Shuffle, Order!Keeps, Source, Hidden
  <2> QED
    BY <1>6, <2>7 DEF StepOK, Refines, Order!Next
<1>12. CASE FollowsSource(places)
  <2>1. \A r, s \in DOMAIN rows : <<r, s>> \in Ordered(rows)' <=> SourceLess(r, s)
    BY <1>7, <1>12 DEF FollowsSource
  <2> DEFINE Added == {r \in DOMAIN rows : rows[r].source = None}
  <2>2. \A r, s \in Added : <<r, s>> \in Ordered(rows)' <=> <<r, s>> \in Ordered(rows)
    BY <1>10, <2>1 DEF SourceLess
  <2>3. (DOMAIN rows \ Added) \X Added \subseteq Ordered(rows)'
    BY <2>1 DEF SourceLess
  <2>4. \A r, s \in DOMAIN rows \ Added :
           <<r, s>> \in Ordered(rows)' <=> Source[r] < Source[s]
    BY <2>1, PresentIs DEF SourceLess
  <2>5. {r \in Order!Present : Source[r] = None} = Added
    BY PresentIs
  <2> HIDE DEF Added
  <2>6. Order!Restore
    BY <1>4, <1>7, <1>8, <2>2, <2>3, <2>4, <2>5, PresentIs
    DEF Order!Restore, Order!Keeps, Source, Hidden
  <2> QED
    BY <1>6, <2>6 DEF StepOK, Refines, Order!Next
<1> QED
  BY <1>1, <1>2, <1>11, <1>12 DEF ShufflePlan

LEMMA ReplaceStep ==
    ASSUME IInv, OneRequest, NEW c \in Threads, NEW n \in 0..2, Replace(c, n)
    PROVE  StepOK
<1> DEFINE new == (made + 1)..(made + n)
<1>1. /\ Idle(c) /\ made + n <= MaxRows /\ made' = made + n /\ current' = FirstOfNew(n)
      /\ UNCHANGED <<shuffled, handed, calls, failed>>
      /\ rows' = [r \in new |->
             [position |-> r - made - 1, source |-> r - made - 1, removed |-> FALSE]]
  BY DEF Replace
<1>2. made \in Nat /\ made' \in 0..MaxRows
  BY <1>1, MaxRowsAssumption DEF IInv, RowsInv
<1>3. new \subseteq 1..made' /\ new \subseteq 1..MaxRows /\ \A r \in DOMAIN rows : r \notin new
  BY <1>1, <1>2, MaxRowsAssumption DEF IInv, RowsInv
<1>4. \A r \in new : r \in Int /\ r - made - 1 \in 0..MaxRows
  BY <1>1, <1>2, MaxRowsAssumption
<1>5. n = 0 \/ made + 1 \in new
  BY <1>2
<1> HIDE DEF new
<1>6. /\ DOMAIN rows' = new
      /\ rows' \in [new -> RowType]
      /\ \A r \in new : rows'[r].position = r - made - 1 /\ rows'[r].source = r - made - 1
                       /\ rows'[r].removed = FALSE
  BY <1>1, <1>4 DEF RowType
<1>7. ~Clash(rows')
  BY <1>2, <1>4, <1>6 DEF Clash
<1>8. RowsInv'
  <2>1. \A r, s \in new : rows'[r].source = rows'[s].source => r = s
    BY <1>2, <1>4, <1>6
  <2>2. \A r \in new : rows'[r].position >= 0
    BY <1>4, <1>6
  <2>3. ~Clash(rows)'
    BY <1>7 DEF Clash
  <2> QED
    BY <1>2, <1>3, <1>6, <2>1, <2>2, <2>3 DEF RowsInv
<1>9. current' = IF n = 0 THEN None ELSE made + 1
  BY <1>1 DEF FirstOfNew
<1>10. SessionInv' /\ OnlyMovesFail'
  BY <1>1, <1>5, <1>6, <1>9 DEF IInv, SessionInv, OnlyMovesFail
<1>11. CallsInv'
  BY <1>1, StaysIdle, CallsNext DEF IInv
<1>12. /\ Order!IsOrder(Ordered(rows)', new)
       /\ \A r, s \in new : <<r, s>> \in Ordered(rows)' <=> rows'[r].position < rows'[s].position
  <2>1. \A r \in DOMAIN rows' : rows'[r].position \in Int
    BY <1>4, <1>6
  <2> QED
    BY <1>6, <1>7, <2>1, Committed
<1>13. DOMAIN Source' = new /\ \A r \in new : Source'[r] = rows'[r].source
  BY <1>6 DEF Source
<1>14. \A r, s \in new : <<r, s>> \in Ordered(rows)' <=> Source'[r] < Source'[s]
  BY <1>6, <1>12, <1>13
<1>15. Order!PlaysFirst(current', Ordered(rows)', new)
  <2>1. CASE n = 0
    <3>1. new = {}
      BY <1>2, <2>1 DEF new
    <3> QED
      BY <1>9, <2>1, <3>1 DEF Order!PlaysFirst
  <2>2. CASE n # 0
    <3>1. \A s \in new \ {made + 1} : made + 1 < s
      BY <1>2 DEF new
    <3>2. \A s \in new \ {made + 1} : rows'[made + 1].position < rows'[s].position
      BY <1>2, <1>4, <1>5, <1>6, <2>2, <3>1
    <3> QED
      BY <1>5, <1>9, <1>12, <2>2, <3>2 DEF Order!PlaysFirst, Order!IsFirst
  <2> QED
    BY <2>1, <2>2
<1>16. Hidden' = {}
  BY <1>6 DEF Hidden
<1>17. new \in SUBSET (1..MaxRows \ Order!Present)
  BY <1>3, PresentIs
<1>18. Order!Replace
  BY <1>12, <1>13, <1>14, <1>15, <1>16, <1>17 DEF Order!Replace, Source, Hidden
<1> QED
  BY <1>8, <1>10, <1>11, <1>18 DEF StepOK, IInv, Refines, Order!Next

LEMMA AddStep ==
    ASSUME IInv, OneRequest, NEW c \in Threads, Add(c)
    PROVE  StepOK
<1>1. PICK n, last : n = calls[c].count /\ last = calls[c].last
  OBVIOUS
<1>2. /\ n \in 1..2 /\ last \in Int /\ last >= -1
      /\ \A r \in DOMAIN rows : rows[r].position <= last
  BY <1>1 DEF Add, Serves, IInv, CallsInv, Knows
<1> DEFINE new == (made + 1)..(made + n)
           table == [r \in DOMAIN rows \cup new |->
              IF r \in new
              THEN [position |-> last + (r - made), source |-> None, removed |-> FALSE]
              ELSE rows[r]]
<1>3. /\ made + n <= MaxRows /\ made' = made + n /\ Go(c, None)
      /\ UNCHANGED <<current, shuffled, handed>> /\ Commit(c, table)
  BY <1>1 DEF Add
<1>4. made \in Nat /\ made' \in 0..MaxRows
  BY <1>2, <1>3, MaxRowsAssumption DEF IInv, RowsInv
<1>5. /\ new \subseteq 1..made' /\ new \subseteq 1..MaxRows /\ DOMAIN rows \subseteq 1..made'
      /\ \A r \in DOMAIN rows : r \notin new
  BY <1>2, <1>3, <1>4, MaxRowsAssumption DEF IInv, RowsInv
<1>6. \A r \in new : r \in Int /\ r - made \in Int /\ r - made >= 1
  BY <1>2, <1>4
<1>7. \A r \in DOMAIN rows : /\ rows[r].position \in Int /\ rows[r].position >= 0
                             /\ rows[r] \in RowType
  BY DEF IInv, RowsInv, RowType
<1> HIDE DEF new
<1>8. /\ DOMAIN table = DOMAIN rows \cup new
      /\ \A r \in DOMAIN rows : table[r] = rows[r]
      /\ \A r \in new : table[r] = [position |-> last + (r - made), source |-> None, removed |-> FALSE]
  BY <1>5
<1>9. \A r \in new : /\ table[r] \in RowType /\ table[r].position = last + (r - made)
                     /\ table[r].source = None /\ table[r].removed = FALSE
                     /\ table[r].position > last
  BY <1>2, <1>6, <1>8 DEF RowType
<1>10. table \in [DOMAIN rows \cup new -> RowType]
  BY <1>7, <1>8, <1>9
<1> HIDE DEF table
<1>11. ASSUME NEW r \in DOMAIN rows, NEW s \in new PROVE table[r].position < table[s].position
  <2>1. table[r].position \in Int /\ table[r].position <= last
    BY <1>2, <1>7, <1>8
  <2>2. table[s].position \in Int /\ table[s].position > last
    BY <1>9 DEF RowType
  <2> QED
    BY <1>2, <2>1, <2>2
<1>12. \A r \in DOMAIN table : table[r].position \in Int /\ table[r].position >= 0
  BY <1>2, <1>6, <1>7, <1>8, <1>9
<1>13. ~Clash(table)
  <2>1. \A r, s \in new : table[r].position = table[s].position => r = s
    BY <1>2, <1>4, <1>6, <1>9
  <2>2. \A r, s \in DOMAIN rows : table[r].position = table[s].position => r = s
    BY <1>8 DEF IInv, RowsInv, Clash
  <2>3. \A r \in DOMAIN rows, s \in new : table[r].position # table[s].position
    BY <1>11, <1>12, <1>8
  <2> QED
    BY <1>8, <2>1, <2>2, <2>3 DEF Clash
<1>14. rows' = table /\ failed' = failed
  BY <1>3, <1>13 DEF Commit
<1>15. RowsInv'
  <2>1. ~Clash(rows)'
    BY <1>13, <1>14 DEF Clash
  <2>2. \A r, s \in DOMAIN table :
           table[r].source # None /\ table[r].source = table[s].source => r = s
    BY <1>8, <1>9 DEF IInv, RowsInv
  <2> QED
    BY <1>4, <1>5, <1>8, <1>10, <1>12, <1>14, <2>1, <2>2 DEF RowsInv
<1>16. SessionInv' /\ OnlyMovesFail'
  BY <1>3, <1>8, <1>14 DEF IInv, SessionInv, OnlyMovesFail
<1>17. CallsInv'
  BY <1>3, CallsNext DEF IInv
<1>18. /\ Order!IsOrder(Ordered(rows)', DOMAIN rows \cup new)
       /\ \A r, s \in DOMAIN rows \cup new :
             <<r, s>> \in Ordered(rows)' <=> table[r].position < table[s].position
  BY <1>8, <1>12, <1>13, <1>14, Committed
<1>19. Ordered(rows) \cup ((DOMAIN rows) \X new) \subseteq Ordered(rows)'
  <2>1. \A p \in Ordered(rows) : p \in Ordered(rows)'
    BY <1>8, <1>14 DEF Ordered
  <2>2. \A r \in DOMAIN rows, s \in new : <<r, s>> \in Ordered(rows)'
    BY <1>11, <1>18
  <2> QED
    BY <2>1, <2>2
<1>20. Source' = [r \in DOMAIN rows \cup new |-> IF r \in new THEN None ELSE Source[r]]
  <2>1. Source' = [r \in DOMAIN rows \cup new |-> table[r].source]
    BY <1>8, <1>14 DEF Source
  <2>2. \A r \in DOMAIN rows \cup new : table[r].source = IF r \in new THEN None ELSE Source[r]
    BY <1>5, <1>8, <1>9, PresentIs
  <2> QED
    BY <2>1, <2>2
<1>21. Hidden' = Hidden
  BY <1>8, <1>9, <1>14 DEF Hidden
<1>22. new \in SUBSET (1..MaxRows \ Order!Present)
  BY <1>5, PresentIs
<1>23. Order!Add
  BY <1>3, <1>18, <1>19, <1>20, <1>21, <1>22, PresentIs DEF Order!Add, Source, Hidden
<1> QED
  BY <1>15, <1>16, <1>17, <1>23 DEF StepOK, IInv, Refines, Order!Next

LEMMA NextStep ==
    ASSUME IInv, OneRequest, [Next]_vars
    PROVE  StepOK
<1>1. ASSUME NEW c \in Threads, Command(c) PROVE StepOK
  BY <1>1, ReplaceStep, Reads, FlagSteps DEF Command
<1>2. ASSUME NEW c \in Threads, Step(c) PROVE StepOK
  BY <1>2, AddStep, Follows, MoveStep, Flags, ReorderStep DEF Step
<1>3. CASE UNCHANGED vars
  <2>1. RowsInv' /\ UNCHANGED <<rows, current>>
    BY <1>3, RowsStay DEF vars, IInv
  <2>2. \A call : Knows(call) => Knows(call)'
    BY <1>3 DEF vars, Knows, MovePlan, ShufflePlan, SparesPlayed, FollowsSource, SourceLess,
       Agree, Visible, Pivot
  <2>3. CallsInv'
    BY <1>3, <2>2 DEF vars, IInv, CallsInv
  <2>4. SessionInv' /\ OnlyMovesFail'
    BY <1>3 DEF vars, IInv, SessionInv, OnlyMovesFail
  <2> QED
    BY <2>1, <2>3, <2>4, Stutters DEF StepOK, IInv
<1> QED
  BY <1>1, <1>2, <1>3 DEF Next

-----------------------------------------------------------------------------

LEMMA Invariance == ASSUME OneRequest PROVE Spec => []IInv
<1>1. Init => IInv
  BY InitOK
<1>2. IInv /\ [Next]_vars => IInv'
  BY NextStep DEF StepOK
<1> QED
  BY <1>1, <1>2, PTL DEF Spec

\* One request after another, every row has a position of its own and the pointer is
\* on a row of the queue.
THEOREM TypeCorrectness == ASSUME OneRequest PROVE Spec => []TypeOK
<1>1. IInv => TypeOK
  BY DEF IInv, RowsInv, RowType, SessionInv, TypeOK
<1> QED
  BY <1>1, Invariance, PTL

\* Additions and reorders find their places free, however many rows were removed,
\* moved and shuffled before (append_queue_items, set_queue_shuffle).
THEOREM AddAndShuffleSucceed == ASSUME OneRequest PROVE Spec => []OnlyMovesFail
<1>1. IInv => OnlyMovesFail
  BY DEF IInv
<1> QED
  BY <1>1, Invariance, PTL

\* Positions always spell the order that QueueOrder promises, for any number of rows
\* (replace_queue_items, append_queue_items, move_queue_item, set_queue_shuffle).
THEOREM PositionsSpellTheOrder == ASSUME OneRequest PROVE Spec => ImplementsOrder
<1>1. Init => Order!Init
  BY InitOK
<1>2. IInv /\ [Next]_vars => [Order!Next]_(Order!vars)
  BY NextStep DEF StepOK, Refines
<1> QED
  BY <1>1, <1>2, Invariance, PTL DEF Spec, ImplementsOrder, Order!Spec

=============================================================================
