--------------------------- MODULE EventDataProofs ---------------------------
(***************************************************************************)
(* Facts about the operators of EventData, for every list and every event. *)
(***************************************************************************)
EXTENDS EventData, TLAPS, WellFoundedInduction, SequenceTheorems

\* Every set of natural numbers that is not empty has a least element: the walk
\* of get_event stops at a first match.
LEMMA LeastExists ==
    ASSUME NEW S \in SUBSET Nat, S # {}
    PROVE  \E n \in S : \A m \in S : n <= m
<1>1. \E n \in S : \A m \in S : ~ (<<m, n>> \in OpToRel(<, Nat))
  BY NatLessThanWellFounded, WFMin, Zenon
<1>2. PICK n \in S : \A m \in S : ~ (<<m, n>> \in OpToRel(<, Nat))
  BY <1>1
<1>3. \A m \in S : ~ (m < n)
  BY <1>2 DEF OpToRel
<1> QED
  BY <1>3

\* get_event returns a node of the list with the identifier, or NULL when there
\* is none.
THEOREM GetEventFinds ==
    ASSUME NEW list, DOMAIN list \subseteq Nat \ {0}, NEW id
    PROVE  /\ GetEvent(list, id) \in DOMAIN list \cup {NULL}
           /\ GetEvent(list, id) = NULL <=> Nodes(list, id) = {}
           /\ GetEvent(list, id) # NULL => list[GetEvent(list, id)].id = id
<1>1. CASE Nodes(list, id) = {}
  BY <1>1 DEF GetEvent, Nodes, NULL
<1>2. CASE Nodes(list, id) # {}
  <2>1. Nodes(list, id) \in SUBSET Nat
    BY DEF Nodes
  <2>2. \E n \in Nodes(list, id) : \A m \in Nodes(list, id) : n <= m
    BY <1>2, <2>1, LeastExists
  <2>3. GetEvent(list, id) \in Nodes(list, id)
    BY <1>2, <2>2 DEF GetEvent
  <2> QED
    BY <1>2, <2>3 DEF Nodes, NULL
<1> QED
  BY <1>1, <1>2

\* The node that get_event returns is the first one with the identifier.
LEMMA GetEventIsFirst ==
    ASSUME NEW list, DOMAIN list \subseteq Nat \ {0}, NEW id,
           GetEvent(list, id) # NULL
    PROVE  /\ GetEvent(list, id) \in Nodes(list, id)
           /\ \A m \in Nodes(list, id) : GetEvent(list, id) <= m
<1>1. Nodes(list, id) # {}
  BY GetEventFinds
<1>2. Nodes(list, id) \in SUBSET Nat
  BY DEF Nodes
<1>3. \E n \in Nodes(list, id) : \A m \in Nodes(list, id) : n <= m
  BY <1>1, <1>2, LeastExists
<1> QED
  BY <1>1, <1>3 DEF GetEvent

\* There is only one such node.
LEMMA GetEventOnly ==
    ASSUME NEW list, DOMAIN list \subseteq Nat \ {0}, NEW id,
           NEW n \in Nodes(list, id), \A m \in Nodes(list, id) : n <= m
    PROVE  GetEvent(list, id) = n
<1>1. GetEvent(list, id) # NULL
  BY GetEventFinds
<1>2. /\ GetEvent(list, id) \in Nodes(list, id)
      /\ \A m \in Nodes(list, id) : GetEvent(list, id) <= m
  BY <1>1, GetEventIsFirst
<1>3. Nodes(list, id) \subseteq Nat
  BY DEF Nodes
<1>4. GetEvent(list, id) <= n /\ n <= GetEvent(list, id)
  BY <1>2
<1> HIDE DEF GetEvent
<1> QED
  BY <1>2, <1>3, <1>4

\* Changing events without touching their identifiers changes no search.
LEMMA GetEventSameIds ==
    ASSUME NEW list, NEW new, DOMAIN new = DOMAIN list,
           \A n \in DOMAIN list : new[n].id = list[n].id
    PROVE  \A id : GetEvent(new, id) = GetEvent(list, id)
<1> TAKE id
<1>1. Nodes(new, id) = Nodes(list, id)
  BY DEF Nodes
<1> QED
  BY <1>1 DEF GetEvent

\* Nor does an event at the end of the list, where the search had found one.
LEMMA GetEventAppended ==
    ASSUME NEW S, NEW list \in Seq(S), NEW e \in S, NEW id,
           GetEvent(list, id) # NULL
    PROVE  GetEvent(Append(list, e), id) = GetEvent(list, id)
<1> DEFINE new == Append(list, e)
           n == GetEvent(list, id)
<1>1. /\ DOMAIN list = 1 .. Len(list) /\ Len(list) \in Nat
      /\ DOMAIN new = 1 .. Len(list) + 1
      /\ \A m \in DOMAIN list : new[m] = list[m]
  BY AppendProperties, LenProperties
<1>2. n \in Nodes(list, id) /\ \A m \in Nodes(list, id) : n <= m
  BY <1>1, GetEventIsFirst
<1> HIDE DEF new, n
<1>3. n \in Nodes(new, id)
  BY <1>1, <1>2 DEF Nodes
<1>4. ASSUME NEW m \in Nodes(new, id)
      PROVE  n <= m
  <2>1. CASE m \in DOMAIN list
    BY <1>1, <1>2, <2>1 DEF Nodes
  <2>2. CASE m = Len(list) + 1
    BY <1>1, <1>2, <2>2 DEF Nodes
  <2> QED
    BY <1>1, <2>1, <2>2 DEF Nodes
<1>5. DOMAIN new \subseteq Nat \ {0}
  BY <1>1
<1>6. GetEvent(new, id) = n
  BY <1>3, <1>4, <1>5, GetEventOnly
<1> QED
  BY <1>6 DEF new, n

\* Appending to a function on 1 .. n, which is a sequence.
LEMMA FunctionAppended ==
    ASSUME NEW S, NEW n \in Nat, NEW f \in [1 .. n -> S], NEW v \in S
    PROVE  /\ Append(f, v) \in [1 .. n + 1 -> S]
           /\ Append(f, v)[n + 1] = v
           /\ \A m \in 1 .. n : Append(f, v)[m] = f[m]
<1>1. f \in Seq(S)
  BY SeqDef
<1>2. Len(f) = n
  <2> DEFINE m == Len(f)
  <2>1. m \in Nat /\ 1 .. m = 1 .. n
    BY <1>1, LenProperties
  <2> HIDE DEF m
  <2>2. (n = 0 \/ n \in 1 .. m) /\ (m = 0 \/ m \in 1 .. n)
    BY <2>1
  <2>3. m = n
    BY <2>1, <2>2
  <2> QED
    BY <2>3 DEF m
<1> DEFINE g == Append(f, v)
<1>3. /\ g \in Seq(S) /\ Len(g) = n + 1 /\ g[n + 1] = v
      /\ \A m \in 1 .. n : g[m] = f[m]
  BY <1>1, <1>2, AppendProperties
<1>4. g \in [1 .. n + 1 -> S]
  <2> HIDE DEF g
  <2>1. g \in [1 .. Len(g) -> S]
    BY <1>3, LenProperties
  <2> QED
    BY <1>3, <2>1
<1> QED
  BY <1>3, <1>4

\* A whole number of rows further down is at least a row further down.
LEMMA RowsApart ==
    ASSUME NEW m \in Nat, NEW n \in Nat, NEW cols \in Nat, m < n
    PROVE  m * cols + cols <= n * cols
<1>1. PICK d \in Nat : n = m + 1 + d
  <2>1. n - m - 1 \in Nat /\ n = m + 1 + (n - m - 1)
    OBVIOUS
  <2> QED
    BY <2>1
<1>2. n * cols = m * cols + cols + d * cols
  BY <1>1
<1>3. d * cols \in Nat /\ m * cols \in Nat
  OBVIOUS
<1> QED
  BY <1>2, <1>3

\* seat_index stays inside the data array for every seat that passes the bounds
\* check of ems_reserve.
THEOREM SeatIndexInRange ==
    ASSUME NEW e, e.rows \in Nat, e.cols \in Nat,
           NEW row \in 1 .. e.rows, NEW col \in 1 .. e.cols
    PROVE  SeatIndex(e, row, col) \in SeatIndices(e.rows, e.cols)
<1> DEFINE r == row - 1
<1>1. r \in Nat /\ r < e.rows
  OBVIOUS
<1>2. r * e.cols + e.cols <= e.rows * e.cols
  BY <1>1, RowsApart
<1>3. r * e.cols \in Nat /\ e.rows * e.cols \in Nat
  BY <1>1
<1>4. SeatIndex(e, row, col) = r * e.cols + col - 1
  BY DEF SeatIndex
<1> HIDE DEF r
<1> QED
  BY <1>2, <1>3, <1>4 DEF SeatIndices

\* Two seats of an event never share an element of its data array: reserving
\* one of them says nothing about the other.
THEOREM SeatIndexInjective ==
    ASSUME NEW e, e.rows \in Nat, e.cols \in Nat,
           NEW row1 \in 1 .. e.rows, NEW col1 \in 1 .. e.cols,
           NEW row2 \in 1 .. e.rows, NEW col2 \in 1 .. e.cols,
           SeatIndex(e, row1, col1) = SeatIndex(e, row2, col2)
    PROVE  row1 = row2 /\ col1 = col2
<1> DEFINE r1 == row1 - 1
           r2 == row2 - 1
<1>1. r1 \in Nat /\ r2 \in Nat
  OBVIOUS
<1>2. r1 * e.cols + col1 = r2 * e.cols + col2
  <2>1. r1 * e.cols \in Int /\ r2 * e.cols \in Int
    BY <1>1
  <2> QED
    BY <2>1 DEF SeatIndex
<1>3. r1 * e.cols \in Nat /\ r2 * e.cols \in Nat
  BY <1>1
<1>4. r1 = r2
  <2>1. r1 < r2 => r1 * e.cols + e.cols <= r2 * e.cols
    BY <1>1, RowsApart
  <2>2. r2 < r1 => r2 * e.cols + e.cols <= r1 * e.cols
    BY <1>1, RowsApart
  <2> HIDE DEF r1, r2
  <2> QED
    BY <1>1, <1>2, <1>3, <2>1, <2>2
<1>5. row1 = row2
  BY <1>4
<1>6. col1 = col2
  <2> HIDE DEF r1, r2
  <2> QED
    BY <1>2, <1>3, <1>4
<1> QED
  BY <1>5, <1>6

\* A new event is a well-formed one, with every seat free.
THEOREM NewEventIsEvent ==
    ASSUME NEW r \in CreateRequest
    PROVE  IsEvent(NewEvent(r))
BY DEF CreateRequest, IsEvent, NewEvent

\* What IsEvent says, field by field.
LEMMA EventFields ==
    ASSUME NEW e, IsEvent(e)
    PROVE  /\ e.id \in Nat /\ e.reservations \in Nat
           /\ e.rows \in Nat /\ e.cols \in Nat /\ e.rows * e.cols \in Nat
           /\ e.data \in [SeatIndices(e.rows, e.cols) -> Nat]
<1>1. /\ e.id \in Nat /\ e.reservations \in Nat
      /\ e.rows \in Nat /\ e.cols \in Nat
      /\ e.data \in [SeatIndices(e.rows, e.cols) -> Nat]
  BY DEF IsEvent
<1> QED
  BY <1>1

\* Numbering a reservation keeps an event well-formed.
LEMMA NumberedIsEvent ==
    ASSUME NEW e, IsEvent(e)
    PROVE  /\ IsEvent([e EXCEPT !.reservations = @ + 1])
           /\ [e EXCEPT !.reservations = @ + 1].id = e.id
BY DEF IsEvent

\* So does assigning a reservation number to an element of its data array.
LEMMA AssignedIsEvent ==
    ASSUME NEW e, IsEvent(e), NEW i, NEW v \in Nat
    PROVE  /\ IsEvent([e EXCEPT !.data[i] = v])
           /\ [e EXCEPT !.data[i] = v].id = e.id
BY DEF IsEvent

\* The set that the nodes of the list are drawn from; TLC could not enumerate
\* the data arrays, so the type invariants say the same with IsEvent.
Event == [id : Nat, rows : Nat, cols : Nat, reservations : Nat,
          data : UNION {[SeatIndices(k[1], k[2]) -> Nat] : k \in Nat \X Nat}]

LEMMA IsEventIsEvent ==
    ASSUME NEW e, IsEvent(e)
    PROVE  e \in Event
<1>1. e.data \in UNION {[SeatIndices(k[1], k[2]) -> Nat] : k \in Nat \X Nat}
  <2>1. <<e.rows, e.cols>> \in Nat \X Nat
    BY DEF IsEvent
  <2>2. e.data \in [SeatIndices(<<e.rows, e.cols>>[1], <<e.rows, e.cols>>[2])
                       -> Nat]
    BY DEF IsEvent
  <2> QED
    BY <2>1, <2>2
<1> QED
  BY <1>1 DEF IsEvent, Event

==============================================================================
