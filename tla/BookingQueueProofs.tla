------------------------- MODULE BookingQueueProofs -------------------------
(***************************************************************************)
(* Proofs about BookingQueue, for any number of requests in flight,        *)
(* bookings and units.                                                     *)
(***************************************************************************)
EXTENDS BookingQueue, FiniteSetTheorems, TLAPS

\* A bounded set of numbers has a greatest element, and Max returns it.
LEMMA MaxOfBounded ==
    ASSUME NEW N \in Nat, NEW S \in SUBSET (0 .. N), S # {}
    PROVE  Max(S) \in S /\ \A y \in S : Max(S) >= y
<1> DEFINE T == {N - x : x \in S}
<1>1. T \subseteq Nat /\ T # {}
  <2>1. \A x \in S : x \in 0 .. N /\ N - x \in Nat
    OBVIOUS
  <2> QED
    BY <2>1
<1>2. PICK t \in T : \A s \in T : ~(<<s, t>> \in OpToRel(<, Nat))
  BY <1>1, NatLessThanWellFounded, WFMin
<1>3. PICK x \in S : t = N - x
  OBVIOUS
<1>4. \A y \in S : x >= y
  <2>1. TAKE y \in S
  <2>2. ~(<<N - y, N - x>> \in OpToRel(<, Nat))
    BY <1>2, <1>3
  <2>3. N - y \in Nat /\ N - x \in Nat /\ x \in Int /\ y \in Int
    OBVIOUS
  <2>4. ~(N - y < N - x)
    BY <2>2, <2>3 DEF OpToRel
  <2> QED
    BY <2>3, <2>4
<1> QED
  BY <1>4 DEF Max

\* The last position of a queue: 0 exactly when nobody waits.
LEMMA MaxQueuedRange ==
    ASSUME NEW bk \in [Bookings -> Rows], NEW u
    PROVE  /\ MaxQueued(bk, u) \in 0 .. MaxPriority
           /\ Queue(bk, u) = {} => MaxQueued(bk, u) = 0
<1> DEFINE S == {0} \cup {bk[b].priority : b \in Queue(bk, u)}
<1>1. S \in SUBSET (0 .. MaxPriority) /\ S # {}
  BY MaxPriorityAssumption DEF Queue, Rows
<1>2. Max(S) \in S
  BY <1>1, MaxOfBounded, MaxPriorityAssumption
<1>3. Queue(bk, u) = {} => S = {0}
  OBVIOUS
<1> QED
  BY <1>1, <1>2, <1>3 DEF MaxQueued

-----------------------------------------------------------------------------
(* Type correctness.                                                       *)

LEMMA QueueIsFinite ==
    ASSUME NEW bk, NEW u
    PROVE  Cardinality(Queue(bk, u)) \in Nat
<1>1. Queue(bk, u) \subseteq Bookings
  BY DEF Queue
<1> QED
  BY <1>1, BookingsAssumption, FS_Subset, FS_CardinalityType

USE OperationsAssumption, ReviewsAssumption, MaxPriorityAssumption, ParametersAssumption

\* Whatever a promotion returns is a table of rows and a unit status.
LEMMA PromotionsType ==
    ASSUME NEW bk \in [Bookings -> Rows], NEW u, NEW p \in Promotions(bk, u)
    PROVE  p.rows \in [Bookings -> Rows] /\ p.status \in UnitStatuses
<1>1. CASE {b \in Queue(bk, u) : bk[b].status = "PENDING"} = {}
  BY <1>1 DEF Promotions, UnitStatuses
<1>2. CASE {b \in Queue(bk, u) : bk[b].status = "PENDING"} # {}
  <2> DEFINE pending == {b \in Queue(bk, u) : bk[b].status = "PENDING"}
  <2>1. PICK b \in First(bk, pending) :
            p = [rows |-> [bk EXCEPT ![b].status = "ACTIVE", ![b].priority = 1],
                 status |-> "BOOKING"]
    BY <1>2 DEF Promotions
  <2>2. b \in Bookings
    BY DEF First, Queue
  <2>3. [bk[b] EXCEPT !.status = "ACTIVE", !.priority = 1] \in Rows
    <3>1. bk[b] \in Rows
      BY <2>2
    <3>2. 1 \in 0 .. MaxPriority
      BY MaxPriorityAssumption
    <3> QED
      BY <3>1, <3>2 DEF Rows, Statuses, QueuedStatuses
  <2>4. [bk EXCEPT ![b].status = "ACTIVE", ![b].priority = 1] \in [Bookings -> Rows]
    BY <2>2, <2>3
  <2> QED
    BY <2>1, <2>4 DEF UnitStatuses
<1> QED
  BY <1>1, <1>2

LEMMA TypeInit == Init => TypeOK
<1> SUFFICES ASSUME Init PROVE TypeOK
  OBVIOUS
<1>1. booking \in [Bookings -> Rows]
  <2>1. (CHOOSE u \in Units : TRUE) \in Units /\ (CHOOSE p \in Parties : TRUE) \in Parties
    OBVIOUS
  <2>2. "NONE" \in Prices /\ 0 \in 0 .. MaxPriority
    BY DEF Prices
  <2>3. [status |-> "NONE", unit |-> CHOOSE u \in Units : TRUE,
         party |-> CHOOSE p \in Parties : TRUE, priority |-> 0, isActive |-> TRUE,
         price |-> "NONE", overdue |-> FALSE, proposal |-> FALSE] \in Rows
    BY <2>1, <2>2 DEF Rows
  <2> QED
    BY <2>3 DEF Init
<1>2. unitStatus \in [Units -> UnitStatuses]
  BY DEF Init, UnitStatuses
<1>3. req \in [Clients -> Requests]
  BY DEF Init, Requests
<1> QED
  BY <1>1, <1>2, <1>3 DEF TypeOK, Init

LEMMA TypeRead ==
    ASSUME TypeOK, NEW c \in Clients, Read(c)
    PROVE  TypeOK'
<1>1. ASSUME NEW r \in Requests, Ask(c, r) PROVE TypeOK'
  BY <1>1 DEF TypeOK, Ask
<1>2. \A b \in Bookings : booking[b].unit \in Units /\ booking[b].priority \in 0 .. MaxPriority
  BY DEF TypeOK, Rows
<1>3. PICK b \in Bookings : 
        \/ \E target \in Units, party \in Parties, price \in {"KEEP"} \cup Reviews :
              UpdateRead(c, b, target, party, price)
        \/ \E verdict \in {"APPROVED", "REJECTED"} : PriceRead(c, b, verdict)
        \/ ExtendRead(c, b)
        \/ \E new \in 1 .. MaxPriority : UpdatePriorityRead(c, b, new)
        \/ ReinstateRead(c, b)
        \/ CancelRead(c, b)
        \/ ExpireRead(c, b)
        \/ ConvertRead(c, b)
        \/ \E isAdmin \in BOOLEAN : SoftDeleteRead(c, b, isAdmin)
  BY DEF Read
<1>4. ASSUME NEW target \in Units, NEW party \in Parties, NEW price \in {"KEEP"} \cup Reviews,
             UpdateRead(c, b, target, party, price)
      PROVE  TypeOK'
  BY <1>1, <1>2, <1>4 DEF UpdateRead, Requests
<1>5. ASSUME NEW verdict \in {"APPROVED", "REJECTED"}, PriceRead(c, b, verdict)
      PROVE  TypeOK'
  BY <1>1, <1>5 DEF PriceRead, Requests
<1>6. ASSUME NEW new \in 1 .. MaxPriority, UpdatePriorityRead(c, b, new)
      PROVE  TypeOK'
  BY <1>1, <1>2, <1>6 DEF UpdatePriorityRead, Requests
<1>7. ASSUME NEW op \in {"extend", "reinstate", "cancel", "convert", "expire", "softDelete"}
      PROVE  [op |-> op, id |-> b, unit |-> booking[b].unit] \in Requests
  BY <1>2 DEF Requests
<1> QED
  BY <1>1, <1>3, <1>4, <1>5, <1>6, <1>7
     DEF ExtendRead, ReinstateRead, CancelRead, ExpireRead, ConvertRead, SoftDeleteRead

\* A request that ends leaves its client idle.
LEMMA DoneType ==
    ASSUME TypeOK, NEW c \in Clients, Done(c)
    PROVE  req' \in [Clients -> Requests]
  BY DEF TypeOK, Done, Requests

\* What the requests in flight remember.
LEMMA RequestFields ==
    ASSUME TypeOK, NEW c \in Clients
    PROVE  /\ req[c].op \in {"extend", "reinstate", "cancel", "convert", "expire", "softDelete"} =>
                 req[c].id \in Bookings /\ req[c].unit \in Units
           /\ req[c].op = "update" =>
                 /\ req[c].id \in Bookings /\ req[c].unit \in Units /\ req[c].target \in Units
                 /\ req[c].party \in Parties /\ req[c].price \in {"KEEP"} \cup Reviews
           /\ req[c].op = "price" =>
                 req[c].id \in Bookings /\ req[c].verdict \in {"APPROVED", "REJECTED"}
           /\ req[c].op = "updatePriority" =>
                 /\ req[c].id \in Bookings /\ req[c].unit \in Units
                 /\ req[c].old \in 0 .. MaxPriority /\ req[c].new \in 1 .. MaxPriority
           /\ req[c].op = "syncRead" => req[c].unit \in Units
           /\ req[c].op = "sync" =>
                 req[c].up \in SUBSET Bookings /\ req[c].down \in SUBSET Bookings
           /\ req[c].op = "setStatus" => req[c].unit \in Units /\ req[c].to \in UnitStatuses
  BY DEF TypeOK, Requests, Idle

\* Writes to the columns of one row.
LEMMA RowWrites ==
    ASSUME NEW row \in Rows
    PROVE  /\ \A s \in Statuses : [row EXCEPT !.status = s] \in Rows
           /\ \A b \in BOOLEAN : [row EXCEPT !.overdue = b] \in Rows
           /\ \A b \in BOOLEAN : [row EXCEPT !.isActive = b] \in Rows
           /\ \A q \in Prices : [row EXCEPT !.price = q] \in Rows
           /\ \A n \in 0 .. MaxPriority : [row EXCEPT !.priority = n] \in Rows
           /\ \A s \in Statuses, n \in 0 .. MaxPriority :
                 [row EXCEPT !.status = s, !.priority = n, !.overdue = FALSE] \in Rows
           /\ [row EXCEPT !.status = "CONVERTED", !.proposal = TRUE] \in Rows
<1>1. "CONVERTED" \in Statuses
  BY DEF Statuses
<1> QED
  BY <1>1 DEF Rows

LEMMA EditedType ==
    ASSUME NEW row \in Rows, NEW r, r.party \in Parties, r.price \in {"KEEP"} \cup Reviews
    PROVE  Edited(row, r) \in Rows
<1>1. (IF r.price = "KEEP" THEN row.price ELSE r.price) \in Prices
  BY DEF Rows, Prices
<1>2. \A q \in Prices : [row EXCEPT !.party = r.party, !.price = q] \in Rows
  BY DEF Rows
<1> QED
  BY <1>1, <1>2 DEF Edited

LEMMA MovedType ==
    ASSUME NEW row \in Rows, NEW u \in Units, NEW n \in 0 .. MaxPriority, NEW s \in Statuses
    PROVE  [row EXCEPT !.unit = u, !.priority = n, !.status = s] \in Rows
  BY DEF Rows

LEMMA StatusAtType == \A n : StatusAt(n) \in QueuedStatuses /\ StatusAt(n) \in Statuses
  BY DEF StatusAt, QueuedStatuses, Statuses

LEMMA TypeWrite ==
    ASSUME TypeOK, NEW c \in Clients, Write(c)
    PROVE  TypeOK'
<1>1. /\ booking \in [Bookings -> Rows] /\ unitStatus \in [Units -> UnitStatuses]
      /\ live \subseteq Units
      /\ \A b \in Bookings : booking[b] \in Rows
  BY DEF TypeOK
<1>2. Done(c) => req' \in [Clients -> Requests]
  BY DoneType
<1>3. "BOOKING" \in UnitStatuses
  BY DEF UnitStatuses
<1>4. CASE UpdateInPlace(c)
  <2>1. Edited(booking[req[c].id], req[c]) \in Rows
    BY <1>1, <1>4, RequestFields, EditedType DEF UpdateInPlace
  <2> QED
    BY <1>1, <1>2, <1>4, <2>1, RequestFields DEF UpdateInPlace, TypeOK
<1>5. CASE UpdateMove(c)
  <2> DEFINE r == req[c]
             position == Cardinality(Queue(booking, r.target)) + 1
             row == [Edited(booking[r.id], r) EXCEPT !.unit = r.target, !.priority = position,
                                                     !.status = StatusAt(position)]
             moved == [booking EXCEPT ![r.id] = row]
  <2>0. /\ r.id \in Bookings /\ r.unit \in Units /\ r.target \in Units
        /\ r.party \in Parties /\ r.price \in {"KEEP"} \cup Reviews
        /\ position <= MaxPriority
    BY <1>5, RequestFields DEF UpdateMove
  <2>1. PICK p \in Promotions(moved, r.unit) :
            /\ booking' = p.rows
            /\ unitStatus' = [unitStatus EXCEPT
                                 ![r.unit] = p.status,
                                 ![r.target] = IF position = 1 THEN "BOOKING" ELSE @]
    BY <1>5 DEF UpdateMove
  <2>2. position \in 0 .. MaxPriority
    <3>1. Cardinality(Queue(booking, r.target)) \in Nat
      BY QueueIsFinite
    <3> QED
      BY <2>0, <3>1
  <2>3. Edited(booking[r.id], r) \in Rows
    BY <1>1, <2>0, EditedType
  <2>4. row \in Rows
    BY <2>0, <2>2, <2>3, MovedType, StatusAtType
  <2>5. moved \in [Bookings -> Rows]
    BY <1>1, <2>0, <2>4
  <2>6. p.rows \in [Bookings -> Rows] /\ p.status \in UnitStatuses
    BY <2>1, <2>5, PromotionsType
  <2>7. unitStatus' \in [Units -> UnitStatuses]
    BY <1>1, <1>3, <2>1, <2>6
  <2> QED
    BY <1>1, <1>2, <1>5, <2>1, <2>6, <2>7 DEF UpdateMove, TypeOK
<1>6. CASE DecidePrice(c)
  <2>1. req[c].verdict \in Prices /\ req[c].id \in Bookings
    BY <1>6, RequestFields DEF DecidePrice, Prices
  <2> QED
    BY <1>1, <1>2, <1>6, <2>1, RowWrites DEF DecidePrice, TypeOK
<1>7. CASE Extend(c)
  <2>1. req[c].id \in Bookings /\ booking[req[c].id].overdue \in BOOLEAN
    BY <1>1, <1>7, RequestFields DEF Extend, Rows
  <2>2. \A overdue \in {FALSE, booking[req[c].id].overdue} :
            [booking[req[c].id] EXCEPT !.overdue = overdue] \in Rows
    BY <1>1, <2>1, RowWrites
  <2> QED
    BY <1>1, <1>2, <1>7, <2>1, <2>2 DEF Extend, TypeOK
<1>8. CASE UpdatePriority(c)
  <2> DEFINE r == req[c]
  <2>1. r.unit \in Units /\ r.old \in 0 .. MaxPriority /\ r.new \in 1 .. MaxPriority
    BY <1>8, RequestFields DEF UpdatePriority
  <2>2. ASSUME NEW b \in Bookings PROVE Shifted(r)[b] \in Rows
    <3>1. booking[b].priority \in 0 .. MaxPriority
      BY <1>1 DEF Rows
    <3>2. r.new \in 0 .. MaxPriority
      BY <2>1
    <3>3. booking[b].priority \in r.new .. (r.old - 1) => booking[b].priority + 1 \in 0 .. MaxPriority
      BY <2>1, <3>1
    <3>4. booking[b].priority \in (r.old + 1) .. r.new => booking[b].priority - 1 \in 0 .. MaxPriority
      BY <2>1, <3>1
    <3> QED
      BY <1>1, <3>2, <3>3, <3>4, RowWrites DEF Shifted
  <2>3. Shifted(r) \in [Bookings -> Rows]
    BY <2>2 DEF Shifted
  <2>4. [op |-> "syncRead", unit |-> r.unit] \in Requests
    BY <2>1 DEF Requests
  <2> QED
    BY <1>1, <1>8, <2>3, <2>4 DEF UpdatePriority, TypeOK
<1>9. CASE SyncRead(c)
  <2>1. ASSUME NEW head \in Bookings, NEW S \in SUBSET Bookings, NEW T \in SUBSET Bookings
        PROVE  [op |-> "sync", up |-> S, down |-> T] \in Requests
    BY DEF Requests
  <2> DEFINE queue == Queue(booking, req[c].unit)
             up(head) == {b \in {head} : booking[b].status = "PENDING"}
             down(head) == {b \in queue \ {head} : booking[b].status = "ACTIVE"}
  <2>2. \A head \in First(booking, queue) :
            up(head) \in SUBSET Bookings /\ down(head) \in SUBSET Bookings
    BY DEF First, Queue
  <2>3. CASE queue = {}
    BY <1>1, <1>2, <1>9, <2>3 DEF SyncRead, TypeOK
  <2>4. CASE queue # {}
    <3>0. First(booking, queue) \subseteq Bookings
      BY DEF First, Queue
    <3>1. PICK head \in First(booking, queue) :
              req' = [req EXCEPT ![c] = [op |-> "sync", up |-> up(head), down |-> down(head)]]
      BY <1>9, <2>4 DEF SyncRead
    <3>2. [op |-> "sync", up |-> up(head), down |-> down(head)] \in Requests
      <4>1. head \in Bookings /\ up(head) \in SUBSET Bookings /\ down(head) \in SUBSET Bookings
        BY <2>2, <3>0, <3>1
      <4> HIDE DEF up, down
      <4> QED
        BY <2>1, <4>1
    <3> QED
      BY <1>1, <1>9, <3>1, <3>2 DEF SyncRead, TypeOK
  <2> QED
    BY <2>3, <2>4
<1>10. CASE SyncWrite(c)
  <2>1. PICK b \in req[c].up \cup req[c].down, s \in {"ACTIVE", "PENDING"} :
            /\ booking' = [booking EXCEPT ![b].status = s]
            /\ req' = [req EXCEPT ![c].up = @ \ {b}, ![c].down = @ \ {b}]
    BY <1>10 DEF SyncWrite
  <2>2. req[c].op = "sync" /\ req \in [Clients -> Requests] /\ req[c] \in Requests
    BY <1>10 DEF SyncWrite, TypeOK
  <2>5. req[c] \in [op : {"sync"}, up : SUBSET Bookings, down : SUBSET Bookings]
    BY <2>2 DEF Requests, Idle
  <2>3. [req[c] EXCEPT !.up = @ \ {b}, !.down = @ \ {b}] \in Requests
    BY <2>5 DEF Requests
  <2>4. b \in Bookings /\ s \in Statuses
    BY <2>1, <2>5 DEF Statuses, QueuedStatuses
  <2> QED
    BY <1>1, <1>10, <2>1, <2>2, <2>3, <2>4, RowWrites DEF SyncWrite, TypeOK
<1>11. CASE SyncEnd(c)
  BY <1>1, <1>2, <1>11 DEF SyncEnd, TypeOK
<1>12. CASE Reinstate(c)
  <2> DEFINE r == req[c]
             priority == MaxQueued(booking, r.unit) + 1
             row == [booking[r.id] EXCEPT !.status = StatusAt(priority), !.priority = priority,
                                          !.overdue = FALSE]
  <2>1. r.id \in Bookings /\ r.unit \in Units /\ priority <= MaxPriority
    BY <1>12, RequestFields DEF Reinstate
  <2>2. priority \in 0 .. MaxPriority
    <3>1. MaxQueued(booking, r.unit) \in 0 .. MaxPriority
      BY <1>1, MaxQueuedRange
    <3> QED
      BY <2>1, <3>1
  <2>3. row \in Rows
    BY <1>1, <2>1, <2>2, StatusAtType, RowWrites
  <2>4. booking' = [booking EXCEPT ![r.id] = row]
    BY <1>12 DEF Reinstate
  <2>5. booking' \in [Bookings -> Rows]
    BY <1>1, <2>1, <2>3, <2>4
  <2>6. unitStatus' \in [Units -> UnitStatuses]
    BY <1>1, <1>3, <1>12, <2>1 DEF Reinstate
  <2> QED
    BY <1>1, <1>2, <1>12, <2>5, <2>6 DEF Reinstate, TypeOK
<1>13. ASSUME NEW b \in Bookings, NEW s \in Statuses, NEW u,
              NEW p \in Promotions([booking EXCEPT ![b].status = s], u)
       PROVE  p.rows \in [Bookings -> Rows] /\ p.status \in UnitStatuses
  <2>1. [booking EXCEPT ![b].status = s] \in [Bookings -> Rows]
    BY <1>1, RowWrites
  <2> QED
    BY <2>1, PromotionsType
<1>14. "CANCELLED" \in Statuses /\ "EXPIRED" \in Statuses
  BY DEF Statuses
<1>15. CASE Cancel(c)
  <2>1. req[c].id \in Bookings /\ req[c].unit \in Units
    BY <1>15, RequestFields DEF Cancel
  <2>2. CASE UNCHANGED <<booking, unitStatus>>
    BY <1>1, <1>2, <1>15, <2>2 DEF Cancel, TypeOK
  <2>3. ASSUME NEW p \in Promotions([booking EXCEPT ![req[c].id].status = "CANCELLED"], req[c].unit),
               booking' = p.rows, unitStatus' = [unitStatus EXCEPT ![req[c].unit] = p.status]
        PROVE  TypeOK'
    BY <1>1, <1>2, <1>13, <1>14, <1>15, <2>1, <2>3 DEF Cancel, TypeOK
  <2> QED
    BY <1>15, <2>2, <2>3 DEF Cancel
<1>16. CASE Expire(c)
  <2>1. req[c].id \in Bookings /\ req[c].unit \in Units
    BY <1>16, RequestFields DEF Expire
  <2>2. CASE UNCHANGED <<booking, unitStatus>>
    BY <1>1, <1>2, <1>16, <2>2 DEF Expire, TypeOK
  <2>3. ASSUME NEW p \in Promotions([booking EXCEPT ![req[c].id].status = "EXPIRED"], req[c].unit),
               booking' = p.rows, unitStatus' = [unitStatus EXCEPT ![req[c].unit] = p.status]
        PROVE  TypeOK'
    BY <1>1, <1>2, <1>13, <1>14, <1>16, <2>1, <2>3 DEF Expire, TypeOK
  <2> QED
    BY <1>16, <2>2, <2>3 DEF Expire
<1>17. CASE Convert(c)
  BY <1>1, <1>2, <1>17, RequestFields, RowWrites DEF Convert, TypeOK
<1>18. CASE SoftDelete(c)
  BY <1>1, <1>2, <1>18, RequestFields, RowWrites DEF SoftDelete, TypeOK
<1>19. CASE SetStatus(c)
  BY <1>1, <1>2, <1>19, RequestFields DEF SetStatus, TypeOK
<1> QED
  BY <1>4, <1>5, <1>6, <1>7, <1>8, <1>9, <1>10, <1>11, <1>12, <1>15, <1>16, <1>17, <1>18, <1>19
     DEF Write

LEMMA TypeCreate ==
    ASSUME TypeOK, NEW c \in Clients, NEW b \in Bookings, NEW u \in Units, NEW p \in Parties,
           NEW review \in Reviews, Create(c, b, u, p, review)
    PROVE  TypeOK'
<1> DEFINE priority == MaxQueued(booking, u) + 1
           row == [status |-> StatusAt(priority), unit |-> u, party |-> p,
                   priority |-> priority, isActive |-> TRUE, price |-> review,
                   overdue |-> FALSE, proposal |-> FALSE]
<1>1. priority \in 0 .. MaxPriority
  BY MaxQueuedRange DEF Create, TypeOK
<1>2. row \in Rows
  BY <1>1, StatusAtType DEF Rows, Prices
<1>3. booking' = [booking EXCEPT ![b] = row]
  BY DEF Create
<1> QED
  BY <1>2, <1>3 DEF Create, TypeOK, UnitStatuses

LEMMA TypeOthers ==
    ASSUME TypeOK, NEW c \in Clients, NEW u \in Units,
           \/ ContractFromProposal(c, u) \/ CreateContract(c, u)
           \/ ContractExpires(c, u) \/ CompleteTermination(c, u)
           \/ \E to \in UnitStatuses : SetStatusRead(c, u, to)
    PROVE  TypeOK'
<1>1. "CONTRACTED" \in UnitStatuses /\ "VACANT" \in UnitStatuses
  BY DEF UnitStatuses
<1>2. \A b \in Bookings : [booking[b] EXCEPT !.status = "CANCELLED"] \in Rows
  BY RowWrites DEF TypeOK, Statuses
<1>3. CASE ContractFromProposal(c, u)
  BY <1>1, <1>2, <1>3 DEF ContractFromProposal, TypeOK
<1>4. CASE CreateContract(c, u) \/ ContractExpires(c, u) \/ CompleteTermination(c, u)
  BY <1>1, <1>4 DEF CreateContract, ContractExpires, CompleteTermination, TypeOK
<1>5. ASSUME NEW to \in UnitStatuses, SetStatusRead(c, u, to) PROVE TypeOK'
  <2>1. [op |-> "setStatus", unit |-> u, to |-> to] \in Requests
    BY DEF Requests
  <2> QED
    BY <1>5, <2>1 DEF SetStatusRead, Ask, TypeOK
<1> QED
  BY <1>3, <1>4, <1>5

LEMMA TypeNext == TypeOK /\ [Next]_vars => TypeOK'
<1> SUFFICES ASSUME TypeOK, [Next]_vars PROVE TypeOK'
  OBVIOUS
<1>1. ASSUME NEW c \in Clients, Abandon(c) PROVE TypeOK'
  BY <1>1, DoneType DEF Abandon, TypeOK
<1>2. ASSUME NEW b \in Bookings, HoldEnds(b) PROVE TypeOK'
  BY <1>2, RowWrites DEF HoldEnds, TypeOK
<1>3. CASE UNCHANGED vars
  BY <1>3 DEF vars, TypeOK
<1> QED
  BY <1>1, <1>2, <1>3, TypeCreate, TypeRead, TypeWrite, TypeOthers DEF Next

\* Every row the services write, and every value a request in flight carries,
\* has the shape its column or parameter requires, whatever is interleaved.
THEOREM TypeCorrect == Spec => []TypeOK
<1>1. Init => TypeOK
  BY TypeInit
<1>2. TypeOK /\ [Next]_vars => TypeOK'
  BY TypeNext
<1> QED
  BY <1>1, <1>2, PTL DEF Spec

-----------------------------------------------------------------------------
(* A queue and the reservation of its unit.                                *)

\* The operations whose transaction does not rely on a booking's unit or
\* status as it was read before: moving and reordering bookings, the manual
\* status endpoint and the direct contract are the ones that do, and with
\* them the invariant below is false.
CoreOperations ==
    {"create", "price", "extend", "reinstate", "cancel", "convert", "expire",
     "softDelete", "contractFromProposal", "endContract"}

\* A request in flight remembers the unit its booking is still on, and is one
\* of the core operations.
RequestsAgree ==
    \A c \in Clients :
        /\ req[c].op \in {"idle", "price", "extend", "reinstate", "cancel", "convert",
                          "expire", "softDelete"}
        /\ req[c].op # "idle" => Exists(req[c].id)
        /\ req[c].op \in {"reinstate", "cancel", "expire"} =>
              req[c].unit = booking[req[c].id].unit

IInv == TypeOK /\ RequestsAgree /\ QueuedUnitIsReserved

\* What promoteNextInQueue leaves behind: the reservation stands exactly when
\* somebody waits, and nobody's unit changes.
LEMMA PromotionsKeepReservation ==
    ASSUME NEW bk \in [Bookings -> Rows], NEW u \in Units, NEW p \in Promotions(bk, u),
           Queue(bk, u) # {} => unitStatus[u] = "BOOKING"
    PROVE  /\ \A b \in Bookings : p.rows[b].unit = bk[b].unit
           /\ \A b \in Bookings : p.rows[b].status # bk[b].status =>
                 bk[b].unit = u /\ bk[b].status = "PENDING" /\ p.rows[b].status = "ACTIVE"
           /\ \A v : Queue(p.rows, v) = Queue(bk, v)
           /\ p.status = IF Queue(bk, u) = {} THEN "VACANT" ELSE "BOOKING"
<1> DEFINE pending == {b \in Queue(bk, u) : bk[b].status = "PENDING"}
<1>1. CASE pending = {}
  <2>1. p.rows = bk /\ p.status = "VACANT" /\ Allowed(bk, u, "VACANT")
    BY <1>1 DEF Promotions
  <2>2. Queue(bk, u) = {}
    BY <2>1 DEF Allowed, TransitionAllowed
  <2> QED
    BY <2>1, <2>2
<1>2. CASE pending # {}
  <2>1. PICK b \in First(bk, pending) :
            p = [rows |-> [bk EXCEPT ![b].status = "ACTIVE", ![b].priority = 1],
                 status |-> "BOOKING"]
    BY <1>2 DEF Promotions
  <2>2. b \in Queue(bk, u) /\ bk[b].status = "PENDING" /\ bk[b].unit = u /\ b \in Bookings
    BY DEF First, Queue
  <2>3. \A x \in Bookings : x # b => p.rows[x] = bk[x]
    BY <2>1
  <2>4. /\ p.rows[b].unit = bk[b].unit /\ p.rows[b].isActive = bk[b].isActive
        /\ p.rows[b].status = "ACTIVE"
    BY <2>1, <2>2 DEF Rows
  <2>5. \A v : Queue(p.rows, v) = Queue(bk, v)
    BY <2>2, <2>3, <2>4 DEF Queue, QueuedStatuses
  <2> QED
    BY <2>1, <2>2, <2>3, <2>4, <2>5
<1> QED
  BY <1>1, <1>2

\* A booking leaves the queue by its request and the next one is promoted.
LEMMA LeaveKeepsReservation ==
    ASSUME IInv, NEW c \in Clients, NEW s \in Statuses \ QueuedStatuses,
           req[c].op \in {"cancel", "expire"},
           NEW p \in Promotions([booking EXCEPT ![req[c].id].status = s], req[c].unit),
           booking' = p.rows,
           unitStatus' = [unitStatus EXCEPT ![req[c].unit] = p.status]
    PROVE  /\ QueuedUnitIsReserved'
           /\ \A b \in Bookings : booking'[b].unit = booking[b].unit
           /\ \A b \in Bookings : Exists(b) => Exists(b)'
           /\ \A v \in Units \ {req[c].unit} : Queue(booking', v) = Queue(booking, v)
           /\ p.status = IF Queue(booking', req[c].unit) = {} THEN "VACANT" ELSE "BOOKING"
<1> DEFINE i == req[c].id
<1>0. /\ i \in Bookings /\ req[c].unit \in Units /\ req[c].unit = booking[i].unit
      /\ booking \in [Bookings -> Rows] /\ unitStatus \in [Units -> UnitStatuses]
  BY RequestFields DEF IInv, RequestsAgree, TypeOK
<1>1. PICK u \in Units : u = req[c].unit
  BY <1>0
<1>2. PICK bk \in [Bookings -> Rows] : bk = [booking EXCEPT ![i].status = s]
  BY <1>0, RowWrites
<1>3. /\ bk[i].status = s /\ bk[i].unit = booking[i].unit
      /\ \A b \in Bookings : b # i => bk[b] = booking[b]
  BY <1>0, <1>2 DEF Rows
<1>4. \A v : Queue(bk, v) = Queue(booking, v) \ {i}
  BY <1>0, <1>3 DEF Queue
<1>5. Queue(bk, u) # {} => unitStatus[u] = "BOOKING"
  BY <1>0, <1>1, <1>4 DEF IInv, QueuedUnitIsReserved
<1>6. /\ \A b \in Bookings : p.rows[b].unit = bk[b].unit
      /\ \A b \in Bookings : p.rows[b].status # bk[b].status =>
            bk[b].unit = u /\ bk[b].status = "PENDING" /\ p.rows[b].status = "ACTIVE"
      /\ \A v : Queue(p.rows, v) = Queue(bk, v)
      /\ p.status = IF Queue(bk, u) = {} THEN "VACANT" ELSE "BOOKING"
  <2>1. p \in Promotions(bk, u)
    BY <1>1, <1>2
  <2>2. Queue(bk, u) # {} => unitStatus[u] = "BOOKING"
    BY <1>5
  <2>3. \A b \in Bookings : p.rows[b].unit = bk[b].unit
    BY <2>1, <2>2, PromotionsKeepReservation
  <2>4. \A v : Queue(p.rows, v) = Queue(bk, v)
    BY <2>1, <2>2, PromotionsKeepReservation
  <2>5. \A b \in Bookings : p.rows[b].status # bk[b].status =>
           bk[b].unit = u /\ bk[b].status = "PENDING" /\ p.rows[b].status = "ACTIVE"
    BY <2>1, <2>2, PromotionsKeepReservation
  <2>6. p.status = IF Queue(bk, u) = {} THEN "VACANT" ELSE "BOOKING"
    BY <2>1, <2>2, PromotionsKeepReservation
  <2> QED
    BY <2>3, <2>4, <2>5, <2>6
<1>7. \A b \in Bookings : booking'[b].unit = booking[b].unit
  BY <1>3, <1>6
<1>8. \A b \in Bookings : Exists(b) => Exists(b)'
  BY <1>3, <1>6 DEF Exists, Statuses
<1>9. QueuedUnitIsReserved'
  BY <1>0, <1>1, <1>4, <1>6 DEF IInv, QueuedUnitIsReserved
<1>11. \A v \in Units \ {u} : Queue(booking', v) = Queue(booking, v)
  <2> SUFFICES ASSUME NEW v \in Units \ {u} PROVE Queue(booking', v) = Queue(booking, v)
    OBVIOUS
  <2>1. i \notin Queue(booking, v)
    BY <1>0, <1>1 DEF Queue
  <2>2. Queue(booking', v) = Queue(booking, v) \ {i}
    BY <1>4, <1>6
  <2> QED
    BY <2>1, <2>2
<1> QED
  BY <1>1, <1>6, <1>7, <1>8, <1>9, <1>11

\* A request in flight stays in agreement when its client finishes or waits
\* and no booking moves or disappears.
LEMMA AgreementKept ==
    ASSUME IInv, NEW c \in Clients,
           req' = req \/ req' = [req EXCEPT ![c] = Idle],
           \A b \in Bookings : Exists(b) => Exists(b)' /\ booking'[b].unit = booking[b].unit
    PROVE  RequestsAgree'
<1>1. req \in [Clients -> Requests] /\ Idle.op = "idle"
  BY DEF IInv, TypeOK, Idle
<1> SUFFICES ASSUME NEW d \in Clients
             PROVE  (/\ req[d].op \in {"idle", "price", "extend", "reinstate", "cancel",
                                       "convert", "expire", "softDelete"}
                     /\ req[d].op # "idle" => Exists(req[d].id)
                     /\ req[d].op \in {"reinstate", "cancel", "expire"} =>
                           req[d].unit = booking[req[d].id].unit)'
  BY DEF RequestsAgree
<1>2. CASE req'[d] = Idle
  BY <1>1, <1>2
<1>3. CASE req'[d] = req[d]
  <2>1. req[d].op # "idle" => req[d].id \in Bookings
    BY <1>1, RequestFields DEF IInv, RequestsAgree
  <2> QED
    BY <1>3, <2>1 DEF IInv, RequestsAgree
<1> QED
  BY <1>1, <1>2, <1>3

\* Rows whose status becomes CONVERTED, or which are hidden, leave the queue
\* without freeing the unit.
LEMMA ShrinkKeepsReservation ==
    ASSUME IInv, unitStatus' = unitStatus,
           \A b \in Bookings :
               /\ booking'[b].unit = booking[b].unit
               /\ booking'[b].status \in {booking[b].status, "CONVERTED"}
               /\ booking'[b].isActive => booking[b].isActive
    PROVE  /\ QueuedUnitIsReserved'
           /\ \A b \in Bookings : Exists(b) => Exists(b)'
<1>1. \A u \in Units : Queue(booking', u) \subseteq Queue(booking, u)
  BY DEF Queue, QueuedStatuses
<1>2. QueuedUnitIsReserved'
  BY <1>1 DEF IInv, QueuedUnitIsReserved
<1> QED
  BY <1>2 DEF Exists

\* A new row, or one already on u, joins the queue of u.
Joins(b, u) ==
    \E row \in Rows :
        /\ Exists(b) => booking[b].unit = u
        /\ row.unit = u /\ row.status \in QueuedStatuses
        /\ b \in Queue(booking, u) => row.isActive
        /\ booking' = [booking EXCEPT ![b] = row]
        /\ MaxQueued(booking, u) + 1 = 1 => Allowed(booking', u, "BOOKING")
        /\ unitStatus' = [unitStatus EXCEPT ![u] = IF MaxQueued(booking, u) + 1 = 1
                                                   THEN "BOOKING" ELSE @]

LEMMA CreateJoins ==
    ASSUME TypeOK, NEW c \in Clients, NEW b \in Bookings, NEW u \in Units, NEW p \in Parties,
           NEW review \in Reviews, Create(c, b, u, p, review)
    PROVE  Joins(b, u) /\ UNCHANGED <<live, req>>
<1> DEFINE priority == MaxQueued(booking, u) + 1
           row == [status |-> StatusAt(priority), unit |-> u, party |-> p,
                   priority |-> priority, isActive |-> TRUE, price |-> review,
                   overdue |-> FALSE, proposal |-> FALSE]
<1>1. booking \in [Bookings -> Rows]
  BY DEF TypeOK
<1>2. priority \in 0 .. MaxPriority
  BY <1>1, MaxQueuedRange DEF Create
<1>3. row \in Rows /\ row.unit = u /\ row.status \in QueuedStatuses /\ row.isActive
  BY <1>2, StatusAtType DEF Rows, Prices, StatusAt, QueuedStatuses
<1>4. /\ booking' = [booking EXCEPT ![b] = row]
      /\ priority = 1 => Allowed(booking', u, "BOOKING")
      /\ unitStatus' = [unitStatus EXCEPT ![u] = IF MaxQueued(booking, u) + 1 = 1
                                                 THEN "BOOKING" ELSE @]
      /\ UNCHANGED <<live, req>> /\ ~Exists(b)
  BY DEF Create
<1> HIDE DEF row
<1> QED
  BY <1>3, <1>4 DEF Joins

LEMMA ReinstateJoins ==
    ASSUME TypeOK, RequestsAgree, NEW c \in Clients, Reinstate(c)
    PROVE  /\ req[c].id \in Bookings /\ req[c].unit \in Units
           /\ Joins(req[c].id, req[c].unit) /\ live' = live /\ Done(c)
<1> DEFINE r == req[c]
           priority == MaxQueued(booking, r.unit) + 1
           row == [booking[r.id] EXCEPT !.status = StatusAt(priority),
                                        !.priority = priority, !.overdue = FALSE]
<1>1. booking \in [Bookings -> Rows]
  BY DEF TypeOK
<1>2. r.id \in Bookings /\ r.unit \in Units /\ booking[r.id].unit = r.unit
  BY RequestFields DEF Reinstate, RequestsAgree
<1>3. priority \in 0 .. MaxPriority
  BY <1>1, MaxQueuedRange DEF Reinstate
<1>4. /\ row \in Rows /\ row.unit = r.unit /\ row.status = StatusAt(priority)
      /\ row.isActive = booking[r.id].isActive
  <2>1. StatusAt(priority) \in Statuses /\ booking[r.id] \in Rows
    BY <1>1, <1>2, StatusAtType
  <2> HIDE DEF priority
  <2> QED
    BY <1>2, <1>3, <2>1 DEF Rows
<1>5. StatusAt(priority) \in QueuedStatuses
  BY DEF StatusAt, QueuedStatuses
<1>6. /\ booking' = [booking EXCEPT ![r.id] = row]
      /\ priority = 1 => Allowed(booking', r.unit, "BOOKING")
  BY <1>1, <1>2 DEF Reinstate
<1>7. /\ unitStatus' = [unitStatus EXCEPT ![r.unit] = IF MaxQueued(booking, r.unit) + 1 = 1
                                                      THEN "BOOKING" ELSE @]
      /\ live' = live /\ Done(c)
  BY DEF Reinstate
<1>8. r.id \in Queue(booking, r.unit) => booking[r.id].isActive
  BY DEF Queue
<1> HIDE DEF row
<1> QED
  BY <1>2, <1>4, <1>5, <1>6, <1>7, <1>8 DEF Joins

\* A booking that joins the queue of u reserves u unless it is reserved.
LEMMA EnterKeepsReservation ==
    ASSUME IInv, NEW b \in Bookings, NEW u \in Units, Joins(b, u)
    PROVE  /\ QueuedUnitIsReserved'
           /\ \A x \in Bookings : Exists(x) => Exists(x)' /\ booking'[x].unit = booking[x].unit
           /\ unitStatus' = [unitStatus EXCEPT ![u] = "BOOKING"]
           /\ Allowed(booking', u, "BOOKING")
           /\ \A v \in Units \ {u} : Queue(booking', v) = Queue(booking, v)
<1>0. PICK row \in Rows :
        /\ Exists(b) => booking[b].unit = u
        /\ row.unit = u /\ row.status \in QueuedStatuses
        /\ b \in Queue(booking, u) => row.isActive
        /\ booking' = [booking EXCEPT ![b] = row]
        /\ MaxQueued(booking, u) + 1 = 1 => Allowed(booking', u, "BOOKING")
        /\ unitStatus' = [unitStatus EXCEPT ![u] = IF MaxQueued(booking, u) + 1 = 1
                                                   THEN "BOOKING" ELSE @]
  BY DEF Joins
<1>1. booking \in [Bookings -> Rows] /\ unitStatus \in [Units -> UnitStatuses]
  BY DEF IInv, TypeOK
<1>2. booking'[b] = row /\ \A x \in Bookings : x # b => booking'[x] = booking[x]
  BY <1>0, <1>1
<1>3. /\ unitStatus' = [unitStatus EXCEPT ![u] = "BOOKING"]
      /\ Allowed(booking', u, "BOOKING")
  <2>1. CASE MaxQueued(booking, u) = 0
    BY <1>0, <1>1, <2>1
  <2>2. CASE MaxQueued(booking, u) # 0
    <3>1. MaxQueued(booking, u) \in Nat
      BY <1>1, MaxQueuedRange, MaxPriorityAssumption
    <3>2. Queue(booking, u) # {}
      BY <1>1, <2>2, MaxQueuedRange
    <3>3. unitStatus[u] = "BOOKING"
      BY <3>2 DEF IInv, QueuedUnitIsReserved
    <3> QED
      BY <1>0, <1>1, <2>2, <3>1, <3>3 DEF Allowed, TransitionAllowed
  <2> QED
    BY <2>1, <2>2
<1>4. \A v \in Units : v # u => Queue(booking', v) = Queue(booking, v)
  BY <1>0, <1>2 DEF Queue, Exists, QueuedStatuses
<1>5. QueuedUnitIsReserved'
  BY <1>1, <1>3, <1>4 DEF IInv, QueuedUnitIsReserved
<1> QED
  BY <1>0, <1>2, <1>3, <1>4, <1>5 DEF Exists, QueuedStatuses

LEMMA CoreRead ==
    ASSUME IInv, Operations \subseteq CoreOperations, NEW c \in Clients, Read(c)
    PROVE  IInv'
<1>1. UNCHANGED <<booking, unitStatus, live>>
  BY DEF Read, UpdateRead, PriceRead, ExtendRead, UpdatePriorityRead, ReinstateRead,
         CancelRead, ExpireRead, ConvertRead, SoftDeleteRead, Ask
<1>2. TypeOK'
  BY TypeRead DEF IInv
<1>3. QueuedUnitIsReserved'
  BY <1>1 DEF IInv, QueuedUnitIsReserved, Queue
<1>4. PICK r :
          /\ req' = [req EXCEPT ![c] = r]
          /\ r.op \in {"price", "extend", "reinstate", "cancel", "convert", "expire",
                       "softDelete"}
          /\ r.id \in Bookings /\ Exists(r.id)
          /\ r.op # "price" => r.unit = booking[r.id].unit
  <2>1. PICK b \in Bookings :
            \/ \E verdict \in {"APPROVED", "REJECTED"} : PriceRead(c, b, verdict)
            \/ ExtendRead(c, b) \/ ReinstateRead(c, b) \/ CancelRead(c, b)
            \/ ExpireRead(c, b) \/ ConvertRead(c, b)
            \/ \E isAdmin \in BOOLEAN : SoftDeleteRead(c, b, isAdmin)
    BY DEF Read, UpdateRead, UpdatePriorityRead, Starts, CoreOperations
  <2>2. ASSUME NEW verdict, PriceRead(c, b, verdict)
        PROVE  Exists(b) /\ req' = [req EXCEPT ![c] = [op |-> "price", id |-> b, verdict |-> verdict]]
    BY <2>2 DEF PriceRead, Ask
  <2>3. ASSUME ~\E verdict \in {"APPROVED", "REJECTED"} : PriceRead(c, b, verdict)
        PROVE  /\ Exists(b)
               /\ \E op \in {"extend", "reinstate", "cancel", "convert", "expire", "softDelete"} :
                     req' = [req EXCEPT ![c] = [op |-> op, id |-> b, unit |-> booking[b].unit]]
    BY <2>1, <2>3 DEF ExtendRead, ReinstateRead, CancelRead, ExpireRead, ConvertRead,
                      SoftDeleteRead, Ask, Exists, IsQueued, QueuedStatuses
  <2>4. CASE \E verdict \in {"APPROVED", "REJECTED"} : PriceRead(c, b, verdict)
    <3>1. PICK verdict \in {"APPROVED", "REJECTED"} : PriceRead(c, b, verdict)
      BY <2>4
    <3> WITNESS [op |-> "price", id |-> b, verdict |-> verdict]
    <3> QED
      BY <2>2, <3>1
  <2>5. CASE ~\E verdict \in {"APPROVED", "REJECTED"} : PriceRead(c, b, verdict)
    <3>1. PICK op \in {"extend", "reinstate", "cancel", "convert", "expire", "softDelete"} :
              req' = [req EXCEPT ![c] = [op |-> op, id |-> b, unit |-> booking[b].unit]]
      BY <2>3, <2>5
    <3> WITNESS [op |-> op, id |-> b, unit |-> booking[b].unit]
    <3> QED
      BY <2>3, <2>5, <3>1
  <2> QED
    BY <2>4, <2>5
<1>5. RequestsAgree'
  <2> SUFFICES ASSUME NEW d \in Clients
               PROVE  (/\ req[d].op \in {"idle", "price", "extend", "reinstate", "cancel",
                                         "convert", "expire", "softDelete"}
                       /\ req[d].op # "idle" => Exists(req[d].id)
                       /\ req[d].op \in {"reinstate", "cancel", "expire"} =>
                             req[d].unit = booking[req[d].id].unit)'
    BY DEF RequestsAgree
  <2>1. req \in [Clients -> Requests]
    BY DEF IInv, TypeOK
  <2>2. CASE d = c
    BY <1>1, <1>4, <2>1, <2>2 DEF Exists
  <2>3. CASE d # c
    BY <1>1, <1>4, <2>1, <2>3 DEF IInv, RequestsAgree, Exists
  <2> QED
    BY <2>2, <2>3
<1> QED
  BY <1>2, <1>3, <1>5 DEF IInv

LEMMA CoreWrite ==
    ASSUME IInv, NEW c \in Clients, Write(c)
    PROVE  IInv'
<1>1. TypeOK /\ TypeOK'
  BY TypeWrite DEF IInv
<1>2. booking \in [Bookings -> Rows] /\ unitStatus \in [Units -> UnitStatuses]
  BY <1>1 DEF TypeOK
<1>3. /\ req[c].op \in {"extend", "reinstate", "cancel", "convert", "expire", "softDelete"} =>
            req[c].id \in Bookings /\ req[c].unit \in Units
      /\ req[c].op = "price" => req[c].id \in Bookings
  BY <1>1, RequestFields
<1>4. ASSUME DecidePrice(c) \/ Extend(c) \/ Convert(c) \/ SoftDelete(c) PROVE IInv'
  <2>1. /\ unitStatus' = unitStatus /\ req' = [req EXCEPT ![c] = Idle]
        /\ \A b \in Bookings :
              /\ booking'[b].unit = booking[b].unit
              /\ booking'[b].status \in {booking[b].status, "CONVERTED"}
              /\ booking'[b].isActive => booking[b].isActive
    BY <1>2, <1>3, <1>4 DEF DecidePrice, Extend, Convert, SoftDelete, Done, Rows
  <2> QED
    BY <1>1, <2>1, ShrinkKeepsReservation, AgreementKept DEF IInv
<1>5. CASE Reinstate(c)
  BY <1>1, <1>5, ReinstateJoins, EnterKeepsReservation, AgreementKept DEF IInv, Done
<1>6. CASE Cancel(c)
  <2>1. req[c].op = "cancel" /\ req' = [req EXCEPT ![c] = Idle]
    BY <1>6 DEF Cancel, Done
  <2>2. CASE UNCHANGED <<booking, unitStatus>>
    BY <1>1, <2>1, <2>2, ShrinkKeepsReservation, AgreementKept DEF IInv
  <2>3. ASSUME NEW p \in Promotions([booking EXCEPT ![req[c].id].status = "CANCELLED"], req[c].unit),
               booking' = p.rows, unitStatus' = [unitStatus EXCEPT ![req[c].unit] = p.status]
        PROVE  IInv'
    <3>1. "CANCELLED" \in Statuses \ QueuedStatuses
      BY DEF Statuses, QueuedStatuses
    <3> QED
      BY <1>1, <2>1, <2>3, <3>1, LeaveKeepsReservation, AgreementKept DEF IInv
  <2> QED
    BY <1>6, <2>2, <2>3 DEF Cancel
<1>7. CASE Expire(c)
  <2>1. req[c].op = "expire" /\ req' = [req EXCEPT ![c] = Idle]
    BY <1>7 DEF Expire, Done
  <2>2. CASE UNCHANGED <<booking, unitStatus>>
    BY <1>1, <2>1, <2>2, ShrinkKeepsReservation, AgreementKept DEF IInv
  <2>3. ASSUME NEW p \in Promotions([booking EXCEPT ![req[c].id].status = "EXPIRED"], req[c].unit),
               booking' = p.rows, unitStatus' = [unitStatus EXCEPT ![req[c].unit] = p.status]
        PROVE  IInv'
    <3>1. "EXPIRED" \in Statuses \ QueuedStatuses
      BY DEF Statuses, QueuedStatuses
    <3> QED
      BY <1>1, <2>1, <2>3, <3>1, LeaveKeepsReservation, AgreementKept DEF IInv
  <2> QED
    BY <1>7, <2>2, <2>3 DEF Expire
<1>8. ~(UpdateInPlace(c) \/ UpdateMove(c) \/ UpdatePriority(c) \/ SyncRead(c)
        \/ SyncWrite(c) \/ SyncEnd(c) \/ SetStatus(c))
  BY DEF IInv, RequestsAgree, UpdateInPlace, UpdateMove, UpdatePriority, SyncRead,
         SyncWrite, SyncEnd, SetStatus
<1> QED
  BY <1>4, <1>5, <1>6, <1>7, <1>8 DEF Write

LEMMA CoreCreate ==
    ASSUME IInv, NEW c \in Clients, NEW b \in Bookings, NEW u \in Units, NEW p \in Parties,
           NEW review \in Reviews, Create(c, b, u, p, review)
    PROVE  IInv'
BY CreateJoins, EnterKeepsReservation, TypeCreate, AgreementKept DEF IInv

\* The other services: they touch a unit and cancel its whole queue, or free
\* a unit nobody waits for.
LEMMA CoreOthers ==
    ASSUME IInv, Operations \subseteq CoreOperations, NEW c \in Clients, NEW u \in Units,
           \/ ContractFromProposal(c, u) \/ CreateContract(c, u)
           \/ ContractExpires(c, u) \/ CompleteTermination(c, u)
           \/ \E to \in UnitStatuses : SetStatusRead(c, u, to)
    PROVE  IInv'
<1>1. TypeOK' /\ booking \in [Bookings -> Rows] /\ unitStatus \in [Units -> UnitStatuses]
  BY TypeOthers DEF IInv, TypeOK
<1>2. ~CreateContract(c, u) /\ ~\E to \in UnitStatuses : SetStatusRead(c, u, to)
  BY DEF CreateContract, SetStatusRead, Starts, CoreOperations
<1>3. CASE ContractFromProposal(c, u)
  <2>1. \A b \in Bookings :
            IF b \in Queue(booking, u)
            THEN /\ booking'[b].status = "CANCELLED" /\ booking'[b].unit = u
                 /\ booking[b].unit = u
            ELSE booking'[b] = booking[b]
    BY <1>1, <1>3 DEF ContractFromProposal, Queue, Rows
  <2>2. /\ req' = req /\ unitStatus' = [unitStatus EXCEPT ![u] = "CONTRACTED"]
    BY <1>3 DEF ContractFromProposal
  <2>3. Queue(booking', u) = {} /\ \A v \in Units : v # u => Queue(booking', v) = Queue(booking, v)
    BY <2>1 DEF Queue, QueuedStatuses
  <2>4. QueuedUnitIsReserved'
    BY <1>1, <2>2, <2>3 DEF IInv, QueuedUnitIsReserved
  <2>6. \A b \in Bookings : Exists(b) => Exists(b)' /\ booking'[b].unit = booking[b].unit
    BY <2>1 DEF Exists
  <2> QED
    BY <1>1, <2>2, <2>4, <2>6, AgreementKept DEF IInv
<1>4. CASE ContractExpires(c, u)
  <2>1. unitStatus' = unitStatus /\ booking' = booking /\ req' = req
    BY <1>4 DEF ContractExpires
  <2> QED
    BY <1>1, <2>1, ShrinkKeepsReservation, AgreementKept DEF IInv
<1>5. CASE CompleteTermination(c, u)
  <2>1. /\ unitStatus' = [unitStatus EXCEPT ![u] = "VACANT"]
        /\ booking' = booking /\ req' = req
        /\ unitStatus[u] # "VACANT" => Queue(booking, u) = {}
    BY <1>5 DEF CompleteTermination, TransitionAllowed
  <2>2. QueuedUnitIsReserved'
    BY <1>1, <2>1 DEF IInv, QueuedUnitIsReserved, Queue
  <2>4. \A b \in Bookings : Exists(b) => Exists(b)' /\ booking'[b].unit = booking[b].unit
    BY <2>1 DEF Exists
  <2> QED
    BY <1>1, <2>1, <2>2, <2>4, AgreementKept DEF IInv
<1> QED
  BY <1>2, <1>3, <1>4, <1>5

LEMMA CoreNext ==
    ASSUME IInv, Operations \subseteq CoreOperations, [Next]_vars
    PROVE  IInv'
<1>1. ASSUME NEW c \in Clients, Abandon(c) PROVE IInv'
  <2>1. unitStatus' = unitStatus /\ booking' = booking /\ req' = [req EXCEPT ![c] = Idle]
    BY <1>1 DEF Abandon, Done
  <2>2. TypeOK'
    BY TypeNext, <1>1 DEF Next, IInv
  <2> QED
    BY <2>1, <2>2, ShrinkKeepsReservation, AgreementKept DEF IInv
<1>2. ASSUME NEW b \in Bookings, HoldEnds(b) PROVE IInv'
  <2>1. TypeOK' /\ booking \in [Bookings -> Rows]
    BY TypeNext, <1>2 DEF Next, IInv, TypeOK
  <2>2. /\ unitStatus' = unitStatus /\ req' = req
        /\ \A x \in Bookings :
              /\ booking'[x].unit = booking[x].unit
              /\ booking'[x].status \in {booking[x].status, "CONVERTED"}
              /\ booking'[x].isActive => booking[x].isActive
    BY <1>2, <2>1 DEF HoldEnds, Rows
  <2>3. QueuedUnitIsReserved' /\ \A x \in Bookings : Exists(x) => Exists(x)'
    BY <2>2, ShrinkKeepsReservation
  <2>4. RequestsAgree'
    <3> SUFFICES ASSUME NEW d \in Clients
                 PROVE  (/\ req[d].op \in {"idle", "price", "extend", "reinstate", "cancel",
                                           "convert", "expire", "softDelete"}
                         /\ req[d].op # "idle" => Exists(req[d].id)
                         /\ req[d].op \in {"reinstate", "cancel", "expire"} =>
                               req[d].unit = booking[req[d].id].unit)'
      BY DEF RequestsAgree
    <3>1. req[d].op # "idle" => req[d].id \in Bookings
      BY RequestFields DEF IInv, RequestsAgree
    <3> QED
      BY <2>2, <2>3, <3>1 DEF IInv, RequestsAgree
  <2> QED
    BY <2>1, <2>3, <2>4 DEF IInv
<1>3. CASE UNCHANGED vars
  BY <1>3 DEF vars, IInv, TypeOK, RequestsAgree, QueuedUnitIsReserved, Queue,
              Exists
<1> QED
  BY <1>1, <1>2, <1>3, CoreCreate, CoreRead, CoreWrite, CoreOthers DEF Next

LEMMA CoreInit == Init => IInv
<1> SUFFICES ASSUME Init PROVE IInv
  OBVIOUS
<1>1. TypeOK
  BY TypeInit
<1>2. RequestsAgree
  BY DEF Init, RequestsAgree, Idle
<1>3. \A b \in Bookings : booking[b].status = "NONE"
  BY DEF Init
<1>4. QueuedUnitIsReserved
  BY <1>3 DEF QueuedUnitIsReserved, Queue, QueuedStatuses
<1> QED
  BY <1>1, <1>2, <1>4 DEF IInv

LEMMA CoreInvariant == Operations \subseteq CoreOperations => (Spec => []IInv)
<1> SUFFICES ASSUME Operations \subseteq CoreOperations PROVE Spec => []IInv
  OBVIOUS
<1>1. IInv /\ [Next]_vars => IInv'
  BY CoreNext
<1> QED
  BY <1>1, CoreInit, PTL DEF Spec

\* As long as bookings keep their unit and contracts come from approved
\* proposals, whoever waits for a unit waits for a reserved one: creation,
\* reinstatement, cancellation, expiry, conversion and the end of contracts
\* may interleave between their reads and their transactions as they like.
THEOREM QueuesAreReserved ==
    Operations \subseteq CoreOperations => (Spec => []QueuedUnitIsReserved)
<1>1. IInv => QueuedUnitIsReserved
  BY DEF IInv
<1> QED
  BY <1>1, CoreInvariant, PTL

\* The queue of a unit only grows when a booking joins it.
LEMMA EmptyingStep ==
    ASSUME IInv, Operations \subseteq CoreOperations, [Next]_vars
    PROVE  EmptyingFrees
<1>1. booking \in [Bookings -> Rows] /\ unitStatus \in [Units -> UnitStatuses]
  BY DEF IInv, TypeOK
<1>2. ASSUME \A u \in Units : Queue(booking', u) = Queue(booking, u)
      PROVE  EmptyingFrees
  BY <1>2 DEF EmptyingFrees
<1>3. ASSUME NEW i \in Bookings,
             \A b \in Bookings \ {i} : booking'[b] = booking[b],
             booking'[i].unit = booking[i].unit,
             booking'[i].status \in {booking[i].status, "CONVERTED"}
      PROVE  EmptyingFrees
  <2>1. ASSUME NEW u \in Units, NEW b \in Queue(booking, u), b \notin Queue(booking', u)
        PROVE  booking'[b].status = "CONVERTED" \/ ~booking'[b].isActive
    BY <1>3, <2>1 DEF Queue
  <2> QED
    BY <2>1 DEF EmptyingFrees
<1>4. ASSUME NEW b \in Bookings, NEW u \in Units, Joins(b, u)
      PROVE  EmptyingFrees
  <2>1. \A v \in Units \ {u} : Queue(booking', v) = Queue(booking, v)
    BY <1>4, EnterKeepsReservation
  <2>2. Queue(booking, u) \subseteq Queue(booking', u)
    BY <1>1, <1>4 DEF Joins, Queue
  <2> QED
    BY <2>1, <2>2 DEF EmptyingFrees
<1>5. ASSUME NEW c \in Clients, NEW s \in Statuses \ QueuedStatuses,
             req[c].op \in {"cancel", "expire"},
             NEW p \in Promotions([booking EXCEPT ![req[c].id].status = s], req[c].unit),
             booking' = p.rows, unitStatus' = [unitStatus EXCEPT ![req[c].unit] = p.status]
      PROVE  EmptyingFrees
  <2>1. /\ \A v \in Units \ {req[c].unit} : Queue(booking', v) = Queue(booking, v)
        /\ p.status = IF Queue(booking', req[c].unit) = {} THEN "VACANT" ELSE "BOOKING"
    BY <1>5, LeaveKeepsReservation
  <2>2. req[c].unit \in Units
    BY <1>5, RequestFields DEF IInv
  <2>3. unitStatus'[req[c].unit] = p.status
    BY <1>1, <1>5, <2>2
  <2> QED
    BY <2>1, <2>3 DEF EmptyingFrees
<1>6. CASE UNCHANGED booking
  BY <1>2, <1>6 DEF Queue
<1>7. ASSUME NEW c \in Clients, Read(c) \/ Abandon(c)
      PROVE  UNCHANGED booking
  BY <1>7 DEF Read, UpdateRead, PriceRead, ExtendRead, UpdatePriorityRead, ReinstateRead,
              CancelRead, ExpireRead, ConvertRead, SoftDeleteRead, Ask, Abandon
<1>8. ASSUME NEW c \in Clients, Write(c)
      PROVE  EmptyingFrees
  <2>1. CASE DecidePrice(c) \/ Extend(c) \/ Convert(c) \/ SoftDelete(c)
    <3>1. req[c].id \in Bookings
      BY <2>1, RequestFields DEF IInv, DecidePrice, Extend, Convert, SoftDelete
    <3>2. /\ \A b \in Bookings \ {req[c].id} : booking'[b] = booking[b]
          /\ booking'[req[c].id].unit = booking[req[c].id].unit
          /\ booking'[req[c].id].status \in {booking[req[c].id].status, "CONVERTED"}
      BY <1>1, <2>1, <3>1 DEF DecidePrice, Extend, Convert, SoftDelete, Rows
    <3> QED
      BY <1>3, <3>1, <3>2
  <2>2. CASE Reinstate(c)
    BY <1>4, <2>2, ReinstateJoins DEF IInv
  <2>3. CASE Cancel(c)
    <3>1. "CANCELLED" \in Statuses \ QueuedStatuses /\ req[c].op = "cancel"
      BY <2>3 DEF Statuses, QueuedStatuses, Cancel
    <3> QED
      BY <1>5, <1>6, <2>3, <3>1 DEF Cancel
  <2>4. CASE Expire(c)
    <3>1. "EXPIRED" \in Statuses \ QueuedStatuses /\ req[c].op = "expire"
      BY <2>4 DEF Statuses, QueuedStatuses, Expire
    <3> QED
      BY <1>5, <1>6, <2>4, <3>1 DEF Expire
  <2>5. ~(UpdateInPlace(c) \/ UpdateMove(c) \/ UpdatePriority(c) \/ SyncRead(c)
          \/ SyncWrite(c) \/ SyncEnd(c) \/ SetStatus(c))
    BY DEF IInv, RequestsAgree, UpdateInPlace, UpdateMove, UpdatePriority, SyncRead,
           SyncWrite, SyncEnd, SetStatus
  <2> QED
    BY <1>8, <2>1, <2>2, <2>3, <2>4, <2>5 DEF Write
<1>9. ASSUME NEW c \in Clients, NEW b \in Bookings, NEW u \in Units, NEW p \in Parties,
             NEW review \in Reviews, Create(c, b, u, p, review)
      PROVE  EmptyingFrees
  BY <1>4, <1>9, CreateJoins DEF IInv
<1>10. ASSUME NEW c \in Clients, NEW u \in Units, ContractFromProposal(c, u)
       PROVE  EmptyingFrees
  <2>1. live' = live \cup {u}
    BY <1>10 DEF ContractFromProposal
  <2>2. \A b \in Bookings :
            IF b \in Queue(booking, u)
            THEN booking'[b].unit = u /\ booking[b].unit = u
            ELSE booking'[b] = booking[b]
    BY <1>1, <1>10 DEF ContractFromProposal, Queue, Rows
  <2>3. \A v \in Units \ {u} : Queue(booking', v) = Queue(booking, v)
    BY <2>2 DEF Queue
  <2> QED
    BY <2>1, <2>3 DEF EmptyingFrees
<1>11. ASSUME NEW c \in Clients, NEW u \in Units,
              \/ CreateContract(c, u) \/ ContractExpires(c, u) \/ CompleteTermination(c, u)
              \/ \E to \in UnitStatuses : SetStatusRead(c, u, to)
       PROVE  UNCHANGED booking
  BY <1>11 DEF CreateContract, ContractExpires, CompleteTermination, SetStatusRead, Ask
<1>12. ASSUME NEW b \in Bookings, HoldEnds(b)
       PROVE  EmptyingFrees
  <2>1. /\ \A x \in Bookings \ {b} : booking'[x] = booking[x]
        /\ booking'[b].unit = booking[b].unit /\ booking'[b].status = booking[b].status
    BY <1>1, <1>12 DEF HoldEnds, Rows
  <2> QED
    BY <1>3, <2>1
<1>13. CASE UNCHANGED vars
  BY <1>6, <1>13 DEF vars
<1> QED
  BY <1>6, <1>7, <1>8, <1>9, <1>10, <1>11, <1>12, <1>13 DEF Next

\* And whoever cancels or lets the hold expire last frees the unit: under
\* the same operations a queue runs empty only with the unit freed, let, or
\* kept by the conversion or the deletion of the last who waited.
THEOREM EmptyQueuesFreeTheUnit ==
    Operations \subseteq CoreOperations => (Spec => EmptiedIsFreed)
<1> SUFFICES ASSUME Operations \subseteq CoreOperations PROVE Spec => EmptiedIsFreed
  OBVIOUS
<1>1. IInv /\ [Next]_vars => [EmptyingFrees]_vars
  BY EmptyingStep
<1> QED
  BY <1>1, CoreInvariant, PTL DEF Spec, EmptiedIsFreed

-----------------------------------------------------------------------------
(* A unit with a live contract.                                            *)

\* The manual status endpoint checks a transition and writes it later: it is
\* not in use, or nothing else is while it does.
StatusIsSetAlone == "setStatus" \notin Operations \/ \A c, d \in Clients : c = d

\* A status about to be written is one that a unit with a contract may have.
SetsHold ==
    \A c \in Clients : req[c].op = "setStatus" =>
        /\ "setStatus" \in Operations
        /\ req[c].unit \in live => req[c].to \in CommittedStatuses

LiveInv == TypeOK /\ LiveContractHoldsUnit /\ SetsHold

\* What transition() lets a unit with a contract become.
LEMMA LiveTransitions ==
    ASSUME NEW from \in CommittedStatuses, NEW to \in UnitStatuses, NEW queued \in BOOLEAN,
           TransitionAllowed(from, to, TRUE, queued)
    PROVE  to \in CommittedStatuses
BY DEF TransitionAllowed, CommittedStatuses, LowAvailability, UnitStatuses, CanTransition, AllowedTransitions

LEMMA AllowedKeepsLive ==
    ASSUME LiveContractHoldsUnit, NEW bk, NEW u \in live, NEW to \in UnitStatuses, Allowed(bk, u, to)
    PROVE  to \in CommittedStatuses
BY LiveTransitions DEF LiveContractHoldsUnit, Allowed

\* A promotion does not touch a unit with a contract.
LEMMA PromotionsKeepLive ==
    ASSUME LiveContractHoldsUnit, NEW bk, NEW u \in live, NEW p \in Promotions(bk, u)
    PROVE  p.status \in CommittedStatuses
<1>1. CASE {b \in Queue(bk, u) : bk[b].status = "PENDING"} = {}
    <2>1. p = [rows |-> bk, status |-> "VACANT"] /\ Allowed(bk, u, "VACANT")
        BY <1>1 DEF Promotions
    <2>. QED  BY <2>1, AllowedKeepsLive DEF UnitStatuses
<1>2. CASE {b \in Queue(bk, u) : bk[b].status = "PENDING"} # {}
    <2>1. p.status = "BOOKING" /\ Allowed(p.rows, u, "BOOKING")
        <3>1. PICK rows : p = [rows |-> rows, status |-> "BOOKING"] /\ Allowed(p.rows, u, "BOOKING")
            BY <1>2 DEF Promotions
        <3>. QED  BY <3>1
    <2>. QED  BY <2>1, AllowedKeepsLive DEF UnitStatuses
<1>. QED  BY <1>1, <1>2

\* Requests that leave units and contracts alone.
LEMMA LiveRequest ==
    ASSUME LiveInv, TypeOK', UNCHANGED <<unitStatus, live>>, NEW c \in Clients,
           \A d \in Clients \ {c} : req'[d] = req[d],
           req'[c].op = "setStatus" =>
                /\ "setStatus" \in Operations
                /\ req'[c].unit \in live => req'[c].to \in CommittedStatuses
    PROVE  LiveInv'
BY DEF LiveInv, LiveContractHoldsUnit, SetsHold

LEMMA LiveRead ==
    ASSUME LiveInv, TypeOK', NEW c \in Clients, Read(c)
    PROVE  LiveInv'
<1>1. ASSUME NEW r, Ask(c, r), r.op # "setStatus" PROVE LiveInv'
    <2>1. UNCHANGED <<unitStatus, live>> /\ req' = [req EXCEPT ![c] = r]
        BY <1>1 DEF Ask
    <2>2. req'[c] = r /\ \A d \in Clients \ {c} : req'[d] = req[d]
        BY <2>1 DEF LiveInv, TypeOK
    <2>. QED  BY <1>1, <2>1, <2>2, LiveRequest
<1>2. PICK b \in Bookings :
        \/ \E target \in Units, party \in Parties, price \in {"KEEP"} \cup Reviews :
              UpdateRead(c, b, target, party, price)
        \/ \E verdict \in {"APPROVED", "REJECTED"} : PriceRead(c, b, verdict)
        \/ ExtendRead(c, b)
        \/ \E new \in 1 .. MaxPriority : UpdatePriorityRead(c, b, new)
        \/ ReinstateRead(c, b)
        \/ CancelRead(c, b)
        \/ ExpireRead(c, b)
        \/ ConvertRead(c, b)
        \/ \E isAdmin \in BOOLEAN : SoftDeleteRead(c, b, isAdmin)
    BY DEF Read
<1>3. CASE \E target \in Units, party \in Parties, price \in {"KEEP"} \cup Reviews :
              UpdateRead(c, b, target, party, price)
    BY <1>1, <1>3 DEF UpdateRead
<1>4. CASE \E verdict \in {"APPROVED", "REJECTED"} : PriceRead(c, b, verdict)
    BY <1>1, <1>4 DEF PriceRead
<1>5. CASE ExtendRead(c, b)
    BY <1>1, <1>5 DEF ExtendRead
<1>6. CASE \E new \in 1 .. MaxPriority : UpdatePriorityRead(c, b, new)
    BY <1>1, <1>6 DEF UpdatePriorityRead
<1>7. CASE ReinstateRead(c, b)
    BY <1>1, <1>7 DEF ReinstateRead
<1>8. CASE CancelRead(c, b)
    BY <1>1, <1>8 DEF CancelRead
<1>9. CASE ExpireRead(c, b)
    BY <1>1, <1>9 DEF ExpireRead
<1>10. CASE ConvertRead(c, b)
    BY <1>1, <1>10 DEF ConvertRead
<1>11. CASE \E isAdmin \in BOOLEAN : SoftDeleteRead(c, b, isAdmin)
    BY <1>1, <1>11 DEF SoftDeleteRead
<1>. QED  BY <1>2, <1>3, <1>4, <1>5, <1>6, <1>7, <1>8, <1>9, <1>10, <1>11

\* A transaction that ends its request and leaves units with a contract alone.
LEMMA LiveDone ==
    ASSUME LiveInv, TypeOK', live' = live, NEW c \in Clients, Done(c),
           \A u \in live : unitStatus'[u] = unitStatus[u] \/ unitStatus'[u] \in CommittedStatuses
    PROVE  LiveInv'
<1>1. req'[c] = Idle /\ \A d \in Clients \ {c} : req'[d] = req[d]
    BY DEF LiveInv, TypeOK, Done
<1>2. Idle.op # "setStatus"
    BY DEF Idle
<1>. QED  BY <1>1, <1>2 DEF LiveInv, LiveContractHoldsUnit, SetsHold

\* A transaction that promotes the next in the queue of a unit.
LEMMA LivePromotion ==
    ASSUME LiveInv, NEW bk, NEW v, NEW p \in Promotions(bk, v), NEW u \in live,
           unitStatus' = [unitStatus EXCEPT ![v] = p.status]
    PROVE  unitStatus'[u] = unitStatus[u] \/ unitStatus'[u] \in CommittedStatuses
<1>1. u \in Units /\ unitStatus \in [Units -> UnitStatuses]
    BY DEF LiveInv, TypeOK
<1>2. CASE u = v
    BY <1>1, <1>2, PromotionsKeepLive DEF LiveInv
<1>3. CASE u # v
    BY <1>1, <1>3
<1>. QED  BY <1>2, <1>3

LEMMA LiveWrite ==
    ASSUME LiveInv, TypeOK', NEW c \in Clients, Write(c)
    PROVE  LiveInv'
<1>1. live' = live /\ live \subseteq Units /\ unitStatus \in [Units -> UnitStatuses] /\ LiveContractHoldsUnit
    BY DEF LiveInv, TypeOK, Write, UpdateInPlace, UpdateMove, DecidePrice, Extend, UpdatePriority, SyncRead,
           SyncWrite, SyncEnd, Reinstate, Cancel, Expire, Convert, SoftDelete, SetStatus
<1>2. CASE UpdateInPlace(c) \/ DecidePrice(c) \/ Extend(c) \/ SyncEnd(c) \/ Convert(c) \/ SoftDelete(c)
    BY <1>1, <1>2, LiveDone DEF UpdateInPlace, DecidePrice, Extend, SyncEnd, Convert, SoftDelete
<1>3. CASE UpdateMove(c)
    <2>. DEFINE position == Cardinality(Queue(booking, req[c].target)) + 1
    <2>1. PICK rows : \E p \in Promotions(rows, req[c].unit) :
            /\ position = 1 => Allowed(p.rows, req[c].target, "BOOKING")
            /\ unitStatus' = [unitStatus EXCEPT
                                 ![req[c].unit] = p.status,
                                 ![req[c].target] = IF position = 1 THEN "BOOKING" ELSE @]
        BY <1>3, Zenon DEF UpdateMove
    <2>. HIDE DEF position
    <2>2. PICK p \in Promotions(rows, req[c].unit) :
            /\ position = 1 => Allowed(p.rows, req[c].target, "BOOKING")
            /\ unitStatus' = [unitStatus EXCEPT
                                 ![req[c].unit] = p.status,
                                 ![req[c].target] = IF position = 1 THEN "BOOKING" ELSE @]
        BY <2>1, Zenon
    <2>3. ASSUME NEW u \in live
          PROVE  unitStatus'[u] = unitStatus[u] \/ unitStatus'[u] \in CommittedStatuses
        <3>1. p.status \in CommittedStatuses \/ u # req[c].unit
            BY <1>1, <2>3, <2>2, PromotionsKeepLive
        <3>2. position # 1 \/ u # req[c].target
            <4>1. "BOOKING" \in UnitStatuses /\ "BOOKING" \notin CommittedStatuses
                BY DEF UnitStatuses, CommittedStatuses
            <4>. QED  BY <1>1, <2>2, <4>1, AllowedKeepsLive
        <3>. QED  BY <1>1, <2>2, <3>1, <3>2
    <2>. QED  BY <1>1, <1>3, <2>3, LiveDone DEF UpdateMove
<1>4. CASE UpdatePriority(c)
    <2>1. req' = [req EXCEPT ![c] = [op |-> "syncRead", unit |-> req[c].unit]] /\ UNCHANGED <<unitStatus, live>>
        BY <1>4 DEF UpdatePriority
    <2>2. req'[c].op = "syncRead" /\ \A d \in Clients \ {c} : req'[d] = req[d]
        BY <2>1 DEF LiveInv, TypeOK
    <2>. QED  BY <2>1, <2>2, LiveRequest
<1>5. CASE SyncRead(c)
    <2>1. CASE Done(c)
        BY <1>1, <1>5, <2>1, LiveDone DEF SyncRead
    <2>2. CASE ~Done(c)
        <3>1. PICK up, down : req' = [req EXCEPT ![c] = [op |-> "sync", up |-> up, down |-> down]]
            BY <1>5, <2>2 DEF SyncRead
        <3>2. req'[c].op = "sync" /\ \A d \in Clients \ {c} : req'[d] = req[d]
            BY <3>1 DEF LiveInv, TypeOK
        <3>. QED  BY <1>5, <3>2, LiveRequest DEF SyncRead
    <2>. QED  BY <2>1, <2>2
<1>6. CASE SyncWrite(c)
    <2>1. PICK b : req' = [req EXCEPT ![c].up = @ \ {b}, ![c].down = @ \ {b}]
        BY <1>6 DEF SyncWrite
    <2>2. \A d \in Clients \ {c} : req'[d] = req[d]
        BY <2>1 DEF LiveInv, TypeOK
    <2>3. req'[c].op = "sync"
        <3>1. req[c] \in [op : {"sync"}, up : SUBSET Bookings, down : SUBSET Bookings]
            BY <1>6 DEF SyncWrite, LiveInv, TypeOK, Requests, Idle
        <3>. QED  BY <2>1, <3>1 DEF LiveInv, TypeOK
    <2>. QED  BY <1>6, <2>2, <2>3, LiveRequest DEF SyncWrite
<1>7. CASE Reinstate(c)
    <2>1. PICK position, rows :
            /\ position = 1 => Allowed(rows, req[c].unit, "BOOKING")
            /\ unitStatus' = [unitStatus EXCEPT ![req[c].unit] = IF position = 1 THEN "BOOKING" ELSE @]
        BY <1>7 DEF Reinstate
    <2>2. "BOOKING" \in UnitStatuses /\ "BOOKING" \notin CommittedStatuses
        BY DEF UnitStatuses, CommittedStatuses
    <2>3. \A u \in live : unitStatus'[u] = unitStatus[u]
        BY <1>1, <2>1, <2>2, AllowedKeepsLive
    <2>. QED  BY <1>1, <1>7, <2>3, LiveDone DEF Reinstate
<1>8. CASE Cancel(c)
    <2>1. \/ unitStatus' = unitStatus
          \/ \E bk : \E p \in Promotions(bk, req[c].unit) : unitStatus' = [unitStatus EXCEPT ![req[c].unit] = p.status]
        BY <1>8 DEF Cancel
    <2>2. \A u \in live : unitStatus'[u] = unitStatus[u] \/ unitStatus'[u] \in CommittedStatuses
        BY <2>1, LivePromotion
    <2>. QED  BY <1>1, <1>8, <2>2, LiveDone DEF Cancel
<1>9. CASE Expire(c)
    <2>1. \/ unitStatus' = unitStatus
          \/ \E bk : \E p \in Promotions(bk, req[c].unit) : unitStatus' = [unitStatus EXCEPT ![req[c].unit] = p.status]
        BY <1>9 DEF Expire
    <2>2. \A u \in live : unitStatus'[u] = unitStatus[u] \/ unitStatus'[u] \in CommittedStatuses
        BY <2>1, LivePromotion
    <2>. QED  BY <1>1, <1>9, <2>2, LiveDone DEF Expire
<1>10. CASE SetStatus(c)
    <2>1. /\ unitStatus' = [unitStatus EXCEPT ![req[c].unit] = req[c].to]
          /\ req[c].unit \in live => req[c].to \in CommittedStatuses
        BY <1>10 DEF SetStatus, LiveInv, SetsHold
    <2>2. \A u \in live : unitStatus'[u] = unitStatus[u] \/ unitStatus'[u] \in CommittedStatuses
        BY <1>1, <2>1
    <2>. QED  BY <1>1, <1>10, <2>2, LiveDone DEF SetStatus
<1>. QED
    BY <1>2, <1>3, <1>4, <1>5, <1>6, <1>7, <1>8, <1>9, <1>10 DEF Write

\* While a contract is made or ends, no status is about to be written.
LEMMA NothingIsSet ==
    ASSUME StatusIsSetAlone, LiveInv, NEW c \in Clients, req[c] = Idle
    PROVE  \A d \in Clients : req[d].op # "setStatus"
BY DEF StatusIsSetAlone, LiveInv, SetsHold, Idle

LEMMA LiveOthers ==
    ASSUME StatusIsSetAlone, LiveInv, TypeOK', NEW c \in Clients, NEW u \in Units,
           \/ \E to \in UnitStatuses : SetStatusRead(c, u, to)
           \/ ContractFromProposal(c, u) \/ CreateContract(c, u)
           \/ ContractExpires(c, u) \/ CompleteTermination(c, u)
    PROVE  LiveInv'
<1>1. unitStatus \in [Units -> UnitStatuses] /\ live \subseteq Units
    BY DEF LiveInv, TypeOK
<1>2. ASSUME NEW to \in UnitStatuses, SetStatusRead(c, u, to) PROVE LiveInv'
    <2>1. PICK r : /\ r = [op |-> "setStatus", unit |-> u, to |-> to] /\ r.unit = u /\ r.to = to
                   /\ req' = [req EXCEPT ![c] = r]
        BY <1>2 DEF SetStatusRead, Ask
    <2>2. req'[c] = r /\ \A d \in Clients \ {c} : req'[d] = req[d]
        BY <2>1 DEF LiveInv, TypeOK
    <2>3. "setStatus" \in Operations /\ (u \in live => to \in CommittedStatuses)
        BY <1>2, AllowedKeepsLive DEF SetStatusRead, Starts, LiveInv
    <2>. QED  BY <1>2, <2>1, <2>2, <2>3, LiveRequest DEF SetStatusRead, Ask
<1>3. CASE ContractFromProposal(c, u) \/ CreateContract(c, u)
    <2>1. /\ live' = live \cup {u} /\ unitStatus' = [unitStatus EXCEPT ![u] = "CONTRACTED"]
          /\ req' = req /\ req[c] = Idle
        BY <1>3 DEF ContractFromProposal, CreateContract, Starts
    <2>2. LiveContractHoldsUnit'
        BY <1>1, <2>1 DEF LiveInv, LiveContractHoldsUnit, CommittedStatuses
    <2>. QED  BY <2>1, <2>2, NothingIsSet DEF LiveInv, SetsHold
<1>4. CASE ContractExpires(c, u) \/ CompleteTermination(c, u)
    <2>1. /\ live' = live \ {u} /\ \A v \in live' : unitStatus'[v] = unitStatus[v]
          /\ req' = req /\ req[c] = Idle
        BY <1>1, <1>4 DEF ContractExpires, CompleteTermination, Starts
    <2>2. LiveContractHoldsUnit'
        BY <2>1 DEF LiveInv, LiveContractHoldsUnit
    <2>. QED  BY <2>1, <2>2, NothingIsSet DEF LiveInv, SetsHold
<1>. QED  BY <1>2, <1>3, <1>4

LEMMA LiveCreate ==
    ASSUME LiveInv, TypeOK', NEW c \in Clients, NEW b \in Bookings, NEW u \in Units, NEW p \in Parties,
           NEW review \in Reviews, Create(c, b, u, p, review)
    PROVE  LiveInv'
<1>1. PICK position, rows :
        /\ position = 1 => Allowed(rows, u, "BOOKING")
        /\ unitStatus' = [unitStatus EXCEPT ![u] = IF position = 1 THEN "BOOKING" ELSE @]
        /\ UNCHANGED <<live, req>>
    BY DEF Create
<1>2. "BOOKING" \in UnitStatuses /\ "BOOKING" \notin CommittedStatuses
    BY DEF UnitStatuses, CommittedStatuses
<1>3. unitStatus \in [Units -> UnitStatuses] /\ live \subseteq Units /\ LiveContractHoldsUnit
    BY DEF LiveInv, TypeOK
<1>4. \A v \in live : unitStatus'[v] = unitStatus[v]
    BY <1>1, <1>2, <1>3, AllowedKeepsLive
<1>. QED  BY <1>1, <1>4 DEF LiveInv, LiveContractHoldsUnit, SetsHold

LEMMA LiveInvariant ==
    ASSUME StatusIsSetAlone
    PROVE  Spec => []LiveInv
<1>1. Init => LiveInv
    BY TypeInit DEF LiveInv, Init, LiveContractHoldsUnit, SetsHold, Idle
<1>2. LiveInv /\ [Next]_vars => LiveInv'
    <2>. SUFFICES ASSUME LiveInv, [Next]_vars PROVE LiveInv'
        OBVIOUS
    <2>1. TypeOK'
        BY TypeNext DEF LiveInv
    <2>2. CASE UNCHANGED vars
        BY <2>1, <2>2 DEF vars, LiveInv, LiveContractHoldsUnit, SetsHold
    <2>3. ASSUME NEW c \in Clients, Abandon(c) PROVE LiveInv'
        BY <2>1, <2>3, LiveDone DEF Abandon
    <2>4. ASSUME NEW b \in Bookings, HoldEnds(b) PROVE LiveInv'
        BY <2>1, <2>4 DEF HoldEnds, LiveInv, LiveContractHoldsUnit, SetsHold
    <2>. QED
        BY <2>1, <2>2, <2>3, <2>4, LiveCreate, LiveRead, LiveWrite, LiveOthers DEF Next
<1>. QED  BY <1>1, <1>2, PTL DEF Spec

\* A unit with a live contract is never handed out again, whatever requests
\* about bookings, moves, jobs and contracts are under way: unless the manual
\* status endpoint, which checks outside a transaction, is under way as well.
THEOREM ContractedUnitIsHeld ==
    ASSUME StatusIsSetAlone
    PROVE  Spec => []LiveContractHoldsUnit
<1>1. LiveInv => LiveContractHoldsUnit
    BY DEF LiveInv
<1>. QED  BY <1>1, LiveInvariant, PTL

-----------------------------------------------------------------------------
(* The units as proposals and contracts see them: with the core operations *)
(* every step of a booking is one the desk allows, or none.                *)

\* What the desk looks at on the two sides of a step.
LEMMA DeskServes ==
    ASSUME TypeOK, NEW u \in Units, NEW to \in UnitStatuses, u \notin live, live' = live,
           to \in {unitStatus[u], "VACANT", "BOOKING"}, CanTransition(unitStatus[u], to),
           unitStatus' = [unitStatus EXCEPT ![u] = to],
           \A v \in Units \ {u} : Queue(booking', v) = Queue(booking, v),
           Queue(booking', u) # {} => to = "BOOKING"
    PROVE  Desk!Next
<1> DEFINE queued == {v \in Units : Queue(booking, v) # {}}
           after == {v \in Units : Queue(booking', v) # {}}
<1>1. after \in {queued \ {u}, queued \cup {u}} /\ (u \in after => to = "BOOKING")
  OBVIOUS
<1>2. Desk!CanTransition(unitStatus[u], to) /\ to \in Desk!UnitStatuses
  BY DEF CanTransition, AllowedTransitions, UnitStatuses, Desk!CanTransition,
         Desk!AllowedTransitions, Desk!UnitStatuses
<1>3. Desk!Serve(u, to)
  BY <1>1, <1>2 DEF Desk!Serve
<1> QED
  BY <1>2, <1>3 DEF Desk!Next

\* A unit that transition() may reserve or free has no contract.
LEMMA AllowedIsFree ==
    ASSUME LiveContractHoldsUnit, NEW bk, NEW u, NEW to \in {"VACANT", "BOOKING"},
           Allowed(bk, u, to)
    PROVE  u \notin live /\ CanTransition(unitStatus[u], to)
BY DEF LiveContractHoldsUnit, Allowed, TransitionAllowed, LowAvailability, CommittedStatuses,
       CanTransition

\* A promotion reserves or frees a unit that has no contract.
LEMMA PromotionIsFree ==
    ASSUME LiveContractHoldsUnit, NEW bk, NEW u, NEW p \in Promotions(bk, u)
    PROVE  /\ u \notin live /\ p.status \in {"VACANT", "BOOKING"}
           /\ CanTransition(unitStatus[u], p.status)
<1>1. CASE {b \in Queue(bk, u) : bk[b].status = "PENDING"} = {}
  <2>1. p = [rows |-> bk, status |-> "VACANT"] /\ Allowed(bk, u, "VACANT")
    BY <1>1 DEF Promotions
  <2> QED
    BY <2>1, AllowedIsFree
<1>2. CASE {b \in Queue(bk, u) : bk[b].status = "PENDING"} # {}
  <2>1. PICK rows : p = [rows |-> rows, status |-> "BOOKING"] /\ Allowed(p.rows, u, "BOOKING")
    BY <1>2 DEF Promotions
  <2>2. p.status = "BOOKING"
    BY <2>1
  <2> QED
    BY <2>1, <2>2, AllowedIsFree
<1> QED
  BY <1>1, <1>2

\* One booking stays where it is or leaves the queue, and its unit stays as
\* it is.
LEMMA ShrinkServes ==
    ASSUME IInv, LiveInv, NEW i \in Bookings, UNCHANGED <<unitStatus, live>>,
           \A b \in Bookings \ {i} : booking'[b] = booking[b],
           booking'[i].unit = booking[i].unit,
           booking'[i].status \in {booking[i].status, "CONVERTED"},
           booking'[i].isActive => booking[i].isActive
    PROVE  [Desk!Next]_(Desk!deskVars)
<1>1. PICK u \in Units : u = booking[i].unit
  BY DEF IInv, TypeOK, Rows
<1>2. \A v \in Units \ {u} : Queue(booking', v) = Queue(booking, v)
  BY <1>1 DEF Queue, QueuedStatuses
<1>3. CASE Queue(booking, u) = {}
  <2>1. Queue(booking', u) = {}
    BY <1>3 DEF Queue, QueuedStatuses
  <2>2. \A v \in Units : Queue(booking', v) = Queue(booking, v)
    BY <1>2, <1>3, <2>1
  <2> QED
    BY <2>2 DEF Desk!deskVars
<1>4. CASE Queue(booking, u) # {}
  <2>1. unitStatus[u] = "BOOKING" /\ unitStatus \in [Units -> UnitStatuses]
    BY <1>4 DEF IInv, TypeOK, QueuedUnitIsReserved
  <2>2. u \notin live
    BY <2>1 DEF LiveInv, LiveContractHoldsUnit, CommittedStatuses
  <2>3. unitStatus' = [unitStatus EXCEPT ![u] = "BOOKING"]
    BY <2>1
  <2>4. "BOOKING" \in UnitStatuses /\ CanTransition(unitStatus[u], "BOOKING")
    BY <2>1 DEF UnitStatuses, CanTransition
  <2> QED
    BY <1>2, <2>1, <2>2, <2>3, <2>4, DeskServes DEF IInv
<1> QED
  BY <1>3, <1>4

LEMMA JoinServes ==
    ASSUME IInv, LiveInv, NEW b \in Bookings, NEW u \in Units, Joins(b, u), live' = live
    PROVE  Desk!Next
<1>1. /\ unitStatus' = [unitStatus EXCEPT ![u] = "BOOKING"]
      /\ Allowed(booking', u, "BOOKING")
      /\ \A v \in Units \ {u} : Queue(booking', v) = Queue(booking, v)
  BY EnterKeepsReservation
<1>2. u \notin live /\ CanTransition(unitStatus[u], "BOOKING") /\ "BOOKING" \in UnitStatuses
  BY <1>1, AllowedIsFree DEF LiveInv, UnitStatuses
<1> QED
  BY <1>1, <1>2, DeskServes DEF IInv

LEMMA LeaveServes ==
    ASSUME IInv, LiveInv, NEW c \in Clients, NEW s \in Statuses \ QueuedStatuses,
           req[c].op \in {"cancel", "expire"},
           NEW p \in Promotions([booking EXCEPT ![req[c].id].status = s], req[c].unit),
           booking' = p.rows, live' = live,
           unitStatus' = [unitStatus EXCEPT ![req[c].unit] = p.status]
    PROVE  Desk!Next
<1>1. PICK u \in Units : u = req[c].unit
  BY RequestFields DEF IInv
<1>2. /\ \A v \in Units \ {u} : Queue(booking', v) = Queue(booking, v)
      /\ p.status = IF Queue(booking', u) = {} THEN "VACANT" ELSE "BOOKING"
  BY <1>1, LeaveKeepsReservation
<1>3. u \notin live /\ CanTransition(unitStatus[u], p.status)
  BY <1>1, PromotionIsFree DEF LiveInv
<1>4. p.status \in UnitStatuses /\ p.status \in {unitStatus[u], "VACANT", "BOOKING"}
  BY <1>2 DEF UnitStatuses
<1> QED
  BY <1>1, <1>2, <1>3, <1>4, DeskServes DEF IInv

LEMMA WriteServes ==
    ASSUME IInv, LiveInv, NEW c \in Clients, Write(c)
    PROVE  [Desk!Next]_(Desk!deskVars)
<1>1. booking \in [Bookings -> Rows]
  BY DEF IInv, TypeOK
<1>2. CASE DecidePrice(c) \/ Extend(c) \/ Convert(c) \/ SoftDelete(c)
  <2>1. req[c].id \in Bookings
    BY <1>2, RequestFields DEF IInv, DecidePrice, Extend, Convert, SoftDelete
  <2>2. /\ UNCHANGED <<unitStatus, live>>
        /\ \A b \in Bookings \ {req[c].id} : booking'[b] = booking[b]
        /\ booking'[req[c].id].unit = booking[req[c].id].unit
        /\ booking'[req[c].id].status \in {booking[req[c].id].status, "CONVERTED"}
        /\ booking'[req[c].id].isActive => booking[req[c].id].isActive
    BY <1>1, <1>2, <2>1 DEF DecidePrice, Extend, Convert, SoftDelete, Rows
  <2> QED
    BY <2>1, <2>2, ShrinkServes
<1>3. CASE Reinstate(c)
  BY <1>3, ReinstateJoins, JoinServes DEF IInv
<1>4. CASE Cancel(c)
  <2>1. "CANCELLED" \in Statuses \ QueuedStatuses /\ req[c].op = "cancel" /\ live' = live
    BY <1>4 DEF Statuses, QueuedStatuses, Cancel
  <2>2. CASE UNCHANGED <<booking, unitStatus>>
    BY <2>1, <2>2 DEF Desk!deskVars
  <2>3. ASSUME NEW p \in Promotions([booking EXCEPT ![req[c].id].status = "CANCELLED"], req[c].unit),
               booking' = p.rows, unitStatus' = [unitStatus EXCEPT ![req[c].unit] = p.status]
        PROVE  Desk!Next
    BY <2>1, <2>3, LeaveServes
  <2> QED
    BY <1>4, <2>2, <2>3 DEF Cancel
<1>5. CASE Expire(c)
  <2>1. "EXPIRED" \in Statuses \ QueuedStatuses /\ req[c].op = "expire" /\ live' = live
    BY <1>5 DEF Statuses, QueuedStatuses, Expire
  <2>2. CASE UNCHANGED <<booking, unitStatus>>
    BY <2>1, <2>2 DEF Desk!deskVars
  <2>3. ASSUME NEW p \in Promotions([booking EXCEPT ![req[c].id].status = "EXPIRED"], req[c].unit),
               booking' = p.rows, unitStatus' = [unitStatus EXCEPT ![req[c].unit] = p.status]
        PROVE  Desk!Next
    BY <2>1, <2>3, LeaveServes
  <2> QED
    BY <1>5, <2>2, <2>3 DEF Expire
<1>6. ~(UpdateInPlace(c) \/ UpdateMove(c) \/ UpdatePriority(c) \/ SyncRead(c)
        \/ SyncWrite(c) \/ SyncEnd(c) \/ SetStatus(c))
  BY DEF IInv, RequestsAgree, UpdateInPlace, UpdateMove, UpdatePriority, SyncRead,
         SyncWrite, SyncEnd, SetStatus
<1> QED
  BY <1>2, <1>3, <1>4, <1>5, <1>6 DEF Write

\* A contract from a proposal sends the queue away, and the end of a contract
\* frees the unit or leaves it.
LEMMA OthersServe ==
    ASSUME IInv, Operations \subseteq CoreOperations, NEW c \in Clients, NEW u \in Units,
           \/ ContractFromProposal(c, u) \/ CreateContract(c, u)
           \/ ContractExpires(c, u) \/ CompleteTermination(c, u)
           \/ \E to \in UnitStatuses : SetStatusRead(c, u, to)
    PROVE  Desk!Next
<1>1. ~CreateContract(c, u) /\ ~\E to \in UnitStatuses : SetStatusRead(c, u, to)
  BY DEF CreateContract, SetStatusRead, Starts, CoreOperations
<1>2. CASE ContractFromProposal(c, u)
  <2>1. \A b \in Bookings :
            IF b \in Queue(booking, u)
            THEN booking'[b].status = "CANCELLED" /\ booking[b].unit = u /\ booking'[b].unit = u
            ELSE booking'[b] = booking[b]
    BY <1>2 DEF ContractFromProposal, Queue, IInv, TypeOK, Rows
  <2>2. Queue(booking', u) = {} /\ \A v \in Units \ {u} : Queue(booking', v) = Queue(booking, v)
    BY <2>1 DEF Queue, QueuedStatuses
  <2>3. {v \in Units : Queue(booking', v) # {}} = {v \in Units : Queue(booking, v) # {}} \ {u}
    BY <2>2
  <2>4. Desk!CanTransition(unitStatus[u], "CONTRACTED")
    BY <1>2 DEF ContractFromProposal, CanTransition, AllowedTransitions, UnitStatuses,
                Desk!CanTransition, Desk!AllowedTransitions, Desk!UnitStatuses
  <2>5. Desk!Contract(u)
    BY <1>2, <2>3, <2>4 DEF ContractFromProposal, Desk!Contract
  <2> QED
    BY <2>5 DEF Desk!Next
<1>3. CASE ContractExpires(c, u) \/ CompleteTermination(c, u)
  <2>1. Desk!End(u)
    BY <1>3 DEF ContractExpires, CompleteTermination, Desk!End
  <2> QED
    BY <2>1 DEF Desk!Next
<1> QED
  BY <1>1, <1>2, <1>3

LEMMA NextServes ==
    ASSUME IInv, LiveInv, Operations \subseteq CoreOperations, [Next]_vars
    PROVE  [Desk!Next]_(Desk!deskVars)
<1>1. CASE UNCHANGED <<booking, unitStatus, live>>
  BY <1>1 DEF Desk!deskVars
<1>2. ASSUME NEW c \in Clients, Read(c) \/ Abandon(c)
      PROVE  UNCHANGED <<booking, unitStatus, live>>
  BY <1>2 DEF Read, UpdateRead, PriceRead, ExtendRead, UpdatePriorityRead, ReinstateRead,
              CancelRead, ExpireRead, ConvertRead, SoftDeleteRead, Ask, Abandon
<1>3. ASSUME NEW c \in Clients, NEW b \in Bookings, NEW u \in Units, NEW p \in Parties,
             NEW review \in Reviews, Create(c, b, u, p, review)
      PROVE  Desk!Next
  BY <1>3, CreateJoins, JoinServes DEF IInv
<1>4. ASSUME NEW b \in Bookings, HoldEnds(b)
      PROVE  [Desk!Next]_(Desk!deskVars)
  BY <1>4, ShrinkServes DEF HoldEnds, IInv, TypeOK, Rows
<1>5. CASE UNCHANGED vars
  BY <1>1, <1>5 DEF vars
<1> QED
  BY <1>1, <1>2, <1>3, <1>4, <1>5, WriteServes, OthersServe DEF Next

\* Where contracts come from proposals only and bookings keep their unit,
\* queues stand before reserved units only, a queue that runs empty frees its
\* unit, and bookings behave as proposals and contracts expect of the desk:
\* no creation, reinstatement, cancellation, expiry or
\* conversion, however late its transaction runs, touches a unit under
\* contract or leaves a queue before a unit that is not reserved for it.
THEOREM BookingsServeTheDesk ==
    ASSUME Operations \subseteq CoreOperations
    PROVE  Spec => DeskIsKept
<1>1. Init => Desk!Init
  <2>1. Init => \A u \in Units : Queue(booking, u) = {}
    BY DEF Init, Queue, QueuedStatuses
  <2> QED
    BY <2>1 DEF Init, Desk!Init
<1>2. IInv /\ LiveInv /\ [Next]_vars => [Desk!Next]_(Desk!deskVars)
  BY NextServes
<1>3. IInv => QueuedUnitIsReserved
  BY DEF IInv
<1>7. Spec => EmptiedIsFreed
  BY EmptyQueuesFreeTheUnit
<1>4. StatusIsSetAlone
  BY DEF StatusIsSetAlone, CoreOperations
<1>5. Spec => []IInv
  BY CoreInvariant
<1>6. Spec => []LiveInv
  BY <1>4, LiveInvariant
<1> QED
  BY <1>1, <1>2, <1>3, <1>5, <1>6, <1>7, PTL DEF Spec, Desk!Spec, DeskIsKept

=============================================================================
