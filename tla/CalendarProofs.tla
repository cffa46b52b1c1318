--------------------------- MODULE CalendarProofs ---------------------------
(***************************************************************************)
(* Theorems about what is laid out in time: the bookings of SlotCalendar,  *)
(* the months of BillingSchedule, the rates of ParkingRates, the dates of  *)
(* WorkTemplates and the periods of BillingPeriods, for any horizon or     *)
(* calendar and any number of requests.  The modules share nothing; a      *)
(* theorem that needs requests kept apart names the assumption.            *)
(***************************************************************************)
EXTENDS SlotCalendar, BillingSchedule, ParkingRates, WorkTemplates, BillingPeriods, DataLemmas

-----------------------------------------------------------------------------
(* SlotCalendar: no slot is let twice for one time.                        *)

LEMMA TypeStart == Init => TypeOK
<1> SUFFICES ASSUME Init
             PROVE  TypeOK
  OBVIOUS
<1>1. (CHOOSE s \in Slots : TRUE) \in Slots
  BY SlotsAssumption
<1>2. {0, 1} \subseteq Times
  BY HorizonAssumption DEF Times
<1> QED
  BY <1>1, <1>2 DEF Init, TypeOK, Rows, Statuses

LEMMA NextRefIsNat ==
    ASSUME IsFiniteSet(Rows)
    PROVE  NextRef \in Nat \ {0}
BY FS_CardinalityType DEF NextRef

\* The rows are a finite set: this is what makes the count a number.
RowsOK == IsFiniteSet(Rows) /\ TypeOK

LEMMA RowsAfterCreate ==
    ASSUME TypeOK, NEW b \in Bookings, NEW s \in Slots, NEW f \in Times, NEW t \in Times,
           Create(b, s, f, t)
    PROVE  Rows' = Rows \cup {b} /\ b \notin Rows
<1>1. \A c \in Bookings : status'[c] = IF c = b THEN "PENDING" ELSE status[c]
  BY DEF Create, TypeOK
<1>2. status[b] = "none" /\ b \notin Rows
  BY DEF Create, Rows, Statuses, Blocking
<1>3. ASSUME NEW c \in Bookings
      PROVE  c \in Rows' <=> c \in Rows \/ c = b
  BY <1>1, <1>2, <1>3 DEF Rows, Statuses, Blocking
<1> QED
  BY <1>2, <1>3 DEF Rows

LEMMA RowsAfterDelete ==
    ASSUME TypeOK, NEW b \in Bookings, Delete(b)
    PROVE  Rows' = Rows \ {b}
<1>1. \A c \in Bookings : status'[c] = IF c = b THEN "gone" ELSE status[c]
  BY DEF Delete, TypeOK
<1> QED
  BY <1>1 DEF Rows, Statuses, Blocking

\* Everything else leaves the rows alone.
LEMMA RowsAfterRest ==
    ASSUME TypeOK, NEW b \in Bookings,
           \/ \E f, t \in Times : Update(b, f, t)
           \/ Confirm(b) \/ Cancel(b) \/ DeleteRead(b)
    PROVE  Rows' = Rows
<1>1. CASE Confirm(b) \/ Cancel(b)
  <2>1. PICK new \in {"CONFIRMED", "CANCELLED"} : status' = [status EXCEPT ![b] = new]
    BY <1>1 DEF Confirm, Cancel
  <2>2. \A c \in Bookings : status'[c] = IF c = b THEN new ELSE status[c]
    BY <2>1 DEF TypeOK
  <2>3. b \in Rows
    BY <1>1 DEF Confirm, Cancel
  <2> QED
    BY <2>2, <2>3 DEF Rows, Statuses, Blocking
<1>2. CASE DeleteRead(b) \/ \E f, t \in Times : Update(b, f, t)
  BY <1>2 DEF DeleteRead, Update, Rows
<1> QED
  BY <1>1, <1>2

LEMMA RowsStep == RowsOK /\ [Next]_vars => RowsOK'
<1> SUFFICES ASSUME RowsOK, [Next]_vars
             PROVE  RowsOK'
  OBVIOUS
<1> USE DEF RowsOK
<1>1. ASSUME NEW b \in Bookings, NEW s \in Slots, NEW f \in Times, NEW t \in Times,
             Create(b, s, f, t)
      PROVE  RowsOK'
  <2>1. Rows' = Rows \cup {b}
    BY <1>1, RowsAfterCreate
  <2>2. NextRef \in Nat
    BY NextRefIsNat
  <2>3. IsFiniteSet(Rows')
    BY <2>1, FS_AddElement
  <2>4. TypeOK'
    BY <1>1, <2>1, <2>2 DEF TypeOK, Create, Statuses, Blocking, Times
  <2> QED
    BY <2>3, <2>4
<1>2. ASSUME NEW b \in Bookings, NEW f \in Times, NEW t \in Times, Update(b, f, t)
      PROVE  RowsOK'
  BY <1>2 DEF TypeOK, Update, Rows, Times
<1>3. ASSUME NEW b \in Bookings, Confirm(b) \/ Cancel(b) \/ DeleteRead(b)
      PROVE  RowsOK'
  <2>1. Rows' = Rows
    BY <1>3, RowsAfterRest
  <2>2. TypeOK'
    BY <1>3, <2>1 DEF TypeOK, Confirm, Cancel, DeleteRead, Rows, Statuses, Blocking, timeline
  <2> QED
    BY <2>1, <2>2
<1>4. ASSUME NEW b \in Bookings, Delete(b)
      PROVE  RowsOK'
  <2>1. Rows' = Rows \ {b}
    BY <1>4, RowsAfterDelete
  <2>2. IsFiniteSet(Rows')
    BY <2>1, FS_RemoveElement
  <2>3. TypeOK'
    BY <1>4, <2>1 DEF TypeOK, Delete, Statuses, timeline
  <2> QED
    BY <2>2, <2>3
<1>5. CASE UNCHANGED vars
  BY <1>5 DEF vars, timeline, TypeOK, Rows
<1> QED
  BY <1>1, <1>2, <1>3, <1>4, <1>5 DEF Next

LEMMA RowsStart == Init => RowsOK
<1>1. Init => Rows = {}
  BY DEF Init, Rows, Statuses, Blocking
<1> QED
  BY <1>1, TypeStart, FS_EmptySet DEF RowsOK

\* Every state has its types, whatever operations are in use.
THEOREM TypeCorrect == Spec => []TypeOK
<1>1. RowsOK => TypeOK
  BY DEF RowsOK
<1> QED
  BY <1>1, RowsStart, RowsStep, PTL DEF Spec

-----------------------------------------------------------------------------
(* Without the confirmation of cancelled bookings.                         *)

LEMMA OverlapStep ==
    ASSUME TypeOK, NoOverlap, "revive" \notin Operations, [Next]_vars
    PROVE  NoOverlap'
<1> USE DEF TypeOK, Blocking
<1>1. ASSUME NEW b \in Bookings, NEW s \in Slots, NEW f \in Times, NEW t \in Times,
             Create(b, s, f, t)
      PROVE  NoOverlap'
  <2>1. \A c \in Bookings \ {b} :
            /\ status'[c] = status[c] /\ slot'[c] = slot[c]
            /\ from'[c] = from[c] /\ to'[c] = to[c]
    BY <1>1 DEF Create
  <2>2. slot'[b] = s /\ from'[b] = f /\ to'[b] = t
    BY <1>1 DEF Create
  <2>3. \A c \in Bookings : status[c] \in Blocking /\ slot[c] = s => ~(from[c] < t /\ to[c] > f)
    BY <1>1 DEF Create, Conflict
  <2> QED
    BY <2>1, <2>2, <2>3 DEF NoOverlap, Times
<1>2. ASSUME NEW b \in Bookings, NEW f \in Times, NEW t \in Times, Update(b, f, t)
      PROVE  NoOverlap'
  <2>1. /\ status' = status /\ slot' = slot
        /\ \A c \in Bookings \ {b} : from'[c] = from[c] /\ to'[c] = to[c]
    BY <1>2 DEF Update
  <2>2. from'[b] = f /\ to'[b] = t
    BY <1>2 DEF Update
  <2>3. \A c \in Bookings \ {b} :
            status[c] \in Blocking /\ slot[c] = slot[b] => ~(from[c] < t /\ to[c] > f)
    BY <1>2 DEF Update, Conflict
  <2> QED
    BY <2>1, <2>2, <2>3 DEF NoOverlap, Times
<1>3. ASSUME NEW b \in Bookings, Confirm(b) \/ Cancel(b) \/ DeleteRead(b) \/ Delete(b)
      PROVE  NoOverlap'
  <2>1. slot' = slot /\ from' = from /\ to' = to
    BY <1>3 DEF Confirm, Cancel, DeleteRead, Delete, timeline
  <2>2. \A c \in Bookings : status'[c] \in Blocking => status[c] \in Blocking
    BY <1>3 DEF Confirm, Cancel, DeleteRead, Delete, Rows, Statuses
  <2> QED
    BY <2>1, <2>2 DEF NoOverlap
<1>4. CASE UNCHANGED vars
  BY <1>4 DEF vars, timeline, NoOverlap
<1> QED
  BY <1>1, <1>2, <1>3, <1>4 DEF Next

\* If no cancelled booking is confirmed, no slot is allocated twice for the
\* same time, however creations, updates and the rest interleave.
THEOREM AllocationsAreDisjoint == "revive" \notin Operations => (Spec => []NoOverlap)
<1> SUFFICES ASSUME "revive" \notin Operations
             PROVE  Spec => []NoOverlap
  OBVIOUS
<1>1. Init => NoOverlap
  BY DEF Init, NoOverlap, Blocking
<1>2. TypeOK /\ NoOverlap /\ [Next]_vars => NoOverlap'
  BY OverlapStep
<1> QED
  BY <1>1, <1>2, TypeCorrect, PTL DEF Spec

\* What is about to be deleted stays cancelled.
DeletingIsCancelled == \A b \in deleting : status[b] = "CANCELLED"

LEMMA DeletingStep ==
    ASSUME TypeOK, DeletingIsCancelled, "revive" \notin Operations, [Next]_vars
    PROVE  DeletingIsCancelled'
<1> USE DEF TypeOK, DeletingIsCancelled
<1>1. ASSUME NEW b \in Bookings, NEW s \in Slots, NEW f \in Times, NEW t \in Times,
             Create(b, s, f, t)
      PROVE  DeletingIsCancelled'
  BY <1>1 DEF Create, Rows
<1>2. ASSUME NEW b \in Bookings, NEW f \in Times, NEW t \in Times, Update(b, f, t)
      PROVE  DeletingIsCancelled'
  BY <1>2 DEF Update
<1>3. ASSUME NEW b \in Bookings, Confirm(b) \/ Cancel(b)
      PROVE  DeletingIsCancelled'
  BY <1>3 DEF Confirm, Cancel, Rows
<1>4. ASSUME NEW b \in Bookings, DeleteRead(b) \/ Delete(b)
      PROVE  DeletingIsCancelled'
  BY <1>4 DEF DeleteRead, Delete, Rows
<1>5. CASE UNCHANGED vars
  BY <1>5 DEF vars
<1> QED
  BY <1>1, <1>2, <1>3, <1>4, <1>5 DEF Next

LEMMA DeletionStep ==
    ASSUME TypeOK, DeletingIsCancelled, [Next]_vars, NEW b \in Bookings, status[b] \in Blocking
    PROVE  status'[b] # "gone"
<1> USE DEF TypeOK, Blocking
<1>1. ASSUME NEW c \in Bookings, NEW s \in Slots, NEW f \in Times, NEW t \in Times,
             Create(c, s, f, t)
      PROVE  status'[b] # "gone"
  BY <1>1 DEF Create
<1>2. ASSUME NEW c \in Bookings, Confirm(c) \/ Cancel(c) \/ DeleteRead(c)
      PROVE  status'[b] # "gone"
  BY <1>2 DEF Confirm, Cancel, DeleteRead
<1>3. ASSUME NEW c \in Bookings, Delete(c)
      PROVE  status'[b] # "gone"
  <2>1. c # b
    BY <1>3 DEF Delete, DeletingIsCancelled
  <2> QED
    BY <1>3, <2>1 DEF Delete
<1>4. ASSUME NEW c \in Bookings, NEW f \in Times, NEW t \in Times, Update(c, f, t)
      PROVE  status'[b] # "gone"
  BY <1>4 DEF Update
<1>5. CASE UNCHANGED vars
  BY <1>5 DEF vars
<1> QED
  BY <1>1, <1>2, <1>3, <1>4, <1>5 DEF Next

\* If no cancelled booking is confirmed, the deletion deletes cancelled
\* bookings only, although it decides on a status read before.
THEOREM DeletionIsOfCancelled == "revive" \notin Operations => (Spec => OnlyCancelledIsDeleted)
<1> SUFFICES ASSUME "revive" \notin Operations
             PROVE  Spec => OnlyCancelledIsDeleted
  OBVIOUS
<1>1. Init => DeletingIsCancelled
  BY DEF Init, DeletingIsCancelled
<1>2. TypeOK /\ DeletingIsCancelled /\ [Next]_vars => DeletingIsCancelled'
  BY DeletingStep
<1>3. TypeOK /\ DeletingIsCancelled /\ [Next]_vars =>
        [\A b \in Bookings : status[b] \in Blocking => status'[b] # "gone"]_vars
  BY DeletionStep
<1> QED
  BY <1>1, <1>2, <1>3, TypeCorrect, PTL DEF Spec, OnlyCancelledIsDeleted

-----------------------------------------------------------------------------
(* Without deletions.                                                      *)

\* The references in use are at most the number of rows.
RefsAreCounted == deleting = {} /\ \A b \in Rows : ref[b] < NextRef

LEMMA RefsStep ==
    ASSUME RowsOK, RefsAreCounted, "delete" \notin Operations, [Next]_vars
    PROVE  RefsAreCounted'
<1> USE DEF RowsOK, RefsAreCounted
<1>1. ASSUME NEW b \in Bookings, NEW s \in Slots, NEW f \in Times, NEW t \in Times,
             Create(b, s, f, t)
      PROVE  RefsAreCounted'
  <2>1. Rows' = Rows \cup {b} /\ b \notin Rows
    BY <1>1, RowsAfterCreate
  <2>2. NextRef \in Nat /\ Cardinality(Rows) \in Nat
    BY NextRefIsNat, FS_CardinalityType
  <2>3. NextRef' = NextRef + 1
    BY <2>1, <2>2, FS_AddElement DEF NextRef
  <2>4. deleting' = deleting /\ ref' = [ref EXCEPT ![b] = NextRef]
    BY <1>1 DEF Create
  <2>5. ASSUME NEW c \in Rows'
        PROVE  ref'[c] < NextRef'
    BY <2>1, <2>2, <2>3, <2>4 DEF TypeOK, Rows
  <2> QED
    BY <2>4, <2>5
<1>2. ASSUME NEW b \in Bookings,
             (\E f, t \in Times : Update(b, f, t)) \/ Confirm(b) \/ Cancel(b)
      PROVE  RefsAreCounted'
  <2>1. Rows' = Rows
    BY <1>2, RowsAfterRest
  <2>2. ref' = ref /\ deleting' = deleting
    BY <1>2 DEF Update, Confirm, Cancel
  <2> QED
    BY <2>1, <2>2 DEF NextRef
<1>3. ASSUME NEW b \in Bookings, DeleteRead(b) \/ Delete(b)
      PROVE  RefsAreCounted'
  BY <1>3 DEF DeleteRead, Delete
<1>4. CASE UNCHANGED vars
  BY <1>4 DEF vars, Rows, NextRef
<1> QED
  BY <1>1, <1>2, <1>3, <1>4 DEF Next

\* If no booking is deleted, the next reference is free: no creation fails
\* on it.
THEOREM ReferencesNeverBlock == "delete" \notin Operations => (Spec => []BookingNeverBlocked)
<1> SUFFICES ASSUME "delete" \notin Operations
             PROVE  Spec => []BookingNeverBlocked
  OBVIOUS
<1>1. Init => RowsOK /\ RefsAreCounted
  <2>1. Init => deleting = {} /\ Rows = {}
    BY DEF Init, Rows, Statuses, Blocking
  <2> QED
    BY <2>1, RowsStart DEF RefsAreCounted
<1>2. RowsOK /\ RefsAreCounted /\ [Next]_vars => RowsOK' /\ RefsAreCounted'
  BY RowsStep, RefsStep
<1>3. RowsOK /\ RefsAreCounted => BookingNeverBlocked
  <2> SUFFICES ASSUME RowsOK, RefsAreCounted, NEW b \in Rows
               PROVE  ref[b] # NextRef
    BY DEF BookingNeverBlocked, RefIsFree
  <2> QED
    BY NextRefIsNat DEF RowsOK, RefsAreCounted, TypeOK, Rows
<1> QED
  BY <1>1, <1>2, <1>3, PTL DEF Spec

-----------------------------------------------------------------------------
(* BillingSchedule: a month is billed once.                                *)

\* An amendment has the contract to itself.
ScheduleIsApart == \A op \in {"build", "run", "bill"} : {"amend", op} \in KeptApart

\* No amendment moves the first month of a period.
PeriodsStay == Amendable \cap {"start", "cycle"} = {}

Plans == UNION {[S -> [until : Nat, amount : Nat]] : S \in SUBSET Months}
ScheduleRow == [until : Nat, amount : Nat, row : Nat, status : {"PENDING", "SKIPPED", "INVOICED"}]
Schedules == UNION {[S -> ScheduleRow] : S \in SUBSET Months}
Drawing == [period : Months, row : Nat, until : Nat, amount : Nat]
BillingJobs ==
    {Idle} \cup [op : {"build", "run"}, at : {"upsert"}, plan : Plans, left : SUBSET Months]
           \cup [op : {"run"}, at : {"select"}]
           \cup [op : {"run"}, at : {"invoice"}, due : Schedules]
           \cup [op : {"amend"}, terms : AllTerms, seen : SUBSET Months]
           \cup [op : {"bill"}, period : Months, entry : ScheduleRow]

\* The row of a period bills what the other does.
SameCharge(m, e) ==
    m \in DOMAIN entries /\ entries[m].until = e.until /\ entries[m].amount = e.amount

SameEntry(m, e) == SameCharge(m, e) /\ entries[m].row = e.row

\* What an operation has read is still so.
JobHolds(j) ==
    /\ j.op \in {"build", "run"} /\ j.at = "upsert" =>
        /\ j.plan = Periods(terms) /\ j.left \subseteq DOMAIN j.plan
        /\ \A m \in j.left : SameCharge(m, j.plan[m])
    /\ j.op = "run" /\ j.at = "invoice" => \A m \in DOMAIN j.due : SameEntry(m, j.due[m])
    /\ j.op = "bill" => SameEntry(j.period, j.entry)
    /\ j.op = "amend" =>
        /\ j.seen = Invoiced /\ billable
        /\ PeriodsStay => j.terms.start = terms.start /\ j.terms.cycle = terms.cycle

\* The schedule has the periods of the contract and the invoiced ones.
ScheduleHolds ==
    /\ terms \in AllTerms /\ entries \in Schedules /\ rows \in [Months -> Nat]
    /\ DOMAIN entries = DOMAIN Periods(terms) \cup Invoiced
    /\ \A m \in DOMAIN Periods(terms) \ Invoiced : SameCharge(m, Periods(terms)[m])
    /\ PeriodsStay => \A m \in DOMAIN entries :
        (m - terms.start) % terms.cycle = 0 /\ terms.start <= m /\ entries[m].until < m + terms.cycle

DrawnHolds ==
    /\ drawn \in Seq(Drawing)
    /\ InvoiceMatchesEntry
    /\ \A i, j \in DOMAIN drawn : i # j => drawn[i].period # drawn[j].period

JobsHold ==
    /\ job \in [Billers -> BillingJobs]
    /\ \A b \in Billers : JobHolds(job[b])
    /\ \A b \in Billers : job[b].op = "amend" => \A o \in Billers \ {b} : job[o].op = "idle"

BillingInv == ScheduleHolds /\ DrawnHolds /\ JobsHold

\* The periods of a contract.
LEMMA PeriodForms ==
    ASSUME NEW t \in AllTerms
    PROVE  /\ Periods(t) \in Plans /\ DOMAIN Periods(t) \subseteq Months
           /\ t.cycle \in Nat \ {0} /\ t.start \in Nat
           /\ \A m \in DOMAIN Periods(t) :
                /\ (m - t.start) % t.cycle = 0 /\ t.start <= m /\ Periods(t)[m].until < m + t.cycle
                /\ Periods(t)[m].until \in Nat /\ Periods(t)[m].amount \in Nat
                /\ Periods(t)[m].until \in Months
<1>1. /\ t.start \in Months /\ t.end \in Months /\ t.cycle \in Nat \ {0} /\ t.rent \in Nat
      /\ t.free \in 0 .. LastMonth /\ t.start \in Nat \ {0} /\ t.end \in Nat /\ t.end <= LastMonth
    <2>1. /\ t.start \in Months /\ t.end \in Months /\ t.cycle \in Cycles /\ t.rent \in Rents
          /\ t.free \in 0 .. LastMonth
        BY DEF AllTerms
    <2>2. Months \subseteq Nat \ {0} /\ \A m \in Months : m <= LastMonth
        BY MonthsAssumption DEF Months
    <2>. QED  BY <2>1, <2>2, TermsAssumption
<1>. DEFINE Starts == {m \in t.start .. t.end : (m - t.start) % t.cycle = 0}
            Until(m) == IF m + t.cycle - 1 > t.end THEN t.end ELSE m + t.cycle - 1
            Paid(m) == Cardinality({n \in m .. Until(m) : n - t.start >= t.free})
            Period(m) == [until |-> Until(m), amount |-> t.rent * Paid(m)]
<1>2. Periods(t) = [m \in Starts |-> Period(m)]
    BY DEF Periods
<1>3. Starts \subseteq Months
    BY <1>1, MonthsAssumption DEF Months
<1>4. ASSUME NEW m \in Starts
      PROVE  /\ m \in Nat /\ t.start <= m /\ Until(m) \in Nat /\ Until(m) < m + t.cycle
             /\ Until(m) \in Months
             /\ Paid(m) \in Nat /\ Period(m) \in [until : Nat, amount : Nat]
             /\ Period(m).until = Until(m) /\ Period(m).amount \in Nat
    <2>1. m \in Nat /\ t.start <= m /\ m \in t.start .. t.end
        BY <1>1, <1>4
    <2>2. Until(m) \in Nat /\ Until(m) < m + t.cycle /\ Until(m) \in Months
        BY <1>1, <2>1, MonthsAssumption DEF Months
    <2>3. Paid(m) \in Nat
        <3>1. IsFiniteSet(m .. Until(m))
            <4>1. \A a, b \in Nat : IsFiniteSet(a .. b)
                BY FS_Interval
            <4>. QED  BY <2>1, <2>2, <4>1
        <3>2. {n \in m .. Until(m) : n - t.start >= t.free} \subseteq m .. Until(m)
            OBVIOUS
        <3>. QED  BY <3>1, <3>2, FS_Subset, FS_CardinalityType
    <2>4. t.rent * Paid(m) \in Nat
        BY <1>1, <2>3
    <2>. HIDE DEF Until, Paid
    <2>. QED  BY <2>1, <2>2, <2>3, <2>4
<1>. HIDE DEF Until, Paid, Period
<1>5. /\ DOMAIN Periods(t) = Starts
      /\ \A m \in Starts : Periods(t)[m] = Period(m)
    BY <1>2
<1>6. Periods(t) \in [Starts -> [until : Nat, amount : Nat]]
    BY <1>2, <1>4
<1>7. Periods(t) \in Plans
    BY <1>3, <1>6 DEF Plans
<1>. QED  BY <1>1, <1>3, <1>4, <1>5, <1>7

LEMMA ScheduleForms ==
    ASSUME ScheduleHolds
    PROVE  /\ DOMAIN entries \in SUBSET Months /\ Months \subseteq Nat
           /\ entries \in [DOMAIN entries -> ScheduleRow]
           /\ \A m \in DOMAIN entries :
                /\ entries[m] \in ScheduleRow /\ entries[m].until \in Nat /\ entries[m].amount \in Nat
                /\ entries[m].row \in Nat
           /\ Invoiced \subseteq DOMAIN entries
           /\ \A m \in DOMAIN entries : m \in Invoiced <=> entries[m].status = "INVOICED"
<1>1. PICK S \in SUBSET Months : entries \in [S -> ScheduleRow]
    BY DEF ScheduleHolds, Schedules
<1>2. DOMAIN entries = S
    BY <1>1
<1>3. \A m \in DOMAIN entries : entries[m] \in ScheduleRow
    BY <1>1
<1>4. \A e \in ScheduleRow : e.until \in Nat /\ e.amount \in Nat /\ e.row \in Nat
    BY DEF ScheduleRow
<1>. QED  BY <1>1, <1>2, <1>3, <1>4 DEF Invoiced, Months

LEMMA JobForms ==
    ASSUME NEW j \in BillingJobs
    PROVE  /\ j.op \in BillingOperations \cup {"idle"}
           /\ j.op \in {"build", "run"} /\ j.at = "upsert" => j.plan \in Plans /\ j.left \in SUBSET Months
           /\ j.op = "run" /\ j.at = "invoice" => j.due \in Schedules
           /\ j.op = "amend" => j.terms \in AllTerms /\ j.seen \in SUBSET Months
           /\ j.op = "bill" => j.period \in Months /\ j.entry \in ScheduleRow
BY DEF BillingJobs, Idle, BillingOperations

\* What is free to be begun beside what is under way.
LEMMA FreeToStart ==
    ASSUME ScheduleIsApart, JobsHold, NEW b \in Billers, NEW op \in BillingOperations, MayStart(b, op)
    PROVE  /\ op # "amend" => \A o \in Billers : job[o].op # "amend"
           /\ op = "amend" => \A o \in Billers : job[o].op \in {"idle", "amend"}
<1>1. \A o \in Billers : job[o].op \in BillingOperations \cup {"idle"}
    BY JobForms DEF JobsHold
<1>2. ASSUME NEW o \in Billers, op # "amend", job[o].op = "amend" PROVE FALSE
    <2>1. {op, job[o].op} = {"amend", op} /\ op \in {"build", "run", "bill"}
        BY <1>2 DEF BillingOperations
    <2>. QED  BY <2>1 DEF MayStart, ScheduleIsApart
<1>3. ASSUME NEW o \in Billers, op = "amend", job[o].op \notin {"idle", "amend"} PROVE FALSE
    <2>1. {op, job[o].op} = {"amend", job[o].op} /\ job[o].op \in {"build", "run", "bill"}
        BY <1>1, <1>3 DEF BillingOperations
    <2>. QED  BY <2>1 DEF MayStart, ScheduleIsApart
<1>. QED  BY <1>2, <1>3

\* An operation goes on to its next step, over the same schedule.
LEMMA JobStep ==
    ASSUME BillingInv, NEW b \in Billers, NEW j \in BillingJobs, Do(b, j), JobHolds(j),
           \A o \in Billers \ {b} : /\ j.op = "amend" => job[o].op = "idle"
                                    /\ job[o].op = "amend" => j.op = "idle",
           UNCHANGED <<terms, billable, entries, rows, drawn>>
    PROVE  BillingInv'
<1>1. /\ job' \in [Billers -> BillingJobs] /\ job'[b] = j
      /\ \A o \in Billers \ {b} : job'[o] = job[o]
    BY DEF BillingInv, JobsHold, Do
<1>2. \A i \in BillingJobs : JobHolds(i) => JobHolds(i)'
    BY DEF JobHolds, SameEntry, SameCharge, Invoiced
<1>3. (\A o \in Billers : JobHolds(job[o]))'
    BY <1>1, <1>2 DEF BillingInv, JobsHold
<1>4. \A o \in Billers : job'[o].op = "amend" => \A p \in Billers \ {o} : job'[p].op = "idle"
    BY <1>1 DEF BillingInv, JobsHold
<1>5. JobsHold'
    BY <1>1, <1>3, <1>4 DEF JobsHold
<1>6. ScheduleHolds'
    BY DEF BillingInv, ScheduleHolds, SameCharge, Invoiced
<1>7. DrawnHolds'
    BY DEF BillingInv, DrawnHolds, InvoiceMatchesEntry, InvoiceOf, Invoiced
<1>. QED  BY <1>5, <1>6, <1>7 DEF BillingInv

LEMMA BuildReadStep ==
    ASSUME ScheduleIsApart, BillingInv, NEW b \in Billers, NEW op \in {"build", "run"}, BuildRead(b, op)
    PROVE  BillingInv'
<1>1. /\ Periods(terms) \in Plans /\ DOMAIN Periods(terms) \ Invoiced \in SUBSET Months
    BY PeriodForms DEF BillingInv, ScheduleHolds
<1>2. PICK j \in BillingJobs :
        /\ j = [op |-> op, at |-> "upsert", plan |-> Periods(terms), left |-> DOMAIN Periods(terms) \ Invoiced]
        /\ j.op = op /\ j.at = "upsert" /\ j.plan = Periods(terms) /\ j.left = DOMAIN Periods(terms) \ Invoiced
    <2>1. [op |-> op, at |-> "upsert", plan |-> Periods(terms), left |-> DOMAIN Periods(terms) \ Invoiced]
            \in BillingJobs
        BY <1>1 DEF BillingJobs
    <2>. QED  BY <2>1
<1>3. JobHolds(j)
    BY <1>2 DEF JobHolds, BillingInv, ScheduleHolds
<1>4. \A o \in Billers : job[o].op # "amend"
    BY FreeToStart DEF BuildRead, BillingInv, BillingOperations
<1>. QED  BY <1>2, <1>3, <1>4, JobStep DEF BuildRead

\* The upsert of a period that has its row changes nothing: the row says what
\* the plan does.
LEMMA BuildUpsertIdle ==
    ASSUME BillingInv, NEW b \in Billers, BuildUpsert(b)
    PROVE  UNCHANGED <<entries, rows>> /\ BillingInv'
<1>1. PICK j \in BillingJobs : j = job[b] /\ JobHolds(j)
    BY DEF BillingInv, JobsHold
<1>2. /\ j.op \in {"build", "run"} /\ j.at = "upsert" /\ j.left # {}
      /\ j.plan \in Plans /\ j.left \in SUBSET Months
    BY <1>1, JobForms DEF BuildUpsert
<1>3. PICK m \in j.left : m = Min(j.left)
    <2>1. j.left \in SUBSET Nat
        BY <1>2 DEF Months
    <2>2. \E m \in j.left : \A n \in j.left : m <= n
        BY <1>2, <2>1, LeastNumber
    <2>. QED  BY <2>2 DEF Min
<1>4. /\ entries' = Upserted(j.plan, {m}) /\ CountRows({m})
      /\ Do(b, [j EXCEPT !.left = @ \ {m}]) /\ UNCHANGED <<terms, billable, drawn>>
    BY <1>1, <1>3 DEF BuildUpsert
<1>5. SameCharge(m, j.plan[m]) /\ m \in DOMAIN entries /\ entries[m] \in ScheduleRow
    BY <1>1, <1>2, ScheduleForms DEF JobHolds, SameCharge, BillingInv
<1>6. Upsert(m, j.plan[m]) = entries[m]
    <2>1. PICK e \in ScheduleRow : e = entries[m] /\ e.until = j.plan[m].until /\ e.amount = j.plan[m].amount
        BY <1>5 DEF SameCharge
    <2>2. [e EXCEPT !.until = e.until, !.amount = e.amount] = e
        BY DEF ScheduleRow
    <2>. QED  BY <1>5, <2>1, <2>2 DEF Upsert
<1>7. entries' = entries
    <2>1. DOMAIN entries \cup {m} = DOMAIN entries
        BY <1>5
    <2>2. entries = [n \in DOMAIN entries |-> entries[n]]
        BY ScheduleForms DEF BillingInv
    <2>3. \A n \in DOMAIN entries : (IF n \in {m} THEN Upsert(n, j.plan[n]) ELSE entries[n]) = entries[n]
        BY <1>6
    <2>. QED  BY <1>4, <2>1, <2>2, <2>3 DEF Upserted
<1>8. rows' = rows
    BY <1>4, <1>5 DEF CountRows, BillingInv, ScheduleHolds
<1>9. PICK i \in BillingJobs : /\ i = [j EXCEPT !.left = @ \ {m}] /\ i.op = j.op /\ i.at = "upsert"
                               /\ i.plan = j.plan /\ i.left = j.left \ {m}
    <2>1. j \in [op : {"build", "run"}, at : {"upsert"}, plan : Plans, left : SUBSET Months]
        BY <1>2 DEF BillingJobs, Idle
    <2>2. /\ [j EXCEPT !.left = @ \ {m}] \in [op : {"build", "run"}, at : {"upsert"}, plan : Plans, left : SUBSET Months]
          /\ [j EXCEPT !.left = @ \ {m}].op = j.op /\ [j EXCEPT !.left = @ \ {m}].at = "upsert"
          /\ [j EXCEPT !.left = @ \ {m}].plan = j.plan /\ [j EXCEPT !.left = @ \ {m}].left = j.left \ {m}
        BY <1>2, <2>1
    <2>. QED  BY <2>2 DEF BillingJobs
<1>10. JobHolds(i)
    BY <1>1, <1>2, <1>9 DEF JobHolds
<1>11. \A o \in Billers \ {b} : job[o].op # "amend"
    BY <1>1, <1>2 DEF BillingInv, JobsHold
<1>12. BillingInv'
    BY <1>2, <1>4, <1>7, <1>8, <1>9, <1>10, <1>11, JobStep
<1>. QED  BY <1>7, <1>8, <1>12

\* Nor does the deletion at the end find anything.
LEMMA BuildPruneIdle ==
    ASSUME BillingInv, NEW b \in Billers, BuildPrune(b)
    PROVE  UNCHANGED entries /\ BillingInv'
<1>1. PICK j \in BillingJobs : j = job[b] /\ JobHolds(j)
    BY DEF BillingInv, JobsHold
<1>2. /\ j.op \in {"build", "run"} /\ j.at = "upsert" /\ j.plan = Periods(terms)
      /\ entries' = Restrict(entries, Kept(DOMAIN j.plan))
      /\ UNCHANGED <<terms, billable, rows, drawn>>
      /\ Do(b, IF j.op = "run" THEN [op |-> "run", at |-> "select"] ELSE Idle)
    BY <1>1 DEF BuildPrune, JobHolds
<1>3. entries' = entries
    <2>1. Kept(DOMAIN j.plan) = DOMAIN entries
        BY <1>2 DEF Kept, BillingInv, ScheduleHolds
    <2>2. entries = [n \in DOMAIN entries |-> entries[n]]
        BY ScheduleForms DEF BillingInv
    <2>. QED  BY <1>2, <2>1, <2>2 DEF Restrict
<1>4. PICK i \in BillingJobs : /\ i = IF j.op = "run" THEN [op |-> "run", at |-> "select"] ELSE Idle
                               /\ i.op = "idle" \/ (i.op = "run" /\ i.at = "select")
    <2>1. Idle \in BillingJobs /\ Idle.op = "idle"
        BY DEF BillingJobs, Idle
    <2>2. [op |-> "run", at |-> "select"] \in BillingJobs
        BY DEF BillingJobs
    <2>. QED  BY <2>1, <2>2
<1>5. JobHolds(i)
    BY <1>4 DEF JobHolds
<1>6. \A o \in Billers \ {b} : job[o].op # "amend"
    BY <1>1, <1>2 DEF BillingInv, JobsHold
<1>. QED  BY <1>2, <1>3, <1>4, <1>5, <1>6, JobStep

\* Some rows as they are read.
LEMMA SomeRows ==
    ASSUME ScheduleHolds, NEW some \in SUBSET DOMAIN entries
    PROVE  /\ Restrict(entries, some) \in Schedules /\ DOMAIN Restrict(entries, some) = some
           /\ \A m \in some : SameEntry(m, Restrict(entries, some)[m])
<1>1. Restrict(entries, some) \in [some -> ScheduleRow]
    BY ScheduleForms DEF Restrict
<1>2. some \in SUBSET Months
    BY ScheduleForms
<1>. QED  BY <1>1, <1>2 DEF Schedules, Restrict, SameEntry, SameCharge

LEMMA SelectDueStep ==
    ASSUME BillingInv, NEW b \in Billers, SelectDue(b)
    PROVE  BillingInv'
<1>1. PICK due \in Schedules :
        /\ \A m \in DOMAIN due : SameEntry(m, due[m])
        /\ Do(b, [op |-> "run", at |-> "invoice", due |-> due])
    BY SomeRows DEF SelectDue, BillingInv
<1>2. PICK i \in BillingJobs : /\ i = [op |-> "run", at |-> "invoice", due |-> due]
                               /\ i.op = "run" /\ i.at = "invoice" /\ i.due = due
    <2>1. [op |-> "run", at |-> "invoice", due |-> due] \in BillingJobs
        BY DEF BillingJobs
    <2>. QED  BY <2>1
<1>3. JobHolds(i)
    BY <1>1, <1>2 DEF JobHolds
<1>4. \A o \in Billers \ {b} : job[o].op # "amend"
    BY DEF BillingInv, JobsHold, SelectDue
<1>. QED  BY <1>1, <1>2, <1>3, <1>4, JobStep DEF SelectDue

LEMMA BillReadStep ==
    ASSUME ScheduleIsApart, BillingInv, NEW b \in Billers, NEW m \in Months, BillRead(b, m)
    PROVE  BillingInv'
<1>1. m \in DOMAIN entries /\ entries[m] \in ScheduleRow
    BY ScheduleForms DEF BillRead, BillingInv
<1>2. PICK i \in BillingJobs : /\ i = [op |-> "bill", period |-> m, entry |-> entries[m]]
                               /\ i.op = "bill" /\ i.period = m /\ i.entry = entries[m]
    <2>1. [op |-> "bill", period |-> m, entry |-> entries[m]] \in BillingJobs
        BY <1>1 DEF BillingJobs
    <2>. QED  BY <2>1
<1>3. JobHolds(i)
    BY <1>1, <1>2 DEF JobHolds, SameEntry, SameCharge
<1>4. \A o \in Billers : job[o].op # "amend"
    BY FreeToStart DEF BillRead, BillingInv, BillingOperations
<1>. QED  BY <1>2, <1>3, <1>4, JobStep DEF BillRead

LEMMA AmendReadStep ==
    ASSUME ScheduleIsApart, BillingInv, NEW b \in Billers, NEW t \in AllTerms, AmendRead(b, t)
    PROVE  BillingInv'
<1>1. Invoiced \in SUBSET Months
    BY ScheduleForms DEF BillingInv
<1>2. PICK i \in BillingJobs : /\ i = [op |-> "amend", terms |-> t, seen |-> Invoiced]
                               /\ i.op = "amend" /\ i.terms = t /\ i.seen = Invoiced
    <2>1. [op |-> "amend", terms |-> t, seen |-> Invoiced] \in BillingJobs
        BY <1>1 DEF BillingJobs
    <2>. QED  BY <2>1
<1>3. PeriodsStay => t.start = terms.start /\ t.cycle = terms.cycle
    BY DEF AmendRead, PeriodsStay, Terms
<1>4. JobHolds(i)
    BY <1>2, <1>3 DEF JobHolds, AmendRead
<1>5. \A o \in Billers : job[o].op = "idle"
    BY FreeToStart DEF AmendRead, BillingInv, BillingOperations
<1>. QED  BY <1>2, <1>4, <1>5, JobStep DEF AmendRead

LEMMA StopStep ==
    ASSUME BillingInv, NEW b \in Billers, Do(b, Idle), UNCHANGED <<terms, billable, entries, rows, drawn>>
    PROVE  BillingInv'
<1>1. PICK i \in BillingJobs : i = Idle /\ i.op = "idle"
    BY DEF BillingJobs, Idle
<1>2. JobHolds(i)
    BY <1>1 DEF JobHolds
<1>. QED  BY <1>1, <1>2, JobStep

\* An invoice of a row that is as it was read, and the link to it; one that
\* exists is of the same row, which it is linked to.
LEMMA InvoiceStep ==
    ASSUME BillingInv, NEW m, NEW e \in ScheduleRow, SameEntry(m, e),
           drawn' = IF Taken(m, e) THEN drawn ELSE Append(drawn, InvoiceOf(m, e)),
           entries' = [entries EXCEPT ![m].status = "INVOICED"],
           UNCHANGED <<terms, billable, rows>>
    PROVE  /\ ScheduleHolds' /\ DrawnHolds'
           /\ DOMAIN entries' = DOMAIN entries
           /\ \A n \in DOMAIN entries : entries'[n].amount = entries[n].amount
           /\ \A i \in BillingJobs : JobHolds(i) /\ i.op # "amend" => JobHolds(i)'
<1>1. /\ m \in DOMAIN entries /\ entries[m] \in ScheduleRow /\ entries \in [DOMAIN entries -> ScheduleRow]
      /\ m \in Months
    BY ScheduleForms DEF SameEntry, SameCharge, BillingInv
<1>2. PICK marked \in ScheduleRow :
        /\ marked = [entries[m] EXCEPT !.status = "INVOICED"] /\ marked.status = "INVOICED"
        /\ marked.until = entries[m].until /\ marked.amount = entries[m].amount /\ marked.row = entries[m].row
    <2>1. PICK r \in ScheduleRow : r = entries[m]
        BY <1>1
    <2>2. [r EXCEPT !.status = "INVOICED"] \in ScheduleRow
        BY DEF ScheduleRow
    <2>3. /\ [r EXCEPT !.status = "INVOICED"].status = "INVOICED"
          /\ [r EXCEPT !.status = "INVOICED"].until = r.until
          /\ [r EXCEPT !.status = "INVOICED"].amount = r.amount /\ [r EXCEPT !.status = "INVOICED"].row = r.row
        BY DEF ScheduleRow
    <2>. QED  BY <2>1, <2>2, <2>3
<1>3. entries' = [entries EXCEPT ![m] = marked]
    BY <1>1, <1>2
<1>4. /\ entries' \in [DOMAIN entries -> ScheduleRow] /\ DOMAIN entries' = DOMAIN entries
      /\ entries'[m] = marked /\ \A n \in DOMAIN entries : n # m => entries'[n] = entries[n]
    BY <1>1, <1>3
<1>5. \A n \in DOMAIN entries :
        /\ entries'[n].until = entries[n].until /\ entries'[n].amount = entries[n].amount
        /\ entries'[n].row = entries[n].row
    BY <1>2, <1>4
<1>6. Invoiced' = Invoiced \cup {m}
    BY <1>1, <1>2, <1>4 DEF Invoiced
<1>7. \A n, r : (SameCharge(n, r) => SameCharge(n, r)') /\ (SameEntry(n, r) => SameEntry(n, r)')
    BY <1>4, <1>5 DEF SameCharge, SameEntry
<1>8. \A i \in BillingJobs : JobHolds(i) /\ i.op # "amend" => JobHolds(i)'
    BY <1>7 DEF JobHolds
<1>9. ScheduleHolds'
    <2>1. entries' \in Schedules
        BY <1>4, ScheduleForms DEF Schedules, BillingInv
    <2>2. DOMAIN entries' = DOMAIN Periods(terms') \cup Invoiced'
        BY <1>1, <1>4, <1>6 DEF BillingInv, ScheduleHolds
    <2>3. \A n \in DOMAIN Periods(terms') \ Invoiced' : SameCharge(n, Periods(terms)[n])'
        BY <1>6, <1>7 DEF BillingInv, ScheduleHolds
    <2>4. PeriodsStay => \A n \in DOMAIN entries' :
            (n - terms'.start) % terms'.cycle = 0 /\ terms'.start <= n /\ entries'[n].until < n + terms'.cycle
        BY <1>4, <1>5 DEF BillingInv, ScheduleHolds
    <2>. QED  BY <2>1, <2>2, <2>3, <2>4 DEF BillingInv, ScheduleHolds
<1>10. \A n \in DOMAIN entries : InvoiceOf(n, entries'[n]) = InvoiceOf(n, entries[n])
    BY <1>5 DEF InvoiceOf
<1>11. InvoiceOf(m, e) = InvoiceOf(m, entries[m])
    BY DEF SameEntry, SameCharge, InvoiceOf
<1>12. CASE Taken(m, e)
    <2>1. PICK n \in DOMAIN drawn : drawn[n].period = m
        BY <1>12 DEF Taken
    <2>2. m \in Invoiced
        BY <2>1 DEF BillingInv, DrawnHolds, InvoiceMatchesEntry
    <2>3. Invoiced' = Invoiced /\ drawn' = drawn
        BY <1>6, <1>12, <2>2
    <2>4. InvoiceMatchesEntry'
        BY <1>10, <2>3, ScheduleForms DEF BillingInv, DrawnHolds, InvoiceMatchesEntry
    <2>5. DrawnHolds'
        BY <2>3, <2>4 DEF BillingInv, DrawnHolds
    <2>. QED  BY <1>4, <1>5, <1>8, <1>9, <2>5
<1>13. CASE ~Taken(m, e)
    <2>1. PICK k \in Nat : /\ k = Len(drawn) /\ DOMAIN drawn = 1 .. k /\ drawn \in Seq(Drawing)
        BY DEF BillingInv, DrawnHolds
    <2>2. PICK d \in Drawing : d = InvoiceOf(m, e) /\ d.period = m
        <3>1. InvoiceOf(m, e) \in Drawing
            BY <1>1 DEF InvoiceOf, Drawing, ScheduleRow
        <3>. QED  BY <3>1 DEF InvoiceOf
    <2>3. /\ drawn' = Append(drawn, d) /\ drawn' \in Seq(Drawing) /\ DOMAIN drawn' = 1 .. k + 1
          /\ drawn'[k + 1] = d /\ \A n \in 1 .. k : drawn'[n] = drawn[n]
        BY <1>13, <2>1, <2>2
    <2>4. \A n \in 1 .. k : drawn[n].period # m
        <3>1. SUFFICES ASSUME NEW n \in 1 .. k, drawn[n].period = m PROVE FALSE
            OBVIOUS
        <3>2. drawn[n] = InvoiceOf(m, entries[m])
            BY <2>1, <3>1 DEF BillingInv, DrawnHolds, InvoiceMatchesEntry
        <3>3. drawn[n].row = e.row
            BY <3>2 DEF InvoiceOf, SameEntry
        <3>. QED  BY <1>13, <2>1, <3>1, <3>3 DEF Taken
    <2>5. \A i, j \in DOMAIN drawn' : i # j => drawn'[i].period # drawn'[j].period
        BY <2>1, <2>2, <2>3, <2>4 DEF BillingInv, DrawnHolds
    <2>6. ASSUME NEW n \in DOMAIN drawn'
          PROVE  drawn'[n].period \in Invoiced' /\ drawn'[n] = InvoiceOf(drawn'[n].period, entries'[drawn'[n].period])
        <3>1. CASE n = k + 1
            BY <1>1, <1>6, <1>10, <1>11, <2>2, <2>3, <3>1
        <3>2. CASE n # k + 1
            <4>1. n \in 1 .. k /\ n \in DOMAIN drawn /\ drawn'[n] = drawn[n]
                BY <2>1, <2>3, <3>2
            <4>2. drawn[n].period \in Invoiced /\ drawn[n] = InvoiceOf(drawn[n].period, entries[drawn[n].period])
                BY <4>1 DEF BillingInv, DrawnHolds, InvoiceMatchesEntry
            <4>. QED  BY <1>6, <1>10, <4>1, <4>2, ScheduleForms DEF BillingInv
        <3>. QED  BY <3>1, <3>2
    <2>7. ASSUME NEW p \in Invoiced' PROVE \E n \in DOMAIN drawn' : drawn'[n] = InvoiceOf(p, entries'[p])
        <3>1. CASE p = m
            <4>1. k + 1 \in DOMAIN drawn' /\ drawn'[k + 1] = InvoiceOf(p, entries'[p])
                BY <1>1, <1>10, <1>11, <2>1, <2>2, <2>3, <3>1
            <4>. QED  BY <4>1
        <3>2. CASE p # m
            <4>1. p \in Invoiced /\ p \in DOMAIN entries
                BY <1>6, <3>2, ScheduleForms DEF BillingInv
            <4>2. PICK n \in DOMAIN drawn : drawn[n] = InvoiceOf(p, entries[p])
                BY <4>1 DEF BillingInv, DrawnHolds, InvoiceMatchesEntry
            <4>3. n \in DOMAIN drawn' /\ drawn'[n] = InvoiceOf(p, entries'[p])
                BY <1>10, <2>1, <2>3, <4>1, <4>2
            <4>. QED  BY <4>3
        <3>. QED  BY <3>1, <3>2
    <2>8. InvoiceMatchesEntry'
        BY <2>6, <2>7 DEF InvoiceMatchesEntry
    <2>9. DrawnHolds'
        BY <2>3, <2>5, <2>8 DEF DrawnHolds
    <2>. QED  BY <1>4, <1>5, <1>8, <1>9, <2>9
<1>. QED  BY <1>12, <1>13

\* The amounts of the schedule.
AmountsStay ==
    DOMAIN entries' = DOMAIN entries /\ \A m \in DOMAIN entries : entries'[m].amount = entries[m].amount

\* What invoices, and is an operation that goes on, is not an amendment; the
\* others are not either while it is under way.
LEMMA InvoicedBeside ==
    ASSUME BillingInv, NEW b \in Billers, job[b].op \notin {"idle", "amend"},
           NEW i \in BillingJobs, Do(b, i), i.op # "amend", JobHolds(i),
           \A j \in BillingJobs : JobHolds(j) /\ j.op # "amend" => JobHolds(j)'
    PROVE  JobsHold'
<1>1. /\ job' \in [Billers -> BillingJobs] /\ job'[b] = i
      /\ \A o \in Billers \ {b} : job'[o] = job[o]
    BY DEF BillingInv, JobsHold, Do
<1>2. \A o \in Billers : job[o].op # "amend"
    BY DEF BillingInv, JobsHold
<1>3. (\A o \in Billers : JobHolds(job[o]))'
    BY <1>1, <1>2 DEF BillingInv, JobsHold
<1>. QED  BY <1>1, <1>2, <1>3 DEF JobsHold

LEMMA GenerateInvoiceStep ==
    ASSUME BillingInv, NEW b \in Billers, GenerateInvoice(b)
    PROVE  BillingInv' /\ AmountsStay
<1>1. PICK j \in BillingJobs : j = job[b] /\ JobHolds(j)
    BY DEF BillingInv, JobsHold
<1>2. j.op = "run" /\ j.at = "invoice" /\ DOMAIN j.due # {} /\ j.due \in Schedules
    BY <1>1, JobForms DEF GenerateInvoice
<1>3. PICK S \in SUBSET Months : j.due \in [S -> ScheduleRow] /\ S = DOMAIN j.due
    BY <1>2 DEF Schedules
<1>4. PICK m \in S : m = Min(DOMAIN j.due)
    <2>1. S \in SUBSET Nat
        BY DEF Months
    <2>2. \E m \in S : \A n \in S : m <= n
        BY <1>2, <1>3, <2>1, LeastNumber
    <2>. QED  BY <1>3, <2>2 DEF Min
<1>5. PICK e \in ScheduleRow : e = j.due[m]
    BY <1>3
<1>6. SameEntry(m, e)
    BY <1>1, <1>2, <1>3, <1>5 DEF JobHolds
<1>7. /\ drawn' = IF Taken(m, e) THEN drawn ELSE Append(drawn, InvoiceOf(m, e))
      /\ entries' = [entries EXCEPT ![m].status = "INVOICED"]
      /\ Do(b, [j EXCEPT !.due = Restrict(@, DOMAIN @ \ {m})])
      /\ UNCHANGED <<terms, billable, rows>>
    BY <1>1, <1>4, <1>5 DEF GenerateInvoice
<1>8. PICK rest \in Schedules :
        /\ rest = Restrict(j.due, DOMAIN j.due \ {m}) /\ \A n \in DOMAIN rest : n \in DOMAIN j.due /\ rest[n] = j.due[n]
    <2>1. Restrict(j.due, DOMAIN j.due \ {m}) \in [S \ {m} -> ScheduleRow]
        BY <1>3 DEF Restrict
    <2>2. S \ {m} \in SUBSET Months
        OBVIOUS
    <2>. QED  BY <1>3, <2>1, <2>2 DEF Schedules, Restrict
<1>9. PICK i \in BillingJobs : /\ i = [j EXCEPT !.due = Restrict(@, DOMAIN @ \ {m})]
                               /\ i.op = "run" /\ i.at = "invoice" /\ i.due = rest
    <2>1. j \in [op : {"run"}, at : {"invoice"}, due : Schedules]
        BY <1>2 DEF BillingJobs, Idle
    <2>2. [j EXCEPT !.due = rest] \in [op : {"run"}, at : {"invoice"}, due : Schedules]
        BY <2>1
    <2>3. /\ [j EXCEPT !.due = rest].op = "run" /\ [j EXCEPT !.due = rest].at = "invoice"
          /\ [j EXCEPT !.due = rest].due = rest
        BY <2>1
    <2>4. [j EXCEPT !.due = rest] \in BillingJobs
        BY <2>2 DEF BillingJobs
    <2>. QED  BY <1>8, <2>3, <2>4
<1>10. JobHolds(i)
    BY <1>1, <1>2, <1>8, <1>9 DEF JobHolds
<1>11. JobsHold'
    BY <1>1, <1>2, <1>6, <1>7, <1>9, <1>10, InvoiceStep, InvoicedBeside
<1>. QED  BY <1>6, <1>7, <1>11, InvoiceStep DEF BillingInv, AmountsStay

LEMMA BillStep ==
    ASSUME BillingInv, NEW b \in Billers, Bill(b)
    PROVE  BillingInv' /\ AmountsStay
<1>1. PICK j \in BillingJobs : j = job[b] /\ JobHolds(j) /\ j.op = "bill"
    BY DEF BillingInv, JobsHold, Bill
<1>2. PICK m \in Months, e \in ScheduleRow : m = j.period /\ e = j.entry /\ SameEntry(m, e)
    BY <1>1, JobForms DEF JobHolds
<1>3. Present(m, e)
    BY <1>2 DEF Present, SameEntry, SameCharge
<1>4. Do(b, Idle) /\ UNCHANGED <<terms, billable, rows>>
    BY DEF Bill
<1>5. CASE Taken(m, e)
    <2>1. UNCHANGED <<drawn, entries>>
        BY <1>1, <1>2, <1>5 DEF Bill
    <2>. QED  BY <1>4, <2>1, StopStep DEF AmountsStay
<1>6. CASE ~Taken(m, e)
    <2>1. /\ drawn' = Append(drawn, InvoiceOf(m, e))
          /\ entries' = [entries EXCEPT ![m].status = "INVOICED"]
        BY <1>1, <1>2, <1>3, <1>6 DEF Bill
    <2>2. Idle \in BillingJobs /\ Idle.op = "idle"
        BY DEF BillingJobs, Idle
    <2>3. JobHolds(Idle)
        BY <2>2 DEF JobHolds
    <2>4. drawn' = IF Taken(m, e) THEN drawn ELSE Append(drawn, InvoiceOf(m, e))
        BY <1>6, <2>1
    <2>5. JobsHold'
        BY <1>1, <1>2, <1>4, <2>1, <2>2, <2>3, <2>4, InvoiceStep, InvoicedBeside
    <2>. QED  BY <1>2, <1>4, <2>1, <2>4, <2>5, InvoiceStep DEF BillingInv, AmountsStay
<1>. QED  BY <1>5, <1>6

\* The schedule of the new terms: periods that are invoiced stay as they are.
LEMMA AmendStep ==
    ASSUME BillingInv, NEW b \in Billers, Amend(b)
    PROVE  BillingInv'
<1>1. PICK j \in BillingJobs : j = job[b] /\ JobHolds(j) /\ j.op = "amend"
    BY DEF BillingInv, JobsHold, Amend
<1>2. PICK t \in AllTerms : t = j.terms
    BY <1>1, JobForms
<1>3. PICK plan \in Plans : /\ plan = Periods(t) /\ DOMAIN plan \subseteq Months
                            /\ \A m \in DOMAIN plan : plan[m].until \in Nat /\ plan[m].amount \in Nat
    BY PeriodForms
<1>. DEFINE some == DOMAIN plan \ Invoiced
            all == DOMAIN plan \cup Invoiced
<1>4. /\ entries' = Restrict(Upserted(plan, some), Kept(DOMAIN plan) \cup some)
      /\ CountRows(some) /\ terms' = t /\ Do(b, Idle) /\ UNCHANGED <<billable, drawn>>
    BY <1>1, <1>2, <1>3 DEF Amend, JobHolds
<1>5. Kept(DOMAIN plan) \cup some = all
    BY ScheduleForms DEF Kept, BillingInv
<1>6. /\ DOMAIN entries' = all
      /\ \A m \in all : entries'[m] = IF m \in some THEN Upsert(m, plan[m]) ELSE entries[m]
    BY <1>4, <1>5 DEF Restrict, Upserted, Kept
<1>7. ASSUME NEW m \in some
      PROVE  /\ entries'[m] \in ScheduleRow /\ entries'[m].status # "INVOICED"
             /\ entries'[m].until = plan[m].until /\ entries'[m].amount = plan[m].amount
    <2>1. entries'[m] = Upsert(m, plan[m]) /\ plan[m].until \in Nat /\ plan[m].amount \in Nat
        BY <1>3, <1>6
    <2>2. CASE m \in DOMAIN entries
        <3>1. PICK e \in ScheduleRow : e = entries[m] /\ e.status # "INVOICED"
            BY <2>2, ScheduleForms DEF BillingInv
        <3>2. entries'[m] = [e EXCEPT !.until = plan[m].until, !.amount = plan[m].amount]
            BY <2>1, <2>2, <3>1 DEF Upsert
        <3>3. entries'[m] \in ScheduleRow
            BY <2>1, <3>2 DEF ScheduleRow
        <3>4. entries'[m].status = e.status /\ entries'[m].until = plan[m].until /\ entries'[m].amount = plan[m].amount
            BY <3>2 DEF ScheduleRow
        <3>. QED  BY <3>1, <3>3, <3>4
    <2>3. CASE m \notin DOMAIN entries
        <3>1. rows[m] + 1 \in Nat
            BY <1>3 DEF BillingInv, ScheduleHolds
        <3>2. entries'[m] = Row(plan[m], rows[m] + 1)
            BY <2>1, <2>3 DEF Upsert
        <3>3. entries'[m] \in ScheduleRow
            BY <2>1, <3>1, <3>2 DEF Row, ScheduleRow
        <3>. QED  BY <3>2, <3>3 DEF Row
    <2>. QED  BY <2>2, <2>3
<1>8. \A m \in Invoiced : entries'[m] = entries[m] /\ entries[m] \in ScheduleRow /\ entries[m].status = "INVOICED"
                          /\ m \in DOMAIN entries
    BY <1>6, ScheduleForms DEF BillingInv
<1>9. Invoiced' = Invoiced
    BY <1>6, <1>7, <1>8 DEF Invoiced
<1>10. rows' \in [Months -> Nat]
    BY <1>4 DEF CountRows, BillingInv, ScheduleHolds
<1>11. entries' \in Schedules
    <2>1. all \in SUBSET Months
        BY <1>3, ScheduleForms DEF BillingInv
    <2>2. \A m \in all : entries'[m] \in ScheduleRow
        BY <1>7, <1>8
    <2>3. entries' \in [all -> ScheduleRow]
        <3>1. entries' = [m \in all |-> Upserted(plan, some)[m]]
            BY <1>4, <1>5 DEF Restrict, Upserted, Kept
        <3>. QED  BY <1>6, <2>2, <3>1
    <2>. QED  BY <2>1, <2>3 DEF Schedules
<1>12. \A m \in DOMAIN Periods(terms') \ Invoiced' : SameCharge(m, Periods(terms)[m])'
    BY <1>3, <1>4, <1>6, <1>7, <1>9 DEF SameCharge
<1>13. ASSUME PeriodsStay, NEW m \in DOMAIN entries'
       PROVE  (m - t.start) % t.cycle = 0 /\ t.start <= m /\ entries'[m].until < m + t.cycle
    <2>1. CASE m \in some
        BY <1>3, <1>7, <2>1, PeriodForms
    <2>2. CASE m \in Invoiced
        <3>1. t.start = terms.start /\ t.cycle = terms.cycle
            BY <1>1, <1>2, <1>13 DEF JobHolds
        <3>. QED  BY <1>8, <1>13, <2>2, <3>1 DEF BillingInv, ScheduleHolds
    <2>. QED  BY <1>6, <2>1, <2>2
<1>14. ScheduleHolds'
    <2>1. DOMAIN entries' = DOMAIN Periods(terms') \cup Invoiced'
        BY <1>3, <1>4, <1>6, <1>9
    <2>. QED  BY <1>4, <1>10, <1>11, <1>12, <1>13, <2>1 DEF ScheduleHolds
<1>15. DrawnHolds'
    <2>1. \A m \in Invoiced : InvoiceOf(m, entries'[m]) = InvoiceOf(m, entries[m])
        BY <1>8
    <2>2. InvoiceMatchesEntry'
        <3>1. /\ \A n \in DOMAIN drawn : drawn[n].period \in Invoiced
                    /\ drawn[n] = InvoiceOf(drawn[n].period, entries[drawn[n].period])
              /\ \A m \in Invoiced : \E n \in DOMAIN drawn : drawn[n] = InvoiceOf(m, entries[m])
            BY DEF BillingInv, DrawnHolds, InvoiceMatchesEntry
        <3>. QED  BY <1>4, <1>9, <2>1, <3>1 DEF InvoiceMatchesEntry
    <2>. QED  BY <1>4, <2>2 DEF BillingInv, DrawnHolds
<1>16. \A o \in Billers : job'[o] = Idle
    <2>1. \A o \in Billers \ {b} : job[o] \in BillingJobs /\ job[o].op = "idle"
        BY <1>1 DEF BillingInv, JobsHold
    <2>2. \A i \in BillingJobs : i.op = "idle" => i = Idle
        BY DEF BillingJobs, Idle
    <2>. QED  BY <1>4, <2>1, <2>2 DEF Do, BillingInv, JobsHold
<1>17. Idle \in BillingJobs /\ Idle.op = "idle"
    BY DEF BillingJobs, Idle
<1>18. JobsHold'
    <2>1. job' \in [Billers -> BillingJobs]
        BY <1>4, <1>17 DEF Do, BillingInv, JobsHold
    <2>2. (\A o \in Billers : JobHolds(job[o]))'
        BY <1>16, <1>17 DEF JobHolds
    <2>. QED  BY <1>16, <1>17, <2>1, <2>2 DEF JobsHold
<1>. QED  BY <1>14, <1>15, <1>18 DEF BillingInv

LEMMA ContractEndsStep ==
    ASSUME BillingInv, UNCHANGED <<terms, entries, rows, drawn, job>>,
           billable' = billable \/ \A b \in Billers : job[b].op # "amend"
    PROVE  BillingInv'
<1>1. \A o \in Billers : JobHolds(job[o])'
    BY DEF BillingInv, JobsHold, JobHolds, SameEntry, SameCharge, Invoiced
<1>2. ScheduleHolds'
    BY DEF BillingInv, ScheduleHolds, SameCharge, Invoiced
<1>3. DrawnHolds'
    BY DEF BillingInv, DrawnHolds, InvoiceMatchesEntry, InvoiceOf, Invoiced
<1>. QED  BY <1>1, <1>2, <1>3 DEF BillingInv, JobsHold

LEMMA ScheduleInitHolds == BillingInit => BillingInv
<1>. SUFFICES ASSUME BillingInit PROVE BillingInv
    OBVIOUS
<1>1. PICK t \in AllTerms : t = terms
    BY DEF BillingInit
<1>2. PICK plan \in Plans : /\ plan = Periods(t) /\ DOMAIN plan \subseteq Months
                            /\ \A m \in DOMAIN plan :
                                /\ (m - t.start) % t.cycle = 0 /\ t.start <= m /\ plan[m].until < m + t.cycle
                                /\ plan[m].until \in Nat /\ plan[m].amount \in Nat
    BY PeriodForms
<1>3. /\ entries = [m \in DOMAIN plan |-> Row(plan[m], 1)]
      /\ rows = [m \in Months |-> IF m \in DOMAIN plan THEN 1 ELSE 0]
      /\ drawn = << >> /\ job = [b \in Billers |-> Idle]
    BY <1>1, <1>2 DEF BillingInit
<1>4. \A m \in DOMAIN plan : /\ Row(plan[m], 1) \in ScheduleRow /\ Row(plan[m], 1).status # "INVOICED"
                             /\ Row(plan[m], 1).until = plan[m].until /\ Row(plan[m], 1).amount = plan[m].amount
    BY <1>2 DEF Row, ScheduleRow
<1>5. entries \in [DOMAIN plan -> ScheduleRow] /\ DOMAIN entries = DOMAIN plan
    BY <1>3, <1>4
<1>6. Invoiced = {}
    BY <1>3, <1>4 DEF Invoiced
<1>7. ScheduleHolds
    BY <1>1, <1>2, <1>3, <1>4, <1>5, <1>6 DEF ScheduleHolds, Schedules, SameCharge
<1>8. DrawnHolds
    <2>1. drawn \in Seq(Drawing) /\ DOMAIN drawn = {}
        BY <1>3
    <2>. QED  BY <1>6, <2>1 DEF DrawnHolds, InvoiceMatchesEntry
<1>9. JobsHold
    <2>1. Idle \in BillingJobs /\ Idle.op = "idle"
        BY DEF BillingJobs, Idle
    <2>. QED  BY <1>3, <2>1 DEF JobsHold, JobHolds
<1>. QED  BY <1>7, <1>8, <1>9 DEF BillingInv

LEMMA BillingStepHolds ==
    ASSUME ScheduleIsApart, BillingInv, [BillingNext]_billingVars
    PROVE  BillingInv' /\ (~billable => AmountsStay)
<1>1. CASE UNCHANGED billingVars
    BY <1>1, ContractEndsStep DEF billingVars, AmountsStay
<1>2. ASSUME NEW b \in Billers, NEW op \in {"build", "run"}, BuildRead(b, op)
      PROVE  BillingInv' /\ AmountsStay
    BY <1>2, BuildReadStep DEF BuildRead, AmountsStay
<1>3. ASSUME NEW b \in Billers, BuildUpsert(b) PROVE BillingInv' /\ AmountsStay
    BY <1>3, BuildUpsertIdle DEF AmountsStay
<1>4. ASSUME NEW b \in Billers, BuildPrune(b) PROVE BillingInv' /\ AmountsStay
    BY <1>4, BuildPruneIdle DEF AmountsStay
<1>5. ASSUME NEW b \in Billers, SelectDue(b) PROVE BillingInv' /\ AmountsStay
    BY <1>5, SelectDueStep DEF SelectDue, AmountsStay
<1>6. ASSUME NEW b \in Billers, GenerateEnd(b) PROVE BillingInv' /\ AmountsStay
    BY <1>6, StopStep DEF GenerateEnd, AmountsStay
<1>7. ASSUME NEW b \in Billers, Fail(b) PROVE BillingInv' /\ AmountsStay
    BY <1>7, StopStep DEF Fail, AmountsStay
<1>8. ASSUME NEW b \in Billers, Amend(b) PROVE BillingInv' /\ billable
    <2>1. billable
        BY <1>8 DEF Amend, BillingInv, JobsHold, JobHolds
    <2>. QED  BY <1>8, <2>1, AmendStep
<1>9. ASSUME NEW b \in Billers, NEW t \in AllTerms, AmendRead(b, t) PROVE BillingInv' /\ AmountsStay
    BY <1>9, AmendReadStep DEF AmendRead, AmountsStay
<1>10. ASSUME NEW b \in Billers, NEW m \in Months, BillRead(b, m) PROVE BillingInv' /\ AmountsStay
    BY <1>10, BillReadStep DEF BillRead, AmountsStay
<1>11. ASSUME EndContract PROVE BillingInv' /\ AmountsStay
    BY <1>11, ContractEndsStep DEF EndContract, AmountsStay
<1>12. ASSUME MonthPasses PROVE BillingInv' /\ AmountsStay
    BY <1>12, ContractEndsStep DEF MonthPasses, AmountsStay
<1>. QED
    BY <1>1, <1>2, <1>3, <1>4, <1>5, <1>6, <1>7, <1>8, <1>9, <1>10, <1>11, <1>12,
       GenerateInvoiceStep, BillStep DEF BillingNext, BillingStep

\* First months of two periods are a cycle apart.
LEMMA CyclesApart ==
    ASSUME NEW c \in Nat \ {0}, NEW s \in Nat, NEW p \in Nat, NEW q \in Nat, s <= p, p < q,
           (p - s) % c = 0, (q - s) % c = 0
    PROVE  p + c <= q
<1>1. PICK x \in Nat, y \in Nat : x = p - s /\ y = q - s /\ x < y
    OBVIOUS
<1>2. PICK k \in Nat : x = k * c
    <2>1. x = (x \div c) * c /\ x \div c \in Nat
        BY <1>1
    <2>. QED  BY <2>1
<1>3. PICK l \in Nat : y = l * c
    <2>1. y = (y \div c) * c /\ y \div c \in Nat
        BY <1>1
    <2>. QED  BY <2>1
<1>4. k < l
    BY <1>1, <1>2, <1>3
<1>5. PICK d \in Nat : l = k + 1 + d
    BY <1>4
<1>6. (k + 1 + d) * c = k * c + c + d * c /\ d * c \in Nat /\ k * c \in Nat
    OBVIOUS
<1>. QED  BY <1>1, <1>2, <1>3, <1>5, <1>6

LEMMA PeriodsAreApart ==
    ASSUME PeriodsStay, BillingInv PROVE MonthBilledOnce
<1>1. ASSUME NEW p \in DOMAIN entries, NEW q \in DOMAIN entries, p < q
      PROVE  (p .. entries[p].until) \cap (q .. entries[q].until) = {}
    <2>1. /\ p \in Nat /\ q \in Nat /\ entries[p].until \in Nat /\ entries[q].until \in Nat
          /\ terms.cycle \in Nat \ {0} /\ terms.start \in Nat
        BY ScheduleForms, PeriodForms DEF BillingInv, ScheduleHolds
    <2>2. /\ (p - terms.start) % terms.cycle = 0 /\ terms.start <= p
          /\ (q - terms.start) % terms.cycle = 0 /\ entries[p].until < p + terms.cycle
        BY DEF BillingInv, ScheduleHolds
    <2>3. p + terms.cycle <= q
        BY <1>1, <2>1, <2>2, CyclesApart
    <2>. QED  BY <2>1, <2>2, <2>3
<1>. SUFFICES ASSUME NEW i \in DOMAIN drawn, NEW j \in DOMAIN drawn, i # j
              PROVE  (drawn[i].period .. drawn[i].until) \cap (drawn[j].period .. drawn[j].until) = {}
    BY DEF MonthBilledOnce
<1>2. PICK p \in DOMAIN entries, q \in DOMAIN entries :
        /\ p = drawn[i].period /\ drawn[i] = InvoiceOf(p, entries[p])
        /\ q = drawn[j].period /\ drawn[j] = InvoiceOf(q, entries[q])
    BY ScheduleForms DEF BillingInv, DrawnHolds, InvoiceMatchesEntry
<1>3. drawn[i].until = entries[p].until /\ drawn[j].until = entries[q].until
    BY <1>2 DEF InvoiceOf
<1>4. p # q /\ p \in Nat /\ q \in Nat
    BY <1>2, ScheduleForms DEF BillingInv, DrawnHolds
<1>5. CASE p < q
    BY <1>1, <1>2, <1>3, <1>5
<1>6. CASE q < p
    BY <1>1, <1>2, <1>3, <1>6
<1>. QED  BY <1>4, <1>5, <1>6

\* Where an amendment has the contract to itself and moves no first month, no
\* month is on two invoices and each invoice bills what its entry says: for
\* any terms, number of runs, clerks, amendments and failures
\* (buildScheduleForContract(), generateDueInvoices(), approve()).
THEOREM MonthsAreBilledOnce ==
    ASSUME ScheduleIsApart, PeriodsStay
    PROVE  BillingSpec => []MonthsAreBilled
<1>1. BillingInv /\ [BillingNext]_billingVars => BillingInv'
    BY BillingStepHolds
<1>2. BillingInv => MonthsAreBilled
    BY PeriodsAreApart DEF MonthsAreBilled, BillingInv, DrawnHolds
<1>. QED  BY <1>1, <1>2, ScheduleInitHolds, PTL DEF BillingSpec

\* Where an amendment has the contract to itself, the schedule of a contract
\* that has ended is not rebuilt, even by what was under way when it ended.
THEOREM EndedScheduleStays ==
    ASSUME ScheduleIsApart
    PROVE  BillingSpec => EndedIsNotRebuilt
<1>1. BillingInv /\ [BillingNext]_billingVars => BillingInv'
    BY BillingStepHolds
<1>2. BillingInv /\ [BillingNext]_billingVars =>
        [~billable => DOMAIN entries' = DOMAIN entries
                      /\ \A m \in DOMAIN entries : entries'[m].amount = entries[m].amount]_billingVars
    BY BillingStepHolds DEF AmountsStay
<1>. QED  BY <1>1, <1>2, ScheduleInitHolds, PTL DEF BillingSpec, EndedIsNotRebuilt

-----------------------------------------------------------------------------
(* ParkingRates: every day is rated.                                       *)

LEMMA CalendarLemma ==
    /\ ParkingDays \subseteq Nat \ {0} /\ ParkingMonths \subseteq Nat \ {0}
    /\ \A m \in ParkingMonths : PeriodStart(m) \in Nat \ {0} /\ PeriodEnd(m) \in Nat /\ PeriodStart(m) <= PeriodEnd(m)
<1>1. LastPeriod * DaysPerMonth \in Nat
    BY PeriodsAssumption
<1>2. ASSUME NEW m \in ParkingMonths
      PROVE  PeriodStart(m) \in Nat \ {0} /\ PeriodEnd(m) \in Nat /\ PeriodStart(m) <= PeriodEnd(m)
    <2>1. m \in Nat /\ m - 1 \in Nat
        BY PeriodsAssumption DEF ParkingMonths
    <2>2. (m - 1) * DaysPerMonth \in Nat /\ m * DaysPerMonth = (m - 1) * DaysPerMonth + DaysPerMonth
        BY <2>1, PeriodsAssumption
    <2>. QED  BY <2>1, <2>2, PeriodsAssumption DEF PeriodStart, PeriodEnd
<1>. QED  BY <1>1, <1>2, PeriodsAssumption DEF ParkingDays, ParkingMonths

\* What an adjustment has read started before its day.
ParkingCharges == [from : ParkingDays, to : ParkingDays \cup {0}, fee : Fees]
ParkingAsked ==
    [op : {"adjust"}, rate : Nat, day : ParkingDays, fee : Fees]
        \cup [op : {"bill"}, month : ParkingMonths, fee : Fees]

RateTyped(r) == r \in ParkingCharges /\ (r.to # 0 => r.from < r.to)

AdjustTyped(q, rs) ==
    q.op = "adjust" => q.rate \in 1 .. Len(rs) /\ rs[q.rate].from < q.day

ParkingTyped ==
    /\ span \in [from : ParkingDays, to : ParkingDays] /\ span.from <= span.to
    /\ rates \in Seq(ParkingCharges)
    /\ \A n \in 1 .. Len(rates) : RateTyped(rates[n])
    /\ statements \in [ParkingMonths -> Fees \cup {0}]
    /\ request \in [Officers -> {NoRequest} \cup ParkingAsked]
    /\ \A o \in Officers : AdjustTyped(request[o], rates)

LEMMA ParkingBegins == ParkingInit => ParkingTyped
<1>. SUFFICES ASSUME ParkingInit PROVE ParkingTyped
    OBVIOUS
<1>1. PICK first \in {1, PeriodStart(2)} \cap ParkingDays, fee \in Fees :
        /\ span = [from |-> first, to |-> PeriodEnd(LastPeriod)]
        /\ rates = <<[from |-> first, to |-> 0, fee |-> fee]>>
    BY DEF ParkingInit
<1>2. PeriodEnd(LastPeriod) \in ParkingDays /\ first <= PeriodEnd(LastPeriod)
    <2>1. LastPeriod * DaysPerMonth \in Nat /\ 1 <= first /\ first <= LastPeriod * DaysPerMonth
        BY PeriodsAssumption DEF ParkingDays
    <2>. QED  BY <1>1, <2>1, CalendarLemma DEF PeriodEnd, ParkingDays
<1>. DEFINE r == [from |-> first, to |-> 0, fee |-> fee]
<1>3. r \in ParkingCharges /\ r.to = 0 /\ rates = <<r>>
    BY <1>1 DEF ParkingCharges
<1>4. span \in [from : ParkingDays, to : ParkingDays] /\ span.from <= span.to
    BY <1>1, <1>2
<1>. HIDE DEF r
<1>5. rates \in Seq(ParkingCharges) /\ \A n \in 1 .. Len(rates) : RateTyped(rates[n])
    BY <1>3 DEF RateTyped
<1>6. statements = [m \in ParkingMonths |-> 0] /\ request = [o \in Officers |-> NoRequest]
    BY DEF ParkingInit
<1>. QED  BY <1>4, <1>5, <1>6 DEF ParkingTyped, AdjustTyped, NoRequest

\* An adjustment ends the rate it has read, where it starts its own.
LEMMA RatesAfterWrite ==
    ASSUME ParkingTyped, NEW o \in Officers, RateWrite(o)
    PROVE  /\ request[o].day \in ParkingDays
           /\ rates' \in Seq(ParkingCharges) /\ \A k \in 1 .. Len(rates') : RateTyped(rates'[k])
           /\ Len(rates') = Len(rates) + 1
           /\ \A k \in 1 .. Len(rates) :
                /\ k \in 1 .. Len(rates') /\ rates'[k].from = rates[k].from /\ rates'[k].fee = rates[k].fee
                /\ rates'[k].to = rates[k].to \/ rates'[k].to = request[o].day
           /\ rates'[Len(rates')].from = request[o].day /\ rates'[Len(rates')].to = 0
<1>. DEFINE q == request[o]
            n == q.rate
            ended == [rates[n] EXCEPT !.to = q.day]
            new == [from |-> q.day, to |-> 0, fee |-> q.fee]
<1>1. /\ request[o] \in {NoRequest} \cup ParkingAsked /\ request[o].op = "adjust"
      /\ AdjustTyped(request[o], rates)
    BY DEF RateWrite, ParkingTyped
<1>2. q.day \in ParkingDays /\ q.fee \in Fees /\ n \in 1 .. Len(rates) /\ rates[n].from < q.day
    BY <1>1 DEF ParkingAsked, NoRequest, AdjustTyped
<1>3. RateTyped(new) /\ new \in ParkingCharges /\ new.from = q.day /\ new.to = 0
    BY <1>2 DEF RateTyped, ParkingCharges
<1>4. rates[n] \in ParkingCharges /\ rates \in Seq(ParkingCharges)
    BY <1>2 DEF ParkingTyped, RateTyped
<1>5. /\ ended \in ParkingCharges /\ ended.to = q.day /\ ended.from = rates[n].from
      /\ ended.fee = rates[n].fee
    BY <1>2, <1>4 DEF ParkingCharges
<1>6. rates' = Append([rates EXCEPT ![n] = ended], new)
    BY <1>2, <1>4 DEF RateWrite
<1>. HIDE DEF ended, new, n
<1>7. RateTyped(ended)
    BY <1>2, <1>5 DEF RateTyped
<1>8. /\ rates' \in Seq(ParkingCharges) /\ Len(rates') = Len(rates) + 1
      /\ \A k \in 1 .. Len(rates) : rates'[k] = IF k = n THEN ended ELSE rates[k]
      /\ rates'[Len(rates) + 1] = new
    BY <1>2, <1>3, <1>4, <1>5, <1>6
<1>9. \A k \in 1 .. Len(rates') : RateTyped(rates'[k])
    BY <1>3, <1>4, <1>7, <1>8 DEF ParkingTyped
<1>10. \A k \in 1 .. Len(rates) :
          /\ k \in 1 .. Len(rates') /\ rates'[k].from = rates[k].from /\ rates'[k].fee = rates[k].fee
          /\ rates'[k].to = rates[k].to \/ rates'[k].to = q.day
    BY <1>4, <1>5, <1>8
<1>. QED  BY <1>2, <1>3, <1>8, <1>9, <1>10

LEMMA ParkingGoesOn == ParkingTyped /\ [ParkingNext]_parkingVars => ParkingTyped'
<1>. SUFFICES ASSUME ParkingTyped, [ParkingNext]_parkingVars PROVE ParkingTyped'
    OBVIOUS
<1>1. CASE UNCHANGED parkingVars
    BY <1>1 DEF parkingVars, ParkingTyped, RateTyped, AdjustTyped
<1>2. ASSUME NEW d \in ParkingDays, NEW e \in ParkingDays, Redate(d, e) PROVE ParkingTyped'
    BY <1>2 DEF Redate, ParkingTyped, RateTyped, AdjustTyped
\* A request is written.
<1>3. ASSUME NEW o \in Officers, NEW q \in {NoRequest} \cup ParkingAsked, AdjustTyped(q, rates),
             request' = [request EXCEPT ![o] = q], UNCHANGED <<span, rates>>,
             statements' \in [ParkingMonths -> Fees \cup {0}]
      PROVE  ParkingTyped'
    <2>1. /\ request' \in [Officers -> {NoRequest} \cup ParkingAsked]
          /\ \A p \in Officers : AdjustTyped(request'[p], rates')
        BY <1>3 DEF ParkingTyped
    <2>. QED  BY <1>3, <2>1 DEF ParkingTyped, RateTyped
<1>4. AdjustTyped(NoRequest, rates) /\ NoRequest \in {NoRequest} \cup ParkingAsked
    BY DEF AdjustTyped, NoRequest
<1>5. ASSUME NEW o \in Officers, NEW d \in ParkingDays, NEW fee \in Fees, RateRead(o, d, fee)
      PROVE  ParkingTyped'
    <2>1. PICK n \in Latest(OpenRates) :
            /\ d > rates[n].from
            /\ request' = [request EXCEPT ![o] = [op |-> "adjust", rate |-> n, day |-> d, fee |-> fee]]
        BY <1>5 DEF RateRead
    <2>2. n \in 1 .. Len(rates)
        BY DEF Latest, OpenRates, ParkingTyped
    <2>. DEFINE q == [op |-> "adjust", rate |-> n, day |-> d, fee |-> fee]
    <2>3. request' = [request EXCEPT ![o] = q] /\ UNCHANGED <<span, rates, statements>>
        BY <1>5, <2>1 DEF RateRead
    <2>4. q \in ParkingAsked /\ q.rate = n /\ q.day = d
        BY <2>2 DEF ParkingAsked
    <2>5. rates[n].from < d
        <3>1. rates[n].from \in Nat /\ d \in Nat
            BY <2>2, CalendarLemma DEF ParkingTyped, RateTyped, ParkingCharges
        <3>. QED  BY <2>1, <3>1
    <2>. HIDE DEF q
    <2>6. AdjustTyped(q, rates)
        BY <2>2, <2>4, <2>5 DEF AdjustTyped
    <2>. QED  BY <1>3, <2>3, <2>4, <2>6 DEF ParkingTyped
<1>6. ASSUME NEW o \in Officers, NEW m \in ParkingMonths, StatementRead(o, m) PROVE ParkingTyped'
    <2>1. PICK n \in Latest(Touching(m)) :
            request' = [request EXCEPT ![o] = [op |-> "bill", month |-> m, fee |-> rates[n].fee]]
        BY <1>6 DEF StatementRead
    <2>2. n \in 1 .. Len(rates)
        BY DEF Latest, Touching, ParkingTyped
    <2>. DEFINE q == [op |-> "bill", month |-> m, fee |-> rates[n].fee]
    <2>3. rates[n].fee \in Fees
        BY <2>2 DEF ParkingTyped, RateTyped, ParkingCharges
    <2>4. q \in ParkingAsked /\ q.op = "bill"
        BY <2>3 DEF ParkingAsked
    <2>5. request' = [request EXCEPT ![o] = q] /\ UNCHANGED <<span, rates, statements>>
        BY <1>6, <2>1 DEF StatementRead
    <2>. HIDE DEF q
    <2>. QED  BY <1>3, <2>4, <2>5 DEF AdjustTyped, ParkingTyped
<1>7. ASSUME NEW o \in Officers, StatementWrite(o) PROVE ParkingTyped'
    <2>1. request[o] \in {NoRequest} \cup ParkingAsked /\ request[o].op = "bill"
        BY <1>7 DEF StatementWrite, ParkingTyped
    <2>2. request[o].fee \in Fees
        BY <2>1 DEF ParkingAsked, NoRequest
    <2>3. statements' \in [ParkingMonths -> Fees \cup {0}]
        BY <1>7, <2>2 DEF StatementWrite, ParkingTyped
    <2>. QED  BY <1>3, <1>4, <1>7, <2>3 DEF StatementWrite
<1>8. ASSUME NEW o \in Officers, RateWrite(o) PROVE ParkingTyped'
    <2>1. /\ rates' \in Seq(ParkingCharges) /\ \A k \in 1 .. Len(rates') : RateTyped(rates'[k])
          /\ \A k \in 1 .. Len(rates) : k \in 1 .. Len(rates') /\ rates'[k].from = rates[k].from
        BY <1>8, RatesAfterWrite
    <2>2. request' = [request EXCEPT ![o] = NoRequest] /\ UNCHANGED <<span, statements>>
        BY <1>8 DEF RateWrite
    <2>3. /\ request' \in [Officers -> {NoRequest} \cup ParkingAsked]
          /\ \A p \in Officers : request'[p] = NoRequest \/ request'[p] = request[p]
        BY <2>2 DEF ParkingTyped
    <2>4. ASSUME NEW p \in Officers PROVE AdjustTyped(request'[p], rates')
        BY <1>4, <2>1, <2>3 DEF AdjustTyped, ParkingTyped, NoRequest
    <2>. QED  BY <2>1, <2>2, <2>3, <2>4 DEF ParkingTyped
<1>. QED  BY <1>1, <1>2, <1>5, <1>6, <1>7, <1>8 DEF ParkingNext

\* Each day is rated and each charge is of a rate, the ones under way included.
BillHolds(o) ==
    request[o].op = "bill" =>
        \E n \in DOMAIN rates : rates[n].fee = request[o].fee
                              /\ rates[n].from <= PeriodEnd(request[o].month)

RatesInv ==
    /\ rates # << >>
    /\ RatesHold
    /\ \A o \in Officers : BillHolds(o)

\* An adjustment is written: a day its rate loses has the new rate.
LEMMA RateWriteStep ==
    ASSUME ParkingTyped, RatesInv, NEW o \in Officers, RateWrite(o)
    PROVE  RatesInv'
<1>. DEFINE e == request[o].day
<1>1. /\ e \in Nat
      /\ Len(rates) \in Nat \ {0} /\ DOMAIN rates = 1 .. Len(rates)
      /\ DOMAIN rates' = 1 .. Len(rates') /\ Len(rates') = Len(rates) + 1
      /\ \A k \in 1 .. Len(rates) :
            /\ k \in 1 .. Len(rates') /\ rates'[k].from = rates[k].from /\ rates'[k].fee = rates[k].fee
            /\ rates'[k].to = rates[k].to \/ rates'[k].to = e
      /\ rates'[Len(rates')].from = e /\ rates'[Len(rates')].to = 0
    <2>1. e \in Nat
        BY RatesAfterWrite, CalendarLemma
    <2>2. rates \in Seq(ParkingCharges) /\ rates # << >>
        BY DEF ParkingTyped, RatesInv
    <2>3. Len(rates) \in Nat \ {0} /\ DOMAIN rates = 1 .. Len(rates)
        BY <2>2
    <2>4. rates' \in Seq(ParkingCharges)
        BY RatesAfterWrite
    <2>5. DOMAIN rates' = 1 .. Len(rates')
        BY <2>4
    <2>6. Len(rates') = Len(rates) + 1
          /\ rates'[Len(rates')].from = e /\ rates'[Len(rates')].to = 0
        BY RatesAfterWrite
    <2>7. \A k \in 1 .. Len(rates) :
            /\ k \in 1 .. Len(rates') /\ rates'[k].from = rates[k].from /\ rates'[k].fee = rates[k].fee
            /\ rates'[k].to = rates[k].to \/ rates'[k].to = e
        BY RatesAfterWrite, Zenon
    <2>. HIDE DEF e
    <2>. QED  BY <2>1, <2>3, <2>5, <2>6, <2>7, Zenon
<1>2. PICK l \in Nat \ {0} : l = Len(rates')
    BY <1>1
<1>3. /\ \A p \in Officers : request'[p] = NoRequest \/ request'[p] = request[p]
      /\ statements' = statements
    BY DEF RateWrite, ParkingTyped
<1>. HIDE DEF e
<1>4. ASSUME NEW d \in ParkingDays, rates'[1].from <= d
      PROVE  \E n \in DOMAIN rates' : InForceOn(n, d)'
    <2>1. PICK n \in DOMAIN rates : InForceOn(n, d)
        BY <1>1, <1>4 DEF RatesInv, RatesHold, EveryDayHasARate
    <2>2. d \in Nat
        BY CalendarLemma
    <2>3. CASE e <= d
        <3>1. InForceOn(l, d)' /\ l \in DOMAIN rates'
            BY <1>1, <1>2, <2>3 DEF InForceOn
        <3>. QED  BY <3>1
    <2>4. CASE ~(e <= d)
        <3>1. d < e
            BY <1>1, <2>2, <2>4
        <3>2. InForceOn(n, d)'
            BY <1>1, <2>1, <3>1 DEF InForceOn
        <3>. QED  BY <1>1, <2>1, <3>2
    <2>. QED  BY <2>3, <2>4
<1>5. EveryDayHasARate'
    BY <1>4 DEF EveryDayHasARate
<1>6. \A fee, t : (\E n \in DOMAIN rates : rates[n].fee = fee /\ rates[n].from <= t)
            => \E n \in DOMAIN rates' : rates'[n].fee = fee /\ rates'[n].from <= t
    BY <1>1
<1>7. StatementsChargeRates'
    BY <1>3, <1>6 DEF StatementsChargeRates, RatesInv, RatesHold, PeriodEnd
<1>8. \A p \in Officers : BillHolds(p)'
    BY <1>3, <1>6 DEF BillHolds, RatesInv, NoRequest, PeriodEnd
<1>9. rates' # << >>
    BY <1>1
<1>. QED  BY <1>5, <1>7, <1>8, <1>9 DEF RatesInv, RatesHold

LEMMA StatementReadStep ==
    ASSUME ParkingTyped, RatesInv, NEW o \in Officers, NEW m \in ParkingMonths, StatementRead(o, m)
    PROVE  RatesInv'
<1>1. PICK n \in Latest(Touching(m)) :
        request' = [request EXCEPT ![o] = [op |-> "bill", month |-> m, fee |-> rates[n].fee]]
    BY DEF StatementRead
<1>2. n \in DOMAIN rates /\ rates[n].from <= PeriodEnd(m)
    BY DEF Latest, Touching
<1>3. UNCHANGED <<span, rates, statements>>
    BY DEF StatementRead
<1>4. \A p \in Officers : BillHolds(p)'
    BY <1>1, <1>2, <1>3 DEF BillHolds, RatesInv, ParkingTyped, PeriodEnd
<1>. QED
    BY <1>3, <1>4 DEF RatesInv, RatesHold, EveryDayHasARate, InForceOn, StatementsChargeRates, PeriodEnd

LEMMA StatementWriteStep ==
    ASSUME ParkingTyped, RatesInv, NEW o \in Officers, StatementWrite(o)
    PROVE  RatesInv'
<1>1. UNCHANGED <<span, rates>> /\ request[o].op = "bill"
    BY DEF StatementWrite
<1>2. \A p \in Officers : request'[p] = NoRequest \/ request'[p] = request[p]
    BY DEF StatementWrite, ParkingTyped
<1>3. \A m \in ParkingMonths :
        statements'[m] = statements[m] \/ (m = request[o].month /\ statements'[m] = request[o].fee)
    BY DEF StatementWrite, ParkingTyped
<1>4. BillHolds(o)
    BY DEF RatesInv
<1>5. StatementsChargeRates'
    BY <1>1, <1>3, <1>4 DEF StatementsChargeRates, BillHolds, RatesInv, RatesHold, PeriodEnd
<1>6. \A p \in Officers : BillHolds(p)'
    BY <1>1, <1>2 DEF BillHolds, RatesInv, NoRequest, PeriodEnd
<1>. QED  BY <1>1, <1>5, <1>6 DEF RatesInv, RatesHold, EveryDayHasARate, InForceOn

\* However adjustments, statements and changes of the term cross, from the
\* first rate of a parking contract on no day is left without one, and no
\* statement charges at a rate of later months: for any calendar, fees and
\* number of requests (adjustQuantity(), generateStatement() of
\* modules/parking).
THEOREM EveryDayIsRated == ParkingSpec => []RatesHold
<1>1. ParkingInit => RatesInv
    <2>. SUFFICES ASSUME ParkingInit PROVE RatesInv
        OBVIOUS
    <2>1. PICK first \in {1, PeriodStart(2)} \cap ParkingDays, fee \in Fees :
            rates = <<[from |-> first, to |-> 0, fee |-> fee]>>
        BY DEF ParkingInit
    <2>2. rates # << >> /\ 1 \in DOMAIN rates /\ rates[1].to = 0
        BY <2>1
    <2>3. EveryDayHasARate
        BY <2>2 DEF EveryDayHasARate, InForceOn
    <2>4. statements = [m \in ParkingMonths |-> 0] /\ request = [o \in Officers |-> NoRequest]
        BY DEF ParkingInit
    <2>. QED
        BY <2>2, <2>3, <2>4 DEF RatesInv, RatesHold, StatementsChargeRates, BillHolds, NoRequest
<1>2. ParkingTyped /\ RatesInv /\ [ParkingNext]_parkingVars => RatesInv'
    <2>. SUFFICES ASSUME ParkingTyped, RatesInv, [ParkingNext]_parkingVars PROVE RatesInv'
        OBVIOUS
    <2>1. CASE UNCHANGED parkingVars
        BY <2>1 DEF parkingVars, RatesInv, RatesHold, EveryDayHasARate, InForceOn,
                    StatementsChargeRates, BillHolds, PeriodEnd
    <2>2. ASSUME NEW f \in ParkingDays, NEW t \in ParkingDays, Redate(f, t) PROVE RatesInv'
        BY <2>2 DEF Redate, RatesInv, RatesHold, EveryDayHasARate, InForceOn,
                    StatementsChargeRates, BillHolds, PeriodEnd
    <2>3. ASSUME NEW o \in Officers, NEW d \in ParkingDays, NEW fee \in Fees, RateRead(o, d, fee)
          PROVE  RatesInv'
        <3>1. UNCHANGED <<span, rates, statements>>
            BY <2>3 DEF RateRead
        <3>2. \A p \in Officers : request'[p].op = "adjust" \/ request'[p] = request[p]
            BY <2>3 DEF RateRead, ParkingTyped
        <3>3. \A p \in Officers : BillHolds(p)'
            BY <3>1, <3>2 DEF BillHolds, RatesInv, PeriodEnd
        <3>. QED
            BY <3>1, <3>3 DEF RatesInv, RatesHold, EveryDayHasARate, InForceOn,
                              StatementsChargeRates, PeriodEnd
    <2>. QED
        BY <2>1, <2>2, <2>3, RateWriteStep, StatementReadStep, StatementWriteStep DEF ParkingNext
<1>3. RatesInv => RatesHold
    BY DEF RatesInv
<1>. QED  BY <1>1, <1>2, <1>3, ParkingBegins, ParkingGoesOn, PTL DEF ParkingSpec

-----------------------------------------------------------------------------
(* WorkTemplates: the calendar of the job.                                 *)

\* The job is alone with the templates, and every month has their day.
RunsAreApart == EditedInRun = FALSE /\ LateInMonth = FALSE

\* g is the recursive function StartOf, up to month n.
StartsUpTo(n, g) ==
    g = [m \in 0 .. n |-> IF m <= 1 THEN 0 ELSE g[m - 1] + DaysIn[m - 1]]

LEMMA EachStarts ==
    ASSUME NEW n \in Nat
    PROVE  \E g : StartsUpTo(n, g)
<1>. DEFINE T == {m \in Nat : ~\E g : StartsUpTo(m, g)}
<1>1. SUFFICES ASSUME T # {} PROVE FALSE
    OBVIOUS
<1>2. PICK k \in T : \A m \in T : k <= m
    <2>. HIDE DEF T
    <2>. QED  BY <1>1, LeastNumber, T \in SUBSET Nat DEF T
<1>3. CASE k = 0
    <2>. DEFINE g == [m \in 0 .. 0 |-> 0]
    <2>1. StartsUpTo(0, g)
        BY DEF StartsUpTo
    <2>. QED  BY <1>2, <1>3, <2>1
<1>4. CASE k # 0
    <2>1. k - 1 \in Nat /\ k - 1 \notin T
        BY <1>2, <1>4
    <2>2. PICK f : StartsUpTo(k - 1, f)
        BY <2>1
    <2>. DEFINE last == IF k <= 1 THEN 0 ELSE f[k - 1] + DaysIn[k - 1]
                g == [m \in 0 .. k |-> IF m = k THEN last ELSE f[m]]
                G(m) == IF m <= 1 THEN 0 ELSE g[m - 1] + DaysIn[m - 1]
    <2>3. \A m \in 0 .. k - 1 : f[m] = IF m <= 1 THEN 0 ELSE f[m - 1] + DaysIn[m - 1]
        BY <2>2 DEF StartsUpTo
    <2>4. g[k] = last /\ \A m \in 0 .. k - 1 : g[m] = f[m]
        BY <2>1
    <2>5. g = [m \in 0 .. k |-> g[m]]
        OBVIOUS
    <2>. HIDE DEF g
    <2>6. ASSUME NEW m \in 0 .. k PROVE g[m] = G(m)
        <3>1. CASE m = k
            BY <2>1, <2>4, <3>1
        <3>2. CASE m # k
            <4>1. m \in 0 .. k - 1
                BY <3>2
            <4>2. m > 1 => m - 1 \in 0 .. k - 1
                BY <4>1
            <4>. QED  BY <2>3, <2>4, <4>1, <4>2
        <3>. QED  BY <3>1, <3>2
    <2>7. g = [m \in 0 .. k |-> G(m)]
        BY <2>5, <2>6
    <2>. QED  BY <1>2, <2>7 DEF StartsUpTo
<1>. QED  BY <1>3, <1>4

LEMMA StartsAgree ==
    ASSUME NEW n \in Nat, NEW k \in Nat, NEW g, NEW h, StartsUpTo(n, g), StartsUpTo(k, h),
           NEW m \in Nat, m <= n, m <= k
    PROVE  g[m] = h[m]
<1>. DEFINE T == {i \in Nat : i <= n /\ i <= k /\ g[i] # h[i]}
<1>1. SUFFICES ASSUME T # {} PROVE FALSE
    OBVIOUS
<1>2. PICK i \in T : \A j \in T : i <= j
    <2>. HIDE DEF T
    <2>. QED  BY <1>1, LeastNumber, T \in SUBSET Nat DEF T
<1>3. /\ g[i] = IF i <= 1 THEN 0 ELSE g[i - 1] + DaysIn[i - 1]
      /\ h[i] = IF i <= 1 THEN 0 ELSE h[i - 1] + DaysIn[i - 1]
    BY <1>2 DEF StartsUpTo
<1>4. i > 1 => i - 1 \in Nat /\ i - 1 \notin T
    BY <1>2
<1>5. i > 1 => g[i - 1] = h[i - 1]
    BY <1>2, <1>4
<1>. QED  BY <1>2, <1>3, <1>5

LEMMA StartOfIs ==
    StartOf = CHOOSE f : f = [m \in Nat |-> IF m <= 1 THEN 0 ELSE f[m - 1] + DaysIn[m - 1]]
BY DEF StartOf

LEMMA StartUnfolds ==
    ASSUME NEW m \in Nat
    PROVE  StartOf[m] = IF m <= 1 THEN 0 ELSE StartOf[m - 1] + DaysIn[m - 1]
<1>. DEFINE g(n) == CHOOSE g : StartsUpTo(n, g)
            f == [n \in Nat |-> g(n)[n]]
            F(n) == IF n <= 1 THEN 0 ELSE f[n - 1] + DaysIn[n - 1]
<1>1. \A n \in Nat : StartsUpTo(n, g(n))
    BY EachStarts, Zenon
<1>2. \A n \in Nat : f[n] = g(n)[n]
    OBVIOUS
<1>3. f = [n \in Nat |-> f[n]]
    OBVIOUS
<1>. HIDE DEF g, f
<1>4. ASSUME NEW n \in Nat PROVE f[n] = F(n)
    <2>1. g(n)[n] = IF n <= 1 THEN 0 ELSE g(n)[n - 1] + DaysIn[n - 1]
        BY <1>1 DEF StartsUpTo
    <2>2. n > 1 => g(n)[n - 1] = g(n - 1)[n - 1]
        BY <1>1, StartsAgree
    <2>3. n > 1 => f[n - 1] = g(n - 1)[n - 1]
        BY <1>2
    <2>. QED  BY <1>2, <2>1, <2>2, <2>3
<1>5. f = [n \in Nat |-> F(n)]
    BY <1>3, <1>4
<1>6. StartOf = [n \in Nat |-> IF n <= 1 THEN 0 ELSE StartOf[n - 1] + DaysIn[n - 1]]
    BY <1>5, StartOfIs, Zenon
<1>. QED  BY <1>6

LastWorkMonth == Len(DaysIn)

LEMMA MonthsAre ==
    /\ LastWorkMonth \in Nat /\ LastWorkMonth >= 2 /\ WorkMonths = 1 .. LastWorkMonth
    /\ Cardinality(WorkMonths) = LastWorkMonth
    /\ \A m \in WorkMonths : DaysIn[m] \in Nat /\ DaysIn[m] >= 1 /\ Week <= DaysIn[m]
<1>1. LastWorkMonth \in Nat /\ LastWorkMonth >= 2 /\ WorkMonths = 1 .. LastWorkMonth
    BY DaysInAssumption DEF LastWorkMonth, WorkMonths
<1>2. Cardinality(WorkMonths) = LastWorkMonth
    BY <1>1, FS_Interval
<1>3. \A m \in WorkMonths : DaysIn[m] \in Nat /\ DaysIn[m] >= 1
    BY <1>1, DaysInAssumption DEF LastWorkMonth
<1>. QED  BY <1>1, <1>2, <1>3, WeekAssumption

\* The days of a month follow those of the month before.
EndOf(m) == StartOf[m] + DaysIn[m]

LEMMA MonthsFollow ==
    /\ StartOf[1] = 0
    /\ \A m \in WorkMonths : StartOf[m] \in Nat /\ EndOf(m) \in Nat /\ StartOf[m] < EndOf(m)
    /\ \A m \in 1 .. LastWorkMonth - 1 : StartOf[m + 1] = EndOf(m)
    /\ LastWorkDay = EndOf(LastWorkMonth)
<1>1. StartOf[1] = 0
    BY StartUnfolds
<1>2. \A m \in 1 .. LastWorkMonth - 1 : StartOf[m + 1] = EndOf(m)
    BY MonthsAre, StartUnfolds DEF EndOf
<1>. DEFINE T == {m \in WorkMonths : StartOf[m] \notin Nat}
<1>3. T = {}
    <2>1. SUFFICES ASSUME T # {} PROVE FALSE
        OBVIOUS
    <2>2. PICK k \in T : \A m \in T : k <= m
        <3>. HIDE DEF T
        <3>. QED  BY <2>1, LeastNumber, MonthsAre, T \in SUBSET Nat DEF T
    <2>3. k # 1 /\ k \in 1 .. LastWorkMonth
        BY <1>1, <2>2, MonthsAre
    <2>4. k - 1 \in 1 .. LastWorkMonth - 1 /\ k - 1 \notin T /\ k - 1 + 1 = k
        BY <2>2, <2>3, MonthsAre
    <2>5. StartOf[k] = StartOf[k - 1] + DaysIn[k - 1]
        BY <1>2, <2>4 DEF EndOf
    <2>. QED  BY <2>2, <2>4, <2>5, MonthsAre
<1>. QED  BY <1>1, <1>2, <1>3, MonthsAre DEF EndOf, LastWorkDay

LEMMA MonthsInOrder ==
    ASSUME NEW m \in WorkMonths, NEW k \in WorkMonths, m < k
    PROVE  EndOf(m) <= StartOf[k]
<1>. DEFINE T == {i \in WorkMonths : m < i /\ ~(EndOf(m) <= StartOf[i])}
<1>1. SUFFICES ASSUME T # {} PROVE FALSE
    OBVIOUS
<1>2. PICK i \in T : \A j \in T : i <= j
    <2>. HIDE DEF T
    <2>. QED  BY <1>1, LeastNumber, MonthsAre, T \in SUBSET Nat DEF T
<1>3. i \in 1 .. LastWorkMonth /\ m \in 1 .. LastWorkMonth /\ m < i
    BY <1>2, MonthsAre
<1>4. i - 1 \in 1 .. LastWorkMonth - 1 /\ i - 1 \in WorkMonths /\ i - 1 + 1 = i /\ i - 1 \notin T
    BY <1>2, <1>3, MonthsAre
<1>5. StartOf[i] = EndOf(i - 1)
    BY <1>4, MonthsFollow
<1>6. CASE i - 1 = m
    BY <1>2, <1>5, <1>6, MonthsFollow
<1>7. CASE i - 1 > m
    BY <1>2, <1>3, <1>4, <1>5, <1>7, MonthsFollow
<1>. QED  BY <1>3, <1>6, <1>7, MonthsAre

IsMonth(m, d) == m \in WorkMonths /\ StartOf[m] < d /\ d <= EndOf(m)

\* Each day is in one month.
LEMMA MonthIsOne ==
    ASSUME NEW d \in Int, NEW m, NEW k, IsMonth(m, d), IsMonth(k, d)
    PROVE  m = k
<1>1. m \in 1 .. LastWorkMonth /\ k \in 1 .. LastWorkMonth
    BY MonthsAre DEF IsMonth
<1>2. ~(m < k) /\ ~(k < m)
    BY MonthsInOrder, MonthsFollow DEF IsMonth
<1>. QED  BY <1>1, <1>2, MonthsAre

LEMMA MonthOfDay ==
    ASSUME NEW d \in WorkDays
    PROVE  IsMonth(WorkMonthOf(d), d)
<1>1. d \in Nat /\ 1 <= d /\ d <= EndOf(LastWorkMonth)
    BY MonthsFollow, MonthsAre DEF WorkDays
<1>. DEFINE T == {m \in WorkMonths : d <= EndOf(m)}
<1>2. PICK m \in T : \A k \in T : m <= k
    <2>1. LastWorkMonth \in T
        BY <1>1, MonthsAre
    <2>. HIDE DEF T
    <2>. QED  BY <2>1, LeastNumber, MonthsAre, T \in SUBSET Nat DEF T
<1>3. StartOf[m] < d
    <2>1. CASE m = 1
        BY <1>1, <2>1, MonthsFollow
    <2>2. CASE m # 1
        <3>1. m - 1 \in 1 .. LastWorkMonth - 1 /\ m - 1 \in WorkMonths /\ m - 1 + 1 = m /\ m - 1 \notin T
            BY <1>2, <2>2, MonthsAre
        <3>. QED  BY <1>1, <3>1, MonthsFollow
    <2>. QED  BY <2>1, <2>2
<1>4. IsMonth(m, d)
    BY <1>2, <1>3 DEF IsMonth
<1>. QED  BY <1>4, Zenon DEF WorkMonthOf, IsMonth, EndOf

-----------------------------------------------------------------------------
(* WorkTemplates: no run is skipped.                                       *)

LEMMA NoMonthIsShorter ==
    ShortestMonth \in Nat /\ \A m \in WorkMonths : ShortestMonth <= DaysIn[m]
<1>. DEFINE T == {DaysIn[m] : m \in WorkMonths}
<1>1. T \in SUBSET Nat /\ T # {}
    BY MonthsAre
<1>2. \E n \in T : \A k \in T : n <= k
    <2>. HIDE DEF T
    <2>. QED  BY <1>1, LeastNumber
<1>3. \E n \in T : \A m \in WorkMonths : n <= DaysIn[m]
    BY <1>2
<1>4. ShortestMonth \in T /\ \A m \in WorkMonths : ShortestMonth <= DaysIn[m]
    BY <1>3, Zenon DEF ShortestMonth
<1>. QED  BY <1>1, <1>4

LEMMA QuotientsAgree ==
    ASSUME NEW w \in Nat \ {0}, NEW p \in Int, NEW q \in Int, NEW r \in 0 .. w - 1,
           NEW s \in 0 .. w - 1, p * w + r = q * w + s
    PROVE  ~(p > q)
<1>1. SUFFICES ASSUME p > q PROVE FALSE
    OBVIOUS
<1>. DEFINE k == p - q - 1
<1>2. k \in Nat /\ p = q + 1 + k
    BY <1>1
<1>3. p * w = q * w + w + k * w
    BY <1>2
<1>4. k * w >= 0
    BY <1>2
<1>5. p * w \in Int /\ q * w \in Int /\ k * w \in Int
    BY <1>2
<1>. HIDE DEF k
<1>. QED  BY <1>3, <1>4, <1>5

LEMMA RemainderIs ==
    ASSUME NEW w \in Nat \ {0}, NEW q \in Int, NEW r \in 0 .. w - 1
    PROVE  (q * w + r) % w = r
<1>. DEFINE x == q * w + r
            p == x \div w
            s == x % w
<1>1. x \in Int
    OBVIOUS
<1>. HIDE DEF x
<1>2. p \in Int /\ s \in 0 .. w - 1 /\ x = p * w + s
    BY <1>1
<1>. HIDE DEF p, s
<1>3. p * w + s = q * w + r
    BY <1>2 DEF x
<1>4. p = q
    BY <1>2, <1>3, QuotientsAgree
<1>5. p * w = q * w /\ q * w \in Int
    BY <1>4
<1>6. s = r
    BY <1>2, <1>3, <1>5
<1>. QED  BY <1>6 DEF s, x

LEMMA AWeekLater ==
    ASSUME NEW told \in Int, NEW d \in Int, (d - told) % Week = 0
    PROVE  /\ (d + Week - told) % Week = 0
           /\ \A e \in d .. d + Week - 1 : (e - told) % Week = 0 => e = d
<1>1. Week \in Nat \ {0}
    BY WeekAssumption
<1>2. PICK q \in Int : d - told = q * Week
    BY <1>1
<1>3. d + Week - told = (q + 1) * Week + 0 /\ q + 1 \in Int
    BY <1>1, <1>2
<1>4. (d + Week - told) % Week = 0
    BY <1>1, <1>3, RemainderIs, 0 \in 0 .. Week - 1
<1>5. ASSUME NEW e \in d .. d + Week - 1, (e - told) % Week = 0 PROVE e = d
    <2>1. e - told = q * Week + (e - d) /\ e - d \in 0 .. Week - 1
        BY <1>1, <1>2
    <2>2. (e - told) % Week = e - d
        BY <1>1, <2>1, RemainderIs
    <2>. QED  BY <1>5, <2>1, <2>2
<1>. QED  BY <1>4, <1>5

OnGrid(f, told, d) ==
    /\ f = "WEEKLY" => (d - told) % Week = 0
    /\ f = "MONTHLY" => d - StartOf[WorkMonthOf(d)] <= ShortestMonth

\* What NoRunIsSkipped says of a template told to run on a date, up to d.
Served(o, f, told, d) ==
    /\ f = "DAILY" => \A e \in told .. d - 1 : e \in o
    /\ f = "WEEKLY" => \A e \in told .. d - 1 : (e - told) % Week = 0 => e \in o
    /\ f = "MONTHLY" =>
        \A m \in WorkMonthOf(told) .. WorkMonthOf(d) - 1 : \E e \in o : WorkMonthOf(e) = m

\* An order more, and the next date.
LEMMA ServedOn ==
    ASSUME NEW f \in Frequencies, NEW told \in WorkDays, NEW d \in WorkDays, NEW o,
           d <= StartOf[LastWorkMonth], OnGrid(f, told, d), Served(o, f, told, d)
    PROVE  /\ NextRun(d, f) \in WorkDays
           /\ OnGrid(f, told, NextRun(d, f))
           /\ Served(o \cup {d}, f, told, NextRun(d, f))
<1>1. /\ f \in {"DAILY", "WEEKLY", "MONTHLY"} /\ told \in Int /\ d \in Int /\ 1 <= d
      /\ StartOf[LastWorkMonth] + DaysIn[LastWorkMonth] = LastWorkDay /\ StartOf[LastWorkMonth] \in Nat
      /\ Week \in Nat /\ 1 <= Week /\ DaysIn[LastWorkMonth] \in Nat /\ Week <= DaysIn[LastWorkMonth]
    BY FrequenciesAssumption, MonthsFollow, MonthsAre, WeekAssumption DEF WorkDays, EndOf
<1>2. CASE f = "DAILY"
    BY <1>1, <1>2 DEF NextRun, OnGrid, Served, WorkDays
<1>3. CASE f = "WEEKLY"
    <2>1. NextRun(d, f) = d + Week
        BY <1>3 DEF NextRun
    <2>2. d + Week \in WorkDays
        BY <1>1 DEF WorkDays
    <2>3. /\ (d - told) % Week = 0
          /\ \A e \in told .. d - 1 : (e - told) % Week = 0 => e \in o
        BY <1>3 DEF OnGrid, Served
    <2>. DEFINE all == o \cup {d}
                next == d + Week
    <2>4. ASSUME NEW e \in told .. next - 1, (e - told) % Week = 0 PROVE e \in all
        <3>1. CASE e < d
            BY <1>1, <2>3, <2>4, <3>1
        <3>2. CASE e >= d
            BY <1>1, <2>3, <2>4, <3>2, AWeekLater
        <3>. QED  BY <1>1, <3>1, <3>2
    <2>5. OnGrid(f, told, d + Week)
        BY <1>1, <1>3, <2>3, AWeekLater DEF OnGrid
    <2>6. Served(all, f, told, next)
        <3>1. \A e \in told .. next - 1 : (e - told) % Week = 0 => e \in all
            <4>. HIDE DEF all, next
            <4>. QED  BY <2>4
        <3>2. f # "DAILY" /\ f # "MONTHLY"
            BY <1>3
        <3>. HIDE DEF all, next
        <3>. QED  BY <3>1, <3>2 DEF Served
    <2>. QED  BY <2>1, <2>2, <2>5, <2>6
<1>4. CASE f = "MONTHLY"
    <2>. DEFINE m == WorkMonthOf(d)
                day == d - StartOf[m]
                next == StartOf[m + 1] + day
    <2>1. IsMonth(m, d) /\ day <= ShortestMonth
        BY <1>4, MonthOfDay DEF OnGrid
    <2>. HIDE DEF m
    <2>2. NextRun(d, f) = next
        BY <1>4 DEF NextRun, m
    <2>3. m \in 1 .. LastWorkMonth - 1
        <3>1. m \in 1 .. LastWorkMonth
            BY <2>1, MonthsAre DEF IsMonth
        <3>2. m # LastWorkMonth
            BY <1>1, <2>1 DEF IsMonth
        <3>. QED  BY <3>1, <3>2, MonthsAre
    <2>4. /\ m + 1 \in WorkMonths /\ StartOf[m + 1] \in Nat /\ StartOf[m] \in Nat
          /\ day \in Nat /\ 1 <= day /\ day <= DaysIn[m + 1] /\ DaysIn[m + 1] \in Nat
        <3>1. m + 1 \in WorkMonths /\ m \in WorkMonths
            BY <2>3, MonthsAre
        <3>2. StartOf[m + 1] \in Nat /\ StartOf[m] \in Nat /\ DaysIn[m + 1] \in Nat
            BY <3>1, MonthsFollow, MonthsAre
        <3>3. ShortestMonth \in Nat /\ ShortestMonth <= DaysIn[m + 1]
            BY <3>1, NoMonthIsShorter
        <3>4. StartOf[m] < d
            BY <2>1 DEF IsMonth
        <3>. QED  BY <1>1, <2>1, <3>1, <3>2, <3>3, <3>4
    <2>5. IsMonth(m + 1, next)
        BY <2>4 DEF IsMonth, EndOf
    <2>6. next \in WorkDays
        <3>1. EndOf(m + 1) <= EndOf(LastWorkMonth)
            <4>1. CASE m + 1 = LastWorkMonth
                BY <4>1, MonthsAre, MonthsFollow
            <4>2. CASE m + 1 < LastWorkMonth
                BY <2>4, <4>2, MonthsAre, MonthsFollow, MonthsInOrder
            <4>. QED  BY <2>3, <4>1, <4>2, MonthsAre
        <3>2. EndOf(m + 1) \in Nat /\ EndOf(LastWorkMonth) \in Nat
            BY <2>4, MonthsAre, MonthsFollow
        <3>. QED  BY <2>4, <2>5, <3>1, <3>2, MonthsFollow DEF IsMonth, WorkDays
    <2>7. WorkMonthOf(next) = m + 1
        BY <2>4, <2>5, <2>6, MonthOfDay, MonthIsOne
    <2>8. OnGrid(f, told, next)
        BY <1>4, <2>1, <2>4, <2>7 DEF OnGrid
    <2>9. WorkMonthOf(told) \in Int
        BY MonthOfDay, MonthsAre DEF IsMonth
    <2>10. ASSUME NEW k \in WorkMonthOf(told) .. m
          PROVE  \E e \in o \cup {d} : WorkMonthOf(e) = k
        <3>1. CASE k = m
            BY <3>1 DEF m
        <3>2. CASE k # m
            <4>1. k \in WorkMonthOf(told) .. m - 1
                BY <2>3, <2>9, <3>2, MonthsAre
            <4>. QED  BY <1>4, <4>1 DEF Served, m
        <3>. QED  BY <3>1, <3>2
    <2>11. Served(o \cup {d}, f, told, next)
        <3>1. \A k \in WorkMonthOf(told) .. WorkMonthOf(next) - 1 :
                    \E e \in o \cup {d} : WorkMonthOf(e) = k
            <4>1. WorkMonthOf(next) - 1 = m
                BY <2>3, <2>7
            <4>. QED  BY <2>10, <4>1, Zenon
        <3>. HIDE DEF next
        <3>. QED  BY <1>4, <3>1 DEF Served
    <2>. QED  BY <2>2, <2>6, <2>8, <2>11
<1>. QED  BY <1>1, <1>2, <1>3, <1>4

LEMMA ServedMore ==
    ASSUME NEW o, NEW more, o \subseteq more, NEW f, NEW told, NEW d, Served(o, f, told, d)
    PROVE  Served(more, f, told, d)
BY DEF Served

\* A date just told.
LEMMA ServedAtFirst ==
    ASSUME NEW f, NEW d \in WorkDays, NEW o, d - StartOf[WorkMonthOf(d)] <= ShortestMonth \/ f # "MONTHLY"
    PROVE  OnGrid(f, d, d) /\ Served(o, f, d, d)
<1>1. d \in Int /\ d - d = 0 /\ d .. d - 1 = {}
    BY MonthsFollow, MonthsAre DEF WorkDays
<1>2. 0 % Week = 0
    BY WeekAssumption
<1>3. WorkMonthOf(d) .. WorkMonthOf(d) - 1 = {}
    BY MonthOfDay, MonthsAre DEF IsMonth
<1>. QED  BY <1>1, <1>2, <1>3 DEF OnGrid, Served

TemplateRows == [active : BOOLEAN, frequency : Frequencies, next : WorkDays, told : WorkDays]
Picking == [phase : {"template"}, now : Nat, todo : SUBSET Templates,
            read : [Templates -> TemplateRows]]
Dating == [phase : {"dates"}, now : Nat, todo : SUBSET Templates,
           read : [Templates -> TemplateRows], t : Templates, at : WorkDays]

RowServed(o, row, d) ==
    OnGrid(row.frequency, row.told, d) /\ Served(o, row.frequency, row.told, d)

\* A run has read what the templates it did not come to yet still are, and
\* has served the one it is at up to its date.
RunHolds(r, held) ==
    r # NotRunning =>
        /\ r.now <= today
        /\ \A u \in r.todo : r.read[u].frequency = held[u].frequency /\ r.read[u].next = held[u].next
        /\ r.phase = "dates" =>
            /\ r.t \notin r.todo
            /\ r.read[r.t].frequency = held[r.t].frequency
            /\ RowServed(orders[r.t], held[r.t], r.at)

TemplateInv ==
    /\ today \in Nat /\ 1 <= today /\ today <= StartOf[LastWorkMonth]
    /\ template \in [Templates -> TemplateRows]
    /\ orders \in [Templates -> SUBSET WorkDays]
    /\ run \in {NotRunning} \cup Picking \cup Dating
    /\ \A t \in Templates : RowServed(orders[t], template[t], template[t].next)
    /\ RunHolds(run, template)

LEMMA TemplatesBegin == RunsAreApart /\ TemplateInit => TemplateInv
<1>. SUFFICES ASSUME RunsAreApart, TemplateInit PROVE TemplateInv
    OBVIOUS
<1>1. today \in Nat /\ 1 <= today /\ today <= StartOf[LastWorkMonth]
    <2>1. StartOf[LastWorkMonth] >= 1 /\ StartOf[LastWorkMonth] \in Nat
        BY MonthsAre, MonthsFollow, 1 \in WorkMonths, MonthsInOrder
    <2>. QED  BY <2>1 DEF TemplateInit
<1>2. ASSUME NEW t \in Templates
      PROVE  /\ template[t] \in TemplateRows
             /\ RowServed(orders[t], template[t], template[t].next)
    <2>. DEFINE f == template[t].frequency
                d == template[t].next
    <2>1. template[t] \in [active : {TRUE}, frequency : Frequencies, next : FirstDays, told : FirstDays]
        BY DEF TemplateInit
    <2>2. MayBeTold(f, d) /\ d \in WorkDays
        BY <2>1, FirstDaysAssumption DEF TemplateInit
    <2>3. OnGrid(f, d, d) /\ Served(orders[t], f, d, d)
        BY <2>2, ServedAtFirst DEF MayBeTold, RunsAreApart
    <2>. QED  BY <2>1, <2>2, <2>3, FirstDaysAssumption DEF TemplateInit, TemplateRows, RowServed
<1>3. template \in [Templates -> TemplateRows]
    BY <1>2 DEF TemplateInit
<1>. QED  BY <1>1, <1>2, <1>3 DEF TemplateInit, TemplateInv, RunHolds

LEMMA TemplatesGoOn ==
    RunsAreApart => (TemplateInv /\ [TemplateNext]_templateVars => TemplateInv')
<1>. SUFFICES ASSUME RunsAreApart, TemplateInv, [TemplateNext]_templateVars PROVE TemplateInv'
    OBVIOUS
<1>1. CASE UNCHANGED templateVars
    BY <1>1 DEF templateVars, TemplateInv, RunHolds
<1>2. CASE NewDay
    <2>1. today < StartOf[LastWorkMonth] /\ today' = today + 1 /\ UNCHANGED <<template, orders, run>>
        BY <1>2, MonthsAre DEF NewDay
    <2>2. StartOf[LastWorkMonth] \in Nat
        BY MonthsAre, MonthsFollow
    <2>3. RunHolds(run, template)'
        <3>1. run = NotRunning \/ run.now \in Nat
            BY DEF TemplateInv, Picking, Dating
        <3>. QED  BY <2>1, <3>1 DEF TemplateInv, RunHolds
    <2>. QED  BY <2>1, <2>2, <2>3 DEF TemplateInv
\* An edit: told anew, the date counts from now on; switched on or off, the
\* row is served as before.
<1>3. ASSUME NEW t \in Templates, NEW row \in TemplateRows, Edit(t, row),
             RowServed(orders[t], row, row.next),
             run # NotRunning => row = [template[t] EXCEPT !.active = ~@]
      PROVE  TemplateInv'
    <2>1. /\ template' = [template EXCEPT ![t] = row] /\ UNCHANGED <<today, orders, run>>
        BY <1>3 DEF Edit
    <2>2. /\ template' \in [Templates -> TemplateRows] /\ template'[t] = row
          /\ \A u \in Templates \ {t} : template'[u] = template[u]
        BY <2>1 DEF TemplateInv
    <2>3. \A u \in Templates : RowServed(orders'[u], template'[u], template'[u].next)
        BY <1>3, <2>1, <2>2 DEF TemplateInv
    <2>4. run = NotRunning \/ run \in Picking \cup Dating
        BY DEF TemplateInv
    <2>5. CASE run # NotRunning
        <3>1. row.frequency = template[t].frequency /\ row.next = template[t].next /\ row.told = template[t].told
            BY <1>3, <2>5 DEF TemplateInv, TemplateRows
        <3>2. \A u \in Templates : /\ template'[u].frequency = template[u].frequency
                                   /\ template'[u].next = template[u].next
                                   /\ template'[u].told = template[u].told
            BY <2>2, <3>1
        <3>3. run.todo \subseteq Templates /\ (run.phase = "dates" => run.t \in Templates)
            BY <2>4, <2>5 DEF Picking, Dating
        <3>4. RunHolds(run, template)'
            BY <2>1, <3>2, <3>3 DEF TemplateInv, RunHolds, RowServed
        <3>. QED  BY <2>1, <2>2, <2>3, <3>4 DEF TemplateInv
    <2>6. CASE run = NotRunning
        BY <2>1, <2>2, <2>3, <2>6 DEF TemplateInv, RunHolds
    <2>. QED  BY <2>5, <2>6
<1>4. ASSUME NEW t \in Templates, NEW f \in Frequencies, NEW d \in FirstDays \cup {template[t].next},
             UpdateTemplate(t, f, d)
      PROVE  TemplateInv'
    <2>. DEFINE row == Told(template[t].active, f, d)
    <2>1. template[t] \in TemplateRows
        BY DEF TemplateInv
    <2>2. d \in WorkDays /\ run = NotRunning /\ MayBeTold(f, d) /\ Edit(t, row)
        BY <1>4, <2>1, FirstDaysAssumption DEF UpdateTemplate, RunsAreApart, TemplateRows
    <2>3. row \in TemplateRows /\ row.frequency = f /\ row.told = d /\ row.next = d
        BY <2>1, <2>2 DEF Told, TemplateRows
    <2>4. RowServed(orders[t], row, row.next)
        BY <2>2, <2>3, ServedAtFirst DEF MayBeTold, RunsAreApart, RowServed
    <2>. HIDE DEF row
    <2>. QED  BY <1>3, <2>2, <2>3, <2>4
<1>5. ASSUME NEW t \in Templates, ToggleTemplate(t) PROVE TemplateInv'
    <2>. DEFINE row == [template[t] EXCEPT !.active = ~@]
    <2>1. template[t] \in TemplateRows /\ RowServed(orders[t], template[t], template[t].next)
        BY DEF TemplateInv
    <2>2. /\ row \in TemplateRows /\ row.frequency = template[t].frequency
          /\ row.told = template[t].told /\ row.next = template[t].next
        BY <2>1 DEF TemplateRows
    <2>3. Edit(t, row)
        BY <1>5 DEF ToggleTemplate
    <2>4. RowServed(orders[t], row, row.next)
        BY <2>1, <2>2 DEF RowServed
    <2>5. row = [template[t] EXCEPT !.active = ~@]
        OBVIOUS
    <2>. HIDE DEF row
    <2>. QED  BY <1>3, <2>2, <2>3, <2>4, <2>5
<1>6. CASE StartRun
    <2>1. /\ run' = [phase |-> "template", now |-> today,
                     todo |-> {t \in Templates : template[t].active /\ template[t].next <= today},
                     read |-> template]
          /\ UNCHANGED <<today, template, orders>>
        BY <1>6 DEF StartRun
    <2>2. run' \in Picking
        BY <2>1 DEF TemplateInv, Picking
    <2>3. RunHolds(run', template)
        BY <2>1 DEF TemplateInv, RunHolds
    <2>. QED  BY <2>1, <2>2, <2>3 DEF TemplateInv, RunHolds
<1>7. ASSUME NEW t \in Templates, PickTemplate(t) PROVE TemplateInv'
    <2>1. /\ run.phase = "template" /\ t \in run.todo /\ UNCHANGED <<today, template, orders>>
          /\ run' = [phase |-> "dates", now |-> run.now, todo |-> run.todo \ {t}, read |-> run.read,
                     t |-> t, at |-> run.read[t].next]
        BY <1>7 DEF PickTemplate
    <2>2. run \in Picking /\ run # NotRunning
        BY <2>1 DEF TemplateInv, NotRunning, Dating
    <2>3. run.read[t] \in TemplateRows /\ template[t] \in TemplateRows
        BY <2>2 DEF Picking, TemplateInv
    <2>4. run' \in Dating
        BY <2>1, <2>2, <2>3 DEF Picking, Dating, TemplateRows
    <2>5. run.read[t].frequency = template[t].frequency /\ run.read[t].next = template[t].next
        BY <2>1, <2>2 DEF TemplateInv, RunHolds
    <2>6. RunHolds(run', template)
        BY <2>1, <2>2, <2>5 DEF TemplateInv, RunHolds
    <2>. QED  BY <2>1, <2>4, <2>6 DEF TemplateInv, RunHolds
<1>8. CASE MakeOrder
    <2>. DEFINE t == run.t
                at == run.at
                f == template[t].frequency
                told == template[t].told
                next == NextRun(at, f)
    <2>1. /\ run.phase = "dates" /\ at <= run.now /\ UNCHANGED <<today, template>>
          /\ orders' = [orders EXCEPT ![t] = @ \cup {at}]
          /\ run' = [run EXCEPT !.at = NextRun(@, run.read[t].frequency)]
        BY <1>8 DEF MakeOrder
    <2>2. run \in Dating /\ run # NotRunning
        BY <2>1 DEF TemplateInv, NotRunning, Picking
    <2>3. /\ t \in Templates /\ at \in WorkDays /\ f \in Frequencies /\ told \in WorkDays
          /\ run.now \in Nat /\ run.now <= today
          /\ run.read[t].frequency = f /\ t \notin run.todo
          /\ OnGrid(f, told, at) /\ Served(orders[t], f, told, at)
        BY <2>1, <2>2 DEF TemplateInv, RunHolds, RowServed, Dating, TemplateRows
    <2>4. at <= StartOf[LastWorkMonth]
        BY <2>1, <2>3, MonthsAre, MonthsFollow DEF TemplateInv, WorkDays
    <2>5. next \in WorkDays /\ OnGrid(f, told, next) /\ Served(orders[t] \cup {at}, f, told, next)
        BY <2>3, <2>4, ServedOn
    <2>6. run' = [run EXCEPT !.at = next]
        BY <2>1, <2>3
    <2>. HIDE DEF next
    <2>7. run' \in Dating /\ run'.at = next /\ run' = [run EXCEPT !.at = next]
        BY <2>2, <2>5, <2>6 DEF Dating
    <2>8. /\ run'.phase = run.phase /\ run'.now = run.now /\ run'.todo = run.todo
          /\ run'.read = run.read /\ run'.t = t
        BY <2>2, <2>6 DEF Dating
    <2>9. /\ orders' \in [Templates -> SUBSET WorkDays] /\ orders'[t] = orders[t] \cup {at}
          /\ \A u \in Templates \ {t} : orders'[u] = orders[u]
        BY <2>1, <2>3 DEF TemplateInv
    <2>10. ASSUME NEW u \in Templates PROVE RowServed(orders'[u], template[u], template[u].next)
        <3>1. orders[u] \subseteq orders'[u]
            BY <2>9
        <3>. QED  BY <3>1, ServedMore DEF TemplateInv, RowServed
    <2>11. RowServed(orders'[t], template[t], run'.at)
        BY <2>5, <2>7, <2>9 DEF RowServed
    <2>12. RunHolds(run, template)'
        BY <2>1, <2>2, <2>3, <2>7, <2>8, <2>11 DEF TemplateInv, RunHolds
    <2>. QED  BY <2>1, <2>7, <2>9, <2>10, <2>12 DEF TemplateInv
<1>9. CASE MoveNext
    <2>. DEFINE t == run.t
    <2>1. /\ run.phase = "dates" /\ UNCHANGED <<today, orders>>
          /\ template' = [template EXCEPT ![t].next = run.at]
          /\ run' = [phase |-> "template", now |-> run.now, todo |-> run.todo, read |-> run.read]
        BY <1>9 DEF MoveNext, Moved, NextTemplate
    <2>2. run \in Dating /\ run # NotRunning
        BY <2>1 DEF TemplateInv, NotRunning, Picking
    <2>3. /\ t \in Templates /\ run.at \in WorkDays /\ template[t] \in TemplateRows
          /\ t \notin run.todo /\ run.todo \subseteq Templates /\ run.now <= today
          /\ RowServed(orders[t], template[t], run.at)
        BY <2>1, <2>2 DEF TemplateInv, RunHolds, Dating
    <2>. DEFINE row == [template[t] EXCEPT !.next = run.at]
    <2>4. /\ row \in TemplateRows /\ row.frequency = template[t].frequency
          /\ row.told = template[t].told /\ row.next = run.at
        BY <2>3 DEF TemplateRows
    <2>5. template' = [template EXCEPT ![t] = row]
        BY <2>1, <2>3 DEF TemplateInv
    <2>. HIDE DEF row
    <2>6. /\ template' \in [Templates -> TemplateRows] /\ template'[t] = row
          /\ \A u \in Templates \ {t} : template'[u] = template[u]
        BY <2>3, <2>4, <2>5 DEF TemplateInv
    <2>7. \A u \in Templates : RowServed(orders'[u], template'[u], template'[u].next)
        BY <2>1, <2>3, <2>4, <2>6 DEF TemplateInv, RowServed
    <2>8. run' \in Picking
        BY <2>1, <2>2 DEF Picking, Dating
    <2>9. RunHolds(run, template)'
        BY <2>1, <2>2, <2>3, <2>6 DEF TemplateInv, RunHolds
    <2>. QED  BY <2>1, <2>6, <2>7, <2>8, <2>9 DEF TemplateInv
<1>10. CASE EndRun
    BY <1>10 DEF EndRun, TemplateInv, RunHolds
<1>. QED  BY <1>1, <1>2, <1>4, <1>5, <1>6, <1>7, <1>8, <1>9, <1>10 DEF TemplateNext

LEMMA TemplatesServed == TemplateInv => NoRunIsSkipped
<1>. SUFFICES ASSUME TemplateInv, NEW t \in Templates
              PROVE  LET row == template[t]
                         has(d) == d \in orders[t]
                     IN  CASE row.frequency = "DAILY"  -> \A d \in row.told .. row.next - 1 : has(d)
                           [] row.frequency = "WEEKLY" ->
                                 \A d \in row.told .. row.next - 1 : (d - row.told) % Week = 0 => has(d)
                           [] OTHER ->
                                 \A m \in WorkMonthOf(row.told) .. WorkMonthOf(row.next) - 1 :
                                     \E d \in orders[t] : WorkMonthOf(d) = m
    BY Zenon DEF NoRunIsSkipped
<1>1. template[t].frequency \in {"DAILY", "WEEKLY", "MONTHLY"}
    BY FrequenciesAssumption DEF TemplateInv, TemplateRows
<1>2. Served(orders[t], template[t].frequency, template[t].told, template[t].next)
    BY DEF TemplateInv, RowServed
<1>3. CASE template[t].frequency = "DAILY"
    BY <1>2, <1>3 DEF Served
<1>4. CASE template[t].frequency = "WEEKLY"
    BY <1>2, <1>4 DEF Served
<1>5. CASE template[t].frequency = "MONTHLY"
    BY <1>2, <1>5 DEF Served
<1>. QED  BY <1>1, <1>3, <1>4, <1>5

\* No run of a template is skipped: every date of its frequency from the one
\* it was told to the next one, for a monthly template every month, has its
\* order, whatever day runDueTemplates() stopped on and wherever it did, when
\* no template is told anew while it runs and no monthly one is told to run
\* on a day that some month does not have.
THEOREM EveryRunHasItsOrder ==
    ASSUME RunsAreApart
    PROVE  TemplateSpec => []NoRunIsSkipped
<1>1. TemplateInit => TemplateInv
    BY TemplatesBegin
<1>2. TemplateInv /\ [TemplateNext]_templateVars => TemplateInv'
    BY TemplatesGoOn
<1>3. TemplateInv => NoRunIsSkipped
    BY TemplatesServed
<1>. QED  BY <1>1, <1>2, <1>3, PTL DEF TemplateSpec

-----------------------------------------------------------------------------
(* BillingPeriods: the calendar a lease is cut by.                         *)

FinalMonth == Len(MonthLengths)

LEMMA CalendarIs ==
    /\ FinalMonth \in Nat /\ FinalMonth >= 1 /\ Calendar = 1 .. FinalMonth /\ IsFiniteSet(Calendar)
    /\ \A m \in Calendar : MonthLengths[m] \in Nat /\ MonthLengths[m] >= 1
<1>1. FinalMonth \in Nat /\ FinalMonth >= 1 /\ Calendar = 1 .. FinalMonth
    BY CalendarAssumption DEF FinalMonth, Calendar
<1>2. \A m \in Calendar : MonthLengths[m] \in Nat /\ MonthLengths[m] >= 1
    BY <1>1, CalendarAssumption DEF FinalMonth
<1>. QED  BY <1>1, <1>2, FS_Interval

UpTo(m) == {n \in Calendar : n <= m}

LEMMA LastDayIsSum == ASSUME NEW m PROVE LastDay(m) = SumOf(MonthLengths, UpTo(m))
BY DEF LastDay, SumOf, UpTo

LEMMA LastDayIsNat == ASSUME NEW m PROVE LastDay(m) \in Nat
<1>1. IsFiniteSet(UpTo(m)) /\ \A x \in UpTo(m) : MonthLengths[x] \in Nat
    BY CalendarIs, FS_Subset, UpTo(m) \subseteq Calendar DEF UpTo
<1>. QED  BY <1>1, LastDayIsSum, SumIsNat

LEMMA DaysAddUp ==
    /\ LastDay(0) = 0
    /\ \A m \in Calendar : LastDay(m) = LastDay(m - 1) + MonthLengths[m]
    /\ \A m \in Nat : m >= FinalMonth => LastDay(m) = LastDay(FinalMonth)
<1>1. LastDay(0) = 0
    <2>1. UpTo(0) = {}
        BY CalendarIs DEF UpTo
    <2>. QED  BY <2>1, LastDayIsSum, SumUnfolds, FS_EmptySet
<1>2. ASSUME NEW m \in Calendar PROVE LastDay(m) = LastDay(m - 1) + MonthLengths[m]
    <2>1. UpTo(m - 1) = UpTo(m) \ {m} /\ m \in UpTo(m)
        BY CalendarIs DEF UpTo
    <2>2. IsFiniteSet(UpTo(m)) /\ \A x \in UpTo(m) : MonthLengths[x] \in Int
        BY CalendarIs, FS_Subset, UpTo(m) \subseteq Calendar DEF UpTo
    <2>3. SumOf(MonthLengths, UpTo(m)) = MonthLengths[m] + SumOf(MonthLengths, UpTo(m) \ {m})
        BY <2>1, <2>2, SumPicks
    <2>4. LastDay(m) = MonthLengths[m] + LastDay(m - 1)
        BY <2>1, <2>3, LastDayIsSum
    <2>. QED  BY <2>4, LastDayIsNat, CalendarIs
<1>3. ASSUME NEW m \in Nat, m >= FinalMonth PROVE LastDay(m) = LastDay(FinalMonth)
    <2>1. UpTo(m) = UpTo(FinalMonth)
        BY <1>3, CalendarIs DEF UpTo
    <2>. QED  BY <2>1, LastDayIsSum
<1>. QED  BY <1>1, <1>2, <1>3

LEMMA MonthBounds ==
    ASSUME NEW m \in Calendar
    PROVE  /\ FirstDay(m) = LastDay(m - 1) + 1 /\ FirstDay(m) <= LastDay(m)
           /\ FirstDay(m) \in Nat /\ LastDay(m) \in Nat /\ LastDay(m - 1) \in Nat
BY CalendarIs, DaysAddUp, LastDayIsNat DEF FirstDay

LEMMA LaterMonths ==
    ASSUME NEW m \in Nat, NEW k \in Nat, m <= k
    PROVE  LastDay(m) <= LastDay(k)
<1>1. IsFiniteSet(UpTo(k)) /\ (\A x \in UpTo(k) : MonthLengths[x] \in Nat) /\ UpTo(m) \subseteq UpTo(k)
    BY CalendarIs, FS_Subset, UpTo(k) \subseteq Calendar DEF UpTo
<1>. QED  BY <1>1, LastDayIsSum, SumOfPart

InMonth(m, d) == m \in Calendar /\ d \in FirstDay(m) .. LastDay(m)

LEMMA OneMonth ==
    ASSUME NEW d \in Int, NEW m, NEW k, InMonth(m, d), InMonth(k, d)
    PROVE  m = k
<1>1. m \in Nat /\ k \in Nat /\ m >= 1 /\ k >= 1 /\ m \in Calendar /\ k \in Calendar
    BY CalendarIs DEF InMonth
<1>2. ASSUME m < k PROVE FALSE
    <2>1. LastDay(m) <= LastDay(k - 1)
        BY <1>1, <1>2, LaterMonths
    <2>. QED  BY <1>1, <2>1, MonthBounds DEF InMonth
<1>3. ASSUME k < m PROVE FALSE
    <2>1. LastDay(k) <= LastDay(m - 1)
        BY <1>1, <1>3, LaterMonths
    <2>. QED  BY <1>1, <2>1, MonthBounds DEF InMonth
<1>. QED  BY <1>1, <1>2, <1>3

LEMMA MonthOfIs ==
    ASSUME NEW d \in Days
    PROVE  InMonth(MonthOf(d), d) /\ MonthOf(d) \in Nat /\ d \in Nat /\ d <= LastDay(FinalMonth)
<1>1. d \in Nat /\ 1 <= d /\ d <= LastDay(FinalMonth)
    BY LastDayIsNat DEF Days, FinalMonth
<1>. DEFINE T == {m \in Calendar : d <= LastDay(m)}
<1>2. PICK m \in T : \A k \in T : m <= k
    <2>1. FinalMonth \in T
        BY <1>1, CalendarIs
    <2>2. T \in SUBSET Nat
        BY CalendarIs
    <2>. HIDE DEF T
    <2>. QED  BY <2>1, <2>2, LeastNumber
<1>3. LastDay(m - 1) < d
    <2>1. CASE m = 1
        BY <1>1, <2>1, DaysAddUp
    <2>2. CASE m # 1
        <3>1. m - 1 \in Calendar /\ m - 1 \notin T
            BY <1>2, <2>2, CalendarIs
        <3>. QED  BY <1>1, <3>1, LastDayIsNat
    <2>. QED  BY <2>1, <2>2
<1>4. InMonth(m, d)
    BY <1>1, <1>2, <1>3, MonthBounds DEF InMonth
<1>5. MonthOf(d) = CHOOSE n : InMonth(n, d)
    BY Zenon DEF MonthOf, InMonth
<1>. QED  BY <1>1, <1>4, <1>5, CalendarIs DEF InMonth

-----------------------------------------------------------------------------
(* BillingPeriods: the periods charge the lease.                           *)

FromMonth == MonthOf(lease.first)

\* The months of the lease from a to b.
Spanned(a, b) == {m \in a .. b : m \in Calendar /\ FirstDay(m) <= lease.last}

Cuts == [from : Days, to : Days, cam : SUBSET (Calendar \X Nat), rent : SUBSET (Calendar \X Nat \X Nat)]

LeaseHolds ==
    /\ lease.first \in Days /\ lease.last \in Days /\ lease.first <= lease.last
    /\ lease.cycle \in Nat \ {0} /\ lease.free \in Nat

\* Up to its cursor the loop has charged the months of the lease, and the
\* last period ends where the month before the cursor or the lease does.
PeriodsInv ==
    /\ LeaseHolds
    /\ cursor \in Nat /\ FromMonth <= cursor
    /\ cut \in Seq(Cuts)
    /\ cut = << >> => cursor = FromMonth
    /\ cut # << >> =>
        /\ FromMonth < cursor
        /\ cut[1].from = lease.first
        /\ cut[Len(cut)].to = Earlier(LastDay(cursor - 1), lease.last)
    /\ \A n \in DOMAIN cut :
        /\ cut[n].from <= cut[n].to
        /\ n > 1 => cut[n].from = cut[n - 1].to + 1
    /\ \A i, j \in DOMAIN cut : i # j => cut[i].cam \cap cut[j].cam = {}
    /\ UNION {cut[n].cam : n \in DOMAIN cut} = Cam(Spanned(FromMonth, cursor - 1))
    /\ UNION {cut[n].rent : n \in DOMAIN cut} = Rent(Spanned(FromMonth, cursor - 1))

LEMMA BeginIs ==
    ASSUME LeaseHolds
    PROVE  /\ InMonth(FromMonth, lease.first) /\ FromMonth \in Nat /\ FromMonth >= 1
           /\ FirstDay(FromMonth) <= lease.first /\ lease.first <= LastDay(FromMonth)
           /\ lease.first \in Nat /\ lease.last \in Nat /\ lease.last <= LastDay(FinalMonth)
           /\ 1 <= lease.first
<1>1. InMonth(FromMonth, lease.first) /\ FromMonth \in Nat
    BY MonthOfIs DEF LeaseHolds, FromMonth
<1>2. FromMonth >= 1 /\ FirstDay(FromMonth) <= lease.first /\ lease.first <= LastDay(FromMonth)
    BY <1>1, CalendarIs, MonthBounds DEF InMonth
<1>. QED  BY <1>1, <1>2, MonthOfIs DEF LeaseHolds, Days

LEMMA OverlapIs ==
    ASSUME LeaseHolds, NEW b \in Nat, NEW m \in Spanned(FromMonth, b)
    PROVE  /\ m \in Calendar /\ Overlap(m) \in Nat /\ Step(m) \in Nat
           /\ Overlap(m) = Earlier(LastDay(m), lease.last) - Later(FirstDay(m), lease.first) + 1
           /\ Later(FirstDay(m), lease.first) <= Earlier(LastDay(m), lease.last)
<1>1. /\ m \in Calendar /\ FirstDay(m) <= lease.last /\ m \in Nat /\ FromMonth <= m
    BY BeginIs, CalendarIs DEF Spanned
<1>2. lease.first <= LastDay(m)
    <2>1. LastDay(FromMonth) <= LastDay(m)
        BY <1>1, BeginIs, LaterMonths
    <2>. QED  BY <2>1, BeginIs, LastDayIsNat
<1>3. /\ FirstDay(m) \in Nat /\ LastDay(m) \in Nat /\ FirstDay(m) <= LastDay(m)
      /\ lease.first \in Nat /\ lease.last \in Nat /\ lease.first <= lease.last
    BY <1>1, MonthBounds, BeginIs DEF LeaseHolds
<1>4. Step(m) \in Nat
    <2>1. m - FromMonth \in Nat /\ MonthsPerStep \in Nat \ {0}
        BY <1>1, BeginIs, StepAssumption
    <2>. QED  BY <2>1 DEF Step, FromMonth
<1>. QED  BY <1>1, <1>2, <1>3, <1>4 DEF Overlap, Earlier, Later

LEMMA ChargesAre ==
    ASSUME LeaseHolds, NEW b \in Nat, NEW S \in SUBSET Spanned(FromMonth, b)
    PROVE  /\ Cam(S) \in SUBSET (Calendar \X Nat)
           /\ Rent(S) \in SUBSET (Calendar \X Nat \X Nat)
<1>1. \A m \in S : m \in Calendar /\ Overlap(m) \in Nat /\ Step(m) \in Nat
    BY OverlapIs
<1>. QED  BY <1>1 DEF Cam, Rent

LEMMA PeriodsBegin == PeriodsInit => PeriodsInv
<1>. SUFFICES ASSUME PeriodsInit PROVE PeriodsInv
    OBVIOUS
<1>1. LeaseHolds
    <2>1. /\ lease \in [first : Days, last : Days, cycle : CycleLengths, free : 0 .. Len(MonthLengths)]
          /\ lease.first <= lease.last
        BY DEF PeriodsInit
    <2>2. lease.free \in Nat
        BY <2>1, CalendarIs DEF FinalMonth
    <2>. QED  BY <2>1, <2>2, CycleLengthsAssumption DEF LeaseHolds
<1>2. cursor = FromMonth /\ cursor \in Nat /\ cut = << >>
    BY <1>1, BeginIs DEF PeriodsInit, FromMonth
<1>3. Spanned(FromMonth, cursor - 1) = {}
    BY <1>1, <1>2, BeginIs DEF Spanned
<1>4. Cam({}) = {} /\ Rent({}) = {}
    BY DEF Cam, Rent
<1>5. DOMAIN cut = {} /\ cut \in Seq(Cuts)
    BY <1>2
<1>6. /\ UNION {cut[n].cam : n \in DOMAIN cut} = {}
      /\ UNION {cut[n].rent : n \in DOMAIN cut} = {}
    BY <1>5
<1>7. /\ \A n \in DOMAIN cut :
            /\ cut[n].from <= cut[n].to
            /\ n > 1 => cut[n].from = cut[n - 1].to + 1
      /\ \A i, j \in DOMAIN cut : i # j => cut[i].cam \cap cut[j].cam = {}
    BY <1>5
<1>8. Cam(Spanned(FromMonth, cursor - 1)) = {} /\ Rent(Spanned(FromMonth, cursor - 1)) = {}
    BY <1>3, <1>4
<1>9. FromMonth <= cursor
    BY <1>2
<1>. QED  BY <1>1, <1>2, <1>5, <1>6, <1>7, <1>8, <1>9 DEF PeriodsInv

LEMMA PeriodIsCut ==
    ASSUME PeriodsInv, GeneratePeriod
    PROVE  PeriodsInv'
<1>. DEFINE next == cursor + lease.cycle
            Span == Spanned(cursor, next - 1)
            opens == Later(FirstDay(cursor), lease.first)
            closes == Earlier(LastDay(next - 1), lease.last)
            new == [from |-> opens, to |-> closes, cam |-> Cam(Span), rent |-> Rent(Span)]
<1>1. /\ cursor \in Calendar /\ FirstDay(cursor) <= lease.last
      /\ cut' = Append(cut, new) /\ cursor' = next /\ lease' = lease
    <2>1. cursor \in Calendar /\ FirstDay(cursor) <= lease.last /\ cursor' = next /\ lease' = lease
        BY DEF GeneratePeriod
    <2>2. cut' = Append(cut, new)
        <3>. DEFINE final == cursor + lease.cycle - 1
                    Covered == {m \in cursor .. final : m \in Calendar /\ FirstDay(m) <= lease.last}
        <3>1. final = next - 1
            BY BeginIs, <2>1, CalendarIs DEF PeriodsInv, LeaseHolds
        <3>2. cut' = Append(cut, [from |-> opens, to |-> Earlier(LastDay(final), lease.last),
                                  cam |-> Cam(Covered), rent |-> Rent(Covered)])
            BY Zenon DEF GeneratePeriod
        <3>. HIDE DEF final
        <3>3. Covered = Span /\ LastDay(final) = LastDay(next - 1)
            BY <3>1 DEF Spanned
        <3>. HIDE DEF Covered, Span, opens, next
        <3>. QED  BY <3>2, <3>3
    <2>. QED  BY <2>1, <2>2
<1>2. /\ LeaseHolds /\ cursor \in Nat /\ FromMonth \in Nat /\ FromMonth <= cursor
      /\ lease.cycle \in Nat \ {0} /\ next \in Nat /\ next - 1 \in Nat /\ cursor <= next - 1
      /\ lease.first \in Nat /\ lease.last \in Nat /\ lease.first <= lease.last
    BY BeginIs DEF PeriodsInv, LeaseHolds
<1>3. /\ FirstDay(cursor) = LastDay(cursor - 1) + 1 /\ FirstDay(cursor) \in Nat
      /\ LastDay(cursor - 1) \in Nat /\ LastDay(next - 1) \in Nat
      /\ FirstDay(cursor) <= LastDay(next - 1) /\ 1 <= FirstDay(cursor)
      /\ lease.first <= LastDay(next - 1)
    <2>1. LastDay(cursor) <= LastDay(next - 1) /\ LastDay(FromMonth) <= LastDay(cursor)
        BY <1>2, LaterMonths
    <2>. QED  BY <1>1, <1>2, <2>1, MonthBounds, BeginIs, LastDayIsNat
<1>4. opens <= closes /\ opens \in Days /\ closes \in Days
    <2>1. opens \in Nat /\ closes \in Nat /\ 1 <= opens /\ opens <= closes /\ closes <= lease.last
        BY <1>1, <1>2, <1>3, BeginIs DEF Later, Earlier
    <2>2. lease.last <= LastDay(FinalMonth) /\ LastDay(FinalMonth) \in Nat
        BY <1>2, BeginIs, LastDayIsNat
    <2>. QED  BY <1>2, <2>1, <2>2 DEF Days, FinalMonth
\* It begins where the one before ended.
<1>5. cut # << >> => opens = cut[Len(cut)].to + 1
    <2>1. SUFFICES ASSUME cut # << >> PROVE opens = cut[Len(cut)].to + 1
        OBVIOUS
    <2>2. FromMonth < cursor /\ cut[Len(cut)].to = Earlier(LastDay(cursor - 1), lease.last)
        BY <2>1 DEF PeriodsInv
    <2>3. LastDay(FromMonth) <= LastDay(cursor - 1)
        BY <1>2, <2>2, LaterMonths
    <2>4. lease.first <= LastDay(cursor - 1)
        BY <1>2, <1>3, <2>3, BeginIs, LastDayIsNat
    <2>. QED  BY <1>1, <1>2, <1>3, <2>2, <2>4 DEF Later, Earlier
<1>6. cut = << >> => opens = lease.first
    BY <1>2, <1>3, BeginIs DEF PeriodsInv, Later
<1>7. /\ Span \subseteq Spanned(FromMonth, next - 1)
      /\ Spanned(FromMonth, next - 1) = Spanned(FromMonth, cursor - 1) \cup Span
      /\ Spanned(FromMonth, cursor - 1) \cap Span = {}
    BY <1>2 DEF Spanned
<1>8. new \in Cuts
    BY <1>2, <1>4, <1>7, ChargesAre DEF Cuts
<1>9. /\ Cam(Spanned(FromMonth, next - 1)) = Cam(Spanned(FromMonth, cursor - 1)) \cup Cam(Span)
      /\ Rent(Spanned(FromMonth, next - 1)) = Rent(Spanned(FromMonth, cursor - 1)) \cup Rent(Span)
      /\ Cam(Spanned(FromMonth, cursor - 1)) \cap Cam(Span) = {}
    <2>. DEFINE A == Spanned(FromMonth, cursor - 1)
                B == Span
    <2>1. A \cap B = {} /\ Spanned(FromMonth, next - 1) = A \cup B
        BY <1>7
    <2>. HIDE DEF A, B
    <2>2. Cam(A \cup B) = Cam(A) \cup Cam(B) /\ Cam(A) \cap Cam(B) = {}
        BY <2>1 DEF Cam
    <2>3. Rent(A \cup B) = Rent(A) \cup Rent(B)
        BY DEF Rent
    <2>4. A = Spanned(FromMonth, cursor - 1) /\ B = Span
        BY DEF A, B
    <2>. HIDE DEF Span
    <2>. QED  BY <2>1, <2>2, <2>3, <2>4
<1>10. /\ new.from = opens /\ new.to = closes /\ new.cam = Cam(Span) /\ new.rent = Rent(Span)
    OBVIOUS
<1>. HIDE DEF new
<1>11. /\ cut' \in Seq(Cuts) /\ Len(cut') = Len(cut) + 1 /\ cut'[Len(cut) + 1] = new
       /\ \A n \in DOMAIN cut : cut'[n] = cut[n]
       /\ DOMAIN cut = 1 .. Len(cut) /\ DOMAIN cut' = 1 .. Len(cut) + 1 /\ Len(cut) \in Nat
       /\ cut = << >> <=> Len(cut) = 0
    BY <1>1, <1>8 DEF PeriodsInv
<1>. DEFINE last == Len(cut) + 1
<1>12. /\ FromMonth' = FromMonth /\ LeaseHolds'
       /\ Spanned(FromMonth, cursor - 1)' = Spanned(FromMonth, next - 1)
       /\ Cam(Spanned(FromMonth, cursor - 1))' = Cam(Spanned(FromMonth, next - 1))
       /\ Rent(Spanned(FromMonth, cursor - 1))' = Rent(Spanned(FromMonth, next - 1))
    BY <1>1, <1>2 DEF FromMonth, LeaseHolds, Spanned, Cam, Rent, Overlap, Step
<1>. HIDE DEF Span, opens, closes, next
<1>13. ASSUME NEW n \in DOMAIN cut'
       PROVE  cut'[n].from <= cut'[n].to /\ (n > 1 => cut'[n].from = cut'[n - 1].to + 1)
    <2>1. CASE n = last
        <3>1. cut'[n] = new /\ (n > 1 => n - 1 \in DOMAIN cut /\ cut # << >> /\ cut'[n - 1] = cut[Len(cut)])
            BY <1>11, <2>1
        <3>. QED  BY <1>4, <1>5, <1>10, <3>1
    <2>2. CASE n # last
        <3>1. n \in DOMAIN cut /\ cut'[n] = cut[n] /\ (n > 1 => cut'[n - 1] = cut[n - 1])
            BY <1>11, <2>2
        <3>. QED  BY <3>1 DEF PeriodsInv
    <2>. QED  BY <2>1, <2>2
<1>14. UNION {cut'[n].cam : n \in DOMAIN cut'} = (UNION {cut[n].cam : n \in DOMAIN cut}) \cup Cam(Span)
    BY <1>10, <1>11
<1>15. UNION {cut'[n].rent : n \in DOMAIN cut'} = (UNION {cut[n].rent : n \in DOMAIN cut}) \cup Rent(Span)
    BY <1>10, <1>11
<1>16. ASSUME NEW i \in DOMAIN cut', NEW j \in DOMAIN cut', i # j
       PROVE  cut'[i].cam \cap cut'[j].cam = {}
    <2>1. \A n \in DOMAIN cut : cut[n].cam \cap Cam(Span) = {}
        BY <1>9 DEF PeriodsInv
    <2>2. CASE i = last
        <3>1. cut'[i].cam = Cam(Span) /\ j \in DOMAIN cut /\ cut'[j] = cut[j]
            BY <1>10, <1>11, <1>16, <2>2
        <3>. QED  BY <2>1, <3>1
    <2>3. CASE j = last
        <3>1. cut'[j].cam = Cam(Span) /\ i \in DOMAIN cut /\ cut'[i] = cut[i]
            BY <1>10, <1>11, <1>16, <2>3
        <3>. QED  BY <2>1, <3>1
    <2>4. CASE i # last /\ j # last
        <3>1. i \in DOMAIN cut /\ j \in DOMAIN cut /\ cut'[i] = cut[i] /\ cut'[j] = cut[j]
            BY <1>11, <2>4
        <3>. QED  BY <1>16, <3>1 DEF PeriodsInv
    <2>. QED  BY <2>2, <2>3, <2>4
<1>17. cut'[1].from = lease.first
    <2>1. CASE cut = << >>
        BY <1>6, <1>10, <1>11, <2>1
    <2>2. CASE cut # << >>
        <3>1. 1 \in DOMAIN cut
            BY <1>11, <2>2
        <3>. QED  BY <1>11, <2>2, <3>1 DEF PeriodsInv
    <2>. QED  BY <2>1, <2>2
<1>18. cut' # << >> /\ FromMonth < cursor' /\ cursor' \in Nat
    BY <1>1, <1>2, <1>11
<1>19. cut'[Len(cut')].to = Earlier(LastDay(cursor' - 1), lease'.last)
    BY <1>1, <1>10, <1>11 DEF closes
<1>20. /\ UNION {cut'[n].cam : n \in DOMAIN cut'} = Cam(Spanned(FromMonth, cursor - 1))'
       /\ UNION {cut'[n].rent : n \in DOMAIN cut'} = Rent(Spanned(FromMonth, cursor - 1))'
    BY <1>9, <1>12, <1>14, <1>15 DEF PeriodsInv
<1>. QED  BY <1>1, <1>2, <1>11, <1>12, <1>13, <1>16, <1>17, <1>18, <1>19, <1>20 DEF PeriodsInv

\* The days the lease has in a month are an interval.
LEMMA LeaseDaysAre ==
    ASSUME LeaseHolds, NEW m \in Calendar
    PROVE  LeaseDays(m) = Later(FirstDay(m), lease.first) .. Earlier(LastDay(m), lease.last)
<1>1. /\ lease.first \in Nat /\ lease.last \in Nat /\ FirstDay(m) \in Nat /\ LastDay(m) \in Nat
      /\ lease.last <= LastDay(FinalMonth) /\ 1 <= lease.first
    BY BeginIs, MonthBounds
<1>2. ASSUME NEW d \in lease.first .. lease.last
      PROVE  MonthOf(d) = m <=> d \in FirstDay(m) .. LastDay(m)
    <2>1. d \in Days /\ d \in Int
        BY <1>1, LastDayIsNat DEF Days, FinalMonth
    <2>2. InMonth(MonthOf(d), d)
        BY <2>1, MonthOfIs
    <2>. QED  BY <2>1, <2>2, OneMonth DEF InMonth
<1>3. LeaseDays(m) = {d \in lease.first .. lease.last : d \in FirstDay(m) .. LastDay(m)}
    BY <1>2 DEF LeaseDays
<1>. QED  BY <1>1, <1>3 DEF Later, Earlier

LEMMA LeaseMonthsAre ==
    ASSUME LeaseHolds
    PROVE  LeaseMonths = Spanned(FromMonth, FinalMonth)
<1>1. ASSUME NEW m \in Calendar
      PROVE  LeaseDays(m) # {} <=> (FromMonth <= m /\ FirstDay(m) <= lease.last)
    <2>1. /\ lease.first \in Nat /\ lease.last \in Nat /\ lease.first <= lease.last
          /\ FirstDay(m) \in Nat /\ LastDay(m) \in Nat /\ FirstDay(m) <= LastDay(m)
          /\ m \in Nat /\ FromMonth \in Nat
        BY BeginIs, MonthBounds, CalendarIs DEF LeaseHolds
    <2>2. LeaseDays(m) # {} <=> Later(FirstDay(m), lease.first) <= Earlier(LastDay(m), lease.last)
        <3>. DEFINE a == Later(FirstDay(m), lease.first)
                    b == Earlier(LastDay(m), lease.last)
        <3>1. a \in Int /\ b \in Int
            BY <2>1 DEF Later, Earlier
        <3>2. LeaseDays(m) = a .. b
            BY LeaseDaysAre
        <3>. HIDE DEF a, b
        <3>3. a .. b # {} <=> a <= b
            BY <3>1
        <3>. QED  BY <3>2, <3>3 DEF a, b
    <2>3. Later(FirstDay(m), lease.first) <= Earlier(LastDay(m), lease.last)
            <=> (FirstDay(m) <= lease.last /\ lease.first <= LastDay(m))
        BY <2>1 DEF Later, Earlier
    <2>4. lease.first <= LastDay(m) <=> FromMonth <= m
        <3>1. CASE FromMonth <= m
            <4>1. LastDay(FromMonth) <= LastDay(m)
                BY <2>1, <3>1, LaterMonths
            <4>. QED  BY <2>1, <3>1, <4>1, BeginIs, LastDayIsNat
        <3>2. CASE m < FromMonth
            <4>1. LastDay(m) <= LastDay(FromMonth - 1)
                BY <2>1, <3>2, LaterMonths
            <4>2. LastDay(FromMonth - 1) < lease.first
                BY BeginIs, MonthBounds DEF InMonth
            <4>. QED  BY <2>1, <3>2, <4>1, <4>2, BeginIs, LastDayIsNat
        <3>. QED  BY <2>1, <3>1, <3>2
    <2>. QED  BY <2>2, <2>3, <2>4
<1>2. \A m : m \in Spanned(FromMonth, FinalMonth) <=> m \in Calendar /\ FromMonth <= m /\ FirstDay(m) <= lease.last
    BY BeginIs, CalendarIs DEF Spanned
<1>. QED  BY <1>1, <1>2 DEF LeaseMonths

\* The months of the lease before one of them are counted from its first.
LEMMA AgeIs ==
    ASSUME LeaseHolds, NEW m \in LeaseMonths
    PROVE  Age(m) = m - FromMonth /\ Cardinality(LeaseDays(m)) = Overlap(m)
<1>1. m \in Spanned(FromMonth, FinalMonth) /\ FinalMonth \in Nat
    BY LeaseMonthsAre, CalendarIs
<1>2. m \in Calendar /\ m \in Nat /\ FromMonth \in Nat /\ FromMonth <= m /\ FromMonth >= 1 /\ FirstDay(m) <= lease.last
    BY <1>1, BeginIs, CalendarIs DEF Spanned
<1>3. ASSUME NEW n \in FromMonth .. m - 1 PROVE n \in LeaseMonths
    <2>1. n \in Calendar /\ n \in Nat /\ n <= m - 1
        BY <1>2, CalendarIs
    <2>2. LastDay(n) <= LastDay(m - 1)
        BY <1>2, <2>1, LaterMonths
    <2>3. FirstDay(n) <= lease.last
        BY <1>2, <2>1, <2>2, MonthBounds, BeginIs
    <2>. QED  BY <2>1, <2>3, <1>3, LeaseMonthsAre, CalendarIs DEF Spanned
<1>4. {n \in LeaseMonths : n < m} = FromMonth .. m - 1
    <2>1. \A n \in LeaseMonths : n \in Nat /\ FromMonth <= n
        BY LeaseMonthsAre, CalendarIs, BeginIs DEF Spanned
    <2>2. ASSUME NEW n \in LeaseMonths, n < m PROVE n \in FromMonth .. m - 1
        BY <1>2, <2>1, <2>2
    <2>3. ASSUME NEW n \in FromMonth .. m - 1 PROVE n \in LeaseMonths /\ n < m
        BY <1>2, <1>3
    <2>. QED  BY <2>2, <2>3
<1>5. Age(m) = m - FromMonth
    <2>1. Cardinality(FromMonth .. m - 1) = m - FromMonth
        <3>1. FromMonth \in Int /\ m - 1 \in Int
            BY <1>2
        <3>2. Cardinality(FromMonth .. m - 1) = IF FromMonth > m - 1 THEN 0 ELSE (m - 1) - FromMonth + 1
            BY <3>1, FS_Interval
        <3>. QED  BY <1>2, <3>2
    <2>. QED  BY <1>4, <2>1 DEF Age
<1>6. Cardinality(LeaseDays(m)) = Overlap(m)
    <2>. DEFINE a == Later(FirstDay(m), lease.first)
                b == Earlier(LastDay(m), lease.last)
    <2>1. a \in Int /\ b \in Int
        BY <1>2, MonthBounds, BeginIs DEF Later, Earlier
    <2>2. LeaseDays(m) = a .. b /\ a <= b /\ Overlap(m) = b - a + 1
        BY <1>1, <1>2, LeaseDaysAre, OverlapIs
    <2>. HIDE DEF a, b
    <2>3. Cardinality(a .. b) = b - a + 1
        BY <2>1, <2>2, FS_Interval
    <2>. QED  BY <2>2, <2>3
<1>. QED  BY <1>5, <1>6

LEMMA PeriodsCharge == PeriodsInv => PeriodsChargeTheLease
<1>. SUFFICES ASSUME PeriodsInv PROVE PeriodsChargeTheLease
    OBVIOUS
<1>1. LeaseHolds /\ cursor \in Nat /\ FromMonth \in Nat /\ FromMonth <= cursor
    BY BeginIs DEF PeriodsInv
<1>2. SUFFICES ASSUME Generated
               PROVE  /\ cut # << >> /\ cut[1].from = lease.first /\ cut[Len(cut)].to = lease.last
                      /\ UNION {cut[n].cam : n \in DOMAIN cut} =
                              {<<m, Cardinality(LeaseDays(m))>> : m \in LeaseMonths}
                      /\ UNION {cut[n].rent : n \in DOMAIN cut} =
                              {<<m, Cardinality(LeaseDays(m)), Age(m) \div MonthsPerStep>> :
                                  m \in {n \in LeaseMonths : Age(n) >= lease.free}}
    BY DEF PeriodsInv, PeriodsChargeTheLease
<1>3. /\ lease.first \in Nat /\ lease.last \in Nat /\ lease.first <= lease.last
      /\ lease.last <= LastDay(FinalMonth) /\ FinalMonth \in Nat /\ FinalMonth >= 1
    BY <1>1, BeginIs, CalendarIs DEF LeaseHolds
<1>4. FromMonth < cursor /\ cut # << >>
    <2>1. FromMonth \in Calendar /\ FirstDay(FromMonth) <= lease.last /\ FirstDay(FromMonth) \in Nat
        BY <1>1, <1>3, BeginIs, MonthBounds DEF InMonth
    <2>2. cursor # FromMonth
        BY <1>2, <1>3, <2>1 DEF Generated
    <2>. QED  BY <1>1, <2>2 DEF PeriodsInv
<1>5. cursor - 1 \in Nat /\ LastDay(cursor - 1) \in Nat
    BY <1>1, <1>4, LastDayIsNat
\* The calendar ends, or the lease before the month the cursor is at.
<1>6. lease.last <= LastDay(cursor - 1)
    <2>1. CASE cursor \in Calendar
        BY <1>2, <1>3, <1>5, <2>1, MonthBounds DEF Generated
    <2>2. CASE cursor \notin Calendar
        <3>1. cursor - 1 >= FinalMonth
            BY <1>1, <1>4, <2>2, CalendarIs, BeginIs
        <3>. QED  BY <1>3, <1>5, <3>1, DaysAddUp
    <2>. QED  BY <2>1, <2>2
<1>7. cut[1].from = lease.first /\ cut[Len(cut)].to = lease.last
    BY <1>3, <1>4, <1>5, <1>6 DEF PeriodsInv, Earlier
<1>8. Spanned(FromMonth, cursor - 1) = LeaseMonths
    <2>1. ASSUME NEW m \in Calendar, FromMonth <= m, FirstDay(m) <= lease.last PROVE m <= cursor - 1
        <3>1. SUFFICES ASSUME m > cursor - 1 PROVE FALSE
            BY <1>5, CalendarIs
        <3>2. m \in Nat /\ cursor - 1 <= m - 1 /\ m - 1 \in Nat
            BY <1>5, <3>1, CalendarIs
        <3>3. LastDay(cursor - 1) <= LastDay(m - 1)
            BY <1>5, <3>2, LaterMonths
        <3>. QED  BY <1>3, <1>5, <1>6, <2>1, <3>3, MonthBounds
    <2>2. \A m : m \in LeaseMonths <=> m \in Calendar /\ FromMonth <= m /\ FirstDay(m) <= lease.last
        BY <1>1, LeaseMonthsAre, CalendarIs DEF Spanned
    <2>3. \A m \in Calendar : m \in Int
        BY CalendarIs
    <2>. QED  BY <1>1, <1>5, <2>1, <2>2, <2>3 DEF Spanned
<1>9. \A m \in LeaseMonths : /\ Cardinality(LeaseDays(m)) = Overlap(m)
                             /\ Age(m) = m - MonthOf(lease.first)
    BY <1>1, AgeIs DEF FromMonth
<1>10. Cam(LeaseMonths) = {<<m, Cardinality(LeaseDays(m))>> : m \in LeaseMonths}
    BY <1>9 DEF Cam
<1>11. Rent(LeaseMonths) =
            {<<m, Cardinality(LeaseDays(m)), Age(m) \div MonthsPerStep>> :
                m \in {n \in LeaseMonths : Age(n) >= lease.free}}
    <2>1. {n \in LeaseMonths : Age(n) >= lease.free} =
            {n \in LeaseMonths : n - MonthOf(lease.first) >= lease.free}
        BY <1>9
    <2>. DEFINE Paid == {n \in LeaseMonths : n - MonthOf(lease.first) >= lease.free}
    <2>2. \A m \in Paid : <<m, Cardinality(LeaseDays(m)), Age(m) \div MonthsPerStep>>
                            = <<m, Overlap(m), Step(m)>>
        BY <1>9 DEF Step
    <2>3. Rent(LeaseMonths) = {<<m, Overlap(m), Step(m)>> : m \in Paid}
        BY DEF Rent
    <2>. HIDE DEF Paid
    <2>4. {<<m, Cardinality(LeaseDays(m)), Age(m) \div MonthsPerStep>> : m \in Paid}
            = {<<m, Overlap(m), Step(m)>> : m \in Paid}
        BY <2>2
    <2>. QED  BY <2>1, <2>3, <2>4 DEF Paid
<1>. QED  BY <1>4, <1>7, <1>8, <1>10, <1>11 DEF PeriodsInv

LEMMA PeriodsAlways == PeriodsSpec => []PeriodsInv
<1>1. PeriodsInv /\ [GeneratePeriod]_periodVars => PeriodsInv'
    <2>1. CASE GeneratePeriod
        BY <2>1, PeriodIsCut
    <2>2. CASE UNCHANGED periodVars
        BY <2>2 DEF periodVars, PeriodsInv, LeaseHolds, FromMonth, Spanned, Cam, Rent, Overlap, Step
    <2>. QED  BY <2>1, <2>2
<1>. QED  BY <1>1, PeriodsBegin, PTL DEF PeriodsSpec

\* The periods generateBillingPeriods() cuts a lease into are its days in
\* order, without a gap or an overlap and at the end all of them, and every
\* month is charged once, for the days the lease has in it and at its step of
\* the escalation, whatever the calendar, the cycle and the rent-free months.
THEOREM EveryLeaseIsCharged == PeriodsSpec => []PeriodsChargeTheLease
BY PeriodsAlways, PeriodsCharge, PTL
=============================================================================
