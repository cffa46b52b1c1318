-------------------------- MODULE OperationsProofs --------------------------
(***************************************************************************)
(* Theorems about the operations around a mall: the patrols of PatrolShift *)
(* (every route, any number of requests), the ledger of StockLedger, the   *)
(* deliveries of SapGateway and the revisions of FitoutSubmittals.  The    *)
(* last part types the rows and the requests of every component that       *)
(* MCBackOffice composes.  None of them assumes anything of what can be    *)
(* under way together.                                                     *)
(***************************************************************************)
EXTENDS MCBackOffice, CalendarProofs, InvoiceProofs

-----------------------------------------------------------------------------
(* The requests and the checks.                                            *)

Visits ==
    [op : {"none", "start", "cancel", "complete", "monitor"}]
    \cup [op : {"check"}, point : Points, result : Results, linked : BOOLEAN]

Ticks ==
    [result : Results \cup {"PENDING"}, photo : BOOLEAN, orders : 0 .. 1]

\* What is ABNORMAL has its order.
Reported(t) == t.result = "ABNORMAL" => t.orders = 1

RowsInv ==
    /\ shift \in Ended \cup {"SCHEDULED", "OVERDUE", "IN_PROGRESS"}
    /\ visit \in [Devices -> Visits]
    /\ tick \in [Points -> Ticks]
    /\ \A p \in Points : Reported(tick[p])

LEMMA ShiftRowsInit == PatrolInit => RowsInv
BY DEF PatrolInit, RowsInv, Unchecked, NoVisit, Visits, Ticks, Reported, Results, Ended

LEMMA RecordedReported ==
    ASSUME NEW k \in Devices, visit[k] \in Visits, visit[k].op = "check",
           NEW t \in Ticks, Reported(t)
    PROVE  Recorded(k, t, t.orders > 0) \in Ticks /\ Reported(Recorded(k, t, t.orders > 0))
<1>1. visit[k].result \in Results
    BY DEF Visits
<1>2. CASE visit[k].result = "ABNORMAL" /\ ~(t.orders > 0)
    <2>. DEFINE u == [t EXCEPT !.result = "ABNORMAL", !.orders = @ + 1]
    <2>1. Recorded(k, t, t.orders > 0) = u
        BY <1>2, Zenon DEF Recorded
    <2>2. t.orders = 0
        BY <1>2 DEF Ticks
    <2>. DEFINE v == [t EXCEPT !.result = "ABNORMAL"]
    <2>3. v \in Ticks /\ v.orders = 0
        BY <2>2 DEF Ticks, Results
    <2>4. u = [v EXCEPT !.orders = 1]
        BY <2>2 DEF Ticks
    <2>. HIDE DEF v
    <2>5. [v EXCEPT !.orders = 1] \in Ticks /\ [v EXCEPT !.orders = 1].orders = 1
        BY <2>3 DEF Ticks
    <2>6. u \in Ticks /\ u.orders = 1
        BY <2>4, <2>5
    <2>. QED  BY <2>1, <2>6 DEF Reported
<1>3. CASE ~(visit[k].result = "ABNORMAL" /\ ~(t.orders > 0))
    BY <1>1, <1>3 DEF Recorded, Ticks, Reported, Results
<1>. QED  BY <1>2, <1>3

\* What a call that is started leaves alone.
LEMMA VisitStep ==
    ASSUME NEW k \in Devices, NEW c \in Visits, RowsInv, Visit(k, c)
    PROVE  RowsInv'
BY DEF RowsInv, Visit, Reported

LEMMA ShiftRowsStep == RowsInv /\ [PatrolNext]_patrolVars => RowsInv'
<1>. SUFFICES ASSUME RowsInv, [PatrolNext]_patrolVars PROVE RowsInv'
    OBVIOUS
<1>1. CASE UNCHANGED patrolVars
    BY <1>1 DEF RowsInv, patrolVars, Reported
<1>2. ASSUME NEW k \in Devices,
             StartRead(k) \/ CancelShiftRead(k) \/ CompleteRead(k) \/ MonitorRead(k)
      PROVE  RowsInv'
    BY <1>2, VisitStep, Zenon
       DEF StartRead, CancelShiftRead, CompleteRead, MonitorRead, Visits
<1>3. ASSUME NEW k \in Devices, NEW p \in Points, NEW r \in Results, CheckRead(k, p, r)
      PROVE  RowsInv'
    <2>1. [op |-> "check", point |-> p, result |-> r, linked |-> tick[p].orders > 0] \in Visits
        BY DEF RowsInv, Ticks, Visits
    <2>. QED  BY <1>3, <2>1, VisitStep DEF CheckRead
<1>4. ASSUME NEW k \in Devices, NEW op, NEW s \in Ended \cup {"OVERDUE", "IN_PROGRESS"},
             WriteShift(k, op, s)
      PROVE  RowsInv'
    <2>1. NoVisit \in Visits
        BY DEF NoVisit, Visits
    <2>. QED  BY <1>4, <2>1 DEF WriteShift, RowsInv, Reported
<1>5. ASSUME NEW k \in Devices, CheckWrite(k)
      PROVE  RowsInv'
    <2>. DEFINE p == visit[k].point
    <2>1. visit[k] \in Visits /\ visit[k].op = "check" /\ p \in Points
        BY <1>5 DEF CheckWrite, RowsInv, Visits
    <2>2. /\ Recorded(k, tick[p], tick[p].orders > 0) \in Ticks
          /\ Reported(Recorded(k, tick[p], tick[p].orders > 0))
        BY <2>1, RecordedReported DEF RowsInv
    <2>3. tick' = [tick EXCEPT ![p] = Recorded(k, tick[p], tick[p].orders > 0)]
        BY <1>5 DEF CheckWrite
    <2>4. NoVisit \in Visits
        BY DEF NoVisit, Visits
    <2>5. shift' = shift /\ visit' = [visit EXCEPT ![k] = NoVisit]
        BY <1>5 DEF CheckWrite
    <2>6. tick' \in [Points -> Ticks] /\ \A q \in Points : Reported(tick'[q])
        BY <2>1, <2>2, <2>3 DEF RowsInv
    <2>. QED  BY <2>4, <2>5, <2>6 DEF RowsInv, Reported
<1>6. ASSUME NEW p \in Points, Upload(p)
      PROVE  RowsInv'
    BY <1>6 DEF Upload, RowsInv, Ticks, Reported
<1>. QED
    BY <1>1, <1>2, <1>3, <1>4, <1>5, <1>6 DEF PatrolNext, Ended

-----------------------------------------------------------------------------

\* However often and by however many devices a result is sent, what is
\* ABNORMAL has one work order: nothing is assumed of what is under way.
THEOREM PatrolReportsOnce == PatrolSpec => []AbnormalReportedOnce
<1>1. ASSUME RowsInv PROVE AbnormalReportedOnce
    <2>1. ASSUME NEW p \in Points
          PROVE  /\ tick[p].orders <= 1
                 /\ tick[p].result = "ABNORMAL" => tick[p].orders = 1
        <3>1. tick[p] \in Ticks /\ Reported(tick[p])
            BY <1>1 DEF RowsInv
        <3>. QED  BY <3>1 DEF Ticks, Reported
    <2>. QED  BY <2>1 DEF AbnormalReportedOnce
<1>. QED
    BY <1>1, ShiftRowsInit, ShiftRowsStep, PTL DEF PatrolSpec
-----------------------------------------------------------------------------
(* What complete() found of the required points outlives every race: a     *)
(* check that is written beside it replaces one result by another.         *)

LEMMA ShiftRowsAlways == PatrolSpec => []RowsInv
BY ShiftRowsInit, ShiftRowsStep, PTL DEF PatrolSpec

CheckedInv ==
    shift = "COMPLETED" \/ (\E k \in Devices : visit[k].op = "complete") => RequiredChecked

\* No step takes a result back.
LEMMA ResultsStay ==
    ASSUME RowsInv, PatrolNext
    PROVE  RequiredChecked => RequiredChecked'
<1>1. ASSUME NEW k \in Devices, CheckWrite(k), RequiredChecked PROVE RequiredChecked'
    <2>1. /\ visit[k] \in Visits /\ visit[k].op = "check"
          /\ tick' = [tick EXCEPT ![visit[k].point]
                        = Recorded(k, tick[visit[k].point], tick[visit[k].point].orders > 0)]
        BY <1>1 DEF CheckWrite, RowsInv
    <2>2. ASSUME NEW p \in Required PROVE tick'[p].result # "PENDING"
        <3>1. tick[p] \in Ticks /\ p \in Points
            BY PointsAssumption DEF RowsInv
        <3>2. CASE p = visit[k].point
            <4>1. tick'[p] = Recorded(k, tick[p], tick[p].orders > 0)
                BY <2>1, <3>1, <3>2 DEF RowsInv
            <4>2. Recorded(k, tick[p], tick[p].orders > 0).result \in Results
                BY <2>1, <3>1 DEF Recorded, Visits, Ticks, Results
            <4>. QED  BY <4>1, <4>2 DEF Results
        <3>3. CASE p # visit[k].point
            BY <1>1, <2>1, <3>1, <3>3 DEF RowsInv, RequiredChecked
        <3>. QED  BY <3>2, <3>3
    <2>. QED  BY <2>2 DEF RequiredChecked
<1>2. ASSUME NEW p \in Points, Upload(p), RequiredChecked PROVE RequiredChecked'
    BY <1>2, PointsAssumption DEF Upload, RowsInv, Ticks, RequiredChecked
<1>3. ASSUME UNCHANGED tick, RequiredChecked PROVE RequiredChecked'
    BY <1>3 DEF RequiredChecked
<1>. QED
    BY <1>1, <1>2, <1>3
       DEF PatrolNext, StartRead, CancelShiftRead, CompleteRead, MonitorRead, CheckRead,
           Visit, WriteShift

LEMMA CheckedStep ==
    ASSUME RowsInv, CheckedInv, [PatrolNext]_patrolVars
    PROVE  CheckedInv'
<1>1. CASE UNCHANGED patrolVars
    BY <1>1 DEF patrolVars, CheckedInv, RequiredChecked
<1>2. ASSUME PatrolNext, RequiredChecked PROVE CheckedInv'
    BY <1>2, ResultsStay DEF CheckedInv
<1>3. ASSUME PatrolNext, ~RequiredChecked PROVE CheckedInv'
    <2>1. shift # "COMPLETED" /\ \A k \in Devices : visit[k].op # "complete"
        BY <1>3 DEF CheckedInv
    <2>2. ASSUME NEW k \in Devices, NEW c, Visit(k, c), c.op # "complete"
          PROVE  CheckedInv'
        <3>1. shift' = shift /\ visit'[k] = c /\ \A j \in Devices \ {k} : visit'[j] = visit[j]
            BY <2>2 DEF Visit, RowsInv
        <3>. QED  BY <2>1, <2>2, <3>1 DEF CheckedInv
    <2>3. ASSUME NEW k \in Devices, StartRead(k) \/ CancelShiftRead(k) \/ MonitorRead(k)
          PROVE  CheckedInv'
        BY <2>2, <2>3, Zenon DEF StartRead, CancelShiftRead, MonitorRead
    <2>4. ASSUME NEW k \in Devices, NEW p \in Points, NEW r \in Results, CheckRead(k, p, r)
          PROVE  CheckedInv'
        BY <2>2, <2>4 DEF CheckRead
    <2>5. ASSUME NEW k \in Devices, NEW op, NEW s, WriteShift(k, op, s), op # "complete",
                 s # "COMPLETED"
          PROVE  CheckedInv'
        <3>1. visit'[k].op = "none" /\ \A j \in Devices \ {k} : visit'[j] = visit[j]
            BY <2>5 DEF WriteShift, RowsInv, NoVisit
        <3>. QED  BY <2>1, <2>5, <3>1 DEF CheckedInv, WriteShift
    <2>6. ASSUME NEW k \in Devices, CheckWrite(k) PROVE CheckedInv'
        <3>1. /\ shift' = shift
              /\ visit'[k].op = "none" /\ \A j \in Devices \ {k} : visit'[j] = visit[j]
            BY <2>6 DEF CheckWrite, RowsInv, NoVisit
        <3>. QED  BY <2>1, <3>1 DEF CheckedInv
    <2>7. ASSUME NEW p \in Points, Upload(p) PROVE CheckedInv'
        BY <2>1, <2>7 DEF Upload, CheckedInv
    <2>8. ASSUME NEW k \in Devices, CompleteRead(k) \/ WriteShift(k, "complete", "COMPLETED")
          PROVE  FALSE
        BY <1>3, <2>1, <2>8 DEF CompleteRead, WriteShift
    <2>. QED
        BY <1>3, <2>3, <2>4, <2>5, <2>6, <2>7, <2>8 DEF PatrolNext
<1>. QED
    BY <1>1, <1>2, <1>3

\* A completed shift had its required points checked and reports what is
\* ABNORMAL once: nothing is assumed of what is under way.
THEOREM ShiftsAreReported == PatrolSpec => []ShiftIsReported
<1>1. PatrolInit => CheckedInv
    BY DEF PatrolInit, CheckedInv, NoVisit
<1>2. RowsInv /\ CheckedInv /\ [PatrolNext]_patrolVars => CheckedInv'
    BY CheckedStep
<1>3. CheckedInv /\ AbnormalReportedOnce => ShiftIsReported
    BY DEF CheckedInv, CompletedIsChecked, ShiftIsReported
<1>. QED
    BY <1>1, <1>2, <1>3, ShiftRowsAlways, PatrolReportsOnce, PTL DEF PatrolSpec

-----------------------------------------------------------------------------
(* StockLedger: a movement is written on the stock it read.                *)

Opened == [item : Items, move : Movements, stale : BOOLEAN]

\* A transaction that can still commit has read the stock as it is.
StockInv ==
    /\ stock \in [Items -> Nat]
    /\ journal \in [Items -> Seq(Movements)]
    /\ open \in [Keepers -> {NotOpen} \cup Opened]
    /\ StockIsTheJournal
    /\ \A k \in Keepers :
        open[k] # NotOpen /\ ~open[k].stale => open[k].move.before = stock[open[k].item]

LEMMA StockInitHolds == StockInit => StockInv
BY DEF StockInit, StockInv, StockIsTheJournal, LastAfter, NotOpen

LEMMA ReadStep ==
    ASSUME StockInv, NEW k \in Keepers, NEW i \in Items, NEW type \in MovementTypes,
           NEW n \in Quantities, ReadStock(k, i, type, n)
    PROVE  StockInv'
<1>. DEFINE move == [type |-> type, quantity |-> n, before |-> stock[i],
                     after |-> StockAfter(type, stock[i], n)]
<1>1. move \in Movements
    BY QuantitiesAssumption DEF ReadStock, StockAfter, Movements, MovementTypes, StockInv
<1>. DEFINE row == [item |-> i, stale |-> FALSE, move |-> move]
<1>2. row \in Opened /\ row.item = i /\ row.move.before = stock[i]
    BY <1>1 DEF Opened
<1>. HIDE DEF row
<1>3. open' = [open EXCEPT ![k] = row] /\ UNCHANGED <<stock, journal>>
    BY DEF ReadStock, row
<1>. QED  BY <1>2, <1>3 DEF StockInv, StockIsTheJournal, LastAfter

\* What is read of a row that changed is void, and nothing else is.
LEMMA ChangedRows ==
    ASSUME StockInv, NEW i \in Items
    PROVE  /\ Changed(i) \in [Keepers -> {NotOpen} \cup Opened]
           /\ \A j \in Keepers :
                Changed(i)[j] # NotOpen /\ ~Changed(i)[j].stale =>
                    /\ Changed(i)[j] = open[j]
                    /\ open[j].item # i
<1>. SUFFICES ASSUME NEW j \in Keepers
              PROVE  /\ Changed(i)[j] \in {NotOpen} \cup Opened
                     /\ Changed(i)[j] # NotOpen /\ ~Changed(i)[j].stale =>
                            Changed(i)[j] = open[j] /\ open[j].item # i
    BY Zenon DEF Changed
<1>1. CASE open[j] # NotOpen /\ open[j].item = i
    <2>1. Changed(i)[j] = [open[j] EXCEPT !.stale = TRUE] /\ open[j] \in Opened
        BY <1>1 DEF Changed, StockInv
    <2>2. [open[j] EXCEPT !.stale = TRUE] \in Opened /\ [open[j] EXCEPT !.stale = TRUE].stale
        BY <2>1 DEF Opened
    <2>. QED  BY <2>1, <2>2
<1>2. CASE ~(open[j] # NotOpen /\ open[j].item = i)
    <2>1. Changed(i)[j] = open[j]
        BY <1>2, Zenon DEF Changed
    <2>. QED  BY <1>2, <2>1 DEF StockInv
<1>. QED  BY <1>1, <1>2

LEMMA MoveStep ==
    ASSUME StockInv, NEW k \in Keepers, MoveStock(k)
    PROVE  StockInv'
<1>. DEFINE i == open[k].item
            move == open[k].move
            row == journal[i]
<1>1. i \in Items /\ move \in Movements /\ move.before = stock[i] /\ move.after \in Nat
    BY DEF MoveStock, StockInv, Opened, Movements
<1>2. /\ stock' = [stock EXCEPT ![i] = move.after]
      /\ journal' = [journal EXCEPT ![i] = Append(row, move)]
      /\ open' = [Changed(i) EXCEPT ![k] = NotOpen]
    BY DEF MoveStock
<1>3. open' \in [Keepers -> {NotOpen} \cup Opened]
    BY <1>1, <1>2, ChangedRows
<1>4. ASSUME NEW j \in Keepers, open'[j] # NotOpen, ~open'[j].stale
      PROVE  open'[j].move.before = stock'[open'[j].item]
    <2>1. open'[j] = Changed(i)[j]
        BY <1>1, <1>2, <1>4, ChangedRows
    <2>2. open'[j] = open[j] /\ open[j].item # i
        BY <1>1, <1>4, <2>1, ChangedRows
    <2>3. open[j].item \in Items /\ open[j].move.before = stock[open[j].item]
        BY <1>4, <2>2 DEF StockInv, Opened
    <2>. QED  BY <1>2, <2>2, <2>3 DEF StockInv
<1>. HIDE DEF move
<1>5. row \in Seq(Movements) /\ Append(row, move) \in Seq(Movements)
    BY <1>1 DEF StockInv
<1>6. /\ Len(Append(row, move)) = Len(row) + 1
      /\ Append(row, move)[Len(row) + 1] = move
      /\ \A n \in 1 .. Len(row) : Append(row, move)[n] = row[n]
    BY <1>1, <1>5
<1>7. StockIsTheJournal'
    <2>. SUFFICES ASSUME NEW x \in Items
                  PROVE  /\ stock'[x] = LastAfter(x)'
                         /\ \A n \in 1 .. Len(journal'[x]) :
                                journal'[x][n].before =
                                    IF n = 1 THEN 0 ELSE journal'[x][n - 1].after
        BY DEF StockIsTheJournal
    <2>1. CASE x # i
        <3>1. stock'[x] = stock[x] /\ journal'[x] = journal[x]
            BY <1>1, <1>2, <2>1 DEF StockInv
        <3>. QED  BY <3>1 DEF StockInv, StockIsTheJournal, LastAfter
    <2>2. CASE x = i
        <3>1. stock'[x] = move.after /\ journal'[x] = Append(row, move)
            BY <1>1, <1>2, <2>2 DEF StockInv
        <3>2. LastAfter(x)' = move.after
            BY <1>5, <1>6, <3>1 DEF LastAfter
        <3>3. ASSUME NEW n \in 1 .. Len(journal'[x])
              PROVE  journal'[x][n].before = IF n = 1 THEN 0 ELSE journal'[x][n - 1].after
            <4>1. CASE n \in 1 .. Len(row)
                <5>1. row[n].before = IF n = 1 THEN 0 ELSE row[n - 1].after
                    BY <1>1, <4>1 DEF StockInv, StockIsTheJournal
                <5>. QED  BY <1>5, <1>6, <3>1, <4>1, <5>1
            <4>2. CASE n = Len(row) + 1
                <5>1. stock[i] = IF row = << >> THEN 0 ELSE row[Len(row)].after
                    BY <1>1 DEF StockInv, StockIsTheJournal, LastAfter
                <5>2. journal'[x][n].before = stock[i]
                    BY <1>1, <1>6, <3>1, <4>2
                <5>3. CASE Len(row) = 0
                    BY <1>5, <4>2, <5>1, <5>2, <5>3
                <5>4. CASE Len(row) # 0
                    <6>1. n # 1 /\ n - 1 = Len(row) /\ Len(row) \in 1 .. Len(row) /\ row # << >>
                        BY <1>5, <4>2, <5>4
                    <6>. QED  BY <1>6, <3>1, <5>1, <5>2, <6>1
                <5>. QED  BY <5>3, <5>4
            <4>. QED  BY <1>5, <1>6, <3>1, <3>3, <4>1, <4>2
        <3>. QED  BY <3>1, <3>2, <3>3
    <2>. QED  BY <2>1, <2>2
<1>8. stock' \in [Items -> Nat] /\ journal' \in [Items -> Seq(Movements)]
    BY <1>1, <1>2, <1>5 DEF StockInv
<1>. QED  BY <1>3, <1>4, <1>7, <1>8 DEF StockInv

LEMMA EditStep ==
    ASSUME StockInv, NEW i \in Items, NEW use \in BOOLEAN, UpdateItem(i, use)
    PROVE  StockInv'
<1>1. open' = Changed(i) /\ UNCHANGED <<stock, journal>>
    BY DEF UpdateItem
<1>2. StockIsTheJournal'
    BY <1>1 DEF StockInv, StockIsTheJournal, LastAfter
<1>. QED  BY <1>1, <1>2, ChangedRows DEF StockInv

LEMMA RollbackStep ==
    ASSUME StockInv, NEW k \in Keepers, Rollback(k)
    PROVE  StockInv'
BY DEF StockInv, StockIsTheJournal, LastAfter, Rollback

LEMMA StockAlways == StockSpec => []StockInv
<1>1. StockInv /\ [StockNext]_stockVars => StockInv'
    <2>. SUFFICES ASSUME StockInv, [StockNext]_stockVars PROVE StockInv'
        OBVIOUS
    <2>1. CASE UNCHANGED stockVars
        BY <2>1 DEF StockInv, StockIsTheJournal, LastAfter, stockVars
    <2>. QED  BY <2>1, ReadStep, MoveStep, RollbackStep, EditStep DEF StockNext
<1>. QED  BY <1>1, StockInitHolds, PTL DEF StockSpec

\* The journal of every item explains its stock, for any number of keepers
\* and any movements (createTransaction() under Serializable).
THEOREM JournalExplainsStock == StockSpec => []StockIsTheJournal
<1>1. StockInv => StockIsTheJournal
    BY DEF StockInv
<1>. QED  BY <1>1, StockAlways, PTL

-----------------------------------------------------------------------------
(* SapGateway: a SUCCESS was delivered.                                    *)

Calling == [at : {"queue", "look", "token", "post"}, payload : Nat, tries : Nat]
ToRecord == [at : {"record"}, payload : Nat, result : {"FAILED", "SUCCESS"}]

SapRows ==
    /\ enabled \in BOOLEAN
    /\ content \in Nat /\ posted \in Nat
    /\ sapLog \in [status : {"none", "PENDING", "FAILED", "SUCCESS"}, payload : Nat]
    /\ sending \in [Senders -> {NotSending} \cup Calling \cup ToRecord]

\* A call carries some version, and says SUCCESS when SAP did the work.
CallHolds(c) ==
    /\ c.payload # 0
    /\ c.at = "record" /\ c.result = "SUCCESS" => posted # 0

SapInv ==
    /\ SapRows
    /\ LogShowsTheDelivery
    /\ content # 0
    /\ sapLog.status \in {"PENDING", "FAILED"} => sapLog.payload # 0
    /\ \A k \in Senders : sending[k] # NotSending => CallHolds(sending[k])

LEMMA SapInitHolds == SapInit => SapInv
BY DEF SapInit, SapInv, SapRows, LogShowsTheDelivery

\* What a row of a call says of its form.
LEMMA CallForms ==
    ASSUME SapInv, NEW k \in Senders
    PROVE  /\ sending[k].at \in {"queue", "look", "token", "post"} =>
                sending[k] \in Calling /\ sending[k] # NotSending /\ CallHolds(sending[k])
           /\ sending[k].at = "record" =>
                sending[k] \in ToRecord /\ sending[k] # NotSending /\ CallHolds(sending[k])
<1>1. sending[k] \in {NotSending} \cup Calling \cup ToRecord
    BY DEF SapInv, SapRows
<1>2. sending[k].at # "idle" => sending[k] # NotSending /\ CallHolds(sending[k])
    BY DEF SapInv, NotSending
<1>3. CASE sending[k] = NotSending
    BY <1>3 DEF NotSending
<1>4. CASE sending[k] \in Calling
    BY <1>2, <1>4 DEF Calling
<1>5. CASE sending[k] \in ToRecord
    BY <1>2, <1>5 DEF ToRecord
<1>. QED  BY <1>1, <1>3, <1>4, <1>5

\* A step of a call that leaves the log alone.
LEMMA SendStep ==
    ASSUME SapInv, NEW k \in Senders, NEW c \in {NotSending} \cup Calling \cup ToRecord, Send(k, c),
           UNCHANGED <<enabled, content, sapLog>>,
           posted' = posted \/ posted' \in Nat \ {0},
           c # NotSending => CallHolds(c)'
    PROVE  SapInv'
<1>1. sending' = [sending EXCEPT ![k] = c]
    BY DEF Send
<1>2. SapRows'
    BY <1>1 DEF SapInv, SapRows
<1>3. ASSUME NEW j \in Senders, sending'[j] # NotSending PROVE CallHolds(sending[j])'
    <2>1. CASE j = k
        <3>1. sending'[j] = c
            BY <1>1, <2>1 DEF SapInv, SapRows
        <3>. QED  BY <1>3, <3>1 DEF CallHolds
    <2>2. CASE j # k
        <3>1. sending'[j] = sending[j]
            BY <1>1, <2>2 DEF SapInv, SapRows
        <3>2. CallHolds(sending[j])
            BY <1>3, <3>1 DEF SapInv
        <3>. QED  BY <3>1, <3>2 DEF CallHolds, SapInv, SapRows
    <2>. QED  BY <2>1, <2>2
<1>4. LogShowsTheDelivery'
    BY DEF SapInv, LogShowsTheDelivery
<1>. QED  BY <1>2, <1>3, <1>4 DEF SapInv, SapRows

\* A step that writes the log and ends the call.
LEMMA LogStep ==
    ASSUME SapInv, NEW k \in Senders, NEW state \in {"PENDING", "FAILED", "SUCCESS"},
           WriteLog(k, state), sending[k] # NotSending, sending[k] \in Calling \cup ToRecord,
           state = "SUCCESS" => posted # 0
    PROVE  SapInv'
<1>1. sending[k].payload \in Nat \ {0}
    BY DEF SapInv, CallHolds, Calling, ToRecord
<1>2. /\ sapLog' = [status |-> state, payload |-> sending[k].payload]
      /\ UNCHANGED <<enabled, content, posted>>
    BY DEF WriteLog
<1>3. sending' = [sending EXCEPT ![k] = NotSending]
    BY DEF WriteLog, Send
<1>4. SapRows'
    BY <1>1, <1>2, <1>3 DEF SapInv, SapRows
<1>5. ASSUME NEW j \in Senders, sending'[j] # NotSending PROVE CallHolds(sending[j])'
    <2>1. sending'[j] = sending[j]
        BY <1>3, <1>5 DEF SapInv, SapRows
    <2>. QED  BY <1>2, <1>5, <2>1 DEF SapInv, CallHolds
<1>6. LogShowsTheDelivery'
    BY <1>2 DEF LogShowsTheDelivery
<1>. QED  BY <1>1, <1>2, <1>4, <1>5, <1>6 DEF SapInv

LEMMA ReviseStep ==
    ASSUME SapInv, Revise
    PROVE  SapInv'
<1>1. content' = content + 1 /\ UNCHANGED <<enabled, sapLog, posted, sending>>
    BY DEF Revise
<1>. QED
    BY <1>1 DEF SapInv, SapRows, LogShowsTheDelivery, CallHolds

LEMMA SyncStep ==
    ASSUME SapInv, NEW k \in Senders, Sync(k)
    PROVE  SapInv'
<1>1. PICK c \in Calling : c = [at |-> IF enabled THEN "look" ELSE "queue",
                                payload |-> content, tries |-> 0]
    BY DEF SapInv, SapRows, Calling
<1>2. Send(k, c) /\ UNCHANGED <<enabled, content, sapLog, posted>>
    BY <1>1 DEF Sync
<1>3. CallHolds(c)'
    BY <1>1, <1>2 DEF CallHolds, SapInv
<1>. QED  BY <1>2, <1>3, SendStep

LEMMA RetryStep ==
    ASSUME SapInv, NEW k \in Senders, Retry(k)
    PROVE  SapInv'
<1>1. sapLog.payload \in Nat \ {0}
    BY DEF Retry, SapInv, SapRows
<1>2. PICK c \in Calling : c = [at |-> "look", payload |-> sapLog.payload, tries |-> 0]
    BY <1>1 DEF Calling
<1>3. Send(k, c) /\ UNCHANGED <<enabled, content, sapLog, posted>>
    BY <1>2 DEF Retry
<1>4. CallHolds(c)'
    BY <1>1, <1>2, <1>3 DEF CallHolds
<1>. QED  BY <1>3, <1>4, SendStep

LEMMA LookStep ==
    ASSUME SapInv, NEW k \in Senders, Look(k)
    PROVE  SapInv'
<1>1. sending[k] \in Calling /\ sending[k].at = "look" /\ CallHolds(sending[k])
    BY CallForms DEF Look
<1>2. UNCHANGED <<enabled, content, sapLog, posted>>
    BY DEF Look
<1>3. CASE sapLog.status = "SUCCESS"
    BY <1>2, <1>3, SendStep DEF Look
<1>4. CASE sapLog.status # "SUCCESS"
    <2>1. PICK c \in Calling : c = [sending[k] EXCEPT !.at = IF token THEN "post" ELSE "token"]
        BY <1>1 DEF Calling
    <2>2. c.payload = sending[k].payload /\ c.at \in {"post", "token"}
        BY <1>1, <2>1 DEF Calling
    <2>3. CallHolds(c)'
        BY <1>1, <1>2, <2>2 DEF CallHolds
    <2>4. Send(k, c)
        BY <1>4, <2>1 DEF Look
    <2>. QED  BY <1>2, <2>3, <2>4, SendStep
<1>. QED  BY <1>3, <1>4

\* An attempt that is over, with or without a result: SAP may have done the
\* work.
LEMMA RecordingStep ==
    ASSUME SapInv, NEW k \in Senders, UnderWay(k), NEW result \in {"FAILED", "SUCCESS"},
           Recording(k, result), UNCHANGED <<enabled, content, sapLog>>,
           Handle(k) \/ posted' = posted,
           result = "SUCCESS" => Handle(k) /\ sending[k].at = "post"
    PROVE  SapInv'
<1>1. sending[k] \in Calling /\ CallHolds(sending[k]) /\ sending[k].payload \in Nat \ {0}
    BY CallForms DEF UnderWay, CallHolds, Calling
<1>2. posted' = posted \/ posted' \in Nat \ {0}
    BY <1>1 DEF Handle
<1>3. result = "SUCCESS" => posted' # 0
    BY <1>1 DEF Handle
<1>4. PICK c \in ToRecord :
        c = [at |-> "record", payload |-> sending[k].payload, result |-> result]
    BY <1>1 DEF ToRecord
<1>5. Send(k, c)
    BY <1>4 DEF Recording
<1>6. CallHolds(c)'
    BY <1>1, <1>3, <1>4 DEF CallHolds
<1>. QED  BY <1>2, <1>5, <1>6, SendStep

\* A call that goes on with another attempt or another request.
LEMMA GoOnStep ==
    ASSUME SapInv, NEW k \in Senders, sending[k].at \in {"token", "post"}, NEW c \in Calling,
           c.at \in {"token", "post"}, c.payload = sending[k].payload,
           Send(k, c), UNCHANGED <<enabled, content, sapLog>>,
           Handle(k) \/ posted' = posted
    PROVE  SapInv'
<1>1. CallHolds(sending[k]) /\ c.payload \in Nat \ {0}
    BY CallForms DEF CallHolds, Calling
<1>2. posted' = posted \/ posted' \in Nat \ {0}
    BY <1>1 DEF Handle
<1>3. CallHolds(c)'
    BY <1>1 DEF CallHolds
<1>. QED  BY <1>2, <1>3, SendStep

LEMMA EnterStep ==
    ASSUME SapInv, NEW k \in Senders, Enter(k)
    PROVE  SapInv'
<1>1. sending[k] \in Calling /\ sending[k].at \in {"token", "post"} /\ CallHolds(sending[k])
    BY CallForms DEF Enter
<1>2. UNCHANGED <<enabled, content, sapLog, posted>>
    BY DEF Enter
<1>3. CASE Recording(k, "FAILED")
    <2>1. PICK c \in ToRecord : c = [at |-> "record", payload |-> sending[k].payload, result |-> "FAILED"]
        BY <1>1 DEF Calling, ToRecord
    <2>2. CallHolds(c)'
        BY <1>1, <1>2, <2>1 DEF CallHolds
    <2>. QED  BY <1>2, <1>3, <2>1, <2>2, SendStep DEF Recording
<1>4. CASE Send(k, [sending[k] EXCEPT !.tries = 1])
    <2>1. PICK c \in Calling : c = [sending[k] EXCEPT !.tries = 1]
        BY <1>1 DEF Calling
    <2>2. c.at = sending[k].at /\ c.payload = sending[k].payload
        BY <1>1, <2>1 DEF Calling
    <2>. QED  BY <1>1, <1>2, <1>4, <2>1, <2>2, GoOnStep
<1>. QED  BY <1>3, <1>4 DEF Enter

LEMMA AnsweredStep ==
    ASSUME SapInv, NEW k \in Senders, Answered(k)
    PROVE  SapInv'
<1>1. UnderWay(k) /\ Handle(k) /\ UNCHANGED <<enabled, content, sapLog>>
    BY DEF Answered
<1>2. sending[k] \in Calling /\ sending[k].at \in {"token", "post"}
    BY <1>1, CallForms DEF UnderWay
<1>3. CASE sending[k].at = "post"
    BY <1>1, <1>3, RecordingStep DEF Answered
<1>4. CASE sending[k].at # "post"
    <2>1. PICK c \in Calling : c = [sending[k] EXCEPT !.at = "post", !.tries = 0]
        BY <1>2 DEF Calling
    <2>2. c.at = "post" /\ c.payload = sending[k].payload
        BY <1>2, <2>1 DEF Calling
    <2>. QED  BY <1>1, <1>2, <1>4, <2>1, <2>2, GoOnStep DEF Answered
<1>. QED  BY <1>3, <1>4

LEMMA UnansweredStep ==
    ASSUME SapInv, NEW k \in Senders, Unanswered(k)
    PROVE  SapInv'
<1>1. UnderWay(k) /\ (Handle(k) \/ posted' = posted) /\ UNCHANGED <<enabled, content, sapLog>>
    BY DEF Unanswered
<1>2. sending[k] \in Calling /\ sending[k].at \in {"token", "post"}
    BY <1>1, CallForms DEF UnderWay
<1>3. CASE sending[k].tries < MaxAttempts
    <2>0. sending[k].tries + 1 \in Nat
        BY <1>2 DEF Calling
    <2>1. PICK c \in Calling : c = [sending[k] EXCEPT !.tries = sending[k].tries + 1]
        BY <1>2, <2>0 DEF Calling
    <2>2. c.at = sending[k].at /\ c.payload = sending[k].payload
        BY <1>2, <2>1 DEF Calling
    <2>. QED  BY <1>1, <1>2, <1>3, <2>1, <2>2, GoOnStep DEF Unanswered
<1>4. CASE ~(sending[k].tries < MaxAttempts)
    BY <1>1, <1>4, RecordingStep DEF Unanswered
<1>. QED  BY <1>3, <1>4

LEMMA FailedStep ==
    ASSUME SapInv, NEW k \in Senders, Refused(k) \/ Broken(k)
    PROVE  SapInv'
<1>1. /\ UnderWay(k) /\ (Handle(k) \/ posted' = posted) /\ UNCHANGED <<enabled, content, sapLog>>
      /\ Recording(k, "FAILED")
    BY DEF Refused, Broken
<1>. QED  BY <1>1, RecordingStep

LEMMA RecordStep ==
    ASSUME SapInv, NEW k \in Senders, Record(k)
    PROVE  SapInv'
<1>1. sending[k] \in ToRecord /\ sending[k].at = "record" /\ sending[k] # NotSending /\ CallHolds(sending[k])
    BY CallForms DEF Record
<1>2. /\ sending[k].result \in {"FAILED", "SUCCESS"}
      /\ sending[k].result = "SUCCESS" => posted # 0
    BY <1>1 DEF ToRecord, CallHolds
<1>3. PICK state \in {"FAILED", "SUCCESS"} : state = sending[k].result
    BY <1>2
<1>. QED  BY <1>1, <1>2, <1>3, LogStep DEF Record

LEMMA QueueStep ==
    ASSUME SapInv, NEW k \in Senders, Queue(k)
    PROVE  SapInv'
<1>1. sending[k] \in Calling /\ sending[k] # NotSending
    BY CallForms DEF Queue
<1>. QED  BY <1>1, LogStep DEF Queue

LEMMA RestartStep ==
    ASSUME SapInv, NEW on \in BOOLEAN, Restart(on)
    PROVE  SapInv'
<1>1. /\ enabled' = on /\ sending' = [k \in Senders |-> NotSending]
      /\ UNCHANGED <<content, sapLog, posted>>
    BY DEF Restart
<1>. QED  BY <1>1 DEF SapInv, SapRows, LogShowsTheDelivery

LEMMA SapStep ==
    ASSUME SapInv, [SapNext]_sapVars
    PROVE  SapInv'
<1>1. CASE UNCHANGED <<enabled, content, sapLog, posted, sending>>
    BY <1>1 DEF SapInv, SapRows, LogShowsTheDelivery, CallHolds
<1>2. CASE Cooldown \/ TokenExpires \/ UNCHANGED sapVars
    BY <1>1, <1>2 DEF Cooldown, TokenExpires, sapVars
<1>. QED
    BY <1>2, ReviseStep, RestartStep, SyncStep, RetryStep, QueueStep, LookStep, EnterStep,
       AnsweredStep, UnansweredStep, FailedStep, RecordStep DEF SapNext

\* What the log calls SUCCESS was delivered, whatever is edited, restarted,
\* switched off or lost meanwhile: nothing is assumed.
THEOREM SuccessIsDelivered == SapSpec => []LogShowsTheDelivery
<1>1. SapInv => LogShowsTheDelivery
    BY DEF SapInv
<1>. QED  BY <1>1, SapInitHolds, SapStep, PTL DEF SapSpec

-----------------------------------------------------------------------------
(* Types, component by component, whatever may be under way together.      *)

LEMMA PatrolTypes == PatrolSpec => []PatrolTypeOK
<1>1. RowsInv => PatrolTypeOK
    BY DEF RowsInv, PatrolTypeOK, Ticks, Visits
<1>. QED  BY <1>1, ShiftRowsAlways, PTL

LEMMA StockTypes == StockSpec => []StockTypeOK
<1>1. StockInit => inUse \subseteq Items
    BY DEF StockInit
<1>2. inUse \subseteq Items /\ [StockNext]_stockVars => (inUse \subseteq Items)'
    BY DEF StockNext, ReadStock, MoveStock, Rollback, UpdateItem, stockVars
<1>3. StockInv /\ inUse \subseteq Items => StockTypeOK
    BY DEF StockInv, StockTypeOK, Opened
<1>. QED  BY <1>1, <1>2, <1>3, StockAlways, PTL DEF StockSpec

Takes == {"lock", "demote", "remove"}

AccountChanges == Takes \cup {"unlock", "promote"}

SessionRows ==
    {NoSession}
    \cup [op : AccountChanges \cup {"create"}, user : Accounts]

AccountRows ==
    /\ session \in [Sessions -> SessionRows]
    /\ made \subseteq Accounts
    /\ usable \subseteq made /\ deleted \subseteq made /\ admins \subseteq made
    /\ \A k \in Sessions : session[k].op \in AccountChanges => session[k].user \in made

LEMMA AccountTypes == AccountSpec => []AccountTypeOK
<1>1. AccountInit => AccountRows
    BY DEF AccountInit, AccountRows, AccountChanges, NoSession, SessionRows, Takes
<1>2. AccountRows /\ [AccountNext]_accountVars => AccountRows'
    <2>. SUFFICES ASSUME AccountRows, [AccountNext]_accountVars PROVE AccountRows'
        OBVIOUS
    <2>1. ASSUME NEW k \in Sessions, NEW u \in Accounts, NEW op \in AccountChanges \cup {"create"},
                 Open(k, op, u), op \in AccountChanges => u \in made
          PROVE  AccountRows'
        <3>1. [op |-> op, user |-> u] \in SessionRows
            BY DEF SessionRows
        <3>. QED  BY <2>1, <3>1 DEF Open, AccountRows
    <2>2. ASSUME NEW k \in Sessions, session' = [session EXCEPT ![k] = NoSession],
                 made \subseteq made', made' \subseteq Accounts,
                 usable' \subseteq made', deleted' \subseteq made', admins' \subseteq made'
          PROVE  AccountRows'
        BY <2>2 DEF AccountRows, SessionRows, AccountChanges, Takes, NoSession
    <2>3. ASSUME NEW k \in Sessions, ChangeWrite(k) PROVE AccountRows'
        <3>1. session[k].op \in AccountChanges /\ session[k].user \in made
            BY <2>3 DEF AccountRows, SessionRows, ChangeWrite, NoSession
        <3>2. usable' \subseteq made /\ admins' \subseteq made /\ deleted' \subseteq made
            BY <2>3, <3>1 DEF AccountRows, ChangeWrite
        <3>. QED  BY <2>2, <2>3, <3>2 DEF AccountRows, ChangeWrite
    <2>4. ASSUME NEW k \in Sessions, CreateAccountWrite(k) PROVE AccountRows'
        <3>1. session[k].user \in Accounts
            BY <2>4 DEF AccountRows, SessionRows, CreateAccountWrite, NoSession
        <3>. QED  BY <2>2, <2>4, <3>1 DEF AccountRows, CreateAccountWrite
    <2>5. ASSUME NEW k \in Sessions, SessionFails(k) PROVE AccountRows'
        BY <2>2, <2>5 DEF AccountRows, SessionFails
    <2>6. CASE UNCHANGED accountVars
        BY <2>6 DEF AccountRows, accountVars
    <2>. QED
        BY <2>1, <2>3, <2>4, <2>5, <2>6
           DEF AccountNext, TakeRead, RemoveRead, GiveRead, CreateAccountRead, AccountRows,
               AccountChanges, Takes, Existing
<1>3. AccountRows => AccountTypeOK
    BY DEF AccountRows, AccountTypeOK, SessionRows, AccountChanges, Takes, NoSession
<1>. QED  BY <1>1, <1>2, <1>3, PTL DEF AccountSpec

\* A rule that an update has read keeps its start.
RuleRows == [from : RuleDates, to : Ends, active : BOOLEAN]
Creating == [op : {"create"}, from : RuleDates, to : Ends]
Updating == [op : {"update"}, rule : Nat, to : Ends, newEnd : BOOLEAN, turned : BOOLEAN,
             active : BOOLEAN, version : BOOLEAN]

PriceRows ==
    /\ date \in RuleDates
    /\ rules \in Seq(RuleRows)
    /\ pricing \in [Pricers -> {NotPricing} \cup Creating \cup Updating]

PricesTyped ==
    /\ PriceRows
    /\ \A n \in DOMAIN rules : rules[n].from <= rules[n].to
    /\ \A k \in Pricers :
        /\ pricing[k].op = "create" => pricing[k].from <= pricing[k].to
        /\ pricing[k].op = "update" =>
            pricing[k].rule \in DOMAIN rules /\ rules[pricing[k].rule].from <= pricing[k].to

LEMMA RulesGrow ==
    ASSUME PricesTyped, NEW k \in Pricers, pricing' = [pricing EXCEPT ![k] = NotPricing],
           date' = date, rules' \in Seq(RuleRows), DOMAIN rules \subseteq DOMAIN rules',
           \A n \in DOMAIN rules' : rules'[n].from <= rules'[n].to,
           \A n \in DOMAIN rules : rules'[n].from = rules[n].from
    PROVE  PricesTyped'
<1>1. \A j \in Pricers : pricing'[j] = NotPricing \/ pricing'[j] = pricing[j]
    BY DEF PricesTyped, PriceRows
<1>2. pricing' \in [Pricers -> {NotPricing} \cup Creating \cup Updating]
    BY DEF PricesTyped, PriceRows
<1>. QED  BY <1>1, <1>2 DEF PricesTyped, PriceRows, NotPricing

LEMMA PriceTypes == PriceSpec => []PriceTypeOK
<1>1. PriceInit => PricesTyped
    BY LastDateAssumption DEF PriceInit, PricesTyped, PriceRows, RuleDates, NotPricing
<1>2. PricesTyped /\ [PriceNext]_priceVars => PricesTyped'
    <2>. SUFFICES ASSUME PricesTyped, [PriceNext]_priceVars PROVE PricesTyped'
        OBVIOUS
    <2>1. ASSUME NEW k \in Pricers, NEW f \in RuleDates, NEW t \in Ends, RuleRead(k, f, t)
          PROVE  PricesTyped'
        <3>1. [op |-> "create", from |-> f, to |-> t] \in Creating
            BY DEF Creating
        <3>. QED  BY <2>1, <3>1 DEF RuleRead, BeginPricing, PricesTyped, PriceRows
    <2>2. ASSUME NEW k \in Pricers, NEW n \in DOMAIN rules, NEW t \in Ends,
                 NEW on \in BOOLEAN, NEW repriced \in BOOLEAN, UpdateRead(k, n, t, on, repriced)
          PROVE  PricesTyped'
        <3>. DEFINE c == [op |-> "update", rule |-> n, to |-> t, newEnd |-> t # rules[n].to,
                          turned |-> on # rules[n].active, active |-> on,
                          version |-> rules[n].active /\ on /\ repriced]
        <3>1. rules[n] \in RuleRows /\ n \in Nat
            BY DEF PricesTyped, PriceRows
        <3>2. c \in Updating /\ c.op = "update" /\ c.rule = n /\ c.to = t
            BY <3>1 DEF Updating, RuleRows
        <3>3. BeginPricing(k, c) /\ rules[n].from <= t
            BY <2>2 DEF UpdateRead
        <3>. HIDE DEF c
        <3>. QED  BY <3>2, <3>3 DEF BeginPricing, PricesTyped, PriceRows
    <2>3. ASSUME NEW k \in Pricers, RuleWrite(k) PROVE PricesTyped'
        <3>. DEFINE row == Rule(pricing[k].from, pricing[k].to)
        <3>1. pricing[k] \in Creating /\ pricing[k].op = "create" /\ pricing[k].from <= pricing[k].to
            BY <2>3 DEF RuleWrite, PricesTyped, PriceRows, Updating, NotPricing
        <3>2. row \in RuleRows /\ row.from <= row.to
            BY <3>1 DEF Rule, RuleRows, Creating
        <3>3. rules' = Append(rules, row) /\ date' = date
            BY <2>3 DEF RuleWrite
        <3>. HIDE DEF row
        <3>4. /\ rules' \in Seq(RuleRows) /\ DOMAIN rules' = DOMAIN rules \cup {Len(rules) + 1}
              /\ rules'[Len(rules) + 1] = row
              /\ \A n \in DOMAIN rules : rules'[n] = rules[n]
            BY <3>2, <3>3 DEF PricesTyped, PriceRows
        <3>. QED  BY <2>3, <3>2, <3>3, <3>4, RulesGrow DEF RuleWrite, PricesTyped
    <2>4. ASSUME NEW k \in Pricers, EditWrite(k) PROVE PricesTyped'
        <3>. DEFINE ask == pricing[k]
                    n == pricing[k].rule
                    row == [rules[n] EXCEPT !.to = IF ask.newEnd THEN ask.to ELSE rules[n].to,
                                !.active = IF ask.turned THEN ask.active ELSE rules[n].active]
        <3>1. ask \in Updating /\ n \in DOMAIN rules /\ rules[n].from <= ask.to
            BY <2>4 DEF EditWrite, PricesTyped, PriceRows, Creating, NotPricing
        <3>2. rules[n] \in RuleRows /\ rules[n].from <= rules[n].to
            BY <3>1 DEF PricesTyped, PriceRows
        <3>3. row \in RuleRows /\ row.from = rules[n].from /\ row.from <= row.to
            BY <3>1, <3>2 DEF RuleRows, Updating
        <3>4. rules' = [rules EXCEPT ![n] = row] /\ date' = date
            BY <2>4, <3>1, <3>2 DEF EditWrite
        <3>. HIDE DEF row
        <3>5. /\ rules' \in Seq(RuleRows) /\ DOMAIN rules' = DOMAIN rules
              /\ rules'[n] = row
              /\ \A m \in DOMAIN rules \ {n} : rules'[m] = rules[m]
            BY <3>1, <3>3, <3>4 DEF PricesTyped, PriceRows
        <3>. QED  BY <2>4, <3>3, <3>4, <3>5, RulesGrow DEF EditWrite, PricesTyped
    <2>5. ASSUME NEW k \in Pricers, VersionWrite(k) PROVE PricesTyped'
        <3>. DEFINE ask == pricing[k]
                    n == pricing[k].rule
                    start == LaterOf(date, rules[n].from)
                    old == [rules[n] EXCEPT !.active = FALSE, !.to = start]
                    new == Rule(start, ask.to)
        <3>1. ask \in Updating /\ n \in DOMAIN rules
            BY <2>5 DEF VersionWrite, PricesTyped, PriceRows, Creating, NotPricing
        <3>2. rules[n] \in RuleRows
            BY <3>1 DEF PricesTyped, PriceRows
        <3>3. start \in RuleDates /\ rules[n].from <= start
            BY <3>2, LastDateAssumption DEF LaterOf, RuleRows, RuleDates, PricesTyped, PriceRows
        <3>4. /\ old \in RuleRows /\ old.from = rules[n].from /\ old.from <= old.to
              /\ new \in RuleRows
            BY <3>1, <3>2, <3>3 DEF RuleRows, Updating, Rule, Ends
        <3>5. new.from <= new.to
            BY <2>5, <3>4 DEF VersionWrite, Rule
        <3>6. rules' = Append([rules EXCEPT ![n] = old], new) /\ date' = date
            BY <2>5, <3>1, <3>2 DEF VersionWrite
        <3>. HIDE DEF old, new, start
        <3>7. /\ rules' \in Seq(RuleRows) /\ DOMAIN rules' = DOMAIN rules \cup {Len(rules) + 1}
              /\ rules'[Len(rules) + 1] = new
              /\ rules'[n] = old
              /\ \A m \in DOMAIN rules \ {n} : rules'[m] = rules[m]
            BY <3>1, <3>4, <3>6 DEF PricesTyped, PriceRows
        <3>. QED  BY <2>5, <3>4, <3>5, <3>6, <3>7, RulesGrow DEF VersionWrite, PricesTyped
    <2>6. ASSUME NEW k \in Pricers, PricingFails(k) PROVE PricesTyped'
        BY <2>6, RulesGrow DEF PricingFails, PricesTyped, PriceRows
    <2>7. ASSUME NEW n \in DOMAIN rules, Deactivate(n) PROVE PricesTyped'
        <3>. DEFINE row == [rules[n] EXCEPT !.active = FALSE]
        <3>1. rules[n] \in RuleRows
            BY DEF PricesTyped, PriceRows
        <3>2. row \in RuleRows /\ row.from = rules[n].from /\ row.to = rules[n].to
            BY <3>1 DEF RuleRows
        <3>3. rules' = [rules EXCEPT ![n] = row] /\ UNCHANGED <<date, pricing>>
            BY <2>7 DEF Deactivate
        <3>. HIDE DEF row
        <3>4. /\ rules' \in Seq(RuleRows) /\ DOMAIN rules' = DOMAIN rules
              /\ \A m \in DOMAIN rules : rules'[m].from = rules[m].from /\ rules'[m].to = rules[m].to
            BY <3>2, <3>3 DEF PricesTyped, PriceRows
        <3>. QED  BY <3>3, <3>4 DEF PricesTyped, PriceRows
    <2>8. CASE NextDate
        BY <2>8, LastDateAssumption DEF NextDate, PricesTyped, PriceRows, RuleDates
    <2>9. CASE UNCHANGED priceVars
        BY <2>9 DEF priceVars, PricesTyped, PriceRows
    <2>. QED
        BY <2>1, <2>2, <2>3, <2>4, <2>5, <2>6, <2>7, <2>8, <2>9 DEF PriceNext
<1>3. PricesTyped => PriceTypeOK
    BY DEF PricesTyped, PriceRows, PriceTypeOK, RuleRows, Creating, Updating
<1>. QED  BY <1>1, <1>2, <1>3, PTL DEF PriceSpec

Duties == [op : {"start", "complete"}, due : Dates, after : Nat, execution : {0} \cup Dates]

UpkeepRows ==
    /\ dueDate \in Dates
    /\ interval \in Intervals
    /\ executions \in [Dates -> OpenStatuses \cup {"none", "COMPLETED"}]
    /\ duty \in [Crew -> {NoDuty} \cup Duties]

LEMMA UpkeepTypes == UpkeepSpec => []UpkeepTypeOK
<1>1. UpkeepInit => UpkeepRows
    BY LastDueAssumption DEF UpkeepInit, UpkeepRows, Dates, OpenStatuses
<1>2. UpkeepRows /\ [UpkeepNext]_upkeepVars => UpkeepRows'
    <2>. SUFFICES ASSUME UpkeepRows, [UpkeepNext]_upkeepVars PROVE UpkeepRows'
        OBVIOUS
    <2>1. ASSUME NEW w \in Crew, NEW op \in {"start", "complete"}, ReadSchedule(w, op)
          PROVE  UpkeepRows'
        <3>1. OpenDates # {} => Earliest \in Dates
            <4>1. ASSUME OpenDates # {} PROVE Earliest \in OpenDates
                <5>1. OpenDates \in SUBSET Nat
                    BY LastDueAssumption DEF OpenDates, Dates
                <5>2. \E d \in OpenDates : \A e \in OpenDates : d <= e
                    BY <4>1, <5>1, LeastNumber
                <5>. QED  BY <5>2, Zenon DEF Earliest
            <4>. QED  BY <4>1 DEF OpenDates
        <3>2. PICK n \in {0} \cup Dates : n = IF OpenDates = {} THEN 0 ELSE Earliest
            BY <3>1
        <3>3. dueDate + interval \in Nat
            BY LastDueAssumption, IntervalsAssumption DEF UpkeepRows, Dates
        <3>4. [op |-> op, due |-> dueDate, after |-> dueDate + interval, execution |-> n] \in Duties
            BY <3>3 DEF Duties, UpkeepRows
        <3>. QED  BY <2>1, <3>2, <3>4 DEF ReadSchedule, Assigned, UpkeepRows
    <2>2. ASSUME NEW w \in Crew, MakeExecution(w) PROVE UpkeepRows'
        <3>1. duty[w] \in Duties
            BY <2>2 DEF MakeExecution, UpkeepRows
        <3>2. [duty[w] EXCEPT !.execution = duty[w].due] \in Duties
            BY <3>1 DEF Duties
        <3>3. duty[w].due \in Dates
            BY <3>1 DEF Duties
        <3>. QED  BY <2>2, <3>2, <3>3 DEF MakeExecution, Assigned, UpkeepRows, OpenStatuses
    <2>3. ASSUME NEW w \in Crew, AbandonDuty(w) PROVE UpkeepRows'
        BY <2>3 DEF AbandonDuty, Assigned, UpkeepRows
    <2>4. ASSUME NEW w \in Crew, StartWork(w) PROVE UpkeepRows'
        BY <2>4 DEF StartWork, Assigned, UpkeepRows, OpenStatuses
    <2>5. ASSUME NEW w \in Crew, CompleteWork(w) PROVE UpkeepRows'
        BY <2>5 DEF CompleteWork, Finished, Assigned, UpkeepRows, OpenStatuses
    <2>6. ASSUME NEW d \in Dates, NEW n \in Intervals, Reschedule(d, n) PROVE UpkeepRows'
        BY <2>6 DEF Reschedule, UpkeepRows
    <2>7. CASE UNCHANGED upkeepVars
        BY <2>7 DEF UpkeepRows, upkeepVars
    <2>. QED  BY <2>1, <2>2, <2>3, <2>4, <2>5, <2>6, <2>7 DEF UpkeepNext
<1>3. UpkeepRows => UpkeepTypeOK
    BY DEF UpkeepRows, UpkeepTypeOK, Duties, NoDuty
<1>. QED  BY <1>1, <1>2, <1>3, PTL DEF UpkeepSpec

Sendings ==
    {NotSending}
    \cup [at : {"queue", "look", "token", "post"}, payload : 0 .. MaxContent, tries : Nat]
    \cup [at : {"record"}, payload : 0 .. MaxContent, result : {"FAILED", "SUCCESS"}]

SapTyped ==
    /\ enabled \in BOOLEAN /\ token \in BOOLEAN
    /\ content \in 1 .. MaxContent /\ posted \in 0 .. MaxContent
    /\ sapLog \in [status : {"none", "PENDING", "FAILED", "SUCCESS"}, payload : 0 .. MaxContent]
    /\ breaker \in [failures : Nat, circuit : {"closed", "open", "rested"}]
    /\ breaker.circuit = "closed" => breaker.failures < Threshold
    /\ sending \in [Senders -> Sendings]

LEMMA SapTypes == SapSpec => []SapTypeOK
<1>. USE AttemptsAssumption, ContentAssumption
<1>1. ASSUME SapInit PROVE SapTyped
    <2>1. /\ breaker \in [failures : Nat, circuit : {"closed", "open", "rested"}]
          /\ breaker.failures < Threshold
        BY <1>1 DEF SapInit, Closed
    <2>2. sapLog \in [status : {"none", "PENDING", "FAILED", "SUCCESS"}, payload : 0 .. MaxContent]
        BY <1>1 DEF SapInit
    <2>3. sending \in [Senders -> Sendings]
        BY <1>1 DEF SapInit, Sendings
    <2>4. enabled \in BOOLEAN /\ token \in BOOLEAN
        BY <1>1, Zenon DEF SapInit
    <2>5. content \in 1 .. MaxContent /\ posted \in 0 .. MaxContent
        BY <1>1 DEF SapInit
    <2>. QED  BY <2>1, <2>2, <2>3, <2>4, <2>5, Zenon DEF SapTyped
<1>2. SapTyped /\ [SapNext]_sapVars => SapTyped'
    <2>. SUFFICES ASSUME SapTyped, [SapNext]_sapVars PROVE SapTyped'
        OBVIOUS
    <2>1. ASSUME NEW k \in Senders, NEW c \in Sendings, Send(k, c)
          PROVE  sending' \in [Senders -> Sendings]
        BY <2>1 DEF Send, SapTyped
    <2>2. ASSUME NEW k \in Senders, sending[k].at \in {"queue", "look", "token", "post"}
          PROVE  sending[k] \in [at : {"queue", "look", "token", "post"}, payload : 0 .. MaxContent,
                                 tries : Nat]
        BY <2>2 DEF SapTyped, Sendings, NotSending
    <2>3. ASSUME NEW k \in Senders, NEW r \in {"FAILED", "SUCCESS"},
                 sending[k].at \in {"token", "post"}, Recording(k, r)
          PROVE  sending' \in [Senders -> Sendings]
        <3>1. [at |-> "record", payload |-> sending[k].payload, result |-> r] \in Sendings
            BY <2>2, <2>3 DEF Sendings
        <3>. QED  BY <2>1, <2>3, <3>1 DEF Recording
    <2>4. ASSUME NEW k \in Senders, sending[k].at \in {"token", "post"}, Handle(k)
          PROVE  posted' \in 0 .. MaxContent
        BY <2>2, <2>4 DEF Handle, SapTyped
    <2>5. Failure \in [failures : Nat, circuit : {"closed", "open", "rested"}]
          /\ (Failure.circuit = "closed" => Failure.failures < Threshold)
        BY DEF Failure, SapTyped
    <2>6. Closed \in [failures : Nat, circuit : {"closed", "open", "rested"}]
          /\ Closed.failures < Threshold
        BY DEF Closed
    <2>7. ASSUME NEW k \in Senders, NEW st \in {"PENDING", "FAILED", "SUCCESS"},
                 WriteLog(k, st), sending[k].at \in {"queue", "record"}
          PROVE  SapTyped'
        <3>1. sending[k].payload \in 0 .. MaxContent
            BY <2>7 DEF SapTyped, Sendings, NotSending
        <3>2. NotSending \in Sendings
            BY DEF Sendings
        <3>3. sending' \in [Senders -> Sendings]
            BY <2>1, <2>7, <3>2 DEF WriteLog
        <3>. QED  BY <2>7, <3>1, <3>3 DEF WriteLog, SapTyped
    <2>8. ASSUME NEW k \in Senders, Sync(k) \/ Retry(k) PROVE SapTyped'
        <3>1. CASE Sync(k)
            <4>. DEFINE c == [at |-> IF enabled THEN "look" ELSE "queue", payload |-> content,
                              tries |-> 0]
            <4>1. c \in Sendings
                BY DEF Sendings, SapTyped
            <4>2. sending' \in [Senders -> Sendings]
                BY <2>1, <3>1, <4>1 DEF Sync
            <4>. QED  BY <3>1, <4>2 DEF Sync, SapTyped
        <3>2. CASE Retry(k)
            <4>1. [at |-> "look", payload |-> sapLog.payload, tries |-> 0] \in Sendings
                BY DEF Sendings, SapTyped
            <4>2. sending' \in [Senders -> Sendings]
                BY <2>1, <3>2, <4>1 DEF Retry
            <4>. QED  BY <3>2, <4>2 DEF Retry, SapTyped
        <3>. QED  BY <2>8, <3>1, <3>2
    <2>9. ASSUME NEW k \in Senders, Look(k) PROVE SapTyped'
        <3>. DEFINE c == [sending[k] EXCEPT !.at = IF token THEN "post" ELSE "token"]
        <3>1. c \in Sendings /\ NotSending \in Sendings
            BY <2>2, <2>9 DEF Look, Sendings
        <3>. HIDE DEF c
        <3>2. Send(k, NotSending) \/ Send(k, c)
            BY <2>9 DEF Look, c
        <3>3. sending' \in [Senders -> Sendings]
            BY <2>1, <3>1, <3>2
        <3>. QED  BY <2>9, <3>3 DEF Look, SapTyped
    <2>10. ASSUME NEW k \in Senders, Enter(k) PROVE SapTyped'
        <3>. DEFINE c == [sending[k] EXCEPT !.tries = 1]
        <3>1. c \in Sendings
            BY <2>2, <2>10 DEF Enter, Sendings
        <3>. HIDE DEF c
        <3>2. Recording(k, "FAILED") \/ Send(k, c)
            BY <2>10 DEF Enter, c
        <3>3. sending' \in [Senders -> Sendings]
            BY <2>1, <2>3, <2>10, <3>1, <3>2 DEF Enter
        <3>4. breaker' = breaker \/ breaker' = Closed
            BY <2>10 DEF Enter
        <3>. QED  BY <2>6, <2>10, <3>3, <3>4 DEF Enter, SapTyped
    <2>11. ASSUME NEW k \in Senders, Refused(k) PROVE SapTyped'
        <3>1. sending' \in [Senders -> Sendings]
            BY <2>3, <2>11 DEF Refused, UnderWay
        <3>. QED  BY <2>6, <2>11, <3>1 DEF Refused, SapTyped
    <2>12. ASSUME NEW k \in Senders, Answered(k) PROVE SapTyped'
        <3>. DEFINE c == [sending[k] EXCEPT !.at = "post", !.tries = 0]
        <3>1. c \in Sendings
            BY <2>2, <2>12 DEF Answered, UnderWay, Sendings
        <3>. HIDE DEF c
        <3>2. Recording(k, "SUCCESS") \/ Send(k, c)
            BY <2>12 DEF Answered, c
        <3>3. sending' \in [Senders -> Sendings]
            BY <2>1, <2>3, <2>12, <3>1, <3>2 DEF Answered, UnderWay
        <3>4. posted' \in 0 .. MaxContent
            BY <2>4, <2>12 DEF Answered, UnderWay
        <3>5. token' \in BOOLEAN
            BY <2>12 DEF Answered, SapTyped
        <3>. QED  BY <2>6, <2>12, <3>3, <3>4, <3>5 DEF Answered, SapTyped
    <2>13. ASSUME NEW k \in Senders, Unanswered(k) \/ Broken(k) PROVE SapTyped'
        <3>. DEFINE c == [sending[k] EXCEPT !.tries = @ + 1]
        <3>1. UnderWay(k)
            BY <2>13 DEF Unanswered, Broken
        <3>2. c \in Sendings
            BY <2>2, <3>1 DEF UnderWay, Sendings
        <3>. HIDE DEF c
        <3>3. Recording(k, "FAILED") \/ Send(k, c)
            BY <2>13 DEF Unanswered, Broken, c
        <3>4. sending' \in [Senders -> Sendings]
            BY <2>1, <2>3, <3>1, <3>2, <3>3 DEF UnderWay
        <3>5. posted' \in 0 .. MaxContent
            BY <2>4, <2>13, <3>1 DEF Unanswered, Broken, UnderWay, SapTyped
        <3>6. breaker' = breaker \/ breaker' = Failure
            BY <2>13 DEF Unanswered, Broken
        <3>7. UNCHANGED <<enabled, content, sapLog, token>>
            BY <2>13 DEF Unanswered, Broken
        <3>. QED  BY <2>5, <3>4, <3>5, <3>6, <3>7 DEF SapTyped
    <2>14. ASSUME NEW k \in Senders, Record(k) PROVE SapTyped'
        <3>1. sending[k].result \in {"FAILED", "SUCCESS"}
            BY <2>14 DEF Record, SapTyped, Sendings, NotSending
        <3>. QED  BY <2>7, <2>14, <3>1 DEF Record
    <2>15. ASSUME NEW k \in Senders, Queue(k) PROVE SapTyped'
        BY <2>7, <2>15 DEF Queue
    <2>16. ASSUME NEW on \in BOOLEAN, Restart(on) PROVE SapTyped'
        BY <2>6, <2>16 DEF Restart, SapTyped, Sendings
    <2>17. CASE Revise \/ Cooldown \/ TokenExpires
        <3>1. CASE Revise
            BY <3>1 DEF Revise, SapTyped
        <3>3. CASE TokenExpires
            <4>1. token' \in BOOLEAN
                BY <3>3, Zenon DEF TokenExpires
            <4>. QED  BY <3>3, <4>1 DEF TokenExpires, SapTyped
        <3>2. CASE Cooldown
            <4>1. /\ breaker' \in [failures : Nat, circuit : {"closed", "open", "rested"}]
                  /\ breaker'.circuit # "closed"
                BY <3>2 DEF Cooldown, SapTyped
            <4>. QED  BY <3>2, <4>1 DEF Cooldown, SapTyped
        <3>. QED  BY <2>17, <3>1, <3>2, <3>3
    <2>18. CASE UNCHANGED sapVars
        BY <2>18 DEF sapVars, SapTyped
    <2>. QED
        BY <2>8, <2>9, <2>10, <2>11, <2>12, <2>13, <2>14, <2>15, <2>16, <2>17, <2>18 DEF SapNext
<1>3. SapTyped => SapTypeOK
    BY DEF SapTyped, SapTypeOK, Sendings, NotSending
<1>. QED  BY <1>1, <1>2, <1>3, PTL DEF SapSpec

Placing == [op : {"create", "move"}, department : Departments, under : Above, at : Above,
            seen : SUBSET Departments]
Assigning == [op : {"assign"}, user : Members, department : Above]

TreeRows ==
    /\ founded \subseteq Departments /\ gone \subseteq Departments \ founded
    /\ parent \in [Departments -> Above]
    /\ member \in [Members -> Above]
    /\ editing \in [Editors -> {NotEditing} \cup Placing \cup Assigning]

TreeTyped ==
    /\ TreeRows
    /\ \A d \in Departments : d \notin founded => parent[d] = Root

LEMMA TreeTypes == TreeSpec => []TreeTypeOK
<1>1. TreeInit => TreeTyped
    BY DEF TreeInit, TreeTyped, TreeRows, NotEditing, Above
<1>2. TreeTyped /\ [TreeNext]_treeVars => TreeTyped'
    <2>. SUFFICES ASSUME TreeTyped, [TreeNext]_treeVars PROVE TreeTyped'
        OBVIOUS
    <2>1. ASSUME NEW k \in Editors, NEW c \in Placing \cup Assigning, BeginEdit(k, c)
          PROVE  TreeTyped'
        BY <2>1 DEF BeginEdit, TreeTyped, TreeRows
    <2>2. ASSUME NEW k \in Editors, NEW op \in {"create", "move"}, NEW d \in Departments,
                 NEW above \in Above, Place(k, op, d, above)
          PROVE  TreeTyped'
        <3>1. [op |-> op, department |-> d, under |-> above, at |-> above, seen |-> {}] \in Placing
            BY DEF Placing
        <3>. QED  BY <2>1, <2>2, <3>1 DEF Place
    <2>3. ASSUME NEW k \in Editors, NEW w \in Members, NEW d \in Above, AssignRead(k, w, d)
          PROVE  TreeTyped'
        <3>1. [op |-> "assign", user |-> w, department |-> d] \in Assigning
            BY DEF Assigning
        <3>. QED  BY <2>1, <2>3, <3>1 DEF AssignRead
    <2>4. ASSUME NEW k \in Editors, Climb(k) PROVE TreeTyped'
        <3>. DEFINE e == editing[k]
                    c == [e EXCEPT !.at = parent[e.at], !.seen = e.seen \cup {e.at}]
        <3>1. e \in Placing /\ e.at \in founded
            BY <2>4 DEF Climb, TreeTyped, TreeRows, Assigning, NotEditing
        <3>2. parent[e.at] \in Above /\ e.at \in Departments
            BY <3>1 DEF TreeTyped, TreeRows
        <3>3. c \in Placing
            BY <3>1, <3>2 DEF Placing
        <3>4. editing' = [editing EXCEPT ![k] = c] /\ UNCHANGED <<founded, gone, parent, member>>
            BY <2>4, <3>1 DEF Climb, Placing
        <3>. HIDE DEF c
        <3>. QED  BY <3>3, <3>4 DEF TreeTyped, TreeRows
    <2>5. ASSUME NEW k \in Editors, Put(k) PROVE TreeTyped'
        <3>1. editing[k] \in Placing
            BY <2>5 DEF Put, TreeTyped, TreeRows, Assigning, NotEditing
        <3>2. editing[k].department \in Departments /\ editing[k].under \in Above
            BY <3>1 DEF Placing
        <3>. QED  BY <2>5, <3>2 DEF Put, Leave, TreeTyped, TreeRows
    <2>6. ASSUME NEW k \in Editors, AssignWrite(k) PROVE TreeTyped'
        <3>1. editing[k].department \in Above
            BY <2>6 DEF AssignWrite, TreeTyped, TreeRows, Placing, Assigning, NotEditing
        <3>. QED  BY <2>6, <3>1 DEF AssignWrite, Leave, TreeTyped, TreeRows
    <2>7. ASSUME NEW k \in Editors, EditFails(k) PROVE TreeTyped'
        BY <2>7 DEF EditFails, Leave, TreeTyped, TreeRows
    <2>8. ASSUME NEW d \in Departments, Remove(d) PROVE TreeTyped'
        BY <2>8 DEF Remove, TreeTyped, TreeRows, Above
    <2>9. CASE UNCHANGED treeVars
        BY <2>9 DEF treeVars, TreeTyped, TreeRows
    <2>. QED  BY <2>2, <2>3, <2>4, <2>5, <2>6, <2>7, <2>8, <2>9 DEF TreeNext
<1>3. TreeTyped => TreeTypeOK
    BY DEF TreeTyped, TreeRows, TreeTypeOK, Placing, Assigning, NotEditing
<1>. QED  BY <1>1, <1>2, <1>3, PTL DEF TreeSpec

MergeErrands ==
    {NoErrand}
    \cup [op : {"merge"}, us : SUBSET Units]
    \cup [op : {"split"}, c : Combined]
    \cup [op : {"lease"}, u : Units, to : UnitStatuses]

\* What is merged are rows, and no row goes: a combined unit that is not one
\* yet is none of them.
MergeTyped ==
    /\ unit \in [Units -> [status : UnitStatuses, active : BOOLEAN, made : SUBSET Units]]
    /\ errand \in [Clerks -> MergeErrands]
    /\ \A p \in Parts : unit[p].made = {}
    /\ \A c \in Combined : c \notin unit[c].made /\ (unit[c].made = {} => ~unit[c].active)
    /\ \A u \in Units : \A w \in unit[u].made : IsRow(w)
    /\ \A k \in Clerks : errand[k].op = "merge" =>
        errand[k].us # {} /\ \A u \in errand[k].us : IsRow(u)

LEMMA ErrandTaken ==
    ASSUME MergeTyped, NEW k \in Clerks, NEW e \in MergeErrands,
           errand' = [errand EXCEPT ![k] = e], unit' = unit,
           e.op = "merge" => e.us # {} /\ \A u \in e.us : IsRow(u)
    PROVE  MergeTyped'
BY DEF MergeTyped, IsRow

LEMMA UnitsWritten ==
    ASSUME MergeTyped, NEW k \in Clerks, errand' = errand \/ Done(k),
           unit' \in [Units -> [status : UnitStatuses, active : BOOLEAN, made : SUBSET Units]],
           \A u \in Units : unit'[u].made = unit[u].made,
           \A c \in Combined : unit[c].made = {} => (unit'[c].active => unit[c].active)
    PROVE  MergeTyped'
<1>1. \A u \in Units : IsRow(u)' <=> IsRow(u)
    BY DEF IsRow
<1>2. errand' \in [Clerks -> MergeErrands] /\ \A j \in Clerks : errand'[j] \in {errand[j], NoErrand}
    BY DEF Done, MergeTyped, MergeErrands
<1>3. \A j \in Clerks : errand'[j].op = "merge" =>
        errand'[j].us # {} /\ \A u \in errand'[j].us : IsRow(u)'
    <2>. SUFFICES ASSUME NEW j \in Clerks, errand'[j].op = "merge"
                  PROVE  errand'[j].us # {} /\ \A u \in errand'[j].us : IsRow(u)'
        OBVIOUS
    <2>1. errand'[j] = errand[j]
        BY <1>2 DEF NoErrand
    <2>2. errand[j].us \subseteq Units
        BY <2>1 DEF MergeTyped, MergeErrands, NoErrand
    <2>. QED  BY <1>1, <2>1, <2>2 DEF MergeTyped
<1>4. \A u \in Units : \A w \in unit'[u].made : IsRow(w)'
    BY <1>1 DEF MergeTyped
<1>. QED  BY <1>2, <1>3, <1>4 DEF MergeTyped, Units

LEMMA MergeTypes == MergeSpec => []MergeTypeOK
<1>1. ASSUME MergeInit PROVE MergeTyped
    <2>1. ASSUME NEW u \in Units
          PROVE  /\ unit[u] \in [status : UnitStatuses, active : BOOLEAN, made : SUBSET Units]
                 /\ unit[u].made = {} /\ (unit[u].active <=> u \in Parts)
        <3>. DEFINE isPart == u \in Parts
        <3>1. unit[u] = [status |-> "VACANT", active |-> isPart, made |-> {}]
            BY <1>1 DEF MergeInit, Missing
        <3>2. isPart \in BOOLEAN /\ (isPart <=> u \in Parts)
            OBVIOUS
        <3>. HIDE DEF isPart
        <3>. QED  BY <3>1, <3>2 DEF UnitStatuses
    <2>2. unit = [u \in Units |-> unit[u]]
        BY <1>1 DEF MergeInit
    <2>3. errand \in [Clerks -> MergeErrands] /\ \A k \in Clerks : errand[k] = NoErrand
        BY <1>1 DEF MergeInit, MergeErrands
    <2>4. unit \in [Units -> [status : UnitStatuses, active : BOOLEAN, made : SUBSET Units]]
        BY <2>1, <2>2
    <2>5. Combined \subseteq Units /\ Parts \subseteq Units /\ Parts \cap Combined = {}
        BY UnitsAssumption DEF Units
    <2>. QED  BY <2>1, <2>3, <2>4, <2>5 DEF MergeTyped, NoErrand
<1>2. MergeTyped /\ [MergeNext]_mergeVars => MergeTyped'
    <2>. SUFFICES ASSUME MergeTyped, [MergeNext]_mergeVars PROVE MergeTyped'
        OBVIOUS
    <2>1. ASSUME NEW k \in Clerks, NEW us \in SUBSET Units, MergeRead(k, us) PROVE MergeTyped'
        <3>1. us # {}
            BY <2>1, FS_EmptySet DEF MergeRead
        <3>2. \A u \in us : IsRow(u)
            BY <2>1 DEF MergeRead, MergeTyped, IsRow, Units
        <3>3. [op |-> "merge", us |-> us] \in MergeErrands
            BY DEF MergeErrands
        <3>. QED  BY <2>1, <3>1, <3>2, <3>3, ErrandTaken DEF MergeRead
    <2>2. ASSUME NEW k \in Clerks, NEW c \in Combined, SplitRead(k, c) PROVE MergeTyped'
        <3>1. [op |-> "split", c |-> c] \in MergeErrands
            BY DEF MergeErrands
        <3>. QED  BY <2>2, <3>1, ErrandTaken DEF SplitRead
    <2>3. ASSUME NEW k \in Clerks, NEW u \in Units, NEW new \in Lettings, LeaseRead(k, u, new)
          PROVE  MergeTyped'
        <3>1. [op |-> "lease", u |-> u, to |-> new] \in MergeErrands
            BY LettingsAssumption DEF MergeErrands
        <3>. QED  BY <2>3, <3>1, ErrandTaken DEF LeaseRead
    <2>4. ASSUME NEW k \in Clerks, NEW c \in Combined, MergeWrite(k, c) PROVE MergeTyped'
        <3>. DEFINE us == errand[k].us
        <3>1. /\ us \in SUBSET Units /\ us # {} /\ \A u \in us : IsRow(u) /\ c \notin us
            BY <2>4 DEF MergeWrite, MergeTyped, MergeErrands, NoErrand
        <3>2. /\ unit' \in [Units -> [status : UnitStatuses, active : BOOLEAN, made : SUBSET Units]]
              /\ unit'[c].made = us
              /\ \A u \in Units \ {c} : unit'[u].made = unit[u].made /\ unit'[u].active = unit[u].active
            BY <2>4, <3>1 DEF MergeWrite, MergeTyped, UnitStatuses, Units
        <3>3. \A u \in Units : IsRow(u) => IsRow(u)'
            BY <3>1, <3>2 DEF IsRow
        <3>4. errand' \in [Clerks -> MergeErrands] /\ \A j \in Clerks : errand'[j] \in {errand[j], NoErrand}
            BY <2>4 DEF MergeWrite, Done, MergeTyped, MergeErrands
        <3>5. \A j \in Clerks : errand'[j].op = "merge" =>
                errand'[j].us # {} /\ \A u \in errand'[j].us : IsRow(u)'
            <4>. SUFFICES ASSUME NEW j \in Clerks, errand'[j].op = "merge"
                          PROVE  errand'[j].us # {} /\ \A u \in errand'[j].us : IsRow(u)'
                OBVIOUS
            <4>1. errand'[j] = errand[j]
                BY <3>4 DEF NoErrand
            <4>2. errand[j].us \subseteq Units
                BY <4>1 DEF MergeTyped, MergeErrands, NoErrand
            <4>. QED  BY <3>3, <4>1, <4>2 DEF MergeTyped
        <3>6. \A u \in Units : \A w \in unit'[u].made : IsRow(w)'
            BY <3>1, <3>2, <3>3 DEF MergeTyped
        <3>7. \A p \in Parts : unit'[p].made = {}
            BY <3>2, UnitsAssumption DEF MergeTyped, Units
        <3>8. \A d \in Combined : d \notin unit'[d].made /\ (unit'[d].made = {} => ~unit'[d].active)
            BY <3>1, <3>2 DEF MergeTyped, Units
        <3>. QED  BY <3>2, <3>4, <3>5, <3>6, <3>7, <3>8 DEF MergeTyped
    <2>5. ASSUME NEW k \in Clerks, SplitWrite(k) PROVE MergeTyped'
        <3>1. errand[k].c \in Combined /\ \A u \in unit[errand[k].c].made : IsRow(u)
            <4>1. errand[k] \in [op : {"split"}, c : Combined]
                <5>1. errand[k] \in MergeErrands /\ errand[k].op = "split"
                    BY <2>5 DEF SplitWrite, MergeTyped
                <5>. QED  BY <5>1 DEF MergeErrands, NoErrand
            <4>2. errand[k].c \in Combined /\ errand[k].c \in Units
                BY <4>1 DEF Units
            <4>. QED  BY <4>2 DEF MergeTyped
        <3>2. /\ unit' \in [Units -> [status : UnitStatuses, active : BOOLEAN, made : SUBSET Units]]
              /\ \A u \in Units : unit'[u].made = unit[u].made
            <4>1. ASSUME NEW u \in Units
                  PROVE  /\ unit'[u] \in [status : UnitStatuses, active : BOOLEAN, made : SUBSET Units]
                         /\ unit'[u].made = unit[u].made
                <5>1. unit[u] \in [status : UnitStatuses, active : BOOLEAN, made : SUBSET Units]
                    BY DEF MergeTyped
                <5>2. \/ unit'[u] = [[unit[u] EXCEPT !.status = "VACANT"] EXCEPT !.active = TRUE]
                      \/ unit'[u] = [unit[u] EXCEPT !.active = FALSE]
                      \/ unit'[u] = unit[u]
                    BY <2>5, <5>1 DEF SplitWrite
                <5>. QED  BY <5>1, <5>2 DEF UnitStatuses
            <4>2. unit' = [u \in Units |-> unit'[u]]
                BY <2>5 DEF SplitWrite
            <4>. QED  BY <4>1, <4>2
        <3>3. ASSUME NEW d \in Combined, unit[d].made = {}, unit'[d].active PROVE unit[d].active
            <4>1. d \notin unit[errand[k].c].made
                BY <3>1, <3>3, UnitsAssumption DEF IsRow
            <4>. QED  BY <2>5, <3>3, <4>1 DEF SplitWrite, MergeTyped, Units
        <3>. QED  BY <2>5, <3>2, <3>3, UnitsWritten DEF SplitWrite
    <2>6. ASSUME NEW k \in Clerks, LeaseWrite(k) PROVE MergeTyped'
        <3>1. errand[k].u \in Units /\ errand[k].to \in UnitStatuses
            BY <2>6 DEF LeaseWrite, MergeTyped, MergeErrands, NoErrand
        <3>2. /\ unit' \in [Units -> [status : UnitStatuses, active : BOOLEAN, made : SUBSET Units]]
              /\ \A u \in Units : unit'[u].made = unit[u].made /\ unit'[u].active = unit[u].active
            BY <2>6, <3>1 DEF LeaseWrite, MergeTyped
        <3>. QED  BY <2>6, <3>2, UnitsWritten DEF LeaseWrite, Units
    <2>7. ASSUME NEW u \in Units, DeleteUnit(u) PROVE MergeTyped'
        <3>1. /\ unit' \in [Units -> [status : UnitStatuses, active : BOOLEAN, made : SUBSET Units]]
              /\ \A v \in Units : unit'[v].made = unit[v].made /\ (unit'[v].active => unit[v].active)
            <4>. DEFINE row == [unit[u] EXCEPT !.active = FALSE]
            <4>1. unit[u] \in [status : UnitStatuses, active : BOOLEAN, made : SUBSET Units]
                BY DEF MergeTyped
            <4>2. /\ row \in [status : UnitStatuses, active : BOOLEAN, made : SUBSET Units]
                  /\ row.made = unit[u].made /\ ~row.active
                BY <4>1
            <4>3. unit' = [unit EXCEPT ![u] = row]
                BY <2>7 DEF DeleteUnit
            <4>. HIDE DEF row
            <4>. QED  BY <4>2, <4>3 DEF MergeTyped
        <3>2. \A v \in Units : IsRow(v)' <=> IsRow(v)
            BY <3>1 DEF IsRow
        <3>3. \A k \in Clerks : errand[k].op = "merge" => errand[k].us \subseteq Units
            BY DEF MergeTyped, MergeErrands, NoErrand
        <3>. QED  BY <2>7, <3>1, <3>2, <3>3 DEF DeleteUnit, MergeTyped, Units
    <2>8. CASE UNCHANGED mergeVars
        BY <2>8 DEF mergeVars, MergeTyped, IsRow
    <2>. QED  BY <2>1, <2>2, <2>3, <2>4, <2>5, <2>6, <2>7, <2>8 DEF MergeNext
<1>3. MergeTyped => MergeTypeOK
    BY DEF MergeTyped, MergeTypeOK, MergeErrands, NoErrand
<1>. QED  BY <1>1, <1>2, <1>3, PTL DEF MergeSpec

StageTasks ==
    {NoTask}
    \cup [op : {"create"}, to : Stages]
    \cup [op : {"advance"}, from : Stages, to : Stages]
    \cup [op : {"deactivate"}, stage : Stages]

StageTyped ==
    /\ order \in [Stages -> Places]
    /\ active \subseteq Stages
    /\ project \in Stages \cup {"none"}
    /\ milestone \in [Stages -> {"none", "open", "done"}]
    /\ contract \in {"live", "over", "next"} /\ space \in UnitStatuses
    /\ task \in [Users -> StageTasks]

LEMMA StageTypes == StageSpec => []StageTypeOK
<1>1. StageInit => StageTyped
    BY DEF StageInit, StageTyped, StageTasks, UnitStatuses
<1>2. StageTyped /\ [StageNext]_stageVars => StageTyped'
    <2>. SUFFICES ASSUME StageTyped, [StageNext]_stageVars PROVE StageTyped'
        OBVIOUS
    <2>1. ASSUME NEW k \in Users, NEW c \in StageTasks, Request(k, c)
          PROVE  StageTyped'
        BY <2>1 DEF Request, StageTyped
    <2>2. ASSUME NEW k \in Users, Answer(k)
          PROVE  task' \in [Users -> StageTasks]
        BY <2>2 DEF Answer, StageTyped, StageTasks
    <2>3. ASSUME NEW k \in Users, CreateRead(k) PROVE StageTyped'
        <3>1. PICK s \in First : Request(k, [op |-> "create", to |-> s])
            BY <2>3 DEF CreateRead
        <3>2. [op |-> "create", to |-> s] \in StageTasks
            BY DEF First, StageTyped, StageTasks
        <3>. QED  BY <2>1, <3>1, <3>2
    <2>4. ASSUME NEW k \in Users, CreateWrite(k) PROVE StageTyped'
        <3>1. task[k] \in StageTasks /\ task[k].op = "create"
            BY <2>4 DEF CreateWrite, StageTyped
        <3>2. task[k].to \in Stages
            BY <3>1 DEF StageTasks, NoTask
        <3>3. task' \in [Users -> StageTasks]
            BY <2>2, <2>4 DEF CreateWrite
        <3>. QED  BY <2>4, <3>2, <3>3 DEF CreateWrite, StageTyped
    <2>5. ASSUME NEW k \in Users, NEW s \in Stages, AdvanceRead(k, s) PROVE StageTyped'
        <3>1. [op |-> "advance", from |-> project, to |-> s] \in StageTasks
            BY <2>5 DEF AdvanceRead, StageTyped, StageTasks
        <3>. QED  BY <2>1, <2>5, <3>1 DEF AdvanceRead
    <2>6. ASSUME NEW k \in Users, NEW s \in Stages, DeactivateRead(k, s) PROVE StageTyped'
        <3>1. [op |-> "deactivate", stage |-> s] \in StageTasks
            BY DEF StageTasks
        <3>. QED  BY <2>1, <2>6, <3>1 DEF DeactivateRead
    <2>7. ASSUME NEW k \in Users, AdvanceWrite(k) PROVE StageTyped'
        <3>1. task[k] \in StageTasks /\ task[k].op = "advance"
            BY <2>7 DEF AdvanceWrite, StageTyped
        <3>2. task[k].to \in Stages /\ task[k].from \in Stages
            BY <3>1 DEF StageTasks, NoTask
        <3>3. task' \in [Users -> StageTasks] /\ UNCHANGED <<order, active, contract>>
            BY <2>2, <2>7 DEF AdvanceWrite
        <3>4. CASE Move(task[k].from, task[k].to)
            <4>1. space' \in UnitStatuses
                BY <3>2, <3>4, TriggerAssumption DEF Move, StageTyped
            <4>. QED  BY <3>2, <3>3, <3>4, <4>1 DEF Move, StageTyped
        <3>5. CASE UNCHANGED <<project, milestone, space>>
            BY <3>3, <3>5 DEF StageTyped
        <3>. QED  BY <2>7, <3>4, <3>5 DEF AdvanceWrite
    <2>8. ASSUME NEW k \in Users, DeactivateWrite(k) PROVE StageTyped'
        <3>1. task' \in [Users -> StageTasks]
            BY <2>2, <2>8 DEF DeactivateWrite
        <3>. QED  BY <2>8, <3>1 DEF DeactivateWrite, StageTyped
    <2>9. ASSUME NEW s \in Stages, NEW place \in Places, Reorder(s, place) PROVE StageTyped'
        BY <2>9 DEF Reorder, StageTyped
    <2>10. CASE EndLease \/ NextLease
        BY <2>10 DEF EndLease, NextLease, StageTyped, UnitStatuses
    <2>11. CASE UNCHANGED stageVars
        BY <2>11 DEF stageVars, StageTyped
    <2>. QED
        BY <2>3, <2>4, <2>5, <2>6, <2>7, <2>8, <2>9, <2>10, <2>11 DEF StageNext
<1>3. StageTyped => StageTypeOK
    BY DEF StageTyped, StageTypeOK, StageTasks, NoTask
<1>. QED  BY <1>1, <1>2, <1>3, PTL DEF StageSpec

-----------------------------------------------------------------------------
SubmittalStatuses ==
    {"SUBMITTED", "IN_PROGRESS", "APPROVED", "REJECTED", "PUBLISHED", "OBSOLETED"}
SubmittalRows == [status : SubmittalStatuses, flow : Nat, files : 0 .. MaxUploads]
ReviewFlows == [of : Nat, status : Verdicts \cup {"IN_PROGRESS"}]
Papers == {NoPaper} \cup [op : {"submit", "resubmit", "publish", "upload"}, of : Nat]

\* An upload is the only one of its revision, which still takes one; who
\* submits a revision has seen an attachment.
ReviewTyped ==
    /\ revision \in Seq(SubmittalRows) /\ flow \in Seq(ReviewFlows)
    /\ paper \in [Staff -> Papers]
    /\ \A r \in DOMAIN revision : revision[r].flow # 0 =>
        /\ revision[r].flow \in DOMAIN flow /\ flow[revision[r].flow].of = r
        /\ revision[r].files > 0
    /\ \A w \in DOMAIN flow : flow[w].of \in DOMAIN revision
    /\ \A k \in Staff : paper[k] # NoPaper =>
        /\ paper[k].of \in DOMAIN revision
        /\ paper[k].op = "submit" => revision[paper[k].of].files > 0
        /\ paper[k].op = "upload" => revision[paper[k].of].files < MaxUploads
    /\ \A j, k \in Staff :
        paper[j].op = "upload" /\ paper[k].op = "upload" /\ paper[j].of = paper[k].of => j = k

\* A write of the row of one revision, by a request that ends or by none.
LEMMA RevisionWritten ==
    ASSUME ReviewTyped, NEW r \in DOMAIN revision, NEW row \in SubmittalRows,
           revision' = [revision EXCEPT ![r] = row],
           row.flow = revision[r].flow, row.files >= revision[r].files,
           row.files > revision[r].files =>
               \E k \in Staff : HandBack(k) /\ paper[k].op = "upload" /\ paper[k].of = r,
           UNCHANGED paper \/ \E k \in Staff : HandBack(k),
           flow' \in Seq(ReviewFlows), DOMAIN flow' = DOMAIN flow,
           \A w \in DOMAIN flow : flow'[w].of = flow[w].of
    PROVE  ReviewTyped'
<1>1. revision' \in Seq(SubmittalRows) /\ DOMAIN revision' = DOMAIN revision
    BY ExceptInSeq DEF ReviewTyped
<1>2. revision'[r] = row /\ \A s \in DOMAIN revision \ {r} : revision'[s] = revision[s]
    BY <1>1 DEF ReviewTyped
<1>3. \A s \in DOMAIN revision : revision[s] \in SubmittalRows
    BY DEF ReviewTyped
<1>4. \A s \in DOMAIN revision :
        /\ revision'[s].flow = revision[s].flow
        /\ revision'[s].files >= revision[s].files
        /\ s # r => revision'[s].files = revision[s].files
    BY <1>2, <1>3 DEF SubmittalRows
<1>5. paper' \in [Staff -> Papers] /\ \A k \in Staff : paper'[k] \in {paper[k], NoPaper}
    BY DEF HandBack, ReviewTyped, Papers
<1>6. ASSUME NEW s \in DOMAIN revision', revision'[s].flow # 0
      PROVE  /\ revision'[s].flow \in DOMAIN flow' /\ flow'[revision'[s].flow].of = s
             /\ revision'[s].files > 0
    <2>1. /\ revision[s].flow \in DOMAIN flow /\ flow[revision[s].flow].of = s
          /\ revision[s].files > 0
        BY <1>1, <1>4, <1>6 DEF ReviewTyped
    <2>2. revision'[s].files \in Nat /\ revision[s].files \in Nat
        BY <1>1, <1>3 DEF SubmittalRows
    <2>. QED  BY <1>1, <1>4, <2>1, <2>2
<1>7. ASSUME NEW k \in Staff, paper'[k] # NoPaper
      PROVE  /\ paper'[k].of \in DOMAIN revision'
             /\ paper'[k].op = "submit" => revision'[paper'[k].of].files > 0
             /\ paper'[k].op = "upload" => revision'[paper'[k].of].files < MaxUploads
    <2>1. paper'[k] = paper[k]
        BY <1>5, <1>7
    <2>2. /\ paper[k].of \in DOMAIN revision
          /\ paper[k].op = "submit" => revision[paper[k].of].files > 0
          /\ paper[k].op = "upload" => revision[paper[k].of].files < MaxUploads
        BY <1>7, <2>1 DEF ReviewTyped
    <2>3. revision'[paper[k].of].files \in Nat /\ revision[paper[k].of].files \in Nat
        BY <1>1, <1>3, <2>2 DEF SubmittalRows
    <2>4. paper[k].op = "submit" => revision'[paper[k].of].files > 0
        BY <1>4, <2>2, <2>3
    <2>5. ASSUME paper[k].op = "upload" PROVE revision'[paper[k].of].files < MaxUploads
        <3>1. CASE paper[k].of # r
            BY <1>4, <2>2, <2>5, <3>1
        <3>2. CASE paper[k].of = r /\ row.files > revision[r].files
            <4>1. PICK j \in Staff : HandBack(j) /\ paper[j].op = "upload" /\ paper[j].of = r
                BY <3>2
            <4>2. j = k
                BY <2>5, <3>2, <4>1 DEF ReviewTyped
            <4>3. paper'[k] = NoPaper
                BY <4>1, <4>2 DEF HandBack, ReviewTyped
            <4>. QED  BY <1>7, <4>3
        <3>3. CASE paper[k].of = r /\ ~(row.files > revision[r].files)
            <4>1. row.files = revision[r].files
                BY <1>3, <3>3 DEF SubmittalRows
            <4>. QED  BY <1>2, <2>2, <2>5, <3>3, <4>1
        <3>. QED  BY <3>1, <3>2, <3>3
    <2>. QED  BY <1>1, <2>1, <2>2, <2>4, <2>5
<1>8. \A w \in DOMAIN flow' : flow'[w].of \in DOMAIN revision'
    BY <1>1 DEF ReviewTyped
<1>9. \A j, k \in Staff :
        paper'[j].op = "upload" /\ paper'[k].op = "upload" /\ paper'[j].of = paper'[k].of => j = k
    BY <1>5 DEF ReviewTyped, NoPaper
<1>. QED  BY <1>1, <1>5, <1>6, <1>7, <1>8, <1>9 DEF ReviewTyped

LEMMA HandTyped ==
    ASSUME ReviewTyped, NEW k \in Staff, NEW r \in DOMAIN revision,
           NEW op \in {"submit", "resubmit", "publish", "upload"}, Hand(k, op, r),
           op = "submit" => revision[r].files > 0,
           op = "upload" => revision[r].files < MaxUploads /\ ~Locked(r)
    PROVE  ReviewTyped'
<1>1. r \in Nat
    BY DEF ReviewTyped
<1>2. [op |-> op, of |-> r] \in Papers
    BY <1>1 DEF Papers
<1>3. /\ paper' \in [Staff -> Papers] /\ UNCHANGED <<revision, flow>>
      /\ paper'[k].op = op /\ paper'[k].of = r
      /\ \A j \in Staff \ {k} : paper'[j] = paper[j]
    BY <1>2 DEF Hand, ReviewTyped
<1>4. op = "upload" => \A j \in Staff : ~(paper[j].op = "upload" /\ paper[j].of = r)
    BY DEF Locked
<1>5. \A i, j \in Staff :
        paper'[i].op = "upload" /\ paper'[j].op = "upload" /\ paper'[i].of = paper'[j].of => i = j
    BY <1>3, <1>4 DEF ReviewTyped
<1>6. \A j \in Staff : paper'[j] # NoPaper =>
        /\ paper'[j].of \in DOMAIN revision
        /\ paper'[j].op = "submit" => revision[paper'[j].of].files > 0
        /\ paper'[j].op = "upload" => revision[paper'[j].of].files < MaxUploads
    BY <1>3 DEF ReviewTyped
<1>. QED  BY <1>3, <1>5, <1>6 DEF ReviewTyped

LEMMA PaperRead ==
    ASSUME ReviewTyped, NEW k \in Staff, paper[k].op \in {"submit", "resubmit", "publish", "upload"}
    PROVE  /\ paper[k] # NoPaper /\ paper[k].of \in DOMAIN revision
           /\ revision[paper[k].of] \in SubmittalRows
BY DEF ReviewTyped, NoPaper

LEMMA SubmitTyped ==
    ASSUME ReviewTyped, NEW k \in Staff, SubmitWrite(k)
    PROVE  ReviewTyped'
<1>. DEFINE r == paper[k].of
            row == [revision[r] EXCEPT !.status = "IN_PROGRESS", !.flow = Len(flow) + 1]
            new == [of |-> r, status |-> "IN_PROGRESS"]
<1>1. r \in DOMAIN revision /\ revision[r] \in SubmittalRows /\ revision[r].files > 0 /\ r \in Nat
    BY PaperRead DEF SubmitWrite, ReviewTyped
<1>2. flow \in Seq(ReviewFlows) /\ revision \in Seq(SubmittalRows) /\ Len(flow) \in Nat
    BY DEF ReviewTyped
<1>3. /\ row \in SubmittalRows /\ row.flow = Len(flow) + 1 /\ row.files = revision[r].files
      /\ new \in ReviewFlows /\ new.of = r
    <2>1. Len(flow) + 1 \in Nat /\ "IN_PROGRESS" \in SubmittalStatuses
        BY <1>2 DEF SubmittalStatuses
    <2>2. row \in SubmittalRows /\ row.flow = Len(flow) + 1 /\ row.files = revision[r].files
        BY <1>1, <2>1 DEF SubmittalRows
    <2>3. new \in ReviewFlows /\ new.of = r
        BY <1>1 DEF ReviewFlows
    <2>. QED  BY <2>2, <2>3
<1>4. revision' = [revision EXCEPT ![r] = row] /\ flow' = Append(flow, new) /\ HandBack(k)
    BY <1>1 DEF SubmitWrite, SubmittalRows
<1>. HIDE DEF row, new
<1>5. /\ revision' \in Seq(SubmittalRows) /\ DOMAIN revision' = DOMAIN revision
      /\ revision'[r] = row /\ \A s \in DOMAIN revision \ {r} : revision'[s] = revision[s]
    BY <1>1, <1>2, <1>3, <1>4
<1>6. /\ flow' \in Seq(ReviewFlows) /\ DOMAIN flow' = DOMAIN flow \cup {Len(flow) + 1}
      /\ flow'[Len(flow) + 1] = new /\ \A w \in DOMAIN flow : flow'[w] = flow[w]
    BY <1>2, <1>3, <1>4
<1>7. paper' \in [Staff -> Papers] /\ \A j \in Staff : paper'[j] \in {paper[j], NoPaper}
    BY <1>4 DEF HandBack, ReviewTyped, Papers
<1>8. ASSUME NEW s \in DOMAIN revision', revision'[s].flow # 0
      PROVE  /\ revision'[s].flow \in DOMAIN flow' /\ flow'[revision'[s].flow].of = s
             /\ revision'[s].files > 0
    <2>1. CASE s = r
        BY <1>1, <1>3, <1>5, <1>6, <2>1
    <2>2. CASE s # r
        <3>1. /\ revision[s].flow \in DOMAIN flow /\ flow[revision[s].flow].of = s
              /\ revision[s].files > 0
            BY <1>5, <1>8, <2>2 DEF ReviewTyped
        <3>. QED  BY <1>5, <1>6, <2>2, <3>1
    <2>. QED  BY <2>1, <2>2
<1>9. \A s \in DOMAIN revision : revision'[s].files = revision[s].files
    BY <1>3, <1>5
<1>10. \A j \in Staff : paper'[j] # NoPaper =>
        /\ paper'[j].of \in DOMAIN revision'
        /\ paper'[j].op = "submit" => revision'[paper'[j].of].files > 0
        /\ paper'[j].op = "upload" => revision'[paper'[j].of].files < MaxUploads
    BY <1>5, <1>7, <1>9 DEF ReviewTyped
<1>11. \A w \in DOMAIN flow' : flow'[w].of \in DOMAIN revision'
    BY <1>1, <1>3, <1>5, <1>6 DEF ReviewTyped
<1>12. \A i, j \in Staff :
        paper'[i].op = "upload" /\ paper'[j].op = "upload" /\ paper'[i].of = paper'[j].of => i = j
    BY <1>7 DEF ReviewTyped, NoPaper
<1>. QED  BY <1>5, <1>6, <1>7, <1>8, <1>10, <1>11, <1>12 DEF ReviewTyped

\* A status is written, and the request ends.
LEMMA StatusTyped ==
    ASSUME ReviewTyped, NEW r \in DOMAIN revision, NEW st \in SubmittalStatuses,
           revision' = [revision EXCEPT ![r].status = st],
           UNCHANGED paper \/ \E k \in Staff : HandBack(k),
           flow' \in Seq(ReviewFlows), DOMAIN flow' = DOMAIN flow,
           \A w \in DOMAIN flow : flow'[w].of = flow[w].of
    PROVE  ReviewTyped'
<1>. DEFINE row == [revision[r] EXCEPT !.status = st]
<1>1. revision[r] \in SubmittalRows
    BY DEF ReviewTyped
<1>2. /\ row \in SubmittalRows /\ row.flow = revision[r].flow /\ row.files = revision[r].files
      /\ revision[r].files \in Nat
    BY <1>1 DEF SubmittalRows
<1>3. revision' = [revision EXCEPT ![r] = row]
    OBVIOUS
<1>. HIDE DEF row
<1>4. row.files >= revision[r].files /\ ~(row.files > revision[r].files)
    BY <1>2
<1>. QED  BY <1>2, <1>3, <1>4, RevisionWritten

LEMMA ResubmitTyped ==
    ASSUME ReviewTyped, NEW k \in Staff, ResubmitWrite(k)
    PROVE  ReviewTyped'
<1>. DEFINE r == paper[k].of
            row == [revision[r] EXCEPT !.status = "OBSOLETED"]
<1>1. r \in DOMAIN revision /\ revision[r] \in SubmittalRows
    BY PaperRead DEF ResubmitWrite
<1>2. row \in SubmittalRows /\ row.flow = revision[r].flow /\ row.files = revision[r].files
    BY <1>1 DEF SubmittalRows, SubmittalStatuses
<1>3. Draft \in SubmittalRows /\ Draft.flow = 0
    BY ReviewBoundsAssumption DEF Draft, SubmittalRows, SubmittalStatuses
<1>4. /\ revision' = Append([revision EXCEPT ![r] = row], Draft)
      /\ HandBack(k) /\ flow' = flow
    BY DEF ResubmitWrite
<1>. HIDE DEF row
<1>5. /\ revision' \in Seq(SubmittalRows)
      /\ DOMAIN revision' = DOMAIN revision \cup {Len(revision) + 1}
      /\ revision'[Len(revision) + 1] = Draft
      /\ revision'[r] = row /\ \A s \in DOMAIN revision \ {r} : revision'[s] = revision[s]
    BY <1>1, <1>2, <1>3, <1>4 DEF ReviewTyped
<1>6. \A s \in DOMAIN revision :
        revision'[s].flow = revision[s].flow /\ revision'[s].files = revision[s].files
    BY <1>2, <1>5
<1>7. paper' \in [Staff -> Papers] /\ \A j \in Staff : paper'[j] \in {paper[j], NoPaper}
    BY <1>4 DEF HandBack, ReviewTyped, Papers
<1>8. \A s \in DOMAIN revision' : revision'[s].flow # 0 =>
        /\ revision'[s].flow \in DOMAIN flow /\ flow[revision'[s].flow].of = s
        /\ revision'[s].files > 0
    BY <1>3, <1>5, <1>6 DEF ReviewTyped
<1>9. \A j \in Staff : paper'[j] # NoPaper =>
        /\ paper'[j].of \in DOMAIN revision'
        /\ paper'[j].op = "submit" => revision'[paper'[j].of].files > 0
        /\ paper'[j].op = "upload" => revision'[paper'[j].of].files < MaxUploads
    BY <1>5, <1>6, <1>7 DEF ReviewTyped
<1>10. \A i, j \in Staff :
        paper'[i].op = "upload" /\ paper'[j].op = "upload" /\ paper'[i].of = paper'[j].of => i = j
    BY <1>7 DEF ReviewTyped, NoPaper
<1>. QED  BY <1>4, <1>5, <1>7, <1>8, <1>9, <1>10 DEF ReviewTyped

LEMMA UploadTyped ==
    ASSUME ReviewTyped, NEW k \in Staff, UploadCommit(k)
    PROVE  ReviewTyped'
<1>. DEFINE r == paper[k].of
            row == [revision[r] EXCEPT !.files = @ + 1]
<1>1. /\ r \in DOMAIN revision /\ revision[r] \in SubmittalRows
      /\ revision[r].files < MaxUploads
    BY PaperRead DEF UploadCommit, ReviewTyped
<1>2. /\ row \in SubmittalRows /\ row.flow = revision[r].flow
      /\ row.files = revision[r].files + 1 /\ revision[r].files \in Nat
    BY <1>1, ReviewBoundsAssumption DEF SubmittalRows
<1>3. revision' = [revision EXCEPT ![r] = row] /\ HandBack(k) /\ flow' = flow
    BY <1>1 DEF UploadCommit
<1>4. paper[k].op = "upload"
    BY DEF UploadCommit
<1>. HIDE DEF row
<1>5. flow' \in Seq(ReviewFlows) /\ DOMAIN flow' = DOMAIN flow
    BY <1>3 DEF ReviewTyped
<1>6. \A w \in DOMAIN flow : flow'[w].of = flow[w].of
    BY <1>3 DEF ReviewTyped
<1>7. row.files >= revision[r].files
    BY <1>2
<1>. QED  BY <1>1, <1>2, <1>3, <1>4, <1>5, <1>6, <1>7, RevisionWritten

LEMMA DecideTyped ==
    ASSUME ReviewTyped, NEW w \in DOMAIN flow, NEW v \in Verdicts, Decide(w, v)
    PROVE  ReviewTyped'
<1>. DEFINE new == [flow[w] EXCEPT !.status = v]
<1>1. flow[w] \in ReviewFlows
    BY DEF ReviewTyped
<1>2. new \in ReviewFlows /\ new.of = flow[w].of /\ new.status = v
    BY <1>1 DEF ReviewFlows
<1>3. flow' = [flow EXCEPT ![w] = new] /\ UNCHANGED <<revision, paper>>
    BY DEF Decide
<1>. HIDE DEF new
<1>4. /\ flow' \in Seq(ReviewFlows) /\ DOMAIN flow' = DOMAIN flow
      /\ flow'[w] = new /\ \A x \in DOMAIN flow \ {w} : flow'[x] = flow[x]
    BY <1>2, <1>3 DEF ReviewTyped
<1>5. \A x \in DOMAIN flow : flow'[x].of = flow[x].of
    BY <1>2, <1>4 DEF ReviewTyped
<1>. QED  BY <1>3, <1>4, <1>5 DEF ReviewTyped

LEMMA DeliverTyped ==
    ASSUME ReviewTyped, NEW w \in DOMAIN flow, Deliver(w)
    PROVE  ReviewTyped'
<1>1. flow[w].of \in DOMAIN revision /\ flow[w].status \in SubmittalStatuses
    BY DEF Deliver, ReviewTyped, Verdicts, SubmittalStatuses
<1>2. flow \in Seq(ReviewFlows)
    BY DEF ReviewTyped
<1>. QED  BY <1>1, <1>2, StatusTyped DEF Deliver

LEMMA ReviewAlwaysTyped == ReviewSpec => []ReviewTyped
<1>1. ASSUME ReviewInit PROVE ReviewTyped
    <2>1. Draft \in SubmittalRows /\ Draft.flow = 0
        BY ReviewBoundsAssumption DEF Draft, SubmittalRows, SubmittalStatuses
    <2>2. revision \in Seq(SubmittalRows) /\ DOMAIN revision = {1} /\ revision[1] = Draft
        BY <1>1, <2>1 DEF ReviewInit
    <2>3. flow \in Seq(ReviewFlows) /\ DOMAIN flow = {}
        BY <1>1 DEF ReviewInit
    <2>4. paper \in [Staff -> Papers] /\ \A k \in Staff : paper[k] = NoPaper
        BY <1>1 DEF ReviewInit, Papers
    <2>. QED  BY <2>1, <2>2, <2>3, <2>4 DEF ReviewTyped, NoPaper
<1>2. ReviewTyped /\ [ReviewNext]_reviewVars => ReviewTyped'
    <2>. SUFFICES ASSUME ReviewTyped, [ReviewNext]_reviewVars PROVE ReviewTyped'
        OBVIOUS
    <2>1. ASSUME NEW k \in Staff, NEW r \in DOMAIN revision,
                 SubmitRead(k, r) \/ ResubmitRead(k, r) \/ PublishRead(k, r) \/ UploadLock(k, r)
          PROVE  ReviewTyped'
        BY <2>1, HandTyped DEF SubmitRead, ResubmitRead, PublishRead, UploadLock
    <2>2. ASSUME NEW k \in Staff, PublishWrite(k) PROVE ReviewTyped'
        <3>1. paper[k].of \in DOMAIN revision
            BY <2>2, PaperRead DEF PublishWrite
        <3>2. flow \in Seq(ReviewFlows) /\ "PUBLISHED" \in SubmittalStatuses
            BY DEF ReviewTyped, SubmittalStatuses
        <3>. QED  BY <2>2, <3>1, <3>2, StatusTyped DEF PublishWrite
    <2>3. CASE UNCHANGED reviewVars
        BY <2>3 DEF reviewVars, ReviewTyped
    <2>. QED
        BY <2>1, <2>2, <2>3, SubmitTyped, ResubmitTyped, UploadTyped, DecideTyped, DeliverTyped
           DEF ReviewNext
<1>. QED  BY <1>1, <1>2, PTL DEF ReviewSpec

LEMMA ReviewTypes == ReviewSpec => []ReviewTypeOK
<1>1. ASSUME ReviewTyped PROVE ReviewTypeOK
    <2>1. \A r \in DOMAIN revision : revision[r] \in SubmittalRows
        BY <1>1 DEF ReviewTyped
    <2>2. \A w \in DOMAIN flow : flow[w] \in ReviewFlows
        BY <1>1 DEF ReviewTyped
    <2>3. DOMAIN flow = 1 .. Len(flow) /\ Len(flow) \in Nat
        BY <1>1 DEF ReviewTyped
    <2>4. \A k \in Staff : paper[k].op \in {"none", "submit", "resubmit", "publish", "upload"}
        BY <1>1 DEF ReviewTyped, Papers, NoPaper
    <2>5. \A r \in DOMAIN revision : revision[r].flow \in 0 .. Len(flow)
        BY <1>1, <2>1, <2>3 DEF ReviewTyped, SubmittalRows
    <2>. QED
        BY <1>1, <2>1, <2>2, <2>4, <2>5
           DEF ReviewTyped, ReviewTypeOK, SubmittalRows, SubmittalStatuses, ReviewFlows
<1>. QED  BY <1>1, ReviewAlwaysTyped, PTL

\* A write of the status of one revision leaves the others alone.
LEMMA StatusIn ==
    ASSUME ReviewTyped, NEW r \in DOMAIN revision, NEW st \in SubmittalStatuses
    PROVE  LET set == [revision EXCEPT ![r].status = st]
           IN  /\ set \in Seq(SubmittalRows) /\ DOMAIN set = DOMAIN revision
               /\ set[r].status = st
               /\ \A s \in DOMAIN revision \ {r} : set[s] = revision[s]
<1>. DEFINE row == [revision[r] EXCEPT !.status = st]
<1>1. revision[r] \in SubmittalRows
    BY DEF ReviewTyped
<1>2. row \in SubmittalRows /\ row.status = st
    BY <1>1 DEF SubmittalRows
<1>3. [revision EXCEPT ![r].status = st] = [revision EXCEPT ![r] = row]
    OBVIOUS
<1>. HIDE DEF row
<1>. QED  BY <1>2, <1>3 DEF ReviewTyped

\* What a request read of a review is still so.
ReviewHolds ==
    /\ RevisionsAreReviewed
    /\ \A k \in Staff :
        /\ paper[k].op = "resubmit" => Reviewed(paper[k].of, "REJECTED")
        /\ paper[k].op = "publish" => Reviewed(paper[k].of, "APPROVED")

\* No workflow loses its verdict, and the status of a revision that no upload
\* holds follows one.
LEMMA ReviewGoesOn ==
    ASSUME ReviewTyped, ReviewHolds,
           DOMAIN flow \subseteq DOMAIN flow',
           \A w \in DOMAIN flow :
              /\ flow'[w].of = flow[w].of
              /\ flow[w].status \in Verdicts => flow'[w].status = flow[w].status,
           DOMAIN revision \subseteq DOMAIN revision',
           \A r \in DOMAIN revision' :
              \/ revision'[r].status \in {"SUBMITTED", "IN_PROGRESS"}
              \/ /\ r \in DOMAIN revision
                 /\ \/ revision'[r].status = revision[r].status
                    \/ /\ ~Locked(r)
                       /\ \/ revision'[r].status \in {"APPROVED", "PUBLISHED"} /\ Reviewed(r, "APPROVED")
                          \/ revision'[r].status \in {"REJECTED", "OBSOLETED"} /\ Reviewed(r, "REJECTED"),
           \A k \in Staff : paper'[k] \in {paper[k], NoPaper}
    PROVE  ReviewHolds'
<1>1. ASSUME NEW r, NEW v \in Verdicts, Reviewed(r, v) PROVE Reviewed(r, v)'
    BY <1>1 DEF Reviewed
<1>2. "APPROVED" \in Verdicts /\ "REJECTED" \in Verdicts
    BY DEF Verdicts
<1>3. ASSUME NEW r \in DOMAIN revision'
      PROVE  /\ revision'[r].status \in {"APPROVED", "PUBLISHED"} => Reviewed(r, "APPROVED")'
             /\ revision'[r].status \in {"REJECTED", "OBSOLETED"} => Reviewed(r, "REJECTED")'
    BY <1>1, <1>2 DEF ReviewHolds, RevisionsAreReviewed, StatusIsOfReview
<1>4. StatusIsOfReview'
    BY <1>3 DEF StatusIsOfReview
<1>5. ASSUME NEW k \in Staff, paper'[k].op = "upload"
      PROVE  revision'[paper'[k].of].status \in {"SUBMITTED", "IN_PROGRESS"}
    <2>1. paper'[k] = paper[k] /\ paper[k] # NoPaper
        BY <1>5 DEF NoPaper
    <2>2. paper[k].of \in DOMAIN revision /\ Locked(paper[k].of)
        BY <1>5, <2>1 DEF ReviewTyped, Locked
    <2>3. revision[paper[k].of].status \in {"SUBMITTED", "IN_PROGRESS"}
        BY <1>5, <2>1 DEF ReviewHolds, RevisionsAreReviewed, UploadsAreInTime
    <2>. QED  BY <2>1, <2>2, <2>3
<1>6. UploadsAreInTime'
    BY <1>5 DEF UploadsAreInTime
<1>7. ASSUME NEW k \in Staff
      PROVE  /\ paper'[k].op = "resubmit" => Reviewed(paper[k].of, "REJECTED")'
             /\ paper'[k].op = "publish" => Reviewed(paper[k].of, "APPROVED")'
    <2>1. CASE paper'[k] = NoPaper
        BY <2>1 DEF NoPaper
    <2>2. CASE paper'[k] = paper[k]
        BY <1>1, <1>2, <2>2 DEF ReviewHolds, Reviewed
    <2>. QED  BY <2>1, <2>2
<1>. QED  BY <1>4, <1>6, <1>7 DEF ReviewHolds, RevisionsAreReviewed

LEMMA ReviewHanded ==
    ASSUME ReviewTyped, ReviewHolds, NEW k \in Staff, NEW r \in DOMAIN revision,
           NEW op \in {"submit", "resubmit", "publish", "upload"}, Hand(k, op, r),
           op = "resubmit" => revision[r].status = "REJECTED",
           op = "publish" => revision[r].status = "APPROVED",
           op = "upload" => revision[r].status \in {"SUBMITTED", "IN_PROGRESS"}
    PROVE  ReviewHolds'
<1>1. /\ UNCHANGED <<revision, flow>>
      /\ paper'[k].op = op /\ paper'[k].of = r
      /\ \A j \in Staff \ {k} : paper'[j] = paper[j]
    BY DEF Hand, ReviewTyped
<1>2. \A q, v : Reviewed(q, v) <=> Reviewed(q, v)'
    BY <1>1 DEF Reviewed
<1>3. StatusIsOfReview'
    BY <1>1, <1>2 DEF ReviewHolds, RevisionsAreReviewed, StatusIsOfReview
<1>4. UploadsAreInTime'
    BY <1>1 DEF ReviewHolds, RevisionsAreReviewed, UploadsAreInTime
<1>5. /\ op = "resubmit" => Reviewed(r, "REJECTED")
      /\ op = "publish" => Reviewed(r, "APPROVED")
    BY DEF ReviewHolds, RevisionsAreReviewed, StatusIsOfReview
<1>6. \A j \in Staff :
        /\ paper'[j].op = "resubmit" => Reviewed(paper'[j].of, "REJECTED")
        /\ paper'[j].op = "publish" => Reviewed(paper'[j].of, "APPROVED")
    BY <1>1, <1>5 DEF ReviewHolds
<1>7. (\A j \in Staff :
        /\ paper[j].op = "resubmit" => Reviewed(paper[j].of, "REJECTED")
        /\ paper[j].op = "publish" => Reviewed(paper[j].of, "APPROVED"))'
    BY <1>1, <1>6 DEF Reviewed
<1>. QED  BY <1>3, <1>4, <1>7 DEF ReviewHolds, RevisionsAreReviewed

\* However submissions, resubmissions, publications, uploads and deliveries
\* cross, a revision is approved, published, rejected or set aside on a verdict
\* of a workflow of its own, and takes no attachment after one was delivered:
\* for any number of revisions, workflows, attachments and requests
\* (fitout-submittal.service.ts).
THEOREM RevisionsFollowReviews == ReviewSpec => []RevisionsAreReviewed
<1>1. ReviewInit => ReviewHolds
    BY DEF ReviewInit, ReviewHolds, RevisionsAreReviewed, StatusIsOfReview, UploadsAreInTime,
           Draft, NoPaper
<1>2. ReviewTyped /\ ReviewHolds /\ [ReviewNext]_reviewVars => ReviewHolds'
    <2>. SUFFICES ASSUME ReviewTyped, ReviewHolds, [ReviewNext]_reviewVars PROVE ReviewHolds'
        OBVIOUS
    <2>1. CASE UNCHANGED reviewVars
        BY <2>1, ReviewGoesOn DEF reviewVars
    <2>2. ASSUME NEW k \in Staff, NEW r \in DOMAIN revision,
                 SubmitRead(k, r) \/ ResubmitRead(k, r) \/ PublishRead(k, r) \/ UploadLock(k, r)
          PROVE  ReviewHolds'
        BY <2>2, ReviewHanded DEF SubmitRead, ResubmitRead, PublishRead, UploadLock, Mutable
    <2>3. ASSUME NEW k \in Staff, HandBack(k)
          PROVE  \A j \in Staff : paper'[j] \in {paper[j], NoPaper}
        BY <2>3 DEF HandBack, ReviewTyped
    <2>4. ASSUME NEW k \in Staff, SubmitWrite(k) PROVE ReviewHolds'
        <3>1. paper[k].of \in DOMAIN revision
            BY <2>4, PaperRead DEF SubmitWrite
        <3>2. /\ DOMAIN flow \subseteq DOMAIN flow' /\ \A w \in DOMAIN flow : flow'[w] = flow[w]
            BY <2>4 DEF SubmitWrite, ReviewTyped
        <3>3. DOMAIN revision' = DOMAIN revision
              /\ \A r \in DOMAIN revision :
                    revision'[r].status = revision[r].status \/ revision'[r].status = "IN_PROGRESS"
            BY <2>4, <3>1 DEF SubmitWrite, ReviewTyped, SubmittalRows
        <3>. QED  BY <2>3, <2>4, <3>2, <3>3, ReviewGoesOn DEF SubmitWrite
    <2>5. ASSUME NEW k \in Staff, ResubmitWrite(k) PROVE ReviewHolds'
        <3>1. paper[k].of \in DOMAIN revision /\ Reviewed(paper[k].of, "REJECTED") /\ ~Locked(paper[k].of)
            BY <2>5, PaperRead DEF ResubmitWrite, ReviewHolds
        <3>2. DOMAIN revision \subseteq DOMAIN revision'
              /\ \A r \in DOMAIN revision' :
                    \/ revision'[r].status = "SUBMITTED"
                    \/ /\ r \in DOMAIN revision
                       /\ \/ revision'[r].status = revision[r].status
                          \/ r = paper[k].of /\ revision'[r].status = "OBSOLETED"
            <4>. DEFINE set == [revision EXCEPT ![paper[k].of].status = "OBSOLETED"]
            <4>1. /\ revision' = Append(set, Draft) /\ set \in Seq(SubmittalRows) /\ DOMAIN set = DOMAIN revision
                  /\ \A r \in DOMAIN revision :
                        \/ set[r].status = revision[r].status
                        \/ r = paper[k].of /\ set[r].status = "OBSOLETED"
                BY <2>5, <3>1, StatusIn DEF ResubmitWrite, SubmittalStatuses
            <4>. HIDE DEF set
            <4>2. DOMAIN revision' = DOMAIN set \cup {Len(set) + 1} /\ revision'[Len(set) + 1] = Draft
                  /\ \A r \in DOMAIN set : revision'[r] = set[r]
                BY <4>1
            <4>. QED  BY <4>1, <4>2 DEF Draft
        <3>. QED  BY <2>3, <2>5, <3>1, <3>2, ReviewGoesOn DEF ResubmitWrite
    <2>6. ASSUME NEW k \in Staff, PublishWrite(k) PROVE ReviewHolds'
        <3>1. paper[k].of \in DOMAIN revision /\ Reviewed(paper[k].of, "APPROVED") /\ ~Locked(paper[k].of)
            BY <2>6, PaperRead DEF PublishWrite, ReviewHolds
        <3>2. DOMAIN revision' = DOMAIN revision
              /\ \A r \in DOMAIN revision :
                    \/ revision'[r].status = revision[r].status
                    \/ r = paper[k].of /\ revision'[r].status = "PUBLISHED"
            BY <2>6, <3>1, StatusIn DEF PublishWrite, SubmittalStatuses
        <3>. QED  BY <2>3, <2>6, <3>1, <3>2, ReviewGoesOn DEF PublishWrite
    <2>7. ASSUME NEW k \in Staff, UploadCommit(k) PROVE ReviewHolds'
        <3>1. DOMAIN revision' = DOMAIN revision
              /\ \A r \in DOMAIN revision : revision'[r].status = revision[r].status
            BY <2>7, PaperRead DEF UploadCommit, ReviewTyped, SubmittalRows
        <3>. QED  BY <2>3, <2>7, <3>1, ReviewGoesOn DEF UploadCommit
    <2>8. ASSUME NEW w \in DOMAIN flow, NEW v \in Verdicts, Decide(w, v) PROVE ReviewHolds'
        <3>1. /\ DOMAIN flow' = DOMAIN flow
              /\ \A x \in DOMAIN flow :
                    /\ flow'[x].of = flow[x].of
                    /\ flow[x].status \in Verdicts => flow'[x].status = flow[x].status
            BY <2>8 DEF Decide, ReviewTyped, ReviewFlows, Verdicts
        <3>. QED  BY <2>8, <3>1, ReviewGoesOn DEF Decide
    <2>9. ASSUME NEW w \in DOMAIN flow, Deliver(w) PROVE ReviewHolds'
        <3>. DEFINE q == flow[w].of
        <3>1. q \in DOMAIN revision /\ ~Locked(q) /\ flow[w].status \in SubmittalStatuses
            BY <2>9 DEF Deliver, ReviewTyped, Verdicts, SubmittalStatuses
        <3>2. \/ flow[w].status = "APPROVED" /\ Reviewed(q, "APPROVED")
              \/ flow[w].status = "REJECTED" /\ Reviewed(q, "REJECTED")
            BY <2>9 DEF Deliver, Reviewed, Verdicts
        <3>3. DOMAIN revision' = DOMAIN revision
              /\ \A r \in DOMAIN revision :
                    \/ revision'[r].status = revision[r].status
                    \/ r = q /\ revision'[r].status = flow[w].status
            BY <2>9, <3>1, StatusIn DEF Deliver
        <3>. HIDE DEF q
        <3>. QED  BY <2>9, <3>1, <3>2, <3>3, ReviewGoesOn DEF Deliver
    <2>. QED  BY <2>1, <2>2, <2>4, <2>5, <2>6, <2>7, <2>8, <2>9 DEF ReviewNext
<1>3. ReviewHolds => RevisionsAreReviewed
    BY DEF ReviewHolds
<1>. QED  BY <1>1, <1>2, <1>3, ReviewAlwaysTyped, PTL DEF ReviewSpec

LEMMA PeriodsTypes == PeriodsSpec => []PeriodsTypeOK
<1>. DEFINE Leases == [first : Days, last : Days, cycle : CycleLengths, free : Nat]
            L == lease \in Leases
<1>1. PeriodsInit => L
    <2>1. 0 .. Len(MonthLengths) \subseteq Nat
        OBVIOUS
    <2>. QED  BY <2>1 DEF PeriodsInit
<1>2. L /\ [GeneratePeriod]_periodVars => L'
    BY DEF GeneratePeriod, periodVars
<1>3. L /\ PeriodsInv => PeriodsTypeOK
    BY DEF PeriodsInv, PeriodsTypeOK, Cuts
<1>. HIDE DEF L
<1>. QED  BY <1>1, <1>2, <1>3, PeriodsAlways, PTL DEF PeriodsSpec

LEMMA ParkingTypes == ParkingSpec => []ParkingTypeOK
<1>1. ParkingTyped => ParkingTypeOK
    <2>. SUFFICES ASSUME ParkingTyped PROVE ParkingTypeOK
        OBVIOUS
    <2>1. \A o \in Officers : request[o].op \in {"none", "adjust", "bill"}
        BY DEF ParkingTyped, ParkingAsked, NoRequest
    <2>2. span.from \in ParkingDays /\ span.to \in ParkingDays
        BY DEF ParkingTyped
    <2>3. DOMAIN rates = 1 .. Len(rates)
        BY DEF ParkingTyped
    <2>. QED  BY <2>1, <2>2, <2>3 DEF ParkingTyped, ParkingTypeOK, RateTyped, ParkingCharges
<1>. QED  BY <1>1, ParkingBegins, ParkingGoesOn, PTL DEF ParkingSpec

\* The rows of the templates and what a run has read of them, where a date
\* may be past the calendar.
TemplateRow == [active : BOOLEAN, frequency : Frequencies, next : Nat \ {0}, told : WorkDays]
RunPicks == [phase : {"template"}, now : WorkDays, todo : SUBSET Templates,
             read : [Templates -> TemplateRow]]
RunDates == [phase : {"dates"}, now : WorkDays, todo : SUBSET Templates,
             read : [Templates -> TemplateRow], t : Templates, at : Nat \ {0}]

TemplatesTyped ==
    /\ today \in WorkDays
    /\ template \in [Templates -> TemplateRow]
    /\ orders \in [Templates -> SUBSET (1 .. today)]
    /\ run \in {NotRunning} \cup RunPicks \cup RunDates
    /\ run # NotRunning => run.now <= today

LEMMA NextRunIsLater ==
    ASSUME NEW d \in WorkDays, NEW f \in Frequencies
    PROVE  NextRun(d, f) \in Nat \ {0}
<1>1. d \in Nat /\ Week \in Nat
    BY WeekAssumption DEF WorkDays
<1>. DEFINE m == WorkMonthOf(d)
<1>2. IsMonth(m, d)
    BY MonthOfDay
<1>3. m \in Nat /\ StartOf[m] \in Nat /\ DaysIn[m] \in Nat /\ d - StartOf[m] \in Nat \ {0}
    BY <1>1, <1>2, MonthsAre, MonthsFollow DEF IsMonth
<1>4. StartOf[m + 1] \in Nat
    <2>1. StartOf[m + 1] = IF m + 1 <= 1 THEN 0 ELSE StartOf[m + 1 - 1] + DaysIn[m + 1 - 1]
        BY <1>3, StartUnfolds
    <2>. QED  BY <1>3, <2>1
<1>5. NextRun(d, f) \in {d + 1, d + Week, StartOf[m + 1] + (d - StartOf[m])}
    BY DEF NextRun
<1>6. StartOf[m + 1] + (d - StartOf[m]) \in Nat \ {0} /\ d # 0
    <2>. HIDE DEF m
    <2>. QED  BY <1>3, <1>4 DEF WorkDays
<1>. QED  BY <1>1, <1>5, <1>6

LEMMA TemplatesStartTyped == TemplateInit => TemplatesTyped
<1>. SUFFICES ASSUME TemplateInit PROVE TemplatesTyped
    OBVIOUS
<1>1. today \in WorkDays
    <2>1. EndOf(LastWorkMonth) \in Nat /\ EndOf(LastWorkMonth) >= 1
        <3>1. LastWorkMonth \in WorkMonths
            BY MonthsAre
        <3>. QED  BY <3>1, MonthsFollow
    <2>. QED  BY <2>1, MonthsFollow DEF TemplateInit, WorkDays
<1>2. template \in [Templates -> TemplateRow]
    <2>1. WorkDays \subseteq Nat \ {0}
        BY DEF WorkDays
    <2>2. [active : {TRUE}, frequency : Frequencies, next : FirstDays, told : FirstDays] \subseteq TemplateRow
        BY <2>1, FirstDaysAssumption DEF TemplateRow
    <2>. QED  BY <2>2 DEF TemplateInit
<1>. QED  BY <1>1, <1>2 DEF TemplateInit, TemplatesTyped

LEMMA TemplatesStayTyped == TemplatesTyped /\ [TemplateNext]_templateVars => TemplatesTyped'
<1>. SUFFICES ASSUME TemplatesTyped, [TemplateNext]_templateVars PROVE TemplatesTyped'
    OBVIOUS
<1>0. today \in Nat /\ WorkDays \subseteq Nat \ {0}
    BY DEF TemplatesTyped, WorkDays
<1>1. CASE UNCHANGED templateVars
    BY <1>1 DEF templateVars, TemplatesTyped
<1>2. CASE NewDay
    <2>1. today < StartOf[LastWorkMonth] /\ today' = today + 1 /\ UNCHANGED <<template, orders, run>>
        BY <1>2, MonthsAre DEF NewDay
    <2>2. StartOf[LastWorkMonth] \in Nat /\ EndOf(LastWorkMonth) \in Nat /\ StartOf[LastWorkMonth] < EndOf(LastWorkMonth)
        BY MonthsAre, MonthsFollow
    <2>3. today' \in WorkDays
        BY <1>0, <2>1, <2>2, MonthsFollow DEF WorkDays
    <2>4. 1 .. today \subseteq 1 .. today'
        BY <1>0, <2>1
    <2>5. orders' \in [Templates -> SUBSET (1 .. today')]
        BY <2>1, <2>4 DEF TemplatesTyped
    <2>6. run # NotRunning => run.now \in Nat
        BY <1>0 DEF TemplatesTyped, RunPicks, RunDates
    <2>. QED  BY <1>0, <2>1, <2>3, <2>5, <2>6 DEF TemplatesTyped
<1>3. ASSUME NEW t \in Templates, NEW row \in TemplateRow, Edit(t, row) PROVE TemplatesTyped'
    BY <1>3 DEF Edit, TemplatesTyped
<1>4. ASSUME NEW t \in Templates, NEW f \in Frequencies, NEW d \in FirstDays \cup {template[t].next},
             UpdateTemplate(t, f, d)
      PROVE  TemplatesTyped'
    <2>1. template[t] \in TemplateRow
        BY DEF TemplatesTyped
    <2>2. Told(template[t].active, f, d) \in TemplateRow
        BY <1>0, <1>4, <2>1 DEF UpdateTemplate, TemplateRow, Told
    <2>. QED  BY <1>3, <1>4, <2>2 DEF UpdateTemplate
<1>5. ASSUME NEW t \in Templates, ToggleTemplate(t) PROVE TemplatesTyped'
    <2>1. template[t] \in TemplateRow
        BY DEF TemplatesTyped
    <2>2. [template[t] EXCEPT !.active = ~@] \in TemplateRow
        BY <2>1 DEF TemplateRow
    <2>. QED  BY <1>3, <1>5, <2>2 DEF ToggleTemplate
<1>6. CASE StartRun
    <2>. DEFINE r == [phase |-> "template", now |-> today,
                      todo |-> {t \in Templates : template[t].active /\ template[t].next <= today},
                      read |-> template]
    <2>1. run' = r /\ UNCHANGED <<today, template, orders>>
        BY <1>6 DEF StartRun
    <2>2. r \in RunPicks /\ r.now <= today
        BY <1>0 DEF TemplatesTyped, RunPicks
    <2>. HIDE DEF r
    <2>. QED  BY <2>1, <2>2 DEF TemplatesTyped
<1>7. ASSUME NEW t \in Templates, PickTemplate(t) PROVE TemplatesTyped'
    <2>. DEFINE r == [phase |-> "dates", now |-> run.now, todo |-> run.todo \ {t}, read |-> run.read,
                      t |-> t, at |-> run.read[t].next]
    <2>1. run' = r /\ run.phase = "template" /\ UNCHANGED <<today, template, orders>>
        BY <1>7 DEF PickTemplate
    <2>2. run \in RunPicks /\ run # NotRunning /\ run.now <= today
        BY <2>1 DEF TemplatesTyped, NotRunning, RunDates
    <2>3. run.read[t] \in TemplateRow /\ run.read[t].next \in Nat \ {0}
        BY <2>2 DEF RunPicks, TemplateRow
    <2>4. r \in RunDates /\ r.now <= today
        BY <2>2, <2>3 DEF RunPicks, RunDates
    <2>. HIDE DEF r
    <2>. QED  BY <2>1, <2>4 DEF TemplatesTyped
<1>8. ASSUME run.phase = "dates"
      PROVE  /\ run \in RunDates /\ run # NotRunning /\ run.now <= today
             /\ run.t \in Templates /\ run.at \in Nat \ {0} /\ run.now \in WorkDays
             /\ run.read[run.t] \in TemplateRow
    <2>1. run \in RunDates /\ run # NotRunning
        BY <1>8 DEF TemplatesTyped, NotRunning, RunPicks
    <2>. QED  BY <2>1 DEF TemplatesTyped, RunDates
<1>9. CASE MakeOrder
    <2>. DEFINE next == NextRun(run.at, run.read[run.t].frequency)
                r == [run EXCEPT !.at = next]
    <2>1. /\ run.phase = "dates" /\ run.at <= run.now /\ UNCHANGED <<today, template>>
          /\ orders' = [orders EXCEPT ![run.t] = @ \cup {run.at}] /\ run' = r
        BY <1>9 DEF MakeOrder
    <2>2. run.at \in WorkDays /\ run.at \in 1 .. today
        BY <1>0, <1>8, <2>1, MonthsFollow, MonthsAre DEF WorkDays
    <2>3. next \in Nat \ {0}
        BY <1>8, <2>1, <2>2, NextRunIsLater DEF TemplateRow
    <2>. HIDE DEF next
    <2>4. r \in RunDates /\ r.now = run.now
        BY <1>8, <2>1, <2>3 DEF RunDates
    <2>. HIDE DEF r
    <2>5. orders' \in [Templates -> SUBSET (1 .. today)]
        BY <1>8, <2>1, <2>2 DEF TemplatesTyped
    <2>. QED  BY <1>8, <2>1, <2>4, <2>5 DEF TemplatesTyped
<1>10. CASE MoveNext
    <2>. DEFINE row == [template[run.t] EXCEPT !.next = run.at]
                r == [phase |-> "template", now |-> run.now, todo |-> run.todo, read |-> run.read]
    <2>1. run.phase = "dates" /\ UNCHANGED <<today, orders>> /\ run' = r
        BY <1>10 DEF MoveNext, NextTemplate
    <2>2. template[run.t] \in TemplateRow
        BY <1>8, <2>1 DEF TemplatesTyped
    <2>3. row \in TemplateRow
        BY <1>8, <2>1, <2>2 DEF TemplateRow
    <2>4. template' = [template EXCEPT ![run.t] = row]
        BY <1>8, <1>10, <2>1 DEF MoveNext, Moved, TemplatesTyped
    <2>5. r \in RunPicks /\ r.now <= today
        BY <1>8, <2>1 DEF RunDates, RunPicks
    <2>. HIDE DEF row, r
    <2>. QED  BY <2>1, <2>3, <2>4, <2>5 DEF TemplatesTyped
<1>11. CASE EndRun
    BY <1>11 DEF EndRun, TemplatesTyped
<1>. QED  BY <1>1, <1>2, <1>4, <1>5, <1>6, <1>7, <1>9, <1>10, <1>11 DEF TemplateNext

LEMMA TemplateTypes == TemplateSpec => []TemplateTypeOK
<1>1. TemplatesTyped => TemplateTypeOK
    <2>. SUFFICES ASSUME TemplatesTyped PROVE TemplateTypeOK
        OBVIOUS
    <2>1. run.phase \in {"idle", "template", "dates"}
        BY DEF TemplatesTyped, NotRunning, RunPicks, RunDates
    <2>2. TemplateRow \subseteq [active : BOOLEAN, frequency : Frequencies, next : Nat, told : WorkDays]
        BY DEF TemplateRow
    <2>. QED  BY <2>1, <2>2 DEF TemplatesTyped, TemplateTypeOK
<1>. QED  BY <1>1, TemplatesStartTyped, TemplatesStayTyped, PTL DEF TemplateSpec

\* The schedule and what each operation has read of it, where a plan may be
\* of terms that are no more and an entry of a row that is gone.
BilledPlans == UNION {[S -> [until : Months, amount : Nat]] : S \in SUBSET Months}
BilledRow == [until : Months, amount : Nat, row : Nat, status : {"PENDING", "SKIPPED", "INVOICED"}]
BilledRows == UNION {[S -> BilledRow] : S \in SUBSET Months}
BilledUpserts == [op : {"build", "run"}, at : {"upsert"}, plan : BilledPlans, left : SUBSET Months]
BilledDue == [op : {"run"}, at : {"invoice"}, due : BilledRows]
BilledAmends == [op : {"amend"}, terms : AllTerms, seen : SUBSET Months]
BilledByHand == [op : {"bill"}, period : Months, entry : BilledRow]
BilledWork ==
    {Idle} \cup BilledUpserts \cup [op : {"run"}, at : {"select"}] \cup BilledDue
           \cup BilledAmends \cup BilledByHand

EntriesTyped ==
    /\ entries \in BilledRows /\ rows \in [Months -> Nat]
    /\ \A m \in DOMAIN entries : 1 <= entries[m].row /\ entries[m].row <= rows[m]

WorkTyped ==
    /\ job \in [Billers -> BilledWork]
    /\ \A b \in Billers : job[b] \in BilledUpserts => job[b].left \subseteq DOMAIN job[b].plan
    /\ \A b \in Billers : job[b].op = "amend" =>
        amended < MaxAmendments /\ \A o \in Billers \ {b} : job[o].op # "amend"

BillingTyped ==
    /\ terms \in AllTerms /\ billable \in BOOLEAN /\ month \in Months
    /\ EntriesTyped
    /\ drawn \in Seq(Drawing)
    /\ \A n \in 1 .. Len(drawn) : drawn[n].until \in Months
    /\ WorkTyped
    /\ amended \in 0 .. MaxAmendments /\ failed \in 0 .. MaxFailures

LEMMA PlanOfTerms ==
    ASSUME NEW t \in AllTerms
    PROVE  Periods(t) \in BilledPlans /\ DOMAIN Periods(t) \in SUBSET Months
<1>1. Periods(t) \in Plans /\ DOMAIN Periods(t) \in SUBSET Months
    BY PeriodForms
<1>2. PICK S \in SUBSET Months : Periods(t) \in [S -> [until : Nat, amount : Nat]]
    BY <1>1 DEF Plans
<1>3. S = DOMAIN Periods(t)
    BY <1>2
<1>4. \A m \in S : Periods(t)[m] \in [until : Months, amount : Nat]
    <2>1. ASSUME NEW p \in [until : Nat, amount : Nat], p.until \in Months
          PROVE  p \in [until : Months, amount : Nat]
        BY <2>1
    <2>. QED  BY <1>2, <1>3, <2>1, PeriodForms
<1>5. Periods(t) \in [S -> [until : Months, amount : Nat]]
    BY <1>2, <1>4
<1>. QED  BY <1>1, <1>5 DEF BilledPlans

LEMMA PlanForms ==
    ASSUME NEW plan \in BilledPlans
    PROVE  /\ DOMAIN plan \in SUBSET Months
           /\ \A m \in DOMAIN plan : plan[m].until \in Months /\ plan[m].amount \in Nat
<1>1. PICK S \in SUBSET Months : plan \in [S -> [until : Months, amount : Nat]]
    BY DEF BilledPlans
<1>. QED  BY <1>1

LEMMA EntryForms ==
    ASSUME NEW chosen \in BilledRows
    PROVE  /\ DOMAIN chosen \in SUBSET Months
           /\ \A m \in DOMAIN chosen : chosen[m] \in BilledRow /\ chosen[m].row \in Nat
           /\ chosen = [m \in DOMAIN chosen |-> chosen[m]]
<1>1. PICK S \in SUBSET Months : chosen \in [S -> BilledRow]
    BY DEF BilledRows
<1>2. \A e \in BilledRow : e.row \in Nat
    BY DEF BilledRow
<1>. QED  BY <1>1, <1>2

LEMMA SomeEntries ==
    ASSUME NEW chosen \in BilledRows, NEW some \in SUBSET DOMAIN chosen
    PROVE  /\ Restrict(chosen, some) \in BilledRows /\ DOMAIN Restrict(chosen, some) = some
           /\ \A m \in some : Restrict(chosen, some)[m] = chosen[m]
<1>1. Restrict(chosen, some) \in [some -> BilledRow]
    BY EntryForms DEF Restrict
<1>2. some \in SUBSET Months
    BY EntryForms
<1>. QED  BY <1>1, <1>2 DEF BilledRows, Restrict

LEMMA WorkForms ==
    ASSUME NEW j \in BilledWork
    PROVE  /\ j.op \in BillingOperations \cup {"idle"}
           /\ j.op \in {"build", "run"} /\ j.at = "upsert" => j \in BilledUpserts
           /\ j.op = "run" /\ j.at = "invoice" => j \in BilledDue
           /\ j.op = "amend" => j \in BilledAmends
           /\ j.op = "bill" => j \in BilledByHand
           /\ j \in BilledUpserts => j.op \in {"build", "run"}
BY DEF BilledWork, BilledUpserts, BilledDue, BilledAmends, BilledByHand, Idle, BillingOperations

\* The rows after some upserts and what is kept of the others.
LEMMA EntriesWritten ==
    ASSUME EntriesTyped, NEW plan \in BilledPlans, NEW some \in SUBSET DOMAIN plan, CountRows(some),
           NEW S \in SUBSET (DOMAIN entries \cup some),
           entries' = [m \in S |-> IF m \in some THEN Upsert(m, plan[m]) ELSE entries[m]]
    PROVE  EntriesTyped'
<1>1. /\ DOMAIN entries \in SUBSET Months /\ some \in SUBSET Months
      /\ \A m \in DOMAIN entries : entries[m] \in BilledRow /\ entries[m].row \in Nat
    BY EntryForms, PlanForms DEF EntriesTyped
<1>2. rows' = [m \in Months |-> IF m \in some \ DOMAIN entries THEN rows[m] + 1 ELSE rows[m]]
    BY DEF CountRows
<1>3. /\ rows' \in [Months -> Nat]
      /\ \A m \in Months : rows[m] \in Nat /\ rows[m] <= rows'[m]
      /\ \A m \in some \ DOMAIN entries : rows'[m] = rows[m] + 1
    BY <1>1, <1>2 DEF EntriesTyped
<1>4. ASSUME NEW m \in some
      PROVE  /\ Upsert(m, plan[m]) \in BilledRow
             /\ 1 <= Upsert(m, plan[m]).row /\ Upsert(m, plan[m]).row <= rows'[m]
    <2>. DEFINE p == plan[m]
    <2>1. p.until \in Months /\ p.amount \in Nat
        BY PlanForms
    <2>. HIDE DEF p
    <2>2. CASE m \in DOMAIN entries
        <3>. DEFINE e == [entries[m] EXCEPT !.until = p.until, !.amount = p.amount]
        <3>1. e \in BilledRow /\ e.row = entries[m].row
            BY <1>1, <2>1, <2>2 DEF BilledRow
        <3>2. Upsert(m, p) = e
            BY <2>2 DEF Upsert
        <3>3. 1 <= entries[m].row /\ entries[m].row <= rows[m] /\ m \in Months
            BY <1>1, <2>2 DEF EntriesTyped
        <3>. HIDE DEF e
        <3>4. 1 <= e.row /\ e.row <= rows'[m]
            BY <1>1, <1>3, <2>2, <3>1, <3>3
        <3>. QED  BY <3>1, <3>2, <3>4 DEF p
    <2>3. CASE m \notin DOMAIN entries
        <3>1. rows[m] \in Nat /\ rows'[m] = rows[m] + 1
            BY <1>1, <1>3, <2>3
        <3>2. Row(p, rows[m] + 1) \in BilledRow /\ Row(p, rows[m] + 1).row = rows[m] + 1
            BY <2>1, <3>1 DEF Row, BilledRow
        <3>3. Upsert(m, p) = Row(p, rows[m] + 1)
            BY <2>3 DEF Upsert
        <3>4. 1 <= rows[m] + 1
            BY <3>1
        <3>. QED  BY <3>1, <3>2, <3>3, <3>4 DEF p
    <2>. QED  BY <2>2, <2>3
<1>5. ASSUME NEW m \in S
      PROVE  entries'[m] \in BilledRow /\ 1 <= entries'[m].row /\ entries'[m].row <= rows'[m]
    <2>1. CASE m \in some
        BY <1>4, <2>1
    <2>2. CASE m \notin some
        <3>1. m \in DOMAIN entries /\ entries'[m] = entries[m] /\ m \in Months
            BY <1>1, <2>2
        <3>2. rows[m] \in Nat /\ rows'[m] \in Nat /\ rows[m] <= rows'[m] /\ entries[m].row <= rows[m]
            BY <1>3, <3>1 DEF EntriesTyped
        <3>. QED  BY <1>1, <3>1, <3>2 DEF EntriesTyped
    <2>. QED  BY <2>1, <2>2
<1>6. DOMAIN entries' = S /\ S \in SUBSET Months
    BY <1>1
<1>7. entries' \in [S -> BilledRow]
    BY <1>5, <1>6
<1>. QED  BY <1>3, <1>5, <1>6, <1>7 DEF EntriesTyped, BilledRows

\* A row becomes INVOICED.
LEMMA EntryInvoiced ==
    ASSUME EntriesTyped, NEW m \in DOMAIN entries, UNCHANGED rows,
           entries' = [entries EXCEPT ![m].status = "INVOICED"]
    PROVE  EntriesTyped'
<1>. DEFINE e == [entries[m] EXCEPT !.status = "INVOICED"]
<1>1. entries[m] \in BilledRow /\ DOMAIN entries \in SUBSET Months /\ entries = [n \in DOMAIN entries |-> entries[n]]
    BY EntryForms DEF EntriesTyped
<1>2. e \in BilledRow /\ e.row = entries[m].row
    BY <1>1 DEF BilledRow
<1>3. entries' = [entries EXCEPT ![m] = e]
    OBVIOUS
<1>. HIDE DEF e
<1>4. /\ DOMAIN entries' = DOMAIN entries
      /\ \A n \in DOMAIN entries : entries'[n] = IF n = m THEN e ELSE entries[n]
      /\ entries' = [n \in DOMAIN entries |-> entries'[n]]
    BY <1>1, <1>3
<1>5. \A n \in DOMAIN entries : entries'[n] \in BilledRow /\ entries'[n].row = entries[n].row
    BY <1>2, <1>4, EntryForms DEF EntriesTyped
<1>6. entries' \in [DOMAIN entries -> BilledRow]
    BY <1>4, <1>5
<1>. QED  BY <1>1, <1>4, <1>5, <1>6 DEF EntriesTyped, BilledRows

LEMMA RowDrawn ==
    ASSUME NEW m \in Months, NEW e \in BilledRow, BillingTyped,
           drawn' = Append(drawn, InvoiceOf(m, e))
    PROVE  drawn' \in Seq(Drawing) /\ \A n \in 1 .. Len(drawn') : drawn'[n].until \in Months
<1>. DEFINE d == InvoiceOf(m, e)
<1>1. Months \subseteq Nat
    BY DEF Months
<1>2. d \in Drawing /\ d.until \in Months
    BY <1>1 DEF InvoiceOf, Drawing, BilledRow
<1>. HIDE DEF d
<1>3. drawn \in Seq(Drawing) /\ drawn' = Append(drawn, d)
    BY DEF BillingTyped, d
<1>4. drawn' \in Seq(Drawing) /\ Len(drawn') = Len(drawn) + 1 /\ drawn'[Len(drawn) + 1] = d
      /\ \A n \in 1 .. Len(drawn) : drawn'[n] = drawn[n]
    BY <1>2, <1>3
<1>. QED  BY <1>2, <1>3, <1>4 DEF BillingTyped

\* The next step of a biller.
LEMMA WorkDone ==
    ASSUME WorkTyped, NEW b \in Billers, NEW j \in BilledWork, Do(b, j),
           j \in BilledUpserts => j.left \subseteq DOMAIN j.plan,
           j.op = "amend" =>
                amended < MaxAmendments /\ \A o \in Billers : job[o].op # "amend",
           amended' = amended \/ (j.op # "amend" /\ \A o \in Billers \ {b} : job[o].op # "amend")
    PROVE  WorkTyped'
<1>1. /\ job' \in [Billers -> BilledWork] /\ job'[b] = j
      /\ \A o \in Billers \ {b} : job'[o] = job[o]
    BY DEF WorkTyped, Do
<1>2. \A o \in Billers : job'[o] \in BilledUpserts => job'[o].left \subseteq DOMAIN job'[o].plan
    BY <1>1 DEF WorkTyped
<1>3. ASSUME NEW o \in Billers, job'[o].op = "amend"
      PROVE  amended' < MaxAmendments /\ \A p \in Billers \ {o} : job'[p].op # "amend"
    <2>1. CASE o = b
        BY <1>1, <1>3, <2>1 DEF WorkTyped
    <2>2. CASE o # b
        BY <1>1, <1>3, <2>2 DEF WorkTyped
    <2>. QED  BY <2>1, <2>2
<1>. QED  BY <1>1, <1>2, <1>3 DEF WorkTyped

LEMMA BillingStartsTyped == BillingInit => BillingTyped
<1>. SUFFICES ASSUME BillingInit PROVE BillingTyped
    OBVIOUS
<1>. DEFINE plan == Periods(terms)
<1>1. terms \in AllTerms /\ plan \in BilledPlans /\ DOMAIN plan \in SUBSET Months
    BY PlanOfTerms DEF BillingInit
<1>2. /\ entries = [m \in DOMAIN plan |-> Row(plan[m], 1)]
      /\ rows = [m \in Months |-> IF m \in DOMAIN plan THEN 1 ELSE 0]
    BY DEF BillingInit
<1>. HIDE DEF plan
<1>3. \A m \in DOMAIN plan : Row(plan[m], 1) \in BilledRow /\ Row(plan[m], 1).row = 1
    BY <1>1, PlanForms DEF Row, BilledRow
<1>4. EntriesTyped
    <2>1. entries \in [DOMAIN plan -> BilledRow]
        BY <1>2, <1>3
    <2>. QED  BY <1>1, <1>2, <1>3, <2>1 DEF EntriesTyped, BilledRows
<1>5. WorkTyped
    <2>1. job \in [Billers -> BilledWork] /\ \A b \in Billers : job[b] = Idle
        BY DEF BillingInit, BilledWork
    <2>2. Idle.op = "idle" /\ Idle \in BilledWork
        BY DEF BilledWork, Idle
    <2>. QED  BY <2>1, <2>2, WorkForms DEF WorkTyped
<1>6. month \in Months /\ billable \in BOOLEAN
    BY MonthsAssumption DEF BillingInit, Months
<1>7. drawn \in Seq(Drawing) /\ Len(drawn) = 0
    BY DEF BillingInit
<1>. QED  BY <1>1, <1>4, <1>5, <1>6, <1>7, BillingBounds DEF BillingInit, BillingTyped

LEMMA BillingStaysTyped == BillingTyped /\ [BillingNext]_billingVars => BillingTyped'
<1>. SUFFICES ASSUME BillingTyped, [BillingNext]_billingVars PROVE BillingTyped'
    OBVIOUS
<1>0. /\ Months \subseteq Nat /\ EntriesTyped /\ WorkTyped /\ entries \in BilledRows
      /\ \A o \in Billers : job[o] \in BilledWork
    BY DEF Months, BillingTyped, EntriesTyped, WorkTyped
<1>1. CASE UNCHANGED billingVars
    BY <1>1 DEF billingVars, BillingTyped, EntriesTyped, WorkTyped
\* A biller that goes on to j, and may write the schedule.
<1>2. ASSUME NEW b \in Billers, NEW j \in BilledWork, Do(b, j), j.op # "amend",
             j \in BilledUpserts => j.left \subseteq DOMAIN j.plan,
             EntriesTyped', failed' \in 0 .. MaxFailures,
             drawn' = drawn \/ \E m \in Months, e \in BilledRow : drawn' = Append(drawn, InvoiceOf(m, e)),
             UNCHANGED <<terms, billable, month, amended>>
      PROVE  BillingTyped'
    <2>1. WorkTyped'
        BY <1>0, <1>2, WorkDone
    <2>2. drawn' \in Seq(Drawing) /\ \A n \in 1 .. Len(drawn') : drawn'[n].until \in Months
        BY <1>2, RowDrawn DEF BillingTyped
    <2>. QED  BY <1>2, <2>1, <2>2 DEF BillingTyped
<1>3. Idle \in BilledWork /\ Idle.op = "idle" /\ Idle \notin BilledUpserts
    <2>1. Idle \in BilledWork /\ Idle.op = "idle"
        BY DEF BilledWork, Idle
    <2>. QED  BY <2>1, WorkForms
<1>4. UNCHANGED <<entries, rows>> => EntriesTyped'
    BY <1>0 DEF EntriesTyped
<1>5. failed \in 0 .. MaxFailures
    BY DEF BillingTyped
<1>6. ASSUME NEW b \in Billers, NEW op \in {"build", "run"}, BuildRead(b, op) PROVE BillingTyped'
    <2>. DEFINE plan == Periods(terms)
                j == [op |-> op, at |-> "upsert", plan |-> plan, left |-> DOMAIN plan \ Invoiced]
    <2>1. plan \in BilledPlans /\ DOMAIN plan \in SUBSET Months
        BY PlanOfTerms DEF BillingTyped
    <2>2. Do(b, j) /\ UNCHANGED <<terms, billable, month, entries, rows, drawn, amended, failed>>
        BY <1>6 DEF BuildRead
    <2>. HIDE DEF plan
    <2>3. j \in BilledUpserts /\ j.left \subseteq DOMAIN j.plan /\ j.op # "amend"
        BY <2>1 DEF BilledUpserts
    <2>. HIDE DEF j
    <2>4. j \in BilledWork
        BY <2>3 DEF BilledWork
    <2>. QED  BY <1>2, <1>4, <1>5, <2>2, <2>3, <2>4
<1>7. ASSUME NEW b \in Billers, BuildUpsert(b) PROVE BillingTyped'
    <2>1. /\ job[b] \in BilledUpserts /\ job[b].left # {} /\ job[b].left \subseteq DOMAIN job[b].plan
          /\ job[b].plan \in BilledPlans /\ job[b].left \in SUBSET Months
        <3>1. job[b] \in BilledUpserts
            BY <1>0, <1>7, WorkForms DEF BuildUpsert
        <3>. QED  BY <1>0, <1>7, <3>1 DEF BuildUpsert, WorkTyped, BilledUpserts
    <2>. DEFINE m == Min(job[b].left)
                plan == job[b].plan
                j == [job[b] EXCEPT !.left = @ \ {m}]
    <2>2. m \in job[b].left
        <3>1. job[b].left \in SUBSET Nat
            BY <1>0, <2>1
        <3>2. \E n \in job[b].left : \A k \in job[b].left : n <= k
            BY <2>1, <3>1, LeastNumber
        <3>. QED  BY <3>2 DEF Min
    <2>3. /\ entries' = Upserted(plan, {m}) /\ CountRows({m}) /\ Do(b, j)
          /\ UNCHANGED <<terms, billable, month, drawn, amended, failed>>
        BY <1>7 DEF BuildUpsert
    <2>4. /\ j \in BilledUpserts /\ j.left = job[b].left \ {m} /\ j.plan = plan
        BY <2>1 DEF BilledUpserts
    <2>. HIDE DEF m, plan
    <2>5. EntriesTyped'
        <3>1. {m} \in SUBSET DOMAIN plan /\ plan \in BilledPlans
            BY <2>1, <2>2 DEF plan
        <3>2. entries' = [n \in DOMAIN entries \cup {m} |-> IF n \in {m} THEN Upsert(n, plan[n]) ELSE entries[n]]
            BY <2>3 DEF Upserted
        <3>. QED  BY <1>0, <2>3, <3>1, <3>2, EntriesWritten
    <2>. HIDE DEF j
    <2>6. j \in BilledWork /\ j.op # "amend" /\ j.left \subseteq DOMAIN j.plan
        BY <2>1, <2>4 DEF BilledWork, plan, BilledUpserts
    <2>. QED  BY <1>2, <1>5, <2>3, <2>5, <2>6
<1>8. ASSUME NEW b \in Billers, BuildPrune(b) PROVE BillingTyped'
    <2>. DEFINE j == IF job[b].op = "run" THEN [op |-> "run", at |-> "select"] ELSE Idle
                S == Kept(DOMAIN job[b].plan)
    <2>1. [op |-> "run", at |-> "select"] \in BilledWork
        BY DEF BilledWork
    <2>2. j \in BilledWork /\ j.op # "amend" /\ j \notin BilledUpserts
        <3>1. [op |-> "run", at |-> "select"] \notin BilledUpserts
            BY DEF BilledUpserts
        <3>. QED  BY <1>3, <2>1, <3>1
    <2>3. /\ entries' = Restrict(entries, S) /\ Do(b, j)
          /\ UNCHANGED <<terms, billable, month, rows, drawn, amended, failed>>
        BY <1>8 DEF BuildPrune
    <2>4. S \in SUBSET DOMAIN entries
        BY DEF Kept
    <2>. HIDE DEF S, j
    <2>5. EntriesTyped'
        <3>1. \A m \in S : entries'[m] = entries[m] /\ DOMAIN entries' = S
            BY <2>3 DEF Restrict
        <3>2. entries' \in BilledRows /\ DOMAIN entries' = S
            BY <1>0, <2>3, <2>4, SomeEntries
        <3>. QED  BY <1>0, <2>3, <2>4, <3>1, <3>2 DEF EntriesTyped
    <2>. QED  BY <1>2, <1>5, <2>2, <2>3, <2>5
<1>9. ASSUME NEW b \in Billers, SelectDue(b) PROVE BillingTyped'
    <2>. DEFINE chosen == Restrict(entries, {m \in DOMAIN entries :
                            entries[m].status = "PENDING" /\ entries[m].amount > 0 /\ m <= month})
                j == [op |-> "run", at |-> "invoice", due |-> chosen]
    <2>1. chosen \in BilledRows
        BY <1>0, SomeEntries
    <2>2. Do(b, j) /\ UNCHANGED <<terms, billable, month, entries, rows, drawn, amended, failed>>
        BY <1>9 DEF SelectDue
    <2>. HIDE DEF chosen
    <2>3. j \in BilledDue /\ j.op = "run" /\ j.at = "invoice"
        BY <2>1 DEF BilledDue
    <2>. HIDE DEF j
    <2>4. j \in BilledWork /\ j \notin BilledUpserts
        BY <2>3 DEF BilledWork, BilledUpserts
    <2>. QED  BY <1>2, <1>4, <1>5, <2>2, <2>3, <2>4
<1>10. ASSUME NEW b \in Billers, GenerateInvoice(b) PROVE BillingTyped'
    <2>1. job[b] \in BilledDue /\ DOMAIN job[b].due # {} /\ job[b].due \in BilledRows
        <3>1. job[b] \in BilledDue
            BY <1>0, <1>10, WorkForms DEF GenerateInvoice
        <3>. QED  BY <1>10, <3>1 DEF GenerateInvoice, BilledDue
    <2>. DEFINE chosen == job[b].due
                m == Min(DOMAIN chosen)
                e == chosen[m]
                rest == Restrict(chosen, DOMAIN chosen \ {m})
                j == [job[b] EXCEPT !.due = rest]
    <2>2. m \in DOMAIN chosen /\ DOMAIN chosen \in SUBSET Months
        <3>1. DOMAIN chosen \in SUBSET Nat /\ DOMAIN chosen \in SUBSET Months
            BY <1>0, <2>1, EntryForms
        <3>2. \E n \in DOMAIN chosen : \A k \in DOMAIN chosen : n <= k
            BY <2>1, <3>1, LeastNumber
        <3>. QED  BY <3>1, <3>2 DEF Min
    <2>3. /\ m \in DOMAIN entries /\ drawn' = IF Taken(m, e) THEN drawn ELSE Append(drawn, InvoiceOf(m, e))
          /\ entries' = [entries EXCEPT ![m].status = "INVOICED"] /\ Do(b, j)
          /\ UNCHANGED <<terms, billable, month, rows, amended, failed>>
        BY <1>10 DEF GenerateInvoice, Present
    <2>. HIDE DEF m
    <2>4. e \in BilledRow /\ m \in Months /\ rest \in BilledRows
        BY <2>1, <2>2, EntryForms, SomeEntries
    <2>. HIDE DEF rest
    <2>5. j \in BilledDue
        BY <2>1, <2>4 DEF BilledDue
    <2>. HIDE DEF j, e
    <2>6. j \in BilledWork /\ j \notin BilledUpserts /\ j.op # "amend"
        BY <2>5 DEF BilledWork, BilledUpserts, BilledDue
    <2>7. EntriesTyped'
        BY <1>0, <2>3, EntryInvoiced
    <2>. QED  BY <1>2, <1>5, <2>3, <2>4, <2>6, <2>7
<1>11. ASSUME NEW b \in Billers, GenerateEnd(b) PROVE BillingTyped'
    BY <1>2, <1>3, <1>4, <1>5, <1>11 DEF GenerateEnd
<1>12. ASSUME NEW b \in Billers, Fail(b) PROVE BillingTyped'
    <2>1. failed' \in 0 .. MaxFailures
        BY <1>5, <1>12, BillingBounds DEF Fail
    <2>. QED  BY <1>2, <1>3, <1>4, <1>12, <2>1 DEF Fail
<1>13. ASSUME NEW b \in Billers, NEW m \in Months, BillRead(b, m) PROVE BillingTyped'
    <2>. DEFINE j == [op |-> "bill", period |-> m, entry |-> entries[m]]
    <2>1. entries[m] \in BilledRow
        BY <1>0, <1>13, EntryForms DEF BillRead
    <2>2. j \in BilledByHand /\ j.op = "bill"
        BY <2>1 DEF BilledByHand
    <2>3. Do(b, j) /\ UNCHANGED <<terms, billable, month, entries, rows, drawn, amended, failed>>
        BY <1>13 DEF BillRead
    <2>. HIDE DEF j
    <2>4. j \in BilledWork /\ j \notin BilledUpserts
        BY <2>2 DEF BilledWork, BilledUpserts
    <2>. QED  BY <1>2, <1>4, <1>5, <2>2, <2>3, <2>4
<1>14. ASSUME NEW b \in Billers, Bill(b) PROVE BillingTyped'
    <2>. DEFINE m == job[b].period
                e == job[b].entry
    <2>1. m \in Months /\ e \in BilledRow
        <3>1. job[b] \in BilledByHand
            BY <1>0, <1>14, WorkForms DEF Bill
        <3>. QED  BY <3>1 DEF BilledByHand
    <2>2. /\ \/ /\ m \in DOMAIN entries /\ drawn' = Append(drawn, InvoiceOf(m, e))
               /\ entries' = [entries EXCEPT ![m].status = "INVOICED"]
            \/ UNCHANGED <<drawn, entries>>
          /\ Do(b, Idle) /\ UNCHANGED <<terms, billable, month, rows, amended, failed>>
        BY <1>14 DEF Bill, Present
    <2>. HIDE DEF m, e
    <2>3. EntriesTyped'
        BY <1>0, <1>4, <2>2, EntryInvoiced
    <2>. QED  BY <1>2, <1>3, <1>5, <2>1, <2>2, <2>3
<1>15. ASSUME NEW b \in Billers, NEW t \in AllTerms, AmendRead(b, t) PROVE BillingTyped'
    <2>. DEFINE j == [op |-> "amend", terms |-> t, seen |-> Invoiced]
    <2>1. Invoiced \in SUBSET Months
        BY <1>0, EntryForms DEF Invoiced
    <2>2. j \in BilledAmends /\ j.op = "amend"
        BY <2>1 DEF BilledAmends
    <2>3. /\ Do(b, j) /\ \A o \in Billers \ {b} : job[o].op # "amend"
          /\ job[b] = Idle /\ amended < MaxAmendments
          /\ UNCHANGED <<terms, billable, month, entries, rows, drawn, amended, failed>>
        BY <1>15 DEF AmendRead, MayStart
    <2>. HIDE DEF j
    <2>4. j \in BilledWork /\ j \notin BilledUpserts
        BY <2>2 DEF BilledWork, BilledUpserts
    <2>5. \A o \in Billers : job[o].op # "amend"
        BY <1>3, <2>3
    <2>6. WorkTyped'
        BY <1>0, <2>2, <2>3, <2>4, <2>5, WorkDone
    <2>. QED  BY <1>4, <2>3, <2>6 DEF BillingTyped
<1>16. ASSUME NEW b \in Billers, Amend(b) PROVE BillingTyped'
    <2>1. job[b] \in BilledAmends /\ job[b].op = "amend" /\ job[b].terms \in AllTerms
        <3>1. job[b] \in BilledAmends /\ job[b].op = "amend"
            BY <1>0, <1>16, WorkForms DEF Amend
        <3>. QED  BY <3>1 DEF BilledAmends
    <2>. DEFINE plan == Periods(job[b].terms)
                some == DOMAIN plan \ job[b].seen
                S == Kept(DOMAIN plan) \cup some
    <2>2. /\ entries' = Restrict(Upserted(plan, some), S) /\ CountRows(some)
          /\ terms' = job[b].terms /\ amended' = amended + 1 /\ Do(b, Idle)
          /\ UNCHANGED <<billable, month, drawn, failed>>
        BY <1>16 DEF Amend
    <2>3. plan \in BilledPlans /\ some \in SUBSET DOMAIN plan
        BY <2>1, PlanOfTerms
    <2>4. S \in SUBSET (DOMAIN entries \cup some)
        BY DEF Kept
    <2>. HIDE DEF plan, some, S
    <2>5. entries' = [m \in S |-> IF m \in some THEN Upsert(m, plan[m]) ELSE entries[m]]
        BY <2>2, <2>4 DEF Restrict, Upserted
    <2>6. EntriesTyped'
        BY <1>0, <2>2, <2>3, <2>4, <2>5, EntriesWritten
    <2>7. amended < MaxAmendments /\ \A o \in Billers \ {b} : job[o].op # "amend"
        BY <1>0, <2>1 DEF WorkTyped
    <2>8. WorkTyped'
        BY <1>0, <1>3, <2>2, <2>7, WorkDone
    <2>9. amended' \in 0 .. MaxAmendments
        BY <2>2, <2>7, BillingBounds DEF BillingTyped
    <2>. QED  BY <2>1, <2>2, <2>6, <2>8, <2>9 DEF BillingTyped
<1>17. CASE EndContract
    BY <1>4, <1>17 DEF EndContract, BillingTyped, WorkTyped
<1>18. CASE MonthPasses
    <2>1. month' \in Months
        BY <1>18, MonthsAssumption DEF MonthPasses, BillingTyped, Months
    <2>. QED  BY <1>4, <1>18, <2>1 DEF MonthPasses, BillingTyped, WorkTyped
<1>. QED
    BY <1>1, <1>6, <1>7, <1>8, <1>9, <1>10, <1>11, <1>12, <1>13, <1>14, <1>15, <1>16, <1>17, <1>18
       DEF BillingNext, BillingStep

LEMMA BillingTypes == BillingSpec => []BillingTypeOK
<1>1. BillingTyped => BillingTypeOK
    <2>. SUFFICES ASSUME BillingTyped PROVE BillingTypeOK
        OBVIOUS
    <2>1. ASSUME NEW m \in DOMAIN entries
          PROVE  m \in Months /\ entries[m] \in [until : Months, amount : Nat, row : 1 .. rows[m],
                                                status : {"PENDING", "SKIPPED", "INVOICED"}]
        <3>1. m \in Months /\ entries[m] \in BilledRow
            BY EntryForms DEF BillingTyped, EntriesTyped
        <3>2. entries[m].row \in 1 .. rows[m]
            BY <3>1 DEF BillingTyped, EntriesTyped, BilledRow
        <3>3. ASSUME NEW e \in BilledRow, NEW k, e.row \in 1 .. k
              PROVE  e \in [until : Months, amount : Nat, row : 1 .. k,
                             status : {"PENDING", "SKIPPED", "INVOICED"}]
            BY <3>3 DEF BilledRow
        <3>. QED  BY <3>1, <3>2, <3>3
    <2>2. drawn \in Seq([period : Months, row : Nat, until : Months, amount : Nat])
        <3>1. ASSUME NEW d \in Drawing, d.until \in Months
              PROVE  d \in [period : Months, row : Nat, until : Months, amount : Nat]
            BY <3>1 DEF Drawing
        <3>2. drawn = [n \in 1 .. Len(drawn) |-> drawn[n]] /\ Len(drawn) \in Nat
              /\ \A n \in 1 .. Len(drawn) : drawn[n] \in Drawing
            BY DEF BillingTyped
        <3>. DEFINE T == [period : Months, row : Nat, until : Months, amount : Nat]
        <3>3. \A n \in 1 .. Len(drawn) : drawn[n] \in T
            BY <3>1, <3>2 DEF BillingTyped
        <3>. HIDE DEF T
        <3>4. drawn \in Seq(T)
            BY <3>2, <3>3
        <3>. QED  BY <3>4 DEF T
    <2>3. \A b \in Billers : job[b].op \in BillingOperations \cup {"idle"}
        BY WorkForms DEF BillingTyped, WorkTyped
    <2>. QED  BY <2>1, <2>2, <2>3 DEF BillingTyped, BillingTypeOK, EntriesTyped
<1>. QED  BY <1>1, BillingStartsTyped, BillingStaysTyped, PTL DEF BillingSpec

\* The row of an invoice and of what it bills, whatever is booked beside what.
InvoiceRow == [status : InvoiceStatuses, total : Nat, adjusted : Int, refunded : Int,
               issued : BOOLEAN, source : SourceTypes]
SourceRow == [paid : Nat, total : Nat, status : SourceStatuses]

InvoiceTyped ==
    /\ InvoiceTypeOK
    /\ Len(payments) <= MaxPayments /\ Len(adjustments) <= MaxAdjustments
    /\ \A k \in Callers : call[k].op = "cancel" => call[k].adjustment \in 1 .. Len(adjustments)

LEMMA TypedRows ==
    ASSUME InvoiceTyped
    PROVE  /\ InvRows /\ invoice \in InvoiceRow /\ source \in SourceRow
           /\ payments \in Seq(PaymentRows) /\ adjustments \in Seq(AdjustmentRows)
           /\ AmountsKnown(invoice) /\ LineTotal \in Nat
           /\ call \in [Callers -> Calls] /\ \A k \in Callers : call[k] \in Calls
<1>1. /\ invoice \in InvoiceRow /\ source \in SourceRow
      /\ payments \in Seq(PaymentRows) /\ adjustments \in Seq(AdjustmentRows)
      /\ call \in [Callers -> Calls]
    BY DEF InvoiceTyped, InvoiceTypeOK, InvoiceRow, SourceRow, PaymentRows, AdjustmentRows
<1>2. \A c \in Calls : CallOK(c)
    <2>1. 1 .. MaxPayments \subseteq Nat /\ 1 .. MaxAdjustments \subseteq Nat
        BY BookingBounds
    <2>. QED  BY <2>1 DEF Calls, CallOK, ProperCalls
<1>3. InvRows
    BY <1>1, <1>2 DEF InvRows, InvoiceRow
<1>4. LineTotal \in Nat
    <2>1. LineAmounts \cup {0} \subseteq Nat
        BY AmountsAssumption
    <2>2. lines \in [LineIds -> Nat]
        BY <2>1 DEF InvoiceTyped, InvoiceTypeOK
    <2>. QED  BY <2>2, LinesAddUp
<1>5. AmountsKnown(invoice)
    BY <1>1 DEF AmountsKnown, InvoiceRow
<1>. QED  BY <1>1, <1>3, <1>4, <1>5

\* The receivable after its invoice is booked on.
LEMMA MirrorTyped ==
    ASSUME NEW i \in InvoiceRow, NEW ps \in Seq(PaymentRows), source \in SourceRow
    PROVE  Mirror(i, ps) \in SourceRow
<1>1. NetPaid(i, ps) \in Nat
    BY Worth DEF AmountsKnown, InvoiceRow
<1>2. i.status \in InvoiceStatuses /\ source.total \in Nat
    BY DEF InvoiceRow, SourceRow
<1>. DEFINE paid == IF NetPaid(i, ps) > source.total THEN source.total ELSE NetPaid(i, ps)
            told == CASE i.status \in {"DRAFT", "ISSUED"} -> "PENDING"
                      [] i.status = "PARTIALLY_PAID"      -> "PARTIAL"
                      [] OTHER                            -> i.status
            held == StatementStatus(paid, source.total)
<1>3. told \in SourceStatuses
    BY <1>2 DEF InvoiceStatuses, SourceStatuses
<1>4. held \in SourceStatuses
    BY DEF SourceStatuses, StatementStatus
<1>5. paid \in Nat
    BY <1>1, <1>2
<1>6. Mirror(i, ps) \in {[source EXCEPT !.paid = NetPaid(i, ps), !.status = told],
                         [source EXCEPT !.paid = paid, !.status = held], source}
    BY DEF Mirror
<1>. HIDE DEF paid, told, held
<1>. QED  BY <1>1, <1>3, <1>4, <1>5, <1>6 DEF SourceRow

\* The recompute of a row.
LEMMA RecomputeTyped ==
    ASSUME NEW i \in InvoiceRow, payments' \in Seq(PaymentRows), source \in SourceRow, Recompute(i)
    PROVE  invoice' \in InvoiceRow /\ source' \in SourceRow
<1>. DEFINE s == StatusOf(i, payments')
            done == [i EXCEPT !.status = s]
<1>1. s \in InvoiceStatuses
    BY StatusRange
<1>2. (invoice' = i /\ source' = source) \/ (invoice' = done /\ source' = Mirror(done, payments'))
    BY DEF Recompute
<1>. HIDE DEF s
<1>3. done \in InvoiceRow
    BY <1>1 DEF InvoiceRow
<1>. HIDE DEF done
<1>. QED  BY <1>2, <1>3, MirrorTyped

LEMMA InvoiceStartsTyped == InvoiceInit => InvoiceTyped
<1>. SUFFICES ASSUME InvoiceInit PROVE InvoiceTyped
    OBVIOUS
<1>1. LineTotal \in Nat /\ LineAmounts \subseteq Nat
    <2>1. LineAmounts \cup {0} \subseteq Nat
        BY AmountsAssumption
    <2>2. lines \in [LineIds -> Nat]
        BY <2>1 DEF InvoiceInit
    <2>. QED  BY <2>1, <2>2, LinesAddUp
<1>2. PICK total \in IF LineTotal = 0 THEN LineAmounts ELSE {LineTotal}, type \in SourceTypes :
      \E paid \in IF type = "PARKING" THEN 0 .. total ELSE {0} :
        /\ invoice = [status |-> "DRAFT", total |-> total, adjusted |-> 0, refunded |-> 0,
                      issued |-> FALSE, source |-> type]
        /\ source = [paid |-> paid, total |-> total,
                     status |-> IF type = "PARKING" THEN StatementStatus(paid, total)
                                ELSE "PENDING"]
        /\ payments = IF paid = 0 THEN << >>
                      ELSE <<[amount |-> paid, key |-> SourceKey, reversed |-> FALSE]>>
    BY DEF InvoiceInit
<1>3. total \in Nat
    BY <1>1
<1>4. invoice \in InvoiceRow
    BY <1>2, <1>3, FALSE \in BOOLEAN DEF InvoiceRow, InvoiceStatuses
<1>8. PICK paid \in (0 .. total) \cup {0} :
        /\ source = [paid |-> paid, total |-> total,
                     status |-> IF type = "PARKING" THEN StatementStatus(paid, total)
                                ELSE "PENDING"]
        /\ payments = IF paid = 0 THEN << >>
                      ELSE <<[amount |-> paid, key |-> SourceKey, reversed |-> FALSE]>>
    BY <1>2
<1>9. paid \in Nat
    BY <1>3
<1>5. source \in SourceRow
    BY <1>3, <1>8, <1>9 DEF SourceRow, SourceStatuses, StatementStatus
<1>10. payments \in Seq(PaymentRows) /\ Len(payments) <= 1
    <2>1. [amount |-> paid, key |-> SourceKey, reversed |-> FALSE] \in PaymentRows
        BY <1>9, FALSE \in BOOLEAN DEF PaymentRows
    <2>. QED  BY <1>8, <2>1
<1>6. /\ adjustments \in Seq(AdjustmentRows) /\ Len(adjustments) = 0
      /\ \A k \in Callers : call[k] = NoCall
      /\ call \in [Callers -> Calls]
    BY DEF InvoiceInit, Calls
<1>7. Len(payments) <= MaxPayments /\ Len(adjustments) <= MaxAdjustments
    BY <1>6, <1>10, BookingBounds
<1>. QED
    BY <1>4, <1>5, <1>6, <1>7, <1>10
       DEF InvoiceInit, InvoiceTyped, InvoiceTypeOK, InvoiceRow, SourceRow, PaymentRows, AdjustmentRows,
           DueDates, NoCall

\* A call starts or goes on, and no row changes but as the step says.
LEMMA CallTyped ==
    ASSUME InvoiceTyped, NEW k \in Callers, NEW c \in Calls, call' = [call EXCEPT ![k] = c],
           invoice' \in InvoiceRow, source' \in SourceRow, due' \in DueDates,
           lines' \in [LineIds -> LineAmounts \cup {0}],
           payments' \in Seq(PaymentRows), Len(payments') <= MaxPayments,
           adjustments' \in Seq(AdjustmentRows), Len(adjustments) <= Len(adjustments'),
           Len(adjustments') <= MaxAdjustments,
           c.op = "cancel" => c.adjustment \in 1 .. Len(adjustments)
    PROVE  InvoiceTyped'
<1>1. /\ call' \in [Callers -> Calls] /\ call'[k] = c
      /\ \A j \in Callers \ {k} : call'[j] = call[j]
    BY TypedRows
<1>2. 1 .. Len(adjustments) \subseteq 1 .. Len(adjustments')
    <2>1. Len(adjustments) \in Nat /\ Len(adjustments') \in Nat
        BY TypedRows
    <2>. QED  BY <2>1
<1>3. \A j \in Callers : call'[j].op = "cancel" => call'[j].adjustment \in 1 .. Len(adjustments')
    BY <1>1, <1>2 DEF InvoiceTyped
<1>. QED
    BY <1>1, <1>3
       DEF InvoiceTyped, InvoiceTypeOK, InvoiceRow, SourceRow, PaymentRows, AdjustmentRows

LEMMA InvoiceStaysTyped == InvoiceTyped /\ [InvoiceNext]_invoiceVars => InvoiceTyped'
<1>. SUFFICES ASSUME InvoiceTyped, [InvoiceNext]_invoiceVars PROVE InvoiceTyped'
    OBVIOUS
<1>0. /\ InvRows /\ invoice \in InvoiceRow /\ source \in SourceRow
      /\ payments \in Seq(PaymentRows) /\ Len(payments) \in Nat /\ Len(payments) <= MaxPayments
      /\ adjustments \in Seq(AdjustmentRows) /\ Len(adjustments) \in Nat
      /\ Len(adjustments) <= MaxAdjustments /\ Len(adjustments) <= Len(adjustments)
      /\ LineTotal \in Nat
      /\ \A k \in Callers : call[k] \in Calls
    BY TypedRows DEF InvoiceTyped
<1>1. due \in DueDates /\ lines \in [LineIds -> LineAmounts \cup {0}]
    BY DEF InvoiceTyped, InvoiceTypeOK
<1>2. CASE UNCHANGED invoiceVars
    BY <1>2 DEF invoiceVars, InvoiceTyped, InvoiceTypeOK
<1>3. ASSUME NEW k \in Callers, NEW c \in Calls, Begin(k, c),
             c.op = "cancel" => c.adjustment \in 1 .. Len(adjustments)
      PROVE  InvoiceTyped'
    BY <1>0, <1>1, <1>3, CallTyped DEF Begin
<1>4. ASSUME NEW k \in Callers, NEW a \in Amounts, NEW key \in Keys \cup {NoKey}, PayRead(k, a, key)
      PROVE  InvoiceTyped'
    <2>. DEFINE c == [op |-> "pay", amount |-> a, key |-> key]
    <2>1. c \in Calls /\ c.op = "pay"
        BY DEF Calls
    <2>2. Begin(k, c)
        BY <1>4 DEF PayRead
    <2>. HIDE DEF c
    <2>. QED  BY <1>3, <2>1, <2>2
<1>5. ASSUME NEW k \in Callers, NEW n \in DOMAIN payments, ReverseRead(k, n) PROVE InvoiceTyped'
    <2>. DEFINE c == [op |-> "reverse", payment |-> n]
    <2>1. n \in 1 .. MaxPayments
        BY <1>0, BookingBounds
    <2>2. c \in Calls /\ c.op = "reverse"
        BY <2>1 DEF Calls
    <2>3. Begin(k, c)
        BY <1>5 DEF ReverseRead
    <2>. HIDE DEF c
    <2>. QED  BY <1>3, <2>2, <2>3
<1>6. ASSUME NEW k \in Callers, NEW t \in AdjustmentTypes, NEW a \in Amounts, AdjustRead(k, t, a)
      PROVE  InvoiceTyped'
    <2>. DEFINE c == [op |-> "adjust", type |-> t, amount |-> a]
    <2>1. c \in Calls /\ c.op = "adjust"
        BY DEF Calls
    <2>2. Begin(k, c)
        BY <1>6 DEF AdjustRead
    <2>. HIDE DEF c
    <2>. QED  BY <1>3, <2>1, <2>2
<1>7. ASSUME NEW k \in Callers, NEW n \in DOMAIN adjustments, CancelRead(k, n) PROVE InvoiceTyped'
    <2>. DEFINE c == [op |-> "cancel", adjustment |-> n]
    <2>1. n \in 1 .. MaxAdjustments /\ n \in 1 .. Len(adjustments)
        BY <1>0, BookingBounds
    <2>2. c \in Calls /\ c.op = "cancel" /\ c.adjustment = n
        BY <2>1 DEF Calls
    <2>3. Begin(k, c)
        BY <1>7 DEF CancelRead
    <2>. HIDE DEF c
    <2>. QED  BY <1>3, <2>1, <2>2, <2>3
<1>8. ASSUME NEW k \in Callers, NEW l \in LineIds, NEW a \in LineAmounts \cup {0}, LineRead(k, l, a)
      PROVE  InvoiceTyped'
    <2>. DEFINE c == [op |-> "line", at |-> "write", line |-> l, new |-> lines[l] = 0, amount |-> a]
    <2>1. c \in Calls /\ c.op = "line"
        BY (lines[l] = 0) \in BOOLEAN DEF Calls
    <2>2. Begin(k, c)
        BY <1>8 DEF LineRead
    <2>. HIDE DEF c
    <2>. QED  BY <1>3, <2>1, <2>2
<1>9. ASSUME NEW k \in Callers, VoidRead(k) \/ IssueRead(k) \/ DunningRead(k) PROVE InvoiceTyped'
    <2>1. ASSUME NEW op \in {"void", "issue", "dunning"}
          PROVE  [op |-> op, at |-> "write"] \in Calls /\ [op |-> op, at |-> "write"].op # "cancel"
        BY DEF Calls
    <2>. QED  BY <1>3, <1>9, <2>1 DEF VoidRead, IssueRead, DunningRead
<1>10. NoCall \in Calls /\ NoCall.op = "none"
    BY DEF Calls, NoCall
\* A booking: payments and adjustments are written and the row is computed anew.
<1>11. ASSUME NEW k \in Callers, Return(k), UNCHANGED <<lines, due>>,
              NEW i \in InvoiceRow, Recompute(i),
              payments' \in Seq(PaymentRows), Len(payments') <= MaxPayments,
              adjustments' \in Seq(AdjustmentRows), Len(adjustments) <= Len(adjustments'),
              Len(adjustments') <= MaxAdjustments
       PROVE  InvoiceTyped'
    <2>1. invoice' \in InvoiceRow /\ source' \in SourceRow
        BY <1>0, <1>11, RecomputeTyped
    <2>. QED  BY <1>1, <1>10, <1>11, <2>1, CallTyped DEF Return, Continue
<1>12. ASSUME NEW k \in Callers, RecordPayment(k) PROVE InvoiceTyped'
    <2>. DEFINE row == [amount |-> call[k].amount, key |-> call[k].key, reversed |-> FALSE]
    <2>1. payments' = Append(payments, row) /\ Len(payments) < MaxPayments /\ UNCHANGED <<lines, adjustments, due>>
        BY <1>12 DEF RecordPayment
    <2>. HIDE DEF row
    <2>2. Len(payments') <= MaxPayments
        BY <1>0, <2>1, BookingBounds
    <2>. QED  BY <1>0, <1>11, <1>12, <2>1, <2>2, PayStep
<1>13. ASSUME NEW k \in Callers, ReversePayment(k) PROVE InvoiceTyped'
    <2>1. Len(payments') <= MaxPayments
        <3>1. DOMAIN payments' = DOMAIN payments
            BY <1>13 DEF ReversePayment
        <3>2. payments' \in Seq(PaymentRows)
            BY <1>0, <1>13, ReverseStep
        <3>. QED  BY <1>0, <3>1, <3>2
    <2>2. UNCHANGED <<lines, adjustments, due>>
        BY <1>13 DEF ReversePayment
    <2>. QED  BY <1>0, <1>11, <1>13, <2>1, <2>2, ReverseStep
\* An invoice with other running amounts.
<1>14. ASSUME NEW a \in Int, NEW r \in Int
       PROVE  [invoice EXCEPT !.adjusted = a, !.refunded = r] \in InvoiceRow
    BY <1>0, <1>14 DEF InvoiceRow
<1>15. invoice.adjusted \in Int /\ invoice.refunded \in Int
    BY <1>0 DEF InvoiceRow
<1>16. ASSUME NEW k \in Callers, CreateAdjustment(k) PROVE InvoiceTyped'
    <2>. DEFINE a == invoice.adjusted + Adjusted(call[k].type, call[k].amount)
                r == invoice.refunded + Refunded(call[k].type, call[k].amount)
                row == [type |-> call[k].type, amount |-> call[k].amount, active |-> TRUE]
    <2>1. call[k].amount \in Nat
        <3>1. call[k].amount \in Amounts
            BY <1>0, <1>16 DEF CreateAdjustment, Calls, NoCall
        <3>. QED  BY <3>1, AmountsAssumption
    <2>2. a \in Int /\ r \in Int
        BY <1>15, <2>1, AmountsOf
    <2>3. /\ Recompute([invoice EXCEPT !.adjusted = a, !.refunded = r])
          /\ adjustments' = Append(adjustments, row) /\ Len(adjustments) < MaxAdjustments
          /\ UNCHANGED <<lines, payments, due>> /\ Return(k)
        BY <1>16 DEF CreateAdjustment
    <2>. HIDE DEF a, r, row
    <2>4. Len(adjustments') <= MaxAdjustments /\ Len(adjustments) <= Len(adjustments')
        BY <1>0, <2>3, BookingBounds
    <2>5. adjustments' \in Seq(AdjustmentRows)
        BY <1>0, <1>16, AdjustStep
    <2>. QED  BY <1>0, <1>11, <1>14, <2>2, <2>3, <2>4, <2>5
<1>17. ASSUME NEW k \in Callers, CancelAdjustment(k) PROVE InvoiceTyped'
    <2>. DEFINE row == adjustments[call[k].adjustment]
                a == invoice.adjusted - Adjusted(row.type, row.amount)
                r == invoice.refunded - Refunded(row.type, row.amount)
    <2>1. row.amount \in Nat
        <3>1. call[k].adjustment \in 1 .. Len(adjustments)
            BY <1>17 DEF CancelAdjustment, InvoiceTyped
        <3>2. row \in AdjustmentRows
            BY <1>0, <3>1
        <3>. QED  BY <3>2, AmountsAssumption DEF AdjustmentRows
    <2>2. a \in Int /\ r \in Int
        BY <1>15, <2>1, AmountsOf
    <2>3. /\ Recompute([invoice EXCEPT !.adjusted = a, !.refunded = r])
          /\ UNCHANGED <<lines, payments, due>> /\ Return(k)
        BY <1>17 DEF CancelAdjustment
    <2>. HIDE DEF a, r, row
    <2>4. adjustments' \in Seq(AdjustmentRows) /\ DOMAIN adjustments' = DOMAIN adjustments
        BY <1>0, <1>17, CancelStep
    <2>5. Len(adjustments') = Len(adjustments)
        BY <1>0, <2>4
    <2>. QED  BY <1>0, <1>11, <1>14, <2>2, <2>3, <2>4, <2>5
\* A write of the row of the invoice or of its source alone.
<1>18. ASSUME NEW k \in Callers, NEW c \in Calls, Continue(k, c), c.op # "cancel",
              invoice' \in InvoiceRow, source' \in SourceRow, UNCHANGED <<lines, payments, adjustments, due>>
       PROVE  InvoiceTyped'
    BY <1>0, <1>1, <1>18, CallTyped DEF Continue
<1>19. ASSUME NEW s \in InvoiceStatuses PROVE [invoice EXCEPT !.status = s] \in InvoiceRow
    BY <1>0 DEF InvoiceRow
<1>20. ASSUME NEW op \in {"void", "issue", "dunning"}, NEW at \in {"write", "read", "sync"}
       PROVE  [op |-> op, at |-> at] \in Calls /\ [op |-> op, at |-> at].op # "cancel"
    BY DEF Calls
<1>21. ASSUME NEW k \in Callers, VoidInvoice(k) \/ DunningWrite(k) PROVE InvoiceTyped'
    <2>1. /\ invoice' \in InvoiceRow
          /\ source' = source /\ UNCHANGED <<lines, payments, adjustments, due>>
        BY <1>19, <1>21 DEF VoidInvoice, DunningWrite, InvoiceStatuses
    <2>. QED  BY <1>0, <1>18, <1>20, <1>21, <2>1, CallKept
<1>22. ASSUME NEW k \in Callers, SyncSource(k) PROVE InvoiceTyped'
    <2>1. source' \in SourceRow
        BY <1>0, <1>22, MirrorTyped DEF SyncSource
    <2>. QED  BY <1>0, <1>10, <1>18, <1>22, <2>1 DEF SyncSource, Return
<1>23. ASSUME NEW k \in Callers, IssueInvoice(k) PROVE InvoiceTyped'
    <2>1. [invoice EXCEPT !.status = "ISSUED", !.issued = TRUE, !.total = LineTotal] \in InvoiceRow
        BY <1>0, TRUE \in BOOLEAN DEF InvoiceRow, InvoiceStatuses
    <2>2. invoice' \in InvoiceRow
        BY <1>0, <1>23, <2>1 DEF IssueInvoice
    <2>3. source' = source /\ UNCHANGED <<lines, payments, adjustments, due>>
        BY <1>23 DEF IssueInvoice
    <2>. QED  BY <1>0, <1>18, <1>20, <1>23, <2>2, <2>3, CallKept
<1>24. ASSUME NEW k \in Callers, IssueRecomputeRead(k) PROVE InvoiceTyped'
    <2>. DEFINE s == StatusOf(invoice, payments)
                c == [op |-> "issue", at |-> "recompute", status |-> s]
                d == IF invoice.status = "CANCELLED" THEN NoCall ELSE c
    <2>1. s \in InvoiceStatuses
        BY StatusRange
    <2>2. Continue(k, d) /\ UNCHANGED <<invoice, lines, payments, adjustments, source, due>>
        BY <1>24 DEF IssueRecomputeRead
    <2>. HIDE DEF s
    <2>3. c \in Calls /\ c.op = "issue"
        BY <2>1 DEF Calls
    <2>. HIDE DEF c
    <2>4. d \in Calls /\ d.op # "cancel"
        BY <1>10, <2>3
    <2>. HIDE DEF d
    <2>. QED  BY <1>0, <1>18, <2>2, <2>4
<1>25. ASSUME NEW k \in Callers, IssueRecompute(k) PROVE InvoiceTyped'
    <2>1. call[k].status \in InvoiceStatuses
        BY <1>0, <1>25 DEF IssueRecompute, Calls, NoCall
    <2>2. invoice' \in InvoiceRow
        BY <1>19, <1>25, <2>1 DEF IssueRecompute
    <2>. QED  BY <1>0, <1>18, <1>20, <1>25, <2>2 DEF IssueRecompute
<1>26. ASSUME NEW k \in Callers, WriteLine(k) PROVE InvoiceTyped'
    <2>. DEFINE c == [op |-> "line", at |-> "read"]
    <2>1. c \in Calls /\ c.op = "line"
        BY DEF Calls
    <2>2. call[k].line \in LineIds /\ call[k].amount \in LineAmounts \cup {0}
        BY <1>0, <1>26 DEF WriteLine, Calls, NoCall
    <2>3. lines' \in [LineIds -> LineAmounts \cup {0}]
        BY <1>1, <1>26, <2>2 DEF WriteLine
    <2>4. call' = [call EXCEPT ![k] = c] /\ UNCHANGED <<invoice, payments, adjustments, source, due>>
        BY <1>26 DEF WriteLine, Continue
    <2>. HIDE DEF c
    <2>. QED  BY <1>0, <1>1, <2>1, <2>3, <2>4, CallTyped
<1>27. ASSUME NEW k \in Callers, TotalsRead(k) PROVE InvoiceTyped'
    <2>. DEFINE c == [op |-> "line", at |-> "total", total |-> LineTotal]
    <2>1. c \in Calls /\ c.op = "line"
        BY <1>0 DEF Calls
    <2>2. Continue(k, c) /\ UNCHANGED <<invoice, lines, payments, adjustments, source, due>>
        BY <1>27 DEF TotalsRead
    <2>. HIDE DEF c
    <2>. QED  BY <1>0, <1>18, <2>1, <2>2
<1>28. ASSUME NEW k \in Callers, RecalculateTotals(k) PROVE InvoiceTyped'
    <2>1. call[k].total \in Nat
        BY <1>0, <1>28 DEF RecalculateTotals, Calls, NoCall
    <2>2. [invoice EXCEPT !.total = call[k].total] \in InvoiceRow
        BY <1>0, <2>1 DEF InvoiceRow
    <2>. QED  BY <1>0, <1>10, <1>18, <1>28, <2>2 DEF RecalculateTotals, Return
<1>29. ASSUME NEW k \in Callers, DunningMark(k) PROVE InvoiceTyped'
    <2>1. source' \in SourceRow
        BY <1>0, <1>29 DEF DunningMark, SourceRow, SourceStatuses
    <2>. QED  BY <1>0, <1>10, <1>18, <1>29, <2>1 DEF DunningMark, Return
<1>30. ASSUME NEW k \in Callers, Drop(k) PROVE InvoiceTyped'
    BY <1>0, <1>10, <1>18, <1>30 DEF Drop, Return
<1>31. CASE MarkOverdue
    <2>1. invoice' \in InvoiceRow
        BY <1>19, <1>31 DEF MarkOverdue, InvoiceStatuses
    <2>. QED  BY <1>31, <2>1 DEF MarkOverdue, InvoiceTyped, InvoiceTypeOK, InvoiceRow
<1>32. CASE DayPasses
    <2>1. due' \in DueDates
        BY <1>32 DEF DayPasses, DueDates
    <2>. QED  BY <1>32, <2>1 DEF DayPasses, InvoiceTyped, InvoiceTypeOK
<1>. QED
    BY <1>2, <1>4, <1>5, <1>6, <1>7, <1>8, <1>9, <1>12, <1>13, <1>16, <1>17, <1>21, <1>22, <1>23, <1>24, <1>25,
       <1>26, <1>27, <1>28, <1>29, <1>30, <1>31, <1>32 DEF InvoiceNext

LEMMA InvoiceTypes == InvoiceSpec => []InvoiceTypeOK
<1>1. InvoiceTyped => InvoiceTypeOK
    BY DEF InvoiceTyped
<1>. QED  BY <1>1, InvoiceStartsTyped, InvoiceStaysTyped, PTL DEF InvoiceSpec

\* The components of the office.
Components ==
    {"slots", "invoice", "schedule", "periods", "receivable", "merge", "patrol",
     "templates", "review", "stages", "sap", "upkeep", "stock", "parking",
     "prices", "tree", "accounts"}

\* A step of the office is a step of each component, or one it does not see.
LEMMA OfficeMoves ==
    [OfficeNext]_officeVars =>
        /\ UNCHANGED part
        /\ [Next]_vars
        /\ [InvoiceNext]_invoiceVars
        /\ [BillingNext]_billingVars
        /\ [GeneratePeriod]_periodVars
        /\ [ReceivableNext]_receivableVars
        /\ [MergeNext]_mergeVars
        /\ [PatrolNext]_patrolVars
        /\ [TemplateNext]_templateVars
        /\ [ReviewNext]_reviewVars
        /\ [StageNext]_stageVars
        /\ [SapNext]_sapVars
        /\ [UpkeepNext]_upkeepVars
        /\ [StockNext]_stockVars
        /\ [ParkingNext]_parkingVars
        /\ [PriceNext]_priceVars
        /\ [TreeNext]_treeVars
        /\ [AccountNext]_accountVars
<1>1. CASE OfficeNext
    BY <1>1 DEF OfficeNext
<1>2. CASE UNCHANGED officeVars
    BY <1>2 DEF officeVars
<1>. QED  BY <1>1, <1>2

(* In every component the rows and the requests under way keep their types,
   in any order of its operations and whatever is under way together:
   slots, invoices, schedules, periods, receivables, merges, patrols,
   templates, submittals, stages, the SAP log, maintenance, stock, parking
   rates, prices, departments and accounts. *)
THEOREM EveryRowIsTyped == OfficeSpec => []RowsAreTyped
<1>1. OfficeInit =>
        /\ part \in Components
        /\ Init
        /\ InvoiceInit
        /\ BillingInit
        /\ PeriodsInit
        /\ ReceivableInit
        /\ MergeInit
        /\ PatrolInit
        /\ TemplateInit
        /\ ReviewInit
        /\ StageInit
        /\ SapInit
        /\ UpkeepInit
        /\ StockInit
        /\ ParkingInit
        /\ PriceInit
        /\ TreeInit
        /\ AccountInit
    BY DEF OfficeInit, Components
<1>2. OfficeSpec => [](part \in Components)
    <2>1. part \in Components /\ [OfficeNext]_officeVars => (part \in Components)'
        BY OfficeMoves
    <2>. QED  BY <1>1, <2>1, PTL DEF OfficeSpec
<1>3. OfficeSpec => []TypeOK
    BY <1>1, OfficeMoves, TypeCorrect, PTL DEF OfficeSpec, Spec
<1>4. OfficeSpec => []InvoiceTypeOK
    BY <1>1, OfficeMoves, InvoiceTypes, PTL DEF OfficeSpec, InvoiceSpec
<1>5. OfficeSpec => []BillingTypeOK
    BY <1>1, OfficeMoves, BillingTypes, PTL DEF OfficeSpec, BillingSpec
<1>6. OfficeSpec => []PeriodsTypeOK
    BY <1>1, OfficeMoves, PeriodsTypes, PTL DEF OfficeSpec, PeriodsSpec
<1>7. OfficeSpec => []ReceivableTypeOK
    BY <1>1, OfficeMoves, ReceivableTypes, PTL DEF OfficeSpec, ReceivableSpec
<1>8. OfficeSpec => []MergeTypeOK
    BY <1>1, OfficeMoves, MergeTypes, PTL DEF OfficeSpec, MergeSpec
<1>9. OfficeSpec => []PatrolTypeOK
    BY <1>1, OfficeMoves, PatrolTypes, PTL DEF OfficeSpec, PatrolSpec
<1>10. OfficeSpec => []TemplateTypeOK
    BY <1>1, OfficeMoves, TemplateTypes, PTL DEF OfficeSpec, TemplateSpec
<1>11. OfficeSpec => []ReviewTypeOK
    BY <1>1, OfficeMoves, ReviewTypes, PTL DEF OfficeSpec, ReviewSpec
<1>12. OfficeSpec => []StageTypeOK
    BY <1>1, OfficeMoves, StageTypes, PTL DEF OfficeSpec, StageSpec
<1>13. OfficeSpec => []SapTypeOK
    BY <1>1, OfficeMoves, SapTypes, PTL DEF OfficeSpec, SapSpec
<1>14. OfficeSpec => []UpkeepTypeOK
    BY <1>1, OfficeMoves, UpkeepTypes, PTL DEF OfficeSpec, UpkeepSpec
<1>15. OfficeSpec => []StockTypeOK
    BY <1>1, OfficeMoves, StockTypes, PTL DEF OfficeSpec, StockSpec
<1>16. OfficeSpec => []ParkingTypeOK
    BY <1>1, OfficeMoves, ParkingTypes, PTL DEF OfficeSpec, ParkingSpec
<1>17. OfficeSpec => []PriceTypeOK
    BY <1>1, OfficeMoves, PriceTypes, PTL DEF OfficeSpec, PriceSpec
<1>18. OfficeSpec => []TreeTypeOK
    BY <1>1, OfficeMoves, TreeTypes, PTL DEF OfficeSpec, TreeSpec
<1>19. OfficeSpec => []AccountTypeOK
    BY <1>1, OfficeMoves, AccountTypes, PTL DEF OfficeSpec, AccountSpec
<1>20. /\ part \in Components
       /\ TypeOK
       /\ InvoiceTypeOK
       /\ BillingTypeOK
       /\ PeriodsTypeOK
       /\ ReceivableTypeOK
       /\ MergeTypeOK
       /\ PatrolTypeOK
       /\ TemplateTypeOK
       /\ ReviewTypeOK
       /\ StageTypeOK
       /\ SapTypeOK
       /\ UpkeepTypeOK
       /\ StockTypeOK
       /\ ParkingTypeOK
       /\ PriceTypeOK
       /\ TreeTypeOK
       /\ AccountTypeOK
       => RowsAreTyped
    <2>1. CASE part = "slots"
        BY <2>1 DEF RowsAreTyped
    <2>2. CASE part = "invoice"
        BY <2>2 DEF RowsAreTyped
    <2>3. CASE part = "schedule"
        BY <2>3 DEF RowsAreTyped
    <2>4. CASE part = "periods"
        BY <2>4 DEF RowsAreTyped
    <2>5. CASE part = "receivable"
        BY <2>5 DEF RowsAreTyped
    <2>6. CASE part = "merge"
        BY <2>6 DEF RowsAreTyped
    <2>7. CASE part = "patrol"
        BY <2>7 DEF RowsAreTyped
    <2>8. CASE part = "templates"
        BY <2>8 DEF RowsAreTyped
    <2>9. CASE part = "review"
        BY <2>9 DEF RowsAreTyped
    <2>10. CASE part = "stages"
        BY <2>10 DEF RowsAreTyped
    <2>11. CASE part = "sap"
        BY <2>11 DEF RowsAreTyped
    <2>12. CASE part = "upkeep"
        BY <2>12 DEF RowsAreTyped
    <2>13. CASE part = "stock"
        BY <2>13 DEF RowsAreTyped
    <2>14. CASE part = "parking"
        BY <2>14 DEF RowsAreTyped
    <2>15. CASE part = "prices"
        BY <2>15 DEF RowsAreTyped
    <2>16. CASE part = "tree"
        BY <2>16 DEF RowsAreTyped
    <2>17. CASE part = "accounts"
        BY <2>17 DEF RowsAreTyped
    <2>. QED  BY <2>1, <2>2, <2>3, <2>4, <2>5, <2>6, <2>7, <2>8, <2>9, <2>10, <2>11,
                 <2>12, <2>13, <2>14, <2>15, <2>16, <2>17 DEF Components
<1>. QED  BY <1>2, <1>3, <1>4, <1>5, <1>6, <1>7, <1>8, <1>9, <1>10, <1>11, <1>12, <1>13,
             <1>14, <1>15, <1>16, <1>17, <1>18, <1>19, <1>20, PTL
=============================================================================
