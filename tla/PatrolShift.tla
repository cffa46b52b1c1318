----------------------------- MODULE PatrolShift -----------------------------
(***************************************************************************)
(* One patrol shift and the checks of its points (modules/patrol): the     *)
(* guard's app starts the shift, records a result and a photo at each      *)
(* point and completes the shift, an office cancels it, and a job every    *)
(* fifteen minutes marks the shifts that have not started as OVERDUE.      *)
(*                                                                         *)
(* An endpoint reads the shift with its checks, decides, and writes later  *)
(* with a plain update.  Only check() writes in a Serializable             *)
(* transaction, which reads again whether the check has a work order; the  *)
(* transaction is one step.  Routes, schedules, QR codes, positions and    *)
(* the flag of checks that follow too fast are left out.                   *)
(***************************************************************************)
EXTENDS Naturals

CONSTANTS
    Points,       \* the points of the route
    Required,     \* those that have to be checked
    PhotoPoints,  \* those where a photo has to be taken
    Devices,      \* requests that can be in flight; one of them is the job
    Monitor       \* the job

ASSUME PointsAssumption == Required \subseteq Points /\ PhotoPoints \subseteq Points
ASSUME MonitorAssumption == Monitor \in Devices

VARIABLES
    shift,   \* the status of the shift
    tick,    \* each check: result, photo, and the work orders made for it;
             \* its workOrderId is written with the order, so it is set
             \* exactly when there is one
    visit    \* what each request in flight has read

patrolVars == <<shift, tick, visit>>

Results == {"NORMAL", "ABNORMAL", "SKIPPED"}
Unchecked == [result |-> "PENDING", photo |-> FALSE, orders |-> 0]
NoVisit == [op |-> "none"]
Ended == {"COMPLETED", "CANCELLED"}

\* Types; the counter of orders is bounded by AbnormalReportedOnce.
PatrolTypeOK ==
    /\ shift \in Ended \cup {"SCHEDULED", "OVERDUE", "IN_PROGRESS"}
    /\ \A p \in Points :
        /\ tick[p].result \in Results \cup {"PENDING"}
        /\ tick[p].photo \in BOOLEAN
        /\ tick[p].orders \in Nat
    /\ \A k \in Devices : visit[k].op \in {"none", "start", "cancel", "complete", "check", "monitor"}

PatrolInit ==
    /\ shift = "SCHEDULED"
    /\ tick = [p \in Points |-> Unchecked]
    /\ visit = [k \in Devices |-> NoVisit]

-----------------------------------------------------------------------------

MayCall(k, op) ==
    /\ visit[k] = NoVisit
    /\ (k = Monitor) <=> (op = "monitor")

Visit(k, call) ==
    /\ MayCall(k, call.op)
    /\ visit' = [visit EXCEPT ![k] = call]
    /\ UNCHANGED <<shift, tick>>

\* What complete() asks of the checks.
RequiredChecked == \A p \in Required : tick[p].result # "PENDING"
PhotosTaken ==
    \A p \in PhotoPoints : tick[p].result \in {"NORMAL", "ABNORMAL"} => tick[p].photo

StartRead(k) == shift \in {"SCHEDULED", "OVERDUE"} /\ Visit(k, [op |-> "start"])

CancelShiftRead(k) == shift \notin Ended /\ Visit(k, [op |-> "cancel"])

\* Mutant of CompleteRead: only the photos are looked at.
CompleteReadUnseen(k) ==
    /\ shift = "IN_PROGRESS"
    /\ PhotosTaken
    /\ Visit(k, [op |-> "complete"])

CompleteRead(k) ==
    /\ shift = "IN_PROGRESS"
    /\ RequiredChecked
    /\ PhotosTaken
    /\ Visit(k, [op |-> "complete"])

\* The job selects the shift when its time has passed.
MonitorRead(k) == shift = "SCHEDULED" /\ Visit(k, [op |-> "monitor"])

WriteShift(k, op, status) ==
    /\ visit[k].op = op
    /\ shift' = status
    /\ visit' = [visit EXCEPT ![k] = NoVisit]
    /\ UNCHANGED tick

CheckRead(k, p, result) ==
    /\ shift = "IN_PROGRESS"
    /\ Visit(k, [op |-> "check", point |-> p, result |-> result, linked |-> tick[p].orders > 0])

\* The result, and a work order for a point that is ABNORMAL, unless `linked`
\* says that it has one.
Recorded(k, row, linked) ==
    IF visit[k].result = "ABNORMAL" /\ ~linked
    THEN [row EXCEPT !.result = "ABNORMAL", !.orders = @ + 1]
    ELSE [row EXCEPT !.result = visit[k].result]

\* Mutant of CheckWrite: what was read before the transaction counts.
CheckWriteStale(k) ==
    /\ visit[k].op = "check"
    /\ tick' = [tick EXCEPT ![visit[k].point] = Recorded(k, @, visit[k].linked)]
    /\ visit' = [visit EXCEPT ![k] = NoVisit]
    /\ UNCHANGED shift

CheckWrite(k) ==
    /\ visit[k].op = "check"
    /\ tick' = [tick EXCEPT ![visit[k].point] = Recorded(k, @, @.orders > 0)]
    /\ visit' = [visit EXCEPT ![k] = NoVisit]
    /\ UNCHANGED shift

\* The photo of a check, whatever the status of the shift.
Upload(p) ==
    /\ tick' = [tick EXCEPT ![p].photo = TRUE]
    /\ UNCHANGED <<shift, visit>>

PatrolNext ==
    \/ \E k \in Devices :
        \/ StartRead(k)    \/ WriteShift(k, "start", "IN_PROGRESS")
        \/ CancelShiftRead(k)   \/ WriteShift(k, "cancel", "CANCELLED")
        \/ CompleteRead(k) \/ WriteShift(k, "complete", "COMPLETED")
        \/ MonitorRead(k)  \/ WriteShift(k, "monitor", "OVERDUE")
        \/ \E p \in Points, r \in Results : CheckRead(k, p, r)
        \/ CheckWrite(k)
    \/ \E p \in Points : Upload(p)

PatrolSpec == PatrolInit /\ [][PatrolNext]_patrolVars

-----------------------------------------------------------------------------
(* Properties.                                                             *)

\* A completed shift had all its required points checked, whoever checked
\* beside complete(), started the shift twice or cancelled it meanwhile: a
\* result may be replaced but is never taken back.
CompletedIsChecked == shift = "COMPLETED" => RequiredChecked

\* Whatever is found at a point is reported by one work order, however often
\* and by however many devices the result is sent.
AbnormalReportedOnce ==
    \A p \in Points :
        /\ tick[p].orders <= 1
        /\ tick[p].result = "ABNORMAL" => tick[p].orders = 1

\* A completed shift reports every required point, and what is ABNORMAL once.
ShiftIsReported == CompletedIsChecked /\ AbnormalReportedOnce
=============================================================================
