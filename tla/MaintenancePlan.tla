--------------------------- MODULE MaintenancePlan ---------------------------
(***************************************************************************)
(* One maintenance schedule of modules/tickets and its executions, one per *)
(* due date by a unique index.                                             *)
(*                                                                         *)
(* Start and completion read the schedule with its earliest open execution,*)
(* make one for the due date if there is none, and write: the completion,  *)
(* after it saved the files of evidence, in a transaction that closes the  *)
(* execution, moves the due date and makes the next execution unless there *)
(* is one.  An edit of the schedule is a single write that leaves the      *)
(* executions alone.  Dates are numbers of days.  Reminders, which write   *)
(* only notifications, are left out.                                       *)
(***************************************************************************)
EXTENDS Naturals, FiniteSets

CONSTANTS
    Crew,        \* requests that can be in flight
    LastDue,     \* bound on the dates
    Intervals,   \* days between executions, the frequencies
    BackDated,   \* is the due date ever put back?
    CrewApart    \* pairs of requests that are never under way together

ASSUME IntervalsAssumption == Intervals \subseteq Nat \ {0} /\ Intervals # {}
ASSUME LastDueAssumption == LastDue \in Nat \ {0}

VARIABLES
    dueDate,     \* nextDueDate of the schedule
    interval,
    executions,  \* the status of the execution of each date
    duty         \* what each request has read

upkeepVars == <<dueDate, interval, executions, duty>>

Dates == 1 .. LastDue
OpenStatuses == {"PLANNED", "IN_PROGRESS"}
OpenDates == {d \in Dates : executions[d] \in OpenStatuses}
Earliest == CHOOSE d \in OpenDates : \A e \in OpenDates : d <= e

NoDuty == [op |-> "none"]

\* Types of the rows and the requests.
UpkeepTypeOK ==
    /\ dueDate \in Dates
    /\ interval \in Intervals
    /\ executions \in [Dates -> OpenStatuses \cup {"none", "COMPLETED"}]
    /\ \A w \in Crew : duty[w].op \in {"none", "start", "complete"}

\* createMaintenance() makes the first execution; a schedule older than the
\* executions table has none.
UpkeepInit ==
    /\ dueDate = 1
    /\ interval \in Intervals
    /\ \E first \in {"PLANNED", "none"} :
        executions = [d \in Dates |-> IF d = 1 THEN first ELSE "none"]
    /\ duty = [w \in Crew |-> NoDuty]

-----------------------------------------------------------------------------

\* updateMaintenance().
Reschedule(d, n) ==
    /\ d >= dueDate \/ BackDated
    /\ dueDate' = d
    /\ interval' = n
    /\ UNCHANGED <<executions, duty>>

Assigned(w, row) == duty' = [duty EXCEPT ![w] = row]

\* startMaintenance() and completeMaintenance(): 0 when nothing is open.
ReadSchedule(w, op) ==
    /\ duty[w] = NoDuty
    /\ \A v \in Crew : duty[v] # NoDuty => {op, duty[v].op} \notin CrewApart
    /\ Assigned(w, [op |-> op, due |-> dueDate, after |-> dueDate + interval,
                    execution |-> IF OpenDates = {} THEN 0 ELSE Earliest])
    /\ UNCHANGED <<dueDate, interval, executions>>

MakeExecution(w) ==
    /\ duty[w] # NoDuty /\ duty[w].execution = 0
    /\ executions[duty[w].due] = "none"
    /\ executions' = [executions EXCEPT ![duty[w].due] = "PLANNED"]
    /\ Assigned(w, [duty[w] EXCEPT !.execution = duty[w].due])
    /\ UNCHANGED <<dueDate, interval>>

\* The unique index refuses a second execution of the date, or the upload
\* of the evidence failed.
AbandonDuty(w) ==
    /\ duty[w] # NoDuty
    /\ Assigned(w, NoDuty)
    /\ UNCHANGED <<dueDate, interval, executions>>

StartWork(w) ==
    /\ duty[w].op = "start" /\ duty[w].execution # 0
    /\ executions' = [executions EXCEPT ![duty[w].execution] = "IN_PROGRESS"]
    /\ Assigned(w, NoDuty)
    /\ UNCHANGED <<dueDate, interval>>

Finished(w) ==
    /\ duty[w].op = "complete" /\ duty[w].execution # 0
    /\ duty[w].after \in Dates

\* Mutant of CompleteWork: the due date is not moved.
CompleteWorkInPlace(w) ==
    /\ Finished(w)
    /\ executions' =
        LET closed == [executions EXCEPT ![duty[w].execution] = "COMPLETED"]
        IN  [closed EXCEPT ![duty[w].after] = IF @ = "none" THEN "PLANNED" ELSE @]
    /\ Assigned(w, NoDuty)
    /\ UNCHANGED <<dueDate, interval>>

CompleteWork(w) ==
    /\ Finished(w)
    /\ dueDate' = duty[w].after
    /\ executions' =
        LET closed == [executions EXCEPT ![duty[w].execution] = "COMPLETED"]
        IN  [closed EXCEPT ![duty[w].after] = IF @ = "none" THEN "PLANNED" ELSE @]
    /\ Assigned(w, NoDuty)
    /\ UNCHANGED interval

UpkeepNext ==
    \/ \E d \in Dates, n \in Intervals : Reschedule(d, n)
    \/ \E w \in Crew :
        \/ \E op \in {"start", "complete"} : ReadSchedule(w, op)
        \/ MakeExecution(w) \/ AbandonDuty(w) \/ StartWork(w) \/ CompleteWork(w)

UpkeepSpec == UpkeepInit /\ [][UpkeepNext]_upkeepVars

-----------------------------------------------------------------------------
(* Properties.                                                             *)

\* One cycle is open at a time, and while none is, the next one can be
\* started: the due date has no execution yet, which would refuse every start
\* and every completion from then on.
OneCycleIsOpen ==
    /\ Cardinality(OpenDates) <= 1
    /\ OpenDates = {} => executions[dueDate] = "none"
=============================================================================
