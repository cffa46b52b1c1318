---------------------------- MODULE WorkTemplates ----------------------------
(***************************************************************************)
(* Recurring work: the templates of modules/work-orders and the job that   *)
(* makes the work orders that are due every morning.                       *)
(*                                                                         *)
(* The job reads the active templates that are due, makes an order for     *)
(* each date of a template up to now, one write each, and moves the date   *)
(* of the next run with a last write; it can stop between any two of them. *)
(* The unique index on (templateId, scheduledFor) makes a date that has an *)
(* order already a duplicate, which is skipped.  The scheduler lock admits *)
(* one run at a time (SchedulerLock).  Time is a number of days of a       *)
(* calendar of short months; an order is the date it is scheduled for.     *)
(***************************************************************************)
EXTENDS Naturals, Sequences, FiniteSets

CONSTANTS
    Templates,
    DaysIn,   \* the calendar, as a sequence
    Week,           \* days in a week
    FirstDays,      \* dates a template may be told to run first or next
    Frequencies,
    MaxEdits,       \* bound on the edits of templates
    EditedInRun,    \* are templates edited while the job runs?
    LateInMonth     \* are monthly templates told to run on a day that some
                    \* months do not have?

WorkMonths == DOMAIN DaysIn

ASSUME DaysInAssumption == DaysIn \in Seq(Nat \ {0}) /\ Len(DaysIn) >= 2
ASSUME WeekAssumption == Week \in Nat \ {0} /\ \A m \in WorkMonths : Week <= DaysIn[m]
ASSUME FrequenciesAssumption == Frequencies \subseteq {"DAILY", "WEEKLY", "MONTHLY"}

VARIABLES
    today,
    template,  \* each row: isActive, frequency, nextRunAt, and the date it was
               \* last told to run, by a creation or an edit
    orders,    \* the dates each template has orders for
    run,       \* what the job is doing
    edits

templateVars == <<today, template, orders, run, edits>>

\* The day before the first of month m; the last month is never left.
StartOf[m \in Nat] == IF m <= 1 THEN 0 ELSE StartOf[m - 1] + DaysIn[m - 1]
LastWorkDay == StartOf[Cardinality(WorkMonths)] + DaysIn[Cardinality(WorkMonths)]
WorkDays == 1 .. LastWorkDay

ASSUME FirstDaysAssumption == FirstDays \subseteq WorkDays

WorkMonthOf(d) == CHOOSE m \in WorkMonths : StartOf[m] < d /\ d <= StartOf[m] + DaysIn[m]

ShortestMonth == CHOOSE n \in {DaysIn[m] : m \in WorkMonths} :
                     \A m \in WorkMonths : n <= DaysIn[m]

MayBeTold(frequency, d) ==
    frequency = "MONTHLY" => LateInMonth \/ d - StartOf[WorkMonthOf(d)] <= ShortestMonth

Told(active, frequency, d) ==
    [active |-> active, frequency |-> frequency, next |-> d, told |-> d]

NotRunning == [phase |-> "idle"]

\* Types; orders are made for no date after today.
TemplateTypeOK ==
    /\ today \in WorkDays
    /\ template \in [Templates -> [active : BOOLEAN, frequency : Frequencies,
                                   next : Nat, told : WorkDays]]
    /\ \A t \in Templates : orders[t] \subseteq 1 .. today
    /\ run.phase \in {"idle", "template", "dates"}

TemplateInit ==
    /\ today = 1
    /\ template \in [Templates -> [active : {TRUE}, frequency : Frequencies,
                                   next : FirstDays, told : FirstDays]]
    /\ \A t \in Templates :
        template[t].told = template[t].next /\ MayBeTold(template[t].frequency, template[t].next)
    /\ orders = [t \in Templates |-> {}]
    /\ run = NotRunning
    /\ edits = 0

-----------------------------------------------------------------------------

\* setMonth() keeps the day of the month, and goes on into the following
\* month when there is no such day.
NextRun(from, frequency) ==
    CASE frequency = "DAILY"  -> from + 1
      [] frequency = "WEEKLY" -> from + Week
      [] OTHER -> StartOf[WorkMonthOf(from) + 1] + (from - StartOf[WorkMonthOf(from)])

NewDay ==
    /\ today < StartOf[Cardinality(WorkMonths)]
    /\ today' = today + 1
    /\ UNCHANGED <<template, orders, run, edits>>

\* Creation is the first edit.  toggleTemplate() writes isActive only.
Edit(t, row) ==
    /\ edits < MaxEdits /\ edits' = edits + 1
    /\ template' = [template EXCEPT ![t] = row]
    /\ UNCHANGED <<today, orders, run>>

UpdateTemplate(t, frequency, d) ==
    /\ EditedInRun \/ run = NotRunning
    /\ d \in WorkDays
    /\ MayBeTold(frequency, d)
    /\ Edit(t, Told(template[t].active, frequency, d))

ToggleTemplate(t) == Edit(t, [template[t] EXCEPT !.active = ~@])

StartRun ==
    /\ run = NotRunning
    /\ run' = [phase |-> "template", now |-> today,
               todo |-> {t \in Templates : template[t].active /\ template[t].next <= today},
               read |-> template]
    /\ UNCHANGED <<today, template, orders, edits>>

PickTemplate(t) ==
    /\ run.phase = "template" /\ t \in run.todo
    /\ run' = [phase |-> "dates", now |-> run.now, todo |-> run.todo \ {t}, read |-> run.read,
               t |-> t, at |-> run.read[t].next]
    /\ UNCHANGED <<today, template, orders, edits>>

\* runTemplate() for one date.
MakeOrder ==
    /\ run.phase = "dates" /\ run.at <= run.now
    /\ orders' = [orders EXCEPT ![run.t] = @ \cup {run.at}]
    /\ run' = [run EXCEPT !.at = NextRun(@, run.read[run.t].frequency)]
    /\ UNCHANGED <<today, template, edits>>

Moved(t, d) == template' = [template EXCEPT ![t].next = d]

NextTemplate ==
    run' = [phase |-> "template", now |-> run.now, todo |-> run.todo, read |-> run.read]

\* Mutant of MoveNext: the date is moved on before the orders are made.
MoveNextFirst ==
    /\ run.phase = "dates"
    /\ LET after == NextRun(run.at, run.read[run.t].frequency)
       IN  IF run.at <= run.now
           THEN Moved(run.t, after) /\ UNCHANGED run
           ELSE Moved(run.t, run.at) /\ NextTemplate
    /\ UNCHANGED <<today, orders, edits>>

MoveNext ==
    /\ run.phase = "dates" /\ run.at > run.now
    /\ Moved(run.t, run.at)
    /\ NextTemplate
    /\ UNCHANGED <<today, orders, edits>>

\* All templates are done, or the job stopped: the process crashed, or a
\* notification that follows an order failed.
EndRun ==
    /\ run # NotRunning
    /\ run' = NotRunning
    /\ UNCHANGED <<today, template, orders, edits>>

\* runTemplate() asked for by hand makes an order for this very millisecond,
\* which is the date of no other run: no date gets its order from it.
TemplateNext ==
    \/ NewDay
    \/ \E t \in Templates :
        \/ \E f \in Frequencies, d \in FirstDays \cup {template[t].next} : UpdateTemplate(t, f, d)
        \/ ToggleTemplate(t)
        \/ PickTemplate(t)
    \/ StartRun \/ MakeOrder \/ MoveNext \/ EndRun

TemplateSpec == TemplateInit /\ [][TemplateNext]_templateVars

-----------------------------------------------------------------------------
(* Properties.                                                             *)

\* No run of a template is skipped: every date of its frequency from the one
\* it was told to the next one, for a monthly template every month, has its
\* order, whatever day the job stopped on and wherever it did.
NoRunIsSkipped ==
    \A t \in Templates :
        LET row == template[t]
            has(d) == d \in orders[t]
        IN  CASE row.frequency = "DAILY"  -> \A d \in row.told .. row.next - 1 : has(d)
              [] row.frequency = "WEEKLY" ->
                    \A d \in row.told .. row.next - 1 : (d - row.told) % Week = 0 => has(d)
              [] OTHER ->
                    \A m \in WorkMonthOf(row.told) .. WorkMonthOf(row.next) - 1 :
                        \E d \in orders[t] : WorkMonthOf(d) = m
=============================================================================
