--------------------------- MODULE BillingPeriods ----------------------------
(***************************************************************************)
(* generateBillingPeriods() (modules/billing/billing-schedule.util.ts):    *)
(* the loop that cuts a lease into billing periods and charges each month  *)
(* of a period for the days the lease has in it.  Days are numbered        *)
(* through; money is left to what is charged: the days of a month, for the *)
(* service charge and, past the rent-free months, for the rent at the step *)
(* of its escalation.                                                      *)
(***************************************************************************)
EXTENDS Naturals, Sequences, FiniteSetsExt

CONSTANTS
    MonthLengths,   \* days in each month of the calendar
    CycleLengths,   \* months per period: MONTHLY, QUARTERLY, ANNUALLY
    MonthsPerStep   \* the rent escalates every so many months (12)

ASSUME CalendarAssumption == MonthLengths \in Seq(Nat \ {0}) /\ MonthLengths # << >>
ASSUME CycleLengthsAssumption == CycleLengths \subseteq Nat \ {0}
ASSUME StepAssumption == MonthsPerStep \in Nat \ {0}

VARIABLES
    lease,   \* the first and last day of the lease, its cycle and rent-free months
    cursor,  \* the month the next period begins with
    cut      \* the periods generated so far

periodVars == <<lease, cursor, cut>>

Calendar == DOMAIN MonthLengths
LastDay(m) == MapThenSumSet(LAMBDA n : MonthLengths[n], {n \in Calendar : n <= m})
FirstDay(m) == LastDay(m) - MonthLengths[m] + 1
MonthOf(d) == CHOOSE m \in Calendar : d \in FirstDay(m) .. LastDay(m)
Days == 1 .. LastDay(Len(MonthLengths))

Later(a, b) == IF a < b THEN b ELSE a
Earlier(a, b) == IF a < b THEN a ELSE b

\* Types of the lease, the cursor and the periods.
PeriodsTypeOK ==
    /\ lease \in [first : Days, last : Days, cycle : CycleLengths, free : Nat]
    /\ cursor \in Nat
    /\ cut \in Seq([from : Days, to : Days,
                    cam : SUBSET (Calendar \X Nat), rent : SUBSET (Calendar \X Nat \X Nat)])

PeriodsInit ==
    /\ lease \in {l \in [first : Days, last : Days, cycle : CycleLengths,
                         free : 0 .. Len(MonthLengths)] : l.first <= l.last}
    /\ cursor = MonthOf(lease.first)
    /\ cut = << >>

\* The days of month m that the lease covers: overlapEnd - overlapStart + 1.
Overlap(m) ==
    Earlier(LastDay(m), lease.last) + 1 - Later(FirstDay(m), lease.first)

\* The charges of the months in Span, one inclusiveDays() each.
Cam(Span) == {<<m, Overlap(m)>> : m \in Span}
Step(m) == (m - MonthOf(lease.first)) \div MonthsPerStep

Rent(Span) ==
    {<<m, Overlap(m), Step(m)>> : m \in {n \in Span : n - MonthOf(lease.first) >= lease.free}}

\* Mutant of GeneratePeriod: a period is cut off at the end of its month.
GenerateShort ==
    /\ cursor \in Calendar /\ FirstDay(cursor) <= lease.last
    /\ cut' = Append(cut, [from |-> Later(FirstDay(cursor), lease.first),
                           to   |-> Earlier(LastDay(cursor), lease.last),
                           cam  |-> Cam({cursor}),
                           rent |-> Rent({cursor})])
    /\ cursor' = cursor + lease.cycle
    /\ UNCHANGED lease

\* One round of the loop.
GeneratePeriod ==
    /\ cursor \in Calendar /\ FirstDay(cursor) <= lease.last
    /\ LET Span == {m \in cursor .. cursor + lease.cycle - 1 :
                        m \in Calendar /\ FirstDay(m) <= lease.last}
       IN cut' = Append(cut, [from |-> Later(FirstDay(cursor), lease.first),
                              to   |-> Earlier(LastDay(cursor + lease.cycle - 1), lease.last),
                              cam  |-> Cam(Span),
                              rent |-> Rent(Span)])
    /\ cursor' = cursor + lease.cycle
    /\ UNCHANGED lease

PeriodsSpec == PeriodsInit /\ [][GeneratePeriod]_periodVars

-----------------------------------------------------------------------------
(* Properties.                                                             *)

Generated == cursor \notin Calendar \/ FirstDay(cursor) > lease.last

\* Reference, day by day: what a lease pays for in month m.
LeaseDays(m) == {d \in lease.first .. lease.last : MonthOf(d) = m}
LeaseMonths == {m \in Calendar : LeaseDays(m) # {}}
Age(m) == Cardinality({n \in LeaseMonths : n < m})

\* The periods are the days of the lease in order, without a gap or an
\* overlap, and at the end they are all of them; each month was charged once,
\* for the days the lease has in it, and its rent at its step of the
\* escalation unless it is one of the rent-free months.
PeriodsChargeTheLease ==
    /\ \A n \in DOMAIN cut :
        /\ cut[n].from <= cut[n].to
        /\ n > 1 => cut[n].from = cut[n - 1].to + 1
    /\ \A i, j \in DOMAIN cut : i # j => cut[i].cam \cap cut[j].cam = {}
    /\ Generated =>
        /\ cut # << >> /\ cut[1].from = lease.first /\ cut[Len(cut)].to = lease.last
        /\ UNION {cut[n].cam : n \in DOMAIN cut} =
                {<<m, Cardinality(LeaseDays(m))>> : m \in LeaseMonths}
        /\ UNION {cut[n].rent : n \in DOMAIN cut} =
                {<<m, Cardinality(LeaseDays(m)), Age(m) \div MonthsPerStep>> :
                    m \in {n \in LeaseMonths : Age(n) >= lease.free}}
=============================================================================
