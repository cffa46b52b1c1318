---------------------------- MODULE ParkingRates ----------------------------
(***************************************************************************)
(* The rates of one parking contract that is ACTIVE, for one type of       *)
(* vehicle, and its monthly statements, modules/parking.                   *)
(*                                                                         *)
(* An adjustment reads the contract with its rates, and in a transaction   *)
(* that reads nothing again ends the open rate and starts a new one.  A    *)
(* statement, asked for by hand or made by the daily job for the month it  *)
(* is, reads the rates, charges the latest one that touches its month, and *)
(* is written under a unique index on the contract and the month.  Actual  *)
(* quantities and the adjustment of a single statement are left out; what  *)
(* becomes of a statement later is in Receivables.                         *)
(***************************************************************************)
EXTENDS Naturals, Sequences

CONSTANTS
    Officers,      \* requests that can be in flight
    LastPeriod,    \* the last month that is looked at
    DaysPerMonth,
    Fees,          \* what a rate charges for a month
    MaxRates       \* bound on the rates

ASSUME PeriodsAssumption == LastPeriod \in Nat \ {0} /\ DaysPerMonth \in Nat \ {0}

VARIABLES
    span,        \* the days the contract runs from and to
    rates,       \* the rates in the order they were made; no end: 0
    statements,  \* what the statement of each month charges, 0 for none
    request      \* what each request has read

parkingVars == <<span, rates, statements, request>>

ParkingDays == 1 .. LastPeriod * DaysPerMonth
ParkingMonths == 1 .. LastPeriod
PeriodStart(m) == (m - 1) * DaysPerMonth + 1
PeriodEnd(m) == m * DaysPerMonth

NoRequest == [op |-> "none"]

\* Types; a rate ends after it starts.
ParkingTypeOK ==
    /\ span.from \in ParkingDays /\ span.to \in ParkingDays /\ span.from <= span.to
    /\ rates \in Seq([from : ParkingDays, to : ParkingDays \cup {0}, fee : Fees])
    /\ \A n \in DOMAIN rates : rates[n].to # 0 => rates[n].from < rates[n].to
    /\ statements \in [ParkingMonths -> Fees \cup {0}]
    /\ \A o \in Officers : request[o].op \in {"none", "adjust", "bill"}

ParkingInit ==
    /\ \E first \in {1, PeriodStart(2)} \cap ParkingDays :
        /\ span = [from |-> first, to |-> PeriodEnd(LastPeriod)]
        /\ \E fee \in Fees : rates = <<[from |-> first, to |-> 0, fee |-> fee]>>
    /\ statements = [m \in ParkingMonths |-> 0]
    /\ request = [o \in Officers |-> NoRequest]

-----------------------------------------------------------------------------

\* The rates come with the latest one first, and find() takes the first; of two
\* that begin together it may be either.
Latest(numbers) == {n \in numbers : \A o \in numbers : rates[o].from <= rates[n].from}

OpenRates == {n \in DOMAIN rates : rates[n].to = 0}

RateRead(o, d, fee) ==
    /\ request[o] = NoRequest
    /\ Len(rates) < MaxRates
    /\ d >= span.from /\ d <= span.to
    /\ \E n \in Latest(OpenRates) :
        /\ d > rates[n].from
        /\ request' = [request EXCEPT ![o] = [op |-> "adjust", rate |-> n, day |-> d, fee |-> fee]]
    /\ UNCHANGED <<span, rates, statements>>

\* Mutant of RateWrite: the end is taken for the last day of the rate before.
RateWriteLastDay(o) ==
    /\ request[o].op = "adjust"
    /\ rates' = Append([rates EXCEPT ![request[o].rate].to = request[o].day - 1],
                       [from |-> request[o].day, to |-> 0, fee |-> request[o].fee])
    /\ request' = [request EXCEPT ![o] = NoRequest]
    /\ UNCHANGED <<span, statements>>

RateWrite(o) ==
    /\ request[o].op = "adjust"
    /\ rates' = Append([rates EXCEPT ![request[o].rate].to = request[o].day],
                       [from |-> request[o].day, to |-> 0, fee |-> request[o].fee])
    /\ request' = [request EXCEPT ![o] = NoRequest]
    /\ UNCHANGED <<span, statements>>

Touching(m) ==
    {n \in DOMAIN rates : rates[n].from <= PeriodEnd(m)
        /\ (rates[n].to = 0 \/ rates[n].to > PeriodStart(m))}

StatementRead(o, m) ==
    /\ request[o] = NoRequest
    /\ PeriodStart(m) <= span.to /\ PeriodEnd(m) >= span.from
    /\ statements[m] = 0
    /\ \E n \in Latest(Touching(m)) :
        request' = [request EXCEPT ![o] = [op |-> "bill", month |-> m, fee |-> rates[n].fee]]
    /\ UNCHANGED <<span, rates, statements>>

\* A statement that exists by now is a conflict.
StatementWrite(o) ==
    /\ request[o].op = "bill"
    /\ statements' = [statements EXCEPT ![request[o].month] = IF @ = 0 THEN request[o].fee ELSE @]
    /\ request' = [request EXCEPT ![o] = NoRequest]
    /\ UNCHANGED <<span, rates>>

\* updateContract().
Redate(from, to) ==
    /\ from <= to
    /\ span' = [from |-> from, to |-> to]
    /\ UNCHANGED <<rates, statements, request>>

ParkingNext ==
    \/ \E from, to \in ParkingDays : Redate(from, to)
    \/ \E o \in Officers :
        \/ \E d \in ParkingDays, fee \in Fees : RateRead(o, d, fee)
        \/ \E m \in ParkingMonths : StatementRead(o, m)
        \/ RateWrite(o) \/ StatementWrite(o)

ParkingSpec == ParkingInit /\ [][ParkingNext]_parkingVars

-----------------------------------------------------------------------------
(* Properties.                                                             *)

InForceOn(n, d) == rates[n].from <= d /\ (rates[n].to = 0 \/ d < rates[n].to)

\* An adjustment leaves no day without a rate.
EveryDayHasARate ==
    \A d \in ParkingDays : rates[1].from <= d => \E n \in DOMAIN rates : InForceOn(n, d)

\* A statement charges what a rate said that had begun when its month ended.
StatementsChargeRates ==
    \A m \in ParkingMonths : statements[m] # 0 =>
        \E n \in DOMAIN rates : rates[n].fee = statements[m] /\ rates[n].from <= PeriodEnd(m)

\* However adjustments cross each other and the daily job, from the first rate
\* on no day loses its rate (each closes a rate of its own reading, which
\* another may have closed before, where the new one starts), and no month is
\* charged at a rate of later months.
RatesHold == EveryDayHasARate /\ StatementsChargeRates
=============================================================================
