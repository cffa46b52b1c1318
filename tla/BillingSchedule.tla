--------------------------- MODULE BillingSchedule ---------------------------
(***************************************************************************)
(* The billing schedule of one lease contract and the invoices drawn from  *)
(* it (modules/billing/billing-schedule.service.ts, the LEASE_CONTRACT     *)
(* branch of createInvoiceFromPending() in billing.service.ts, and the     *)
(* amendments of contracts/contract-templates.service.ts).                 *)
(*                                                                         *)
(* Time is counted in months and a period is named by its first month, as  *)
(* in the code; proration inside a month is the matter of BillingPeriods.  *)
(*                                                                         *)
(* A rebuild outside a transaction reads the terms and the entries once,   *)
(* and then writes one entry after the other.  An amendment does the same  *)
(* inside a transaction at read committed: what it read of the entries can *)
(* be stale when it commits.  An invoice and the link to it are one        *)
(* transaction, for an entry read before it.                               *)
(***************************************************************************)
EXTENDS Naturals, Sequences, FiniteSetsExt, Functions

CONSTANTS
    Billers,       \* runs of the monthly job, clerks: what can be under way at once
    Cron,          \* the one of them that is the monthly job
    LastMonth,     \* bound on time
    Cycles,        \* lengths of a billing cycle, in months
    Rents,         \* monthly rents
    Amendable,     \* the terms that amendments change
    MaxAmendments, \* bound on the amendments applied
    MaxFailures,   \* bound on the operations that end half way
    KeptApart      \* pairs of operations that are never under way together

Terms == {"start", "end", "cycle", "rent", "free"}
BillingOperations == {"build", "run", "amend", "bill"}

ASSUME MonthsAssumption == LastMonth \in Nat \ {0}
ASSUME TermsAssumption == Cycles \subseteq Nat \ {0} /\ Rents \subseteq Nat \ {0}
ASSUME AmendableAssumption == Amendable \subseteq Terms
ASSUME CronAssumption == Cron \in Billers
ASSUME KeptApartAssumption == KeptApart \subseteq SUBSET BillingOperations
ASSUME BillingBounds == MaxAmendments \in Nat /\ MaxFailures \in Nat

VARIABLES
    terms,     \* the columns of the contract that shape its schedule
    billable,  \* is the contract ACTIVE or EXPIRING?
    month,     \* the current month
    entries,   \* the BillingScheduleEntry rows, by period
    rows,      \* how many rows there have been for each period
    drawn,     \* the invoices drawn from the schedule, in the order they were
    job,       \* what each biller is doing
    amended,   \* amendments applied
    failed     \* operations that ended half way

billingVars == <<terms, billable, month, entries, rows, drawn, job, amended, failed>>

Months == 1 .. LastMonth

AllTerms ==
    {t \in [start : Months, end : Months, cycle : Cycles, rent : Rents, free : 0 .. LastMonth] :
        t.start <= t.end}

-----------------------------------------------------------------------------
(* Periods.                                                                *)

\* generateBillingPeriods(): cycles counted from the first month; rent-free
\* months are the first ones of the lease.
Periods(t) ==
    LET Starts == {m \in t.start .. t.end : (m - t.start) % t.cycle = 0}
        Until(m) == IF m + t.cycle - 1 > t.end THEN t.end ELSE m + t.cycle - 1
        Paid(m) == Cardinality({n \in m .. Until(m) : n - t.start >= t.free})
    IN [m \in Starts |-> [until |-> Until(m), amount |-> t.rent * Paid(m)]]

Row(p, n) == [until |-> p.until, amount |-> p.amount, row |-> n,
              status |-> IF p.amount = 0 THEN "SKIPPED" ELSE "PENDING"]

\* The upsert of one period: a row that exists keeps its status.
Upsert(m, p) ==
    IF m \in DOMAIN entries
    THEN [entries[m] EXCEPT !.until = p.until, !.amount = p.amount]
    ELSE Row(p, rows[m] + 1)

Invoiced == {m \in DOMAIN entries : entries[m].status = "INVOICED"}

\* What the final deleteMany leaves of the periods that were not generated.
Kept(generated) == {m \in DOMAIN entries : m \in generated \/ m \in Invoiced}

\* The rows after the upserts of some of the generated periods.
Upserted(plan, some) ==
    [m \in DOMAIN entries \cup some |-> IF m \in some THEN Upsert(m, plan[m]) ELSE entries[m]]

\* A new row is counted.
CountRows(some) ==
    rows' = [m \in Months |-> IF m \in some \ DOMAIN entries THEN rows[m] + 1 ELSE rows[m]]

Idle == [op |-> "idle"]

BillingInit ==
    /\ terms \in {t \in AllTerms : t.start = 1}
    /\ billable = TRUE
    /\ month = 1
    /\ entries = [m \in DOMAIN Periods(terms) |-> Row(Periods(terms)[m], 1)]
    /\ rows = [m \in Months |-> IF m \in DOMAIN Periods(terms) THEN 1 ELSE 0]
    /\ drawn = << >>
    /\ job = [b \in Billers |-> Idle]
    /\ amended = 0
    /\ failed = 0

\* Types of the rows and of the work in hand.
BillingTypeOK ==
    /\ terms \in AllTerms /\ billable \in BOOLEAN /\ month \in Months
    /\ \A m \in DOMAIN entries :
        /\ m \in Months
        /\ entries[m] \in [until : Months, amount : Nat, row : 1 .. rows[m],
                           status : {"PENDING", "SKIPPED", "INVOICED"}]
    /\ rows \in [Months -> Nat]
    /\ drawn \in Seq([period : Months, row : Nat, until : Months, amount : Nat])
    /\ \A b \in Billers : job[b].op \in BillingOperations \cup {"idle"}
    /\ amended \in 0 .. MaxAmendments /\ failed \in 0 .. MaxFailures

-----------------------------------------------------------------------------
(* Rebuilding the schedule.                                                *)

MayStart(b, op) ==
    /\ job[b] = Idle
    /\ \A other \in Billers : {op, job[other].op} \notin KeptApart

Do(b, step) == job' = [job EXCEPT ![b] = step]

\* An operation ends half way: what it committed stays.
Fail(b) ==
    /\ job[b] # Idle
    /\ failed < MaxFailures
    /\ failed' = failed + 1
    /\ Do(b, Idle)
    /\ UNCHANGED <<terms, billable, month, entries, rows, drawn, amended>>

\* Mutant of BuildRead: invoiced entries are rebuilt too.
BuildReadAll(b, op) ==
    /\ MayStart(b, op)
    /\ billable
    /\ Do(b, [op |-> op, at |-> "upsert", plan |-> Periods(terms), left |-> DOMAIN Periods(terms)])
    /\ UNCHANGED <<terms, billable, month, entries, rows, drawn, amended, failed>>

\* buildScheduleForContract() from the manual endpoint ("build") and from the
\* job ("run"): the terms, the status and the entries are read here.
BuildRead(b, op) ==
    /\ MayStart(b, op)
    /\ billable
    /\ Do(b, [op |-> op, at |-> "upsert", plan |-> Periods(terms),
              left |-> DOMAIN Periods(terms) \ Invoiced])
    /\ UNCHANGED <<terms, billable, month, entries, rows, drawn, amended, failed>>

\* The next upsert.
BuildUpsert(b) ==
    /\ job[b].op \in {"build", "run"} /\ job[b].at = "upsert" /\ job[b].left # {}
    /\ LET m == Min(job[b].left) IN
        /\ entries' = Upserted(job[b].plan, {m})
        /\ CountRows({m})
        /\ Do(b, [job[b] EXCEPT !.left = @ \ {m}])
    /\ UNCHANGED <<terms, billable, month, drawn, amended, failed>>

\* The deleteMany at the end; the job goes on to invoice.
BuildPrune(b) ==
    /\ job[b].op \in {"build", "run"} /\ job[b].at = "upsert" /\ job[b].left = {}
    /\ entries' = Restrict(entries, Kept(DOMAIN job[b].plan))
    /\ Do(b, IF job[b].op = "run" THEN [op |-> "run", at |-> "select"] ELSE Idle)
    /\ UNCHANGED <<terms, billable, month, rows, drawn, amended, failed>>

\* Mutant of AmendRead: the rebuild does not look at the status.
AmendReadAnyStatus(b, t) ==
    /\ MayStart(b, "amend")
    /\ \A other \in Billers : job[other].op # "amend"
    /\ amended < MaxAmendments
    /\ \A f \in Terms \ Amendable : t[f] = terms[f]
    /\ t # terms
    /\ Do(b, [op |-> "amend", terms |-> t, seen |-> Invoiced])
    /\ UNCHANGED <<terms, billable, month, entries, rows, drawn, amended, failed>>

\* approve() of an amendment updates the contract, whose row it then holds,
\* to the new terms t and reads the entries ...
AmendRead(b, t) ==
    /\ MayStart(b, "amend")
    /\ \A other \in Billers : job[other].op # "amend"
    /\ billable /\ amended < MaxAmendments
    /\ \A f \in Terms \ Amendable : t[f] = terms[f]
    /\ t # terms
    /\ Do(b, [op |-> "amend", terms |-> t, seen |-> Invoiced])
    /\ UNCHANGED <<terms, billable, month, entries, rows, drawn, amended, failed>>

\* ... and commits the terms and the schedule together.
Amend(b) ==
    /\ job[b].op = "amend"
    /\ LET plan == Periods(job[b].terms)
           some == DOMAIN plan \ job[b].seen
       IN /\ entries' = Restrict(Upserted(plan, some), Kept(DOMAIN plan) \cup some)
          /\ CountRows(some)
    /\ terms' = job[b].terms
    /\ amended' = amended + 1
    /\ Do(b, Idle)
    /\ UNCHANGED <<billable, month, drawn, failed>>

-----------------------------------------------------------------------------
(* Invoices.                                                               *)

InvoiceOf(m, e) == [period |-> m, row |-> e.row, until |-> e.until, amount |-> e.amount]

\* Mutant of Taken: the number of the invoice does not depend on the row.
TakenNever(m, e) == FALSE

\* INV-SCHEDULE-<row id> exists already.
Taken(m, e) == \E n \in DOMAIN drawn : drawn[n].period = m /\ drawn[n].row = e.row

\* The row can be linked: it has not been deleted meanwhile.
Present(m, e) == m \in DOMAIN entries /\ entries[m].row = e.row

\* Mutant of SelectDue: a period is due when it is over.
SelectDueLate(b) ==
    /\ job[b].op = "run" /\ job[b].at = "select"
    /\ Do(b, [op |-> "run", at |-> "invoice",
              due |-> Restrict(entries, {m \in DOMAIN entries :
                          /\ entries[m].status = "PENDING"
                          /\ entries[m].amount > 0
                          /\ entries[m].until < month})])
    /\ UNCHANGED <<terms, billable, month, entries, rows, drawn, amended, failed>>

\* The job reads the entries it will invoice (periodsDueForInvoicing()).
SelectDue(b) ==
    /\ job[b].op = "run" /\ job[b].at = "select"
    /\ Do(b, [op |-> "run", at |-> "invoice",
              due |-> Restrict(entries, {m \in DOMAIN entries :
                          /\ entries[m].status = "PENDING"
                          /\ entries[m].amount > 0
                          /\ m <= month})])
    /\ UNCHANGED <<terms, billable, month, entries, rows, drawn, amended, failed>>

\* One due entry of generateDueInvoices(), with the amounts it read; when the
\* number is taken, the invoice that took it is linked.
GenerateInvoice(b) ==
    /\ job[b].op = "run" /\ job[b].at = "invoice" /\ DOMAIN job[b].due # {}
    /\ LET m == Min(DOMAIN job[b].due)
           e == job[b].due[m]
       IN /\ Present(m, e)
          /\ drawn' = IF Taken(m, e) THEN drawn ELSE Append(drawn, InvoiceOf(m, e))
          /\ entries' = [entries EXCEPT ![m].status = "INVOICED"]
          /\ Do(b, [job[b] EXCEPT !.due = Restrict(@, DOMAIN @ \ {m})])
    /\ UNCHANGED <<terms, billable, month, rows, amended, failed>>

\* The batch is done, or stops at an entry that was deleted meanwhile.
GenerateEnd(b) ==
    /\ job[b].op = "run" /\ job[b].at = "invoice"
    /\ DOMAIN job[b].due # {} =>
        LET m == Min(DOMAIN job[b].due) IN ~Present(m, job[b].due[m])
    /\ Do(b, Idle)
    /\ UNCHANGED <<terms, billable, month, entries, rows, drawn, amended, failed>>

\* createInvoiceFromPending() for a lease contract: whatever the status of
\* the contract and whether the period has begun.
BillRead(b, m) ==
    /\ MayStart(b, "bill")
    /\ m \in DOMAIN entries /\ entries[m].status = "PENDING"
    /\ Do(b, [op |-> "bill", period |-> m, entry |-> entries[m]])
    /\ UNCHANGED <<terms, billable, month, entries, rows, drawn, amended, failed>>

\* Its transaction; a number that is taken or a row that is gone undoes it.
Bill(b) ==
    /\ job[b].op = "bill"
    /\ LET m == job[b].period
           e == job[b].entry
       IN IF Present(m, e) /\ ~Taken(m, e)
          THEN /\ drawn' = Append(drawn, InvoiceOf(m, e))
               /\ entries' = [entries EXCEPT ![m].status = "INVOICED"]
          ELSE UNCHANGED <<drawn, entries>>
    /\ Do(b, Idle)
    /\ UNCHANGED <<terms, billable, month, rows, amended, failed>>

-----------------------------------------------------------------------------

\* The contract is terminated or expires.  An amendment under way holds its
\* row until it commits.
EndContract ==
    /\ billable
    /\ \A b \in Billers : job[b].op # "amend"
    /\ billable' = FALSE
    /\ UNCHANGED <<terms, month, entries, rows, drawn, job, amended, failed>>

MonthPasses ==
    /\ month < LastMonth
    /\ month' = month + 1
    /\ UNCHANGED <<terms, billable, entries, rows, drawn, job, amended, failed>>

BillingStep(b) ==
    BuildUpsert(b) \/ BuildPrune(b) \/ SelectDue(b) \/ GenerateInvoice(b) \/ GenerateEnd(b)

BillingNext ==
    \/ \E b \in Billers : BuildRead(b, "run")
    \/ \E b \in Billers \ {Cron} : BuildRead(b, "build")
    \/ \E b \in Billers : BillingStep(b) \/ Amend(b) \/ Bill(b) \/ Fail(b)
    \/ \E b \in Billers \ {Cron}, t \in AllTerms : AmendRead(b, t)
    \/ \E b \in Billers \ {Cron}, m \in Months : BillRead(b, m)
    \/ EndContract
    \/ MonthPasses

BillingSpec == BillingInit /\ [][BillingNext]_billingVars

\* The job runs every month, and what it has begun goes on.
BillingFairness == WF_billingVars(BuildRead(Cron, "run")) /\ WF_billingVars(BillingStep(Cron))

-----------------------------------------------------------------------------
(* Properties.                                                             *)

\* No month is on two invoices, whatever is rebuilt, amended, run twice or
\* billed by hand meanwhile (as long as no amendment moves the first month
\* of a period).
MonthBilledOnce ==
    \A i, j \in DOMAIN drawn :
        i = j \/ (drawn[i].period .. drawn[i].until) \cap (drawn[j].period .. drawn[j].until) = {}

\* An invoice bills what its entry says, and each invoiced entry has its
\* invoice: the amounts of an invoiced period are never rewritten.
InvoiceMatchesEntry ==
    /\ \A n \in DOMAIN drawn :
        LET m == drawn[n].period IN m \in Invoiced /\ drawn[n] = InvoiceOf(m, entries[m])
    /\ \A m \in Invoiced : \E n \in DOMAIN drawn : drawn[n] = InvoiceOf(m, entries[m])

\* A month is billed once, and as its schedule says.
MonthsAreBilled == MonthBilledOnce /\ InvoiceMatchesEntry

\* After its contract has ended a schedule is not rebuilt.
EndedIsNotRebuilt ==
    [][~billable => DOMAIN entries' = DOMAIN entries
                    /\ \A m \in DOMAIN entries : entries'[m].amount = entries[m].amount]_billingVars

Owed(m) == billable /\ m \in terms.start + terms.free .. terms.end

\* A month that has come is on an invoice sooner or later, unless it is no
\* longer owed.
OwedMonthIsBilled ==
    \A m \in Months :
        m <= month /\ Owed(m) ~> ~Owed(m) \/ \E n \in DOMAIN drawn : m \in drawn[n].period .. drawn[n].until
=============================================================================
