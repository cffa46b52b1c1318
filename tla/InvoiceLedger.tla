---------------------------- MODULE InvoiceLedger ----------------------------
(***************************************************************************)
(* One invoice and the money booked on it (modules/billing/                *)
(* billing.service.ts): its lines, payments, reversals, adjustments, the   *)
(* void, the recomputed status, the receivable it mirrors onto a service   *)
(* contract or a parking statement, and the two jobs that mark it overdue. *)
(*                                                                         *)
(* An endpoint reads the invoice (findOneInvoice), checks it, and writes   *)
(* later: XRead makes the checks, X writes.  A Serializable transaction is *)
(* one action; most of them repeat none of the checks.  Writes outside a   *)
(* transaction are actions of their own, and Drop is a call that ends      *)
(* before its next write.                                                  *)
(*                                                                         *)
(* Amounts are whole units of gross money: VAT scales a whole invoice.     *)
(* WRITE_OFF is handled as CREDIT_NOTE wherever an adjustment is.          *)
(***************************************************************************)
EXTENDS Integers, Sequences, FiniteSetsExt

CONSTANTS
    Callers,         \* requests that can be in flight on this invoice
    LineIds,         \* rows of InvoiceLine
    FixedLines,      \* lines of type RENT, CAM or DEPOSIT
    LineAmounts,     \* what a line can amount to
    Amounts,         \* what a payment or an adjustment can amount to
    Keys, NoKey,     \* idempotency keys of payments
    SourceKey,       \* the key of what a parking statement had been paid before its invoice
    SourceTypes,     \* what the invoice bills
    MaxPayments,     \* bound on the rows of Payment
    MaxAdjustments,  \* bound on the rows of InvoiceAdjustment
    Apart            \* pairs of endpoints whose calls are never under way together

Endpoints == {"pay", "void", "reverse", "adjust", "cancel", "issue", "line", "dunning"}

ASSUME LinesAssumption == IsFiniteSet(LineIds)
ASSUME AmountsAssumption == Amounts \cup LineAmounts \subseteq Nat \ {0}
ASSUME SourceTypesAssumption ==
    SourceTypes \subseteq {"LEASE_CONTRACT", "SERVICE_CONTRACT", "PARKING"}
ASSUME ApartAssumption == Apart \subseteq SUBSET Endpoints
ASSUME BookingBounds == MaxPayments \in Nat \ {0} /\ MaxAdjustments \in Nat

VARIABLES
    invoice,      \* the Invoice row
    lines,        \* the amount of each line; 0 when there is no such line
    payments,     \* its Payment rows, in the order they were made
    adjustments,  \* its InvoiceAdjustment rows, in the order they were made
    source,       \* the receivable it bills: its paid amount and status
    due,          \* where today is, seen from the due date
    call          \* what each caller's request in flight has read

invoiceVars == <<invoice, lines, payments, adjustments, source, due, call>>

-----------------------------------------------------------------------------
(* Rows.                                                                   *)

InvoiceStatuses == {"DRAFT", "ISSUED", "PARTIALLY_PAID", "PAID", "OVERDUE", "CANCELLED"}
Payable == {"ISSUED", "PARTIALLY_PAID", "OVERDUE"}
SourceStatuses == {"PENDING", "UNPAID", "PARTIAL", "PAID", "OVERDUE", "CANCELLED"}
AdjustmentTypes == {"DEBIT_NOTE", "CREDIT_NOTE", "REFUND"}

\* The due date is ahead, was earlier today, or is a past day.
DueDates == {"ahead", "today", "past"}

\* Mutant of AtLeast0: the clamp is missing.
Unclamped(n) == n

AtLeast0(n) == IF n < 0 THEN 0 ELSE n

TotalOf(ls) == MapThenSumSet(LAMBDA l : ls[l], LineIds)
LineTotal == TotalOf(lines)

\* financials()
AdjustedTotal(i) == AtLeast0(i.total + i.adjusted)
Active(ps) == {n \in DOMAIN ps : ~ps[n].reversed}
Gross(ps) == MapThenSumSet(LAMBDA n : ps[n].amount, Active(ps))
NetPaid(i, ps) == AtLeast0(Gross(ps) - i.refunded)
Balance(i, ps) == AtLeast0(AdjustedTotal(i) - NetPaid(i, ps))

\* Mutant of StatusOf: what is paid exactly is not paid.
StatusOfMore(i, ps) ==
    IF NetPaid(i, ps) > AdjustedTotal(i) THEN "PAID"
    ELSE IF NetPaid(i, ps) > 0 THEN "PARTIALLY_PAID"
    ELSE IF ~i.issued THEN "DRAFT"
    ELSE IF due = "ahead" THEN "ISSUED" ELSE "OVERDUE"

\* The status recomputeInvoiceStatusFromPayments() writes.
StatusOf(i, ps) ==
    LET paid == NetPaid(i, ps)
        total == AdjustedTotal(i)
    IN IF paid >= total /\ (paid > 0 \/ total = 0) THEN "PAID"
       ELSE IF paid > 0 THEN "PARTIALLY_PAID"
       ELSE IF ~i.issued THEN "DRAFT"
       ELSE IF due = "ahead" THEN "ISSUED" ELSE "OVERDUE"

\* What a parking statement is when so much of it is paid.
StatementStatus(paid, total) ==
    CASE paid >= total -> "PAID"
      [] paid \in 1 .. total - 1 -> "PARTIAL"
      [] OTHER -> "UNPAID"

\* The receivable after syncSourceReceivable().
Mirror(i, ps) ==
    CASE i.source = "SERVICE_CONTRACT" ->
            [source EXCEPT !.paid = NetPaid(i, ps),
                           !.status = CASE i.status \in {"DRAFT", "ISSUED"} -> "PENDING"
                                        [] i.status = "PARTIALLY_PAID"      -> "PARTIAL"
                                        [] OTHER                            -> i.status]
      [] i.source = "PARKING" ->
            LET paid == IF NetPaid(i, ps) > source.total THEN source.total ELSE NetPaid(i, ps)
            IN [source EXCEPT !.paid = paid, !.status = StatementStatus(paid, source.total)]
      [] OTHER -> source

\* recomputeInvoiceStatusFromPayments() on the row i, inside a transaction
\* that has written payments'.
Recompute(i) ==
    LET done == [i EXCEPT !.status = StatusOf(i, payments')]
    IN IF i.status = "CANCELLED"
       THEN invoice' = i /\ UNCHANGED source
       ELSE invoice' = done /\ source' = Mirror(done, payments')

NoCall == [op |-> "none"]

Calls ==
    {NoCall}
    \cup [op : {"pay"}, amount : Amounts, key : Keys \cup {NoKey}]
    \cup [op : {"void", "issue", "dunning"}, at : {"write", "read", "sync"}]
    \cup [op : {"issue"}, at : {"recompute"}, status : InvoiceStatuses]
    \cup [op : {"reverse"}, payment : 1 .. MaxPayments]
    \cup [op : {"adjust"}, type : AdjustmentTypes, amount : Amounts]
    \cup [op : {"cancel"}, adjustment : 1 .. MaxAdjustments]
    \cup [op : {"line"}, at : {"write"}, line : LineIds, new : BOOLEAN, amount : LineAmounts \cup {0}]
    \cup [op : {"line"}, at : {"read"}]
    \cup [op : {"line"}, at : {"total"}, total : Nat]

\* Types of the rows and of the calls in flight.
InvoiceTypeOK ==
    /\ invoice \in [status : InvoiceStatuses, total : Nat, adjusted : Int, refunded : Int,
                    issued : BOOLEAN, source : SourceTypes]
    /\ lines \in [LineIds -> LineAmounts \cup {0}]
    /\ payments \in Seq([amount : Nat, key : Keys \cup {NoKey, SourceKey}, reversed : BOOLEAN])
    /\ adjustments \in Seq([type : AdjustmentTypes, amount : Amounts, active : BOOLEAN])
    /\ source \in [paid : Nat, total : Nat, status : SourceStatuses]
    /\ due \in DueDates
    /\ call \in [Callers -> Calls]

\* A DRAFT invoice: its total is that of its lines, or what createInvoice()
\* was told when it was given no lines.  That of a parking statement carries
\* over, as a payment of its own, what had been paid on the statement.
InvoiceInit ==
    /\ lines \in [LineIds -> LineAmounts \cup {0}]
    /\ \E total \in IF LineTotal = 0 THEN LineAmounts ELSE {LineTotal}, type \in SourceTypes :
       \E paid \in IF type = "PARKING" THEN 0 .. total ELSE {0} :
        /\ invoice = [status |-> "DRAFT", total |-> total, adjusted |-> 0, refunded |-> 0,
                      issued |-> FALSE, source |-> type]
        /\ source = [paid |-> paid, total |-> total,
                     status |-> IF type = "PARKING" THEN StatementStatus(paid, total)
                                ELSE "PENDING"]
        /\ payments = IF paid = 0 THEN << >>
                      ELSE <<[amount |-> paid, key |-> SourceKey, reversed |-> FALSE]>>
    /\ adjustments = << >>
    /\ due = "ahead"
    /\ call = [k \in Callers |-> NoCall]

-----------------------------------------------------------------------------
(* Calls.                                                                  *)

\* A caller that is free starts a call, of an endpoint that none of the
\* calls under way has to be kept apart from.
Begin(k, c) ==
    /\ call[k] = NoCall
    /\ \A other \in Callers : {c.op, call[other].op} \notin Apart
    /\ call' = [call EXCEPT ![k] = c]
    /\ UNCHANGED <<invoice, lines, payments, adjustments, source, due>>

Continue(k, c) == call' = [call EXCEPT ![k] = c]

Return(k) == Continue(k, NoCall)

\* The call ends before its next write: an error, a restart.
Drop(k) ==
    /\ call[k] # NoCall
    /\ Return(k)
    /\ UNCHANGED <<invoice, lines, payments, adjustments, source, due>>

\* syncSourceReceivable() after the write of voidInvoice() or of the
\* recompute that follows issueInvoice().
SyncSource(k) ==
    /\ call[k].op \in {"void", "issue"} /\ call[k].at = "sync"
    /\ source' = Mirror(invoice, payments)
    /\ Return(k)
    /\ UNCHANGED <<invoice, lines, payments, adjustments, due>>

-----------------------------------------------------------------------------
(* Payments.                                                               *)

PayRead(k, amount, key) ==
    /\ invoice.status \in Payable
    /\ amount <= Balance(invoice, payments)
    /\ \A n \in DOMAIN payments : payments[n].key = key => key = NoKey
    /\ Begin(k, [op |-> "pay", amount |-> amount, key |-> key])

\* recordPayment(): the transaction inserts the row, whose key is unique (a
\* call that lost the race for its key ends with Drop), and recomputes.
RecordPayment(k) ==
    /\ call[k].op = "pay"
    /\ Len(payments) < MaxPayments
    /\ \A n \in DOMAIN payments : payments[n].key = call[k].key => call[k].key = NoKey
    /\ payments' = Append(payments, [amount |-> call[k].amount, key |-> call[k].key,
                                     reversed |-> FALSE])
    /\ Recompute(invoice)
    /\ Return(k)
    /\ UNCHANGED <<lines, adjustments, due>>

ReverseRead(k, n) ==
    /\ n \in Active(payments)
    /\ Begin(k, [op |-> "reverse", payment |-> n])

\* reversePayment(): also on a payment that another call has reversed.
ReversePayment(k) ==
    /\ call[k].op = "reverse"
    /\ payments' = [payments EXCEPT ![call[k].payment].reversed = TRUE]
    /\ Recompute(invoice)
    /\ Return(k)
    /\ UNCHANGED <<lines, adjustments, due>>

-----------------------------------------------------------------------------
(* Adjustments and the void.                                               *)

Adjusted(type, amount) ==
    CASE type = "DEBIT_NOTE"  -> amount
      [] type = "CREDIT_NOTE" -> 0 - amount
      [] OTHER                -> 0

Refunded(type, amount) == IF type = "REFUND" THEN amount ELSE 0

\* Mutant of AdjustRead: a credit note is not held against the balance.
AdjustReadUnchecked(k, type, amount) ==
    /\ invoice.status \notin {"DRAFT", "CANCELLED"}
    /\ type = "REFUND" => amount <= NetPaid(invoice, payments)
    /\ Begin(k, [op |-> "adjust", type |-> type, amount |-> amount])

AdjustRead(k, type, amount) ==
    /\ invoice.status \notin {"DRAFT", "CANCELLED"}
    /\ type = "CREDIT_NOTE" => amount <= Balance(invoice, payments)
    /\ type = "REFUND" => amount <= NetPaid(invoice, payments)
    /\ Begin(k, [op |-> "adjust", type |-> type, amount |-> amount])

\* createInvoiceAdjustment()
CreateAdjustment(k) ==
    /\ call[k].op = "adjust"
    /\ Len(adjustments) < MaxAdjustments
    /\ adjustments' = Append(adjustments, [type |-> call[k].type, amount |-> call[k].amount,
                                           active |-> TRUE])
    /\ UNCHANGED <<lines, payments, due>>
    /\ Recompute([invoice EXCEPT !.adjusted = @ + Adjusted(call[k].type, call[k].amount),
                                 !.refunded = @ + Refunded(call[k].type, call[k].amount)])
    /\ Return(k)

\* Mutant of CancelRead: an adjustment can be cancelled again.
CancelReadAny(k, n) ==
    /\ n \in DOMAIN adjustments
    /\ Begin(k, [op |-> "cancel", adjustment |-> n])

CancelRead(k, n) ==
    /\ n \in DOMAIN adjustments /\ adjustments[n].active
    /\ Begin(k, [op |-> "cancel", adjustment |-> n])

\* cancelInvoiceAdjustment(): undoes the amounts of the row it read, also
\* when another call has cancelled it.
CancelAdjustment(k) ==
    /\ call[k].op = "cancel"
    /\ LET row == adjustments[call[k].adjustment] IN
        /\ adjustments' = [adjustments EXCEPT ![call[k].adjustment].active = FALSE]
        /\ UNCHANGED <<lines, payments, due>>
        /\ Recompute([invoice EXCEPT !.adjusted = @ - Adjusted(row.type, row.amount),
                                     !.refunded = @ - Refunded(row.type, row.amount)])
    /\ Return(k)

NothingBooked ==
    /\ Active(payments) = {}
    /\ \A n \in DOMAIN adjustments : ~adjustments[n].active

\* Mutant of VoidRead: adjustments do not stop a void.
VoidReadPaymentsOnly(k) ==
    /\ invoice.status # "CANCELLED"
    /\ Active(payments) = {}
    /\ Begin(k, [op |-> "void", at |-> "write"])

VoidRead(k) ==
    /\ invoice.status # "CANCELLED"
    /\ NothingBooked
    /\ Begin(k, [op |-> "void", at |-> "write"])

\* voidInvoice(): a plain update, and then the receivable.
VoidInvoice(k) ==
    /\ call[k].op = "void" /\ call[k].at = "write"
    /\ invoice' = [invoice EXCEPT !.status = "CANCELLED"]
    /\ Continue(k, [call[k] EXCEPT !.at = "sync"])
    /\ UNCHANGED <<lines, payments, adjustments, source, due>>

-----------------------------------------------------------------------------
(* Issuing, the lines, and the jobs.                                       *)

IssueRead(k) ==
    /\ invoice.status \in {"DRAFT", "ISSUED"}
    /\ Begin(k, [op |-> "issue", at |-> "write"])

\* Mutant of IssueInvoice: the totals are not taken from the lines again.
IssueInvoiceAsDrafted(k) ==
    /\ call[k].op = "issue" /\ call[k].at = "write"
    /\ invoice.status \in {"DRAFT", "ISSUED"}
    /\ invoice' = [invoice EXCEPT !.status = "ISSUED", !.issued = TRUE]
    /\ Continue(k, [call[k] EXCEPT !.at = "read"])
    /\ UNCHANGED <<lines, payments, adjustments, source, due>>

\* The transaction of issueInvoice() checks the status again; issuing an
\* ISSUED invoice changes nothing.
IssueInvoice(k) ==
    /\ call[k].op = "issue" /\ call[k].at = "write"
    /\ invoice.status \in {"DRAFT", "ISSUED"}
    /\ invoice' = IF invoice.status = "DRAFT"
                  THEN [invoice EXCEPT !.status = "ISSUED", !.issued = TRUE, !.total = LineTotal]
                  ELSE invoice
    /\ Continue(k, [call[k] EXCEPT !.at = "read"])
    /\ UNCHANGED <<lines, payments, adjustments, source, due>>

\* The recompute after that transaction is outside of any: it reads ...
IssueRecomputeRead(k) ==
    /\ call[k].op = "issue" /\ call[k].at = "read"
    /\ Continue(k, IF invoice.status = "CANCELLED"
                   THEN NoCall
                   ELSE [op |-> "issue", at |-> "recompute", status |-> StatusOf(invoice, payments)])
    /\ UNCHANGED <<invoice, lines, payments, adjustments, source, due>>

\* ... and writes what it computed, whatever the row is by then.
IssueRecompute(k) ==
    /\ call[k].op = "issue" /\ call[k].at = "recompute"
    /\ invoice' = [invoice EXCEPT !.status = call[k].status]
    /\ Continue(k, [op |-> "issue", at |-> "sync"])
    /\ UNCHANGED <<lines, payments, adjustments, source, due>>

\* The checks of addInvoiceLine(), updateInvoiceLine() and, when the amount
\* is 0, removeInvoiceLine().
LineRead(k, l, amount) ==
    /\ invoice.status = "DRAFT"
    /\ amount = 0 => lines[l] # 0 /\ l \notin FixedLines
    /\ Begin(k, [op |-> "line", at |-> "write", line |-> l, new |-> lines[l] = 0,
                 amount |-> amount])

\* The row is inserted, or must still be there to be changed or deleted.
WriteLine(k) ==
    /\ call[k].op = "line" /\ call[k].at = "write"
    /\ call[k].new <=> lines[call[k].line] = 0
    /\ lines' = [lines EXCEPT ![call[k].line] = call[k].amount]
    /\ Continue(k, [op |-> "line", at |-> "read"])
    /\ UNCHANGED <<invoice, payments, adjustments, source, due>>

\* recalculateTotals() outside a transaction: it adds up the lines ...
TotalsRead(k) ==
    /\ call[k].op = "line" /\ call[k].at = "read"
    /\ Continue(k, [op |-> "line", at |-> "total", total |-> LineTotal])
    /\ UNCHANGED <<invoice, lines, payments, adjustments, source, due>>

\* ... and writes the sum.
RecalculateTotals(k) ==
    /\ call[k].op = "line" /\ call[k].at = "total"
    /\ invoice' = [invoice EXCEPT !.total = call[k].total]
    /\ Return(k)
    /\ UNCHANGED <<lines, payments, adjustments, source, due>>

DayPasses ==
    /\ due # "past"
    /\ due' = IF due = "ahead" THEN "today" ELSE "past"
    /\ UNCHANGED <<invoice, lines, payments, adjustments, source, call>>

\* The daily job invoice-overdue-mark; it leaves the receivable alone.
MarkOverdue ==
    /\ invoice.status = "ISSUED" /\ due = "past"
    /\ invoice' = [invoice EXCEPT !.status = "OVERDUE"]
    /\ UNCHANGED <<lines, payments, adjustments, source, due, call>>

\* The dunning job selects the invoice, and notifies ...
DunningRead(k) ==
    /\ invoice.status \in Payable \ {"OVERDUE"} /\ due = "past"
    /\ Balance(invoice, payments) > 0
    /\ Begin(k, [op |-> "dunning", at |-> "write"])

\* ... before it marks the invoice, whatever its status is by then,
DunningWrite(k) ==
    /\ call[k].op = "dunning" /\ call[k].at = "write"
    /\ invoice' = [invoice EXCEPT !.status = "OVERDUE"]
    /\ Continue(k, [call[k] EXCEPT !.at = "sync"])
    /\ UNCHANGED <<lines, payments, adjustments, source, due>>

\* and the payment row of a service contract.
DunningMark(k) ==
    /\ call[k].op = "dunning" /\ call[k].at = "sync"
    /\ source' = IF invoice.source = "SERVICE_CONTRACT"
                 THEN [source EXCEPT !.status = "OVERDUE"] ELSE source
    /\ Return(k)
    /\ UNCHANGED <<invoice, lines, payments, adjustments, due>>

InvoiceNext ==
    \/ \E k \in Callers, a \in Amounts, key \in Keys \cup {NoKey} : PayRead(k, a, key)
    \/ \E k \in Callers, n \in DOMAIN payments : ReverseRead(k, n)
    \/ \E k \in Callers, t \in AdjustmentTypes, a \in Amounts : AdjustRead(k, t, a)
    \/ \E k \in Callers, n \in DOMAIN adjustments : CancelRead(k, n)
    \/ \E k \in Callers, l \in LineIds, a \in LineAmounts \cup {0} : LineRead(k, l, a)
    \/ \E k \in Callers : VoidRead(k) \/ IssueRead(k) \/ DunningRead(k)
    \/ \E k \in Callers : RecordPayment(k) \/ ReversePayment(k)
    \/ \E k \in Callers : CreateAdjustment(k) \/ CancelAdjustment(k)
    \/ \E k \in Callers : VoidInvoice(k) \/ SyncSource(k)
    \/ \E k \in Callers : IssueInvoice(k) \/ IssueRecomputeRead(k) \/ IssueRecompute(k)
    \/ \E k \in Callers : WriteLine(k) \/ TotalsRead(k) \/ RecalculateTotals(k)
    \/ \E k \in Callers : DunningWrite(k) \/ DunningMark(k) \/ Drop(k)
    \/ MarkOverdue
    \/ DayPasses

InvoiceSpec == InvoiceInit /\ [][InvoiceNext]_invoiceVars

-----------------------------------------------------------------------------
(* Properties.  Apart says what each of them needs: a pair of endpoints    *)
(* left out of it is a race the code does not stop.                        *)

\* What a parking statement had been paid is the only money on its invoice.
\* issueInvoice() writes ISSUED over it, and only the recompute after its
\* transaction, which may not be reached, sees it.
CarriedOver ==
    /\ adjustments = << >>
    /\ Len(payments) = 1 /\ payments[1].key = SourceKey

\* The status does not contradict the money: PAID is nothing left to pay, an
\* invoice with nothing left to pay is PAID unless it is worth nothing or its
\* money was carried over (recomputeInvoiceStatusFromPayments() is not the
\* only writer of the status).
StatusFollowsMoney ==
    LET paid == NetPaid(invoice, payments)
        total == AdjustedTotal(invoice)
    IN CASE invoice.status = "PAID" -> paid >= total
         [] invoice.status = "PARTIALLY_PAID" -> 0 < paid /\ paid < total
         [] invoice.status \in {"DRAFT", "ISSUED"} -> paid = 0 \/ CarriedOver
         [] invoice.status = "OVERDUE" -> paid < total \/ total = 0 \/ CarriedOver
         [] invoice.status = "CANCELLED" -> TRUE

\* Nothing is booked on an invoice before it is issued, unless it is one of a
\* parking statement; and what was issued is never a DRAFT again, whose lines
\* and total would be open, although four writers of the status do not look
\* at what it is.
DraftIsUnbooked ==
    /\ invoice.issued => invoice.status # "DRAFT"
    /\ ~invoice.issued /\ invoice.source # "PARKING" =>
        payments = << >> /\ adjustments = << >>

\* The two running amounts of the invoice are those of its adjustments that
\* are in force (they are incremented, never added up again).
AdjustmentsAddUp ==
    LET Sum(Amount(_, _)) ==
            MapThenSumSet(LAMBDA n : Amount(adjustments[n].type, adjustments[n].amount),
                          {n \in DOMAIN adjustments : adjustments[n].active})
    IN invoice.adjusted = Sum(Adjusted) /\ invoice.refunded = Sum(Refunded)

\* The invoice agrees with its payments and with its adjustments, which are
\* rows of their own, where the requests of Apart do not cross.
MoneyAddsUp == StatusFollowsMoney /\ DraftIsUnbooked /\ AdjustmentsAddUp

\* A void invoice stays void, and nothing is in force on an invoice as it is
\* voided or afterwards (voidInvoice() checks that before, and outside, its
\* update).
StaysVoid ==
    /\ invoice.status = "CANCELLED" => invoice'.status = "CANCELLED"
    /\ invoice'.status = "CANCELLED" => NothingBooked'

VoidIsVoid == [][StaysVoid]_invoiceVars

\* What is booked fits what is on the invoice at that moment: a payment and
\* a credit note the balance, a refund what was paid net.
BookingFits ==
    [][/\ Len(payments') > Len(payments) =>
            payments'[Len(payments')].amount <= Balance(invoice, payments)
       /\ Len(adjustments') > Len(adjustments) =>
            LET row == adjustments'[Len(adjustments')]
            IN /\ row.type = "CREDIT_NOTE" => row.amount <= Balance(invoice, payments)
               /\ row.type = "REFUND" => row.amount <= NetPaid(invoice, payments)]_invoiceVars

\* What was issued is what its lines say, and stays it: neither the total nor
\* the lines of an issued invoice move away from each other.
IssuedTotalIsOfLines == invoice.issued => invoice.total = LineTotal
=============================================================================
