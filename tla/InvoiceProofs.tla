--------------------------- MODULE InvoiceProofs ----------------------------
(***************************************************************************)
(* Theorems about InvoiceLedger, for every number of requests, lines and   *)
(* amounts, and about Receivables, which bills what other modules are owed.*)
(* They hold whatever requests cross: nothing is asked of Apart and of     *)
(* NotBeside.                                                              *)
(***************************************************************************)
EXTENDS InvoiceLedger, Receivables, DataLemmas

-----------------------------------------------------------------------------
(* The rows and the calls in flight.                                       *)

PaymentRows == [amount : Nat, key : Keys \cup {NoKey, SourceKey}, reversed : BOOLEAN]
AdjustmentRows == [type : AdjustmentTypes, amount : Amounts, active : BOOLEAN]

ProperCalls ==
    {NoCall}
    \cup [op : {"pay"}, amount : Amounts, key : Keys \cup {NoKey}]
    \cup [op : {"void", "issue", "dunning"}, at : {"write", "read", "sync"}]
    \cup [op : {"issue"}, at : {"recompute"}, status : InvoiceStatuses]
    \cup [op : {"reverse"}, payment : Nat]
    \cup [op : {"adjust"}, type : AdjustmentTypes, amount : Amounts]
    \cup [op : {"cancel"}, adjustment : Nat]

CallOK(c) == c \in ProperCalls \/ c.op = "line"

InvRows ==
    /\ invoice = [status |-> invoice.status, total |-> invoice.total,
                  adjusted |-> invoice.adjusted, refunded |-> invoice.refunded,
                  issued |-> invoice.issued, source |-> invoice.source]
    /\ payments \in Seq(PaymentRows)
    /\ adjustments \in Seq(AdjustmentRows)
    /\ call = [k \in Callers |-> call[k]]
    /\ \A k \in Callers : CallOK(call[k])

\* What the recompute may make of an invoice.
LEMMA StatusRange ==
    ASSUME NEW i, NEW ps
    PROVE  /\ StatusOf(i, ps) \in InvoiceStatuses \ {"CANCELLED"}
           /\ StatusOf(i, ps) = "ISSUED" => i.issued
           /\ i.issued => StatusOf(i, ps) # "DRAFT"
BY DEF StatusOf, InvoiceStatuses

\* The invoice after a recompute of the row as it is, or with other
\* adjustments.
Restated(s) ==
    /\ invoice' = [status |-> s, total |-> invoice.total,
                   adjusted |-> invoice'.adjusted, refunded |-> invoice'.refunded,
                   issued |-> invoice.issued, source |-> invoice.source]
    /\ invoice.status = "CANCELLED" <=> s = "CANCELLED"
    /\ s = "ISSUED" => invoice.issued
    /\ invoice.issued /\ invoice.status # "DRAFT" => s # "DRAFT"

LEMMA Recomputed ==
    ASSUME InvRows,
           \/ Recompute(invoice)
           \/ \E a, r : Recompute([invoice EXCEPT !.adjusted = a, !.refunded = r])
    PROVE  Restated(invoice'.status)
<1>1. PICK s, t, p, q, b, o :
        invoice = [status |-> s, total |-> t, adjusted |-> p, refunded |-> q,
                   issued |-> b, source |-> o]
    BY DEF InvRows
<1>2. ASSUME NEW i, Recompute(i), NEW a, NEW r,
             i = [status |-> s, total |-> t, adjusted |-> a, refunded |-> r,
                  issued |-> b, source |-> o]
      PROVE  Restated(invoice'.status)
    <2>. DEFINE n == IF s = "CANCELLED" THEN s ELSE StatusOf(i, payments')
    <2>1. invoice' = [i EXCEPT !.status = n]
        BY <1>2 DEF Recompute
    <2>2. /\ StatusOf(i, payments') \in InvoiceStatuses \ {"CANCELLED"}
          /\ StatusOf(i, payments') = "ISSUED" => i.issued
          /\ i.issued => StatusOf(i, payments') # "DRAFT"
        BY StatusRange
    <2>3. /\ s = "CANCELLED" <=> n = "CANCELLED"
          /\ n = "ISSUED" => b
          /\ b /\ s # "DRAFT" => n # "DRAFT"
        BY <1>2, <2>2
    <2>. HIDE DEF n
    <2>4. invoice' = [status |-> n, total |-> t, adjusted |-> a, refunded |-> r,
                      issued |-> b, source |-> o]
        BY <1>2, <2>1
    <2>. QED
        BY <1>1, <2>3, <2>4 DEF Restated
<1>3. CASE Recompute(invoice)
    BY <1>1, <1>2, <1>3
<1>4. ASSUME NEW a, NEW r, Recompute([invoice EXCEPT !.adjusted = a, !.refunded = r])
      PROVE  Restated(invoice'.status)
    <2>1. PICK v : v = [invoice EXCEPT !.adjusted = a]
        OBVIOUS
    <2>2. v = [status |-> s, total |-> t, adjusted |-> a, refunded |-> q,
               issued |-> b, source |-> o]
        BY <1>1, <2>1
    <2>3. PICK w : w = [v EXCEPT !.refunded = r]
        OBVIOUS
    <2>4. w = [status |-> s, total |-> t, adjusted |-> a, refunded |-> r,
               issued |-> b, source |-> o]
        BY <2>2, <2>3
    <2>5. w = [invoice EXCEPT !.adjusted = a, !.refunded = r]
        BY <2>1, <2>3
    <2>. QED  BY <1>2, <1>4, <2>4, <2>5
<1>. QED
    BY <1>3, <1>4

LEMMA InvoiceRowsInit == InvoiceInit => InvRows
<1>. SUFFICES ASSUME InvoiceInit PROVE InvRows
    OBVIOUS
<1>1. PICK total \in IF LineTotal = 0 THEN LineAmounts ELSE {LineTotal}, type \in SourceTypes :
      \E paid \in IF type = "PARKING" THEN 0 .. total ELSE {0} :
        /\ invoice = [status |-> "DRAFT", total |-> total, adjusted |-> 0, refunded |-> 0,
                      issued |-> FALSE, source |-> type]
        /\ payments = IF paid = 0 THEN << >>
                      ELSE <<[amount |-> paid, key |-> SourceKey, reversed |-> FALSE]>>
    BY DEF InvoiceInit
<1>2. payments \in Seq(PaymentRows)
    <2>1. PICK paid \in (0 .. total) \cup {0} :
            payments = IF paid = 0 THEN << >>
                       ELSE <<[amount |-> paid, key |-> SourceKey, reversed |-> FALSE]>>
        BY <1>1
    <2>2. paid \in Nat
        OBVIOUS
    <2>3. [amount |-> paid, key |-> SourceKey, reversed |-> FALSE] \in PaymentRows
        BY <2>2, FALSE \in BOOLEAN DEF PaymentRows
    <2>. QED  BY <2>1, <2>3
<1>. QED
    BY <1>1, <1>2 DEF InvoiceInit, InvRows, CallOK, ProperCalls

\* How a call starts, goes on and ends.
LEMMA Begun ==
    ASSUME InvRows, NEW k \in Callers, NEW c, Begin(k, c), CallOK(c)
    PROVE  /\ InvRows'
           /\ invoice' = invoice /\ payments' = payments /\ adjustments' = adjustments
           /\ lines' = lines
           /\ call'[k] = c /\ \A j \in Callers \ {k} : call'[j] = call[j]
           /\ \A j \in Callers : {c.op, call[j].op} \notin Apart
BY DEF Begin, InvRows

LEMMA Continued ==
    ASSUME InvRows, NEW k \in Callers, NEW c, Continue(k, c), CallOK(c)
    PROVE  /\ call' = [j \in Callers |-> call'[j]] /\ \A j \in Callers : CallOK(call'[j])
           /\ call'[k] = c /\ \A j \in Callers \ {k} : call'[j] = call[j]
BY DEF Continue, InvRows

LEMMA Returned ==
    ASSUME InvRows, NEW k \in Callers, Return(k)
    PROVE  /\ call' = [j \in Callers |-> call'[j]] /\ \A j \in Callers : CallOK(call'[j])
           /\ call'[k] = NoCall /\ \A j \in Callers \ {k} : call'[j] = call[j]
BY Continued DEF Return, CallOK, ProperCalls
-----------------------------------------------------------------------------
(* What each write does to the rows, for the proofs below.                 *)

LEMMA ExceptInSeq ==
    ASSUME NEW S, NEW q \in Seq(S), NEW m, NEW v, m \in DOMAIN q => v \in S
    PROVE  /\ [q EXCEPT ![m] = v] \in Seq(S)
           /\ DOMAIN [q EXCEPT ![m] = v] = DOMAIN q
<1>. DEFINE e == [q EXCEPT ![m] = v]
<1>1. Len(q) \in Nat /\ DOMAIN q = 1 .. Len(q) /\ DOMAIN e = 1 .. Len(q)
    OBVIOUS
<1>2. \A n \in 1 .. Len(q) : e[n] \in S
    OBVIOUS
<1>3. e = [n \in 1 .. Len(q) |-> e[n]]
    BY <1>1
<1>. HIDE DEF e
<1>4. e \in [1 .. Len(q) -> S]
    BY <1>2, <1>3
<1>5. e \in Seq(S)
    BY <1>1, <1>4
<1>. QED
    BY <1>1, <1>5 DEF e

LEMMA RowsKept ==
    /\ \A r \in PaymentRows : [r EXCEPT !.reversed = TRUE] \in PaymentRows
    /\ \A r \in AdjustmentRows : [r EXCEPT !.active = FALSE] \in AdjustmentRows
<1>1. ASSUME NEW r \in PaymentRows PROVE [r EXCEPT !.reversed = TRUE] \in PaymentRows
    BY TRUE \in BOOLEAN DEF PaymentRows
<1>2. ASSUME NEW r \in AdjustmentRows PROVE [r EXCEPT !.active = FALSE] \in AdjustmentRows
    BY FALSE \in BOOLEAN DEF AdjustmentRows
<1>. QED  BY <1>1, <1>2

LEMMA PayStep ==
    ASSUME InvRows, NEW k \in Callers, RecordPayment(k)
    PROVE  /\ payments' \in Seq(PaymentRows) /\ adjustments' = adjustments
           /\ lines' = lines /\ call[k].op = "pay"
           /\ Recompute(invoice) /\ Return(k)
<1>1. call[k].op = "pay" /\ CallOK(call[k])
    BY DEF RecordPayment, InvRows
<1>2. call[k].amount \in Amounts /\ call[k].key \in Keys \cup {NoKey}
    BY <1>1 DEF CallOK, ProperCalls, NoCall
<1>. QED
    BY <1>1, <1>2, AmountsAssumption DEF RecordPayment, InvRows, PaymentRows

LEMMA AdjustStep ==
    ASSUME InvRows, NEW k \in Callers, CreateAdjustment(k)
    PROVE  /\ adjustments' \in Seq(AdjustmentRows) /\ payments' = payments
           /\ lines' = lines /\ call[k].op = "adjust"
           /\ \E a, r : Recompute([invoice EXCEPT !.adjusted = a, !.refunded = r])
           /\ Return(k)
<1>1. call[k].op = "adjust" /\ CallOK(call[k])
    BY DEF CreateAdjustment, InvRows
<1>2. call[k].type \in AdjustmentTypes /\ call[k].amount \in Amounts
    BY <1>1 DEF CallOK, ProperCalls, NoCall
<1>3. \E a, r : Recompute([invoice EXCEPT !.adjusted = a, !.refunded = r])
    <2>1. Recompute([invoice EXCEPT !.adjusted = @ + Adjusted(call[k].type, call[k].amount),
                                    !.refunded = @ + Refunded(call[k].type, call[k].amount)])
        BY DEF CreateAdjustment
    <2>. QED  BY <2>1
<1>4. adjustments' \in Seq(AdjustmentRows)
    BY <1>2 DEF CreateAdjustment, InvRows, AdjustmentRows
<1>. QED
    BY <1>1, <1>3, <1>4 DEF CreateAdjustment

LEMMA ReverseStep ==
    ASSUME InvRows, NEW k \in Callers, ReversePayment(k)
    PROVE  /\ payments' \in Seq(PaymentRows) /\ Active(payments') \subseteq Active(payments)
           /\ adjustments' = adjustments /\ lines' = lines
           /\ call[k].op = "reverse" /\ Recompute(invoice) /\ Return(k)
<1>. DEFINE m == call[k].payment
<1>1. payments' = [payments EXCEPT ![m].reversed = TRUE]
    BY DEF ReversePayment
<1>2. payments' \in Seq(PaymentRows) /\ DOMAIN payments' = DOMAIN payments
    <2>1. m \in DOMAIN payments => [payments[m] EXCEPT !.reversed = TRUE] \in PaymentRows
        <3>1. m \in DOMAIN payments => payments[m] \in PaymentRows
            BY DEF InvRows
        <3>. QED  BY <3>1, RowsKept
    <2>. QED  BY <1>1, <2>1, ExceptInSeq DEF InvRows
<1>3. ASSUME NEW n \in DOMAIN payments, ~payments'[n].reversed
      PROVE  ~payments[n].reversed
    <2>1. payments[n] \in PaymentRows
        BY DEF InvRows
    <2>2. CASE n = m
        BY <1>1, <1>3, <2>1, <2>2 DEF InvRows, PaymentRows
    <2>3. CASE n # m
        BY <1>1, <1>3, <2>3 DEF InvRows
    <2>. QED  BY <2>2, <2>3
<1>. QED
    BY <1>2, <1>3 DEF ReversePayment, Active

LEMMA CancelStep ==
    ASSUME InvRows, NEW k \in Callers, CancelAdjustment(k)
    PROVE  /\ adjustments' \in Seq(AdjustmentRows) /\ payments' = payments
           /\ DOMAIN adjustments' = DOMAIN adjustments
           /\ \A n \in DOMAIN adjustments : ~adjustments[n].active => ~adjustments'[n].active
           /\ lines' = lines /\ call[k].op = "cancel"
           /\ \E a, r : Recompute([invoice EXCEPT !.adjusted = a, !.refunded = r])
           /\ Return(k)
<1>. DEFINE m == call[k].adjustment
            row == adjustments[m]
<1>1. adjustments' = [adjustments EXCEPT ![m].active = FALSE]
    BY DEF CancelAdjustment
<1>2. adjustments' \in Seq(AdjustmentRows) /\ DOMAIN adjustments' = DOMAIN adjustments
    <2>1. m \in DOMAIN adjustments => [adjustments[m] EXCEPT !.active = FALSE] \in AdjustmentRows
        <3>1. m \in DOMAIN adjustments => adjustments[m] \in AdjustmentRows
            BY DEF InvRows
        <3>. QED  BY <3>1, RowsKept
    <2>. QED  BY <1>1, <2>1, ExceptInSeq DEF InvRows
<1>3. ASSUME NEW n \in DOMAIN adjustments, ~adjustments[n].active
      PROVE  ~adjustments'[n].active
    <2>1. adjustments[n] \in AdjustmentRows
        BY DEF InvRows
    <2>2. CASE n = m
        BY <1>1, <2>1, <2>2 DEF InvRows, AdjustmentRows
    <2>3. CASE n # m
        BY <1>1, <1>3, <2>3 DEF InvRows
    <2>. QED  BY <2>2, <2>3
<1>4. \E a, r : Recompute([invoice EXCEPT !.adjusted = a, !.refunded = r])
    <2>1. Recompute([invoice EXCEPT !.adjusted = @ - Adjusted(row.type, row.amount),
                                    !.refunded = @ - Refunded(row.type, row.amount)])
        BY DEF CancelAdjustment
    <2>. QED  BY <2>1
<1>5. call[k].op = "cancel" /\ payments' = payments /\ lines' = lines /\ Return(k)
    BY DEF CancelAdjustment
<1>. QED
    BY <1>2, <1>3, <1>4, <1>5
-----------------------------------------------------------------------------
(* The rows keep their shape.                                              *)

\* A write of the status, the total or the issue date alone.
LEMMA StatusWritten ==
    ASSUME InvRows, NEW s, NEW b, NEW t,
           \/ invoice' = [invoice EXCEPT !.status = s] /\ b = invoice.issued /\ t = invoice.total
           \/ invoice' = [invoice EXCEPT !.total = t] /\ b = invoice.issued /\ s = invoice.status
           \/ invoice' = [invoice EXCEPT !.status = s, !.issued = b, !.total = t]
    PROVE  invoice' = [status |-> s, total |-> t, adjusted |-> invoice'.adjusted,
                       refunded |-> invoice'.refunded, issued |-> b,
                       source |-> invoice'.source]
<1>1. PICK s0, t0, p, q, b0, o :
        invoice = [status |-> s0, total |-> t0, adjusted |-> p, refunded |-> q,
                   issued |-> b0, source |-> o]
    BY DEF InvRows
<1>2. CASE invoice' = [invoice EXCEPT !.status = s] /\ b = invoice.issued /\ t = invoice.total
    <2>1. invoice' = [status |-> s, total |-> t0, adjusted |-> p, refunded |-> q,
                      issued |-> b0, source |-> o]
        BY <1>1, <1>2
    <2>. QED  BY <1>1, <1>2, <2>1
<1>3. CASE invoice' = [invoice EXCEPT !.total = t] /\ b = invoice.issued /\ s = invoice.status
    <2>1. invoice' = [status |-> s0, total |-> t, adjusted |-> p, refunded |-> q,
                      issued |-> b0, source |-> o]
        BY <1>1, <1>3
    <2>. QED  BY <1>1, <1>3, <2>1
<1>4. CASE invoice' = [invoice EXCEPT !.status = s, !.issued = b, !.total = t]
    <2>1. PICK v : v = [invoice EXCEPT !.status = s]
        OBVIOUS
    <2>2. v = [status |-> s, total |-> t0, adjusted |-> p, refunded |-> q,
               issued |-> b0, source |-> o]
        BY <1>1, <2>1
    <2>3. PICK w : w = [v EXCEPT !.issued = b]
        OBVIOUS
    <2>4. w = [status |-> s, total |-> t0, adjusted |-> p, refunded |-> q,
               issued |-> b, source |-> o]
        BY <2>2, <2>3
    <2>5. invoice' = [w EXCEPT !.total = t]
        BY <1>4, <2>1, <2>3
    <2>6. invoice' = [status |-> s, total |-> t, adjusted |-> p, refunded |-> q,
                      issued |-> b, source |-> o]
        BY <2>4, <2>5
    <2>. QED  BY <2>6
<1>. QED
    BY <1>2, <1>3, <1>4

\* The call that each step past the checks goes on with.
LEMMA CallKept ==
    ASSUME InvRows, NEW k \in Callers
    PROVE  /\ VoidInvoice(k) => Continue(k, [op |-> "void", at |-> "sync"])
           /\ DunningWrite(k) => Continue(k, [op |-> "dunning", at |-> "sync"])
           /\ IssueInvoice(k) => Continue(k, [op |-> "issue", at |-> "read"])
<1>1. call[k] \in ProperCalls \/ call[k].op = "line"
    BY DEF InvRows, CallOK
<1>2. ASSUME call[k].op \in {"void", "dunning", "issue"}, call[k].at = "write", NEW at
      PROVE  [call[k] EXCEPT !.at = at] = [op |-> call[k].op, at |-> at]
    <2>1. call[k] \in [op : {"void", "issue", "dunning"}, at : {"write", "read", "sync"}]
        BY <1>1, <1>2 DEF ProperCalls, NoCall
    <2>2. PICK o : call[k] = [op |-> o, at |-> "write"]
        BY <1>2, <2>1
    <2>. QED  BY <2>2
<1>. QED
    BY <1>2 DEF VoidInvoice, DunningWrite, IssueInvoice
\* What the checks that start a call leave known of it.
Admitted(c) ==
    /\ c.op \in Endpoints
    /\ c.op \in {"pay", "adjust", "issue", "dunning"} => invoice.status # "CANCELLED"
    /\ c.op = "line" => invoice.status = "DRAFT"
    /\ c.op \in {"void", "issue", "dunning"} => c.at = "write"
    /\ c.op = "void" => NothingBooked

Started(k) == \E c : CallOK(c) /\ Begin(k, c) /\ Admitted(c)

Starts(k) ==
    \/ \E a \in Amounts, key \in Keys \cup {NoKey} : PayRead(k, a, key)
    \/ \E n \in DOMAIN payments : ReverseRead(k, n)
    \/ \E t \in AdjustmentTypes, a \in Amounts : AdjustRead(k, t, a)
    \/ \E n \in DOMAIN adjustments : CancelRead(k, n)
    \/ \E l \in LineIds, a \in LineAmounts \cup {0} : LineRead(k, l, a)
    \/ VoidRead(k) \/ IssueRead(k) \/ DunningRead(k)

LEMMA StartsAdmitted ==
    ASSUME InvRows, NEW k \in Callers, Starts(k)
    PROVE  Started(k)
<1>1. ASSUME NEW a \in Amounts, NEW key \in Keys \cup {NoKey}, PayRead(k, a, key)
      PROVE  Started(k)
    <2>. DEFINE c == [op |-> "pay", amount |-> a, key |-> key]
    <2>1. CallOK(c) /\ Begin(k, c) /\ Admitted(c)
        BY <1>1 DEF PayRead, CallOK, ProperCalls, InvRows, Admitted, Endpoints, Payable
    <2>. QED  BY <2>1 DEF Started
<1>2. ASSUME NEW n \in DOMAIN payments, ReverseRead(k, n)
      PROVE  Started(k)
    <2>. DEFINE c == [op |-> "reverse", payment |-> n]
    <2>1. CallOK(c) /\ Begin(k, c) /\ Admitted(c)
        BY <1>2 DEF ReverseRead, CallOK, ProperCalls, InvRows, Admitted, Endpoints, Payable
    <2>. QED  BY <2>1 DEF Started
<1>3. ASSUME NEW t \in AdjustmentTypes, NEW a \in Amounts, AdjustRead(k, t, a)
      PROVE  Started(k)
    <2>. DEFINE c == [op |-> "adjust", type |-> t, amount |-> a]
    <2>1. CallOK(c) /\ Begin(k, c) /\ Admitted(c)
        BY <1>3 DEF AdjustRead, CallOK, ProperCalls, InvRows, Admitted, Endpoints, Payable
    <2>. QED  BY <2>1 DEF Started
<1>4. ASSUME NEW n \in DOMAIN adjustments, CancelRead(k, n)
      PROVE  Started(k)
    <2>. DEFINE c == [op |-> "cancel", adjustment |-> n]
    <2>1. CallOK(c) /\ Begin(k, c) /\ Admitted(c)
        BY <1>4 DEF CancelRead, CallOK, ProperCalls, InvRows, Admitted, Endpoints, Payable
    <2>. QED  BY <2>1 DEF Started
<1>5. ASSUME NEW l \in LineIds, NEW a \in LineAmounts \cup {0}, LineRead(k, l, a)
      PROVE  Started(k)
    <2>. DEFINE c == [op |-> "line", at |-> "write", line |-> l, new |-> lines[l] = 0, amount |-> a]
    <2>1. CallOK(c) /\ Begin(k, c) /\ Admitted(c)
        BY <1>5 DEF LineRead, CallOK, ProperCalls, InvRows, Admitted, Endpoints, Payable
    <2>. QED  BY <2>1 DEF Started
<1>6. ASSUME VoidRead(k)
      PROVE  Started(k)
    <2>. DEFINE c == [op |-> "void", at |-> "write"]
    <2>1. CallOK(c) /\ Begin(k, c) /\ Admitted(c)
        BY <1>6 DEF VoidRead, CallOK, ProperCalls, InvRows, Admitted, Endpoints, Payable
    <2>. QED  BY <2>1 DEF Started
<1>7. ASSUME IssueRead(k)
      PROVE  Started(k)
    <2>. DEFINE c == [op |-> "issue", at |-> "write"]
    <2>1. CallOK(c) /\ Begin(k, c) /\ Admitted(c)
        BY <1>7 DEF IssueRead, CallOK, ProperCalls, InvRows, Admitted, Endpoints, Payable
    <2>. QED  BY <2>1 DEF Started
<1>8. ASSUME DunningRead(k)
      PROVE  Started(k)
    <2>. DEFINE c == [op |-> "dunning", at |-> "write"]
    <2>1. CallOK(c) /\ Begin(k, c) /\ Admitted(c)
        BY <1>8 DEF DunningRead, CallOK, ProperCalls, InvRows, Admitted, Endpoints, Payable
    <2>. QED  BY <2>1 DEF Started
<1>. QED
    BY <1>1, <1>2, <1>3, <1>4, <1>5, <1>6, <1>7, <1>8 DEF Starts
LEMMA InvoiceRowsStep ==
    ASSUME InvRows, [InvoiceNext]_invoiceVars
    PROVE  InvRows'
<1>1. CASE UNCHANGED invoiceVars
    BY <1>1 DEF invoiceVars, InvRows
<1>2. ASSUME NEW k \in Callers, Starts(k) PROVE InvRows'
    BY <1>2, StartsAdmitted, Begun DEF Started
<1>3. ASSUME NEW k \in Callers, RecordPayment(k) PROVE InvRows'
    <2>1. Restated(invoice'.status)
        BY <1>3, PayStep, Recomputed
    <2>. QED  BY <1>3, <2>1, PayStep, Returned DEF InvRows, Restated
<1>4. ASSUME NEW k \in Callers, ReversePayment(k) PROVE InvRows'
    <2>1. Restated(invoice'.status)
        BY <1>4, ReverseStep, Recomputed
    <2>. QED  BY <1>4, <2>1, ReverseStep, Returned DEF InvRows, Restated
<1>5. ASSUME NEW k \in Callers, CreateAdjustment(k) PROVE InvRows'
    <2>1. Restated(invoice'.status)
        BY <1>5, AdjustStep, Recomputed
    <2>. QED  BY <1>5, <2>1, AdjustStep, Returned DEF InvRows, Restated
<1>6. ASSUME NEW k \in Callers, CancelAdjustment(k) PROVE InvRows'
    <2>1. Restated(invoice'.status)
        BY <1>6, CancelStep, Recomputed
    <2>. QED  BY <1>6, <2>1, CancelStep, Returned DEF InvRows, Restated
<1>7. ASSUME NEW k \in Callers, VoidInvoice(k) \/ DunningWrite(k) PROVE InvRows'
    <2>1. PICK c : Continue(k, c) /\ CallOK(c)
        BY <1>7, CallKept DEF CallOK, ProperCalls
    <2>2. PICK s : invoice' = [invoice EXCEPT !.status = s]
        BY <1>7 DEF VoidInvoice, DunningWrite
    <2>3. payments' = payments /\ adjustments' = adjustments
        BY <1>7 DEF VoidInvoice, DunningWrite
    <2>. QED  BY <2>1, <2>2, <2>3, Continued, StatusWritten DEF InvRows
<1>8. ASSUME NEW k \in Callers, IssueInvoice(k) PROVE InvRows'
    <2>1. Continue(k, [op |-> "issue", at |-> "read"]) /\ CallOK([op |-> "issue", at |-> "read"])
        BY <1>8, CallKept DEF CallOK, ProperCalls
    <2>2. /\ payments' = payments /\ adjustments' = adjustments
          /\ \/ invoice' = invoice
             \/ invoice' = [invoice EXCEPT !.status = "ISSUED", !.issued = TRUE,
                                           !.total = LineTotal]
        BY <1>8 DEF IssueInvoice
    <2>. QED  BY <2>1, <2>2, Continued, StatusWritten DEF InvRows
<1>9. ASSUME NEW k \in Callers, IssueRecompute(k) PROVE InvRows'
    <2>1. Continue(k, [op |-> "issue", at |-> "sync"]) /\ CallOK([op |-> "issue", at |-> "sync"])
        BY <1>9 DEF IssueRecompute, CallOK, ProperCalls
    <2>2. /\ payments' = payments /\ adjustments' = adjustments
          /\ invoice' = [invoice EXCEPT !.status = call[k].status]
        BY <1>9 DEF IssueRecompute
    <2>. QED  BY <2>1, <2>2, Continued, StatusWritten DEF InvRows
<1>10. ASSUME NEW k \in Callers, RecalculateTotals(k) PROVE InvRows'
    <2>1. /\ payments' = payments /\ adjustments' = adjustments /\ Return(k)
          /\ invoice' = [invoice EXCEPT !.total = call[k].total]
        BY <1>10 DEF RecalculateTotals
    <2>. QED  BY <2>1, Returned, StatusWritten DEF InvRows
<1>11. CASE MarkOverdue
    <2>1. /\ payments' = payments /\ adjustments' = adjustments /\ call' = call
          /\ invoice' = [invoice EXCEPT !.status = "OVERDUE"]
        BY <1>11 DEF MarkOverdue
    <2>. QED  BY <2>1, StatusWritten DEF InvRows
<1>12. ASSUME NEW k \in Callers,
              IssueRecomputeRead(k) \/ WriteLine(k) \/ TotalsRead(k)
       PROVE  InvRows'
    <2>1. PICK c : Continue(k, c) /\ CallOK(c)
        BY <1>12, StatusRange
           DEF IssueRecomputeRead, WriteLine, TotalsRead, CallOK, ProperCalls
    <2>2. payments' = payments /\ adjustments' = adjustments /\ invoice' = invoice
        BY <1>12 DEF IssueRecomputeRead, WriteLine, TotalsRead
    <2>. QED  BY <2>1, <2>2, Continued DEF InvRows
<1>13. ASSUME NEW k \in Callers, SyncSource(k) \/ DunningMark(k) \/ Drop(k) PROVE InvRows'
    <2>1. /\ payments' = payments /\ adjustments' = adjustments /\ invoice' = invoice
          /\ Return(k)
        BY <1>13 DEF SyncSource, DunningMark, Drop
    <2>. QED  BY <2>1, Returned DEF InvRows
<1>14. CASE DayPasses
    BY <1>14 DEF DayPasses, InvRows
<1>. QED
    BY <1>1, <1>2, <1>3, <1>4, <1>5, <1>6, <1>7, <1>8, <1>9, <1>10, <1>11, <1>12, <1>13, <1>14
       DEF InvoiceNext, Starts

LEMMA InvoiceRowsAlways == InvoiceSpec => []InvRows
BY InvoiceRowsInit, InvoiceRowsStep, PTL DEF InvoiceSpec
-----------------------------------------------------------------------------
(* The amounts.                                                            *)

LEMMA GrossIsSum ==
    ASSUME NEW ps, NEW f, \A n \in Active(ps) : f[n] = ps[n].amount
    PROVE  Gross(ps) = SumOf(f, Active(ps))
<1>. DEFINE S == Active(ps)
<1>. HIDE DEF S
<1>1. \A s \in SUBSET S : s # {} => f[Some(s)] = ps[Some(s)].amount
    BY SomeIsIn DEF S
<1>2. \A g : SumsTo(f, S, g) <=>
                g = [s \in SUBSET S |-> IF s = {} THEN 0
                                        ELSE ps[Some(s)].amount + g[s \ {Some(s)}]]
    BY <1>1 DEF SumsTo
<1>3. SumsOver(f, S) = CHOOSE g : g = [s \in SUBSET S |->
                            IF s = {} THEN 0 ELSE ps[Some(s)].amount + g[s \ {Some(s)}]]
    BY <1>2, Zenon DEF SumsOver
<1>4. MapThenSumSet(LAMBDA n : ps[n].amount, S) =
        (CHOOSE g : g = [s \in SUBSET S |->
                            IF s = {} THEN 0 ELSE ps[Some(s)].amount + g[s \ {Some(s)}]])[S]
    BY DEF MapThenSumSet, MapThenFoldSet, Some
<1>. QED  BY <1>3, <1>4, SumIsChosen, Zenon DEF Gross, S

AmountIn(ps) == [n \in DOMAIN ps |-> ps[n].amount]

LEMMA PaymentsFinite ==
    ASSUME NEW ps \in Seq(PaymentRows)
    PROVE  /\ IsFiniteSet(Active(ps)) /\ Gross(ps) = SumOf(AmountIn(ps), Active(ps))
           /\ \A n \in Active(ps) : AmountIn(ps)[n] \in Nat
           /\ Gross(ps) \in Nat
<1>1. Active(ps) \subseteq 1 .. Len(ps) /\ Len(ps) \in Nat
    BY DEF Active
<1>2. IsFiniteSet(Active(ps))
    <2>1. IsFiniteSet(1 .. Len(ps))
        BY <1>1, FS_Interval
    <2>. QED  BY <1>1, <2>1, FS_Subset
<1>3. ASSUME NEW n \in Active(ps)
      PROVE  AmountIn(ps)[n] = ps[n].amount /\ ps[n].amount \in Nat
    <2>1. ps[n] \in PaymentRows /\ n \in DOMAIN ps
        BY DEF Active
    <2>. QED  BY <2>1, AmountsAssumption DEF AmountIn, PaymentRows
<1>4. Gross(ps) = SumOf(AmountIn(ps), Active(ps))
    BY <1>3, GrossIsSum
<1>. QED  BY <1>2, <1>3, <1>4, SumIsNat

AmountsKnown(i) == i.total \in Nat /\ i.adjusted \in Int /\ i.refunded \in Int

LEMMA Worth ==
    ASSUME NEW i, AmountsKnown(i), NEW ps \in Seq(PaymentRows)
    PROVE  /\ AdjustedTotal(i) \in Nat /\ NetPaid(i, ps) \in Nat
           /\ Balance(i, ps) = IF AdjustedTotal(i) < NetPaid(i, ps) THEN 0
                               ELSE AdjustedTotal(i) - NetPaid(i, ps)
           /\ NetPaid(i, ps) = IF Gross(ps) < i.refunded THEN 0 ELSE Gross(ps) - i.refunded
BY PaymentsFinite DEF AmountsKnown, AdjustedTotal, NetPaid, Balance, AtLeast0

LEMMA LinesAddUp == ASSUME lines \in [LineIds -> Nat] PROVE LineTotal \in Nat
<1>1. LineTotal = SumOf(lines, LineIds)
    BY DEF LineTotal, TotalOf, SumOf
<1>. QED  BY <1>1, LinesAssumption, SumIsNat

LEMMA AmountsOf ==
    ASSUME NEW t, NEW a \in Nat
    PROVE  Adjusted(t, a) \in Int /\ Refunded(t, a) \in Nat
BY DEF Adjusted, Refunded

-----------------------------------------------------------------------------
(* Drafts.  Issuing, dunning, the void and the recompute write the status  *)
(* without looking at what it is by then.                                  *)

\* An invoice that has not been issued, of anything but a parking statement,
\* is a DRAFT or void, and no request that books or reminds is under way.
Unbooked ==
    /\ payments = << >> /\ adjustments = << >>
    /\ invoice.status \in {"DRAFT", "CANCELLED"}
    /\ \A k \in Callers : call[k].op \notin {"pay", "reverse", "adjust", "cancel", "dunning"}

DraftInv ==
    /\ invoice.status = "ISSUED" => invoice.issued
    /\ invoice.issued => invoice.status # "DRAFT"
    /\ \A k \in Callers : call[k].op = "issue" =>
        /\ call[k].at \in {"read", "recompute"} => invoice.issued
        /\ call[k].at = "recompute" => call[k].status # "DRAFT"
    /\ ~invoice.issued /\ invoice.source # "PARKING" => Unbooked

\* A step that books nothing, writes a status that fits, and ends a call or
\* goes on with it.
LEMMA DraftCallEnds ==
    ASSUME DraftInv, NEW k \in Callers,
           \A j \in Callers \ {k} : call'[j] = call[j],
           call'[k].op \in {call[k].op, "none"},
           call'[k].op = "issue" /\ call'[k].at \in {"read", "recompute"} => invoice.issued,
           call'[k].op = "issue" /\ call'[k].at = "recompute" => call'[k].status # "DRAFT",
           payments' = payments, adjustments' = adjustments,
           invoice'.issued = invoice.issued, invoice'.source = invoice.source,
           invoice'.status = "ISSUED" => invoice.issued,
           invoice.issued => invoice'.status # "DRAFT",
           ~invoice.issued => invoice'.status \in {invoice.status, "CANCELLED"}
    PROVE  DraftInv'
<1>1. \A j \in Callers : call'[j].op \in {call[j].op, "none"}
    OBVIOUS
<1>2. ~invoice'.issued /\ invoice'.source # "PARKING" => Unbooked'
    <2>1. ~invoice.issued /\ invoice.source # "PARKING" => Unbooked
        BY DEF DraftInv
    <2>. QED  BY <1>1, <2>1 DEF Unbooked
<1>. QED
    BY <1>1, <1>2 DEF DraftInv

\* The checks refuse to book on a DRAFT.
LEMMA DraftStarts ==
    ASSUME InvRows, DraftInv, NEW k \in Callers, Starts(k)
    PROVE  DraftInv'
<1>1. PICK c : CallOK(c) /\ Begin(k, c) /\ Admitted(c)
    BY StartsAdmitted DEF Started
<1>2. /\ UNCHANGED <<invoice, payments, adjustments>>
      /\ call'[k] = c /\ \A j \in Callers \ {k} : call'[j] = call[j]
    BY <1>1, Begun
<1>3. Unbooked => c.op \notin {"pay", "reverse", "adjust", "cancel", "dunning"}
    <2>. SUFFICES ASSUME Unbooked
                  PROVE  c.op \notin {"pay", "reverse", "adjust", "cancel", "dunning"}
        OBVIOUS
    <2>1. invoice.status \in {"DRAFT", "CANCELLED"} /\ DOMAIN payments = {} /\ DOMAIN adjustments = {}
        BY DEF Unbooked
    <2>2. call'[k].op \in {"line", "void", "issue"}
        <3>1. ASSUME NEW d, Begin(k, d), d.op \in {"line", "void", "issue"}
              PROVE  call'[k].op \in {"line", "void", "issue"}
            <4>1. call'[k] = d
                BY <3>1 DEF Begin, InvRows
            <4>. QED  BY <3>1, <4>1
        <3>. QED
            BY <2>1, <3>1 DEF Starts, PayRead, ReverseRead, AdjustRead, CancelRead, LineRead, VoidRead,
                              IssueRead, DunningRead, Payable
    <2>. QED  BY <1>2, <2>2
<1>4. c.op = "issue" => c.at = "write"
    BY <1>1 DEF Admitted
<1>. QED
    BY <1>2, <1>3, <1>4 DEF DraftInv, Unbooked

LEMMA DraftStep ==
    ASSUME InvRows, DraftInv, [InvoiceNext]_invoiceVars
    PROVE  DraftInv'
<1>1. CASE UNCHANGED <<invoice, payments, adjustments, call>>
    BY <1>1 DEF DraftInv, Unbooked
<1>2. ASSUME NEW k \in Callers, Starts(k) PROVE DraftInv'
    BY <1>2, DraftStarts
<1>3. ASSUME NEW k \in Callers, call[k].op \in {"pay", "reverse", "adjust", "cancel"},
             Restated(invoice'.status), invoice'.source = invoice.source, Return(k)
      PROVE  DraftInv'
    <2>1. call'[k] = NoCall /\ \A j \in Callers \ {k} : call'[j] = call[j]
        BY <1>3, Returned
    <2>2. /\ invoice'.issued = invoice.issued
          /\ invoice'.status = "ISSUED" => invoice.issued
          /\ invoice.issued => invoice'.status # "DRAFT"
        BY <1>3 DEF Restated, DraftInv
    <2>3. invoice.issued \/ invoice.source = "PARKING"
        BY <1>3 DEF DraftInv, Unbooked
    <2>. QED
        BY <1>3, <2>1, <2>2, <2>3 DEF DraftInv, NoCall
<1>4. ASSUME NEW k \in Callers,
             \/ RecordPayment(k) \/ ReversePayment(k)
             \/ CreateAdjustment(k) \/ CancelAdjustment(k)
      PROVE  DraftInv'
    <2>1. Restated(invoice'.status)
        BY <1>4, PayStep, ReverseStep, AdjustStep, CancelStep, Recomputed
    <2>2. Return(k) /\ call[k].op \in {"pay", "reverse", "adjust", "cancel"}
        BY <1>4 DEF RecordPayment, ReversePayment, CreateAdjustment, CancelAdjustment
    <2>. QED  BY <1>3, <2>1, <2>2 DEF Restated
<1>5. ASSUME NEW k \in Callers, VoidInvoice(k) \/ DunningWrite(k) PROVE DraftInv'
    <2>1. /\ call'[k].op = call[k].op /\ call'[k].op # "issue"
          /\ \A j \in Callers \ {k} : call'[j] = call[j]
        BY <1>5, CallKept, Continued DEF VoidInvoice, DunningWrite, CallOK, ProperCalls
    <2>2. /\ payments' = payments /\ adjustments' = adjustments
          /\ invoice'.status \in {"CANCELLED", "OVERDUE"}
          /\ call[k].op = "void" => invoice'.status = "CANCELLED"
          /\ invoice'.issued = invoice.issued /\ invoice'.source = invoice.source
        BY <1>5 DEF VoidInvoice, DunningWrite, InvRows
    <2>3. CASE call[k].op = "void"
        BY <2>1, <2>2, <2>3, DraftCallEnds
    <2>4. CASE call[k].op = "dunning"
        <3>1. invoice.issued \/ invoice.source = "PARKING"
            BY <2>4 DEF DraftInv, Unbooked
        <3>. QED  BY <2>1, <2>2, <3>1 DEF DraftInv
    <2>. QED  BY <1>5, <2>3, <2>4 DEF VoidInvoice, DunningWrite
<1>6. ASSUME NEW k \in Callers, IssueInvoice(k) PROVE DraftInv'
    <2>1. /\ call'[k] = [op |-> "issue", at |-> "read"]
          /\ \A j \in Callers \ {k} : call'[j] = call[j]
        BY <1>6, CallKept, Continued DEF CallOK, ProperCalls
    <2>2. \/ invoice.status = "ISSUED" /\ invoice' = invoice
          \/ invoice' = [invoice EXCEPT !.status = "ISSUED", !.issued = TRUE, !.total = LineTotal]
        BY <1>6 DEF IssueInvoice
    <2>3. invoice'.issued /\ invoice'.status = "ISSUED"
        <3>1. CASE invoice.status = "ISSUED" /\ invoice' = invoice
            BY <3>1 DEF DraftInv
        <3>2. CASE invoice' = [invoice EXCEPT !.status = "ISSUED", !.issued = TRUE,
                                             !.total = LineTotal]
            <4>1. PICK s, b, t :
                    /\ s = "ISSUED" /\ b = TRUE /\ t = LineTotal
                    /\ invoice' = [invoice EXCEPT !.status = s, !.issued = b, !.total = t]
                BY <3>2
            <4>2. invoice' = [status |-> s, total |-> t, adjusted |-> invoice'.adjusted,
                              refunded |-> invoice'.refunded, issued |-> b,
                              source |-> invoice'.source]
                <5>1. invoice' = [invoice EXCEPT !.status = s, !.issued = b, !.total = t]
                    BY <4>1
                <5>. QED  BY <5>1, StatusWritten
            <4>3. invoice'.status = s /\ invoice'.issued = b
                BY <4>2
            <4>. QED  BY <4>1, <4>3
        <3>. QED  BY <2>2, <3>1, <3>2
    <2>. QED
        BY <2>1, <2>3 DEF DraftInv
<1>7. ASSUME NEW k \in Callers, IssueRecomputeRead(k) PROVE DraftInv'
    <2>1. /\ call[k].op = "issue" /\ call[k].at = "read"
          /\ UNCHANGED <<invoice, payments, adjustments>>
        BY <1>7 DEF IssueRecomputeRead
    <2>2. invoice.issued
        BY <2>1 DEF DraftInv
    <2>3. PICK s \in InvoiceStatuses \ {"DRAFT"} :
            \/ Continue(k, NoCall)
            \/ Continue(k, [op |-> "issue", at |-> "recompute", status |-> s])
        BY <1>7, <2>2, StatusRange DEF IssueRecomputeRead, InvoiceStatuses
    <2>4. /\ \/ call'[k] = NoCall
             \/ call'[k] = [op |-> "issue", at |-> "recompute", status |-> s]
          /\ \A j \in Callers \ {k} : call'[j] = call[j]
        BY <2>3, Continued DEF CallOK, ProperCalls
    <2>. QED
        BY <2>1, <2>2, <2>4, DraftCallEnds DEF NoCall, DraftInv
<1>8. ASSUME NEW k \in Callers, IssueRecompute(k) PROVE DraftInv'
    <2>1. /\ call[k].op = "issue" /\ call[k].at = "recompute"
          /\ payments' = payments /\ adjustments' = adjustments
          /\ invoice'.status = call[k].status
          /\ invoice'.issued = invoice.issued /\ invoice'.source = invoice.source
        BY <1>8 DEF IssueRecompute, InvRows
    <2>2. /\ call'[k] = [op |-> "issue", at |-> "sync"]
          /\ \A j \in Callers \ {k} : call'[j] = call[j]
        BY <1>8, Continued DEF IssueRecompute, CallOK, ProperCalls
    <2>3. invoice.issued /\ call[k].status # "DRAFT"
        BY <2>1 DEF DraftInv
    <2>. QED
        BY <2>1, <2>2, <2>3, DraftCallEnds
<1>9. ASSUME NEW k \in Callers, WriteLine(k) \/ TotalsRead(k) \/ RecalculateTotals(k)
      PROVE  DraftInv'
    <2>1. /\ call[k].op = "line" /\ payments' = payments /\ adjustments' = adjustments
          /\ invoice'.issued = invoice.issued /\ invoice'.source = invoice.source
          /\ invoice'.status = invoice.status
        BY <1>9 DEF WriteLine, TotalsRead, RecalculateTotals, InvRows
    <2>2. PICK c : Continue(k, c) /\ c.op \in {"line", "none"} /\ CallOK(c)
        BY <1>9 DEF WriteLine, TotalsRead, RecalculateTotals, Return, NoCall, CallOK, ProperCalls
    <2>3. call'[k].op \in {"line", "none"} /\ \A j \in Callers \ {k} : call'[j] = call[j]
        BY <2>2, Continued
    <2>. QED
        BY <2>1, <2>3, DraftCallEnds DEF DraftInv
<1>10. ASSUME NEW k \in Callers, SyncSource(k) \/ DunningMark(k) \/ Drop(k) PROVE DraftInv'
    <2>1. Return(k) /\ UNCHANGED <<invoice, payments, adjustments>>
        BY <1>10 DEF SyncSource, DunningMark, Drop
    <2>2. call'[k] = NoCall /\ \A j \in Callers \ {k} : call'[j] = call[j]
        BY <2>1, Returned
    <2>. QED
        BY <2>1, <2>2, DraftCallEnds DEF DraftInv, NoCall
<1>11. CASE MarkOverdue
    <2>1. /\ invoice.status = "ISSUED" /\ invoice'.status = "OVERDUE"
          /\ invoice'.issued = invoice.issued /\ invoice'.source = invoice.source
          /\ payments' = payments /\ adjustments' = adjustments /\ call' = call
        BY <1>11 DEF MarkOverdue, InvRows
    <2>. QED
        BY <2>1 DEF DraftInv
<1>. QED
    BY <1>1, <1>2, <1>4, <1>5, <1>6, <1>7, <1>8, <1>9, <1>10, <1>11
       DEF InvoiceNext, Starts, invoiceVars, DayPasses

\* Whatever requests cross, an issued invoice is never a DRAFT again, and an
\* invoice is not booked on before it is issued, unless it is one of a
\* parking statement (the checks of recordPayment() and
\* createInvoiceAdjustment() look at the status before their transactions).
THEOREM DraftsStayUnbooked == InvoiceSpec => []DraftIsUnbooked
<1>1. InvoiceInit => DraftInv
    BY DEF InvoiceInit, DraftInv, Unbooked, NoCall
<1>2. InvRows /\ DraftInv /\ [InvoiceNext]_invoiceVars => DraftInv'
    BY DraftStep
<1>3. DraftInv => DraftIsUnbooked
    BY DEF DraftInv, Unbooked, DraftIsUnbooked
<1>. QED
    BY <1>1, <1>2, <1>3, InvoiceRowsAlways, PTL DEF InvoiceSpec

-----------------------------------------------------------------------------
(* Receivables: what is owed becomes one invoice.                          *)

LEMMA KindsOfChanges ==
    /\ DOMAIN ChangesOf = {"SERVICE_CONTRACT", "PARKING", "PERIODIC_CHARGE", "SHORT_TERM_BOOKING"}
    /\ ChangesOf["SERVICE_CONTRACT"] = {"reprice", "settle", "deletePayment", "ownTransfer"}
    /\ ChangesOf["PARKING"] = {"updateActual", "reconcile", "addPayment"}
    /\ ChangesOf["PERIODIC_CHARGE"] = {"saveDraft", "confirmNoCharge", "confirm", "reopen"}
    /\ ChangesOf["SHORT_TERM_BOOKING"] = {"updateSlot", "confirmSlot", "cancelSlot", "deleteSlot"}
BY DEF ChangesOf, PaymentChanges, StatementChanges, ChargeChanges, SlotChanges

\* The rows of ReceivableTypeOK, whatever is asked for beside a transfer.
OwedStatuses ==
    {"PENDING", "PAID", "UNPAID", "PARTIAL", "DRAFT", "CONFIRMED", "INVOICED", "NO_CHARGE", "CANCELLED", Gone}
OwedMarks == {"PENDING", "MATCHED", "DISPUTED", "BILLED"}
OwedRow == [status : OwedStatuses, mark : OwedMarks, amount : Sums \cup {0}, total : Sums \cup {0}, paid : Nat]
OwedBill == [number : {"source", "own"}, amount : Sums \cup {0}, carried : Nat]
OwedAsk == [op : (Changes \ AtOnce) \cup {"transfer"}, row : OwedRow]

OwedTyped ==
    /\ kind \in Kinds /\ owed \in OwedRow /\ bills \in Seq(OwedBill)
    /\ asked \in [Askers -> {NotAsked} \cup OwedAsk]

LEMMA OwedChanges ==
    Changes \subseteq PaymentChanges \cup StatementChanges \cup ChargeChanges \cup SlotChanges
BY ChangesAssumption, KindsOfChanges
   DEF PaymentChanges, StatementChanges, ChargeChanges, SlotChanges

LEMMA CostedRow ==
    ASSUME NEW row \in OwedRow, NEW a \in Sums \cup {0}
    PROVE  Costing(row, a) \in OwedRow
BY DEF Costing, OwedRow

\* What each endpoint leaves of the row.
LEMMA WrittenTyped ==
    ASSUME owed \in OwedRow, NEW op \in Changes, NEW a \in Sums, NEW mark \in OwedMarks
    PROVE  Written(op, a, mark) \in OwedRow
<1>1. a \in Nat /\ owed.paid \in Nat /\ owed.amount \in Nat
    <2>1. owed.paid \in Nat /\ owed.amount \in Sums \cup {0}
        BY DEF OwedRow
    <2>2. \A n \in Sums \cup {0} : n \in Nat
        BY SumsAssumption
    <2>. QED  BY <2>1, <2>2
<1>2. /\ Costing(owed, a) \in OwedRow /\ Costing(owed, 0) \in OwedRow
    BY CostedRow
<1>3. CASE op = "reprice"
    BY <1>3 DEF Written, OwedRow
<1>4. CASE op = "settle"
    BY <1>1, <1>4 DEF Written, OwedRow, OwedStatuses
<1>5. CASE op = "deletePayment"
    BY <1>5 DEF Written, OwedRow, OwedStatuses
<1>6. CASE op = "ownTransfer"
    BY <1>6 DEF Written, OwedRow, OwedMarks
<1>7. CASE op = "updateActual"
    BY <1>2, <1>7 DEF Written, OwedRow, OwedMarks
<1>8. CASE op = "reconcile"
    BY <1>8 DEF Written, OwedRow
<1>9. CASE op = "addPayment"
    <2>1. owed.paid + a \in Nat
        BY <1>1
    <2>. QED  BY <1>9, <2>1 DEF Written, OwedRow, OwedStatuses
<1>10. CASE op = "saveDraft"
    BY <1>2, <1>10 DEF Written, OwedRow, OwedStatuses
<1>11. CASE op = "confirmNoCharge"
    BY <1>2, <1>11 DEF Written, OwedRow, OwedStatuses
<1>12. CASE op = "confirm"
    BY <1>12 DEF Written, OwedRow, OwedStatuses
<1>13. CASE op = "reopen"
    BY <1>13 DEF Written, OwedRow, OwedStatuses
<1>14. CASE op = "updateSlot"
    BY <1>2, <1>14 DEF Written
<1>15. CASE op = "confirmSlot"
    BY <1>15 DEF Written, OwedRow, OwedStatuses
<1>16. CASE op = "cancelSlot"
    BY <1>16 DEF Written, OwedRow, OwedStatuses
<1>17. CASE op = "deleteSlot"
    BY <1>17 DEF Written, OwedRow, OwedStatuses
<1>. QED
    BY <1>3, <1>4, <1>5, <1>6, <1>7, <1>8, <1>9, <1>10, <1>11, <1>12, <1>13, <1>14, <1>15, <1>16, <1>17,
       OwedChanges DEF PaymentChanges, StatementChanges, ChargeChanges, SlotChanges

LEMMA OwedStarts == ReceivableInit => OwedTyped
<1>. SUFFICES ASSUME ReceivableInit PROVE OwedTyped
    OBVIOUS
<1>1. PICK a \in Sums :
        owed = [status |-> FirstStatus[kind], mark |-> "PENDING",
                amount |-> IF kind = "PERIODIC_CHARGE" THEN 0 ELSE a,
                total |-> IF kind = "PERIODIC_CHARGE" THEN 0 ELSE a, paid |-> 0]
    BY DEF ReceivableInit
<1>2. FirstStatus[kind] \in OwedStatuses
    BY KindsAssumption, KindsOfChanges DEF ReceivableInit, FirstStatus, OwedStatuses
<1>3. owed \in OwedRow
    BY <1>1, <1>2 DEF OwedRow, OwedMarks
<1>. QED  BY <1>3 DEF ReceivableInit, OwedTyped

LEMMA OwedGoesOn == OwedTyped /\ [ReceivableNext]_receivableVars => OwedTyped'
<1>. SUFFICES ASSUME OwedTyped, [ReceivableNext]_receivableVars PROVE OwedTyped'
    OBVIOUS
<1>1. CASE UNCHANGED receivableVars
    BY <1>1 DEF receivableVars, OwedTyped
<1>2. ASSUME NEW k \in Askers, NEW op \in (Changes \ AtOnce) \cup {"transfer"}, Ask(k, op)
      PROVE  OwedTyped'
    <2>. DEFINE r == [op |-> op, row |-> owed]
    <2>1. r \in OwedAsk
        BY DEF OwedTyped, OwedAsk
    <2>2. asked' = [asked EXCEPT ![k] = r] /\ UNCHANGED <<kind, owed, bills>>
        BY <1>2 DEF Ask
    <2>. HIDE DEF r
    <2>. QED  BY <2>1, <2>2 DEF OwedTyped
<1>3. ASSUME NEW k \in Askers, NEW op \in Changes, ChangeRead(k, op) PROVE OwedTyped'
    BY <1>2, <1>3 DEF ChangeRead
<1>4. ASSUME NEW k \in Askers, TransferRead(k) PROVE OwedTyped'
    BY <1>2, <1>4 DEF TransferRead
\* A request is over.
<1>5. ASSUME NEW k \in Askers, asked' = [asked EXCEPT ![k] = NotAsked], owed' \in OwedRow,
             bills' \in Seq(OwedBill), UNCHANGED kind
      PROVE  OwedTyped'
    BY <1>5 DEF OwedTyped
<1>6. ASSUME NEW k \in Askers, GiveUp(k) PROVE OwedTyped'
    BY <1>5, <1>6 DEF GiveUp, OwedTyped
<1>7. ASSUME NEW k \in Askers, NEW a \in Sums, NEW mark \in {"PENDING", "MATCHED", "DISPUTED"},
             Change(k, a, mark)
      PROVE  OwedTyped'
    <2>1. owed' \in OwedRow
        BY <1>7, WrittenTyped DEF Change, OwedTyped, OwedMarks
    <2>. QED  BY <1>5, <1>7, <2>1 DEF Change, OwedTyped
<1>8. ASSUME NEW op \in Changes, NEW a \in Sums, ChangeAtOnce(op, a) PROVE OwedTyped'
    <2>1. owed.mark \in OwedMarks
        BY DEF OwedTyped, OwedRow
    <2>2. owed' \in OwedRow
        BY <1>8, <2>1, WrittenTyped DEF ChangeAtOnce, OwedTyped
    <2>. QED  BY <1>8, <2>2 DEF ChangeAtOnce, OwedTyped
<1>9. ASSUME NEW k \in Askers, asked[k].op \in {"transfer", "ownTransfer"}, NEW number \in {"source", "own"}
      PROVE  BillFor(number, asked[k].row) \in OwedBill
    <2>1. asked[k] \in OwedAsk
        BY <1>9 DEF OwedTyped, NotAsked
    <2>2. asked[k].row \in OwedRow
        BY <2>1 DEF OwedAsk
    <2>. QED  BY <2>2 DEF BillFor, OwedRow, OwedBill
<1>10. ASSUME NEW k \in Askers, Transfer(k) PROVE OwedTyped'
    <2>1. owed' \in OwedRow
        BY <1>10 DEF Transfer, Marked, OwedTyped, OwedRow, OwedStatuses, OwedMarks
    <2>2. bills' \in Seq(OwedBill)
        <3>1. BillFor("source", asked[k].row) \in OwedBill
            BY <1>9, <1>10 DEF Transfer
        <3>. QED  BY <1>10, <3>1 DEF Transfer, OwedTyped
    <2>. QED  BY <1>5, <1>10, <2>1, <2>2 DEF Transfer
<1>11. ASSUME NEW k \in Askers, OwnTransfer(k) PROVE OwedTyped'
    <2>1. owed' \in OwedRow
        BY <1>11 DEF OwnTransfer, Written, OwedTyped, OwedRow, OwedMarks
    <2>2. bills' \in Seq(OwedBill)
        <3>1. BillFor("own", asked[k].row) \in OwedBill
            BY <1>9, <1>11 DEF OwnTransfer
        <3>. QED  BY <1>11, <3>1 DEF OwnTransfer, OwedTyped
    <2>. QED  BY <1>5, <1>11, <2>1, <2>2 DEF OwnTransfer
<1>. QED  BY <1>1, <1>3, <1>4, <1>6, <1>7, <1>8, <1>10, <1>11 DEF ReceivableNext

LEMMA ReceivableTypes == ReceivableSpec => []ReceivableTypeOK
<1>1. OwedTyped => ReceivableTypeOK
    <2>. SUFFICES ASSUME OwedTyped PROVE ReceivableTypeOK
        OBVIOUS
    <2>1. \A k \in Askers : asked[k].op \in Changes \cup {"none", "transfer"}
        BY DEF OwedTyped, OwedAsk, NotAsked
    <2>. QED
        BY <2>1 DEF OwedTyped, ReceivableTypeOK, OwedRow, OwedBill, OwedStatuses, OwedMarks
<1>. QED  BY <1>1, OwedStarts, OwedGoesOn, PTL DEF ReceivableSpec

\* The number made of the receivable is used once, and only the payments of
\* service contracts have another way into billing.
NumberedOnce ==
    /\ kind # "SERVICE_CONTRACT" => BilledOnce
    /\ \A m, n \in DOMAIN bills :
        bills[m].number = "source" /\ bills[n].number = "source" => m = n

\* Every bill of another kind has the number of its source.
OnceInv ==
    /\ \A k \in Askers : asked[k].op = "ownTransfer" => kind = "SERVICE_CONTRACT"
    /\ \A n \in DOMAIN bills : bills[n].number = "own" => kind = "SERVICE_CONTRACT"
    /\ \A m, n \in DOMAIN bills :
        bills[m].number = "source" /\ bills[n].number = "source" => m = n

LEMMA OnceStep ==
    ASSUME OwedTyped, OnceInv, [ReceivableNext]_receivableVars
    PROVE  OnceInv'
<1>1. CASE UNCHANGED receivableVars
    BY <1>1 DEF receivableVars, OnceInv
<1>2. ASSUME NEW k \in Askers, NEW r, asked' = [asked EXCEPT ![k] = r], UNCHANGED <<kind, bills>>,
             r.op = "ownTransfer" => kind = "SERVICE_CONTRACT"
      PROVE  OnceInv'
    BY <1>2 DEF OwedTyped, OnceInv
<1>3. ASSUME NEW k \in Askers, NEW op \in Changes, ChangeRead(k, op) PROVE OnceInv'
    <2>1. op = "ownTransfer" => kind = "SERVICE_CONTRACT"
        BY <1>3, KindsOfChanges, KindsAssumption DEF ChangeRead, OwedTyped
    <2>. QED  BY <1>2, <1>3, <2>1 DEF ChangeRead, Ask
<1>4. ASSUME NEW k \in Askers, TransferRead(k) \/ GiveUp(k) PROVE OnceInv'
    BY <1>2, <1>4 DEF TransferRead, GiveUp, Ask, NotAsked
<1>5. ASSUME NEW k \in Askers, NEW a \in Sums, NEW mark \in {"PENDING", "MATCHED", "DISPUTED"},
             Change(k, a, mark)
      PROVE  OnceInv'
    BY <1>2, <1>5 DEF Change, NotAsked
<1>6. ASSUME NEW op \in Changes, NEW a \in Sums, ChangeAtOnce(op, a) PROVE OnceInv'
    BY <1>6 DEF ChangeAtOnce, OnceInv
\* A bill is added.
<1>7. ASSUME NEW k \in Askers, asked' = [asked EXCEPT ![k] = NotAsked], UNCHANGED kind,
             NEW number \in {"source", "own"}, NEW row,
             bills' = Append(bills, BillFor(number, row)),
             number = "source" => ~Numbered,
             number = "own" => kind = "SERVICE_CONTRACT"
      PROVE  OnceInv'
    <2>1. BillFor(number, row).number = number
        BY DEF BillFor
    <2>2. /\ DOMAIN bills' = DOMAIN bills \cup {Len(bills) + 1} /\ Len(bills) + 1 \notin DOMAIN bills
          /\ bills'[Len(bills) + 1].number = number
          /\ \A n \in DOMAIN bills : bills'[n] = bills[n]
        BY <1>7, <2>1 DEF OwedTyped
    <2>3. number = "source" => \A n \in DOMAIN bills : bills[n].number # "source"
        BY <1>7 DEF Numbered
    <2>4. \A j \in Askers : asked'[j].op = "ownTransfer" => kind = "SERVICE_CONTRACT"
        BY <1>7 DEF OwedTyped, OnceInv, NotAsked
    <2>. QED  BY <1>7, <2>2, <2>3, <2>4 DEF OnceInv
<1>8. ASSUME NEW k \in Askers, Transfer(k) PROVE OnceInv'
    <2>1. CASE Numbered
        BY <1>2, <1>8, <2>1 DEF Transfer, NotAsked
    <2>2. CASE ~Numbered
        BY <1>7, <1>8, <2>2 DEF Transfer
    <2>. QED  BY <2>1, <2>2
<1>9. ASSUME NEW k \in Askers, OwnTransfer(k) PROVE OnceInv'
    <2>1. kind = "SERVICE_CONTRACT"
        BY <1>9 DEF OwnTransfer, OnceInv
    <2>. QED  BY <1>7, <1>9, <2>1 DEF OwnTransfer
<1>. QED  BY <1>1, <1>3, <1>4, <1>5, <1>6, <1>8, <1>9 DEF ReceivableNext

\* Whatever requests cross, a receivable becomes at most one invoice that has
\* its number, and, but for a payment of a service contract, whose own module
\* numbers invoices by the clock, at most one invoice (the checks of the two
\* transfers are made before their transactions).
THEOREM NumbersBillOnce == ReceivableSpec => []NumberedOnce
<1>1. ReceivableInit => OnceInv
    BY DEF ReceivableInit, OnceInv, NotAsked
<1>2. ASSUME OwedTyped, OnceInv PROVE NumberedOnce
    <2>1. bills \in Seq(OwedBill) /\ Len(bills) \in Nat /\ DOMAIN bills = 1 .. Len(bills)
        BY <1>2 DEF OwedTyped
    <2>2. \A n \in DOMAIN bills : bills[n].number \in {"source", "own"}
        <3>1. \A n \in DOMAIN bills : bills[n] \in OwedBill
            BY <2>1
        <3>. QED  BY <3>1 DEF OwedBill
    <2>3. ASSUME kind # "SERVICE_CONTRACT" PROVE Len(bills) <= 1
        <3>1. \A m, n \in DOMAIN bills : m = n
            BY <1>2, <2>2, <2>3 DEF OnceInv
        <3>2. CASE Len(bills) >= 2
            <4>1. 1 \in DOMAIN bills /\ 2 \in DOMAIN bills
                BY <2>1, <3>2
            <4>. QED  BY <3>1, <4>1
        <3>. QED  BY <2>1, <3>2
    <2>. QED  BY <1>2, <2>3 DEF OnceInv, NumberedOnce, BilledOnce
<1>. QED  BY <1>1, <1>2, OnceStep, OwedStarts, OwedGoesOn, PTL DEF ReceivableSpec
=============================================================================
