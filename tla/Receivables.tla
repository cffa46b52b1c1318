----------------------------- MODULE Receivables -----------------------------
(***************************************************************************)
(* One receivable of another module and the invoices made of it: a payment *)
(* of a service contract, a monthly parking statement, a periodic charge   *)
(* or a short-term booking (createInvoiceFromPending() in modules/billing, *)
(* transferPaymentToBilling() in modules/service-contracts, and the        *)
(* endpoints of the four modules that change what is billed).              *)
(*                                                                         *)
(* The endpoints read the row, check it and write it later with a plain    *)
(* update.  A transfer reads the row, and creates the invoice and marks    *)
(* the row in one transaction that looks at nothing again but the number   *)
(* of the invoice, which is unique.                                        *)
(***************************************************************************)
EXTENDS Naturals, Sequences

CONSTANTS
    Kinds,      \* kinds of receivables
    Askers,     \* requests that can be in flight
    Sums,       \* what a receivable can amount to
    Changes,    \* the endpoints in use
    NotBeside   \* pairs of endpoints that are never under way together

PaymentChanges   == {"reprice", "settle", "deletePayment", "ownTransfer"}
StatementChanges == {"updateActual", "reconcile", "addPayment"}
ChargeChanges    == {"saveDraft", "confirmNoCharge", "confirm", "reopen"}
SlotChanges      == {"updateSlot", "confirmSlot", "cancelSlot", "deleteSlot"}

ChangesOf == [SERVICE_CONTRACT   |-> PaymentChanges,
              PARKING            |-> StatementChanges,
              PERIODIC_CHARGE    |-> ChargeChanges,
              SHORT_TERM_BOOKING |-> SlotChanges]

ASSUME KindsAssumption == Kinds \subseteq DOMAIN ChangesOf
ASSUME SumsAssumption == Sums \subseteq Nat \ {0} /\ Sums # {}
ASSUME ChangesAssumption == Changes \subseteq UNION {ChangesOf[k] : k \in DOMAIN ChangesOf}

VARIABLES
    kind,     \* what the receivable is
    owed,     \* its row: status, mark of the transfer, amount, total, paid
    bills,    \* the invoices made of it: number, amount, payment carried over
    asked     \* what each request in flight has read

receivableVars == <<kind, owed, bills, asked>>

NotAsked == [op |-> "none"]
Gone == "GONE"   \* the status of a row that was deleted

FirstStatus == [SERVICE_CONTRACT |-> "PENDING", PARKING |-> "UNPAID",
                PERIODIC_CHARGE |-> "PENDING", SHORT_TERM_BOOKING |-> "PENDING"]

\* Types of the row, the invoices and the requests.
ReceivableTypeOK ==
    /\ kind \in Kinds
    /\ owed \in [status : {"PENDING", "PAID", "UNPAID", "PARTIAL", "DRAFT", "CONFIRMED",
                           "INVOICED", "NO_CHARGE", "CANCELLED", Gone},
                 mark : {"PENDING", "MATCHED", "DISPUTED", "BILLED"},
                 amount : Sums \cup {0}, total : Sums \cup {0}, paid : Nat]
    /\ bills \in Seq([number : {"source", "own"}, amount : Sums \cup {0}, carried : Nat])
    /\ \A k \in Askers : asked[k].op \in Changes \cup {"none", "transfer"}

ReceivableInit ==
    /\ kind \in Kinds
    /\ \E a \in Sums :
        owed = [status |-> FirstStatus[kind], mark |-> "PENDING",
                amount |-> IF kind = "PERIODIC_CHARGE" THEN 0 ELSE a,
                total |-> IF kind = "PERIODIC_CHARGE" THEN 0 ELSE a, paid |-> 0]
    /\ bills = << >>
    /\ asked = [k \in Askers |-> NotAsked]

-----------------------------------------------------------------------------
(* The endpoints of the four modules.                                      *)

Costing(row, a) == [row EXCEPT !.amount = a, !.total = a]

\* Mutant of Billed: a receivable that was transferred can be changed.
BilledNever == FALSE

\* A transferred row: the invoice of a payment or a charge, the mark
\* TRANSFERRED_TO_BILLING of a statement; a booking is not marked.
Billed == owed.mark = "BILLED"

\* What each endpoint checks on the row it reads.
Check == [
    reprice         |-> ~Billed,
    settle          |-> ~Billed,
    deletePayment   |-> ~Billed,
    ownTransfer     |-> ~Billed,
    updateActual    |-> ~Billed /\ owed.paid = 0 /\ owed.mark # "MATCHED",
    reconcile       |-> ~Billed,
    addPayment      |-> ~Billed /\ owed.paid < owed.total,
    saveDraft       |-> owed.status \notin {"CONFIRMED", "INVOICED"},
    confirmNoCharge |-> owed.status \in {"PENDING", "DRAFT"},
    confirm         |-> owed.status = "DRAFT",
    reopen          |-> owed.status = "CONFIRMED",
    updateSlot      |-> owed.status # "CANCELLED",
    confirmSlot     |-> TRUE,
    cancelSlot      |-> TRUE,
    deleteSlot      |-> owed.status = "CANCELLED"]

\* What each of them writes.  reprice is updatePayment() with an amount, which
\* leaves the total as it was; settle is updatePayment() with status PAID.
Written(op, a, mark) == [
    reprice         |-> [owed EXCEPT !.amount = a],
    settle          |-> [owed EXCEPT !.status = "PAID", !.paid = owed.amount],
    deletePayment   |-> [owed EXCEPT !.status = Gone],
    ownTransfer     |-> [owed EXCEPT !.mark = "BILLED"],
    updateActual    |-> [Costing(owed, a) EXCEPT !.mark = "PENDING"],
    reconcile       |-> [owed EXCEPT !.mark = mark],
    addPayment      |-> [owed EXCEPT !.paid = @ + a,
                             !.status = IF owed.paid + a >= owed.total THEN "PAID" ELSE "PARTIAL"],
    saveDraft       |-> [Costing(owed, a) EXCEPT !.status = "DRAFT"],
    confirmNoCharge |-> [Costing(owed, 0) EXCEPT !.status = "NO_CHARGE"],
    confirm         |-> [owed EXCEPT !.status = "CONFIRMED"],
    reopen          |-> [owed EXCEPT !.status = "DRAFT"],
    updateSlot      |-> Costing(owed, a),
    confirmSlot     |-> [owed EXCEPT !.status = "CONFIRMED"],
    cancelSlot      |-> [owed EXCEPT !.status = "CANCELLED"],
    deleteSlot      |-> [owed EXCEPT !.status = Gone]][op]

\* One Serializable transaction, or one update that checks nothing.
AtOnce == {"addPayment", "updateSlot", "confirmSlot", "cancelSlot"}

Alone(op) == \A k \in Askers : {op, asked[k].op} \notin NotBeside

Ask(k, op) ==
    /\ asked[k] = NotAsked
    /\ Alone(op)
    /\ asked' = [asked EXCEPT ![k] = [op |-> op, row |-> owed]]
    /\ UNCHANGED <<kind, owed, bills>>

ChangeRead(k, op) ==
    /\ op \in (Changes \cap ChangesOf[kind]) \ AtOnce
    /\ owed.status # Gone /\ Check[op]
    /\ Ask(k, op)

\* The update; it fails when the row is gone.
Change(k, a, mark) ==
    /\ asked[k].op \in Changes \ {"ownTransfer"}
    /\ owed.status # Gone
    /\ owed' = Written(asked[k].op, a, mark)
    /\ asked' = [asked EXCEPT ![k] = NotAsked]
    /\ UNCHANGED <<kind, bills>>

ChangeAtOnce(op, a) ==
    /\ op \in Changes \cap ChangesOf[kind] \cap AtOnce
    /\ Alone(op)
    /\ owed.status # Gone /\ Check[op]
    /\ op = "addPayment" => owed.paid + a <= owed.total
    /\ owed' = Written(op, a, owed.mark)
    /\ UNCHANGED <<kind, bills, asked>>

\* A request ends before its write.
GiveUp(k) ==
    /\ asked[k] # NotAsked
    /\ asked' = [asked EXCEPT ![k] = NotAsked]
    /\ UNCHANGED <<kind, owed, bills>>

-----------------------------------------------------------------------------
(* The transfers to billing.                                               *)

\* Mutant of Numbered: the number does not depend on the receivable.
NumberedNever == FALSE

\* SC-PAYMENT-, PARKING-, PERIODIC- or ST-BOOKING-<id> exists.
Numbered == \E n \in DOMAIN bills : bills[n].number = "source"

TransferRead(k) ==
    /\ owed.status # Gone
    /\ CASE kind = "SERVICE_CONTRACT"   -> ~Billed
         [] kind = "PARKING"            -> ~Numbered
         [] kind = "PERIODIC_CHARGE"    -> ~Billed /\ owed.status = "CONFIRMED"
         [] kind = "SHORT_TERM_BOOKING" -> ~Numbered /\ owed.status = "CONFIRMED"
    /\ Ask(k, "transfer")

\* A booking is not marked; the invoice of a statement carries its payments.
Marked ==
    CASE kind = "PERIODIC_CHARGE"    -> [owed EXCEPT !.mark = "BILLED", !.status = "INVOICED"]
      [] kind = "SHORT_TERM_BOOKING" -> owed
      [] OTHER                       -> [owed EXCEPT !.mark = "BILLED"]

BillFor(number, row) ==
    [number |-> number, amount |-> row.total,
     carried |-> IF kind = "PARKING" THEN row.paid ELSE 0]

\* createInvoiceFromPending(): when the number is taken the transaction is
\* undone, and a charge is then marked as invoiced by the invoice there is.
Transfer(k) ==
    /\ asked[k].op = "transfer"
    /\ owed.status # Gone \/ kind = "SHORT_TERM_BOOKING"
    /\ Numbered => kind = "PERIODIC_CHARGE"
    /\ bills' = IF Numbered THEN bills ELSE Append(bills, BillFor("source", asked[k].row))
    /\ owed' = Marked
    /\ asked' = [asked EXCEPT ![k] = NotAsked]
    /\ UNCHANGED kind

\* transferPaymentToBilling() numbers its invoice by the clock.
OwnTransfer(k) ==
    /\ asked[k].op = "ownTransfer"
    /\ owed.status # Gone
    /\ bills' = Append(bills, BillFor("own", asked[k].row))
    /\ owed' = Written("ownTransfer", 0, owed.mark)
    /\ asked' = [asked EXCEPT ![k] = NotAsked]
    /\ UNCHANGED kind

ReceivableNext ==
    \/ \E k \in Askers, op \in Changes : ChangeRead(k, op)
    \/ \E k \in Askers, a \in Sums, mark \in {"PENDING", "MATCHED", "DISPUTED"} : Change(k, a, mark)
    \/ \E op \in Changes, a \in Sums : ChangeAtOnce(op, a)
    \/ \E k \in Askers : TransferRead(k) \/ Transfer(k) \/ OwnTransfer(k) \/ GiveUp(k)

ReceivableSpec == ReceivableInit /\ [][ReceivableNext]_receivableVars

-----------------------------------------------------------------------------
(* Properties.                                                             *)

\* One receivable is one invoice, however often and on whichever page its
\* transfer is asked for.
BilledOnce == Len(bills) <= 1

\* What was invoiced is what is owed, and stays it: the invoice has the amount
\* of the receivable and the payments made on it before, and the receivable
\* no longer changes in its own module.
BillIsOfSource ==
    bills # << >> =>
        /\ owed.status # Gone
        /\ kind # "SHORT_TERM_BOOKING" => Billed
        /\ bills[1].amount = owed.amount
        /\ kind = "PARKING" => bills[1].carried = owed.paid

\* A receivable becomes one invoice, of what is owed.
TransferIsExact == BilledOnce /\ BillIsOfSource
=============================================================================
