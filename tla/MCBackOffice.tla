---------------------------- MODULE MCBackOffice ----------------------------
(***************************************************************************)
(* Instances for TLC of the components around leasing.  They have no table *)
(* in common, so no step of one is seen by another: one run takes them all *)
(* and moves, in each behaviour, the one that `part` names.                *)
(***************************************************************************)
EXTENDS SlotCalendar, InvoiceLedger, BillingSchedule, BillingPeriods, Receivables,
        UnitMerge, PatrolShift, WorkTemplates, FitoutSubmittals, FitoutStages, SapGateway,
        MaintenancePlan, StockLedger, ParkingRates, PriceBook, DepartmentTree, UserAccounts, TLC

VARIABLE part

officeVars ==
    <<part, vars, invoiceVars, billingVars, periodVars, receivableVars, mergeVars,
      patrolVars, templateVars, reviewVars, stageVars, sapVars, upkeepVars, stockVars,
      parkingVars, priceVars, treeVars, accountVars>>

\* Calendars of short months.
LeaseCalendar == <<3, 2, 3, 3, 2>>
WorkCalendar == <<3, 2, 3>>

\* The unit status each stage sets.
StageTrigger == [signed |-> "none", works |-> "UNDER_FITOUT", opening |-> "OCCUPIED"]

\* What cannot be under way together, component by component: with any one of
\* these pairs a property of the component fails, for some of them in a larger
\* instance only.
InvoicePairs ==
    {{"pay"}, {"adjust"}, {"cancel"}, {"pay", "adjust"}, {"pay", "cancel"}, {"adjust", "cancel"},
     {"reverse", "adjust"}, {"issue", "line"}, {"issue", "reverse"}}
    \cup {{op, "void"} : op \in {"pay", "adjust", "issue", "dunning"}}
    \cup {{op, "line"} : op \in {"reverse", "cancel"}}
    \cup {{late, op} : late \in {"issue", "dunning"}, op \in {"pay", "adjust", "cancel"}}
SchedulePairs == {{"amend", op} : op \in {"build", "run", "bill"}}
ReceivablePairs ==
    {{"transfer", op} : op \in {"ownTransfer", "deletePayment", "updateActual", "reconcile",
                               "addPayment", "saveDraft", "confirmNoCharge", "confirm", "reopen"}}
    \cup {{"ownTransfer"}, {"ownTransfer", "deletePayment"}}
MergePairs ==
    {{"merge"}, {"split"}, {"merge", "split"}, {"merge", "lease"}, {"split", "lease"}}
StagePairs == {{"create", "deactivate"}, {"advance", "deactivate"}}
CrewPairs == {{"start"}, {"complete"}, {"start", "complete"}}
PricePairs == {{"create"}, {"update"}, {"create", "update"}}
TreePairs == {{"move"}, {"assign", "remove"}}
AccountPairs ==
    LET takes == {"lock", "demote", "remove"}
    IN {{one, other} : one, other \in takes} \cup {{"remove", "unlock"}}

\* The changes of a receivable but those that break BillIsOfSource alone.
SafeChanges ==
    (PaymentChanges \cup StatementChanges \cup ChargeChanges \cup {"confirmSlot"}) \ {"reprice"}

\* A component that does not move has one state.
OfficeInit ==
    /\ part \in {"slots", "invoice", "schedule", "periods", "receivable", "merge", "patrol",
                 "templates", "review", "stages", "sap", "upkeep", "stock", "parking",
                 "prices", "tree", "accounts"}
    /\ Init
    /\ InvoiceInit
    /\ part # "invoice" => LineTotal = 0 /\ invoice.source # "PARKING"
    /\ BillingInit
    /\ part # "schedule" => terms = [start |-> 1, end |-> 1, cycle |-> 2, rent |-> 1, free |-> 0]
    /\ PeriodsInit
    /\ part # "periods" => lease = [first |-> 1, last |-> 1, cycle |-> 1, free |-> 0]
    /\ ReceivableInit
    /\ part # "receivable" => kind = "PARKING" /\ owed.total = 1
    /\ MergeInit
    /\ PatrolInit
    /\ TemplateInit
    /\ part # "templates" => \A t \in Templates : template[t] = Told(TRUE, "DAILY", 2)
    /\ ReviewInit
    /\ StageInit
    /\ part # "stages" => \A s \in Stages : order[s] = 1
    /\ SapInit
    /\ part # "sap" => enabled
    /\ UpkeepInit
    /\ part # "upkeep" => interval = 1 /\ executions[1] = "none"
    /\ StockInit
    /\ ParkingInit
    /\ part # "parking" => span.from = 1 /\ rates[1].fee = 1
    /\ PriceInit
    /\ TreeInit
    /\ AccountInit
    /\ part # "accounts" => made = {CHOOSE u \in Accounts : TRUE}

OfficeNext ==
    /\ UNCHANGED part
    /\ IF part = "slots"      THEN Next           ELSE UNCHANGED vars
    /\ IF part = "invoice"    THEN InvoiceNext    ELSE UNCHANGED invoiceVars
    /\ IF part = "schedule"   THEN BillingNext    ELSE UNCHANGED billingVars
    /\ IF part = "periods"    THEN GeneratePeriod ELSE UNCHANGED periodVars
    /\ IF part = "receivable" THEN ReceivableNext ELSE UNCHANGED receivableVars
    /\ IF part = "merge"      THEN MergeNext      ELSE UNCHANGED mergeVars
    /\ IF part = "patrol"     THEN PatrolNext     ELSE UNCHANGED patrolVars
    /\ IF part = "templates"  THEN TemplateNext   ELSE UNCHANGED templateVars
    /\ IF part = "review"     THEN ReviewNext     ELSE UNCHANGED reviewVars
    /\ IF part = "stages"     THEN StageNext      ELSE UNCHANGED stageVars
    /\ IF part = "sap"        THEN SapNext        ELSE UNCHANGED sapVars
    /\ IF part = "upkeep"     THEN UpkeepNext     ELSE UNCHANGED upkeepVars
    /\ IF part = "stock"      THEN StockNext      ELSE UNCHANGED stockVars
    /\ IF part = "parking"    THEN ParkingNext    ELSE UNCHANGED parkingVars
    /\ IF part = "prices"     THEN PriceNext      ELSE UNCHANGED priceVars
    /\ IF part = "tree"       THEN TreeNext       ELSE UNCHANGED treeVars
    /\ IF part = "accounts"   THEN AccountNext    ELSE UNCHANGED accountVars

OfficeSpec == OfficeInit /\ [][OfficeNext]_officeVars

\* Types of the rows and the requests of the component that moves.
RowsAreTyped ==
    CASE part = "slots"      -> TypeOK
      [] part = "invoice"    -> InvoiceTypeOK
      [] part = "schedule"   -> BillingTypeOK
      [] part = "periods"    -> PeriodsTypeOK
      [] part = "receivable" -> ReceivableTypeOK
      [] part = "merge"      -> MergeTypeOK
      [] part = "patrol"     -> PatrolTypeOK
      [] part = "templates"  -> TemplateTypeOK
      [] part = "review"     -> ReviewTypeOK
      [] part = "stages"     -> StageTypeOK
      [] part = "sap"        -> SapTypeOK
      [] part = "upkeep"     -> UpkeepTypeOK
      [] part = "stock"      -> StockTypeOK
      [] part = "parking"    -> ParkingTypeOK
      [] part = "prices"     -> PriceTypeOK
      [] part = "tree"       -> TreeTypeOK
      [] part = "accounts"   -> AccountTypeOK
=============================================================================
