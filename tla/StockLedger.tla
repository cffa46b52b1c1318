----------------------------- MODULE StockLedger -----------------------------
(***************************************************************************)
(* The stock of modules/inventory and the journal of its movements.        *)
(*                                                                         *)
(* createTransaction() reads an item, computes its new stock, writes it    *)
(* and appends the movement in one Serializable transaction: PostgreSQL,   *)
(* which is external, aborts a transaction that writes a row another one   *)
(* changed since it was read, and nothing retries it.  Edits of an item    *)
(* can switch it off but never write its stock.  Costs are left out.       *)
(***************************************************************************)
EXTENDS Integers, Sequences

CONSTANTS
    Items,
    Keepers,       \* transactions that can be open
    Quantities,    \* a quantity is positive, also that of a count
    MaxMovements   \* bound on the movements of an item

ASSUME QuantitiesAssumption == Quantities \subseteq Nat \ {0}

VARIABLES
    stock,     \* currentStock of each item
    inUse,     \* the items that are active
    journal,   \* the movements of each item, in the order they were committed
    open       \* what each transaction has read

stockVars == <<stock, inUse, journal, open>>

MovementTypes == {"IN", "OUT", "RETURN", "ADJUST"}
NotOpen == [item |-> "none"]
Movements == [type : MovementTypes, quantity : Quantities, before : Nat, after : Nat]

\* Types of the rows and the open transactions.
StockTypeOK ==
    /\ stock \in [Items -> Nat]
    /\ inUse \in SUBSET Items
    /\ journal \in [Items -> Seq(Movements)]
    /\ \A k \in Keepers :
        open[k] = NotOpen \/ open[k] \in [item : Items, move : Movements, stale : BOOLEAN]

StockInit ==
    /\ stock = [i \in Items |-> 0]
    /\ inUse = Items
    /\ journal = [i \in Items |-> << >>]
    /\ open = [k \in Keepers |-> NotOpen]

-----------------------------------------------------------------------------

StockAfter(type, before, quantity) ==
    CASE type \in {"IN", "RETURN"} -> before + quantity
      [] type = "OUT" -> before - quantity
      [] OTHER -> quantity

ReadStock(k, i, type, quantity) ==
    /\ open[k] = NotOpen
    /\ i \in inUse
    /\ Len(journal[i]) < MaxMovements
    /\ StockAfter(type, stock[i], quantity) >= 0
    /\ open' = [open EXCEPT ![k] =
            [item |-> i, stale |-> FALSE,
             move |-> [type |-> type, quantity |-> quantity, before |-> stock[i],
                       after |-> StockAfter(type, stock[i], quantity)]]]
    /\ UNCHANGED <<stock, inUse, journal>>

\* Transactions that have read the item can no longer write it.
Changed(i) == [k \in Keepers |->
    IF open[k] # NotOpen /\ open[k].item = i
    THEN [open[k] EXCEPT !.stale = TRUE] ELSE open[k]]

\* Mutant of MoveStock: the isolation level of the transaction is left out.
MoveStockReadCommitted(k) ==
    /\ open[k] # NotOpen
    /\ LET i == open[k].item
       IN  /\ stock' = [stock EXCEPT ![i] = open[k].move.after]
           /\ journal' = [journal EXCEPT ![i] = Append(@, open[k].move)]
           /\ open' = [Changed(i) EXCEPT ![k] = NotOpen]
    /\ UNCHANGED inUse

MoveStock(k) ==
    /\ open[k] # NotOpen /\ ~open[k].stale
    /\ LET i == open[k].item
       IN  /\ stock' = [stock EXCEPT ![i] = open[k].move.after]
           /\ journal' = [journal EXCEPT ![i] = Append(@, open[k].move)]
           /\ open' = [Changed(i) EXCEPT ![k] = NotOpen]
    /\ UNCHANGED inUse

\* A serialization failure, or any other.
Rollback(k) ==
    /\ open[k] # NotOpen
    /\ open' = [open EXCEPT ![k] = NotOpen]
    /\ UNCHANGED <<stock, inUse, journal>>

UpdateItem(i, use) ==
    /\ inUse' = IF use THEN inUse \cup {i} ELSE inUse \ {i}
    /\ open' = Changed(i)
    /\ UNCHANGED <<stock, journal>>

StockNext ==
    \/ \E k \in Keepers, i \in Items, type \in MovementTypes, n \in Quantities :
        ReadStock(k, i, type, n)
    \/ \E k \in Keepers : MoveStock(k) \/ Rollback(k)
    \/ \E i \in Items, use \in BOOLEAN : UpdateItem(i, use)

StockSpec == StockInit /\ [][StockNext]_stockVars

-----------------------------------------------------------------------------
(* Properties.                                                             *)

LastAfter(i) == IF journal[i] = << >> THEN 0 ELSE journal[i][Len(journal[i])].after

\* The journal explains the stock: each movement starts from what the one
\* before it left, and the stock is what the last one left, however many
\* keepers post movements of one item at once.
StockIsTheJournal ==
    \A i \in Items :
        /\ stock[i] = LastAfter(i)
        /\ \A n \in 1 .. Len(journal[i]) :
            journal[i][n].before = IF n = 1 THEN 0 ELSE journal[i][n - 1].after
=============================================================================
