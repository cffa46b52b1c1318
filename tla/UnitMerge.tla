------------------------------ MODULE UnitMerge ------------------------------
(***************************************************************************)
(* Units merged into one and split again (mergeUnits(), splitUnit() and    *)
(* deleteUnit() of modules/spaces), while the leasing modules move the     *)
(* units that are in use through UnitStatus.                               *)
(*                                                                         *)
(* A merge, a split and a transition read the units first and write in a   *)
(* transaction that does not look again.  What a transition asks of        *)
(* bookings and contracts belongs to the modules that hold them: here any  *)
(* transition the matrix allows may be asked for.  Areas, prices, history  *)
(* and the hierarchy of a mall are left out.                               *)
(***************************************************************************)
EXTENDS UnitStatus, Naturals, FiniteSets

CONSTANTS
    Parts,      \* the units a floor was divided into at first
    Combined,   \* ids a merge may give
    Clerks,     \* requests that can be in flight
    Lettings,   \* the statuses the leasing modules move units to
    OddSplits,  \* splits the code accepts of units that are not VACANT and
                \* active: "merged" into another one, "retired" by a split or
                \* a deletion, "wanted" by a booking or a proposal
    MergeApart  \* pairs of operations that are never under way together

ASSUME UnitsAssumption == Parts \cap Combined = {} /\ IsFiniteSet(Combined)
ASSUME LettingsAssumption == Lettings \subseteq UnitStatuses
ASSUME OddSplitsAssumption == OddSplits \subseteq {"merged", "retired", "wanted"}

VARIABLES
    unit,    \* the row of each unit: status, isActive and what it was made of
    errand   \* what each request in flight has read

mergeVars == <<unit, errand>>

Units == Parts \cup Combined
NoErrand == [op |-> "none"]
Missing == [status |-> "VACANT", active |-> FALSE, made |-> {}]

\* Is there such a row?  A combined unit is made of others from the start.
IsRow(u) == u \in Parts \/ unit[u].made # {}

\* The parts a unit stands on; merges can nest, each at least twice as large.
PartsOf(u) ==
    LET under[n \in 0 .. Cardinality(Combined)] ==
            [v \in Units |-> IF v \in Parts \/ n = 0 THEN {v} \cap Parts
                             ELSE UNION {under[n - 1][w] : w \in unit[v].made}]
    IN  under[Cardinality(Combined)][u]

\* Types; no unit is made of itself.
MergeTypeOK ==
    /\ unit \in [Units -> [status : UnitStatuses, active : BOOLEAN, made : SUBSET Units]]
    /\ \A p \in Parts : unit[p].made = {}
    /\ \A c \in Combined : c \notin unit[c].made
    /\ \A k \in Clerks : errand[k].op \in {"none", "merge", "split", "lease"}

MergeInit ==
    /\ unit = [u \in Units |-> [Missing EXCEPT !.active = u \in Parts]]
    /\ errand = [k \in Clerks |-> NoErrand]

-----------------------------------------------------------------------------

MayBegin(k, op) ==
    /\ errand[k] = NoErrand
    /\ \A j \in Clerks : errand[j].op # "none" => {op, errand[j].op} \notin MergeApart

Done(k) == errand' = [errand EXCEPT ![k] = NoErrand]

MergeRead(k, us) ==
    /\ MayBegin(k, "merge")
    /\ Cardinality(us) >= 2
    /\ \A u \in us : unit[u].active /\ unit[u].status = "VACANT"
    /\ errand' = [errand EXCEPT ![k] = [op |-> "merge", us |-> us]]
    /\ UNCHANGED unit

MergeWrite(k, c) ==
    /\ errand[k].op = "merge" /\ ~IsRow(c)
    /\ unit' = [u \in Units |->
                  IF u = c THEN [status |-> "VACANT", active |-> TRUE, made |-> errand[k].us]
                  ELSE IF u \in errand[k].us THEN [unit[u] EXCEPT !.status = "MERGED"]
                  ELSE unit[u]]
    /\ Done(k)

SplitRead(k, c) ==
    /\ MayBegin(k, "split")
    /\ c \in Combined /\ unit[c].made # {}
    /\ unit[c].status \notin CommittedStatuses
    /\ unit[c].status = "MERGED" => "merged" \in OddSplits
    /\ unit[c].status \in {"BOOKING", "NEGOTIATING"} => "wanted" \in OddSplits
    /\ ~unit[c].active => "retired" \in OddSplits
    /\ errand' = [errand EXCEPT ![k] = [op |-> "split", c |-> c]]
    /\ UNCHANGED unit

\* Mutant of SplitWrite: the combined unit stays on the market.
SplitWriteKeeping(k) ==
    /\ errand[k].op = "split"
    /\ unit' = [u \in Units |->
                  IF u \in unit[errand[k].c].made
                  THEN [unit[u] EXCEPT !.status = "VACANT", !.active = TRUE]
                  ELSE unit[u]]
    /\ Done(k)

SplitWrite(k) ==
    /\ errand[k].op = "split"
    /\ unit' = [u \in Units |->
                  IF u \in unit[errand[k].c].made
                  THEN [unit[u] EXCEPT !.status = "VACANT", !.active = TRUE]
                  ELSE IF u = errand[k].c THEN [unit[u] EXCEPT !.active = FALSE]
                  ELSE unit[u]]
    /\ Done(k)

\* The transitions of the leasing modules; a status a unit has already is
\* written again.  Only the first of them, made by a booking or a proposal,
\* looks at isActive.
LeaseRead(k, u, to) ==
    /\ MayBegin(k, "lease")
    /\ IsRow(u) /\ CanTransition(unit[u].status, to)
    /\ unit[u].status = "VACANT" /\ to # "VACANT" => unit[u].active
    /\ errand' = [errand EXCEPT ![k] = [op |-> "lease", u |-> u, to |-> to]]
    /\ UNCHANGED unit

LeaseWrite(k) ==
    /\ errand[k].op = "lease"
    /\ unit' = [unit EXCEPT ![errand[k].u].status = errand[k].to]
    /\ Done(k)

\* deleteUnit() of a unit without live bookings, contracts and proposals,
\* which a unit that is VACANT or MERGED has not.
DeleteUnit(u) ==
    /\ IsRow(u) /\ unit[u].status \in {"VACANT", "MERGED"}
    /\ unit' = [unit EXCEPT ![u].active = FALSE]
    /\ UNCHANGED errand

MergeNext ==
    \/ \E k \in Clerks :
        \/ \E us \in SUBSET Units : MergeRead(k, us)
        \/ \E c \in Combined : MergeWrite(k, c) \/ SplitRead(k, c)
        \/ SplitWrite(k)
        \/ \E u \in Units, to \in Lettings : LeaseRead(k, u, to)
        \/ LeaseWrite(k)
    \/ \E u \in Units : DeleteUnit(u)

MergeSpec == MergeInit /\ [][MergeNext]_mergeVars

-----------------------------------------------------------------------------
(* Properties.                                                             *)

\* A unit that can be booked, or is let.
OnMarket(u) ==
    /\ IsRow(u)
    /\ \/ unit[u].active /\ unit[u].status # "MERGED"
       \/ unit[u].status \in CommittedStatuses

\* The same floor space is never on the market twice: of the units that can
\* be booked or are let, no two stand on a common part, whatever was merged,
\* merged again, split, let and deleted before.
PartsLetOnce ==
    LET parts == [u \in Units |-> PartsOf(u)]
    IN  \A u, v \in Units :
            u # v /\ OnMarket(u) /\ OnMarket(v) => parts[u] \cap parts[v] = {}
=============================================================================
