------------------------------ MODULE PriceBook ------------------------------
(***************************************************************************)
(* The pricing rules of one scope (a category in a mall, on a floor or in  *)
(* a zone of it), modules/categories.                                      *)
(*                                                                         *)
(* create and update look for an active rule of the scope whose dates      *)
(* overlap, and write later, with what they read then.  A change of the    *)
(* price of an active rule closes it today and makes its next version in   *)
(* one transaction.  The prices themselves, and what a scope inherits from *)
(* a wider one, are left out.                                              *)
(***************************************************************************)
EXTENDS Naturals, Sequences

CONSTANTS
    Pricers,      \* requests that can be in flight
    LastDate,     \* bound on the dates
    MaxRules,     \* bound on the rules
    PricesApart   \* pairs of requests that are never under way together

ASSUME LastDateAssumption == LastDate \in Nat \ {0}

VARIABLES
    date,
    rules,    \* the rules in the order they were made
    pricing   \* what each request has read

priceVars == <<date, rules, pricing>>

RuleDates == 1 .. LastDate
Endless == LastDate + 1
Ends == RuleDates \cup {Endless}
NotPricing == [op |-> "none"]
Rule(from, to) == [from |-> from, to |-> to, active |-> TRUE]

\* Types of the rules and the requests; no rule ends before it starts.
PriceTypeOK ==
    /\ date \in RuleDates
    /\ rules \in Seq([from : RuleDates, to : Ends, active : BOOLEAN])
    /\ \A n \in DOMAIN rules : rules[n].from <= rules[n].to
    /\ \A k \in Pricers :
        pricing[k].op = "create" \/ pricing[k].op = "update" \/ pricing[k] = NotPricing

PriceInit ==
    /\ date = 1
    /\ rules = << >>
    /\ pricing = [k \in Pricers |-> NotPricing]

-----------------------------------------------------------------------------

\* Mutant of Overlapping: a rule that starts on the last day does not count.
OverlappingInside(from, to) ==
    {n \in DOMAIN rules : rules[n].active /\ rules[n].from < to /\ from <= rules[n].to}

\* ensurePricingDoesNotOverlap(): both ends are part of a rule.
Overlapping(from, to) ==
    {n \in DOMAIN rules : rules[n].active /\ rules[n].from <= to /\ from <= rules[n].to}

BeginPricing(k, call) ==
    /\ pricing[k] = NotPricing
    /\ \A j \in Pricers : pricing[j] # NotPricing => {call.op, pricing[j].op} \notin PricesApart
    /\ pricing' = [pricing EXCEPT ![k] = call]
    /\ UNCHANGED <<date, rules>>

RuleRead(k, from, to) ==
    /\ Len(rules) < MaxRules
    /\ from <= to
    /\ Overlapping(from, to) = {}
    /\ BeginPricing(k, [op |-> "create", from |-> from, to |-> to])

RuleWrite(k) ==
    /\ pricing[k].op = "create"
    /\ rules' = Append(rules, Rule(pricing[k].from, pricing[k].to))
    /\ pricing' = [pricing EXCEPT ![k] = NotPricing]
    /\ UNCHANGED date

\* The end and the activity asked for, each of them possibly the one it has.
UpdateRead(k, n, to, active, repriced) ==
    /\ rules[n].from <= to
    /\ active => Overlapping(rules[n].from, to) \ {n} = {}
    /\ BeginPricing(k, [op |-> "update", rule |-> n, to |-> to,
                 newEnd |-> to # rules[n].to,
                 turned |-> active # rules[n].active, active |-> active,
                 version |-> rules[n].active /\ active /\ repriced])

\* A field that was not asked for is not written.
EditWrite(k) ==
    /\ pricing[k].op = "update" /\ ~pricing[k].version
    /\ LET ask == pricing[k]
       IN  rules' = [rules EXCEPT
                ![ask.rule].to = IF ask.newEnd THEN ask.to ELSE @,
                ![ask.rule].active = IF ask.turned THEN ask.active ELSE @]
    /\ pricing' = [pricing EXCEPT ![k] = NotPricing]
    /\ UNCHANGED date

LaterOf(d, e) == IF d > e THEN d ELSE e

\* The new version starts today, or with a rule that is still to come.
VersionWrite(k) ==
    /\ pricing[k].op = "update" /\ pricing[k].version
    /\ Len(rules) < MaxRules
    /\ LET n == pricing[k].rule
           start == LaterOf(date, rules[n].from)
       IN  /\ start <= pricing[k].to
           /\ rules' = Append([rules EXCEPT ![n].active = FALSE, ![n].to = start],
                              Rule(start, pricing[k].to))
    /\ pricing' = [pricing EXCEPT ![k] = NotPricing]
    /\ UNCHANGED date

\* The new version would start after its end, or the
\* database failed.
PricingFails(k) ==
    /\ pricing[k] # NotPricing
    /\ pricing' = [pricing EXCEPT ![k] = NotPricing]
    /\ UNCHANGED <<date, rules>>

\* deleteCategoryPricing().
Deactivate(n) ==
    /\ rules' = [rules EXCEPT ![n].active = FALSE]
    /\ UNCHANGED <<date, pricing>>

NextDate ==
    /\ date < LastDate /\ date' = date + 1
    /\ UNCHANGED <<rules, pricing>>

PriceNext ==
    \/ NextDate
    \/ \E n \in DOMAIN rules : Deactivate(n)
    \/ \E k \in Pricers :
        \/ \E from \in RuleDates, to \in Ends : RuleRead(k, from, to)
        \/ \E n \in DOMAIN rules, to \in Ends, active, repriced \in BOOLEAN :
            UpdateRead(k, n, to, active, repriced)
        \/ RuleWrite(k) \/ EditWrite(k) \/ VersionWrite(k) \/ PricingFails(k)

PriceSpec == PriceInit /\ [][PriceNext]_priceVars

-----------------------------------------------------------------------------
(* Properties.                                                             *)

\* A day has one price: no two active rules of a scope cover one day, though
\* rules are switched off under an edit and dated versions replace each
\* other (resolvePricing() takes whichever it finds first).
OnePriceADay ==
    \A m, n \in DOMAIN rules :
        m # n /\ rules[m].active /\ rules[n].active =>
            rules[m].to < rules[n].from \/ rules[n].to < rules[m].from
=============================================================================
