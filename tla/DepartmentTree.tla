--------------------------- MODULE DepartmentTree ---------------------------
(***************************************************************************)
(* The departments of one mall, modules/departments, and the department a  *)
(* user belongs to, modules/users.                                         *)
(*                                                                         *)
(* A department is put under another after validateParent() walked up from *)
(* there, each department of the way read on its own; the write repeats    *)
(* nothing.  A foreign key, checked by PostgreSQL (external), keeps the    *)
(* parent of a department from being deleted.  Nothing of the kind guards  *)
(* users.department, which a deletion clears and the user service checks.  *)
(* The labels of users from before there were departments are left out.    *)
(***************************************************************************)
EXTENDS Naturals

CONSTANTS
    Departments,
    Members,     \* users
    Editors,     \* requests that can be in flight
    Root,        \* the parent of a top department; the department of nobody
    TreeApart    \* pairs of requests that are never under way together

ASSUME RootAssumption == Root \notin Departments

VARIABLES
    founded,   \* the departments that exist
    gone,      \* those that did; no id is given twice
    parent,
    member,    \* the department of each user
    editing    \* what each request is at

treeVars == <<founded, gone, parent, member, editing>>

NotEditing == [op |-> "none"]
Above == Departments \cup {Root}

\* Types of the rows and the requests.
TreeTypeOK ==
    /\ founded \subseteq Departments /\ gone \subseteq Departments \ founded
    /\ parent \in [Departments -> Above]
    /\ \A d \in Departments : d \notin founded => parent[d] = Root
    /\ member \in [Members -> Above]
    /\ \A k \in Editors : editing[k].op \in {"none", "create", "move", "assign"}

TreeInit ==
    /\ founded = {} /\ gone = {}
    /\ parent = [d \in Departments |-> Root]
    /\ member = [w \in Members |-> Root]
    /\ editing = [k \in Editors |-> NotEditing]

-----------------------------------------------------------------------------

BeginEdit(k, call) ==
    /\ editing[k] = NotEditing
    /\ \A j \in Editors : editing[j] # NotEditing => {call.op, editing[j].op} \notin TreeApart
    /\ editing' = [editing EXCEPT ![k] = call]
    /\ UNCHANGED <<founded, gone, parent, member>>

Leave(k) == editing' = [editing EXCEPT ![k] = NotEditing]

\* create() and update() with a parent: the walk starts at it.  A new
\* department cannot be met on the way.
Place(k, op, d, above) ==
    /\ IF op = "move" THEN d \in founded ELSE d \notin founded \cup gone
    /\ BeginEdit(k, [op |-> op, department |-> d, under |-> above, at |-> above, seen |-> {}])

\* Mutant of Climb: only the department itself is refused as its parent.
ClimbOnce(k) ==
    /\ editing[k].op \in {"create", "move"} /\ editing[k].at # Root
    /\ editing[k].at # editing[k].department
    /\ editing[k].at \in founded
    /\ editing' = [editing EXCEPT ![k].at = Root]
    /\ UNCHANGED <<founded, gone, parent, member>>

Climb(k) ==
    /\ editing[k].op \in {"create", "move"} /\ editing[k].at # Root
    /\ editing[k].at \notin editing[k].seen \cup {editing[k].department}
    /\ editing[k].at \in founded
    /\ editing' = [editing EXCEPT ![k].at = parent[@], ![k].seen = @ \cup {editing[k].at}]
    /\ UNCHANGED <<founded, gone, parent, member>>

\* The foreign key wants a parent that exists.
Put(k) ==
    /\ editing[k].op \in {"create", "move"} /\ editing[k].at = Root
    /\ LET d == editing[k].department
       IN  /\ IF editing[k].op = "move" THEN d \in founded ELSE d \notin founded \cup gone
           /\ editing[k].under \in founded \cup {Root}
           /\ founded' = founded \cup {d}
           /\ parent' = [parent EXCEPT ![d] = editing[k].under]
    /\ Leave(k)
    /\ UNCHANGED <<gone, member>>

\* remove(): refused while there are departments below.
Remove(d) ==
    /\ d \in founded
    /\ \A e \in founded : parent[e] # d
    /\ \A k \in Editors : editing[k] # NotEditing => {"remove", editing[k].op} \notin TreeApart
    /\ founded' = founded \ {d} /\ gone' = gone \cup {d}
    /\ parent' = [parent EXCEPT ![d] = Root]
    /\ member' = [w \in Members |-> IF member[w] = d THEN Root ELSE member[w]]
    /\ UNCHANGED editing

\* resolveDepartmentId().
AssignRead(k, w, d) ==
    /\ d \in founded \cup {Root}
    /\ BeginEdit(k, [op |-> "assign", user |-> w, department |-> d])

AssignWrite(k) ==
    /\ editing[k].op = "assign"
    /\ member' = [member EXCEPT ![editing[k].user] = editing[k].department]
    /\ Leave(k)
    /\ UNCHANGED <<founded, gone, parent>>

\* A check refused, or the database failed.
EditFails(k) ==
    /\ editing[k] # NotEditing
    /\ Leave(k)
    /\ UNCHANGED <<founded, gone, parent, member>>

TreeNext ==
    \/ \E d \in Departments : Remove(d)
    \/ \E k \in Editors :
        \/ \E op \in {"create", "move"}, d \in Departments, above \in Above : Place(k, op, d, above)
        \/ \E w \in Members, d \in Above : AssignRead(k, w, d)
        \/ Climb(k) \/ Put(k) \/ AssignWrite(k) \/ EditFails(k)

TreeSpec == TreeInit /\ [][TreeNext]_treeVars

-----------------------------------------------------------------------------
(* Properties.                                                             *)

\* Departments never stand in a circle: of any of them, one is at the top of
\* the others or under a department outside.
NoCircle ==
    \A circle \in SUBSET founded :
        circle # {} => \E d \in circle : parent[d] \notin circle

\* The tree stays a tree of departments that exist, and nobody belongs to a
\* department that is gone, whatever is created, moved, removed and assigned
\* during the walk of a request.
TreeHolds ==
    /\ NoCircle
    /\ \A d \in founded : parent[d] \in founded \cup {Root}
    /\ \A w \in Members : member[w] \in founded \cup {Root}
=============================================================================
