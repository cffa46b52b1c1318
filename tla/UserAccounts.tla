---------------------------- MODULE UserAccounts ----------------------------
(***************************************************************************)
(* The accounts of modules/users and who among them is an administrator.   *)
(*                                                                         *)
(* Only an active administrator changes accounts.  A change that takes an  *)
(* administrator away counts the others first, in a query of its own, and  *)
(* writes later the fields it was asked to write, also to an account that  *)
(* was deleted meanwhile.  Passwords, tenants and the malls of a user are  *)
(* left out; for departments see DepartmentTree.                           *)
(***************************************************************************)
CONSTANTS
    Accounts,
    Sessions,      \* requests that can be in flight
    AccountsApart  \* pairs of requests that are never under way together

VARIABLES
    made,      \* the accounts that were created
    usable,    \* those with isActive
    deleted,   \* those with deletedAt
    admins,    \* those with the role ADMIN
    session    \* what each request has read

accountVars == <<made, usable, deleted, admins, session>>

NoSession == [op |-> "none"]
Existing == made \ deleted
ActiveAdmins == (admins \cap usable) \ deleted

\* Types of the rows and the requests.
AccountTypeOK ==
    /\ made \subseteq Accounts
    /\ usable \subseteq made /\ deleted \subseteq made /\ admins \subseteq made
    /\ \A k \in Sessions :
        session[k].op \in {"none", "lock", "demote", "remove", "unlock", "promote", "create"}

\* The seed makes one administrator.
AccountInit ==
    /\ \E first \in Accounts : made = {first}
    /\ usable = made /\ admins = made /\ deleted = {}
    /\ session = [k \in Sessions |-> NoSession]

-----------------------------------------------------------------------------

\* The token of a request is good while its user is active.
MayOpen(k, actor, op) ==
    /\ actor \in admins \cap usable
    /\ session[k] = NoSession
    /\ \A j \in Sessions : session[j] # NoSession => {op, session[j].op} \notin AccountsApart

Open(k, op, u) ==
    /\ session' = [session EXCEPT ![k] = [op |-> op, user |-> u]]
    /\ UNCHANGED <<made, usable, deleted, admins>>

\* Mutant of OtherAdmins: administrators that are locked count.
OtherAdminsEver(u) == (admins \ deleted) \ {u}

\* ensureAnotherActiveAdmin().
OtherAdmins(u) == ActiveAdmins \ {u}

\* update() with isActive false or another role: nobody locks himself.
TakeRead(k, actor, op, u) ==
    /\ MayOpen(k, actor, op)
    /\ u \in Existing
    /\ op = "lock" => u # actor
    /\ u \in admins => OtherAdmins(u) # {}
    /\ Open(k, op, u)

RemoveRead(k, actor, u) ==
    /\ MayOpen(k, actor, "remove")
    /\ u \in Existing /\ u # actor
    /\ u \in admins \cap usable => OtherAdmins(u) # {}
    /\ Open(k, "remove", u)

\* update() with isActive true or the role ADMIN.
GiveRead(k, actor, op, u) ==
    /\ MayOpen(k, actor, op)
    /\ u \in Existing
    /\ Open(k, op, u)

CreateAccountRead(k, actor, u) ==
    /\ MayOpen(k, actor, "create")
    /\ u \notin made
    /\ Open(k, "create", u)

ChangeWrite(k) ==
    LET u == session[k].user
        op == session[k].op
    IN  /\ op \notin {"none", "create"}
        /\ usable' = CASE op \in {"lock", "remove"} -> usable \ {u}
                       [] op = "unlock" -> usable \cup {u}
                       [] OTHER -> usable
        /\ admins' = CASE op = "promote" -> admins \cup {u}
                       [] op = "demote" -> admins \ {u}
                       [] OTHER -> admins
        /\ deleted' = IF op = "remove" THEN deleted \cup {u} ELSE deleted
        /\ session' = [session EXCEPT ![k] = NoSession]
        /\ UNCHANGED made

\* The email is unique.
CreateAccountWrite(k) ==
    /\ session[k].op = "create" /\ session[k].user \notin made
    /\ LET new == {session[k].user}
       IN  /\ made' = made \cup new /\ usable' = usable \cup new
           /\ admins' \in {admins, admins \cup new}
    /\ session' = [session EXCEPT ![k] = NoSession]
    /\ UNCHANGED deleted

SessionFails(k) ==
    /\ session[k] # NoSession
    /\ session' = [session EXCEPT ![k] = NoSession]
    /\ UNCHANGED <<made, usable, deleted, admins>>

AccountNext ==
    \E k \in Sessions :
        \/ \E actor, u \in Accounts :
            \/ \E op \in {"lock", "demote"} : TakeRead(k, actor, op, u)
            \/ \E op \in {"unlock", "promote"} : GiveRead(k, actor, op, u)
            \/ RemoveRead(k, actor, u)
            \/ CreateAccountRead(k, actor, u)
        \/ ChangeWrite(k) \/ CreateAccountWrite(k) \/ SessionFails(k)

AccountSpec == AccountInit /\ [][AccountNext]_accountVars

-----------------------------------------------------------------------------
(* Properties.                                                             *)

\* At least one active administrator remains (ensureAnotherActiveAdmin()),
\* though accounts are unlocked, promoted and made between the count and the
\* write of a change that takes one away; and who is deleted is not active.
AccountsHold ==
    /\ ActiveAdmins # {}
    /\ deleted \cap usable = {}
=============================================================================
