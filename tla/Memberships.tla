---------------------------- MODULE Memberships ----------------------------
(***************************************************************************)
(* Who may do what in a restaurant: the users, their memberships, the      *)
(* roles, the check at the start of every request (api/deps.py) and the    *)
(* requests that change memberships (endpoints/restaurants.py).            *)
(*                                                                         *)
(* A request is served by a process p and moves through pc[p]:             *)
(*   "register"  its user has no row yet and is about to get one           *)
(*   "member"    its membership is about to be read                        *)
(*   "handler"   it is authorised and its handler is about to read         *)
(*   "commit"    its handler has read and is about to write                *)
(* Each step is one statement of the request or its commit; the database   *)
(* holds no lock between them.  The model follows one restaurant.          *)
(***************************************************************************)
EXTENDS Naturals, Sequences, FiniteSets

CONSTANTS
    Procs,        \* processes that serve requests
    Users,        \* people who sign in
    Founder,      \* the one of them who creates the restaurant
    Nobody,       \* no membership row
    NoRequest     \* what an idle process serves

ASSUME FounderAssumption == Founder \in Users

ASSUME ProcsAssumption == IsFiniteSet(Procs)

VARIABLES
    users,        \* users with a row
    members,      \* members[u]: the row of u, or Nobody
    pc, req       \* where each process is, and what its request knows

accessVars == <<users, members, pc, req>>

Roles == {"owner", "manager", "chef"}

\* A row of restaurant_memberships.
Row == [role : Roles, active : BOOLEAN]

ASSUME NobodyAssumption == Nobody \notin Row

Operational ==
    {"manage_products", "manage_suppliers", "manage_stock", "manage_haccp",
     "manage_equipment", "manage_purchase_lists", "export_haccp_pdf",
     "resolve_operational_alerts"}

Managerial == {"view_costs", "export_financial_reports", "resolve_critical_alerts"}

OwnerOnly == {"manage_members", "edit_restaurant", "view_billing",
              "configure_alerts", "soft_delete", "manage_pos_integrations"}

ROLE_PERMISSIONS ==
    [owner |-> Operational \cup Managerial \cup OwnerOnly,
     manager |-> Operational \cup Managerial,
     chef |-> Operational]

\* Mutant: a manager manages the other members too.
ManagersManage(role, permission) ==
    permission \in ROLE_PERMISSIONS[role]
                     \cup (IF role = "manager" THEN {"manage_members"} ELSE {})

has_permission(role, permission) == permission \in ROLE_PERMISSIONS[role]

\* The permission each endpoint asks for.
Needs ==
    [invite |-> "manage_members", role |-> "manage_members",
     remove |-> "manage_members", reseed |-> "edit_restaurant",
     create_template |-> "manage_haccp", update_template |-> "manage_haccp",
     set_active |-> "manage_haccp", delete_template |-> "soft_delete",
     create_item |-> "manage_haccp", start |-> "manage_haccp",
     answer |-> "manage_haccp", complete |-> "manage_haccp",
     log |-> "manage_haccp", create_equipment |-> "manage_equipment",
     update_equipment |-> "manage_equipment", delete_equipment |-> "soft_delete"]

Kinds == DOMAIN Needs \cup {"create"}

----------------------------------------------------------------------------
\* The start and the end of a request.

AccessInit ==
    /\ users = {}
    /\ members = [u \in Users |-> Nobody]
    /\ pc = [p \in Procs |-> "idle"]
    /\ req = [p \in Procs |-> NoRequest]

Go(p, step) == pc' = [pc EXCEPT ![p] = step]

End(p) ==
    /\ Go(p, "idle")
    /\ req' = [req EXCEPT ![p] = NoRequest]

\* What the handler of p has read, kept until it commits.
Keep(p, on, seen) ==
    /\ req' = [req EXCEPT ![p].on = on, ![p].seen = seen]
    /\ Go(p, "commit")

At(p, step, kind) == pc[p] = step /\ req[p].kind = kind

\* A row is written back column by column: those set to something else than
\* what was read.
Written(row, seen, new) ==
    [c \in DOMAIN row |-> IF new[c] # seen[c] THEN new[c] ELSE row[c]]

\* Creating a restaurant asks for no membership.
AfterSignIn(kind) == IF kind = "create" THEN "handler" ELSE "member"

\* The bearer token names the user; their row is looked up.
SignIn(p, u, kind) ==
    /\ pc[p] = "idle"
    /\ req' = [req EXCEPT ![p] = [user |-> u, kind |-> kind, on |-> 0, seen |-> 0]]
    /\ Go(p, IF u \in users THEN AfterSignIn(kind) ELSE "register")
    /\ UNCHANGED <<users, members>>

\* A first request inserts the row; two at once meet the primary key.
Register(p) ==
    /\ pc[p] = "register"
    /\ UNCHANGED members
    /\ \/ /\ req[p].user \notin users
          /\ users' = users \cup {req[p].user}
          /\ Go(p, AfterSignIn(req[p].kind))
          /\ UNCHANGED req
       \/ /\ req[p].user \in users
          /\ End(p)
          /\ UNCHANGED users

Active(u) == members[u] # Nobody /\ members[u].active

\* The membership is read once; the role it had then decides.
Authorise(p) ==
    /\ pc[p] = "member"
    /\ LET u == req[p].user
       IN IF Active(u) /\ has_permission(members[u].role, Needs[req[p].kind])
          THEN /\ Go(p, "handler")
               /\ req' = [req EXCEPT ![p].seen = members[u]]
          ELSE End(p)
    /\ UNCHANGED <<users, members>>

\* The process is stopped, or its client leaves: nothing was committed.
Die(p) ==
    /\ pc[p] # "idle"
    /\ End(p)
    /\ UNCHANGED <<users, members>>

----------------------------------------------------------------------------
\* Membership requests.

Found(p) ==
    /\ At(p, "handler", "create")
    /\ \A u \in Users : members[u] = Nobody
    /\ members' = [members EXCEPT ![req[p].user] = [role |-> "owner", active |-> TRUE]]
    /\ End(p)
    /\ UNCHANGED users

\* The row a handler gets for u: the session already holds the caller's own,
\* as it was read when the request was authorised.
RowRead(p, u) == IF u = req[p].user THEN req[p].seen ELSE members[u]

\* Mutant: somebody without an account is invited all the same.
InviteStrangers(p) ==
    /\ At(p, "handler", "invite")
    /\ \E u \in Users, role \in Roles :
          IF role # "owner"
          THEN Keep(p, u, [role |-> role, row |-> RowRead(p, u)])
          ELSE End(p)
    /\ UNCHANGED <<users, members>>

\* The invited user and their row, the caller's own included.
ReadInvited(p) ==
    /\ At(p, "handler", "invite")
    /\ \E u \in Users, role \in Roles :
          IF role # "owner" /\ u \in users
          THEN Keep(p, u, [role |-> role, row |-> RowRead(p, u)])
          ELSE End(p)
    /\ UNCHANGED <<users, members>>

\* A fresh row is inserted, guarded by UNIQUE(restaurant_id, user_id); an
\* existing one is written back.
CommitInvited(p) ==
    /\ At(p, "commit", "invite")
    /\ LET u == req[p].on
           row == req[p].seen.row
           new == [role |-> req[p].seen.role, active |-> TRUE]
       IN \/ /\ row = Nobody /\ members[u] = Nobody
             /\ members' = [members EXCEPT ![u] = new]
          \/ /\ row = Nobody /\ members[u] # Nobody
             /\ UNCHANGED members
          \/ /\ row # Nobody
             /\ members' = [members EXCEPT ![u] = Written(@, row, new)]
    /\ End(p)
    /\ UNCHANGED users

\* Both refuse an owner's row.
ReadMember(p) ==
    /\ \/ At(p, "handler", "role")
       \/ At(p, "handler", "remove")
    /\ \E u \in Users :
          LET row == RowRead(p, u)
          IN IF row # Nobody /\ row.role # "owner"
             THEN Keep(p, u, row)
             ELSE End(p)
    /\ UNCHANGED <<users, members>>

\* Mutant: the whole row is written back, not the column that changed.
UpdateRoleWholeRow(p) ==
    /\ At(p, "commit", "role")
    /\ \E role \in Roles \ {"owner"} :
          members' = [members EXCEPT ![req[p].on] = [req[p].seen EXCEPT !.role = role]]
    /\ End(p)
    /\ UNCHANGED users

UpdateRole(p) ==
    /\ At(p, "commit", "role")
    /\ \E role \in Roles \ {"owner"} :
          members' = [members EXCEPT ![req[p].on] =
                        Written(@, req[p].seen, [req[p].seen EXCEPT !.role = role])]
    /\ End(p)
    /\ UNCHANGED users

RemoveMember(p) ==
    /\ At(p, "commit", "remove")
    /\ members' = [members EXCEPT ![req[p].on] =
                     Written(@, req[p].seen, [req[p].seen EXCEPT !.active = FALSE])]
    /\ End(p)
    /\ UNCHANGED users

MemberStep(p) ==
    \/ ReadInvited(p) \/ CommitInvited(p)
    \/ ReadMember(p) \/ UpdateRole(p) \/ RemoveMember(p)
=============================================================================
