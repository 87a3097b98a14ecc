------------------------------- MODULE Tenancy -------------------------------
(***************************************************************************)
(* Organizations and their memberships                                     *)
(* (api/routers/admin_organizations.py).  put_member and deactivate_member *)
(* lock the organization's row, read the memberships and commit: a change  *)
(* in flight is what holds the row.  The roles below owner are one.        *)
(***************************************************************************)
EXTENDS Integers

CONSTANTS
  Org,
  Member,  \* users who may be members
  ChangeId \* membership changes under way at a time

VARIABLES
  orgs,    \* organizations rows
  members, \* organization_memberships rows, by organization and user
  changes  \* the membership changes under way; each holds its organization's row

tenancyVars == <<orgs, members, changes>>

MemberRow == [exists : BOOLEAN, owner : BOOLEAN, active : BOOLEAN]
NoMember == [exists |-> FALSE, owner |-> FALSE, active |-> FALSE]
FirstOwner == [exists |-> TRUE, owner |-> TRUE, active |-> TRUE]

TenancyTypeOK ==
  /\ orgs \in [Org -> {"none", "enabled", "disabled"}]
  /\ members \in [Org -> [Member -> MemberRow]]
  /\ changes \subseteq [id : ChangeId, org : Org, user : Member, row : MemberRow]

TenancyInit ==
  /\ orgs = [o \in Org |-> "none"]
  /\ members = [o \in Org |-> [u \in Member |-> NoMember]]
  /\ changes = {}

Owners(o) == {u \in Member : members[o][u].owner /\ members[o][u].active}

\* create_organization makes its creator the owner.
CreateOrganization(o, u, state) ==
  /\ orgs[o] = "none"
  /\ orgs' = [orgs EXCEPT ![o] = state]
  /\ members' = [members EXCEPT ![o][u] = FirstOwner]
  /\ UNCHANGED changes

\* update_organization takes no lock of its own, but its UPDATE waits for the row.
UpdateOrganization(o, state) ==
  /\ orgs[o] # "none" /\ \A c \in changes : c.org # o
  /\ orgs' = [orgs EXCEPT ![o] = state]
  /\ UNCHANGED <<members, changes>>

\* Mutant: the row is read without FOR UPDATE.
HoldMutant(c, o, u, row) ==
  /\ orgs[o] # "none" /\ \A other \in changes : other.id # c
  /\ changes' = changes \cup {[id |-> c, org |-> o, user |-> u, row |-> row]}
  /\ UNCHANGED <<orgs, members>>

\* _organization_or_404 with lock, and what is to be committed.
Hold(c, o, u, row) ==
  /\ orgs[o] # "none" /\ \A other \in changes : other.id # c /\ other.org # o
  /\ changes' = changes \cup {[id |-> c, org |-> o, user |-> u, row |-> row]}
  /\ UNCHANGED <<orgs, members>>

\* put_member: _ensure_another_active_owner is asked for every owner's row, active or
\* not.  A new member is active whatever the request says.
PutMember(c, o, u, owner, active) ==
  /\ members[o][u].owner /\ ~(owner /\ active) => Owners(o) \ {u} # {}
  /\ Hold(c, o, u, [exists |-> TRUE, owner |-> owner,
                    active |-> active \/ ~members[o][u].exists])

\* deactivate_member
DeactivateMember(c, o, u) ==
  /\ members[o][u].exists
  /\ u \in Owners(o) => Owners(o) \ {u} # {}
  /\ Hold(c, o, u, [members[o][u] EXCEPT !.active = FALSE])

\* The commit, and a refusal or a lost connection, give the row back.
ApplyChange(c) ==
  /\ members' = [members EXCEPT ![c.org][c.user] = c.row]
  /\ changes' = changes \ {c} /\ UNCHANGED orgs

AbandonChange(c) == changes' = changes \ {c} /\ UNCHANGED <<orgs, members>>

TenancyNext ==
  \/ \E o \in Org, state \in {"enabled", "disabled"} :
       \/ \E u \in Member : CreateOrganization(o, u, state)
       \/ UpdateOrganization(o, state)
  \/ \E c \in ChangeId, o \in Org, u \in Member :
       \/ \E owner, active \in BOOLEAN : PutMember(c, o, u, owner, active)
       \/ DeactivateMember(c, o, u)
  \/ \E c \in changes : ApplyChange(c) \/ AbandonChange(c)

TenancySpec == TenancyInit /\ [][TenancyNext]_tenancyVars

\* "An organization must retain at least one active owner" (_ensure_another_active_owner):
\* it does, whatever changes of its members arrive together.
OwnerRemains == \A o \in Org : orgs[o] # "none" => Owners(o) # {}
=============================================================================
