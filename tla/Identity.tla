------------------------------- MODULE Identity -------------------------------
(***************************************************************************)
(* Accounts and login sessions: enrolment of the first administrator       *)
(* (services/bootstrap_service.py), login, change of password and the      *)
(* check of a token (services/auth_service.py, api/deps.py), logout        *)
(* (api/routers/auth.py) and what administrators do to accounts            *)
(* (api/routers/admin_users.py).                                           *)
(*                                                                         *)
(* A request reads the rows, decides, and commits the columns it changed.  *)
(* Nothing locks a user's row in between, so a request is two steps, Begin *)
(* and Commit; only the enrolment of the first administrator holds a lock. *)
(***************************************************************************)
EXTENDS Integers, FiniteSets, Sequences

CONSTANTS
  User,
  Request,       \* requests under way at a time
  Asked,         \* bound: the kinds of request there are
  MaxTokens,     \* bound: login sessions issued
  MaxRevocations \* bound: revocations of all sessions of a user

\* revoke: revoke_user_sessions, and patch_admin_user with another username.  suspend:
\* patch_admin_user.  deactivate: activate_user and delete_admin_user.
Revoking == {"reset", "revoke", "deactivate", "suspend", "password"}
Removing == {"deactivate", "suspend", "demote"}
AdminKind == {"reset", "revoke", "deactivate", "suspend", "activate", "promote", "demote"}
RequestKind == AdminKind \cup {"login", "password", "enrol", "create"}

ASSUME IdentityBounds == Asked \subseteq RequestKind /\ MaxTokens \in Nat \ {0} /\ MaxRevocations \in Nat

VARIABLES
  users,     \* users rows
  tokens,    \* auth_sessions rows, with the claims of the token issued for each
  requests,  \* the requests under way, with what they have read
  revoked,   \* history: how often all sessions of a user were revoked
  overlapped \* history: users with crossing revocations; whether removals of admins crossed

identityVars == <<users, tokens, requests, revoked, overlapped>>

TokenVersion == 1..(MaxRevocations + 1)
UserRow == [exists : BOOLEAN, active : BOOLEAN, admin : BOOLEAN, force : BOOLEAN,
            version : TokenVersion]
NoUser == [exists |-> FALSE, active |-> FALSE, admin |-> FALSE, force |-> FALSE, version |-> 1]

\* live: neither revoked nor expired.  asOf is history: the revocations of the user's
\* sessions that were done when the password was verified.
TokenRow == [user : User, ver : TokenVersion, live : BOOLEAN, asOf : 0..MaxRevocations]

IdentityTypeOK ==
  /\ users \in [User -> UserRow]
  /\ tokens \in Seq(TokenRow) /\ Len(tokens) <= MaxTokens
  /\ \A q \in requests :
       /\ q.id \in Request /\ q.kind \in RequestKind /\ q.on \in User
       /\ q.then \in UserRow /\ q.asOf \in 0..MaxRevocations /\ q.rows \subseteq 1..MaxTokens
  /\ revoked \in [User -> 0..MaxRevocations]
  /\ overlapped.sessions \subseteq User /\ overlapped.admins \in BOOLEAN

IdentityInit ==
  /\ users = [u \in User |-> NoUser]
  /\ tokens = <<>> /\ requests = {}
  /\ revoked = [u \in User |-> 0]
  /\ overlapped = [sessions |-> {}, admins |-> FALSE]

-----------------------------------------------------------------------------
(* What a token opens: get_user_from_token, get_current_user, require_role. *)

Accepted(t) ==
  LET user == users[tokens[t].user] IN
  user.active /\ tokens[t].ver = user.version /\ tokens[t].live

SignedIn(u) == \E t \in DOMAIN tokens : tokens[t].user = u /\ Accepted(t)
Acting(u) == SignedIn(u) /\ ~users[u].force /\ users[u].admin

ActiveAdmins == {u \in User : users[u].active /\ users[u].admin}

-----------------------------------------------------------------------------
(* A request's guards and reads.                                           *)

\* Mutant: a demotion does not count as removing an administrator.
UnprotectedMutant(kind, u) ==
  kind \in Removing \ {"demote"} => ActiveAdmins \ {u} # {} \/ u \notin ActiveAdmins

\* _protect_last_platform_admin
Unprotected(kind, u) ==
  kind \in Removing => ActiveAdmins \ {u} # {} \/ u \notin ActiveAdmins

\* Mutant: the role row is not locked.
EnrolmentFreeMutant == TRUE

\* The lock on the Admin role's row.
EnrolmentFree == \A q \in requests : q.kind # "enrol"

Allowed(kind, u) ==
  \/ kind = "login" /\ users[u].exists /\ users[u].active
  \/ kind = "password" /\ SignedIn(u)
  \/ kind = "enrol" /\ EnrolmentFree /\ ActiveAdmins = {} /\ ~users[u].exists
  \/ kind = "create" /\ ~users[u].exists /\ \E a \in User : Acting(a)
  \/ /\ kind \in AdminKind /\ users[u].exists /\ Unprotected(kind, u)
     /\ \E a \in User : Acting(a) /\ (kind \in {"deactivate", "suspend"} => a # u)

Issuing(kind) == kind \in {"login", "password", "enrol"}
PendingOn(kinds, u) == {q \in requests : q.kind \in kinds /\ q.on = u}
Pending(kinds) == {q \in requests : q.kind \in kinds}

\* Within the bounds: a token and a revocation is left for it.
Room(kind, u) ==
  /\ Issuing(kind) =>
       Len(tokens) + Cardinality({q \in requests : Issuing(q.kind)}) < MaxTokens
  /\ kind \in Revoking => revoked[u] + Cardinality(PendingOn(Revoking, u)) < MaxRevocations

Begin(id, kind, u) ==
  /\ \A q \in requests : q.id # id
  /\ Allowed(kind, u) /\ Room(kind, u)
  /\ requests' = requests \cup
       {[id |-> id, kind |-> kind, on |-> u, then |-> users[u], asOf |-> revoked[u],
         rows |-> {t \in DOMAIN tokens : tokens[t].user = u /\ tokens[t].live}]}
  /\ overlapped' =
       [sessions |-> IF kind \in Revoking /\ PendingOn(Revoking, u) # {}
                     THEN overlapped.sessions \cup {u} ELSE overlapped.sessions,
        admins |-> overlapped.admins \/ (kind \in Removing /\ Pending(Removing) # {})]
  /\ UNCHANGED <<users, tokens, revoked>>

-----------------------------------------------------------------------------
(* What a request commits.                                                 *)

\* revoke_all_sessions is called: patch_admin_user calls it on a change only.
Revokes(q) == q.kind \in Revoking /\ (q.kind = "suspend" => q.then.active)

\* Mutant: revoke_all_sessions leaves the token version alone.
OutcomeMutant(q) ==
  [exists |-> TRUE,
   active |-> IF q.kind \in {"deactivate", "suspend"} THEN FALSE
              ELSE q.kind \in {"activate", "enrol", "create"} \/ q.then.active,
   admin |-> IF q.kind = "demote" THEN FALSE ELSE q.kind \in {"promote", "enrol"} \/ q.then.admin,
   force |-> IF q.kind = "password" THEN FALSE ELSE q.kind \in {"reset", "create"} \/ q.then.force,
   version |-> q.then.version]

\* Mutant: every change of the row advances the version, beyond the revocations there were.
OutcomeAdvancingMutant(q) ==
  [OutcomeMutant(q) EXCEPT !.version = @ + 1]

\* The row as the request leaves it in memory.
Outcome(q) ==
  [exists |-> TRUE,
   active |-> IF q.kind \in {"deactivate", "suspend"} THEN FALSE
              ELSE q.kind \in {"activate", "enrol", "create"} \/ q.then.active,
   admin |-> IF q.kind = "demote" THEN FALSE ELSE q.kind \in {"promote", "enrol"} \/ q.then.admin,
   force |-> IF q.kind = "password" THEN FALSE ELSE q.kind \in {"reset", "create"} \/ q.then.force,
   version |-> IF Revokes(q) THEN q.then.version + 1 ELSE q.then.version]

\* The UPDATE names the columns whose value differs from the one read.
Merged(q) ==
  LET after == Outcome(q) IN
  [column \in DOMAIN after |-> IF after[column] # q.then[column] THEN after[column]
                               ELSE users[q.on][column]]

\* The sessions it read are revoked.  A token it issues has the version it left.
RowsAfter(q) ==
  LET rest == [t \in DOMAIN tokens |->
                 [tokens[t] EXCEPT !.live = @ /\ ~(Revokes(q) /\ t \in q.rows)]]
      asOf == IF Revokes(q) THEN revoked[q.on] + 1 ELSE q.asOf
  IN IF Issuing(q.kind)
     THEN Append(rest, [user |-> q.on, ver |-> Outcome(q).version, live |-> TRUE, asOf |-> asOf])
     ELSE rest

Commit(q) ==
  /\ users' = [users EXCEPT ![q.on] = Merged(q)]
  /\ tokens' = RowsAfter(q)
  /\ revoked' = [revoked EXCEPT ![q.on] = IF Revokes(q) THEN @ + 1 ELSE @]
  /\ requests' = requests \ {q}
  /\ UNCHANGED overlapped

\* The name was taken meanwhile: the unique constraint refuses the insert.
Conflict(q) == q.kind \in {"create", "enrol"} /\ users[q.on].exists

\* It is refused after its reads, or its process or connection dies.
Abandon(q) == requests' = requests \ {q} /\ UNCHANGED <<users, tokens, revoked, overlapped>>

\* logout, remove_session, or the end of its lifetime.
EndToken(t) ==
  /\ tokens[t].live /\ tokens' = [tokens EXCEPT ![t].live = FALSE]
  /\ UNCHANGED <<users, requests, revoked, overlapped>>

IdentityNext ==
  \/ \E id \in Request, kind \in Asked, u \in User : Begin(id, kind, u)
  \/ \E q \in requests : ~Conflict(q) /\ Commit(q)
  \/ \E q \in requests : Abandon(q)
  \/ \E t \in DOMAIN tokens : EndToken(t)

IdentitySpec == IdentityInit /\ [][IdentityNext]_identityVars

-----------------------------------------------------------------------------

\* "increments token_version and revokes every active session for that user"
\* (docs/security/identity-lifecycle.md): no token is accepted whose password was
\* verified before the latest revocation, login and change of password in flight
\* included.  Two revocations of one user that cross may lower the version again.
RevocationReachesOld ==
  \A t \in DOMAIN tokens :
    Accepted(t) => \/ tokens[t].asOf = revoked[tokens[t].user]
                   \/ tokens[t].user \in overlapped.sessions

\* "Cannot remove the last active platform administrator": the platform keeps one,
\* whatever sequence of handlers runs, unless two removals cross.
AdminRemains == (\E u \in User : users[u].exists) => ActiveAdmins # {} \/ overlapped.admins

\* "Administrator enrollment is already complete": an account is enrolled only when no
\* administrator is active, however many enrolments arrive together.
EnrolmentIsFirst ==
  [][\A q \in requests : q.kind = "enrol" /\ q \notin requests' /\ users' # users
       => ActiveAdmins = {} \/ overlapped.admins]_identityVars
=============================================================================
