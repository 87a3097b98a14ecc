------------------------ MODULE AdministrationProofs ------------------------
(***************************************************************************)
(* Proofs about accounts and login sessions, organizations and the limit on *)
(* logins, for any number of users, requests under way, organizations and  *)
(* attempts; and about all that administrators, staff and users change by  *)
(* single requests, taken together.                                        *)
(***************************************************************************)
EXTENDS MCAdministration, SetupProofs, CloudflareProofs, SequenceTheorems, FiniteSetTheorems

-----------------------------------------------------------------------------
(* Accounts and login sessions.                                            *)

Row == [exists : BOOLEAN, active : BOOLEAN, admin : BOOLEAN, force : BOOLEAN, version : Nat]
Token == [user : User, ver : Nat, live : BOOLEAN, asOf : Nat]
RequestRow == [id : Request, kind : RequestKind, on : User, then : Row, asOf : Nat, rows : SUBSET Nat]

-----------------------------------------------------------------------------
(* The inductive invariant.                                                *)

\* The types the proofs need; the bounds are left out.
Shape ==
  /\ users \in [User -> Row] /\ tokens \in Seq(Token) /\ requests \subseteq RequestRow
  /\ revoked \in [User -> Nat] /\ overlapped \in [sessions : SUBSET User, admins : BOOLEAN]

\* Who has no row has no rights, and rows do not go away.
RowsStay ==
  /\ \A u \in User : ~users[u].exists => ~users[u].active /\ ~users[u].admin
  /\ \A q \in requests : q.then.exists => users[q.on].exists

\* A removal under way leaves another administrator, and only the first enrolment finds
\* an empty table.
AdminsKept ==
  /\ AdminRemains
  /\ \A q, r \in requests :
       q.kind \in Removing /\ r.kind \in Removing /\ q # r => overlapped.admins
  /\ \A q \in requests :
       /\ q.kind \in Removing => overlapped.admins \/ ActiveAdmins \ {q.on} # {}
       /\ q.kind # "enrol" => \E u \in User : users[u].exists
       /\ q.kind = "enrol" => /\ overlapped.admins \/ \A u \in User : ~users[u].exists
                              /\ ~q.then.active /\ ~q.then.admin
  /\ \A q, r \in requests : q.kind = "enrol" /\ r.kind = "enrol" => q = r

\* Without crossing revocations the token version counts the revocations, in the row, in
\* what requests have read and in the tokens.
VersionsCount ==
  \A u \in User \ overlapped.sessions :
    /\ users[u].version = revoked[u] + 1
    /\ \A t \in DOMAIN tokens : tokens[t].user = u => tokens[t].ver = tokens[t].asOf + 1
    /\ \A q \in requests : q.on = u =>
         /\ q.then.version = q.asOf + 1
         /\ q.kind \in Revoking => q.asOf = revoked[u]
    /\ \A q, r \in requests :
         q.on = u /\ r.on = u /\ q.kind \in Revoking /\ r.kind \in Revoking => q = r

IdentityInv == Shape /\ RowsStay /\ AdminsKept /\ VersionsCount

-----------------------------------------------------------------------------
(* What a request commits.                                                 *)

\* The row a request has in memory is a row.
LEMMA OutcomeFits ==
  ASSUME NEW q \in RequestRow
  PROVE  Outcome(q) \in Row
<1>1. q.then.version \in Nat
  BY DEF RequestRow, Row
<1>2. Outcome(q).version \in Nat
  BY <1>1 DEF Outcome
<1>3. Outcome(q).exists \in BOOLEAN /\ Outcome(q).active \in BOOLEAN
  BY DEF Outcome
<1>4. Outcome(q).admin \in BOOLEAN /\ Outcome(q).force \in BOOLEAN
  BY DEF Outcome
<1>5. Outcome(q) = [exists |-> Outcome(q).exists, active |-> Outcome(q).active,
                    admin |-> Outcome(q).admin, force |-> Outcome(q).force,
                    version |-> Outcome(q).version]
  BY DEF Outcome
<1> QED BY <1>2, <1>3, <1>4, <1>5 DEF Row

\* The UPDATE makes a row of changed columns and of the columns it finds.
LEMMA MergedFits ==
  ASSUME NEW q \in RequestRow, users \in [User -> Row]
  PROVE  LET Column(after, then, now) == IF after # then THEN after ELSE now IN
         /\ Merged(q) \in Row
         /\ Merged(q).exists = Column(TRUE, q.then.exists, users[q.on].exists)
         /\ Merged(q).active = Column(Outcome(q).active, q.then.active, users[q.on].active)
         /\ Merged(q).admin = Column(Outcome(q).admin, q.then.admin, users[q.on].admin)
         /\ Merged(q).version = Column(Outcome(q).version, q.then.version, users[q.on].version)
<1> DEFINE columns == {"exists", "active", "admin", "force", "version"}
<1>1. Outcome(q) \in Row /\ q.then \in Row /\ users[q.on] \in Row
  BY OutcomeFits DEF RequestRow
<1>2. DOMAIN Outcome(q) = columns /\ Outcome(q).exists = TRUE
  BY DEF Outcome
<1>3. Merged(q) = [column \in columns |->
        IF Outcome(q)[column] # q.then[column] THEN Outcome(q)[column] ELSE users[q.on][column]]
  BY <1>2 DEF Merged
<1>4. Merged(q) = [exists |-> Merged(q).exists, active |-> Merged(q).active,
                   admin |-> Merged(q).admin, force |-> Merged(q).force,
                   version |-> Merged(q).version]
  BY <1>3
<1> QED BY <1>1, <1>2, <1>3, <1>4 DEF Row

\* A commit goes into one row.
LEMMA CommitRow ==
  ASSUME Shape, NEW q \in requests, Commit(q)
  PROVE  /\ q \in RequestRow /\ q.on \in User
         /\ users' = [users EXCEPT ![q.on] = Merged(q)] /\ users' \in [User -> Row]
         /\ requests' = requests \ {q} /\ overlapped' = overlapped
         /\ revoked' = [revoked EXCEPT ![q.on] = IF Revokes(q) THEN @ + 1 ELSE @]
         /\ revoked' \in [User -> Nat]
<1>1. q \in RequestRow /\ q.on \in User
  BY DEF Shape, RequestRow
<1>2. Merged(q) \in Row
  BY <1>1, MergedFits DEF Shape
<1> QED BY <1>1, <1>2 DEF Commit, Shape

\* No one but the user of a removal stops being an administrator.
LEMMA CommitAdmins ==
  ASSUME Shape, RowsStay, NEW q \in requests, Commit(q)
  PROVE  /\ q.kind \notin Removing => ActiveAdmins \subseteq ActiveAdmins'
         /\ ActiveAdmins \ {q.on} \subseteq ActiveAdmins'
         /\ users'[q.on].exists /\ \A u \in User : users[u].exists => users'[u].exists
<1>1. /\ q \in RequestRow /\ q.on \in User /\ users' = [users EXCEPT ![q.on] = Merged(q)]
      /\ users \in [User -> Row]
  BY CommitRow DEF Shape
<1>2. users'[q.on] = Merged(q) /\ \A u \in User : u # q.on => users'[u] = users[u]
  BY <1>1
<1>3. q.kind \notin Removing =>
        /\ Outcome(q).active # q.then.active => Outcome(q).active
        /\ Outcome(q).admin # q.then.admin => Outcome(q).admin
  <2>1. q.then.active \in BOOLEAN /\ q.then.admin \in BOOLEAN
    BY <1>1 DEF RequestRow, Row
  <2> QED BY <2>1 DEF Outcome, Removing
<1>4. q.kind \notin Removing =>
        /\ users[q.on].active => Merged(q).active
        /\ users[q.on].admin => Merged(q).admin
  BY <1>1, <1>3, MergedFits
<1>5. Merged(q).exists
  BY <1>1, MergedFits DEF RowsStay
<1> QED BY <1>1, <1>2, <1>4, <1>5 DEF ActiveAdmins

\* Tokens are kept, but for their liveness, and a token that is issued carries the version
\* the request left.
LEMMA CommitTokens ==
  ASSUME Shape, NEW q \in requests, Commit(q)
  PROVE  /\ tokens' \in Seq(Token)
         /\ \A t \in DOMAIN tokens' :
              \/ /\ t \in DOMAIN tokens /\ tokens'[t].user = tokens[t].user
                 /\ tokens'[t].ver = tokens[t].ver /\ tokens'[t].asOf = tokens[t].asOf
              \/ /\ tokens'[t].user = q.on /\ tokens'[t].ver = Outcome(q).version
                 /\ tokens'[t].asOf = IF Revokes(q) THEN revoked[q.on] + 1 ELSE q.asOf
<1> DEFINE rest == [t \in DOMAIN tokens |->
                     [tokens[t] EXCEPT !.live = @ /\ ~(Revokes(q) /\ t \in q.rows)]]
           asOf == IF Revokes(q) THEN revoked[q.on] + 1 ELSE q.asOf
           new == [user |-> q.on, ver |-> Outcome(q).version, live |-> TRUE, asOf |-> asOf]
<1>1. q \in RequestRow /\ q.on \in User /\ q.asOf \in Nat /\ Outcome(q).version \in Nat
  BY OutcomeFits DEF Shape, RequestRow, Row
<1>2. asOf \in Nat /\ new \in Token
  BY <1>1 DEF Shape, Token
<1>3. \A t \in DOMAIN tokens : /\ rest[t] \in Token /\ rest[t].user = tokens[t].user
                               /\ rest[t].ver = tokens[t].ver /\ rest[t].asOf = tokens[t].asOf
  <2>1. \A t \in DOMAIN tokens : tokens[t] \in Token
    BY DEF Shape
  <2> QED BY <2>1 DEF Token
<1>4. rest \in Seq(Token) /\ DOMAIN rest = DOMAIN tokens
  <2>1. DOMAIN tokens = 1..Len(tokens) /\ Len(tokens) \in Nat
    BY DEF Shape
  <2> HIDE DEF asOf, new
  <2>2. rest \in [1..Len(tokens) -> Token]
    BY <1>3, <2>1
  <2> QED BY <2>1, <2>2
<1>5. tokens' = IF Issuing(q.kind) THEN Append(rest, new) ELSE rest
  BY DEF Commit, RowsAfter
<1> HIDE DEF rest, new
<1>6. CASE ~Issuing(q.kind)
  BY <1>3, <1>4, <1>5, <1>6
<1>7. CASE Issuing(q.kind)
  <2>1. /\ tokens' \in Seq(Token) /\ Len(tokens') = Len(rest) + 1
        /\ \A t \in 1..Len(rest) : tokens'[t] = rest[t]
        /\ tokens'[Len(rest) + 1] = new
    BY <1>2, <1>4, <1>5, <1>7
  <2>2. DOMAIN rest = 1..Len(rest) /\ DOMAIN tokens' = 1..Len(rest) + 1 /\ Len(rest) \in Nat
    BY <1>4, <2>1
  <2>3. \A t \in DOMAIN tokens' : t \in DOMAIN tokens \/ t = Len(rest) + 1
    BY <1>4, <2>2
  <2>4. new.user = q.on /\ new.ver = Outcome(q).version /\ new.asOf = asOf
    BY DEF new
  <2>5. \A t \in DOMAIN tokens : tokens'[t] = rest[t]
    BY <1>4, <2>1, <2>2
  <2> QED BY <1>3, <2>1, <2>3, <2>4, <2>5
<1> QED BY <1>6, <1>7

-----------------------------------------------------------------------------
(* The inductive invariant is one.                                         *)

\* It holds of the empty tables.
LEMMA IdentityInvInit == IdentityInit => IdentityInv
<1> SUFFICES ASSUME IdentityInit PROVE IdentityInv
  OBVIOUS
<1>1. NoUser \in Row /\ ~NoUser.exists /\ ~NoUser.active /\ ~NoUser.admin /\ NoUser.version = 1
  BY DEF NoUser, Row
<1>2. \A u \in User : users[u] = NoUser /\ revoked[u] = 0
  BY DEF IdentityInit
<1>3. requests = {} /\ tokens = <<>> /\ overlapped = [sessions |-> {}, admins |-> FALSE]
  BY DEF IdentityInit
<1>4. Shape
  BY <1>1, <1>3 DEF IdentityInit, Shape
<1>5. RowsStay /\ AdminsKept
  BY <1>1, <1>2, <1>3 DEF RowsStay, AdminsKept, AdminRemains
<1>6. VersionsCount
  BY <1>1, <1>2, <1>3 DEF VersionsCount
<1> QED BY <1>4, <1>5, <1>6 DEF IdentityInv

\* A token is accepted of a user with a row only.
LEMMA SignedInExists ==
  ASSUME RowsStay, NEW u \in User, SignedIn(u)
  PROVE  users[u].exists
BY DEF SignedIn, Accepted, RowsStay

\* A request that begins keeps it.
LEMMA BeginKeeps ==
  ASSUME IdentityInv, NEW id \in Request, NEW kind \in Asked, NEW u \in User, Begin(id, kind, u)
  PROVE  IdentityInv'
<1> DEFINE new == [id |-> id, kind |-> kind, on |-> u, then |-> users[u], asOf |-> revoked[u],
                   rows |-> {t \in DOMAIN tokens : tokens[t].user = u /\ tokens[t].live}]
<1>1. requests' = requests \cup {new} /\ UNCHANGED <<users, tokens, revoked>>
  BY DEF Begin
<1>2. /\ new.kind = kind /\ new.on = u /\ new.then = users[u] /\ new.asOf = revoked[u]
      /\ new \in RequestRow
  <2>1. kind \in RequestKind /\ users[u] \in Row /\ revoked[u] \in Nat
    BY IdentityBounds DEF IdentityInv, Shape
  <2>2. DOMAIN tokens \subseteq Nat
    <3>1. DOMAIN tokens = 1..Len(tokens) /\ Len(tokens) \in Nat
      BY DEF IdentityInv, Shape
    <3> QED BY <3>1
  <2> QED BY <2>1, <2>2 DEF RequestRow
<1>3. Allowed(kind, u) /\ kind \in RequestKind
  BY IdentityBounds DEF Begin
<1> HIDE DEF new
<1>4. /\ overlapped' \in [sessions : SUBSET User, admins : BOOLEAN]
      /\ overlapped.sessions \subseteq overlapped'.sessions
      /\ kind \in Revoking /\ PendingOn(Revoking, u) # {} => u \in overlapped'.sessions
      /\ overlapped.admins => overlapped'.admins
      /\ kind \in Removing /\ Pending(Removing) # {} => overlapped'.admins
  BY DEF Begin, IdentityInv, Shape
<1>5. Shape' /\ RowsStay'
  BY <1>1, <1>2, <1>4 DEF IdentityInv, Shape, RowsStay
<1>6. AdminsKept'
  <2>1. ActiveAdmins' = ActiveAdmins /\ AdminRemains' /\ AdminRemains
    BY <1>1, <1>4 DEF IdentityInv, AdminsKept, AdminRemains, ActiveAdmins
  <2>2. kind # "enrol" => \E v \in User : users[v].exists
    BY <1>3, SignedInExists DEF IdentityInv, Allowed, Acting
  <2>3. kind \in Removing => overlapped.admins \/ ActiveAdmins \ {u} # {}
    <3> SUFFICES ASSUME kind \in Removing PROVE overlapped.admins \/ ActiveAdmins \ {u} # {}
      OBVIOUS
    <3>1. users[u].exists /\ (ActiveAdmins \ {u} # {} \/ u \notin ActiveAdmins)
      BY <1>3 DEF Allowed, Unprotected, Removing
    <3> QED BY <2>1, <3>1 DEF AdminRemains
  <2>4. kind = "enrol" => /\ overlapped.admins \/ \A v \in User : ~users[v].exists
                          /\ ~users[u].active /\ ~users[u].admin
                          /\ \A q \in requests : q.kind # "enrol"
    <3> SUFFICES ASSUME kind = "enrol"
                 PROVE  /\ overlapped.admins \/ \A v \in User : ~users[v].exists
                        /\ ~users[u].active /\ ~users[u].admin
                        /\ \A q \in requests : q.kind # "enrol"
      OBVIOUS
    <3>1. EnrolmentFree /\ ActiveAdmins = {} /\ ~users[u].exists
      BY <1>3 DEF Allowed, AdminKind
    <3> QED BY <2>1, <3>1 DEF EnrolmentFree, AdminRemains, IdentityInv, RowsStay
  <2>5. kind \in Removing => overlapped'.admins \/ \A q \in requests : q.kind \notin Removing
    BY <1>4 DEF Pending
  <2>6. \A q, r \in requests' :
          q.kind \in Removing /\ r.kind \in Removing /\ q # r => overlapped'.admins
    BY <1>1, <1>2, <1>4, <2>5 DEF IdentityInv, AdminsKept
  <2>7. \A q \in requests' :
          /\ q.kind \in Removing => overlapped'.admins \/ ActiveAdmins \ {q.on} # {}
          /\ q.kind # "enrol" => \E v \in User : users[v].exists
          /\ q.kind = "enrol" => /\ overlapped'.admins \/ \A v \in User : ~users[v].exists
                                 /\ ~q.then.active /\ ~q.then.admin
    <3> SUFFICES ASSUME NEW q \in requests'
                 PROVE  /\ q.kind \in Removing => overlapped'.admins \/ ActiveAdmins \ {q.on} # {}
                        /\ q.kind # "enrol" => \E v \in User : users[v].exists
                        /\ q.kind = "enrol" =>
                             /\ overlapped'.admins \/ \A v \in User : ~users[v].exists
                             /\ ~q.then.active /\ ~q.then.admin
      OBVIOUS
    <3>1. CASE q \in requests
      BY <1>4, <3>1 DEF IdentityInv, AdminsKept
    <3>2. CASE q = new
      BY <1>2, <1>4, <2>2, <2>3, <2>4, <3>2
    <3> QED BY <1>1, <3>1, <3>2
  <2>8. \A q, r \in requests' : q.kind = "enrol" /\ r.kind = "enrol" => q = r
    BY <1>1, <1>2, <2>4 DEF IdentityInv, AdminsKept
  <2> QED BY <1>1, <2>1, <2>6, <2>7, <2>8 DEF AdminsKept
<1>7. VersionsCount'
  <2> SUFFICES ASSUME NEW v \in User \ overlapped'.sessions
               PROVE  /\ users[v].version = revoked[v] + 1
                      /\ \A t \in DOMAIN tokens : tokens[t].user = v => tokens[t].ver = tokens[t].asOf + 1
                      /\ \A q \in requests' : q.on = v =>
                           /\ q.then.version = q.asOf + 1
                           /\ q.kind \in Revoking => q.asOf = revoked[v]
                      /\ \A q, r \in requests' :
                           q.on = v /\ r.on = v /\ q.kind \in Revoking /\ r.kind \in Revoking => q = r
    BY <1>1 DEF VersionsCount
  <2>1. v \in User \ overlapped.sessions
    BY <1>4
  <2>2. /\ users[v].version = revoked[v] + 1
        /\ \A t \in DOMAIN tokens : tokens[t].user = v => tokens[t].ver = tokens[t].asOf + 1
        /\ \A q \in requests : q.on = v =>
             /\ q.then.version = q.asOf + 1
             /\ q.kind \in Revoking => q.asOf = revoked[v]
        /\ \A q, r \in requests :
             q.on = v /\ r.on = v /\ q.kind \in Revoking /\ r.kind \in Revoking => q = r
    BY <2>1 DEF IdentityInv, VersionsCount
  <2>3. u = v /\ kind \in Revoking => \A q \in requests : ~(q.on = v /\ q.kind \in Revoking)
    BY <1>4 DEF PendingOn
  <2>4. \A q \in requests' : q.on = v =>
          /\ q.then.version = q.asOf + 1
          /\ q.kind \in Revoking => q.asOf = revoked[v]
    BY <1>1, <1>2, <2>2
  <2>5. \A q, r \in requests' :
          q.on = v /\ r.on = v /\ q.kind \in Revoking /\ r.kind \in Revoking => q = r
    BY <1>1, <1>2, <2>2, <2>3
  <2> QED BY <2>2, <2>4, <2>5
<1> QED BY <1>5, <1>6, <1>7 DEF IdentityInv

\* A commit keeps it.
LEMMA CommitKeeps ==
  ASSUME IdentityInv, NEW q \in requests, Commit(q)
  PROVE  IdentityInv'
<1>1. Shape /\ RowsStay /\ AdminsKept /\ VersionsCount
  BY DEF IdentityInv
<1>2. /\ q \in RequestRow /\ q.on \in User
      /\ users' = [users EXCEPT ![q.on] = Merged(q)] /\ users' \in [User -> Row]
      /\ requests' = requests \ {q} /\ overlapped' = overlapped
      /\ revoked' = [revoked EXCEPT ![q.on] = IF Revokes(q) THEN @ + 1 ELSE @]
      /\ revoked' \in [User -> Nat]
  BY <1>1, CommitRow
<1>3. /\ q.kind \notin Removing => ActiveAdmins \subseteq ActiveAdmins'
      /\ ActiveAdmins \ {q.on} \subseteq ActiveAdmins'
      /\ users'[q.on].exists /\ \A u \in User : users[u].exists => users'[u].exists
  BY <1>1, CommitAdmins
<1>4. /\ tokens' \in Seq(Token)
      /\ \A t \in DOMAIN tokens' :
           \/ /\ t \in DOMAIN tokens /\ tokens'[t].user = tokens[t].user
              /\ tokens'[t].ver = tokens[t].ver /\ tokens'[t].asOf = tokens[t].asOf
           \/ /\ tokens'[t].user = q.on /\ tokens'[t].ver = Outcome(q).version
              /\ tokens'[t].asOf = IF Revokes(q) THEN revoked[q.on] + 1 ELSE q.asOf
  BY <1>1, CommitTokens
<1>5. Merged(q).version = IF Outcome(q).version # q.then.version THEN Outcome(q).version
                          ELSE users[q.on].version
  BY <1>1, <1>2, MergedFits DEF Shape
<1>6. Shape'
  BY <1>1, <1>2, <1>4 DEF Shape
<1>7. RowsStay'
  <2>1. users'[q.on].exists /\ \A u \in User : u # q.on => users'[u] = users[u]
    BY <1>2, <1>3
  <2> QED BY <1>1, <1>2, <1>3, <2>1 DEF RowsStay, RequestRow
<1>8. AdminsKept'
  <2>1. q.kind = "enrol" => q.on \in ActiveAdmins'
    <3> SUFFICES ASSUME q.kind = "enrol" PROVE q.on \in ActiveAdmins'
      OBVIOUS
    <3>1. ~q.then.active /\ ~q.then.admin
      BY <1>1 DEF AdminsKept
    <3>2. Outcome(q).active = TRUE /\ Outcome(q).admin = TRUE
      BY DEF Outcome
    <3>3. Merged(q).active = TRUE /\ Merged(q).admin = TRUE
      BY <1>1, <1>2, <3>1, <3>2, MergedFits DEF Shape
    <3> QED BY <1>2, <3>3 DEF ActiveAdmins, Shape
  <2>2. overlapped.admins \/ ActiveAdmins' # {}
    <3>1. CASE q.kind \in Removing
      BY <1>1, <1>3, <3>1 DEF AdminsKept
    <3>2. CASE q.kind = "enrol"
      BY <2>1, <3>2
    <3>3. CASE q.kind \notin Removing /\ q.kind # "enrol"
      BY <1>1, <1>3, <3>3 DEF AdminsKept, AdminRemains
    <3> QED BY <3>1, <3>2, <3>3
  <2>3. \A r \in requests' : r.kind \in Removing => overlapped.admins \/ ActiveAdmins' \ {r.on} # {}
    BY <1>1, <1>2, <1>3 DEF AdminsKept
  <2>4. \A r \in requests' : r.kind # "enrol" => \E u \in User : users'[u].exists
    BY <1>2, <1>3
  <2>5. \A r \in requests' : r.kind = "enrol" =>
          /\ overlapped.admins \/ \A u \in User : ~users'[u].exists
          /\ ~r.then.active /\ ~r.then.admin
    BY <1>1, <1>2, <1>3 DEF AdminsKept
  <2>6. /\ \A r, s \in requests' :
             r.kind \in Removing /\ s.kind \in Removing /\ r # s => overlapped.admins
        /\ \A r, s \in requests' : r.kind = "enrol" /\ s.kind = "enrol" => r = s
    BY <1>1, <1>2 DEF AdminsKept
  <2> QED BY <1>2, <2>2, <2>3, <2>4, <2>5, <2>6 DEF AdminsKept, AdminRemains
<1>9. VersionsCount'
  <2> SUFFICES ASSUME NEW u \in User \ overlapped.sessions
               PROVE  /\ users'[u].version = revoked'[u] + 1
                      /\ \A t \in DOMAIN tokens' : tokens'[t].user = u => tokens'[t].ver = tokens'[t].asOf + 1
                      /\ \A r \in requests' : r.on = u =>
                           /\ r.then.version = r.asOf + 1
                           /\ r.kind \in Revoking => r.asOf = revoked'[u]
                      /\ \A r, s \in requests' :
                           r.on = u /\ s.on = u /\ r.kind \in Revoking /\ s.kind \in Revoking => r = s
    BY <1>2 DEF VersionsCount
  <2>1. /\ users[u].version = revoked[u] + 1 /\ revoked[u] \in Nat
        /\ \A t \in DOMAIN tokens : tokens[t].user = u => tokens[t].ver = tokens[t].asOf + 1
        /\ \A r \in requests : r.on = u =>
             /\ r.then.version = r.asOf + 1
             /\ r.kind \in Revoking => r.asOf = revoked[u]
        /\ \A r, s \in requests :
             r.on = u /\ s.on = u /\ r.kind \in Revoking /\ s.kind \in Revoking => r = s
    BY <1>1 DEF VersionsCount, Shape
  <2>2. Revokes(q) => q.kind \in Revoking
    BY DEF Revokes
  <2>3. u = q.on => IF Revokes(q)
                    THEN Outcome(q).version = revoked[u] + 2 /\ revoked'[u] = revoked[u] + 1
                    ELSE Outcome(q).version = q.then.version /\ revoked'[u] = revoked[u]
    <3>1. CASE u = q.on /\ Revokes(q)
      <4>1. Outcome(q).version = q.then.version + 1
        BY <3>1 DEF Outcome
      <4>2. revoked'[u] = revoked[u] + 1
        BY <1>1, <1>2, <3>1 DEF Shape
      <4> QED BY <2>1, <2>2, <3>1, <4>1, <4>2
    <3>2. CASE u = q.on /\ ~Revokes(q)
      <4>1. Outcome(q).version = q.then.version
        BY <3>2 DEF Outcome
      <4>2. revoked'[u] = revoked[u]
        BY <1>1, <1>2, <3>2 DEF Shape
      <4> QED BY <3>2, <4>1, <4>2
    <3> QED BY <3>1, <3>2
  <2>4. u # q.on => users'[u] = users[u] /\ revoked'[u] = revoked[u]
    BY <1>1, <1>2 DEF Shape
  <2>5. users'[u].version = revoked'[u] + 1
    <3>1. u = q.on => users'[u].version = Merged(q).version
      BY <1>1, <1>2 DEF Shape
    <3> QED BY <1>5, <2>1, <2>2, <2>3, <2>4, <3>1
  <2>6. \A t \in DOMAIN tokens' : tokens'[t].user = u => tokens'[t].ver = tokens'[t].asOf + 1
    BY <1>4, <2>1, <2>3
  <2>7. \A r \in requests' : r.on = u =>
          /\ r.then.version = r.asOf + 1
          /\ r.kind \in Revoking => r.asOf = revoked'[u]
    BY <1>2, <2>1, <2>2, <2>3, <2>4
  <2> QED BY <1>2, <2>1, <2>5, <2>6, <2>7
<1> QED BY <1>6, <1>7, <1>8, <1>9 DEF IdentityInv

\* So does a step that ends requests or tokens without a commit, or changes nothing.
LEMMA EndingKeeps ==
  ASSUME IdentityInv, UNCHANGED <<users, revoked, overlapped>>, requests' \subseteq requests,
         tokens' \in Seq(Token), DOMAIN tokens' \subseteq DOMAIN tokens,
         \A t \in DOMAIN tokens' : /\ tokens'[t].user = tokens[t].user
                                   /\ tokens'[t].ver = tokens[t].ver
                                   /\ tokens'[t].asOf = tokens[t].asOf
  PROVE  IdentityInv'
<1>1. Shape' /\ RowsStay'
  BY DEF IdentityInv, Shape, RowsStay
<1>2. AdminsKept'
  BY DEF IdentityInv, AdminsKept, AdminRemains, ActiveAdmins
<1>3. VersionsCount'
  BY DEF IdentityInv, VersionsCount
<1> QED BY <1>1, <1>2, <1>3 DEF IdentityInv

\* Every step keeps it.
LEMMA IdentityInvStep == IdentityInv /\ [IdentityNext]_identityVars => IdentityInv'
<1> SUFFICES ASSUME IdentityInv, [IdentityNext]_identityVars PROVE IdentityInv'
  OBVIOUS
<1>0. tokens \in Seq(Token)
  BY DEF IdentityInv, Shape
<1>1. CASE \E id \in Request, kind \in Asked, u \in User : Begin(id, kind, u)
  BY <1>1, BeginKeeps
<1>2. CASE \E q \in requests : ~Conflict(q) /\ Commit(q)
  BY <1>2, CommitKeeps
<1>3. CASE \E q \in requests : Abandon(q)
  BY <1>0, <1>3, EndingKeeps DEF Abandon
<1>4. CASE \E t \in DOMAIN tokens : EndToken(t)
  <2>1. PICK t \in DOMAIN tokens : EndToken(t)
    BY <1>4
  <2>2. tokens[t] \in Token /\ tokens' = [tokens EXCEPT ![t] = [tokens[t] EXCEPT !.live = FALSE]]
    BY <1>0, <2>1 DEF EndToken
  <2>3. [tokens[t] EXCEPT !.live = FALSE] \in Token
    BY <2>2 DEF Token
  <2>4. tokens' \in Seq(Token) /\ DOMAIN tokens' = DOMAIN tokens
    BY <1>0, <2>2, <2>3
  <2>5. \A i \in DOMAIN tokens' : /\ tokens'[i].user = tokens[i].user
                                  /\ tokens'[i].ver = tokens[i].ver
                                  /\ tokens'[i].asOf = tokens[i].asOf
    BY <2>2, <2>4 DEF Token
  <2> QED BY <2>1, <2>4, <2>5, EndingKeeps DEF EndToken
<1>5. CASE UNCHANGED identityVars
  BY <1>0, <1>5, EndingKeeps DEF identityVars
<1> QED BY <1>1, <1>2, <1>3, <1>4, <1>5 DEF IdentityNext

-----------------------------------------------------------------------------
(* The theorems.                                                           *)

\* The invariant holds of every state of the accounts.
LEMMA IdentityInvHolds == IdentitySpec => []IdentityInv
BY IdentityInvInit, IdentityInvStep, PTL DEF IdentitySpec

\* "Cannot remove the last active platform administrator" (_protect_last_platform_admin):
\* for any number of users and of requests, unless two removals cross.
THEOREM AnAdminRemains == IdentitySpec => []AdminRemains
<1>1. IdentityInv => AdminRemains
  BY DEF IdentityInv, AdminsKept
<1> QED BY <1>1, IdentityInvHolds, PTL

\* revoke_all_sessions and get_user_from_token: no token outlives a revocation of its
\* user's sessions, whatever was in flight, unless two revocations of that user cross.
THEOREM RevocationsReach == IdentitySpec => []RevocationReachesOld
<1>1. IdentityInv => RevocationReachesOld
  <2> SUFFICES ASSUME IdentityInv, NEW t \in DOMAIN tokens, Accepted(t),
                      tokens[t].user \notin overlapped.sessions
               PROVE  tokens[t].asOf = revoked[tokens[t].user]
    BY DEF RevocationReachesOld
  <2>1. tokens[t] \in Token
    BY DEF IdentityInv, Shape
  <2>2. tokens[t].user \in User /\ tokens[t].asOf \in Nat /\ revoked[tokens[t].user] \in Nat
    BY <2>1 DEF IdentityInv, Shape, Token
  <2>3. /\ users[tokens[t].user].version = revoked[tokens[t].user] + 1
        /\ tokens[t].ver = tokens[t].asOf + 1
    BY <2>2 DEF IdentityInv, VersionsCount
  <2> QED BY <2>2, <2>3 DEF Accepted
<1> QED BY <1>1, IdentityInvHolds, PTL

\* enroll_first_administrator: it commits only while no administrator is active, however
\* many enrolments arrive together.
THEOREM EnrolmentComesFirst == IdentitySpec => EnrolmentIsFirst
<1>1. IdentityInv /\ [IdentityNext]_identityVars =>
        [\A q \in requests : q.kind = "enrol" /\ q \notin requests' /\ users' # users
         => ActiveAdmins = {} \/ overlapped.admins]_identityVars
  <2> SUFFICES ASSUME IdentityInv, NEW q \in requests, q.kind = "enrol", ~overlapped.admins
               PROVE  ActiveAdmins = {}
    OBVIOUS
  <2>1. \A u \in User : ~users[u].exists
    BY DEF IdentityInv, AdminsKept
  <2> QED BY <2>1 DEF IdentityInv, RowsStay, ActiveAdmins
<1> QED BY <1>1, IdentityInvHolds, PTL DEF IdentitySpec, EnrolmentIsFirst

-----------------------------------------------------------------------------
(* Accounts and login sessions: the bounds.                                *)

IssuingRequests == {q \in requests : Issuing(q.kind)}

\* Tokens and revocations stay within their bounds, those of requests under way included,
\* and no version is ahead of the revocations there were.
BoundsKept ==
  /\ IsFiniteSet(requests)
  /\ Len(tokens) + Cardinality(IssuingRequests) <= MaxTokens
  /\ \A u \in User :
       /\ users[u].version \in 1..(revoked[u] + 1)
       /\ revoked[u] + Cardinality(PendingOn(Revoking, u)) <= MaxRevocations
  /\ \A t \in DOMAIN tokens : tokens[t].ver \in TokenVersion /\ tokens[t].asOf <= MaxRevocations
  /\ \A q \in requests : /\ q.asOf <= revoked[q.on] /\ q.then.version \in 1..(q.asOf + 1)
                         /\ q.rows \subseteq 1..MaxTokens

\* The sets the bounds count are finite.
LEMMA RequestsCounted ==
  ASSUME IsFiniteSet(requests)
  PROVE  /\ IsFiniteSet(IssuingRequests) /\ Cardinality(IssuingRequests) \in Nat
         /\ \A u : /\ IsFiniteSet(PendingOn(Revoking, u))
                   /\ Cardinality(PendingOn(Revoking, u)) \in Nat
<1>1. IssuingRequests \in SUBSET requests /\ \A u : PendingOn(Revoking, u) \in SUBSET requests
  BY DEF IssuingRequests, PendingOn
<1>2. \A S \in SUBSET requests : IsFiniteSet(S)
  BY FS_Subset
<1> QED
  BY <1>1, <1>2, FS_CardinalityType

\* What is known of the bounds where the invariants hold.
LEMMA BoundsSaid ==
  ASSUME Shape, BoundsKept
  PROVE  /\ Len(tokens) \in Nat /\ Len(tokens) <= MaxTokens
         /\ DOMAIN tokens = 1..Len(tokens)
         /\ \A u \in User : revoked[u] \in 0..MaxRevocations /\ users[u].version \in TokenVersion
         /\ MaxTokens \in Nat /\ MaxRevocations \in Nat
<1>1. /\ Len(tokens) \in Nat /\ DOMAIN tokens = 1..Len(tokens) /\ revoked \in [User -> Nat]
      /\ MaxTokens \in Nat /\ MaxRevocations \in Nat
  BY IdentityBounds DEF Shape
<1>2. Cardinality(IssuingRequests) \in Nat
      /\ \A u : Cardinality(PendingOn(Revoking, u)) \in Nat
  BY RequestsCounted DEF BoundsKept
<1>3. Len(tokens) <= MaxTokens
  BY <1>1, <1>2 DEF BoundsKept
<1>4. ASSUME NEW u \in User
      PROVE  revoked[u] \in 0..MaxRevocations /\ users[u].version \in TokenVersion
  <2>1. revoked[u] \in Nat /\ users[u].version \in 1..(revoked[u] + 1)
        /\ revoked[u] + Cardinality(PendingOn(Revoking, u)) <= MaxRevocations
    BY <1>1 DEF BoundsKept
  <2>2. revoked[u] <= MaxRevocations
    BY <1>1, <1>2, <2>1
  <2> QED
    BY <1>1, <2>1, <2>2 DEF TokenVersion
<1> QED
  BY <1>1, <1>3, <1>4

\* With the bounds the rows are of their types.
LEMMA BoundsGiveTypes == ASSUME Shape, BoundsKept PROVE IdentityTypeOK
<1>1. users \in [User -> UserRow]
  <2>1. \A u \in User : users[u] \in UserRow
    BY BoundsSaid DEF Shape, Row, UserRow
  <2> QED
    BY <2>1 DEF Shape
<1>2. tokens \in Seq(TokenRow) /\ Len(tokens) <= MaxTokens
  <2>1. /\ tokens \in [1..Len(tokens) -> Token] /\ Len(tokens) \in Nat
        /\ DOMAIN tokens = 1..Len(tokens)
    BY DEF Shape
  <2>2. ASSUME NEW t \in 1..Len(tokens) PROVE tokens[t] \in TokenRow
    <3>1. tokens[t] \in Token /\ tokens[t].ver \in TokenVersion /\ tokens[t].asOf <= MaxRevocations
      BY <2>1 DEF BoundsKept
    <3>2. tokens[t].asOf \in 0..MaxRevocations
      BY <3>1, IdentityBounds DEF Token
    <3> QED
      BY <3>1, <3>2 DEF Token, TokenRow
  <2>3. tokens \in [1..Len(tokens) -> TokenRow]
    BY <2>1, <2>2
  <2> QED
    BY <2>1, <2>3, BoundsSaid
<1>3. ASSUME NEW q \in requests
      PROVE  /\ q.id \in Request /\ q.kind \in RequestKind /\ q.on \in User
             /\ q.then \in UserRow /\ q.asOf \in 0..MaxRevocations /\ q.rows \subseteq 1..MaxTokens
  <2>1. q \in RequestRow /\ q.asOf \in Nat /\ q.on \in User
    BY DEF Shape, RequestRow
  <2>2. q.asOf <= revoked[q.on] /\ q.then.version \in 1..(q.asOf + 1) /\ q.rows \subseteq 1..MaxTokens
    BY DEF BoundsKept
  <2>3. revoked[q.on] \in 0..MaxRevocations /\ MaxRevocations \in Nat
    BY <2>1, BoundsSaid
  <2>4. q.asOf \in 0..MaxRevocations /\ q.then.version \in TokenVersion
    BY <2>1, <2>2, <2>3 DEF TokenVersion
  <2>5. q.then \in UserRow
    BY <2>1, <2>4 DEF RequestRow, Row, UserRow
  <2> QED
    BY <2>1, <2>2, <2>4, <2>5 DEF RequestRow
<1>4. revoked \in [User -> 0..MaxRevocations]
  BY BoundsSaid DEF Shape
<1> QED
  BY <1>1, <1>2, <1>3, <1>4 DEF IdentityTypeOK, Shape

\* A request that begins has room.
LEMMA BeginBounds ==
  ASSUME Shape, BoundsKept, NEW id \in Request, NEW kind \in Asked, NEW u \in User,
         Begin(id, kind, u)
  PROVE  BoundsKept'
<1> DEFINE new == [id |-> id, kind |-> kind, on |-> u, then |-> users[u], asOf |-> revoked[u],
                   rows |-> {t \in DOMAIN tokens : tokens[t].user = u /\ tokens[t].live}]
<1>1. requests' = requests \cup {new} /\ UNCHANGED <<users, tokens, revoked>> /\ Room(kind, u)
  BY DEF Begin
<1>2. /\ new.kind = kind /\ new.on = u /\ new.then = users[u] /\ new.asOf = revoked[u]
      /\ new.rows \subseteq DOMAIN tokens
  OBVIOUS
<1> HIDE DEF new
<1>3. IsFiniteSet(requests')
  BY <1>1, FS_AddElement DEF BoundsKept
<1>4. /\ IsFiniteSet(IssuingRequests) /\ Cardinality(IssuingRequests) \in Nat
      /\ Len(tokens) \in Nat /\ MaxTokens \in Nat /\ MaxRevocations \in Nat
      /\ \A v : /\ IsFiniteSet(PendingOn(Revoking, v))
                /\ Cardinality(PendingOn(Revoking, v)) \in Nat
  BY RequestsCounted, BoundsSaid DEF BoundsKept
<1>5. Len(tokens) + Cardinality(IssuingRequests') <= MaxTokens
  <2>1. CASE Issuing(kind)
    <3>1. IssuingRequests' = IssuingRequests \cup {new}
      BY <1>1, <1>2, <2>1 DEF IssuingRequests
    <3>2. Len(tokens) + Cardinality(IssuingRequests) < MaxTokens
      BY <1>1, <2>1 DEF Room, IssuingRequests
    <3>3. Cardinality(IssuingRequests') <= Cardinality(IssuingRequests) + 1
      <4>1. Cardinality(IssuingRequests') = IF new \in IssuingRequests
              THEN Cardinality(IssuingRequests) ELSE Cardinality(IssuingRequests) + 1
        BY <1>4, <3>1, FS_AddElement
      <4> QED
        BY <1>4, <4>1
    <3>4. Cardinality(IssuingRequests') \in Nat
      BY <1>4, <3>1, FS_AddElement, FS_CardinalityType
    <3> QED
      BY <1>4, <3>2, <3>3, <3>4
  <2>2. CASE ~Issuing(kind)
    <3>1. IssuingRequests' = IssuingRequests
      BY <1>1, <1>2, <2>2 DEF IssuingRequests
    <3> QED
      BY <3>1 DEF BoundsKept
  <2> QED
    BY <2>1, <2>2
<1>6. ASSUME NEW v \in User
      PROVE  revoked[v] + Cardinality(PendingOn(Revoking, v)') <= MaxRevocations
  <2>1. CASE kind \in Revoking /\ v = u
    <3>1. PendingOn(Revoking, v)' = PendingOn(Revoking, v) \cup {new}
      BY <1>1, <1>2, <2>1 DEF PendingOn
    <3>2. revoked[v] + Cardinality(PendingOn(Revoking, v)) < MaxRevocations
      BY <1>1, <2>1 DEF Room
    <3>3. /\ Cardinality(PendingOn(Revoking, v)') <= Cardinality(PendingOn(Revoking, v)) + 1
          /\ Cardinality(PendingOn(Revoking, v)') \in Nat
      <4>1. Cardinality(PendingOn(Revoking, v)') = IF new \in PendingOn(Revoking, v)
              THEN Cardinality(PendingOn(Revoking, v)) ELSE Cardinality(PendingOn(Revoking, v)) + 1
        BY <1>4, <3>1, FS_AddElement
      <4> QED
        BY <1>4, <4>1
    <3> QED
      BY <1>4, <3>2, <3>3 DEF Shape
  <2>2. CASE ~(kind \in Revoking /\ v = u)
    <3>1. PendingOn(Revoking, v)' = PendingOn(Revoking, v)
      BY <1>1, <1>2, <2>2 DEF PendingOn
    <3> QED
      BY <3>1 DEF BoundsKept
  <2> QED
    BY <2>1, <2>2
<1>7. /\ new.asOf <= revoked[u] /\ new.then.version \in 1..(new.asOf + 1)
      /\ new.rows \subseteq 1..MaxTokens
  <2>1. new.rows \subseteq 1..MaxTokens
    BY <1>2, <1>4, BoundsSaid
  <2> QED
    BY <1>2, <2>1 DEF Shape, BoundsKept
<1>8. \A q \in requests' : /\ q.asOf <= revoked[q.on] /\ q.then.version \in 1..(q.asOf + 1)
                           /\ q.rows \subseteq 1..MaxTokens
  BY <1>1, <1>2, <1>7 DEF BoundsKept
<1>9. \A v \in User : revoked[v] + Cardinality(PendingOn(Revoking, v)') <= MaxRevocations
  BY <1>6
<1> QED
  BY <1>1, <1>3, <1>5, <1>8, <1>9 DEF BoundsKept

\* A commit uses the room that its request held.
LEMMA CommitBounds ==
  ASSUME Shape, BoundsKept, NEW q \in requests, Commit(q)
  PROVE  BoundsKept'
<1>1. /\ q \in RequestRow /\ q.on \in User /\ users' = [users EXCEPT ![q.on] = Merged(q)]
      /\ requests' = requests \ {q} /\ revoked' \in [User -> Nat]
      /\ revoked' = [revoked EXCEPT ![q.on] = IF Revokes(q) THEN @ + 1 ELSE @]
  BY CommitRow
<1>2. /\ tokens' \in Seq(Token)
      /\ \A t \in DOMAIN tokens' :
           \/ /\ t \in DOMAIN tokens /\ tokens'[t].user = tokens[t].user
              /\ tokens'[t].ver = tokens[t].ver /\ tokens'[t].asOf = tokens[t].asOf
           \/ /\ tokens'[t].user = q.on /\ tokens'[t].ver = Outcome(q).version
              /\ tokens'[t].asOf = IF Revokes(q) THEN revoked[q.on] + 1 ELSE q.asOf
  BY CommitTokens
<1>3. /\ IsFiniteSet(IssuingRequests) /\ Cardinality(IssuingRequests) \in Nat
      /\ Len(tokens) \in Nat /\ MaxTokens \in Nat /\ MaxRevocations \in Nat
      /\ DOMAIN tokens = 1..Len(tokens)
      /\ \A v : /\ IsFiniteSet(PendingOn(Revoking, v))
                /\ Cardinality(PendingOn(Revoking, v)) \in Nat
      /\ \A v \in User : revoked[v] \in Nat /\ revoked[v] <= MaxRevocations
  BY RequestsCounted, BoundsSaid DEF BoundsKept
<1>4. IsFiniteSet(requests')
  BY <1>1, FS_RemoveElement DEF BoundsKept
<1>5. Len(tokens') = IF Issuing(q.kind) THEN Len(tokens) + 1 ELSE Len(tokens)
  <2> DEFINE rest == [t \in DOMAIN tokens |->
                       [tokens[t] EXCEPT !.live = @ /\ ~(Revokes(q) /\ t \in q.rows)]]
             new == [user |-> q.on, ver |-> Outcome(q).version, live |-> TRUE,
                     asOf |-> IF Revokes(q) THEN revoked[q.on] + 1 ELSE q.asOf]
  <2>1. tokens' = IF Issuing(q.kind) THEN Append(rest, new) ELSE rest
    BY DEF Commit, RowsAfter
  <2>2. \A t \in DOMAIN tokens : rest[t] \in Token
    <3>1. \A t \in DOMAIN tokens : tokens[t] \in Token
      BY DEF Shape
    <3> QED
      BY <3>1 DEF Token
  <2>3. rest \in Seq(Token) /\ Len(rest) = Len(tokens)
    <3> HIDE DEF new
    <3>1. rest \in [1..Len(tokens) -> Token]
      BY <1>3, <2>2
    <3> QED
      BY <1>3, <3>1
  <2> HIDE DEF rest, new
  <2> QED
    BY <2>1, <2>3
<1>6. Len(tokens') + Cardinality(IssuingRequests') <= MaxTokens
  <2>1. CASE Issuing(q.kind)
    <3>1. IssuingRequests' = IssuingRequests \ {q} /\ q \in IssuingRequests
      BY <1>1, <2>1 DEF IssuingRequests
    <3>2. Cardinality(IssuingRequests') = Cardinality(IssuingRequests) - 1
      BY <1>3, <3>1, FS_RemoveElement
    <3> QED
      BY <1>3, <1>5, <2>1, <3>2 DEF BoundsKept
  <2>2. CASE ~Issuing(q.kind)
    <3>1. IssuingRequests' = IssuingRequests
      BY <1>1, <2>2 DEF IssuingRequests
    <3> QED
      BY <1>5, <2>2, <3>1 DEF BoundsKept
  <2> QED
    BY <2>1, <2>2
<1>7. Revokes(q) => q \in PendingOn(Revoking, q.on) /\ q.kind \in Revoking
  BY <1>1 DEF Revokes, PendingOn
<1>8. ASSUME NEW v \in User
      PROVE  revoked'[v] + Cardinality(PendingOn(Revoking, v)') <= MaxRevocations
  <2>1. CASE Revokes(q) /\ v = q.on
    <3>1. PendingOn(Revoking, v)' = PendingOn(Revoking, v) \ {q} /\ q \in PendingOn(Revoking, v)
      BY <1>1, <1>7, <2>1 DEF PendingOn
    <3>2. Cardinality(PendingOn(Revoking, v)') = Cardinality(PendingOn(Revoking, v)) - 1
      BY <1>3, <3>1, FS_RemoveElement
    <3>3. revoked'[v] = revoked[v] + 1
      BY <1>1, <2>1 DEF Shape
    <3> QED
      BY <1>3, <3>2, <3>3 DEF BoundsKept
  <2>2. CASE ~(Revokes(q) /\ v = q.on)
    <3>1. PendingOn(Revoking, v)' \in SUBSET PendingOn(Revoking, v)
      BY <1>1 DEF PendingOn
    <3>2. /\ Cardinality(PendingOn(Revoking, v)') <= Cardinality(PendingOn(Revoking, v))
          /\ Cardinality(PendingOn(Revoking, v)') \in Nat
      BY <1>3, <3>1, FS_Subset, FS_CardinalityType
    <3>3. revoked'[v] = revoked[v]
      BY <1>1, <2>2 DEF Shape
    <3>4. revoked[v] + Cardinality(PendingOn(Revoking, v)) <= MaxRevocations
      BY DEF BoundsKept
    <3> QED
      BY <1>3, <3>2, <3>3, <3>4
  <2> QED
    BY <2>1, <2>2
<1>9. /\ q.asOf \in Nat /\ q.asOf <= revoked[q.on] /\ q.then.version \in 1..(q.asOf + 1)
      /\ revoked[q.on] \in Nat /\ revoked'[q.on] \in Nat
      /\ revoked'[q.on] = IF Revokes(q) THEN revoked[q.on] + 1 ELSE revoked[q.on]
  BY <1>1, <1>3 DEF Shape, RequestRow, BoundsKept
<1>10. revoked'[q.on] <= MaxRevocations
  <2>1. /\ Cardinality(PendingOn(Revoking, q.on)') \in Nat
        /\ revoked'[q.on] + Cardinality(PendingOn(Revoking, q.on)') <= MaxRevocations
    <3>1. PendingOn(Revoking, q.on)' \in SUBSET PendingOn(Revoking, q.on)
      BY <1>1 DEF PendingOn
    <3> QED
      BY <1>1, <1>3, <1>8, <3>1, FS_Subset, FS_CardinalityType
  <2> QED
    BY <1>3, <1>9, <2>1
<1>11. Outcome(q).version \in 1..(revoked'[q.on] + 1)
  <2>1. Outcome(q).version = IF Revokes(q) THEN q.then.version + 1 ELSE q.then.version
    BY DEF Outcome
  <2> QED
    BY <1>9, <2>1
<1>12. ASSUME NEW v \in User PROVE users'[v].version \in 1..(revoked'[v] + 1)
  <2>1. CASE v = q.on
    <3>1. users'[v] = Merged(q) /\ users[v].version \in 1..(revoked[v] + 1)
      BY <1>1, <2>1 DEF Shape, BoundsKept
    <3>2. Merged(q).version \in {Outcome(q).version, users[v].version}
      BY <1>1, <2>1, MergedFits DEF Shape
    <3> QED
      BY <1>9, <1>11, <2>1, <3>1, <3>2
  <2>2. CASE v # q.on
    BY <1>1, <2>2 DEF Shape, BoundsKept
  <2> QED
    BY <2>1, <2>2
<1>13. ASSUME NEW t \in DOMAIN tokens'
       PROVE  tokens'[t].ver \in TokenVersion /\ tokens'[t].asOf <= MaxRevocations
  <2>1. Outcome(q).version \in TokenVersion
    BY <1>3, <1>9, <1>10, <1>11 DEF TokenVersion
  <2>2. (IF Revokes(q) THEN revoked[q.on] + 1 ELSE q.asOf) <= MaxRevocations
    BY <1>1, <1>3, <1>9, <1>10
  <2> QED
    BY <1>2, <2>1, <2>2 DEF BoundsKept
<1>14. ASSUME NEW r \in requests'
       PROVE  /\ r.asOf <= revoked'[r.on] /\ r.then.version \in 1..(r.asOf + 1)
              /\ r.rows \subseteq 1..MaxTokens
  <2>1. r \in requests /\ r.on \in User /\ r.asOf \in Nat
    BY <1>1 DEF Shape, RequestRow
  <2>2. revoked[r.on] \in Nat /\ revoked'[r.on] \in {revoked[r.on], revoked[r.on] + 1}
    BY <1>1, <1>3, <2>1 DEF Shape
  <2> QED
    BY <2>1, <2>2 DEF BoundsKept
<1> QED
  BY <1>4, <1>6, <1>8, <1>12, <1>13, <1>14 DEF BoundsKept

\* A request that ends without a commit gives its room back.
LEMMA EndingBounds ==
  ASSUME Shape, BoundsKept, UNCHANGED <<users, revoked>>, requests' \subseteq requests,
         Len(tokens') = Len(tokens), DOMAIN tokens' = DOMAIN tokens,
         \A t \in DOMAIN tokens' : /\ tokens'[t].ver = tokens[t].ver
                                   /\ tokens'[t].asOf = tokens[t].asOf
  PROVE  BoundsKept'
<1>1. /\ IsFiniteSet(IssuingRequests) /\ Cardinality(IssuingRequests) \in Nat
      /\ Len(tokens) \in Nat /\ MaxTokens \in Nat /\ MaxRevocations \in Nat
      /\ \A v : /\ IsFiniteSet(PendingOn(Revoking, v))
                /\ Cardinality(PendingOn(Revoking, v)) \in Nat
      /\ \A v \in User : revoked[v] \in Nat
  BY RequestsCounted, BoundsSaid DEF BoundsKept
<1>2. IsFiniteSet(requests')
  BY FS_Subset DEF BoundsKept
<1>3. /\ Cardinality(IssuingRequests') <= Cardinality(IssuingRequests)
      /\ Cardinality(IssuingRequests') \in Nat
  <2>1. IssuingRequests' \in SUBSET IssuingRequests
    BY DEF IssuingRequests
  <2> QED
    BY <1>1, <2>1, FS_Subset, FS_CardinalityType
<1>4. ASSUME NEW v \in User
      PROVE  revoked'[v] + Cardinality(PendingOn(Revoking, v)') <= MaxRevocations
  <2>1. PendingOn(Revoking, v)' \in SUBSET PendingOn(Revoking, v)
    BY DEF PendingOn
  <2>2. /\ Cardinality(PendingOn(Revoking, v)') <= Cardinality(PendingOn(Revoking, v))
        /\ Cardinality(PendingOn(Revoking, v)') \in Nat
    BY <1>1, <2>1, FS_Subset, FS_CardinalityType
  <2>3. revoked[v] + Cardinality(PendingOn(Revoking, v)) <= MaxRevocations
    BY DEF BoundsKept
  <2> QED
    BY <1>1, <2>2, <2>3
<1>5. Len(tokens) + Cardinality(IssuingRequests) <= MaxTokens
  BY DEF BoundsKept
<1>6. Len(tokens') + Cardinality(IssuingRequests') <= MaxTokens
  BY <1>1, <1>3, <1>5
<1> QED
  BY <1>2, <1>4, <1>6 DEF BoundsKept

\* Every step stays within the bounds.
LEMMA BoundsStep == IdentityInv /\ BoundsKept /\ [IdentityNext]_identityVars => BoundsKept'
<1> SUFFICES ASSUME Shape, BoundsKept, [IdentityNext]_identityVars PROVE BoundsKept'
  BY DEF IdentityInv
<1>0. tokens \in Seq(Token)
  BY DEF Shape
<1>1. CASE \E id \in Request, kind \in Asked, u \in User : Begin(id, kind, u)
  BY <1>1, BeginBounds
<1>2. CASE \E q \in requests : ~Conflict(q) /\ Commit(q)
  BY <1>2, CommitBounds
<1>3. CASE \E q \in requests : Abandon(q)
  BY <1>0, <1>3, EndingBounds DEF Abandon
<1>4. CASE \E t \in DOMAIN tokens : EndToken(t)
  <2>1. PICK t \in DOMAIN tokens : EndToken(t)
    BY <1>4
  <2>2. tokens[t] \in Token /\ tokens' = [tokens EXCEPT ![t] = [tokens[t] EXCEPT !.live = FALSE]]
    BY <1>0, <2>1 DEF EndToken
  <2>3. [tokens[t] EXCEPT !.live = FALSE] \in Token
    BY <2>2 DEF Token
  <2>4. tokens' \in Seq(Token) /\ DOMAIN tokens' = DOMAIN tokens /\ Len(tokens') = Len(tokens)
    BY <1>0, <2>2, <2>3
  <2>5. \A i \in DOMAIN tokens' : /\ tokens'[i].ver = tokens[i].ver
                                  /\ tokens'[i].asOf = tokens[i].asOf
    BY <2>2, <2>4 DEF Token
  <2> QED
    BY <2>1, <2>4, <2>5, EndingBounds DEF EndToken
<1>5. CASE UNCHANGED identityVars
  BY <1>0, <1>5, EndingBounds DEF identityVars
<1> QED
  BY <1>1, <1>2, <1>3, <1>4, <1>5 DEF IdentityNext

\* No token is issued at first and no session revoked.
LEMMA BoundsInit == IdentityInit => BoundsKept
<1> SUFFICES ASSUME IdentityInit PROVE BoundsKept
  OBVIOUS
<1>1. requests = {} /\ tokens = <<>> /\ \A u \in User : users[u].version = 1 /\ revoked[u] = 0
  BY DEF IdentityInit, NoUser
<1>2. IssuingRequests = {} /\ \A u : PendingOn(Revoking, u) = {}
  BY <1>1 DEF IssuingRequests, PendingOn
<1>3. Cardinality({}) = 0 /\ IsFiniteSet({})
  BY FS_EmptySet
<1>4. Len(tokens) = 0 /\ DOMAIN tokens = {} /\ MaxTokens \in Nat /\ MaxRevocations \in Nat
  BY <1>1, IdentityBounds
<1>5. \A u \in User : users[u].version \in 1..(revoked[u] + 1)
  BY <1>1
<1>6. \A u \in User : revoked[u] + Cardinality(PendingOn(Revoking, u)) <= MaxRevocations
  BY <1>1, <1>2, <1>3, <1>4
<1> QED
  BY <1>1, <1>2, <1>3, <1>4, <1>5, <1>6 DEF BoundsKept

\* Rows, tokens and requests are of their types and within their bounds.
THEOREM IdentityTypes == IdentitySpec => []IdentityTypeOK
<1>1. IdentityInv /\ BoundsKept => IdentityTypeOK
  BY BoundsGiveTypes DEF IdentityInv
<1>2. IdentitySpec => [](IdentityInv /\ BoundsKept)
  BY IdentityInvInit, IdentityInvStep, BoundsInit, BoundsStep, PTL DEF IdentitySpec
<1> QED
  BY <1>1, <1>2, PTL

-----------------------------------------------------------------------------
(* Organizations and their members.                                        *)

ChangeRow == [id : ChangeId, org : Org, user : Member, row : MemberRow]

\* Who owns the organization of a change once it is committed.
OwnersAfter(c) ==
  {u \in Member : LET member == IF u = c.user THEN c.row ELSE members[c.org][u]
                  IN member.owner /\ member.active}

\* A change under way holds the row of its organization, and an owner is left after it.
ChangesSafe ==
  /\ \A c, d \in changes : c.org = d.org => c = d
  /\ \A c \in changes : orgs[c.org] # "none" /\ OwnersAfter(c) # {}

\* The inductive strengthening of OwnerRemains: the check made under the lock must still
\* hold when the change is committed.
TenancyInv == TenancyTypeOK /\ ChangesSafe /\ OwnerRemains

-----------------------------------------------------------------------------

\* Taking the lock keeps the invariant if what is to be committed leaves an owner.
LEMMA HoldKeeps ==
  ASSUME TenancyInv, NEW c \in ChangeId, NEW o \in Org, NEW u \in Member,
         NEW member \in MemberRow, Hold(c, o, u, member),
         \E w \in Member : LET after == IF w = u THEN member ELSE members[o][w]
                           IN after.owner /\ after.active
  PROVE  TenancyInv'
<1> DEFINE new == [id |-> c, org |-> o, user |-> u, row |-> member]
<1>1. /\ changes' = changes \cup {new} /\ orgs' = orgs /\ members' = members
      /\ orgs[o] # "none" /\ \A other \in changes : other.org # o
  BY DEF Hold
<1>2. TenancyTypeOK'
  BY <1>1 DEF TenancyInv, TenancyTypeOK
<1>3. OwnersAfter(new)' # {}
  BY <1>1 DEF OwnersAfter
<1>4. ChangesSafe'
  <2>1. \A d, e \in changes' : d.org = e.org => d = e
    BY <1>1 DEF TenancyInv, ChangesSafe
  <2>2. ASSUME NEW d \in changes' PROVE orgs'[d.org] # "none" /\ OwnersAfter(d)' # {}
    <3>1. CASE d = new
      BY <3>1, <1>1, <1>3
    <3>2. CASE d \in changes
      BY <3>2, <1>1 DEF TenancyInv, ChangesSafe, OwnersAfter
    <3> QED BY <2>2, <3>1, <3>2, <1>1
  <2> QED BY <2>1, <2>2 DEF ChangesSafe
<1>5. OwnerRemains'
  BY <1>1 DEF TenancyInv, OwnerRemains, Owners
<1> QED BY <1>2, <1>4, <1>5 DEF TenancyInv

\* Someone other than u who owns the organization goes on owning it.
LEMMA AnotherOwner ==
  ASSUME NEW o \in Org, NEW u \in Member, NEW member, Owners(o) \ {u} # {}
  PROVE  \E w \in Member : LET after == IF w = u THEN member ELSE members[o][w]
                           IN after.owner /\ after.active
<1>1. PICK w \in Owners(o) \ {u} : TRUE
  OBVIOUS
<1>2. w \in Member /\ w # u /\ members[o][w].owner /\ members[o][w].active
  BY <1>1 DEF Owners
<1> QED BY <1>2

\* Every step keeps the invariant.
LEMMA TenancyInvStep == TenancyInv /\ [TenancyNext]_tenancyVars => TenancyInv'
<1> SUFFICES ASSUME TenancyInv, [TenancyNext]_tenancyVars PROVE TenancyInv'
  OBVIOUS
<1>types. /\ orgs \in [Org -> {"none", "enabled", "disabled"}]
          /\ members \in [Org -> [Member -> MemberRow]] /\ changes \subseteq ChangeRow
  BY DEF TenancyInv, TenancyTypeOK, ChangeRow
<1>1. ASSUME NEW o \in Org, NEW u \in Member, NEW state \in {"enabled", "disabled"},
             CreateOrganization(o, u, state)
      PROVE  TenancyInv'
  <2>1. /\ orgs[o] = "none" /\ orgs' = [orgs EXCEPT ![o] = state]
        /\ members' = [members EXCEPT ![o][u] = FirstOwner] /\ changes' = changes
    BY <1>1 DEF CreateOrganization
  <2>2. TenancyTypeOK'
    BY <1>types, <2>1 DEF TenancyTypeOK, ChangeRow, FirstOwner, MemberRow
  <2>3. \A c \in changes : c.org \in Org /\ c.org # o
    BY <1>types, <2>1 DEF TenancyInv, ChangesSafe, ChangeRow
  <2>4. ChangesSafe'
    BY <1>types, <2>1, <2>3 DEF TenancyInv, ChangesSafe, OwnersAfter
  <2>5. u \in Owners(o)'
    BY <1>types, <2>1 DEF Owners, FirstOwner
  <2>6. \A p \in Org : p # o => Owners(p)' = Owners(p) /\ orgs'[p] = orgs[p]
    BY <1>types, <2>1 DEF Owners
  <2>7. OwnerRemains'
    BY <2>5, <2>6 DEF TenancyInv, OwnerRemains
  <2> QED BY <2>2, <2>4, <2>7 DEF TenancyInv
<1>2. ASSUME NEW o \in Org, NEW state \in {"enabled", "disabled"}, UpdateOrganization(o, state)
      PROVE  TenancyInv'
  <2>1. /\ orgs[o] # "none" /\ orgs' = [orgs EXCEPT ![o] = state]
        /\ members' = members /\ changes' = changes
    BY <1>2 DEF UpdateOrganization
  <2>2. \A p \in Org : orgs'[p] # "none" <=> orgs[p] # "none"
    BY <1>types, <2>1
  <2>3. TenancyTypeOK'
    BY <1>types, <2>1 DEF TenancyTypeOK, ChangeRow
  <2>4. \A c \in changes : c.org \in Org
    BY <1>types DEF ChangeRow
  <2>5. ChangesSafe'
    BY <2>1, <2>2, <2>4 DEF TenancyInv, ChangesSafe, OwnersAfter
  <2>6. OwnerRemains'
    BY <2>1, <2>2 DEF TenancyInv, OwnerRemains, Owners
  <2> QED BY <2>3, <2>5, <2>6 DEF TenancyInv
<1>3. ASSUME NEW c \in ChangeId, NEW o \in Org, NEW u \in Member,
             NEW owner \in BOOLEAN, NEW active \in BOOLEAN, PutMember(c, o, u, owner, active)
      PROVE  TenancyInv'
  <2> DEFINE member == [exists |-> TRUE, owner |-> owner, active |-> active \/ ~members[o][u].exists]
  <2>1. /\ members[o][u].owner /\ ~(owner /\ active) => Owners(o) \ {u} # {}
        /\ Hold(c, o, u, member)
    BY <1>3 DEF PutMember
  <2>2. member \in MemberRow
    BY <1>types DEF MemberRow
  <2>3. \E w \in Member : LET after == IF w = u THEN member ELSE members[o][w]
                          IN after.owner /\ after.active
    <3>1. CASE Owners(o) \ {u} # {}
      BY <3>1, AnotherOwner
    <3>2. CASE owner /\ active
      BY <3>2
    <3>3. CASE ~members[o][u].owner
      <4>1. Owners(o) # {}
        BY <2>1 DEF TenancyInv, OwnerRemains, Hold
      <4>2. u \notin Owners(o)
        BY <3>3 DEF Owners
      <4> QED BY <4>1, <4>2, <3>1
    <3> QED BY <2>1, <3>1, <3>2, <3>3
  <2> QED BY <2>1, <2>2, <2>3, HoldKeeps
<1>4. ASSUME NEW c \in ChangeId, NEW o \in Org, NEW u \in Member, DeactivateMember(c, o, u)
      PROVE  TenancyInv'
  <2> DEFINE member == [members[o][u] EXCEPT !.active = FALSE]
  <2>1. (u \in Owners(o) => Owners(o) \ {u} # {}) /\ Hold(c, o, u, member)
    BY <1>4 DEF DeactivateMember
  <2>2. member \in MemberRow
    <3>1. members[o][u] \in MemberRow
      BY <1>types
    <3> QED BY <3>1 DEF MemberRow
  <2>3. Owners(o) \ {u} # {}
    BY <2>1 DEF TenancyInv, OwnerRemains, Hold
  <2> QED BY <2>1, <2>2, <2>3, AnotherOwner, HoldKeeps
<1>5. ASSUME NEW c \in changes, ApplyChange(c) PROVE TenancyInv'
  <2>1. /\ members' = [members EXCEPT ![c.org][c.user] = c.row]
        /\ changes' = changes \ {c} /\ orgs' = orgs
    BY <1>5 DEF ApplyChange
  <2>2. c.org \in Org /\ c.user \in Member /\ c.row \in MemberRow
    BY <1>types DEF ChangeRow
  <2>3. TenancyTypeOK'
    BY <1>types, <2>1, <2>2 DEF TenancyTypeOK, ChangeRow
  <2>4. \A d \in changes' : d.org \in Org /\ d.org # c.org
    BY <1>types, <2>1 DEF TenancyInv, ChangesSafe, ChangeRow
  <2>5. ChangesSafe'
    BY <1>types, <2>1, <2>2, <2>4 DEF TenancyInv, ChangesSafe, OwnersAfter
  <2>6. Owners(c.org)' = OwnersAfter(c)
    BY <1>types, <2>1, <2>2 DEF Owners, OwnersAfter
  <2>7. \A p \in Org : p # c.org => Owners(p)' = Owners(p)
    BY <1>types, <2>1, <2>2 DEF Owners
  <2>8. OwnerRemains'
    BY <2>1, <2>6, <2>7 DEF TenancyInv, OwnerRemains, ChangesSafe
  <2> QED BY <2>3, <2>5, <2>8 DEF TenancyInv
<1>6. ASSUME NEW c \in changes, AbandonChange(c) PROVE TenancyInv'
  BY <1>6 DEF AbandonChange, TenancyInv, TenancyTypeOK, ChangesSafe, OwnersAfter, OwnerRemains, Owners
<1>7. CASE UNCHANGED tenancyVars
  BY <1>7 DEF tenancyVars, TenancyInv, TenancyTypeOK, ChangesSafe, OwnersAfter, OwnerRemains, Owners
<1> QED BY <1>1, <1>2, <1>3, <1>4, <1>5, <1>6, <1>7 DEF TenancyNext

\* It holds while there is no organization.
LEMMA TenancyInvInit == TenancyInit => TenancyInv
BY DEF TenancyInit, TenancyInv, TenancyTypeOK, ChangesSafe, OwnerRemains, NoMember, MemberRow

\* Rows, members and changes under way keep their types (put_member, deactivate_member,
\* create_organization and update_organization of admin_organizations.py).
THEOREM TenancyTypes == TenancySpec => []TenancyTypeOK
<1>1. TenancyInv => TenancyTypeOK
  BY DEF TenancyInv
<1> QED BY <1>1, TenancyInvInit, TenancyInvStep, PTL DEF TenancySpec

\* However many changes of members overlap, _ensure_another_active_owner under the lock of
\* _organization_or_404 leaves every organization an active owner.
THEOREM OwnersRemain == TenancySpec => []OwnerRemains
<1>1. TenancyInv => OwnerRemains
  BY DEF TenancyInv
<1> QED BY <1>1, TenancyInvInit, TenancyInvStep, PTL DEF TenancySpec

-----------------------------------------------------------------------------
(* The limit on logins.                                                    *)

\* The requests that were let in while there was no row to lock.
InFlight == {a \in Attempt : attempt[a] \in {"free", "inserting"}}

\* The failures that can still be counted before the row blocks.
Budget ==
  IF row.old THEN MaxFailures
  ELSE IF row.blocked THEN 0
  ELSE IF row.failures < MaxFailures THEN MaxFailures - row.failures ELSE 1

ThrottleInv ==
  /\ row \in [failures : Nat, blocked : BOOLEAN, old : BOOLEAN]
  /\ attempt \in [Attempt -> {"idle", "free", "holding", "inserting"}]
  /\ guesses \in Nat
  /\ ~RowExists => row = NoRow /\ guesses = 0
  /\ \A a \in Attempt : attempt[a] = "holding" => RowExists /\ ~row.blocked
  /\ \A a, b \in Attempt : attempt[a] = "holding" /\ attempt[b] = "holding" => a = b
  /\ row.blocked /\ ~row.old => row.failures >= MaxFailures
  /\ RowExists =>
       /\ Cardinality(InFlight) < Cardinality(Attempt)
       /\ guesses + Cardinality(InFlight) + Budget < MaxFailures + Cardinality(Attempt)
       /\ row.failures + Cardinality(InFlight) + (IF row.blocked THEN 0 ELSE 1)
            <= MaxFailures + 2 * Cardinality(Attempt)

\* The attempts are finitely many, and so are those in flight.
LEMMA AttemptCounts ==
  /\ IsFiniteSet(Attempt) /\ Cardinality(Attempt) \in Nat
  /\ IsFiniteSet(InFlight) /\ Cardinality(InFlight) \in Nat
  /\ Cardinality(InFlight) <= Cardinality(Attempt)
<1>1. IsFiniteSet(Attempt) /\ InFlight \in SUBSET Attempt
  BY ThrottleBounds DEF InFlight
<1> QED
  BY <1>1, FS_Subset, FS_CardinalityType

\* A request that answers is no longer in flight; nothing else changes the set.
LEMMA LeavesFlight ==
  ASSUME attempt \in [Attempt -> {"idle", "free", "holding", "inserting"}],
         NEW a \in Attempt, a \in InFlight,
         attempt' = [attempt EXCEPT ![a] = "idle"]
  PROVE  Cardinality(InFlight') = Cardinality(InFlight) - 1
<1>1. InFlight' = InFlight \ {a}
  BY DEF InFlight
<1> QED
  BY <1>1, AttemptCounts, FS_RemoveElement

LEMMA KeepsFlight ==
  ASSUME attempt \in [Attempt -> {"idle", "free", "holding", "inserting"}],
         NEW a \in Attempt, NEW pc, attempt' = [attempt EXCEPT ![a] = pc],
         attempt[a] \in {"free", "inserting"} <=> pc \in {"free", "inserting"}
  PROVE  InFlight' = InFlight
BY DEF InFlight

\* The number of requests in flight after a request ends: one less if it was one of them.
LEMMA EndsFlight ==
  ASSUME attempt \in [Attempt -> {"idle", "free", "holding", "inserting"}],
         NEW a \in Attempt, attempt' = [attempt EXCEPT ![a] = "idle"]
  PROVE  Cardinality(InFlight') =
           IF attempt[a] \in {"free", "inserting"} THEN Cardinality(InFlight) - 1
           ELSE Cardinality(InFlight)
<1>1. CASE attempt[a] \in {"free", "inserting"}
  BY <1>1, LeavesFlight DEF InFlight
<1>2. CASE attempt[a] \notin {"free", "inserting"}
  BY <1>2, KeepsFlight
<1> QED
  BY <1>1, <1>2

LEMMA ThrottleInvInit == ThrottleInit => ThrottleInv
BY DEF ThrottleInit, ThrottleInv, NoRow, RowExists

\* The row after a failure is counted, field by field.
LEMMA CountedRow ==
  ASSUME row \in [failures : Nat, blocked : BOOLEAN, old : BOOLEAN]
  PROVE  /\ CountedFailures \in [failures : Nat, blocked : BOOLEAN, old : BOOLEAN]
         /\ CountedFailures.failures = IF row.old THEN 1 ELSE row.failures + 1
         /\ CountedFailures.old = FALSE
         /\ CountedFailures.blocked =
              (CountedFailures.failures >= MaxFailures \/ (row.blocked /\ ~row.old))
<1> DEFINE n == IF row.old THEN 1 ELSE row.failures + 1
           b == n >= MaxFailures \/ (row.blocked /\ ~row.old)
<1>1. CountedFailures = [failures |-> n, old |-> FALSE, blocked |-> b]
  BY DEF CountedFailures
<1>2. n \in Nat /\ b \in BOOLEAN
  OBVIOUS
<1> HIDE DEF n, b
<1>3. /\ CountedFailures.failures = n /\ CountedFailures.old = FALSE
      /\ CountedFailures.blocked = b
      /\ CountedFailures \in [failures : Nat, blocked : BOOLEAN, old : BOOLEAN]
  BY <1>1, <1>2
<1> QED
  BY <1>3 DEF n, b

LEMMA ThrottleInvStep == ThrottleInv /\ [ThrottleNext]_throttleVars => ThrottleInv'
<1> SUFFICES ASSUME ThrottleInv, [ThrottleNext]_throttleVars PROVE ThrottleInv'
  OBVIOUS
<1> USE ThrottleBounds
<1>t. /\ attempt \in [Attempt -> {"idle", "free", "holding", "inserting"}]
      /\ row \in [failures : Nat, blocked : BOOLEAN, old : BOOLEAN] /\ guesses \in Nat
  BY DEF ThrottleInv
<1>n. /\ Cardinality(InFlight) \in Nat /\ Cardinality(Attempt) \in Nat
      /\ Cardinality(InFlight) <= Cardinality(Attempt)
  BY AttemptCounts
<1>m. Cardinality(InFlight') \in Nat /\ Cardinality(InFlight') <= Cardinality(Attempt)
  <2>1. InFlight' \in SUBSET Attempt
    BY DEF InFlight
  <2> QED
    BY <2>1, AttemptCounts, FS_Subset, FS_CardinalityType
<1>1. ASSUME NEW a \in Attempt, CheckAllowed(a) PROVE ThrottleInv'
  <2>1. CASE RowExists
    <3>1. InFlight' = InFlight
      BY <1>1, <2>1, <1>t, KeepsFlight DEF CheckAllowed, Move
    <3>2. attempt' = [attempt EXCEPT ![a] = "holding"] /\ UNCHANGED <<row, guesses>> /\ ~row.blocked
      BY <1>1, <2>1 DEF CheckAllowed, Move
    <3>3. \A b \in Attempt : attempt[b] # "holding"
      BY <1>1 DEF CheckAllowed, RowUnlocked
    <3> QED
      BY <2>1, <3>1, <3>2, <3>3 DEF ThrottleInv, RowExists, Budget
  <2>2. CASE ~RowExists
    BY <1>1, <2>2 DEF CheckAllowed, Move, ThrottleInv, RowExists
  <2> QED
    BY <2>1, <2>2
<1>2. ASSUME NEW a \in Attempt, FailCounted(a) PROVE ThrottleInv'
  <2>1. attempt' = [attempt EXCEPT ![a] = "idle"] /\ attempt[a] \in {"holding", "free"}
    BY <1>2 DEF FailCounted, Move
  <2>2. row' = CountedFailures /\ guesses' = guesses + 1 /\ RowExists
    BY <1>2 DEF FailCounted
  <2>3. Cardinality(InFlight') =
          IF attempt[a] = "free" THEN Cardinality(InFlight) - 1 ELSE Cardinality(InFlight)
    BY <2>1, <1>t, EndsFlight
  <2>4. \A b \in Attempt : attempt'[b] # "holding"
    BY <1>2, <1>t DEF FailCounted, Move, RowUnlocked, ThrottleInv
  <2>5. attempt[a] = "holding" => ~row.blocked
    BY DEF ThrottleInv
  <2>a. /\ row' \in [failures : Nat, blocked : BOOLEAN, old : BOOLEAN]
        /\ row'.failures = IF row.old THEN 1 ELSE row.failures + 1
        /\ row'.old = FALSE
        /\ row'.blocked = (row'.failures >= MaxFailures \/ (row.blocked /\ ~row.old))
    BY <2>2, <1>t, CountedRow
  <2>6. /\ row' \in [failures : Nat, blocked : BOOLEAN, old : BOOLEAN] /\ row'.failures > 0 /\ ~row'.old
        /\ row'.failures = IF row.old THEN 1 ELSE row.failures + 1
        /\ row'.blocked <=> row'.failures >= MaxFailures \/ (row.blocked /\ ~row.old)
    BY <2>a, <1>t
  <2>8. /\ row.blocked /\ ~row.old => row.failures >= MaxFailures
        /\ Cardinality(InFlight) < Cardinality(Attempt)
        /\ guesses + Cardinality(InFlight) + Budget < MaxFailures + Cardinality(Attempt)
        /\ row.failures + Cardinality(InFlight) + (IF row.blocked THEN 0 ELSE 1)
             <= MaxFailures + 2 * Cardinality(Attempt)
    BY <2>2 DEF ThrottleInv
  <2>7. /\ row'.blocked => row'.failures >= MaxFailures
        /\ Cardinality(InFlight') < Cardinality(Attempt)
        /\ guesses' + Cardinality(InFlight') + Budget' < MaxFailures + Cardinality(Attempt)
    BY <1>t, <1>n, <2>1, <2>2, <2>3, <2>5, <2>6, <2>8 DEF RowExists, Budget
  <2>9. row'.failures + Cardinality(InFlight') + (IF row'.blocked THEN 0 ELSE 1)
          <= MaxFailures + 2 * Cardinality(Attempt)
    <3>1. CASE row.old
      BY <3>1, <1>t, <1>n, <2>1, <2>2, <2>3, <2>5, <2>6, <2>8 DEF RowExists
    <3>2. CASE ~row.old
      BY <3>2, <1>t, <1>n, <2>1, <2>2, <2>3, <2>5, <2>6, <2>8 DEF RowExists
    <3> QED
      BY <3>1, <3>2
  <2> QED
    BY <1>t, <2>1, <2>2, <2>4, <2>6, <2>7, <2>9 DEF ThrottleInv, RowExists
<1>3. ASSUME NEW a \in Attempt, FailFirst(a) PROVE ThrottleInv'
  <2>1. attempt' = [attempt EXCEPT ![a] = "inserting"] /\ ~RowExists /\ UNCHANGED <<row, guesses>>
    BY <1>3 DEF FailFirst, Move
  <2> QED
    BY <2>1 DEF ThrottleInv, RowExists
<1>4. ASSUME NEW a \in Attempt, InsertRow(a) PROVE ThrottleInv'
  <2>1. attempt[a] = "inserting" /\ attempt' = [attempt EXCEPT ![a] = "idle"] /\ guesses' = guesses + 1
    BY <1>4 DEF InsertRow, Move
  <2>2. Cardinality(InFlight') = Cardinality(InFlight) - 1
    BY <2>1, <1>t, EndsFlight
  <2>3. CASE RowExists
    <3>1. row' = row
      BY <1>4, <2>3 DEF InsertRow
    <3> QED
      BY <1>t, <1>n, <2>1, <2>2, <2>3, <3>1 DEF ThrottleInv, RowExists, Budget
  <2>4. CASE ~RowExists
    <3>3. row = NoRow /\ guesses = 0 /\ row' = CountedFailures
      BY <1>4, <2>4 DEF InsertRow, ThrottleInv
    <3>4. row.failures = 0 /\ row.blocked = FALSE /\ row.old = FALSE
      BY <3>3 DEF NoRow
    <3>5. /\ row' \in [failures : Nat, blocked : BOOLEAN, old : BOOLEAN]
          /\ row'.failures = IF row.old THEN 1 ELSE row.failures + 1
          /\ row'.old = FALSE
          /\ row'.blocked = (row'.failures >= MaxFailures \/ (row.blocked /\ ~row.old))
      BY <3>3, <1>t, CountedRow
    <3>1. /\ row' \in [failures : Nat, blocked : BOOLEAN, old : BOOLEAN]
          /\ row'.failures = 1 /\ ~row'.old /\ (row'.blocked <=> 1 >= MaxFailures) /\ guesses = 0
      BY <3>3, <3>4, <3>5
    <3>2. \A b \in Attempt : attempt'[b] # "holding"
      BY <2>1, <2>4 DEF ThrottleInv
    <3> QED
      BY <1>t, <1>n, <2>1, <2>2, <3>1, <3>2 DEF ThrottleInv, RowExists, Budget
  <2> QED
    BY <2>3, <2>4
<1>5. ASSUME NEW a \in Attempt, Succeed(a) PROVE ThrottleInv'
  <2>1. \A b \in Attempt : attempt'[b] # "holding"
    BY <1>5, <1>t DEF Succeed, Move, RowUnlocked, ThrottleInv
  <2>2. attempt' = [attempt EXCEPT ![a] = "idle"] /\ row' = NoRow /\ guesses' = 0
    BY <1>5 DEF Succeed, Move
  <2> QED
    BY <1>t, <2>1, <2>2 DEF ThrottleInv, NoRow, RowExists
<1>6. ASSUME NEW a \in Attempt, LeaveLogin(a) PROVE ThrottleInv'
  <2>1. attempt' = [attempt EXCEPT ![a] = "idle"] /\ UNCHANGED <<row, guesses>>
    BY <1>6 DEF LeaveLogin
  <2>2. Cardinality(InFlight') <= Cardinality(InFlight)
    <3>1. \/ Cardinality(InFlight') = Cardinality(InFlight) - 1
          \/ Cardinality(InFlight') = Cardinality(InFlight)
      BY <2>1, <1>t, EndsFlight
    <3> QED
      BY <3>1, <1>n
  <2>3. Budget' = Budget /\ RowExists' = RowExists
    BY <2>1 DEF Budget, RowExists
  <2>4. Budget \in Nat
    BY <1>t DEF Budget
  <2>5. RowExists => Cardinality(InFlight) < Cardinality(Attempt)
                     /\ guesses + Cardinality(InFlight) + Budget < MaxFailures + Cardinality(Attempt)
    BY DEF ThrottleInv
  <2>6. RowExists' => /\ Cardinality(InFlight') < Cardinality(Attempt)
                      /\ guesses' + Cardinality(InFlight') + Budget'
                           < MaxFailures + Cardinality(Attempt)
    BY <1>t, <1>n, <1>m, <2>1, <2>2, <2>3, <2>4, <2>5
  <2>7. \A b \in Attempt : attempt'[b] = "holding" => attempt[b] = "holding"
    BY <1>t, <2>1
  <2> QED
    BY <1>t, <1>n, <1>m, <2>1, <2>2, <2>3, <2>6, <2>7 DEF ThrottleInv
<1>7. CASE WindowPasses
  <2>1. UNCHANGED attempt /\ guesses' = 0 /\ RowExists /\ row' = [row EXCEPT !.old = TRUE]
    BY <1>7 DEF WindowPasses
  <2>2. InFlight' = InFlight
    BY <2>1 DEF InFlight
  <2>3. /\ row' \in [failures : Nat, blocked : BOOLEAN, old : BOOLEAN]
        /\ row'.failures = row.failures /\ row'.blocked = row.blocked /\ row'.old
    BY <1>t, <2>1
  <2>4. Budget' = MaxFailures
    BY <2>3 DEF Budget
  <2> QED
    BY <1>t, <1>n, <2>1, <2>2, <2>3, <2>4 DEF ThrottleInv, RowExists
<1>8. CASE LockoutEnds
  <2>1. /\ UNCHANGED attempt /\ guesses' = 0 /\ row.blocked /\ row' = [row EXCEPT !.blocked = FALSE]
        /\ row.failures < MaxFailures + Cardinality(Attempt)
    BY <1>8 DEF LockoutEnds
  <2>2. InFlight' = InFlight
    BY <2>1 DEF InFlight
  <2>3. RowExists
    BY <2>1 DEF ThrottleInv, NoRow
  <2>4. /\ row' \in [failures : Nat, blocked : BOOLEAN, old : BOOLEAN]
        /\ row'.failures = row.failures /\ ~row'.blocked /\ row'.old = row.old
    BY <1>t, <2>1
  <2>5. Budget' \in Nat /\ Budget' <= MaxFailures /\ (~row.old => Budget' = 1)
    BY <2>1, <2>4 DEF Budget, ThrottleInv
  <2> QED
    BY <1>t, <1>n, <2>1, <2>2, <2>3, <2>4, <2>5 DEF ThrottleInv, RowExists
<1>9. CASE UNCHANGED throttleVars
  BY <1>9 DEF throttleVars, ThrottleInv, RowExists, Budget, InFlight
<1> QED
  BY <1>1, <1>2, <1>3, <1>4, <1>5, <1>6, <1>7, <1>8, <1>9 DEF ThrottleNext

\* The inductive invariant of the login limit.
LEMMA ThrottleInvAlways == ThrottleSpec => []ThrottleInv
BY ThrottleInvInit, ThrottleInvStep, PTL DEF ThrottleSpec

LEMMA ThrottleInvBounds == ThrottleInv => ThrottleTypeOK /\ LockoutHolds
<1> SUFFICES ASSUME ThrottleInv PROVE ThrottleTypeOK /\ LockoutHolds
  OBVIOUS
<1>1. Cardinality(InFlight) \in Nat /\ Cardinality(Attempt) \in Nat
  BY AttemptCounts
<1>2. Budget \in Nat /\ row.failures \in Nat
  BY ThrottleBounds DEF Budget, ThrottleInv
<1>3. guesses <= MaxFailures + Cardinality(Attempt) - 1
  BY <1>1, <1>2, ThrottleBounds DEF ThrottleInv
<1>4. row.failures <= MaxFailures + 2 * Cardinality(Attempt)
  BY <1>1, <1>2, ThrottleBounds DEF ThrottleInv, NoRow
<1> QED
  BY <1>1, <1>2, <1>3, <1>4, ThrottleBounds DEF ThrottleInv, ThrottleTypeOK, LockoutHolds

THEOREM ThrottleTypes == ThrottleSpec => []ThrottleTypeOK
BY ThrottleInvAlways, ThrottleInvBounds, PTL

\* Between two lockouts no more passwords are tried than the limit and the requests let in
\* before there was a row to lock (_check_login_allowed, _record_login_failure).
THEOREM LockoutIsEnforced == ThrottleSpec => []LockoutHolds
BY ThrottleInvAlways, ThrottleInvBounds, PTL

-----------------------------------------------------------------------------
(* All components together.                                                *)

\* In the whole each component behaves as it does by itself: they share no state, and a
\* request is about one of them.
THEOREM ComponentsKeepTheirSpecs ==
  AdministrationSpec => /\ IdentitySpec /\ TenancySpec /\ ThrottleSpec /\ SetupSpec
                        /\ CloudSpec /\ ClusterSpec /\ CatalogSpec
<1>1. AdministrationInit =>
        /\ focus \in Components
        /\ IdentityInit /\ TenancyInit /\ ThrottleInit /\ SetupInit
        /\ CloudInit /\ ClusterInit /\ CatalogInit
  BY DEF AdministrationInit
<1>2. [AdministrationNext]_administrationVars =>
        /\ [IdentityNext]_identityVars /\ [TenancyNext]_tenancyVars
        /\ [ThrottleNext]_throttleVars /\ [SetupNext]_setupVars
        /\ [CloudNext]_cloudVars /\ [ClusterNext]_clusterVars /\ [CatalogNext]_catalogVars
  BY DEF AdministrationNext, FocusMoves, administrationVars
<1> QED
  BY <1>1, <1>2, PTL
  DEF AdministrationSpec, IdentitySpec, TenancySpec, ThrottleSpec, SetupSpec, CloudSpec,
      ClusterSpec, CatalogSpec

\* The rows of users, tokens, organizations, limits, labs, Cloudflare, clusters and
\* templates are of their types, whatever administrators, staff and users ask for.
THEOREM AdministrationTypes == AdministrationSpec => []AdministrationTypeOK
<1> DEFINE Known == focus \in Components
<1>1. AdministrationInit => Known
  BY DEF AdministrationInit
<1>2. Known /\ [AdministrationNext]_administrationVars => Known'
  BY DEF AdministrationNext, administrationVars
<1>3. /\ Known /\ IdentityTypeOK /\ TenancyTypeOK /\ ThrottleTypeOK /\ SetupTypeOK
      /\ CloudflareTypeOK /\ ClusterTypeOK /\ CatalogTypeOK
      => AdministrationTypeOK
  BY DEF AdministrationTypeOK
<1> HIDE DEF Known
<1>4. AdministrationSpec => []Known
  BY <1>1, <1>2, PTL DEF AdministrationSpec
<1> QED
  BY <1>3, <1>4, ComponentsKeepTheirSpecs, IdentityTypes, TenancyTypes, ThrottleTypes, SetupTypes,
     CloudflareTypes, ClusterTypes, CatalogTypes, PTL
=============================================================================
