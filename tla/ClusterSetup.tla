---------------------------- MODULE ClusterSetup ----------------------------
(***************************************************************************)
(* Registration of Proxmox clusters: services/proxmox_bootstrap.py and the *)
(* cluster endpoints of routers/admin_proxmox_setup.py.                    *)
(*                                                                         *)
(* An automatic bootstrap logs in to one host as root, makes the role, the *)
(* service user, its grant and its API token, checks the token, writes the *)
(* cluster row and takes back what it made when a step fails.  Each await  *)
(* lets another request run.  The identities at the host have fixed names, *)
(* so a value here is the bootstrap that made the object, Site when it was *)
(* there before, None when there is no such object.                        *)
(***************************************************************************)
EXTENDS Integers

CONSTANTS
  Bootstrap,       \* bootstrap requests
  ClusterName,     \* names given to clusters
  None, Site,      \* no maker; the site's own administrator
  MaxSetupFaults,  \* bound on failed and lost answers and on crashes
  MaxManualTokens  \* bound on manual-token registrations

ASSUME SetupBounds ==
  /\ None \notin Bootstrap /\ Site \notin Bootstrap /\ None # Site
  /\ ClusterName # {}
  /\ MaxSetupFaults \in Nat /\ MaxManualTokens \in Nat

VARIABLES
  access,       \* at the host: makers of role, user and token; the grant
  clusters,     \* the cluster rows, by name
  bootstraps,   \* the bootstrap requests
  manualTokens, \* manual registrations so far
  setupFaults,  \* faults so far
  leftBehind,   \* bootstraps that lost an answer or could not delete
  withdrawn     \* bootstraps whose role was deleted by another one

clusterVars == <<access, clusters, bootstraps, manualTokens, setupFaults,
                 leftBehind, withdrawn>>

NoCluster == [secret |-> None, active |-> FALSE, used |-> FALSE]
Registered(n) == clusters[n] # NoCluster

Failing  == {"undoUser", "undoRole"}
Finished == {"refused", "failed", "crashed", "done"}

ClusterTypeOK ==
  LET Maker == Bootstrap \cup {None, Site}
  IN  /\ access \in [role : Maker, user : Maker, granted : BOOLEAN,
                     token : Bootstrap \cup {None}]
      /\ clusters \in [ClusterName ->
                        [secret : Maker, active : BOOLEAN, used : BOOLEAN]]
      /\ bootstraps \in [Bootstrap ->
           [pc : {"new", "listRoles", "addRole", "listUsers", "addUser",
                  "grant", "addToken", "probe", "place", "commit"}
                 \cup Failing \cup Finished,
            name : ClusterName, madeRole : BOOLEAN, madeUser : BOOLEAN,
            active : BOOLEAN]]
      /\ manualTokens \in 0..MaxManualTokens
      /\ setupFaults \in 0..MaxSetupFaults
      /\ leftBehind \subseteq Bootstrap /\ withdrawn \subseteq Bootstrap

----------------------------------------------------------------------------
At(b, pc) == bootstraps[b].pc = pc

GoesTo(b, pc) == bootstraps' = [bootstraps EXCEPT ![b].pc = pc]

AnswerFails == setupFaults < MaxSetupFaults /\ setupFaults' = setupFaults + 1

\* Every exception after the login rolls back and compensates, in this order.
Compensate(b) ==
  CASE bootstraps[b].madeUser -> "undoUser"
    [] ~bootstraps[b].madeUser /\ bootstraps[b].madeRole -> "undoRole"
    [] OTHER -> "failed"

Raises(b) == GoesTo(b, Compensate(b))

\* The name must be free; then the root login, which may be refused.
BeginBootstrap(b) ==
  /\ At(b, "new")
  /\ \E n \in ClusterName :
       \/ /\ ~Registered(n)
          /\ bootstraps' = [bootstraps EXCEPT ![b].pc = "listRoles",
                                              ![b].name = n]
       \/ bootstraps' = [bootstraps EXCEPT ![b].pc = "refused",
                                           ![b].name = n]
  /\ UNCHANGED <<access, clusters, manualTokens, setupFaults, leftBehind,
                 withdrawn>>

\* A role that is there may have other privileges than the service needs.
ListRoles(b) ==
  /\ At(b, "listRoles")
  /\ \/ access.role = None /\ GoesTo(b, "addRole")
     \/ access.role # None /\ GoesTo(b, "listUsers")
     \/ access.role = Site /\ Raises(b)
  /\ UNCHANGED <<access, clusters, manualTokens, setupFaults, leftBehind,
                 withdrawn>>

ListUsers(b) ==
  /\ At(b, "listUsers")
  /\ IF access.user = None THEN GoesTo(b, "addUser") ELSE Raises(b)
  /\ UNCHANGED <<access, clusters, manualTokens, setupFaults, leftBehind,
                 withdrawn>>

\* A request that adds an object answers, is refused, or its answer is lost
\* and it may have taken effect.
Adds(b, added, accepted) ==
  \/ /\ access' = added /\ bootstraps' = accepted
     /\ UNCHANGED <<setupFaults, leftBehind>>
  \/ /\ AnswerFails /\ Raises(b)
     /\ \/ UNCHANGED <<access, leftBehind>>
        \/ access' = added /\ leftBehind' = leftBehind \cup {b}

\* It is always refused when the object is there by now.
AddRole(b) ==
  /\ At(b, "addRole") /\ access.role = None
  /\ Adds(b, [access EXCEPT !.role = b],
          [bootstraps EXCEPT ![b].pc = "listUsers", ![b].madeRole = TRUE])
  /\ UNCHANGED <<clusters, manualTokens, withdrawn>>

\* Mutant: the user made is not remembered for the compensation.
AddUserMutant(b) ==
  /\ At(b, "addUser") /\ access.user = None
  /\ Adds(b, [access EXCEPT !.user = b], [bootstraps EXCEPT ![b].pc = "grant"])
  /\ UNCHANGED <<clusters, manualTokens, withdrawn>>

AddUser(b) ==
  /\ At(b, "addUser") /\ access.user = None
  /\ Adds(b, [access EXCEPT !.user = b],
          [bootstraps EXCEPT ![b].pc = "grant", ![b].madeUser = TRUE])
  /\ UNCHANGED <<clusters, manualTokens, withdrawn>>

\* The grant needs the role to be there still.
Grant(b) ==
  /\ At(b, "grant") /\ access.role # None
  /\ Adds(b, [access EXCEPT !.granted = TRUE],
          [bootstraps EXCEPT ![b].pc = "addToken"])
  /\ UNCHANGED <<clusters, manualTokens, withdrawn>>

AddRefused(b) ==
  /\ \/ At(b, "addRole") /\ access.role # None
     \/ At(b, "addUser") /\ access.user # None
     \/ At(b, "grant") /\ access.role = None
  /\ Raises(b)
  /\ UNCHANGED <<access, clusters, manualTokens, setupFaults, leftBehind,
                 withdrawn>>

AddToken(b) ==
  /\ At(b, "addToken")
  /\ Adds(b, [access EXCEPT !.token = b], [bootstraps EXCEPT ![b].pc = "probe"])
  /\ UNCHANGED <<clusters, manualTokens, withdrawn>>

\* A token without any privilege passes: it just sees no resources.
Probe(b) ==
  /\ At(b, "probe")
  /\ \/ GoesTo(b, "place") /\ UNCHANGED setupFaults
     \/ AnswerFails /\ Raises(b)
  /\ UNCHANGED <<access, clusters, manualTokens, leftBehind, withdrawn>>

SomeActive == \E n \in ClusterName : clusters[n].active

Place(b) ==
  /\ At(b, "place")
  /\ bootstraps' = [bootstraps EXCEPT ![b].pc = "commit",
                                      ![b].active = ~SomeActive]
  /\ UNCHANGED <<access, clusters, manualTokens, setupFaults, leftBehind,
                 withdrawn>>

\* The indexes on the name and on the one active row decide at the commit.
CommitCluster(b) ==
  LET n == bootstraps[b].name
      taken == Registered(n) \/ (bootstraps[b].active /\ SomeActive)
  IN  /\ At(b, "commit")
      /\ IF taken
           THEN Raises(b) /\ UNCHANGED clusters
           ELSE /\ clusters' = [clusters EXCEPT ![n] =
                     [secret |-> b, active |-> bootstraps[b].active,
                      used |-> FALSE]]
                /\ GoesTo(b, "done")
      /\ UNCHANGED <<access, manualTokens, setupFaults, leftBehind, withdrawn>>

\* Deleting the user takes its token and its grants with it.
WithoutUser == [access EXCEPT !.user = None, !.token = None, !.granted = FALSE]

UndoUser(b) ==
  /\ At(b, "undoUser")
  /\ GoesTo(b, IF bootstraps[b].madeRole THEN "undoRole" ELSE "failed")
  /\ \/ access' = WithoutUser /\ UNCHANGED <<setupFaults, leftBehind>>
     \/ AnswerFails /\ leftBehind' = leftBehind \cup {b} /\ UNCHANGED access
  /\ UNCHANGED <<clusters, manualTokens, withdrawn>>

\* Deleting the role takes the grants that name it with it.
UndoRole(b) ==
  /\ At(b, "undoRole")
  /\ GoesTo(b, "failed")
  /\ \/ /\ access' = [access EXCEPT !.role = None, !.granted = FALSE]
        /\ withdrawn' = withdrawn \cup ({access.user} \cap (Bootstrap \ {b}))
        /\ UNCHANGED <<setupFaults, leftBehind>>
     \/ /\ AnswerFails /\ leftBehind' = leftBehind \cup {b}
        /\ UNCHANGED <<access, withdrawn>>
  /\ UNCHANGED <<clusters, manualTokens>>

----------------------------------------------------------------------------
(* The other cluster endpoints and the crash of the API.                   *)

\* A token made by hand, checked, then written over whatever row has the name.
ManualToken(n) ==
  /\ manualTokens < MaxManualTokens
  /\ manualTokens' = manualTokens + 1
  /\ clusters' = [clusters EXCEPT ![n].secret = Site]
  /\ UNCHANGED <<access, bootstraps, setupFaults, leftBehind, withdrawn>>

Activate(n) ==
  /\ Registered(n)
  /\ clusters' = [m \in ClusterName |->
                    [clusters[m] EXCEPT !.active = (m = n)]]
  /\ UNCHANGED <<access, bootstraps, manualTokens, setupFaults, leftBehind,
                 withdrawn>>

\* Templates are imported for, and machines made on, the active cluster.
UseCluster(n) ==
  /\ clusters[n].active /\ ~clusters[n].used
  /\ clusters' = [clusters EXCEPT ![n].used = TRUE]
  /\ UNCHANGED <<access, bootstraps, manualTokens, setupFaults, leftBehind,
                 withdrawn>>

\* The identities at the host are left alone.
DeleteCluster(n) ==
  /\ Registered(n) /\ ~clusters[n].used
  /\ clusters' = [clusters EXCEPT ![n] = NoCluster]
  /\ UNCHANGED <<access, bootstraps, manualTokens, setupFaults, leftBehind,
                 withdrawn>>

RenameCluster(n, m) ==
  /\ Registered(n) /\ ~Registered(m)
  /\ clusters' = [clusters EXCEPT ![m] = clusters[n], ![n] = NoCluster]
  /\ UNCHANGED <<access, bootstraps, manualTokens, setupFaults, leftBehind,
                 withdrawn>>

\* The API stops: every request under way ends without its compensation.
ApiStops ==
  LET hit == {b \in Bootstrap : ~(bootstraps[b].pc \in Finished \cup {"new"})}
  IN  /\ hit # {}
      /\ AnswerFails
      /\ bootstraps' = [b \in Bootstrap |->
           IF b \in hit THEN [bootstraps[b] EXCEPT !.pc = "crashed"]
                        ELSE bootstraps[b]]
      /\ UNCHANGED <<access, clusters, manualTokens, leftBehind, withdrawn>>

ClusterInit ==
  /\ access \in [role : {None, Site}, user : {None, Site}, granted : {FALSE},
                 token : {None}]
  /\ clusters = [n \in ClusterName |-> NoCluster]
  /\ bootstraps \in [Bootstrap ->
       [pc : {"new"}, name : {CHOOSE n \in ClusterName : TRUE},
        madeRole : {FALSE}, madeUser : {FALSE}, active : {FALSE}]]
  /\ manualTokens = 0 /\ setupFaults = 0
  /\ leftBehind = {} /\ withdrawn = {}

ClusterNext ==
  \/ \E b \in Bootstrap :
       \/ BeginBootstrap(b) \/ ListRoles(b) \/ AddRole(b) \/ ListUsers(b) \/ AddUser(b)
       \/ Grant(b) \/ AddRefused(b) \/ AddToken(b) \/ Probe(b) \/ Place(b) \/ CommitCluster(b)
       \/ UndoUser(b) \/ UndoRole(b)
  \/ \E n \in ClusterName :
       \/ ManualToken(n) \/ Activate(n) \/ UseCluster(n) \/ DeleteCluster(n)
       \/ \E m \in ClusterName : RenameCluster(n, m)
  \/ ApiStops

ClusterSpec == ClusterInit /\ [][ClusterNext]_clusterVars

----------------------------------------------------------------------------
(* A bootstrap takes effect as a whole or not at all, whatever runs beside *)
(* it.  One that failed has taken back the role and the user it made, and  *)
(* none but its own, unless an answer was lost or a delete failed.  The    *)
(* token that a finished one stored works: its user is there, granted,     *)
(* with this very token; excepted are those whose role was made, and on    *)
(* failure deleted, by another bootstrap that ran at the same time.        *)
BootstrapAllOrNothing ==
  /\ \A b \in Bootstrap \ leftBehind :
       At(b, "failed") => access.role # b /\ access.user # b
  /\ \A n \in ClusterName :
       LET b == clusters[n].secret
       IN  b \in Bootstrap \ withdrawn =>
             access.user = b /\ access.token = b /\ access.granted
=============================================================================
