----------------------------- MODULE MCBackground -----------------------------
(***************************************************************************)
(* The parts of the API that run on by themselves: console connections,    *)
(* the asset downloads and the reconciliation pass.  They share no state   *)
(* with one another, so the product of their states has nothing to tell:   *)
(* each behaviour is about one of them, its focus, and the others stay as  *)
(* they are when nothing has happened yet.                                 *)
(***************************************************************************)
EXTENDS Sessions, AssetSync, Reconciliation

CONSTANTS c1, c2

VARIABLE focus \* the component this behaviour is about

backgroundVars == <<focus, sessionVars, syncVars, reconVars>>

MCConn == {c1, c2}
MCUses == [k \in MCConn |-> {"ssh", "proxmox", "guest"}]

Components == {"sessions", "sync", "reconciliation"}

\* No connection has been made, and no earlier process has left any.
NoConnections ==
  /\ sessions = [k \in Conn |-> NoSession] /\ console = [k \in Conn |-> NoConsole]
  /\ pass = [name |-> "none", seen |-> {}] /\ entitled = TRUE
  /\ profile = [revision |-> 1, enabled |-> TRUE]
  /\ credential = [revision |-> 1, auto |-> TRUE, generation |-> 1]
  /\ restarts = 0 /\ pageBeats = 0

BackgroundInit ==
  /\ focus \in Components
  /\ IF focus = "sessions" THEN SessionsInit ELSE NoConnections
  /\ SyncInit /\ ReconInit

FocusMoves ==
  \/ focus = "sessions" /\ SessionsNext /\ UNCHANGED <<syncVars, reconVars>>
  \/ focus = "sync" /\ SyncNext /\ UNCHANGED <<sessionVars, reconVars>>
  \/ focus = "reconciliation" /\ ReconNext /\ UNCHANGED <<sessionVars, syncVars>>

BackgroundNext == focus' = focus /\ FocusMoves

\* Without connections and jobs, nothing of the first two is ever enabled; a pass may
\* start whenever the scheduler comes round, so its fairness names the focus.
ReconFocus(A) == focus = "reconciliation" /\ A

BackgroundFairness ==
  /\ SessionsFairness /\ SyncFairness
  /\ \A p \in Process : WF_reconVars(ReconFocus(StartPass(p) \/ PassStep(p)))
  /\ WF_reconVars(ReconFocus(lockEntry = "orphan" /\ LockExpires))

BackgroundSpec == BackgroundInit /\ [][BackgroundNext]_backgroundVars /\ BackgroundFairness

\* Every component's variables are of their types.
BackgroundTypeOK ==
  focus \in Components /\ SessionsTypeOK /\ SyncTypeOK /\ ReconTypeOK
=============================================================================
