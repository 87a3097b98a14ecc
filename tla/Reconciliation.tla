---------------------------- MODULE Reconciliation ----------------------------
(***************************************************************************)
(* The reconciliation pass (workers/reconciliation_worker.py): it reads    *)
(* the VM rows, asks Proxmox for each of them in turn and commits the      *)
(* statuses it saw, while the operation worker and the VM API write the    *)
(* same column.  A pass runs under the worker lock.                        *)
(***************************************************************************)
EXTENDS WorkerLocks, Integers, FiniteSets

CONSTANTS
  Vm,               \* VM rows
  MaxChanges,       \* bound: changes of guests and rows by others
  MaxReconFaults    \* bound: deaths of processes, failed observations, passes over 60 seconds

ASSUME ReconciliationBounds == MaxChanges \in Nat /\ MaxReconFaults \in Nat

VARIABLES
  vmRows,  \* status and deleted_at of student_vms
  actual,  \* the guests of Proxmox VE
  recon,   \* the pass of each process: what it loaded, what it saw, whether it is late
  spent    \* history: changes and faults so far

reconVars == <<lockEntry, lockToken, vmRows, actual, recon, spent>>

Power == {"running", "stopped", "missing"}
NoPass == [active |-> FALSE, late |-> FALSE, todo |-> {}, loaded |-> <<>>, seen |-> <<>>]

ReconTypeOK ==
  /\ LockTypeOK
  /\ vmRows \in [Vm -> [status : Power \cup {"deleted"}, deleted : BOOLEAN]]
  /\ actual \in [Vm -> Power]
  /\ \A p \in Process : recon[p].active =>
       /\ recon[p].todo \subseteq Vm /\ recon[p].late \in BOOLEAN
       /\ {recon[p].loaded, recon[p].seen} \subseteq [Vm -> Power \cup {"deleted"}]
  /\ spent \in [changes : 0..MaxChanges, faults : 0..MaxReconFaults]

ReconInit ==
  /\ LockInit
  /\ vmRows = [v \in Vm |-> [status |-> "running", deleted |-> FALSE]]
  /\ actual = [v \in Vm |-> "running"]
  /\ recon = [p \in Process |-> NoPass]
  /\ spent = [changes |-> 0, faults |-> 0]

ChangeSpent == spent.changes < MaxChanges /\ spent' = [spent EXCEPT !.changes = @ + 1]
FaultSpent == spent.faults < MaxReconFaults /\ spent' = [spent EXCEPT !.faults = @ + 1]

\* run_once takes the lock and _reconcile reads the rows that are not deleted.
StartPass(p) ==
  LET status == [v \in Vm |-> vmRows[v].status] IN
  /\ ~recon[p].active /\ Acquire(p)
  /\ recon' = [recon EXCEPT ![p] =
       [active |-> TRUE, late |-> FALSE, loaded |-> status, seen |-> status,
        todo |-> {v \in Vm : ~vmRows[v].deleted}]]
  /\ UNCHANGED <<vmRows, actual, spent>>

\* get_vm_status of one row, not found included.
Observe(p, v) ==
  /\ recon[p].active /\ v \in recon[p].todo
  /\ recon' = [recon EXCEPT ![p].todo = @ \ {v}, ![p].seen[v] = actual[v]]
  /\ UNCHANGED <<lockVars, vmRows, actual, spent>>

\* Any other error, or a VM without a cluster: the row keeps its status.
ObserveFails(p, v) ==
  /\ recon[p].active /\ v \in recon[p].todo /\ FaultSpent
  /\ recon' = [recon EXCEPT ![p].todo = @ \ {v}]
  /\ UNCHANGED <<lockVars, vmRows, actual>>

\* Mutant: a guest that is not found is counted, but its row is not touched.
WrittenMutant(p, v) ==
  IF recon[p].seen[v] \notin {recon[p].loaded[v], "missing"} THEN recon[p].seen[v] ELSE vmRows[v].status

\* Mutant: a row whose guest did not change is set to a status of its own.
WrittenUnchangedMutant(p, v) ==
  IF recon[p].seen[v] # recon[p].loaded[v] THEN recon[p].seen[v] ELSE "unchanged"

\* The UPDATE names a row's status when it differs from the one loaded.
Written(p, v) ==
  IF recon[p].seen[v] # recon[p].loaded[v] THEN recon[p].seen[v] ELSE vmRows[v].status

EndPass(p) ==
  /\ recon[p].active /\ recon[p].todo = {}
  /\ vmRows' = [v \in Vm |-> [vmRows[v] EXCEPT !.status = Written(p, v)]]
  /\ recon' = [recon EXCEPT ![p] = NoPass]
  /\ Release(p)
  /\ UNCHANGED <<actual, spent>>

\* The lock's time is over: fault of a pass that takes longer.
LockExpires ==
  /\ EntryExpires
  /\ IF lockEntry \in Process
     THEN recon' = [recon EXCEPT ![lockEntry].late = TRUE] /\ FaultSpent
     ELSE UNCHANGED <<recon, spent>>
  /\ UNCHANGED <<vmRows, actual>>

DieInPass(p) ==
  /\ recon[p].active /\ ProcessDies(p) /\ FaultSpent
  /\ recon' = [recon EXCEPT ![p] = NoPass]
  /\ UNCHANGED <<vmRows, actual>>

\* Users, staff and hosts change guests; operations and status requests write what they saw.
GuestChanges(v, power) ==
  /\ actual[v] # power /\ actual' = [actual EXCEPT ![v] = power] /\ ChangeSpent
  /\ UNCHANGED <<lockVars, vmRows, recon>>
OthersWrite(v) ==
  /\ vmRows[v].status # actual[v] /\ ~vmRows[v].deleted
  /\ vmRows' = [vmRows EXCEPT ![v].status = actual[v]] /\ ChangeSpent
  /\ UNCHANGED <<lockVars, actual, recon>>
DeleteRow(v) ==
  /\ ~vmRows[v].deleted /\ vmRows' = [vmRows EXCEPT ![v] = [status |-> "deleted", deleted |-> TRUE]]
  /\ ChangeSpent /\ UNCHANGED <<lockVars, actual, recon>>

PassStep(p) == EndPass(p) \/ \E v \in Vm : Observe(p, v)

ReconNext ==
  \/ \E p \in Process : \/ StartPass(p) \/ PassStep(p) \/ DieInPass(p)
                        \/ \E v \in Vm : ObserveFails(p, v)
  \/ LockExpires
  \/ \E v \in Vm : \/ OthersWrite(v) \/ DeleteRow(v) \/ \E power \in Power : GuestChanges(v, power)

ReconSpec == ReconInit /\ [][ReconNext]_reconVars

\* The scheduler starts passes, calls of Proxmox have time limits, entries expire.
ReconFairness ==
  /\ \A p \in Process : WF_reconVars(StartPass(p) \/ PassStep(p))
  /\ WF_reconVars(lockEntry = "orphan" /\ LockExpires)

-----------------------------------------------------------------------------

\* At most one pass is within its lock's time, also after passes that outlived theirs
\* released it (RedisWorkerLockStore.release compares the token).
OnePassInTime == Cardinality({p \in Process : recon[p].active /\ ~recon[p].late}) <= 1

\* When guests and rows stop changing, the rows show what Proxmox has, whatever
\* overlapped, died or wrote from old reads before.
StatusConverges == <>[](\A v \in Vm : vmRows[v].deleted \/ vmRows[v].status = actual[v])
=============================================================================
