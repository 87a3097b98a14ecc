------------------------------ MODULE Classroom ------------------------------
(***************************************************************************)
(* A lab run, its assignments and the durable operation queue together.    *)
(*                                                                         *)
(* Staff schedule, activate, end or cancel a run, create and revoke        *)
(* assignments and act on all VMs of a run (api/routers/classroom.py); the *)
(* cleanup worker expires what the clock has closed                        *)
(* (workers/cleanup_worker.py).  Students provision and use their VMs      *)
(* meanwhile, and workers execute: DurableOperations.                      *)
(*                                                                         *)
(* A request handler is one database transaction and one action.  Only     *)
(* change_lab_run_state is split: its UPDATE of an assignment waits for    *)
(* the row lock that create_vm holds across its calls to Proxmox.          *)
(***************************************************************************)
EXTENDS DurableOperations, FiniteSets

\* The lab_assignments table has finitely many rows.
ASSUME ClassroomBounds == IsFiniteSet(Assignment)

VARIABLE closing  \* change_lab_run_state between its SELECT and its COMMIT

classroomVars == <<vars, closing>>

NotClosing == [next |-> "none", by |-> Nobody, rows |-> {},
               seen |-> [a \in Assignment |-> Nobody]]

ClassroomInit ==
  /\ operations = [o \in OpId |-> NoOperation(System)]
  /\ job = [w \in Worker |-> Idle]
  /\ vms = [v \in Vm |-> [owner |-> Nobody, tombstoned |-> FALSE]]
  /\ assignments =
       [a \in Assignment |-> [vm |-> Nobody, status |-> "none", locked |-> FALSE]]
  /\ run = [state |-> "draft", clock |-> "early"]
  /\ access = [u \in Actor |-> TRUE]
  /\ guests = [v \in Vm |-> "absent"]
  /\ tasks = [t \in TaskId |-> NoTask]
  /\ faults = [count |-> 0, stalled |-> FALSE]
  /\ closing = NotClosing

Staff(u) == access[u] /\ RoleOf[u] \in {"admin", "instructor"}

\* _run_for_user(lock=True): the lab_runs row is not held by a closing.
RunUnlocked == closing.next = "none"

-----------------------------------------------------------------------------
(* The queue, as the classroom uses it.                                    *)

\* enqueue_operation finds an operation with this idempotency key.
KeyTaken(key, v) ==
  \E o \in OpId : operations[o].state # "absent" /\ operations[o].key = key
                  /\ operations[o].vm = v

\* enqueue_operation once for each VM of a set, in some order.
EnqueueAll(requested, type, by, cleanup, key) ==
  \E id \in [requested -> OpId] :
    LET new == {id[v] : v \in requested} IN
    /\ \A v1, v2 \in requested : id[v1] = id[v2] => v1 = v2
    /\ \A o \in new : operations[o].state = "absent"
    /\ \A o \in new, p \in OpId \ new : p < o => operations[p].state # "absent"
    /\ operations' = [o \in OpId |->
         IF o \notin new THEN operations[o]
         ELSE [NoOperation(by) EXCEPT !.state = "queued", !.type = type,
                 !.vm = CHOOSE v \in requested : id[v] = o,
                 !.cleanup = cleanup, !.key = key]]

-----------------------------------------------------------------------------
(* The run: change_lab_run_state.                                          *)

ScheduleRun(u) ==
  /\ Staff(u) /\ RunUnlocked
  /\ run.state = "draft"
  /\ run' = [run EXCEPT !.state = "scheduled"]
  /\ UNCHANGED <<operations, job, records, access, proxmox, faults, closing>>

\* Refused before starts_at and from ends_at on.
ActivateRun(u) ==
  /\ Staff(u) /\ RunUnlocked
  /\ run.state \in {"draft", "scheduled"} /\ run.clock = "during"
  /\ run' = [run EXCEPT !.state = "active"]
  /\ UNCHANGED <<operations, job, records, access, proxmox, faults, closing>>

\* end or cancel: the run row is locked, the open assignments are read.
CloseRead(u, next) ==
  /\ Staff(u) /\ RunUnlocked
  /\ \/ next = "ended" /\ run.state = "active"
     \/ next = "cancelled" /\ run.state \in {"draft", "scheduled", "active"}
  /\ closing' = [next |-> next, by |-> u,
                 rows |-> {a \in Assignment : assignments[a].status \in {"assigned", "ready"}},
                 seen |-> [a \in Assignment |-> assignments[a].vm]]
  /\ UNCHANGED vars

\* end or cancel: every row read is closed and each VM it was read with gets a
\* delete; the commit waits until create_vm holds none of the rows.
CloseCommit ==
  /\ closing.next # "none"
  /\ \A a \in closing.rows : ~assignments[a].locked
  /\ LET linked == {closing.seen[a] : a \in closing.rows} \ {Nobody} IN
       EnqueueAll({v \in linked : ~KeyTaken("close", v)},
                  "delete", closing.by, TRUE, "close")
  /\ assignments' = [a \in Assignment |->
       IF a \notin closing.rows THEN assignments[a]
       ELSE [assignments[a] EXCEPT
               !.status = IF closing.next = "ended" THEN "expired" ELSE "revoked"]]
  /\ run' = [run EXCEPT !.state = closing.next]
  /\ closing' = NotClosing
  /\ UNCHANGED <<job, vms, access, proxmox, faults>>

\* Time reaches run.starts_at.
StartTimePasses ==
  /\ run.clock = "early"
  /\ run' = [run EXCEPT !.clock = "during"]
  /\ UNCHANGED <<operations, job, records, access, proxmox, faults, closing>>

-----------------------------------------------------------------------------
(* Assignments.                                                            *)

\* Mutant: the assignment starts in a state of lab runs.
CreateAssignmentActive(u, a) ==
  /\ Staff(u) /\ RunUnlocked /\ access[StudentOf[a]]
  /\ assignments[a].status = "none"
  /\ assignments' = [assignments EXCEPT ![a].status = "active"]
  /\ UNCHANGED <<operations, job, vms, run, access, proxmox, faults, closing>>

\* create_run_assignment and each row of bulk_create_run_assignments: a new
\* row, or a revoked one without a VM put to use again.
CreateAssignment(u, a) ==
  /\ Staff(u) /\ RunUnlocked
  /\ run.state \notin {"ended", "cancelled"}
  /\ access[StudentOf[a]]
  /\ \/ assignments[a].status = "none"
     \/ assignments[a].status = "revoked" /\ assignments[a].vm = Nobody
  /\ assignments' = [assignments EXCEPT ![a].status = "assigned"]
  /\ UNCHANGED <<operations, job, vms, run, access, proxmox, faults, closing>>

\* revoke_run_assignment: the VM stays linked and no operation is queued.
RevokeAssignment(u, a) ==
  /\ Staff(u) /\ RunUnlocked
  /\ assignments[a].status # "none" /\ ~assignments[a].locked
  /\ assignments' = [assignments EXCEPT ![a].status = "revoked"]
  /\ UNCHANGED <<operations, job, vms, run, access, proxmox, faults, closing>>

\* bulk_vm_action: one operation for every linked VM, whatever the run's state.
BulkVmAction(u, type) ==
  /\ Staff(u)
  /\ EnqueueAll({v \in Vm : Linked(v) # {}}, type, u, type = "delete", "uuid")
  /\ UNCHANGED <<job, records, run, access, proxmox, faults, closing>>

\* Mutant: assignments that are expired already are passed over.
CleanupWorkerOpenOnly ==
  LET expired == {a \in Assignment : assignments[a].vm # Nobody
                                     /\ assignments[a].status \in {"assigned", "ready"}}
  IN
  /\ run.clock = "late"
  /\ EnqueueAll({assignments[a].vm : a \in expired} \ {v \in Vm : KeyTaken("expire", v)},
                "delete", System, TRUE, "expire")
  /\ assignments' = [a \in Assignment |->
       IF a \in expired THEN [assignments[a] EXCEPT !.status = "expired"] ELSE assignments[a]]
  /\ UNCHANGED <<job, vms, run, access, proxmox, faults, closing>>

\* cleanup_worker.run_once, once expires_at has passed.
CleanupWorker ==
  LET expired == {a \in Assignment :
                    /\ assignments[a].vm # Nobody
                    /\ assignments[a].status \in {"assigned", "ready", "expired"}}
  IN
  /\ run.clock = "late"
  /\ EnqueueAll({assignments[a].vm : a \in expired} \ {v \in Vm : KeyTaken("expire", v)},
                "delete", System, TRUE, "expire")
  /\ assignments' = [a \in Assignment |->
       IF a \notin expired THEN assignments[a]
       ELSE [assignments[a] EXCEPT !.status = "expired"]]
  /\ UNCHANGED <<job, vms, run, access, proxmox, faults, closing>>

-----------------------------------------------------------------------------

Schooling ==
  \/ \E u \in Actor : ScheduleRun(u)
  \/ \E u \in Actor : ActivateRun(u)
  \/ \E u \in Actor, next \in {"ended", "cancelled"} : CloseRead(u, next)
  \/ CloseCommit
  \/ StartTimePasses
  \/ \E u \in Actor, a \in Assignment : CreateAssignment(u, a)
  \/ \E u \in Actor, a \in Assignment : RevokeAssignment(u, a)
  \/ \E u \in Actor, type \in Requested \ {"create"} : BulkVmAction(u, type)
  \/ CleanupWorker

ClassroomNext == (Next /\ UNCHANGED closing) \/ Schooling

ClassroomSpec == ClassroomInit /\ [][ClassroomNext]_classroomVars

\* The scheduler keeps the queue and the cleanup worker running.
ClassroomFairSpec ==
  ClassroomSpec /\ Fairness /\ WF_classroomVars(CleanupWorker)

-----------------------------------------------------------------------------
(* Properties.                                                             *)

ClassroomTypeOK ==
  /\ TypeOK
  /\ closing \in [next: {"none", "ended", "cancelled"}, by: Actor \cup {Nobody},
                  rows: SUBSET Assignment, seen: [Assignment -> Vm \cup {Nobody}]]

\* A student never has more guests in Proxmox than assignments, through
\* deletions, record removals, revocations and assignments put to use again.
GuestsWithinAssignments ==
  \A u \in Actor : RoleOf[u] = "student" =>
    Cardinality({v \in Vm : vms[v].owner = u /\ guests[v] # "absent"})
      <= Cardinality({a \in Assignment : StudentOf[a] = u})

\* Once the clock has closed a run, a VM linked to an assignment that is not
\* revoked is taken out of Proxmox and unlinked, or its cleanup is on record
\* as failed (cleanup_worker, vm.delete).
ExpiredVmIsReleased ==
  \A v \in Vm :
    (run.clock = "late" /\ \E a \in Linked(v) : assignments[a].status # "revoked")
      ~> \/ Linked(v) = {} /\ guests[v] = "absent"
         \/ \E a \in Linked(v) : assignments[a].status = "revoked"
         \/ \E o \in OpId : /\ operations[o].vm = v /\ operations[o].cleanup
                            /\ operations[o].state = "failed"

\* docs/classroom/lab-runs-and-assignments.md: a revoked assignment is no longer
\* accepted; it takes a staff member to assign it again.
RevocationSticks ==
  [][\A a \in Assignment :
       assignments[a].status = "revoked" /\ assignments[a].vm # Nobody =>
         assignments'[a].status \notin {"assigned", "ready"}]_classroomVars

\* docs/operations/durable-operations.md: ending a run queues a cleanup delete
\* for the VM of every assignment that it leaves expired.
EndedRunQueuesCleanup ==
  [][run.state # "ended" /\ run'.state = "ended" =>
       \A a \in Assignment : assignments'[a].status = "expired" /\ assignments'[a].vm # Nobody =>
         \E o \in OpId : /\ operations'[o].vm = assignments'[a].vm
                         /\ operations'[o].state # "absent" /\ operations'[o].cleanup
     ]_classroomVars
=============================================================================
