-------------------------- MODULE DurableOperations --------------------------
(***************************************************************************)
(* The durable VM operation queue of LabGoblin.                            *)
(*                                                                         *)
(* The API commits a durable_operations row for every VM create, start,    *)
(* stop, reboot and delete (api/routers/vms.py).  Workers claim rows with  *)
(* a database lease and drive Proxmox VE through a chain of HTTP calls     *)
(* (services/operation_service.py, workers/operation_worker.py).  Workers  *)
(* crash, leases expire, Proxmox tasks fail, replies get lost, authority   *)
(* is withdrawn while an operation waits in the queue.                     *)
(*                                                                         *)
(* One action is the code between two awaits: one HTTP call to Proxmox     *)
(* together with the database transaction that follows its answer.         *)
(* student_vms.status, a display cache that no step of the queue reads     *)
(* back from the database, is not modelled.                                *)
(***************************************************************************)
EXTENDS Naturals

CONSTANTS
  Worker,      \* processes that run operation_worker.run_once
  Vm,          \* student_vms rows that may come into being
  Assignment,  \* lab_assignments rows of one lab run
  Actor,       \* users
  RoleOf,      \* a user's effective role in the organization
  StudentOf,   \* the student of an assignment
  StudentMay,  \* operations the lab blueprint lets students run
  System,      \* requested_by IS NULL: the cleanup worker
  Nobody,      \* no owner, no VM
  MaxAttempts, \* settings.operation_max_attempts
  MaxOps,      \* bound: durable_operations rows
  MaxTasks,    \* bound: Proxmox tasks ever submitted
  FaultKind,   \* which faults happen: see Fault
  MaxFaults,   \* bound: faults in a behavior
  Requested,   \* bound: types of operation asked for, beside students' creates
  Fickle,      \* bound: users whose access is ever withdrawn
  RunEnds      \* bound: does the run's end time come within the behavior

Role == {"admin", "instructor", "student"}
OpId == 1 .. MaxOps
TaskId == 1 .. MaxTasks

ASSUME BoundsAssumption ==
  /\ MaxAttempts \in Nat \ {0}
  /\ MaxOps \in Nat /\ MaxTasks \in Nat
  /\ MaxFaults \in Nat /\ RunEnds \in BOOLEAN
  /\ Requested \subseteq {"create", "start", "stop", "reboot", "delete"}

ASSUME ActorsAssumption ==
  /\ System \notin Actor /\ Nobody \notin Actor /\ Nobody \notin Vm
  /\ RoleOf \in [Actor -> Role]
  /\ StudentOf \in [Assignment -> Actor]
  /\ StudentMay \subseteq {"create", "start", "stop", "reboot"}

VARIABLES
  operations,  \* durable_operations, in the order of (created_at, id)
  job,         \* what each worker process holds in memory
  vms,         \* student_vms: owner and deleted_at
  assignments, \* lab_assignments: linked VM, status, row lock of create_vm
  run,         \* lab_runs: state, and now against starts_at and ends_at
  access,      \* users active, with an active membership and enrollment
  guests,      \* Proxmox: the guest at each VM's VMID
  tasks,       \* Proxmox: tasks by UPID
  faults       \* history: faults so far, and whether a worker ever stalled

vars == <<operations, job, vms, assignments, run, access, guests, tasks, faults>>
proxmox == <<guests, tasks>>
records == <<vms, assignments>>

Kind == {"none", "clone", "start", "stop", "reboot", "delete", "inspect"}
OpType == {"create", "start", "stop", "reboot", "delete"}
OpState == {"absent", "queued", "running", "succeeded", "failed", "cancelled"}
Terminal == {"succeeded", "failed", "cancelled"}
Phase == {"none", "clone", "start", "stop", "stopped", "delete"}
Key == {"uuid", "create", "close", "expire"}
AssignmentStatus == {"none", "assigned", "ready", "expired", "revoked"}
RunState == {"draft", "scheduled", "active", "ended", "cancelled"}

Operation ==
  [state: OpState, type: OpType, vm: Vm \cup {Nobody}, by: Actor \cup {System},
   cleanup: BOOLEAN,            \* payload.expiration_cleanup
   autoStart: BOOLEAN,          \* payload.auto_start
   key: Key,                    \* kind of idempotency key
   attempts: Nat, due: BOOLEAN, \* run_after <= now
   lease: {"none", "live", "expired"},
   upid: TaskId \cup {0}, phase: Phase]

Job ==
  [pc: {"idle", "begin", "probe", "submit", "persist", "wait", "observe"},
   op: OpId \cup {0}, kind: Kind, task: TaskId \cup {0}, resumed: BOOLEAN]

NoOperation(by) ==
  [state |-> "absent", type |-> "create", vm |-> Nobody, by |-> by,
   cleanup |-> FALSE, autoStart |-> FALSE, key |-> "uuid",
   attempts |-> 0, due |-> TRUE, lease |-> "none", upid |-> 0, phase |-> "none"]

Idle == [pc |-> "idle", op |-> 0, kind |-> "none", task |-> 0, resumed |-> FALSE]
NoTask == [op |-> 0, kind |-> "none", vm |-> Nobody, status |-> "unused"]

Init ==
  /\ operations = [o \in OpId |-> NoOperation(System)]
  /\ job = [w \in Worker |-> Idle]
  /\ vms = [v \in Vm |-> [owner |-> Nobody, tombstoned |-> FALSE]]
  /\ assignments =
       [a \in Assignment |-> [vm |-> Nobody, status |-> "assigned", locked |-> FALSE]]
  /\ run = [state |-> "active", clock |-> "during"]
  /\ access = [u \in Actor |-> TRUE]
  /\ guests = [v \in Vm |-> "absent"]
  /\ tasks = [t \in TaskId |-> NoTask]
  /\ faults = [count |-> 0, stalled |-> FALSE]

\* "crash": a worker process dies; "stall": a live worker outlives its lease;
\* "error": an HTTP call raises or its answer is lost; "outside": a guest
\* changes by itself or by someone else's hand.
Fault(kind) ==
  /\ kind \in FaultKind /\ faults.count < MaxFaults
  /\ faults' = [count |-> faults.count + 1, stalled |-> faults.stalled \/ kind = "stall"]

-----------------------------------------------------------------------------
(* Authority: services/classroom_access.py, operation_service.py.          *)

\* run_effectively_open: a scheduled run opens and closes by the clock alone.
RunOpen == run.state \in {"scheduled", "active"} /\ run.clock = "during"

\* assignment_effectively_open and the active enrollment of its student.
EffectivelyOpen(a) ==
  /\ assignments[a].status \in {"assigned", "ready"}
  /\ RunOpen
  /\ access[StudentOf[a]]

Linked(v) == {a \in Assignment : assignments[a].vm = v}

\* Mutant: ownership alone, without a link to an open assignment.
OwnerMayOperate(u, v, type) == vms[v].owner = u /\ type \in StudentMay

StudentMayOperate(u, v, type) ==
  /\ vms[v].owner = u
  /\ \E a \in Linked(v) : StudentOf[a] = u /\ EffectivelyOpen(a)
  /\ type \in StudentMay

\* Who may ask for, and later still have executed, an operation on VM v.
ActorMay(u, v, type) ==
  /\ access[u]
  /\ \/ RoleOf[u] = "admin"
     \/ RoleOf[u] = "instructor" /\ Linked(v) # {}
     \/ RoleOf[u] = "student" /\ StudentMayOperate(u, v, type)

\* _validate_operation_authorization: asked when execution begins and again
\* before every call that changes Proxmox.
Authorized(o) ==
  LET op == operations[o] IN
    IF op.by = System
    THEN /\ op.type = "delete" /\ op.cleanup
         /\ \E a \in Linked(op.vm) : ~EffectivelyOpen(a)
    ELSE ActorMay(op.by, op.vm, op.type)

-----------------------------------------------------------------------------
(* Requests: api/routers/vms.py.                                           *)

\* The next primary key of durable_operations.
Fresh(o) ==
  /\ operations[o].state = "absent"
  /\ \A p \in OpId : p < o => operations[p].state # "absent"

\* enqueue_operation, for a key that is not in the table yet.
Enqueue(o, type, v, by, cleanup, autoStart, key) ==
  /\ Fresh(o)
  /\ operations' = [operations EXCEPT ![o] =
       [NoOperation(by) EXCEPT !.state = "queued", !.type = type, !.vm = v,
          !.cleanup = cleanup, !.autoStart = autoStart, !.key = key]]

Exists(v) == vms[v].owner # Nobody /\ ~vms[v].tombstoned

\* Mutant: an assignment that has a VM may get another.
CreateVmCheckAgain(a) ==
  /\ EffectivelyOpen(a) /\ ~assignments[a].locked
  /\ assignments' = [assignments EXCEPT ![a].locked = TRUE]
  /\ UNCHANGED <<operations, job, vms, run, access, proxmox, faults>>

\* create_vm by a student: assignment_for_provisioning locks the assignment
\* row; the Proxmox discovery calls follow.
CreateVmCheck(a) ==
  /\ EffectivelyOpen(a)
  /\ assignments[a].vm = Nobody /\ assignments[a].status # "ready"
  /\ ~assignments[a].locked
  /\ assignments' = [assignments EXCEPT ![a].locked = TRUE]
  /\ UNCHANGED <<operations, job, vms, run, access, proxmox, faults>>

\* create_vm by a student: the VM row, the link and the operation commit.
CreateVmCommit(a, v, o, autoStart) ==
  /\ assignments[a].locked
  /\ vms[v].owner = Nobody
  /\ Enqueue(o, "create", v, StudentOf[a], FALSE, autoStart, "create")
  /\ vms' = [vms EXCEPT ![v].owner = StudentOf[a]]
  /\ assignments' = [assignments EXCEPT ![a].vm = v, ![a].locked = FALSE]
  /\ UNCHANGED <<job, run, access, proxmox, faults>>

\* create_vm by a student: discovery or placement refuses, the session closes.
CreateVmAbort(a) ==
  /\ assignments[a].locked
  /\ assignments' = [assignments EXCEPT ![a].locked = FALSE]
  /\ UNCHANGED <<operations, job, vms, run, access, proxmox, faults>>

\* create_vm by staff needs no assignment and links none.
CreateVmStaff(u, v, o, autoStart) ==
  /\ access[u] /\ RoleOf[u] \in {"admin", "instructor"}
  /\ vms[v].owner = Nobody
  /\ Enqueue(o, "create", v, u, FALSE, autoStart, "create")
  /\ vms' = [vms EXCEPT ![v].owner = u]
  /\ UNCHANGED <<job, assignments, run, access, proxmox, faults>>

\* start_vm, stop_vm, reboot_vm, delete_vm_record: _get_vm_for_user, then
\* _queue_vm_action.
QueueVmAction(u, v, o, type) ==
  /\ Exists(v) /\ ActorMay(u, v, type)
  /\ Enqueue(o, type, v, u, FALSE, FALSE, "uuid")
  /\ UNCHANGED <<job, vms, assignments, run, access, proxmox, faults>>

\* delete_app_record_admin: refused unless Proxmox answers 404 right now.
DeleteAppRecord(u, v) ==
  /\ access[u] /\ RoleOf[u] = "admin"
  /\ Exists(v) /\ guests[v] = "absent"
  /\ vms' = [vms EXCEPT ![v].tombstoned = TRUE]
  /\ assignments' = [a \in Assignment |->
       IF assignments[a].vm # v THEN assignments[a]
       ELSE [assignments[a] EXCEPT !.vm = Nobody,
               !.status = IF @ = "ready" THEN "assigned" ELSE @]]
  /\ UNCHANGED <<operations, job, run, access, proxmox, faults>>

\* Time reaches run.ends_at, which is also every assignment's expires_at.
EndTimePasses ==
  /\ RunEnds /\ run.clock = "during"
  /\ run' = [run EXCEPT !.clock = "late"]
  /\ UNCHANGED <<operations, job, vms, assignments, access, proxmox, faults>>

\* A user is disabled, or loses the membership or the enrollment.
WithdrawAccess(u) ==
  /\ u \in Fickle /\ access[u]
  /\ access' = [access EXCEPT ![u] = FALSE]
  /\ UNCHANGED <<operations, job, vms, assignments, run, proxmox, faults>>

-----------------------------------------------------------------------------
(* Claiming and leases: claim_operation.                                   *)

\* Mutant: a running operation is claimed whatever its lease.
ClaimableAnyLease(o) ==
  \/ operations[o].state = "running"
  \/ operations[o].state = "queued" /\ operations[o].due

Claimable(o) ==
  \/ operations[o].state = "queued" /\ operations[o].due
  \/ operations[o].state = "running" /\ operations[o].lease = "expired"

Claim(w, o) ==
  /\ job[w].pc = "idle"
  /\ Claimable(o) /\ \A p \in OpId : p < o => ~Claimable(p)
  /\ operations' = [operations EXCEPT ![o].state = "running", ![o].lease = "live",
                                      ![o].attempts = @ + 1]
  /\ job' = [job EXCEPT ![w] = [Idle EXCEPT !.pc = "begin", !.op = o]]
  /\ UNCHANGED <<records, run, access, proxmox, faults>>

Holds(w, o) == job[w].op = o

\* lease_expires_at passes.  A running worker renews at every poll, so this
\* takes a worker that is gone, or one that is stalled past its lease.
LeaseExpires(o) ==
  /\ operations[o].state = "running" /\ operations[o].lease = "live"
  /\ \/ ~(\E w \in Worker : Holds(w, o)) /\ UNCHANGED faults
     \/ (\E w \in Worker : Holds(w, o)) /\ Fault("stall")
  /\ operations' = [operations EXCEPT ![o].lease = "expired"]
  /\ UNCHANGED <<job, records, run, access, proxmox>>

\* run_after passes.
BackoffElapses(o) ==
  /\ operations[o].state = "queued" /\ ~operations[o].due
  /\ operations' = [operations EXCEPT ![o].due = TRUE]
  /\ UNCHANGED <<job, records, run, access, proxmox, faults>>

\* The process dies between two awaits; the row stays as last committed.
Crash(w) ==
  /\ job[w].pc # "idle"
  /\ Fault("crash")
  /\ job' = [job EXCEPT ![w] = Idle]
  /\ UNCHANGED <<operations, records, run, access, proxmox>>

-----------------------------------------------------------------------------
(* How an execution ends: run_once and the tail of execute_operation.      *)

Op(w) == operations[job[w].op]
Release(w) == job' = [job EXCEPT ![w] = Idle]

\* Mutant: the lease column gets a value nobody reads.
SettleOddly(w, state) ==
  /\ operations' = [operations EXCEPT ![job[w].op].state = state,
                                      ![job[w].op].lease = "released"]
  /\ Release(w)

\* Commit a final or queued state and give the lease up.
Settle(w, state) ==
  /\ operations' = [operations EXCEPT ![job[w].op].state = state,
                                      ![job[w].op].lease = "none"]
  /\ Release(w)

Succeed(w) == Settle(w, "succeeded") /\ UNCHANGED records

\* vm.create marks whichever assignment links the VM ready.
SucceedCreate(w) ==
  /\ Settle(w, "succeeded")
  /\ assignments' = [a \in Assignment |->
       IF assignments[a].vm # Op(w).vm THEN assignments[a]
       ELSE [assignments[a] EXCEPT !.status = "ready"]]
  /\ UNCHANGED vms

\* Mutant: the assignment keeps its link to the deleted VM.
SucceedDeleteLinked(w) ==
  /\ Settle(w, "succeeded")
  /\ vms' = [vms EXCEPT ![Op(w).vm].tombstoned = TRUE]
  /\ UNCHANGED assignments

\* vm.delete unlinks the assignment and leaves a tombstone.
SucceedDelete(w) ==
  /\ Settle(w, "succeeded")
  /\ vms' = [vms EXCEPT ![Op(w).vm].tombstoned = TRUE]
  /\ assignments' = [a \in Assignment |->
       IF assignments[a].vm # Op(w).vm THEN assignments[a]
       ELSE [assignments[a] EXCEPT !.vm = Nobody,
               !.status = IF Op(w).cleanup THEN "expired" ELSE "assigned"]]

\* Mutant: the lease is given up but the row is left running.
RetryWhileRunning(w) ==
  /\ Op(w).attempts < MaxAttempts
  /\ operations' = [operations EXCEPT ![job[w].op].lease = "none"]
  /\ Release(w)

\* fail_or_retry: the recorded task and phase stay in the row.
Retry(w) ==
  /\ Op(w).attempts < MaxAttempts
  /\ operations' = [operations EXCEPT ![job[w].op].state = "queued",
                      ![job[w].op].lease = "none", ![job[w].op].due = FALSE]
  /\ Release(w)

GiveUp(w) == Op(w).attempts >= MaxAttempts /\ Settle(w, "failed")

Fail(w) == (Retry(w) \/ GiveUp(w)) /\ UNCHANGED records

\* cancel_unauthorized_operation, after any validation of the execution.
Refuse(w) ==
  /\ job[w].pc \in {"begin", "submit"}
  /\ ~Authorized(job[w].op)
  /\ Settle(w, "cancelled")
  /\ UNCHANGED <<records, run, access, proxmox, faults>>

-----------------------------------------------------------------------------
(* The steps of execute_operation.                                         *)

GoTo(w, pc, kind) == job' = [job EXCEPT ![w].pc = pc, ![w].kind = kind]

\* Mutant: a recorded task is forgotten and the work starts over.
BeginAfresh(w) ==
  LET type == Op(w).type
      kind == IF type = "create" THEN "clone" ELSE IF type = "delete" THEN "inspect" ELSE type
  IN
  /\ job[w].pc = "begin" /\ Authorized(job[w].op)
  /\ GoTo(w, IF type \in {"create", "delete"} THEN "probe" ELSE "submit", kind)
  /\ UNCHANGED <<operations, records, run, access, proxmox, faults>>

\* Where an execution resumes from what the row recorded.
Begin(w) ==
  LET op == Op(w)
      Resume(kind) ==
        [pc |-> "wait", op |-> job[w].op, kind |-> kind, task |-> op.upid, resumed |-> TRUE]
      Start(pc, kind, task) ==
        [pc |-> pc, op |-> job[w].op, kind |-> kind, task |-> task, resumed |-> FALSE]
  IN
  /\ job[w].pc = "begin" /\ Authorized(job[w].op)
  /\ \/ /\ op.type = "create" /\ op.upid # 0
        /\ \E kind \in {"clone", "start"} :
             /\ (kind = "start") <=> (op.phase = "start")
             /\ job' = [job EXCEPT ![w] = Resume(kind)]
     \/ /\ op.type = "create" /\ op.upid = 0
        /\ job' = [job EXCEPT ![w] = Start("probe", "clone", 0)]
     \/ /\ op.type \in {"start", "stop", "reboot"} /\ op.upid # 0
        /\ job' = [job EXCEPT ![w] = Resume(op.type)]
     \/ /\ op.type \in {"start", "stop", "reboot"} /\ op.upid = 0
        /\ job' = [job EXCEPT ![w] = Start("submit", op.type, 0)]
     \/ /\ op.type = "delete" /\ op.upid # 0 /\ op.phase \in {"stop", "delete"}
        /\ job' = [job EXCEPT ![w] = Start("probe", op.phase, op.upid)]
     \/ /\ op.type = "delete" /\ (op.upid = 0 \/ op.phase \notin {"stop", "delete"})
        /\ job' = [job EXCEPT ![w] = Start("probe", "inspect", 0)]
  /\ UNCHANGED <<operations, records, run, access, proxmox, faults>>

\* vm_exists decides how create and delete go on.
Probe(w) ==
  LET present == guests[Op(w).vm] # "absent" IN
  /\ job[w].pc = "probe"
  /\ \/ /\ Op(w).type = "create" /\ ~present
        /\ GoTo(w, "submit", "clone") /\ UNCHANGED <<operations, records>>
     \/ Op(w).type = "create" /\ present /\ Fail(w)
     \/ Op(w).type = "delete" /\ ~present /\ SucceedDelete(w)
     \/ /\ Op(w).type = "delete" /\ present /\ job[w].kind = "inspect"
        /\ GoTo(w, "observe", "inspect") /\ UNCHANGED <<operations, records>>
     \/ /\ Op(w).type = "delete" /\ present /\ job[w].kind # "inspect"
        /\ job' = [job EXCEPT ![w].pc = "wait", ![w].resumed = TRUE]
        /\ UNCHANGED <<operations, records>>
  /\ UNCHANGED <<run, access, proxmox, faults>>

FreshTask(t) ==
  /\ tasks[t].status = "unused"
  /\ \A s \in TaskId : s < t => tasks[s].status # "unused"

\* Proxmox accepts a call: a new VMID for a clone, an existing one otherwise.
Accepts(kind, v) == (kind = "clone") <=> (guests[v] = "absent")

\* Mutant: authority is not asked again before the call.
SubmitUnasked(w, t) ==
  /\ job[w].pc = "submit" /\ FreshTask(t) /\ Accepts(job[w].kind, Op(w).vm)
  /\ tasks' = [tasks EXCEPT ![t] = [op |-> job[w].op, kind |-> job[w].kind,
                                    vm |-> Op(w).vm, status |-> "running"]]
  /\ guests' = IF job[w].kind = "clone"
               THEN [guests EXCEPT ![Op(w).vm] = "stopped"] ELSE guests
  /\ job' = [job EXCEPT ![w].pc = "persist", ![w].task = t]
  /\ UNCHANGED <<operations, records, run, access, faults>>

\* clone_vm, start_vm, stop_vm, reboot_vm, delete_vm: Proxmox starts a task.
\* Its answer, the UPID, arrives or is lost on the way.
Submit(w, t) ==
  /\ job[w].pc = "submit" /\ Authorized(job[w].op)
  /\ FreshTask(t) /\ Accepts(job[w].kind, Op(w).vm)
  /\ tasks' = [tasks EXCEPT ![t] = [op |-> job[w].op, kind |-> job[w].kind,
                                    vm |-> Op(w).vm, status |-> "running"]]
  /\ guests' = IF job[w].kind = "clone"
               THEN [guests EXCEPT ![Op(w).vm] = "stopped"] ELSE guests
  /\ \/ /\ job' = [job EXCEPT ![w].pc = "persist", ![w].task = t]
        /\ UNCHANGED <<operations, records, faults>>
     \/ Fail(w) /\ Fault("error")
  /\ UNCHANGED <<run, access>>

\* Proxmox refuses the call.  Inside delete a 404 or 500 is settled by asking
\* vm_exists again.
SubmitRefused(w) ==
  /\ job[w].pc = "submit" /\ Authorized(job[w].op)
  /\ ~Accepts(job[w].kind, Op(w).vm)
  /\ \/ Op(w).type = "delete" /\ SucceedDelete(w)
     \/ Op(w).type # "delete" /\ Fail(w)
  /\ UNCHANGED <<run, access, proxmox, faults>>

\* persist_task: UPID, phase and a renewed lease in one commit.
Persist(w) ==
  /\ job[w].pc = "persist"
  /\ operations' = [operations EXCEPT
       ![job[w].op].upid = job[w].task, ![job[w].op].lease = "live",
       ![job[w].op].phase = IF Op(w).type \in {"create", "delete"} THEN job[w].kind ELSE @]
  /\ job' = [job EXCEPT ![w].pc = "wait"]
  /\ UNCHANGED <<records, run, access, proxmox, faults>>

\* wait_for_task polls a task that still runs and renews the lease.
Poll(w) ==
  /\ job[w].pc = "wait" /\ tasks[job[w].task].status = "running"
  /\ Op(w).lease # "live"
  /\ operations' = [operations EXCEPT ![job[w].op].lease = "live"]
  /\ UNCHANGED <<job, records, run, access, proxmox, faults>>

\* wait_for_task returns, or raises because the task did not exit OK.
WaitEnds(w) ==
  /\ job[w].pc = "wait"
  /\ \/ /\ tasks[job[w].task].status = "ok"
        /\ GoTo(w, "observe", job[w].kind) /\ UNCHANGED <<operations, records>>
     \/ tasks[job[w].task].status = "failed" /\ Fail(w)
  /\ UNCHANGED <<run, access, proxmox, faults>>

\* Mutant: a clone task that exited OK is taken for a guest.
ObserveCreateBlindly(w) ==
  /\ job[w].pc = "observe" /\ Op(w).type = "create" /\ SucceedCreate(w)
  /\ UNCHANGED <<run, access, proxmox, faults>>

\* get_vm_status at the end of vm.create and of its two phases.
ObserveCreate(w) ==
  LET guest == guests[Op(w).vm] IN
  /\ job[w].pc = "observe" /\ Op(w).type = "create"
  /\ \/ guest = "running" /\ SucceedCreate(w)
     \/ /\ guest = "stopped" /\ job[w].kind = "clone" /\ ~Op(w).autoStart
        /\ SucceedCreate(w)
     \/ /\ guest = "stopped" /\ job[w].kind = "clone" /\ Op(w).autoStart
        /\ GoTo(w, "submit", "start") /\ UNCHANGED <<operations, records>>
     \/ guest = "absent" /\ Fail(w)
     \/ guest = "stopped" /\ job[w].kind = "start" /\ Fail(w)
  /\ UNCHANGED <<run, access, proxmox, faults>>

\* Mutant: a task that exited OK is taken for its result.
ObservePowerBlindly(w) ==
  /\ job[w].pc = "observe" /\ Op(w).type \in {"start", "stop", "reboot"} /\ Succeed(w)
  /\ UNCHANGED <<run, access, proxmox, faults>>

\* get_vm_status at the end of vm.start, vm.stop and vm.reboot.
ObservePower(w) ==
  LET expected == IF Op(w).type = "stop" THEN "stopped" ELSE "running" IN
  /\ job[w].pc = "observe" /\ Op(w).type \in {"start", "stop", "reboot"}
  /\ \/ guests[Op(w).vm] = expected /\ Succeed(w)
     \/ guests[Op(w).vm] # expected /\ Fail(w)
  /\ UNCHANGED <<run, access, proxmox, faults>>

\* get_vm_status inside vm.delete: before it stops or deletes the guest, after
\* the stop and after the deletion.  A 404, or a 500 after which vm_exists says
\* no, means the guest is gone.
ObserveDelete(w) ==
  LET guest == guests[Op(w).vm] IN
  /\ job[w].pc = "observe" /\ Op(w).type = "delete"
  /\ \/ guest = "absent" /\ SucceedDelete(w)
     \/ /\ guest # "absent" /\ job[w].kind = "inspect"
        /\ GoTo(w, "submit", IF guest = "running" THEN "stop" ELSE "delete")
        /\ UNCHANGED <<operations, records>>
     \/ /\ guest = "stopped" /\ job[w].kind = "stop"
        /\ operations' = [operations EXCEPT ![job[w].op].upid = 0,
             ![job[w].op].phase = "stopped", ![job[w].op].lease = "live"]
        /\ IF job[w].resumed THEN GoTo(w, "observe", "inspect")
                             ELSE GoTo(w, "submit", "delete")
        /\ UNCHANGED records
     \/ guest = "running" /\ job[w].kind = "stop" /\ Fail(w)
     \/ guest # "absent" /\ job[w].kind = "delete" /\ Fail(w)
  /\ UNCHANGED <<run, access, proxmox, faults>>

\* Any HTTP call raises, or wait_for_task runs into its timeout or raises
\* TimeoutError because polling fails.
HttpError(w) ==
  /\ job[w].pc \in {"probe", "submit", "wait", "observe"}
  /\ job[w].pc = "submit" => Authorized(job[w].op)
  /\ Fail(w) /\ Fault("error")
  /\ UNCHANGED <<run, access, proxmox>>

-----------------------------------------------------------------------------
(* Proxmox VE, external: the answers the code is written against.          *)

\* What a task needs of the guest to exit OK.
Possible(kind, guest) ==
  CASE kind = "clone" -> guest # "absent"
    [] kind \in {"start", "delete"} -> guest = "stopped"
    [] kind = "stop" -> guest # "absent"
    [] kind = "reboot" -> guest = "running"

After(kind, guest) ==
  CASE kind = "clone" -> guest
    [] kind \in {"start", "reboot"} -> "running"
    [] kind = "stop" -> "stopped"
    [] kind = "delete" -> "absent"

TaskSucceeds(t) ==
  LET v == tasks[t].vm IN
  /\ tasks[t].status = "running" /\ Possible(tasks[t].kind, guests[v])
  /\ tasks' = [tasks EXCEPT ![t].status = "ok"]
  /\ guests' = [guests EXCEPT ![v] = After(tasks[t].kind, @)]
  /\ UNCHANGED <<operations, job, records, run, access, faults>>

\* A failed clone may leave a guest behind.
TaskFails(t) ==
  /\ tasks[t].status = "running"
  /\ tasks' = [tasks EXCEPT ![t].status = "failed"]
  /\ \/ UNCHANGED guests
     \/ tasks[t].kind = "clone" /\ guests' = [guests EXCEPT ![tasks[t].vm] = "absent"]
  /\ UNCHANGED <<operations, job, records, run, access, faults>>

\* A guest shuts itself down, or someone removes it outside the platform.
GuestChanges(v) ==
  /\ \/ guests[v] = "running" /\ guests' = [guests EXCEPT ![v] = "stopped"]
     \/ guests[v] # "absent" /\ guests' = [guests EXCEPT ![v] = "absent"]
  /\ Fault("outside")
  /\ UNCHANGED <<operations, job, records, run, access, tasks>>

-----------------------------------------------------------------------------

Request ==
  \/ \E a \in Assignment : CreateVmCheck(a)
  \/ \E a \in Assignment : CreateVmAbort(a)
  \/ \E a \in Assignment, v \in Vm, o \in OpId, auto \in BOOLEAN :
       CreateVmCommit(a, v, o, auto)
  \/ /\ "create" \in Requested
     /\ \E u \in Actor, v \in Vm, o \in OpId, auto \in BOOLEAN : CreateVmStaff(u, v, o, auto)
  \/ \E u \in Actor, v \in Vm, o \in OpId, type \in Requested \ {"create"} :
       QueueVmAction(u, v, o, type)
  \/ \E u \in Actor, v \in Vm : DeleteAppRecord(u, v)

Authority ==
  \/ EndTimePasses
  \/ \E u \in Actor : WithdrawAccess(u)

WorkerStep(w) ==
  \/ Refuse(w)
  \/ Begin(w)
  \/ Probe(w)
  \/ \E t \in TaskId : Submit(w, t)
  \/ SubmitRefused(w)
  \/ Persist(w)
  \/ WaitEnds(w)
  \/ ObserveCreate(w)
  \/ ObservePower(w)
  \/ ObserveDelete(w)

Time ==
  \/ \E o \in OpId : LeaseExpires(o)
  \/ \E o \in OpId : BackoffElapses(o)

Proxmox ==
  \/ \E t \in TaskId : TaskSucceeds(t)
  \/ \E t \in TaskId : TaskFails(t)
  \/ \E v \in Vm : GuestChanges(v)

Execution ==
  \/ \E w \in Worker, o \in OpId : Claim(w, o)
  \/ \E w \in Worker : WorkerStep(w)
  \/ \E w \in Worker : Poll(w)
  \/ \E w \in Worker : HttpError(w)
  \/ \E w \in Worker : Crash(w)

Next == Request \/ Authority \/ Execution \/ Time \/ Proxmox

Spec == Init /\ [][Next]_vars

\* The scheduler keeps running operation_worker.run_once, a live worker moves
\* on (its HTTP calls time out), Proxmox tasks end, time passes.
Fairness ==
  /\ WF_vars(\E w \in Worker, o \in OpId : Claim(w, o))
  /\ \A w \in Worker : WF_vars(WorkerStep(w))
  /\ \A o \in OpId : WF_vars(LeaseExpires(o)) /\ WF_vars(BackoffElapses(o))
  /\ \A t \in TaskId : WF_vars(TaskSucceeds(t) \/ TaskFails(t))

FairSpec == Spec /\ Fairness

-----------------------------------------------------------------------------
(* Properties.                                                             *)

TypeOK ==
  /\ operations \in [OpId -> Operation]
  /\ job \in [Worker -> Job]
  /\ vms \in [Vm -> [owner: Actor \cup {Nobody}, tombstoned: BOOLEAN]]
  /\ assignments \in [Assignment -> [vm: Vm \cup {Nobody}, status: AssignmentStatus,
                                     locked: BOOLEAN]]
  /\ run \in [state: RunState, clock: {"early", "during", "late"}]
  /\ access \in [Actor -> BOOLEAN]
  /\ guests \in [Vm -> {"absent", "stopped", "running"}]
  /\ tasks \in [TaskId -> [op: OpId \cup {0}, kind: Kind, vm: Vm \cup {Nobody},
                           status: {"unused", "running", "ok", "failed"}]]
  /\ faults \in [count: Nat, stalled: BOOLEAN]

NoStall == ~faults.stalled

\* Unless a worker stalls past its lease, no two workers execute the same
\* operation, through crashes, reclaims and retries (claim_operation).
LeaseExclusive ==
  NoStall => \A w1, w2 \in Worker :
    job[w1].pc # "idle" /\ job[w1].op = job[w2].op => w1 = w2

\* Unless a worker stalls past its lease, a finished operation stays as it
\* finished: run_once writes outcomes without checking the lease owner.
TerminalIsFinal ==
  [][NoStall' => \A o \in OpId : operations[o].state \in Terminal =>
       operations'[o].state = operations[o].state]_vars

\* What an operation must have brought about when it is marked succeeded.
Goal(o) ==
  LET guest == guests[operations[o].vm] IN
    CASE operations[o].type = "create" -> guest # "absent"
      [] operations[o].type \in {"start", "reboot"} -> guest = "running"
      [] operations[o].type = "stop" -> guest = "stopped"
      [] operations[o].type = "delete" -> guest = "absent"

\* An operation is marked succeeded only in a state where Proxmox shows its
\* result, whatever crash, stall, retry or lost reply came before.
NoFalseSuccess ==
  [][\A o \in OpId : operations'[o].state = "succeeded" /\ operations[o].state # "succeeded"
       => Goal(o)]_vars

\* Unless a worker stalls, a Proxmox task whose UPID was persisted is never
\* submitted again by its operation, whoever resumes it; only a stop inside
\* delete may repeat, after the guest was seen stopped and started again.
RecordedTaskNotRepeated ==
  [][\A t \in TaskId : tasks[t].status = "unused" /\ tasks'[t].status # "unused" =>
       LET op == operations[tasks'[t].op] IN
         NoStall /\ op.upid # 0 => tasks[op.upid].kind # tasks'[t].kind]_vars

\* Proxmox is changed for an operation only while its requester still holds
\* the authority, although authority may be withdrawn at any await.
MutationsAuthorized ==
  [][\A t \in TaskId : tasks[t].status = "unused" /\ tasks'[t].status # "unused" =>
       Authorized(tasks'[t].op)]_vars

\* An assignment never links a deleted VM, a VM is linked at most once, and
\* ready means there is a VM.
AssignmentLinksLive ==
  \A a \in Assignment :
    /\ assignments[a].vm # Nobody =>
         /\ Exists(assignments[a].vm)
         /\ \A b \in Linked(assignments[a].vm) : b = a
    /\ assignments[a].status = "ready" => assignments[a].vm # Nobody

\* A VM created by a student and tombstoned has no guest: a late or retried
\* create cannot bring one back, because the delete took its assignment.
StudentVmStaysDeleted ==
  \A v \in Vm : vms[v].tombstoned /\ RoleOf[vms[v].owner] = "student" =>
    guests[v] = "absent"

\* Every accepted operation ends succeeded, failed or cancelled.
OperationsSettle ==
  \A o \in OpId : operations[o].state # "absent" ~> operations[o].state \in Terminal

\* execute_operation refuses to create a VM whose "record no longer exists":
\* no clone is started for a VM that was deleted meanwhile, staff's included.
CloneNeedsRecord ==
  [][\A t \in TaskId :
       tasks[t].status = "unused" /\ tasks'[t].kind = "clone" => Exists(tasks'[t].vm)]_vars

\* What the queue promises its callers, as an implementation of VmRequests.
Promise == INSTANCE VmRequests WITH
  goal <- [o \in OpId |-> [type |-> operations[o].type, vm |-> operations[o].vm]],
  request <- [o \in OpId |-> CASE operations[o].state = "absent" -> "none"
                               [] operations[o].state \in {"queued", "running"} -> "pending"
                               [] OTHER -> operations[o].state]

KeepsPromise == Promise!Spec
KeepsLivePromise == Promise!LiveSpec
=============================================================================
