----------------------- MODULE DurableOperationsProofs -----------------------
(***************************************************************************)
(* Proofs about the durable operation queue, for any number of workers,    *)
(* VMs, assignments, users, operations, attempts, tasks and faults.        *)
(***************************************************************************)
EXTENDS DurableOperations, TLAPS

Mutation == {"clone", "start", "stop", "reboot", "delete"}

\* The calls that an operation of each type makes.
Fits(type, kind) ==
  \/ type = "create" /\ kind \in {"clone", "start"}
  \/ type = "delete" /\ kind \in {"stop", "delete"}
  \/ type \in {"start", "stop", "reboot"} /\ kind = type

\* What a worker holds in memory agrees with the row it executes.
JobFits(w) ==
  job[w].pc # "idle" =>
    /\ job[w].op \in OpId
    /\ operations[job[w].op].state # "absent"
    /\ job[w].pc # "begin" =>
         LET type == operations[job[w].op].type IN
           Fits(type, job[w].kind) \/ (type = "delete" /\ job[w].kind = "inspect")
    /\ job[w].pc \in {"submit", "persist", "wait"} => job[w].kind # "inspect"

TasksKnown == \A t \in TaskId : tasks[t].status = "running" => tasks[t].kind \in Mutation

\* The inductive strengthening of TypeOK.
TypeInv == TypeOK /\ (\A w \in Worker : JobFits(w)) /\ TasksKnown

\* Rows keep their type and never go back to being absent.
RowsKept ==
  \A o \in OpId : operations[o].state # "absent" =>
    operations'[o].state # "absent" /\ operations'[o].type = operations[o].type

-----------------------------------------------------------------------------
(* What the helpers that end an execution do to the row and to the worker. *)

\* Committing an outcome changes one row and frees the worker.
LEMMA SettleEffect ==
  ASSUME TypeInv, NEW w \in Worker, job[w].pc # "idle",
         NEW state \in {"succeeded", "failed", "cancelled"}, Settle(w, state)
  PROVE  operations' \in [OpId -> Operation] /\ job' = [job EXCEPT ![w] = Idle] /\ RowsKept
<1>1. operations \in [OpId -> Operation] /\ job[w].op \in OpId
  BY DEF TypeInv, TypeOK, JobFits
<1>2. operations' = [operations EXCEPT ![job[w].op].state = state,
                                       ![job[w].op].lease = "none"]
  BY DEF Settle
<1>3. state \in OpState
  BY DEF OpState
<1> QED
  BY <1>1, <1>2, <1>3 DEF Settle, Release, Operation, RowsKept

\* fail_or_retry changes one row, frees the worker and leaves the records.
LEMMA FailEffect ==
  ASSUME TypeInv, NEW w \in Worker, job[w].pc # "idle", Fail(w)
  PROVE  /\ operations' \in [OpId -> Operation] /\ job' = [job EXCEPT ![w] = Idle] /\ RowsKept
         /\ UNCHANGED <<vms, assignments>>
<1>1. operations \in [OpId -> Operation] /\ job[w].op \in OpId
  BY DEF TypeInv, TypeOK, JobFits
<1>2. CASE Retry(w)
  <2>1. operations' = [operations EXCEPT ![job[w].op].state = "queued",
                         ![job[w].op].lease = "none", ![job[w].op].due = FALSE]
    BY <1>2 DEF Retry
  <2> QED
    BY <1>1, <1>2, <2>1 DEF Fail, Retry, Release, Operation, OpState, RowsKept, records
<1>3. CASE GiveUp(w)
  BY <1>3, SettleEffect DEF Fail, GiveUp, records
<1> QED
  BY <1>2, <1>3 DEF Fail

\* Success changes one row, frees the worker and keeps the records well typed.
LEMMA SucceedEffect ==
  ASSUME TypeInv, NEW w \in Worker, job[w].pc # "idle",
         Succeed(w) \/ SucceedCreate(w) \/ SucceedDelete(w)
  PROVE  /\ operations' \in [OpId -> Operation] /\ job' = [job EXCEPT ![w] = Idle] /\ RowsKept
         /\ vms' \in [Vm -> [owner: Actor \cup {Nobody}, tombstoned: BOOLEAN]]
         /\ assignments' \in [Assignment -> [vm: Vm \cup {Nobody}, status: AssignmentStatus,
                                             locked: BOOLEAN]]
<1>1. Settle(w, "succeeded")
  BY DEF Succeed, SucceedCreate, SucceedDelete
<1>2. /\ vms \in [Vm -> [owner: Actor \cup {Nobody}, tombstoned: BOOLEAN]]
      /\ assignments \in [Assignment -> [vm: Vm \cup {Nobody}, status: AssignmentStatus,
                                         locked: BOOLEAN]]
  BY DEF TypeInv, TypeOK
<1>3. {"ready", "expired", "assigned"} \subseteq AssignmentStatus
  BY DEF AssignmentStatus
<1>4. CASE Succeed(w)
  BY <1>1, <1>2, <1>4, SettleEffect DEF Succeed, records
<1>5. CASE SucceedCreate(w)
  <2>1. assignments' \in [Assignment -> [vm: Vm \cup {Nobody}, status: AssignmentStatus,
                                         locked: BOOLEAN]]
    BY <1>2, <1>3, <1>5 DEF SucceedCreate
  <2> QED
    BY <1>1, <1>2, <1>5, <2>1, SettleEffect DEF SucceedCreate
<1>6. CASE SucceedDelete(w)
  <2>1. assignments' \in [Assignment -> [vm: Vm \cup {Nobody}, status: AssignmentStatus,
                                         locked: BOOLEAN]]
    BY <1>2, <1>3, <1>6 DEF SucceedDelete
  <2>2. vms' = [vms EXCEPT ![Op(w).vm].tombstoned = TRUE]
    BY <1>6 DEF SucceedDelete
  <2>3. vms' \in [Vm -> [owner: Actor \cup {Nobody}, tombstoned: BOOLEAN]]
    BY <1>2, <2>2
  <2> QED
    BY <1>1, <2>1, <2>3, SettleEffect
<1> QED
  BY <1>4, <1>5, <1>6

\* It is enough to look at the one worker that moves.
LEMMA OneWorkerMoves ==
  ASSUME TypeInv, RowsKept, NEW w \in Worker, JobFits(w)',
         \A u \in Worker \ {w} : job'[u] = job[u]
  PROVE  \A u \in Worker : JobFits(u)'
  BY DEF TypeInv, RowsKept, JobFits

\* Rows that keep their type still suit the workers that execute them.
LEMMA NoWorkerMoves ==
  ASSUME TypeInv, RowsKept, UNCHANGED job
  PROVE  \A u \in Worker : JobFits(u)'
  BY DEF TypeInv, RowsKept, JobFits

\* A worker that lets go of its row leaves the others as they were.
LEMMA WorkerReleases ==
  ASSUME TypeInv, RowsKept, NEW w \in Worker, job' = [job EXCEPT ![w] = Idle]
  PROVE  job' \in [Worker -> Job] /\ \A u \in Worker : JobFits(u)'
<1>1. job \in [Worker -> Job]
  BY DEF TypeInv, TypeOK
<1>2. Idle \in Job
  BY DEF Idle, Job, Kind
<1>3. JobFits(w)'
  BY <1>1 DEF JobFits, Idle
<1> QED
  BY <1>1, <1>2, <1>3, OneWorkerMoves

-----------------------------------------------------------------------------
(* Requests, authority, time and Proxmox: no worker moves.                 *)

\* enqueue_operation adds a well-typed row and keeps the others.
LEMMA EnqueueEffect ==
  ASSUME TypeInv, NEW o \in OpId, NEW type \in OpType, NEW v \in Vm,
         NEW by \in Actor \cup {System}, NEW cleanup \in BOOLEAN, NEW autoStart \in BOOLEAN,
         NEW key \in Key, Enqueue(o, type, v, by, cleanup, autoStart, key)
  PROVE  operations' \in [OpId -> Operation] /\ RowsKept
  BY DEF TypeInv, TypeOK, Enqueue, Fresh, NoOperation, Operation, OpState, Phase, RowsKept

\* An empty queue, idle workers and no guest are well typed.
LEMMA InitTypeInv == ASSUME Init PROVE TypeInv
<1>1. TypeOK
  BY ActorsAssumption, BoundsAssumption
  DEF Init, TypeOK, Operation, NoOperation, Job, Idle, NoTask, OpState, OpType, Key, Phase,
      Kind, AssignmentStatus, RunState
<1>2. (\A w \in Worker : JobFits(w)) /\ TasksKnown
  BY DEF Init, JobFits, TasksKnown, Idle, NoTask
<1> QED
  BY <1>1, <1>2 DEF TypeInv

\* The handlers of api/routers/vms.py keep the types.
LEMMA RequestTypeInv == ASSUME TypeInv, Request PROVE TypeInv'
<1> DEFINE VmRow == [owner: Actor \cup {Nobody}, tombstoned: BOOLEAN]
           AssignmentRow == [vm: Vm \cup {Nobody}, status: AssignmentStatus, locked: BOOLEAN]
<1>0. assignments \in [Assignment -> AssignmentRow] /\ vms \in [Vm -> VmRow]
  BY DEF TypeInv, TypeOK
<1>1. ASSUME NEW a \in Assignment, CreateVmCheck(a) \/ CreateVmAbort(a) PROVE TypeInv'
  <2>1. assignments' \in [Assignment -> AssignmentRow]
    BY <1>0, <1>1 DEF CreateVmCheck, CreateVmAbort
  <2>2. TypeOK'
    BY <1>1, <2>1 DEF CreateVmCheck, CreateVmAbort, TypeInv, TypeOK, proxmox
  <2> QED
    BY <1>1, <2>2 DEF CreateVmCheck, CreateVmAbort, TypeInv, JobFits, TasksKnown, proxmox
<1>2. ASSUME NEW a \in Assignment, NEW v \in Vm, NEW o \in OpId, NEW auto \in BOOLEAN,
             CreateVmCommit(a, v, o, auto)
      PROVE  TypeInv'
  <2>1. StudentOf[a] \in Actor
    BY ActorsAssumption
  <2>2. operations' \in [OpId -> Operation] /\ RowsKept
    BY <1>2, <2>1, EnqueueEffect DEF CreateVmCommit, Key, OpType
  <2>3. TypeOK'
    BY <1>2, <2>1, <2>2 DEF CreateVmCommit, TypeInv, TypeOK, proxmox
  <2>4. (\A w \in Worker : JobFits(w)') /\ TasksKnown'
    BY <1>2, <2>2, NoWorkerMoves DEF CreateVmCommit, TypeInv, TasksKnown, proxmox
  <2> QED
    BY <2>3, <2>4 DEF TypeInv
<1>3. ASSUME NEW u \in Actor, NEW v \in Vm, NEW o \in OpId, NEW auto \in BOOLEAN,
             CreateVmStaff(u, v, o, auto)
      PROVE  TypeInv'
  <2>1. operations' \in [OpId -> Operation] /\ RowsKept
    BY <1>3, EnqueueEffect DEF CreateVmStaff, Key, OpType
  <2>2. TypeOK'
    BY <1>3, <2>1 DEF CreateVmStaff, TypeInv, TypeOK, proxmox
  <2>3. (\A w \in Worker : JobFits(w)') /\ TasksKnown'
    BY <1>3, <2>1, NoWorkerMoves DEF CreateVmStaff, TypeInv, TasksKnown, proxmox
  <2> QED
    BY <2>2, <2>3 DEF TypeInv
<1>4. ASSUME NEW u \in Actor, NEW v \in Vm, NEW o \in OpId, NEW type \in Requested,
             QueueVmAction(u, v, o, type)
      PROVE  TypeInv'
  <2>1. type \in OpType
    BY BoundsAssumption DEF OpType
  <2>2. operations' \in [OpId -> Operation] /\ RowsKept
    BY <1>4, <2>1, EnqueueEffect DEF QueueVmAction, Key
  <2>3. TypeOK'
    BY <1>4, <2>2 DEF QueueVmAction, TypeInv, TypeOK, proxmox
  <2>4. (\A w \in Worker : JobFits(w)') /\ TasksKnown'
    BY <1>4, <2>2, NoWorkerMoves DEF QueueVmAction, TypeInv, TasksKnown, proxmox
  <2> QED
    BY <2>3, <2>4 DEF TypeInv
<1>5. ASSUME NEW u \in Actor, NEW v \in Vm, DeleteAppRecord(u, v) PROVE TypeInv'
  <2>1. assignments' \in [Assignment -> AssignmentRow]
    BY <1>0, <1>5 DEF DeleteAppRecord, AssignmentStatus
  <2>2. vms' \in [Vm -> VmRow]
    BY <1>0, <1>5 DEF DeleteAppRecord
  <2>3. TypeOK'
    BY <1>5, <2>1, <2>2 DEF DeleteAppRecord, TypeInv, TypeOK, proxmox
  <2> QED
    BY <1>5, <2>3 DEF DeleteAppRecord, TypeInv, JobFits, TasksKnown, proxmox
<1> QED
  BY <1>1, <1>2, <1>3, <1>4, <1>5 DEF Request

\* Withdrawn access and the end of the run keep the types.
LEMMA AuthorityTypeInv == ASSUME TypeInv, Authority PROVE TypeInv'
<1>1. CASE EndTimePasses
  BY <1>1 DEF EndTimePasses, TypeInv, TypeOK, RunState, JobFits, TasksKnown, proxmox
<1>2. ASSUME NEW u \in Actor, WithdrawAccess(u) PROVE TypeInv'
  BY <1>2 DEF WithdrawAccess, TypeInv, TypeOK, JobFits, TasksKnown, proxmox
<1> QED
  BY <1>1, <1>2 DEF Authority

\* Recording a fault keeps the history well typed.
LEMMA FaultEffect == ASSUME TypeInv, NEW kind, Fault(kind) PROVE faults' \in [count: Nat, stalled: BOOLEAN]
  BY DEF TypeInv, TypeOK, Fault

\* Leases that expire and backoffs that elapse keep the types.
LEMMA TimeTypeInv == ASSUME TypeInv, Time PROVE TypeInv'
<1>0. operations \in [OpId -> Operation]
  BY DEF TypeInv, TypeOK
<1>1. ASSUME NEW o \in OpId, LeaseExpires(o) PROVE TypeInv'
  <2>1. operations' \in [OpId -> Operation] /\ RowsKept
    BY <1>0, <1>1 DEF LeaseExpires, Operation, RowsKept
  <2>2. faults' \in [count: Nat, stalled: BOOLEAN]
    BY <1>1, FaultEffect DEF LeaseExpires, TypeInv, TypeOK
  <2> QED
    BY <1>1, <2>1, <2>2, NoWorkerMoves
    DEF LeaseExpires, TypeInv, TypeOK, TasksKnown, proxmox, records
<1>2. ASSUME NEW o \in OpId, BackoffElapses(o) PROVE TypeInv'
  <2>0. operations' = [operations EXCEPT ![o].due = TRUE]
    BY <1>2 DEF BackoffElapses
  <2>1. operations' \in [OpId -> Operation]
    <3>1. [operations[o] EXCEPT !.due = TRUE] \in Operation
      BY <1>0 DEF Operation
    <3> QED
      BY <1>0, <2>0, <3>1
  <2>2. RowsKept
    BY <1>0, <2>0 DEF Operation, RowsKept
  <2> QED
    BY <1>2, <2>1, <2>2, NoWorkerMoves
    DEF BackoffElapses, TypeInv, TypeOK, TasksKnown, proxmox, records
<1> QED
  BY <1>1, <1>2 DEF Time

\* Whatever Proxmox does, tasks and guests stay well typed.
LEMMA ProxmoxTypeInv == ASSUME TypeInv, Proxmox PROVE TypeInv'
<1> DEFINE TaskRow == [op: OpId \cup {0}, kind: Kind, vm: Vm \cup {Nobody},
                       status: {"unused", "running", "ok", "failed"}]
           Guest == {"absent", "stopped", "running"}
<1>0. tasks \in [TaskId -> TaskRow] /\ guests \in [Vm -> Guest]
  BY DEF TypeInv, TypeOK
<1>1. ASSUME NEW t \in TaskId, TaskSucceeds(t) PROVE TypeInv'
  <2>1. tasks[t].kind \in Mutation
    BY <1>1 DEF TaskSucceeds, TypeInv, TasksKnown
  <2>2. \A guest \in Guest : After(tasks[t].kind, guest) \in Guest
    BY <2>1 DEF After, Mutation
  <2>3. tasks' \in [TaskId -> TaskRow] /\ guests' \in [Vm -> Guest]
    BY <1>0, <1>1, <2>2 DEF TaskSucceeds
  <2>4. TypeOK'
    BY <1>1, <2>3 DEF TaskSucceeds, TypeInv, TypeOK, records
  <2> QED
    BY <1>1, <2>4 DEF TaskSucceeds, TypeInv, TypeOK, JobFits, TasksKnown
<1>2. ASSUME NEW t \in TaskId, TaskFails(t) PROVE TypeInv'
  <2>1. tasks' \in [TaskId -> TaskRow] /\ guests' \in [Vm -> Guest]
    BY <1>0, <1>2 DEF TaskFails
  <2>2. TypeOK'
    BY <1>2, <2>1 DEF TaskFails, TypeInv, TypeOK, records
  <2> QED
    BY <1>2, <2>2 DEF TaskFails, TypeInv, TypeOK, JobFits, TasksKnown
<1>3. ASSUME NEW v \in Vm, GuestChanges(v) PROVE TypeInv'
  <2>1. guests' \in [Vm -> Guest] /\ faults' \in [count: Nat, stalled: BOOLEAN]
    BY <1>0, <1>3, FaultEffect DEF GuestChanges
  <2>2. TypeOK'
    BY <1>3, <2>1 DEF GuestChanges, TypeInv, TypeOK, records
  <2> QED
    BY <1>3, <2>2 DEF GuestChanges, TypeInv, JobFits, TasksKnown
<1> QED
  BY <1>1, <1>2, <1>3 DEF Proxmox

-----------------------------------------------------------------------------
(* The steps of the workers.                                               *)

\* What the steps below use of a busy worker.
LEMMA Busy ==
  ASSUME TypeInv, NEW w \in Worker, job[w].pc # "idle"
  PROVE  /\ job \in [Worker -> Job] /\ operations \in [OpId -> Operation]
         /\ job[w].op \in OpId /\ Op(w) \in Operation /\ Op(w).state # "absent"
         /\ job[w].pc # "begin" => \/ Fits(Op(w).type, job[w].kind)
                                   \/ Op(w).type = "delete" /\ job[w].kind = "inspect"
  BY DEF TypeInv, TypeOK, JobFits, Op

\* A step that only moves the worker, to a place that suits its row.
LEMMA Moves ==
  ASSUME TypeInv, NEW w \in Worker, job[w].pc # "idle", NEW j \in Job,
         job' = [job EXCEPT ![w] = j], j.op = job[w].op,
         j.pc # "begin" => \/ Fits(Op(w).type, j.kind)
                           \/ Op(w).type = "delete" /\ j.kind = "inspect",
         j.pc \in {"submit", "persist", "wait"} => j.kind # "inspect",
         operations' \in [OpId -> Operation], RowsKept
  PROVE  job' \in [Worker -> Job] /\ \A u \in Worker : JobFits(u)'
<1>1. job' \in [Worker -> Job] /\ job'[w] = j /\ \A u \in Worker \ {w} : job'[u] = job[u]
  BY Busy
<1>2. JobFits(w)'
  BY <1>1, Busy DEF JobFits, RowsKept, Op
<1> QED
  BY <1>1, <1>2, OneWorkerMoves

\* A step that ends an execution without touching Proxmox.
LEMMA Ends ==
  ASSUME TypeInv, NEW w \in Worker, job[w].pc # "idle",
         operations' \in [OpId -> Operation], RowsKept, job' = [job EXCEPT ![w] = Idle],
         vms' \in [Vm -> [owner: Actor \cup {Nobody}, tombstoned: BOOLEAN]],
         assignments' \in [Assignment -> [vm: Vm \cup {Nobody}, status: AssignmentStatus,
                                          locked: BOOLEAN]],
         UNCHANGED <<run, access, guests, tasks>>,
         faults' \in [count: Nat, stalled: BOOLEAN]
  PROVE  TypeInv'
  BY WorkerReleases DEF TypeInv, TypeOK, TasksKnown

\* fail_or_retry keeps the invariant.
LEMMA FailTypeInv ==
  ASSUME TypeInv, NEW w \in Worker, job[w].pc # "idle", Fail(w),
         UNCHANGED <<run, access, guests, tasks>>, faults' \in [count: Nat, stalled: BOOLEAN]
  PROVE  TypeInv'
<1>1. /\ vms' \in [Vm -> [owner: Actor \cup {Nobody}, tombstoned: BOOLEAN]]
      /\ assignments' \in [Assignment -> [vm: Vm \cup {Nobody}, status: AssignmentStatus,
                                          locked: BOOLEAN]]
  BY FailEffect DEF TypeInv, TypeOK
<1> QED
  BY <1>1, FailEffect, Ends

\* The success tail of execute_operation keeps the invariant.
LEMMA SucceedTypeInv ==
  ASSUME TypeInv, NEW w \in Worker, job[w].pc # "idle",
         Succeed(w) \/ SucceedCreate(w) \/ SucceedDelete(w),
         UNCHANGED <<run, access, guests, tasks, faults>>
  PROVE  TypeInv'
<1>1. faults' \in [count: Nat, stalled: BOOLEAN]
  BY DEF TypeInv, TypeOK
<1> QED
  BY <1>1, SucceedEffect, Ends

\* A step that moves the worker and changes no row.
LEMMA MovesTypeInv ==
  ASSUME TypeInv, NEW w \in Worker, job[w].pc # "idle", NEW j \in Job,
         job' = [job EXCEPT ![w] = j], j.op = job[w].op,
         j.pc # "begin" => \/ Fits(Op(w).type, j.kind)
                           \/ Op(w).type = "delete" /\ j.kind = "inspect",
         j.pc \in {"submit", "persist", "wait"} => j.kind # "inspect",
         UNCHANGED <<operations, vms, assignments, run, access, guests, tasks, faults>>
  PROVE  TypeInv'
<1>1. operations' \in [OpId -> Operation] /\ RowsKept
  BY DEF TypeInv, TypeOK, RowsKept
<1>2. job' \in [Worker -> Job] /\ \A u \in Worker : JobFits(u)'
  BY <1>1, Moves
<1> QED
  BY <1>1, <1>2 DEF TypeInv, TypeOK, TasksKnown

\* Going on to the next call keeps the invariant.
LEMMA GoToTypeInv ==
  ASSUME TypeInv, NEW w \in Worker, job[w].pc # "idle",
         NEW pc \in {"submit", "wait", "observe"}, NEW kind, GoTo(w, pc, kind),
         \/ Fits(Op(w).type, kind)
         \/ Op(w).type = "delete" /\ kind = "inspect" /\ pc = "observe",
         UNCHANGED <<operations, vms, assignments, run, access, guests, tasks, faults>>
  PROVE  TypeInv'
<1> DEFINE j == [job[w] EXCEPT !.pc = pc, !.kind = kind]
<1>1. Op(w).type \in OpType
  BY Busy DEF Operation
<1>2. kind \in Kind
  BY <1>1 DEF Fits, Kind, OpType
<1>3. j \in Job /\ j.op = job[w].op /\ j.pc = pc /\ j.kind = kind
  BY <1>2, Busy DEF Job
<1>4. job' = [job EXCEPT ![w] = j]
  BY Busy DEF GoTo
<1>5. kind = "inspect" => ~Fits(Op(w).type, kind)
  BY DEF Fits
<1> HIDE DEF j
<1> QED
  BY <1>3, <1>4, <1>5, MovesTypeInv

\* claim_operation keeps the invariant.
LEMMA ClaimTypeInv ==
  ASSUME TypeInv, NEW w \in Worker, NEW o \in OpId, Claim(w, o) PROVE TypeInv'
<1>0. operations \in [OpId -> Operation] /\ job \in [Worker -> Job]
  BY DEF TypeInv, TypeOK
<1>1. operations' \in [OpId -> Operation] /\ RowsKept /\ operations'[o].state = "running"
  <2>0. ASSUME NEW n \in Nat
        PROVE  [operations[o] EXCEPT !.state = "running", !.lease = "live", !.attempts = n]
                 \in Operation
    BY <1>0 DEF Operation, OpState
  <2>1. [operations[o] EXCEPT !.state = "running", !.lease = "live",
                              !.attempts = operations[o].attempts + 1] \in Operation
    <3>1. operations[o].attempts + 1 \in Nat
      BY <1>0 DEF Operation
    <3> QED
      BY <2>0, <3>1
  <2> QED
    BY <1>0, <2>1 DEF Claim, Operation, RowsKept
<1>2. /\ job' = [job EXCEPT ![w] = [Idle EXCEPT !.pc = "begin", !.op = o]]
      /\ [Idle EXCEPT !.pc = "begin", !.op = o] \in Job
  BY DEF Claim, Idle, Job, Kind
<1>3. JobFits(w)'
  BY <1>0, <1>1, <1>2 DEF JobFits, Idle
<1>4. \A u \in Worker : JobFits(u)'
  BY <1>0, <1>1, <1>2, <1>3, OneWorkerMoves
<1> QED
  BY <1>0, <1>1, <1>2, <1>4 DEF Claim, TypeInv, TypeOK, TasksKnown, records, proxmox

\* Resuming from the recorded phase keeps the invariant.
LEMMA BeginTypeInv ==
  ASSUME TypeInv, NEW w \in Worker, Begin(w) PROVE TypeInv'
<1> DEFINE op == Op(w)
           at(pc, kind, task, resumed) ==
             [pc |-> pc, op |-> job[w].op, kind |-> kind, task |-> task, resumed |-> resumed]
<1>1. job[w].pc = "begin" /\ job[w].pc # "idle"
  BY DEF Begin
<1>2. op.type \in OpType /\ op.upid \in TaskId \cup {0} /\ job[w].op \in OpId
  BY <1>1, Busy DEF Operation
<1>3. UNCHANGED <<operations, vms, assignments, run, access, guests, tasks, faults>>
  BY DEF Begin, records, proxmox
<1>4. \E kind \in Kind, pc \in {"wait", "submit", "probe"}, task \in TaskId \cup {0},
         resumed \in BOOLEAN :
        /\ job' = [job EXCEPT ![w] = at(pc, kind, task, resumed)]
        /\ \/ Fits(op.type, kind)
           \/ op.type = "delete" /\ kind = "inspect" /\ pc = "probe"
  BY <1>2 DEF Begin, Fits, Kind, OpType
<1>5. PICK kind \in Kind, pc \in {"wait", "submit", "probe"}, task \in TaskId \cup {0},
           resumed \in BOOLEAN :
        /\ job' = [job EXCEPT ![w] = at(pc, kind, task, resumed)]
        /\ \/ Fits(op.type, kind)
           \/ op.type = "delete" /\ kind = "inspect" /\ pc = "probe"
  BY <1>4
<1>6. at(pc, kind, task, resumed) \in Job
  BY <1>2 DEF Job
<1>7. kind = "inspect" => ~Fits(op.type, kind)
  BY DEF Fits
<1> QED
  BY <1>1, <1>3, <1>5, <1>6, <1>7, MovesTypeInv

\* The vm_exists check keeps the invariant.
LEMMA ProbeTypeInv ==
  ASSUME TypeInv, NEW w \in Worker, Probe(w) PROVE TypeInv'
<1>1. job[w].pc = "probe" /\ job[w].pc # "idle" /\ UNCHANGED <<run, access, guests, tasks, faults>>
  BY DEF Probe, proxmox
<1>2. faults' \in [count: Nat, stalled: BOOLEAN]
  BY <1>1 DEF TypeInv, TypeOK
<1>3. CASE Fail(w)
  BY <1>1, <1>2, <1>3, FailTypeInv
<1>4. CASE SucceedDelete(w)
  BY <1>1, <1>4, SucceedTypeInv
<1>5. CASE Op(w).type = "create" /\ GoTo(w, "submit", "clone") /\ UNCHANGED <<operations, records>>
  BY <1>1, <1>5, GoToTypeInv DEF Fits, records
<1>6. CASE Op(w).type = "delete" /\ GoTo(w, "observe", "inspect") /\ UNCHANGED <<operations, records>>
  BY <1>1, <1>6, GoToTypeInv DEF records
<1>7. CASE /\ Op(w).type = "delete" /\ job[w].kind # "inspect"
           /\ job' = [job EXCEPT ![w].pc = "wait", ![w].resumed = TRUE]
           /\ UNCHANGED <<operations, records>>
  <2> DEFINE j == [job[w] EXCEPT !.pc = "wait", !.resumed = TRUE]
  <2>1. j \in Job /\ j.op = job[w].op /\ j.pc = "wait" /\ j.kind = job[w].kind
    BY <1>1, Busy DEF Job
  <2>2. job' = [job EXCEPT ![w] = j]
    BY <1>1, <1>7, Busy
  <2>3. Fits(Op(w).type, job[w].kind)
    BY <1>1, <1>7, Busy
  <2> HIDE DEF j
  <2> QED
    BY <1>1, <1>7, <2>1, <2>2, <2>3, MovesTypeInv DEF records
<1> QED
  BY <1>3, <1>4, <1>5, <1>6, <1>7 DEF Probe

\* A call that starts a Proxmox task keeps the invariant.
LEMMA SubmitTypeInv ==
  ASSUME TypeInv, NEW w \in Worker, NEW t \in TaskId, Submit(w, t) PROVE TypeInv'
<1> DEFINE TaskRow == [op: OpId \cup {0}, kind: Kind, vm: Vm \cup {Nobody},
                       status: {"unused", "running", "ok", "failed"}]
           Guest == {"absent", "stopped", "running"}
           task == [op |-> job[w].op, kind |-> job[w].kind, vm |-> Op(w).vm, status |-> "running"]
<1>1. job[w].pc = "submit" /\ job[w].pc # "idle" /\ UNCHANGED <<run, access>>
  BY DEF Submit
<1>2. Fits(Op(w).type, job[w].kind) /\ job[w].kind \in Mutation
  <2>1. Fits(Op(w).type, job[w].kind)
    BY <1>1 DEF TypeInv, JobFits, Op
  <2> QED
    BY <2>1 DEF Fits, Mutation
<1>3. task \in TaskRow
  BY <1>1, Busy DEF Operation, Job
<1>4. tasks' = [tasks EXCEPT ![t] = task]
  BY DEF Submit
<1>5. tasks' \in [TaskId -> TaskRow] /\ TasksKnown'
  BY <1>2, <1>3, <1>4 DEF TypeInv, TypeOK, TasksKnown
<1>6. guests' \in [Vm -> Guest]
  <2>1. guests \in [Vm -> Guest]
    BY DEF TypeInv, TypeOK
  <2> QED
    BY <2>1 DEF Submit
<1>7. CASE /\ job' = [job EXCEPT ![w].pc = "persist", ![w].task = t]
           /\ UNCHANGED <<operations, records, faults>>
  <2> DEFINE j == [job[w] EXCEPT !.pc = "persist", !.task = t]
  <2>1. j \in Job /\ j.op = job[w].op /\ j.pc = "persist" /\ j.kind = job[w].kind
    BY <1>1, Busy DEF Job
  <2>2. job' = [job EXCEPT ![w] = j]
    BY <1>1, <1>7, Busy
  <2>3. operations' \in [OpId -> Operation] /\ RowsKept
    BY <1>7 DEF TypeInv, TypeOK, RowsKept
  <2>4. job[w].kind # "inspect"
    BY <1>2 DEF Mutation
  <2> HIDE DEF j
  <2>5. job' \in [Worker -> Job] /\ \A u \in Worker : JobFits(u)'
    BY <1>1, <1>2, <2>1, <2>2, <2>3, <2>4, Moves
  <2> QED
    BY <1>1, <1>5, <1>6, <1>7, <2>3, <2>5 DEF TypeInv, TypeOK, records
<1>8. CASE Fail(w) /\ Fault("error")
  <2>1. /\ operations' \in [OpId -> Operation] /\ job' = [job EXCEPT ![w] = Idle] /\ RowsKept
        /\ UNCHANGED <<vms, assignments>>
    BY <1>1, <1>8, FailEffect
  <2>2. job' \in [Worker -> Job] /\ \A u \in Worker : JobFits(u)'
    BY <2>1, WorkerReleases
  <2>3. faults' \in [count: Nat, stalled: BOOLEAN]
    BY <1>8, FaultEffect
  <2> QED
    BY <1>1, <1>5, <1>6, <2>1, <2>2, <2>3 DEF TypeInv, TypeOK
<1> QED
  BY <1>7, <1>8 DEF Submit

\* persist_task keeps the invariant.
LEMMA PersistTypeInv ==
  ASSUME TypeInv, NEW w \in Worker, Persist(w) PROVE TypeInv'
<1> DEFINE j == [job[w] EXCEPT !.pc = "wait"]
           phase == IF Op(w).type \in {"create", "delete"} THEN job[w].kind ELSE Op(w).phase
           row == [Op(w) EXCEPT !.upid = job[w].task, !.lease = "live", !.phase = phase]
<1>1. job[w].pc = "persist" /\ job[w].pc # "idle"
      /\ UNCHANGED <<vms, assignments, run, access, guests, tasks, faults>>
  BY DEF Persist, records, proxmox
<1>2. Fits(Op(w).type, job[w].kind) /\ job[w].kind # "inspect"
  BY <1>1 DEF TypeInv, JobFits, Op
<1>3. phase \in Phase
  BY <1>1, <1>2, Busy DEF Fits, Phase, Operation
<1>4. operations' = [operations EXCEPT ![job[w].op] = row]
  BY <1>1, Busy DEF Persist, Op
<1> HIDE DEF phase
<1>5. row \in Operation /\ row.type = Op(w).type /\ row.state = Op(w).state
  BY <1>1, <1>3, Busy DEF Operation, Job
<1> HIDE DEF row
<1>6. operations' \in [OpId -> Operation] /\ RowsKept
  BY <1>1, <1>4, <1>5, Busy DEF RowsKept, Op
<1>7. j \in Job /\ j.op = job[w].op /\ j.pc = "wait" /\ j.kind = job[w].kind
  BY <1>1, Busy DEF Job
<1>8. job' = [job EXCEPT ![w] = j]
  BY <1>1, Busy DEF Persist
<1> HIDE DEF j
<1>9. job' \in [Worker -> Job] /\ \A u \in Worker : JobFits(u)'
  BY <1>1, <1>2, <1>6, <1>7, <1>8, Moves
<1> QED
  BY <1>1, <1>6, <1>9 DEF TypeInv, TypeOK, TasksKnown

\* The steps by which an execution ends or dies keep the invariant.
LEMMA EndingsTypeInv ==
  ASSUME TypeInv, NEW w \in Worker, Refuse(w) \/ SubmitRefused(w) \/ HttpError(w) \/ Crash(w)
  PROVE  TypeInv'
<1>0. job[w].pc # "idle" /\ UNCHANGED <<run, access, guests, tasks>>
  BY DEF Refuse, SubmitRefused, HttpError, Crash, proxmox
<1>1. faults' \in [count: Nat, stalled: BOOLEAN]
  BY FaultEffect DEF Refuse, SubmitRefused, HttpError, Crash, TypeInv, TypeOK
<1>3. CASE Refuse(w)
  <2>1. /\ vms' \in [Vm -> [owner: Actor \cup {Nobody}, tombstoned: BOOLEAN]]
        /\ assignments' \in [Assignment -> [vm: Vm \cup {Nobody}, status: AssignmentStatus,
                                            locked: BOOLEAN]]
    BY <1>3 DEF Refuse, TypeInv, TypeOK, records
  <2>2. Settle(w, "cancelled")
    BY <1>3 DEF Refuse
  <2> QED
    BY <1>0, <1>1, <2>1, <2>2, SettleEffect, Ends
<1>4. CASE SubmitRefused(w)
  BY <1>0, <1>1, <1>4, FailTypeInv, SucceedTypeInv DEF SubmitRefused
<1>5. CASE HttpError(w)
  BY <1>0, <1>1, <1>5, FailTypeInv DEF HttpError
<1>6. CASE Crash(w)
  <2>1. RowsKept
    BY <1>6 DEF Crash, RowsKept
  <2>2. /\ vms' \in [Vm -> [owner: Actor \cup {Nobody}, tombstoned: BOOLEAN]]
        /\ assignments' \in [Assignment -> [vm: Vm \cup {Nobody}, status: AssignmentStatus,
                                            locked: BOOLEAN]]
        /\ operations' \in [OpId -> Operation]
    BY <1>6 DEF Crash, TypeInv, TypeOK, records
  <2> QED
    BY <1>0, <1>1, <1>6, <2>1, <2>2, Ends DEF Crash
<1> QED
  BY <1>3, <1>4, <1>5, <1>6

\* renew_lease keeps the invariant.
LEMMA PollTypeInv ==
  ASSUME TypeInv, NEW w \in Worker, Poll(w) PROVE TypeInv'
<1> DEFINE row == [Op(w) EXCEPT !.lease = "live"]
<1>1. job[w].pc # "idle" /\ UNCHANGED <<job, vms, assignments, run, access, guests, tasks, faults>>
  BY DEF Poll, records, proxmox
<1>2. operations' = [operations EXCEPT ![job[w].op] = row]
  BY <1>1, Busy DEF Poll, Op
<1>3. row \in Operation /\ row.type = Op(w).type /\ row.state = Op(w).state
  BY <1>1, Busy DEF Operation
<1> HIDE DEF row
<1>4. operations' \in [OpId -> Operation] /\ RowsKept
  BY <1>1, <1>2, <1>3, Busy DEF RowsKept, Op
<1>5. \A u \in Worker : JobFits(u)'
  BY <1>1, <1>4, NoWorkerMoves
<1> QED
  BY <1>1, <1>4, <1>5 DEF TypeInv, TypeOK, TasksKnown

\* The end of wait_for_task keeps the invariant.
LEMMA WaitEndsTypeInv ==
  ASSUME TypeInv, NEW w \in Worker, WaitEnds(w) PROVE TypeInv'
<1>1. job[w].pc = "wait" /\ job[w].pc # "idle" /\ UNCHANGED <<run, access, guests, tasks, faults>>
  BY DEF WaitEnds, proxmox
<1>2. faults' \in [count: Nat, stalled: BOOLEAN]
  BY <1>1 DEF TypeInv, TypeOK
<1>3. Fits(Op(w).type, job[w].kind)
  BY <1>1 DEF TypeInv, JobFits, Op
<1>4. CASE GoTo(w, "observe", job[w].kind) /\ UNCHANGED <<operations, records>>
  BY <1>1, <1>3, <1>4, GoToTypeInv DEF records
<1>5. CASE Fail(w)
  BY <1>1, <1>2, <1>5, FailTypeInv
<1> QED
  BY <1>4, <1>5 DEF WaitEnds

\* The get_vm_status checks keep the invariant.
LEMMA ObserveTypeInv ==
  ASSUME TypeInv, NEW w \in Worker, ObserveCreate(w) \/ ObservePower(w) \/ ObserveDelete(w)
  PROVE  TypeInv'
<1>1. job[w].pc = "observe" /\ job[w].pc # "idle" /\ UNCHANGED <<run, access, guests, tasks, faults>>
  BY DEF ObserveCreate, ObservePower, ObserveDelete, proxmox
<1>2. faults' \in [count: Nat, stalled: BOOLEAN]
  BY <1>1 DEF TypeInv, TypeOK
<1>3. CASE Fail(w)
  BY <1>1, <1>2, <1>3, FailTypeInv
<1>4. CASE Succeed(w) \/ SucceedCreate(w) \/ SucceedDelete(w)
  BY <1>1, <1>4, SucceedTypeInv
<1>5. CASE Op(w).type = "create" /\ GoTo(w, "submit", "start") /\ UNCHANGED <<operations, records>>
  BY <1>1, <1>5, GoToTypeInv DEF Fits, records
<1>6. CASE /\ Op(w).type = "delete" /\ UNCHANGED <<operations, records>>
           /\ \E kind \in {"stop", "delete"} : GoTo(w, "submit", kind)
  BY <1>1, <1>6, GoToTypeInv DEF Fits, records
<1>7. CASE /\ Op(w).type = "delete"
           /\ operations' = [operations EXCEPT ![job[w].op].upid = 0,
                ![job[w].op].phase = "stopped", ![job[w].op].lease = "live"]
           /\ GoTo(w, "observe", "inspect") \/ GoTo(w, "submit", "delete")
           /\ UNCHANGED records
  <2> DEFINE row == [Op(w) EXCEPT !.upid = 0, !.phase = "stopped", !.lease = "live"]
  <2>1. operations' = [operations EXCEPT ![job[w].op] = row]
    BY <1>1, <1>7, Busy DEF Op
  <2>2. row \in Operation /\ row.type = Op(w).type /\ row.state = Op(w).state
    BY <1>1, Busy DEF Operation, Phase
  <2> HIDE DEF row
  <2>3. operations' \in [OpId -> Operation] /\ RowsKept
    BY <1>1, <2>1, <2>2, Busy DEF RowsKept, Op
  <2>4. PICK pc \in {"observe", "submit"}, kind \in {"inspect", "delete"} :
          GoTo(w, pc, kind) /\ (pc = "submit" => kind = "delete")
    BY <1>7
  <2> DEFINE j == [job[w] EXCEPT !.pc = pc, !.kind = kind]
  <2>5. j \in Job /\ j.op = job[w].op /\ j.pc = pc /\ j.kind = kind
    BY <1>1, Busy DEF Job, Kind
  <2>6. job' = [job EXCEPT ![w] = j]
    BY <1>1, <2>4, Busy DEF GoTo
  <2> HIDE DEF j
  <2>7. job' \in [Worker -> Job] /\ \A u \in Worker : JobFits(u)'
    BY <1>1, <1>7, <2>3, <2>4, <2>5, <2>6, Moves DEF Fits
  <2> QED
    BY <1>1, <1>7, <2>3, <2>7 DEF TypeInv, TypeOK, TasksKnown, records
<1>8. CASE ObserveCreate(w)
  BY <1>3, <1>4, <1>5, <1>8 DEF ObserveCreate
<1>9. CASE ObservePower(w)
  BY <1>3, <1>4, <1>9 DEF ObservePower
<1>10. CASE ObserveDelete(w)
  BY <1>3, <1>4, <1>6, <1>7, <1>10 DEF ObserveDelete
<1> QED
  BY <1>8, <1>9, <1>10

-----------------------------------------------------------------------------

\* Every step of a worker keeps the invariant.
LEMMA ExecutionTypeInv == ASSUME TypeInv, Execution PROVE TypeInv'
<1>1. ASSUME NEW w \in Worker, WorkerStep(w) PROVE TypeInv'
  BY <1>1, BeginTypeInv, ProbeTypeInv, SubmitTypeInv, PersistTypeInv, EndingsTypeInv,
     WaitEndsTypeInv, ObserveTypeInv DEF WorkerStep
<1> QED
  BY <1>1, ClaimTypeInv, PollTypeInv, EndingsTypeInv DEF Execution

\* TypeInv is inductive.
LEMMA NextTypeInv == ASSUME TypeInv, [Next]_vars PROVE TypeInv'
<1>1. CASE UNCHANGED vars
  BY <1>1 DEF vars, TypeInv, TypeOK, JobFits, TasksKnown
<1> QED
  BY <1>1, RequestTypeInv, AuthorityTypeInv, ExecutionTypeInv, TimeTypeInv, ProxmoxTypeInv
  DEF Next

\* Every reachable state is well typed, and what a worker holds in memory
\* agrees with the row it executes.
THEOREM TypeInvariance == Spec => []TypeInv
<1>1. Init => TypeInv
  BY InitTypeInv
<1>2. TypeInv /\ [Next]_vars => TypeInv'
  BY NextTypeInv
<1> QED
  BY <1>1, <1>2, PTL DEF Spec

\* Every reachable state is well typed (the columns of durable_operations,
\* student_vms and lab_assignments, the worker's locals, Proxmox).
THEOREM TypeCorrect == Spec => []TypeOK
<1>1. TypeInv => TypeOK
  BY DEF TypeInv
<1> QED
  BY <1>1, TypeInvariance, PTL
=============================================================================
