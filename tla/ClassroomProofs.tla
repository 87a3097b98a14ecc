--------------------------- MODULE ClassroomProofs ---------------------------
(***************************************************************************)
(* Proofs about a lab run together with the operation queue, for any       *)
(* number of workers, VMs, users and operations and any finite number of   *)
(* assignments: what the queue keeps by itself it keeps in the classroom   *)
(* too, and a student's guests stay within the student's assignments.      *)
(***************************************************************************)
EXTENDS Classroom, DurableOperationsSafety, FiniteSetTheorems

AssignmentRow == [vm: Vm \cup {Nobody}, status: AssignmentStatus, locked: BOOLEAN]

\* An end or cancel under way was asked for by a user, and every VM it read has an owner.
ClosingKnown ==
  /\ closing \in [next: {"none", "ended", "cancelled"}, by: Actor \cup {Nobody},
                  rows: SUBSET Assignment, seen: [Assignment -> Vm \cup {Nobody}]]
  /\ closing.next # "none" => closing.by \in Actor
  /\ \A a \in Assignment : closing.seen[a] # Nobody => vms[closing.seen[a]].owner # Nobody

\* The strengthening of GuestsWithinAssignments: a student's guest runs on a VM that an
\* assignment of the student links, and create_vm holds only rows that link nothing.
GuestsLinked ==
  /\ \A v \in Vm :
       guests[v] # "absent" /\ vms[v].owner \in Actor /\ RoleOf[vms[v].owner] = "student" =>
         \E a \in Linked(v) : StudentOf[a] = vms[v].owner
  /\ \A a \in Assignment : assignments[a].locked => assignments[a].vm = Nobody

ClassroomInv == TypeInv /\ RecordsInv /\ ClosingKnown /\ GuestsLinked

-----------------------------------------------------------------------------
(* The handlers of the classroom.                                          *)

\* What enqueueing for a set of VMs does to the rows: new ones for those VMs.
Added(requested, type) ==
  \A o \in OpId :
    \/ operations'[o] = operations[o]
    \/ /\ operations[o].state = "absent" /\ operations'[o].state = "queued"
       /\ operations'[o].type = type /\ operations'[o].vm \in requested
       /\ operations'[o].upid = 0

\* enqueue_operation for each VM of a set adds well-typed rows and keeps the others.
LEMMA EnqueueAllEffect ==
  ASSUME operations \in [OpId -> Operation], NEW requested \in SUBSET Vm, NEW type \in OpType,
         NEW by \in Actor \cup {System}, NEW cleanup, cleanup \in BOOLEAN, NEW key \in Key,
         EnqueueAll(requested, type, by, cleanup, key)
  PROVE  operations' \in [OpId -> Operation] /\ Added(requested, type)
<1> DEFINE Row(v) == [NoOperation(by) EXCEPT !.state = "queued", !.type = type, !.vm = v,
                        !.cleanup = cleanup, !.key = key]
<1>1. \A v \in Vm : /\ Row(v) \in Operation /\ Row(v).state = "queued"
                    /\ Row(v).type = type /\ Row(v).vm = v
                    /\ Row(v).upid = 0
  BY DEF NoOperation, Operation, OpState, Phase
<1>2. PICK id \in [requested -> OpId] :
        LET new == {id[v] : v \in requested} IN
        /\ \A o \in new : operations[o].state = "absent"
        /\ operations' = [o \in OpId |->
             IF o \notin new THEN operations[o]
             ELSE Row(CHOOSE v \in requested : id[v] = o)]
  BY DEF EnqueueAll
<1> HIDE DEF Row
<1>3. ASSUME NEW o \in OpId
      PROVE  /\ operations'[o] \in Operation
             /\ \/ operations'[o] = operations[o]
                \/ /\ operations[o].state = "absent" /\ operations'[o].state = "queued"
                   /\ operations'[o].type = type /\ operations'[o].vm \in requested
                   /\ operations'[o].upid = 0
  <2>1. CASE o \notin {id[v] : v \in requested}
    BY <1>2, <2>1
  <2>2. CASE o \in {id[v] : v \in requested}
    <3>1. (CHOOSE v \in requested : id[v] = o) \in requested
      BY <2>2
    <3> QED
      BY <1>1, <1>2, <2>2, <3>1
  <2> QED
    BY <2>1, <2>2
<1> QED
  BY <1>2, <1>3 DEF Added

\* What every handler of the classroom leaves alone, and what it may add to the queue.
Quiet ==
  /\ UNCHANGED <<job, vms, guests, tasks, access, faults>>
  /\ run' \in [state: RunState, clock: {"early", "during", "late"}]
  /\ assignments' \in [Assignment -> AssignmentRow]
  /\ \A a \in Assignment : /\ assignments'[a].vm = assignments[a].vm
                           /\ assignments'[a].locked = assignments[a].locked
                           /\ assignments'[a].status # "ready" \/ assignments'[a] = assignments[a]
  /\ operations' \in [OpId -> Operation]
  /\ \A o \in OpId :
       \/ operations'[o] = operations[o]
       \/ /\ operations[o].state = "absent" /\ operations'[o].state = "queued"
          /\ operations'[o].type # "create" /\ operations'[o].vm \in Vm
          /\ operations'[o].upid = 0
          /\ vms[operations'[o].vm].owner # Nobody
  /\ ClosingKnown'

\* A VM that an assignment links has an owner.
LEMMA LinkedOwned ==
  ASSUME TypeInv, RecordsInv, NEW a \in Assignment, assignments[a].vm # Nobody
  PROVE  assignments[a].vm \in Vm /\ vms[assignments[a].vm].owner # Nobody
  BY DEF TypeInv, TypeOK, RecordsInv, AssignmentLinksLive, Exists

\* Setting the status of some rows leaves their links.
LEMMA StatusEffect ==
  ASSUME assignments \in [Assignment -> AssignmentRow], NEW S,
         NEW status \in AssignmentStatus \ {"ready"},
         assignments' = [a \in Assignment |->
           IF a \notin S THEN assignments[a] ELSE [assignments[a] EXCEPT !.status = status]]
  PROVE  /\ assignments' \in [Assignment -> AssignmentRow]
         /\ \A a \in Assignment :
              /\ assignments'[a].vm = assignments[a].vm
              /\ assignments'[a].locked = assignments[a].locked
              /\ assignments'[a].status # "ready" \/ assignments'[a] = assignments[a]
  BY DEF AssignmentRow

\* What the queue adds for VMs that have an owner is as Quiet says.
LEMMA AddedQuietly ==
  ASSUME NEW requested \in SUBSET Vm, NEW type, type # "create", Added(requested, type),
         \A v \in requested : vms[v].owner # Nobody
  PROVE  \A o \in OpId :
           \/ operations'[o] = operations[o]
           \/ /\ operations[o].state = "absent" /\ operations'[o].state = "queued"
              /\ operations'[o].type # "create" /\ operations'[o].vm \in Vm
              /\ operations'[o].upid = 0
              /\ vms[operations'[o].vm].owner # Nobody
  BY DEF Added

\* The end or cancel that commits is as Quiet says.
LEMMA CloseCommitQuiet == ASSUME ClassroomInv, CloseCommit PROVE Quiet
<1> DEFINE linked == {closing.seen[a] : a \in closing.rows} \ {Nobody}
           requested == {v \in linked : ~KeyTaken("close", v)}
           rows == closing.rows
<1>1. /\ operations \in [OpId -> Operation] /\ assignments \in [Assignment -> AssignmentRow]
      /\ run \in [state: RunState, clock: {"early", "during", "late"}]
      /\ closing.rows \subseteq Assignment /\ closing.next \in {"ended", "cancelled"}
      /\ closing.seen \in [Assignment -> Vm \cup {Nobody}] /\ closing.by \in Actor
  BY DEF ClassroomInv, TypeInv, TypeOK, ClosingKnown, CloseCommit, AssignmentRow
<1>2. requested \in SUBSET Vm /\ \A v \in requested : vms[v].owner # Nobody
  BY <1>1 DEF ClassroomInv, ClosingKnown
<1>3. EnqueueAll(requested, "delete", closing.by, TRUE, "close")
  BY DEF CloseCommit
<1> HIDE DEF requested
<1>4. operations' \in [OpId -> Operation] /\ Added(requested, "delete")
  BY <1>1, <1>2, <1>3, EnqueueAllEffect DEF OpType, Key
<1>5. PICK status \in {"expired", "revoked"} :
        assignments' = [a \in Assignment |->
          IF a \notin rows THEN assignments[a]
          ELSE [assignments[a] EXCEPT !.status = status]]
  BY DEF CloseCommit
<1> HIDE DEF rows
<1>6. status \in AssignmentStatus \ {"ready"}
  BY DEF AssignmentStatus
<1>7. run' \in [state: RunState, clock: {"early", "during", "late"}]
  BY <1>1 DEF CloseCommit, RunState
<1>8. ClosingKnown'
  BY DEF CloseCommit, ClosingKnown, NotClosing
<1>9. /\ assignments' \in [Assignment -> AssignmentRow]
      /\ \A a \in Assignment :
           /\ assignments'[a].vm = assignments[a].vm
           /\ assignments'[a].locked = assignments[a].locked
           /\ assignments'[a].status # "ready" \/ assignments'[a] = assignments[a]
  BY <1>1, <1>5, <1>6 DEF AssignmentRow
<1>10. \A o \in OpId :
         \/ operations'[o] = operations[o]
         \/ /\ operations[o].state = "absent" /\ operations'[o].state = "queued"
            /\ operations'[o].type # "create" /\ operations'[o].vm \in Vm
            /\ operations'[o].upid = 0
            /\ vms[operations'[o].vm].owner # Nobody
  BY <1>2, <1>4, AddedQuietly
<1> QED
  BY <1>1, <1>4, <1>7, <1>8, <1>9, <1>10 DEF CloseCommit, Quiet, proxmox

\* The cleanup worker's pass is as Quiet says.
LEMMA CleanupQuiet == ASSUME ClassroomInv, CleanupWorker PROVE Quiet
<1> DEFINE expired == {a \in Assignment :
                         /\ assignments[a].vm # Nobody
                         /\ assignments[a].status \in {"assigned", "ready", "expired"}}
           requested == {assignments[a].vm : a \in expired} \ {v \in Vm : KeyTaken("expire", v)}
<1>1. /\ operations \in [OpId -> Operation] /\ assignments \in [Assignment -> AssignmentRow]
      /\ run \in [state: RunState, clock: {"early", "during", "late"}]
      /\ TypeInv /\ RecordsInv
  BY DEF ClassroomInv, TypeInv, TypeOK, AssignmentRow
<1>2. requested \in SUBSET Vm /\ \A v \in requested : vms[v].owner # Nobody
  BY <1>1, LinkedOwned
<1>3. /\ EnqueueAll(requested, "delete", System, TRUE, "expire")
      /\ assignments' = [a \in Assignment |->
           IF a \notin expired THEN assignments[a]
           ELSE [assignments[a] EXCEPT !.status = "expired"]]
  BY DEF CleanupWorker
<1> HIDE DEF requested, expired
<1>4. operations' \in [OpId -> Operation] /\ Added(requested, "delete")
  BY <1>1, <1>2, <1>3, EnqueueAllEffect DEF OpType, Key
<1>5. "expired" \in AssignmentStatus \ {"ready"}
  BY DEF AssignmentStatus
<1>6. ClosingKnown'
  BY DEF CleanupWorker, ClassroomInv, ClosingKnown
<1>7. /\ assignments' \in [Assignment -> AssignmentRow]
      /\ \A a \in Assignment :
           /\ assignments'[a].vm = assignments[a].vm
           /\ assignments'[a].locked = assignments[a].locked
           /\ assignments'[a].status # "ready" \/ assignments'[a] = assignments[a]
  BY <1>1, <1>3, <1>5, StatusEffect
<1>8. \A o \in OpId :
        \/ operations'[o] = operations[o]
        \/ /\ operations[o].state = "absent" /\ operations'[o].state = "queued"
           /\ operations'[o].type # "create" /\ operations'[o].vm \in Vm
           /\ operations'[o].upid = 0
           /\ vms[operations'[o].vm].owner # Nobody
  BY <1>2, <1>4, AddedQuietly
<1> QED
  BY <1>1, <1>4, <1>6, <1>7, <1>8 DEF CleanupWorker, Quiet, proxmox

\* A bulk action queues for linked VMs only, as Quiet says.
LEMMA BulkQuiet ==
  ASSUME ClassroomInv, NEW u \in Actor, NEW type \in Requested \ {"create"}, BulkVmAction(u, type)
  PROVE  Quiet
<1> DEFINE requested == {v \in Vm : Linked(v) # {}}
           cleanup == type = "delete"
<1>1. /\ operations \in [OpId -> Operation] /\ assignments \in [Assignment -> AssignmentRow]
      /\ run \in [state: RunState, clock: {"early", "during", "late"}]
      /\ TypeInv /\ RecordsInv
  BY DEF ClassroomInv, TypeInv, TypeOK, AssignmentRow
<1>2. requested \in SUBSET Vm /\ \A v \in requested : vms[v].owner # Nobody
  BY <1>1, LinkedOwned, ActorsAssumption DEF Linked
<1>3. EnqueueAll(requested, type, u, cleanup, "uuid")
  BY DEF BulkVmAction
<1>4. type \in OpType /\ cleanup \in BOOLEAN
  BY BoundsAssumption DEF OpType
<1> HIDE DEF requested, cleanup
<1>5. operations' \in [OpId -> Operation] /\ Added(requested, type)
  BY <1>1, <1>2, <1>3, <1>4, EnqueueAllEffect DEF Key
<1>6. ClosingKnown'
  BY DEF BulkVmAction, ClassroomInv, ClosingKnown, records
<1> QED
  BY <1>1, <1>2, <1>5, <1>6, AddedQuietly DEF BulkVmAction, Quiet, proxmox, records

\* Every handler of the classroom is as Quiet says.
LEMMA SchoolingQuiet == ASSUME ClassroomInv, Schooling PROVE Quiet
<1> DEFINE Run == [state: RunState, clock: {"early", "during", "late"}]
<1>1. /\ operations \in [OpId -> Operation] /\ assignments \in [Assignment -> AssignmentRow]
      /\ run \in Run /\ TypeInv /\ RecordsInv /\ ClosingKnown
  BY DEF ClassroomInv, TypeInv, TypeOK, AssignmentRow
<1>2. ASSUME UNCHANGED <<operations, job, vms, assignments, access, guests, tasks, faults, closing>>,
             run' \in Run
      PROVE  Quiet
  <2>1. ClosingKnown'
    BY <1>1, <1>2 DEF ClosingKnown
  <2> QED
    BY <1>1, <1>2, <2>1 DEF Quiet
<1>3. ASSUME NEW u \in Actor, ScheduleRun(u) \/ ActivateRun(u) PROVE Quiet
  <2>1. run' \in Run
    BY <1>1, <1>3 DEF ScheduleRun, ActivateRun, RunState
  <2> QED
    BY <1>2, <1>3, <2>1 DEF ScheduleRun, ActivateRun, records, proxmox
<1>4. CASE StartTimePasses
  <2>1. run' \in Run
    BY <1>1, <1>4 DEF StartTimePasses
  <2> QED
    BY <1>2, <1>4, <2>1 DEF StartTimePasses, records, proxmox
<1>5. ASSUME NEW u \in Actor, NEW next \in {"ended", "cancelled"}, CloseRead(u, next) PROVE Quiet
  <2>1. ClosingKnown'
    BY <1>1, <1>5, LinkedOwned DEF CloseRead, ClosingKnown, AssignmentRow, vars
  <2> QED
    BY <1>1, <1>5, <2>1 DEF CloseRead, Quiet, vars
<1>6. ASSUME NEW a \in Assignment, NEW status \in AssignmentStatus \ {"ready"},
             assignments' = [assignments EXCEPT ![a].status = status],
             UNCHANGED <<operations, job, vms, run, access, guests, tasks, faults, closing>>
      PROVE  Quiet
  <2>1. ClosingKnown'
    BY <1>1, <1>6 DEF ClosingKnown
  <2>2. assignments' = [b \in Assignment |->
          IF b \notin {a} THEN assignments[b] ELSE [assignments[b] EXCEPT !.status = status]]
    BY <1>1, <1>6
  <2>3. /\ assignments' \in [Assignment -> AssignmentRow]
        /\ \A b \in Assignment :
             /\ assignments'[b].vm = assignments[b].vm
             /\ assignments'[b].locked = assignments[b].locked
             /\ assignments'[b].status # "ready" \/ assignments'[b] = assignments[b]
    BY <1>1, <2>2, StatusEffect
  <2> QED
    BY <1>1, <1>6, <2>1, <2>3 DEF Quiet
<1>7. ASSUME NEW u \in Actor, NEW a \in Assignment, CreateAssignment(u, a) \/ RevokeAssignment(u, a)
      PROVE  Quiet
  BY <1>6, <1>7 DEF CreateAssignment, RevokeAssignment, AssignmentStatus, proxmox
<1> QED
  BY <1>1, <1>3, <1>4, <1>5, <1>7, CloseCommitQuiet, CleanupQuiet, BulkQuiet DEF Schooling

\* The classroom keeps what the queue relies on.
LEMMA QuietInv == ASSUME ClassroomInv, Quiet PROVE ClassroomInv'
<1>1. TypeInv /\ RecordsInv /\ GuestsLinked
  BY DEF ClassroomInv
<1>2. RowsKept
  BY DEF Quiet, RowsKept
<1>3. TypeInv'
  <2>1. TypeOK'
    BY <1>1 DEF Quiet, TypeInv, TypeOK, AssignmentRow
  <2>2. \A w \in Worker : JobFits(w)'
    BY <1>1, <1>2, NoWorkerMoves DEF Quiet
  <2>3. TasksKnown'
    BY <1>1 DEF Quiet, TypeInv, TasksKnown
  <2> QED
    BY <2>1, <2>2, <2>3 DEF TypeInv
<1>4. RecordsInv'
  <2>1. AssignmentLinksLive'
    BY <1>1 DEF Quiet, RecordsInv, AssignmentLinksLive, Linked, Exists
  <2>2. StudentVmStaysDeleted' /\ (\A v \in Vm : vms[v].owner = Nobody => ~vms[v].tombstoned)'
    BY <1>1 DEF Quiet, RecordsInv, StudentVmStaysDeleted
  <2>3. (\A o \in OpId : operations[o].state # "absent" =>
           /\ operations[o].vm \in Vm /\ vms[operations[o].vm].owner # Nobody
           /\ operations[o].type = "create" => operations[o].by = vms[operations[o].vm].owner)'
    BY <1>1 DEF Quiet, RecordsInv
  <2> QED
    BY <2>1, <2>2, <2>3 DEF RecordsInv
<1>5. GuestsLinked'
  BY <1>1 DEF Quiet, GuestsLinked, Linked
<1> QED
  BY <1>3, <1>4, <1>5 DEF Quiet, ClassroomInv

-----------------------------------------------------------------------------
(* The steps of the queue.                                                 *)

\* A VM keeps its owner, and the row of a VM that nobody owns has no link to lose.
OwnersKept == \A v \in Vm : vms'[v].owner = vms[v].owner

\* A VM with a guest keeps its links, and create_vm gets hold of no row.
LinksKept ==
  /\ \A a \in Assignment, v \in Vm :
       assignments[a].vm = v /\ guests'[v] # "absent" => assignments'[a].vm = v
  /\ \A a \in Assignment : assignments'[a].locked =>
       assignments[a].locked /\ assignments'[a].vm \in {assignments[a].vm, Nobody}

\* A guest appears for a student's VM only while an assignment of the student links it.
GuestsAppearLinked ==
  \A v \in Vm :
    /\ guests[v] = "absent" /\ guests'[v] # "absent"
    /\ vms[v].owner \in Actor /\ RoleOf[vms[v].owner] = "student"
    => \E a \in Linked(v) : StudentOf[a] = vms[v].owner

\* Steps that keep owners and links, and add guests only where a link is.
LEMMA StableGuestsLinked ==
  ASSUME GuestsLinked, OwnersKept, LinksKept, GuestsAppearLinked
  PROVE  GuestsLinked'
  BY DEF GuestsLinked, OwnersKept, LinksKept, GuestsAppearLinked, Linked

\* A step that leaves VM rows and assignments alone keeps owners and links.
LEMMA RecordsKept == ASSUME UNCHANGED <<vms, assignments>> PROVE OwnersKept /\ LinksKept
  BY DEF OwnersKept, LinksKept

\* A deletion without a guest keeps owners, and the links of VMs that have one.
LEMMA DeletionKeeps ==
  ASSUME TypeInv, NEW v \in Vm, guests[v] = "absent", UNCHANGED guests,
         vms' = [vms EXCEPT ![v].tombstoned = TRUE],
         \A a \in Assignment :
           \/ assignments'[a] = assignments[a]
           \/ /\ assignments[a].vm = v /\ assignments'[a].vm = Nobody
              /\ assignments'[a].locked = assignments[a].locked
  PROVE  OwnersKept /\ LinksKept /\ GuestsAppearLinked
<1>1. vms \in [Vm -> [owner: Actor \cup {Nobody}, tombstoned: BOOLEAN]]
  BY DEF TypeInv, TypeOK
<1> QED
  BY <1>1 DEF OwnersKept, LinksKept, GuestsAppearLinked

\* The success of vm.delete, with the guest gone.
LEMMA SucceedDeleteKeeps ==
  ASSUME TypeInv, RecordsInv, NEW w \in Worker, job[w].pc # "idle", SucceedDelete(w),
         UNCHANGED guests, guests[Op(w).vm] = "absent"
  PROVE  OwnersKept /\ LinksKept /\ GuestsAppearLinked
<1>1. Op(w).vm \in Vm
  BY DEF TypeInv, JobFits, RecordsInv, Op
<1>2. assignments \in [Assignment -> AssignmentRow]
  BY DEF TypeInv, TypeOK, AssignmentRow
<1>3. \A a \in Assignment :
        \/ assignments'[a] = assignments[a]
        \/ /\ assignments[a].vm = Op(w).vm /\ assignments'[a].vm = Nobody
           /\ assignments'[a].locked = assignments[a].locked
  BY <1>2 DEF SucceedDelete, AssignmentRow
<1> QED
  BY <1>1, <1>3, DeletionKeeps DEF SucceedDelete

\* The success of vm.create.
LEMMA SucceedCreateKeeps ==
  ASSUME TypeInv, NEW w \in Worker, SucceedCreate(w), UNCHANGED guests
  PROVE  OwnersKept /\ LinksKept /\ GuestsAppearLinked
<1>1. assignments \in [Assignment -> [vm: Vm \cup {Nobody}, status: AssignmentStatus,
                                      locked: BOOLEAN]]
  BY DEF TypeInv, TypeOK
<1> QED
  BY <1>1 DEF SucceedCreate, OwnersKept, LinksKept, GuestsAppearLinked

\* A clone is submitted for a student's VM only while the student's assignment links it.
LEMMA SubmitAppearsLinked ==
  ASSUME TypeInv, RecordsInv, NEW w \in Worker, NEW t \in TaskId, Submit(w, t)
  PROVE  GuestsAppearLinked
<1>0. guests \in [Vm -> {"absent", "stopped", "running"}]
  BY DEF TypeInv, TypeOK
<1>1. CASE job[w].kind # "clone"
  BY <1>1 DEF Submit, GuestsAppearLinked
<1>2. CASE job[w].kind = "clone"
  <2> DEFINE v == Op(w).vm
             u == vms[v].owner
  <2>1. job[w].op \in OpId /\ Op(w).state # "absent" /\ Op(w).type = "create"
    BY <1>2 DEF Submit, TypeInv, JobFits, Fits, Op
  <2>2. v \in Vm /\ u # Nobody /\ Op(w).by = u
    BY <2>1 DEF RecordsInv, Op
  <2>3. u \in Actor /\ u # System
    BY <2>2, ActorsAssumption DEF TypeInv, TypeOK
  <2>4. ActorMay(u, v, "create")
    BY <2>1, <2>2, <2>3 DEF Submit, Authorized, Op
  <2>5. RoleOf[u] = "student" => \E a \in Linked(v) : StudentOf[a] = u
    BY <2>4 DEF ActorMay, StudentMayOperate
  <2>6. guests' = [guests EXCEPT ![v] = "stopped"]
    BY <1>2 DEF Submit
  <2> QED
    BY <1>0, <2>5, <2>6 DEF GuestsAppearLinked
<1> QED
  BY <1>1, <1>2

\* Every step of a worker keeps GuestsLinked.
LEMMA WorkerGuestsLinked ==
  ASSUME TypeInv, RecordsInv, GuestsLinked, NEW w \in Worker,
         WorkerStep(w) \/ Poll(w) \/ HttpError(w) \/ Crash(w)
  PROVE  GuestsLinked' /\ OwnersKept
<1>1. ASSUME UNCHANGED <<vms, assignments, guests>> PROVE GuestsLinked' /\ OwnersKept
  BY <1>1, RecordsKept, StableGuestsLinked DEF GuestsAppearLinked
<1>2. ASSUME job[w].pc # "idle", Fail(w), UNCHANGED guests PROVE GuestsLinked' /\ OwnersKept
  BY <1>1, <1>2 DEF Fail, records
<1>3. ASSUME job[w].pc # "idle", SucceedDelete(w), UNCHANGED guests, guests[Op(w).vm] = "absent"
      PROVE  GuestsLinked' /\ OwnersKept
  BY <1>3, SucceedDeleteKeeps, StableGuestsLinked
<1>4. CASE Refuse(w) \/ Begin(w) \/ Crash(w) \/ Persist(w) \/ Poll(w)
  BY <1>1, <1>4 DEF Refuse, Begin, Crash, Persist, Poll, records, proxmox
<1>5. CASE Probe(w)
  BY <1>1, <1>2, <1>3, <1>5 DEF Probe, records, proxmox
<1>6. ASSUME NEW t \in TaskId, Submit(w, t) PROVE GuestsLinked' /\ OwnersKept
  <2>1. UNCHANGED <<vms, assignments>>
    BY <1>6 DEF Submit, Fail, records
  <2> QED
    BY <1>6, <2>1, RecordsKept, SubmitAppearsLinked, StableGuestsLinked
<1>7. CASE SubmitRefused(w)
  <2>1. Fits(Op(w).type, job[w].kind)
    BY <1>7 DEF SubmitRefused, TypeInv, JobFits, Op
  <2>2. Op(w).type = "delete" => guests[Op(w).vm] = "absent"
    BY <1>7, <2>1 DEF SubmitRefused, Accepts, Fits
  <2> QED
    BY <1>2, <1>3, <1>7, <2>2 DEF SubmitRefused, proxmox
<1>8. CASE WaitEnds(w) \/ HttpError(w)
  BY <1>1, <1>2, <1>8 DEF WaitEnds, HttpError, records, proxmox
<1>9. CASE ObserveCreate(w)
  <2>1. CASE SucceedCreate(w)
    BY <1>9, <2>1, SucceedCreateKeeps, StableGuestsLinked DEF ObserveCreate, proxmox
  <2> QED
    BY <1>1, <1>2, <1>9, <2>1 DEF ObserveCreate, records, proxmox
<1>10. CASE ObservePower(w)
  BY <1>1, <1>2, <1>10 DEF ObservePower, Succeed, records, proxmox
<1>11. CASE ObserveDelete(w)
  BY <1>1, <1>2, <1>3, <1>11 DEF ObserveDelete, records, proxmox
<1> QED
  BY <1>4, <1>5, <1>6, <1>7, <1>8, <1>9, <1>10, <1>11 DEF WorkerStep

\* The handlers of api/routers/vms.py keep GuestsLinked, and no VM loses its owner.
LEMMA RequestGuestsLinked ==
  ASSUME TypeInv, RecordsInv, GuestsLinked, Request
  PROVE  GuestsLinked' /\ \A v \in Vm : vms[v].owner # Nobody => vms'[v].owner # Nobody
<1> DEFINE Goal1 ==
             GuestsLinked' /\ \A v \in Vm : vms[v].owner # Nobody => vms'[v].owner # Nobody
<1>0. /\ vms \in [Vm -> [owner: Actor \cup {Nobody}, tombstoned: BOOLEAN]]
      /\ assignments \in [Assignment -> [vm: Vm \cup {Nobody}, status: AssignmentStatus,
                                         locked: BOOLEAN]]
      /\ Nobody \notin Vm /\ Nobody \notin Actor /\ StudentOf \in [Assignment -> Actor]
  BY ActorsAssumption DEF TypeInv, TypeOK
<1>1. ASSUME OwnersKept, LinksKept, UNCHANGED guests PROVE Goal1
  BY <1>1, StableGuestsLinked DEF GuestsAppearLinked, OwnersKept
<1>2. ASSUME NEW a \in Assignment, CreateVmCheck(a) \/ CreateVmAbort(a) PROVE Goal1
  <2>1. /\ UNCHANGED <<vms, guests>>
        /\ \A b \in Assignment :
             /\ assignments'[b].vm = assignments[b].vm
             /\ assignments'[b].locked => assignments[b].locked \/ assignments[b].vm = Nobody
    BY <1>0, <1>2 DEF CreateVmCheck, CreateVmAbort, proxmox
  <2> QED
    BY <2>1 DEF GuestsLinked, Linked
<1>3. ASSUME NEW a \in Assignment, NEW v \in Vm, NEW o \in OpId, NEW auto \in BOOLEAN,
             CreateVmCommit(a, v, o, auto)
      PROVE  Goal1
  <2>1. /\ vms'[v].owner = StudentOf[a] /\ vms[v].owner = Nobody /\ UNCHANGED guests
        /\ \A x \in Vm : x # v => vms'[x] = vms[x]
    BY <1>0, <1>3 DEF CreateVmCommit, proxmox
  <2>2. /\ assignments[a].vm = Nobody /\ assignments'[a].vm = v /\ ~assignments'[a].locked
        /\ \A b \in Assignment : b # a => assignments'[b] = assignments[b]
    BY <1>0, <1>3 DEF CreateVmCommit, GuestsLinked
  <2>3. ASSUME NEW x \in Vm, x # v, guests[x] # "absent", vms[x].owner \in Actor,
               RoleOf[vms[x].owner] = "student"
        PROVE  \E b \in Assignment : assignments'[b].vm = x /\ StudentOf[b] = vms[x].owner
    <3>1. PICK b \in Assignment : assignments[b].vm = x /\ StudentOf[b] = vms[x].owner
      BY <2>3 DEF GuestsLinked, Linked
    <3>2. b # a
      BY <1>0, <2>2, <3>1
    <3> QED
      BY <2>2, <3>1, <3>2
  <2>4. GuestsLinked'
    BY <1>0, <2>1, <2>2, <2>3 DEF GuestsLinked, Linked
  <2> QED
    BY <1>0, <2>1, <2>4
<1>4. ASSUME NEW u \in Actor, NEW v \in Vm, NEW o \in OpId, NEW auto \in BOOLEAN,
             CreateVmStaff(u, v, o, auto)
      PROVE  Goal1
  <2>1. /\ vms'[v].owner = u /\ vms[v].owner = Nobody /\ RoleOf[u] # "student"
        /\ UNCHANGED <<guests, assignments>>
        /\ \A x \in Vm : x # v => vms'[x] = vms[x]
    BY <1>0, <1>4 DEF CreateVmStaff, proxmox
  <2> QED
    BY <1>0, <2>1 DEF GuestsLinked, Linked
<1>5. ASSUME NEW u \in Actor, NEW v \in Vm, NEW o \in OpId, NEW type \in Requested \ {"create"},
             QueueVmAction(u, v, o, type)
      PROVE  Goal1
  BY <1>1, <1>5, RecordsKept DEF QueueVmAction, proxmox
<1>6. ASSUME NEW u \in Actor, NEW v \in Vm, DeleteAppRecord(u, v) PROVE Goal1
  <2>1. \A a \in Assignment :
          \/ assignments'[a] = assignments[a]
          \/ /\ assignments[a].vm = v /\ assignments'[a].vm = Nobody
             /\ assignments'[a].locked = assignments[a].locked
    BY <1>0, <1>6 DEF DeleteAppRecord
  <2>2. OwnersKept /\ LinksKept
    BY <1>6, <2>1, DeletionKeeps DEF DeleteAppRecord, proxmox
  <2> QED
    BY <1>1, <1>6, <2>2 DEF DeleteAppRecord, proxmox
<1> QED
  BY <1>2, <1>3, <1>4, <1>5, <1>6 DEF Request

\* Whatever Proxmox does, no guest appears by itself.
LEMMA ProxmoxGuestsLinked ==
  ASSUME TypeInv, GuestsLinked, Proxmox
  PROVE  GuestsLinked' /\ OwnersKept
<1>0. guests \in [Vm -> {"absent", "stopped", "running"}]
  BY DEF TypeInv, TypeOK
<1>1. UNCHANGED <<vms, assignments>>
  BY DEF Proxmox, TaskSucceeds, TaskFails, GuestChanges, records
<1>2. ASSUME NEW t \in TaskId, TaskSucceeds(t) PROVE GuestsAppearLinked
  <2>1. tasks[t].kind \in Mutation
    BY <1>2 DEF TaskSucceeds, TypeInv, TasksKnown
  <2>2. guests[tasks[t].vm] # "absent"
    BY <1>2, <2>1 DEF TaskSucceeds, Possible, Mutation
  <2> QED
    BY <1>0, <1>2, <2>2 DEF TaskSucceeds, GuestsAppearLinked
<1>3. ASSUME NEW t \in TaskId, TaskFails(t) PROVE GuestsAppearLinked
  BY <1>0, <1>3 DEF TaskFails, GuestsAppearLinked
<1>4. ASSUME NEW v \in Vm, GuestChanges(v) PROVE GuestsAppearLinked
  BY <1>0, <1>4 DEF GuestChanges, GuestsAppearLinked
<1> QED
  BY <1>1, <1>2, <1>3, <1>4, RecordsKept, StableGuestsLinked DEF Proxmox

\* Every step of the queue keeps GuestsLinked, and no VM loses its owner.
LEMMA NextGuestsLinked ==
  ASSUME TypeInv, RecordsInv, GuestsLinked, [Next]_vars
  PROVE  GuestsLinked' /\ \A v \in Vm : vms[v].owner # Nobody => vms'[v].owner # Nobody
<1>1. ASSUME UNCHANGED <<vms, assignments, guests>> PROVE GuestsLinked' /\ OwnersKept
  BY <1>1, RecordsKept, StableGuestsLinked DEF GuestsAppearLinked
<1>2. CASE UNCHANGED vars
  BY <1>1, <1>2 DEF vars, OwnersKept
<1>3. CASE Authority
  BY <1>1, <1>3 DEF Authority, EndTimePasses, WithdrawAccess, proxmox, OwnersKept
<1>4. CASE Time
  BY <1>1, <1>4 DEF Time, LeaseExpires, BackoffElapses, records, proxmox, OwnersKept
<1>5. CASE Execution
  BY <1>1, <1>5, WorkerGuestsLinked DEF Execution, Claim, records, proxmox, OwnersKept
<1> QED
  BY <1>2, <1>3, <1>4, <1>5, RequestGuestsLinked, ProxmoxGuestsLinked DEF Next, OwnersKept

-----------------------------------------------------------------------------
(* What the queue keeps by itself.                                         *)

\* The leases and records that the queue's guarantees rest on.
QueueInv == LeaseInv /\ TaskInv

\* No handler of the classroom executes, claims or finishes anything.
LEMMA QuietQueueInv == ASSUME TypeInv, QueueInv, Quiet PROVE QueueInv'
<1>1. UNCHANGED job /\ (NoStall' => NoStall) /\ TasksStay
  BY DEF Quiet, NoStall, TasksStay
<1>2. \A o \in OpId : \/ operations'[o] = operations[o]
                      \/ operations[o].state = "absent" /\ operations'[o].upid = 0
  BY DEF Quiet
<1>3. LeaseInv'
  BY <1>1, <1>2, StillLeaseInv DEF QueueInv
<1>4. TaskInv'
  BY <1>1, <1>2, StillTaskInv DEF QueueInv, RecordKept
<1> QED
  BY <1>3, <1>4 DEF QueueInv

\* No handler of the classroom ends an operation.
LEMMA QuietOutcomes ==
  ASSUME Quiet, NEW o \in OpId
  PROVE  operations'[o].state # operations[o].state =>
           operations[o].state = "absent" /\ operations'[o].state # "succeeded"
  BY DEF Quiet

\* What the handlers of the classroom enqueue is asked for at once.
LEMMA QuietIsAsk == ASSUME Quiet PROVE Promise!Next \/ UNCHANGED Promise!vars
<1> DEFINE asked == {o \in OpId : operations'[o] # operations[o]}
<1>1. UNCHANGED guests /\ asked \in SUBSET OpId
  BY DEF Quiet
<1>2. CASE asked = {}
  BY <1>1, <1>2, UnseenStep DEF LooksSame
<1>3. CASE asked # {}
  <2>1. /\ \A o \in asked : operations[o].state = "absent" /\ operations'[o].state = "queued"
        /\ \A o \in OpId \ asked : operations'[o] = operations[o]
    BY DEF Quiet
  <2> HIDE DEF asked
  <2> QED
    BY <1>1, <1>3, <2>1, NewRowsAreAsked
<1> QED
  BY <1>2, <1>3

-----------------------------------------------------------------------------
(* The classroom.                                                          *)

\* ClassroomInv is inductive.
LEMMA NextClassroomInv == ASSUME ClassroomInv, [ClassroomNext]_classroomVars PROVE ClassroomInv'
<1>1. TypeInv /\ RecordsInv /\ GuestsLinked /\ ClosingKnown
  BY DEF ClassroomInv
<1>2. ASSUME [Next]_vars, UNCHANGED closing PROVE ClassroomInv'
  <2>1. TypeInv' /\ RecordsInv'
    BY <1>1, <1>2, NextTypeInv, NextRecordsInv
  <2>2. GuestsLinked' /\ \A v \in Vm : vms[v].owner # Nobody => vms'[v].owner # Nobody
    BY <1>1, <1>2, NextGuestsLinked
  <2>3. ClosingKnown'
    BY <1>1, <1>2, <2>2 DEF ClosingKnown
  <2> QED
    BY <2>1, <2>2, <2>3 DEF ClassroomInv
<1>3. CASE Schooling
  BY <1>3, SchoolingQuiet, QuietInv
<1> QED
  BY <1>2, <1>3 DEF ClassroomNext, classroomVars

\* Nothing is assigned, nothing is queued and nothing is being closed at first.
LEMMA InitClassroomInv == ASSUME ClassroomInit PROVE ClassroomInv
<1>1. TypeOK
  BY ActorsAssumption, BoundsAssumption
  DEF ClassroomInit, TypeOK, Operation, NoOperation, Job, Idle, NoTask, OpState, OpType, Key,
      Phase, Kind, AssignmentStatus, RunState
<1>2. (\A w \in Worker : JobFits(w)) /\ TasksKnown
  BY DEF ClassroomInit, JobFits, TasksKnown, Idle, NoTask
<1>3. RecordsInv
  BY DEF ClassroomInit, RecordsInv, AssignmentLinksLive, StudentVmStaysDeleted, NoOperation
<1>4. ClosingKnown /\ GuestsLinked
  BY DEF ClassroomInit, ClosingKnown, NotClosing, GuestsLinked
<1> QED
  BY <1>1, <1>2, <1>3, <1>4 DEF ClassroomInv, TypeInv

\* In the classroom too, rows, workers, links, tombstones and guests agree, an end or cancel
\* under way has read VMs that exist, and a student's guest has a link (change_lab_run_state,
\* create_run_assignment, revoke_run_assignment, bulk_vm_action, cleanup_worker.run_once).
THEOREM ClassroomInvariance == ClassroomSpec => []ClassroomInv
<1>1. ClassroomInit => ClassroomInv
  BY InitClassroomInv
<1>2. ClassroomInv /\ [ClassroomNext]_classroomVars => ClassroomInv'
  BY NextClassroomInv
<1> QED
  BY <1>1, <1>2, PTL DEF ClassroomSpec

\* Every reachable state of the classroom is well typed, change_lab_run_state between its
\* SELECT and its COMMIT included.
THEOREM ClassroomTypes == ClassroomSpec => []ClassroomTypeOK
<1>1. ClassroomInv => ClassroomTypeOK
  BY DEF ClassroomInv, TypeInv, ClosingKnown, ClassroomTypeOK
<1> QED
  BY <1>1, ClassroomInvariance, PTL

\* Linked VMs are counted by the assignments that link them.
LEMMA GuestsCounted == ASSUME ClassroomInv PROVE GuestsWithinAssignments
<1> SUFFICES ASSUME NEW u \in Actor, RoleOf[u] = "student"
             PROVE  Cardinality({v \in Vm : vms[v].owner = u /\ guests[v] # "absent"})
                      <= Cardinality({a \in Assignment : StudentOf[a] = u})
  BY DEF GuestsWithinAssignments
<1> DEFINE S == {v \in Vm : vms[v].owner = u /\ guests[v] # "absent"}
           T == {a \in Assignment : StudentOf[a] = u}
           f == [v \in S |-> CHOOSE a \in T : assignments[a].vm = v]
<1>1. ASSUME NEW v \in S PROVE f[v] \in T /\ assignments[f[v]].vm = v
  <2>1. \E a \in T : assignments[a].vm = v
    BY DEF ClassroomInv, GuestsLinked, Linked
  <2> QED
    BY <2>1
<1>2. f = [v \in S |-> f[v]]
  OBVIOUS
<1>3. IsFiniteSet(T)
  BY ClassroomBounds, FS_Subset
<1> HIDE DEF S, T, f
<1>4. f \in [S -> T] /\ DOMAIN f = S /\ \A v1, v2 \in S : f[v1] = f[v2] => v1 = v2
  BY <1>1, <1>2
<1>5. Cardinality(S) <= Cardinality(T)
  <2>1. f \in Injection(S, T)
    BY <1>4 DEF Injection, IsInjective
  <2> QED
    BY <1>3, <2>1, FS_Injection
<1> QED
  BY <1>5 DEF S, T

\* A student never has more guests in Proxmox than assignments, through deletions, removed
\* records, revocations and reused assignments (assignment_for_provisioning, vm.create's
\* re-validation, vm.delete, delete_app_record_admin).
THEOREM StudentsStayWithinAssignments == ClassroomSpec => []GuestsWithinAssignments
<1>1. ClassroomInv => GuestsWithinAssignments
  BY GuestsCounted
<1> QED
  BY <1>1, ClassroomInvariance, PTL

\* No handler of the classroom changes Proxmox by itself, and what it enqueues or withdraws
\* never lets a worker do so without authority (_validate_operation_authorization).
THEOREM ClassroomCallsAreAuthorized == ClassroomSpec => MutationsAuthorized
<1> DEFINE Asks == \A t \in TaskId : tasks[t].status = "unused" /\ tasks'[t].status # "unused" =>
                     Authorized(tasks'[t].op)
<1>1. ClassroomInv /\ [ClassroomNext]_classroomVars => [Asks]_vars
  <2> SUFFICES ASSUME ClassroomInv, [ClassroomNext]_classroomVars PROVE [Asks]_vars
    OBVIOUS
  <2>1. CASE Schooling
    <3>1. UNCHANGED tasks
      BY <2>1, SchoolingQuiet DEF Quiet
    <3> QED
      BY <3>1
  <2>2. CASE [Next]_vars
    BY <2>2, TaskIsSubmitted DEF ClassroomInv
  <2> QED
    BY <2>1, <2>2 DEF ClassroomNext, classroomVars
<1> QED
  BY <1>1, ClassroomInvariance, PTL DEF ClassroomSpec, MutationsAuthorized

\* In the classroom too no assignment links a deleted VM, no VM is linked twice, and ready
\* means there is a VM, whatever staff revoke, reuse, end or cancel.
THEOREM ClassroomLinksAreLive == ClassroomSpec => []AssignmentLinksLive
<1>1. ClassroomInv => AssignmentLinksLive
  BY DEF ClassroomInv, RecordsInv
<1> QED
  BY <1>1, ClassroomInvariance, PTL

\* In the classroom too a student's deleted VM never has a guest again, whatever deletes
\* change_lab_run_state and the cleanup worker add to the queue.
THEOREM ClassroomDeletedVmsStayAway == ClassroomSpec => []StudentVmStaysDeleted
<1>1. ClassroomInv => StudentVmStaysDeleted
  BY DEF ClassroomInv, RecordsInv
<1> QED
  BY <1>1, ClassroomInvariance, PTL

\* In the classroom too a worker that keeps its lease has its operation for itself, and what
\* it is about to submit is not on record, whatever lab runs enqueue meanwhile.
THEOREM ClassroomQueueInvariance == ClassroomSpec => []QueueInv
<1>1. ClassroomInit => QueueInv
  <2> SUFFICES ASSUME ClassroomInit
               PROVE  /\ \A o \in OpId : operations[o].upid = 0
                      /\ \A w \in Worker : job[w].pc = "idle" /\ job[w].op = 0
    BY DEF QueueInv, LeaseInv, LeaseExclusive, TaskInv, RowRecorded
  <2> QED
    BY DEF ClassroomInit, NoOperation, Idle
<1>2. ClassroomInv /\ QueueInv /\ [ClassroomNext]_classroomVars => QueueInv'
  <2> SUFFICES ASSUME ClassroomInv, QueueInv, [ClassroomNext]_classroomVars PROVE QueueInv'
    OBVIOUS
  <2>1. TypeInv
    BY DEF ClassroomInv
  <2>2. CASE Schooling
    BY <2>1, <2>2, SchoolingQuiet, QuietQueueInv
  <2>3. CASE [Next]_vars
    BY <2>1, <2>3, NextLeaseInv, NextTaskInv DEF QueueInv
  <2> QED
    BY <2>2, <2>3 DEF ClassroomNext, classroomVars
<1> QED
  BY <1>1, <1>2, ClassroomInvariance, PTL DEF ClassroomSpec

\* In the classroom too no two workers execute one operation, unless one stalls
\* (claim_operation, renew_lease).
THEOREM ClassroomLeasesExclude == ClassroomSpec => []LeaseExclusive
<1>1. QueueInv => LeaseExclusive
  BY DEF QueueInv, LeaseInv
<1> QED
  BY <1>1, ClassroomQueueInvariance, PTL

\* Ending a run, expiring it or revoking an assignment never reopens a finished operation,
\* unless a worker stalls (change_lab_run_state, cleanup_worker.run_once).
THEOREM ClassroomFinalStatesAreFinal == ClassroomSpec => TerminalIsFinal
<1> DEFINE Final == NoStall' => \A o \in OpId : operations[o].state \in Terminal =>
                      operations'[o].state = operations[o].state
<1>1. ClassroomInv /\ QueueInv /\ [ClassroomNext]_classroomVars => [Final]_vars
  <2> SUFFICES ASSUME ClassroomInv, QueueInv, [ClassroomNext]_classroomVars PROVE [Final]_vars
    OBVIOUS
  <2>1. CASE Schooling
    BY <2>1, SchoolingQuiet, QuietOutcomes DEF Terminal
  <2>2. CASE [Next]_vars
    BY <2>2, NextKeepsTerminal DEF ClassroomInv, QueueInv
  <2> QED
    BY <2>1, <2>2 DEF ClassroomNext, classroomVars
<1> QED
  BY <1>1, ClassroomInvariance, ClassroomQueueInvariance, PTL DEF ClassroomSpec, TerminalIsFinal

\* Nothing the classroom does marks an operation succeeded before Proxmox shows its result
\* (the handlers enqueue, and only execute_operation finishes).
THEOREM ClassroomSuccessIsObserved == ClassroomSpec => NoFalseSuccess
<1> DEFINE Seen == \A o \in OpId :
                     operations'[o].state = "succeeded" /\ operations[o].state # "succeeded" => Goal(o)
<1>1. ClassroomInv /\ [ClassroomNext]_classroomVars => [Seen]_vars
  <2> SUFFICES ASSUME ClassroomInv, [ClassroomNext]_classroomVars PROVE [Seen]_vars
    OBVIOUS
  <2>1. CASE Schooling
    BY <2>1, SchoolingQuiet, QuietOutcomes
  <2>2. CASE [Next]_vars
    BY <2>2, NextSeen DEF ClassroomInv
  <2> QED
    BY <2>1, <2>2 DEF ClassroomNext, classroomVars
<1> QED
  BY <1>1, ClassroomInvariance, PTL DEF ClassroomSpec, NoFalseSuccess

\* In the classroom too a task whose UPID is on record is not submitted again by its
\* operation, unless a worker stalls (execute_operation's resumption).
THEOREM ClassroomTasksAreNotRepeated == ClassroomSpec => RecordedTaskNotRepeated
<1> DEFINE Once == \A t \in TaskId : tasks[t].status = "unused" /\ tasks'[t].status # "unused" =>
                     LET op == operations[tasks'[t].op] IN
                       NoStall /\ op.upid # 0 => tasks[op.upid].kind # tasks'[t].kind
<1>1. ClassroomInv /\ QueueInv /\ [ClassroomNext]_classroomVars => [Once]_vars
  <2> SUFFICES ASSUME ClassroomInv, QueueInv, [ClassroomNext]_classroomVars,
                      NEW t \in TaskId, tasks[t].status = "unused", tasks'[t].status # "unused",
                      NoStall, operations[tasks'[t].op].upid # 0
               PROVE  tasks[operations[tasks'[t].op].upid].kind # tasks'[t].kind
    OBVIOUS
  <2>1. ~Schooling
    BY SchoolingQuiet DEF Quiet
  <2>2. [Next]_vars
    BY <2>1 DEF ClassroomNext, classroomVars
  <2>3. PICK w \in Worker : /\ job[w].pc = "submit" /\ tasks'[t].op = job[w].op
                            /\ tasks'[t].kind = job[w].kind
    BY <2>2, TaskIsSubmitted DEF ClassroomInv
  <2> QED
    BY <2>3 DEF QueueInv, TaskInv, JobRecorded
<1> QED
  BY <1>1, ClassroomInvariance, ClassroomQueueInvariance, PTL
  DEF ClassroomSpec, RecordedTaskNotRepeated

\* Where no worker outlives its lease, callers of the classroom get what VmRequests promises,
\* those who end a run or act on all its VMs at once included (change_lab_run_state,
\* bulk_vm_action, cleanup_worker.run_once, run_once, execute_operation).
THEOREM ClassroomKeepsPromise == ASSUME "stall" \notin FaultKind PROVE ClassroomSpec => KeepsPromise
<1>1. ClassroomInit => Promise!Init /\ NoStall
  BY DEF ClassroomInit, Promise!Init, NoOperation, NoStall
<1>2. ASSUME ClassroomInv, QueueInv, NoStall, [ClassroomNext]_classroomVars
      PROVE  NoStall' /\ [Promise!Next]_Promise!vars
  <2>1. CASE Schooling
    <3>1. Quiet
      BY <1>2, <2>1, SchoolingQuiet
    <3>2. NoStall'
      BY <1>2, <3>1 DEF Quiet, NoStall
    <3> QED
      BY <3>1, <3>2, QuietIsAsk
  <2>2. CASE [Next]_vars
    BY <1>2, <2>2, NothingStalls, NextStep DEF ClassroomInv, QueueInv
  <2> QED
    BY <1>2, <2>1, <2>2 DEF ClassroomNext, classroomVars
<1>3. ClassroomInv /\ QueueInv /\ NoStall /\ [ClassroomNext]_classroomVars =>
        NoStall' /\ [Promise!Next]_Promise!vars
  BY <1>2
<1> QED
  BY <1>1, <1>3, ClassroomInvariance, ClassroomQueueInvariance, PTL
  DEF ClassroomSpec, KeepsPromise, Promise!Spec
=============================================================================
