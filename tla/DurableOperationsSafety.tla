----------------------- MODULE DurableOperationsSafety -----------------------
(***************************************************************************)
(* Proofs of the safety properties of the durable operation queue: leases  *)
(* exclude, final states are final, success is observed, links and         *)
(* tombstones are sound, recorded tasks are not repeated, every call is    *)
(* authorized; and the queue implements VmRequests.                        *)
(***************************************************************************)
EXTENDS DurableOperationsProofs

\* The strengthening of LeaseExclusive: as long as no worker stalled, a busy
\* worker's row is running under a live lease, so nobody else can claim it.
LeaseInv ==
  /\ \A w \in Worker : job[w].pc = "idle" => job[w].op = 0
  /\ NoStall => \A w \in Worker : job[w].pc # "idle" =>
       operations[job[w].op].state = "running" /\ operations[job[w].op].lease = "live"
  /\ LeaseExclusive

\* The two shapes of a worker's step, as far as leases are concerned.
Ending(w) ==
  /\ job[w].pc # "idle" /\ job' = [job EXCEPT ![w] = Idle]
  /\ \A o \in OpId : o # job[w].op => operations'[o] = operations[o]

Going(w) ==
  /\ job[w].pc # "idle" /\ job'[w].pc # "idle" /\ job'[w].op = job[w].op
  /\ \A u \in Worker : u # w => job'[u] = job[u]
  /\ \A o \in OpId : /\ operations'[o].state = operations[o].state
                     /\ operations'[o].lease \in {operations[o].lease, "live"}

-----------------------------------------------------------------------------

\* fail_or_retry ends the execution.
LEMMA FailEnds ==
  ASSUME TypeInv, NEW w \in Worker, job[w].pc # "idle", Fail(w) PROVE Ending(w)
  BY DEF TypeInv, TypeOK, Fail, Retry, GiveUp, Settle, Release, Ending

\* A committed outcome ends the execution.
LEMMA SettleEnds ==
  ASSUME TypeInv, NEW w \in Worker, job[w].pc # "idle", NEW state, Settle(w, state) PROVE Ending(w)
  BY DEF TypeInv, TypeOK, Settle, Release, Ending

\* The success tail ends the execution.
LEMMA SucceedEnds ==
  ASSUME TypeInv, NEW w \in Worker, job[w].pc # "idle",
         Succeed(w) \/ SucceedCreate(w) \/ SucceedDelete(w)
  PROVE  Ending(w)
  BY SettleEnds DEF Succeed, SucceedCreate, SucceedDelete

\* Going on to the next call keeps the row and its lease.
LEMMA GoToGoes ==
  ASSUME TypeInv, NEW w \in Worker, job[w].pc # "idle", NEW pc \in {"submit", "wait", "observe"},
         NEW kind, GoTo(w, pc, kind), UNCHANGED operations
  PROVE  Going(w)
  BY DEF TypeInv, TypeOK, GoTo, Going

\* A step of a worker either ends its execution or goes on with it.
LEMMA StepShape ==
  ASSUME TypeInv, NEW w \in Worker,
         WorkerStep(w) \/ Poll(w) \/ HttpError(w) \/ Crash(w)
  PROVE  Ending(w) \/ Going(w)
<1>0. job \in [Worker -> Job] /\ operations \in [OpId -> Operation]
  BY DEF TypeInv, TypeOK
<1>1. CASE Refuse(w)
  BY <1>1, SettleEnds DEF Refuse
<1>2. CASE Begin(w)
  BY <1>0, <1>2 DEF Begin, Going
<1>3. CASE Probe(w)
  <2>1. CASE /\ job' = [job EXCEPT ![w].pc = "wait", ![w].resumed = TRUE]
             /\ job[w].pc # "idle" /\ UNCHANGED operations
    BY <1>0, <2>1 DEF Going
  <2> QED
    BY <1>3, <2>1, FailEnds, SucceedEnds, GoToGoes DEF Probe
<1>4. ASSUME NEW t \in TaskId, Submit(w, t) PROVE Ending(w) \/ Going(w)
  <2>1. CASE job' = [job EXCEPT ![w].pc = "persist", ![w].task = t] /\ UNCHANGED operations
    BY <1>0, <1>4, <2>1 DEF Submit, Going
  <2> QED
    BY <1>4, <2>1, FailEnds DEF Submit
<1>5. CASE SubmitRefused(w)
  BY <1>5, FailEnds, SucceedEnds DEF SubmitRefused
<1>6. CASE Persist(w)
  BY <1>0, <1>6 DEF Persist, Going, Operation
<1>7. CASE WaitEnds(w)
  BY <1>7, FailEnds, GoToGoes DEF WaitEnds
<1>8. CASE ObserveCreate(w)
  BY <1>8, FailEnds, SucceedEnds, GoToGoes DEF ObserveCreate
<1>9. CASE ObservePower(w)
  BY <1>9, FailEnds, SucceedEnds DEF ObservePower
<1>10. CASE ObserveDelete(w)
  <2>1. CASE /\ operations' = [operations EXCEPT ![job[w].op].upid = 0,
                  ![job[w].op].phase = "stopped", ![job[w].op].lease = "live"]
             /\ GoTo(w, "observe", "inspect") \/ GoTo(w, "submit", "delete")
             /\ job[w].pc # "idle"
    <3>1. \A o \in OpId : /\ operations'[o].state = operations[o].state
                          /\ operations'[o].lease \in {operations[o].lease, "live"}
      BY <1>0, <2>1 DEF Operation
    <3>2. /\ job'[w].op = job[w].op /\ job'[w].pc # "idle"
          /\ \A u \in Worker : u # w => job'[u] = job[u]
      BY <1>0, <2>1 DEF GoTo, Job
    <3> QED
      BY <2>1, <3>1, <3>2 DEF Going
  <2> QED
    BY <1>10, <2>1, FailEnds, SucceedEnds, GoToGoes DEF ObserveDelete
<1>11. CASE Poll(w)
  BY <1>0, <1>11 DEF Poll, Going, Operation
<1>12. CASE HttpError(w)
  BY <1>12, FailEnds DEF HttpError
<1>13. CASE Crash(w)
  BY <1>0, <1>13 DEF Crash, Ending
<1> QED
  BY <1>1, <1>2, <1>3, <1>4, <1>5, <1>6, <1>7, <1>8, <1>9, <1>10, <1>11, <1>12, <1>13
  DEF WorkerStep

\* Once a worker has stalled, that is on record for good.
LEMMA StallsStay == ASSUME TypeInv, [Next]_vars, NoStall' PROVE NoStall
<1>1. CASE UNCHANGED faults
  BY <1>1 DEF NoStall
<1>2. ASSUME NEW kind, Fault(kind) PROVE NoStall
  BY <1>2 DEF Fault, NoStall, TypeInv, TypeOK
<1>3. CASE Request
  BY <1>1, <1>3 DEF Request, CreateVmCheck, CreateVmAbort, CreateVmCommit, CreateVmStaff,
                    QueueVmAction, DeleteAppRecord
<1>4. CASE Authority
  BY <1>1, <1>4 DEF Authority, EndTimePasses, WithdrawAccess
<1>5. CASE Time
  BY <1>1, <1>2, <1>5 DEF Time, LeaseExpires, BackoffElapses
<1>6. CASE Proxmox
  BY <1>1, <1>2, <1>6 DEF Proxmox, TaskSucceeds, TaskFails, GuestChanges
<1>7. CASE Execution
  BY <1>1, <1>2, <1>7
  DEF Execution, WorkerStep, Claim, Poll, HttpError, Crash, Refuse, Begin, Probe, Submit,
      SubmitRefused, Persist, WaitEnds, ObserveCreate, ObservePower, ObserveDelete
<1> QED
  BY <1>1, <1>3, <1>4, <1>5, <1>6, <1>7 DEF Next, vars

\* A worker that ends its execution disturbs no other lease.
LEMMA EndingLeaseInv ==
  ASSUME TypeInv, LeaseInv, NEW w \in Worker, Ending(w), NoStall' => NoStall PROVE LeaseInv'
<1>1. job \in [Worker -> Job] /\ job[w].op \in OpId
  BY DEF TypeInv, TypeOK, JobFits, Ending
<1>2. job'[w].pc = "idle" /\ job'[w].op = 0 /\ \A u \in Worker : u # w => job'[u] = job[u]
  BY <1>1 DEF Ending, Idle
<1>3. 0 \notin OpId
  BY DEF OpId
<1>4. \A u \in Worker : job[u].pc # "idle" => job[u].op \in OpId
  BY DEF TypeInv, JobFits
<1>5. (\A u \in Worker : job[u].pc = "idle" => job[u].op = 0)'
  BY <1>2 DEF LeaseInv
<1>6. NoStall' => (\A u \in Worker : job[u].pc # "idle" =>
        operations[job[u].op].state = "running" /\ operations[job[u].op].lease = "live")'
  <2> SUFFICES ASSUME NoStall', NEW u \in Worker, job'[u].pc # "idle"
               PROVE  operations'[job'[u].op].state = "running"
                      /\ operations'[job'[u].op].lease = "live"
    OBVIOUS
  <2>1. u # w /\ job'[u] = job[u] /\ job[u].op # job[w].op
    BY <1>2 DEF LeaseInv, LeaseExclusive, Ending
  <2> QED
    BY <1>4, <2>1 DEF LeaseInv, Ending
<1>7. LeaseExclusive'
  BY <1>2, <1>3, <1>4 DEF LeaseInv, LeaseExclusive
<1> QED
  BY <1>5, <1>6, <1>7 DEF LeaseInv

\* A worker that goes on keeps its row running under its lease.
LEMMA GoingLeaseInv ==
  ASSUME TypeInv, LeaseInv, NEW w \in Worker, Going(w), NoStall' => NoStall PROVE LeaseInv'
<1>1. \A u \in Worker : job[u].pc # "idle" => job[u].op \in OpId
  BY DEF TypeInv, JobFits
<1>2. \A u \in Worker : job'[u].op = job[u].op /\ (job'[u].pc = "idle" <=> job[u].pc = "idle")
  BY DEF Going
<1> QED
  BY <1>1, <1>2 DEF LeaseInv, LeaseExclusive, Going

\* A step that moves no worker and leaves the running rows and their leases.
LEMMA StillLeaseInv ==
  ASSUME TypeInv, LeaseInv, UNCHANGED job, NoStall' => NoStall,
         \A o \in OpId : operations[o].state = "running" =>
           operations'[o].state = "running" /\ operations'[o].lease = operations[o].lease
  PROVE  LeaseInv'
  BY DEF LeaseInv, LeaseExclusive, TypeInv, JobFits

\* A claim takes a row that nobody executes, unless a worker stalled.
LEMMA ClaimLeaseInv ==
  ASSUME TypeInv, LeaseInv, NEW w \in Worker, NEW o \in OpId, Claim(w, o) PROVE LeaseInv'
<1>1. /\ job \in [Worker -> Job] /\ operations \in [OpId -> Operation]
      /\ job[w].pc = "idle" /\ UNCHANGED faults
  BY DEF TypeInv, TypeOK, Claim
<1>2. /\ job'[w].op = o /\ job'[w].pc = "begin"
      /\ \A u \in Worker : u # w => job'[u] = job[u]
  BY <1>1 DEF Claim, Idle
<1>3. /\ operations'[o].state = "running" /\ operations'[o].lease = "live"
      /\ \A p \in OpId : p # o => operations'[p] = operations[p]
  BY <1>1 DEF Claim, Operation
<1>4. NoStall => \A u \in Worker : job[u].op # o
  <2>1. 0 \notin OpId
    BY DEF OpId
  <2> QED
    BY <2>1 DEF Claim, Claimable, LeaseInv
<1>5. \A u \in Worker : job[u].pc # "idle" => job[u].op \in OpId
  BY DEF TypeInv, JobFits
<1>6. NoStall' <=> NoStall
  BY <1>1 DEF NoStall
<1>7. (\A u \in Worker : job[u].pc = "idle" => job[u].op = 0)'
  BY <1>2 DEF LeaseInv
<1>8. NoStall' => (\A u \in Worker : job[u].pc # "idle" =>
        operations[job[u].op].state = "running" /\ operations[job[u].op].lease = "live")'
  BY <1>2, <1>3, <1>4, <1>5, <1>6 DEF LeaseInv
<1>9. LeaseExclusive'
  BY <1>2, <1>4, <1>6 DEF LeaseInv, LeaseExclusive
<1> QED
  BY <1>7, <1>8, <1>9 DEF LeaseInv

\* A lease that expires belongs to no worker, or a worker stalled.
LEMMA LeaseExpiresLeaseInv ==
  ASSUME TypeInv, LeaseInv, NEW o \in OpId, LeaseExpires(o) PROVE LeaseInv'
<1>1. operations \in [OpId -> Operation] /\ UNCHANGED job
  BY DEF TypeInv, TypeOK, LeaseExpires
<1>2. \A p \in OpId : p # o => operations'[p] = operations[p]
  BY <1>1 DEF LeaseExpires
<1>3. CASE ~(\E w \in Worker : Holds(w, o)) /\ UNCHANGED faults
  BY <1>1, <1>2, <1>3 DEF Holds, NoStall, LeaseInv, LeaseExclusive, TypeInv, JobFits
<1>4. CASE Fault("stall")
  <2>1. ~NoStall'
    BY <1>4 DEF Fault, NoStall
  <2> QED
    BY <1>1, <2>1 DEF LeaseInv, LeaseExclusive
<1> QED
  BY <1>3, <1>4 DEF LeaseExpires

\* LeaseInv is inductive relative to TypeInv.
LEMMA NextLeaseInv == ASSUME TypeInv, LeaseInv, [Next]_vars PROVE LeaseInv'
<1>0. operations \in [OpId -> Operation] /\ (NoStall' => NoStall)
  BY StallsStay DEF TypeInv, TypeOK
<1>1. CASE UNCHANGED <<operations, job>>
  BY <1>0, <1>1, StillLeaseInv
<1>2. ASSUME NEW o \in OpId, NEW type, NEW v, NEW by, NEW cleanup, NEW auto, NEW key,
             Enqueue(o, type, v, by, cleanup, auto, key), UNCHANGED job
      PROVE  LeaseInv'
  <2>1. operations[o].state = "absent" /\ \A p \in OpId : p # o => operations'[p] = operations[p]
    BY <1>0, <1>2 DEF Enqueue, Fresh
  <2> QED
    BY <1>0, <1>2, <2>1, StillLeaseInv
<1>3. CASE Request
  BY <1>1, <1>2, <1>3
  DEF Request, CreateVmCheck, CreateVmAbort, CreateVmCommit, CreateVmStaff, QueueVmAction,
      DeleteAppRecord
<1>4. CASE Authority \/ Proxmox
  BY <1>1, <1>4
  DEF Authority, EndTimePasses, WithdrawAccess, Proxmox, TaskSucceeds, TaskFails, GuestChanges
<1>5. ASSUME NEW o \in OpId, BackoffElapses(o) PROVE LeaseInv'
  <2>1. operations[o].state = "queued" /\ UNCHANGED job
        /\ \A p \in OpId : p # o => operations'[p] = operations[p]
    BY <1>0, <1>5 DEF BackoffElapses
  <2> QED
    BY <1>0, <2>1, StillLeaseInv
<1>6. CASE Time
  BY <1>5, <1>6, LeaseExpiresLeaseInv DEF Time
<1>7. CASE Execution
  BY <1>0, <1>7, ClaimLeaseInv, StepShape, EndingLeaseInv, GoingLeaseInv DEF Execution
<1> QED
  BY <1>1, <1>3, <1>4, <1>6, <1>7 DEF Next, vars

\* Unless a worker stalled, a busy worker's row is running under a live lease
\* and no other worker executes it (claim_operation, renew_lease).
THEOREM LeaseInvariance == Spec => []LeaseInv
<1>1. Init => LeaseInv
  <2>1. ASSUME Init PROVE /\ \A w \in Worker : job[w].pc = "idle" /\ job[w].op = 0
    BY <2>1 DEF Init, Idle
  <2> QED
    BY <2>1 DEF LeaseInv, LeaseExclusive
<1>2. TypeInv /\ LeaseInv /\ [Next]_vars => LeaseInv'
  BY NextLeaseInv
<1> QED
  BY <1>1, <1>2, TypeInvariance, PTL DEF Spec

\* Unless a worker stalls past its lease, no two workers execute the same
\* operation (claim_operation, renew_lease).
THEOREM LeasesExclude == Spec => []LeaseExclusive
<1>1. LeaseInv => LeaseExclusive
  BY DEF LeaseInv
<1> QED
  BY <1>1, LeaseInvariance, PTL

-----------------------------------------------------------------------------
(* Outcomes: final states are final, success is observed.                  *)

\* No step moves an operation out of a final state, unless a worker stalled.
LEMMA NextKeepsTerminal ==
  ASSUME TypeInv, LeaseInv, [Next]_vars, NoStall', NEW o \in OpId, operations[o].state \in Terminal
  PROVE  operations'[o].state = operations[o].state
<1>0. operations \in [OpId -> Operation] /\ NoStall
  BY StallsStay DEF TypeInv, TypeOK
<1>1. CASE UNCHANGED operations
  BY <1>1
<1>2. ASSUME NEW p \in OpId, NEW type, NEW v, NEW by, NEW cleanup, NEW auto, NEW key,
             Enqueue(p, type, v, by, cleanup, auto, key)
      PROVE  operations'[o].state = operations[o].state
  BY <1>0, <1>2 DEF Enqueue, Fresh, Terminal
<1>3. CASE Request
  BY <1>1, <1>2, <1>3
  DEF Request, CreateVmCheck, CreateVmAbort, CreateVmCommit, CreateVmStaff, QueueVmAction,
      DeleteAppRecord
<1>4. CASE Authority \/ Proxmox
  BY <1>1, <1>4
  DEF Authority, EndTimePasses, WithdrawAccess, Proxmox, TaskSucceeds, TaskFails, GuestChanges
<1>5. CASE Time
  BY <1>0, <1>5 DEF Time, LeaseExpires, BackoffElapses, Operation
<1>6. ASSUME NEW w \in Worker, NEW p \in OpId, Claim(w, p)
      PROVE  operations'[o].state = operations[o].state
  BY <1>0, <1>6 DEF Claim, Claimable, Terminal
<1>7. ASSUME NEW w \in Worker, Ending(w) PROVE operations'[o].state = operations[o].state
  <2>1. operations[job[w].op].state = "running"
    BY <1>0, <1>7 DEF LeaseInv, Ending
  <2> QED
    BY <1>7, <2>1 DEF Ending, Terminal
<1>8. ASSUME NEW w \in Worker, Going(w) PROVE operations'[o].state = operations[o].state
  BY <1>8 DEF Going
<1>9. CASE Execution
  BY <1>6, <1>7, <1>8, <1>9, StepShape DEF Execution
<1> QED
  BY <1>1, <1>3, <1>4, <1>5, <1>9 DEF Next, vars

\* Unless a worker stalls, a finished operation stays as it finished
\* (run_once and fail_or_retry write the row without checking its lease).
THEOREM FinalStatesAreFinal == Spec => TerminalIsFinal
<1>1. TypeInv /\ LeaseInv /\ [Next]_vars =>
        [NoStall' => \A o \in OpId : operations[o].state \in Terminal =>
           operations'[o].state = operations[o].state]_vars
  BY NextKeepsTerminal
<1> QED
  BY <1>1, TypeInvariance, LeaseInvariance, PTL DEF Spec, TerminalIsFinal

\* A worker's execution ends with its goal in sight, or without success.
LEMMA EndSeen ==
  ASSUME TypeInv, NEW w \in Worker, WorkerStep(w) \/ Poll(w) \/ HttpError(w) \/ Crash(w),
         operations'[job[w].op].state = "succeeded", operations[job[w].op].state # "succeeded",
         job[w].op \in OpId
  PROVE  Goal(job[w].op)
<1> DEFINE o == job[w].op
<1>0. operations \in [OpId -> Operation]
  BY DEF TypeInv, TypeOK
<1>1. ASSUME Fail(w) PROVE FALSE
  <2>1. CASE Retry(w)
    BY <1>0, <2>1 DEF Retry, Operation
  <2>2. CASE GiveUp(w)
    BY <1>0, <2>2 DEF GiveUp, Settle, Operation
  <2> QED
    BY <1>1, <2>1, <2>2 DEF Fail
<1>2. ASSUME UNCHANGED operations PROVE FALSE
  BY <1>2
<1>3. CASE Refuse(w)
  BY <1>0, <1>3 DEF Refuse, Settle
<1>4. CASE Begin(w) \/ Crash(w)
  BY <1>2, <1>4 DEF Begin, Crash
<1>5. CASE Probe(w)
  BY <1>1, <1>2, <1>5 DEF Probe, Goal, Op
<1>6. ASSUME NEW t \in TaskId, Submit(w, t) PROVE Goal(o)
  BY <1>1, <1>2, <1>6 DEF Submit
<1>7. CASE SubmitRefused(w)
  <2>1. Fits(Op(w).type, job[w].kind)
    BY <1>7 DEF SubmitRefused, TypeInv, JobFits, Op
  <2> QED
    BY <1>1, <1>7, <2>1 DEF SubmitRefused, Accepts, Fits, Goal, Op
<1>8. CASE Persist(w) \/ Poll(w)
  BY <1>0, <1>8 DEF Persist, Poll, Operation
<1>9. CASE WaitEnds(w) \/ HttpError(w)
  BY <1>1, <1>2, <1>9 DEF WaitEnds, HttpError
<1>10. CASE ObserveCreate(w)
  BY <1>1, <1>2, <1>10 DEF ObserveCreate, Goal, Op
<1>11. CASE ObservePower(w)
  BY <1>1, <1>11 DEF ObservePower, Goal, Op
<1>12. CASE ObserveDelete(w)
  <2>1. ASSUME operations' = [operations EXCEPT ![job[w].op].upid = 0,
                 ![job[w].op].phase = "stopped", ![job[w].op].lease = "live"]
        PROVE  FALSE
    BY <1>0, <2>1 DEF Operation
  <2> QED
    BY <1>1, <1>2, <1>12, <2>1 DEF ObserveDelete, Goal, Op
<1> QED
  BY <1>3, <1>4, <1>5, <1>6, <1>7, <1>8, <1>9, <1>10, <1>11, <1>12 DEF WorkerStep

\* No step marks an operation succeeded without its goal in sight.
LEMMA NextSeen ==
  ASSUME TypeInv, [Next]_vars, NEW o \in OpId,
         operations'[o].state = "succeeded", operations[o].state # "succeeded"
  PROVE  Goal(o)
<1>0. operations \in [OpId -> Operation]
  BY DEF TypeInv, TypeOK
<1>1. ASSUME UNCHANGED operations PROVE FALSE
  BY <1>1
<1>2. ASSUME NEW p \in OpId, NEW type, NEW v, NEW by, NEW cleanup, NEW auto, NEW key,
             Enqueue(p, type, v, by, cleanup, auto, key)
      PROVE  FALSE
  BY <1>0, <1>2 DEF Enqueue, NoOperation
<1>3. CASE Request
  BY <1>1, <1>2, <1>3
  DEF Request, CreateVmCheck, CreateVmAbort, CreateVmCommit, CreateVmStaff, QueueVmAction,
      DeleteAppRecord
<1>4. CASE Authority \/ Proxmox
  BY <1>1, <1>4
  DEF Authority, EndTimePasses, WithdrawAccess, Proxmox, TaskSucceeds, TaskFails, GuestChanges
<1>5. CASE Time
  BY <1>0, <1>5 DEF Time, LeaseExpires, BackoffElapses, Operation
<1>6. ASSUME NEW w \in Worker, NEW p \in OpId, Claim(w, p) PROVE FALSE
  BY <1>0, <1>6 DEF Claim, Operation
<1>7. ASSUME NEW w \in Worker, WorkerStep(w) \/ Poll(w) \/ HttpError(w) \/ Crash(w)
      PROVE  Goal(o)
  <2>1. ~Going(w)
    BY DEF Going
  <2>2. Ending(w)
    BY <1>7, <2>1, StepShape
  <2>3. o = job[w].op
    BY <2>2 DEF Ending
  <2> QED
    BY <1>7, <2>3, EndSeen
<1>8. CASE Execution
  BY <1>6, <1>7, <1>8 DEF Execution
<1> QED
  BY <1>1, <1>3, <1>4, <1>5, <1>8 DEF Next, vars

\* An operation is marked succeeded only when Proxmox shows its result, with
\* any number of workers, crashes, stalls and lost replies.
THEOREM SuccessIsObserved == Spec => NoFalseSuccess
<1>1. TypeInv /\ [Next]_vars =>
        [\A o \in OpId : operations'[o].state = "succeeded" /\ operations[o].state # "succeeded"
           => Goal(o)]_vars
  BY NextSeen
<1> QED
  BY <1>1, TypeInvariance, PTL DEF Spec, NoFalseSuccess

-----------------------------------------------------------------------------
(* Records: links, tombstones and guests.                                  *)

\* The strengthening of StudentVmStaysDeleted: a create belongs to the VM's
\* owner, so a student's create is worth nothing once the link is gone.
RecordsInv ==
  /\ AssignmentLinksLive
  /\ StudentVmStaysDeleted
  /\ \A v \in Vm : vms[v].owner = Nobody => ~vms[v].tombstoned
  /\ \A o \in OpId : operations[o].state # "absent" =>
       /\ operations[o].vm \in Vm /\ vms[operations[o].vm].owner # Nobody
       /\ operations[o].type = "create" => operations[o].by = vms[operations[o].vm].owner

\* No operation comes into being and none changes what it asks for.
RequestsKept ==
  \A o \in OpId : operations'[o].state # "absent" =>
    /\ operations[o].state # "absent" /\ operations'[o].vm = operations[o].vm
    /\ operations'[o].type = operations[o].type /\ operations'[o].by = operations[o].by

\* No guest appears for a student's deleted VM.
GuestsStayAway ==
  \A v \in Vm : vms[v].tombstoned /\ RoleOf[vms[v].owner] = "student" /\ guests[v] = "absent" =>
    guests'[v] = "absent"

\* Steps that leave VM rows and assignments keep RecordsInv.
LEMMA StableRecordsInv ==
  ASSUME TypeInv, RecordsInv, UNCHANGED <<vms, assignments>>, RequestsKept, GuestsStayAway
  PROVE  RecordsInv'
  BY DEF TypeInv, TypeOK, RecordsInv, RequestsKept, GuestsStayAway, AssignmentLinksLive,
         StudentVmStaysDeleted, Linked, Exists

\* Deletion: the link goes together with the record, and only without a guest.
LEMMA TombstoneRecordsInv ==
  ASSUME TypeInv, RecordsInv, RequestsKept, UNCHANGED guests, NEW v \in Vm,
         guests[v] = "absent", vms[v].owner # Nobody,
         vms' = [vms EXCEPT ![v].tombstoned = TRUE],
         \A a \in Assignment :
           IF assignments[a].vm = v
           THEN assignments'[a].vm = Nobody /\ assignments'[a].status # "ready"
           ELSE assignments'[a] = assignments[a]
  PROVE  RecordsInv'
<1>1. /\ vms \in [Vm -> [owner: Actor \cup {Nobody}, tombstoned: BOOLEAN]]
      /\ operations \in [OpId -> Operation] /\ Nobody \notin Vm
  BY ActorsAssumption DEF TypeInv, TypeOK
<1>2. /\ \A u \in Vm : vms'[u].owner = vms[u].owner
      /\ \A u \in Vm : u # v => vms'[u] = vms[u]
      /\ vms'[v].tombstoned
  BY <1>1
<1>3. AssignmentLinksLive'
  BY <1>1, <1>2 DEF RecordsInv, AssignmentLinksLive, Linked, Exists, TypeInv, TypeOK
<1>4. StudentVmStaysDeleted'
  BY <1>2 DEF RecordsInv, StudentVmStaysDeleted
<1>5. (\A u \in Vm : vms[u].owner = Nobody => ~vms[u].tombstoned)'
  BY <1>2 DEF RecordsInv
<1>6. (\A o \in OpId : operations[o].state # "absent" =>
         /\ operations[o].vm \in Vm /\ vms[operations[o].vm].owner # Nobody
         /\ operations[o].type = "create" => operations[o].by = vms[operations[o].vm].owner)'
  BY <1>2 DEF RecordsInv, RequestsKept
<1> QED
  BY <1>3, <1>4, <1>5, <1>6 DEF RecordsInv

\* The handlers of api/routers/vms.py keep RecordsInv.
LEMMA RequestRecordsInv == ASSUME TypeInv, RecordsInv, Request PROVE RecordsInv'
<1>0. /\ vms \in [Vm -> [owner: Actor \cup {Nobody}, tombstoned: BOOLEAN]]
      /\ assignments \in [Assignment -> [vm: Vm \cup {Nobody}, status: AssignmentStatus,
                                         locked: BOOLEAN]]
      /\ operations \in [OpId -> Operation] /\ Nobody \notin Vm /\ Nobody \notin Actor
      /\ StudentOf \in [Assignment -> Actor]
  BY ActorsAssumption DEF TypeInv, TypeOK
<1>1. ASSUME NEW a \in Assignment, CreateVmCheck(a) \/ CreateVmAbort(a) PROVE RecordsInv'
  <2>1. /\ UNCHANGED <<operations, vms, guests>>
        /\ \A b \in Assignment : /\ assignments'[b].vm = assignments[b].vm
                                 /\ assignments'[b].status = assignments[b].status
    <3>1. \E l \in BOOLEAN : assignments' = [assignments EXCEPT ![a].locked = l]
      BY <1>1 DEF CreateVmCheck, CreateVmAbort
    <3> QED
      BY <1>0, <1>1, <3>1 DEF CreateVmCheck, CreateVmAbort, proxmox
  <2> QED
    BY <2>1 DEF RecordsInv, AssignmentLinksLive, StudentVmStaysDeleted, Linked, Exists
<1>2. ASSUME NEW v \in Vm, NEW u \in Actor, NEW o \in OpId, NEW auto \in BOOLEAN,
             vms[v].owner = Nobody, vms' = [vms EXCEPT ![v].owner = u],
             Enqueue(o, "create", v, u, FALSE, auto, "create"), UNCHANGED guests,
             \/ UNCHANGED assignments
             \/ \E a \in Assignment :
                  assignments' = [assignments EXCEPT ![a].vm = v, ![a].locked = FALSE]
      PROVE  RecordsInv'
  <2>1. /\ vms'[v].owner = u /\ u # Nobody /\ ~vms'[v].tombstoned
        /\ \A x \in Vm : x # v => vms'[x] = vms[x]
    BY <1>0, <1>2 DEF RecordsInv
  <2>2. /\ operations'[o].vm = v /\ operations'[o].by = u
        /\ \A p \in OpId : p # o => operations'[p] = operations[p]
    BY <1>0, <1>2 DEF Enqueue, NoOperation
  <2>3. \A a \in Assignment : assignments[a].vm # v
    BY <1>0, <1>2 DEF RecordsInv, AssignmentLinksLive, Exists
  <2>4. AssignmentLinksLive'
    <3>1. CASE UNCHANGED assignments
      BY <1>0, <2>1, <2>3, <3>1 DEF RecordsInv, AssignmentLinksLive, Linked, Exists
    <3>2. ASSUME NEW a \in Assignment,
                 assignments' = [assignments EXCEPT ![a].vm = v, ![a].locked = FALSE]
          PROVE  AssignmentLinksLive'
      <4>1. /\ assignments'[a].vm = v /\ assignments'[a].status = assignments[a].status
            /\ \A b \in Assignment : b # a => assignments'[b] = assignments[b]
        BY <1>0, <3>2
      <4>2. ASSUME NEW b \in Assignment, assignments'[b].vm # Nobody
            PROVE  /\ vms'[assignments'[b].vm].owner # Nobody
                   /\ ~vms'[assignments'[b].vm].tombstoned
                   /\ \A c \in Assignment : assignments'[c].vm = assignments'[b].vm => c = b
        <5>1. CASE b = a
          BY <2>1, <2>3, <4>1, <5>1
        <5>2. CASE b # a
          <6>1. assignments[b].vm \in Vm /\ assignments[b].vm # v /\ assignments'[b] = assignments[b]
            BY <1>0, <2>3, <4>1, <4>2, <5>2
          <6>2. Exists(assignments[b].vm) /\ \A c \in Linked(assignments[b].vm) : c = b
            BY <4>2, <6>1 DEF RecordsInv, AssignmentLinksLive
          <6> QED
            BY <2>1, <4>1, <6>1, <6>2 DEF Exists, Linked
        <5> QED
          BY <5>1, <5>2
      <4>3. \A b \in Assignment : assignments'[b].status = "ready" => assignments'[b].vm # Nobody
        BY <1>0, <4>1 DEF RecordsInv, AssignmentLinksLive
      <4> QED
        BY <4>2, <4>3 DEF AssignmentLinksLive, Linked, Exists
    <3> QED
      BY <1>2, <3>1, <3>2
  <2>5. StudentVmStaysDeleted'
    BY <1>2, <2>1 DEF RecordsInv, StudentVmStaysDeleted
  <2>6. (\A x \in Vm : vms[x].owner = Nobody => ~vms[x].tombstoned)'
    BY <2>1 DEF RecordsInv
  <2>7. (\A p \in OpId : operations[p].state # "absent" =>
           /\ operations[p].vm \in Vm /\ vms[operations[p].vm].owner # Nobody
           /\ operations[p].type = "create" => operations[p].by = vms[operations[p].vm].owner)'
    BY <1>2, <2>1, <2>2 DEF RecordsInv
  <2> QED
    BY <2>4, <2>5, <2>6, <2>7 DEF RecordsInv
<1>3. ASSUME NEW a \in Assignment, NEW v \in Vm, NEW o \in OpId, NEW auto \in BOOLEAN,
             CreateVmCommit(a, v, o, auto)
      PROVE  RecordsInv'
  BY <1>0, <1>2, <1>3 DEF CreateVmCommit, proxmox
<1>4. ASSUME NEW u \in Actor, NEW v \in Vm, NEW o \in OpId, NEW auto \in BOOLEAN,
             CreateVmStaff(u, v, o, auto)
      PROVE  RecordsInv'
  BY <1>2, <1>4 DEF CreateVmStaff, proxmox
<1>5. ASSUME NEW u \in Actor, NEW v \in Vm, NEW o \in OpId, NEW type \in Requested \ {"create"},
             QueueVmAction(u, v, o, type)
      PROVE  RecordsInv'
  <2>1. /\ operations'[o].vm = v /\ operations'[o].type = type /\ vms[v].owner # Nobody
        /\ \A p \in OpId : p # o => operations'[p] = operations[p]
        /\ UNCHANGED <<vms, assignments, guests>>
    BY <1>0, <1>5 DEF QueueVmAction, Exists, Enqueue, NoOperation, proxmox
  <2> QED
    BY <2>1 DEF RecordsInv, AssignmentLinksLive, StudentVmStaysDeleted, Linked, Exists
<1>6. ASSUME NEW u \in Actor, NEW v \in Vm, DeleteAppRecord(u, v) PROVE RecordsInv'
  <2>1. RequestsKept /\ UNCHANGED guests /\ vms[v].owner # Nobody
    BY <1>6 DEF DeleteAppRecord, RequestsKept, Exists, proxmox
  <2>2. \A a \in Assignment :
          IF assignments[a].vm = v
          THEN assignments'[a].vm = Nobody /\ assignments'[a].status # "ready"
          ELSE assignments'[a] = assignments[a]
    BY <1>0, <1>6 DEF DeleteAppRecord
  <2> QED
    BY <1>6, <2>1, <2>2, TombstoneRecordsInv DEF DeleteAppRecord
<1> QED
  BY <1>1, <1>3, <1>4, <1>5, <1>6 DEF Request

\* A committed outcome leaves what was asked for.
LEMMA SettleKeepsRequests ==
  ASSUME TypeInv, NEW w \in Worker, job[w].pc # "idle", NEW state, Settle(w, state)
  PROVE  RequestsKept
<1>1. operations \in [OpId -> Operation] /\ job[w].op \in OpId
      /\ operations[job[w].op].state # "absent"
  BY DEF TypeInv, TypeOK, JobFits
<1> QED
  BY <1>1 DEF Settle, RequestsKept, Operation

\* fail_or_retry leaves what was asked for.
LEMMA FailKeepsRequests ==
  ASSUME TypeInv, NEW w \in Worker, job[w].pc # "idle", Fail(w)
  PROVE  RequestsKept /\ UNCHANGED <<vms, assignments>>
<1>1. operations \in [OpId -> Operation] /\ job[w].op \in OpId
      /\ operations[job[w].op].state # "absent"
  BY DEF TypeInv, TypeOK, JobFits
<1>2. CASE Retry(w)
  BY <1>1, <1>2 DEF Fail, Retry, RequestsKept, Operation, records
<1>3. CASE GiveUp(w)
  BY <1>3, SettleKeepsRequests DEF Fail, GiveUp, records
<1> QED
  BY <1>2, <1>3 DEF Fail

\* Recording progress leaves what was asked for.
LEMMA GoingKeepsRequests ==
  ASSUME TypeInv, NEW w \in Worker, job[w].pc # "idle",
         \/ UNCHANGED operations
         \/ operations' = [operations EXCEPT ![job[w].op].upid = 0,
              ![job[w].op].phase = "stopped", ![job[w].op].lease = "live"]
         \/ Persist(w) \/ Poll(w)
  PROVE  RequestsKept
<1>1. operations \in [OpId -> Operation]
  BY DEF TypeInv, TypeOK
<1> QED
  BY <1>1 DEF Persist, Poll, RequestsKept, Operation

\* The success of vm.create keeps RecordsInv.
LEMMA SucceedCreateRecordsInv ==
  ASSUME TypeInv, RecordsInv, NEW w \in Worker, job[w].pc # "idle", SucceedCreate(w),
         UNCHANGED guests
  PROVE  RecordsInv'
<1> DEFINE v == Op(w).vm
<1>1. RequestsKept /\ UNCHANGED vms
  BY SettleKeepsRequests DEF SucceedCreate
<1>2. v \in Vm /\ v # Nobody
  BY ActorsAssumption DEF TypeInv, JobFits, RecordsInv, Op
<1>3. assignments \in [Assignment -> [vm: Vm \cup {Nobody}, status: AssignmentStatus,
                                      locked: BOOLEAN]]
  BY DEF TypeInv, TypeOK
<1>4. \A a \in Assignment :
        /\ assignments'[a].vm = assignments[a].vm
        /\ assignments'[a].status = assignments[a].status \/ assignments[a].vm = v
  BY <1>3 DEF SucceedCreate
<1>5. AssignmentLinksLive'
  BY <1>1, <1>2, <1>4 DEF RecordsInv, AssignmentLinksLive, Linked, Exists
<1> QED
  BY <1>1, <1>5 DEF RecordsInv, RequestsKept, StudentVmStaysDeleted

\* The success of vm.delete, with the guest gone, keeps RecordsInv.
LEMMA SucceedDeleteRecordsInv ==
  ASSUME TypeInv, RecordsInv, NEW w \in Worker, job[w].pc # "idle", SucceedDelete(w),
         UNCHANGED guests, guests[Op(w).vm] = "absent"
  PROVE  RecordsInv'
<1>1. RequestsKept
  BY SettleKeepsRequests DEF SucceedDelete
<1>2. Op(w).vm \in Vm /\ vms[Op(w).vm].owner # Nobody
  BY DEF TypeInv, JobFits, RecordsInv, Op
<1>3. assignments \in [Assignment -> [vm: Vm \cup {Nobody}, status: AssignmentStatus,
                                      locked: BOOLEAN]]
  BY DEF TypeInv, TypeOK
<1>4. \A a \in Assignment :
        IF assignments[a].vm = Op(w).vm
        THEN assignments'[a].vm = Nobody /\ assignments'[a].status # "ready"
        ELSE assignments'[a] = assignments[a]
  BY <1>3 DEF SucceedDelete
<1> QED
  BY <1>1, <1>2, <1>4, TombstoneRecordsInv DEF SucceedDelete

\* A clone is submitted only for a VM that its student still has.
LEMMA SubmitGuestsStayAway ==
  ASSUME TypeInv, RecordsInv, NEW w \in Worker, NEW t \in TaskId, Submit(w, t)
  PROVE  GuestsStayAway
<1>0. guests \in [Vm -> {"absent", "stopped", "running"}]
  BY DEF TypeInv, TypeOK
<1>1. CASE job[w].kind # "clone"
  BY <1>1 DEF Submit, GuestsStayAway
<1>2. CASE job[w].kind = "clone"
  <2> DEFINE v == Op(w).vm
             u == vms[v].owner
  <2>1. job[w].op \in OpId /\ Op(w).state # "absent" /\ Op(w).type = "create"
    BY <1>2 DEF Submit, TypeInv, JobFits, Fits, Op
  <2>2. v \in Vm /\ u # Nobody /\ Op(w).by = u
    BY <2>1 DEF RecordsInv, Op
  <2>3. u \in Actor /\ u # System
    BY <2>2, ActorsAssumption DEF TypeInv, TypeOK
  <2>4. ActorMay(u, v, "create")
    BY <2>1, <2>2, <2>3 DEF Submit, Authorized, Op
  <2>5. RoleOf[u] = "student" => ~vms[v].tombstoned
    BY <2>2, <2>4, ActorsAssumption
    DEF ActorMay, StudentMayOperate, Linked, RecordsInv, AssignmentLinksLive, Exists
  <2>6. guests' = [guests EXCEPT ![v] = "stopped"]
    BY <1>2 DEF Submit
  <2> QED
    BY <1>0, <2>2, <2>5, <2>6 DEF GuestsStayAway
<1> QED
  BY <1>1, <1>2

\* Every step of a worker keeps RecordsInv.
LEMMA WorkerRecordsInv ==
  ASSUME TypeInv, RecordsInv, NEW w \in Worker,
         WorkerStep(w) \/ Poll(w) \/ HttpError(w) \/ Crash(w)
  PROVE  RecordsInv'
<1> DEFINE busy == job[w].pc # "idle"
           still == UNCHANGED <<vms, assignments, guests>>
<1>1. ASSUME busy, UNCHANGED guests, Fail(w) PROVE RecordsInv'
  BY <1>1, FailKeepsRequests, StableRecordsInv DEF GuestsStayAway
<1>2. ASSUME busy, still,
             \/ UNCHANGED operations
             \/ operations' = [operations EXCEPT ![job[w].op].upid = 0,
                  ![job[w].op].phase = "stopped", ![job[w].op].lease = "live"]
             \/ Persist(w) \/ Poll(w)
      PROVE  RecordsInv'
  BY <1>2, GoingKeepsRequests, StableRecordsInv DEF GuestsStayAway
<1>3. CASE Refuse(w)
  BY <1>3, SettleKeepsRequests, StableRecordsInv DEF Refuse, GuestsStayAway, records, proxmox
<1>4. CASE Begin(w) \/ Crash(w)
  BY <1>2, <1>4 DEF Begin, Crash, records, proxmox
<1>5. CASE Probe(w)
  BY <1>1, <1>2, <1>5, SucceedDeleteRecordsInv DEF Probe, records, proxmox
<1>6. ASSUME NEW t \in TaskId, Submit(w, t) PROVE RecordsInv'
  <2>1. GuestsStayAway
    BY <1>6, SubmitGuestsStayAway
  <2>2. CASE UNCHANGED <<operations, records>>
    BY <1>6, <2>1, <2>2, GoingKeepsRequests, StableRecordsInv DEF Submit, records
  <2>3. CASE Fail(w)
    BY <1>6, <2>1, <2>3, FailKeepsRequests, StableRecordsInv DEF Submit
  <2> QED
    BY <1>6, <2>2, <2>3 DEF Submit
<1>7. CASE SubmitRefused(w)
  <2>1. Fits(Op(w).type, job[w].kind)
    BY <1>7 DEF SubmitRefused, TypeInv, JobFits, Op
  <2>2. Op(w).type = "delete" => guests[Op(w).vm] = "absent"
    BY <1>7, <2>1 DEF SubmitRefused, Accepts, Fits
  <2> QED
    BY <1>1, <1>7, <2>2, SucceedDeleteRecordsInv DEF SubmitRefused, proxmox
<1>8. CASE Persist(w) \/ Poll(w)
  BY <1>2, <1>8 DEF Persist, Poll, records, proxmox
<1>9. CASE WaitEnds(w) \/ HttpError(w)
  BY <1>1, <1>2, <1>9 DEF WaitEnds, HttpError, records, proxmox
<1>10. CASE ObserveCreate(w)
  BY <1>1, <1>2, <1>10, SucceedCreateRecordsInv DEF ObserveCreate, records, proxmox
<1>11. CASE ObservePower(w)
  <2>1. CASE Succeed(w)
    BY <1>11, <2>1, SettleKeepsRequests, StableRecordsInv
    DEF ObservePower, Succeed, GuestsStayAway, records, proxmox
  <2> QED
    BY <1>1, <1>11, <2>1 DEF ObservePower, proxmox
<1>12. CASE ObserveDelete(w)
  BY <1>1, <1>2, <1>12, SucceedDeleteRecordsInv DEF ObserveDelete, records, proxmox
<1> QED
  BY <1>3, <1>4, <1>5, <1>6, <1>7, <1>8, <1>9, <1>10, <1>11, <1>12 DEF WorkerStep

\* Whatever Proxmox does, no guest appears for a deleted VM.
LEMMA ProxmoxRecordsInv == ASSUME TypeInv, RecordsInv, Proxmox PROVE RecordsInv'
<1>0. guests \in [Vm -> {"absent", "stopped", "running"}]
  BY DEF TypeInv, TypeOK
<1>1. RequestsKept /\ UNCHANGED <<vms, assignments>>
  BY DEF Proxmox, TaskSucceeds, TaskFails, GuestChanges, RequestsKept, records
<1>2. ASSUME NEW t \in TaskId, TaskSucceeds(t) PROVE GuestsStayAway
  <2>1. tasks[t].kind \in Mutation
    BY <1>2 DEF TaskSucceeds, TypeInv, TasksKnown
  <2>2. guests[tasks[t].vm] # "absent"
    BY <1>2, <2>1 DEF TaskSucceeds, Possible, Mutation
  <2> QED
    BY <1>0, <1>2, <2>2 DEF TaskSucceeds, GuestsStayAway
<1>3. ASSUME NEW t \in TaskId, TaskFails(t) PROVE GuestsStayAway
  BY <1>0, <1>3 DEF TaskFails, GuestsStayAway
<1>4. ASSUME NEW v \in Vm, GuestChanges(v) PROVE GuestsStayAway
  BY <1>0, <1>4 DEF GuestChanges, GuestsStayAway
<1> QED
  BY <1>1, <1>2, <1>3, <1>4, StableRecordsInv DEF Proxmox

\* RecordsInv is inductive relative to TypeInv.
LEMMA NextRecordsInv == ASSUME TypeInv, RecordsInv, [Next]_vars PROVE RecordsInv'
<1>0. operations \in [OpId -> Operation]
  BY DEF TypeInv, TypeOK
<1>1. ASSUME RequestsKept, UNCHANGED <<vms, assignments, guests>> PROVE RecordsInv'
  BY <1>1, StableRecordsInv DEF GuestsStayAway
<1>2. CASE UNCHANGED vars
  BY <1>1, <1>2 DEF vars, RequestsKept
<1>3. CASE Authority
  BY <1>1, <1>3 DEF Authority, EndTimePasses, WithdrawAccess, RequestsKept, proxmox
<1>4. CASE Time
  <2>1. RequestsKept
    BY <1>0, <1>4 DEF Time, LeaseExpires, BackoffElapses, RequestsKept, Operation
  <2> QED
    BY <1>1, <1>4, <2>1 DEF Time, LeaseExpires, BackoffElapses, records, proxmox
<1>5. ASSUME NEW w \in Worker, NEW o \in OpId, Claim(w, o) PROVE RecordsInv'
  <2>1. RequestsKept
    BY <1>0, <1>5 DEF Claim, Claimable, RequestsKept, Operation
  <2> QED
    BY <1>1, <1>5, <2>1 DEF Claim, records, proxmox
<1>6. CASE Execution
  BY <1>5, <1>6, WorkerRecordsInv DEF Execution
<1> QED
  BY <1>2, <1>3, <1>4, <1>6, RequestRecordsInv, ProxmoxRecordsInv DEF Next

\* Links, tombstones and guests agree, and a create is asked for by the VM's
\* owner (create_vm, vm.delete, delete_app_record_admin).
THEOREM RecordsInvariance == Spec => []RecordsInv
<1>1. Init => RecordsInv
  BY DEF Init, RecordsInv, AssignmentLinksLive, StudentVmStaysDeleted, NoOperation
<1>2. TypeInv /\ RecordsInv /\ [Next]_vars => RecordsInv'
  BY NextRecordsInv
<1> QED
  BY <1>1, <1>2, TypeInvariance, PTL DEF Spec

\* No assignment links a deleted VM, no VM is linked twice, and ready means
\* there is a VM (create_vm, vm.delete, delete_app_record_admin).
THEOREM LinksAreLive == Spec => []AssignmentLinksLive
<1>1. RecordsInv => AssignmentLinksLive
  BY DEF RecordsInv
<1> QED
  BY <1>1, RecordsInvariance, PTL

\* Once a VM created by a student is deleted, no create, however late or
\* often retried, gives it a guest again (execute_operation's re-validation).
THEOREM DeletedStudentVmsStayAway == Spec => []StudentVmStaysDeleted
<1>1. RecordsInv => StudentVmStaysDeleted
  BY DEF RecordsInv
<1> QED
  BY <1>1, RecordsInvariance, PTL

-----------------------------------------------------------------------------
(* Tasks: what is on record is not repeated, every call is authorized.     *)

\* What a row has on record: the UPID is a task that was submitted; in a create it is the
\* task of the phase, in a delete the phase says that it is a stop or a deletion.
RowRecorded(o) ==
  LET op == operations[o] IN
    op.upid # 0 =>
      /\ tasks[op.upid].status # "unused"
      /\ op.type = "create" => op.phase \in {"clone", "start"} /\ tasks[op.upid].kind = op.phase
      /\ op.type = "delete" => op.phase \in {"stop", "delete"}

\* What a worker has in memory agrees with the record: it submits only where nothing is
\* on record, but for the start that follows the clone of a create.
JobRecorded(w) ==
  LET op == operations[job[w].op]
      CloneRecorded == op.type = "create" /\ (op.upid # 0 => tasks[op.upid].kind = "clone")
  IN
  /\ job[w].pc = "persist" => /\ job[w].task \in TaskId /\ tasks[job[w].task].status # "unused"
                              /\ tasks[job[w].task].kind = job[w].kind
  /\ job[w].pc = "probe" /\ op.type = "create" => op.upid = 0
  /\ job[w].pc \in {"wait", "observe"} /\ op.type = "create" /\ job[w].kind = "clone" => CloneRecorded
  /\ job[w].pc = "submit" => op.upid = 0 \/ (CloneRecorded /\ job[w].kind = "start")
  /\ job[w].pc \notin {"idle", "begin"} /\ job[w].kind = "inspect" => op.upid = 0

\* The strengthening of RecordedTaskNotRepeated, as long as no worker stalled.
TaskInv ==
  NoStall => /\ \A o \in OpId : RowRecorded(o)
             /\ \A w \in Worker : job[w].pc # "idle" => JobRecorded(w)

\* A row whose record a step leaves alone, and tasks that stay submitted.
RecordKept(o) ==
  /\ operations'[o].upid = operations[o].upid
  /\ operations'[o].phase = operations[o].phase
  /\ operations'[o].type = operations[o].type

TasksStay ==
  \A t \in TaskId : tasks[t].status # "unused" =>
    tasks'[t].status # "unused" /\ tasks'[t].kind = tasks[t].kind

-----------------------------------------------------------------------------

\* A row whose record is left alone stays in order.
LEMMA RowStays ==
  ASSUME TypeInv, TasksStay, NEW o \in OpId, RowRecorded(o), RecordKept(o)
  PROVE  RowRecorded(o)'
  BY DEF RowRecorded, RecordKept, TasksStay, TypeInv, TypeOK, Operation

\* So does a worker that does not move while its row's record is left alone.
LEMMA JobStays ==
  ASSUME TypeInv, TasksStay, NEW w \in Worker, job[w].pc # "idle", JobRecorded(w),
         job'[w] = job[w], RowRecorded(job[w].op), RecordKept(job[w].op)
  PROVE  JobRecorded(w)'
<1>1. job[w].op \in OpId /\ operations[job[w].op].upid \in TaskId \cup {0}
  BY DEF TypeInv, TypeOK, JobFits, Operation
<1> QED
  BY <1>1 DEF JobRecorded, RowRecorded, RecordKept, TasksStay

\* A step that moves no worker and leaves every record of a row in use.
LEMMA StillTaskInv ==
  ASSUME TypeInv, TaskInv, TasksStay, NoStall' => NoStall, UNCHANGED job,
         \A o \in OpId : RecordKept(o) \/ (operations[o].state = "absent" /\ operations'[o].upid = 0)
  PROVE  TaskInv'
<1> SUFFICES ASSUME NoStall' PROVE (\A o \in OpId : RowRecorded(o)')
                                   /\ (\A w \in Worker : job'[w].pc # "idle" => JobRecorded(w)')
  BY DEF TaskInv
<1>1. ASSUME NEW o \in OpId PROVE RowRecorded(o)'
  <2>1. CASE operations'[o].upid = 0
    BY <2>1 DEF RowRecorded
  <2> QED
    BY <2>1, RowStays DEF TaskInv
<1>2. ASSUME NEW w \in Worker, job'[w].pc # "idle" PROVE JobRecorded(w)'
  <2>1. job[w].op \in OpId /\ operations[job[w].op].state # "absent" /\ job[w].pc # "idle"
    BY <1>2 DEF TypeInv, JobFits
  <2> QED
    BY <2>1, JobStays DEF TaskInv
<1> QED
  BY <1>1, <1>2

\* A step of one worker touches no other worker and no record but its own row's.
LEMMA WorkerTaskInv ==
  ASSUME TypeInv, LeaseInv, TaskInv, TasksStay, NoStall' => NoStall,
         NEW w \in Worker, job[w].pc # "idle",
         \A u \in Worker : u # w => job'[u] = job[u],
         \A o \in OpId : o # job[w].op => RecordKept(o),
         NoStall => \A o \in OpId : o = job[w].op => RowRecorded(o)',
         NoStall => job'[w].pc = "idle" \/ JobRecorded(w)'
  PROVE  TaskInv'
<1> SUFFICES ASSUME NoStall' PROVE (\A o \in OpId : RowRecorded(o)')
                                   /\ (\A u \in Worker : job'[u].pc # "idle" => JobRecorded(u)')
  BY DEF TaskInv
<1>1. ASSUME NEW o \in OpId PROVE RowRecorded(o)'
  <2>1. CASE o = job[w].op
    BY <2>1
  <2>2. CASE o # job[w].op
    BY <2>2, RowStays DEF TaskInv
  <2> QED
    BY <2>1, <2>2
<1>2. ASSUME NEW u \in Worker, u # w, job'[u].pc # "idle" PROVE JobRecorded(u)'
  <2>1. job[u].op \in OpId /\ job[u].op # job[w].op /\ job[u].pc # "idle"
    BY <1>2 DEF TypeInv, JobFits, LeaseInv, LeaseExclusive
  <2> QED
    BY <1>2, <2>1, JobStays DEF TaskInv
<1> QED
  BY <1>1, <1>2

\* However an execution ends, the record is left in the row.
LEMMA EndKeepsRecord ==
  ASSUME TypeInv, NEW w \in Worker, job[w].pc # "idle",
         Fail(w) \/ (\E state : Settle(w, state))
  PROVE  /\ job' = [job EXCEPT ![w] = Idle]
         /\ \A o \in OpId : RecordKept(o)
<1>1. operations \in [OpId -> Operation]
  BY DEF TypeInv, TypeOK
<1>2. ASSUME NEW state, Settle(w, state)
      PROVE  job' = [job EXCEPT ![w] = Idle] /\ \A o \in OpId : RecordKept(o)
  BY <1>1, <1>2 DEF Settle, Release, RecordKept, Operation
<1>3. CASE Retry(w)
  BY <1>1, <1>3 DEF Retry, Release, RecordKept, Operation
<1> QED
  BY <1>2, <1>3 DEF Fail, GiveUp

\* The success tail leaves it as well.
LEMMA SuccessKeepsRecord ==
  ASSUME TypeInv, NEW w \in Worker, job[w].pc # "idle",
         Succeed(w) \/ SucceedCreate(w) \/ SucceedDelete(w)
  PROVE  /\ job' = [job EXCEPT ![w] = Idle]
         /\ \A o \in OpId : RecordKept(o)
  BY EndKeepsRecord DEF Succeed, SucceedCreate, SucceedDelete

\* An ended execution keeps the invariant.
LEMMA EndTaskInv ==
  ASSUME TypeInv, LeaseInv, TaskInv, TasksStay, NoStall' => NoStall,
         NEW w \in Worker, job[w].pc # "idle",
         job' = [job EXCEPT ![w] = Idle], \A o \in OpId : RecordKept(o)
  PROVE  TaskInv'
<1>1. job'[w].pc = "idle" /\ \A u \in Worker : u # w => job'[u] = job[u]
  BY DEF TypeInv, TypeOK, Idle
<1>2. NoStall => \A o \in OpId : RowRecorded(o)'
  BY RowStays DEF TaskInv
<1> QED
  BY <1>1, <1>2, WorkerTaskInv

\* So does one that goes on while all rows keep their records.
LEMMA GoOnTaskInv ==
  ASSUME TypeInv, LeaseInv, TaskInv, TasksStay, NoStall' => NoStall,
         NEW w \in Worker, job[w].pc # "idle",
         \A u \in Worker : u # w => job'[u] = job[u],
         \A o \in OpId : RecordKept(o), NoStall => JobRecorded(w)'
  PROVE  TaskInv'
<1>1. NoStall => \A o \in OpId : RowRecorded(o)'
  BY RowStays DEF TaskInv
<1> QED
  BY <1>1, WorkerTaskInv

\* Each step of a worker keeps the record and its memory in order.
LEMMA StepTaskInv ==
  ASSUME TypeInv, LeaseInv, TaskInv, NoStall' => NoStall, NEW w \in Worker,
         WorkerStep(w) \/ Poll(w) \/ HttpError(w) \/ Crash(w)
  PROVE  TaskInv'
<1> DEFINE o == job[w].op
<1>0. /\ job \in [Worker -> Job] /\ operations \in [OpId -> Operation]
      /\ tasks \in [TaskId -> [op: OpId \cup {0}, kind: Kind, vm: Vm \cup {Nobody},
                               status: {"unused", "running", "ok", "failed"}]]
      /\ 0 \notin TaskId
  BY DEF TypeInv, TypeOK, TaskId
<1>a. job[w].pc # "idle" => /\ o \in OpId /\ operations[o] \in Operation /\ job[w] \in Job
                            /\ NoStall => RowRecorded(o) /\ JobRecorded(w)
  BY <1>0 DEF TypeInv, JobFits, TaskInv
<1>b. UNCHANGED tasks => TasksStay
  BY DEF TasksStay
<1>c. UNCHANGED operations => \A p \in OpId : RecordKept(p)
  BY DEF RecordKept
<1>d. ASSUME UNCHANGED tasks, job[w].pc # "idle", Fail(w) PROVE TaskInv'
  BY <1>b, <1>d, EndKeepsRecord, EndTaskInv
<1>e. ASSUME UNCHANGED tasks, job[w].pc # "idle", Succeed(w) \/ SucceedCreate(w) \/ SucceedDelete(w)
      PROVE  TaskInv'
  BY <1>b, <1>e, SuccessKeepsRecord, EndTaskInv
<1>f. ASSUME UNCHANGED <<tasks, operations>>, job[w].pc # "idle", NEW pc, NEW kind, GoTo(w, pc, kind),
             NoStall => JobRecorded(w)'
      PROVE  TaskInv'
  BY <1>0, <1>b, <1>c, <1>f, GoOnTaskInv DEF GoTo
<1>1. CASE Refuse(w)
  BY <1>1, <1>b, EndKeepsRecord, EndTaskInv DEF Refuse, proxmox
<1>2. CASE Begin(w)
  <2>1. job[w].pc = "begin" /\ UNCHANGED <<operations, tasks>>
    BY <1>2 DEF Begin, proxmox
  <2>2. /\ job' = [job EXCEPT ![w] = job'[w]] /\ job'[w].op = o
        /\ job'[w].pc \in {"wait", "submit", "probe"}
        /\ job'[w].pc = "probe" /\ operations[o].type = "create" => operations[o].upid = 0
        /\ job'[w].pc = "submit" => operations[o].upid = 0
        /\ (/\ job'[w].pc = "wait" /\ job'[w].kind = "clone"
            /\ operations[o].type = "create" /\ operations[o].upid # 0)
           => operations[o].phase # "start"
        /\ job'[w].kind = "inspect" /\ operations[o].upid # 0
           => operations[o].type = "delete" /\ operations[o].phase \notin {"stop", "delete"}
    BY <1>0, <1>2, <1>a DEF Begin, Op, Operation
  <2>3. NoStall => JobRecorded(w)'
    BY <2>1, <2>2, <1>a, <1>0 DEF JobRecorded, RowRecorded
  <2>4. \A u \in Worker : u # w => job'[u] = job[u]
    BY <2>2, <1>0
  <2> QED
    BY <2>1, <2>3, <2>4, <1>b, <1>c, GoOnTaskInv
<1>3. CASE Probe(w)
  <2>0. job[w].pc = "probe" /\ UNCHANGED tasks
    BY <1>3 DEF Probe, proxmox
  <2>1. CASE operations[o].type = "create" /\ GoTo(w, "submit", "clone") /\ UNCHANGED operations
    <3>1. NoStall => JobRecorded(w)'
      BY <1>0, <1>a, <2>0, <2>1 DEF GoTo, JobRecorded
    <3> QED BY <2>0, <2>1, <3>1, <1>f
  <2>2. CASE operations[o].type = "delete" /\ GoTo(w, "observe", "inspect") /\ UNCHANGED operations
             /\ job[w].kind = "inspect"
    <3>1. NoStall => JobRecorded(w)'
      BY <1>0, <1>a, <2>0, <2>2 DEF GoTo, JobRecorded
    <3> QED BY <2>0, <2>2, <3>1, <1>f
  <2>3. CASE operations[o].type = "delete" /\ job' = [job EXCEPT ![w].pc = "wait", ![w].resumed = TRUE]
             /\ UNCHANGED operations /\ job[w].kind # "inspect"
    <3>1. NoStall => JobRecorded(w)'
      BY <1>0, <1>a, <2>0, <2>3 DEF JobRecorded
    <3> QED BY <1>0, <1>b, <1>c, <2>0, <2>3, <3>1, GoOnTaskInv
  <2> QED
    BY <1>3, <1>d, <1>e, <2>0, <2>1, <2>2, <2>3 DEF Probe, Op
<1>4. ASSUME NEW t \in TaskId, Submit(w, t) PROVE TaskInv'
  <2>1. /\ job[w].pc = "submit" /\ tasks[t].status = "unused"
        /\ tasks' = [tasks EXCEPT ![t] = [op |-> o, kind |-> job[w].kind,
                                          vm |-> Op(w).vm, status |-> "running"]]
    BY <1>4 DEF Submit, FreshTask
  <2>2. TasksStay
    BY <1>0, <2>1 DEF TasksStay
  <2>3. CASE job' = [job EXCEPT ![w].pc = "persist", ![w].task = t] /\ UNCHANGED operations
    <3>1. /\ job'[w].pc = "persist" /\ job'[w].task = t /\ job'[w].kind = job[w].kind
          /\ \A u \in Worker : u # w => job'[u] = job[u]
      BY <1>0, <1>a, <2>1, <2>3
    <3>2. tasks'[t].status # "unused" /\ tasks'[t].kind = job[w].kind
      BY <1>0, <2>1
    <3>3. job[w].kind # "inspect"
      BY <2>1 DEF TypeInv, JobFits
    <3>4. JobRecorded(w)'
      BY <3>1, <3>2, <3>3 DEF JobRecorded
    <3> QED BY <1>c, <2>1, <2>2, <2>3, <3>1, <3>4, GoOnTaskInv
  <2>4. CASE Fail(w)
    BY <2>1, <2>2, <2>4, EndKeepsRecord, EndTaskInv
  <2> QED
    BY <1>4, <2>3, <2>4 DEF Submit
<1>5. CASE SubmitRefused(w)
  BY <1>5, <1>d, <1>e DEF SubmitRefused, proxmox
<1>6. CASE Persist(w)
  <2>1. job[w].pc = "persist" /\ UNCHANGED tasks /\ job' = [job EXCEPT ![w].pc = "wait"]
    BY <1>6 DEF Persist, proxmox
  <2>2. /\ job'[w].pc = "wait" /\ job'[w].op = o /\ job'[w].kind = job[w].kind
        /\ \A u \in Worker : u # w => job'[u] = job[u]
    BY <1>0, <2>1
  <2>3. /\ operations'[o].upid = job[w].task /\ operations'[o].type = operations[o].type
        /\ operations[o].type \in {"create", "delete"} => operations'[o].phase = job[w].kind
        /\ \A p \in OpId : p # o => operations'[p] = operations[p]
    BY <1>0, <1>6, <1>a, <2>1 DEF Persist, Op, Operation
  <2>4. Fits(operations[o].type, job[w].kind)
    BY <2>1 DEF TypeInv, JobFits
  <2>5. NoStall => \A p \in OpId : p = o => RowRecorded(p)'
    BY <1>a, <2>1, <2>3, <2>4 DEF RowRecorded, JobRecorded, Fits
  <2>6. NoStall => JobRecorded(w)'
    BY <1>a, <2>1, <2>2, <2>3, <2>4 DEF JobRecorded, Fits
  <2>7. \A p \in OpId : p # o => RecordKept(p)
    BY <2>3 DEF RecordKept
  <2> QED
    BY <1>b, <2>1, <2>2, <2>5, <2>6, <2>7, WorkerTaskInv
<1>7. CASE WaitEnds(w)
  <2>1. job[w].pc = "wait" /\ UNCHANGED tasks
    BY <1>7 DEF WaitEnds, proxmox
  <2>2. CASE GoTo(w, "observe", job[w].kind) /\ UNCHANGED operations
    <3>1. NoStall => JobRecorded(w)'
      BY <1>0, <1>a, <2>1, <2>2 DEF GoTo, JobRecorded
    <3> QED BY <2>1, <2>2, <3>1, <1>f
  <2> QED
    BY <1>7, <1>d, <2>1, <2>2 DEF WaitEnds
<1>8. CASE ObserveCreate(w)
  <2>1. job[w].pc = "observe" /\ UNCHANGED tasks /\ operations[o].type = "create"
    BY <1>8 DEF ObserveCreate, proxmox, Op
  <2>2. CASE GoTo(w, "submit", "start") /\ UNCHANGED operations /\ job[w].kind = "clone"
    <3>1. NoStall => JobRecorded(w)'
      BY <1>0, <1>a, <2>1, <2>2 DEF GoTo, JobRecorded
    <3> QED BY <2>1, <2>2, <3>1, <1>f
  <2> QED
    BY <1>8, <1>d, <1>e, <2>1, <2>2 DEF ObserveCreate
<1>9. CASE ObservePower(w)
  BY <1>9, <1>d, <1>e DEF ObservePower, proxmox
<1>10. CASE ObserveDelete(w)
  <2>1. job[w].pc = "observe" /\ UNCHANGED tasks /\ operations[o].type = "delete"
    BY <1>10 DEF ObserveDelete, proxmox, Op
  <2>2. ASSUME NEW kind \in {"stop", "delete"}, GoTo(w, "submit", kind), UNCHANGED operations,
               job[w].kind = "inspect"
        PROVE  TaskInv'
    <3>1. NoStall => JobRecorded(w)'
      BY <1>0, <1>a, <2>1, <2>2 DEF GoTo, JobRecorded
    <3> QED BY <2>1, <2>2, <3>1, <1>f
  <2>3. CASE /\ operations' = [operations EXCEPT ![job[w].op].upid = 0,
                  ![job[w].op].phase = "stopped", ![job[w].op].lease = "live"]
             /\ GoTo(w, "observe", "inspect") \/ GoTo(w, "submit", "delete")
    <3>1. /\ operations'[o].upid = 0 /\ operations'[o].type = "delete"
          /\ \A p \in OpId : p # o => operations'[p] = operations[p]
      BY <1>0, <1>a, <2>1, <2>3 DEF Operation
    <3>2. /\ job'[w].pc \in {"observe", "submit"} /\ job'[w].op = o
          /\ \A u \in Worker : u # w => job'[u] = job[u]
      BY <1>0, <2>3 DEF GoTo, Job
    <3>3. (\A p \in OpId : p = o => RowRecorded(p)') /\ JobRecorded(w)'
      BY <3>1, <3>2 DEF RowRecorded, JobRecorded
    <3>4. \A p \in OpId : p # o => RecordKept(p)
      BY <3>1 DEF RecordKept
    <3> QED BY <1>b, <2>1, <3>2, <3>3, <3>4, WorkerTaskInv
  <2> QED
    BY <1>10, <1>d, <1>e, <2>1, <2>2, <2>3 DEF ObserveDelete
<1>11. CASE Poll(w)
  <2>1. UNCHANGED <<tasks, job>> /\ \A p \in OpId : RecordKept(p)
    BY <1>0, <1>11 DEF Poll, proxmox, RecordKept, Operation
  <2> QED
    BY <1>b, <2>1, StillTaskInv
<1>12. CASE HttpError(w)
  BY <1>12, <1>d DEF HttpError, proxmox
<1>13. CASE Crash(w)
  BY <1>13, <1>b, <1>c, EndTaskInv DEF Crash, proxmox
<1> QED
  BY <1>1, <1>2, <1>3, <1>4, <1>5, <1>6, <1>7, <1>8, <1>9, <1>10, <1>11, <1>12, <1>13
  DEF WorkerStep

\* A claim starts with nothing in memory but the row.
LEMMA ClaimTaskInv ==
  ASSUME TypeInv, TaskInv, NEW w \in Worker, NEW o \in OpId, Claim(w, o) PROVE TaskInv'
<1>1. /\ job \in [Worker -> Job] /\ operations \in [OpId -> Operation]
      /\ UNCHANGED <<tasks, faults>> /\ TasksStay
  BY DEF TypeInv, TypeOK, Claim, proxmox, TasksStay
<1>2. /\ job'[w].pc = "begin" /\ \A u \in Worker : u # w => job'[u] = job[u]
  BY <1>1 DEF Claim, Idle
<1>3. \A p \in OpId : RecordKept(p)
  BY <1>1 DEF Claim, RecordKept, Operation
<1>4. JobRecorded(w)'
  BY <1>2 DEF JobRecorded
<1>5. NoStall' <=> NoStall
  BY <1>1 DEF NoStall
<1>6. \A p \in OpId : NoStall => RowRecorded(p)'
  BY <1>1, <1>3, RowStays DEF TaskInv
<1>7. ASSUME NoStall, NEW u \in Worker, u # w, job'[u].pc # "idle" PROVE JobRecorded(u)'
  <2>1. job[u].pc # "idle" /\ job[u].op \in OpId
    BY <1>2, <1>7 DEF TypeInv, JobFits
  <2> QED
    BY <1>1, <1>2, <1>3, <1>7, <2>1, JobStays DEF TaskInv
<1> QED
  BY <1>4, <1>5, <1>6, <1>7 DEF TaskInv

\* TaskInv is inductive relative to TypeInv and LeaseInv.
LEMMA NextTaskInv == ASSUME TypeInv, LeaseInv, TaskInv, [Next]_vars PROVE TaskInv'
<1>0. operations \in [OpId -> Operation] /\ (NoStall' => NoStall)
  BY StallsStay DEF TypeInv, TypeOK
<1>1. ASSUME UNCHANGED <<operations, job>>, TasksStay PROVE TaskInv'
  BY <1>0, <1>1, StillTaskInv DEF RecordKept
<1>2. UNCHANGED tasks => TasksStay
  BY DEF TasksStay
<1>3. ASSUME NEW o \in OpId, NEW type, NEW v, NEW by, NEW cleanup, NEW auto, NEW key,
             Enqueue(o, type, v, by, cleanup, auto, key), UNCHANGED <<job, tasks>>
      PROVE  TaskInv'
  <2>1. operations[o].state = "absent" /\ operations'[o].upid = 0
        /\ \A p \in OpId : p # o => operations'[p] = operations[p]
    BY <1>0, <1>3 DEF Enqueue, Fresh, NoOperation
  <2> QED
    BY <1>0, <1>2, <1>3, <2>1, StillTaskInv DEF RecordKept
<1>4. CASE Request
  BY <1>1, <1>2, <1>3, <1>4
  DEF Request, CreateVmCheck, CreateVmAbort, CreateVmCommit, CreateVmStaff, QueueVmAction,
      DeleteAppRecord, proxmox
<1>5. CASE Authority
  BY <1>1, <1>2, <1>5 DEF Authority, EndTimePasses, WithdrawAccess, proxmox
<1>6. ASSUME NEW t \in TaskId, TaskSucceeds(t) \/ TaskFails(t) PROVE TaskInv'
  <2>1. TasksStay
    BY <1>6 DEF TaskSucceeds, TaskFails, TasksStay, TypeInv, TypeOK
  <2> QED
    BY <1>1, <1>6, <2>1 DEF TaskSucceeds, TaskFails
<1>7. CASE Proxmox
  BY <1>1, <1>2, <1>6, <1>7 DEF Proxmox, GuestChanges
<1>8. CASE Time
  <2>1. UNCHANGED <<job, tasks>> /\ \A o \in OpId : RecordKept(o)
    BY <1>0, <1>8 DEF Time, LeaseExpires, BackoffElapses, RecordKept, Operation, proxmox
  <2> QED
    BY <1>0, <1>2, <2>1, StillTaskInv
<1>9. CASE Execution
  BY <1>0, <1>9, ClaimTaskInv, StepTaskInv DEF Execution
<1>10. CASE UNCHANGED vars
  BY <1>1, <1>2, <1>10 DEF vars
<1> QED
  BY <1>4, <1>5, <1>7, <1>8, <1>9, <1>10 DEF Next

\* Only the call of an execution that is about to submit adds a task.
LEMMA TaskIsSubmitted ==
  ASSUME TypeInv, [Next]_vars, NEW t \in TaskId,
         tasks[t].status = "unused", tasks'[t].status # "unused"
  PROVE  \E w \in Worker : /\ job[w].pc = "submit" /\ Authorized(job[w].op)
                           /\ tasks'[t].op = job[w].op /\ tasks'[t].kind = job[w].kind
<1>0. tasks \in [TaskId -> [op: OpId \cup {0}, kind: Kind, vm: Vm \cup {Nobody},
                            status: {"unused", "running", "ok", "failed"}]]
  BY DEF TypeInv, TypeOK
<1>1. ~UNCHANGED tasks
  OBVIOUS
<1>2. ASSUME NEW s \in TaskId, TaskSucceeds(s) \/ TaskFails(s) PROVE FALSE
  BY <1>0, <1>2 DEF TaskSucceeds, TaskFails
<1>3. ASSUME NEW w \in Worker, NEW s \in TaskId, Submit(w, s)
      PROVE  /\ job[w].pc = "submit" /\ Authorized(job[w].op)
             /\ tasks'[t].op = job[w].op /\ tasks'[t].kind = job[w].kind
  BY <1>0, <1>3 DEF Submit
<1>4. ~Request /\ ~Authority /\ ~Time
  BY <1>1 DEF Request, CreateVmCheck, CreateVmAbort, CreateVmCommit, CreateVmStaff, QueueVmAction,
              DeleteAppRecord, Authority, EndTimePasses, WithdrawAccess, Time, LeaseExpires,
              BackoffElapses, proxmox
<1>5. ~Proxmox
  BY <1>1, <1>2 DEF Proxmox, GuestChanges
<1>6. CASE Execution
  <2>1. \E w \in Worker, s \in TaskId : Submit(w, s)
    BY <1>1, <1>6 DEF Execution, Claim, Poll, HttpError, Crash, WorkerStep, Refuse, Begin, Probe,
       SubmitRefused, Persist, WaitEnds, ObserveCreate, ObservePower, ObserveDelete, proxmox
  <2> QED
    BY <1>3, <2>1
<1> QED
  BY <1>1, <1>4, <1>5, <1>6 DEF Next, vars

\* Unless a worker stalled, every UPID on record is a task that was submitted, and what a
\* worker is about to submit is not on record (persist_task and the resumption from it).
THEOREM TasksAreRecorded == Spec => []TaskInv
<1>1. Init => TaskInv
  <2> SUFFICES ASSUME Init PROVE /\ \A o \in OpId : operations[o].upid = 0
                                 /\ \A w \in Worker : job[w].pc = "idle"
    BY DEF TaskInv, RowRecorded
  <2> QED
    BY DEF Init, NoOperation, Idle
<1>2. TypeInv /\ LeaseInv /\ TaskInv /\ [Next]_vars => TaskInv'
  BY NextTaskInv
<1> QED
  BY <1>1, <1>2, TypeInvariance, LeaseInvariance, PTL DEF Spec

\* Unless a worker stalls, a task whose UPID was persisted is never submitted again by its
\* operation, through crashes, reclaims and retries (execute_operation's resumption).
THEOREM RecordedTasksAreNotRepeated == Spec => RecordedTaskNotRepeated
<1>1. TypeInv /\ TaskInv /\ [Next]_vars =>
        [\A t \in TaskId : tasks[t].status = "unused" /\ tasks'[t].status # "unused" =>
           LET op == operations[tasks'[t].op] IN
             NoStall /\ op.upid # 0 => tasks[op.upid].kind # tasks'[t].kind]_vars
  <2> SUFFICES ASSUME TypeInv, TaskInv, [Next]_vars, NEW t \in TaskId,
                      tasks[t].status = "unused", tasks'[t].status # "unused",
                      NoStall, operations[tasks'[t].op].upid # 0
               PROVE  tasks[operations[tasks'[t].op].upid].kind # tasks'[t].kind
    OBVIOUS
  <2>1. PICK w \in Worker : /\ job[w].pc = "submit" /\ tasks'[t].op = job[w].op
                            /\ tasks'[t].kind = job[w].kind
    BY TaskIsSubmitted
  <2> QED
    BY <2>1 DEF TaskInv, JobRecorded
<1> QED
  BY <1>1, TypeInvariance, TasksAreRecorded, PTL DEF Spec, RecordedTaskNotRepeated

\* Every call that changes Proxmox is made while its requester holds the authority, whatever
\* was withdrawn between two awaits (_validate_operation_authorization).
THEOREM CallsAreAuthorized == Spec => MutationsAuthorized
<1>1. TypeInv /\ [Next]_vars =>
        [\A t \in TaskId : tasks[t].status = "unused" /\ tasks'[t].status # "unused" =>
           Authorized(tasks'[t].op)]_vars
  BY TaskIsSubmitted
<1> QED
  BY <1>1, TypeInvariance, PTL DEF Spec, MutationsAuthorized

-----------------------------------------------------------------------------
(* The queue implements VmRequests, when no worker outlives its lease.     *)

Pending == {"queued", "running"}

\* The abstract state: what callers asked for, and what they are told.
Asked == [o \in OpId |-> [type |-> operations[o].type, vm |-> operations[o].vm]]
Told == [o \in OpId |-> CASE operations[o].state = "absent" -> "none"
                          [] operations[o].state \in {"queued", "running"} -> "pending"
                          [] OTHER -> operations[o].state]

\* A row that looks to its caller as it did.
LooksSame(o) ==
  /\ operations'[o].type = operations[o].type /\ operations'[o].vm = operations[o].vm
  /\ \/ operations'[o].state = operations[o].state
     \/ operations[o].state \in Pending /\ operations'[o].state \in Pending

\* Only request o ends, with that outcome.
EndsAs(o, outcome) ==
  /\ operations[o].state \in Pending /\ operations'[o].state = outcome
  /\ outcome = "succeeded" => Goal(o)
  /\ operations'[o].type = operations[o].type /\ operations'[o].vm = operations[o].vm
  /\ \A p \in OpId : p # o => operations'[p] = operations[p]

-----------------------------------------------------------------------------

\* What a row's state means to its caller.
LEMMA ToldIs ==
  ASSUME NEW o \in OpId
  PROVE  /\ operations[o].state = "absent" => Told[o] = "none"
         /\ operations[o].state \in Pending => Told[o] = "pending"
         /\ operations[o].state \in Terminal => Told[o] = operations[o].state
         /\ Asked[o] = [type |-> operations[o].type, vm |-> operations[o].vm]
  BY DEF Told, Asked, Pending, Terminal

\* The same of the row after a step.
LEMMA ToldWillBe ==
  ASSUME NEW o \in OpId
  PROVE  /\ operations'[o].state = "absent" => Told'[o] = "none"
         /\ operations'[o].state \in Pending => Told'[o] = "pending"
         /\ operations'[o].state \in Terminal => Told'[o] = operations'[o].state
         /\ Asked'[o] = [type |-> operations'[o].type, vm |-> operations'[o].vm]
  BY DEF Told, Asked, Pending, Terminal

\* Asked and Told are functions on the requests.
LEMMA ToldFunctions ==
  /\ Asked = [o \in OpId |-> Asked[o]] /\ Told = [o \in OpId |-> Told[o]]
  /\ Asked' = [o \in OpId |-> Asked'[o]] /\ Told' = [o \in OpId |-> Told'[o]]
<1>1. Asked = [o \in OpId |-> Asked[o]] /\ Asked' = [o \in OpId |-> Asked'[o]]
  BY DEF Asked
<1>2. Told = [o \in OpId |-> Told[o]] /\ Told' = [o \in OpId |-> Told'[o]]
  BY DEF Told
<1> QED
  BY <1>1, <1>2

\* A row that looks the same to its caller is the same request with the same answer.
LEMMA SameRow ==
  ASSUME NEW o \in OpId, LooksSame(o)
  PROVE  Asked'[o] = Asked[o] /\ Told'[o] = Told[o]
<1>1. Asked'[o] = Asked[o]
  BY DEF LooksSame, Asked
<1>2. ASSUME operations'[o].state = operations[o].state PROVE Told'[o] = Told[o]
  BY <1>2 DEF Told
<1>3. CASE operations[o].state \in Pending /\ operations'[o].state \in Pending
  <2>1. Told[o] = "pending"
    BY <1>3, ToldIs
  <2>2. Told'[o] = "pending"
    BY <1>3, ToldWillBe
  <2> QED
    BY <1>1, <2>1, <2>2
<1> QED
  BY <1>1, <1>2, <1>3 DEF LooksSame

\* A step after which all rows look the same changes nothing in the abstract queue.
LEMMA SameRequests ==
  ASSUME \A o \in OpId : LooksSame(o)
  PROVE  UNCHANGED <<Asked, Told>>
<1>1. \A o \in OpId : Asked'[o] = Asked[o] /\ Told'[o] = Told[o]
  BY SameRow
<1> QED
  BY <1>1, ToldFunctions

\* A request that ends is an End of the abstract queue.
LEMMA EndsIsEnd ==
  ASSUME NEW o \in OpId, NEW outcome \in Terminal, operations[o].type \in OpType, EndsAs(o, outcome)
  PROVE  Promise!End(o, outcome)
<1>1. Told[o] = "pending"
  BY ToldIs DEF EndsAs
<1>2. Told'[o] = outcome
  BY ToldWillBe DEF EndsAs
<1>3. Asked'[o] = Asked[o]
  BY DEF EndsAs, Asked
<1>4. ASSUME NEW p \in OpId, p # o PROVE Asked'[p] = Asked[p] /\ Told'[p] = Told[p]
  BY <1>4, SameRow DEF EndsAs, LooksSame
<1>5. Told' = [Told EXCEPT ![o] = outcome] /\ UNCHANGED Asked
  BY <1>2, <1>3, <1>4, ToldFunctions
<1>6. outcome = "succeeded" => Promise!Visible(o)
  BY DEF EndsAs, Goal, OpType, Promise!Visible
<1> QED
  BY <1>1, <1>5, <1>6 DEF Promise!End, Asked, Told

\* New rows are an Ask of the abstract queue.
LEMMA NewRowsAreAsked ==
  ASSUME NEW asked \in SUBSET OpId, asked # {}, UNCHANGED guests,
         \A o \in asked : operations[o].state = "absent" /\ operations'[o].state = "queued",
         \A o \in OpId \ asked : operations'[o] = operations[o]
  PROVE  Promise!Next
<1>1. \A o \in asked : Told[o] = "none" /\ Told'[o] = "pending"
  BY ToldIs, ToldWillBe DEF Pending
<1>2. ASSUME NEW o \in OpId \ asked PROVE Asked'[o] = Asked[o] /\ Told'[o] = Told[o]
  BY <1>2, SameRow DEF LooksSame
<1>3. Told' = [o \in OpId |-> IF o \in asked THEN "pending" ELSE Told[o]]
  BY <1>1, <1>2, ToldFunctions
<1>4. Promise!Ask(asked)
  BY <1>1, <1>2, <1>3 DEF Promise!Ask, Asked, Told
<1> QED
  BY <1>4 DEF Promise!Next

\* enqueue_operation is an Ask of the abstract queue.
LEMMA EnqueueIsAsk ==
  ASSUME TypeInv, NEW o \in OpId, NEW type, NEW v, NEW by, NEW cleanup, NEW auto, NEW key,
         Enqueue(o, type, v, by, cleanup, auto, key), UNCHANGED guests
  PROVE  Promise!Next
<1>1. operations[o].state = "absent" /\ operations'[o].state = "queued"
      /\ \A p \in OpId : p # o => operations'[p] = operations[p]
  BY DEF TypeInv, TypeOK, Enqueue, Fresh, NoOperation
<1> DEFINE asked == {o}
<1>2. asked \in SUBSET OpId /\ asked # {}
  OBVIOUS
<1> QED
  BY <1>1, <1>2, NewRowsAreAsked

\* A step that callers do not notice.
LEMMA UnseenStep ==
  ASSUME \A o \in OpId : LooksSame(o), UNCHANGED guests PROVE UNCHANGED Promise!vars
  BY SameRequests DEF Promise!vars, Asked, Told

\* A request that ends, with no guest touched by the step.
LEMMA EndStep ==
  ASSUME NEW o \in OpId, NEW outcome \in Terminal, operations[o].type \in OpType,
         EndsAs(o, outcome), UNCHANGED guests
  PROVE  Promise!Next
  BY EndsIsEnd DEF Promise!Next, Terminal

\* A guest that appears.
LEMMA AppearStep == ASSUME NEW v \in Vm, Promise!Appear(v) PROVE Promise!Next
  BY DEF Promise!Next

\* A guest that changes while no request does.
LEMMA EvolveStep ==
  ASSUME UNCHANGED operations, NEW v \in Vm, guests[v] # "absent",
         NEW g \in {"absent", "stopped", "running"}, guests' = [guests EXCEPT ![v] = g]
  PROVE  Promise!Next
<1>1. UNCHANGED <<Asked, Told>>
  BY DEF Asked, Told
<1>2. Promise!Evolve(v)
  BY <1>1 DEF Promise!Evolve, Asked, Told
<1> QED
  BY <1>2 DEF Promise!Next

\* No execution changes what its row asks for.
LEMMA ExecutionKeepsAsked ==
  ASSUME TypeInv, NEW w \in Worker, WorkerStep(w) \/ Poll(w) \/ HttpError(w) \/ Crash(w),
         NEW o \in OpId
  PROVE  /\ operations'[o].type = operations[o].type /\ operations'[o].vm = operations[o].vm
         /\ operations[o].state # "absent" => operations'[o].state # "absent"
<1> DEFINE Kept ==
      /\ operations'[o].type = operations[o].type /\ operations'[o].vm = operations[o].vm
      /\ operations[o].state # "absent" => operations'[o].state # "absent"
<1>0. operations \in [OpId -> Operation]
  BY DEF TypeInv, TypeOK
<1>1. CASE UNCHANGED operations
  BY <1>1
<1>2. ASSUME NEW state \in Terminal, Settle(w, state) PROVE Kept
  BY <1>0, <1>2 DEF Settle, Operation, Terminal
<1>3. ASSUME Fail(w) PROVE Kept
  BY <1>0, <1>2, <1>3 DEF Fail, Retry, GiveUp, Operation, Terminal
<1>4. ASSUME Succeed(w) \/ SucceedCreate(w) \/ SucceedDelete(w) PROVE Kept
  BY <1>2, <1>4 DEF Succeed, SucceedCreate, SucceedDelete, Terminal
<1>5. CASE Persist(w) \/ Poll(w)
  BY <1>0, <1>5 DEF Persist, Poll, Operation
<1>6. ASSUME operations' = [operations EXCEPT ![job[w].op].upid = 0,
               ![job[w].op].phase = "stopped", ![job[w].op].lease = "live"]
      PROVE  Kept
  BY <1>0, <1>6 DEF Operation
<1>7. CASE WorkerStep(w)
  BY <1>1, <1>2, <1>3, <1>4, <1>5, <1>6, <1>7
  DEF WorkerStep, Refuse, Begin, Probe, Submit, SubmitRefused, WaitEnds, ObserveCreate,
      ObservePower, ObserveDelete, Terminal
<1>8. CASE HttpError(w) \/ Crash(w)
  BY <1>1, <1>3, <1>8 DEF HttpError, Crash
<1> QED
  BY <1>5, <1>7, <1>8

\* Callers see nothing of a worker's step but how a request ends.
LEMMA ExecutionSeen ==
  ASSUME TypeInv, LeaseInv, NoStall, TypeInv', NEW w \in Worker,
         WorkerStep(w) \/ Poll(w) \/ HttpError(w) \/ Crash(w)
  PROVE  \/ \A o \in OpId : LooksSame(o)
         \/ /\ job[w].op \in OpId /\ operations'[job[w].op].state \in Terminal
            /\ EndsAs(job[w].op, operations'[job[w].op].state)
<1>1. ASSUME NEW o \in OpId
      PROVE  operations'[o].type = operations[o].type /\ operations'[o].vm = operations[o].vm
  BY <1>1, ExecutionKeepsAsked
<1>2. CASE Going(w)
  BY <1>1, <1>2 DEF Going, LooksSame
<1>3. CASE Ending(w)
  <2> DEFINE o == job[w].op
  <2>1. /\ o \in OpId /\ operations[o].state = "running"
        /\ \A p \in OpId : p # o => operations'[p] = operations[p]
    BY <1>3 DEF Ending, TypeInv, JobFits, LeaseInv
  <2>2. operations'[o].state # "absent"
    BY <2>1, ExecutionKeepsAsked
  <2>3. operations'[o].state \in Pending \cup Terminal
    BY <2>1, <2>2 DEF TypeInv, TypeOK, Operation, OpState, Pending, Terminal
  <2>4. CASE operations'[o].state \in Pending
    BY <1>1, <2>1, <2>4 DEF LooksSame, Pending
  <2>5. CASE operations'[o].state \in Terminal
    <3>1. operations'[o].state = "succeeded" => Goal(o)
      BY <2>1, EndSeen
    <3> QED
      BY <1>1, <2>1, <2>5, <3>1 DEF EndsAs, Pending
  <2> QED
    BY <2>3, <2>4, <2>5
<1> QED
  BY <1>2, <1>3, StepShape

\* A step of a worker is a step of the abstract queue, or nothing to it.
LEMMA ExecutionStep ==
  ASSUME TypeInv, LeaseInv, RecordsInv, NoStall, TypeInv', NEW w \in Worker,
         WorkerStep(w) \/ Poll(w) \/ HttpError(w) \/ Crash(w)
  PROVE  Promise!Next \/ UNCHANGED Promise!vars
<1> DEFINE o == job[w].op
<1>0. operations \in [OpId -> Operation] /\ operations' \in [OpId -> Operation]
      /\ guests \in [Vm -> {"absent", "stopped", "running"}]
  BY DEF TypeInv, TypeOK
<1>1. \/ \A p \in OpId : LooksSame(p)
      \/ /\ o \in OpId /\ operations'[o].state \in Terminal /\ EndsAs(o, operations'[o].state)
  BY ExecutionSeen
<1>2. CASE UNCHANGED guests
  <2>1. o \in OpId => operations[o].type \in OpType
    BY <1>0 DEF Operation
  <2> QED
    BY <1>1, <1>2, <2>1, UnseenStep, EndStep
<1>3. CASE ~UNCHANGED guests
  <2>1. PICK t \in TaskId : Submit(w, t)
    BY <1>3 DEF WorkerStep, Poll, HttpError, Crash, Refuse, Begin, Probe, SubmitRefused, Persist,
                WaitEnds, ObserveCreate, ObservePower, ObserveDelete, proxmox
  <2>2. /\ job[w].pc = "submit" /\ job[w].kind = "clone" /\ guests[operations[o].vm] = "absent"
        /\ guests' = [guests EXCEPT ![operations[o].vm] = "stopped"]
    BY <1>3, <2>1 DEF Submit, Accepts, Op
  <2>3. /\ o \in OpId /\ operations[o].state = "running" /\ operations[o].type = "create"
        /\ operations[o].state # "absent"
    BY <2>2 DEF TypeInv, JobFits, Fits, LeaseInv
  <2>4. PICK v \in Vm : v = operations[o].vm
    BY <2>3 DEF RecordsInv
  <2>5. Told[o] = "pending" /\ Asked[o].type = "create" /\ Asked[o].vm = v
    <3>1. Told[o] = "pending"
      BY <2>3, ToldIs DEF Pending
    <3> QED
      BY <2>3, <2>4, <3>1 DEF Asked
  <2>6. UNCHANGED <<Asked, Told>> \/ Promise!End(o, "failed")
    <3>1. CASE \A p \in OpId : LooksSame(p)
      BY <3>1, SameRequests
    <3>2. CASE operations'[o].state \in Terminal /\ EndsAs(o, operations'[o].state)
      <4>1. Fail(w)
        BY <1>0, <2>1, <2>3, <3>2 DEF Submit, EndsAs, Terminal
      <4>2. operations'[o].state \in {"queued", "failed"}
        BY <1>0, <2>3, <4>1 DEF Fail, Retry, GiveUp, Settle, Operation
      <4>3. operations'[o].state = "failed"
        BY <3>2, <4>2 DEF Terminal
      <4> QED
        BY <2>3, <3>2, <4>3, EndsIsEnd DEF OpType
    <3> QED
      BY <1>1, <3>1, <3>2
  <2>7. Promise!Appear(v)
    BY <2>2, <2>3, <2>4, <2>5, <2>6 DEF Promise!Appear, Promise!Wants, Asked, Told
  <2> QED
    BY <2>7, AppearStep
<1> QED
  BY <1>2, <1>3

\* So is what happens in Proxmox.
LEMMA ProxmoxStep ==
  ASSUME TypeInv, Proxmox PROVE Promise!Next \/ UNCHANGED Promise!vars
<1>0. /\ guests \in [Vm -> {"absent", "stopped", "running"}] /\ UNCHANGED operations
      /\ \A t \in TaskId : tasks[t].status = "running" => tasks[t].kind \in Mutation
  BY DEF TypeInv, TypeOK, TasksKnown, Proxmox, TaskSucceeds, TaskFails, GuestChanges
<1>1. CASE UNCHANGED guests
  BY <1>0, <1>1, UnseenStep DEF LooksSame
<1>2. ASSUME NEW v \in Vm, guests[v] = "absent", guests' = [guests EXCEPT ![v] = "absent"]
      PROVE  UNCHANGED guests
  BY <1>0, <1>2
<1>3. ASSUME NEW v, v \notin Vm, NEW g, guests' = [guests EXCEPT ![v] = g] PROVE UNCHANGED guests
  BY <1>0, <1>3
<1>4. ASSUME NEW t \in TaskId, TaskSucceeds(t) PROVE Promise!Next \/ UNCHANGED guests
  <2> DEFINE v == tasks[t].vm
             g == After(tasks[t].kind, guests[v])
  <2>1. guests' = [guests EXCEPT ![v] = g]
    BY <1>4 DEF TaskSucceeds
  <2>2. CASE v \in Vm
    <3>1. guests[v] # "absent" /\ g \in {"absent", "stopped", "running"}
      BY <1>0, <1>4, <2>2 DEF TaskSucceeds, Possible, After, Mutation
    <3> QED
      BY <1>0, <2>1, <2>2, <3>1, EvolveStep
  <2> QED
    BY <1>3, <2>1, <2>2
<1>5. ASSUME NEW t \in TaskId, TaskFails(t) PROVE Promise!Next \/ UNCHANGED guests
  BY <1>0, <1>2, <1>3, <1>5, EvolveStep DEF TaskFails
<1>6. ASSUME NEW v \in Vm, GuestChanges(v) PROVE Promise!Next
  BY <1>0, <1>6, EvolveStep DEF GuestChanges
<1> QED
  BY <1>1, <1>4, <1>5, <1>6 DEF Proxmox

\* Every step of the queue is a step of the abstract one, or nothing to it.
LEMMA NextStep ==
  ASSUME TypeInv, LeaseInv, RecordsInv, NoStall, [Next]_vars
  PROVE  Promise!Next \/ UNCHANGED Promise!vars
<1>0. operations \in [OpId -> Operation] /\ TypeInv'
  BY NextTypeInv DEF TypeInv, TypeOK
<1>1. CASE UNCHANGED <<operations, guests>>
  BY <1>1, UnseenStep DEF LooksSame
<1>2. ASSUME NEW o \in OpId, NEW type, NEW v, NEW by, NEW cleanup, NEW auto, NEW key,
             Enqueue(o, type, v, by, cleanup, auto, key), UNCHANGED guests
      PROVE  Promise!Next
  BY <1>2, EnqueueIsAsk
<1>3. CASE Request
  BY <1>1, <1>2, <1>3
  DEF Request, CreateVmCheck, CreateVmAbort, CreateVmCommit, CreateVmStaff, QueueVmAction,
      DeleteAppRecord, proxmox
<1>4. CASE Authority
  BY <1>1, <1>4 DEF Authority, EndTimePasses, WithdrawAccess, proxmox
<1>5. CASE Time
  <2>1. UNCHANGED guests /\ \A o \in OpId : LooksSame(o)
    BY <1>0, <1>5 DEF Time, LeaseExpires, BackoffElapses, LooksSame, Operation, proxmox
  <2> QED
    BY <2>1, UnseenStep
<1>6. ASSUME NEW w \in Worker, NEW o \in OpId, Claim(w, o) PROVE UNCHANGED Promise!vars
  <2>1. UNCHANGED guests /\ \A p \in OpId : LooksSame(p)
    BY <1>0, <1>6 DEF Claim, Claimable, LooksSame, Pending, Operation, proxmox
  <2> QED
    BY <2>1, UnseenStep
<1>7. CASE Execution
  BY <1>0, <1>6, <1>7, ExecutionStep DEF Execution
<1> QED
  BY <1>1, <1>3, <1>4, <1>5, <1>7, ProxmoxStep DEF Next, vars

\* Where the fault is left out, nobody stalls.
LEMMA NothingStalls == ASSUME "stall" \notin FaultKind, NoStall, [Next]_vars PROVE NoStall'
<1>1. ASSUME NEW kind, Fault(kind) PROVE NoStall'
  BY <1>1 DEF Fault, NoStall
<1>2. CASE UNCHANGED faults
  BY <1>2 DEF NoStall
<1> QED
  BY <1>1, <1>2 DEF Next, vars, Request, CreateVmCheck, CreateVmAbort, CreateVmCommit,
    CreateVmStaff, QueueVmAction, DeleteAppRecord, Authority, EndTimePasses, WithdrawAccess,
    Time, LeaseExpires, BackoffElapses, Proxmox, TaskSucceeds, TaskFails, GuestChanges,
    Execution, WorkerStep, Claim, Poll, HttpError, Crash, Refuse, Begin, Probe, Submit,
    SubmitRefused, Persist, WaitEnds, ObserveCreate, ObservePower, ObserveDelete

\* Where no worker outlives its lease, the queue keeps what VmRequests promises its callers:
\* requests end once, succeed with their goal in sight, and no guest appears unasked
\* (enqueue_operation, run_once, execute_operation).
THEOREM PromiseIsKept == ASSUME "stall" \notin FaultKind PROVE Spec => KeepsPromise
<1>1. Init => Promise!Init
  BY DEF Init, Promise!Init, NoOperation
<1>2. Init => NoStall
  BY DEF Init, NoStall
<1>3. NoStall /\ [Next]_vars => NoStall'
  BY NothingStalls
<1>4. TypeInv /\ LeaseInv /\ RecordsInv /\ NoStall /\ [Next]_vars => [Promise!Next]_Promise!vars
  BY NextStep
<1> QED
  BY <1>1, <1>2, <1>3, <1>4, TypeInvariance, LeaseInvariance, RecordsInvariance, PTL
  DEF Spec, KeepsPromise, Promise!Spec
=============================================================================
