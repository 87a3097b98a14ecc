-------------------------- MODULE DeploymentProofs --------------------------
(***************************************************************************)
(* Proofs about the updater agent and the deployment runs that follow it,  *)
(* for any number of releases, operations, runs, workers, callers and faults. *)
(***************************************************************************)
EXTENDS DeploymentRuns, WellFoundedInduction, TLAPS

OperationRow == [id : {0} \cup OpId, status : {"none", "queued", "running", "succeeded", "failed"}]
CheckRow == [from : {0} \cup Version, target : {0} \cup Version, fresh : BOOLEAN]
StateFileRow == [operation : OperationRow, lastCheck : CheckRow, previous : {0} \cup Version,
                 backup : Database \cup {NoBackup}]
JobPc == {"none", "dead", "queued", "release", "start", "build", "stop", "backup", "checkout", "drop",
          "load", "up", "health", "record", "finish", "recoverStop", "recoverCheckout", "recoverDrop",
          "recoverLoad", "recoverUp", "recoverHealth"}
JobRow == [pc : JobPc, id : {0} \cup OpId, action : {"none", "apply", "rollback"},
           requested : {0} \cup Version, previous : {0} \cup Version, target : {0} \cup Version,
           backup : Database \cup {NoBackup}, ok : BOOLEAN]
FaultRow == [count : 0..MaxHostFaults, torn : BOOLEAN]
RunRow == [action : {"none", "check", "apply", "rollback"},
           status : {"none", "running", "queued", "success", "failed"}]
CallRow == [pc : {"idle", "waiting", "answered", "checked"}, run : {0} \cup OpId,
            reply : {"none", "accepted", "available", "current", "refused"}, version : {0} \cup Version]
MessageRow == [caller : Caller, run : OpId, action : {"check", "apply", "rollback"},
               target : {0} \cup Version]

HostRows ==
  /\ tip \in Version /\ checkout \in Version /\ stack \in {0} \cup Version
  /\ db \in Database /\ stateFile \in StateFileRow /\ job \in JobRow
  /\ writes \in 0..MaxWrites /\ kept \in SUBSET Write /\ hostFaults \in FaultRow
RunRows ==
  /\ runs \in [OpId -> RunRow] /\ call \in [Caller -> CallRow]
  /\ inbox \in Seq(MessageRow) /\ effective \in SUBSET OpId

\* What the worker thread has in hand at each of its steps.
AtPlan == {"build", "stop", "backup", "checkout", "drop", "load", "up", "health", "record"}
AtRecovery == {"recoverStop", "recoverCheckout", "recoverDrop", "recoverLoad", "recoverUp", "recoverHealth"}
BackedUp == {"checkout", "drop", "load", "up", "health", "record"}
JobInHand ==
  /\ job.pc \notin {"none", "dead"} => job.id \in OpId /\ job.action \in {"apply", "rollback"}
  /\ job.pc \in AtPlan \cup AtRecovery => job.previous \in Version /\ job.target \in Version
  /\ job.pc \in {"drop", "load"} => job.action = "rollback"
  /\ job.pc \in AtPlan /\ job.action = "rollback" => stateFile.backup # NoBackup
  /\ job.pc \in {"queued", "start", "build", "stop", "backup"} => job.backup = NoBackup
  /\ job.pc \in BackedUp \cup {"recoverDrop", "recoverLoad"} => job.backup # NoBackup

\* Serving as it should, and the same on the way there.
Whole == Ready /\ stack = checkout /\ kept \subseteq db.data
Restorable == job.backup.schema = job.previous /\ kept \subseteq job.backup.data
WorksOrCanGoBack ==
  /\ job.pc \in {"none", "dead", "queued", "start", "build", "stop", "finish", "release", "recoverHealth"} => Whole
  /\ job.pc \in {"build", "stop", "backup"} => checkout = job.previous
  /\ job.pc = "backup" => db.schema = checkout /\ kept \subseteq db.data
  /\ job.pc \in BackedUp => Restorable
  /\ job.pc \in BackedUp /\ job.action = "apply" => kept \subseteq db.data
  /\ job.pc \in {"up", "health", "record"} /\ job.action = "rollback" =>
       stateFile.backup.data \subseteq db.data
  /\ job.pc \in {"health", "record"} => stack = checkout
  /\ job.pc = "record" => Ready
  /\ job.pc \in {"recoverStop", "recoverCheckout"} =>
       IF job.backup = NoBackup THEN db.schema = job.previous /\ kept \subseteq db.data ELSE Restorable
  /\ job.pc \in {"recoverDrop", "recoverLoad"} => Restorable /\ checkout = job.previous
  /\ job.pc = "recoverUp" => /\ checkout = job.previous /\ db.schema = job.previous
                             /\ kept \subseteq db.data
HostInv == HostRows /\ JobInHand /\ (~hostFaults.torn => WorksOrCanGoBack) /\ RollbackPairs

\* Each request and each message is about a run of its action; what the state file calls a
\* success was one.
MessagesOfRuns ==
  \A i \in DOMAIN inbox : inbox[i].run \in Used /\ runs[inbox[i].run].action = inbox[i].action
CallsOfRuns ==
  \A c \in Caller : /\ call[c].pc \in {"waiting", "answered"} => call[c].run \in Used
                    /\ call[c].pc = "answered" /\ call[c].reply \in {"available", "current"} =>
                         runs[call[c].run].action = "check"
SuccessIsKnown == stateFile.operation.status = "succeeded" => stateFile.operation.id \in effective
RunInv == RunRows /\ MessagesOfRuns /\ CallsOfRuns /\ SuccessIsKnown /\ RunOutcomeTrue

DeploymentInv == HostInv /\ RunInv

-----------------------------------------------------------------------------
(* The plans.                                                               *)

LEMMA StepsAre ==
  /\ Steps = AtPlan \cup AtRecovery \cup {"start", "finish"}
  /\ {Recovery[i] : i \in DOMAIN Recovery} = AtRecovery \cup {"finish"}
<1>1. /\ DOMAIN Plan = {"apply", "rollback"}
      /\ Plan["apply"] = <<"start", "build", "stop", "backup", "checkout", "up", "health", "record", "finish">>
      /\ Plan["rollback"] = <<"start", "build", "stop", "backup", "checkout", "drop", "load", "up", "health",
                              "record", "finish">>
  BY DEF Plan
<1>2. {Plan["apply"][i] : i \in DOMAIN Plan["apply"]} =
        {"start", "build", "stop", "backup", "checkout", "up", "health", "record", "finish"}
  <2>1. DOMAIN Plan["apply"] = 1..9
    BY <1>1
  <2>2. 1..9 = {1, 2, 3, 4, 5, 6, 7, 8, 9}
    OBVIOUS
  <2> QED
    BY <1>1, <2>1, <2>2
<1>3. {Plan["rollback"][i] : i \in DOMAIN Plan["rollback"]} =
        {"start", "build", "stop", "backup", "checkout", "drop", "load", "up", "health", "record", "finish"}
  <2>1. DOMAIN Plan["rollback"] = 1..11
    BY <1>1
  <2>2. 1..11 = {1, 2, 3, 4, 5, 6, 7, 8, 9, 10, 11}
    OBVIOUS
  <2> QED
    BY <1>1, <2>1, <2>2
<1>4. {Recovery[i] : i \in DOMAIN Recovery} = AtRecovery \cup {"finish"}
  <2>1. DOMAIN Recovery = 1..7
    BY DEF Recovery
  <2>2. 1..7 = {1, 2, 3, 4, 5, 6, 7}
    OBVIOUS
  <2> QED
    BY <2>1, <2>2 DEF Recovery, AtRecovery
<1>5. Steps = {Plan["apply"][i] : i \in DOMAIN Plan["apply"]}
                \cup {Plan["rollback"][i] : i \in DOMAIN Plan["rollback"]}
                \cup {Recovery[i] : i \in DOMAIN Recovery}
  <2> DEFINE of(a) == {Plan[a][i] : i \in DOMAIN Plan[a]}
             recovery == {Recovery[i] : i \in DOMAIN Recovery}
             all == {of(a) : a \in DOMAIN Plan}
  <2>1. Steps = (UNION all) \cup recovery
    BY DEF Steps
  <2>2. all = {of("apply"), of("rollback")}
    BY <1>1
  <2> HIDE DEF all, of, recovery
  <2>3. UNION all = of("apply") \cup of("rollback")
    <3>1. \A S, T : UNION {S, T} = S \cup T
      BY Zenon
    <3> QED
      BY <2>2, <3>1, Zenon
  <2>4. Steps = of("apply") \cup of("rollback") \cup recovery
    BY <2>1, <2>3, Zenon
  <2> QED
    BY <2>4 DEF of, recovery
<1> QED
  BY <1>2, <1>3, <1>4, <1>5 DEF AtPlan, AtRecovery

\* The steps after each step.
LEMMA FollowingAt ==
  ASSUME NEW steps, NEW i \in DOMAIN steps, \A j \in DOMAIN steps : steps[j] = steps[i] => j = i
  PROVE  Following(steps, steps[i]) = steps[1 + i]
<1>1. (CHOOSE j \in DOMAIN steps : steps[j] = steps[i]) = i
  OBVIOUS
<1> QED
  BY <1>1 DEF Following

LEMMA ApplyFollows ==
  /\ Following(Plan["apply"], "build") = "stop" /\ Following(Plan["apply"], "stop") = "backup"
  /\ Following(Plan["apply"], "backup") = "checkout" /\ Following(Plan["apply"], "checkout") = "up"
  /\ Following(Plan["apply"], "up") = "health" /\ Following(Plan["apply"], "health") = "record"
<1> DEFINE p == Plan["apply"]
<1>1. p = <<"start", "build", "stop", "backup", "checkout", "up", "health", "record", "finish">>
  BY DEF Plan
<1> HIDE DEF p
<1>2. DOMAIN p = 1..9
  BY <1>1
<1>3. /\ p[1] = "start" /\ p[2] = "build" /\ p[3] = "stop" /\ p[4] = "backup" /\ p[5] = "checkout"
      /\ p[6] = "up" /\ p[7] = "health" /\ p[8] = "record" /\ p[9] = "finish"
  BY <1>1
<1>4. \A j \in 1..9 : j = 1 \/ j = 2 \/ j = 3 \/ j = 4 \/ j = 5 \/ j = 6 \/ j = 7 \/ j = 8 \/ j = 9
  OBVIOUS
<1>5. \A i, j \in 1..9 : p[j] = p[i] => j = i
  BY <1>3, <1>4
<1>6. \A i \in 1..9 : Following(p, p[i]) = p[1 + i]
  BY <1>2, <1>5, FollowingAt
<1> QED
  BY <1>3, <1>6 DEF p

LEMMA RollbackFollows ==
  /\ Following(Plan["rollback"], "build") = "stop" /\ Following(Plan["rollback"], "stop") = "backup"
  /\ Following(Plan["rollback"], "backup") = "checkout" /\ Following(Plan["rollback"], "checkout") = "drop"
  /\ Following(Plan["rollback"], "drop") = "load" /\ Following(Plan["rollback"], "load") = "up"
  /\ Following(Plan["rollback"], "up") = "health" /\ Following(Plan["rollback"], "health") = "record"
<1> DEFINE p == Plan["rollback"]
<1>1. p = <<"start", "build", "stop", "backup", "checkout", "drop", "load", "up", "health", "record",
            "finish">>
  BY DEF Plan
<1> HIDE DEF p
<1>2. DOMAIN p = 1..11
  BY <1>1
<1>3. /\ p[1] = "start" /\ p[2] = "build" /\ p[3] = "stop" /\ p[4] = "backup" /\ p[5] = "checkout"
      /\ p[6] = "drop" /\ p[7] = "load" /\ p[8] = "up" /\ p[9] = "health" /\ p[10] = "record"
      /\ p[11] = "finish"
  BY <1>1
<1>4. \A j \in 1..11 : \/ j = 1 \/ j = 2 \/ j = 3 \/ j = 4 \/ j = 5 \/ j = 6
                       \/ j = 7 \/ j = 8 \/ j = 9 \/ j = 10 \/ j = 11
  OBVIOUS
<1>5. \A i, j \in 1..11 : p[j] = p[i] => j = i
  BY <1>3, <1>4
<1>6. \A i \in 1..11 : Following(p, p[i]) = p[1 + i]
  BY <1>2, <1>5, FollowingAt
<1> QED
  BY <1>3, <1>6 DEF p

LEMMA RecoveryFollows ==
  /\ Following(Recovery, "recoverStop") = "recoverCheckout"
  /\ Following(Recovery, "recoverDrop") = "recoverLoad" /\ Following(Recovery, "recoverLoad") = "recoverUp"
  /\ Following(Recovery, "recoverUp") = "recoverHealth"
<1>2. DOMAIN Recovery = 1..7
  BY DEF Recovery
<1>3. /\ Recovery[1] = "recoverStop" /\ Recovery[2] = "recoverCheckout" /\ Recovery[3] = "recoverDrop"
      /\ Recovery[4] = "recoverLoad" /\ Recovery[5] = "recoverUp" /\ Recovery[6] = "recoverHealth"
      /\ Recovery[7] = "finish"
  BY DEF Recovery
<1>4. \A j \in 1..7 : j = 1 \/ j = 2 \/ j = 3 \/ j = 4 \/ j = 5 \/ j = 6 \/ j = 7
  OBVIOUS
<1>5. \A i, j \in 1..7 : Recovery[j] = Recovery[i] => j = i
  BY <1>3, <1>4
<1>6. \A i \in 1..7 : Following(Recovery, Recovery[i]) = Recovery[1 + i]
  BY <1>2, <1>5, FollowingAt
<1> QED
  BY <1>3, <1>6

-----------------------------------------------------------------------------
(* The rows of the host.                                                    *)

LEMMA RowsAreTypes == HostRows /\ RunRows => DeploymentTypeOK
<1> SUFFICES ASSUME HostRows, RunRows PROVE DeploymentTypeOK
  OBVIOUS
<1>1. {"none", "dead", "queued", "release"} \cup Steps = JobPc
  BY StepsAre DEF AtPlan, AtRecovery, JobPc
<1>2. UpdaterTypeOK
  BY <1>1 DEF HostRows, UpdaterTypeOK, StateFileRow, OperationRow, CheckRow, JobRow, FaultRow
<1> QED
  BY <1>2 DEF RunRows, DeploymentTypeOK, RunRow, CallRow, MessageRow

\* The worker thread moves on.
LEMMA GotoRow ==
  ASSUME job \in JobRow, NEW p \in JobPc, Goto(p)
  PROVE  /\ job' \in JobRow /\ job'.pc = p /\ job'.id = job.id /\ job'.action = job.action
         /\ job'.previous = job.previous /\ job'.target = job.target /\ job'.backup = job.backup
BY DEF JobRow, Goto

LEMMA EndRow ==
  ASSUME job \in JobRow, NEW ok \in BOOLEAN, End(ok)
  PROVE  job' \in JobRow /\ job'.pc = "finish" /\ job'.id = job.id /\ job'.action = job.action
BY DEF JobRow, JobPc, End

LEMMA NoJobRow == NoJob \in JobRow /\ NoJob.pc = "none" /\ NoJob.backup = NoBackup
BY DEF NoJob, JobRow, JobPc

LEMMA OperationChanges ==
  ASSUME stateFile \in StateFileRow, NEW o \in OperationRow,
         stateFile' = [stateFile EXCEPT !.operation = o]
  PROVE  /\ stateFile' \in StateFileRow /\ stateFile'.previous = stateFile.previous
         /\ stateFile'.backup = stateFile.backup /\ stateFile'.operation = o
BY DEF StateFileRow

LEMMA CheckChanges ==
  ASSUME stateFile \in StateFileRow, NEW k \in CheckRow,
         stateFile' = [stateFile EXCEPT !.lastCheck = k]
  PROVE  /\ stateFile' \in StateFileRow /\ stateFile'.previous = stateFile.previous
         /\ stateFile'.backup = stateFile.backup /\ stateFile'.operation = stateFile.operation
BY DEF StateFileRow

LEMMA BackupIsDatabase == \A b \in Database \cup {NoBackup} : b # NoBackup => b \in Database
OBVIOUS

LEMMA StackStarts ==
  ASSUME HostRows, StartStack
  PROVE  /\ stack' = checkout /\ stack' # 0 /\ db' \in Database /\ db'.data = db.data
         /\ db'.schema = IF db.schema < checkout THEN checkout ELSE db.schema
BY HostBounds DEF HostRows, StartStack, Database, Version

LEMMA FaultCounts ==
  ASSUME HostRows, MayFault, NEW torn \in BOOLEAN,
         hostFaults' = [count |-> hostFaults.count + 1, torn |-> torn]
  PROVE  hostFaults' \in FaultRow /\ (hostFaults'.torn <=> torn)
BY HostBounds DEF HostRows, MayFault, FaultRow


-----------------------------------------------------------------------------
(* The host's invariant, step by step.                                      *)

LEMMA HostInvInit == HostInit => HostInv
<1> SUFFICES ASSUME HostInit PROVE HostInv
  OBVIOUS
<1> USE HostBounds
<1>1. /\ db \in Database /\ db.schema = 1 /\ stack = 1 /\ checkout = 1 /\ kept = {} /\ tip = 1
      /\ writes = 0 /\ 1 \in Version
  BY DEF HostInit, Database, Version
<1>2. stateFile \in StateFileRow /\ stateFile.previous = 0
  BY DEF HostInit, StateFileRow, OperationRow, CheckRow, NoOperation, NeverChecked
<1>3. job \in JobRow /\ job.pc = "none"
  BY NoJobRow DEF HostInit
<1>4. hostFaults \in FaultRow
  BY DEF HostInit, FaultRow
<1>5. HostRows
  BY <1>1, <1>2, <1>3, <1>4 DEF HostRows
<1>6. JobInHand /\ RollbackPairs
  BY <1>2, <1>3 DEF JobInHand, RollbackPairs, AtPlan, AtRecovery, BackedUp
<1>7. WorksOrCanGoBack
  BY <1>1, <1>3 DEF WorksOrCanGoBack, Whole, Ready, BackedUp
<1> QED
  BY <1>5, <1>6, <1>7 DEF HostInv

LEMMA CheckKeeps == HostInv /\ Check => HostInv'
<1> SUFFICES ASSUME HostInv, Check PROVE HostInv'
  OBVIOUS
<1>0. HostRows /\ JobInHand /\ (~hostFaults.torn => WorksOrCanGoBack) /\ RollbackPairs
  BY DEF HostInv
<1> DEFINE k == [from |-> checkout, target |-> tip, fresh |-> TRUE]
<1>1. k \in CheckRow
  BY <1>0 DEF HostRows, CheckRow
<1>2. stateFile' = [stateFile EXCEPT !.lastCheck = k]
  BY DEF Check
<1> HIDE DEF k
<1>3. /\ stateFile' \in StateFileRow /\ stateFile'.previous = stateFile.previous
      /\ stateFile'.backup = stateFile.backup
  BY <1>0, <1>1, <1>2, CheckChanges DEF HostRows
<1> QED
  BY <1>0, <1>3 DEF Check, HostInv, HostRows, JobInHand, WorksOrCanGoBack, Whole, Restorable, Ready,
     RollbackPairs

LEMMA AcceptKeeps ==
  ASSUME HostInv, NEW id \in OpId, NEW action \in {"apply", "rollback"},
         NEW requested \in {0} \cup Version, Accept(id, action, requested)
  PROVE  HostInv'
<1>0. HostRows /\ JobInHand /\ (~hostFaults.torn => WorksOrCanGoBack) /\ RollbackPairs
  BY DEF HostInv
<1> DEFINE o == [id |-> id, status |-> "queued"]
<1>1. o \in OperationRow
  BY DEF OperationRow
<1>2. stateFile' = [stateFile EXCEPT !.operation = o]
  BY DEF Accept
<1> HIDE DEF o
<1>3. /\ stateFile' \in StateFileRow /\ stateFile'.previous = stateFile.previous
      /\ stateFile'.backup = stateFile.backup
  BY <1>0, <1>1, <1>2, OperationChanges DEF HostRows
<1>4. /\ job' \in JobRow /\ job'.pc = "queued" /\ job'.id = id /\ job'.action = action
      /\ job'.backup = NoBackup
  BY DEF Accept, NoJob, JobRow, JobPc
<1>5. job.pc \in {"none", "queued"}
  <2>1. job.pc \in JobPc
    BY <1>0 DEF HostRows, JobRow
  <2> QED
    BY <2>1, StepsAre DEF Accept, PostAllowed, AgentUp, LockHeld, AtPlan, AtRecovery, JobPc
<1>6. UNCHANGED <<tip, checkout, stack, db, writes, kept, hostFaults>>
  BY DEF Accept
<1>7. HostRows'
  BY <1>0, <1>3, <1>4, <1>6 DEF HostRows
<1>8. JobInHand' /\ RollbackPairs'
  BY <1>0, <1>3, <1>4, <1>6 DEF JobInHand, RollbackPairs, AtPlan, AtRecovery, BackedUp
<1>9. ~hostFaults'.torn => WorksOrCanGoBack'
  BY <1>0, <1>4, <1>5, <1>6 DEF WorksOrCanGoBack, Whole, Ready, BackedUp
<1> QED
  BY <1>7, <1>8, <1>9 DEF HostInv

LEMMA WorldKeeps == HostInv /\ World => HostInv'
<1> SUFFICES ASSUME HostInv, World PROVE HostInv'
  OBVIOUS
<1> USE HostBounds
<1>0. HostRows /\ JobInHand /\ (~hostFaults.torn => WorksOrCanGoBack) /\ RollbackPairs
  BY DEF HostInv
<1>1. CASE UserWrites
  <2>1. db \in Database /\ writes \in 0..MaxWrites
    BY <1>0 DEF HostRows
  <2>2. db' \in Database /\ db'.schema = db.schema /\ db'.data = db.data \cup {writes + 1}
    BY <1>1, <2>1 DEF UserWrites, Database, Write
  <2>3. writes' \in 0..MaxWrites /\ UNCHANGED <<tip, checkout, stack, stateFile, job, kept, hostFaults>>
    BY <1>1, <2>1 DEF UserWrites
  <2>4. HostRows' /\ JobInHand' /\ RollbackPairs'
    BY <1>0, <2>2, <2>3 DEF HostRows, JobInHand, RollbackPairs
  <2>5. ~hostFaults'.torn => WorksOrCanGoBack'
    BY <1>0, <2>2, <2>3 DEF WorksOrCanGoBack, Whole, Restorable, Ready
  <2> QED
    BY <2>4, <2>5 DEF HostInv
<1>2. CASE Push
  <2>1. tip' \in Version
    BY <1>0, <1>2 DEF HostRows, Push, Version
  <2> QED
    BY <1>0, <1>2, <2>1 DEF Push, HostInv, HostRows, JobInHand, WorksOrCanGoBack, Whole, Restorable,
       Ready, RollbackPairs
<1>3. CASE CheckAges
  <2> DEFINE k == [stateFile.lastCheck EXCEPT !.fresh = FALSE]
  <2>0. stateFile \in StateFileRow /\ stateFile.lastCheck \in CheckRow
    BY <1>0 DEF HostRows, StateFileRow
  <2>1. k \in CheckRow
    BY <2>0 DEF CheckRow
  <2>2. stateFile' = [stateFile EXCEPT !.lastCheck = k]
    BY <1>3, <2>0 DEF CheckAges, StateFileRow
  <2> HIDE DEF k
  <2>3. /\ stateFile' \in StateFileRow /\ stateFile'.previous = stateFile.previous
        /\ stateFile'.backup = stateFile.backup
    BY <2>0, <2>1, <2>2, CheckChanges
  <2> QED
    BY <1>0, <1>3, <2>3 DEF CheckAges, HostInv, HostRows, JobInHand, WorksOrCanGoBack, Whole,
       Restorable, Ready, RollbackPairs
<1> QED
  BY <1>1, <1>2, <1>3 DEF World

LEMMA RestartKeeps == HostInv /\ AgentRestarts => HostInv'
<1> SUFFICES ASSUME HostInv, AgentRestarts PROVE HostInv'
  OBVIOUS
<1>0. HostRows /\ JobInHand /\ (~hostFaults.torn => WorksOrCanGoBack) /\ RollbackPairs
  BY DEF HostInv
<1>1. /\ stateFile' \in StateFileRow /\ stateFile'.previous = stateFile.previous
      /\ stateFile'.backup = stateFile.backup
  <2>0. stateFile \in StateFileRow /\ stateFile.operation \in OperationRow
    BY <1>0 DEF HostRows, StateFileRow
  <2>1. CASE Busy
    <3> DEFINE o == [stateFile.operation EXCEPT !.status = "failed"]
    <3>1. o \in OperationRow
      BY <2>0 DEF OperationRow
    <3>2. stateFile' = [stateFile EXCEPT !.operation = o]
      BY <2>0, <2>1 DEF AgentRestarts, StateFileRow
    <3> HIDE DEF o
    <3> QED
      BY <2>0, <3>1, <3>2, OperationChanges
  <2>2. CASE ~Busy
    BY <2>0, <2>2 DEF AgentRestarts
  <2> QED
    BY <2>1, <2>2
<1>2. job' \in JobRow /\ job'.pc = "none" /\ job.pc = "dead"
  BY NoJobRow DEF AgentRestarts
<1>3. UNCHANGED <<tip, checkout, stack, db, writes, kept, hostFaults>>
  BY DEF AgentRestarts
<1>4. HostRows'
  BY <1>0, <1>1, <1>2, <1>3 DEF HostRows
<1>5. JobInHand' /\ RollbackPairs'
  BY <1>0, <1>1, <1>2, <1>3 DEF JobInHand, RollbackPairs, AtPlan, AtRecovery, BackedUp
<1>6. ~hostFaults'.torn => WorksOrCanGoBack'
  BY <1>0, <1>2, <1>3 DEF WorksOrCanGoBack, Whole, Ready, BackedUp
<1> QED
  BY <1>4, <1>5, <1>6 DEF HostInv


\* Where each step of a plan, and of the recovery, leads.
LEMMA ProceedRow ==
  ASSUME HostInv, Proceed, job.pc \in AtPlan \ {"record"}
  PROVE  /\ job' \in JobRow /\ job'.id = job.id /\ job'.action = job.action
         /\ job'.previous = job.previous /\ job'.target = job.target /\ job'.backup = job.backup
         /\ job.pc = "build" => job'.pc = "stop"
         /\ job.pc = "stop" => job'.pc = "backup"
         /\ job.pc = "backup" => job'.pc = "checkout"
         /\ job.pc = "checkout" => job'.pc = IF job.action = "apply" THEN "up" ELSE "drop"
         /\ job.pc = "drop" => job'.pc = "load"
         /\ job.pc = "load" => job'.pc = "up"
         /\ job.pc = "up" => job'.pc = "health"
         /\ job.pc = "health" => job'.pc = "record"
<1> DEFINE p == Following(Plan[job.action], job.pc)
<1>0. /\ job \in JobRow /\ job.action \in {"apply", "rollback"}
      /\ job.pc \in {"drop", "load"} => job.action = "rollback"
  BY DEF HostInv, HostRows, JobInHand, AtPlan
<1>1. /\ p \in JobPc
      /\ job.pc = "build" => p = "stop"
      /\ job.pc = "stop" => p = "backup"
      /\ job.pc = "backup" => p = "checkout"
      /\ job.pc = "checkout" => p = IF job.action = "apply" THEN "up" ELSE "drop"
      /\ job.pc = "drop" => p = "load"
      /\ job.pc = "load" => p = "up"
      /\ job.pc = "up" => p = "health"
      /\ job.pc = "health" => p = "record"
  BY <1>0, ApplyFollows, RollbackFollows DEF AtPlan, JobPc
<1>2. Goto(p)
  BY DEF Proceed
<1> HIDE DEF p
<1> QED
  BY <1>0, <1>1, <1>2, GotoRow

LEMMA ProceedRecoveryRow ==
  ASSUME HostInv, ProceedRecovery, job.pc \in {"recoverStop", "recoverDrop", "recoverLoad", "recoverUp"}
  PROVE  /\ job' \in JobRow /\ job'.id = job.id /\ job'.action = job.action
         /\ job'.previous = job.previous /\ job'.target = job.target /\ job'.backup = job.backup
         /\ job.pc = "recoverStop" => job'.pc = "recoverCheckout"
         /\ job.pc = "recoverDrop" => job'.pc = "recoverLoad"
         /\ job.pc = "recoverLoad" => job'.pc = "recoverUp"
         /\ job.pc = "recoverUp" => job'.pc = "recoverHealth"
<1> DEFINE p == Following(Recovery, job.pc)
<1>1. /\ p \in JobPc
      /\ job.pc = "recoverStop" => p = "recoverCheckout"
      /\ job.pc = "recoverDrop" => p = "recoverLoad"
      /\ job.pc = "recoverLoad" => p = "recoverUp"
      /\ job.pc = "recoverUp" => p = "recoverHealth"
  BY RecoveryFollows DEF JobPc
<1>2. Goto(p) /\ job \in JobRow
  BY DEF ProceedRecovery, HostInv, HostRows
<1> HIDE DEF p
<1> QED
  BY <1>1, <1>2, GotoRow

\* A command of the plan fails: from here the recovery can take the host back.
LEMMA GuardedFailureKeeps ==
  ASSUME HostInv, job.pc \in AtPlan, ~(job.action = "rollback" /\ job.pc = "record"),
         Goto("recoverStop"), UNCHANGED <<tip, checkout, stateFile, writes>>,
         stack' \in {stack, 0, checkout},
         db' = db \/ (job.pc \in {"drop", "load"} /\ db' = EmptyDatabase),
         kept' = IF job.pc = "stop" THEN db.data ELSE kept,
         hostFaults' \in FaultRow, hostFaults'.torn <=> hostFaults.torn
  PROVE  HostInv'
<1>0. HostRows /\ JobInHand /\ (~hostFaults.torn => WorksOrCanGoBack) /\ RollbackPairs
  BY DEF HostInv
<1>1. "recoverStop" \in JobPc
  BY DEF JobPc
<1>2. /\ job' \in JobRow /\ job'.pc = "recoverStop" /\ job'.id = job.id /\ job'.action = job.action
      /\ job'.previous = job.previous /\ job'.target = job.target /\ job'.backup = job.backup
  BY <1>0, <1>1, GotoRow DEF HostRows
<1>3. db' \in Database /\ db.data \in SUBSET Write
  <2>1. EmptyDatabase \in Database
    BY HostBounds DEF EmptyDatabase, Database
  <2>2. db \in Database
    BY <1>0 DEF HostRows
  <2>3. db.data \in SUBSET Write
    BY <2>2 DEF Database
  <2> QED
    BY <2>1, <2>2, <2>3
<1>4. stack' \in {0} \cup Version
  BY <1>0 DEF HostRows
<1>5. HostRows'
  BY <1>0, <1>2, <1>3, <1>4 DEF HostRows
<1>6. JobInHand' /\ RollbackPairs'
  BY <1>0, <1>2 DEF JobInHand, RollbackPairs, AtPlan, AtRecovery, BackedUp
<1>7. ~hostFaults'.torn => WorksOrCanGoBack'
  BY <1>0, <1>2 DEF WorksOrCanGoBack, Whole, Restorable, Ready, BackedUp, AtPlan, JobInHand
<1> QED
  BY <1>5, <1>6, <1>7 DEF HostInv

\* A command that nothing undoes fails: the operation ends with the host left half changed.
LEMMA TornFailureKeeps ==
  ASSUME HostInv, LockHeld, End(FALSE), UNCHANGED <<tip, checkout, stateFile, writes>>,
         stack' \in {stack, 0, checkout}, db' = db \/ db' = EmptyDatabase,
         kept' \in {kept, db.data}, hostFaults' \in FaultRow, hostFaults'.torn
  PROVE  HostInv'
<1>0. HostRows /\ JobInHand /\ (~hostFaults.torn => WorksOrCanGoBack) /\ RollbackPairs
  BY DEF HostInv
<1>1. job.pc \notin {"none", "dead"}
  BY StepsAre DEF LockHeld, AtPlan, AtRecovery
<1>2. job' \in JobRow /\ job'.pc = "finish" /\ job'.id = job.id /\ job'.action = job.action
  BY <1>0, EndRow DEF HostRows
<1>3. db' \in Database /\ db.data \in SUBSET Write
  <2>1. EmptyDatabase \in Database
    BY HostBounds DEF EmptyDatabase, Database
  <2>2. db \in Database
    BY <1>0 DEF HostRows
  <2>3. db.data \in SUBSET Write
    BY <2>2 DEF Database
  <2> QED
    BY <2>1, <2>2, <2>3
<1>4. stack' \in {0} \cup Version /\ kept' \in SUBSET Write
  BY <1>0, <1>3 DEF HostRows
<1>5. HostRows'
  BY <1>0, <1>2, <1>3, <1>4 DEF HostRows
<1>6. JobInHand' /\ RollbackPairs'
  BY <1>0, <1>1, <1>2 DEF JobInHand, RollbackPairs, AtPlan, AtRecovery, BackedUp
<1> QED
  BY <1>5, <1>6 DEF HostInv

LEMMA GuardedAt == Guarded <=> job.pc \in AtPlan /\ ~(job.action = "rollback" /\ job.pc = "record")
BY StepsAre DEF Guarded, Recovering, AtPlan, AtRecovery

LEMMA HealthGateKeeps == HostInv /\ HealthGateFails => HostInv'
<1> SUFFICES ASSUME HostInv, HealthGateFails PROVE HostInv'
  OBVIOUS
<1>0. hostFaults \in FaultRow
  BY DEF HostInv, HostRows
<1>1. /\ hostFaults' \in FaultRow
      /\ Guarded => (hostFaults'.torn <=> hostFaults.torn)
      /\ ~Guarded => hostFaults'.torn
  <2>1. hostFaults' = [hostFaults EXCEPT !.torn = hostFaults.torn \/ ~Guarded]
    BY <1>0 DEF HealthGateFails, FaultRow
  <2>2. (hostFaults.torn \/ ~Guarded) \in BOOLEAN
    OBVIOUS
  <2>3. PICK t \in BOOLEAN : t = (hostFaults.torn \/ ~Guarded)
    BY <2>2
  <2>4. hostFaults' = [hostFaults EXCEPT !.torn = t]
    BY <2>1, <2>3
  <2>5. hostFaults' \in FaultRow /\ hostFaults'.torn = t
    BY <1>0, <2>4 DEF FaultRow
  <2> QED
    BY <2>3, <2>5
<1>2. job.pc \in {"health", "recoverHealth"} /\ UNCHANGED <<tip, checkout, stack, db, stateFile, writes, kept>>
  BY DEF HealthGateFails
<1>3. CASE Guarded
  BY <1>1, <1>2, <1>3, GuardedAt, GuardedFailureKeeps DEF HealthGateFails
<1>4. CASE ~Guarded
  <2>1. LockHeld
    BY <1>2, StepsAre DEF LockHeld, AtPlan, AtRecovery
  <2> QED
    BY <1>1, <1>2, <1>4, <2>1, TornFailureKeeps DEF HealthGateFails
<1> QED
  BY <1>3, <1>4

LEMMA CommandFailsKeeps == HostInv /\ CommandFails => HostInv'
<1> SUFFICES ASSUME HostInv, CommandFails PROVE HostInv'
  OBVIOUS
<1>1. /\ hostFaults' \in FaultRow
      /\ Guarded => (hostFaults'.torn <=> hostFaults.torn)
      /\ ~Guarded => hostFaults'.torn
  <2>1. PICK t \in BOOLEAN : t = (hostFaults.torn \/ ~Guarded)
    OBVIOUS
  <2>2. hostFaults' = [count |-> hostFaults.count + 1, torn |-> t] /\ MayFault /\ HostRows
    BY <2>1 DEF CommandFails, Failed, HostInv
  <2>3. hostFaults' \in FaultRow /\ (hostFaults'.torn <=> t)
    BY <2>2, FaultCounts
  <2> QED
    BY <2>1, <2>3
<1>2. /\ UNCHANGED <<tip, checkout, stateFile, writes>> /\ LockHeld /\ PartialEffect
      /\ kept' = IF job.pc = "stop" THEN db.data ELSE kept
      /\ IF Guarded THEN Goto("recoverStop") ELSE End(FALSE)
  BY DEF CommandFails, Failed
<1>3. stack' \in {stack, 0, checkout}
  BY <1>2 DEF PartialEffect
<1>4. db' = db \/ (job.pc \in {"drop", "load", "recoverDrop", "recoverLoad"} /\ db' = EmptyDatabase)
  BY <1>2 DEF PartialEffect
<1>5. CASE Guarded
  <2>1. job.pc \in AtPlan /\ ~(job.action = "rollback" /\ job.pc = "record")
    BY <1>5, GuardedAt
  <2>2. db' = db \/ (job.pc \in {"drop", "load"} /\ db' = EmptyDatabase)
    BY <1>4, <2>1 DEF AtPlan
  <2> QED
    BY <1>1, <1>2, <1>3, <1>5, <2>1, <2>2, GuardedFailureKeeps
<1>6. CASE ~Guarded
  <2>1. kept' \in {kept, db.data} /\ (db' = db \/ db' = EmptyDatabase)
    BY <1>2, <1>4
  <2> QED
    BY <1>1, <1>2, <1>3, <1>6, <2>1, TornFailureKeeps
<1> QED
  BY <1>5, <1>6

LEMMA HostFaultKeeps == HostInv /\ HostFault => HostInv'
<1> SUFFICES ASSUME HostInv, HostFault PROVE HostInv'
  OBVIOUS
<1>0. HostRows /\ JobInHand /\ (~hostFaults.torn => WorksOrCanGoBack) /\ RollbackPairs
  BY DEF HostInv
<1>1. CASE MigrationFails
  <2>1. /\ job.pc \in {"up", "recoverUp"} /\ db.schema < checkout /\ stack' = checkout
        /\ IF job.pc = "up" THEN Proceed ELSE ProceedRecovery
        /\ UNCHANGED <<tip, checkout, db, stateFile, writes, kept>>
    BY <1>1 DEF MigrationFails
  <2>2. hostFaults' \in FaultRow /\ hostFaults'.torn = hostFaults.torn
    BY <1>0, <1>1, HostBounds DEF MigrationFails, HostRows, MayFault, FaultRow
  <2>3. /\ job' \in JobRow /\ job'.id = job.id /\ job'.action = job.action
        /\ job'.previous = job.previous /\ job'.target = job.target /\ job'.backup = job.backup
        /\ job.pc = "up" => job'.pc = "health"
        /\ job.pc = "recoverUp" => job'.pc = "recoverHealth"
    <3>1. CASE job.pc = "up"
      BY <2>1, <3>1, ProceedRow DEF AtPlan
    <3>2. CASE job.pc = "recoverUp"
      BY <2>1, <3>2, ProceedRecoveryRow
    <3> QED
      BY <2>1, <3>1, <3>2
  <2>4. HostRows' /\ JobInHand' /\ RollbackPairs'
    BY <1>0, <2>1, <2>2, <2>3 DEF HostRows, JobInHand, RollbackPairs, AtPlan, AtRecovery, BackedUp
  <2>5. db.schema \in Nat /\ checkout \in Nat
    BY <1>0 DEF HostRows, Database, Version
  <2>6. ~hostFaults'.torn => WorksOrCanGoBack'
    BY <1>0, <2>1, <2>2, <2>3, <2>5 DEF WorksOrCanGoBack, Whole, Restorable, Ready, BackedUp
  <2> QED
    BY <2>4, <2>6 DEF HostInv
<1>2. CASE AgentCrashes
  <2>1. PICK t \in BOOLEAN : t = (hostFaults.torn \/ job.pc \in Steps \ {"start", "build", "finish"})
    OBVIOUS
  <2>2. hostFaults' = [count |-> hostFaults.count + 1, torn |-> t] /\ MayFault
    BY <1>2, <2>1 DEF AgentCrashes
  <2>3. hostFaults' \in FaultRow /\ (hostFaults'.torn <=> t)
    BY <1>0, <2>2, FaultCounts
  <2>4. ~hostFaults'.torn => ~hostFaults.torn /\ job.pc \in {"none", "queued", "start", "build", "finish", "release"}
    <3>1. job.pc \in JobPc
      BY <1>0 DEF HostRows, JobRow
    <3> QED
      BY <1>2, <2>1, <2>3, <3>1, StepsAre DEF AtPlan, AtRecovery, JobPc, AgentCrashes, AgentUp
  <2>5. job' \in JobRow /\ job'.pc = "dead"
    BY <1>2 DEF AgentCrashes, NoJob, JobRow, JobPc
  <2>6. UNCHANGED <<tip, checkout, stack, db, stateFile, writes, kept>>
    BY <1>2 DEF AgentCrashes
  <2>7. HostRows' /\ JobInHand'
    BY <1>0, <2>3, <2>5, <2>6 DEF HostRows, JobInHand, AtPlan, AtRecovery, BackedUp
  <2>8. RollbackPairs'
    BY <1>0, <2>4, <2>6 DEF RollbackPairs
  <2>9. ~hostFaults'.torn => WorksOrCanGoBack'
    BY <1>0, <2>4, <2>5, <2>6 DEF WorksOrCanGoBack, Whole, Restorable, Ready, BackedUp
  <2> QED
    BY <2>7, <2>8, <2>9 DEF HostInv
<1> QED
  BY <1>1, <1>2 DEF HostFault

LEMMA ThreadKeeps == HostInv /\ (ThreadStep \/ Stop \/ RecoverStop) => HostInv'
<1> SUFFICES ASSUME HostInv, ThreadStep \/ Stop \/ RecoverStop PROVE HostInv'
  OBVIOUS
<1> USE HostBounds
<1>0. HostRows /\ JobInHand /\ (~hostFaults.torn => WorksOrCanGoBack) /\ RollbackPairs
  BY DEF HostInv
<1>r. /\ tip \in Version /\ checkout \in Version /\ stack \in {0} \cup Version /\ db \in Database
      /\ stateFile \in StateFileRow /\ job \in JobRow /\ kept \in SUBSET Write
      /\ stateFile.backup \in Database \cup {NoBackup} /\ job.backup \in Database \cup {NoBackup}
      /\ job.id \in {0} \cup OpId /\ job.requested \in {0} \cup Version
      /\ stateFile.previous \in {0} \cup Version
  <2>1. job \in JobRow /\ stateFile \in StateFileRow
    BY <1>0 DEF HostRows
  <2> QED
    BY <1>0, <2>1 DEF HostRows, JobRow, StateFileRow
<1>d. db.data \in SUBSET Write /\ db.schema \in 0..MaxVersion
  BY <1>r DEF Database
\* The worker thread writes the operation of the state file and moves on.
<1>o. ASSUME NEW o \in OperationRow, stateFile' = [stateFile EXCEPT !.operation = o]
      PROVE  /\ stateFile' \in StateFileRow /\ stateFile'.previous = stateFile.previous
             /\ stateFile'.backup = stateFile.backup
  BY <1>o, <1>r, OperationChanges
<1>1. CASE Acquire
  <2>1. "start" \in JobPc
    BY DEF JobPc
  <2>2. /\ job' \in JobRow /\ job'.pc = "start" /\ job'.id = job.id /\ job'.action = job.action
        /\ job'.backup = job.backup /\ job.pc = "queued"
    BY <1>1, <1>r, <2>1, GotoRow DEF Acquire
  <2> DEFINE o == [id |-> job.id, status |-> "running"]
  <2>3. o \in OperationRow
    BY <1>r DEF OperationRow
  <2>4. stateFile' = [stateFile EXCEPT !.operation = o]
    BY <1>1 DEF Acquire
  <2> HIDE DEF o
  <2>5. /\ stateFile' \in StateFileRow /\ stateFile'.previous = stateFile.previous
        /\ stateFile'.backup = stateFile.backup
    BY <1>o, <2>3, <2>4
  <2>6. UNCHANGED <<tip, checkout, stack, db, writes, kept, hostFaults>>
    BY <1>1 DEF Acquire
  <2>7. HostRows' /\ JobInHand' /\ RollbackPairs'
    BY <1>0, <2>2, <2>5, <2>6 DEF HostRows, JobInHand, RollbackPairs, AtPlan, AtRecovery, BackedUp
  <2>8. ~hostFaults'.torn => WorksOrCanGoBack'
    BY <1>0, <2>2, <2>5, <2>6 DEF WorksOrCanGoBack, Whole, Restorable, Ready, BackedUp
  <2> QED
    BY <2>7, <2>8 DEF HostInv
\* An operation ends without having touched the host.
<1>e. ASSUME NEW ok \in BOOLEAN, End(ok), job.pc \in {"start", "recoverHealth"},
             UNCHANGED <<tip, checkout, stack, db, stateFile, writes, kept, hostFaults>>
      PROVE  HostInv'
  <2>1. job' \in JobRow /\ job'.pc = "finish" /\ job'.id = job.id /\ job'.action = job.action
    BY <1>e, <1>r, EndRow
  <2>2. HostRows' /\ JobInHand' /\ RollbackPairs'
    BY <1>0, <1>e, <2>1 DEF HostRows, JobInHand, RollbackPairs, AtPlan, AtRecovery, BackedUp
  <2>3. ~hostFaults'.torn => WorksOrCanGoBack'
    BY <1>0, <1>e, <2>1 DEF WorksOrCanGoBack, Whole, Restorable, Ready, BackedUp
  <2> QED
    BY <2>2, <2>3 DEF HostInv
<1>b. ASSUME NEW target \in Version, job.pc = "start",
             job' = [job EXCEPT !.pc = "build", !.previous = checkout, !.target = target],
             job.action = "rollback" => stateFile.backup # NoBackup,
             UNCHANGED <<tip, checkout, stack, db, stateFile, writes, kept, hostFaults>>
      PROVE  HostInv'
  <2>1. /\ job' \in JobRow /\ job'.pc = "build" /\ job'.id = job.id /\ job'.action = job.action
        /\ job'.previous = checkout /\ job'.target = target /\ job'.backup = job.backup
    BY <1>b, <1>r DEF JobRow, JobPc
  <2>2. HostRows' /\ JobInHand' /\ RollbackPairs'
    BY <1>0, <1>b, <1>r, <2>1 DEF HostRows, JobInHand, RollbackPairs, AtPlan, AtRecovery, BackedUp
  <2>3. ~hostFaults'.torn => WorksOrCanGoBack'
    BY <1>0, <1>b, <2>1 DEF WorksOrCanGoBack, Whole, Restorable, Ready, BackedUp
  <2> QED
    BY <2>2, <2>3 DEF HostInv
<1>2. CASE StartApply
  <2>1. CASE End(FALSE) \/ End(TRUE)
    BY <1>2, <1>e, <2>1 DEF StartApply
  <2>2. CASE /\ ChecksOut /\ checkout < job.requested
             /\ job' = [job EXCEPT !.pc = "build", !.previous = checkout, !.target = job.requested]
    <3>1. job.requested \in Version
      BY <1>r, <2>2 DEF Version
    <3> QED
      BY <1>2, <1>b, <2>2, <3>1 DEF StartApply
  <2> QED
    BY <1>2, <2>1, <2>2 DEF StartApply
<1>3. CASE StartRollback
  <2>1. CASE End(FALSE)
    BY <1>3, <1>e, <2>1 DEF StartRollback
  <2>2. CASE /\ stateFile.previous # 0 /\ stateFile.backup # NoBackup
             /\ job' = [job EXCEPT !.pc = "build", !.previous = checkout, !.target = stateFile.previous]
    <3>1. stateFile.previous \in Version
      BY <1>r, <2>2
    <3> QED
      BY <1>3, <1>b, <2>2, <3>1 DEF StartRollback
  <2> QED
    BY <1>3, <2>1, <2>2 DEF StartRollback
<1>4. CASE Build
  <2>1. job.pc = "build" /\ Proceed /\ UNCHANGED <<tip, checkout, stack, db, stateFile, writes, kept, hostFaults>>
    BY <1>4 DEF Build
  <2>2. /\ job' \in JobRow /\ job'.pc = "stop" /\ job'.id = job.id /\ job'.action = job.action
        /\ job'.previous = job.previous /\ job'.target = job.target /\ job'.backup = job.backup
    BY <2>1, ProceedRow DEF AtPlan
  <2>3. HostRows' /\ JobInHand' /\ RollbackPairs'
    BY <1>0, <2>1, <2>2 DEF HostRows, JobInHand, RollbackPairs, AtPlan, AtRecovery, BackedUp
  <2>4. ~hostFaults'.torn => WorksOrCanGoBack'
    BY <1>0, <2>1, <2>2 DEF WorksOrCanGoBack, Whole, Restorable, Ready, BackedUp
  <2> QED
    BY <2>3, <2>4 DEF HostInv
<1>5. CASE Stop
  <2>1. /\ job.pc = "stop" /\ Proceed /\ stack' = 0 /\ kept' = db.data
        /\ UNCHANGED <<tip, checkout, db, stateFile, writes, hostFaults>>
    BY <1>5 DEF Stop
  <2>2. /\ job' \in JobRow /\ job'.pc = "backup" /\ job'.id = job.id /\ job'.action = job.action
        /\ job'.previous = job.previous /\ job'.target = job.target /\ job'.backup = job.backup
    BY <2>1, ProceedRow DEF AtPlan
  <2>3. HostRows' /\ JobInHand' /\ RollbackPairs'
    BY <1>0, <1>d, <2>1, <2>2 DEF HostRows, JobInHand, RollbackPairs, AtPlan, AtRecovery, BackedUp
  <2>4. ~hostFaults'.torn => WorksOrCanGoBack'
    BY <1>0, <2>1, <2>2 DEF WorksOrCanGoBack, Whole, Restorable, Ready, BackedUp
  <2> QED
    BY <2>3, <2>4 DEF HostInv
<1>6. CASE Backup
  <2> DEFINE p == Following(Plan[job.action], "backup")
  <2>1. /\ job.pc = "backup" /\ job' = [job EXCEPT !.pc = p, !.backup = db]
        /\ UNCHANGED <<tip, checkout, stack, db, stateFile, writes, kept, hostFaults>>
    BY <1>6 DEF Backup
  <2>2. p = "checkout"
    BY <1>0, <2>1, ApplyFollows, RollbackFollows DEF JobInHand
  <2> HIDE DEF p
  <2>3. /\ job' \in JobRow /\ job'.pc = "checkout" /\ job'.id = job.id /\ job'.action = job.action
        /\ job'.previous = job.previous /\ job'.target = job.target /\ job'.backup = db
    BY <1>r, <2>1, <2>2 DEF JobRow, JobPc
  <2>4. db # NoBackup
    BY <1>d DEF NoBackup
  <2>5. HostRows' /\ JobInHand' /\ RollbackPairs'
    BY <1>0, <2>1, <2>3, <2>4 DEF HostRows, JobInHand, RollbackPairs, AtPlan, AtRecovery, BackedUp
  <2>6. ~hostFaults'.torn => WorksOrCanGoBack'
    BY <1>0, <2>1, <2>3 DEF WorksOrCanGoBack, Whole, Restorable, Ready, BackedUp
  <2> QED
    BY <2>5, <2>6 DEF HostInv
<1>7. CASE Checkout
  <2>1. /\ job.pc = "checkout" /\ Proceed /\ checkout' = job.target
        /\ UNCHANGED <<tip, stack, db, stateFile, writes, kept, hostFaults>>
    BY <1>7 DEF Checkout
  <2>2. /\ job' \in JobRow /\ job'.id = job.id /\ job'.action = job.action
        /\ job'.pc = IF job.action = "apply" THEN "up" ELSE "drop"
        /\ job'.previous = job.previous /\ job'.target = job.target /\ job'.backup = job.backup
    BY <2>1, ProceedRow DEF AtPlan
  <2>3. job.action \in {"apply", "rollback"}
    BY <1>0, <2>1 DEF JobInHand
  <2>4. HostRows' /\ JobInHand' /\ RollbackPairs'
    BY <1>0, <2>1, <2>2, <2>3 DEF HostRows, JobInHand, RollbackPairs, AtPlan, AtRecovery, BackedUp
  <2>5. ~hostFaults'.torn => WorksOrCanGoBack'
    BY <1>0, <2>1, <2>2, <2>3 DEF WorksOrCanGoBack, Whole, Restorable, Ready, BackedUp
  <2> QED
    BY <2>4, <2>5 DEF HostInv
<1>8. CASE Drop
  <2>1. /\ job.pc = "drop" /\ Proceed /\ db' = EmptyDatabase
        /\ UNCHANGED <<tip, checkout, stack, stateFile, writes, kept, hostFaults>>
    BY <1>8 DEF Drop
  <2>2. /\ job' \in JobRow /\ job'.pc = "load" /\ job'.id = job.id /\ job'.action = job.action
        /\ job'.previous = job.previous /\ job'.target = job.target /\ job'.backup = job.backup
    BY <2>1, ProceedRow DEF AtPlan
  <2>3. db' \in Database
    BY <2>1 DEF EmptyDatabase, Database
  <2>4. HostRows' /\ JobInHand' /\ RollbackPairs'
    BY <1>0, <2>1, <2>2, <2>3 DEF HostRows, JobInHand, RollbackPairs, AtPlan, AtRecovery, BackedUp
  <2>5. ~hostFaults'.torn => WorksOrCanGoBack'
    BY <1>0, <2>1, <2>2 DEF WorksOrCanGoBack, Whole, Restorable, Ready, BackedUp, JobInHand
  <2> QED
    BY <2>4, <2>5 DEF HostInv
<1>9. CASE Load
  <2>1. /\ job.pc = "load" /\ Proceed /\ db' = stateFile.backup
        /\ UNCHANGED <<tip, checkout, stack, stateFile, writes, kept, hostFaults>>
    BY <1>9 DEF Load
  <2>2. /\ job' \in JobRow /\ job'.pc = "up" /\ job'.id = job.id /\ job'.action = job.action
        /\ job'.previous = job.previous /\ job'.target = job.target /\ job'.backup = job.backup
    BY <2>1, ProceedRow DEF AtPlan
  <2>3. job.action = "rollback" /\ db' \in Database
    BY <1>0, <1>r, <2>1 DEF JobInHand, AtPlan
  <2>4. HostRows' /\ JobInHand' /\ RollbackPairs'
    BY <1>0, <2>1, <2>2, <2>3 DEF HostRows, JobInHand, RollbackPairs, AtPlan, AtRecovery, BackedUp
  <2>5. ~hostFaults'.torn => WorksOrCanGoBack'
    BY <1>0, <2>1, <2>2, <2>3 DEF WorksOrCanGoBack, Whole, Restorable, Ready, BackedUp
  <2> QED
    BY <2>4, <2>5 DEF HostInv
<1>10. CASE Up
  <2>1. /\ job.pc = "up" /\ Proceed /\ StartStack
        /\ UNCHANGED <<tip, checkout, stateFile, writes, kept, hostFaults>>
    BY <1>10 DEF Up
  <2>2. /\ job' \in JobRow /\ job'.pc = "health" /\ job'.id = job.id /\ job'.action = job.action
        /\ job'.previous = job.previous /\ job'.target = job.target /\ job'.backup = job.backup
    BY <2>1, ProceedRow DEF AtPlan
  <2>3. stack' = checkout /\ db' \in Database /\ db'.data = db.data
    BY <1>0, <2>1, StackStarts
  <2>4. HostRows' /\ JobInHand' /\ RollbackPairs'
    BY <1>0, <1>r, <2>1, <2>2, <2>3 DEF HostRows, JobInHand, RollbackPairs, AtPlan, AtRecovery, BackedUp
  <2>5. ~hostFaults'.torn => WorksOrCanGoBack'
    BY <1>0, <2>1, <2>2, <2>3 DEF WorksOrCanGoBack, Whole, Restorable, Ready, BackedUp
  <2> QED
    BY <2>4, <2>5 DEF HostInv
<1>11. CASE Health
  <2>1. /\ job.pc = "health" /\ Ready /\ Proceed
        /\ UNCHANGED <<tip, checkout, stack, db, stateFile, writes, kept, hostFaults>>
    BY <1>11 DEF Health
  <2>2. /\ job' \in JobRow /\ job'.pc = "record" /\ job'.id = job.id /\ job'.action = job.action
        /\ job'.previous = job.previous /\ job'.target = job.target /\ job'.backup = job.backup
    BY <2>1, ProceedRow DEF AtPlan
  <2>4. HostRows' /\ JobInHand' /\ RollbackPairs'
    BY <1>0, <2>1, <2>2 DEF HostRows, JobInHand, RollbackPairs, AtPlan, AtRecovery, BackedUp
  <2>5. ~hostFaults'.torn => WorksOrCanGoBack'
    BY <1>0, <2>1, <2>2 DEF WorksOrCanGoBack, Whole, Restorable, Ready, BackedUp
  <2> QED
    BY <2>4, <2>5 DEF HostInv
<1>12. CASE Record
  <2>1. /\ job.pc = "record" /\ job' = [job EXCEPT !.pc = "finish", !.ok = TRUE]
        /\ stateFile' = [operation |-> NoOperation, lastCheck |-> NeverChecked,
                         previous |-> job.previous, backup |-> job.backup]
        /\ kept' = IF job.action = "rollback" THEN stateFile.backup.data ELSE kept
        /\ UNCHANGED <<tip, checkout, stack, db, writes, hostFaults>>
    BY <1>12 DEF Record
  <2>2. job' \in JobRow /\ job'.pc = "finish" /\ job'.id = job.id /\ job'.action = job.action
    BY <1>r, <2>1, EndRow DEF End
  <2>3. job.previous \in Version /\ job.action \in {"apply", "rollback"}
        /\ (job.action = "rollback" => stateFile.backup # NoBackup)
    BY <1>0, <2>1 DEF JobInHand, AtPlan
  <2>4. /\ stateFile' \in StateFileRow /\ stateFile'.previous = job.previous
        /\ stateFile'.backup = job.backup
    BY <1>r, <2>1, <2>3 DEF StateFileRow, OperationRow, CheckRow, NoOperation, NeverChecked
  <2>5. kept' \in SUBSET Write
    <3>1. job.action = "rollback" => stateFile.backup \in Database
      BY <1>r, <2>3
    <3> QED
      BY <1>r, <2>1, <3>1 DEF Database
  <2>6. HostRows' /\ JobInHand'
    BY <1>0, <2>1, <2>2, <2>3, <2>4, <2>5 DEF HostRows, JobInHand, AtPlan, AtRecovery, BackedUp
  <2>7. RollbackPairs'
    BY <1>0, <2>1, <2>4 DEF RollbackPairs, WorksOrCanGoBack, Restorable, BackedUp
  <2>8. ~hostFaults'.torn => WorksOrCanGoBack'
    BY <1>0, <2>1, <2>2, <2>3 DEF WorksOrCanGoBack, Whole, Restorable, Ready, BackedUp
  <2> QED
    BY <2>6, <2>7, <2>8 DEF HostInv
<1>13. CASE Finish
  <2> DEFINE o == [id |-> job.id, status |-> IF job.ok THEN "succeeded" ELSE "failed"]
  <2>1. /\ job.pc = "finish" /\ stateFile' = [stateFile EXCEPT !.operation = o] /\ Goto("release")
        /\ UNCHANGED <<tip, checkout, stack, db, writes, kept, hostFaults>>
    BY <1>13 DEF Finish
  <2>2. o \in OperationRow
    BY <1>r DEF OperationRow
  <2> HIDE DEF o
  <2>3. /\ stateFile' \in StateFileRow /\ stateFile'.previous = stateFile.previous
        /\ stateFile'.backup = stateFile.backup
    BY <1>o, <2>1, <2>2
  <2>4. job' \in JobRow /\ job'.pc = "release" /\ job'.id = job.id /\ job'.action = job.action
    <3>1. "release" \in JobPc
      BY DEF JobPc
    <3> QED
      BY <1>r, <2>1, <3>1, GotoRow
  <2>5. HostRows' /\ JobInHand' /\ RollbackPairs'
    BY <1>0, <2>1, <2>3, <2>4 DEF HostRows, JobInHand, RollbackPairs, AtPlan, AtRecovery, BackedUp
  <2>6. ~hostFaults'.torn => WorksOrCanGoBack'
    BY <1>0, <2>1, <2>4 DEF WorksOrCanGoBack, Whole, Restorable, Ready, BackedUp
  <2> QED
    BY <2>5, <2>6 DEF HostInv
<1>14. CASE Release
  <2>1. /\ job.pc = "release" /\ job' = NoJob
        /\ UNCHANGED <<tip, checkout, stack, db, stateFile, writes, kept, hostFaults>>
    BY <1>14 DEF Release
  <2>2. job' \in JobRow /\ job'.pc = "none"
    BY <2>1, NoJobRow
  <2>5. HostRows' /\ JobInHand' /\ RollbackPairs'
    BY <1>0, <2>1, <2>2 DEF HostRows, JobInHand, RollbackPairs, AtPlan, AtRecovery, BackedUp
  <2>6. ~hostFaults'.torn => WorksOrCanGoBack'
    BY <1>0, <2>1, <2>2 DEF WorksOrCanGoBack, Whole, Restorable, Ready, BackedUp
  <2> QED
    BY <2>5, <2>6 DEF HostInv
<1>15. CASE RecoverStop
  <2>1. /\ job.pc = "recoverStop" /\ ProceedRecovery /\ stack' = 0
        /\ UNCHANGED <<tip, checkout, db, stateFile, writes, kept, hostFaults>>
    BY <1>15 DEF RecoverStop
  <2>2. /\ job' \in JobRow /\ job'.pc = "recoverCheckout" /\ job'.id = job.id /\ job'.action = job.action
        /\ job'.previous = job.previous /\ job'.target = job.target /\ job'.backup = job.backup
    BY <2>1, ProceedRecoveryRow
  <2>5. HostRows' /\ JobInHand' /\ RollbackPairs'
    BY <1>0, <2>1, <2>2 DEF HostRows, JobInHand, RollbackPairs, AtPlan, AtRecovery, BackedUp
  <2>6. ~hostFaults'.torn => WorksOrCanGoBack'
    BY <1>0, <2>1, <2>2 DEF WorksOrCanGoBack, Whole, Restorable, Ready, BackedUp
  <2> QED
    BY <2>5, <2>6 DEF HostInv
<1>16. CASE RecoverCheckout
  <2> DEFINE p == IF job.backup = NoBackup THEN "recoverUp" ELSE "recoverDrop"
  <2>1. /\ job.pc = "recoverCheckout" /\ checkout' = job.previous /\ Goto(p)
        /\ UNCHANGED <<tip, stack, db, stateFile, writes, kept, hostFaults>>
    BY <1>16 DEF RecoverCheckout
  <2>2. p \in JobPc /\ p \in {"recoverUp", "recoverDrop"} /\ (p = "recoverUp" <=> job.backup = NoBackup)
    BY DEF JobPc
  <2> HIDE DEF p
  <2>3. /\ job' \in JobRow /\ job'.pc = p /\ job'.id = job.id /\ job'.action = job.action
        /\ job'.previous = job.previous /\ job'.target = job.target /\ job'.backup = job.backup
    BY <1>r, <2>1, <2>2, GotoRow
  <2>5. HostRows' /\ JobInHand' /\ RollbackPairs'
    BY <1>0, <2>1, <2>2, <2>3 DEF HostRows, JobInHand, RollbackPairs, AtPlan, AtRecovery, BackedUp
  <2>6. ~hostFaults'.torn => WorksOrCanGoBack'
    BY <1>0, <2>1, <2>2, <2>3 DEF WorksOrCanGoBack, Whole, Restorable, Ready, BackedUp
  <2> QED
    BY <2>5, <2>6 DEF HostInv
<1>17. CASE RecoverDrop
  <2>1. /\ job.pc = "recoverDrop" /\ ProceedRecovery /\ db' = EmptyDatabase
        /\ UNCHANGED <<tip, checkout, stack, stateFile, writes, kept, hostFaults>>
    BY <1>17 DEF RecoverDrop
  <2>2. /\ job' \in JobRow /\ job'.pc = "recoverLoad" /\ job'.id = job.id /\ job'.action = job.action
        /\ job'.previous = job.previous /\ job'.target = job.target /\ job'.backup = job.backup
    BY <2>1, ProceedRecoveryRow
  <2>3. db' \in Database
    BY <2>1 DEF EmptyDatabase, Database
  <2>5. HostRows' /\ JobInHand' /\ RollbackPairs'
    BY <1>0, <2>1, <2>2, <2>3 DEF HostRows, JobInHand, RollbackPairs, AtPlan, AtRecovery, BackedUp
  <2>6. ~hostFaults'.torn => WorksOrCanGoBack'
    BY <1>0, <2>1, <2>2 DEF WorksOrCanGoBack, Whole, Restorable, Ready, BackedUp
  <2> QED
    BY <2>5, <2>6 DEF HostInv
<1>18. CASE RecoverLoad
  <2>1. /\ job.pc = "recoverLoad" /\ ProceedRecovery /\ db' = job.backup
        /\ UNCHANGED <<tip, checkout, stack, stateFile, writes, kept, hostFaults>>
    BY <1>18 DEF RecoverLoad
  <2>2. /\ job' \in JobRow /\ job'.pc = "recoverUp" /\ job'.id = job.id /\ job'.action = job.action
        /\ job'.previous = job.previous /\ job'.target = job.target /\ job'.backup = job.backup
    BY <2>1, ProceedRecoveryRow
  <2>3. db' \in Database
    BY <1>0, <1>r, <2>1 DEF JobInHand
  <2>5. HostRows' /\ JobInHand' /\ RollbackPairs'
    BY <1>0, <2>1, <2>2, <2>3 DEF HostRows, JobInHand, RollbackPairs, AtPlan, AtRecovery, BackedUp
  <2>6. ~hostFaults'.torn => WorksOrCanGoBack'
    BY <1>0, <2>1, <2>2 DEF WorksOrCanGoBack, Whole, Restorable, Ready, BackedUp
  <2> QED
    BY <2>5, <2>6 DEF HostInv
<1>19. CASE RecoverUp
  <2>1. /\ job.pc = "recoverUp" /\ ProceedRecovery /\ StartStack
        /\ UNCHANGED <<tip, checkout, stateFile, writes, kept, hostFaults>>
    BY <1>19 DEF RecoverUp
  <2>2. /\ job' \in JobRow /\ job'.pc = "recoverHealth" /\ job'.id = job.id /\ job'.action = job.action
        /\ job'.previous = job.previous /\ job'.target = job.target /\ job'.backup = job.backup
    BY <2>1, ProceedRecoveryRow
  <2>3. /\ stack' = checkout /\ stack' # 0 /\ db' \in Database /\ db'.data = db.data
        /\ db'.schema = IF db.schema < checkout THEN checkout ELSE db.schema
    BY <1>0, <2>1, StackStarts
  <2>5. HostRows' /\ JobInHand' /\ RollbackPairs'
    BY <1>0, <1>r, <2>1, <2>2, <2>3 DEF HostRows, JobInHand, RollbackPairs, AtPlan, AtRecovery, BackedUp
  <2>6. ~hostFaults'.torn => WorksOrCanGoBack'
    BY <1>0, <2>1, <2>2, <2>3 DEF WorksOrCanGoBack, Whole, Restorable, Ready, BackedUp
  <2> QED
    BY <2>5, <2>6 DEF HostInv
<1>20. CASE RecoverHealth
  BY <1>20, <1>e DEF RecoverHealth
<1>21. CASE HealthGateFails
  BY <1>21, HealthGateKeeps
<1> QED
  BY <1>1, <1>2, <1>3, <1>4, <1>5, <1>6, <1>7, <1>8, <1>9, <1>10, <1>11, <1>12, <1>13, <1>14, <1>15,
     <1>16, <1>17, <1>18, <1>19, <1>20, <1>21 DEF ThreadStep


-----------------------------------------------------------------------------
(* The API's side.                                                          *)

\* A new run has an identifier nobody has used.
LEMMA LeastExists ==
  ASSUME NEW S \in SUBSET Nat, S # {}
  PROVE  \E r \in S : \A q \in S : r <= q
<1>1. IsWellFoundedOn(OpToRel(<, Nat), Nat)
  BY NatLessThanWellFounded
<1>2. PICK r \in S : \A q \in S : ~(<<q, r>> \in OpToRel(<, Nat))
  BY <1>1, WFMin
<1>3. \A q \in S : r <= q
  <2> TAKE q \in S
  <2>1. ~(<<q, r>> \in OpToRel(<, Nat))
    BY <1>2
  <2>2. q \in Nat /\ r \in Nat
    BY <1>2
  <2>3. ~(q < r)
    BY <2>1, <2>2 DEF OpToRel
  <2> QED
    BY <2>2, <2>3
<1> QED
  BY <1>2, <1>3

LEMMA NextRunIsNew ==
  ASSUME Used # OpId
  PROVE  NextRun \in OpId \ Used
<1>1. OpId \ Used \in SUBSET Nat /\ OpId \ Used # {}
  BY HostBounds DEF Used
<1>2. \E r \in OpId \ Used : \A q \in OpId \ Used : r <= q
  BY <1>1, LeastExists
<1> QED
  BY <1>2 DEF NextRun

\* What a step of the host may make of the operation of the state file: it never becomes a
\* success but by the end of an operation that was one.
LEMMA OperationSucceeds ==
  ASSUME HostInv,
         ThreadStep \/ Stop \/ RecoverStop \/ CommandFails \/ HostFault \/ AgentRestarts \/ World
           \/ Check \/ \E id \in OpId, a \in {"apply", "rollback"}, v \in {0} \cup Version : Accept(id, a, v),
         stateFile'.operation.status = "succeeded"
  PROVE  \/ stateFile'.operation = stateFile.operation
         \/ /\ job.pc = "finish" /\ job'.pc = "release" /\ job.ok
            /\ stateFile'.operation.id = job.id /\ job.id \in OpId
<1>0. stateFile \in StateFileRow /\ stateFile.operation \in OperationRow /\ job \in JobRow
  BY DEF HostInv, HostRows, StateFileRow
<1>1. ASSUME NEW o, stateFile' = [stateFile EXCEPT !.operation = o] PROVE stateFile'.operation = o
  BY <1>0, <1>1 DEF StateFileRow
<1>2. CASE Acquire
  BY <1>1, <1>2 DEF Acquire
<1>3. CASE Finish
  <2>1. job.pc = "finish" /\ Goto("release")
    BY <1>3 DEF Finish
  <2>2. job'.pc = "release"
    BY <1>0, <2>1 DEF Goto, JobRow
  <2>3. stateFile'.operation = [id |-> job.id, status |-> IF job.ok THEN "succeeded" ELSE "failed"]
    BY <1>1, <1>3 DEF Finish
  <2>4. job.id \in OpId
    BY <2>1 DEF HostInv, JobInHand
  <2> QED
    BY <2>1, <2>2, <2>3, <2>4
<1>4. CASE Record
  BY <1>4 DEF Record, NoOperation
<1>5. CASE AgentRestarts
  <2>1. CASE Busy
    <3> DEFINE o == [stateFile.operation EXCEPT !.status = "failed"]
    <3>1. o.status = "failed"
      BY <1>0 DEF OperationRow
    <3>2. stateFile' = [stateFile EXCEPT !.operation = o]
      BY <1>0, <1>5, <2>1 DEF AgentRestarts, StateFileRow
    <3> HIDE DEF o
    <3> QED
      BY <1>1, <3>1, <3>2
  <2>2. CASE ~Busy
    BY <1>5, <2>2 DEF AgentRestarts
  <2> QED
    BY <2>1, <2>2
<1>6. CASE \E id \in OpId, a \in {"apply", "rollback"}, v \in {0} \cup Version : Accept(id, a, v)
  <2>1. PICK id \in OpId, a \in {"apply", "rollback"}, v \in {0} \cup Version : Accept(id, a, v)
    BY <1>6
  <2>2. stateFile'.operation = [id |-> id, status |-> "queued"]
    BY <1>1, <2>1 DEF Accept
  <2> QED
    BY <2>2
<1>7. CASE Check
  BY <1>0, <1>7 DEF Check, StateFileRow
<1>8. CASE CheckAges
  BY <1>0, <1>8 DEF CheckAges, StateFileRow
<1>9. CASE UNCHANGED stateFile
  BY <1>9
<1>10. CASE ThreadStep
  BY <1>2, <1>3, <1>4, <1>9, <1>10 DEF ThreadStep, StartApply, StartRollback, Build, Backup, Checkout,
     Drop, Load, Up, Health, Release, RecoverCheckout, RecoverDrop, RecoverLoad, RecoverUp,
     RecoverHealth, HealthGateFails
<1>11. CASE Stop \/ RecoverStop \/ CommandFails \/ HostFault
  BY <1>9, <1>11 DEF Stop, RecoverStop, CommandFails, Failed, HostFault, MigrationFails, AgentCrashes
<1>12. CASE World
  BY <1>8, <1>9, <1>12 DEF World, UserWrites, Push
<1> QED
  BY <1>5, <1>6, <1>7, <1>10, <1>11, <1>12

LEMMA RunInvInit == DeploymentInit => RunInv
<1> SUFFICES ASSUME DeploymentInit PROVE RunInv
  OBVIOUS
<1>1. runs \in [OpId -> RunRow] /\ \A r \in OpId : runs[r].status = "none"
  BY DEF DeploymentInit, NoRun, RunRow
<1>2. call \in [Caller -> CallRow] /\ \A c \in Caller : call[c].pc = "idle"
  BY DEF DeploymentInit, IdleCall, CallRow
<1>3. RunRows
  BY <1>1, <1>2 DEF DeploymentInit, RunRows
<1>4. MessagesOfRuns /\ CallsOfRuns
  BY <1>2 DEF DeploymentInit, MessagesOfRuns, CallsOfRuns
<1>5. SuccessIsKnown /\ RunOutcomeTrue
  BY <1>1 DEF DeploymentInit, HostInit, NoOperation, SuccessIsKnown, RunOutcomeTrue
<1> QED
  BY <1>3, <1>4, <1>5 DEF RunInv

\* A run is made, its request is sent and its caller waits.
LEMMA StartRunKeeps ==
  ASSUME RunInv, NEW c \in Caller, NEW action \in {"check", "apply", "rollback"},
         NEW target \in {0} \cup Version, StartRun(c, action, target)
  PROVE  RunInv'
<1>0. /\ runs \in [OpId -> RunRow] /\ call \in [Caller -> CallRow] /\ inbox \in Seq(MessageRow)
      /\ effective \in SUBSET OpId /\ MessagesOfRuns /\ CallsOfRuns /\ SuccessIsKnown /\ RunOutcomeTrue
  BY DEF RunInv, RunRows
<1> DEFINE n == NextRun
           row == [action |-> action, status |-> "running"]
           asks == [IdleCall EXCEPT !.pc = "waiting", !.run = n]
           m == [caller |-> c, run |-> n, action |-> action, target |-> target]
<1>1. n \in OpId /\ n \notin Used
  BY NextRunIsNew DEF StartRun
<1>2. row \in RunRow /\ row.action = action /\ row.status = "running"
  BY DEF RunRow
<1>3. asks \in CallRow /\ asks.pc = "waiting" /\ asks.run = n
  BY <1>1 DEF IdleCall, CallRow
<1>4. m \in MessageRow /\ m.run = n /\ m.action = action
  BY <1>1 DEF MessageRow
<1>5. /\ runs' = [runs EXCEPT ![n] = row] /\ call' = [call EXCEPT ![c] = asks]
      /\ inbox' = Append(inbox, m) /\ UNCHANGED <<stateFile, effective>>
  BY DEF StartRun, hostVars
<1> HIDE DEF n, row, asks, m
<1>6. RunRows'
  BY <1>0, <1>1, <1>2, <1>3, <1>4, <1>5 DEF RunRows
<1>7. Used' = Used \cup {n} /\ \A r \in Used : runs'[r] = runs[r]
  BY <1>0, <1>1, <1>2, <1>5 DEF Used
<1>8. MessagesOfRuns'
  <2>1. ASSUME NEW i \in DOMAIN inbox'
        PROVE  \/ inbox'[i] = m
               \/ i \in DOMAIN inbox /\ inbox'[i] = inbox[i]
    BY <1>0, <1>4, <1>5, <2>1
  <2> QED
    BY <1>0, <1>1, <1>2, <1>4, <1>5, <1>7, <2>1 DEF MessagesOfRuns
<1>9. CallsOfRuns'
  BY <1>0, <1>3, <1>5, <1>7 DEF CallsOfRuns
<1>10. SuccessIsKnown' /\ RunOutcomeTrue'
  BY <1>0, <1>1, <1>2, <1>5 DEF SuccessIsKnown, RunOutcomeTrue
<1> QED
  BY <1>6, <1>8, <1>9, <1>10 DEF RunInv

\* What the agent answers to a message goes to the caller that still waits for it.
LEMMA ReplyKeeps ==
  ASSUME RunInv, inbox # <<>>, inbox' = Tail(inbox), UNCHANGED <<runs, effective>>,
         NEW reply \in {"accepted", "available", "current", "refused"}, Reply(Head(inbox), reply),
         reply \in {"available", "current"} => Head(inbox).action = "check", tip \in Version,
         SuccessIsKnown'
  PROVE  RunInv'
<1>0. /\ runs \in [OpId -> RunRow] /\ call \in [Caller -> CallRow] /\ inbox \in Seq(MessageRow)
      /\ effective \in SUBSET OpId /\ MessagesOfRuns /\ CallsOfRuns /\ SuccessIsKnown /\ RunOutcomeTrue
  BY DEF RunInv, RunRows
<1> DEFINE m == Head(inbox)
<1>1. /\ m = inbox[1] /\ 1 \in DOMAIN inbox /\ m \in MessageRow
      /\ inbox' \in Seq(MessageRow)
      /\ \A i \in DOMAIN inbox' : i + 1 \in DOMAIN inbox /\ inbox'[i] = inbox[i + 1]
  BY <1>0
<1> HIDE DEF m
<1>2. m.caller \in Caller /\ m.run \in Used /\ runs[m.run].action = m.action
  BY <1>0, <1>1 DEF MessageRow, MessagesOfRuns
<1>3. ASSUME NEW c \in Caller
      PROVE  /\ call'[c] \in CallRow
             /\ \/ call'[c] = call[c]
                \/ /\ call'[c].pc = "answered" /\ call'[c].run = m.run /\ call'[c].reply = reply
  <2>1. call[c] \in CallRow
    BY <1>0
  <2> DEFINE answered == [call[c] EXCEPT !.pc = "answered", !.reply = reply,
                                         !.version = IF reply = "available" THEN tip ELSE 0]
  <2>2. /\ answered \in CallRow /\ answered.pc = "answered" /\ answered.run = call[c].run
        /\ answered.reply = reply
    BY <2>1 DEF CallRow
  <2>3. call'[c] = call[c] \/ (call[c].run = m.run /\ call'[c] = answered)
    BY <1>0, <2>1 DEF Reply, m
  <2> HIDE DEF answered
  <2> QED
    BY <2>1, <2>2, <2>3
<1>4. call' \in [Caller -> CallRow]
  <2>1. call' = [c \in Caller |-> call'[c]]
    BY <1>0 DEF Reply
  <2> QED
    BY <1>3, <2>1
<1>5. RunRows'
  BY <1>0, <1>1, <1>4 DEF RunRows
<1>6. Used' = Used
  BY DEF Used
<1>7. MessagesOfRuns'
  BY <1>0, <1>1, <1>6 DEF MessagesOfRuns
<1>8. CallsOfRuns'
  BY <1>0, <1>2, <1>3, <1>6 DEF CallsOfRuns, m
<1>9. RunOutcomeTrue'
  BY <1>0 DEF RunOutcomeTrue
<1> QED
  BY <1>5, <1>7, <1>8, <1>9 DEF RunInv

\* A row takes an outcome: a success is either a check's or known to the agent.
LEMMA OutcomeKeeps ==
  ASSUME RunInv, NEW r \in Used, NEW status \in {"queued", "success", "failed"},
         runs' = [runs EXCEPT ![r].status = status],
         status = "success" => runs[r].action = "check" \/ r \in effective,
         call' \in [Caller -> CallRow],
         \A c \in Caller : call'[c] = call[c] \/ call'[c].pc \in {"idle", "checked"},
         UNCHANGED <<stateFile, inbox, effective>>
  PROVE  RunInv'
<1>0. /\ runs \in [OpId -> RunRow] /\ call \in [Caller -> CallRow] /\ inbox \in Seq(MessageRow)
      /\ effective \in SUBSET OpId /\ MessagesOfRuns /\ CallsOfRuns /\ SuccessIsKnown /\ RunOutcomeTrue
  BY DEF RunInv, RunRows
<1> DEFINE row == [runs[r] EXCEPT !.status = status]
<1>1. r \in OpId /\ runs[r] \in RunRow
  BY <1>0 DEF Used
<1>2. row \in RunRow /\ row.action = runs[r].action /\ row.status = status
  BY <1>1 DEF RunRow
<1>3. runs' = [runs EXCEPT ![r] = row]
  BY <1>0, <1>1
<1> HIDE DEF row
<1>4. runs' \in [OpId -> RunRow] /\ \A q \in OpId : runs'[q].action = runs[q].action
  BY <1>0, <1>1, <1>2, <1>3
<1>5. Used' = Used
  BY <1>0, <1>1, <1>2, <1>3 DEF Used
<1>6. RunRows' /\ MessagesOfRuns' /\ SuccessIsKnown'
  <2>1. \A i \in DOMAIN inbox : inbox[i].run \in OpId
    BY <1>0 DEF MessagesOfRuns, Used
  <2> QED
    BY <1>0, <1>4, <1>5, <2>1 DEF RunRows, MessagesOfRuns, SuccessIsKnown
<1>7. CallsOfRuns'
  <2>1. \A c \in Caller : call[c].pc = "answered" => call[c].run \in OpId
    BY <1>0 DEF CallsOfRuns, Used
  <2> QED
    BY <1>0, <1>4, <1>5, <2>1 DEF CallsOfRuns
<1>8. RunOutcomeTrue'
  BY <1>0, <1>2, <1>3 DEF RunOutcomeTrue
<1> QED
  BY <1>6, <1>7, <1>8 DEF RunInv

\* A step of the host under the API's runs: at most it ends every request.
LEMMA HostStepRuns ==
  ASSUME RunInv, UNCHANGED <<runs, inbox>>, UNCHANGED call \/ ApiStops,
         effective \subseteq effective', effective' \in SUBSET OpId, SuccessIsKnown'
  PROVE  RunInv'
<1>0. /\ runs \in [OpId -> RunRow] /\ call \in [Caller -> CallRow] /\ inbox \in Seq(MessageRow)
      /\ MessagesOfRuns /\ CallsOfRuns /\ RunOutcomeTrue
  BY DEF RunInv, RunRows
<1>1. /\ call' \in [Caller -> CallRow]
      /\ \A c \in Caller : call'[c] = call[c] \/ call'[c].pc = "idle"
  BY <1>0 DEF ApiStops, IdleCall, CallRow
<1>2. Used' = Used
  BY DEF Used
<1>3. RunRows' /\ MessagesOfRuns' /\ RunOutcomeTrue'
  BY <1>0, <1>1, <1>2 DEF RunRows, MessagesOfRuns, RunOutcomeTrue
<1>4. CallsOfRuns'
  BY <1>0, <1>1, <1>2 DEF CallsOfRuns
<1> QED
  BY <1>3, <1>4 DEF RunInv


LEMMA DeploymentInvInit == DeploymentInit => DeploymentInv
BY HostInvInit, RunInvInit DEF DeploymentInit, DeploymentInv

LEMMA DeploymentInvStep == DeploymentInv /\ [DeploymentNext]_deployVars => DeploymentInv'
<1> SUFFICES ASSUME DeploymentInv, [DeploymentNext]_deployVars PROVE DeploymentInv'
  OBVIOUS
<1> USE CallersAssumption
<1>0. HostInv /\ RunInv
  BY DEF DeploymentInv
<1>r. /\ runs \in [OpId -> RunRow] /\ call \in [Caller -> CallRow] /\ inbox \in Seq(MessageRow)
      /\ effective \in SUBSET OpId /\ CallsOfRuns /\ SuccessIsKnown
  BY <1>0 DEF RunInv, RunRows
<1>h. ASSUME UNCHANGED hostVars PROVE HostInv'
  BY <1>0, <1>h DEF hostVars, HostInv, HostRows, JobInHand, WorksOrCanGoBack, Whole, Restorable, Ready,
     RollbackPairs
<1>s. ASSUME NEW c \in Caller, NEW action \in {"check", "apply", "rollback"},
             NEW target \in {0} \cup Version, StartRun(c, action, target)
      PROVE  DeploymentInv'
  BY <1>0, <1>h, <1>s, StartRunKeeps DEF StartRun, DeploymentInv
<1>1. ASSUME NEW c \in Caller, NEW action \in AdminRuns, NEW target \in {0} \cup Version,
             RequestRun(c, action, target)
      PROVE  DeploymentInv'
  BY <1>1, <1>s DEF RequestRun
<1>2. CASE WorkerChecks
  BY <1>2, <1>s DEF WorkerChecks
<1>3. CASE WorkerApplies
  <2>1. call[UpdateWorker] \in CallRow
    BY <1>r
  <2>2. call[UpdateWorker].version \in {0} \cup Version
    BY <2>1 DEF CallRow
  <2> QED
    BY <1>3, <1>s, <2>2 DEF WorkerApplies
<1>4. CASE AgentServes
  <2> DEFINE m == Head(inbox)
  <2>0. /\ inbox # <<>> /\ inbox' = Tail(inbox) /\ UNCHANGED <<runs, effective>>
        /\ tip \in Version
    BY <1>0, <1>4 DEF AgentServes, HostInv, HostRows
  <2>1. m \in MessageRow
    BY <1>r, <2>0
  <2>2. m.run \in OpId /\ m.action \in {"check", "apply", "rollback"} /\ m.target \in {0} \cup Version
    BY <2>1 DEF MessageRow
  <2> HIDE DEF m
  <2>3. CASE /\ m.action = "check" /\ Check
             /\ Reply(m, IF checkout = tip THEN "current" ELSE "available")
    <3>1. HostInv'
      BY <1>0, <2>3, CheckKeeps
    <3>2. stateFile'.operation = stateFile.operation
      <4>1. stateFile \in StateFileRow
        BY <1>0 DEF HostInv, HostRows
      <4> QED
        BY <2>3, <4>1 DEF Check, StateFileRow
    <3>3. SuccessIsKnown'
      BY <1>r, <2>0, <3>2 DEF SuccessIsKnown
    <3>4. PICK reply \in {"current", "available"} : Reply(m, reply)
      BY <2>3
    <3>5. RunInv'
      BY <1>0, <2>0, <2>3, <3>3, <3>4, ReplyKeeps DEF m
    <3> QED
      BY <3>1, <3>5 DEF DeploymentInv
  <2>4. CASE m.action # "check" /\ Accept(m.run, m.action, m.target) /\ Reply(m, "accepted")
    <3>0. m.action \in {"apply", "rollback"}
      BY <2>2, <2>4
    <3>1. HostInv'
      BY <1>0, <2>2, <2>4, <3>0, AcceptKeeps
    <3>2. stateFile'.operation.status = "succeeded" => FALSE
      <4>1. stateFile \in StateFileRow
        BY <1>0 DEF HostInv, HostRows
      <4>2. stateFile'.operation = [id |-> m.run, status |-> "queued"]
        BY <2>4, <4>1 DEF Accept, StateFileRow
      <4> QED
        BY <4>2
    <3>3. SuccessIsKnown'
      BY <3>2 DEF SuccessIsKnown
    <3>5. RunInv'
      BY <1>0, <2>0, <2>4, <3>3, ReplyKeeps DEF m
    <3> QED
      BY <3>1, <3>5 DEF DeploymentInv
  <2>5. CASE Reply(m, "refused") /\ UNCHANGED hostVars
    <3>1. HostInv' /\ SuccessIsKnown'
      BY <1>h, <1>r, <2>0, <2>5 DEF SuccessIsKnown, hostVars
    <3>2. RunInv'
      BY <1>0, <2>0, <2>5, <3>1, ReplyKeeps DEF m
    <3> QED
      BY <3>1, <3>2 DEF DeploymentInv
  <2> QED
    BY <1>4, <2>3, <2>4, <2>5 DEF AgentServes, m
<1>5. ASSUME NEW c \in Caller, GiveUp(c) PROVE DeploymentInv'
  <2>1. UNCHANGED <<tip, checkout, stack, db, stateFile, job, writes, kept, runs, inbox, effective>>
    BY <1>5 DEF GiveUp
  <2>2. hostFaults' \in FaultRow /\ hostFaults'.torn = hostFaults.torn
    BY <1>0, <1>5, HostBounds DEF GiveUp, MayFault, HostInv, HostRows, FaultRow
  <2>3. HostInv'
    BY <1>0, <2>1, <2>2 DEF HostInv, HostRows, JobInHand, WorksOrCanGoBack, Whole, Restorable, Ready,
       RollbackPairs
  <2> DEFINE k == [call[c] EXCEPT !.pc = "answered", !.reply = "refused"]
  <2>4. call[c] \in CallRow /\ call[c].pc = "waiting"
    BY <1>r, <1>5 DEF GiveUp
  <2>5. k \in CallRow /\ k.run = call[c].run /\ k.reply = "refused" /\ k.pc = "answered"
    BY <2>4 DEF CallRow
  <2>6. call' = [call EXCEPT ![c] = k]
    BY <1>r, <1>5 DEF GiveUp
  <2> HIDE DEF k
  <2>7. RunInv'
    <3>1. Used' = Used
      BY <2>1 DEF Used
    <3>2. CallsOfRuns'
      BY <1>r, <2>1, <2>4, <2>5, <2>6, <3>1 DEF CallsOfRuns
    <3>3. RunRows' /\ MessagesOfRuns' /\ SuccessIsKnown' /\ RunOutcomeTrue'
      BY <1>0, <1>r, <2>1, <2>5, <2>6, <3>1 DEF RunInv, RunRows, MessagesOfRuns, SuccessIsKnown,
         RunOutcomeTrue
    <3> QED
      BY <3>2, <3>3 DEF RunInv
  <2> QED
    BY <2>3, <2>7 DEF DeploymentInv
<1>6. ASSUME NEW c \in Caller, RecordRun(c) PROVE DeploymentInv'
  <2>1. HostInv' /\ UNCHANGED <<stateFile, inbox, effective>>
    BY <1>h, <1>6 DEF RecordRun, hostVars
  <2>2. call[c] \in CallRow /\ call[c].pc = "answered"
    BY <1>r, <1>6 DEF RecordRun
  <2> DEFINE status == Outcome(call[c].reply)
             r == call[c].run
  <2>3. r \in Used
    BY <1>r, <2>2 DEF CallsOfRuns
  <2>4. /\ status \in {"queued", "success", "failed"}
        /\ status = "success" => call[c].reply \in {"available", "current"}
    BY DEF Outcome
  <2>5. status = "success" => runs[r].action = "check"
    BY <1>r, <2>2, <2>4 DEF CallsOfRuns
  <2>6. runs' = [runs EXCEPT ![r].status = status]
    BY <1>6 DEF RecordRun
  <2>7. PICK k \in CallRow : call' = [call EXCEPT ![c] = k] /\ k.pc \in {"idle", "checked"}
    <3>1. IdleCall \in CallRow /\ IdleCall.pc = "idle"
      BY DEF IdleCall, CallRow
    <3> DEFINE k == [call[c] EXCEPT !.pc = "checked", !.run = 0, !.reply = "none"]
    <3>2. k \in CallRow /\ k.pc = "checked"
      BY <2>2 DEF CallRow
    <3>3. call' = [call EXCEPT ![c] = IdleCall] \/ call' = [call EXCEPT ![c] = k]
      BY <1>6, <1>r DEF RecordRun
    <3> HIDE DEF k
    <3> QED
      BY <3>1, <3>2, <3>3
  <2> HIDE DEF status, r
  <2>8. RunInv'
    BY <1>0, <1>r, <2>1, <2>3, <2>4, <2>5, <2>6, <2>7, OutcomeKeeps
  <2> QED
    BY <2>1, <2>8 DEF DeploymentInv
<1>7. ASSUME NEW r \in OpId, Status(r) PROVE DeploymentInv'
  <2>1. HostInv' /\ UNCHANGED <<stateFile, call, inbox, effective>>
    BY <1>h, <1>7 DEF Status, hostVars
  <2>2. r \in Used /\ stateFile.operation.id = r
    BY <1>7 DEF Status, StatusAllowed, Latest
  <2> DEFINE status == IF stateFile.operation.status = "succeeded" THEN "success" ELSE "failed"
  <2>3. /\ status \in {"queued", "success", "failed"}
        /\ status = "success" => r \in effective
    BY <1>r, <2>2 DEF SuccessIsKnown
  <2>4. runs' = [runs EXCEPT ![r].status = status]
    BY <1>7 DEF Status
  <2> HIDE DEF status
  <2>5. RunInv'
    BY <1>0, <1>r, <2>1, <2>2, <2>3, <2>4, OutcomeKeeps
  <2> QED
    BY <2>1, <2>5 DEF DeploymentInv
<1>8. CASE Thread
  <2>1. ThreadStep \/ Stop \/ RecoverStop
    BY <1>8 DEF Thread, ThreadRuns, StopStep
  <2>2. HostInv'
    BY <1>0, <2>1, ThreadKeeps
  <2>3. UNCHANGED <<runs, inbox>> /\ (UNCHANGED call \/ ApiStops)
    BY <1>8 DEF Thread, ThreadRuns, ApiStops
  <2>4. effective \subseteq effective'
    BY <1>8 DEF Thread, NotesSuccess
  <2>5. effective' \in SUBSET OpId
    <3>1. job.pc = "finish" => job.id \in OpId
      BY <1>0 DEF HostInv, JobInHand
    <3> QED
      BY <1>8, <1>r, <3>1 DEF Thread, NotesSuccess
  <2>6. SuccessIsKnown'
    <3> SUFFICES ASSUME stateFile'.operation.status = "succeeded"
                 PROVE  stateFile'.operation.id \in effective'
      BY DEF SuccessIsKnown
    <3>1. \/ stateFile'.operation = stateFile.operation
          \/ /\ job.pc = "finish" /\ job'.pc = "release" /\ job.ok
             /\ stateFile'.operation.id = job.id /\ job.id \in OpId
      BY <1>0, <2>1, OperationSucceeds
    <3> QED
      BY <1>8, <1>r, <2>4, <3>1 DEF SuccessIsKnown, Thread, NotesSuccess
  <2> QED
    BY <1>0, <2>2, <2>3, <2>4, <2>5, <2>6, HostStepRuns DEF DeploymentInv
\* The other steps of the host end no operation in success.
<1>q. ASSUME CommandFails \/ HostFault \/ AgentRestarts \/ World, UNCHANGED <<runs, inbox, effective>>,
             UNCHANGED call \/ ApiStops
      PROVE  DeploymentInv'
  <2>1. HostInv'
    BY <1>0, <1>q, CommandFailsKeeps, HostFaultKeeps, RestartKeeps, WorldKeeps
  <2>2. SuccessIsKnown'
    <3> SUFFICES ASSUME stateFile'.operation.status = "succeeded"
                 PROVE  stateFile'.operation.id \in effective'
      BY DEF SuccessIsKnown
    <3>1. \/ stateFile'.operation = stateFile.operation
          \/ job.pc = "finish" /\ job'.pc = "release"
      BY <1>0, <1>q, OperationSucceeds
    <3>2. ~(job.pc = "finish" /\ job'.pc = "release")
      <4>1. job.pc = "finish" => ~MigrationFails /\ ~CommandFails /\ ~AgentRestarts
        BY DEF MigrationFails, CommandFails, AgentRestarts
      <4>2. AgentCrashes => job'.pc = "dead"
        BY DEF AgentCrashes, NoJob
      <4>3. World => job' = job
        BY DEF World, UserWrites, Push, CheckAges
      <4> QED
        BY <1>q, <4>1, <4>2, <4>3 DEF HostFault
    <3> QED
      BY <1>q, <1>r, <3>1, <3>2 DEF SuccessIsKnown
  <2>3. effective \subseteq effective' /\ effective' \in SUBSET OpId
    BY <1>q, <1>r
  <2> QED
    BY <1>0, <1>q, <2>1, <2>2, <2>3, HostStepRuns DEF DeploymentInv
<1>9. CASE FaultStep
  BY <1>9, <1>q DEF FaultStep, ApiStops
<1>10. CASE AgentComesBack
  BY <1>10, <1>q DEF AgentComesBack, runVars
<1>11. CASE World /\ UNCHANGED runVars
  BY <1>11, <1>q DEF runVars
<1>12. CASE UNCHANGED deployVars
  <2>1. HostInv'
    BY <1>12, <1>h DEF deployVars
  <2>2. UNCHANGED <<runs, call, inbox, effective, stateFile>>
    BY <1>12 DEF deployVars, runVars, hostVars
  <2>3. SuccessIsKnown' /\ effective \subseteq effective' /\ effective' \in SUBSET OpId
    BY <1>r, <2>2 DEF SuccessIsKnown
  <2> QED
    BY <1>0, <2>1, <2>2, <2>3, HostStepRuns DEF DeploymentInv
<1> QED
  BY <1>1, <1>2, <1>3, <1>4, <1>5, <1>6, <1>7, <1>8, <1>9, <1>10, <1>11, <1>12 DEF DeploymentNext

LEMMA DeploymentInvAlways == DeploymentSpec => []DeploymentInv
BY DeploymentInvInit, DeploymentInvStep, PTL DEF DeploymentSpec

\* The host, the agent's thread and state file, the runs and the requests between them are
\* of their types.
THEOREM DeploymentTypes == DeploymentSpec => []DeploymentTypeOK
<1>1. DeploymentInv => DeploymentTypeOK
  BY RowsAreTypes DEF DeploymentInv, HostInv, RunInv
<1> QED
  BY <1>1, DeploymentInvAlways, PTL

\* Whatever the branch, the users, failing commands and crashes do, an update that ends has
\* worked or has left the host as it was (apply_update, recover_version).
THEOREM UpdateIsWhole == DeploymentSpec => []OutcomeIsWhole
<1>1. DeploymentInv => OutcomeIsWhole
  BY DEF DeploymentInv, HostInv, OutcomeIsWhole, WorksOrCanGoBack, Whole
<1> QED
  BY <1>1, DeploymentInvAlways, PTL

\* The backup on record is always one of the release a rollback goes back to.
THEOREM RollbackRestoresItsRelease == DeploymentSpec => []RollbackPairs
<1>1. DeploymentInv => RollbackPairs
  BY DEF DeploymentInv, HostInv
<1> QED
  BY <1>1, DeploymentInvAlways, PTL

\* No interleaving of requests, late answers, crashes and status pages records a run as a
\* success that was none (DeploymentUpdateService.status and .run).
THEOREM RecordedSuccessIsTrue == DeploymentSpec => []RunOutcomeTrue
<1>1. DeploymentInv => RunOutcomeTrue
  BY DEF DeploymentInv, RunInv
<1> QED
  BY <1>1, DeploymentInvAlways, PTL
=============================================================================
