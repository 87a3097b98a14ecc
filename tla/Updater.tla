------------------------------ MODULE Updater ------------------------------
(***************************************************************************)
(* The host's update agent (src/deploy/updater_agent.py): one handler       *)
(* thread serving a Unix socket, at most one worker thread that applies or  *)
(* rolls back a release, the state file both read and replace, and what     *)
(* they work on: the Git checkout, the containers and the database.         *)
(*                                                                          *)
(* Releases are the commits of one branch, numbered in order.  The database *)
(* is the release its schema belongs to (0: empty) and the users' writes it *)
(* holds.  A step of the worker thread is one command of the host.          *)
(***************************************************************************)
EXTENDS Integers, Sequences, FiniteSets

CONSTANTS
  MaxVersion,     \* bound: commits on the branch
  MaxWrites,      \* bound: writes of the platform's users
  MaxHostFaults,  \* bound: failed commands and crashes of the agent
  OpId            \* identifiers of operations

ASSUME HostBounds ==
  /\ MaxVersion \in Nat \ {0} /\ MaxWrites \in Nat /\ MaxHostFaults \in Nat
  /\ OpId \subseteq Nat \ {0}

VARIABLES
  tip,        \* commit origin/<branch> points to
  checkout,   \* commit of APP_DIR
  stack,      \* release the api and web containers run, 0 when stopped
  db,         \* PostgreSQL
  stateFile,  \* update-state.json
  job,        \* the worker thread of _run_async_action and its locals
  writes,     \* writes acknowledged to users so far
  kept,       \* history: writes the current operation has to preserve
  hostFaults  \* history: faults so far, and whether the host was left half changed

hostVars == <<tip, checkout, stack, db, stateFile, job, writes, kept, hostFaults>>

Version == 1..MaxVersion
Write == 1..MaxWrites
Database == [schema : 0..MaxVersion, data : SUBSET Write]
EmptyDatabase == [schema |-> 0, data |-> {}]
NoBackup == [schema |-> -1, data |-> {}]
NoOperation == [id |-> 0, status |-> "none"]
NeverChecked == [from |-> 0, target |-> 0, fresh |-> FALSE]
NoJob == [pc |-> "none", id |-> 0, action |-> "none", requested |-> 0,
          previous |-> 0, target |-> 0, backup |-> NoBackup, ok |-> FALSE]

\* The commands of apply_update, rollback_update and recover_version, in order.
Plan == [apply    |-> <<"start", "build", "stop", "backup", "checkout", "up", "health", "record", "finish">>,
         rollback |-> <<"start", "build", "stop", "backup", "checkout", "drop", "load", "up", "health",
                        "record", "finish">>]
Recovery == <<"recoverStop", "recoverCheckout", "recoverDrop", "recoverLoad", "recoverUp",
              "recoverHealth", "finish">>
Steps == (UNION {{Plan[a][i] : i \in DOMAIN Plan[a]} : a \in DOMAIN Plan})
           \cup {Recovery[i] : i \in DOMAIN Recovery}

\* The step after pc in a sequence of steps.
Following(steps, pc) == steps[1 + CHOOSE i \in DOMAIN steps : steps[i] = pc]

UpdaterTypeOK ==
  /\ tip \in Version /\ checkout \in Version /\ stack \in {0} \cup Version
  /\ db \in Database
  /\ stateFile \in [operation : [id : {0} \cup OpId,
                                 status : {"none", "queued", "running", "succeeded", "failed"}],
                    lastCheck : [from : {0} \cup Version, target : {0} \cup Version, fresh : BOOLEAN],
                    previous : {0} \cup Version, backup : Database \cup {NoBackup}]
  /\ job \in [pc : {"none", "dead", "queued", "release"} \cup Steps, id : {0} \cup OpId,
              action : {"none", "apply", "rollback"}, requested : {0} \cup Version,
              previous : {0} \cup Version, target : {0} \cup Version,
              backup : Database \cup {NoBackup}, ok : BOOLEAN]
  /\ writes \in 0..MaxWrites /\ kept \in SUBSET Write
  /\ hostFaults \in [count : 0..MaxHostFaults, torn : BOOLEAN]

HostInit ==
  /\ tip = 1 /\ checkout = 1 /\ stack = 1
  /\ db = [schema |-> 1, data |-> {}]
  /\ stateFile = [operation |-> NoOperation, lastCheck |-> NeverChecked, previous |-> 0, backup |-> NoBackup]
  /\ job = NoJob
  /\ writes = 0 /\ kept = {}
  /\ hostFaults = [count |-> 0, torn |-> FALSE]

\* /api/ready answers 200: the containers run and the schema is theirs.
Ready == stack # 0 /\ db.schema = stack

\* Is an operation queued or running, as the state file has it?
Busy == stateFile.operation.status \in {"queued", "running"}

\* update.lock is held from the thread's flock until its `with` ends.
LockHeld == job.pc \in Steps \cup {"release"}

AgentUp == job.pc # "dead"

MayFault == hostFaults.count < MaxHostFaults

-----------------------------------------------------------------------------
(* The handler thread.                                                      *)

\* check_update_locked finds the host free.
CheckAllowed == AgentUp /\ ~LockHeld /\ ~Busy

\* check_update: fetch, compare, remember the answer.
Check ==
  /\ CheckAllowed
  /\ stateFile' = [stateFile EXCEPT !.lastCheck = [from |-> checkout, target |-> tip, fresh |-> TRUE]]
  /\ UNCHANGED <<tip, checkout, stack, db, job, writes, kept, hostFaults>>

\* do_POST lets an apply or a rollback in.
PostAllowed == AgentUp /\ ~Busy /\ ~LockHeld

\* do_POST for an apply or a rollback: write "queued", start the thread, 202.
Accept(id, action, requested) ==
  /\ PostAllowed
  /\ stateFile' = [stateFile EXCEPT !.operation = [id |-> id, status |-> "queued"]]
  /\ job' = [NoJob EXCEPT !.pc = "queued", !.id = id, !.action = action, !.requested = requested]
  /\ UNCHANGED <<tip, checkout, stack, db, writes, kept, hostFaults>>

-----------------------------------------------------------------------------
(* The worker thread.                                                       *)

Goto(pc) == job' = [job EXCEPT !.pc = pc]
Proceed == Goto(Following(Plan[job.action], job.pc))
ProceedRecovery == Goto(Following(Recovery, job.pc))
End(ok) == job' = [job EXCEPT !.pc = "finish", !.ok = ok]

\* _run_async_action takes the lock and writes "running".
Acquire ==
  /\ job.pc = "queued"
  /\ stateFile' = [stateFile EXCEPT !.operation = [id |-> job.id, status |-> "running"]]
  /\ Goto("start")
  /\ UNCHANGED <<tip, checkout, stack, db, writes, kept, hostFaults>>

\* The request is the one last checked, and the branch has not moved since.
ChecksOut ==
  /\ stateFile.lastCheck = [from |-> checkout, target |-> job.requested, fresh |-> TRUE]
  /\ tip = job.requested
  /\ checkout <= job.requested

\* apply_update up to the worktree: refuse, find nothing to do, or start.
StartApply ==
  /\ job.pc = "start" /\ job.action = "apply"
  /\ \/ ~ChecksOut /\ End(FALSE)
     \/ ChecksOut /\ checkout = job.requested /\ End(TRUE)
     \/ /\ ChecksOut /\ checkout < job.requested
        /\ job' = [job EXCEPT !.pc = "build", !.previous = checkout, !.target = job.requested]
  /\ UNCHANGED <<tip, checkout, stack, db, stateFile, writes, kept, hostFaults>>

\* rollback_update up to the worktree.
StartRollback ==
  /\ job.pc = "start" /\ job.action = "rollback"
  /\ \/ (stateFile.previous = 0 \/ stateFile.backup = NoBackup) /\ End(FALSE)
     \/ /\ stateFile.previous # 0 /\ stateFile.backup # NoBackup
        /\ job' = [job EXCEPT !.pc = "build", !.previous = checkout, !.target = stateFile.previous]
  /\ UNCHANGED <<tip, checkout, stack, db, stateFile, writes, kept, hostFaults>>

\* `docker compose build` of the staged worktree.
Build ==
  /\ job.pc = "build" /\ Proceed
  /\ UNCHANGED <<tip, checkout, stack, db, stateFile, writes, kept, hostFaults>>

\* `docker compose stop api web`: no user can write any more.
Stop ==
  /\ job.pc = "stop" /\ Proceed
  /\ stack' = 0 /\ kept' = db.data
  /\ UNCHANGED <<tip, checkout, db, stateFile, writes, hostFaults>>

\* backup_database: pg_dump to a new file.
Backup ==
  /\ job.pc = "backup"
  /\ job' = [job EXCEPT !.pc = Following(Plan[job.action], "backup"), !.backup = db]
  /\ UNCHANGED <<tip, checkout, stack, db, stateFile, writes, kept, hostFaults>>

\* `git checkout --detach target`.
Checkout ==
  /\ job.pc = "checkout" /\ Proceed
  /\ checkout' = job.target
  /\ UNCHANGED <<tip, stack, db, stateFile, writes, kept, hostFaults>>

\* restore_database: dropdb and createdb, then pg_restore of the state file's backup.
Drop ==
  /\ job.pc = "drop" /\ Proceed
  /\ db' = EmptyDatabase
  /\ UNCHANGED <<tip, checkout, stack, stateFile, writes, kept, hostFaults>>
Load ==
  /\ job.pc = "load" /\ Proceed
  /\ db' = stateFile.backup
  /\ UNCHANGED <<tip, checkout, stack, stateFile, writes, kept, hostFaults>>

\* The containers start and the entrypoint migrates forward; a schema newer than the
\* code stays, and the code is not ready on it.
StartStack ==
  /\ stack' = checkout
  /\ db' = [db EXCEPT !.schema = IF @ < checkout THEN checkout ELSE @]

\* `docker compose up -d`.
Up ==
  /\ job.pc = "up" /\ Proceed
  /\ StartStack
  /\ UNCHANGED <<tip, checkout, stateFile, writes, kept, hostFaults>>

\* wait_for_health and install_agent_from, both succeeding.
Health ==
  /\ job.pc = "health" /\ Ready /\ Proceed
  /\ UNCHANGED <<tip, checkout, stack, db, stateFile, writes, kept, hostFaults>>

\* Mutant: the rollback keeps the backup it has just restored.
RecordMutant ==
  /\ job.pc = "record"
  /\ job' = [job EXCEPT !.pc = "finish", !.ok = TRUE]
  /\ stateFile' = [operation |-> NoOperation, lastCheck |-> NeverChecked,
                   previous |-> job.previous, backup |-> stateFile.backup]
  /\ kept' = IF job.action = "rollback" THEN stateFile.backup.data ELSE kept
  /\ UNCHANGED <<tip, checkout, stack, db, writes, hostFaults>>

\* write_state with a dictionary of its own: the operation and the last check are gone.
Record ==
  /\ job.pc = "record"
  /\ job' = [job EXCEPT !.pc = "finish", !.ok = TRUE]
  /\ stateFile' = [operation |-> NoOperation, lastCheck |-> NeverChecked,
                   previous |-> job.previous, backup |-> job.backup]
  /\ kept' = IF job.action = "rollback" THEN stateFile.backup.data ELSE kept
  /\ UNCHANGED <<tip, checkout, stack, db, writes, hostFaults>>

\* Mutant: the outcome goes into the operation found in the file, which Record erased.
FinishMutant ==
  /\ job.pc = "finish"
  /\ stateFile' = [stateFile EXCEPT !.operation.status = IF job.ok THEN "succeeded" ELSE "failed"]
  /\ Goto("release")
  /\ UNCHANGED <<tip, checkout, stack, db, writes, kept, hostFaults>>

\* The end of _run_async_action: the outcome is written, then the lock released.
Finish ==
  /\ job.pc = "finish"
  /\ stateFile' = [stateFile EXCEPT !.operation =
                     [id |-> job.id, status |-> IF job.ok THEN "succeeded" ELSE "failed"]]
  /\ Goto("release")
  /\ UNCHANGED <<tip, checkout, stack, db, writes, kept, hostFaults>>
Release ==
  /\ job.pc = "release"
  /\ job' = NoJob
  /\ UNCHANGED <<tip, checkout, stack, db, stateFile, writes, kept, hostFaults>>

-----------------------------------------------------------------------------
(* recover_version, after a command of the plan has failed.                 *)

RecoverStop ==
  /\ job.pc = "recoverStop" /\ ProceedRecovery
  /\ stack' = 0
  /\ UNCHANGED <<tip, checkout, db, stateFile, writes, kept, hostFaults>>
\* Mutant: the recovery starts the previous code on the migrated database.
RecoverCheckoutMutant ==
  /\ job.pc = "recoverCheckout"
  /\ checkout' = job.previous
  /\ Goto("recoverUp")
  /\ UNCHANGED <<tip, stack, db, stateFile, writes, kept, hostFaults>>

RecoverCheckout ==
  /\ job.pc = "recoverCheckout"
  /\ checkout' = job.previous
  /\ Goto(IF job.backup = NoBackup THEN "recoverUp" ELSE "recoverDrop")
  /\ UNCHANGED <<tip, stack, db, stateFile, writes, kept, hostFaults>>
RecoverDrop ==
  /\ job.pc = "recoverDrop" /\ ProceedRecovery
  /\ db' = EmptyDatabase
  /\ UNCHANGED <<tip, checkout, stack, stateFile, writes, kept, hostFaults>>
RecoverLoad ==
  /\ job.pc = "recoverLoad" /\ ProceedRecovery
  /\ db' = job.backup
  /\ UNCHANGED <<tip, checkout, stack, stateFile, writes, kept, hostFaults>>

RecoverUp ==
  /\ job.pc = "recoverUp" /\ ProceedRecovery
  /\ StartStack
  /\ UNCHANGED <<tip, checkout, stateFile, writes, kept, hostFaults>>
RecoverHealth ==
  /\ job.pc = "recoverHealth" /\ Ready
  /\ End(FALSE)
  /\ UNCHANGED <<tip, checkout, stack, db, stateFile, writes, kept, hostFaults>>

-----------------------------------------------------------------------------
(* Faults.                                                                  *)

Recovering == job.pc \in {Recovery[i] : i \in DOMAIN Recovery} \ {"finish"}

\* Steps inside the try of apply_update and rollback_update; rollback's record is outside.
Guarded ==
  job.pc \in Steps \ {"start", "finish"} /\ ~Recovering /\ ~(job.action = "rollback" /\ job.pc = "record")

\* What a failed command may have done before it failed.
PartialEffect ==
  \/ UNCHANGED <<stack, db>>
  \/ job.pc \in {"stop", "recoverStop"} /\ stack' = 0 /\ UNCHANGED db
  \/ job.pc \in {"drop", "load", "recoverDrop", "recoverLoad"} /\ db' = EmptyDatabase /\ UNCHANGED stack
  \/ job.pc \in {"up", "recoverUp"} /\ stack' = checkout /\ UNCHANGED db

\* Where a failed command leads: recovery, or the end.
Failed(torn) ==
  /\ IF Guarded THEN Goto("recoverStop") ELSE End(FALSE)
  /\ hostFaults' = [count |-> hostFaults.count + 1,
                    torn |-> hostFaults.torn \/ torn]
  /\ kept' = IF job.pc = "stop" THEN db.data ELSE kept
  /\ UNCHANGED <<tip, checkout, stateFile, writes>>

\* A command exits non-zero, a migration breaks or the health gate times out.
CommandFails ==
  /\ MayFault /\ LockHeld /\ job.pc \notin {"start", "finish", "release"}
  /\ PartialEffect
  /\ Failed(~Guarded)

\* The health gate gives up on a stack that is not ready.
HealthGateFails ==
  /\ job.pc \in {"health", "recoverHealth"} /\ ~Ready
  /\ IF Guarded THEN Goto("recoverStop") ELSE End(FALSE)
  /\ hostFaults' = [hostFaults EXCEPT !.torn = @ \/ ~Guarded]
  /\ UNCHANGED <<tip, checkout, stack, db, stateFile, writes, kept>>

\* A migration fails under `up`: the containers are there, the schema is the old one.
MigrationFails ==
  /\ MayFault /\ job.pc \in {"up", "recoverUp"} /\ db.schema < checkout
  /\ stack' = checkout
  /\ IF job.pc = "up" THEN Proceed ELSE ProceedRecovery
  /\ hostFaults' = [hostFaults EXCEPT !.count = @ + 1]
  /\ UNCHANGED <<tip, checkout, db, stateFile, writes, kept>>

\* The agent dies with its threads; containers and files stay.
AgentCrashes ==
  /\ MayFault /\ AgentUp
  /\ job' = [NoJob EXCEPT !.pc = "dead"]
  /\ hostFaults' = [count |-> hostFaults.count + 1,
                    torn |-> hostFaults.torn \/ job.pc \in Steps \ {"start", "build", "finish"}]
  /\ UNCHANGED <<tip, checkout, stack, db, stateFile, writes, kept>>

\* Mutant: main leaves the operation as it was.
AgentRestartsMutant ==
  /\ job.pc = "dead"
  /\ job' = NoJob
  /\ UNCHANGED <<tip, checkout, stack, db, stateFile, writes, kept, hostFaults>>

\* main: an operation found queued or running is marked failed.
AgentRestarts ==
  /\ job.pc = "dead"
  /\ job' = NoJob
  /\ stateFile' = IF Busy THEN [stateFile EXCEPT !.operation.status = "failed"] ELSE stateFile
  /\ UNCHANGED <<tip, checkout, stack, db, writes, kept, hostFaults>>

-----------------------------------------------------------------------------
(* The world outside the agent.                                             *)

\* A user's request commits a change.
UserWrites ==
  /\ Ready /\ writes < MaxWrites
  /\ writes' = writes + 1
  /\ db' = [db EXCEPT !.data = @ \cup {writes + 1}]
  /\ UNCHANGED <<tip, checkout, stack, stateFile, job, kept, hostFaults>>

\* A commit is pushed to the branch.
Push ==
  /\ tip < MaxVersion /\ tip' = tip + 1
  /\ UNCHANGED <<checkout, stack, db, stateFile, job, writes, kept, hostFaults>>

\* CHECK_MAX_AGE passes.
CheckAges ==
  /\ stateFile.lastCheck.fresh
  /\ stateFile' = [stateFile EXCEPT !.lastCheck.fresh = FALSE]
  /\ UNCHANGED <<tip, checkout, stack, db, job, writes, kept, hostFaults>>

\* The worker thread goes on, without a fault.
ThreadStep ==
  \/ Acquire \/ StartApply \/ StartRollback \/ Build \/ Backup \/ Checkout \/ Drop \/ Load
  \/ Up \/ Health \/ Record \/ Finish \/ Release
  \/ RecoverCheckout \/ RecoverDrop \/ RecoverLoad \/ RecoverUp \/ RecoverHealth
  \/ HealthGateFails

\* The steps that also end the requests the API is serving.
StopStep == Stop \/ RecoverStop

HostFault == MigrationFails \/ AgentCrashes

World == UserWrites \/ Push \/ CheckAges

-----------------------------------------------------------------------------
(* Properties of the host.                                                  *)

\* Between operations the release that serves is the one checked out, on its own schema,
\* with every write that was acknowledged before the last operation stopped the stack:
\* an update works or leaves things as they were (updater_agent.py, apply_update and
\* recover_version).  A crash half way or a failed recovery leaves it to the operator.
OutcomeIsWhole ==
  job.pc \in {"none", "release"} /\ ~hostFaults.torn =>
    Ready /\ stack = checkout /\ kept \subseteq db.data

\* The backup a rollback would restore was taken from the release it would go back to
\* (the state apply_update and rollback_update record).
RollbackPairs ==
  ~hostFaults.torn /\ stateFile.previous # 0 => stateFile.backup.schema = stateFile.previous

\* An operation never stays queued or running, also when the agent dies under it
\* (_run_async_action and main).
AgentDoesNotStayBusy == Busy ~> ~Busy

\* When the recovery's own health gate fails, "the API remains stopped for operator
\* recovery" (recover_after_failure).
FailedRecoveryStopsApi ==
  [][job.pc = "recoverHealth" /\ job'.pc = "finish" /\ hostFaults' # hostFaults => stack' = 0]_hostVars
=============================================================================
