--------------------------- MODULE DeploymentRuns ---------------------------
(***************************************************************************)
(* The API's side of updates (services/deployment_updates.py,               *)
(* workers/update_worker.py, api/routers/admin_updates.py): a row for every *)
(* check, apply and rollback, and the requests that carry them to the       *)
(* agent.  The API runs in the stack the agent stops and starts, and gives  *)
(* up on a request after 30 seconds while the agent may still read it.      *)
(***************************************************************************)
EXTENDS Updater

CONSTANTS
  Caller,       \* administrators' requests and the update worker
  UpdateWorker, \* the update worker among them
  AdminRuns,    \* bound: the actions administrators ask for
  Polled        \* does an administrator's page poll the status?

ASSUME CallersAssumption ==
  /\ UpdateWorker \in Caller /\ Polled \in BOOLEAN
  /\ AdminRuns \subseteq {"check", "apply", "rollback"}

VARIABLES
  runs,      \* deployment_update_runs, by id
  call,      \* what a caller's request handler is doing
  inbox,     \* requests in the agent's socket, in order
  effective  \* history: operations that ended in success

runVars == <<runs, call, inbox, effective>>
deployVars == <<hostVars, runVars>>

NoRun == [action |-> "none", status |-> "none"]
IdleCall == [pc |-> "idle", run |-> 0, reply |-> "none", version |-> 0]

DeploymentTypeOK ==
  /\ UpdaterTypeOK
  /\ runs \in [OpId -> [action : {"none", "check", "apply", "rollback"},
                        status : {"none", "running", "queued", "success", "failed"}]]
  /\ call \in [Caller -> [pc : {"idle", "waiting", "answered", "checked"}, run : {0} \cup OpId,
                          reply : {"none", "accepted", "available", "current", "refused"},
                          version : {0} \cup Version]]
  /\ inbox \in Seq([caller : Caller, run : OpId, action : {"check", "apply", "rollback"},
                    target : {0} \cup Version])
  /\ effective \in SUBSET OpId

DeploymentInit ==
  /\ HostInit
  /\ runs = [r \in OpId |-> NoRun]
  /\ call = [c \in Caller |-> IdleCall]
  /\ inbox = <<>>
  /\ effective = {}

Used == {r \in OpId : runs[r].status # "none"}
NextRun == CHOOSE r \in OpId \ Used : \A q \in OpId \ Used : r <= q
Latest(r) == r \in Used /\ \A q \in Used : q <= r

\* DeploymentUpdateService.run up to the request: a row, committed as running.
StartRun(c, action, target) ==
  /\ Used # OpId
  /\ runs' = [runs EXCEPT ![NextRun] = [action |-> action, status |-> "running"]]
  /\ call' = [call EXCEPT ![c] = [IdleCall EXCEPT !.pc = "waiting", !.run = NextRun]]
  /\ inbox' = Append(inbox, [caller |-> c, run |-> NextRun, action |-> action, target |-> target])
  /\ UNCHANGED <<hostVars, effective>>

\* An administrator's check, apply or rollback.
RequestRun(c, action, target) ==
  /\ c # UpdateWorker /\ Ready /\ call[c].pc = "idle"
  /\ (target # 0) <=> (action = "apply")
  /\ StartRun(c, action, target)

\* update_worker.run_once: the scheduled check.
WorkerChecks ==
  /\ Ready /\ call[UpdateWorker].pc = "idle"
  /\ StartRun(UpdateWorker, "check", 0)

\* update_worker.run_once: an update was available, in the maintenance hour, and the
\* worker applies the version the check reported.
WorkerApplies ==
  /\ Ready /\ call[UpdateWorker].pc = "checked"
  /\ StartRun(UpdateWorker, "apply", call[UpdateWorker].version)

\* The agent's handler thread reads the next request and answers; nobody may be waiting.
Reply(m, reply) ==
  call' = [call EXCEPT ![m.caller] =
             IF @.pc = "waiting" /\ @.run = m.run THEN [@ EXCEPT !.pc = "answered", !.reply = reply,
                       !.version = IF reply = "available" THEN tip ELSE 0]
             ELSE @]
AgentServes ==
  /\ AgentUp /\ inbox # <<>>
  /\ inbox' = Tail(inbox)
  /\ LET m == Head(inbox)
     IN \/ /\ m.action = "check" /\ Check
           /\ Reply(m, IF checkout = tip THEN "current" ELSE "available")
        \/ /\ m.action # "check" /\ Accept(m.run, m.action, m.target)
           /\ Reply(m, "accepted")
        \/ /\ IF m.action = "check" THEN ~CheckAllowed ELSE ~PostAllowed
           /\ Reply(m, "refused") /\ UNCHANGED hostVars
  /\ UNCHANGED <<runs, effective>>

\* agent_request gives up: the connection failed or 30 seconds have passed.
GiveUp(c) ==
  /\ call[c].pc = "waiting"
  /\ \/ ~AgentUp /\ UNCHANGED hostFaults
     \/ MayFault /\ hostFaults' = [hostFaults EXCEPT !.count = @ + 1]
  /\ call' = [call EXCEPT ![c].pc = "answered", ![c].reply = "refused"]
  /\ UNCHANGED <<tip, checkout, stack, db, stateFile, job, writes, kept, runs, inbox, effective>>

\* Mutant: what the agent said goes into the row as it is.
OutcomeMutant(reply) ==
  CASE reply = "accepted" -> "accepted"
    [] reply \in {"available", "current"} -> "success"
    [] OTHER -> "failed"

\* Mutant: an accepted operation answers ok as well, and counts as a success at once.
OutcomeEagerMutant(reply) ==
  IF reply \in {"accepted", "available", "current"} THEN "success" ELSE "failed"

Outcome(reply) ==
  CASE reply = "accepted" -> "queued"
    [] reply \in {"available", "current"} -> "success"
    [] OTHER -> "failed"

\* The rest of run: the answer goes into the row; the worker may go on to apply.
RecordRun(c) ==
  /\ call[c].pc = "answered"
  /\ runs' = [runs EXCEPT ![call[c].run].status = Outcome(call[c].reply)]
  /\ \/ call' = [call EXCEPT ![c] = IdleCall]
     \/ /\ c = UpdateWorker /\ call[c].reply = "available"
        /\ call' = [call EXCEPT ![c] = [@ EXCEPT !.pc = "checked", !.run = 0, !.reply = "none"]]
  /\ UNCHANGED <<hostVars, inbox, effective>>

\* status: the latest run takes the outcome of the agent's operation, if it is its own.
StatusAllowed(r) ==
  /\ Polled /\ Ready /\ AgentUp
  /\ Latest(r) /\ runs[r].status = "queued"
  /\ stateFile.operation.id = r /\ ~Busy

Status(r) ==
  /\ StatusAllowed(r)
  /\ runs' = [runs EXCEPT ![r].status =
                IF stateFile.operation.status = "succeeded" THEN "success" ELSE "failed"]
  /\ UNCHANGED <<hostVars, call, inbox, effective>>

\* The API container stops: its request handlers are gone, what they sent is not.
ApiStops ==
  /\ call' = [c \in Caller |-> IdleCall]
  /\ UNCHANGED <<runs, inbox>>

\* The worker thread's steps, with the requests they end.
ThreadRuns ==
  \/ ThreadStep /\ UNCHANGED <<runs, call, inbox>>
  \/ StopStep /\ ApiStops
NotesSuccess ==
  effective' = IF job.pc = "finish" /\ job'.pc = "release" /\ job.ok THEN effective \cup {job.id}
               ELSE effective

Thread == ThreadRuns /\ NotesSuccess

FaultStep ==
  /\ UNCHANGED effective
  /\ \/ CommandFails /\ (IF stack' = 0 THEN ApiStops ELSE UNCHANGED <<runs, call, inbox>>)
     \/ HostFault /\ UNCHANGED <<runs, call, inbox>>

AgentComesBack == AgentRestarts /\ UNCHANGED runVars

DeploymentNext ==
  \/ \E c \in Caller, action \in AdminRuns, target \in {0} \cup Version :
       RequestRun(c, action, target)
  \/ WorkerChecks
  \/ WorkerApplies
  \/ AgentServes
  \/ \E c \in Caller : GiveUp(c) \/ RecordRun(c)
  \/ \E r \in OpId : Status(r)
  \/ Thread
  \/ FaultStep
  \/ AgentComesBack
  \/ World /\ UNCHANGED runVars

DeploymentSpec == DeploymentInit /\ [][DeploymentNext]_deployVars

\* The thread runs its commands, which have a time limit; systemd restarts the agent;
\* the agent serves its socket; request handlers end; the page polls.
DeploymentFairness ==
  /\ WF_deployVars(Thread) /\ WF_deployVars(AgentComesBack) /\ WF_deployVars(AgentServes)
  /\ \A c \in Caller : WF_deployVars(RecordRun(c))
  /\ \A r \in OpId : WF_deployVars(Status(r))

FairDeploymentSpec == DeploymentSpec /\ DeploymentFairness

-----------------------------------------------------------------------------

\* A run is recorded as a success only if the agent's operation for that run ended in
\* one (DeploymentUpdateService.status and .run).
RunOutcomeTrue ==
  \A r \in OpId : runs[r].status = "success" /\ runs[r].action # "check" => r \in effective

\* As long as nothing fails, the latest run does not stay queued: it is settled or a later
\* run takes its place (DeploymentUpdateService.status).
LatestRunQueued == \E r \in Used : Latest(r) /\ runs[r].status = "queued"
LatestRunSettles == LatestRunQueued ~> (~LatestRunQueued \/ hostFaults.count > 0)
=============================================================================
