------------------------------ MODULE AssetSync ------------------------------
(***************************************************************************)
(* Asset synchronisation: jobs that make a Proxmox node download an ISO or *)
(* a container template (services/asset_sync.py, services/proxmox_assets.py) *)
(* and the worker that claims them under a lease                           *)
(* (workers/asset_sync_worker.py).  One worker per API process; a step is  *)
(* one call of Proxmox with the transaction that follows its answer.       *)
(***************************************************************************)
EXTENDS Integers

CONSTANTS
  SyncWorker,
  SyncNode,      \* Proxmox nodes
  MaxJobs,       \* bound: jobs queued
  MaxDownloads,  \* bound: download tasks Proxmox starts
  MaxSyncFaults  \* bound: crashes, lost answers, overlong leases, download failures

ASSUME SyncBounds == MaxJobs \in Nat /\ MaxDownloads \in Nat /\ MaxSyncFaults \in Nat

VARIABLES
  syncJobs,   \* asset_sync_jobs rows, in the order of their ids
  syncer,     \* what each worker is doing
  downloads,  \* download-url tasks of Proxmox VE
  onNode,     \* the nodes that have the file
  syncFaults  \* history: faults so far; late: a live worker outlived its lease

syncVars == <<syncJobs, syncer, downloads, onNode, syncFaults>>

JobId == 1..MaxJobs
NoJob == [state |-> "none", node |-> "none", lease |-> "none", upid |-> 0]
IdleSyncer == [pc |-> "idle", job |-> 0]
Settled == {"verified", "failed"}

SyncTypeOK ==
  /\ syncJobs \in [JobId -> [state : {"none", "queued", "running", "syncing"} \cup Settled,
                             node : SyncNode \cup {"none"},
                             lease : {"none", "live", "expired"}, upid : 0..MaxDownloads]]
  /\ syncer \in [SyncWorker -> [pc : {"idle", "discover", "submit", "poll", "verify"},
                                job : 0..MaxJobs]]
  /\ downloads \in [1..MaxDownloads -> [node : SyncNode \cup {"none"},
                                        state : {"none", "running", "ok", "failed"}]]
  /\ onNode \subseteq SyncNode
  /\ syncFaults \in [count : 0..MaxSyncFaults, late : BOOLEAN]

SyncInit ==
  /\ syncJobs = [j \in JobId |-> NoJob]
  /\ syncer = [w \in SyncWorker |-> IdleSyncer]
  /\ downloads = [t \in 1..MaxDownloads |-> [node |-> "none", state |-> "none"]]
  /\ onNode = {} /\ syncFaults = [count |-> 0, late |-> FALSE]

Faulty == syncFaults.count < MaxSyncFaults /\ syncFaults' = [syncFaults EXCEPT !.count = @ + 1]

\* enqueue_iso, enqueue_ct_template; several jobs may be for one node.
EnqueueAsset(j, n) ==
  /\ syncJobs[j].state = "none" /\ \A i \in 1..(j - 1) : syncJobs[i].state # "none"
  /\ syncJobs' = [syncJobs EXCEPT ![j].state = "queued", ![j].node = n]
  /\ UNCHANGED <<syncer, downloads, onNode, syncFaults>>

\* Mutant: running jobs are never taken over.
ClaimableJobMutant(j) == syncJobs[j].state = "queued"

\* The query of run_once.
ClaimableJob(j) ==
  \/ syncJobs[j].state = "queued"
  \/ syncJobs[j].state \in {"running", "syncing"} /\ syncJobs[j].lease # "live"

ClaimJob(w) ==
  /\ syncer[w].pc = "idle"
  /\ \E j \in JobId :
       /\ ClaimableJob(j) /\ \A i \in 1..(j - 1) : ~ClaimableJob(i)
       /\ syncJobs' = [syncJobs EXCEPT ![j].state = "running", ![j].lease = "live"]
       /\ syncer' = [syncer EXCEPT ![w] = [pc |-> "discover", job |-> j]]
  /\ UNCHANGED <<downloads, onNode, syncFaults>>

\* _finish, by a worker that then has nothing more to do.
FinishJob(w, state) ==
  /\ syncJobs' = [syncJobs EXCEPT ![syncer[w].job].state = state, ![syncer[w].job].lease = "none"]
  /\ syncer' = [syncer EXCEPT ![w] = IdleSyncer]

\* Mutant: a job that is taken over submits its download again.
DiscoverMutant(w) ==
  /\ syncer[w].pc = "discover"
  /\ IF syncJobs[syncer[w].job].node \in onNode
     THEN FinishJob(w, "verified")
     ELSE syncer' = [syncer EXCEPT ![w].pc = "submit"] /\ UNCHANGED syncJobs
  /\ UNCHANGED <<downloads, onNode, syncFaults>>

\* The content listing: done already, or go on with the recorded task, or submit one.
Discover(w) ==
  LET j == syncer[w].job IN
  /\ syncer[w].pc = "discover"
  /\ IF syncJobs[j].node \in onNode THEN FinishJob(w, "verified")
     ELSE IF syncJobs[j].upid # 0
     THEN /\ syncJobs' = [syncJobs EXCEPT ![j].state = "syncing"]
          /\ syncer' = [syncer EXCEPT ![w].pc = "poll"]
     ELSE syncer' = [syncer EXCEPT ![w].pc = "submit"] /\ UNCHANGED syncJobs
  /\ UNCHANGED <<downloads, onNode, syncFaults>>

NewDownload(t, n) ==
  /\ downloads[t].state = "none" /\ \A i \in 1..(t - 1) : downloads[i].state # "none"
  /\ downloads' = [downloads EXCEPT ![t] = [node |-> n, state |-> "running"]]

\* download_url is answered, and the UPID is committed.
Download(w, t) ==
  LET j == syncer[w].job IN
  /\ syncer[w].pc = "submit" /\ NewDownload(t, syncJobs[j].node)
  /\ syncJobs' = [syncJobs EXCEPT ![j].upid = t, ![j].state = "syncing"]
  /\ syncer' = [syncer EXCEPT ![w].pc = "poll"]
  /\ UNCHANGED <<onNode, syncFaults>>

\* The download starts, but the answer or the worker is lost.
DownloadUnrecorded(w, t) ==
  /\ syncer[w].pc = "submit" /\ NewDownload(t, syncJobs[syncer[w].job].node) /\ Faulty
  /\ \/ FinishJob(w, "failed")
     \/ syncer' = [syncer EXCEPT ![w] = IdleSyncer] /\ UNCHANGED syncJobs
  /\ UNCHANGED onNode

\* A poll that finds no result: the lease is renewed.
PollAgain(w) ==
  /\ syncer[w].pc = "poll" /\ downloads[syncJobs[syncer[w].job].upid].state = "running"
  /\ syncJobs' = [syncJobs EXCEPT ![syncer[w].job].lease = "live"]
  /\ UNCHANGED <<syncer, downloads, onNode, syncFaults>>

\* A poll that finds the result.
PollEnds(w) ==
  LET task == downloads[syncJobs[syncer[w].job].upid].state IN
  /\ syncer[w].pc = "poll" /\ task # "running"
  /\ IF task = "ok"
     THEN /\ syncer' = [syncer EXCEPT ![w].pc = "verify"]
          /\ syncJobs' = [syncJobs EXCEPT ![syncer[w].job].lease = "live"]
     ELSE FinishJob(w, "failed")
  /\ UNCHANGED <<downloads, onNode, syncFaults>>

\* _verify_on_node
VerifyOnNode(w) ==
  /\ syncer[w].pc = "verify"
  /\ FinishJob(w, IF syncJobs[syncer[w].job].node \in onNode THEN "verified" ELSE "failed")
  /\ UNCHANGED <<downloads, onNode, syncFaults>>

\* Any call fails, or the polls run out: the job fails.
CallFails(w) ==
  /\ syncer[w].pc # "idle" /\ FinishJob(w, "failed") /\ Faulty
  /\ UNCHANGED <<downloads, onNode>>

WorkerDies(w) ==
  /\ syncer[w].pc # "idle" /\ syncer' = [syncer EXCEPT ![w] = IdleSyncer] /\ Faulty
  /\ UNCHANGED <<syncJobs, downloads, onNode>>

\* The lease runs out: for a job nobody works on, or under a worker that is late.
Worked(j) == \E w \in SyncWorker : syncer[w].job = j
LeaseRunsOut(j) ==
  /\ syncJobs[j].lease = "live" /\ syncJobs' = [syncJobs EXCEPT ![j].lease = "expired"]
  /\ IF Worked(j) THEN /\ syncFaults.count < MaxSyncFaults
                       /\ syncFaults' = [count |-> syncFaults.count + 1, late |-> TRUE]
     ELSE UNCHANGED syncFaults
  /\ UNCHANGED <<syncer, downloads, onNode>>

\* Proxmox: the download ends, and the second of two for a file may fail for it.
DownloadEnds(t) ==
  /\ downloads[t].state = "running"
  /\ \/ /\ downloads' = [downloads EXCEPT ![t].state = "ok"]
        /\ onNode' = onNode \cup {downloads[t].node}
     \/ downloads' = [downloads EXCEPT ![t].state = "failed"] /\ UNCHANGED onNode
  /\ UNCHANGED <<syncJobs, syncer, syncFaults>>

SyncStep(w) ==
  \/ Discover(w) \/ PollAgain(w) \/ PollEnds(w) \/ VerifyOnNode(w)
  \/ \E t \in 1..MaxDownloads : Download(w, t)

SyncNext ==
  \/ \E j \in JobId : LeaseRunsOut(j) \/ \E n \in SyncNode : EnqueueAsset(j, n)
  \/ \E w \in SyncWorker : \/ ClaimJob(w) \/ SyncStep(w) \/ CallFails(w) \/ WorkerDies(w)
                           \/ \E t \in 1..MaxDownloads : DownloadUnrecorded(w, t)
  \/ \E t \in 1..MaxDownloads : DownloadEnds(t)

SyncSpec == SyncInit /\ [][SyncNext]_syncVars

\* The scheduler runs the worker every two seconds, calls have time limits, downloads end.
SyncFairness ==
  /\ \A w \in SyncWorker : WF_syncVars(ClaimJob(w) \/ SyncStep(w))
  /\ \A j \in JobId : WF_syncVars(~Worked(j) /\ LeaseRunsOut(j))
  /\ WF_syncVars(\E t \in 1..MaxDownloads : DownloadEnds(t))

-----------------------------------------------------------------------------

\* A download whose UPID is recorded is waited for, not submitted again, whichever worker
\* takes the job over (upid = job.proxmox_upid or ... in process_job).  Nothing fences a
\* worker that outlives its lease: it may write over the work of the next one.
RecordedDownloadNotRepeated ==
  [][\A j \in JobId : syncJobs[j].upid # 0 =>
       syncJobs'[j].upid = syncJobs[j].upid \/ syncFaults'.late]_syncVars

\* Every job ends verified or failed, also when its worker dies.  A worker that is late
\* may put a failed job back to syncing, and two workers can go on passing it to and fro.
SyncJobsSettle ==
  []<>(syncFaults.late \/ \A j \in JobId : syncJobs[j].state \in Settled \cup {"none"})
=============================================================================
