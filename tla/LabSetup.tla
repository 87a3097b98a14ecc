------------------------------- MODULE LabSetup -------------------------------
(***************************************************************************)
(* The guided lab setup (api/routers/lab_setup.py): one save creates a lab *)
(* with its run and roster or edits them all, under the UUID of the        *)
(* submission and the ETag of what the instructor saw.                     *)
(*                                                                         *)
(* A save is two steps: the locks, checks and decisions, then the commit.  *)
(* The detailed pages (api/routers/classroom.py, classes_labs.py) and a    *)
(* student's provisioning go on meanwhile as far as the row locks of the   *)
(* save let them.                                                          *)
(***************************************************************************)
EXTENDS Integers

CONSTANTS
  Seat,       \* a student's slot
  Submission, \* request_id of a setup form
  NewLab,     \* the submissions that are POSTs, for a new lab; the others are PUTs
  Save,       \* saves under way at a time
  SetupRun,   \* labs with their run, in the order of their ids: 1..n
  LabPool     \* enabled desktop pools

ASSUME SetupAssumption ==
  SetupRun \subseteq Nat \ {0} /\ NewLab \subseteq Submission /\ LabPool # {}

VARIABLES
  setups,       \* lab_runs and labs rows with their assignments; a lab has one run
  forms,        \* what each submission asks for
  receipts,     \* lab_setup_receipts: the run each submission made or changed, or 0
  saves,        \* the submission each save works on
  provisioning, \* assignment rows create_vm holds while it talks to Proxmox
  savedTimes    \* history: commits of each submission

setupVars == <<setups, forms, receipts, saves, provisioning, savedTimes>>

\* planned: draft or scheduled; closed: ended or cancelled.
RunState == {"planned", "active", "closed"}
\* assigned: or ready.
SeatStatus == {"none", "assigned", "expired", "revoked"}
NoSeats == [s \in Seat |-> [status |-> "none", vm |-> FALSE]]
NoSetup == [state |-> "none", pool |-> CHOOSE p \in LabPool : TRUE, seats |-> NoSeats]
Contents == [state : {"none"} \cup RunState, pool : LabPool,
             seats : [Seat -> [status : SeatStatus, vm : BOOLEAN]]]

\* run 0: a new lab.  etag: what _snapshot showed, as a digest of all of it.
Form == [run : SetupRun \cup {0}, etag : Contents, seats : SUBSET Seat, pool : LabPool,
         state : {"none", "planned", "active"}]
NoForm == [run |-> 0, etag |-> NoSetup, seats |-> {}, pool |-> NoSetup.pool, state |-> "none"]
\* A form that has a receipt: the rest of it is never looked at again.
SpentForm(r) == [NoForm EXCEPT !.run = r, !.state = "planned"]
NoSave == [pc |-> "idle", by |-> "none"]

SetupTypeOK ==
  /\ setups \in [SetupRun -> Contents]
  /\ forms \in [Submission -> Form]
  /\ receipts \in [Submission -> SetupRun \cup {0}]
  /\ saves \in [Save -> [pc : {"idle", "create", "edit"}, by : Submission \cup {"none"}]]
  /\ provisioning \subseteq SetupRun \X Seat
  /\ savedTimes \in [Submission -> Nat]

SetupInit ==
  /\ setups = [r \in SetupRun |-> NoSetup]
  /\ forms = [q \in Submission |-> NoForm]
  /\ receipts = [q \in Submission |-> 0]
  /\ saves = [s \in Save |-> NoSave]
  /\ provisioning = {}
  /\ savedTimes = [q \in Submission |-> 0]

FormOf(s) == forms[saves[s].by]

\* The lab_runs row is held by no save: _run_for_user(lock=True).
RunFree(r) == \A s \in Save : ~(saves[s].pc = "edit" /\ FormOf(s).run = r)

\* Mutant: a save does not lock the assignments.
SeatFreeMutant(r, a) == <<r, a>> \notin provisioning

\* The lab_assignments row is held by no save and no create_vm.
SeatFree(r, a) == RunFree(r) /\ <<r, a>> \notin provisioning

Linked(r) == {a \in Seat : setups[r].seats[a].vm}

-----------------------------------------------------------------------------
(* The setup form.                                                         *)

\* The wizard is filled in: for a new lab, or over what get_setup returned.  Opening
\* a lab needs students.
FillIn(q, r, seats, pool, state) ==
  /\ forms[q] = NoForm /\ state \in {"planned", "active"} /\ (state = "active" => seats # {})
  /\ q \in NewLab <=> r = 0
  /\ r # 0 => setups[r].state # "none"
  /\ forms' = [forms EXCEPT ![q] = [run |-> r, seats |-> seats, pool |-> pool, state |-> state,
                                    etag |-> IF r = 0 THEN NoSetup ELSE setups[r]]]
  /\ UNCHANGED <<setups, receipts, saves, provisioning, savedTimes>>

\* A submission or a retry of it that is not answered from the receipt.
BeginSave(s, q, pc) ==
  /\ saves[s].pc = "idle" /\ forms[q] # NoForm /\ receipts[q] = 0
  /\ saves' = [saves EXCEPT ![s] = [pc |-> pc, by |-> q]]
  /\ UNCHANGED <<setups, forms, receipts, provisioning, savedTimes>>

BeginCreate(s, q) == forms[q].run = 0 /\ BeginSave(s, q, "create")

\* Mutant: a dropped student may have a VM.
SparesLinkedMutant(f) == setups[f.run].pool = f.pool \/ Linked(f.run) = {}

\* "A linked VM would be affected" otherwise.
SparesLinked(f) == Linked(f.run) \subseteq IF setups[f.run].pool = f.pool THEN f.seats ELSE {}

\* The run and its assignments are locked, and what the form was made over is what
\* they are.
BeginEdit(s, q) ==
  LET f == forms[q] IN
  /\ f.run # 0 /\ RunFree(f.run) /\ \A a \in Seat : SeatFree(f.run, a)
  /\ setups[f.run].state # "closed"
  /\ f.etag = setups[f.run]
  /\ setups[f.run].state = "active" => f.state = "active"
  /\ SparesLinked(f)
  /\ BeginSave(s, q, "edit")

\* The roster: the seats that are not in the form are revoked, the others made or
\* given back unless a VM is still linked.
Roster(seats, f) ==
  [a \in Seat |->
     IF a \notin f.seats
     THEN [seats[a] EXCEPT !.status = IF @ = "none" THEN @ ELSE "revoked"]
     ELSE [seats[a] EXCEPT !.status = IF @ = "none" \/ (@ = "revoked" /\ ~seats[a].vm)
                                      THEN "assigned" ELSE @]]

\* Mutant: the receipt is not a primary key.
SaveCommitMutant(s, r) ==
  LET f == FormOf(s)
      q == saves[s].by IN
  /\ saves[s].pc # "idle"
  /\ IF f.run = 0
     THEN setups[r].state = "none" /\ \A i \in SetupRun : i < r => setups[i].state # "none"
     ELSE f.run = r
  /\ setups' = [setups EXCEPT ![r] = [state |-> f.state, pool |-> f.pool,
                                      seats |-> Roster(setups[r].seats, f)]]
  /\ receipts' = [receipts EXCEPT ![q] = r]
  /\ savedTimes' = [savedTimes EXCEPT ![q] = @ + 1]
  /\ saves' = [saves EXCEPT ![s] = NoSave]
  /\ forms' = [forms EXCEPT ![q] = SpentForm(f.run)]
  /\ UNCHANGED provisioning

\* The commit, with the receipt.
SaveCommit(s, r) ==
  LET f == FormOf(s)
      q == saves[s].by IN
  /\ saves[s].pc # "idle" /\ receipts[q] = 0
  /\ IF f.run = 0
     THEN setups[r].state = "none" /\ \A i \in SetupRun : i < r => setups[i].state # "none"
     ELSE f.run = r
  /\ setups' = [setups EXCEPT ![r] = [state |-> f.state, pool |-> f.pool,
                                      seats |-> Roster(setups[r].seats, f)]]
  /\ receipts' = [receipts EXCEPT ![q] = r]
  /\ savedTimes' = [savedTimes EXCEPT ![q] = @ + 1]
  /\ saves' = [saves EXCEPT ![s] = NoSave]
  /\ forms' = [forms EXCEPT ![q] = SpentForm(f.run)]
  /\ UNCHANGED provisioning

\* Rolled back: any failure, or the receipt of a simultaneous retry, which answers.
SaveRollback(s) ==
  /\ saves[s].pc # "idle" /\ saves' = [saves EXCEPT ![s] = NoSave]
  /\ UNCHANGED <<setups, forms, receipts, provisioning, savedTimes>>

-----------------------------------------------------------------------------
(* What goes on around it.                                                 *)

Rewrite(r, c) ==
  /\ setups' = [setups EXCEPT ![r] = c]
  /\ UNCHANGED <<forms, receipts, saves, provisioning, savedTimes>>

\* change_lab_run_state: a schedule changes nothing here.
ActivateLab(r) ==
  /\ RunFree(r) /\ setups[r].state = "planned"
  /\ Rewrite(r, [setups[r] EXCEPT !.state = "active"])

\* The same, for an end (which expires the open seats) and a cancel (which revokes them).
CloseLab(r, status) ==
  /\ RunFree(r) /\ \A a \in Seat : SeatFree(r, a)
  /\ setups[r].state \in {"planned", "active"} /\ (status = "expired" => setups[r].state = "active")
  /\ Rewrite(r, [setups[r] EXCEPT !.state = "closed", !.seats =
       [a \in Seat |-> IF @[a].status = "assigned"
                       THEN [@[a] EXCEPT !.status = status] ELSE @[a]]])

\* patch_lab locks nothing, and asks nothing about linked VMs.
PatchLab(r, pool) ==
  setups[r].state # "none" /\ Rewrite(r, [setups[r] EXCEPT !.pool = pool])

\* create_run_assignment
AssignSeat(r, a) ==
  /\ RunFree(r) /\ setups[r].state \in {"planned", "active"}
  /\ \/ setups[r].seats[a].status = "none"
     \/ setups[r].seats[a].status = "revoked" /\ ~setups[r].seats[a].vm
  /\ Rewrite(r, [setups[r] EXCEPT !.seats[a].status = "assigned"])

\* revoke_run_assignment leaves the VM linked.
RevokeSeat(r, a) ==
  /\ SeatFree(r, a) /\ setups[r].seats[a].status # "none"
  /\ Rewrite(r, [setups[r] EXCEPT !.seats[a].status = "revoked"])

\* create_vm: the student's assignment is locked, and linked when Proxmox has answered.
BeginProvision(r, a) ==
  /\ SeatFree(r, a) /\ setups[r].state = "active"
  /\ setups[r].seats[a].status = "assigned" /\ ~setups[r].seats[a].vm
  /\ provisioning' = provisioning \cup {<<r, a>>}
  /\ UNCHANGED <<setups, forms, receipts, saves, savedTimes>>

EndProvision(r, a, linked) ==
  /\ <<r, a>> \in provisioning /\ provisioning' = provisioning \ {<<r, a>>}
  /\ setups' = [setups EXCEPT ![r].seats[a].vm = linked]
  /\ UNCHANGED <<forms, receipts, saves, savedTimes>>

\* A delete has run: the VM is unlinked.
VmDeleted(r, a, status) ==
  /\ setups[r].seats[a].vm /\ SeatFree(r, a)
  /\ Rewrite(r, [setups[r] EXCEPT !.seats[a] = [status |-> status, vm |-> FALSE]])

SetupNext ==
  \/ \E q \in Submission :
       \/ \E r \in SetupRun \cup {0}, seats \in SUBSET Seat, p \in LabPool,
             state \in {"planned", "active"} : FillIn(q, r, seats, p, state)
       \/ \E s \in Save : BeginCreate(s, q) \/ BeginEdit(s, q)
  \/ \E s \in Save : SaveRollback(s) \/ \E r \in SetupRun : SaveCommit(s, r)
  \/ \E r \in SetupRun :
       \/ ActivateLab(r)
       \/ \E status \in {"expired", "revoked"} : CloseLab(r, status)
       \/ \E p \in LabPool : PatchLab(r, p)
       \/ \E a \in Seat :
            \/ AssignSeat(r, a) \/ RevokeSeat(r, a) \/ BeginProvision(r, a)
            \/ \E linked \in BOOLEAN : EndProvision(r, a, linked)
            \/ \E status \in {"assigned", "expired"} : VmDeleted(r, a, status)

SetupSpec == SetupInit /\ [][SetupNext]_setupVars

\* docs/classroom/lab-runs-and-assignments.md: the receipt "prevents duplicate retries":
\* however a submission is repeated, it is committed at most once.
SetupOnce == \A q \in Submission : savedTimes[q] <= 1

\* "Edits require the snapshot ETag and lock the run/assignment rows; changed VM bindings
\* invalidate the edit": until an edit commits, the run and its assignments are still
\* what the instructor saw.  (The lab's own row is not locked: patch_lab.)
EditsBuildOnLatest ==
  \A s \in Save : saves[s].pc = "edit" =>
    LET now == setups[FormOf(s).run] IN
    now.state = FormOf(s).etag.state /\ now.seats = FormOf(s).etag.seats

\* "Roster removal does not ... silently detach a VM": a seat with a VM comes out of a
\* commit as it went in, whoever linked the VM and whenever.
LinkedVmKeepsAssignment ==
  [][\A r \in SetupRun, a \in Seat :
       setups[r].seats[a].vm /\ receipts' # receipts => setups'[r].seats[a] = setups[r].seats[a]]_setupVars
=============================================================================
