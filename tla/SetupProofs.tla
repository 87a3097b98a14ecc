---------------------------- MODULE SetupProofs -----------------------------
(***************************************************************************)
(* Proofs about what staff and administrators set up: the lab setup form,  *)
(* the template catalog and the registration of clusters, for any number   *)
(* of labs, students, submissions, servers, templates and bootstraps.      *)
(***************************************************************************)
EXTENDS LabSetup, TemplateCatalog, ClusterSetup, TLAPS

-----------------------------------------------------------------------------
(* The lab setup form.                                                     *)

Seats == [Seat -> [status : SeatStatus, vm : BOOLEAN]]

-----------------------------------------------------------------------------
(* The inductive invariant.                                                *)

\* A form asks for something until its receipt is there; an edit was made over a lab.
FormFits(q) ==
  /\ forms[q] = NoForm \/ forms[q].state # "none"
  /\ forms[q].run # 0 /\ receipts[q] = 0 => forms[q].etag.state # "none"

\* A save works on a form; an edit holds its run as the instructor saw it, with no
\* provisioning under way and no linked student dropped.
SaveFits(s) ==
  /\ saves[s].pc # "idle" => saves[s].by \in Submission /\ FormOf(s).state # "none"
  /\ saves[s].pc = "create" => FormOf(s).run = 0
  /\ saves[s].pc = "edit" =>
       /\ FormOf(s).run \in SetupRun /\ receipts[saves[s].by] = 0
       /\ setups[FormOf(s).run].state # "none"
       /\ setups[FormOf(s).run].state = FormOf(s).etag.state
       /\ setups[FormOf(s).run].seats = FormOf(s).etag.seats
       /\ \A a \in Seat : <<FormOf(s).run, a>> \notin provisioning
       /\ Linked(FormOf(s).run) \subseteq FormOf(s).seats

\* One save at a time edits a run: the row lock.
EditsExclude ==
  \A s, t \in Save : saves[s].pc = "edit" /\ saves[t].pc = "edit" /\ FormOf(s).run = FormOf(t).run
                     => s = t

\* A VM has a seat, and a seat a lab.
SeatsFit(r) ==
  \A a \in Seat :
    /\ setups[r].seats[a].vm \/ <<r, a>> \in provisioning => setups[r].seats[a].status # "none"
    /\ setups[r].seats[a].status # "none" => setups[r].state # "none"

\* A commit leaves a receipt.
CommitsCounted(q) == savedTimes[q] <= 1 /\ (receipts[q] = 0 => savedTimes[q] = 0)

SetupInv ==
  /\ SetupTypeOK
  /\ \A q \in Submission : FormFits(q) /\ CommitsCounted(q)
  /\ \A s \in Save : SaveFits(s)
  /\ EditsExclude
  /\ \A r \in SetupRun : SeatsFit(r)

-----------------------------------------------------------------------------

\* The empty row is a row.
LEMMA NoSetupFits == NoSetup \in Contents
BY SetupAssumption DEF NoSetup, Contents, NoSeats, RunState, SeatStatus

\* So are the forms a submission starts from and goes back to.
LEMMA FormsFit ==
  /\ NoForm \in Form
  /\ \A r \in SetupRun \cup {0} : SpentForm(r) \in Form /\ SpentForm(r).run = r
                                  /\ SpentForm(r).state = "planned"
BY NoSetupFits, SetupAssumption DEF NoForm, SpentForm, Form, Contents

\* A run's row whose state and seats are written over is a row again.
RowWith(c, state, seats) == [c EXCEPT !.state = state, !.seats = seats]

\* Its other columns stay.
LEMMA RowWritten ==
  ASSUME NEW c \in Contents, NEW seats \in Seats, NEW state \in {"none"} \cup RunState
  PROVE  /\ RowWith(c, state, seats) \in Contents
         /\ RowWith(c, state, seats).state = state /\ RowWith(c, state, seats).seats = seats
<1>1. Contents = [state : {"none"} \cup RunState, pool : LabPool, seats : Seats]
  BY DEF Contents, Seats
<1>2. c.pool \in LabPool
  BY <1>1
<1> QED BY <1>1, <1>2 DEF RowWith

\* The invariant holds of the empty tables.
LEMMA SetupInvInit == SetupInit => SetupInv
<1> SUFFICES ASSUME SetupInit PROVE SetupInv
  OBVIOUS
<1>1. SetupTypeOK
  BY NoSetupFits, FormsFit DEF SetupInit, SetupTypeOK, NoSave
<1>2. \A q \in Submission : FormFits(q) /\ CommitsCounted(q)
  BY DEF SetupInit, FormFits, CommitsCounted, NoForm
<1>3. \A s \in Save : saves[s].pc = "idle"
  BY DEF SetupInit, NoSave
<1>4. \A r \in SetupRun : SeatsFit(r)
  BY DEF SetupInit, SeatsFit, NoSetup, NoSeats
<1> QED BY <1>1, <1>2, <1>3, <1>4 DEF SetupInv, SaveFits, EditsExclude

\* A run is written over with no form, receipt or save touched: it stays a lab with its
\* seats, and nobody is editing it or finds a difference.
LEMMA RunRewritten ==
  ASSUME SetupInv, NEW r \in SetupRun, NEW c \in Contents,
         setups' = [setups EXCEPT ![r] = c], c.state # "none",
         UNCHANGED <<forms, receipts, saves, savedTimes>>, provisioning' \subseteq provisioning,
         \A a \in Seat : setups[r].seats[a].status # "none" \/ c.seats[a].vm
                           => c.seats[a].status # "none",
         RunFree(r) \/ (c.state = setups[r].state /\ c.seats = setups[r].seats)
  PROVE  SetupInv'
<1>types. /\ setups \in [SetupRun -> Contents] /\ SetupTypeOK
  BY DEF SetupInv, SetupTypeOK
<1>1. SetupTypeOK'
  BY <1>types DEF SetupTypeOK
<1>2. (\A q \in Submission : FormFits(q) /\ CommitsCounted(q))' /\ EditsExclude'
  BY DEF SetupInv, FormFits, CommitsCounted, EditsExclude, FormOf
<1>3. ASSUME NEW s \in Save PROVE SaveFits(s)'
  <2>1. SaveFits(s) /\ FormOf(s)' = FormOf(s) /\ saves'[s] = saves[s]
    BY DEF SetupInv, FormOf
  <2>2. CASE saves[s].pc = "edit" /\ FormOf(s).run = r
    <3>1. c.state = setups[r].state /\ c.seats = setups[r].seats
      BY <2>2 DEF RunFree
    <3>2. setups'[r].state = setups[r].state /\ setups'[r].seats = setups[r].seats
      BY <3>1, <1>types
    <3> QED BY <2>1, <2>2, <3>2 DEF SaveFits, Linked
  <2>3. CASE saves[s].pc = "edit" /\ FormOf(s).run # r
    BY <2>1, <2>3, <1>types DEF SaveFits, Linked
  <2> QED BY <2>1, <2>2, <2>3 DEF SaveFits
<1>4. ASSUME NEW p \in SetupRun PROVE SeatsFit(p)'
  <2>1. SeatsFit(p)
    BY DEF SetupInv
  <2> QED BY <2>1, <1>types DEF SeatsFit
<1> QED BY <1>1, <1>2, <1>3, <1>4 DEF SetupInv

\* A save begins: the form is there, and an edit has what SaveFits asks for.
LEMMA SaveBegins ==
  ASSUME SetupInv, NEW s \in Save, NEW q \in Submission, NEW pc \in {"create", "edit"},
         BeginSave(s, q, pc), pc = "create" => forms[q].run = 0,
         pc = "edit" => /\ forms[q].run \in SetupRun /\ RunFree(forms[q].run)
                        /\ setups[forms[q].run] = forms[q].etag
                        /\ \A a \in Seat : <<forms[q].run, a>> \notin provisioning
                        /\ Linked(forms[q].run) \subseteq forms[q].seats
  PROVE  SetupInv'
<1>1. /\ saves[s].pc = "idle" /\ forms[q] # NoForm /\ receipts[q] = 0
      /\ saves' = [saves EXCEPT ![s] = [pc |-> pc, by |-> q]]
      /\ UNCHANGED <<setups, forms, receipts, provisioning, savedTimes>>
  BY DEF BeginSave
<1>types. SetupTypeOK /\ saves \in [Save -> [pc : {"idle", "create", "edit"}, by : Submission \cup {"none"}]]
  BY DEF SetupInv, SetupTypeOK
<1>2. SetupTypeOK'
  BY <1>types, <1>1 DEF SetupTypeOK
<1>3. (\A x \in Submission : FormFits(x) /\ CommitsCounted(x))' /\ (\A r \in SetupRun : SeatsFit(r))'
  BY <1>1 DEF SetupInv, FormFits, CommitsCounted, SeatsFit
<1>4. saves'[s].pc = pc /\ saves'[s].by = q /\ FormOf(s)' = forms[q]
  BY <1>1, <1>types DEF FormOf
<1>5. \A t \in Save : t # s => saves'[t] = saves[t] /\ FormOf(t)' = FormOf(t)
  BY <1>1, <1>types DEF FormOf
<1>6. SaveFits(s)'
  <2>1. FormFits(q)
    BY DEF SetupInv
  <2>2. pc = "edit" => forms[q].run # 0
    BY SetupAssumption
  <2> QED BY <2>1, <2>2, <1>1, <1>4 DEF SaveFits, FormFits, Linked
<1>7. \A t \in Save : t # s => SaveFits(t)'
  BY <1>1, <1>5 DEF SetupInv, SaveFits, Linked
<1>8. EditsExclude'
  BY <1>1, <1>4, <1>5, <1>types DEF SetupInv, EditsExclude, RunFree
<1> QED BY <1>2, <1>3, <1>6, <1>7, <1>8 DEF SetupInv

\* What a commit makes of the seats: types, and nothing is forgotten.
LEMMA RosterKeeps ==
  ASSUME NEW seats \in Seats, NEW f \in Form
  PROVE  /\ Roster(seats, f) \in Seats
         /\ \A a \in Seat : /\ Roster(seats, f)[a].vm = seats[a].vm
                            /\ seats[a].status # "none" => Roster(seats, f)[a].status # "none"
                            /\ a \in f.seats /\ seats[a].vm /\ seats[a].status # "none"
                                 => Roster(seats, f)[a] = seats[a]
<1>1. ASSUME NEW a \in Seat
      PROVE  LET row == IF a \notin f.seats
                        THEN [seats[a] EXCEPT !.status = IF @ = "none" THEN @ ELSE "revoked"]
                        ELSE [seats[a] EXCEPT !.status = IF @ = "none" \/ (@ = "revoked" /\ ~seats[a].vm)
                                                         THEN "assigned" ELSE @]
             IN /\ row \in [status : SeatStatus, vm : BOOLEAN] /\ row.vm = seats[a].vm
                /\ seats[a].status # "none" => row.status # "none"
                /\ a \in f.seats /\ seats[a].vm /\ seats[a].status # "none" => row = seats[a]
  <2>1. seats[a] \in [status : SeatStatus, vm : BOOLEAN]
    BY DEF Seats
  <2> QED BY <2>1 DEF SeatStatus
<1> QED BY <1>1 DEF Roster, Seats

-----------------------------------------------------------------------------
(* The commit of a save.                                                   *)

\* What SaveCommit does, with the row it writes named.
Saved(s, r) ==
  [state |-> FormOf(s).state, pool |-> FormOf(s).pool, seats |-> Roster(setups[r].seats, FormOf(s))]

\* What a commit writes, and what it has found under its locks.
LEMMA CommitEffect ==
  ASSUME SetupInv, NEW s \in Save, NEW r \in SetupRun, SaveCommit(s, r)
  PROVE  /\ saves[s].pc # "idle" /\ saves[s].by \in Submission /\ receipts[saves[s].by] = 0
         /\ FormOf(s) \in Form /\ FormOf(s).state # "none"
         /\ (FormOf(s).run = 0 /\ setups[r].state = "none") \/ FormOf(s).run = r
         /\ Saved(s, r) \in Contents
         /\ setups' = [setups EXCEPT ![r] = Saved(s, r)]
         /\ receipts' = [receipts EXCEPT ![saves[s].by] = r]
         /\ savedTimes' = [savedTimes EXCEPT ![saves[s].by] = @ + 1]
         /\ saves' = [saves EXCEPT ![s] = NoSave]
         /\ forms' = [forms EXCEPT ![saves[s].by] = SpentForm(FormOf(s).run)]
         /\ provisioning' = provisioning
<1>1. /\ saves[s].pc # "idle" /\ receipts[saves[s].by] = 0
      /\ (FormOf(s).run = 0 /\ setups[r].state = "none") \/ FormOf(s).run = r
      /\ setups' = [setups EXCEPT ![r] = Saved(s, r)]
      /\ receipts' = [receipts EXCEPT ![saves[s].by] = r]
      /\ savedTimes' = [savedTimes EXCEPT ![saves[s].by] = @ + 1]
      /\ saves' = [saves EXCEPT ![s] = NoSave]
      /\ forms' = [forms EXCEPT ![saves[s].by] = SpentForm(FormOf(s).run)]
      /\ provisioning' = provisioning
  BY DEF SaveCommit, Saved
<1>2. saves[s].by \in Submission /\ FormOf(s).state # "none"
  BY <1>1 DEF SetupInv, SaveFits
<1>3. FormOf(s) \in Form
  BY <1>2 DEF SetupInv, SetupTypeOK, FormOf
<1>4. setups[r] \in Contents
  BY DEF SetupInv, SetupTypeOK
<1>5. Roster(setups[r].seats, FormOf(s)) \in Seats
  BY <1>3, <1>4, RosterKeeps DEF Contents, Seats
<1>6. FormOf(s).state \in {"none"} \cup RunState /\ FormOf(s).pool \in LabPool
  BY <1>3 DEF Form, RunState
<1> QED BY <1>1, <1>2, <1>3, <1>5, <1>6 DEF Saved, Contents, Seats

\* Saves under way at a commit are about other forms and other runs.
LEMMA OtherSaves ==
  ASSUME SetupInv, NEW s \in Save, NEW r \in SetupRun, SaveCommit(s, r), NEW t \in Save, t # s,
         saves[t].pc = "edit"
  PROVE  saves[t].by # saves[s].by /\ FormOf(t).run # r
<1>1. /\ (FormOf(s).run = 0 /\ setups[r].state = "none") \/ FormOf(s).run = r
      /\ saves[s].pc \in {"create", "edit"}
  BY CommitEffect DEF SetupInv, SetupTypeOK
<1>2. FormOf(t).run \in SetupRun /\ setups[FormOf(t).run].state # "none" /\ FormOf(t).run # 0
  BY SetupAssumption DEF SetupInv, SaveFits
<1>3. saves[s].pc = "create" => FormOf(s).run = 0
  BY DEF SetupInv, SaveFits
<1>4. saves[s].pc = "edit" => FormOf(s).run # 0 /\ FormOf(s).run # FormOf(t).run
  BY SetupAssumption DEF SetupInv, SaveFits, EditsExclude
<1>5. FormOf(s).run # FormOf(t).run
  BY <1>1, <1>2, <1>3, <1>4
<1>6. r # 0
  BY SetupAssumption
<1> QED BY <1>1, <1>2, <1>5, <1>6 DEF FormOf

\* A commit keeps the invariant: the locks of the others and their forms still fit.
LEMMA SaveCommitKeeps ==
  ASSUME SetupInv, NEW s \in Save, NEW r \in SetupRun, SaveCommit(s, r)
  PROVE  SetupInv'
<1> DEFINE q == saves[s].by
<1>1. /\ saves[s].pc # "idle" /\ q \in Submission /\ receipts[q] = 0
      /\ FormOf(s) \in Form /\ FormOf(s).state # "none" /\ Saved(s, r) \in Contents
      /\ setups' = [setups EXCEPT ![r] = Saved(s, r)]
      /\ receipts' = [receipts EXCEPT ![q] = r]
      /\ savedTimes' = [savedTimes EXCEPT ![q] = @ + 1]
      /\ saves' = [saves EXCEPT ![s] = NoSave]
      /\ forms' = [forms EXCEPT ![q] = SpentForm(FormOf(s).run)]
      /\ provisioning' = provisioning
  BY CommitEffect
<1>types. /\ setups \in [SetupRun -> Contents] /\ forms \in [Submission -> Form]
          /\ receipts \in [Submission -> SetupRun \cup {0}]
          /\ saves \in [Save -> [pc : {"idle", "create", "edit"}, by : Submission \cup {"none"}]]
          /\ provisioning \subseteq SetupRun \X Seat /\ savedTimes \in [Submission -> Nat]
  BY DEF SetupInv, SetupTypeOK
<1>spent. /\ SpentForm(FormOf(s).run) \in Form /\ SpentForm(FormOf(s).run).state = "planned"
          /\ SpentForm(FormOf(s).run).run = FormOf(s).run
  BY <1>1, FormsFit DEF Form
<1>pos. r # 0
  BY SetupAssumption
<1>2. SetupTypeOK'
  <2>1. setups' \in [SetupRun -> Contents] /\ forms' \in [Submission -> Form]
    BY <1>1, <1>types, <1>spent
  <2>2. /\ receipts' \in [Submission -> SetupRun \cup {0}] /\ provisioning' \subseteq SetupRun \X Seat
        /\ savedTimes' \in [Submission -> Nat]
    BY <1>1, <1>types
  <2>3. saves' \in [Save -> [pc : {"idle", "create", "edit"}, by : Submission \cup {"none"}]]
    BY <1>1, <1>types DEF NoSave
  <2> QED BY <2>1, <2>2, <2>3 DEF SetupTypeOK
<1>3. ASSUME NEW x \in Submission PROVE FormFits(x)' /\ CommitsCounted(x)'
  <2>1. FormFits(x) /\ CommitsCounted(x)
    BY DEF SetupInv
  <2>2. CASE x = q
    <3>1. forms'[x].state = "planned" /\ receipts'[x] = r /\ savedTimes'[x] = savedTimes[x] + 1
      BY <2>2, <1>1, <1>types, <1>spent
    <3> QED BY <2>1, <2>2, <3>1, <1>1, <1>types, <1>pos DEF FormFits, CommitsCounted
  <2>3. CASE x # q
    BY <2>1, <2>3, <1>1, <1>types DEF FormFits, CommitsCounted
  <2> QED BY <2>2, <2>3
<1>4. ASSUME NEW t \in Save PROVE SaveFits(t)'
  <2>1. CASE t = s
    BY <2>1, <1>1, <1>types DEF SaveFits, NoSave
  <2>2. CASE t # s
    <3>1. saves'[t] = saves[t] /\ SaveFits(t)
      BY <2>2, <1>1, <1>types DEF SetupInv
    <3>2. CASE saves[t].pc = "edit"
      <4>1. saves[t].by # q /\ FormOf(t).run # r /\ saves[t].by \in Submission
        BY <2>2, <3>1, <3>2, OtherSaves DEF SaveFits
      <4>2. FormOf(t)' = FormOf(t) /\ receipts'[saves[t].by] = receipts[saves[t].by]
        BY <3>1, <4>1, <1>1, <1>types DEF FormOf
      <4>3. setups'[FormOf(t).run] = setups[FormOf(t).run]
        BY <3>1, <3>2, <4>1, <1>1, <1>types DEF SaveFits
      <4> QED BY <3>1, <3>2, <4>1, <4>2, <4>3, <1>1 DEF SaveFits, Linked
    <3>3. CASE saves[t].pc = "create"
      <4>1. saves[t].by \in Submission /\ FormOf(t).run = 0 /\ FormOf(t).state # "none"
        BY <3>1, <3>3 DEF SaveFits
      <4>2. FormOf(t)'.run = FormOf(t).run /\ FormOf(t)'.state # "none"
        BY <3>1, <4>1, <1>1, <1>types, <1>spent DEF FormOf
      <4> QED BY <3>1, <3>3, <4>1, <4>2 DEF SaveFits
    <3> QED BY <3>1, <3>2, <3>3, <1>types DEF SaveFits
  <2> QED BY <2>1, <2>2
<1>5. EditsExclude'
  <2> SUFFICES ASSUME NEW t \in Save, NEW v \in Save, saves'[t].pc = "edit", saves'[v].pc = "edit",
                      FormOf(t)'.run = FormOf(v)'.run
               PROVE  t = v
    BY DEF EditsExclude
  <2>1. t # s /\ v # s /\ saves'[t] = saves[t] /\ saves'[v] = saves[v]
    BY <1>1, <1>types DEF NoSave
  <2>2. FormOf(t)' = FormOf(t) /\ FormOf(v)' = FormOf(v)
    <3>1. saves[t].by # q /\ saves[v].by # q
      BY <2>1, OtherSaves
    <3>2. saves[t].by \in Submission /\ saves[v].by \in Submission
      BY <2>1 DEF SetupInv, SaveFits
    <3> QED BY <2>1, <3>1, <3>2, <1>1, <1>types DEF FormOf
  <2> QED BY <2>1, <2>2 DEF SetupInv, EditsExclude
<1>6. ASSUME NEW p \in SetupRun PROVE SeatsFit(p)'
  <2>1. SeatsFit(p)
    BY DEF SetupInv
  <2>2. CASE p # r
    BY <2>1, <2>2, <1>1, <1>types DEF SeatsFit
  <2>3. CASE p = r
    <3>1. setups[r].seats \in Seats
      BY <1>types DEF Contents, Seats
    <3>2. setups'[r].state # "none" /\ setups'[r].seats = Roster(setups[r].seats, FormOf(s))
      BY <1>1, <1>types DEF Saved
    <3>3. \A a \in Seat : /\ setups'[r].seats[a].vm = setups[r].seats[a].vm
                          /\ setups[r].seats[a].status # "none" => setups'[r].seats[a].status # "none"
      BY <1>1, <3>1, <3>2, RosterKeeps
    <3> QED BY <2>1, <2>3, <3>2, <3>3, <1>1 DEF SeatsFit
  <2> QED BY <2>2, <2>3
<1> QED BY <1>2, <1>3, <1>4, <1>5, <1>6 DEF SetupInv

-----------------------------------------------------------------------------

\* Every step keeps it.
LEMMA SetupInvStep == SetupInv /\ [SetupNext]_setupVars => SetupInv'
<1> SUFFICES ASSUME SetupInv, [SetupNext]_setupVars PROVE SetupInv'
  OBVIOUS
<1>types. /\ setups \in [SetupRun -> Contents] /\ forms \in [Submission -> Form]
          /\ receipts \in [Submission -> SetupRun \cup {0}]
          /\ saves \in [Save -> [pc : {"idle", "create", "edit"}, by : Submission \cup {"none"}]]
          /\ provisioning \subseteq SetupRun \X Seat /\ savedTimes \in [Submission -> Nat]
  BY DEF SetupInv, SetupTypeOK
<1>row. \A r \in SetupRun : /\ setups[r].seats \in Seats /\ setups[r].pool \in LabPool
                            /\ setups[r].state \in {"none"} \cup RunState
  BY <1>types DEF Contents, Seats
<1>seats. \A r \in SetupRun : SeatsFit(r)
  BY DEF SetupInv
<1>1. ASSUME NEW q \in Submission, NEW r \in SetupRun \cup {0}, NEW seats \in SUBSET Seat,
             NEW p \in LabPool, NEW state \in {"planned", "active"}, FillIn(q, r, seats, p, state)
      PROVE  SetupInv'
  <2> DEFINE form == [run |-> r, seats |-> seats, pool |-> p, state |-> state,
                      etag |-> IF r = 0 THEN NoSetup ELSE setups[r]]
  <2>1. /\ forms[q] = NoForm /\ (r # 0 => setups[r].state # "none")
        /\ forms' = [forms EXCEPT ![q] = form]
        /\ UNCHANGED <<setups, receipts, saves, provisioning, savedTimes>>
    BY <1>1 DEF FillIn
  <2>2. form \in Form
    BY <1>types, NoSetupFits DEF Form
  <2>3. SetupTypeOK'
    BY <2>1, <2>2, <1>types DEF SetupTypeOK
  <2>4. ASSUME NEW x \in Submission PROVE FormFits(x)' /\ CommitsCounted(x)'
    <3>1. FormFits(x) /\ CommitsCounted(x)
      BY DEF SetupInv
    <3>2. CASE x = q
      BY <3>1, <3>2, <2>1, <1>types DEF FormFits, CommitsCounted
    <3>3. CASE x # q
      BY <3>1, <3>3, <2>1, <1>types DEF FormFits, CommitsCounted
    <3> QED BY <3>2, <3>3
  <2>5. \A s \in Save : saves[s].pc # "idle" => saves[s].by \in Submission /\ saves[s].by # q
    BY <2>1 DEF SetupInv, SaveFits, FormOf, NoForm
  <2>6. \A s \in Save : saves[s].pc # "idle" => FormOf(s)' = FormOf(s)
    BY <2>1, <2>5, <1>types DEF FormOf
  <2>7. ASSUME NEW s \in Save PROVE SaveFits(s)'
    <3>1. SaveFits(s)
      BY DEF SetupInv
    <3> QED BY <3>1, <2>1, <2>6 DEF SaveFits, Linked
  <2>8. EditsExclude'
    BY <2>1, <2>6 DEF SetupInv, EditsExclude
  <2>9. (\A x \in SetupRun : SeatsFit(x))'
    BY <2>1, <1>seats DEF SeatsFit
  <2> QED BY <2>3, <2>4, <2>7, <2>8, <2>9 DEF SetupInv
<1>2. ASSUME NEW q \in Submission, NEW s \in Save, BeginCreate(s, q) PROVE SetupInv'
  BY <1>2, SaveBegins DEF BeginCreate
<1>3. ASSUME NEW q \in Submission, NEW s \in Save, BeginEdit(s, q) PROVE SetupInv'
  <2> DEFINE f == forms[q]
  <2>1. /\ f.run # 0 /\ RunFree(f.run) /\ \A a \in Seat : SeatFree(f.run, a)
        /\ f.etag = setups[f.run] /\ SparesLinked(f) /\ BeginSave(s, q, "edit")
    BY <1>3 DEF BeginEdit
  <2>2. f.run \in SetupRun
    BY <2>1, <1>types DEF Form
  <2>3. Linked(f.run) \subseteq f.seats
    BY <2>1 DEF SparesLinked
  <2>4. \A a \in Seat : <<f.run, a>> \notin provisioning
    BY <2>1 DEF SeatFree
  <2> QED BY <2>1, <2>2, <2>3, <2>4, SaveBegins
<1>4. ASSUME NEW s \in Save, SaveRollback(s) PROVE SetupInv'
  <2>1. /\ saves' = [saves EXCEPT ![s] = NoSave]
        /\ UNCHANGED <<setups, forms, receipts, provisioning, savedTimes>>
    BY <1>4 DEF SaveRollback
  <2>2. SetupTypeOK'
    BY <2>1, <1>types DEF SetupTypeOK, NoSave
  <2>3. saves'[s].pc = "idle" /\ \A t \in Save : t # s => saves'[t] = saves[t]
    BY <2>1, <1>types DEF NoSave
  <2>4. \A t \in Save : t # s => FormOf(t)' = FormOf(t)
    BY <2>1, <2>3 DEF FormOf
  <2>5. \A t \in Save : SaveFits(t)'
    BY <2>1, <2>3, <2>4 DEF SetupInv, SaveFits, Linked
  <2>6. EditsExclude'
    BY <2>3, <2>4 DEF SetupInv, EditsExclude
  <2>7. (\A x \in Submission : FormFits(x) /\ CommitsCounted(x))' /\ (\A r \in SetupRun : SeatsFit(r))'
    BY <2>1 DEF SetupInv, FormFits, CommitsCounted, SeatsFit
  <2> QED BY <2>2, <2>5, <2>6, <2>7 DEF SetupInv
<1>5. ASSUME NEW s \in Save, NEW r \in SetupRun, SaveCommit(s, r) PROVE SetupInv'
  BY <1>5, SaveCommitKeeps
<1>6. ASSUME NEW r \in SetupRun, ActivateLab(r) PROVE SetupInv'
  <2> DEFINE c == [setups[r] EXCEPT !.state = "active"]
  <2>1. RunFree(r) /\ Rewrite(r, c)
    BY <1>6 DEF ActivateLab
  <2>2. c \in Contents /\ c.state # "none" /\ c.seats = setups[r].seats
    BY <1>types DEF Contents, RunState
  <2>3. \A a \in Seat : setups[r].seats[a].status # "none" \/ c.seats[a].vm => c.seats[a].status # "none"
    BY <2>2, <1>seats DEF SeatsFit
  <2> HIDE DEF c
  <2> QED BY <2>1, <2>2, <2>3, RunRewritten DEF Rewrite
<1>7. ASSUME NEW r \in SetupRun, NEW status \in {"expired", "revoked"}, CloseLab(r, status)
      PROVE  SetupInv'
  <2> DEFINE closed == [a \in Seat |-> IF setups[r].seats[a].status = "assigned"
                                      THEN [setups[r].seats[a] EXCEPT !.status = status]
                                      ELSE setups[r].seats[a]]
             c == RowWith(setups[r], "closed", closed)
  <2>1. RunFree(r) /\ Rewrite(r, c)
    BY <1>7, <1>types DEF CloseLab, Contents, RowWith
  <2>2. \A a \in Seat : /\ closed[a] \in [status : SeatStatus, vm : BOOLEAN]
                        /\ closed[a].vm = setups[r].seats[a].vm
                        /\ setups[r].seats[a].status # "none" => closed[a].status # "none"
    BY <1>row DEF Seats, SeatStatus
  <2>3. closed \in Seats
    BY <2>2 DEF Seats
  <2> HIDE DEF closed
  <2>4. c \in Contents /\ c.state # "none" /\ c.seats = closed
    <3>1. setups[r] \in Contents /\ "closed" \in {"none"} \cup RunState
      BY <1>types DEF RunState
    <3>2. c \in Contents /\ c.state = "closed" /\ c.seats = closed
      BY <2>3, <3>1, RowWritten
    <3> QED BY <3>2
  <2>5. \A a \in Seat : setups[r].seats[a].status # "none" \/ c.seats[a].vm => c.seats[a].status # "none"
    BY <2>2, <2>4, <1>seats DEF SeatsFit
  <2> HIDE DEF c
  <2> QED BY <2>1, <2>4, <2>5, RunRewritten DEF Rewrite
<1>8. ASSUME NEW r \in SetupRun, NEW p \in LabPool, PatchLab(r, p) PROVE SetupInv'
  <2> DEFINE c == [setups[r] EXCEPT !.pool = p]
  <2>1. setups[r].state # "none" /\ Rewrite(r, c)
    BY <1>8 DEF PatchLab
  <2>2. c \in Contents /\ c.state = setups[r].state /\ c.seats = setups[r].seats
    BY <1>types DEF Contents
  <2>3. \A a \in Seat : setups[r].seats[a].status # "none" \/ c.seats[a].vm => c.seats[a].status # "none"
    BY <2>2, <1>seats DEF SeatsFit
  <2> HIDE DEF c
  <2> QED BY <2>1, <2>2, <2>3, RunRewritten DEF Rewrite
<1>seat. ASSUME NEW r \in SetupRun, NEW a \in Seat, NEW seat \in [status : SeatStatus, vm : BOOLEAN],
                seat.status # "none", setups[r].state # "none", RunFree(r),
                setups' = [setups EXCEPT ![r].seats[a] = seat], provisioning' \subseteq provisioning,
                UNCHANGED <<forms, receipts, saves, savedTimes>>
         PROVE  SetupInv'
  <2> DEFINE seats == [setups[r].seats EXCEPT ![a] = seat]
             c == RowWith(setups[r], setups[r].state, seats)
  <2>1. seats \in Seats
    BY <1>row DEF Seats
  <2>2. \A b \in Seat : setups[r].seats[b].status # "none" \/ seats[b].vm => seats[b].status # "none"
    <3>1. ASSUME NEW b \in Seat PROVE seats[b] = IF b = a THEN seat ELSE setups[r].seats[b]
      BY <1>row DEF Seats
    <3> QED BY <3>1, <1>seat, <1>seats DEF SeatsFit
  <2>3. setups' = [setups EXCEPT ![r] = c]
    <3>1. setups[r] \in [state : {"none"} \cup RunState, pool : LabPool, seats : Seats]
      BY <1>types DEF Contents, Seats
    <3> QED BY <1>seat, <1>types, <3>1 DEF RowWith
  <2> HIDE DEF seats
  <2>4. c \in Contents /\ c.state = setups[r].state /\ c.seats = seats
    <3>1. setups[r] \in Contents /\ setups[r].state \in {"none"} \cup RunState
      BY <1>row, <1>types
    <3> QED BY <2>1, <3>1, RowWritten
  <2>5. \A b \in Seat : setups[r].seats[b].status # "none" \/ c.seats[b].vm => c.seats[b].status # "none"
    BY <2>2, <2>4
  <2>6. c.state # "none"
    BY <1>seat, <2>4
  <2> HIDE DEF c
  <2> QED BY <1>seat, <2>3, <2>4, <2>5, <2>6, RunRewritten
<1>9. ASSUME NEW r \in SetupRun, NEW a \in Seat, AssignSeat(r, a) \/ RevokeSeat(r, a) PROVE SetupInv'
  <2> DEFINE now == setups[r].seats[a]
  <2>1. PICK status \in {"assigned", "revoked"} :
             /\ RunFree(r) /\ Rewrite(r, [setups[r] EXCEPT !.seats[a].status = status])
             /\ setups[r].state \in {"planned", "active"} \/ now.status # "none"
    BY <1>9 DEF AssignSeat, RevokeSeat, SeatFree
  <2>2. setups[r].state # "none"
    BY <2>1, <1>seats DEF SeatsFit
  <2>3. now \in [status : SeatStatus, vm : BOOLEAN]
    BY <1>row DEF Seats
  <2> DEFINE seat == [now EXCEPT !.status = status]
  <2>4. seat \in [status : SeatStatus, vm : BOOLEAN] /\ seat.status # "none"
    BY <2>3 DEF SeatStatus
  <2>5. setups' = [setups EXCEPT ![r].seats[a] = seat]
    BY <2>1 DEF Rewrite
  <2> HIDE DEF seat
  <2> QED BY <2>1, <2>2, <2>4, <2>5, <1>seat DEF Rewrite
<1>10. ASSUME NEW r \in SetupRun, NEW a \in Seat, BeginProvision(r, a) PROVE SetupInv'
  <2>1. /\ RunFree(r) /\ setups[r].state = "active" /\ setups[r].seats[a].status = "assigned"
        /\ provisioning' = provisioning \cup {<<r, a>>}
        /\ UNCHANGED <<setups, forms, receipts, saves, savedTimes>>
    BY <1>10 DEF BeginProvision, SeatFree
  <2>2. SetupTypeOK'
    BY <2>1, <1>types DEF SetupTypeOK
  <2>3. (\A x \in Submission : FormFits(x) /\ CommitsCounted(x))' /\ EditsExclude'
    BY <2>1 DEF SetupInv, FormFits, CommitsCounted, EditsExclude, FormOf
  <2>4. ASSUME NEW s \in Save PROVE SaveFits(s)'
    <3>1. SaveFits(s) /\ FormOf(s)' = FormOf(s)
      BY <2>1 DEF SetupInv, FormOf
    <3>2. saves[s].pc = "edit" => FormOf(s).run # r
      BY <2>1 DEF RunFree
    <3> QED BY <3>1, <3>2, <2>1 DEF SaveFits, Linked
  <2>5. ASSUME NEW p \in SetupRun PROVE SeatsFit(p)'
    BY <2>1, <1>seats DEF SeatsFit
  <2> QED BY <2>2, <2>3, <2>4, <2>5 DEF SetupInv
<1>11. ASSUME NEW r \in SetupRun, NEW a \in Seat, NEW linked \in BOOLEAN, EndProvision(r, a, linked)
       PROVE  SetupInv'
  <2> DEFINE now == setups[r].seats[a]
             seat == [now EXCEPT !.vm = linked]
  <2>1. /\ <<r, a>> \in provisioning /\ provisioning' = provisioning \ {<<r, a>>}
        /\ setups' = [setups EXCEPT ![r].seats[a].vm = linked]
        /\ UNCHANGED <<forms, receipts, saves, savedTimes>>
    BY <1>11 DEF EndProvision
  <2>2. RunFree(r)
    BY <2>1 DEF SetupInv, SaveFits, RunFree
  <2>3. now \in [status : SeatStatus, vm : BOOLEAN] /\ now.status # "none" /\ setups[r].state # "none"
    BY <2>1, <1>row, <1>seats DEF Seats, SeatsFit
  <2>4. seat \in [status : SeatStatus, vm : BOOLEAN] /\ seat.status # "none"
    BY <2>3
  <2>5. setups' = [setups EXCEPT ![r].seats[a] = seat] /\ provisioning' \subseteq provisioning
    BY <2>1
  <2> HIDE DEF seat
  <2> QED BY <2>1, <2>2, <2>3, <2>4, <2>5, <1>seat
<1>12. ASSUME NEW r \in SetupRun, NEW a \in Seat, NEW status \in {"assigned", "expired"},
              VmDeleted(r, a, status)
       PROVE  SetupInv'
  <2>1. /\ setups[r].seats[a].vm /\ RunFree(r)
        /\ Rewrite(r, [setups[r] EXCEPT !.seats[a] = [status |-> status, vm |-> FALSE]])
    BY <1>12 DEF VmDeleted, SeatFree
  <2>2. setups[r].state # "none"
    BY <2>1, <1>seats DEF SeatsFit
  <2> DEFINE seat == [status |-> status, vm |-> FALSE]
  <2>3. seat \in [status : SeatStatus, vm : BOOLEAN] /\ seat.status # "none"
    BY DEF SeatStatus
  <2>4. setups' = [setups EXCEPT ![r].seats[a] = seat]
    BY <2>1 DEF Rewrite
  <2> HIDE DEF seat
  <2> QED BY <2>4, <2>1, <2>2, <2>3, <1>seat DEF Rewrite
<1>13. CASE UNCHANGED setupVars
  BY <1>13 DEF setupVars, SetupInv, SetupTypeOK, FormFits, CommitsCounted, SaveFits, EditsExclude,
               SeatsFit, FormOf, Linked
<1> QED BY <1>1, <1>2, <1>3, <1>4, <1>5, <1>6, <1>7, <1>8, <1>9, <1>10, <1>11, <1>12, <1>13 DEF SetupNext

-----------------------------------------------------------------------------

\* Labs, forms, receipts and saves keep their types (save_setup of lab_setup.py).
THEOREM SetupTypes == SetupSpec => []SetupTypeOK
<1>1. SetupInv => SetupTypeOK
  BY DEF SetupInv
<1> QED BY <1>1, SetupInvInit, SetupInvStep, PTL DEF SetupSpec

\* However often a submission is repeated, the receipt lets it commit once.
THEOREM SubmissionsCommitOnce == SetupSpec => []SetupOnce
<1>1. SetupInv => SetupOnce
  BY DEF SetupInv, CommitsCounted, SetupOnce
<1> QED BY <1>1, SetupInvInit, SetupInvStep, PTL DEF SetupSpec

\* Until an edit commits, the ETag it was admitted with is still that of its run and its
\* assignments, whatever the detailed pages and provisioning ask for meanwhile.
THEOREM EditsSeeTheLatest == SetupSpec => []EditsBuildOnLatest
<1>1. SetupInv => EditsBuildOnLatest
  BY DEF SetupInv, SaveFits, EditsBuildOnLatest
<1> QED BY <1>1, SetupInvInit, SetupInvStep, PTL DEF SetupSpec

\* No commit of the form takes a student with a VM out of the roster or changes the
\* assignment the VM is linked to.
THEOREM LinkedVmsStay == SetupSpec => LinkedVmKeepsAssignment
<1>1. SetupInv /\ [SetupNext]_setupVars =>
        [\A r \in SetupRun, a \in Seat :
           setups[r].seats[a].vm /\ receipts' # receipts => setups'[r].seats[a] = setups[r].seats[a]]_setupVars
  <2> SUFFICES ASSUME SetupInv, [SetupNext]_setupVars, NEW r \in SetupRun, NEW a \in Seat,
                      setups[r].seats[a].vm, receipts' # receipts
               PROVE  setups'[r].seats[a] = setups[r].seats[a]
    OBVIOUS
  <2>1. PICK s \in Save, p \in SetupRun : SaveCommit(s, p)
    BY DEF SetupNext, setupVars, FillIn, BeginCreate, BeginEdit, BeginSave, SaveRollback, ActivateLab,
           CloseLab, PatchLab, AssignSeat, RevokeSeat, BeginProvision, EndProvision, VmDeleted, Rewrite
  <2>2. /\ setups' = [setups EXCEPT ![p] = Saved(s, p)] /\ FormOf(s) \in Form
        /\ (FormOf(s).run = 0 /\ setups[p].state = "none") \/ FormOf(s).run = p
        /\ saves[s].pc # "idle"
    BY <2>1, CommitEffect
  <2>3. setups \in [SetupRun -> Contents] /\ saves[s].pc \in {"create", "edit"}
    BY <2>2 DEF SetupInv, SetupTypeOK
  <2>4. setups[r].seats[a].status # "none" /\ setups[r].state # "none"
    BY DEF SetupInv, SeatsFit
  <2>5. CASE p = r
    <3>1. saves[s].pc = "edit"
      BY <2>2, <2>3, <2>4, <2>5, SetupAssumption DEF SetupInv, SaveFits
    <3>2. a \in FormOf(s).seats
      BY <2>2, <2>4, <2>5, <3>1 DEF SetupInv, SaveFits, Linked
    <3>3. setups[r].seats \in Seats /\ setups'[r].seats = Roster(setups[r].seats, FormOf(s))
      BY <2>2, <2>3, <2>5 DEF Saved, Contents, Seats
    <3> QED BY <2>2, <2>4, <3>2, <3>3, RosterKeeps
  <2>6. CASE p # r
    BY <2>2, <2>3, <2>6
  <2> QED BY <2>5, <2>6
<1> QED BY <1>1, SetupInvInit, SetupInvStep, PTL DEF SetupSpec, LinkedVmKeepsAssignment

-----------------------------------------------------------------------------
(* The template catalog.                                                   *)

TemplateRow == [server : ServerOf \cup {NoServer}, vmid : TemplateId \cup {0},
                node : TemplateNode \cup {NoServer}, byHand : BOOLEAN]
RefreshRow == [pc : {"new", "discover", "lock", "locked", "done"}, server : ServerOf,
               found : Discoveries, read : [CatalogRow -> TemplateRow]]
ImportRow == [pc : {"new", "write", "done"}, server : ServerOf, vmid : TemplateId,
              row : CatalogRow \cup {NoServer}]

\* The type invariant, with its rows named.
CatalogRows ==
  /\ catalog \in [CatalogRow -> TemplateRow] /\ activeNow \in ServerOf
  /\ refreshes \in [Refresh -> RefreshRow] /\ imports \in [Import -> ImportRow]
  /\ edits \in 0..MaxEdits

LEMMA CatalogRowsTypes == CatalogRows <=> CatalogTypeOK
BY DEF CatalogRows, CatalogTypeOK, TemplateRow, RefreshRow, ImportRow

\* One refresh at a time has the organization locked, and what it has read of a row that
\* nobody has created or changed by hand is still so.
OneRefreshLocks ==
  \A s, t \in Refresh : refreshes[s].pc = "locked" /\ refreshes[t].pc = "locked" => s = t
ReadIsCurrent ==
  \A s \in Refresh, r \in CatalogRow :
    refreshes[s].pc = "locked" /\ ~catalog[r].byHand =>
      /\ catalog[r].server = refreshes[s].read[r].server
      /\ catalog[r].vmid = refreshes[s].read[r].vmid

CatalogInv == CatalogRows /\ OneRefreshLocks /\ ReadIsCurrent /\ NoDoubleImport

LEMMA CatalogInvInit == CatalogInit => CatalogInv
<1> SUFFICES ASSUME CatalogInit PROVE CatalogInv
  OBVIOUS
<1> USE CatalogBounds
<1>1. Unused \in TemplateRow /\ Unused.vmid = 0 /\ Unused.server = NoServer
  BY DEF Unused, TemplateRow
<1>2. /\ catalog \in [CatalogRow -> TemplateRow]
      /\ \A r \in CatalogRow : catalog[r].server = NoServer
  <2>1. CASE catalog = [r \in CatalogRow |-> Unused]
    BY <1>1, <2>1
  <2>2. ASSUME NEW v \in TemplateId, NEW n \in TemplateNode, NEW r \in CatalogRow,
               catalog = [[q \in CatalogRow |-> Unused] EXCEPT ![r].vmid = v, ![r].node = n]
        PROVE  /\ catalog \in [CatalogRow -> TemplateRow]
               /\ \A q \in CatalogRow : catalog[q].server = NoServer
    <3> DEFINE first == [Unused EXCEPT !.vmid = v, !.node = n]
    <3>1. first \in TemplateRow /\ first.server = NoServer
      BY DEF Unused, TemplateRow
    <3>2. catalog = [[q \in CatalogRow |-> Unused] EXCEPT ![r] = first]
      BY <2>2
    <3> HIDE DEF first
    <3> QED
      BY <1>1, <3>1, <3>2
  <2> QED
    BY <2>1, <2>2 DEF CatalogInit
<1>3. [v \in TemplateId |-> NoServer] \in Discoveries /\ (CHOOSE v \in TemplateId : TRUE) \in TemplateId
  BY DEF Discoveries
<1>4. refreshes \in [Refresh -> RefreshRow] /\ \A s \in Refresh : refreshes[s].pc = "new"
  BY <1>1, <1>3 DEF CatalogInit, RefreshRow
<1>5. imports \in [Import -> ImportRow]
  BY <1>3 DEF CatalogInit, ImportRow
<1>6. CatalogRows
  <2>1. activeNow \in ServerOf /\ edits = 0
    BY DEF CatalogInit
  <2> QED
    BY <1>2, <1>4, <1>5, <2>1 DEF CatalogRows
<1>7. OneRefreshLocks /\ ReadIsCurrent
  BY <1>4 DEF OneRefreshLocks, ReadIsCurrent
<1>8. NoDoubleImport
  BY <1>2 DEF NoDoubleImport, Rows
<1> QED
  BY <1>6, <1>7, <1>8 DEF CatalogInv

\* What a refresh makes of a row: an imported one, an adopted one, or the one that is there
\* at another node.
LEMMA RefreshedRow ==
  ASSUME CatalogInv, NEW s \in Refresh, refreshes[s].pc = "locked",
         NEW fresh \in [TemplateId -> (CatalogRow \ Rows(catalog)) \cup {NoServer}],
         \A v \in TemplateId : fresh[v] # NoServer <=> v \in Missing(s),
         NEW r \in CatalogRow
  PROVE  LET f == refreshes[s]
             new == Refreshed(s, fresh)[r]
         IN  /\ new \in TemplateRow
             /\ \/ \E v \in Missing(s) : /\ fresh[v] = r
                                         /\ new = [server |-> f.server, vmid |-> v,
                                                   node |-> f.found[v], byHand |-> FALSE]
                \/ \E v \in TemplateId : /\ f.found[v] # NoServer
                                         /\ RowsFor(f.read, f.server, v) = {}
                                         /\ Legacy(f.read, v, f.found[v]) = {r}
                                         /\ new = [catalog[r] EXCEPT !.server = f.server]
                \/ /\ new.server = catalog[r].server /\ new.vmid = catalog[r].vmid
                   /\ new.byHand = catalog[r].byHand
<1> DEFINE f == refreshes[s]
           Seen(v) == f.found[v] # NoServer
           Mine(v) == RowsFor(f.read, f.server, v)
           Adopts(v) == Mine(v) = {} /\ Legacy(f.read, v, f.found[v]) = {r}
           new == Refreshed(s, fresh)[r]
           isNew == \E v \in TemplateId : Seen(v) /\ fresh[v] = r
           isMine == \E v \in TemplateId : Seen(v) /\ r \in Mine(v)
           isLegacy == \E v \in TemplateId : Seen(v) /\ Adopts(v)
           w == CHOOSE v \in TemplateId : Seen(v) /\ fresh[v] = r
<1>0. /\ f \in RefreshRow /\ catalog[r] \in TemplateRow /\ r # NoServer
      /\ f.found \in Discoveries /\ f.server \in ServerOf
  BY CatalogBounds DEF CatalogInv, CatalogRows, RefreshRow
<1>1. new = IF isNew THEN [server |-> f.server, vmid |-> w, node |-> f.found[w], byHand |-> FALSE]
            ELSE IF isMine THEN [catalog[r] EXCEPT !.node = f.found[f.read[r].vmid]]
            ELSE IF isLegacy THEN [catalog[r] EXCEPT !.server = f.server]
            ELSE catalog[r]
  BY DEF Refreshed
<1>2. CASE isNew
  <2>1. w \in TemplateId /\ Seen(w) /\ fresh[w] = r
    BY <1>2
  <2>2. w \in Missing(s) /\ f.found[w] \in TemplateNode \cup {NoServer}
    BY <1>0, <2>1 DEF Discoveries
  <2>3. new = [server |-> f.server, vmid |-> w, node |-> f.found[w], byHand |-> FALSE]
    BY <1>1, <1>2
  <2> HIDE DEF w, f, new
  <2>4. new \in TemplateRow
    BY <1>0, <2>1, <2>2, <2>3 DEF TemplateRow
  <2> QED
    BY <2>1, <2>2, <2>3, <2>4 DEF f, new
<1>3. CASE ~isNew /\ isMine
  <2>1. new = [catalog[r] EXCEPT !.node = f.found[f.read[r].vmid]]
    BY <1>1, <1>3
  <2>2. f.read[r].vmid \in TemplateId
    BY <1>3 DEF RowsFor
  <2>3. f.found[f.read[r].vmid] \in TemplateNode \cup {NoServer}
    BY <1>0, <2>2 DEF Discoveries
  <2> HIDE DEF f, new
  <2>4. PICK n \in TemplateNode \cup {NoServer} : new = [catalog[r] EXCEPT !.node = n]
    BY <2>1, <2>3
  <2>5. /\ new \in TemplateRow /\ new.server = catalog[r].server /\ new.vmid = catalog[r].vmid
        /\ new.byHand = catalog[r].byHand
    BY <1>0, <2>4 DEF TemplateRow
  <2> QED
    BY <2>5 DEF f, new
<1>4. CASE ~isNew /\ ~isMine /\ isLegacy
  <2>1. new = [catalog[r] EXCEPT !.server = f.server]
    BY <1>1, <1>4
  <2>2. PICK v \in TemplateId : Seen(v) /\ Adopts(v)
    BY <1>4
  <2>3. new \in TemplateRow
    <3> HIDE DEF f, new
    <3> QED
      BY <1>0, <2>1 DEF TemplateRow
  <2> QED
    BY <2>1, <2>2, <2>3
<1>5. CASE ~isNew /\ ~isMine /\ ~isLegacy
  BY <1>0, <1>1, <1>5
<1> QED
  BY <1>2, <1>3, <1>4, <1>5

\* Two rows after a refresh that nobody changed by hand are for different templates.
LEMMA RefreshKeepsSingle ==
  ASSUME CatalogInv, NEW s \in Refresh, refreshes[s].pc = "locked",
         NEW fresh \in [TemplateId -> (CatalogRow \ Rows(catalog)) \cup {NoServer}],
         \A v \in TemplateId : fresh[v] # NoServer <=> v \in Missing(s),
         \A v, w \in Missing(s) : fresh[v] = fresh[w] => v = w,
         catalog' = Refreshed(s, fresh)
  PROVE  catalog' \in [CatalogRow -> TemplateRow] /\ NoDoubleImport'
<1> DEFINE f == refreshes[s]
           Fresh(r, v) == /\ v \in Missing(s) /\ fresh[v] = r
                          /\ catalog'[r].server = f.server /\ catalog'[r].vmid = v
           Adopted(r, v) == /\ f.found[v] # NoServer /\ RowsFor(f.read, f.server, v) = {}
                            /\ Legacy(f.read, v, f.found[v]) = {r}
                            /\ catalog'[r].server = f.server /\ catalog'[r].vmid = catalog[r].vmid
                            /\ catalog'[r].byHand = catalog[r].byHand
           Same(r) == /\ catalog'[r].server = catalog[r].server /\ catalog'[r].vmid = catalog[r].vmid
                      /\ catalog'[r].byHand = catalog[r].byHand
<1>1. \A r \in CatalogRow :
        /\ catalog'[r] \in TemplateRow
        /\ \/ \E v \in TemplateId : Fresh(r, v) \/ Adopted(r, v)
           \/ Same(r)
  <2> SUFFICES ASSUME NEW r \in CatalogRow
               PROVE  /\ catalog'[r] \in TemplateRow
                      /\ \/ \E v \in TemplateId : Fresh(r, v) \/ Adopted(r, v)
                         \/ Same(r)
    OBVIOUS
  <2>1. catalog[r] \in TemplateRow
    BY DEF CatalogInv, CatalogRows
  <2>2. [catalog[r] EXCEPT !.server = f.server].server = f.server
        /\ [catalog[r] EXCEPT !.server = f.server].vmid = catalog[r].vmid
        /\ [catalog[r] EXCEPT !.server = f.server].byHand = catalog[r].byHand
    BY <2>1 DEF TemplateRow
  <2>3. \A v \in Missing(s) : v \in TemplateId
    BY DEF Missing
  <2> DEFINE new == Refreshed(s, fresh)[r]
  <2>4. /\ new \in TemplateRow
        /\ \/ \E v \in Missing(s) : /\ fresh[v] = r
                                    /\ new = [server |-> f.server, vmid |-> v,
                                              node |-> f.found[v], byHand |-> FALSE]
           \/ \E v \in TemplateId : /\ f.found[v] # NoServer
                                    /\ RowsFor(f.read, f.server, v) = {}
                                    /\ Legacy(f.read, v, f.found[v]) = {r}
                                    /\ new = [catalog[r] EXCEPT !.server = f.server]
           \/ /\ new.server = catalog[r].server /\ new.vmid = catalog[r].vmid
              /\ new.byHand = catalog[r].byHand
    BY RefreshedRow
  <2>5. catalog'[r] = new
    OBVIOUS
  <2> HIDE DEF new, f
  <2>6. CASE \E v \in Missing(s) : /\ fresh[v] = r
                                  /\ new = [server |-> f.server, vmid |-> v,
                                            node |-> f.found[v], byHand |-> FALSE]
    <3>1. PICK v \in Missing(s) : fresh[v] = r /\ new = [server |-> f.server, vmid |-> v,
                                                       node |-> f.found[v], byHand |-> FALSE]
      BY <2>6
    <3>2. new.server = f.server /\ new.vmid = v
      BY <3>1
    <3> QED
      BY <2>3, <2>4, <2>5, <3>1, <3>2
  <2>7. CASE \E v \in TemplateId : /\ f.found[v] # NoServer
                                  /\ RowsFor(f.read, f.server, v) = {}
                                  /\ Legacy(f.read, v, f.found[v]) = {r}
                                  /\ new = [catalog[r] EXCEPT !.server = f.server]
    BY <2>2, <2>4, <2>5, <2>7
  <2> QED
    BY <2>4, <2>5, <2>6, <2>7
<1>2. catalog' \in [CatalogRow -> TemplateRow]
  <2>1. catalog' = [r \in CatalogRow |-> catalog'[r]]
    BY DEF Refreshed
  <2> QED
    BY <1>1, <2>1
<1>3. ASSUME NEW r \in CatalogRow, NEW q \in CatalogRow, r # q,
             catalog'[r].server = catalog'[q].server, catalog'[r].server # NoServer,
             catalog'[r].vmid = catalog'[q].vmid, catalog'[r].vmid # 0,
             ~catalog'[r].byHand, ~catalog'[q].byHand
      PROVE  FALSE
  <2>0. \A p \in CatalogRow : ~catalog[p].byHand =>
          catalog[p].server = f.read[p].server /\ catalog[p].vmid = f.read[p].vmid
    BY DEF CatalogInv, ReadIsCurrent
  <2>1. ASSUME NEW p \in CatalogRow, NEW v \in TemplateId, Adopted(p, v), ~catalog[p].byHand
        PROVE  catalog'[p].vmid = v
    BY <2>0, <2>1 DEF Legacy, RowsFor
  <2>2. ASSUME NEW p \in CatalogRow, NEW z \in CatalogRow, NEW v \in TemplateId, Same(p), Fresh(z, v) \/ Adopted(z, v),
               ~catalog'[p].byHand, ~catalog'[z].byHand, catalog'[p].vmid # 0,
               catalog'[p].server = catalog'[z].server, catalog'[p].vmid = catalog'[z].vmid
        PROVE  FALSE
    <3>1. catalog'[z].vmid = v /\ catalog'[z].server = f.server /\ RowsFor(f.read, f.server, v) = {}
      BY <2>1, <2>2 DEF Missing
    <3>2. p \in RowsFor(f.read, f.server, v)
      BY <2>0, <2>2, <3>1 DEF RowsFor, Rows
    <3> QED
      BY <3>1, <3>2
  <2>3. CASE Same(r) /\ Same(q)
    BY <1>3, <2>3 DEF CatalogInv, NoDoubleImport, Rows
  <2>4. ASSUME NEW v \in TemplateId, NEW w \in TemplateId, Fresh(r, v) \/ Adopted(r, v),
               Fresh(q, w) \/ Adopted(q, w)
        PROVE  FALSE
    <3>1. v = w
      BY <1>3, <2>1, <2>4
    <3>2. CASE Fresh(r, v) /\ Fresh(q, w)
      BY <1>3, <3>1, <3>2
    <3>3. CASE Adopted(r, v) /\ Adopted(q, w)
      BY <1>3, <3>1, <3>3
    <3>4. CASE (Fresh(r, v) /\ Adopted(q, w)) \/ (Adopted(r, v) /\ Fresh(q, w))
      BY <3>1, <3>4 DEF Missing
    <3> QED
      BY <2>4, <3>2, <3>3, <3>4
  <2> HIDE DEF Fresh, Adopted, Same
  <2> QED
    BY <1>1, <1>3, <2>2, <2>3, <2>4
<1> QED
  BY <1>2, <1>3 DEF NoDoubleImport, Rows

\* A row written by hand keeps the invariant as far as the catalog goes: a locked refresh
\* and the rows beside it may differ from it.
LEMMA ByHandKeeps ==
  ASSUME CatalogInv, NEW r \in CatalogRow, NEW new \in TemplateRow, new.byHand,
         catalog' = [catalog EXCEPT ![r] = new], UNCHANGED refreshes
  PROVE  catalog' \in [CatalogRow -> TemplateRow] /\ OneRefreshLocks' /\ ReadIsCurrent' /\ NoDoubleImport'
BY DEF CatalogInv, CatalogRows, OneRefreshLocks, ReadIsCurrent, NoDoubleImport, Rows

LEMMA CatalogInvStep == CatalogInv /\ [CatalogNext]_catalogVars => CatalogInv'
<1> SUFFICES ASSUME CatalogInv, [CatalogNext]_catalogVars PROVE CatalogInv'
  OBVIOUS
<1> USE CatalogBounds
<1>0. /\ catalog \in [CatalogRow -> TemplateRow] /\ activeNow \in ServerOf
      /\ refreshes \in [Refresh -> RefreshRow] /\ imports \in [Import -> ImportRow]
      /\ edits \in 0..MaxEdits /\ OneRefreshLocks /\ ReadIsCurrent /\ NoDoubleImport
  BY DEF CatalogInv, CatalogRows
<1>e. ASSUME Edit PROVE edits' \in 0..MaxEdits
  BY <1>0, <1>e DEF Edit
<1>r. ASSUME NEW s \in Refresh, NEW f \in RefreshRow, refreshes' = [refreshes EXCEPT ![s] = f],
             f.pc # "locked", UNCHANGED <<catalog, activeNow, imports, edits>>
      PROVE  CatalogInv'
  BY <1>0, <1>r DEF CatalogInv, CatalogRows, OneRefreshLocks, ReadIsCurrent, NoDoubleImport, Rows
<1>1. ASSUME NEW s \in Refresh, ReadActive(s) PROVE CatalogInv'
  <2> DEFINE f == [refreshes[s] EXCEPT !.pc = "discover", !.server = activeNow]
  <2>1. f \in RefreshRow /\ f.pc = "discover"
    BY <1>0 DEF RefreshRow
  <2>2. refreshes' = [refreshes EXCEPT ![s] = f]
    BY <1>1, <1>0 DEF ReadActive
  <2> HIDE DEF f
  <2> QED
    BY <1>1, <1>r, <2>1, <2>2 DEF ReadActive
<1>2. ASSUME NEW s \in Refresh, DiscoverTemplates(s) PROVE CatalogInv'
  <2>1. ASSUME NEW found \in Discoveries,
               refreshes' = [refreshes EXCEPT ![s].pc = "lock", ![s].found = found]
        PROVE  CatalogInv'
    <3> DEFINE f == [refreshes[s] EXCEPT !.pc = "lock", !.found = found]
    <3>1. f \in RefreshRow /\ f.pc = "lock"
      BY <1>0 DEF RefreshRow
    <3>2. refreshes' = [refreshes EXCEPT ![s] = f]
      BY <2>1, <1>0
    <3> HIDE DEF f
    <3> QED
      BY <1>2, <1>r, <3>1, <3>2 DEF DiscoverTemplates
  <2>2. CASE refreshes' = [refreshes EXCEPT ![s].pc = "done"]
    <3> DEFINE f == [refreshes[s] EXCEPT !.pc = "done"]
    <3>1. f \in RefreshRow /\ f.pc = "done"
      BY <1>0 DEF RefreshRow
    <3>2. refreshes' = [refreshes EXCEPT ![s] = f]
      BY <2>2, <1>0
    <3> HIDE DEF f
    <3> QED
      BY <1>2, <1>r, <3>1, <3>2 DEF DiscoverTemplates
  <2> QED
    BY <1>2, <2>1, <2>2 DEF DiscoverTemplates
<1>3. ASSUME NEW s \in Refresh, LockCatalog(s) PROVE CatalogInv'
  <2> DEFINE f == [refreshes[s] EXCEPT !.pc = "locked", !.read = catalog]
  <2>1. f \in RefreshRow /\ f.read = catalog
    BY <1>0 DEF RefreshRow
  <2>2. refreshes' = [refreshes EXCEPT ![s] = f] /\ OrganizationFree
        /\ UNCHANGED <<catalog, activeNow, imports, edits>>
    BY <1>3, <1>0 DEF LockCatalog
  <2> HIDE DEF f
  <2> QED
    BY <1>0, <2>1, <2>2 DEF CatalogInv, CatalogRows, OneRefreshLocks, ReadIsCurrent, NoDoubleImport,
         Rows, OrganizationFree
<1>4. ASSUME NEW s \in Refresh, CommitRefresh(s) PROVE CatalogInv'
  <2> DEFINE f == [refreshes[s] EXCEPT !.pc = "done"]
  <2>1. f \in RefreshRow /\ f.pc = "done"
    BY <1>0 DEF RefreshRow
  <2>2. refreshes' = [refreshes EXCEPT ![s] = f] /\ refreshes[s].pc = "locked"
        /\ UNCHANGED <<activeNow, imports, edits>>
    BY <1>4, <1>0 DEF CommitRefresh
  <2> HIDE DEF f
  <2>3. CASE UNCHANGED catalog
    BY <1>r, <2>1, <2>2, <2>3
  <2>4. CASE catalog' \in [CatalogRow -> TemplateRow] /\ NoDoubleImport'
    <3>1. \A t \in Refresh : refreshes'[t].pc # "locked"
      BY <1>0, <2>1, <2>2 DEF OneRefreshLocks
    <3>2. refreshes' \in [Refresh -> RefreshRow]
      BY <1>0, <2>1, <2>2
    <3> QED
      BY <1>0, <2>2, <2>4, <3>1, <3>2 DEF CatalogInv, CatalogRows, OneRefreshLocks, ReadIsCurrent
  <2> QED
    BY <1>4, <2>2, <2>3, <2>4, RefreshKeepsSingle DEF CommitRefresh
<1>5. ASSUME NEW i \in Import, ReadForImport(i) PROVE CatalogInv'
  <2>1. PICK v \in TemplateId, row \in CatalogRow \cup {NoServer} :
          imports' = [imports EXCEPT ![i] = [pc |-> "write", server |-> activeNow, vmid |-> v, row |-> row]]
    BY <1>5 DEF ReadForImport, RowsFor, Rows
  <2>2. [pc |-> "write", server |-> activeNow, vmid |-> v, row |-> row] \in ImportRow
    BY <1>0 DEF ImportRow
  <2> QED
    BY <1>0, <1>5, <2>1, <2>2 DEF ReadForImport, CatalogInv, CatalogRows, OneRefreshLocks, ReadIsCurrent,
         NoDoubleImport, Rows
<1>n. ASSUME NEW server \in ServerOf \cup {NoServer}, NEW v \in TemplateId, Inserts(server, v),
             UNCHANGED refreshes
      PROVE  catalog' \in [CatalogRow -> TemplateRow] /\ OneRefreshLocks' /\ ReadIsCurrent' /\ NoDoubleImport'
  <2>1. PICK r \in CatalogRow, n \in TemplateNode :
          catalog' = [catalog EXCEPT ![r] = [server |-> server, vmid |-> v, node |-> n, byHand |-> TRUE]]
    BY <1>n DEF Inserts
  <2>2. [server |-> server, vmid |-> v, node |-> n, byHand |-> TRUE] \in TemplateRow
    BY DEF TemplateRow
  <2>3. [server |-> server, vmid |-> v, node |-> n, byHand |-> TRUE].byHand
    OBVIOUS
  <2> QED
    BY <1>n, <2>1, <2>2, <2>3, ByHandKeeps
<1>6. ASSUME NEW i \in Import, WriteImport(i) PROVE CatalogInv'
  <2>1. imports' \in [Import -> ImportRow] /\ UNCHANGED <<activeNow, refreshes, edits>>
    <3> DEFINE m == [imports[i] EXCEPT !.pc = "done"]
    <3>1. m \in ImportRow
      BY <1>0 DEF ImportRow
    <3>2. imports' = [imports EXCEPT ![i] = m]
      BY <1>6, <1>0 DEF WriteImport
    <3> HIDE DEF m
    <3> QED
      BY <1>0, <1>6, <3>1, <3>2 DEF WriteImport
  <2>2. imports[i].server \in ServerOf /\ imports[i].vmid \in TemplateId
        /\ imports[i].row \in CatalogRow \cup {NoServer}
    BY <1>0 DEF ImportRow
  <2>3. CASE Inserts(imports[i].server, imports[i].vmid)
    BY <1>0, <1>n, <2>1, <2>2, <2>3 DEF CatalogInv, CatalogRows
  <2>4. ASSUME NEW r \in CatalogRow, NEW n \in TemplateNode, catalog' = [catalog EXCEPT ![r].node = n]
        PROVE  CatalogInv'
    <3> DEFINE new == [catalog[r] EXCEPT !.node = n]
    <3>0. catalog[r] \in TemplateRow
      BY <1>0
    <3>1. /\ new \in TemplateRow /\ new.server = catalog[r].server /\ new.vmid = catalog[r].vmid
          /\ new.byHand = catalog[r].byHand
      BY <3>0 DEF TemplateRow
    <3>2. catalog' = [catalog EXCEPT ![r] = new]
      BY <2>4, <1>0
    <3> HIDE DEF new
    <3>3. /\ catalog' \in [CatalogRow -> TemplateRow]
          /\ \A q \in CatalogRow : /\ catalog'[q].server = catalog[q].server
                                   /\ catalog'[q].vmid = catalog[q].vmid
                                   /\ catalog'[q].byHand = catalog[q].byHand
      BY <1>0, <3>1, <3>2
    <3> QED
      BY <1>0, <2>1, <3>3 DEF CatalogInv, CatalogRows, OneRefreshLocks, ReadIsCurrent, NoDoubleImport, Rows
  <2> QED
    BY <1>6, <2>2, <2>3, <2>4 DEF WriteImport
<1>7. CASE CreateTemplate
  <2>1. PICK v \in TemplateId : Inserts(NoServer, v)
    BY <1>7 DEF CreateTemplate
  <2>2. edits' \in 0..MaxEdits /\ UNCHANGED <<activeNow, refreshes, imports>>
    BY <1>7, <1>e DEF CreateTemplate
  <2> QED
    BY <1>0, <1>n, <2>1, <2>2 DEF CatalogInv, CatalogRows
<1>8. CASE PatchTemplate
  <2>1. PICK r \in CatalogRow, v \in TemplateId, n \in TemplateNode :
          catalog' = [catalog EXCEPT ![r].vmid = v, ![r].node = n, ![r].byHand = TRUE]
    BY <1>8 DEF PatchTemplate, Rows
  <2> DEFINE new == [catalog[r] EXCEPT !.vmid = v, !.node = n, !.byHand = TRUE]
  <2>0. catalog[r] \in TemplateRow
    BY <1>0
  <2>2. new \in TemplateRow /\ new.byHand
    BY <2>0 DEF TemplateRow
  <2>3. catalog' = [catalog EXCEPT ![r] = new]
    BY <2>1, <1>0
  <2>4. edits' \in 0..MaxEdits /\ UNCHANGED <<activeNow, refreshes, imports>>
    BY <1>8, <1>e DEF PatchTemplate
  <2> HIDE DEF new
  <2>5. catalog' \in [CatalogRow -> TemplateRow] /\ OneRefreshLocks' /\ ReadIsCurrent' /\ NoDoubleImport'
    BY <2>2, <2>3, <2>4, ByHandKeeps
  <2> QED
    BY <1>0, <2>4, <2>5 DEF CatalogInv, CatalogRows
<1>9. CASE ActivateServer
  <2>1. edits' \in 0..MaxEdits /\ activeNow' \in ServerOf /\ UNCHANGED <<catalog, refreshes, imports>>
    BY <1>9, <1>e DEF ActivateServer
  <2> QED
    BY <1>0, <2>1 DEF CatalogInv, CatalogRows, OneRefreshLocks, ReadIsCurrent, NoDoubleImport, Rows
<1>10. CASE UNCHANGED catalogVars
  BY <1>0, <1>10 DEF catalogVars, CatalogInv, CatalogRows, OneRefreshLocks, ReadIsCurrent, NoDoubleImport,
       Rows
<1> QED
  BY <1>1, <1>2, <1>3, <1>4, <1>5, <1>6, <1>7, <1>8, <1>9, <1>10 DEF CatalogNext

LEMMA CatalogInvAlways == CatalogSpec => []CatalogInv
BY CatalogInvInit, CatalogInvStep, PTL DEF CatalogSpec

\* The catalog, the refreshes and the imports are of their types.
THEOREM CatalogTypes == CatalogSpec => []CatalogTypeOK
BY CatalogInvAlways, CatalogRowsTypes, PTL DEF CatalogInv

\* However the refreshes of pages and administrators interleave with one another and with
\* edits by hand, none imports a template that has a row (sync_templates, FOR UPDATE).
THEOREM RefreshesImportOnce == CatalogSpec => []NoDoubleImport
BY CatalogInvAlways, PTL DEF CatalogInv

-----------------------------------------------------------------------------
(* The registration of clusters.                                           *)

Maker == Bootstrap \cup {None, Site}
AccessRow == [role : Maker, user : Maker, granted : BOOLEAN, token : Bootstrap \cup {None}]
BootPc == {"new", "listRoles", "addRole", "listUsers", "addUser", "grant", "addToken", "probe",
           "place", "commit", "undoUser", "undoRole", "refused", "failed", "crashed", "done"}
BootRow == [pc : BootPc, name : ClusterName, madeRole : BOOLEAN, madeUser : BOOLEAN, active : BOOLEAN]
ClusterRow == [secret : Maker, active : BOOLEAN, used : BOOLEAN]

\* The type invariant, with its rows named.
ClusterRows ==
  /\ access \in AccessRow /\ clusters \in [ClusterName -> ClusterRow]
  /\ bootstraps \in [Bootstrap -> BootRow]
  /\ manualTokens \in 0..MaxManualTokens /\ setupFaults \in 0..MaxSetupFaults
  /\ leftBehind \in SUBSET Bootstrap /\ withdrawn \in SUBSET Bootstrap

LEMMA ClusterRowsTypes == ClusterRows => ClusterTypeOK
BY DEF ClusterRows, ClusterTypeOK, AccessRow, BootRow, BootPc, ClusterRow, Maker, Failing, Finished

\* How the host stands to bootstrap b in row k.  What carries b's name is b's to undo, or b
\* is known to have left it; what b has to undo still carries its name; and from the grant
\* on the user is its own, so that no other one can make, delete or use a token for it.
Standing(b, a, k, left, taken) ==
  /\ a.role = b => k.madeRole \/ left
  /\ a.user = b => k.madeUser \/ left
  /\ k.madeRole /\ k.pc \notin {"failed", "crashed"} => a.role = b
  /\ k.madeUser /\ k.pc \notin {"undoRole", "failed", "crashed"} => a.user = b
  /\ k.pc \in {"new", "refused", "listRoles", "addRole"} => ~k.madeRole
  /\ k.pc \in {"new", "refused", "listRoles", "addRole", "listUsers", "addUser"} => ~k.madeUser
  /\ k.pc \in {"grant", "addToken", "probe", "place", "commit", "done", "undoUser"} => k.madeUser
  /\ k.pc = "undoRole" => k.madeRole
  /\ k.pc \in {"probe", "place", "commit", "done"} => a.token = b
  /\ k.pc \in {"addToken", "probe", "place", "commit", "done"} => a.granted \/ taken
  /\ ~left /\ k.pc \in {"undoRole", "failed"} => a.user # b
  /\ ~left /\ k.pc = "failed" => a.role # b

AllStand ==
  \A b \in Bootstrap : Standing(b, access, bootstraps[b], b \in leftBehind, b \in withdrawn)
SecretsOfDone ==
  \A n \in ClusterName, b \in Bootstrap : clusters[n].secret = b => bootstraps[b].pc = "done"

ClusterInv == ClusterRows /\ AllStand /\ SecretsOfDone

LEMMA ClusterInvInit == ClusterInit => ClusterInv
<1> SUFFICES ASSUME ClusterInit PROVE ClusterInv
  OBVIOUS
<1> USE SetupBounds
<1>1. access \in AccessRow /\ access.role \in {None, Site} /\ access.user \in {None, Site}
  BY DEF ClusterInit, AccessRow, Maker
<1>2. NoCluster \in ClusterRow /\ NoCluster.secret = None
  BY DEF NoCluster, ClusterRow, Maker
<1>3. clusters \in [ClusterName -> ClusterRow] /\ \A n \in ClusterName : clusters[n].secret = None
  BY <1>2 DEF ClusterInit
<1>4. (CHOOSE n \in ClusterName : TRUE) \in ClusterName
  OBVIOUS
<1>5. /\ bootstraps \in [Bootstrap -> BootRow]
      /\ \A b \in Bootstrap : /\ bootstraps[b].pc = "new"
                              /\ bootstraps[b].madeRole = FALSE /\ bootstraps[b].madeUser = FALSE
  <2> DEFINE first == [pc : {"new"}, name : {CHOOSE n \in ClusterName : TRUE},
                       madeRole : {FALSE}, madeUser : {FALSE}, active : {FALSE}]
  <2>1. first \subseteq BootRow
    BY <1>4 DEF BootRow, BootPc
  <2>2. \A k \in first : k.pc = "new" /\ k.madeRole = FALSE /\ k.madeUser = FALSE
    OBVIOUS
  <2>3. bootstraps \in [Bootstrap -> first]
    BY DEF ClusterInit
  <2> HIDE DEF first
  <2> QED
    BY <2>1, <2>2, <2>3
<1>6. ClusterRows
  BY <1>1, <1>3, <1>5 DEF ClusterInit, ClusterRows
<1>7. AllStand
  BY <1>1, <1>5 DEF AllStand, Standing
<1>8. SecretsOfDone
  BY <1>3 DEF SecretsOfDone
<1> QED
  BY <1>6, <1>7, <1>8 DEF ClusterInv

\* A step of the bootstrap that only moves on: the row k it leaves.
LEMMA Moves ==
  ASSUME bootstraps \in [Bootstrap -> BootRow], NEW b \in Bootstrap, NEW pc \in BootPc, GoesTo(b, pc)
  PROVE  \E k \in BootRow : /\ bootstraps' = [bootstraps EXCEPT ![b] = k] /\ k.pc = pc
                            /\ k.madeRole = bootstraps[b].madeRole
                            /\ k.madeUser = bootstraps[b].madeUser
<1> DEFINE k == [bootstraps[b] EXCEPT !.pc = pc]
<1>0. bootstraps[b] \in BootRow
  OBVIOUS
<1>1. k \in BootRow
  BY <1>0 DEF BootRow
<1>2. k.pc = pc
  BY <1>0 DEF BootRow
<1>3. k.madeRole = bootstraps[b].madeRole
  BY <1>0 DEF BootRow
<1>4. k.madeUser = bootstraps[b].madeUser
  BY <1>0 DEF BootRow
<1>5. bootstraps' = [bootstraps EXCEPT ![b] = k]
  BY <1>0 DEF GoesTo
<1> HIDE DEF k
<1> QED
  BY <1>1, <1>2, <1>3, <1>4, <1>5

AtWork == {"listRoles", "addRole", "listUsers", "addUser", "grant", "addToken", "probe", "place",
           "commit"}

\* An exception leaves a bootstrap with what it made still to undo, whether or not the
\* request that failed had taken effect: when it had, the answer was lost.
LEMMA RaisesStands ==
  ASSUME ClusterInv, NEW b \in Bootstrap, bootstraps[b].pc \in AtWork, Raises(b),
         NEW a \in AccessRow, NEW left \in SUBSET Bootstrap, leftBehind \subseteq left,
         a.role = b => access.role = b \/ b \in left,
         a.user = b => access.user = b \/ b \in left,
         access.role = b => a.role = b,
         access.user = b => a.user = b
  PROVE  \E k \in BootRow : /\ bootstraps' = [bootstraps EXCEPT ![b] = k] /\ k.pc # "done"
                            /\ Standing(b, a, k, b \in left, b \in withdrawn)
<1> DEFINE old == bootstraps[b]
<1>0. /\ bootstraps \in [Bootstrap -> BootRow] /\ old.madeUser \in BOOLEAN /\ old.madeRole \in BOOLEAN
      /\ Standing(b, access, old, b \in leftBehind, b \in withdrawn)
  <2>1. old \in BootRow
    BY DEF ClusterInv, ClusterRows
  <2> QED
    BY <2>1 DEF ClusterInv, ClusterRows, AllStand, BootRow
<1>1. Compensate(b) \in BootPc
  BY DEF Compensate, BootPc
<1>2. PICK k \in BootRow : /\ bootstraps' = [bootstraps EXCEPT ![b] = k] /\ k.pc = Compensate(b)
                           /\ k.madeRole = old.madeRole /\ k.madeUser = old.madeUser
  BY <1>0, <1>1, Moves DEF Raises
<1>3. CASE old.madeUser
  <2>1. k.pc = "undoUser" /\ k.madeUser
    BY <1>2, <1>3 DEF Compensate
  <2>2. Standing(b, a, k, b \in left, b \in withdrawn)
    BY <1>0, <1>2, <1>3, <2>1 DEF Standing, AtWork
  <2> QED
    BY <1>2, <2>1, <2>2
<1>4. CASE ~old.madeUser /\ old.madeRole
  <2>1. k.pc = "undoRole" /\ k.madeRole /\ ~k.madeUser
    BY <1>2, <1>4 DEF Compensate
  <2>2. Standing(b, a, k, b \in left, b \in withdrawn)
    BY <1>0, <1>2, <1>4, <2>1 DEF Standing, AtWork
  <2> QED
    BY <1>2, <2>1, <2>2
<1>5. CASE ~old.madeUser /\ ~old.madeRole
  <2>1. k.pc = "failed" /\ ~k.madeRole /\ ~k.madeUser
    BY <1>2, <1>5 DEF Compensate
  <2>2. Standing(b, a, k, b \in left, b \in withdrawn)
    BY <1>0, <1>2, <1>5, <2>1 DEF Standing, AtWork
  <2> QED
    BY <1>2, <2>1, <2>2
<1> QED
  BY <1>0, <1>3, <1>4, <1>5

\* The frame of every step of one bootstrap.
LEMMA StepOfOne ==
  ASSUME ClusterInv, NEW b \in Bootstrap, NEW k \in BootRow,
         bootstraps' = [bootstraps EXCEPT ![b] = k], bootstraps[b].pc # "done",
         access' \in AccessRow, clusters' \in [ClusterName -> ClusterRow],
         manualTokens' = manualTokens, setupFaults' \in 0..MaxSetupFaults,
         leftBehind' \in SUBSET Bootstrap, withdrawn' \in SUBSET Bootstrap,
         Standing(b, access', k, b \in leftBehind', b \in withdrawn'),
         \A c \in Bootstrap \ {b} :
           Standing(c, access', bootstraps[c], c \in leftBehind', c \in withdrawn'),
         \A n \in ClusterName : \/ clusters'[n].secret = clusters[n].secret
                                \/ clusters'[n].secret = b /\ k.pc = "done"
  PROVE  ClusterInv'
<1>1. ClusterRows'
  BY DEF ClusterInv, ClusterRows
<1>2. AllStand'
  BY DEF ClusterInv, ClusterRows, AllStand
<1>3. SecretsOfDone'
  BY DEF ClusterInv, ClusterRows, SecretsOfDone
<1> QED
  BY <1>1, <1>2, <1>3 DEF ClusterInv

\* A step of one bootstrap that leaves the host and the rows alone.
LEMMA QuietStep ==
  ASSUME ClusterInv, NEW b \in Bootstrap, NEW k \in BootRow,
         bootstraps' = [bootstraps EXCEPT ![b] = k], bootstraps[b].pc # "done", k.pc # "done",
         UNCHANGED <<access, clusters, manualTokens, leftBehind, withdrawn>>,
         setupFaults' \in 0..MaxSetupFaults,
         Standing(b, access, k, b \in leftBehind, b \in withdrawn)
  PROVE  ClusterInv'
<1>1. \A c \in Bootstrap \ {b} :
        Standing(c, access', bootstraps[c], c \in leftBehind', c \in withdrawn')
  BY DEF ClusterInv, AllStand
<1>2. Standing(b, access', k, b \in leftBehind', b \in withdrawn')
  OBVIOUS
<1> QED
  BY <1>1, <1>2, StepOfOne DEF ClusterInv, ClusterRows

LEMMA QuietRaise ==
  ASSUME ClusterInv, NEW b \in Bootstrap, bootstraps[b].pc \in AtWork, Raises(b),
         UNCHANGED <<access, clusters, manualTokens, leftBehind, withdrawn>>,
         setupFaults' \in 0..MaxSetupFaults
  PROVE  ClusterInv'
<1>1. access \in AccessRow
  BY DEF ClusterInv, ClusterRows
<1>2. PICK k \in BootRow : /\ bootstraps' = [bootstraps EXCEPT ![b] = k] /\ k.pc # "done"
                           /\ Standing(b, access, k, b \in leftBehind, b \in withdrawn)
  <2>1. leftBehind \in SUBSET Bootstrap
    BY DEF ClusterInv, ClusterRows
  <2> QED
    BY <1>1, <2>1, RaisesStands
<1>3. bootstraps[b].pc # "done"
  BY DEF AtWork
<1> QED
  BY <1>2, <1>3, QuietStep

\* A request that adds an object: all that is left to show is how the host stands to the
\* bootstrap that is answered, and that the others stand as they did.
LEMMA AddsKeep ==
  ASSUME ClusterInv, NEW b \in Bootstrap, bootstraps[b].pc \in AtWork,
         NEW added \in AccessRow, NEW k \in BootRow, k.pc # "done",
         Adds(b, added, [bootstraps EXCEPT ![b] = k]),
         UNCHANGED <<clusters, manualTokens, withdrawn>>,
         Standing(b, added, k, b \in leftBehind, b \in withdrawn),
         access.role = b => added.role = b, access.user = b => added.user = b,
         \A c \in Bootstrap \ {b} :
           Standing(c, access, bootstraps[c], c \in leftBehind, c \in withdrawn) =>
             Standing(c, added, bootstraps[c], c \in leftBehind, c \in withdrawn)
  PROVE  ClusterInv'
<1>0. /\ access \in AccessRow /\ clusters \in [ClusterName -> ClusterRow]
      /\ setupFaults \in 0..MaxSetupFaults /\ leftBehind \in SUBSET Bootstrap
      /\ withdrawn \in SUBSET Bootstrap /\ bootstraps[b].pc # "done"
  BY DEF ClusterInv, ClusterRows, AtWork
<1>1. \A c \in Bootstrap \ {b} :
        Standing(c, added, bootstraps[c], c \in leftBehind, c \in withdrawn)
  BY DEF ClusterInv, AllStand
<1>2. CASE access' = added /\ bootstraps' = [bootstraps EXCEPT ![b] = k]
           /\ UNCHANGED <<setupFaults, leftBehind>>
  BY <1>0, <1>1, <1>2, StepOfOne
<1>3. ASSUME AnswerFails, Raises(b) PROVE setupFaults' \in 0..MaxSetupFaults
  BY <1>0, <1>3, SetupBounds DEF AnswerFails
<1>4. CASE AnswerFails /\ Raises(b) /\ UNCHANGED <<access, leftBehind>>
  BY <1>3, <1>4, QuietRaise
<1>5. CASE AnswerFails /\ Raises(b) /\ access' = added /\ leftBehind' = leftBehind \cup {b}
  <2>1. PICK j \in BootRow : /\ bootstraps' = [bootstraps EXCEPT ![b] = j] /\ j.pc # "done"
                             /\ Standing(b, added, j, b \in leftBehind \cup {b}, b \in withdrawn)
    <3>1. /\ leftBehind \cup {b} \in SUBSET Bootstrap /\ leftBehind \subseteq leftBehind \cup {b}
          /\ b \in leftBehind \cup {b}
      BY <1>0
    <3> QED
      BY <1>5, <3>1, RaisesStands
  <2>2. \A c \in Bootstrap \ {b} : (c \in leftBehind') = (c \in leftBehind)
    BY <1>5
  <2>3. Standing(b, access', j, b \in leftBehind', b \in withdrawn')
    BY <1>5, <2>1
  <2>4. \A c \in Bootstrap \ {b} :
          Standing(c, access', bootstraps[c], c \in leftBehind', c \in withdrawn')
    BY <1>1, <1>5, <2>2
  <2>5. leftBehind' \in SUBSET Bootstrap
    BY <1>0, <1>5
  <2> QED
    BY <1>0, <1>3, <1>5, <2>1, <2>3, <2>4, <2>5, StepOfOne
<1> QED
  BY <1>2, <1>4, <1>5 DEF Adds


\* An endpoint that only writes rows, none of them with the token of a bootstrap that is
\* not there already.
LEMMA RowsStep ==
  ASSUME ClusterInv, clusters' \in [ClusterName -> ClusterRow],
         \A n \in ClusterName : \/ clusters'[n].secret \in {None, Site}
                                \/ \E m \in ClusterName : clusters'[n].secret = clusters[m].secret,
         manualTokens' \in 0..MaxManualTokens,
         UNCHANGED <<access, bootstraps, setupFaults, leftBehind, withdrawn>>
  PROVE  ClusterInv'
<1>1. ClusterRows'
  BY DEF ClusterInv, ClusterRows
<1>2. AllStand'
  BY DEF ClusterInv, AllStand
<1>3. SecretsOfDone'
  BY SetupBounds DEF ClusterInv, SecretsOfDone
<1> QED
  BY <1>1, <1>2, <1>3 DEF ClusterInv

LEMMA ClusterInvStep == ClusterInv /\ [ClusterNext]_clusterVars => ClusterInv'
<1> SUFFICES ASSUME ClusterInv, [ClusterNext]_clusterVars PROVE ClusterInv'
  OBVIOUS
<1> USE SetupBounds
<1>0. /\ access \in AccessRow /\ clusters \in [ClusterName -> ClusterRow]
      /\ bootstraps \in [Bootstrap -> BootRow]
      /\ manualTokens \in 0..MaxManualTokens /\ setupFaults \in 0..MaxSetupFaults
      /\ leftBehind \in SUBSET Bootstrap /\ withdrawn \in SUBSET Bootstrap
      /\ \A c \in Bootstrap :
           Standing(c, access, bootstraps[c], c \in leftBehind, c \in withdrawn)
  BY DEF ClusterInv, ClusterRows, AllStand
<1>b. ASSUME NEW b \in Bootstrap
      PROVE  /\ bootstraps[b] \in BootRow
             /\ bootstraps[b].madeRole \in BOOLEAN /\ bootstraps[b].madeUser \in BOOLEAN
             /\ Standing(b, access, bootstraps[b], b \in leftBehind, b \in withdrawn)
  <2>1. bootstraps[b] \in BootRow
    BY <1>0
  <2> QED
    BY <1>0, <2>1 DEF BootRow
<1>a. /\ access.role \in Maker /\ access.user \in Maker /\ access.granted \in BOOLEAN
      /\ access.token \in Bootstrap \cup {None}
  BY <1>0 DEF AccessRow
<1>f. ASSUME AnswerFails PROVE setupFaults' \in 0..MaxSetupFaults
  BY <1>0, <1>f DEF AnswerFails
<1>1. ASSUME NEW b \in Bootstrap, BeginBootstrap(b) PROVE ClusterInv'
  <2>1. ASSUME NEW n \in ClusterName, NEW pc \in {"listRoles", "refused"},
               bootstraps' = [bootstraps EXCEPT ![b].pc = pc, ![b].name = n]
        PROVE  ClusterInv'
    <3> DEFINE k == [bootstraps[b] EXCEPT !.pc = pc, !.name = n]
    <3>1. k \in BootRow
      BY <1>b DEF BootRow, BootPc
    <3>2. k.pc = pc
      BY <1>b DEF BootRow
    <3>3. k.madeRole = bootstraps[b].madeRole
      BY <1>b DEF BootRow
    <3>4. k.madeUser = bootstraps[b].madeUser
      BY <1>b DEF BootRow
    <3>5. bootstraps' = [bootstraps EXCEPT ![b] = k]
      BY <1>0, <2>1
    <3> HIDE DEF k
    <3>6. Standing(b, access, k, b \in leftBehind, b \in withdrawn)
      BY <1>1, <1>b, <3>2, <3>3, <3>4 DEF Standing, BeginBootstrap, At
    <3>7. k.pc # "done" /\ bootstraps[b].pc # "done"
      BY <1>1, <3>2 DEF BeginBootstrap, At
    <3> QED
      BY <1>0, <1>1, <3>1, <3>5, <3>6, <3>7, QuietStep DEF BeginBootstrap
  <2> QED
    BY <1>1, <2>1 DEF BeginBootstrap
\* Moving on to a step whose standing asks no more than that of the one before.
<1>g. ASSUME NEW b \in Bootstrap, NEW pc \in BootPc, GoesTo(b, pc),
             \/ bootstraps[b].pc = "listRoles" /\ pc \in {"addRole", "listUsers"}
             \/ bootstraps[b].pc = "listUsers" /\ pc = "addUser"
             \/ bootstraps[b].pc = "probe" /\ pc = "place"
      PROVE  \E k \in BootRow : /\ bootstraps' = [bootstraps EXCEPT ![b] = k]
                                /\ k.pc # "done" /\ bootstraps[b].pc # "done"
                                /\ Standing(b, access, k, b \in leftBehind, b \in withdrawn)
  <2>1. PICK k \in BootRow : /\ bootstraps' = [bootstraps EXCEPT ![b] = k] /\ k.pc = pc
                             /\ k.madeRole = bootstraps[b].madeRole
                             /\ k.madeUser = bootstraps[b].madeUser
    BY <1>0, <1>g, Moves
  <2>2. Standing(b, access, k, b \in leftBehind, b \in withdrawn)
    BY <1>b, <1>g, <2>1 DEF Standing
  <2> QED
    BY <1>g, <2>1, <2>2
<1>2. ASSUME NEW b \in Bootstrap, ListRoles(b) PROVE ClusterInv'
  <2>0. bootstraps[b].pc = "listRoles"
        /\ UNCHANGED <<access, clusters, manualTokens, setupFaults, leftBehind, withdrawn>>
    BY <1>2 DEF ListRoles, At
  <2>1. CASE GoesTo(b, "addRole") \/ GoesTo(b, "listUsers")
    <3>1. "addRole" \in BootPc /\ "listUsers" \in BootPc
      BY DEF BootPc
    <3> QED
      BY <1>0, <1>g, <2>0, <2>1, <3>1, QuietStep
  <2>2. CASE Raises(b)
    BY <1>0, <2>0, <2>2, QuietRaise DEF AtWork
  <2> QED
    BY <1>2, <2>1, <2>2 DEF ListRoles
<1>3. ASSUME NEW b \in Bootstrap, ListUsers(b) PROVE ClusterInv'
  <2>0. bootstraps[b].pc = "listUsers"
        /\ UNCHANGED <<access, clusters, manualTokens, setupFaults, leftBehind, withdrawn>>
    BY <1>3 DEF ListUsers, At
  <2>1. CASE GoesTo(b, "addUser")
    <3>1. "addUser" \in BootPc
      BY DEF BootPc
    <3> QED
      BY <1>0, <1>g, <2>0, <2>1, <3>1, QuietStep
  <2>2. CASE Raises(b)
    BY <1>0, <2>0, <2>2, QuietRaise DEF AtWork
  <2> QED
    BY <1>3, <2>1, <2>2 DEF ListUsers
<1>4. ASSUME NEW b \in Bootstrap, AddRole(b) PROVE ClusterInv'
  <2> DEFINE k == [bootstraps[b] EXCEPT !.pc = "listUsers", !.madeRole = TRUE]
             added == [access EXCEPT !.role = b]
  <2>0. bootstraps[b].pc = "addRole" /\ access.role = None
        /\ UNCHANGED <<clusters, manualTokens, withdrawn>>
    BY <1>4 DEF AddRole, At
  <2>1. k \in BootRow /\ k.pc = "listUsers" /\ k.madeRole
    BY <1>b DEF BootRow, BootPc
  <2>2. k.madeUser = bootstraps[b].madeUser
    BY <1>b DEF BootRow
  <2>3. added \in AccessRow /\ added.role = b /\ added.user = access.user /\ added.token = access.token
    BY <1>0 DEF AccessRow, Maker
  <2>4. added.granted = access.granted
    BY <1>0 DEF AccessRow
  <2>5. [bootstraps EXCEPT ![b].pc = "listUsers", ![b].madeRole = TRUE] = [bootstraps EXCEPT ![b] = k]
    BY <1>0
  <2>6. Adds(b, added, [bootstraps EXCEPT ![b] = k])
    BY <1>4, <2>5 DEF AddRole
  <2> HIDE DEF k, added
  <2>7. Standing(b, added, k, b \in leftBehind, b \in withdrawn)
    BY <1>b, <2>0, <2>1, <2>2, <2>3, <2>4 DEF Standing
  <2>8. ASSUME NEW c \in Bootstrap \ {b}
        PROVE  Standing(c, added, bootstraps[c], c \in leftBehind, c \in withdrawn)
    BY <1>0, <2>0, <2>3, <2>4 DEF Standing
  <2>9. bootstraps[b].pc \in AtWork /\ k.pc # "done"
    BY <2>0, <2>1 DEF AtWork
  <2> QED
    BY <2>0, <2>1, <2>3, <2>6, <2>7, <2>8, <2>9, AddsKeep
<1>5. ASSUME NEW b \in Bootstrap, AddUser(b) PROVE ClusterInv'
  <2> DEFINE k == [bootstraps[b] EXCEPT !.pc = "grant", !.madeUser = TRUE]
             added == [access EXCEPT !.user = b]
  <2>0. bootstraps[b].pc = "addUser" /\ access.user = None
        /\ UNCHANGED <<clusters, manualTokens, withdrawn>>
    BY <1>5 DEF AddUser, At
  <2>1. k \in BootRow /\ k.pc = "grant" /\ k.madeUser
    BY <1>b DEF BootRow, BootPc
  <2>2. k.madeRole = bootstraps[b].madeRole
    BY <1>b DEF BootRow
  <2>3. added \in AccessRow /\ added.user = b /\ added.role = access.role /\ added.token = access.token
    BY <1>0 DEF AccessRow, Maker
  <2>4. added.granted = access.granted
    BY <1>0 DEF AccessRow
  <2>5. [bootstraps EXCEPT ![b].pc = "grant", ![b].madeUser = TRUE] = [bootstraps EXCEPT ![b] = k]
    BY <1>0
  <2>6. Adds(b, added, [bootstraps EXCEPT ![b] = k])
    BY <1>5, <2>5 DEF AddUser
  <2> HIDE DEF k, added
  <2>7. Standing(b, added, k, b \in leftBehind, b \in withdrawn)
    BY <1>b, <2>0, <2>1, <2>2, <2>3, <2>4 DEF Standing
  <2>8. ASSUME NEW c \in Bootstrap \ {b}
        PROVE  Standing(c, added, bootstraps[c], c \in leftBehind, c \in withdrawn)
    BY <1>0, <2>0, <2>3, <2>4 DEF Standing
  <2>9. bootstraps[b].pc \in AtWork /\ k.pc # "done"
    BY <2>0, <2>1 DEF AtWork
  <2> QED
    BY <2>0, <2>1, <2>3, <2>6, <2>7, <2>8, <2>9, AddsKeep
<1>6. ASSUME NEW b \in Bootstrap, Grant(b) PROVE ClusterInv'
  <2> DEFINE k == [bootstraps[b] EXCEPT !.pc = "addToken"]
             added == [access EXCEPT !.granted = TRUE]
  <2>0. bootstraps[b].pc = "grant" /\ UNCHANGED <<clusters, manualTokens, withdrawn>>
    BY <1>6 DEF Grant, At
  <2>1. k \in BootRow /\ k.pc = "addToken"
    BY <1>b DEF BootRow, BootPc
  <2>2. k.madeRole = bootstraps[b].madeRole
    BY <1>b DEF BootRow
  <2>3. k.madeUser = bootstraps[b].madeUser
    BY <1>b DEF BootRow
  <2>4. added \in AccessRow /\ added.user = access.user /\ added.role = access.role
        /\ added.token = access.token /\ added.granted
    BY <1>0 DEF AccessRow, Maker
  <2>5. [bootstraps EXCEPT ![b].pc = "addToken"] = [bootstraps EXCEPT ![b] = k]
    BY <1>0
  <2>6. Adds(b, added, [bootstraps EXCEPT ![b] = k])
    BY <1>6, <2>5 DEF Grant
  <2> HIDE DEF k, added
  <2>7. Standing(b, added, k, b \in leftBehind, b \in withdrawn)
    BY <1>b, <2>0, <2>1, <2>2, <2>3, <2>4 DEF Standing
  <2>8. ASSUME NEW c \in Bootstrap \ {b}
        PROVE  Standing(c, added, bootstraps[c], c \in leftBehind, c \in withdrawn)
    BY <1>0, <2>4 DEF Standing
  <2>9. bootstraps[b].pc \in AtWork /\ k.pc # "done"
    BY <2>0, <2>1 DEF AtWork
  <2> QED
    BY <2>0, <2>1, <2>4, <2>6, <2>7, <2>8, <2>9, AddsKeep
<1>7. ASSUME NEW b \in Bootstrap, AddRefused(b) PROVE ClusterInv'
  BY <1>0, <1>7, QuietRaise DEF AddRefused, At, AtWork
<1>8. ASSUME NEW b \in Bootstrap, AddToken(b) PROVE ClusterInv'
  <2> DEFINE k == [bootstraps[b] EXCEPT !.pc = "probe"]
             added == [access EXCEPT !.token = b]
  <2>0. bootstraps[b].pc = "addToken" /\ UNCHANGED <<clusters, manualTokens, withdrawn>>
    BY <1>8 DEF AddToken, At
  <2>1. k \in BootRow /\ k.pc = "probe"
    BY <1>b DEF BootRow, BootPc
  <2>2. k.madeRole = bootstraps[b].madeRole
    BY <1>b DEF BootRow
  <2>3. k.madeUser = bootstraps[b].madeUser
    BY <1>b DEF BootRow
  <2>4. added \in AccessRow /\ added.user = access.user /\ added.role = access.role
        /\ added.token = b
    BY <1>0 DEF AccessRow, Maker
  <2>4g. added.granted = access.granted
    BY <1>0 DEF AccessRow
  <2>5. [bootstraps EXCEPT ![b].pc = "probe"] = [bootstraps EXCEPT ![b] = k]
    BY <1>0
  <2>6. Adds(b, added, [bootstraps EXCEPT ![b] = k])
    BY <1>8, <2>5 DEF AddToken
  <2> HIDE DEF k, added
  <2>u. access.user = b
    BY <1>b, <2>0 DEF Standing
  <2>7. Standing(b, added, k, b \in leftBehind, b \in withdrawn)
    BY <1>b, <2>0, <2>1, <2>2, <2>3, <2>4, <2>4g DEF Standing
  <2>8. ASSUME NEW c \in Bootstrap \ {b}
        PROVE  Standing(c, added, bootstraps[c], c \in leftBehind, c \in withdrawn)
    BY <1>0, <2>4, <2>4g, <2>u DEF Standing
  <2>9. bootstraps[b].pc \in AtWork /\ k.pc # "done"
    BY <2>0, <2>1 DEF AtWork
  <2> QED
    BY <2>0, <2>1, <2>4, <2>6, <2>7, <2>8, <2>9, AddsKeep
<1>9. ASSUME NEW b \in Bootstrap, Probe(b) PROVE ClusterInv'
  <2>0. bootstraps[b].pc = "probe" /\ UNCHANGED <<access, clusters, manualTokens, leftBehind, withdrawn>>
    BY <1>9 DEF Probe, At
  <2>1. CASE GoesTo(b, "place") /\ UNCHANGED setupFaults
    <3>1. "place" \in BootPc
      BY DEF BootPc
    <3> QED
      BY <1>0, <1>g, <2>0, <2>1, <3>1, QuietStep
  <2>2. CASE AnswerFails /\ Raises(b)
    BY <1>f, <2>0, <2>2, QuietRaise DEF AtWork
  <2> QED
    BY <1>9, <2>1, <2>2 DEF Probe
<1>10. ASSUME NEW b \in Bootstrap, Place(b) PROVE ClusterInv'
  <2> DEFINE k == [bootstraps[b] EXCEPT !.pc = "commit", !.active = ~SomeActive]
  <2>0. bootstraps[b].pc = "place"
        /\ UNCHANGED <<access, clusters, manualTokens, setupFaults, leftBehind, withdrawn>>
    BY <1>10 DEF Place, At
  <2>1. k \in BootRow /\ k.pc = "commit"
    BY <1>b DEF BootRow, BootPc
  <2>2. k.madeRole = bootstraps[b].madeRole
    BY <1>b DEF BootRow
  <2>3. k.madeUser = bootstraps[b].madeUser
    BY <1>b DEF BootRow
  <2>5. bootstraps' = [bootstraps EXCEPT ![b] = k]
    BY <1>0, <1>10 DEF Place
  <2> HIDE DEF k
  <2>7. Standing(b, access, k, b \in leftBehind, b \in withdrawn)
    BY <1>b, <2>0, <2>1, <2>2, <2>3 DEF Standing
  <2>8. k.pc # "done" /\ bootstraps[b].pc # "done"
    BY <2>0, <2>1
  <2> QED
    BY <1>0, <2>0, <2>1, <2>5, <2>7, <2>8, QuietStep
<1>11. ASSUME NEW b \in Bootstrap, CommitCluster(b) PROVE ClusterInv'
  <2>0. bootstraps[b].pc = "commit"
        /\ UNCHANGED <<access, manualTokens, setupFaults, leftBehind, withdrawn>>
    BY <1>11 DEF CommitCluster, At
  <2>1. CASE Raises(b) /\ UNCHANGED clusters
    BY <1>0, <2>0, <2>1, QuietRaise DEF AtWork
  <2> DEFINE row == [secret |-> b, active |-> bootstraps[b].active, used |-> FALSE]
             n == bootstraps[b].name
  <2>2. CASE clusters' = [clusters EXCEPT ![n] = row] /\ GoesTo(b, "done")
    <3>1. bootstraps[b].active \in BOOLEAN
      BY <1>b DEF BootRow
    <3>2. row \in ClusterRow
      BY <3>1 DEF ClusterRow, Maker
    <3>3. row.secret = b
      OBVIOUS
    <3>4. n \in ClusterName
      BY <1>b DEF BootRow
    <3> HIDE DEF row, n
    <3>5. clusters' \in [ClusterName -> ClusterRow]
          /\ \A m \in ClusterName : clusters'[m].secret = clusters[m].secret \/ clusters'[m].secret = b
      BY <1>0, <2>2, <3>2, <3>3, <3>4
    <3>6. "done" \in BootPc
      BY DEF BootPc
    <3>7. PICK k \in BootRow : /\ bootstraps' = [bootstraps EXCEPT ![b] = k] /\ k.pc = "done"
                               /\ k.madeRole = bootstraps[b].madeRole
                               /\ k.madeUser = bootstraps[b].madeUser
      BY <1>0, <2>2, <3>6, Moves
    <3>8. Standing(b, access, k, b \in leftBehind, b \in withdrawn)
      BY <1>b, <2>0, <3>7 DEF Standing
    <3>9. \A c \in Bootstrap : b = c \/
            Standing(c, access', bootstraps[c], c \in leftBehind', c \in withdrawn')
      BY <1>0, <2>0
    <3> QED
      BY <1>0, <2>0, <3>5, <3>7, <3>8, <3>9, StepOfOne
  <2> QED
    BY <1>11, <2>1, <2>2 DEF CommitCluster
<1>12. ASSUME NEW b \in Bootstrap, UndoUser(b) PROVE ClusterInv'
  <2> DEFINE pc == IF bootstraps[b].madeRole THEN "undoRole" ELSE "failed"
  <2>0. bootstraps[b].pc = "undoUser" /\ GoesTo(b, pc) /\ UNCHANGED <<clusters, manualTokens, withdrawn>>
    BY <1>12 DEF UndoUser, At
  <2>1. pc \in BootPc /\ pc # "done" /\ (pc = "undoRole" <=> bootstraps[b].madeRole)
        /\ pc \in {"undoRole", "failed"}
    BY DEF BootPc
  <2> HIDE DEF pc
  <2>2. PICK k \in BootRow : /\ bootstraps' = [bootstraps EXCEPT ![b] = k] /\ k.pc = pc
                             /\ k.madeRole = bootstraps[b].madeRole
                             /\ k.madeUser = bootstraps[b].madeUser
    BY <1>0, <2>0, <2>1, Moves
  <2>3. CASE access' = WithoutUser /\ UNCHANGED <<setupFaults, leftBehind>>
    <3>1. /\ access' \in AccessRow /\ access'.user = None /\ access'.role = access.role
          /\ access'.token = None
      BY <1>0, <2>3 DEF WithoutUser, AccessRow, Maker
    <3>2. access.user = b
      BY <1>b, <2>0 DEF Standing
    <3>3. Standing(b, access', k, b \in leftBehind', b \in withdrawn')
      BY <1>b, <2>0, <2>1, <2>2, <2>3, <3>1 DEF Standing
    <3>4. ASSUME NEW c \in Bootstrap \ {b}
          PROVE  Standing(c, access', bootstraps[c], c \in leftBehind', c \in withdrawn')
      BY <1>0, <2>0, <2>3, <3>1, <3>2 DEF Standing
    <3> QED
      BY <1>0, <2>0, <2>2, <2>3, <3>1, <3>3, <3>4, StepOfOne
  <2>4. CASE AnswerFails /\ leftBehind' = leftBehind \cup {b} /\ UNCHANGED access
    <3>3. Standing(b, access', k, b \in leftBehind', b \in withdrawn')
      BY <1>b, <2>0, <2>1, <2>2, <2>4 DEF Standing
    <3>4. ASSUME NEW c \in Bootstrap \ {b}
          PROVE  Standing(c, access', bootstraps[c], c \in leftBehind', c \in withdrawn')
      <4>1. Standing(c, access, bootstraps[c], c \in leftBehind, c \in withdrawn)
        BY <1>0
      <4>2. (c \in leftBehind') <=> (c \in leftBehind)
        BY <2>4
      <4> QED
        BY <2>0, <2>4, <4>1, <4>2 DEF Standing
    <3>5. leftBehind' \in SUBSET Bootstrap /\ setupFaults' \in 0..MaxSetupFaults
      BY <1>0, <1>f, <2>4
    <3> QED
      BY <1>0, <2>0, <2>2, <2>4, <3>3, <3>4, <3>5, StepOfOne
  <2> QED
    BY <1>12, <2>3, <2>4 DEF UndoUser
<1>13. ASSUME NEW b \in Bootstrap, UndoRole(b) PROVE ClusterInv'
  <2>0. bootstraps[b].pc = "undoRole" /\ GoesTo(b, "failed") /\ UNCHANGED <<clusters, manualTokens>>
    BY <1>13 DEF UndoRole, At
  <2>1. "failed" \in BootPc
    BY DEF BootPc
  <2>2. PICK k \in BootRow : /\ bootstraps' = [bootstraps EXCEPT ![b] = k] /\ k.pc = "failed"
                             /\ k.madeRole = bootstraps[b].madeRole
                             /\ k.madeUser = bootstraps[b].madeUser
    BY <1>0, <2>0, <2>1, Moves
  <2>3. CASE /\ access' = [access EXCEPT !.role = None, !.granted = FALSE]
             /\ withdrawn' = withdrawn \cup ({access.user} \cap (Bootstrap \ {b}))
             /\ UNCHANGED <<setupFaults, leftBehind>>
    <3>1. /\ access' \in AccessRow /\ access'.user = access.user /\ access'.role = None
          /\ access'.token = access.token
      BY <1>0, <2>3 DEF AccessRow, Maker
    <3>2. access.role = b
      BY <1>b, <2>0 DEF Standing
    <3>3. Standing(b, access', k, b \in leftBehind', b \in withdrawn')
      BY <1>b, <2>0, <2>2, <2>3, <3>1 DEF Standing
    <3>4. ASSUME NEW c \in Bootstrap \ {b}
          PROVE  Standing(c, access', bootstraps[c], c \in leftBehind', c \in withdrawn')
      <4>1. Standing(c, access, bootstraps[c], c \in leftBehind, c \in withdrawn)
        BY <1>0
      <4>2. access.user = c => c \in withdrawn'
        BY <2>3
      <4>3. (c \in withdrawn => c \in withdrawn') /\ leftBehind' = leftBehind
        BY <2>3
      <4>4. bootstraps[c].pc \in {"addToken", "probe", "place", "commit", "done"} => access.user = c
        BY <4>1 DEF Standing
      <4> QED
        BY <3>1, <3>2, <4>1, <4>2, <4>3, <4>4 DEF Standing
    <3>5. withdrawn' \in SUBSET Bootstrap
      BY <1>0, <2>3
    <3> QED
      BY <1>0, <2>0, <2>2, <2>3, <3>1, <3>3, <3>4, <3>5, StepOfOne
  <2>4. CASE AnswerFails /\ leftBehind' = leftBehind \cup {b} /\ UNCHANGED <<access, withdrawn>>
    <3>3. Standing(b, access', k, b \in leftBehind', b \in withdrawn')
      BY <1>b, <2>0, <2>2, <2>4 DEF Standing
    <3>4. ASSUME NEW c \in Bootstrap \ {b}
          PROVE  Standing(c, access', bootstraps[c], c \in leftBehind', c \in withdrawn')
      <4>1. Standing(c, access, bootstraps[c], c \in leftBehind, c \in withdrawn)
        BY <1>0
      <4>2. (c \in leftBehind') <=> (c \in leftBehind)
        BY <2>4
      <4> QED
        BY <2>4, <4>1, <4>2 DEF Standing
    <3>5. leftBehind' \in SUBSET Bootstrap /\ setupFaults' \in 0..MaxSetupFaults
      BY <1>0, <1>f, <2>4
    <3> QED
      BY <1>0, <2>0, <2>2, <2>4, <3>3, <3>4, <3>5, StepOfOne
  <2> QED
    BY <1>13, <2>3, <2>4 DEF UndoRole
<1>w. ASSUME NEW n \in ClusterName, NEW row \in ClusterRow,
             row.secret \in {None, Site} \/ \E m \in ClusterName : row.secret = clusters[m].secret
      PROVE  /\ [clusters EXCEPT ![n] = row] \in [ClusterName -> ClusterRow]
             /\ \A m \in ClusterName :
                  \/ [clusters EXCEPT ![n] = row][m].secret \in {None, Site}
                  \/ \E q \in ClusterName : [clusters EXCEPT ![n] = row][m].secret = clusters[q].secret
  BY <1>0, <1>w
<1>14. ASSUME NEW n \in ClusterName, ManualToken(n) PROVE ClusterInv'
  <2> DEFINE row == [clusters[n] EXCEPT !.secret = Site]
  <2>1. clusters[n] \in ClusterRow
    BY <1>0
  <2>2. row \in ClusterRow /\ row.secret = Site
    BY <2>1 DEF ClusterRow, Maker
  <2>3. clusters' = [clusters EXCEPT ![n] = row]
    BY <1>14, <1>0 DEF ManualToken
  <2>4. manualTokens' \in 0..MaxManualTokens
        /\ UNCHANGED <<access, bootstraps, setupFaults, leftBehind, withdrawn>>
    BY <1>14, <1>0 DEF ManualToken
  <2> HIDE DEF row
  <2> QED
    BY <1>w, <2>2, <2>3, <2>4, RowsStep
<1>15. ASSUME NEW n \in ClusterName, Activate(n) PROVE ClusterInv'
  <2>1. ASSUME NEW m \in ClusterName
        PROVE  clusters'[m] \in ClusterRow /\ clusters'[m].secret = clusters[m].secret
    <3>1. clusters[m] \in ClusterRow
      BY <1>0
    <3>2. clusters'[m] = [clusters[m] EXCEPT !.active = (m = n)]
      BY <1>15 DEF Activate
    <3> QED
      BY <3>1, <3>2 DEF ClusterRow
  <2>2. clusters' \in [ClusterName -> ClusterRow]
    <3>1. clusters' = [m \in ClusterName |-> clusters'[m]]
      BY <1>15 DEF Activate
    <3> QED
      BY <2>1, <3>1
  <2>3. UNCHANGED <<access, bootstraps, manualTokens, setupFaults, leftBehind, withdrawn>>
    BY <1>15 DEF Activate
  <2> QED
    BY <1>0, <2>1, <2>2, <2>3, RowsStep
<1>16. ASSUME NEW n \in ClusterName, UseCluster(n) PROVE ClusterInv'
  <2> DEFINE row == [clusters[n] EXCEPT !.used = TRUE]
  <2>1. clusters[n] \in ClusterRow
    BY <1>0
  <2>2. row \in ClusterRow /\ row.secret = clusters[n].secret
    BY <2>1 DEF ClusterRow
  <2>3. clusters' = [clusters EXCEPT ![n] = row]
    BY <1>16, <1>0 DEF UseCluster
  <2>4. UNCHANGED <<access, bootstraps, manualTokens, setupFaults, leftBehind, withdrawn>>
    BY <1>16 DEF UseCluster
  <2> HIDE DEF row
  <2> QED
    BY <1>0, <1>w, <2>2, <2>3, <2>4, RowsStep
<1>n. NoCluster \in ClusterRow /\ NoCluster.secret = None
  BY DEF NoCluster, ClusterRow, Maker
<1>17. ASSUME NEW n \in ClusterName, DeleteCluster(n) PROVE ClusterInv'
  <2>4. /\ clusters' = [clusters EXCEPT ![n] = NoCluster]
        /\ UNCHANGED <<access, bootstraps, manualTokens, setupFaults, leftBehind, withdrawn>>
    BY <1>17 DEF DeleteCluster
  <2> QED
    BY <1>0, <1>n, <1>w, <2>4, RowsStep
<1>18. ASSUME NEW n \in ClusterName, NEW m \in ClusterName, RenameCluster(n, m) PROVE ClusterInv'
  <2>1. /\ clusters' = [clusters EXCEPT ![m] = clusters[n], ![n] = NoCluster]
        /\ UNCHANGED <<access, bootstraps, manualTokens, setupFaults, leftBehind, withdrawn>>
    BY <1>18 DEF RenameCluster
  <2>2. /\ clusters' \in [ClusterName -> ClusterRow]
        /\ \A q \in ClusterName : \/ clusters'[q].secret = None
                                  \/ \E p \in ClusterName : clusters'[q].secret = clusters[p].secret
    BY <1>0, <1>n, <2>1
  <2> QED
    BY <1>0, <2>1, <2>2, RowsStep
<1>19. CASE ApiStops
  <2> DEFINE hit == {b \in Bootstrap : ~(bootstraps[b].pc \in Finished \cup {"new"})}
  <2>1. ASSUME NEW b \in Bootstrap
        PROVE  /\ bootstraps'[b] \in BootRow
               /\ \/ b \notin hit /\ bootstraps'[b] = bootstraps[b]
                  \/ /\ b \in hit /\ bootstraps'[b].pc = "crashed"
                     /\ bootstraps'[b].madeRole = bootstraps[b].madeRole
                     /\ bootstraps'[b].madeUser = bootstraps[b].madeUser
    <3> DEFINE k == [bootstraps[b] EXCEPT !.pc = "crashed"]
    <3>1. bootstraps'[b] = IF b \in hit THEN k ELSE bootstraps[b]
      BY <1>19 DEF ApiStops
    <3>2. k \in BootRow /\ k.pc = "crashed"
      BY <1>b DEF BootRow, BootPc
    <3>3. k.madeRole = bootstraps[b].madeRole
      BY <1>b DEF BootRow
    <3>4. k.madeUser = bootstraps[b].madeUser
      BY <1>b DEF BootRow
    <3> HIDE DEF k, hit
    <3> QED
      BY <1>b, <3>1, <3>2, <3>3, <3>4
  <2>2. bootstraps' \in [Bootstrap -> BootRow]
    <3>1. bootstraps' = [b \in Bootstrap |-> bootstraps'[b]]
      BY <1>19 DEF ApiStops
    <3> QED
      BY <2>1, <3>1
  <2>3. setupFaults' \in 0..MaxSetupFaults
        /\ UNCHANGED <<access, clusters, manualTokens, leftBehind, withdrawn>>
    BY <1>19, <1>f DEF ApiStops
  <2>4. ClusterRows'
    BY <1>0, <2>2, <2>3 DEF ClusterRows
  <2>5. ASSUME NEW b \in Bootstrap
        PROVE  Standing(b, access, bootstraps'[b], b \in leftBehind, b \in withdrawn)
    BY <1>b, <2>1 DEF Standing
  <2>6. SecretsOfDone'
    <3>1. \A b \in Bootstrap : bootstraps[b].pc = "done" => bootstraps'[b].pc = "done"
      BY <2>1 DEF Finished
    <3> QED
      BY <2>3, <3>1 DEF ClusterInv, SecretsOfDone
  <2> QED
    BY <2>3, <2>4, <2>5, <2>6 DEF ClusterInv, AllStand
<1>20. CASE UNCHANGED clusterVars
  BY <1>20 DEF clusterVars, ClusterInv, ClusterRows, AllStand, Standing, SecretsOfDone
<1> QED
  BY <1>1, <1>2, <1>3, <1>4, <1>5, <1>6, <1>7, <1>8, <1>9, <1>10, <1>11, <1>12, <1>13, <1>14, <1>15,
     <1>16, <1>17, <1>18, <1>19, <1>20 DEF ClusterNext

LEMMA ClusterInvAlways == ClusterSpec => []ClusterInv
BY ClusterInvInit, ClusterInvStep, PTL DEF ClusterSpec

\* The host's identities, the cluster rows and the bootstraps are of their types.
THEOREM ClusterTypes == ClusterSpec => []ClusterTypeOK
BY ClusterInvAlways, ClusterRowsTypes, PTL DEF ClusterInv

LEMMA ClusterInvWhole == ClusterInv => BootstrapAllOrNothing
<1> SUFFICES ASSUME ClusterInv PROVE BootstrapAllOrNothing
  OBVIOUS
<1>0. \A b \in Bootstrap : Standing(b, access, bootstraps[b], b \in leftBehind, b \in withdrawn)
  BY DEF ClusterInv, AllStand
<1>1. ASSUME NEW b \in Bootstrap \ leftBehind, At(b, "failed")
      PROVE  access.role # b /\ access.user # b
  BY <1>0, <1>1 DEF At, Standing
<1>2. ASSUME NEW n \in ClusterName, clusters[n].secret \in Bootstrap \ withdrawn
      PROVE  access.user = clusters[n].secret /\ access.token = clusters[n].secret /\ access.granted
  <2>1. bootstraps[clusters[n].secret].pc = "done"
    BY <1>2 DEF ClusterInv, SecretsOfDone
  <2> QED
    BY <1>0, <1>2, <2>1 DEF Standing
<1> QED
  BY <1>1, <1>2 DEF BootstrapAllOrNothing

\* Whatever else runs beside it, a bootstrap of a cluster takes effect as a whole or not at
\* all (ProxmoxBootstrapService.bootstrap and its compensation).
THEOREM BootstrapIsWhole == ClusterSpec => []BootstrapAllOrNothing
BY ClusterInvAlways, ClusterInvWhole, PTL
=============================================================================
