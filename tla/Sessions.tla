------------------------------- MODULE Sessions -------------------------------
(***************************************************************************)
(* Console connections of one user to one VM and the vm_sessions rows that *)
(* report them: the WebSocket handlers (services/console_ws_service.py,    *)
(* services/guacamole_console.py), the row's state machine                 *)
(* (services/session_service.py, architecture/state_machines.py), the      *)
(* session worker and the settings a guest connection depends on           *)
(* (api/routers/console.py, api/routers/templates.py).                     *)
(*                                                                         *)
(* Every change of a row's state is a SELECT, a look at the transition     *)
(* table and an UPDATE without a lock: two steps, of a handler or of the   *)
(* worker's pass over all rows.                                            *)
(***************************************************************************)
EXTENDS Integers, FiniteSets

CONSTANTS
  Conn,          \* connections
  Uses,          \* bound: the kinds of console a connection may be
  LeftOver,      \* bound: connections an earlier API process left behind
  Limit,         \* launching or active sessions a user may have (5 in the code)
  MaxRevision,   \* bound: saves of the profile and of the credentials
  MaxRestarts,   \* bound: restarts of the API
  MaxPageBeats   \* bound: heartbeats sent by pages

ASSUME SessionsBounds ==
  /\ Uses \in [Conn -> SUBSET {"ssh", "proxmox", "vnc", "guest"}]
  /\ LeftOver \subseteq Conn
  /\ Limit \in Nat \ {0} /\ MaxRevision \in Nat \ {0}
  /\ MaxRestarts \in Nat /\ MaxPageBeats \in Nat

VARIABLES
  sessions,   \* vm_sessions, by connection
  console,    \* the handler of a connection
  pass,       \* the session worker's pass under way and the rows it read
  entitled,   \* login, membership, assignment and VM flag admit the user
  profile,    \* vm_remote_profiles row of the VM, on the template's credentials
  credential, \* template_guest_credentials row; generation is history
  restarts,   \* history: restarts of the API so far
  pageBeats   \* history: heartbeats sent by pages so far

sessionVars == <<sessions, console, pass, entitled, profile, credential, restarts, pageBeats>>
settingsVars == <<profile, credential>>
historyVars == <<restarts, pageBeats>>

State == {"launching", "active", "disconnected", "reconnecting", "expired", "failed"}
Ended == {"expired", "failed"}

SESSION_TRANSITIONS ==
  [launching |-> {"active", "failed"}, active |-> {"disconnected", "expired"},
   disconnected |-> {"reconnecting", "expired"}, reconnecting |-> {"active", "failed"},
   expired |-> {}, failed |-> {}]

\* ssh: SSH pilot.  proxmox: noVNC or serial.  vnc, guest: Guacamole, guest with a profile.
ConsoleKind == {"ssh", "proxmox", "vnc", "guest"}
Guacamole == {"vnc", "guest"}

Settings == [revision : 0..(MaxRevision + 1), credentials : 0..(MaxRevision + 1), auto : BOOLEAN,
             generation : 0..(MaxRevision + 1)]
NoSettings == [revision |-> 0, credentials |-> 0, auto |-> FALSE, generation |-> 0]

NoSession == [state |-> "none", beat |-> "never", old |-> FALSE]
NoConsole == [pc |-> "none", kind |-> "ssh", synced |-> FALSE, failed |-> FALSE,
              next |-> "none", settings |-> NoSettings]

Gone(how) == [NoConsole EXCEPT !.pc = how]

Passes == {"stale", "launching"}

SessionsTypeOK ==
  /\ sessions \in [Conn -> [state : State \cup {"none"}, beat : {"never", "fresh", "stale"},
                            old : BOOLEAN]]
  /\ console \in [Conn -> [pc : {"none", "preparing", "opening", "activate", "activating", "beat",
                                 "open", "end", "ending", "closed", "killed"},
                           kind : ConsoleKind, synced : BOOLEAN, failed : BOOLEAN,
                           next : State \cup {"none"}, settings : Settings]]
  /\ pass \in [name : Passes \cup {"none"}, seen : SUBSET Conn]
  /\ entitled \in BOOLEAN
  /\ profile \in [revision : 0..(MaxRevision + 1), enabled : BOOLEAN]
  /\ credential \in [revision : 0..(MaxRevision + 1), auto : BOOLEAN, generation : 0..(MaxRevision + 1)]
  /\ restarts \in 0..MaxRestarts /\ pageBeats \in 0..MaxPageBeats

SessionsInit ==
  /\ \E state \in {"launching", "active"} :
       sessions = [k \in Conn |-> IF k \in LeftOver
                                  THEN [state |-> state, beat |-> "stale", old |-> TRUE] ELSE NoSession]
  /\ console = [k \in Conn |-> IF k \in LeftOver THEN Gone("killed") ELSE NoConsole]
  /\ pass = [name |-> "none", seen |-> {}]
  /\ entitled = TRUE
  /\ profile = [revision |-> 1, enabled |-> TRUE]
  /\ credential = [revision |-> 1, auto |-> TRUE, generation |-> 1]
  /\ restarts = 0 /\ pageBeats = 0

CurrentSettings ==
  [revision |-> profile.revision, credentials |-> credential.revision,
   auto |-> credential.auto, generation |-> credential.generation]

\* profile_parameters and connection_credentials find a usable profile.
ProfileUsable == profile.enabled /\ credential.revision > 0 /\ credential.auto

Step(k, from, to) == console[k].pc = from /\ console' = [console EXCEPT ![k].pc = to]
Counted == {k \in Conn : sessions[k].state \in {"launching", "active"}}

-----------------------------------------------------------------------------
(* A connection from accept to its first use.                              *)

\* The router admits the connection; Guacamole counts the user's sessions first.
Accept(k, kind) ==
  /\ entitled /\ console[k].pc = "none" /\ kind \in Uses[k]
  /\ kind \in Guacamole => Cardinality(Counted) < Limit
  /\ console' = [console EXCEPT ![k] = [NoConsole EXCEPT !.pc = "preparing", !.kind = kind]]
  /\ UNCHANGED <<sessions, pass, entitled, settingsVars, historyVars>>

\* Proxmox has answered: settings are read and the row is committed as launching.
CreateLaunching(k) ==
  /\ console[k].pc = "preparing"
  /\ console[k].kind = "guest" => ProfileUsable
  /\ sessions' = [sessions EXCEPT ![k].state = "launching"]
  /\ console' = [console EXCEPT ![k].pc = IF console[k].kind = "ssh" THEN "activate" ELSE "opening",
                                ![k].settings = IF console[k].kind = "guest" THEN CurrentSettings
                                                ELSE NoSettings]
  /\ UNCHANGED <<pass, entitled, settingsVars, historyVars>>

\* An error or a refusal before there is a row.
Refused(k) ==
  /\ console[k].pc = "preparing" /\ console' = [console EXCEPT ![k] = Gone("closed")]
  /\ UNCHANGED <<sessions, pass, entitled, settingsVars, historyVars>>

\* The upstream connection stands.
Connect(k) ==
  /\ Step(k, "opening", IF console[k].kind = "proxmox" THEN "activate" ELSE "open")
  /\ UNCHANGED <<sessions, pass, entitled, settingsVars, historyVars>>

\* The upstream connection is refused or times out.
ConnectFails(k) ==
  /\ console[k].pc = "opening"
  /\ console' = [console EXCEPT ![k].pc = "end", ![k].failed = TRUE]
  /\ UNCHANGED <<sessions, pass, entitled, settingsVars, historyVars>>

\* Guacamole's first sync: the display is there.
Sync(k) ==
  /\ console[k].pc = "open" /\ console[k].kind \in Guacamole /\ ~console[k].synced
  /\ console' = [console EXCEPT ![k].pc = "activate", ![k].synced = TRUE]
  /\ UNCHANGED <<sessions, pass, entitled, settingsVars, historyVars>>

-----------------------------------------------------------------------------
(* The row's state machine: _set_state.                                    *)

\* What _set_state writes over a state it has read, "none" when it refuses.
Validated(state, next) == IF next \in SESSION_TRANSITIONS[state] THEN next ELSE "none"

\* mark_active, its SELECT.
ActivateRead(k) ==
  /\ console[k].pc = "activate"
  /\ console' = [console EXCEPT ![k].pc = "activating",
                                ![k].next = Validated(sessions[k].state, "active")]
  /\ UNCHANGED <<sessions, pass, entitled, settingsVars, historyVars>>

\* The UPDATE of mark_active, mark_disconnected or mark_failed.
WriteNext(k) ==
  sessions' = IF console[k].next = "none" THEN sessions
              ELSE [sessions EXCEPT ![k].state = console[k].next]

ActivateWrite(k) ==
  /\ console[k].pc = "activating" /\ WriteNext(k)
  /\ console' = [console EXCEPT ![k].pc = "beat", ![k].next = "none"]
  /\ UNCHANGED <<pass, entitled, settingsVars, historyVars>>

\* heartbeat: an ended session takes none.
Beaten(k) ==
  IF sessions[k].state \in Ended THEN sessions ELSE [sessions EXCEPT ![k].beat = "fresh"]

FirstBeat(k) ==
  /\ Step(k, "beat", IF console[k].kind = "ssh" /\ ~console[k].synced THEN "opening" ELSE "open")
  /\ sessions' = Beaten(k)
  /\ UNCHANGED <<pass, entitled, settingsVars, historyVars>>

\* POST /sessions/{id}/heartbeat, without a state.
PageBeat(k) ==
  /\ pageBeats < MaxPageBeats /\ sessions[k].state # "none" /\ sessions[k].state \notin Ended
  /\ sessions' = Beaten(k)
  /\ pageBeats' = pageBeats + 1
  /\ UNCHANGED <<console, pass, entitled, settingsVars, restarts>>

-----------------------------------------------------------------------------
(* An open connection.                                                     *)

\* Mutant: only the user's access is watched.
WatchAccessMutant(k) ==
  /\ console[k].pc = "open"
  /\ IF ~entitled
     THEN console' = [console EXCEPT ![k].pc = "end"] /\ UNCHANGED sessions
     ELSE sessions' = Beaten(k) /\ UNCHANGED console
  /\ UNCHANGED <<pass, entitled, settingsVars, historyVars>>

\* _watch_session_access, every 30 seconds.
WatchAccess(k) ==
  /\ console[k].pc = "open"
  /\ IF ~entitled \/ sessions[k].state \in Ended
     THEN console' = [console EXCEPT ![k].pc = "end"] /\ UNCHANGED sessions
     ELSE sessions' = Beaten(k) /\ UNCHANGED console
  /\ UNCHANGED <<pass, entitled, settingsVars, historyVars>>

\* profile_watch finds the revisions it was opened with.
SettingsMatch(k) ==
  LET then == console[k].settings IN
  /\ profile.enabled /\ profile.revision = then.revision
  /\ credential.revision = then.credentials /\ credential.auto = then.auto

\* profile_watch, every 15 seconds.
WatchProfile(k) ==
  /\ console[k].pc = "open" /\ console[k].kind = "guest" /\ ~SettingsMatch(k)
  /\ console' = [console EXCEPT ![k].pc = "end", ![k].failed = credential.revision = 0]
  /\ UNCHANGED <<sessions, pass, entitled, settingsVars, historyVars>>

\* The page goes away, or one side of the relay ends or breaks.
Leave(k) ==
  /\ console[k].pc = "open"
  /\ \E failed \in BOOLEAN :
       console' = [console EXCEPT ![k].pc = "end", ![k].failed = failed]
  /\ UNCHANGED <<sessions, pass, entitled, settingsVars, historyVars>>

-----------------------------------------------------------------------------
(* The end of a connection: mark_failed after an error, mark_disconnected, *)
(* and mark_failed for what never became active.                           *)

\* Mutant: a connection that ends early is only marked disconnected.
EndingMutant(k) == Validated(sessions[k].state, "disconnected")

Ending(k) ==
  LET disconnected == Validated(sessions[k].state, "disconnected") IN
  IF disconnected # "none" THEN disconnected
  ELSE IF console[k].kind # "ssh" \/ console[k].failed THEN Validated(sessions[k].state, "failed")
  ELSE "none"

EndRead(k) ==
  /\ console[k].pc = "end"
  /\ console' = [console EXCEPT ![k].pc = "ending", ![k].next = Ending(k)]
  /\ UNCHANGED <<sessions, pass, entitled, settingsVars, historyVars>>

EndWrite(k) ==
  /\ console[k].pc = "ending" /\ WriteNext(k)
  /\ console' = [console EXCEPT ![k] = Gone("closed")]
  /\ UNCHANGED <<pass, entitled, settingsVars, historyVars>>

-----------------------------------------------------------------------------
(* The session worker: expire_stale_sessions and fail_stuck_launching;     *)
(* what expire_reconnecting_sessions asks for the table always refuses.    *)

Chosen(name, k) ==
  CASE name = "stale" -> /\ sessions[k].state \in {"active", "disconnected", "reconnecting"}
                         /\ sessions[k].beat = "stale"
    [] name = "launching" -> sessions[k].state = "launching" /\ sessions[k].old

Scan(name) ==
  /\ pass.name = "none"
  /\ LET outcome == IF name = "launching" THEN "failed" ELSE "expired"
         seen == {k \in Conn : Chosen(name, k) /\ Validated(sessions[k].state, outcome) # "none"}
     IN seen # {} /\ pass' = [name |-> name, seen |-> seen]
  /\ UNCHANGED <<sessions, console, entitled, settingsVars, historyVars>>

\* Mutant: launches are never timed out.
WorkerWritesMutant ==
  /\ pass.name # "none"
  /\ sessions' = [k \in Conn |-> IF k \in pass.seen /\ pass.name # "launching"
                                 THEN [sessions[k] EXCEPT !.state = "expired"] ELSE sessions[k]]
  /\ pass' = [name |-> "none", seen |-> {}]
  /\ UNCHANGED <<console, entitled, settingsVars, historyVars>>

\* The rows read are written, whatever became of them meanwhile.
WorkerWrites ==
  /\ pass.name # "none"
  /\ sessions' = [k \in Conn |->
       IF k \notin pass.seen THEN sessions[k]
       ELSE [sessions[k] EXCEPT !.state = IF pass.name = "launching" THEN "failed" ELSE "expired"]]
  /\ pass' = [name |-> "none", seen |-> {}]
  /\ UNCHANGED <<console, entitled, settingsVars, historyVars>>

-----------------------------------------------------------------------------
(* Time, faults and other people.                                          *)

\* An idle timeout without a heartbeat; a watched connection beats far more often.
BeatAges(k) ==
  /\ sessions[k].beat = "fresh" /\ console[k].pc # "open"
  /\ sessions' = [sessions EXCEPT ![k].beat = "stale"]
  /\ UNCHANGED <<console, pass, entitled, settingsVars, historyVars>>
LaunchAges(k) ==
  /\ sessions[k].state = "launching" /\ ~sessions[k].old
  /\ sessions' = [sessions EXCEPT ![k].old = TRUE]
  /\ UNCHANGED <<console, pass, entitled, settingsVars, historyVars>>

\* The API process ends: handlers and the worker's pass are gone, rows stay.
ApiRestarts ==
  /\ restarts < MaxRestarts /\ restarts' = restarts + 1
  /\ console' = [k \in Conn |-> IF console[k].pc \in {"none", "closed"} THEN console[k]
                                ELSE Gone("killed")]
  /\ pass' = [name |-> "none", seen |-> {}]
  /\ UNCHANGED <<sessions, entitled, settingsVars, pageBeats>>

\* The user's login, membership, assignment or the VM's flag changes.
AccessChanges ==
  /\ entitled' = ~entitled
  /\ UNCHANGED <<sessions, console, pass, settingsVars, historyVars>>

\* The bound: both start with one save.
SavesLeft == profile.revision + credential.generation < MaxRevision + 2

\* save_remote_profile.
SaveProfile(enabled) ==
  /\ SavesLeft
  /\ profile' = [revision |-> profile.revision + 1, enabled |-> enabled]
  /\ UNCHANGED <<sessions, console, pass, entitled, credential, historyVars>>

\* save_guest_credentials and change_guest_credential_policy.
SaveCredentials(auto) ==
  /\ SavesLeft
  /\ credential' = [revision |-> credential.revision + 1, auto |-> auto,
                    generation |-> credential.generation + 1]
  /\ UNCHANGED <<sessions, console, pass, entitled, profile, historyVars>>

\* remove_guest_credentials: the row goes, and the revision with it.
RemoveCredentials ==
  /\ credential.revision > 0
  /\ credential' = [credential EXCEPT !.revision = 0, !.auto = FALSE]
  /\ UNCHANGED <<sessions, console, pass, entitled, profile, historyVars>>

-----------------------------------------------------------------------------

\* What a handler does of itself once it has begun to change its row.
RowStep(k) == ActivateRead(k) \/ ActivateWrite(k) \/ FirstBeat(k) \/ EndRead(k) \/ EndWrite(k)

ConsoleStep(k) ==
  \/ CreateLaunching(k) \/ Refused(k) \/ Connect(k) \/ ConnectFails(k) \/ Sync(k)
  \/ RowStep(k) \/ Leave(k)

SessionsNext ==
  \/ \E k \in Conn, kind \in ConsoleKind : Accept(k, kind)
  \/ \E k \in Conn : \/ ConsoleStep(k) \/ WatchAccess(k) \/ WatchProfile(k) \/ PageBeat(k)
                     \/ BeatAges(k) \/ LaunchAges(k)
  \/ \E name \in Passes : Scan(name)
  \/ WorkerWrites
  \/ ApiRestarts \/ AccessChanges
  \/ \E yes \in BOOLEAN : SaveProfile(yes) \/ SaveCredentials(yes)
  \/ RemoveCredentials

SessionsSpec == SessionsInit /\ [][SessionsNext]_sessionVars

\* Handlers end what they have begun, the two watches wake up, the worker runs every
\* minute and time passes.  A user may stay connected for ever.
SessionsFairness ==
  /\ \A k \in Conn :
       /\ WF_sessionVars(RowStep(k))
       /\ WF_sessionVars(WatchAccess(k)) /\ WF_sessionVars(WatchProfile(k))
       /\ WF_sessionVars(BeatAges(k) \/ LaunchAges(k))
  /\ WF_sessionVars(\E name \in Passes : Scan(name))
  /\ WF_sessionVars(WorkerWrites)

-----------------------------------------------------------------------------

\* A connection that has ended leaves no launching or active row, which would count
\* against the user's limit and show a session nobody has, whatever the worker wrote
\* meanwhile (the finally blocks of connect, _proxmox_ws and ssh_ws).
EndedConsoleIsReported ==
  \A k \in Conn : console[k].pc = "closed" => sessions[k].state \notin {"launching", "active"}

\* "It rechecks the original login session and assignment access every 30 seconds, and
\* profile revision/enabled state every 15 seconds" (docs/operations/consoles.md): a
\* connection whose access, session or settings are gone does not stay open: again and
\* again there is none, as a connection lives only once.
MustEnd(k) ==
  /\ console[k].pc = "open"
  /\ \/ ~entitled
     \/ sessions[k].state \in Ended
     \/ console[k].kind = "guest" /\ ~SettingsMatch(k)
ConsoleDoesNotOutliveAccess == []<>(\A k \in Conn : ~MustEnd(k))

\* A session nobody is connected to is expired or failed in the end, also after a
\* restart of the API; one that was killed between activation and its first heartbeat
\* is the exception (session_worker.run_once).
Abandoned(k) ==
  /\ console[k].pc \in {"closed", "killed"}
  /\ sessions[k].state \in State \ Ended
  /\ sessions[k].state = "launching" \/ sessions[k].beat # "never"
AbandonedSessionsEnd == []<>(\A k \in Conn : ~Abandoned(k))

\* docs/operations/consoles.md: "Template changes revoke inherited sessions on the
\* profile check": a check that finds nothing to object to looks at the settings the
\* connection was opened with.
TemplateChangesRevoke ==
  \A k \in Conn : console[k].pc = "open" /\ console[k].kind = "guest" /\ SettingsMatch(k) =>
    console[k].settings.generation = credential.generation
=============================================================================
