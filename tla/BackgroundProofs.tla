-------------------------- MODULE BackgroundProofs --------------------------
(***************************************************************************)
(* Proofs about what runs on by itself in the API: console connections,    *)
(* the asset downloads and the reconciliation pass, for any number of      *)
(* connections, workers, nodes, jobs, processes, VMs and faults.           *)
(***************************************************************************)
EXTENDS MCBackground, FiniteSetTheorems, TLAPS

-----------------------------------------------------------------------------
(* Console connections.                                                    *)

SessionRow == [state : State \cup {"none"}, beat : {"never", "fresh", "stale"}, old : BOOLEAN]
ConsoleRow == [pc : {"none", "preparing", "opening", "activate", "activating", "beat",
                     "open", "end", "ending", "closed", "killed"},
               kind : ConsoleKind, synced : BOOLEAN, failed : BOOLEAN,
               next : State \cup {"none"}, settings : Settings]

-----------------------------------------------------------------------------
(* The inductive invariant.                                                *)

\* A row as it can be where its handler is.  What a handler has decided to write still
\* ends or activates the row, whatever the worker has written meanwhile; the SSH pilot,
\* which never fails a launching row, opens only after the row has left that state.
Reported(s, c) ==
  /\ c.pc \in {"none", "preparing"} => s.state = "none"
  /\ c.pc \notin {"none", "preparing", "closed", "killed"} => s.state # "none"
  /\ c.pc = "closed" => s.state \notin {"launching", "active"}
  /\ c.pc = "activating" => \/ c.next = "active"
                            \/ c.next = "none" /\ s.state # "launching"
  /\ c.kind = "ssh" /\ c.pc \in {"beat", "opening", "open", "end"} => s.state # "launching"
  /\ c.pc = "ending" => \/ c.next \in {"disconnected", "failed"}
                        \/ c.next = "none" /\ s.state \notin {"launching", "active"}

\* Rows the worker has read exist, and the saves are counted.
WorkerReadRows == \A k \in pass.seen : sessions[k].state # "none"
SavesCounted ==
  /\ profile.revision >= 1 /\ credential.generation >= 1
  /\ credential.revision <= credential.generation

SessionsInv ==
  /\ SessionsTypeOK /\ WorkerReadRows /\ SavesCounted
  /\ \A k \in Conn : Reported(sessions[k], console[k])

-----------------------------------------------------------------------------

\* The values a row and a handler start from and end with.
LEMMA BlankRows ==
  /\ NoSettings \in Settings /\ NoSession \in SessionRow /\ NoSession.state = "none"
  /\ NoConsole \in ConsoleRow /\ NoConsole.pc = "none"
  /\ \A how \in {"closed", "killed"} : Gone(how) \in ConsoleRow /\ Gone(how).pc = how
<1>1. NoSettings \in Settings
  BY SessionsBounds DEF NoSettings, Settings
<1>2. NoConsole \in ConsoleRow /\ NoConsole.pc = "none"
  BY <1>1 DEF NoConsole, ConsoleRow, ConsoleKind
<1>3. \A how \in {"closed", "killed"} : Gone(how) \in ConsoleRow /\ Gone(how).pc = how
  BY <1>2 DEF Gone, ConsoleRow
<1>4. NoSession \in SessionRow /\ NoSession.state = "none"
  BY DEF NoSession, SessionRow
<1> QED BY <1>1, <1>2, <1>3, <1>4

\* It holds at the start, of the rows an earlier process left behind too.
LEMMA SessionsInvInit == SessionsInit => SessionsInv
<1> SUFFICES ASSUME SessionsInit PROVE SessionsInv
  OBVIOUS
<1>1. MaxRevision \in Nat /\ MaxRestarts \in Nat /\ MaxPageBeats \in Nat
  BY SessionsBounds
<1>2. /\ NoSession \in SessionRow /\ NoConsole \in ConsoleRow /\ Gone("killed") \in ConsoleRow
      /\ NoSession.state = "none" /\ NoConsole.pc = "none" /\ Gone("killed").pc = "killed"
  BY BlankRows
<1>3. \A k \in Conn : /\ sessions[k] \in SessionRow
                      /\ \/ console[k] = Gone("killed")
                         \/ console[k] = NoConsole /\ sessions[k] = NoSession
  BY <1>2 DEF SessionsInit, SessionRow, State
<1>4. sessions \in [Conn -> SessionRow] /\ console \in [Conn -> ConsoleRow]
  <2>1. sessions = [k \in Conn |-> sessions[k]] /\ console = [k \in Conn |-> console[k]]
    BY DEF SessionsInit
  <2> QED BY <1>2, <1>3, <2>1
<1>5. SessionsTypeOK
  BY <1>1, <1>4 DEF SessionsInit, SessionsTypeOK, SessionRow, ConsoleRow, Passes
<1>6. WorkerReadRows /\ SavesCounted
  BY DEF SessionsInit, WorkerReadRows, SavesCounted
<1>7. \A k \in Conn : Reported(sessions[k], console[k])
  BY <1>2, <1>3 DEF Reported
<1> QED BY <1>5, <1>6, <1>7 DEF SessionsInv

\* A step of one connection keeps it when it leaves the row as it can be.
LEMMA ConnectionStep ==
  ASSUME SessionsInv, NEW k \in Conn, NEW s \in SessionRow, NEW c \in ConsoleRow,
         sessions' = [sessions EXCEPT ![k] = s], console' = [console EXCEPT ![k] = c],
         Reported(s, c), sessions[k].state # "none" => s.state # "none",
         UNCHANGED <<pass, entitled, profile, credential, restarts>>,
         pageBeats' \in 0..MaxPageBeats
  PROVE  SessionsInv'
<1>1. sessions \in [Conn -> SessionRow] /\ console \in [Conn -> ConsoleRow]
  BY DEF SessionsInv, SessionsTypeOK, SessionRow, ConsoleRow
<1>2. sessions' \in [Conn -> SessionRow] /\ console' \in [Conn -> ConsoleRow]
  BY <1>1
<1>3. /\ sessions'[k] = s /\ console'[k] = c
      /\ \A j \in Conn : j # k => sessions'[j] = sessions[j] /\ console'[j] = console[j]
  BY <1>1
<1>4. SessionsTypeOK'
  BY <1>2 DEF SessionsInv, SessionsTypeOK, SessionRow, ConsoleRow
<1>5. WorkerReadRows' /\ SavesCounted'
  <2>1. pass.seen \subseteq Conn
    BY DEF SessionsInv, SessionsTypeOK
  <2> QED BY <1>3, <2>1 DEF SessionsInv, WorkerReadRows, SavesCounted
<1>6. \A j \in Conn : Reported(sessions'[j], console'[j])
  BY <1>3 DEF SessionsInv
<1> QED BY <1>4, <1>5, <1>6 DEF SessionsInv

-----------------------------------------------------------------------------
(* The steps of one connection.                                            *)

\* What is known of a connection before its step.
LEMMA ConnectionKnown ==
  ASSUME SessionsInv, NEW k \in Conn
  PROVE  /\ sessions[k] \in SessionRow /\ console[k] \in ConsoleRow
         /\ Reported(sessions[k], console[k])
         /\ sessions = [sessions EXCEPT ![k] = sessions[k]]
         /\ console = [console EXCEPT ![k] = console[k]]
         /\ pageBeats \in 0..MaxPageBeats
BY DEF SessionsInv, SessionsTypeOK, SessionRow, ConsoleRow

\* Up to its row a connection keeps the invariant.
LEMMA OpeningKeeps ==
  ASSUME SessionsInv, NEW k \in Conn, NEW kind \in ConsoleKind,
         Accept(k, kind) \/ CreateLaunching(k) \/ Refused(k)
  PROVE  SessionsInv'
<1>1. /\ sessions[k] \in SessionRow /\ console[k] \in ConsoleRow
      /\ Reported(sessions[k], console[k]) /\ pageBeats \in 0..MaxPageBeats
      /\ sessions = [sessions EXCEPT ![k] = sessions[k]]
  BY ConnectionKnown
<1>2. CASE Accept(k, kind)
  <2> DEFINE c == [NoConsole EXCEPT !.pc = "preparing", !.kind = kind]
  <2>1. c \in ConsoleRow /\ c.pc = "preparing"
    BY BlankRows DEF ConsoleRow
  <2>2. console' = [console EXCEPT ![k] = c] /\ sessions[k].state = "none"
    BY <1>1, <1>2 DEF Accept, Reported
  <2> HIDE DEF c
  <2>3. Reported(sessions[k], c)
    BY <2>1, <2>2 DEF Reported
  <2> QED BY <1>1, <1>2, <2>1, <2>2, <2>3, ConnectionStep DEF Accept, settingsVars, historyVars
<1>3. CASE CreateLaunching(k)
  <2> DEFINE pc == IF console[k].kind = "ssh" THEN "activate" ELSE "opening"
             settings == IF console[k].kind = "guest" THEN CurrentSettings ELSE NoSettings
             c == [console[k] EXCEPT !.pc = pc, !.settings = settings]
             s == [sessions[k] EXCEPT !.state = "launching"]
  <2>1. settings \in Settings
    BY BlankRows DEF CurrentSettings, Settings, SessionsInv, SessionsTypeOK
  <2>2. s \in SessionRow /\ s.state = "launching"
    BY <1>1 DEF SessionRow, State
  <2>3. pc \in {"activate", "opening"} /\ (pc = "opening" => console[k].kind # "ssh")
    OBVIOUS
  <2>4. console' = [console EXCEPT ![k] = c] /\ sessions' = [sessions EXCEPT ![k] = s]
    BY <1>1, <1>3 DEF CreateLaunching, SessionsInv, SessionsTypeOK
  <2> HIDE DEF pc, settings
  <2>5. c \in ConsoleRow /\ c.pc = pc /\ c.kind = console[k].kind
    BY <1>1, <2>1, <2>3 DEF ConsoleRow
  <2> HIDE DEF c, s
  <2>6. Reported(s, c)
    BY <2>2, <2>3, <2>5 DEF Reported
  <2> QED BY <1>1, <1>3, <2>2, <2>4, <2>5, <2>6, ConnectionStep
          DEF CreateLaunching, settingsVars, historyVars
<1>4. CASE Refused(k)
  <2>1. console' = [console EXCEPT ![k] = Gone("closed")] /\ sessions[k].state = "none"
    BY <1>1, <1>4 DEF Refused, Reported
  <2>2. Reported(sessions[k], Gone("closed")) /\ Gone("closed") \in ConsoleRow
    BY <2>1, BlankRows DEF Reported
  <2> QED BY <1>1, <1>4, <2>1, <2>2, ConnectionStep DEF Refused, settingsVars, historyVars
<1> QED BY <1>2, <1>3, <1>4

\* The handler of an open connection keeps it.
LEMMA OpenKeeps ==
  ASSUME SessionsInv, NEW k \in Conn,
         \/ Connect(k) \/ ConnectFails(k) \/ Sync(k) \/ Leave(k) \/ WatchProfile(k)
         \/ WatchAccess(k) /\ (~entitled \/ sessions[k].state \in Ended)
  PROVE  SessionsInv'
<1>1. /\ sessions[k] \in SessionRow /\ console[k] \in ConsoleRow
      /\ Reported(sessions[k], console[k]) /\ pageBeats \in 0..MaxPageBeats
      /\ sessions = [sessions EXCEPT ![k] = sessions[k]]
      /\ console = [console EXCEPT ![k] = console[k]]
  BY ConnectionKnown
<1>2. \E pc \in {"activate", "open", "end"}, failed, synced \in BOOLEAN :
        /\ console' = [console EXCEPT ![k] = [console[k] EXCEPT !.pc = pc, !.failed = failed,
                                                               !.synced = synced]]
        /\ console[k].pc \in {"opening", "open"}
        /\ pc = "activate" => console[k].kind # "ssh"
  <2>1. CASE Connect(k)
    <3> DEFINE pc == IF console[k].kind = "proxmox" THEN "activate" ELSE "open"
    <3>1. /\ console' = [console EXCEPT ![k] = [console[k] EXCEPT !.pc = pc,
                           !.failed = console[k].failed, !.synced = console[k].synced]]
          /\ console[k].pc \in {"opening", "open"} /\ pc \in {"activate", "open", "end"}
      BY <1>1, <2>1 DEF Connect, Step, ConsoleRow
    <3> QED BY <1>1, <3>1 DEF ConsoleRow
  <2>2. CASE ConnectFails(k)
    <3>1. /\ console' = [console EXCEPT ![k] = [console[k] EXCEPT !.pc = "end",
                           !.failed = TRUE, !.synced = console[k].synced]]
          /\ console[k].pc \in {"opening", "open"}
      BY <1>1, <2>2 DEF ConnectFails, ConsoleRow
    <3> QED BY <1>1, <3>1 DEF ConsoleRow
  <2>3. CASE Sync(k)
    <3>1. /\ console' = [console EXCEPT ![k] = [console[k] EXCEPT !.pc = "activate",
                           !.failed = console[k].failed, !.synced = TRUE]]
          /\ console[k].pc \in {"opening", "open"} /\ console[k].kind # "ssh"
      BY <1>1, <2>3 DEF Sync, ConsoleRow, Guacamole
    <3> QED BY <1>1, <3>1 DEF ConsoleRow
  <2>4. CASE Leave(k) \/ WatchProfile(k)
    <3>1. console[k].pc = "open" /\ \E failed \in BOOLEAN :
            console' = [console EXCEPT ![k] = [console[k] EXCEPT !.pc = "end", !.failed = failed]]
      <4>1. CASE Leave(k)
        BY <4>1 DEF Leave
      <4>2. CASE WatchProfile(k)
        BY <4>2 DEF WatchProfile
      <4> QED BY <2>4, <4>1, <4>2
    <3>2. PICK failed \in BOOLEAN :
            console' = [console EXCEPT ![k] = [console[k] EXCEPT !.pc = "end", !.failed = failed]]
      BY <3>1
    <3>3. console' = [console EXCEPT ![k] = [console[k] EXCEPT !.pc = "end", !.failed = failed,
                                                               !.synced = console[k].synced]]
      BY <1>1, <3>2 DEF ConsoleRow
    <3> QED BY <1>1, <3>1, <3>3 DEF ConsoleRow
  <2>5. CASE WatchAccess(k) /\ (~entitled \/ sessions[k].state \in Ended)
    <3>1. /\ console' = [console EXCEPT ![k] = [console[k] EXCEPT !.pc = "end",
                           !.failed = console[k].failed, !.synced = console[k].synced]]
          /\ console[k].pc \in {"opening", "open"}
      BY <1>1, <2>5 DEF WatchAccess, ConsoleRow
    <3> QED BY <1>1, <3>1 DEF ConsoleRow
  <2> QED BY <2>1, <2>2, <2>3, <2>4, <2>5
<1>3. PICK pc \in {"activate", "open", "end"}, failed, synced \in BOOLEAN :
        /\ console' = [console EXCEPT ![k] = [console[k] EXCEPT !.pc = pc, !.failed = failed,
                                                               !.synced = synced]]
        /\ console[k].pc \in {"opening", "open"}
        /\ pc = "activate" => console[k].kind # "ssh"
  BY <1>2
<1> DEFINE c == [console[k] EXCEPT !.pc = pc, !.failed = failed, !.synced = synced]
<1>4. c \in ConsoleRow /\ c.kind = console[k].kind /\ c.pc = pc
  BY <1>1, <1>3 DEF ConsoleRow
<1>5. console' = [console EXCEPT ![k] = c]
  BY <1>3
<1> HIDE DEF c
<1>6. Reported(sessions[k], c)
  BY <1>1, <1>3, <1>4 DEF Reported
<1>7. sessions' = sessions /\ UNCHANGED <<pass, entitled, profile, credential, restarts, pageBeats>>
  BY DEF Connect, ConnectFails, Sync, Leave, WatchProfile, WatchAccess, settingsVars, historyVars
<1> QED BY <1>1, <1>4, <1>5, <1>6, <1>7, ConnectionStep

\* What _set_state makes of a row: a refusal says what the row is not.
LEMMA Refusals ==
  ASSUME NEW state \in State, NEW next \in State
  PROVE  /\ Validated(state, next) \in {next, "none"}
         /\ Validated(state, "active") = "none" => state # "launching"
         /\ Validated(state, "failed") = "none" => state # "launching"
         /\ Validated(state, "disconnected") = "none" => state # "active"
<1>1. /\ SESSION_TRANSITIONS["launching"] = {"active", "failed"}
      /\ SESSION_TRANSITIONS["active"] = {"disconnected", "expired"}
  BY DEF SESSION_TRANSITIONS
<1> QED BY <1>1 DEF Validated

\* What a connection that ends decides leaves no row launching or active.
LEMMA EndingDecides ==
  ASSUME NEW k \in Conn, sessions[k] \in SessionRow, Reported(sessions[k], console[k]),
         console[k].pc = "end"
  PROVE  /\ Ending(k) \in {"disconnected", "failed", "none"}
         /\ Ending(k) = "none" => sessions[k].state \notin {"launching", "active"}
<1>1. sessions[k].state \in State /\ (console[k].kind = "ssh" => sessions[k].state # "launching")
  BY DEF Reported, SessionRow
<1>2. "disconnected" \in State /\ "failed" \in State
  BY DEF State
<1> HIDE DEF State
<1>3. /\ Validated(sessions[k].state, "disconnected") \in {"disconnected", "none"}
      /\ Validated(sessions[k].state, "failed") \in {"failed", "none"}
      /\ Validated(sessions[k].state, "failed") = "none" => sessions[k].state # "launching"
      /\ Validated(sessions[k].state, "disconnected") = "none" => sessions[k].state # "active"
  BY <1>1, <1>2, Refusals
<1> QED BY <1>1, <1>3 DEF Ending

\* A handler that changes its row keeps the invariant.
LEMMA RowStepKeeps ==
  ASSUME SessionsInv, NEW k \in Conn, RowStep(k)
  PROVE  SessionsInv'
<1>1. /\ sessions[k] \in SessionRow /\ console[k] \in ConsoleRow
      /\ Reported(sessions[k], console[k]) /\ pageBeats \in 0..MaxPageBeats
      /\ sessions = [sessions EXCEPT ![k] = sessions[k]]
  BY ConnectionKnown
<1>2. CASE ActivateRead(k)
  <2> DEFINE next == Validated(sessions[k].state, "active")
             c == [console[k] EXCEPT !.pc = "activating", !.next = next]
  <2>1. console[k].pc = "activate" /\ console' = [console EXCEPT ![k] = c]
    BY <1>1, <1>2 DEF ActivateRead
  <2>2. sessions[k].state \in State /\ "active" \in State
    BY <1>1, <2>1 DEF Reported, SessionRow, State
  <2>3. next \in {"active", "none"} /\ (next = "none" => sessions[k].state # "launching")
    BY <2>2, Refusals
  <2> HIDE DEF next
  <2>4. c \in ConsoleRow /\ c.pc = "activating" /\ c.next = next
    BY <1>1, <2>3 DEF ConsoleRow, State
  <2> HIDE DEF c
  <2>5. Reported(sessions[k], c)
    BY <1>1, <2>1, <2>3, <2>4 DEF Reported
  <2> QED BY <1>1, <1>2, <2>1, <2>4, <2>5, ConnectionStep DEF ActivateRead, settingsVars, historyVars
<1>3. CASE ActivateWrite(k)
  <2> DEFINE c == [console[k] EXCEPT !.pc = "beat", !.next = "none"]
             s == IF console[k].next = "none" THEN sessions[k]
                  ELSE [sessions[k] EXCEPT !.state = console[k].next]
  <2>1. console[k].pc = "activating" /\ console' = [console EXCEPT ![k] = c]
    BY <1>1, <1>3 DEF ActivateWrite
  <2>2. sessions' = [sessions EXCEPT ![k] = s]
    BY <1>1, <1>3 DEF ActivateWrite, WriteNext
  <2>3. s \in SessionRow /\ s.state \notin {"launching", "none"}
    BY <1>1, <2>1 DEF SessionRow, State, Reported
  <2>4. c \in ConsoleRow /\ c.pc = "beat"
    BY <1>1 DEF ConsoleRow
  <2> HIDE DEF c, s
  <2>5. Reported(s, c)
    BY <2>3, <2>4 DEF Reported
  <2> QED BY <1>1, <1>3, <2>1, <2>2, <2>3, <2>4, <2>5, ConnectionStep
          DEF ActivateWrite, settingsVars, historyVars
<1>4. CASE FirstBeat(k)
  <2> DEFINE pc == IF console[k].kind = "ssh" /\ ~console[k].synced THEN "opening" ELSE "open"
             c == [console[k] EXCEPT !.pc = pc]
             s == IF sessions[k].state \in Ended THEN sessions[k] ELSE [sessions[k] EXCEPT !.beat = "fresh"]
  <2>1. console[k].pc = "beat" /\ console' = [console EXCEPT ![k] = c]
    BY <1>1, <1>4 DEF FirstBeat, Step
  <2>2. sessions' = [sessions EXCEPT ![k] = s]
    BY <1>1, <1>4 DEF FirstBeat, Beaten
  <2>3. s \in SessionRow /\ s.state = sessions[k].state
    BY <1>1 DEF SessionRow
  <2>4. pc \in {"opening", "open"}
    OBVIOUS
  <2> HIDE DEF pc
  <2>5. c \in ConsoleRow /\ c.pc = pc /\ c.kind = console[k].kind
    BY <1>1, <2>4 DEF ConsoleRow
  <2> HIDE DEF c, s
  <2>6. Reported(s, c)
    BY <1>1, <2>1, <2>3, <2>4, <2>5 DEF Reported
  <2> QED BY <1>1, <1>4, <2>1, <2>2, <2>3, <2>5, <2>6, ConnectionStep
          DEF FirstBeat, settingsVars, historyVars
<1>5. CASE EndRead(k)
  <2> DEFINE c == [console[k] EXCEPT !.pc = "ending", !.next = Ending(k)]
  <2>1. console[k].pc = "end" /\ console' = [console EXCEPT ![k] = c]
    BY <1>1, <1>5 DEF EndRead
  <2>2. /\ Ending(k) \in {"disconnected", "failed", "none"}
        /\ Ending(k) = "none" => sessions[k].state \notin {"launching", "active"}
    BY <1>1, <2>1, EndingDecides
  <2>3. c \in ConsoleRow /\ c.pc = "ending" /\ c.next = Ending(k)
    BY <1>1, <2>2 DEF ConsoleRow, State
  <2> HIDE DEF c
  <2>4. Reported(sessions[k], c)
    BY <1>1, <2>1, <2>2, <2>3 DEF Reported
  <2> QED BY <1>1, <1>5, <2>1, <2>3, <2>4, ConnectionStep DEF EndRead, settingsVars, historyVars
<1>6. CASE EndWrite(k)
  <2> DEFINE s == IF console[k].next = "none" THEN sessions[k]
                  ELSE [sessions[k] EXCEPT !.state = console[k].next]
  <2>1. console[k].pc = "ending" /\ console' = [console EXCEPT ![k] = Gone("closed")]
    BY <1>6 DEF EndWrite
  <2>2. sessions' = [sessions EXCEPT ![k] = s]
    BY <1>1, <1>6 DEF EndWrite, WriteNext
  <2>3. s \in SessionRow /\ s.state \notin {"launching", "active", "none"}
    BY <1>1, <2>1 DEF SessionRow, State, Reported
  <2>4. Gone("closed") \in ConsoleRow /\ Gone("closed").pc = "closed"
    BY BlankRows
  <2> HIDE DEF s
  <2>5. Reported(s, Gone("closed"))
    BY <2>3, <2>4 DEF Reported
  <2> QED BY <1>1, <1>6, <2>1, <2>2, <2>3, <2>4, <2>5, ConnectionStep
          DEF EndWrite, settingsVars, historyVars
<1> QED BY <1>2, <1>3, <1>4, <1>5, <1>6 DEF RowStep

\* Heartbeats and time leave the state of a row alone.
LEMMA BeatsKeep ==
  ASSUME SessionsInv, NEW k \in Conn,
         \/ WatchAccess(k) /\ ~(~entitled \/ sessions[k].state \in Ended)
         \/ PageBeat(k) \/ BeatAges(k) \/ LaunchAges(k)
  PROVE  SessionsInv'
<1>1. /\ sessions[k] \in SessionRow /\ console[k] \in ConsoleRow
      /\ Reported(sessions[k], console[k]) /\ pageBeats \in 0..MaxPageBeats
      /\ sessions = [sessions EXCEPT ![k] = sessions[k]]
      /\ console = [console EXCEPT ![k] = console[k]]
  BY ConnectionKnown
<1>2. \E beat \in {"never", "fresh", "stale"}, old \in BOOLEAN :
        sessions' = [sessions EXCEPT ![k] = [sessions[k] EXCEPT !.beat = beat, !.old = old]]
  <2>1. CASE PageBeat(k) \/ (WatchAccess(k) /\ ~(~entitled \/ sessions[k].state \in Ended))
    <3>1. sessions[k].state \notin Ended /\ sessions' = Beaten(k)
      BY <2>1 DEF PageBeat, WatchAccess
    <3>2. sessions' = [sessions EXCEPT ![k].beat = "fresh"]
      BY <3>1 DEF Beaten
    <3>3. sessions' = [sessions EXCEPT ![k] = [sessions[k] EXCEPT !.beat = "fresh",
                                                                  !.old = sessions[k].old]]
      BY <1>1, <3>2 DEF SessionRow
    <3> QED BY <1>1, <3>3 DEF SessionRow
  <2>2. CASE BeatAges(k)
    <3>1. sessions' = [sessions EXCEPT ![k] = [sessions[k] EXCEPT !.beat = "stale",
                                                                  !.old = sessions[k].old]]
      BY <1>1, <2>2 DEF BeatAges, SessionRow
    <3> QED BY <1>1, <3>1 DEF SessionRow
  <2>3. CASE LaunchAges(k)
    <3>1. sessions' = [sessions EXCEPT ![k] = [sessions[k] EXCEPT !.beat = sessions[k].beat,
                                                                  !.old = TRUE]]
      BY <1>1, <2>3 DEF LaunchAges, SessionRow
    <3> QED BY <1>1, <3>1 DEF SessionRow
  <2> QED BY <2>1, <2>2, <2>3
<1>3. PICK beat \in {"never", "fresh", "stale"}, old \in BOOLEAN :
        sessions' = [sessions EXCEPT ![k] = [sessions[k] EXCEPT !.beat = beat, !.old = old]]
  BY <1>2
<1> DEFINE s == [sessions[k] EXCEPT !.beat = beat, !.old = old]
<1>4. s \in SessionRow /\ s.state = sessions[k].state
  BY <1>1 DEF SessionRow
<1>5. sessions' = [sessions EXCEPT ![k] = s]
  BY <1>3
<1> HIDE DEF s
<1>6. Reported(s, console[k])
  BY <1>1, <1>4 DEF Reported
<1>7. /\ console' = console /\ UNCHANGED <<pass, entitled, profile, credential, restarts>>
      /\ pageBeats' \in 0..MaxPageBeats
  <2>1. MaxPageBeats \in Nat
    BY SessionsBounds
  <2> QED BY <1>1, <2>1 DEF PageBeat, WatchAccess, BeatAges, LaunchAges, settingsVars, historyVars
<1> QED BY <1>1, <1>4, <1>5, <1>6, <1>7, ConnectionStep

-----------------------------------------------------------------------------
(* The worker, restarts and changes of the settings.                       *)

\* The worker's writes end rows that exist, which no handler minds.
LEMMA WorkerKeeps ==
  ASSUME SessionsInv, (\E name \in Passes : Scan(name)) \/ WorkerWrites
  PROVE  SessionsInv'
<1>1. CASE \E name \in Passes : Scan(name)
  <2>1. PICK name \in Passes : Scan(name)
    BY <1>1
  <2> DEFINE outcome == IF name = "launching" THEN "failed" ELSE "expired"
             seen == {k \in Conn : Chosen(name, k) /\ Validated(sessions[k].state, outcome) # "none"}
  <2>2. pass' = [name |-> name, seen |-> seen] /\ seen \subseteq Conn
    BY <2>1 DEF Scan
  <2>3. UNCHANGED <<sessions, console, entitled, profile, credential, restarts, pageBeats>>
    BY <2>1 DEF Scan, settingsVars, historyVars
  <2>4. \A k \in seen : sessions[k].state # "none"
    BY DEF Chosen, Passes
  <2> HIDE DEF seen
  <2>5. SessionsTypeOK'
    BY <2>2, <2>3 DEF SessionsInv, SessionsTypeOK
  <2> QED BY <2>2, <2>3, <2>4, <2>5 DEF SessionsInv, WorkerReadRows, SavesCounted
<1>2. CASE WorkerWrites
  <2> DEFINE outcome == IF pass.name = "launching" THEN "failed" ELSE "expired"
  <2>1. /\ sessions' = [k \in Conn |-> IF k \notin pass.seen THEN sessions[k]
                                       ELSE [sessions[k] EXCEPT !.state = outcome]]
        /\ pass' = [name |-> "none", seen |-> {}]
        /\ UNCHANGED <<console, entitled, profile, credential, restarts, pageBeats>>
    BY <1>2 DEF WorkerWrites, settingsVars, historyVars
  <2>2. outcome \in {"failed", "expired"}
    OBVIOUS
  <2> HIDE DEF outcome
  <2>3. sessions \in [Conn -> SessionRow]
    BY DEF SessionsInv, SessionsTypeOK, SessionRow
  <2>4. ASSUME NEW k \in Conn
        PROVE  sessions'[k] \in SessionRow /\ Reported(sessions'[k], console[k])
    <3>1. CASE k \notin pass.seen
      BY <2>1, <2>3, <3>1 DEF SessionsInv
    <3>2. CASE k \in pass.seen
      <4>1. sessions[k].state # "none" /\ Reported(sessions[k], console[k]) /\ sessions[k] \in SessionRow
        BY <2>3, <3>2 DEF SessionsInv, WorkerReadRows
      <4>2. sessions'[k] \in SessionRow /\ sessions'[k].state = outcome
        BY <2>1, <2>2, <3>2, <4>1 DEF SessionRow, State
      <4> QED BY <2>2, <4>1, <4>2 DEF Reported
    <3> QED BY <3>1, <3>2
  <2>5. sessions' \in [Conn -> SessionRow]
    BY <2>1, <2>4
  <2>6. SessionsTypeOK'
    BY <2>1, <2>5 DEF SessionsInv, SessionsTypeOK, SessionRow
  <2> QED BY <2>1, <2>4, <2>6 DEF SessionsInv, WorkerReadRows, SavesCounted
<1> QED BY <1>1, <1>2

\* A restart kills the handlers that had not ended.
LEMMA RestartKeeps ==
  ASSUME SessionsInv, ApiRestarts
  PROVE  SessionsInv'
<1>1. /\ restarts < MaxRestarts /\ restarts' = restarts + 1
      /\ console' = [k \in Conn |-> IF console[k].pc \in {"none", "closed"} THEN console[k]
                                    ELSE Gone("killed")]
      /\ pass' = [name |-> "none", seen |-> {}]
      /\ UNCHANGED <<sessions, entitled, profile, credential, pageBeats>>
  BY DEF ApiRestarts, settingsVars
<1>2. console \in [Conn -> ConsoleRow] /\ Gone("killed") \in ConsoleRow /\ Gone("killed").pc = "killed"
  BY BlankRows DEF SessionsInv, SessionsTypeOK, ConsoleRow
<1>3. console' \in [Conn -> ConsoleRow]
  BY <1>1, <1>2
<1>4. \A k \in Conn : Reported(sessions'[k], console'[k])
  BY <1>1, <1>2 DEF SessionsInv, Reported
<1>5. restarts' \in 0..MaxRestarts
  BY <1>1, SessionsBounds DEF SessionsInv, SessionsTypeOK
<1>6. SessionsTypeOK'
  BY <1>1, <1>3, <1>5 DEF SessionsInv, SessionsTypeOK, ConsoleRow
<1> QED BY <1>1, <1>4, <1>6 DEF SessionsInv, WorkerReadRows, SavesCounted

\* Access and settings change beside the rows, within the bound on saves.
LEMMA SettingsKeep ==
  ASSUME SessionsInv,
         \/ AccessChanges
         \/ \E yes \in BOOLEAN : SaveProfile(yes) \/ SaveCredentials(yes)
         \/ RemoveCredentials
         \/ UNCHANGED sessionVars
  PROVE  SessionsInv'
<1>1. UNCHANGED <<sessions, console, pass, restarts, pageBeats>>
  BY DEF AccessChanges, SaveProfile, SaveCredentials, RemoveCredentials, historyVars, sessionVars
<1>2. /\ profile \in [revision : 0..(MaxRevision + 1), enabled : BOOLEAN]
      /\ credential \in [revision : 0..(MaxRevision + 1), auto : BOOLEAN,
                         generation : 0..(MaxRevision + 1)]
      /\ entitled \in BOOLEAN /\ SavesCounted /\ MaxRevision \in Nat
  BY SessionsBounds DEF SessionsInv, SessionsTypeOK
<1>3. /\ profile' \in [revision : 0..(MaxRevision + 1), enabled : BOOLEAN]
      /\ credential' \in [revision : 0..(MaxRevision + 1), auto : BOOLEAN,
                          generation : 0..(MaxRevision + 1)]
      /\ entitled' \in BOOLEAN /\ SavesCounted'
  <2>1. CASE AccessChanges \/ UNCHANGED sessionVars
    BY <1>2, <2>1 DEF AccessChanges, settingsVars, sessionVars, SavesCounted
  <2>2. CASE \E yes \in BOOLEAN : SaveProfile(yes)
    <3>1. PICK yes \in BOOLEAN : profile' = [revision |-> profile.revision + 1, enabled |-> yes]
      BY <2>2 DEF SaveProfile
    <3>2. SavesLeft /\ credential' = credential /\ entitled' = entitled
      BY <2>2 DEF SaveProfile
    <3>3. profile.revision + 1 \in 0..(MaxRevision + 1)
      BY <1>2, <3>2 DEF SavesLeft, SavesCounted
    <3> QED BY <1>2, <3>1, <3>2, <3>3 DEF SavesCounted
  <2>3. CASE \E yes \in BOOLEAN : SaveCredentials(yes)
    <3>1. PICK yes \in BOOLEAN :
            credential' = [revision |-> credential.revision + 1, auto |-> yes,
                           generation |-> credential.generation + 1]
      BY <2>3 DEF SaveCredentials
    <3>2. SavesLeft /\ profile' = profile /\ entitled' = entitled
      BY <2>3 DEF SaveCredentials
    <3>3. /\ credential.revision + 1 \in 0..(MaxRevision + 1)
          /\ credential.generation + 1 \in 0..(MaxRevision + 1)
      BY <1>2, <3>2 DEF SavesLeft, SavesCounted
    <3> QED BY <1>2, <3>1, <3>2, <3>3 DEF SavesCounted
  <2>4. CASE RemoveCredentials
    <3>1. /\ credential' = [credential EXCEPT !.revision = 0, !.auto = FALSE]
          /\ profile' = profile /\ entitled' = entitled
      BY <2>4 DEF RemoveCredentials
    <3>2. /\ credential' \in [revision : 0..(MaxRevision + 1), auto : BOOLEAN,
                              generation : 0..(MaxRevision + 1)]
          /\ credential'.revision = 0 /\ credential'.generation = credential.generation
      <4>1. 0 \in 0..(MaxRevision + 1)
        BY <1>2
      <4> DEFINE Rev == 0..(MaxRevision + 1)
      <4>2. credential \in [revision : Rev, auto : BOOLEAN, generation : Rev] /\ 0 \in Rev
        BY <1>2, <4>1
      <4> HIDE DEF Rev
      <4>3. /\ credential' \in [revision : Rev, auto : BOOLEAN, generation : Rev]
            /\ credential'.revision = 0 /\ credential'.generation = credential.generation
        BY <3>1, <4>2
      <4> QED BY <4>3 DEF Rev
    <3> QED BY <1>2, <3>1, <3>2 DEF SavesCounted
  <2> QED BY <2>1, <2>2, <2>3, <2>4
<1>4. SessionsTypeOK'
  BY <1>1, <1>3 DEF SessionsInv, SessionsTypeOK
<1> QED BY <1>1, <1>3, <1>4 DEF SessionsInv, WorkerReadRows

\* Every step keeps the invariant.
LEMMA SessionsInvStep == SessionsInv /\ [SessionsNext]_sessionVars => SessionsInv'
<1> SUFFICES ASSUME SessionsInv, [SessionsNext]_sessionVars PROVE SessionsInv'
  OBVIOUS
<1>1. CASE \E k \in Conn, kind \in ConsoleKind : Accept(k, kind)
  BY <1>1, OpeningKeeps
<1>2. CASE \E k \in Conn : \/ ConsoleStep(k) \/ WatchAccess(k) \/ WatchProfile(k) \/ PageBeat(k)
                           \/ BeatAges(k) \/ LaunchAges(k)
  <2>1. PICK k \in Conn : \/ ConsoleStep(k) \/ WatchAccess(k) \/ WatchProfile(k) \/ PageBeat(k)
                          \/ BeatAges(k) \/ LaunchAges(k)
    BY <1>2
  <2>2. CASE CreateLaunching(k) \/ Refused(k)
    <3>1. "ssh" \in ConsoleKind
      BY DEF ConsoleKind
    <3> QED BY <2>2, <3>1, OpeningKeeps
  <2>3. CASE RowStep(k)
    BY <2>3, RowStepKeeps
  <2>4. CASE \/ Connect(k) \/ ConnectFails(k) \/ Sync(k) \/ Leave(k) \/ WatchProfile(k)
             \/ WatchAccess(k) /\ (~entitled \/ sessions[k].state \in Ended)
    BY <2>4, OpenKeeps
  <2>5. CASE \/ WatchAccess(k) /\ ~(~entitled \/ sessions[k].state \in Ended)
             \/ PageBeat(k) \/ BeatAges(k) \/ LaunchAges(k)
    BY <2>5, BeatsKeep
  <2> QED BY <2>1, <2>2, <2>3, <2>4, <2>5 DEF ConsoleStep
<1>3. CASE (\E name \in Passes : Scan(name)) \/ WorkerWrites
  BY <1>3, WorkerKeeps
<1>4. CASE ApiRestarts
  BY <1>4, RestartKeeps
<1>5. CASE \/ AccessChanges
           \/ \E yes \in BOOLEAN : SaveProfile(yes) \/ SaveCredentials(yes)
           \/ RemoveCredentials
           \/ UNCHANGED sessionVars
  BY <1>5, SettingsKeep
<1> QED BY <1>1, <1>2, <1>3, <1>4, <1>5 DEF SessionsNext

-----------------------------------------------------------------------------
(* The theorems.                                                           *)

\* The invariant holds of every state of the consoles.
LEMMA SessionsInvHolds == SessionsSpec => []SessionsInv
BY SessionsInvInit, SessionsInvStep, PTL DEF SessionsSpec

\* Type correctness: rows, handlers and settings stay within their values.
THEOREM SessionsTypes == SessionsSpec => []SessionsTypeOK
<1>1. SessionsInv => SessionsTypeOK
  BY DEF SessionsInv
<1> QED BY <1>1, SessionsInvHolds, PTL

\* The finally blocks of connect, _proxmox_ws and ssh_ws: however many connections there
\* are and whatever the worker writes between a handler's read and its write, an ended
\* connection is not reported as launching or active.
THEOREM EndedConsolesAreReported == SessionsSpec => []EndedConsoleIsReported
<1>1. SessionsInv => EndedConsoleIsReported
  BY DEF SessionsInv, Reported, EndedConsoleIsReported
<1> QED BY <1>1, SessionsInvHolds, PTL

-----------------------------------------------------------------------------
(* The reconciliation pass.                                                *)

Status == Power \cup {"deleted"}

PassRow ==
  {NoPass} \cup [active : {TRUE}, late : BOOLEAN, todo : SUBSET Vm,
                 loaded : [Vm -> Status], seen : [Vm -> Status]]

InTime(p) == recon[p].active /\ ~recon[p].late

\* Within its lock's time a pass holds the entry, with the token it remembers, and an entry
\* names a process whose pass is under way: whoever releases or takes the lock meanwhile
\* does not touch it.
EntryHeld(p) ==
  /\ InTime(p) => lockEntry = p
  /\ lockEntry = p => recon[p].active /\ lockToken[p]

ReconInv ==
  /\ LockTypeOK
  /\ vmRows \in [Vm -> [status : Status, deleted : BOOLEAN]]
  /\ actual \in [Vm -> Power]
  /\ recon \in [Process -> PassRow]
  /\ spent \in [changes : 0..MaxChanges, faults : 0..MaxReconFaults]
  /\ \A p \in Process : EntryHeld(p)

-----------------------------------------------------------------------------

\* The invariant holds before the first pass.
LEMMA ReconInvInit == ReconInit => ReconInv
<1> SUFFICES ASSUME ReconInit PROVE ReconInv
  OBVIOUS
<1>1. spent \in [changes : 0..MaxChanges, faults : 0..MaxReconFaults]
  BY ReconciliationBounds DEF ReconInit
<1>2. \A p \in Process : EntryHeld(p)
  BY ProcessAssumption DEF ReconInit, LockInit, EntryHeld, InTime, NoPass
<1>3. recon \in [Process -> PassRow]
  BY DEF ReconInit, PassRow
<1> QED BY <1>1, <1>2, <1>3 DEF ReconInit, ReconInv, LockInit, LockTypeOK, Status, Power

\* The pass of a row that is active has all of its fields.
LEMMA ActivePass ==
  ASSUME ReconInv, NEW p \in Process, recon[p].active
  PROVE  recon[p] \in [active : {TRUE}, late : BOOLEAN, todo : SUBSET Vm,
                       loaded : [Vm -> Status], seen : [Vm -> Status]]
<1>1. recon[p] \in PassRow
  BY DEF ReconInv
<1>2. recon[p] # NoPass
  BY DEF NoPass
<1> QED BY <1>1, <1>2 DEF PassRow

\* Every step keeps it.
LEMMA ReconInvStep == ReconInv /\ [ReconNext]_reconVars => ReconInv'
<1> SUFFICES ASSUME ReconInv, [ReconNext]_reconVars PROVE ReconInv'
  OBVIOUS
<1>types. /\ lockEntry \in Process \cup {"none", "orphan"} /\ lockToken \in [Process -> BOOLEAN]
          /\ vmRows \in [Vm -> [status : Status, deleted : BOOLEAN]]
          /\ actual \in [Vm -> Power] /\ recon \in [Process -> PassRow]
          /\ spent \in [changes : 0..MaxChanges, faults : 0..MaxReconFaults]
          /\ MaxChanges \in Nat /\ MaxReconFaults \in Nat
  BY ReconciliationBounds DEF ReconInv, LockTypeOK
<1>holds. \A p \in Process : EntryHeld(p)
  BY DEF ReconInv
<1>fault. FaultSpent => spent' \in [changes : 0..MaxChanges, faults : 0..MaxReconFaults]
  BY <1>types DEF FaultSpent
<1>change. ChangeSpent => spent' \in [changes : 0..MaxChanges, faults : 0..MaxReconFaults]
  BY <1>types DEF ChangeSpent
<1>names. "none" \notin Process /\ "orphan" \notin Process
  BY ProcessAssumption
<1>1. ASSUME NEW p \in Process, StartPass(p) PROVE ReconInv'
  <2> DEFINE status == [v \in Vm |-> vmRows[v].status]
             new == [active |-> TRUE, late |-> FALSE, loaded |-> status, seen |-> status,
                     todo |-> {v \in Vm : ~vmRows[v].deleted}]
  <2>1. /\ lockEntry = "none" /\ lockEntry' = p /\ lockToken' = [lockToken EXCEPT ![p] = TRUE]
        /\ recon' = [recon EXCEPT ![p] = new]
        /\ vmRows' = vmRows /\ actual' = actual /\ spent' = spent
    BY <1>1 DEF StartPass, Acquire
  <2>2. status \in [Vm -> Status]
    BY <1>types
  <2>3. new \in PassRow
    BY <2>2 DEF PassRow
  <2>4. \A q \in Process : EntryHeld(q)'
    BY <2>1, <1>types, <1>holds, <1>names DEF EntryHeld, InTime
  <2>5. recon' \in [Process -> PassRow]
    BY <2>1, <2>3, <1>types
  <2> HIDE DEF new, status
  <2> QED BY <2>1, <2>4, <2>5, <1>types DEF ReconInv, LockTypeOK
<1>2. ASSUME NEW p \in Process, NEW v \in Vm, Observe(p, v) PROVE ReconInv'
  <2>1. /\ recon[p].active
        /\ recon' = [recon EXCEPT ![p].todo = @ \ {v}, ![p].seen[v] = actual[v]]
        /\ lockEntry' = lockEntry /\ lockToken' = lockToken
        /\ vmRows' = vmRows /\ actual' = actual /\ spent' = spent
    BY <1>2 DEF Observe, lockVars
  <2>2. actual[v] \in Status
    BY <1>types DEF Status
  <2> DEFINE new == [recon[p] EXCEPT !.todo = @ \ {v}, !.seen[v] = actual[v]]
  <2>3. new \in PassRow /\ new.active = recon[p].active /\ new.late = recon[p].late
    BY <2>1, <2>2, ActivePass DEF PassRow
  <2>4. recon' = [recon EXCEPT ![p] = new]
    BY <2>1, <1>types
  <2> HIDE DEF new
  <2>5. recon' \in [Process -> PassRow]
    BY <2>3, <2>4, <1>types
  <2>6. \A q \in Process : EntryHeld(q)'
    BY <2>1, <2>3, <2>4, <1>types, <1>holds DEF EntryHeld, InTime
  <2> QED BY <2>1, <2>5, <2>6, <1>types DEF ReconInv, LockTypeOK
<1>3. ASSUME NEW p \in Process, NEW v \in Vm, ObserveFails(p, v) PROVE ReconInv'
  <2>1. /\ recon[p].active /\ recon' = [recon EXCEPT ![p].todo = @ \ {v}]
        /\ lockEntry' = lockEntry /\ lockToken' = lockToken
        /\ vmRows' = vmRows /\ actual' = actual /\ FaultSpent
    BY <1>3 DEF ObserveFails, lockVars
  <2>2. recon' \in [Process -> PassRow]
    BY <2>1, <1>types, ActivePass DEF PassRow
  <2>3. \A q \in Process : EntryHeld(q)'
    BY <2>1, <1>types, <1>holds DEF EntryHeld, InTime
  <2> QED BY <2>1, <2>2, <2>3, <1>types, <1>fault DEF ReconInv, LockTypeOK
<1>4. ASSUME NEW p \in Process, EndPass(p) PROVE ReconInv'
  <2>1. /\ recon[p].active /\ recon' = [recon EXCEPT ![p] = NoPass]
        /\ vmRows' = [v \in Vm |-> [vmRows[v] EXCEPT !.status = Written(p, v)]]
        /\ lockToken' = [lockToken EXCEPT ![p] = FALSE]
        /\ lockEntry' = IF lockToken[p] /\ lockEntry = p THEN "none" ELSE lockEntry
        /\ actual' = actual /\ spent' = spent
    BY <1>4 DEF EndPass, Release
  <2>2. \A v \in Vm : Written(p, v) \in Status
    BY <2>1, <1>types, ActivePass DEF Written
  <2>3. vmRows' \in [Vm -> [status : Status, deleted : BOOLEAN]]
    BY <2>1, <2>2, <1>types
  <2>4. recon' \in [Process -> PassRow]
    BY <2>1, <1>types DEF PassRow
  <2>5. \A q \in Process : EntryHeld(q)'
    BY <2>1, <1>types, <1>holds, <1>names DEF EntryHeld, InTime, NoPass
  <2> QED BY <2>1, <2>3, <2>4, <2>5, <1>types DEF ReconInv, LockTypeOK
<1>5. CASE LockExpires
  <2>1. /\ lockEntry' = "none" /\ lockToken' = lockToken
        /\ vmRows' = vmRows /\ actual' = actual
    BY <1>5 DEF LockExpires, EntryExpires
  <2>2. CASE lockEntry \in Process
    <3>1. recon' = [recon EXCEPT ![lockEntry].late = TRUE] /\ FaultSpent
      BY <1>5, <2>2 DEF LockExpires
    <3>2. recon[lockEntry].active
      BY <2>2, <1>holds DEF EntryHeld
    <3>3. recon' \in [Process -> PassRow]
      BY <2>2, <3>1, <3>2, <1>types, ActivePass DEF PassRow
    <3>4. \A q \in Process : EntryHeld(q)'
      BY <2>1, <2>2, <3>1, <3>2, <1>types, <1>holds, <1>names, ActivePass DEF EntryHeld, InTime
    <3> QED BY <2>1, <3>1, <3>3, <3>4, <1>types, <1>fault DEF ReconInv, LockTypeOK
  <2>3. CASE lockEntry \notin Process
    <3>1. recon' = recon /\ spent' = spent
      BY <1>5, <2>3 DEF LockExpires
    <3>2. \A q \in Process : EntryHeld(q)'
      BY <2>1, <2>3, <3>1, <1>holds, <1>names DEF EntryHeld, InTime
    <3> QED BY <2>1, <3>1, <3>2, <1>types DEF ReconInv, LockTypeOK
  <2> QED BY <2>2, <2>3
<1>6. ASSUME NEW p \in Process, DieInPass(p) PROVE ReconInv'
  <2>1. /\ recon' = [recon EXCEPT ![p] = NoPass] /\ FaultSpent
        /\ lockToken' = [lockToken EXCEPT ![p] = FALSE]
        /\ lockEntry' = IF lockEntry = p THEN "orphan" ELSE lockEntry
        /\ vmRows' = vmRows /\ actual' = actual
    BY <1>6 DEF DieInPass, ProcessDies
  <2>2. recon' \in [Process -> PassRow]
    BY <2>1, <1>types DEF PassRow
  <2>4. \A q \in Process : EntryHeld(q)'
    BY <2>1, <1>types, <1>holds, <1>names DEF EntryHeld, InTime, NoPass
  <2> QED BY <2>1, <2>2, <2>4, <1>types, <1>fault DEF ReconInv, LockTypeOK
<1>7. ASSUME NEW v \in Vm, OthersWrite(v) \/ DeleteRow(v) \/ \E power \in Power : GuestChanges(v, power)
      PROVE  ReconInv'
  <2>1. /\ lockEntry' = lockEntry /\ lockToken' = lockToken /\ recon' = recon /\ ChangeSpent
        /\ \/ vmRows' = [vmRows EXCEPT ![v].status = actual[v]] /\ actual' = actual
           \/ /\ vmRows' = [vmRows EXCEPT ![v] = [status |-> "deleted", deleted |-> TRUE]]
              /\ actual' = actual
           \/ /\ \E power \in Power : actual' = [actual EXCEPT ![v] = power]
              /\ vmRows' = vmRows
    BY <1>7 DEF OthersWrite, DeleteRow, GuestChanges, lockVars
  <2>2. vmRows' \in [Vm -> [status : Status, deleted : BOOLEAN]] /\ actual' \in [Vm -> Power]
    <3>1. actual[v] \in Status /\ "deleted" \in Status
      BY <1>types DEF Status
    <3>2. [vmRows EXCEPT ![v].status = actual[v]] \in [Vm -> [status : Status, deleted : BOOLEAN]]
      BY <3>1, <1>types
    <3>3. [vmRows EXCEPT ![v] = [status |-> "deleted", deleted |-> TRUE]]
            \in [Vm -> [status : Status, deleted : BOOLEAN]]
      BY <3>1, <1>types
    <3>4. \A power \in Power : [actual EXCEPT ![v] = power] \in [Vm -> Power]
      BY <1>types
    <3> QED BY <2>1, <3>2, <3>3, <3>4, <1>types
  <2>3. \A q \in Process : EntryHeld(q)'
    BY <2>1, <1>holds DEF EntryHeld, InTime
  <2> QED BY <2>1, <2>2, <2>3, <1>types, <1>change DEF ReconInv, LockTypeOK
<1>8. CASE UNCHANGED reconVars
  BY <1>8, <1>types, <1>holds DEF reconVars, ReconInv, LockTypeOK, EntryHeld, InTime
<1> QED BY <1>1, <1>2, <1>3, <1>4, <1>5, <1>6, <1>7, <1>8 DEF ReconNext, PassStep

\* What a pass has in hand is well typed.
LEMMA ReconInvTypes == ReconInv => ReconTypeOK
<1> SUFFICES ASSUME ReconInv PROVE ReconTypeOK
  OBVIOUS
<1>1. ASSUME NEW p \in Process, recon[p].active
      PROVE  /\ recon[p].todo \subseteq Vm /\ recon[p].late \in BOOLEAN
             /\ {recon[p].loaded, recon[p].seen} \subseteq [Vm -> Power \cup {"deleted"}]
  BY <1>1, ActivePass DEF Status
<1> QED BY <1>1 DEF ReconInv, ReconTypeOK, Status

\* Passes keep their types: what a pass loaded and saw is a status for every VM row
\* (reconciliation_worker._reconcile).
THEOREM ReconciliationTypes == ReconSpec => []ReconTypeOK
BY ReconInvTypes, ReconInvInit, ReconInvStep, PTL DEF ReconSpec

\* Whatever passes died, outlived the lock's 60 seconds or released it late, at most one is
\* within its time (the token of RedisWorkerLockStore.release).
THEOREM OnePassAtATime == ReconSpec => []OnePassInTime
<1>1. ReconInv => OnePassInTime
  <2> SUFFICES ASSUME ReconInv PROVE Cardinality({p \in Process : InTime(p)}) <= 1
    BY DEF OnePassInTime, InTime
  <2> DEFINE S == {p \in Process : InTime(p)}
  <2>1. S = {} \/ S = {lockEntry}
    BY DEF ReconInv, EntryHeld
  <2>2. Cardinality({}) = 0 /\ Cardinality({lockEntry}) = 1
    BY FS_EmptySet, FS_Singleton
  <2> QED BY <2>1, <2>2
<1> QED BY <1>1, ReconInvInit, ReconInvStep, PTL DEF ReconSpec

-----------------------------------------------------------------------------
(* The asset downloads.                                                    *)

\* Jobs and downloads are for nodes, and a worker has a job that was queued.
SyncLinks ==
  /\ \A j \in JobId : syncJobs[j].state # "none" => syncJobs[j].node \in SyncNode
  /\ \A t \in 1..MaxDownloads : downloads[t].state # "none" => downloads[t].node \in SyncNode
  /\ \A w \in SyncWorker : syncer[w].pc # "idle" =>
       syncer[w].job \in JobId /\ syncJobs[syncer[w].job].state # "none"

\* While no worker has outlived its lease, each holds its job alone under a live lease,
\* and one that is about to submit has found no recorded download.
SyncLease ==
  ~syncFaults.late =>
    \A w \in SyncWorker : syncer[w].pc # "idle" =>
      LET j == syncer[w].job IN
      /\ syncJobs[j].lease = "live" /\ syncJobs[j].state \in {"running", "syncing"}
      /\ syncer[w].pc = "submit" => syncJobs[j].upid = 0
      /\ \A x \in SyncWorker : syncer[x].pc # "idle" /\ syncer[x].job = j => x = w

JobState == {"none", "queued", "running", "syncing"} \cup Settled
SyncJobRow == [state : JobState, node : SyncNode \cup {"none"},
               lease : {"none", "live", "expired"}, upid : 0..MaxDownloads]
SyncerRow == [pc : {"idle", "discover", "submit", "poll", "verify"}, job : 0..MaxJobs]
DownloadRow == [node : SyncNode \cup {"none"}, state : {"none", "running", "ok", "failed"}]

\* The type invariant, with its rows named.
SyncRows ==
  /\ syncJobs \in [JobId -> SyncJobRow] /\ syncer \in [SyncWorker -> SyncerRow]
  /\ downloads \in [1..MaxDownloads -> DownloadRow]
  /\ onNode \subseteq SyncNode
  /\ syncFaults \in [count : 0..MaxSyncFaults, late : BOOLEAN]

LEMMA SyncRowsTypes == SyncRows => SyncTypeOK
BY DEF SyncRows, SyncTypeOK, JobState, SyncJobRow, SyncerRow, DownloadRow

SyncInv == SyncRows /\ SyncLinks /\ SyncLease

LEMMA JobStates == \A s \in {"none", "queued", "running", "syncing", "verified", "failed"} : s \in JobState
BY DEF JobState, Settled

LEMMA SyncInvInit == SyncInit => SyncInv
BY SyncBounds, JobStates DEF SyncInit, SyncInv, SyncRows, SyncLinks, SyncLease, NoJob, IdleSyncer, JobId,
   SyncJobRow, SyncerRow, DownloadRow

LEMMA FinishKeepsSync ==
  ASSUME SyncInv, NEW w \in SyncWorker, syncer[w].pc # "idle",
         NEW outcome \in {"verified", "failed"}, FinishJob(w, outcome),
         UNCHANGED <<downloads, onNode>>, syncFaults' \in [count : 0..MaxSyncFaults, late : BOOLEAN],
         syncFaults'.late = syncFaults.late
  PROVE  SyncInv'
<1>1. SyncRows'
  <2>1. syncer[w].job \in JobId /\ outcome \in JobState
    BY DEF SyncInv, SyncLinks, JobState, Settled
  <2>3. PICK j \in JobId : j = syncer[w].job
    BY <2>1
  <2>5. PICK s \in JobState : s = outcome
    BY <2>1
  <2>4. /\ syncJobs' = [syncJobs EXCEPT ![j].state = s, ![j].lease = "none"]
        /\ syncer' = [syncer EXCEPT ![w] = IdleSyncer]
        /\ syncJobs \in [JobId -> SyncJobRow] /\ syncer \in [SyncWorker -> SyncerRow]
    BY <2>3, <2>5 DEF FinishJob, SyncInv, SyncRows
  <2>2. syncJobs' \in [JobId -> SyncJobRow] /\ syncer' \in [SyncWorker -> SyncerRow]
    <3> DEFINE row == [syncJobs[j] EXCEPT !.state = s, !.lease = "none"]
    <3>5. syncJobs[j] \in SyncJobRow
      BY <2>4
    <3>3. row \in SyncJobRow
      BY <3>5 DEF SyncJobRow
    <3>4. syncJobs' = [syncJobs EXCEPT ![j] = row]
      BY <2>4
    <3>1. syncJobs' \in [JobId -> SyncJobRow]
      BY <2>4, <3>3, <3>4
    <3>2. IdleSyncer \in SyncerRow
      BY SyncBounds DEF SyncerRow, IdleSyncer
    <3> QED
      BY <2>4, <3>1, <3>2
  <2> QED
    BY <2>2 DEF SyncInv, SyncRows
<1>2. SyncLinks'
  BY DEF FinishJob, SyncInv, SyncLinks, IdleSyncer, SyncRows
<1>3. SyncLease'
  BY DEF FinishJob, SyncInv, SyncLease, SyncLinks, IdleSyncer, SyncRows
<1> QED
  BY <1>1, <1>2, <1>3 DEF SyncInv

LEMMA SyncInvStep == SyncInv /\ [SyncNext]_syncVars => SyncInv'
<1> SUFFICES ASSUME SyncInv, [SyncNext]_syncVars PROVE SyncInv'
  OBVIOUS
<1> USE SyncBounds DEF SyncInv
<1>f. ASSUME Faulty
      PROVE  /\ syncFaults' \in [count : 0..MaxSyncFaults, late : BOOLEAN]
             /\ syncFaults'.late = syncFaults.late
  BY <1>f DEF Faulty, SyncRows
<1>1. ASSUME NEW j \in JobId, LeaseRunsOut(j) PROVE SyncInv'
  <2>1. SyncRows'
    <3>1. syncJobs' \in [JobId -> SyncJobRow]
      BY <1>1, JobStates DEF LeaseRunsOut, SyncRows, SyncJobRow
    <3>2. syncFaults' \in [count : 0..MaxSyncFaults, late : BOOLEAN]
      <4>1. CASE Worked(j)
        <5>1. syncFaults' = [count |-> syncFaults.count + 1, late |-> TRUE]
              /\ syncFaults.count < MaxSyncFaults
          BY <1>1, <4>1 DEF LeaseRunsOut
        <5>2. syncFaults.count + 1 \in 0..MaxSyncFaults
          BY <5>1 DEF SyncRows
        <5> QED
          BY <5>1, <5>2
      <4>2. CASE ~Worked(j)
        BY <1>1, <4>2 DEF LeaseRunsOut, SyncRows
      <4> QED
        BY <4>1, <4>2
    <3> QED
      BY <1>1, <3>1, <3>2 DEF LeaseRunsOut, SyncRows
  <2>2. SyncLinks'
    BY <1>1 DEF LeaseRunsOut, SyncLinks, SyncRows
  <2>3. SyncLease'
    BY <1>1 DEF LeaseRunsOut, SyncLease, SyncLinks, Worked, SyncRows
  <2> QED
    BY <2>1, <2>2, <2>3
<1>2. ASSUME NEW j \in JobId, NEW n \in SyncNode, EnqueueAsset(j, n) PROVE SyncInv'
  <2>1. SyncRows'
    <3>1. syncJobs' \in [JobId -> SyncJobRow]
      <4>1. /\ syncJobs \in [JobId -> SyncJobRow] /\ "queued" \in JobState
            /\ syncJobs' = [syncJobs EXCEPT ![j].state = "queued", ![j].node = n]
        BY <1>2, JobStates DEF EnqueueAsset, SyncRows
      <4> QED
        BY <4>1 DEF SyncJobRow
    <3> QED
      BY <1>2, <3>1 DEF EnqueueAsset, SyncRows
  <2>2. SyncLinks'
    BY <1>2 DEF EnqueueAsset, SyncLinks, SyncRows
  <2>3. SyncLease'
    BY <1>2 DEF EnqueueAsset, SyncLease, SyncLinks, SyncRows
  <2> QED
    BY <2>1, <2>2, <2>3
<1>3. ASSUME NEW w \in SyncWorker, ClaimJob(w) PROVE SyncInv'
  <2>0. PICK j \in JobId :
          /\ ClaimableJob(j)
          /\ syncJobs' = [syncJobs EXCEPT ![j].state = "running", ![j].lease = "live"]
          /\ syncer' = [syncer EXCEPT ![w] = [pc |-> "discover", job |-> j]]
          /\ UNCHANGED <<downloads, onNode, syncFaults>>
    BY <1>3 DEF ClaimJob
  <2>1. SyncRows'
    <3>1. syncJobs' \in [JobId -> SyncJobRow]
      BY <2>0, JobStates DEF SyncRows, SyncJobRow
    <3>2. syncer' \in [SyncWorker -> SyncerRow]
      <4>1. [pc |-> "discover", job |-> j] \in SyncerRow
        BY DEF SyncerRow, JobId
      <4> QED
        BY <2>0, <4>1 DEF SyncRows
    <3> QED
      BY <2>0, <3>1, <3>2 DEF SyncRows
  <2>2. SyncLinks'
    BY <2>0 DEF SyncLinks, ClaimableJob, SyncRows
  <2>3. SyncLease'
    BY <2>0 DEF SyncLease, SyncLinks, ClaimableJob, SyncRows
  <2> QED
    BY <2>1, <2>2, <2>3
<1>4. ASSUME NEW w \in SyncWorker, Discover(w) PROVE SyncInv'
  <2>1. CASE FinishJob(w, "verified")
    BY <1>4, <2>1, FinishKeepsSync DEF Discover, SyncRows
  <2>2. CASE /\ syncJobs[syncer[w].job].upid # 0
             /\ syncJobs' = [syncJobs EXCEPT ![syncer[w].job].state = "syncing"]
             /\ syncer' = [syncer EXCEPT ![w].pc = "poll"]
    <3>1. SyncRows'
      <4>1. syncJobs' \in [JobId -> SyncJobRow]
        <5>1. PICK j \in JobId : j = syncer[w].job
          BY <1>4 DEF Discover, SyncLinks
        <5>2. /\ syncJobs \in [JobId -> SyncJobRow] /\ "syncing" \in JobState
              /\ syncJobs' = [syncJobs EXCEPT ![j].state = "syncing"]
          BY <2>2, <5>1, JobStates DEF SyncRows
        <5> QED
          BY <5>2 DEF SyncJobRow
      <4>2. syncer' \in [SyncWorker -> SyncerRow]
        BY <2>2, <1>4 DEF Discover, SyncLinks, SyncRows, SyncerRow, IdleSyncer
      <4> QED
        BY <1>4, <4>1, <4>2 DEF Discover, SyncRows
    <3>2. SyncLinks'
      BY <1>4, <2>2 DEF Discover, SyncLinks, SyncRows
    <3>3. SyncLease'
      BY <1>4, <2>2 DEF Discover, SyncLease, SyncLinks, SyncRows
    <3> QED
      BY <3>1, <3>2, <3>3
  <2>3. CASE /\ syncJobs[syncer[w].job].upid = 0
             /\ syncer' = [syncer EXCEPT ![w].pc = "submit"] /\ UNCHANGED syncJobs
    <3>1. SyncRows'
      <4>1. syncer' \in [SyncWorker -> SyncerRow]
        BY <2>3, <1>4 DEF Discover, SyncLinks, SyncRows, SyncerRow, IdleSyncer
      <4> QED
        BY <1>4, <2>3, <4>1 DEF Discover, SyncRows
    <3>2. SyncLinks'
      BY <1>4, <2>3 DEF Discover, SyncLinks, SyncRows
    <3>3. SyncLease'
      BY <1>4, <2>3 DEF Discover, SyncLease, SyncLinks, SyncRows
    <3> QED
      BY <3>1, <3>2, <3>3
  <2> QED
    BY <1>4, <2>1, <2>2, <2>3 DEF Discover
<1>5. ASSUME NEW w \in SyncWorker, NEW t \in 1..MaxDownloads, Download(w, t) PROVE SyncInv'
  <2>0. syncer[w].job \in JobId /\ syncJobs[syncer[w].job].node \in SyncNode
    BY <1>5 DEF Download, SyncLinks
  <2>1. SyncRows'
    <3>1. syncJobs' \in [JobId -> SyncJobRow]
      <4>1. PICK j \in JobId : j = syncer[w].job
        BY <2>0
      <4>2. /\ syncJobs \in [JobId -> SyncJobRow] /\ "syncing" \in JobState
            /\ syncJobs' = [syncJobs EXCEPT ![j].upid = t, ![j].state = "syncing"]
        BY <1>5, <4>1, JobStates DEF Download, SyncRows
      <4>3. t \in 0..MaxDownloads
        OBVIOUS
      <4> QED
        BY <4>2, <4>3 DEF SyncJobRow
    <3>2. syncer' \in [SyncWorker -> SyncerRow]
      BY <1>5, <2>0 DEF Download, SyncRows, SyncerRow, IdleSyncer
    <3>3. downloads' \in [1..MaxDownloads -> DownloadRow]
      BY <1>5, <2>0 DEF Download, NewDownload, SyncRows, DownloadRow
    <3> QED
      BY <1>5, <3>1, <3>2, <3>3 DEF Download, SyncRows
  <2>2. SyncLinks'
    BY <1>5 DEF Download, NewDownload, SyncLinks, SyncRows
  <2>3. SyncLease'
    BY <1>5 DEF Download, NewDownload, SyncLease, SyncLinks, SyncRows
  <2> QED
    BY <2>1, <2>2, <2>3
<1>6. ASSUME NEW w \in SyncWorker, NEW t \in 1..MaxDownloads, DownloadUnrecorded(w, t) PROVE SyncInv'
  <2>0. /\ syncer[w].pc = "submit" /\ syncer[w].job \in JobId
        /\ syncJobs[syncer[w].job].node \in SyncNode
        /\ NewDownload(t, syncJobs[syncer[w].job].node) /\ UNCHANGED onNode
        /\ syncFaults' \in [count : 0..MaxSyncFaults, late : BOOLEAN]
        /\ syncFaults'.late = syncFaults.late
    BY <1>6, <1>f DEF DownloadUnrecorded, SyncLinks
  <2>1. downloads' \in [1..MaxDownloads -> DownloadRow]
    BY <2>0 DEF NewDownload, SyncRows, DownloadRow
  <2>2. \A i \in 1..MaxDownloads : downloads'[i].state # "none" => downloads'[i].node \in SyncNode
    BY <2>0 DEF NewDownload, SyncLinks, SyncRows
  <2>3. CASE FinishJob(w, "failed")
    <3>1. syncJobs' \in [JobId -> SyncJobRow] /\ syncer' \in [SyncWorker -> SyncerRow]
      <4>1. PICK j \in JobId : j = syncer[w].job
        BY <2>0
      <4>2. /\ syncJobs \in [JobId -> SyncJobRow] /\ syncer \in [SyncWorker -> SyncerRow]
            /\ syncJobs' = [syncJobs EXCEPT ![j].state = "failed", ![j].lease = "none"]
            /\ syncer' = [syncer EXCEPT ![w] = IdleSyncer] /\ "failed" \in JobState
        BY <2>3, <4>1, JobStates DEF FinishJob, SyncRows
      <4> QED
        <5>1. syncJobs' \in [JobId -> SyncJobRow]
          BY <4>2 DEF SyncJobRow
        <5>2. IdleSyncer \in SyncerRow
          BY DEF SyncerRow, IdleSyncer
        <5> QED
          BY <4>2, <5>1, <5>2
    <3>2. SyncRows'
      BY <2>0, <2>1, <3>1 DEF SyncRows
    <3>3. SyncLinks'
      BY <2>2, <2>0, <2>3 DEF FinishJob, SyncLinks, IdleSyncer, SyncRows
    <3>4. SyncLease'
      BY <2>0, <2>3 DEF FinishJob, SyncLease, SyncLinks, IdleSyncer, SyncRows
    <3> QED
      BY <3>2, <3>3, <3>4
  <2>4. CASE syncer' = [syncer EXCEPT ![w] = IdleSyncer] /\ UNCHANGED syncJobs
    <3>1. syncer' \in [SyncWorker -> SyncerRow]
      BY <2>0, <2>4 DEF SyncRows, SyncerRow, IdleSyncer
    <3>2. SyncRows'
      BY <2>0, <2>1, <2>4, <3>1 DEF SyncRows
    <3>3. SyncLinks'
      BY <2>2, <2>4 DEF SyncLinks, IdleSyncer, SyncRows
    <3>4. SyncLease'
      BY <2>0, <2>4 DEF SyncLease, SyncLinks, IdleSyncer, SyncRows
    <3> QED
      BY <3>2, <3>3, <3>4
  <2> QED
    BY <1>6, <2>3, <2>4 DEF DownloadUnrecorded
<1>7. ASSUME NEW w \in SyncWorker, PollAgain(w) PROVE SyncInv'
  <2>1. SyncRows'
    <3>1. syncJobs' \in [JobId -> SyncJobRow]
      BY <1>7, JobStates DEF PollAgain, SyncLinks, SyncRows, SyncJobRow
    <3> QED
      BY <1>7, <3>1 DEF PollAgain, SyncRows
  <2>2. SyncLinks'
    BY <1>7 DEF PollAgain, SyncLinks, SyncRows
  <2>3. SyncLease'
    BY <1>7 DEF PollAgain, SyncLease, SyncLinks, SyncRows
  <2> QED
    BY <2>1, <2>2, <2>3
<1>8. ASSUME NEW w \in SyncWorker, PollEnds(w) PROVE SyncInv'
  <2>1. CASE FinishJob(w, "failed")
    BY <1>8, <2>1, FinishKeepsSync DEF PollEnds, SyncRows
  <2>2. CASE /\ syncer' = [syncer EXCEPT ![w].pc = "verify"]
             /\ syncJobs' = [syncJobs EXCEPT ![syncer[w].job].lease = "live"]
    <3>1. SyncRows'
      <4>1. syncJobs' \in [JobId -> SyncJobRow]
        <5>1. PICK j \in JobId : j = syncer[w].job
          BY <1>8 DEF PollEnds, SyncLinks
        <5>2. /\ syncJobs \in [JobId -> SyncJobRow]
              /\ syncJobs' = [syncJobs EXCEPT ![j].lease = "live"]
          BY <2>2, <5>1 DEF SyncRows
        <5> QED
          BY <5>2 DEF SyncJobRow
      <4>2. syncer' \in [SyncWorker -> SyncerRow]
        BY <1>8, <2>2 DEF PollEnds, SyncLinks, SyncRows, SyncerRow, IdleSyncer
      <4> QED
        BY <1>8, <4>1, <4>2 DEF PollEnds, SyncRows
    <3>2. SyncLinks'
      BY <1>8, <2>2 DEF PollEnds, SyncLinks, SyncRows
    <3>3. SyncLease'
      BY <1>8, <2>2 DEF PollEnds, SyncLease, SyncLinks, SyncRows
    <3> QED
      BY <3>1, <3>2, <3>3
  <2> QED
    BY <1>8, <2>1, <2>2 DEF PollEnds
<1>9. ASSUME NEW w \in SyncWorker, VerifyOnNode(w) PROVE SyncInv'
  BY <1>9, FinishKeepsSync DEF VerifyOnNode, SyncRows
<1>10. ASSUME NEW w \in SyncWorker, CallFails(w) PROVE SyncInv'
  BY <1>10, <1>f, FinishKeepsSync DEF CallFails
<1>11. ASSUME NEW w \in SyncWorker, WorkerDies(w) PROVE SyncInv'
  <2>1. SyncRows'
    <3>1. syncer' \in [SyncWorker -> SyncerRow]
      BY <1>11 DEF WorkerDies, SyncLinks, SyncRows, SyncerRow, IdleSyncer
    <3> QED
      BY <1>11, <1>f, <3>1 DEF WorkerDies, SyncRows
  <2>2. SyncLinks'
    BY <1>11, <1>f DEF WorkerDies, SyncLinks, IdleSyncer, SyncRows
  <2>3. SyncLease'
    BY <1>11, <1>f DEF WorkerDies, SyncLease, SyncLinks, IdleSyncer, SyncRows
  <2> QED
    BY <2>1, <2>2, <2>3
<1>12. ASSUME NEW t \in 1..MaxDownloads, DownloadEnds(t) PROVE SyncInv'
  <2>1. SyncRows'
    <3>1. downloads[t].node \in SyncNode
      BY <1>12 DEF DownloadEnds, SyncLinks
    <3>2. downloads' \in [1..MaxDownloads -> DownloadRow]
      <4>1. downloads \in [1..MaxDownloads -> DownloadRow]
        BY DEF SyncRows
      <4>2. PICK s \in {"ok", "failed"} : downloads' = [downloads EXCEPT ![t].state = s]
        BY <1>12 DEF DownloadEnds
      <4> QED
        BY <4>1, <4>2 DEF DownloadRow
    <3> QED
      BY <1>12, <3>1, <3>2 DEF DownloadEnds, SyncRows
  <2>2. SyncLinks'
    <3>1. \A i \in 1..MaxDownloads : downloads'[i].node = downloads[i].node
                                    /\ (downloads[i].state = "none" => downloads'[i].state = "none")
      BY <1>12 DEF DownloadEnds, DownloadRow, SyncRows
    <3> QED
      BY <1>12, <3>1 DEF DownloadEnds, SyncLinks
  <2>3. SyncLease'
    BY <1>12 DEF DownloadEnds, SyncLease, SyncRows
  <2> QED
    BY <2>1, <2>2, <2>3
<1>13. CASE UNCHANGED syncVars
  BY <1>13 DEF syncVars, SyncLinks, SyncLease, SyncRows
<1> QED
  BY <1>1, <1>2, <1>3, <1>4, <1>5, <1>6, <1>7, <1>8, <1>9, <1>10, <1>11, <1>12, <1>13
     DEF SyncNext, SyncStep

LEMMA SyncInvAlways == SyncSpec => []SyncInv
BY SyncInvInit, SyncInvStep, PTL DEF SyncSpec

\* The asset jobs, their workers and the downloads are of their types.
THEOREM SyncTypes == SyncSpec => []SyncTypeOK
BY SyncInvAlways, SyncRowsTypes, PTL DEF SyncInv

\* Only the submission of a download writes a UPID, and a worker that has kept to its lease
\* submits for jobs without one (process_job).
LEMMA RecordedStep ==
  ASSUME SyncInv, [SyncNext]_syncVars, NEW j \in JobId, syncJobs[j].upid # 0
  PROVE  syncJobs'[j].upid = syncJobs[j].upid \/ syncFaults'.late
<1> USE SyncBounds DEF SyncInv
<1>1. ASSUME NEW w \in SyncWorker, NEW t \in 1..MaxDownloads, Download(w, t)
      PROVE  syncJobs'[j].upid = syncJobs[j].upid \/ syncFaults'.late
  BY <1>1 DEF Download, SyncLease, SyncRows
<1>2. ASSUME NEW w \in SyncWorker, NEW state, FinishJob(w, state)
      PROVE  syncJobs'[j].upid = syncJobs[j].upid
  BY <1>2 DEF FinishJob, SyncRows
<1>3. ASSUME NEW w \in SyncWorker, ClaimJob(w) \/ Discover(w) \/ PollAgain(w) \/ PollEnds(w)
      PROVE  syncJobs'[j].upid = syncJobs[j].upid
  <2>0. /\ syncJobs \in [JobId -> SyncJobRow]
    BY DEF SyncRows
  <2>1. CASE ClaimJob(w)
    <3>1. PICK i \in JobId : syncJobs' = [syncJobs EXCEPT ![i].state = "running", ![i].lease = "live"]
      BY <2>1 DEF ClaimJob
    <3>2. CASE i = j
      BY <2>0, <3>1, <3>2 DEF SyncJobRow
    <3>3. CASE i # j
      BY <2>0, <3>1, <3>3
    <3> QED
      BY <3>2, <3>3
  <2>2. CASE Discover(w)
    <3>1. CASE FinishJob(w, "verified") \/ UNCHANGED syncJobs
      BY <1>2, <3>1
    <3>2. CASE syncJobs' = [syncJobs EXCEPT ![syncer[w].job].state = "syncing"]
      <4>1. CASE syncer[w].job = j
        BY <2>0, <3>2, <4>1 DEF SyncJobRow
      <4>2. CASE syncer[w].job # j
        BY <2>0, <3>2, <4>2
      <4> QED
        BY <4>1, <4>2
    <3> QED
      BY <2>2, <3>1, <3>2 DEF Discover
  <2>3. CASE PollAgain(w)
    <3>1. syncJobs' = [syncJobs EXCEPT ![syncer[w].job].lease = "live"]
      BY <2>3 DEF PollAgain
    <3>2. CASE syncer[w].job = j
      BY <2>0, <3>1, <3>2 DEF SyncJobRow
    <3>3. CASE syncer[w].job # j
      BY <2>0, <3>1, <3>3
    <3> QED
      BY <3>2, <3>3
  <2>4. CASE PollEnds(w)
    <3>1. CASE FinishJob(w, "failed")
      BY <1>2, <3>1
    <3>2. CASE syncJobs' = [syncJobs EXCEPT ![syncer[w].job].lease = "live"]
      <4>1. CASE syncer[w].job = j
        BY <2>0, <3>2, <4>1 DEF SyncJobRow
      <4>2. CASE syncer[w].job # j
        BY <2>0, <3>2, <4>2
      <4> QED
        BY <4>1, <4>2
    <3> QED
      BY <2>4, <3>1, <3>2 DEF PollEnds
  <2> QED
    BY <1>3, <2>1, <2>2, <2>3, <2>4
<1>6. ASSUME NEW w \in SyncWorker,
             \/ VerifyOnNode(w) \/ CallFails(w) \/ WorkerDies(w)
             \/ \E t \in 1..MaxDownloads : DownloadUnrecorded(w, t)
      PROVE  syncJobs'[j].upid = syncJobs[j].upid
  BY <1>2, <1>6 DEF VerifyOnNode, CallFails, WorkerDies, DownloadUnrecorded
<1>4. ASSUME NEW i \in JobId, LeaseRunsOut(i) \/ \E n \in SyncNode : EnqueueAsset(i, n)
      PROVE  syncJobs'[j].upid = syncJobs[j].upid
  <2>1. CASE LeaseRunsOut(i)
    BY <2>1 DEF LeaseRunsOut, SyncRows
  <2>2. CASE \E n \in SyncNode : EnqueueAsset(i, n)
    BY <2>2 DEF EnqueueAsset, SyncRows
  <2> QED
    BY <1>4, <2>1, <2>2
<1>5. ASSUME NEW t \in 1..MaxDownloads, DownloadEnds(t)
      PROVE  syncJobs'[j].upid = syncJobs[j].upid
  BY <1>5 DEF DownloadEnds
<1> QED
  BY <1>1, <1>3, <1>4, <1>5, <1>6 DEF SyncNext, SyncStep, syncVars

THEOREM RecordedDownloadIsAwaited == SyncSpec => RecordedDownloadNotRepeated
<1>1. SyncInv /\ [SyncNext]_syncVars =>
        [\A j \in JobId : syncJobs[j].upid # 0 =>
           syncJobs'[j].upid = syncJobs[j].upid \/ syncFaults'.late]_syncVars
  BY RecordedStep
<1> QED
  BY <1>1, SyncInvAlways, PTL DEF SyncSpec, RecordedDownloadNotRepeated

-----------------------------------------------------------------------------
(* The three together.                                                     *)

BackgroundInv == focus \in Components /\ SessionsInv /\ SyncInv /\ ReconInv

\* A platform where nothing has been connected to yet is one that SessionsInv describes.
LEMMA NoConnectionsKnown == NoConnections => SessionsInv
<1> SUFFICES ASSUME NoConnections PROVE SessionsInv
  OBVIOUS
<1>1. MaxRevision \in Nat \ {0} /\ MaxRestarts \in Nat /\ MaxPageBeats \in Nat
  BY SessionsBounds
<1>2. /\ NoSession \in SessionRow /\ NoConsole \in ConsoleRow
      /\ NoSession.state = "none" /\ NoConsole.pc = "none"
  BY BlankRows
<1>3. sessions \in [Conn -> SessionRow] /\ console \in [Conn -> ConsoleRow]
  BY <1>2 DEF NoConnections
<1>4. SessionsTypeOK
  BY <1>1, <1>3 DEF NoConnections, SessionsTypeOK, SessionRow, ConsoleRow, Passes
<1>5. WorkerReadRows /\ SavesCounted
  BY DEF NoConnections, WorkerReadRows, SavesCounted
<1>6. \A k \in Conn : Reported(sessions[k], console[k])
  BY <1>2 DEF NoConnections, Reported
<1> QED BY <1>4, <1>5, <1>6 DEF SessionsInv

\* Each step is a step of one component, and leaves the others alone.
LEMMA BackgroundInvStep ==
  BackgroundInv /\ [BackgroundNext]_backgroundVars => BackgroundInv'
<1>1. [BackgroundNext]_backgroundVars =>
        /\ focus' = focus /\ [SessionsNext]_sessionVars /\ [SyncNext]_syncVars
        /\ [ReconNext]_reconVars
  BY DEF BackgroundNext, FocusMoves, backgroundVars
<1> QED
  BY <1>1, SessionsInvStep, SyncInvStep, ReconInvStep DEF BackgroundInv

\* Console rows, sync jobs, downloads and passes are of their types, whichever of the
\* background parts of the API runs (console.py, asset_sync.py, reconciliation_service.py).
THEOREM BackgroundTypes == BackgroundSpec => []BackgroundTypeOK
<1>1. BackgroundInit => BackgroundInv
  BY SessionsInvInit, NoConnectionsKnown, SyncInvInit, ReconInvInit DEF BackgroundInit, BackgroundInv
<1>2. BackgroundInv => BackgroundTypeOK
  BY SyncRowsTypes, ReconInvTypes DEF BackgroundInv, BackgroundTypeOK, SessionsInv, SyncInv
<1> QED
  BY <1>1, <1>2, BackgroundInvStep, PTL DEF BackgroundSpec
=============================================================================
