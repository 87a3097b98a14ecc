---------------------------- MODULE LoginThrottle ----------------------------
(***************************************************************************)
(* The limit on failed logins of one username from one address             *)
(* (services/auth_service.py login_user): one auth_login_attempts row and  *)
(* the requests that read it.  _rate_limit_row reads FOR UPDATE, so once   *)
(* the row exists a request holds it from its first read to its commit;    *)
(* while it does not exist nothing is locked.                              *)
(***************************************************************************)
EXTENDS Integers, FiniteSets

CONSTANTS
  Attempt,     \* login requests
  MaxFailures  \* login_max_failures

ASSUME ThrottleBounds == MaxFailures \in Nat \ {0} /\ IsFiniteSet(Attempt)

VARIABLES
  row,     \* the auth_login_attempts row; old: its window has passed
  attempt, \* the program counter of each login request
  guesses  \* history: passwords checked and refused since a clear, a new window or a lockout's end

throttleVars == <<row, attempt, guesses>>

NoRow == [failures |-> 0, blocked |-> FALSE, old |-> FALSE]

\* free: no row was there at the check, so nothing is locked.  holding: the row was, and
\* is locked.  inserting: at the failure there was still none.
ThrottleTypeOK ==
  /\ row \in [failures : 0..(MaxFailures + 2 * Cardinality(Attempt)), blocked : BOOLEAN, old : BOOLEAN]
  /\ attempt \in [Attempt -> {"idle", "free", "holding", "inserting"}]
  /\ guesses \in 0..(MaxFailures + 2 * Cardinality(Attempt))

ThrottleInit ==
  /\ row = NoRow
  /\ attempt = [a \in Attempt |-> "idle"]
  /\ guesses = 0

RowExists == row.failures > 0
RowUnlocked == \A a \in Attempt : attempt[a] # "holding"
Move(a, from, to) == attempt[a] = from /\ attempt' = [attempt EXCEPT ![a] = to]

\* _check_login_allowed; a blocked request is told to wait and changes nothing.
CheckAllowed(a) ==
  /\ RowUnlocked /\ ~row.blocked
  /\ Move(a, "idle", IF RowExists THEN "holding" ELSE "free")
  /\ UNCHANGED <<row, guesses>>

\* Mutant: the row is blocked one failure late.
CountedFailuresMutant ==
  LET failures == IF row.old THEN 1 ELSE row.failures + 1 IN
  [failures |-> failures, old |-> FALSE,
   blocked |-> failures > MaxFailures \/ (row.blocked /\ ~row.old)]

\* _record_login_failure: a failure after the window starts the next one.
CountedFailures ==
  LET failures == IF row.old THEN 1 ELSE row.failures + 1 IN
  [failures |-> failures, old |-> FALSE,
   blocked |-> failures >= MaxFailures \/ (row.blocked /\ ~row.old)]

\* A wrong password, with a row to count it in: read, UPDATE and commit under its lock.
FailCounted(a) ==
  /\ RowExists
  /\ \/ Move(a, "holding", "idle")
     \/ RowUnlocked /\ Move(a, "free", "idle")
  /\ row' = CountedFailures /\ guesses' = guesses + 1

\* A wrong password and still no row.
FailFirst(a) == ~RowExists /\ Move(a, "free", "inserting") /\ UNCHANGED <<row, guesses>>

\* The INSERT; if another request was faster the key conflicts, the request ends with
\* an error and its failure is not counted.
InsertRow(a) ==
  /\ Move(a, "inserting", "idle")
  /\ row' = IF RowExists THEN row ELSE CountedFailures
  /\ guesses' = guesses + 1

\* The right password of an active user clears the row.
Succeed(a) ==
  /\ \/ Move(a, "holding", "idle")
     \/ (RowExists => RowUnlocked) /\ Move(a, "free", "idle")
  /\ row' = NoRow /\ guesses' = 0

\* The right password of a disabled one, or an error.
LeaveLogin(a) ==
  /\ attempt[a] # "idle" /\ attempt' = [attempt EXCEPT ![a] = "idle"] /\ UNCHANGED <<row, guesses>>

\* Time: the window of the row or its lockout is over.
WindowPasses ==
  /\ RowExists /\ ~row.old /\ row' = [row EXCEPT !.old = TRUE]
  /\ guesses' = 0 /\ UNCHANGED attempt
\* Bound: only up to one failure for each request beyond the limit.
LockoutEnds ==
  /\ row.blocked /\ row.failures < MaxFailures + Cardinality(Attempt)
  /\ row' = [row EXCEPT !.blocked = FALSE]
  /\ guesses' = 0 /\ UNCHANGED attempt

ThrottleNext ==
  \/ \E a \in Attempt : \/ CheckAllowed(a) \/ FailCounted(a) \/ FailFirst(a) \/ InsertRow(a)
                        \/ Succeed(a) \/ LeaveLogin(a)
  \/ WindowPasses \/ LockoutEnds

ThrottleSpec == ThrottleInit /\ [][ThrottleNext]_throttleVars

\* Between a clear, a new window or the end of a lockout and the next one, no more
\* passwords are tried than the limit and the requests that were let in while there was
\* no row to lock: failures are neither lost nor counted for another window.
LockoutHolds == guesses <= MaxFailures + Cardinality(Attempt) - 1
=============================================================================
