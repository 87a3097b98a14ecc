----------------------------- MODULE WorkerLocks -----------------------------
(***************************************************************************)
(* The lock that keeps the passes of a periodic worker from overlapping    *)
(* between API processes (workers/lock_store.py, workers/locks.py): an     *)
(* entry that names its holder's token and goes away by itself after       *)
(* 60 seconds.  One name is modelled, the store is Redis; in memory there  *)
(* is one process, whose scheduler never starts a second pass.             *)
(***************************************************************************)

CONSTANT Process \* API processes, each with its scheduler

\* What an entry says when it names no process.
ASSUME ProcessAssumption == "none" \notin Process /\ "orphan" \notin Process

VARIABLES
  lockEntry,  \* whose token the entry holds; "orphan": of a process that died; "none"
  lockToken   \* the token each process remembers, by whether it has one

lockVars == <<lockEntry, lockToken>>

LockTypeOK ==
  lockEntry \in Process \cup {"none", "orphan"} /\ lockToken \in [Process -> BOOLEAN]

LockInit == lockEntry = "none" /\ lockToken = [p \in Process |-> FALSE]

\* SET NX EX
Acquire(p) ==
  /\ lockEntry = "none" /\ lockEntry' = p
  /\ lockToken' = [lockToken EXCEPT ![p] = TRUE]

\* Mutant: the entry is deleted by name, whoever holds it.
ReleaseMutant(p) ==
  /\ lockToken' = [lockToken EXCEPT ![p] = FALSE]
  /\ lockEntry' = IF lockToken[p] THEN "none" ELSE lockEntry

\* The entry is deleted when it still holds the token of this process.
Release(p) ==
  /\ lockToken' = [lockToken EXCEPT ![p] = FALSE]
  /\ lockEntry' = IF lockToken[p] /\ lockEntry = p THEN "none" ELSE lockEntry

\* 60 seconds after it was set.
EntryExpires == lockEntry # "none" /\ lockEntry' = "none" /\ UNCHANGED lockToken

\* The process dies and starts again with no token.
ProcessDies(p) ==
  /\ lockToken' = [lockToken EXCEPT ![p] = FALSE]
  /\ lockEntry' = IF lockEntry = p THEN "orphan" ELSE lockEntry
=============================================================================
