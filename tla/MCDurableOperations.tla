------------------------- MODULE MCDurableOperations -------------------------
(* Small instances of DurableOperations for TLC.                           *)
EXTENDS DurableOperations, TLC

CONSTANTS w1, w2, v1, a1, student, admin

MCRoleOf == [u \in Actor |-> IF u = admin THEN "admin" ELSE "student"]
MCStudentOf == [a \in Assignment |-> student]
MCStudentMay == {"create", "start", "stop"}

WorkerSymmetry == Permutations(Worker)
=============================================================================
