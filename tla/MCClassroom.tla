----------------------------- MODULE MCClassroom -----------------------------
(* Small instances of Classroom for TLC.                                   *)
EXTENDS Classroom, TLC

CONSTANTS w1, w2, v1, v2, a1, student, instructor

MCRoleOf == [u \in Actor |-> IF u = instructor THEN "instructor" ELSE "student"]
MCStudentOf == [a \in Assignment |-> student]
MCStudentMay == {"create", "start", "stop"}

VmSymmetry == Permutations(Vm)
=============================================================================
