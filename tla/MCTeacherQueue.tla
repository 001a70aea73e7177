--------------------------- MODULE MCTeacherQueue ---------------------------
(* Instances of TeacherQueue for TLC. *)
EXTENDS TeacherQueue, TLC

CONSTANTS t1, t2

TwoTasks == {t1, t2}
OneTask == {t1}
Symmetry == Permutations(TwoTasks)
=============================================================================
