----------------------------- MODULE MCTaskBoard -----------------------------
(* Instances of TaskBoard for TLC. *)
EXTENDS TaskBoard, TLC

CONSTANTS t1, t2, t3, a1, a2, c1, c2

(* Two technicians; the third task needs a skill that nobody has. *)
MCTechs == {1, 2}
MCSkilled == [t \in Tasks |-> IF t = t3 THEN {} ELSE MCTechs]

(* Both are near the first task; technician 1 is nearer to the second, by  *)
(* as much as one task of load is worth.                                   *)
MCScore(t, u, n) == (IF t = t2 /\ u = 1 THEN 6 ELSE 0) + 12 \div (1 + n)
=============================================================================
