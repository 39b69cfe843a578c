----------------------------- MODULE MCGoalControl -----------------------------
(* Instances of GoalControl for TLC. *)
EXTENDS GoalControl, TLC

CONSTANTS w1, w2, d1, d2

OneWorker == {w1}
TwoWorkers == {w1, w2}
OneDecider == {d1}
TwoDeciders == {d1, d2}

Symmetry == Permutations(TwoWorkers) \cup Permutations(TwoDeciders)
================================================================================
