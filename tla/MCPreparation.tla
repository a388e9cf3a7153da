----------------------------- MODULE MCPreparation -----------------------------
(* Finite instances of Preparation: two callers, one or two tasks.         *)
EXTENDS Preparation, TLC

CONSTANTS t1, t2, c1, c2

\* Two approvals allow a second attempt, and two attempts at once.
MCApprovals ==
    [task : Tasks \cap {t1}, serial : 1..2] \cup [task : Tasks \cap {t2}, serial : {1}]

Symmetry == Permutations(Callers)
================================================================================
