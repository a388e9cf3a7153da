------------------------------- MODULE MCDelivery -------------------------------
(* Finite instances of Delivery: merges of one pull request by two tasks,  *)
(* and the first delivery of one task.                                     *)
EXTENDS Delivery, TLC

CONSTANTS t1, t2, pr, issue, mergeA, mergeB, review, comment, push, close,
          queue, w1, w2

MCKindOf ==
    [a \in Actions |->
        CASE a \in {mergeA, mergeB} -> "merge"
          [] a = queue -> "enqueue"
          [] a = review -> "monitor"
          [] a = comment -> "plain"
          [] a = push -> "push"
          [] a = close -> "close"]

MCItemOf == [t \in Tasks |-> CHOOSE i \in Items : TRUE]
MCTargetOf == [a \in Actions |-> CHOOSE i \in Items : TRUE]
MCIsPull == [i \in Items |-> i = pr]
MCPermitted == Tasks \X Actions

Symmetry == Permutations(Workers)
================================================================================
