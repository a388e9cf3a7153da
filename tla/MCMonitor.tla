-------------------------------- MODULE MCMonitor --------------------------------
(* Finite instances of Monitor: two monitors, two synchronizations, and a  *)
(* pull request that starts mergeable: with check runs on its head, one of *)
(* which failed, and no review yet; or approved, with a check run on the   *)
(* commit that may be pushed next.                                         *)
EXTENDS Monitor, TLC

CONSTANTS m1, m2, s1, s2, h1, h2

MCInit ==
    /\ Init
    /\ pull.mergeable = "mergeable"
    /\ pull.base # pull.head
    /\ \/ /\ pull.reviews = {}
          /\ checks = [s \in Shas |-> IF s = pull.head THEN {"passing", "failing"} ELSE {}]
       \/ /\ pull.reviews = {"approved"}
          /\ checks = [s \in Shas |-> IF s = pull.head THEN {} ELSE {"passing"}]

MCSpec == MCInit /\ [][Next]_vars

Symmetry == Permutations(Monitors) \cup Permutations(Syncs) \cup Permutations(Shas)
================================================================================
