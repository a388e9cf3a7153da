---------------------------- MODULE MCImplementation ----------------------------
(* A finite instance of Implementation: one verification beside the calls  *)
(* of the Codex service, two launches, two turns, and two unread messages. *)
EXTENDS Implementation, TLC

CONSTANTS t1, t2, v1

MCSpec == Init /\ [][Next /\ Len(out') <= 2]_vars

Symmetry == Permutations(Turns)
================================================================================
