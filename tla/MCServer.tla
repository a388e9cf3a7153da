-------------------------------- MODULE MCServer --------------------------------
(* A finite instance of Server: three engines, four sockets.               *)
EXTENDS Server, TLC

CONSTANTS e1, e2, e3

Symmetry == Permutations(Engines)
================================================================================
