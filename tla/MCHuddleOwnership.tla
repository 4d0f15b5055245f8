------------------------- MODULE MCHuddleOwnership -------------------------
(* The huddle with pods and connections as model values.                   *)
EXTENDS HuddleOwnership, TLC

CONSTANTS a, b, k1, k2, k3

Symmetric == Permutations(Pods) \cup Permutations(Conns)

============================================================================
