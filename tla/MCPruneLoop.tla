---------------------------- MODULE MCPruneLoop ----------------------------
(* Maps for the run of PruneLoop. *)
EXTENDS PruneLoop, TLC

CONSTANTS k1, k2, k3, k4, garbled

(* Times before, at and after the age limit, and in the future. *)
Marks == {0, 1, 2, 3, garbled}

Symmetry == Permutations(Keys)
=============================================================================
