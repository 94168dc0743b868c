---------------------------- MODULE MCWorldFiles ----------------------------
(* Two processes that both serve the world.                                *)
EXTENDS WorldFiles, TLC

CONSTANTS p, q

Symmetry == Permutations({p, q})

=============================================================================
