------------------------- MODULE MCProductPipelines -------------------------
(* The processors on a small instance. *)
EXTENDS ProductPipelines, TLC

(* Nothing distinguishes the copies of a unit. *)
Symmetry == Permutations(Copies)
=============================================================================
