-------------------------- MODULE MCTilesPipeline --------------------------
(* Instances of TilesPipeline for TLC. *)
EXTENDS TilesPipeline, TLC

(* Images and workers are interchangeable; message identities are numbers. *)
Symmetry == Permutations(Images) \cup Permutations(Workers)
=============================================================================
