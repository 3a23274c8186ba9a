---- MODULE MCPagePipeline ----
(* Small instances of the page pipeline. *)
EXTENDS PagePipeline, TLC

Symmetry == Permutations(Workers)
====
