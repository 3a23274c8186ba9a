---- MODULE MCQuarantineSaga ----
(* Small instances of the quarantine of one download. *)
EXTENDS QuarantineSaga, TLC

Symmetry == Permutations(Users) \cup Permutations(Records)
====
