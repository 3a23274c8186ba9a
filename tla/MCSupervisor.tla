---- MODULE MCSupervisor ----
(* Small instances of the download supervisor. *)
EXTENDS DownloadSupervisor, TLC

Symmetry == Permutations(Coordinators) \cup Permutations(Finalizers)
              \cup Permutations(Users) \cup Permutations(Entries)
====
