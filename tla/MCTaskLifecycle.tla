--------------------------- MODULE MCTaskLifecycle ---------------------------
(***************************************************************************)
(* Instances of TaskLifecycle for TLC.                                     *)
(***************************************************************************)
EXTENDS TaskLifecycle, TLC

(* Safety only: the requests of one kind are interchangeable.              *)
RequestSymmetry ==
  Permutations(Planners) \cup Permutations(Editors) \cup Permutations(Starters)
=============================================================================
