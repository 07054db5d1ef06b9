---------------------------- MODULE MCJobWorker ----------------------------
(***************************************************************************)
(* Instances of JobWorker for TLC.                                         *)
(***************************************************************************)
EXTENDS JobWorker, TLC

MCKinds == {"send", "stop"}
MCCancelSets == {{"send"}}
Symmetry == Permutations(Sessions) \cup Permutations(Loops)
MCOwners == Loops \cup Drains
============================================================================
