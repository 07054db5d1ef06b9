--------------------------- MODULE MCSessionRuntime ---------------------------
(* Instances of SessionRuntime for TLC: messages and commands are model      *)
(* values; those of a set are interchangeable.                               *)
EXTENDS SessionRuntime, TLC

Symmetry == Permutations(Messages) \cup Permutations(Commands)
=============================================================================
