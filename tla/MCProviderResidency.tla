------------------------- MODULE MCProviderResidency -------------------------
(* Model checking of ProviderResidency. *)
EXTENDS ProviderResidency, TLC

Symmetry == Permutations(Opens)
=============================================================================
