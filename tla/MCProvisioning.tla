--------------------------- MODULE MCProvisioning ---------------------------
(* The instance of Provisioning that shows which binding loses its key.        *)
EXTENDS Provisioning, TLC

Symmetry == Permutations(Stage) \union Permutations(Pw)
=============================================================================
