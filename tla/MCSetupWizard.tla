---------------------------- MODULE MCSetupWizard ----------------------------
(* Instances of SetupWizard for TLC. *)
EXTENDS SetupWizard, TLC

Symmetry == Permutations(Request) \union Permutations(Name)
==============================================================================
