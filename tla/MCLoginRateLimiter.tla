-------------------------- MODULE MCLoginRateLimiter --------------------------
(* Instances of LoginRateLimiter for TLC. *)
EXTENDS LoginRateLimiter, TLC

Symmetry == Permutations(Address)
==============================================================================
