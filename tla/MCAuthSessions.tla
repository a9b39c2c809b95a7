--------------------------- MODULE MCAuthSessions ---------------------------
(* Instances of AuthSessions for TLC. *)
EXTENDS AuthSessions, TLC

Symmetry == Permutations(Request) \union Permutations(Session) \union Permutations(Token)
=============================================================================
