---------------------------- MODULE MCOAuthStore ----------------------------
(* Model-checking instance of OAuthStore. *)
EXTENDS OAuthStore, TLC

CONSTANTS k1, k2, b1, b2

TwoClients == {k1, k2}
TwoBindings == {b1, b2}
Symmetry == Permutations(TwoClients) \cup Permutations(TwoBindings)
=============================================================================
