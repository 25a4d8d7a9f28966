--------------------------- MODULE MCAuthManager ---------------------------
(* Model-checking instances of AuthManager. *)
EXTENDS AuthManager, TLC

CONSTANTS c1, c2, p1, p2

TwoCallers == {c1, c2}
OneProcess == c1 :> p1 @@ c2 :> p1
TwoProcesses == c1 :> p1 @@ c2 :> p2
Symmetry == Permutations(TwoCallers)
=============================================================================
