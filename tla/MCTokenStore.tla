---------------------------- MODULE MCTokenStore ----------------------------
(* Model-checking instance of TokenStore. *)
EXTENDS TokenStore

CONSTANTS t1, t2, i1, i2, i3, i4

MCTokens == {t1, t2}
MCInodes == {i1, i2, i3, i4}
=============================================================================
