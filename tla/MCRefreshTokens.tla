-------------------------- MODULE MCRefreshTokens --------------------------
(* Finite instances of RefreshTokens as it is, for the promises that its   *)
(* behaviours break: no symmetry, no further bounds.                       *)
EXTENDS RefreshTokens
=============================================================================
