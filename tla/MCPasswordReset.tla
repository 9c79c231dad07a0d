-------------------------- MODULE MCPasswordReset --------------------------
(* Symmetry of the finite instances of PasswordReset: request slots,       *)
(* tokens and users are interchangeable.  Only for safety.                 *)
EXTENDS PasswordReset, TLC

SlotsTokensUsers == Permutations(Req) \cup Permutations(Token) \cup Permutations(User)
=============================================================================
