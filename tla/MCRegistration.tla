-------------------------- MODULE MCRegistration --------------------------
(* Symmetry of the finite instances of Registration: request slots,        *)
(* accounts, addresses and names are interchangeable.  Only for safety.    *)
EXTENDS Registration, TLC

SlotsAccountsNames ==
    Permutations(Req) \cup Permutations(Account) \cup Permutations(Email) \cup Permutations(Name)
=============================================================================
