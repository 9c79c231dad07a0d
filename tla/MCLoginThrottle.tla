-------------------------- MODULE MCLoginThrottle --------------------------
(* Symmetry of the finite instances of LoginThrottle: request slots, names *)
(* and addresses are interchangeable.  Only for safety.                    *)
EXTENDS LoginThrottle, TLC

SlotsAndKeys == Permutations(Req) \cup Permutations(Name) \cup Permutations(Ip)
=============================================================================
