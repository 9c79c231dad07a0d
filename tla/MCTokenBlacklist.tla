------------------------- MODULE MCTokenBlacklist -------------------------
(* An instance of TokenBlacklist: one caller and two tokens of one user.   *)
EXTENDS TokenBlacklist, TLC

CONSTANTS short, long, u1

KeyOwner == [k \in Key |-> u1]
KeyExp == (short :> 1) @@ (long :> 3)
=============================================================================
