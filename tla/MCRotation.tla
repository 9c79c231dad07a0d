---------------------------- MODULE MCRotation ----------------------------
(* Three families of behaviours of RefreshTokens in one instance: several  *)
(* requests at a time on tokens that do not expire, one request at a time  *)
(* on tokens that do, and two tokens of several users and clients.         *)
(* Request slots, users and the tokens and the clients of each kind are    *)
(* interchangeable.  Only for safety.                                      *)
EXTENDS RefreshTokens, TLC, FiniteSets

VARIABLE
    family      \* which of the three

Serial == Cardinality({r \in Req : req[r].pc # "idle"}) <= 1

MCInit == Init /\ family \in {"together", "serial", "owners"}

MCNext ==
    /\ Next
    /\ IF family = "serial" THEN Serial' ELSE age' = age
    /\ family = "owners" => Cardinality((Jti \ Unminted)') <= 2
    /\ UNCHANGED family

MCSpec == MCInit /\ [][MCNext]_<<vars, family>>

(* See OneActivePerSession.                                                *)
SerialOneActive == family = "serial" => OneActivePerSession

(* Bound: one user and one client; the other accounts are left alone.      *)
OneTenant ==
    \E u \in User, c \in UsableClient :
        /\ \A v \in User \ {u} : account[v] = "active"
        /\ \A r \in Req : req[r].user \in {u, None} /\ req[r].client \in {c, None}
        /\ \A j \in Jti \ Unminted : jwt[j] = [user |-> u, client |-> c]

(* Bound: only the third family is about several users and clients.        *)
Within == family # "owners" => OneTenant

Interchangeable ==
    Permutations(Req) \cup Permutations(User)
    \cup Permutations(ShortLived) \cup Permutations(Jti \ ShortLived)
    \cup Permutations(UsableClient) \cup Permutations(Client \ UsableClient)
=============================================================================
