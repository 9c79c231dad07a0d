-------------------------- MODULE MCUserDeletion --------------------------
(* Instances of UserDeletion, of TokenBlacklist with any caller, and of    *)
(* TokenGrants, side by side: every behaviour is one of one of the three,  *)
(* the others stay where they start.  There are two tokens of one user,    *)
(* for the deletion rows that were issued one after the other.  Request    *)
(* slots and scopes are interchangeable.  Only for safety.                 *)
EXTENDS UserDeletion, TLC

CONSTANTS
    k1, k2, u1,
    GrantReq, Client, Confidential, Scope, RequireConfirmation, MaxTokens  \* of TokenGrants

VARIABLES
    part,                                          \* which of the three
    account, client, token, asking, seen           \* of TokenGrants

RowOwner == [k \in Key |-> u1]
RowExp == (k1 :> 2) @@ (k2 :> 3)
Interchangeable == Permutations(Req) \cup Permutations(Scope)

Grants == INSTANCE TokenGrants WITH Req <- GrantReq, user <- account, req <- asking

grantVars == <<account, client, token, asking, seen>>
allVars == <<part, vars, grantVars>>

MCInit == part \in {"deletion", "blacklist", "grants"} /\ Init /\ Grants!Init

MCNext ==
    /\ UNCHANGED part
    /\ \/ part = "deletion" /\ Next /\ UNCHANGED grantVars
       \/ part = "blacklist" /\ Blacklist!Next /\ UNCHANGED <<user, row, events, req, grantVars>>
       \/ part = "grants" /\ Grants!Next /\ UNCHANGED vars

MCSpec == MCInit /\ [][MCNext]_allVars

(* Bound: the deletion stops before the clock does.                        *)
Within == part = "deletion" => now < MaxTime

(* The properties of the instances under names of their own; see there.    *)
MCTypeOK == Blacklist!TypeOK /\ Grants!TypeOK /\ (part # "blacklist" => TypeOK)
BlacklistHolds == Blacklist!BlacklistHolds
ScopeNeverGrows == Grants!ScopeNeverGrows
IssuedWereEntitled == Grants!IssuedWereEntitled
=============================================================================
