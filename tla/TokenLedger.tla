---------------------------- MODULE TokenLedger ----------------------------
(***************************************************************************)
(* What the refresh-token table of the authorization server promises,     *)
(* without requests, statements or transactions: a ledger of tokens.  A    *)
(* token is entered once, either to open a session or as the successor of  *)
(* a token that is already spent; a spent token never becomes active       *)
(* again; a token that has left the ledger never returns.                  *)
(*                                                                         *)
(* RefreshTokens implements this specification.                            *)
(***************************************************************************)
CONSTANTS
    Jti,        \* identifiers of refresh tokens
    NoJti       \* the parent of a token that opened a session

VARIABLES
    status,     \* [Jti -> "absent" | "active" | "revoked" | "purged"]
    parent      \* [Jti -> Jti \cup {NoJti}], the token it was rotated from

vars == <<status, parent>>

Status == {"absent", "active", "revoked", "purged"}

TypeOK ==
    /\ status \in [Jti -> Status]
    /\ parent \in [Jti -> Jti \cup {NoJti}]

Init ==
    /\ status = [j \in Jti |-> "absent"]
    /\ parent = [j \in Jti |-> NoJti]

(* A login enters the first token of a session. *)
Open(j) ==
    /\ status[j] = "absent"
    /\ status' = [status EXCEPT ![j] = "active"]
    /\ parent' = [parent EXCEPT ![j] = NoJti]

(* A rotation enters the successor of a token that is spent or gone. *)
Rotate(j, p) ==
    /\ status[j] = "absent"
    /\ status[p] \in {"revoked", "purged"}
    /\ status' = [status EXCEPT ![j] = "active"]
    /\ parent' = [parent EXCEPT ![j] = p]

(* Rotation, reuse detection, log-out and session revocation spend tokens. *)
Revoke(S) ==
    /\ \A j \in S : status[j] = "active"
    /\ status' = [j \in Jti |-> IF j \in S THEN "revoked" ELSE status[j]]
    /\ UNCHANGED parent

(* Clean-up and the deletion of a user remove tokens in any state. *)
Purge(S) ==
    /\ \A j \in S : status[j] # "absent"
    /\ status' = [j \in Jti |-> IF j \in S THEN "purged" ELSE status[j]]
    /\ UNCHANGED parent

Next ==
    \/ \E j \in Jti : Open(j)
    \/ \E j, p \in Jti : Rotate(j, p)
    \/ \E S \in SUBSET Jti : Revoke(S) \/ Purge(S)

Spec == Init /\ [][Next]_vars
=============================================================================
