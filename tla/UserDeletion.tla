--------------------------- MODULE UserDeletion ---------------------------
(***************************************************************************)
(* DELETE /admin/users/{id}: the tokens of the user are put on the         *)
(* blacklist (TokenBlacklist), the user is marked as deleted in the        *)
(* database, and user.deleted is published on a stream: three stores and   *)
(* no transaction over them.  Log-ins, rotations and the removal of users  *)
(* run beside it.  The handler passes the ids of rows to the blacklist,    *)
(* other callers would pass jtis: their keys are disjoint from these.      *)
(*                                                                         *)
(* A definition whose name starts with Bug is a faulty variant of the one  *)
(* that follows it, no part of the specification.                          *)
(***************************************************************************)
EXTENDS RevocableTokens

CONSTANTS
    Req,       \* requests; Key are the ids of rows of refresh_tokens
    Lifetime,  \* of a refresh token
    Wired      \* whether the two Redis services were initialised

ASSUME UserDeletionAssumption ==
    /\ IsFiniteSet(Req)
    /\ Lifetime \in Nat \ {0}
    /\ Wired \in BOOLEAN

VARIABLES
    now, black, index, lapse, call, acked, written,  \* of TokenBlacklist
    user,      \* the row of each user: present, marked or gone
    row,       \* the rows of refresh_tokens: none, active or revoked
    events,    \* how many user.deleted events of each user the stream took
    req        \* what each request in progress holds in its local variables

blacklistVars == <<now, black, index, lapse, call, acked, written>>
vars == <<blacklistVars, user, row, events, req>>

Blacklist == INSTANCE TokenBlacklist

Final == {"deleted", "notFound", "already", "revokeFailed", "publishFailed", "error"}

Label == {"idle", "tokens", "revoke", "await", "mark", "publish"} \cup Final

Request == [pc: Label, user: User \cup {None}, found: SUBSET Key]

Idle == [pc |-> "idle", user |-> None, found |-> {}]

Goto(r, label) == req' = [req EXCEPT ![r].pc = label]

Mine(r) == req[r].user

-----------------------------------------------------------------------------
(* The handler                                                             *)

(* The mark of an earlier deletion is not looked at. *)
BugFindUser(r, u) ==
    /\ req[r].pc = "idle"
    /\ req' = [req EXCEPT ![r] = [Idle EXCEPT !.user = u,
                 !.pc = IF user[u] = "gone" THEN "notFound" ELSE "tokens"]]
    /\ UNCHANGED <<blacklistVars, user, row, events>>

FindUser(r, u) ==
    /\ req[r].pc = "idle"
    /\ req' = [req EXCEPT ![r] = [Idle EXCEPT !.user = u,
                 !.pc = CASE user[u] = "gone" -> "notFound"
                          [] user[u] = "marked" -> "already"
                          [] OTHER -> "tokens"]]
    /\ UNCHANGED <<blacklistVars, user, row, events>>

Usable(u) == {k \in Key : Owner[k] = u /\ row[k] = "active" /\ Exp[k] > now}

(* The tokens that were not revoked in the database and have not expired.  *)
SelectTokens(r) ==
    /\ req[r].pc = "tokens"
    /\ req' = [req EXCEPT ![r].found = Usable(Mine(r)),
                          ![r].pc = CASE Usable(Mine(r)) = {} -> "mark"
                                      [] Usable(Mine(r)) # {} /\ Wired -> "revoke"
                                      [] OTHER -> "revokeFailed"]
    /\ UNCHANGED <<blacklistVars, user, row, events>>

(* The call of the blacklist is started and not awaited. *)
BugRevokeTokens(r) ==
    /\ req[r].pc = "revoke"
    /\ Blacklist!BeginRevokeAll(r, Mine(r), req[r].found)
    /\ Goto(r, "mark")
    /\ UNCHANGED <<user, row, events>>

RevokeTokens(r) ==
    /\ req[r].pc = "revoke"
    /\ Blacklist!BeginRevokeAll(r, Mine(r), req[r].found)
    /\ Goto(r, "await")
    /\ UNCHANGED <<user, row, events>>

(* The deletion goes on when the blacklist failed. *)
BugTokensRevoked(r) ==
    /\ req[r].pc = "await"
    /\ Blacklist!Return(r)
    /\ Goto(r, "mark")
    /\ UNCHANGED <<user, row, events>>

TokensRevoked(r) ==
    /\ req[r].pc = "await"
    /\ Goto(r, IF call[r].pc = "done" THEN "mark" ELSE "revokeFailed")
    /\ Blacklist!Return(r)
    /\ UNCHANGED <<user, row, events>>

(* is_deleted and COMMIT, which fails when the row is gone.                *)
MarkDeleted(r) ==
    /\ req[r].pc = "mark"
    /\ IF user[Mine(r)] = "gone"
       THEN Goto(r, "error") /\ UNCHANGED user
       ELSE Goto(r, "publish") /\ user' = [user EXCEPT ![Mine(r)] = "marked"]
    /\ UNCHANGED <<blacklistVars, row, events>>

Announce(u) == events' = [events EXCEPT ![u] = @ + 1]

(* XADD; after a failure, before or after the stream took the event, the   *)
(* answer is 500 and nothing publishes it later.                           *)
Publish(r) ==
    /\ req[r].pc = "publish"
    /\ \/ Wired /\ Announce(Mine(r)) /\ Goto(r, "deleted")
       \/ Wired /\ Announce(Mine(r)) /\ Goto(r, "publishFailed")
       \/ Goto(r, "publishFailed") /\ UNCHANGED events
    /\ UNCHANGED <<blacklistVars, user, row>>

(* The worker dies or a statement fails between two steps.                 *)
Abort(r) ==
    /\ req[r].pc \in {"tokens", "revoke", "mark", "publish"}
    /\ Goto(r, "error")
    /\ UNCHANGED <<blacklistVars, user, row, events>>

Finish(r) ==
    /\ req[r].pc \in Final
    /\ req' = [req EXCEPT ![r] = Idle]
    /\ UNCHANGED <<blacklistVars, user, row, events>>

-----------------------------------------------------------------------------
(* What runs beside it                                                     *)

(* A log-in or a rotation; neither looks at is_deleted.                    *)
Issue(k) ==
    /\ row[k] = "none"
    /\ user[Owner[k]] # "gone"
    /\ now + Lifetime = Exp[k]
    /\ row' = [row EXCEPT ![k] = "active"]
    /\ UNCHANGED <<blacklistVars, user, events, req>>

(* A rotation or the revocation of a session.                              *)
RevokeRow(k) ==
    /\ row[k] = "active"
    /\ row' = [row EXCEPT ![k] = "revoked"]
    /\ UNCHANGED <<blacklistVars, user, events, req>>

(* UserService.delete_user: the foreign keys take the rows along.          *)
RemoveUser(u) ==
    /\ user[u] # "gone"
    /\ user' = [user EXCEPT ![u] = "gone"]
    /\ row' = [k \in Key |-> IF Owner[k] = u THEN "none" ELSE row[k]]
    /\ UNCHANGED <<blacklistVars, events, req>>

BlacklistStep ==
    /\ Blacklist!Tick \/ \E r \in Req : Blacklist!Command(r) \/ Blacklist!Fail(r)
    /\ UNCHANGED <<user, row, events, req>>

-----------------------------------------------------------------------------
Init ==
    /\ Blacklist!Init
    /\ user = [u \in User |-> "present"]
    /\ row = [k \in Key |-> "none"]
    /\ events = [u \in User |-> 0]
    /\ req = [r \in Req |-> Idle]

Advance(r) ==
    \/ SelectTokens(r)
    \/ RevokeTokens(r)
    \/ TokensRevoked(r)
    \/ MarkDeleted(r)
    \/ Publish(r)
    \/ Finish(r)

Next ==
    \/ \E r \in Req : Advance(r) \/ Abort(r) \/ \E u \in User : FindUser(r, u)
    \/ \E k \in Key : Issue(k) \/ RevokeRow(k)
    \/ \E u \in User : RemoveUser(u)
    \/ BlacklistStep

Spec == Init /\ [][Next]_vars

-----------------------------------------------------------------------------
(* Properties                                                              *)

(* Every variable has its type, and a call of the blacklist is in progress *)
(* exactly for the requests that wait for it.                              *)
TypeOK ==
    /\ Blacklist!TypeOK
    /\ user \in [User -> {"present", "marked", "gone"}]
    /\ row \in [Key -> {"none", "active", "revoked"}]
    /\ events \in [User -> Nat]
    /\ req \in [Req -> Request]
    /\ \A r \in Req : req[r].pc = "await" <=> call[r] # Blacklist!Idle

(* A user is marked as deleted only when the tokens the handler found are  *)
(* on the blacklist, and they stay there until they expire.                *)
DeletedMeansBlacklisted ==
    \A r \in Req : req[r].pc \in {"publish", "deleted", "publishFailed"} =>
        /\ user[Mine(r)] \in {"marked", "gone"}
        /\ \A k \in req[r].found : Exp[k] > now => Blacklist!Revoked(k)

(* A deletion that is repeated, one after another, is refused; only the    *)
(* requests that overlap the first one announce it again.                  *)
EventsBounded == \A u \in User : events[u] <= Cardinality(Req)
=============================================================================
