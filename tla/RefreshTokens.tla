--------------------------- MODULE RefreshTokens ---------------------------
(***************************************************************************)
(* The refresh-token table and the HTTP requests that work on it.  Each    *)
(* request is a process that the event loop may suspend at every await, so *)
(* its steps are database statements and commits: the handlers read in one *)
(* step and write in a later one, with the steps of other requests, of     *)
(* other workers and of the maintenance jobs between them.  PostgreSQL at  *)
(* READ COMMITTED: a SELECT sees what is committed when it runs, and an    *)
(* UPDATE writes the attributes the handler assigned.                      *)
(*                                                                         *)
(* A definition whose name starts with Bug is a faulty variant of the one  *)
(* that follows it, no part of the specification: the properties are       *)
(* tested against it.                                                      *)
(***************************************************************************)
EXTENDS Naturals, FiniteSets

CONSTANTS
    Req,            \* request slots: how many requests are in flight at once
    Jti,            \* token identifiers; uuid4 in the code, a bound here
    User,           \* users that exist at the start
    Client,         \* OAuth clients
    UsableClient,   \* those that validate_client and validate_grant_type accept
    ShortLived,     \* bound: the tokens that can reach their expiry in a run
    None            \* the absence of a value

ASSUME RefreshTokensAssumption ==
    /\ UsableClient \subseteq Client
    /\ ShortLived \subseteq Jti
    /\ None \notin Jti
    /\ None \notin User
    /\ None \notin Client
    /\ IsFiniteSet(Req)

VARIABLES
    row,        \* refresh_tokens, by jti; "purged" remembers a deleted row
    jwt,        \* the claims of each signed refresh token
    age,        \* how far the token is in its life, by the server's clock
    delivered,  \* tokens whose response reached the client application
    account,    \* users: is_active, or absent after UserService.delete_user
    req,        \* what each request in flight holds in its local variables
    known       \* history: the rows a request is expected to end, at its arrival

vars == <<row, jwt, age, delivered, account, req, known>>

-----------------------------------------------------------------------------
(* Requests and rows                                                       *)

Final == {"done", "refused", "detected", "error"}

(* Where a request stands: the statement it will issue next.               *)
Label == {"idle", "validate", "chain", "auth", "revoke", "spend", "session",
          "save", "saved", "select", "commit"} \cup Final

Op == {"none", "login", "refresh", "logout", "logoutAll", "revokeSession"}

Request == [pc: Label, op: Op, user: User \cup {None}, client: Client \cup {None},
            jti: Jti \cup {None}, fresh: Jti \cup {None},
            session: Jti \cup {None}, rows: SUBSET Jti]

Idle == [pc |-> "idle", op |-> "none", user |-> None, client |-> None,
         jti |-> None, fresh |-> None, session |-> None, rows |-> {}]

(* A session is named after the token that opened it: both are fresh       *)
(* uuid4 values of the same request.                                       *)
Row == [status: {"absent", "active", "revoked", "purged"},
        user: User \cup {None}, client: Client \cup {None},
        session: Jti \cup {None}, parent: Jti \cup {None}]

NoRow == [status |-> "absent", user |-> None, client |-> None,
          session |-> None, parent |-> None]

Claims == [user: User \cup {None}, client: Client \cup {None}]

Active(j) == row[j].status = "active"
InTable(j) == row[j].status \in {"active", "revoked"}
Unminted == {j \in Jti : jwt[j].user = None}

Goto(r, label) == req' = [req EXCEPT ![r].pc = label]

SetStatus(S, st) ==
    row' = [j \in Jti |-> IF j \in S THEN [row[j] EXCEPT !.status = st] ELSE row[j]]

(* The filter on user_id is missing. *)
BugScope(op, u, s, j) ==
    {i \in Jti :
        /\ InTable(i)
        /\ op = "revokeSession" => row[i].session = s
        /\ op = "refresh" => row[i].client = row[j].client}

(* The rows that the request's revocation is about: one session's for a    *)
(* session revocation, all of the same user and client when a spent token  *)
(* comes back, and all of the user's for what a log-out from all sessions  *)
(* is expected to end.                                                     *)
Scope(op, u, s, j) ==
    {i \in Jti :
        /\ InTable(i)
        /\ row[i].user = u
        /\ op = "revokeSession" => row[i].session = s
        /\ op = "refresh" => row[i].client = row[j].client}

-----------------------------------------------------------------------------
(* POST /oauth/token, grant_type=password                                  *)

(* The user and the client pass authenticate_password_grant and a token    *)
(* pair is signed.  A login that does not pass leaves these tables alone.  *)
Login(r, u, c) ==
    /\ req[r].pc = "idle"
    /\ c \in UsableClient
    /\ account[u] = "active"
    /\ \E n \in Unminted :
        /\ jwt' = [jwt EXCEPT ![n] = [user |-> u, client |-> c]]
        /\ req' = [req EXCEPT ![r] =
                    [Idle EXCEPT !.pc = "save", !.op = "login", !.user = u,
                                 !.client = c, !.fresh = n, !.session = n]]
    /\ UNCHANGED <<row, age, delivered, account, known>>

-----------------------------------------------------------------------------
(* POST /oauth/token, grant_type=refresh_token                             *)

(* A client application presents a token it was given; the signature and   *)
(* the exp claim are checked before the first statement.                   *)
BeginRefresh(r, j, c) ==
    /\ req[r].pc = "idle"
    /\ j \in delivered
    /\ age[j] = "live"
    /\ req' = [req EXCEPT ![r] =
                [Idle EXCEPT !.pc = "validate", !.op = "refresh",
                             !.user = jwt[j].user, !.client = c, !.jti = j]]
    /\ known' = [known EXCEPT ![r] =
                  IF row[j].status = "revoked"
                  THEN Scope("refresh", jwt[j].user, None, j) ELSE {}]
    /\ UNCHANGED <<row, jwt, age, delivered, account>>

(* The revoked flag is not looked at. *)
BugValidateForgetsRevoked(r) ==
    /\ req[r].pc = "validate"
    /\ Goto(r, IF InTable(req[r].jti) /\ age[req[r].jti] = "live" THEN "auth" ELSE "refused")
    /\ UNCHANGED <<row, jwt, age, delivered, account, known>>

(* A revoked token is refused, and its chain is left alone. *)
BugValidateSparesChain(r) ==
    /\ req[r].pc = "validate"
    /\ Goto(r, IF Active(req[r].jti) /\ age[req[r].jti] = "live" THEN "auth" ELSE "refused")
    /\ UNCHANGED <<row, jwt, age, delivered, account, known>>

(* validate_refresh_token: a missing row is refused, a revoked one starts  *)
(* the revocation of its chain, an expired one is refused.                 *)
ValidateRefresh(r) ==
    /\ req[r].pc = "validate"
    /\ LET j == req[r].jti IN
        \/ /\ ~InTable(j)
           /\ Goto(r, "refused")
        \/ /\ row[j].status = "revoked"
           /\ Goto(r, "chain")
        \/ /\ Active(j)
           /\ age[j] # "live"
           /\ Goto(r, "refused")
        \/ /\ Active(j)
           /\ age[j] = "live"
           /\ Goto(r, "auth")
    /\ UNCHANGED <<row, jwt, age, delivered, account, known>>

(* revoke_token_chain reads the unrevoked rows of the same user and        *)
(* client.  The SELECT flushes revoked_at of the reused row first, which   *)
(* fails when that row is gone.                                            *)
SelectChain(r) ==
    /\ req[r].pc = "chain"
    /\ LET j == req[r].jti IN
        IF InTable(j)
        THEN req' = [req EXCEPT ![r].pc = "commit",
                       ![r].rows = {i \in Scope("refresh", row[j].user, None, j) : Active(i)}]
        ELSE Goto(r, "error")
    /\ UNCHANGED <<row, jwt, age, delivered, account, known>>

(* The client_id of the request is not compared with the token's. *)
BugMayRotate(r) ==
    /\ req[r].client \in UsableClient
    /\ age[req[r].jti] = "live"
    /\ account[req[r].user] = "active"

(* authenticate_refresh_grant: the client is usable, the token is still    *)
(* within its life and was issued to this client, and the user exists and  *)
(* is active; then a new token pair is signed.                             *)
MayRotate(r) ==
    /\ req[r].client \in UsableClient
    /\ age[req[r].jti] = "live"
    /\ jwt[req[r].jti].client = req[r].client
    /\ account[req[r].user] = "active"

AuthRefresh(r) ==
    /\ req[r].pc = "auth"
    /\ \/ /\ ~MayRotate(r)
          /\ Goto(r, "refused")
          /\ UNCHANGED jwt
       \/ /\ MayRotate(r)
          /\ \E n \in Unminted :
              /\ jwt' = [jwt EXCEPT ![n] = [user |-> req[r].user, client |-> req[r].client]]
              /\ req' = [req EXCEPT ![r].pc = "revoke", ![r].fresh = n]
    /\ UNCHANGED <<row, age, delivered, account, known>>

(* The old token is not revoked. *)
BugSelectOld(r) ==
    /\ req[r].pc = "revoke"
    /\ Goto(r, "session")
    /\ UNCHANGED <<row, jwt, age, delivered, account, known>>

(* revoke_token reads the old row; it returns False when there is none,    *)
(* and the handler goes on all the same.                                   *)
SelectOld(r) ==
    /\ req[r].pc = "revoke"
    /\ Goto(r, IF InTable(req[r].jti) THEN "spend" ELSE "session")
    /\ UNCHANGED <<row, jwt, age, delivered, account, known>>

(* The row is written back whether or not it still exists (a merge). *)
BugSpendOld(r) ==
    /\ req[r].pc = "spend"
    /\ SetStatus({req[r].jti}, "revoked")
    /\ Goto(r, "session")
    /\ UNCHANGED <<jwt, age, delivered, account, known>>

(* The UPDATE of revoke_token; it fails when the row was deleted since.    *)
SpendOld(r) ==
    /\ req[r].pc = "spend"
    /\ IF InTable(req[r].jti)
       THEN SetStatus({req[r].jti}, "revoked") /\ Goto(r, "session")
       ELSE Goto(r, "error") /\ UNCHANGED row
    /\ UNCHANGED <<jwt, age, delivered, account, known>>

(* No session is started when the old row is gone. *)
BugReadSession(r) ==
    /\ req[r].pc = "session"
    /\ LET j == req[r].jti IN
        req' = [req EXCEPT ![r].pc = "save",
                  ![r].session = IF InTable(j) THEN row[j].session ELSE None]
    /\ UNCHANGED <<row, jwt, age, delivered, account, known>>

(* The handler reads the old row again for its session; without one,       *)
(* save_refresh_token starts a session of its own.                         *)
ReadSession(r) ==
    /\ req[r].pc = "session"
    /\ LET j == req[r].jti IN
        req' = [req EXCEPT ![r].pc = "save",
                  ![r].session = IF InTable(j) THEN row[j].session ELSE req[r].fresh]
    /\ UNCHANGED <<row, jwt, age, delivered, account, known>>

(* save_refresh_token, for both grants: the INSERT fails on its foreign    *)
(* key when the user is gone.                                              *)
SaveToken(r) ==
    /\ req[r].pc = "save"
    /\ LET n == req[r].fresh IN
        IF account[req[r].user] = "absent"
        THEN Goto(r, "error") /\ UNCHANGED row
        ELSE /\ row' = [row EXCEPT ![n] =
                  [status |-> "active", user |-> jwt[n].user, client |-> jwt[n].client,
                   session |-> req[r].session, parent |-> req[r].jti]]
             /\ Goto(r, "saved")
    /\ UNCHANGED <<jwt, age, delivered, account, known>>

(* The token response reaches the client application.                      *)
Respond(r) ==
    /\ req[r].pc = "saved"
    /\ delivered' = delivered \cup {req[r].fresh}
    /\ Goto(r, "done")
    /\ UNCHANGED <<row, jwt, age, account, known>>

-----------------------------------------------------------------------------
(* DELETE /oauth/sessions/{session_id} and POST /oauth/logout              *)

(* Whoever was given tokens of user u can authorize these requests.        *)
SignedIn(u) == \E j \in delivered : jwt[j].user = u

(* The path names any session, also one of another user.                   *)
BeginRevokeSession(r, u) ==
    /\ req[r].pc = "idle"
    /\ SignedIn(u)
    /\ \E s \in {row[i].session : i \in {k \in Jti : InTable(k)}} :
        /\ req' = [req EXCEPT ![r] = [Idle EXCEPT !.pc = "select", !.op = "revokeSession",
                                                  !.user = u, !.session = s]]
        /\ known' = [known EXCEPT ![r] = Scope("revokeSession", u, s, None)]
    /\ UNCHANGED <<row, jwt, age, delivered, account>>

(* The log-out handler calls auth_svc.validate_token, which AuthService    *)
(* does not have, before its try: with a bearer token it answers 500 and   *)
(* no statement is issued.  What all_sessions=true is expected to end is   *)
(* what the specification of the endpoint says, every row of the user.     *)
Logout(r, u) ==
    /\ req[r].pc = "idle"
    /\ SignedIn(u)
    /\ \E op \in {"logout", "logoutAll"} :
        /\ req' = [req EXCEPT ![r] = [Idle EXCEPT !.pc = "error", !.op = op, !.user = u]]
        /\ known' = [known EXCEPT ![r] =
                      IF op = "logoutAll" THEN Scope(op, u, None, None) ELSE {}]
    /\ UNCHANGED <<row, jwt, age, delivered, account>>

(* Only the first row of the result is taken (scalars().first()). *)
BugSelectForRevocation(r) ==
    /\ req[r].pc = "select"
    /\ \E i \in Scope(req[r].op, req[r].user, req[r].session, None) :
        /\ Active(i)
        /\ req' = [req EXCEPT ![r].pc = "commit", ![r].rows = {i}]
    /\ UNCHANGED <<row, jwt, age, delivered, account, known>>

(* revoke_session reads the unrevoked rows; with none the handler answers  *)
(* 404 without a commit.                                                   *)
SelectForRevocation(r) ==
    /\ req[r].pc = "select"
    /\ LET S == {i \in Scope(req[r].op, req[r].user, req[r].session, None) : Active(i)} IN
        req' = [req EXCEPT ![r].pc = IF S = {} THEN "done" ELSE "commit",
                           ![r].rows = S]
    /\ UNCHANGED <<row, jwt, age, delivered, account, known>>

Lost(r) == {i \in req[r].rows : ~InTable(i)}

Outcome(r) == IF req[r].op = "refresh" THEN "detected" ELSE "done"

(* The UPDATEs and the COMMIT of a revocation, of a chain or of sessions.  *)
(* A batch of several UPDATEs passes over rows deleted since the SELECT    *)
(* with a driver that reports no row count for a batch (asyncpg).          *)
CommitRevocation(r) ==
    /\ req[r].pc = "commit"
    /\ Lost(r) = {} \/ Cardinality(req[r].rows) > 1
    /\ SetStatus(req[r].rows \ Lost(r), "revoked")
    /\ Goto(r, Outcome(r))
    /\ UNCHANGED <<jwt, age, delivered, account, known>>

(* Any other driver, and every single UPDATE, reports the missing row: a   *)
(* StaleDataError that rolls the transaction back.                         *)
FailRevocation(r) ==
    /\ req[r].pc = "commit"
    /\ Lost(r) # {}
    /\ Goto(r, "error")
    /\ UNCHANGED <<row, jwt, age, delivered, account, known>>

-----------------------------------------------------------------------------
(* What can happen to every request                                        *)

(* The worker dies, the database fails the statement, or the connection to *)
(* the client breaks: get_db rolls back what is not committed.             *)
Abort(r) ==
    /\ req[r].pc \notin Final \cup {"idle"}
    /\ Goto(r, "error")
    /\ UNCHANGED <<row, jwt, age, delivered, account, known>>

(* The request is over and its slot is free.                               *)
Finish(r) ==
    /\ req[r].pc \in Final
    /\ req' = [req EXCEPT ![r] = Idle]
    /\ known' = [known EXCEPT ![r] = {}]
    /\ UNCHANGED <<row, jwt, age, delivered, account>>

-----------------------------------------------------------------------------
(* Time, maintenance and account administration                            *)

(* A token passes its expiry, and later the retention period of clean-up.  *)
Expire(j) ==
    /\ j \in ShortLived \ Unminted
    /\ age[j] # "stale"
    /\ age' = [age EXCEPT ![j] = IF @ = "live" THEN "expired" ELSE "stale"]
    /\ UNCHANGED <<row, jwt, delivered, account, req, known>>

(* cleanup_expired_tokens, run by an external scheduler.                   *)
Cleanup ==
    LET S == {j \in Jti : InTable(j) /\ age[j] = "stale"} IN
    /\ S # {}
    /\ SetStatus(S, "purged")
    /\ UNCHANGED <<jwt, age, delivered, account, req, known>>

(* update_user with is_active.                                             *)
SetActive(u) ==
    /\ account[u] # "absent"
    /\ account' = [account EXCEPT ![u] = IF @ = "active" THEN "inactive" ELSE "active"]
    /\ UNCHANGED <<row, jwt, age, delivered, req, known>>

(* delete_user: the foreign key removes the user's tokens with the user.   *)
DeleteUser(u) ==
    /\ account[u] # "absent"
    /\ account' = [account EXCEPT ![u] = "absent"]
    /\ SetStatus({j \in Jti : InTable(j) /\ row[j].user = u}, "purged")
    /\ UNCHANGED <<jwt, age, delivered, req, known>>

-----------------------------------------------------------------------------
Init ==
    /\ row = [j \in Jti |-> NoRow]
    /\ jwt = [j \in Jti |-> [user |-> None, client |-> None]]
    /\ age = [j \in Jti |-> "live"]
    /\ delivered = {}
    /\ account = [u \in User |-> "active"]
    /\ req = [r \in Req |-> Idle]
    /\ known = [r \in Req |-> {}]

(* A request arrives.                                                      *)
Arrive(r) ==
    \/ \E u \in User :
        \/ \E c \in Client : Login(r, u, c)
        \/ BeginRevokeSession(r, u)
        \/ Logout(r, u)
    \/ \E j \in Jti, c \in Client : BeginRefresh(r, j, c)

(* A request in flight takes its next step.                                *)
Advance(r) ==
    \/ ValidateRefresh(r)
    \/ SelectChain(r)
    \/ AuthRefresh(r)
    \/ SelectOld(r)
    \/ SpendOld(r)
    \/ ReadSession(r)
    \/ SaveToken(r)
    \/ Respond(r)
    \/ SelectForRevocation(r)
    \/ CommitRevocation(r)
    \/ FailRevocation(r)
    \/ Finish(r)

Environment ==
    \/ \E j \in Jti : Expire(j)
    \/ Cleanup
    \/ \E u \in User : SetActive(u) \/ DeleteUser(u)

Next ==
    \/ \E r \in Req : Arrive(r) \/ Advance(r) \/ Abort(r)
    \/ Environment

Spec == Init /\ [][Next]_vars

(* The event loop resumes every request whose statement has returned, and  *)
(* statements return or fail; arrivals, crashes and jobs owe nothing.      *)
Fairness == \A r \in Req : WF_vars(Advance(r))

FairSpec == Spec /\ Fairness

-----------------------------------------------------------------------------
(* Properties                                                              *)

(* Every variable has its type, and a row in the table has an owner and a  *)
(* session.                                                                *)
TypeOK ==
    /\ row \in [Jti -> Row]
    /\ jwt \in [Jti -> Claims]
    /\ age \in [Jti -> {"live", "expired", "stale"}]
    /\ delivered \subseteq Jti
    /\ account \in [User -> {"active", "inactive", "absent"}]
    /\ req \in [Req -> Request]
    /\ known \in [Req -> SUBSET Jti]
    /\ \A j \in Jti : InTable(j) => row[j].user # None /\ row[j].session # None

(* A rotated token exists only beside a spent parent: _handle_refresh_grant *)
(* commits the revocation of the old token before it saves the new one, so *)
(* no crash or interleaving leaves both usable.                            *)
RotationConsumes ==
    \A j \in Jti : row[j].status # "absent" /\ row[j].parent # None =>
        row[row[j].parent].status \in {"revoked", "purged"}

(* A refresh request whose token was already revoked when it arrived gets  *)
(* no new token, whatever runs beside it.                                  *)
SpentTokenNeverRotates ==
    \A r \in Req : req[r].op = "refresh" /\ req[r].jti \in known[r] =>
        req[r].pc \in {"validate", "chain", "commit", "detected", "refused", "error"}

(* When a session revocation or a reuse detection answers, no token it is  *)
(* about that was in the table when the request arrived is still active.   *)
RevocationCovers ==
    \A r \in Req :
        \/ req[r].pc = "done" /\ req[r].op = "revokeSession"
        \/ req[r].pc = "detected"
        => \A j \in known[r] : ~Active(j)

(* A rotated token belongs to the user, the client and the session of its  *)
(* parent, as long as the parent's row is kept.                            *)
RotationKeepsOwner ==
    \A j \in Jti : LET p == row[j].parent IN
        InTable(j) /\ p # None =>
            /\ row[j].user = row[p].user
            /\ row[j].client = row[p].client
            /\ InTable(p) => row[j].session = row[p].session

(* At most one token of a session is active.  It holds when requests are   *)
(* served one at a time, crashes and failures included.                    *)
OneActivePerSession ==
    \A j, k \in Jti :
        Active(j) /\ Active(k) /\ row[j].session = row[k].session => j = k

(* A token is revoked only by a request of its own user, by a session      *)
(* revocation only in the named session, and by reuse of a token or a      *)
(* rotation only within the same client.                                   *)
RevokesOnlyOwn ==
    [][\A j \in Jti : Active(j) /\ row'[j].status = "revoked" =>
        \E r \in Req :
            /\ req'[r] # req[r]
            /\ row[j].user = req[r].user
            /\ req[r].op = "revokeSession" => row[j].session = req[r].session
            /\ req[r].op = "refresh" => row[j].client = jwt[req[r].jti].client]_vars

(* The table refines the ledger of tokens.                                 *)
Ledger == INSTANCE TokenLedger WITH
    NoJti <- None,
    status <- [j \in Jti |-> row[j].status],
    parent <- [j \in Jti |-> row[j].parent]

LedgerSpec == Ledger!Spec

(* Once a session revocation or the reuse of a spent token has arrived,    *)
(* each token it is about stops being active, unless the request fails or  *)
(* the spent token's row is deleted under it.                              *)
RevocationTakesEffect ==
    \A r \in Req, j \in Jti :
        (req[r].pc \in {"validate", "select"} /\ j \in known[r])
            ~> \/ ~Active(j)
               \/ req[r].pc = "error"
               \/ req[r].pc = "refused" /\ ~InTable(req[r].jti)

-----------------------------------------------------------------------------
(* The inductive invariant behind the properties above                     *)

Spent(j) == row[j].status \in {"revoked", "purged"}

(* The request has signed a token that it has not saved yet.               *)
Pending(r) == req[r].pc \in {"revoke", "spend", "session", "save"}

(* Only signed tokens are saved, only saved tokens are delivered.          *)
SavedTokens ==
    /\ \A j \in Jti : row[j].status # "absent" => jwt[j].user \in User
    /\ \A j \in delivered : row[j].status # "absent"

(* What a refresh request holds about the token it presents: the row has   *)
(* existed, and it is spent from the commit of revoke_token on.            *)
PresentedToken(r) ==
    /\ req[r].pc \in {"validate", "chain", "auth", "revoke", "spend", "session"}
        => req[r].op = "refresh"
    /\ req[r].op = "refresh"
        => /\ req[r].jti \in Jti
           /\ req[r].user \in User
           /\ row[req[r].jti].status # "absent"
    /\ req[r].pc \in {"session", "save"} /\ req[r].jti # None => Spent(req[r].jti)

(* What a request holds about the token it has signed.                     *)
SignedToken(r) ==
    /\ Pending(r) \/ req[r].pc = "saved"
        => /\ req[r].fresh \in Jti
           /\ req[r].user \in User
           /\ jwt[req[r].fresh].user \in User
    /\ Pending(r) => row[req[r].fresh].status = "absent"
    /\ req[r].pc = "save" => req[r].session \in Jti
    /\ req[r].pc = "saved" => row[req[r].fresh].status # "absent"

(* No two requests hold the same unsaved token.                            *)
FreshDistinct ==
    \A r, q \in Req :
        Pending(r) /\ Pending(q) /\ req[r].fresh = req[q].fresh => r = q

(* Each conjunct supports the next ones: RotationConsumes needs the parent *)
(* a request is about to save to be spent already.                         *)
IInv ==
    /\ TypeOK
    /\ SavedTokens
    /\ \A r \in Req : PresentedToken(r)
    /\ \A r \in Req : SignedToken(r)
    /\ FreshDistinct
    /\ RotationConsumes

-----------------------------------------------------------------------------
(* What the documentation says and the code does not do                    *)

(* A refresh token is single-use: it has at most one successor.            *)
OneTimeUse ==
    \A j, k \in Jti :
        row[j].parent # None /\ row[j].parent = row[k].parent => j = k

(* A log-out everywhere revokes the user's tokens.  No failure, crash or   *)
(* interleaving excuses the code: see Logout.                              *)
LogoutTakesEffect ==
    \A r \in Req, j \in Jti :
        req[r].op = "logoutAll" /\ j \in known[r] ~> ~Active(j)
=============================================================================
