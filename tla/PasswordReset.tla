--------------------------- MODULE PasswordReset ---------------------------
(***************************************************************************)
(* Password reset by e-mail: the table password_reset_tokens, the task     *)
(* that mails a token, and the two endpoints.  The confirmation reads the  *)
(* token, then commits the new password, then marks the token as used in a *)
(* transaction of its own, and other requests, the clean-up and the        *)
(* deletion of users run in between.                                       *)
(*                                                                         *)
(* Rate limits and lock-outs appear only as refusals here (LoginThrottle   *)
(* has the counters).  A definition whose name starts with Bug is a faulty *)
(* variant of the one that follows it, no part of the specification.       *)
(***************************************************************************)
EXTENDS Naturals, FiniteSets

CONSTANTS
    Req,            \* request slots
    Token,          \* reset tokens; random in the code, a bound here
    User,           \* users that exist at the start
    None,           \* the absence of a token or a user
    MaxFailures     \* bound: failing statements and crashes in a run

ASSUME PasswordResetAssumption ==
    /\ None \notin Token
    /\ None \notin User
    /\ IsFiniteSet(Req)
    /\ MaxFailures \in Nat

VARIABLES
    status,     \* each token's row: absent, fresh, used, or gone (deleted)
    owner,      \* the user_id of each token's row
    expired,    \* tokens older than TOKEN_EXPIRATION_MINUTES
    mail,       \* the task that mails each token: none, queued, sent or lost
    account,    \* users that exist
    writes,     \* history: how many passwords were committed under each token
    req,        \* what each request in flight holds in its local variables
    stale,      \* history: confirmations whose token was not valid when they arrived
    failures    \* history: how many failures there were

vars == <<status, owner, expired, mail, account, writes, req, stale, failures>>

Final == {"done", "refused", "error"}

Label == {"idle", "find", "create", "queue", "check", "verify", "user", "write",
          "refresh", "select", "mark", "answer"} \cup Final

Request == [pc: Label, op: {"none", "request", "confirm"},
            user: User \cup {None}, token: Token \cup {None}]

Idle == [pc |-> "idle", op |-> "none", user |-> None, token |-> None]

Goto(r, label) == req' = [req EXCEPT ![r].pc = label]

InTable(t) == status[t] \in {"fresh", "used"}

Valid(t) == status[t] = "fresh" /\ t \notin expired

-----------------------------------------------------------------------------
(* POST /password-reset/request                                            *)

BeginRequest(r, u) ==
    /\ req[r].pc = "idle"
    /\ req' = [req EXCEPT ![r] = [Idle EXCEPT !.pc = "find", !.op = "request", !.user = u]]
    /\ UNCHANGED <<status, owner, expired, mail, account, writes, stale, failures>>

(* Over the rate limit the answer is 429; without a user it is the same    *)
(* 200 as with one.                                                        *)
FindUser(r) ==
    /\ req[r].pc = "find"
    /\ \/ Goto(r, "refused")
       \/ Goto(r, IF req[r].user \in account THEN "create" ELSE "done")
    /\ UNCHANGED <<status, owner, expired, mail, account, writes, stale, failures>>

(* The user found before is taken to be there still. *)
BugCreateToken(r) ==
    /\ req[r].pc = "create"
    /\ \E t \in Token :
        /\ status[t] = "absent"
        /\ status' = [status EXCEPT ![t] = "fresh"]
        /\ owner' = [owner EXCEPT ![t] = req[r].user]
        /\ req' = [req EXCEPT ![r].pc = "queue", ![r].token = t]
    /\ UNCHANGED <<expired, mail, account, writes, stale, failures>>

(* create_token: earlier tokens of the user stay as they are.  The INSERT  *)
(* fails on its foreign key when the user is gone; the handler logs that   *)
(* and answers 200, unless reading the user after the roll-back fails in   *)
(* turn (see Abort).                                                       *)
CreateToken(r) ==
    /\ req[r].pc = "create"
    /\ IF req[r].user \in account
       THEN \E t \in Token :
              /\ status[t] = "absent"
              /\ status' = [status EXCEPT ![t] = "fresh"]
              /\ owner' = [owner EXCEPT ![t] = req[r].user]
              /\ req' = [req EXCEPT ![r].pc = "queue", ![r].token = t]
       ELSE Goto(r, "done") /\ UNCHANGED <<status, owner>>
    /\ UNCHANGED <<expired, mail, account, writes, stale, failures>>

(* The audit record is committed and the mail is left to a task; when the  *)
(* audit record cannot be written the task is never created.               *)
QueueMail(r) ==
    /\ req[r].pc = "queue"
    /\ IF req[r].user \in account
       THEN mail' = [mail EXCEPT ![req[r].token] = "queued"]
       ELSE UNCHANGED mail
    /\ Goto(r, "done")
    /\ UNCHANGED <<status, owner, expired, account, writes, stale, failures>>

(* The task runs on after the response: the mail arrives, or it is lost to *)
(* SMTP errors or with the worker.                                         *)
SendMail(t) ==
    /\ mail[t] = "queued"
    /\ \E outcome \in {"sent", "lost"} : mail' = [mail EXCEPT ![t] = outcome]
    /\ UNCHANGED <<status, owner, expired, account, writes, req, stale, failures>>

-----------------------------------------------------------------------------
(* POST /password-reset/confirm                                            *)

(* The user presents a token from a mail with an acceptable new password.  *)
BeginConfirm(r, t) ==
    /\ req[r].pc = "idle"
    /\ mail[t] = "sent"
    /\ req' = [req EXCEPT ![r] = [Idle EXCEPT !.pc = "check", !.op = "confirm", !.token = t]]
    /\ stale' = IF Valid(t) THEN stale \ {r} ELSE stale \cup {r}
    /\ UNCHANGED <<status, owner, expired, mail, account, writes, failures>>

CheckLockout(r) ==
    /\ req[r].pc = "check"
    /\ \E label \in {"verify", "refused"} : Goto(r, label)
    /\ UNCHANGED <<status, owner, expired, mail, account, writes, stale, failures>>

(* is_used is not looked at. *)
BugVerifyToken(r) ==
    /\ req[r].pc = "verify"
    /\ LET t == req[r].token IN
        IF InTable(t) /\ t \notin expired
        THEN req' = [req EXCEPT ![r].pc = "user", ![r].user = owner[t]]
        ELSE Goto(r, "refused")
    /\ UNCHANGED <<status, owner, expired, mail, account, writes, stale, failures>>

(* verify_token: there is a row, it has not expired and it is not used.    *)
VerifyToken(r) ==
    /\ req[r].pc = "verify"
    /\ LET t == req[r].token IN
        IF Valid(t)
        THEN req' = [req EXCEPT ![r].pc = "user", ![r].user = owner[t]]
        ELSE Goto(r, "refused")
    /\ UNCHANGED <<status, owner, expired, mail, account, writes, stale, failures>>

(* The token is marked before the password is written. *)
BugGetUser(r) ==
    /\ req[r].pc = "user"
    /\ Goto(r, IF req[r].user \in account THEN "select" ELSE "refused")
    /\ UNCHANGED <<status, owner, expired, mail, account, writes, stale, failures>>

GetUser(r) ==
    /\ req[r].pc = "user"
    /\ Goto(r, IF req[r].user \in account THEN "write" ELSE "refused")
    /\ UNCHANGED <<status, owner, expired, mail, account, writes, stale, failures>>

(* The UPDATE of the password is committed; it fails when the user was     *)
(* deleted since.                                                          *)
WritePassword(r) ==
    /\ req[r].pc = "write"
    /\ IF req[r].user \in account
       THEN /\ writes' = [writes EXCEPT ![req[r].token] = @ + 1]
            /\ Goto(r, "refresh")
       ELSE Goto(r, "error") /\ UNCHANGED writes
    /\ UNCHANGED <<status, owner, expired, mail, account, stale, failures>>

(* The handler answers without marking the token. *)
BugRefreshUser(r) ==
    /\ req[r].pc = "refresh"
    /\ Goto(r, IF req[r].user \in account THEN "answer" ELSE "error")
    /\ UNCHANGED <<status, owner, expired, mail, account, writes, stale, failures>>

(* db.refresh reads the user again and fails without one.                  *)
RefreshUser(r) ==
    /\ req[r].pc = "refresh"
    /\ Goto(r, IF req[r].user \in account THEN "select" ELSE "error")
    /\ UNCHANGED <<status, owner, expired, mail, account, writes, stale, failures>>

(* mark_token_used reads the row; without one it returns False, which the  *)
(* handler ignores.                                                        *)
SelectToken(r) ==
    /\ req[r].pc = "select"
    /\ Goto(r, IF InTable(req[r].token) THEN "mark" ELSE "answer")
    /\ UNCHANGED <<status, owner, expired, mail, account, writes, stale, failures>>

(* used_at is written whatever it was; the UPDATE fails without a row.     *)
MarkUsed(r) ==
    /\ req[r].pc = "mark"
    /\ IF InTable(req[r].token)
       THEN status' = [status EXCEPT ![req[r].token] = "used"] /\ Goto(r, "answer")
       ELSE Goto(r, "error") /\ UNCHANGED status
    /\ UNCHANGED <<owner, expired, mail, account, writes, stale, failures>>

(* The failed attempts are reset and the audit record is committed, whose  *)
(* foreign key needs the user.                                             *)
Answer(r) ==
    /\ req[r].pc = "answer"
    /\ Goto(r, IF req[r].user \in account THEN "done" ELSE "error")
    /\ UNCHANGED <<status, owner, expired, mail, account, writes, stale, failures>>

-----------------------------------------------------------------------------
(* What can happen to every request                                        *)

(* A statement fails, the worker dies or the client disconnects: what is   *)
(* not committed is rolled back.  A request for a token may answer 200 or  *)
(* 500 when creating or recording the token fails.                         *)
Abort(r) ==
    /\ req[r].pc \notin Final \cup {"idle"}
    /\ failures < MaxFailures
    /\ failures' = failures + 1
    /\ \/ Goto(r, "error")
       \/ req[r].pc \in {"create", "queue"} /\ Goto(r, "done")
    /\ UNCHANGED <<status, owner, expired, mail, account, writes, stale>>

Finish(r) ==
    /\ req[r].pc \in Final
    /\ req' = [req EXCEPT ![r] = Idle]
    /\ stale' = stale \ {r}
    /\ UNCHANGED <<status, owner, expired, mail, account, writes, failures>>

-----------------------------------------------------------------------------
(* Time, maintenance and account administration                            *)

Expire(t) ==
    /\ status[t] # "absent"
    /\ t \notin expired
    /\ expired' = expired \cup {t}
    /\ UNCHANGED <<status, owner, mail, account, writes, req, stale, failures>>

DeleteRows(T) ==
    status' = [t \in Token |-> IF t \in T THEN "gone" ELSE status[t]]

(* cleanup_expired_tokens, used tokens included.                           *)
Cleanup ==
    LET T == {t \in expired : InTable(t)} IN
    /\ T # {}
    /\ DeleteRows(T)
    /\ UNCHANGED <<owner, expired, mail, account, writes, req, stale, failures>>

(* delete_user: the foreign key removes the user's tokens with the user.   *)
DeleteUser(u) ==
    /\ u \in account
    /\ account' = account \ {u}
    /\ DeleteRows({t \in Token : InTable(t) /\ owner[t] = u})
    /\ UNCHANGED <<owner, expired, mail, writes, req, stale, failures>>

-----------------------------------------------------------------------------
Init ==
    /\ status = [t \in Token |-> "absent"]
    /\ owner = [t \in Token |-> None]
    /\ expired = {}
    /\ mail = [t \in Token |-> "none"]
    /\ account = User
    /\ writes = [t \in Token |-> 0]
    /\ req = [r \in Req |-> Idle]
    /\ stale = {}
    /\ failures = 0

Arrive(r) ==
    \/ \E u \in User : BeginRequest(r, u)
    \/ \E t \in Token : BeginConfirm(r, t)

Advance(r) ==
    \/ FindUser(r)
    \/ CreateToken(r)
    \/ QueueMail(r)
    \/ CheckLockout(r)
    \/ VerifyToken(r)
    \/ GetUser(r)
    \/ WritePassword(r)
    \/ RefreshUser(r)
    \/ SelectToken(r)
    \/ MarkUsed(r)
    \/ Answer(r)
    \/ Finish(r)

Next ==
    \/ \E r \in Req : Arrive(r) \/ Advance(r) \/ Abort(r)
    \/ \E t \in Token : SendMail(t) \/ Expire(t)
    \/ Cleanup
    \/ \E u \in User : DeleteUser(u)

Spec == Init /\ [][Next]_vars

-----------------------------------------------------------------------------
(* Properties                                                              *)

(* Every variable has its type, and every row has a user (its foreign key). *)
TypeOK ==
    /\ status \in [Token -> {"absent", "fresh", "used", "gone"}]
    /\ owner \in [Token -> User \cup {None}]
    /\ expired \subseteq Token
    /\ mail \in [Token -> {"none", "queued", "sent", "lost"}]
    /\ account \subseteq User
    /\ writes \in [Token -> Nat]
    /\ req \in [Req -> Request]
    /\ stale \subseteq Req
    /\ failures \in Nat
    /\ \A t \in Token : InTable(t) => owner[t] \in account

(* A confirmation whose token was already used, expired or deleted when it *)
(* arrived never gets to the password, whatever runs beside it.            *)
StaleTokenNeverWrites ==
    \A r \in stale : req[r].pc \in {"check", "verify", "refused", "error"}

(* No token is used up without a new password: whoever finds a token used  *)
(* finds a password committed under it, at every point of failure between  *)
(* the two transactions.                                                   *)
UsedMeansWritten ==
    \A t \in Token : status[t] = "used" => writes[t] > 0

(* A confirmation that answered 200 has committed a password, and its      *)
(* token cannot be used again: it is marked or its row is gone.            *)
AnsweredMeansSpent ==
    \A r \in Req : req[r].pc = "done" /\ req[r].op = "confirm" =>
        /\ writes[req[r].token] > 0
        /\ status[req[r].token] \in {"used", "gone"}

(* How often a token can serve: once for each request that can be in       *)
(* flight beside the first, and once more for each failure; with requests  *)
(* served one at a time and no failure, once.                              *)
WritesBounded ==
    \A t \in Token : writes[t] <= Cardinality(Req) + failures

-----------------------------------------------------------------------------
(* The inductive invariant behind the properties above                     *)

(* Which endpoint a request is at, and that it holds a token that exists   *)
(* or existed from the moment it needs one.                                *)
Holds(r) ==
    /\ req[r].pc \in {"find", "create", "queue"} => req[r].op = "request"
    /\ req[r].pc \in {"check", "verify", "user", "write", "refresh", "select", "mark", "answer"}
        => req[r].op = "confirm"
    /\ req[r].pc = "queue" \/ req[r].op = "confirm"
        => req[r].token \in Token /\ status[req[r].token] # "absent"

(* Past the commit of the password it is there, and past mark_token_used   *)
(* the token is spent.                                                     *)
Progress(r) ==
    /\ req[r].pc \in {"refresh", "select", "mark", "answer"} => writes[req[r].token] > 0
    /\ req[r].pc = "answer" => status[req[r].token] \in {"used", "gone"}

(* A token that was not valid on arrival is not valid when it is verified. *)
StaysInvalid ==
    \A r \in stale : req[r].pc \in {"check", "verify"} => ~Valid(req[r].token)

MailedTokens ==
    \A t \in Token : mail[t] # "none" => status[t] # "absent"

IInv ==
    /\ TypeOK
    /\ MailedTokens
    /\ \A r \in Req : Holds(r) /\ Progress(r)
    /\ StaysInvalid
    /\ StaleTokenNeverWrites
    /\ UsedMeansWritten
    /\ AnsweredMeansSpent

-----------------------------------------------------------------------------
(* What the documentation says and the code does not do                    *)

(* A token serves for one password only.                                   *)
ResetIsOneTime ==
    \A t \in Token : writes[t] <= 1
=============================================================================
