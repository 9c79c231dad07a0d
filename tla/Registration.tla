--------------------------- MODULE Registration ---------------------------
(***************************************************************************)
(* POST /register and GET /confirm-email: the users table with its unique  *)
(* e-mail addresses and names, the confirmation tokens, the user.created   *)
(* events and the mail tasks that carry the tokens.  The mail tasks are    *)
(* those of MailTask, which MailDelivery implements.  Every statement or   *)
(* commit is a step, with the steps of other requests, of the mail tasks   *)
(* and of the maintenance between them.                                    *)
(*                                                                         *)
(* A definition whose name starts with Bug is a faulty variant of the one  *)
(* that follows it, no part of the specification.                          *)
(***************************************************************************)
CONSTANTS
    Req,                  \* request slots
    Account,              \* user ids; uuid4 in the code, a bound here
    Email, Name,          \* what clients ask for
    None,                 \* the absence of a value
    RequireConfirmation   \* settings.require_email_confirmation

ASSUME RegistrationAssumption ==
    /\ None \notin Account \cup Email \cup Name
    /\ RequireConfirmation \in BOOLEAN

VARIABLES
    user,       \* the users table; "deleted": the row was removed
    token,      \* the accounts with a confirmation token that has not expired
    announced,  \* accounts in the stream user_events
    fate,       \* of MailTask: the mail with the token, by account
    taken,      \* of MailTask
    req,        \* what each request in flight holds in its local variables
    harmed      \* history: accounts whose registration met a failure

tables == <<user, token>>
vars == <<user, token, announced, fate, taken, req, harmed>>

Post == INSTANCE MailTask WITH Mail <- Account

Final == {"created", "conflict", "confirmed", "invalid", "error"}

Label == {"idle", "email", "name", "insert", "log", "publish", "token",
          "lookup", "confirm"} \cup Final

Request == [pc: Label, op: {"none", "register", "confirm"}, email: Email \cup {None},
            name: Name \cup {None}, user: Account \cup {None}]

Idle == [pc |-> "idle", op |-> "none", email |-> None, name |-> None, user |-> None]

NoUser == [status |-> "absent", email |-> None, name |-> None, confirmed |-> FALSE]

Present(a) == user[a].status = "present"

EmailTaken(e) == \E a \in Account : Present(a) /\ user[a].email = e
NameTaken(n) == \E a \in Account : Present(a) /\ user[a].name = n

Goto(r, label) == req' = [req EXCEPT ![r].pc = label]

(* The request is decided: it needs what it asked for no more.             *)
Decide(r, label) == req' = [req EXCEPT ![r] = [@ EXCEPT !.pc = label, !.email = None, !.name = None]]

Mine(r) == req[r].user

-----------------------------------------------------------------------------
(* POST /register                                                          *)

BeginRegister(r, e, n) ==
    /\ req[r].pc = "idle"
    /\ req' = [req EXCEPT ![r] = [Idle EXCEPT !.pc = "email", !.op = "register",
                                              !.email = e, !.name = n]]
    /\ UNCHANGED <<tables, announced, fate, taken, harmed>>

CheckEmail(r) ==
    /\ req[r].pc = "email"
    /\ IF EmailTaken(req[r].email) THEN Decide(r, "conflict") ELSE Goto(r, "name")
    /\ UNCHANGED <<tables, announced, fate, taken, harmed>>

CheckName(r) ==
    /\ req[r].pc = "name"
    /\ IF NameTaken(req[r].name) THEN Decide(r, "conflict") ELSE Goto(r, "insert")
    /\ UNCHANGED <<tables, announced, fate, taken, harmed>>

AddUser(r, a, confirmed) ==
    /\ user' = [user EXCEPT ![a] = [status |-> "present", email |-> req[r].email,
                                    name |-> req[r].name, confirmed |-> confirmed]]
    /\ req' = [req EXCEPT ![r] = [Idle EXCEPT !.pc = "log", !.op = "register", !.user = a]]

(* The look-ups before the INSERT are taken for enough. *)
BugInsertUnchecked(r) ==
    /\ req[r].pc = "insert"
    /\ \E a \in Account : user[a] = NoUser /\ AddUser(r, a, ~RequireConfirmation)
    /\ UNCHANGED <<token, announced, fate, taken, harmed>>

(* The setting is read the wrong way round. *)
BugInsertConfirmed(r) ==
    /\ req[r].pc = "insert"
    /\ ~EmailTaken(req[r].email) /\ ~NameTaken(req[r].name)
    /\ \E a \in Account : user[a] = NoUser /\ AddUser(r, a, RequireConfirmation)
    /\ UNCHANGED <<token, announced, fate, taken, harmed>>

(* INSERT and COMMIT.  The unique constraints reject a row whose address   *)
(* or name was committed since the look-ups; the text of that error quotes *)
(* the INSERT with its columns, so it always reads as a taken address.     *)
InsertUser(r) ==
    /\ req[r].pc = "insert"
    /\ IF EmailTaken(req[r].email) \/ NameTaken(req[r].name)
       THEN Decide(r, "conflict") /\ UNCHANGED user
       ELSE \E a \in Account : user[a] = NoUser /\ AddUser(r, a, ~RequireConfirmation)
    /\ UNCHANGED <<token, announced, fate, taken, harmed>>

(* The event is published by the branch for accounts that need no mail. *)
BugLogEvent(r) ==
    /\ req[r].pc = "log"
    /\ Goto(r, IF ~Present(Mine(r)) THEN "error"
               ELSE IF req[r].op = "confirm" THEN "confirmed"
               ELSE IF RequireConfirmation THEN "token" ELSE "publish")
    /\ UNCHANGED <<tables, announced, fate, taken, harmed>>

(* audit_service.log, of both handlers, commits a row that refers to the   *)
(* user; without the user the foreign key fails and so does the handler,   *)
(* as does the refresh of the row that comes before it in a registration.  *)
LogEvent(r) ==
    /\ req[r].pc = "log"
    /\ Goto(r, IF ~Present(Mine(r)) THEN "error"
               ELSE IF req[r].op = "confirm" THEN "confirmed" ELSE "publish")
    /\ UNCHANGED <<tables, announced, fate, taken, harmed>>

(* XADD to user_events.  A failure, before or after the stream took the    *)
(* event, is logged and the handler goes on; only the first does harm.     *)
PublishCreated(r) ==
    /\ req[r].pc = "publish"
    /\ \/ announced' = announced \cup {Mine(r)} /\ UNCHANGED harmed
       \/ harmed' = harmed \cup {Mine(r)} /\ UNCHANGED announced
    /\ Goto(r, IF RequireConfirmation THEN "token" ELSE "created")
    /\ UNCHANGED <<tables, fate, taken>>

(* The token is written without its user being there. *)
BugSaveToken(r) ==
    /\ req[r].pc = "token"
    /\ token' = token \cup {Mine(r)}
    /\ Post!Queue(Mine(r))
    /\ Goto(r, "created")
    /\ UNCHANGED <<user, announced, harmed>>

(* save_confirmation_token, and the mail task that starts with no await in *)
(* between.  It returns False when the INSERT fails, and the answer is     *)
(* still 201, unless reading the user after the roll-back fails in turn    *)
(* (Abort): nobody will ever hold a token for the account.                 *)
SaveToken(r) ==
    /\ req[r].pc = "token"
    /\ \/ /\ Present(Mine(r))
          /\ token' = token \cup {Mine(r)}
          /\ Post!Queue(Mine(r))
          /\ UNCHANGED harmed
       \/ /\ harmed' = harmed \cup {Mine(r)}
          /\ UNCHANGED <<token, fate, taken>>
    /\ Goto(r, "created")
    /\ UNCHANGED <<user, announced>>

-----------------------------------------------------------------------------
(* GET /confirm-email                                                      *)

(* Whoever got the mail follows its link, as often as they like.           *)
VerifyToken(r, a) ==
    /\ req[r].pc = "idle"
    /\ a \in taken
    /\ req' = [req EXCEPT ![r] = [Idle EXCEPT !.op = "confirm", !.user = a,
                                    !.pc = IF a \in token THEN "lookup" ELSE "invalid"]]
    /\ UNCHANGED <<tables, announced, fate, taken, harmed>>

LookupUser(r) ==
    /\ req[r].pc = "lookup"
    /\ Goto(r, IF Present(Mine(r)) THEN "confirm" ELSE "invalid")
    /\ UNCHANGED <<tables, announced, fate, taken, harmed>>

(* The flag is set on the object and the answer is given before a commit   *)
(* that fails because the row is gone. *)
BugConfirmUser(r) ==
    /\ req[r].pc = "confirm"
    /\ Goto(r, "log")
    /\ UNCHANGED <<tables, announced, fate, taken, harmed>>

(* email_confirmed and COMMIT; it fails when the row was deleted since.    *)
ConfirmUser(r) ==
    /\ req[r].pc = "confirm"
    /\ IF Present(Mine(r))
       THEN user' = [user EXCEPT ![Mine(r)].confirmed = TRUE] /\ Goto(r, "log")
       ELSE Goto(r, "error") /\ UNCHANGED user
    /\ UNCHANGED <<token, announced, fate, taken, harmed>>

-----------------------------------------------------------------------------
(* What can happen to every request                                        *)

(* The worker dies or a statement fails: what is not committed is lost.    *)
Abort(r) ==
    /\ req[r].pc \notin Final \cup {"idle"}
    /\ Decide(r, "error")
    /\ harmed' = harmed \cup {a \in Account : req[r].op = "register" /\ a = Mine(r)}
    /\ UNCHANGED <<tables, announced, fate, taken>>

(* The answer is sent; a client that got a 500 may register again.         *)
Finish(r) ==
    /\ req[r].pc \in Final
    /\ req' = [req EXCEPT ![r] = Idle]
    /\ UNCHANGED <<tables, announced, fate, taken, harmed>>

-----------------------------------------------------------------------------
(* Mail tasks, time and account administration                             *)

MailStep(a) ==
    /\ Post!Take(a) \/ Post!Lose(a)
    /\ UNCHANGED <<tables, announced, req, harmed>>

ExpireToken(a) ==
    /\ a \in token
    /\ token' = token \ {a}
    /\ UNCHANGED <<user, announced, fate, taken, req, harmed>>

(* UserService.delete_user: the foreign key removes the token as well.     *)
DeleteUser(a) ==
    /\ Present(a)
    /\ user' = [user EXCEPT ![a] = [NoUser EXCEPT !.status = "deleted"]]
    /\ token' = token \ {a}
    /\ harmed' = harmed \ {a}
    /\ UNCHANGED <<announced, fate, taken, req>>

-----------------------------------------------------------------------------
Init ==
    /\ user = [a \in Account |-> NoUser]
    /\ token = {}
    /\ announced = {}
    /\ Post!Init
    /\ req = [r \in Req |-> Idle]
    /\ harmed = {}

Arrive(r) ==
    \/ \E e \in Email, n \in Name : BeginRegister(r, e, n)
    \/ \E a \in Account : VerifyToken(r, a)

Advance(r) ==
    \/ CheckEmail(r)
    \/ CheckName(r)
    \/ InsertUser(r)
    \/ LogEvent(r)
    \/ PublishCreated(r)
    \/ SaveToken(r)
    \/ LookupUser(r)
    \/ ConfirmUser(r)
    \/ Finish(r)

Next ==
    \/ \E r \in Req : Arrive(r) \/ Advance(r) \/ Abort(r)
    \/ \E a \in Account : MailStep(a) \/ ExpireToken(a) \/ DeleteUser(a)

Spec == Init /\ [][Next]_vars

-----------------------------------------------------------------------------
(* Properties                                                              *)

(* Every variable has its type, and a token in the table has its user.     *)
TypeOK ==
    /\ user \in [Account -> [status: {"absent", "present", "deleted"}, email: Email \cup {None},
                             name: Name \cup {None}, confirmed: BOOLEAN]]
    /\ token \subseteq Account
    /\ announced \subseteq Account
    /\ fate \in [Account -> {"unborn", "pending", "sent", "lost"}]
    /\ taken \subseteq Account
    /\ req \in [Req -> Request]
    /\ harmed \subseteq Account
    /\ \A a \in token : Present(a)

(* An account counts as confirmed only after the mail server took a mail   *)
(* with its token, whatever was lost, repeated, deleted or overtaken.      *)
ConfirmedMeansMailed ==
    RequireConfirmation => \A a \in Account : user[a].confirmed => a \in taken

(* Who is told that the address is confirmed can log in with it, unless    *)
(* the account was deleted.                                                *)
AnsweredMeansConfirmed ==
    \A r \in Req : req[r].pc = "confirmed" /\ Present(Mine(r)) => user[Mine(r)].confirmed

(* A registration that met no failure has left nothing out: the account    *)
(* is announced and, when it has to be confirmed, a mail with a saved      *)
(* token was started.                                                      *)
RegistrationComplete ==
    \A a \in Account :
        Present(a) /\ a \notin harmed /\ (\A r \in Req : req[r].op = "register" => Mine(r) # a)
        => /\ a \in announced
           /\ RequireConfirmation => fate[a] # "unborn"

(* Registration keeps the promise of the directory of accounts: a call is  *)
(* decided where its look-up finds a conflict or where its INSERT commits. *)
CallState(r) ==
    IF req[r].op # "register" THEN "none"
    ELSE IF Mine(r) # None THEN "added"
    ELSE IF req[r].pc = "error" THEN "failed"
    ELSE IF req[r].pc \in Final THEN "refused" ELSE "asked"

Directory == INSTANCE AccountDirectory WITH
    Caller <- Req,
    Nil <- None,
    entry <- [a \in Account |-> [status |-> user[a].status, email |-> user[a].email,
                                 name |-> user[a].name]],
    call <- [r \in Req |-> [state |-> CallState(r), email |-> req[r].email,
                            name |-> req[r].name]]

DirectorySpec == Directory!Spec
=============================================================================
