---------------------------- MODULE TokenGrants ----------------------------
(***************************************************************************)
(* What the two grants of the token endpoint check and sign, and what the  *)
(* protected endpoints accept.  The rows of clients and users are read one *)
(* after the other and can change in between; a signed token is accepted   *)
(* for as long as it lives, whatever has changed since.                    *)
(*                                                                         *)
(* The rows of refresh tokens are the subject of RefreshTokens: here they  *)
(* can only refuse a refresh.  Brute-force protection is the subject of    *)
(* LoginThrottle.                                                          *)
(*                                                                         *)
(* A definition whose name starts with Bug is a faulty variant of the one  *)
(* that follows it, no part of the specification.                          *)
(***************************************************************************)
EXTENDS FiniteSets, Naturals

CONSTANTS
    Req,                 \* request slots
    User, Client, Scope,
    None,                \* the absence of a value
    Confidential,        \* the clients with a secret
    RequireConfirmation, \* settings.require_email_confirmation
    MaxTokens            \* bound on the tokens that live at once

VARIABLES
    user,       \* what the row of each user says
    client,     \* what the row of each client says
    token,      \* the signed tokens that live
    req,        \* what each request in progress holds in its local variables
    seen        \* history: what was the case at some moment since a request arrived

vars == <<user, client, token, req, seen>>

Grant == {"password", "refresh_token"}

(* What a request asks for, and what a token says; root is history: the    *)
(* scope of the password grant at the start of the token's chain.          *)
Wish == [user: User, client: Client, scope: SUBSET Scope]
Payload == [user: User, client: Client, scope: SUBSET Scope, root: SUBSET Scope]

Token == [kind: {"access", "refresh"}, of: Payload]

Label == {"idle", "client", "user", "issued", "accepted", "refused"}

Request == [pc: Label, op: Grant \cup {"none", "use"}, asked: Wish \cup Payload \cup {None},
            allowed: SUBSET Scope]

Idle == [pc |-> "idle", op |-> "none", asked |-> None, allowed |-> {}]

NothingSeen == [active |-> FALSE, welcome |-> FALSE, scopes |-> {}]

GrantAllowed(c, grant) == grant \in client[c].grants

(* validate_client, to which the endpoint passes no secret                 *)
Usable(c) == client[c].active /\ c \notin Confidential

(* validate_scope: a request without a scope, here an empty one, gets all  *)
(* that the client may use; {None} stands for a refusal.                   *)
Granted(asked, allowed) ==
    IF asked = {} THEN allowed ELSE IF asked \subseteq allowed THEN asked ELSE {None}

IsAccess(t) == t.kind = "access"
IsRefresh(t) == t.kind = "refresh"

(* What authenticate asks of a user besides the password.                  *)
Welcome(row) == row.active /\ (RequireConfirmation => row.confirmed)

Goto(r, label) == req' = [req EXCEPT ![r].pc = label]

(* What the rows say, as far as a request is concerned.                    *)
Look(asked, users, clients) ==
    [active |-> users[asked.user].active, welcome |-> Welcome(users[asked.user]),
     scopes |-> IF clients[asked.client].active THEN {clients[asked.client].scopes} ELSE {}]

With(s, t) == [active |-> s.active \/ t.active, welcome |-> s.welcome \/ t.welcome,
               scopes |-> s.scopes \cup t.scopes]

Arrive(r, op, asked, label) ==
    /\ req[r] = Idle
    /\ req' = [req EXCEPT ![r] = [Idle EXCEPT !.pc = label, !.op = op, !.asked = asked]]
    /\ seen' = [seen EXCEPT ![r] = Look(asked, user, client)]
    /\ UNCHANGED <<user, client, token>>

-----------------------------------------------------------------------------
(* POST /oauth/token                                                       *)

PasswordGrant(r, wish) == Arrive(r, "password", wish, "client")

(* validate_refresh_token, and the client of the form is that of the token.*)
RefreshGrant(r, t, c) ==
    Arrive(r, "refresh_token", [t.of EXCEPT !.client = c],
           IF IsRefresh(t) /\ t.of.client = c THEN "client" ELSE "refused")

ValidateClient(r) ==
    LET c == req[r].asked.client IN
    /\ req[r].pc = "client"
    /\ req' = [req EXCEPT ![r].pc = IF Usable(c) /\ GrantAllowed(c, req[r].op) THEN "user" ELSE "refused",
                          ![r].allowed = client[c].scopes]
    /\ UNCHANGED <<user, client, token, seen>>

(* The two tokens of create_token_pair.                                    *)
Sign(payload) ==
    /\ token' = token \cup [kind: {"access", "refresh"}, of: {payload}]
    /\ Cardinality(token') <= MaxTokens

(* authenticate without a look at the account. *)
BugAuthenticate(r, right) ==
    LET asked == req[r].asked
        scope == Granted(asked.scope, req[r].allowed)
        payload == [user |-> asked.user, client |-> asked.client, scope |-> scope, root |-> scope] IN
    /\ req[r].pc = "user" /\ req[r].op = "password"
    /\ IF right /\ scope # {None}
       THEN /\ Sign(payload)
            /\ req' = [req EXCEPT ![r].pc = "issued", ![r].asked = payload]
       ELSE Goto(r, "refused") /\ UNCHANGED token
    /\ UNCHANGED <<user, client, seen>>

(* authenticate, validate_scope on the client that was read before, and    *)
(* create_token_pair.                                                      *)
Authenticate(r, right) ==
    LET asked == req[r].asked
        scope == Granted(asked.scope, req[r].allowed)
        payload == [user |-> asked.user, client |-> asked.client, scope |-> scope, root |-> scope] IN
    /\ req[r].pc = "user" /\ req[r].op = "password"
    /\ IF Welcome(user[asked.user]) /\ right /\ scope # {None}
       THEN /\ Sign(payload)
            /\ req' = [req EXCEPT ![r].pc = "issued", ![r].asked = payload]
       ELSE Goto(r, "refused") /\ UNCHANGED token
    /\ UNCHANGED <<user, client, seen>>

(* The new pair gets all scopes that the client may use now. *)
BugRotate(r, rowAllows) ==
    LET payload == [req[r].asked EXCEPT !.scope = req[r].allowed] IN
    /\ req[r].pc = "user" /\ req[r].op = "refresh_token"
    /\ IF user[req[r].asked.user].active /\ rowAllows
       THEN Sign(payload) /\ req' = [req EXCEPT ![r].pc = "issued", ![r].asked = payload]
       ELSE Goto(r, "refused") /\ UNCHANGED token
    /\ UNCHANGED <<user, client, seen>>

(* The user must be active; the scope is that of the old token, whatever   *)
(* was requested and whatever the client may use now.                      *)
Rotate(r, rowAllows) ==
    /\ req[r].pc = "user" /\ req[r].op = "refresh_token"
    /\ IF user[req[r].asked.user].active /\ rowAllows
       THEN Sign(req[r].asked) /\ Goto(r, "issued")
       ELSE Goto(r, "refused") /\ UNCHANGED token
    /\ UNCHANGED <<user, client, seen>>

-----------------------------------------------------------------------------
(* get_current_user: the signature, the life and the type of the token;    *)
(* no row is read.                                                         *)
UseToken(r, t) == Arrive(r, "use", t.of, IF IsAccess(t) THEN "accepted" ELSE "refused")

Finish(r) ==
    /\ req[r].pc \in {"issued", "accepted", "refused"}
    /\ req' = [req EXCEPT ![r] = Idle]
    /\ seen' = [seen EXCEPT ![r] = NothingSeen]
    /\ UNCHANGED <<user, client, token>>

-----------------------------------------------------------------------------
(* The rows change and time passes                                         *)

Witness == seen' = [r \in Req |-> IF req[r] = Idle THEN seen[r]
                                  ELSE With(seen[r], Look(req[r].asked, user', client'))]

(* update_user, confirm_email                                              *)
SetUser(u, active, confirmed) ==
    /\ user' = [user EXCEPT ![u] = [active |-> active, confirmed |-> user[u].confirmed \/ confirmed]]
    /\ UNCHANGED <<client, token, req>>
    /\ Witness

(* No endpoint changes a client: an operator does, in the database.  What  *)
(* the row of a confidential client says makes no difference.              *)
SetClient(c, active, scopes) ==
    /\ client' = [client EXCEPT ![c].active = active, ![c].scopes = scopes]
    /\ UNCHANGED <<user, token, req>>
    /\ Witness

Expire(t) ==
    /\ t \in token
    /\ token' = token \ {t}
    /\ UNCHANGED <<user, client, req, seen>>

-----------------------------------------------------------------------------
Init ==
    /\ user = [u \in User |-> [active |-> TRUE, confirmed |-> FALSE]]
    /\ client = [c \in Client |-> [active |-> TRUE, scopes |-> Scope, grants |-> Grant]]
    /\ token = {}
    /\ req = [r \in Req |-> Idle]
    /\ seen = [r \in Req |-> NothingSeen]

Begin(r) ==
    \/ \E wish \in Wish : PasswordGrant(r, wish)
    \/ \E t \in token : UseToken(r, t) \/ \E c \in Client : RefreshGrant(r, t, c)

Advance(r) ==
    \/ ValidateClient(r)
    \/ \E right \in BOOLEAN : Authenticate(r, right)
    \/ \E rowAllows \in BOOLEAN : Rotate(r, rowAllows)
    \/ Finish(r)

Administer ==
    \/ \E u \in User, active, confirmed \in BOOLEAN : SetUser(u, active, confirmed)
    \/ \E c \in Client \ Confidential, active \in BOOLEAN, scopes \in SUBSET Scope : SetClient(c, active, scopes)

Next == (\E r \in Req : Begin(r) \/ Advance(r)) \/ Administer \/ \E t \in token : Expire(t)

Spec == Init /\ [][Next]_vars

-----------------------------------------------------------------------------
(* Properties                                                              *)

(* Every variable has its type.                                            *)
TypeOK ==
    /\ user \in [User -> [active: BOOLEAN, confirmed: BOOLEAN]]
    /\ client \in [Client -> [active: BOOLEAN, scopes: SUBSET Scope, grants: SUBSET Grant]]
    /\ token \subseteq Token
    /\ req \in [Req -> Request]
    /\ seen \in [Req -> [active: BOOLEAN, welcome: BOOLEAN, scopes: SUBSET SUBSET Scope]]

(* Whatever a chain of refreshes has led to, and whatever the client was   *)
(* allowed meanwhile, a token says no more than the password grant at the  *)
(* start of its chain.                                                     *)
ScopeNeverGrows == \A t \in token : t.of.scope \subseteq t.of.root

(* Tokens are signed only for a user and a client that were entitled to    *)
(* them at a moment when the request was there, though not necessarily at  *)
(* the same one.                                                           *)
IssuedWereEntitled ==
    \A r \in Req : req[r].pc = "issued" =>
        /\ seen[r].active
        /\ seen[r].scopes # {}
        /\ req[r].op = "password" => /\ seen[r].welcome
                                     /\ \E s \in seen[r].scopes : req[r].asked.scope \subseteq s
=============================================================================
