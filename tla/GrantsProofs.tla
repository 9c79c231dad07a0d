--------------------------- MODULE GrantsProofs ---------------------------
(***************************************************************************)
(* Proofs about TokenGrants, for any numbers of requests, users, clients,  *)
(* scopes and tokens, in the instance that MCUserDeletion checks: the      *)
(* scope of a token is never more than what its chain started with, and a  *)
(* pair is signed only for a user and a client that were entitled to it.   *)
(* With the proofs about UserDeletion they give the types of all three.    *)
(***************************************************************************)
EXTENDS MCUserDeletion, UserDeletionProofs

Asks(r) == asking[r].asked

(* What was the case when the request last looked is in its history.       *)
Current(r) ==
    /\ account[Asks(r).user].active => seen[r].active
    /\ Grants!Welcome(account[Asks(r).user]) => seen[r].welcome
    /\ client[Asks(r).client].active => client[Asks(r).client].scopes \in seen[r].scopes

Entitled(r) ==
    /\ seen[r].active
    /\ seen[r].scopes # {}
    /\ asking[r].op = "password" =>
        /\ seen[r].welcome
        /\ \E s \in seen[r].scopes : Asks(r).scope \subseteq s

(* What a request holds at each label.                                     *)
GrantView(r) ==
    LET s == asking[r] IN
    /\ s.pc = "idle" => s = Grants!Idle
    /\ s.pc # "idle" => s.asked \in Grants!Wish \cup Grants!Payload /\ Current(r)
    /\ s.pc \in {"client", "user"} =>
        /\ s.op \in Grants!Grant
        /\ s.op = "password" => s.asked \in Grants!Wish
        /\ s.op = "refresh_token" =>
              s.asked \in Grants!Payload /\ s.asked.scope \subseteq s.asked.root
    /\ s.pc = "user" => s.allowed \in seen[r].scopes
    /\ s.pc = "issued" => Entitled(r)

GrantsInv ==
    /\ Grants!TypeOK
    /\ ScopeNeverGrows
    /\ \A r \in GrantReq : GrantView(r)

LEMMA GrantsTypes ==
  ASSUME GrantsInv, NEW r \in GrantReq
  PROVE  /\ account \in [User -> [active: BOOLEAN, confirmed: BOOLEAN]]
         /\ client \in [Client -> [active: BOOLEAN, scopes: SUBSET Scope,
                                   grants: SUBSET Grants!Grant]]
         /\ token \subseteq Grants!Token
         /\ asking \in [GrantReq -> Grants!Request] /\ asking[r] \in Grants!Request
         /\ seen \in [GrantReq -> [active: BOOLEAN, welcome: BOOLEAN,
                                   scopes: SUBSET SUBSET Scope]]
         /\ seen[r] \in [active: BOOLEAN, welcome: BOOLEAN, scopes: SUBSET SUBSET Scope]
         /\ GrantView(r)
BY DEF GrantsInv, Grants!TypeOK

(* Of a wish as of a payload.                                              *)
LEMMA AskedTypes ==
  ASSUME NEW q \in Grants!Wish \cup Grants!Payload
  PROVE  q.user \in User /\ q.client \in Client /\ q.scope \in SUBSET Scope
BY DEF Grants!Wish, Grants!Payload

LEMMA IdleRequest ==
  Grants!Idle \in Grants!Request /\ Grants!Idle.pc = "idle"
BY DEF Grants!Idle, Grants!Request, Grants!Label

LEMMA WelcomeType ==
  ASSUME NEW u \in [active: BOOLEAN, confirmed: BOOLEAN]
  PROVE  Grants!Welcome(u) \in BOOLEAN
BY DEF Grants!Welcome

Users == [User -> [active: BOOLEAN, confirmed: BOOLEAN]]
Clients == [Client -> [active: BOOLEAN, scopes: SUBSET Scope, grants: SUBSET Grants!Grant]]
Sight == [active: BOOLEAN, welcome: BOOLEAN, scopes: SUBSET SUBSET Scope]

(* What the rows say, or will say, of a wish.                              *)
LEMMA LookType ==
  ASSUME NEW us \in Users, NEW cs \in Clients, NEW q \in Grants!Wish \cup Grants!Payload
  PROVE  LET l == Grants!Look(q, us, cs) IN
         /\ l \in Sight
         /\ us[q.user].active => l.active
         /\ Grants!Welcome(us[q.user]) => l.welcome
         /\ cs[q.client].active => cs[q.client].scopes \in l.scopes
<1>1. q.user \in User /\ q.client \in Client
  BY AskedTypes
<1>2. us[q.user] \in [active: BOOLEAN, confirmed: BOOLEAN]
  BY <1>1 DEF Users
<1>3. cs[q.client] \in [active: BOOLEAN, scopes: SUBSET Scope, grants: SUBSET Grants!Grant]
  BY <1>1 DEF Clients
<1> DEFINE w == Grants!Welcome(us[q.user])
           a == us[q.user].active
           sc == IF cs[q.client].active THEN {cs[q.client].scopes} ELSE {}
<1>4. w \in BOOLEAN /\ a \in BOOLEAN
  BY <1>2, WelcomeType
<1>5. sc \in SUBSET SUBSET Scope /\ (cs[q.client].active => cs[q.client].scopes \in sc)
  BY <1>3
<1>6. Grants!Look(q, us, cs) = [active |-> a, welcome |-> w, scopes |-> sc]
  BY DEF Grants!Look
<1> HIDE DEF w, a, sc
<1>7. LET l == Grants!Look(q, us, cs) IN
         /\ l \in Sight
         /\ l.active = a /\ l.welcome = w /\ l.scopes = sc
  BY <1>4, <1>5, <1>6 DEF Sight
<1> QED
  BY <1>5, <1>7 DEF a, w

(* One request moves and the rows stay as they are.                        *)
LEMMA OneMoves ==
  ASSUME GrantsInv, NEW r \in GrantReq, NEW q \in Grants!Request, NEW l \in Sight,
         asking' = [asking EXCEPT ![r] = q], seen' = [seen EXCEPT ![r] = l],
         UNCHANGED <<account, client>>, token' \subseteq Grants!Token, ScopeNeverGrows',
         GrantView(r)'
  PROVE  GrantsInv'
<1>1. Grants!TypeOK'
  BY DEF GrantsInv, Grants!TypeOK, Sight
<1>2. ASSUME NEW v \in GrantReq, v # r
      PROVE  GrantView(v)'
  <2>1. asking'[v] = asking[v] /\ seen'[v] = seen[v] /\ GrantView(v)
    BY <1>2 DEF GrantsInv, Grants!TypeOK
  <2> QED
    BY <2>1 DEF GrantView, Current, Entitled, Asks
<1> QED
  BY <1>1, <1>2 DEF GrantsInv

(* ... and nothing new was seen.                                           *)
LEMMA OneMovesOn ==
  ASSUME GrantsInv, NEW r \in GrantReq, NEW q \in Grants!Request,
         asking' = [asking EXCEPT ![r] = q], UNCHANGED <<account, client, seen>>,
         token' \subseteq Grants!Token, ScopeNeverGrows', GrantView(r)'
  PROVE  GrantsInv'
<1>1. seen[r] \in Sight /\ seen' = [seen EXCEPT ![r] = seen[r]]
  BY GrantsTypes DEF Sight
<1> QED
  BY <1>1, OneMoves

-----------------------------------------------------------------------------
LEMMA ArriveInv ==
  ASSUME GrantsInv, NEW r \in GrantReq, NEW op \in Grants!Grant \cup {"use"},
         NEW a \in Grants!Wish \cup Grants!Payload,
         NEW label \in {"client", "accepted", "refused"},
         Grants!Arrive(r, op, a, label),
         label = "client" =>
            \/ op = "password" /\ a \in Grants!Wish
            \/ op = "refresh_token" /\ a \in Grants!Payload /\ a.scope \subseteq a.root
  PROVE  GrantsInv'
<1> DEFINE q == [Grants!Idle EXCEPT !.pc = label, !.op = op, !.asked = a]
           l == Grants!Look(a, account, client)
<1>1. /\ asking' = [asking EXCEPT ![r] = q] /\ seen' = [seen EXCEPT ![r] = l]
      /\ UNCHANGED <<account, client, token>>
  BY DEF Grants!Arrive
<1>2. q \in Grants!Request /\ q.pc = label /\ q.op = op /\ q.asked = a
  BY DEF Grants!Idle, Grants!Request, Grants!Label
<1>3. /\ l \in Sight
      /\ account[a.user].active => l.active
      /\ Grants!Welcome(account[a.user]) => l.welcome
      /\ client[a.client].active => client[a.client].scopes \in l.scopes
  BY GrantsTypes, LookType DEF Users, Clients
<1> HIDE DEF q, l
<1>4. asking'[r] = q /\ seen'[r] = l
  BY <1>1, GrantsTypes
<1>5. Current(r)'
  BY <1>1, <1>2, <1>3, <1>4 DEF Current, Asks, Grants!Welcome
<1>6. GrantView(r)'
  BY <1>2, <1>4, <1>5 DEF GrantView, Grants!Grant
<1>7. token' \subseteq Grants!Token /\ ScopeNeverGrows'
  BY <1>1, GrantsTypes DEF GrantsInv, ScopeNeverGrows, Grants!ScopeNeverGrows
<1> QED
  BY <1>1, <1>2, <1>3, <1>6, <1>7, OneMoves

LEMMA PasswordInv ==
  ASSUME GrantsInv, NEW r \in GrantReq, NEW wish \in Grants!Wish, Grants!PasswordGrant(r, wish)
  PROVE  GrantsInv'
BY ArriveInv DEF Grants!PasswordGrant, Grants!Grant

LEMMA TokenIs ==
  ASSUME GrantsInv, NEW t \in token
  PROVE  t.of \in Grants!Payload /\ t.of.scope \subseteq t.of.root
BY DEF GrantsInv, Grants!TypeOK, Grants!Token, ScopeNeverGrows, Grants!ScopeNeverGrows

LEMMA RefreshInv ==
  ASSUME GrantsInv, NEW r \in GrantReq, NEW t \in token, NEW c \in Client,
         Grants!RefreshGrant(r, t, c)
  PROVE  GrantsInv'
<1> DEFINE a == [t.of EXCEPT !.client = c]
           label == IF Grants!IsRefresh(t) /\ t.of.client = c THEN "client" ELSE "refused"
<1>1. Grants!Arrive(r, "refresh_token", a, label)
  BY DEF Grants!RefreshGrant
<1>2. a \in Grants!Payload /\ a.scope \subseteq a.root
  BY TokenIs DEF Grants!Payload
<1>3. label \in {"client", "accepted", "refused"} /\ "refresh_token" \in Grants!Grant
  BY DEF Grants!Grant
<1> HIDE DEF a, label
<1> QED
  BY <1>1, <1>2, <1>3, ArriveInv

LEMMA UseInv ==
  ASSUME GrantsInv, NEW r \in GrantReq, NEW t \in token, Grants!UseToken(r, t)
  PROVE  GrantsInv'
<1> DEFINE label == IF Grants!IsAccess(t) THEN "accepted" ELSE "refused"
<1>1. Grants!Arrive(r, "use", t.of, label) /\ t.of \in Grants!Payload
  BY TokenIs DEF Grants!UseToken
<1>2. label \in {"client", "accepted", "refused"} /\ label # "client"
  OBVIOUS
<1> HIDE DEF label
<1> QED
  BY <1>1, <1>2, ArriveInv

LEMMA ValidateInv ==
  ASSUME GrantsInv, NEW r \in GrantReq, Grants!ValidateClient(r)
  PROVE  GrantsInv'
<1> DEFINE c == asking[r].asked.client
           label == IF Grants!Usable(c) /\ Grants!GrantAllowed(c, asking[r].op)
                    THEN "user" ELSE "refused"
           q == [asking[r] EXCEPT !.pc = label, !.allowed = client[c].scopes]
<1>1. /\ asking[r].pc = "client" /\ asking' = [asking EXCEPT ![r] = q]
      /\ UNCHANGED <<account, client, token, seen>>
  BY GrantsTypes DEF Grants!ValidateClient
<1>2. asking[r].asked \in Grants!Wish \cup Grants!Payload /\ Current(r) /\ c \in Client
  BY <1>1, GrantsTypes, AskedTypes DEF GrantView
<1>3. label \in {"user", "refused"} /\ (label = "user" => client[c].active)
  BY DEF Grants!Usable
<1>4. client[c].scopes \in SUBSET Scope
  BY <1>2, GrantsTypes
<1>5. /\ q \in Grants!Request /\ q.pc = label /\ q.op = asking[r].op
      /\ q.asked = asking[r].asked /\ q.allowed = client[c].scopes
  <2>1. label \in Grants!Label
    BY <1>3 DEF Grants!Label
  <2>2. asking[r] \in Grants!Request
    BY GrantsTypes
  <2> HIDE DEF label
  <2> QED
    BY <1>4, <2>1, <2>2 DEF Grants!Request
<1> HIDE DEF q, label
<1>6. asking'[r] = q
  BY <1>1, GrantsTypes
<1>7. Current(r)'
  BY <1>1, <1>2, <1>5, <1>6 DEF Current, Asks, Grants!Welcome
<1>8. label = "user" => client[c].scopes \in seen[r].scopes
  BY <1>2, <1>3 DEF Current, Asks
<1>9. GrantView(r)'
  BY <1>1, <1>2, <1>3, <1>5, <1>6, <1>7, <1>8, GrantsTypes DEF GrantView
<1>10. token' \subseteq Grants!Token /\ ScopeNeverGrows'
  BY <1>1, GrantsTypes DEF GrantsInv, ScopeNeverGrows, Grants!ScopeNeverGrows
<1> QED
  BY <1>1, <1>5, <1>9, <1>10, OneMovesOn

(* A pair is signed.                                                       *)
LEMMA SignInv ==
  ASSUME GrantsInv, NEW a \in Grants!Payload, a.scope \subseteq a.root, Grants!Sign(a)
  PROVE  token' \subseteq Grants!Token /\ ScopeNeverGrows'
<1>1. token' = token \cup [kind: {"access", "refresh"}, of: {a}]
  BY DEF Grants!Sign
<1>2. \A t \in [kind: {"access", "refresh"}, of: {a}] :
        t \in Grants!Token /\ t.of.scope \subseteq t.of.root
  BY DEF Grants!Token
<1> QED
  BY <1>1, <1>2 DEF GrantsInv, Grants!TypeOK, ScopeNeverGrows, Grants!ScopeNeverGrows

(* A request is refused.                                                   *)
LEMMA RefusedInv ==
  ASSUME GrantsInv, NEW r \in GrantReq, asking[r].pc = "user", Grants!Goto(r, "refused"),
         UNCHANGED <<account, client, token, seen>>
  PROVE  GrantsInv'
<1> DEFINE q == [asking[r] EXCEPT !.pc = "refused"]
<1>1. asking' = [asking EXCEPT ![r] = q]
  BY DEF Grants!Goto
<1>2. q \in Grants!Request /\ q.pc = "refused" /\ q.asked = asking[r].asked
  BY GrantsTypes DEF Grants!Request, Grants!Label
<1> HIDE DEF q
<1>3. asking'[r] = q
  BY <1>1, GrantsTypes
<1>4. GrantView(r)'
  BY <1>2, <1>3, GrantsTypes DEF GrantView, Current, Asks, Grants!Welcome
<1>5. token' \subseteq Grants!Token /\ ScopeNeverGrows'
  BY GrantsTypes DEF GrantsInv, ScopeNeverGrows, Grants!ScopeNeverGrows
<1> QED
  BY <1>1, <1>2, <1>4, <1>5, OneMovesOn

LEMMA AuthenticateInv ==
  ASSUME GrantsInv, NEW r \in GrantReq, NEW right \in BOOLEAN, Grants!Authenticate(r, right)
  PROVE  GrantsInv'
<1> DEFINE asked == asking[r].asked
           scope == Grants!Granted(asked.scope, asking[r].allowed)
           p == [user |-> asked.user, client |-> asked.client, scope |-> scope, root |-> scope]
           q == [asking[r] EXCEPT !.pc = "issued", !.asked = p]
           ok == Grants!Welcome(account[asked.user]) /\ right /\ scope # {None}
<1>1. /\ asking[r].pc = "user" /\ asking[r].op = "password"
      /\ UNCHANGED <<account, client, seen>>
  BY DEF Grants!Authenticate
<1>2. /\ asked \in Grants!Wish /\ Current(r) /\ asking[r].allowed \in seen[r].scopes
      /\ asked.user \in User /\ asked.client \in Client /\ asked.scope \in SUBSET Scope
      /\ asking[r].allowed \in SUBSET Scope
  BY <1>1, GrantsTypes, AskedTypes DEF GrantView, Grants!Request
<1>3. CASE ~ok
  <2>1. Grants!Goto(r, "refused") /\ UNCHANGED token
    BY <1>3 DEF Grants!Authenticate
  <2> QED
    BY <1>1, <2>1, RefusedInv
<1>4. CASE ok
  <2>1. scope \subseteq asking[r].allowed /\ scope \in SUBSET Scope
    BY <1>2, <1>4 DEF Grants!Granted
  <2>2. /\ Grants!Sign(p) /\ asking' = [asking EXCEPT ![r] = q]
    BY <1>4, GrantsTypes DEF Grants!Authenticate
  <2>3. seen[r].active /\ seen[r].welcome
    BY <1>2, <1>4 DEF Current, Asks, Grants!Welcome
  <2> HIDE DEF scope
  <2>4. /\ p \in Grants!Payload /\ p.scope = scope /\ p.scope \subseteq p.root
        /\ p.user = asked.user /\ p.client = asked.client
    BY <1>2, <2>1 DEF Grants!Payload
  <2> HIDE DEF p
  <2>5. q \in Grants!Request /\ q.pc = "issued" /\ q.op = "password" /\ q.asked = p
    <3>1. "issued" \in Grants!Label
      BY DEF Grants!Label
    <3>2. asking[r] \in Grants!Request
      BY GrantsTypes
    <3> QED
      BY <1>1, <2>4, <3>1, <3>2 DEF Grants!Request
  <2> HIDE DEF q
  <2>6. asking'[r] = q
    BY <2>2, GrantsTypes
  <2>7. Current(r)'
    BY <1>1, <1>2, <2>4, <2>5, <2>6 DEF Current, Asks, Grants!Welcome
  <2>8. Entitled(r)'
    BY <1>1, <1>2, <2>1, <2>3, <2>4, <2>5, <2>6 DEF Entitled, Asks
  <2>9. GrantView(r)'
    BY <2>4, <2>5, <2>6, <2>7, <2>8 DEF GrantView
  <2>10. token' \subseteq Grants!Token /\ ScopeNeverGrows'
    BY <2>2, <2>4, SignInv
  <2> QED
    BY <1>1, <2>2, <2>5, <2>9, <2>10, OneMovesOn
<1> QED
  BY <1>3, <1>4

LEMMA RotateInv ==
  ASSUME GrantsInv, NEW r \in GrantReq, NEW rowAllows \in BOOLEAN, Grants!Rotate(r, rowAllows)
  PROVE  GrantsInv'
<1> DEFINE a == asking[r].asked
           q == [asking[r] EXCEPT !.pc = "issued"]
<1>1. /\ asking[r].pc = "user" /\ asking[r].op = "refresh_token"
      /\ UNCHANGED <<account, client, seen>>
      /\ \/ Grants!Goto(r, "refused") /\ UNCHANGED token
         \/ account[a.user].active /\ Grants!Sign(a) /\ Grants!Goto(r, "issued")
  BY DEF Grants!Rotate
<1>2. /\ a \in Grants!Payload /\ a.scope \subseteq a.root /\ Current(r)
      /\ asking[r].allowed \in seen[r].scopes
  BY <1>1, GrantsTypes DEF GrantView
<1>3. CASE Grants!Goto(r, "refused") /\ UNCHANGED token
  BY <1>1, <1>3, RefusedInv
<1>4. CASE account[a.user].active /\ Grants!Sign(a) /\ Grants!Goto(r, "issued")
  <2>1. asking' = [asking EXCEPT ![r] = q]
    BY <1>4 DEF Grants!Goto
  <2>2. /\ q \in Grants!Request /\ q.pc = "issued" /\ q.op = "refresh_token" /\ q.asked = a
    <3>1. "issued" \in Grants!Label
      BY DEF Grants!Label
    <3>2. asking[r] \in Grants!Request
      BY GrantsTypes
    <3> QED
      BY <1>1, <3>1, <3>2 DEF Grants!Request
  <2> HIDE DEF q
  <2>3. asking'[r] = q /\ seen[r].active
    BY <1>2, <1>4, <2>1, GrantsTypes DEF Current, Asks
  <2>4. Current(r)'
    BY <1>1, <1>2, <2>2, <2>3 DEF Current, Asks, Grants!Welcome
  <2>5. Entitled(r)'
    BY <1>1, <1>2, <2>2, <2>3 DEF Entitled, Asks
  <2>6. GrantView(r)'
    BY <1>2, <2>2, <2>3, <2>4, <2>5 DEF GrantView
  <2>7. token' \subseteq Grants!Token /\ ScopeNeverGrows'
    BY <1>2, <1>4, SignInv
  <2> QED
    BY <1>1, <2>1, <2>2, <2>6, <2>7, OneMovesOn
<1> QED
  BY <1>1, <1>3, <1>4

LEMMA FinishGrantInv ==
  ASSUME GrantsInv, NEW r \in GrantReq, Grants!Finish(r)
  PROVE  GrantsInv'
<1>1. /\ asking' = [asking EXCEPT ![r] = Grants!Idle]
      /\ seen' = [seen EXCEPT ![r] = Grants!NothingSeen]
      /\ UNCHANGED <<account, client, token>>
  BY DEF Grants!Finish
<1>2. Grants!NothingSeen \in Sight /\ Grants!Idle \in Grants!Request
  BY IdleRequest DEF Grants!NothingSeen, Sight
<1>3. asking'[r] = Grants!Idle
  BY <1>1, GrantsTypes
<1>4. GrantView(r)'
  BY <1>3, IdleRequest DEF GrantView
<1>5. token' \subseteq Grants!Token /\ ScopeNeverGrows'
  BY <1>1, GrantsTypes DEF GrantsInv, ScopeNeverGrows, Grants!ScopeNeverGrows
<1> QED
  BY <1>1, <1>2, <1>4, <1>5, OneMoves

-----------------------------------------------------------------------------
(* A row changes under the requests that are there.                        *)
LEMMA RowsChange ==
  ASSUME GrantsInv, account' \in Users, client' \in Clients, UNCHANGED <<token, asking>>,
         Grants!Witness
  PROVE  GrantsInv'
<1> DEFINE l(r) == Grants!Look(asking[r].asked, account', client')
<1>1. /\ seen \in [GrantReq -> Sight] /\ \A r \in GrantReq : GrantView(r)
  BY DEF GrantsInv, Grants!TypeOK, Sight
<1>2. \A r \in GrantReq : seen'[r] = IF asking[r] = Grants!Idle THEN seen[r]
                                     ELSE Grants!With(seen[r], l(r))
  BY DEF Grants!Witness
<1>3. ASSUME NEW r \in GrantReq
      PROVE  seen'[r] \in Sight /\ GrantView(r)'
  <2>1. CASE asking[r].pc = "idle"
    <3>1. asking[r] = Grants!Idle
      BY <1>1, <2>1 DEF GrantView
    <3> QED
      BY <1>1, <1>2, <2>1, <3>1 DEF GrantView
  <2>2. CASE asking[r].pc # "idle"
    <3>1. asking[r] # Grants!Idle /\ asking[r].asked \in Grants!Wish \cup Grants!Payload
      BY <1>1, <2>2, IdleRequest DEF GrantView
    <3>2. /\ l(r) \in Sight
          /\ account'[Asks(r).user].active => l(r).active
          /\ Grants!Welcome(account'[Asks(r).user]) => l(r).welcome
          /\ client'[Asks(r).client].active => client'[Asks(r).client].scopes \in l(r).scopes
      BY <3>1, LookType DEF Asks
    <3>3. seen'[r] = Grants!With(seen[r], l(r))
      BY <1>2, <3>1
    <3> HIDE DEF l
    <3>4. /\ seen'[r] \in Sight
          /\ seen[r].active \/ l(r).active <=> seen'[r].active
          /\ seen[r].welcome \/ l(r).welcome <=> seen'[r].welcome
          /\ seen'[r].scopes = seen[r].scopes \cup l(r).scopes
      BY <1>1, <3>2, <3>3 DEF Grants!With, Sight
    <3>5. Current(r)'
      BY <3>2, <3>4 DEF Current, Asks, Grants!Welcome
    <3>6. Entitled(r) => Entitled(r)'
      BY <3>4 DEF Entitled, Asks
    <3> QED
      BY <1>1, <2>2, <3>4, <3>5, <3>6 DEF GrantView
  <2> QED
    BY <2>1, <2>2
<1>4. seen' \in [GrantReq -> Sight]
  BY <1>3 DEF Grants!Witness
<1>5. Grants!TypeOK' /\ ScopeNeverGrows'
  BY <1>4 DEF GrantsInv, Grants!TypeOK, Users, Clients, Sight, ScopeNeverGrows,
     Grants!ScopeNeverGrows
<1> QED
  BY <1>3, <1>5 DEF GrantsInv

LEMMA SetUserInv ==
  ASSUME GrantsInv, NEW u \in User, NEW active \in BOOLEAN, NEW confirmed \in BOOLEAN,
         Grants!SetUser(u, active, confirmed)
  PROVE  GrantsInv'
<1> DEFINE c == account[u].confirmed \/ confirmed
           row2 == [active |-> active, confirmed |-> c]
<1>1. account' = [account EXCEPT ![u] = row2] /\ UNCHANGED <<client, token, asking>>
      /\ Grants!Witness
  BY DEF Grants!SetUser
<1>2. account \in Users /\ client \in Clients
  BY DEF GrantsInv, Grants!TypeOK, Users, Clients
<1>3. c \in BOOLEAN
  OBVIOUS
<1>4. row2 \in [active: BOOLEAN, confirmed: BOOLEAN]
  BY <1>3
<1> HIDE DEF row2
<1>5. account' \in Users
  BY <1>1, <1>2, <1>4 DEF Users
<1> QED
  BY <1>1, <1>2, <1>5, RowsChange

LEMMA SetClientInv ==
  ASSUME GrantsInv, NEW c \in Client, NEW active \in BOOLEAN, NEW scopes \in SUBSET Scope,
         Grants!SetClient(c, active, scopes)
  PROVE  GrantsInv'
<1> DEFINE row2 == [client[c] EXCEPT !.active = active, !.scopes = scopes]
<1>1. account \in Users /\ client \in Clients
  BY DEF GrantsInv, Grants!TypeOK, Users, Clients
<1>2. client' = [client EXCEPT ![c] = row2] /\ UNCHANGED <<account, token, asking>>
      /\ Grants!Witness
  BY <1>1 DEF Grants!SetClient, Clients
<1>3. row2 \in [active: BOOLEAN, scopes: SUBSET Scope, grants: SUBSET Grants!Grant]
  BY <1>1 DEF Clients
<1> HIDE DEF row2
<1>4. client' \in Clients
  BY <1>1, <1>2, <1>3 DEF Clients
<1> QED
  BY <1>1, <1>2, <1>4, RowsChange

-----------------------------------------------------------------------------
LEMMA GrantsNext == GrantsInv /\ [Grants!Next]_(Grants!vars) => GrantsInv'
<1> SUFFICES ASSUME GrantsInv, [Grants!Next]_(Grants!vars)
             PROVE  GrantsInv'
  OBVIOUS
<1>1. CASE UNCHANGED Grants!vars
  BY <1>1 DEF Grants!vars, GrantsInv, Grants!TypeOK, ScopeNeverGrows, Grants!ScopeNeverGrows,
     GrantView, Current, Entitled, Asks, Grants!Welcome
<1>2. ASSUME NEW r \in GrantReq, Grants!Begin(r) \/ Grants!Advance(r)
      PROVE  GrantsInv'
  BY <1>2, PasswordInv, RefreshInv, UseInv, ValidateInv, AuthenticateInv, RotateInv,
     FinishGrantInv DEF Grants!Begin, Grants!Advance
<1>3. CASE Grants!Administer
  BY <1>3, SetUserInv, SetClientInv DEF Grants!Administer
<1>4. ASSUME NEW t \in token, Grants!Expire(t)
      PROVE  GrantsInv'
  BY <1>4 DEF Grants!Expire, GrantsInv, Grants!TypeOK, ScopeNeverGrows, Grants!ScopeNeverGrows,
     GrantView, Current, Entitled, Asks, Grants!Welcome
<1> QED
  BY <1>1, <1>2, <1>3, <1>4 DEF Grants!Next

LEMMA GrantsStart == Grants!Init => GrantsInv
<1> SUFFICES ASSUME Grants!Init
             PROVE  GrantsInv
  OBVIOUS
<1>1. Grants!TypeOK
  BY IdleRequest DEF Grants!Init, Grants!TypeOK, Grants!NothingSeen, Grants!Grant
<1>2. ScopeNeverGrows
  BY DEF Grants!Init, ScopeNeverGrows, Grants!ScopeNeverGrows
<1>3. \A r \in GrantReq : GrantView(r)
  BY IdleRequest DEF Grants!Init, GrantView
<1> QED
  BY <1>1, <1>2, <1>3 DEF GrantsInv

(* The invariant of the grants, for any numbers of requests and tokens.    *)
THEOREM GrantsInvariant == Grants!Spec => []GrantsInv
BY GrantsStart, GrantsNext, PTL DEF Grants!Spec

(* Through any chain of refreshes, and whatever becomes of the row of the  *)
(* client, a token never says more than the password grant that started    *)
(* the chain (validate_scope, create_token_pair).                          *)
THEOREM ScopeNeverGrowsAlways == Grants!Spec => []ScopeNeverGrows
<1>1. GrantsInv => ScopeNeverGrows
  BY DEF GrantsInv
<1> QED
  BY <1>1, GrantsInvariant, PTL

(* A pair is signed only for a user and a client that were entitled to it  *)
(* at some moment of the request (validate_client, authenticate).          *)
THEOREM IssuedWereEntitledAlways == Grants!Spec => []IssuedWereEntitled
<1>1. GrantsInv => IssuedWereEntitled
  BY DEF GrantsInv, GrantView, Entitled, Asks, IssuedWereEntitled, Grants!IssuedWereEntitled
<1> QED
  BY <1>1, GrantsInvariant, PTL

-----------------------------------------------------------------------------
(* The deletion, the blacklist with any caller and the grants side by side *)

LEMMA SameBegin ==
  ASSUME NEW r \in Req, Blacklist!Begin(r)
  PROVE  Proved!Begin(r)
<1>1. ASSUME NEW k \in Key, Blacklist!BeginRevoke(r, k)
      PROVE  Proved!BeginRevoke(r, k)
  BY <1>1 DEF Blacklist!BeginRevoke, Proved!BeginRevoke, Blacklist!Started, Proved!Started,
     Blacklist!redis, Proved!redis
<1>2. ASSUME NEW u \in User, Blacklist!BeginCleanup(r, u)
      PROVE  Proved!BeginCleanup(r, u)
  BY <1>2 DEF Blacklist!BeginCleanup, Proved!BeginCleanup, Blacklist!Started, Proved!Started,
     Blacklist!SetOf, Proved!SetOf, Blacklist!redis, Proved!redis
<1> QED
  BY <1>1, <1>2, SameCall DEF Blacklist!Begin, Proved!Begin

LEMMA SameCommand ==
  ASSUME NEW r \in Req, Blacklist!Command(r)
  PROVE  Proved!Command(r)
<1>1. CASE Blacklist!SetKey(r)
  BY <1>1 DEF Blacklist!SetKey, Proved!SetKey, Proved!Command, Blacklist!Write, Proved!Write,
     Blacklist!Ttl, Proved!Ttl, Blacklist!Goto, Proved!Goto
<1>2. CASE Blacklist!AddToSet(r)
  BY <1>2 DEF Blacklist!AddToSet, Proved!AddToSet, Proved!Command, Blacklist!Goto, Proved!Goto
<1>3. CASE Blacklist!ExpireSet(r)
  BY <1>3, Zenon DEF Blacklist!ExpireSet, Proved!ExpireSet, Proved!Command, Blacklist!Ttl,
     Proved!Ttl, Blacklist!Max, Proved!Max, Blacklist!SetOf, Proved!SetOf, Blacklist!Goto,
     Proved!Goto
<1>4. CASE Blacklist!SetMetadata(r)
  BY <1>4 DEF Blacklist!SetMetadata, Proved!SetMetadata, Proved!Command, Blacklist!Goto,
     Proved!Goto, Blacklist!redis, Proved!redis
<1>5. CASE Blacklist!LookUpKey(r)
  BY <1>5, Zenon DEF Blacklist!LookUpKey, Proved!LookUpKey, Proved!Command, Blacklist!Goto,
     Proved!Goto, Blacklist!Exists, Proved!Exists, Blacklist!Formatted, Proved!Formatted,
     Blacklist!Revoked, Proved!Revoked, Blacklist!redis, Proved!redis
<1>6. CASE Blacklist!RemoveMember(r)
  BY <1>6 DEF Blacklist!RemoveMember, Proved!RemoveMember, Proved!Command
<1> QED
  BY <1>1, <1>2, <1>3, <1>4, <1>5, <1>6, SamePipeline DEF Blacklist!Command, Proved!Command

LEMMA SameNext ==
  ASSUME Blacklist!Next
  PROVE  Proved!Next
BY SameTick, SameBegin, SameCommand, SameCall DEF Blacklist!Next, Proved!Next

(* In the part of the blacklist alone nothing is said of its callers.      *)
PartsInv ==
    /\ Proved!IInv
    /\ part # "blacklist" => IInv
    /\ GrantsInv

LEMMA PartsStart == MCInit => PartsInv
BY InitInv, GrantsStart DEF MCInit, IInv, PartsInv

LEMMA PartsNext ==
  ASSUME PartsInv, [MCNext]_allVars
  PROVE  PartsInv'
<1>1. [Grants!Next]_(Grants!vars) /\ UNCHANGED part
  BY DEF MCNext, allVars, grantVars, Grants!vars
<1>2. GrantsInv'
  BY <1>1, GrantsNext DEF PartsInv
<1>3. CASE part = "blacklist"
  <2>1. Blacklist!Next \/ UNCHANGED blacklistVars
    BY <1>3 DEF MCNext, allVars, vars
  <2>2. BlacklistMoves
    BY <2>1, SameNext, StepKeeps, StutterKeeps DEF PartsInv
  <2> QED
    BY <1>1, <1>2, <1>3, <2>2 DEF BlacklistMoves, PartsInv
<1>4. CASE part # "blacklist"
  <2>1. [Next]_vars
    BY <1>4 DEF MCNext, allVars
  <2>2. IInv'
    BY <1>4, <2>1, NextInv DEF PartsInv
  <2> QED
    BY <1>2, <2>2 DEF IInv, PartsInv
<1> QED
  BY <1>3, <1>4

(* The three keep the types of their variables, and exactly the deletions  *)
(* that wait for the blacklist have a call of it in progress.              *)
THEOREM DeletionAndGrantsTypeCorrect == MCSpec => []MCTypeOK
<1>1. PartsInv => MCTypeOK
  BY SameValues DEF PartsInv, Proved!IInv, IInv, GrantsInv, MCTypeOK
<1> QED
  BY <1>1, PartsStart, PartsNext, PTL DEF MCSpec

(* A token that was reported as revoked is on the blacklist until it has   *)
(* expired, whether an administrator's deletion reported it or another     *)
(* caller did.                                                             *)
THEOREM BlacklistHoldsForEveryCaller == MCSpec => []BlacklistHolds
<1>1. ASSUME PartsInv, NEW k \in acked, Exp[k] > now
      PROVE  Blacklist!Revoked(k)
  <2>1. /\ k \in Key /\ k \in written
        /\ now \in Nat /\ black \in [Key -> Nat] /\ Exp \in [Key -> Nat]
        /\ Exp[k] <= now \/ black[k] >= Exp[k]
    BY <1>1, RevocableTokensAssumption DEF PartsInv, Proved!IInv, Proved!TypeOK, Proved!KeysLast
  <2> QED
    BY <1>1, <2>1 DEF Blacklist!Revoked
<1>2. PartsInv => BlacklistHolds
  BY <1>1 DEF BlacklistHolds, Blacklist!BlacklistHolds
<1> QED
  BY <1>2, PartsStart, PartsNext, PTL DEF MCSpec
=============================================================================
