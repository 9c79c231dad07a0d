------------------------ MODULE RegistrationProofs ------------------------
(***************************************************************************)
(* Proofs about Registration for any numbers of requests, accounts,        *)
(* addresses and names, with and without the confirmation of addresses:    *)
(* the types, that a confirmed account was mailed to, that an answer tells *)
(* the truth, that a registration without a failure leaves nothing out,    *)
(* and that calls behave as those of AccountDirectory.                     *)
(*                                                                         *)
(* A step is examined in two parts: tables only move forward (Forward),    *)
(* which keeps what the requests that do not move rely on, and the request *)
(* that moves gets to a place where its own invariant holds.               *)
(***************************************************************************)
EXTENDS Registration, TLAPS

(* The labels at which a registration is not decided.                      *)
Asking == {"email", "name", "insert"}

Registers(r, a) == req[r].op = "register" /\ Mine(r) = a

(* What a request has become by the time it gets to each label.            *)
Shape(r) ==
    LET s == req[r] IN
    /\ s.pc = "idle" <=> s.op = "none"
    /\ s.pc = "idle" => s = Idle
    /\ s.pc \in Asking => s.op = "register" /\ s.user = None
    /\ s.pc \notin Asking => s.email = None /\ s.name = None
    /\ s.pc \in {"log", "publish", "token", "created"} => s.user \in Account
    /\ s.pc \in {"publish", "token", "created"} => s.op = "register"
    /\ s.pc \in {"lookup", "confirm", "confirmed"} => s.op = "confirm"
    /\ s.op = "confirm" => s.user \in taken
    /\ s.user \in Account => user[s.user].status # "absent"

(* What it has done by then, unless the account is gone or was harmed.     *)
Progress(r) ==
    LET s == req[r] IN
    /\ s.op = "confirm" /\ s.pc \in {"log", "confirmed"} /\ Present(s.user) => user[s.user].confirmed
    /\ s.op = "register" /\ s.user \in Account /\ s.user \notin harmed /\ Present(s.user) =>
        /\ s.pc \in {"log", "publish", "token", "created"}
        /\ s.pc \in {"token", "created"} => s.user \in announced
        /\ s.pc = "created" /\ RequireConfirmation => fate[s.user] # "unborn"

RequestInv(r) == Shape(r) /\ Progress(r)

(* A mail is about an account that was committed.                          *)
MailedMeansAdded ==
    \A a \in Account : a \in taken \/ fate[a] # "unborn" => user[a].status # "absent"

IInv ==
    /\ TypeOK
    /\ MailedMeansAdded
    /\ ConfirmedMeansMailed
    /\ RegistrationComplete
    /\ \A r \in Req : RequestInv(r)

(* What no step takes back.                                                *)
Forward ==
    \A a \in Account :
        /\ user[a].status # "absent" =>
            /\ user'[a].status # "absent"
            /\ Present(a)' => Present(a)
            /\ Present(a)' /\ user[a].confirmed => user'[a].confirmed
        /\ a \in taken => a \in taken'
        /\ fate[a] # "unborn" => fate'[a] # "unborn"
        /\ a \in announced => a \in announced'
        /\ a \in harmed => a \in harmed' \/ ~Present(a)'

(* A request that does not move keeps its invariant.                       *)
LEMMA Unmoved ==
  ASSUME IInv, Forward, NEW v \in Req, req'[v] = req[v]
  PROVE  RequestInv(v)'
<1>1. RequestInv(v) /\ req[v] \in Request
  BY DEF IInv, TypeOK
<1>2. Shape(v)'
  BY <1>1 DEF RequestInv, Shape, Forward, Request, IInv, TypeOK
<1>3. Progress(v)'
  <2>1. req[v].op = "confirm" => req[v].user \in Account
    BY <1>1 DEF RequestInv, Shape, IInv, TypeOK
  <2>2. req[v].user \in Account => user[req[v].user].status # "absent"
    BY <1>1 DEF RequestInv, Shape
  <2> QED
    BY <1>1, <2>1, <2>2 DEF RequestInv, Progress, Forward
<1> QED
  BY <1>2, <1>3 DEF RequestInv

(* One request moves.                                                      *)
LEMMA Moves ==
  ASSUME IInv, NEW r \in Req, NEW q \in Request, req' = [req EXCEPT ![r] = q],
         TypeOK', MailedMeansAdded', ConfirmedMeansMailed', Forward, RequestInv(r)',
         \A a \in Account :
            Present(a)' /\ ~Present(a) => q.op = "register" /\ q.user = a,
         req[r].op = "register" /\ req[r].user \in Account =>
            req[r].pc \in Final \/ (q.op = "register" /\ q.user = req[r].user)
  PROVE  IInv'
<1>1. req'[r] = q /\ \A v \in Req : v # r => req'[v] = req[v]
  BY DEF IInv, TypeOK
<1>2. \A v \in Req : RequestInv(v)'
  BY <1>1, Unmoved
<1>3. RegistrationComplete'
  <2> SUFFICES ASSUME NEW a \in Account, Present(a)', a \notin harmed',
                      \A v \in Req : req'[v].op = "register" => req'[v].user # a
               PROVE  a \in announced' /\ (RequireConfirmation => fate'[a] # "unborn")
    BY DEF RegistrationComplete, Mine
  <2>1. Present(a)
    BY <1>1
  <2>2. a \notin harmed
    BY DEF Forward
  <2>3. a \in announced /\ (RequireConfirmation => fate[a] # "unborn")
    <3>1. CASE \A v \in Req : req[v].op = "register" => Mine(v) # a
      BY <2>1, <2>2, <3>1 DEF IInv, RegistrationComplete
    <3>2. CASE \E v \in Req : req[v].op = "register" /\ Mine(v) = a
      <4>1. PICK v \in Req : req[v].op = "register" /\ req[v].user = a
        BY <3>2 DEF Mine
      <4>2. v = r /\ req[r].pc \in Final
        BY <1>1, <4>1
      <4>3. Progress(r)
        BY DEF IInv, RequestInv
      <4> QED
        BY <2>1, <2>2, <4>1, <4>2, <4>3 DEF Progress, Final
    <3> QED
      BY <3>1, <3>2
  <2> QED
    BY <2>3 DEF Forward
<1> QED
  BY <1>2, <1>3 DEF IInv

(* No request moves.                                                       *)
LEMMA Elsewhere ==
  ASSUME IInv, req' = req, TypeOK', MailedMeansAdded', ConfirmedMeansMailed', Forward,
         \A a \in Account : Present(a)' => Present(a)
  PROVE  IInv'
<1>1. \A v \in Req : RequestInv(v)'
  BY Unmoved
<1>2. RegistrationComplete'
  BY DEF IInv, RegistrationComplete, Forward, Mine
<1> QED
  BY <1>1, <1>2 DEF IInv

(* A request moves and the tables stay as they are.                        *)
LEMMA MovesAlone ==
  ASSUME IInv, NEW r \in Req, NEW q \in Request, req' = [req EXCEPT ![r] = q],
         UNCHANGED <<user, token, announced, fate, taken>>, harmed' \subseteq Account,
         harmed \subseteq harmed', RequestInv(r)',
         req[r].op = "register" /\ req[r].user \in Account =>
            req[r].pc \in Final \/ (q.op = "register" /\ q.user = req[r].user)
  PROVE  IInv'
<1>1. TypeOK'
  BY DEF IInv, TypeOK, Present
<1>2. MailedMeansAdded' /\ ConfirmedMeansMailed'
  BY DEF IInv, MailedMeansAdded, ConfirmedMeansMailed
<1>3. Forward /\ \A a \in Account : Present(a)' <=> Present(a)
  BY DEF Forward, Present
<1> QED
  BY <1>1, <1>2, <1>3, Moves

(* What every step may rely on.                                            *)
LEMMA Typed ==
  ASSUME IInv, NEW r \in Req
  PROVE  /\ req \in [Req -> Request] /\ req[r] \in Request
         /\ Shape(r) /\ Progress(r) /\ TypeOK
         /\ None \notin Account /\ None \notin Email /\ None \notin Name
         /\ user \in [Account -> [status: {"absent", "present", "deleted"},
                                  email: Email \cup {None}, name: Name \cup {None},
                                  confirmed: BOOLEAN]]
BY RegistrationAssumption DEF IInv, RequestInv, TypeOK

LEMMA GotoEffect ==
  ASSUME IInv, NEW r \in Req, NEW l \in Label, Goto(r, l)
  PROVE  \E q \in Request :
            /\ req' = [req EXCEPT ![r] = q] /\ req'[r] = q
            /\ q.pc = l /\ q.op = req[r].op /\ q.email = req[r].email /\ q.name = req[r].name
            /\ q.user = req[r].user
<1> DEFINE q == [req[r] EXCEPT !.pc = l]
<1>1. q \in Request /\ req' = [req EXCEPT ![r] = q] /\ req'[r] = q
  BY Typed DEF Goto, Request
<1>2. /\ q.pc = l /\ q.op = req[r].op /\ q.email = req[r].email /\ q.name = req[r].name
      /\ q.user = req[r].user
  BY Typed DEF Request
<1> QED
  BY <1>1, <1>2

LEMMA DecideEffect ==
  ASSUME IInv, NEW r \in Req, NEW l \in Label, Decide(r, l)
  PROVE  \E q \in Request :
            /\ req' = [req EXCEPT ![r] = q] /\ req'[r] = q
            /\ q.pc = l /\ q.op = req[r].op /\ q.email = None /\ q.name = None
            /\ q.user = req[r].user
<1> DEFINE q == [req[r] EXCEPT !.pc = l, !.email = None, !.name = None]
<1>1. q \in Request /\ req' = [req EXCEPT ![r] = q] /\ req'[r] = q
  BY Typed DEF Decide, Request
<1>2. /\ q.pc = l /\ q.op = req[r].op /\ q.email = None /\ q.name = None
      /\ q.user = req[r].user
  BY Typed DEF Request
<1> QED
  BY <1>1, <1>2

-----------------------------------------------------------------------------
(* POST /register                                                          *)

LEMMA BeginRegisterInv ==
  ASSUME IInv, NEW r \in Req, NEW e \in Email, NEW n \in Name, BeginRegister(r, e, n)
  PROVE  IInv'
<1> DEFINE q == [Idle EXCEPT !.pc = "email", !.op = "register", !.email = e, !.name = n]
<1>1. /\ req[r].pc = "idle" /\ req' = [req EXCEPT ![r] = q]
      /\ UNCHANGED <<user, token, announced, fate, taken, harmed>>
  BY DEF BeginRegister, tables
<1>2. /\ Idle \in Request /\ q \in Request
      /\ q.pc = "email" /\ q.op = "register" /\ q.email = e /\ q.name = n /\ q.user = None
  BY DEF Idle, Request, Label
<1> HIDE DEF q
<1>3. req'[r] = q
  BY <1>1, <1>2, Typed
<1>4. RequestInv(r)'
  BY <1>2, <1>3, Typed DEF RequestInv, Shape, Progress, Asking
<1>5. req[r].op # "register"
  BY <1>1, Typed DEF Shape
<1> QED
  BY <1>1, <1>2, <1>4, <1>5, MovesAlone DEF IInv, TypeOK

(* A step that leads a registration, by Goto or Decide, from a label to    *)
(* another before it has inserted its account.                             *)
LEMMA AskingMoves ==
  ASSUME IInv, NEW r \in Req, NEW q \in Request, req' = [req EXCEPT ![r] = q], req'[r] = q,
         req[r].pc \in Asking, q.op = req[r].op, q.user = req[r].user,
         \/ q.pc \in Asking
         \/ q.pc \in {"conflict", "error"} /\ q.email = None /\ q.name = None,
         UNCHANGED <<user, token, announced, fate, taken, harmed>>
  PROVE  IInv'
<1>1. req[r].op = "register" /\ req[r].user = None /\ q.user \notin Account
  BY Typed DEF Shape
<1>2. Shape(r)'
  BY <1>1 DEF Shape, Asking
<1>3. Progress(r)'
  BY <1>1 DEF Progress
<1> QED
  BY <1>1, <1>2, <1>3, MovesAlone DEF RequestInv, IInv, TypeOK

LEMMA ChecksInv ==
  ASSUME IInv, NEW r \in Req, CheckEmail(r) \/ CheckName(r)
  PROVE  IInv'
<1>1. /\ req[r].pc \in Asking
      /\ \/ \E l \in {"name", "insert"} : Goto(r, l)
         \/ Decide(r, "conflict")
      /\ UNCHANGED <<user, token, announced, fate, taken, harmed>>
  BY DEF CheckEmail, CheckName, Asking, tables
<1>2. {"name", "insert", "conflict"} \subseteq Label
  BY DEF Label, Final
<1>3. CASE \E l \in {"name", "insert"} : Goto(r, l)
  BY <1>1, <1>2, <1>3, GotoEffect, AskingMoves DEF Asking
<1>4. CASE Decide(r, "conflict")
  BY <1>1, <1>2, <1>4, DecideEffect, AskingMoves
<1> QED
  BY <1>1, <1>3, <1>4

LEMMA InsertUserInv ==
  ASSUME IInv, NEW r \in Req, InsertUser(r)
  PROVE  IInv'
<1>1. /\ req[r].pc = "insert"
      /\ UNCHANGED <<token, announced, fate, taken, harmed>>
  BY DEF InsertUser
<1>2. "conflict" \in Label /\ "log" \in Label
  BY DEF Label, Final
<1>3. CASE Decide(r, "conflict") /\ UNCHANGED user
  BY <1>1, <1>2, <1>3, DecideEffect, AskingMoves DEF Asking
<1>4. ASSUME NEW a \in Account, user[a] = NoUser, AddUser(r, a, ~RequireConfirmation)
      PROVE  IInv'
  <2> DEFINE u == [status |-> "present", email |-> req[r].email, name |-> req[r].name,
                   confirmed |-> ~RequireConfirmation]
             q == [Idle EXCEPT !.pc = "log", !.op = "register", !.user = a]
  <2>1. user' = [user EXCEPT ![a] = u] /\ req' = [req EXCEPT ![r] = q]
    BY <1>4 DEF AddUser
  <2>2. /\ q \in Request /\ q.pc = "log" /\ q.op = "register" /\ q.email = None
        /\ q.name = None /\ q.user = a
    BY <1>2 DEF Idle, Request
  <2> HIDE DEF q
  <2>3. q \in Request /\ req'[r] = q
    BY <2>1, <2>2, Typed
  <2>4. /\ u \in [status: {"absent", "present", "deleted"}, email: Email \cup {None},
                  name: Name \cup {None}, confirmed: BOOLEAN]
        /\ u.status = "present" /\ u.confirmed = ~RequireConfirmation
    BY RegistrationAssumption, Typed DEF Request
  <2> HIDE DEF u
  <2>5. /\ user[a].status = "absent"
        /\ user' \in [Account -> [status: {"absent", "present", "deleted"},
                         email: Email \cup {None}, name: Name \cup {None}, confirmed: BOOLEAN]]
        /\ user'[a] = u /\ \A b \in Account : b # a => user'[b] = user[b]
    BY <1>4, <2>1, <2>4, Typed DEF NoUser
  <2>6. TypeOK'
    <3>1. req' \in [Req -> Request]
      BY <2>1, <2>3, Typed
    <3>2. \A b \in token : Present(b)'
      BY <2>4, <2>5, Typed DEF TypeOK, Present
    <3> QED
      BY <1>1, <2>5, <3>1, <3>2, Typed DEF TypeOK
  <2>7. MailedMeansAdded' /\ ConfirmedMeansMailed' /\ Forward
    BY <1>1, <2>4, <2>5
    DEF IInv, MailedMeansAdded, ConfirmedMeansMailed, Forward, Present
  <2>8. RequestInv(r)'
    BY <1>1, <2>2, <2>3, <2>4, <2>5 DEF RequestInv, Shape, Progress, Asking
  <2>9. \A b \in Account : Present(b)' /\ ~Present(b) => q.op = "register" /\ q.user = b
    BY <2>2, <2>5 DEF Present
  <2>10. req[r].user \notin Account
    BY <1>1, Typed DEF Shape, Asking
  <2> QED
    BY <2>1, <2>3, <2>6, <2>7, <2>8, <2>9, <2>10, Moves
<1> QED
  BY <1>3, <1>4 DEF InsertUser

(* The request is the registration or the confirmation of an account.      *)
LEMMA AccountMoves ==
  ASSUME IInv, NEW r \in Req, NEW q \in Request, req' = [req EXCEPT ![r] = q], req'[r] = q,
         req[r].pc \in {"log", "publish", "token", "lookup", "confirm"},
         q.op = req[r].op, q.user = req[r].user,
         q.email = req[r].email, q.name = req[r].name
  PROVE  /\ q.user \in Account /\ user[q.user].status # "absent"
         /\ q.email = None /\ q.name = None
         /\ q.op \in {"register", "confirm"} /\ (q.op = "confirm" => q.user \in taken)
BY Typed DEF Shape, Asking, Request, TypeOK

LEMMA LogEventInv ==
  ASSUME IInv, NEW r \in Req, LogEvent(r)
  PROVE  IInv'
<1> DEFINE l == IF ~Present(Mine(r)) THEN "error"
                ELSE IF req[r].op = "confirm" THEN "confirmed" ELSE "publish"
<1>1. /\ req[r].pc = "log" /\ Goto(r, l)
      /\ UNCHANGED <<user, token, announced, fate, taken, harmed>>
  BY DEF LogEvent, tables
<1>2. l \in Label /\ l \in {"error", "confirmed", "publish"}
      /\ (l = "error" => ~Present(Mine(r)))
      /\ (l = "confirmed" => req[r].op = "confirm") /\ (l = "publish" => req[r].op # "confirm")
  BY DEF Label, Final
<1> HIDE DEF l
<1>3. PICK q \in Request :
        /\ req' = [req EXCEPT ![r] = q] /\ req'[r] = q
        /\ q.pc = l /\ q.op = req[r].op /\ q.email = req[r].email /\ q.name = req[r].name
        /\ q.user = req[r].user
  BY <1>1, <1>2, GotoEffect
<1>4. /\ q.user \in Account /\ user[q.user].status # "absent"
      /\ q.email = None /\ q.name = None
      /\ q.op \in {"register", "confirm"} /\ (q.op = "confirm" => q.user \in taken)
  BY <1>1, <1>3, AccountMoves
<1>5. Shape(r)'
  BY <1>1, <1>2, <1>3, <1>4 DEF Shape, Asking
<1>6. Progress(r)'
  BY <1>1, <1>2, <1>3, <1>4, Typed DEF Progress, Present, Mine
<1> QED
  BY <1>1, <1>3, <1>5, <1>6, MovesAlone DEF RequestInv, IInv, TypeOK

LEMMA PublishCreatedInv ==
  ASSUME IInv, NEW r \in Req, PublishCreated(r)
  PROVE  IInv'
<1> DEFINE l == IF RequireConfirmation THEN "token" ELSE "created"
<1>1. /\ req[r].pc = "publish" /\ Goto(r, l)
      /\ UNCHANGED <<user, token, fate, taken>>
      /\ \/ announced' = announced \cup {req[r].user} /\ UNCHANGED harmed
         \/ harmed' = harmed \cup {req[r].user} /\ UNCHANGED announced
  BY DEF PublishCreated, tables, Mine
<1>2. l \in Label /\ l \in {"token", "created"} /\ (l = "created" => ~RequireConfirmation)
  BY DEF Label, Final
<1> HIDE DEF l
<1>3. PICK q \in Request :
        /\ req' = [req EXCEPT ![r] = q] /\ req'[r] = q
        /\ q.pc = l /\ q.op = req[r].op /\ q.email = req[r].email /\ q.name = req[r].name
        /\ q.user = req[r].user
  BY <1>1, <1>2, GotoEffect
<1>4. /\ q.user \in Account /\ user[q.user].status # "absent" /\ q.op = "register"
      /\ q.email = None /\ q.name = None
  BY <1>1, <1>3, AccountMoves, Typed DEF Shape
<1>5. Shape(r)' /\ Progress(r)'
  BY <1>1, <1>2, <1>3, <1>4 DEF Shape, Progress, Asking
<1>6. req' \in [Req -> Request]
  BY <1>3, Typed
<1>7. TypeOK'
  BY <1>1, <1>3, <1>4, <1>6, Typed DEF TypeOK, Present
<1>8. /\ MailedMeansAdded' /\ ConfirmedMeansMailed' /\ Forward
      /\ \A a \in Account : Present(a)' <=> Present(a)
  BY <1>1 DEF IInv, MailedMeansAdded, ConfirmedMeansMailed, Forward, Present
<1> QED
  BY <1>3, <1>5, <1>7, <1>8, Moves DEF RequestInv

LEMMA SaveTokenInv ==
  ASSUME IInv, NEW r \in Req, SaveToken(r)
  PROVE  IInv'
<1> DEFINE a == req[r].user
<1>1. /\ req[r].pc = "token" /\ Goto(r, "created") /\ UNCHANGED <<user, announced, taken>>
      /\ \/ /\ Present(a) /\ token' = token \cup {a} /\ UNCHANGED harmed
            /\ fate[a] = "unborn" /\ fate' = [fate EXCEPT ![a] = "pending"]
         \/ harmed' = harmed \cup {a} /\ UNCHANGED <<token, fate>>
  BY DEF SaveToken, Mine, Post!Queue
<1>2. "created" \in Label
  BY DEF Label, Final
<1>3. PICK q \in Request :
        /\ req' = [req EXCEPT ![r] = q] /\ req'[r] = q
        /\ q.pc = "created" /\ q.op = req[r].op /\ q.email = req[r].email /\ q.name = req[r].name
        /\ q.user = a
  BY <1>1, <1>2, GotoEffect
<1>4. /\ a \in Account /\ user[a].status # "absent" /\ q.op = "register"
      /\ q.email = None /\ q.name = None
  BY <1>1, <1>3, AccountMoves, Typed DEF Shape
<1>5. Present(a) /\ a \notin harmed => a \in announced
  BY <1>1, <1>3, <1>4, Typed DEF Progress
<1> HIDE DEF a
<1>6. /\ fate \in [Account -> {"unborn", "pending", "sent", "lost"}]
      /\ token \subseteq Account /\ harmed \subseteq Account /\ \A b \in token : Present(b)
  BY Typed DEF TypeOK
<1>7. \/ /\ Present(a) /\ fate'[a] = "pending" /\ token' = token \cup {a} /\ UNCHANGED harmed
         /\ \A b \in Account : b # a => fate'[b] = fate[b]
      \/ harmed' = harmed \cup {a} /\ UNCHANGED <<token, fate>>
  BY <1>1, <1>4, <1>6
<1>8. fate' \in [Account -> {"unborn", "pending", "sent", "lost"}] /\ req' \in [Req -> Request]
  BY <1>1, <1>3, <1>4, <1>6, Typed
<1>9. TypeOK'
  BY <1>1, <1>4, <1>6, <1>7, <1>8, Typed DEF TypeOK, Present
<1>10. /\ MailedMeansAdded' /\ ConfirmedMeansMailed' /\ Forward
       /\ \A b \in Account : Present(b)' <=> Present(b)
  BY <1>1, <1>4, <1>7 DEF IInv, MailedMeansAdded, ConfirmedMeansMailed, Forward, Present
<1>11. Shape(r)'
  BY <1>1, <1>3, <1>4 DEF Shape, Asking
<1>12. Progress(r)'
  BY <1>1, <1>3, <1>4, <1>5, <1>7 DEF Progress, Present
<1> QED
  BY <1>3, <1>9, <1>10, <1>11, <1>12, Moves DEF RequestInv, a

-----------------------------------------------------------------------------
(* GET /confirm-email                                                      *)

LEMMA VerifyTokenInv ==
  ASSUME IInv, NEW r \in Req, NEW a \in Account, VerifyToken(r, a)
  PROVE  IInv'
<1> DEFINE l == IF a \in token THEN "lookup" ELSE "invalid"
           q == [Idle EXCEPT !.op = "confirm", !.user = a, !.pc = l]
<1>1. /\ req[r].pc = "idle" /\ a \in taken /\ req' = [req EXCEPT ![r] = q]
      /\ UNCHANGED <<user, token, announced, fate, taken, harmed>>
  BY DEF VerifyToken, tables
<1>2. l \in Label /\ l \in {"lookup", "invalid"}
  BY DEF Label, Final
<1> HIDE DEF l
<1>3. /\ q \in Request
      /\ q.pc = l /\ q.op = "confirm" /\ q.email = None /\ q.name = None /\ q.user = a
  BY <1>2 DEF Idle, Request
<1> HIDE DEF q
<1>4. req'[r] = q /\ req[r].op # "register" /\ user[a].status # "absent"
  BY <1>1, <1>3, Typed DEF Shape, IInv, MailedMeansAdded
<1>5. Shape(r)' /\ Progress(r)'
  BY <1>1, <1>2, <1>3, <1>4 DEF Shape, Progress, Asking
<1> QED
  BY <1>1, <1>3, <1>4, <1>5, MovesAlone DEF RequestInv, IInv, TypeOK

LEMMA LookupUserInv ==
  ASSUME IInv, NEW r \in Req, LookupUser(r)
  PROVE  IInv'
<1> DEFINE l == IF Present(Mine(r)) THEN "confirm" ELSE "invalid"
<1>1. /\ req[r].pc = "lookup" /\ Goto(r, l)
      /\ UNCHANGED <<user, token, announced, fate, taken, harmed>>
  BY DEF LookupUser, tables
<1>2. l \in Label /\ l \in {"confirm", "invalid"}
  BY DEF Label, Final
<1> HIDE DEF l
<1>3. PICK q \in Request :
        /\ req' = [req EXCEPT ![r] = q] /\ req'[r] = q
        /\ q.pc = l /\ q.op = req[r].op /\ q.email = req[r].email /\ q.name = req[r].name
        /\ q.user = req[r].user
  BY <1>1, <1>2, GotoEffect
<1>4. /\ q.user \in Account /\ user[q.user].status # "absent"
      /\ q.email = None /\ q.name = None
      /\ q.op = "confirm" /\ q.user \in taken
  BY <1>1, <1>3, AccountMoves, Typed, ZenonT(60) DEF Shape
<1>5. Shape(r)' /\ Progress(r)'
  BY <1>1, <1>2, <1>3, <1>4 DEF Shape, Progress, Asking
<1>6. req[r].op # "register"
  BY <1>3, <1>4
<1> QED
  BY <1>1, <1>3, <1>5, <1>6, MovesAlone DEF RequestInv, IInv, TypeOK

LEMMA ConfirmUserInv ==
  ASSUME IInv, NEW r \in Req, ConfirmUser(r)
  PROVE  IInv'
<1> DEFINE a == req[r].user
           l == IF Present(a) THEN "log" ELSE "error"
           u == [user[a] EXCEPT !.confirmed = TRUE]
<1>1. /\ req[r].pc = "confirm" /\ Goto(r, l)
      /\ UNCHANGED <<token, announced, fate, taken, harmed>>
      /\ Present(a) => user' = [user EXCEPT ![a] = u]
      /\ ~Present(a) => user' = user
  BY DEF ConfirmUser, Mine
<1>2. l \in Label /\ l \in {"log", "error"} /\ (l = "log" <=> Present(a))
  BY DEF Label, Final
<1> HIDE DEF l
<1>3. PICK q \in Request :
        /\ req' = [req EXCEPT ![r] = q] /\ req'[r] = q
        /\ q.pc = l /\ q.op = req[r].op /\ q.email = req[r].email /\ q.name = req[r].name
        /\ q.user = a
  BY <1>1, <1>2, GotoEffect
<1>4. /\ a \in Account /\ user[a].status # "absent"
      /\ q.email = None /\ q.name = None
      /\ q.op = "confirm" /\ a \in taken
  BY <1>1, <1>3, AccountMoves, Typed, ZenonT(60) DEF Shape
<1> HIDE DEF a
<1>5. /\ u \in [status: {"absent", "present", "deleted"}, email: Email \cup {None},
                name: Name \cup {None}, confirmed: BOOLEAN]
      /\ u.status = user[a].status /\ u.confirmed = TRUE
  BY <1>4, Typed
<1> HIDE DEF u
<1>6. /\ user' \in [Account -> [status: {"absent", "present", "deleted"},
                       email: Email \cup {None}, name: Name \cup {None}, confirmed: BOOLEAN]]
      /\ \A b \in Account : /\ user'[b].status = user[b].status
                            /\ b # a => user'[b] = user[b]
      /\ Present(a) => user'[a].confirmed
      /\ user[a].confirmed => user'[a].confirmed
  <2>1. CASE Present(a)
    <3>1. user' = [user EXCEPT ![a] = u]
      BY <1>1, <2>1
    <3>2. user'[a] = u
      BY <1>4, <3>1, Typed
    <3> QED
      BY <1>4, <1>5, <3>1, <3>2, Typed
  <2>2. CASE ~Present(a)
    <3>1. user' = user
      BY <1>1, <2>2
    <3> QED
      BY <2>2, <3>1, Typed
  <2> QED
    BY <2>1, <2>2
<1>7. req' \in [Req -> Request] /\ \A b \in token : Present(b)'
  BY <1>3, <1>6, Typed DEF TypeOK, Present
<1>8. TypeOK'
  BY <1>1, <1>6, <1>7, Typed DEF TypeOK
<1>9. MailedMeansAdded' /\ ConfirmedMeansMailed'
  BY <1>1, <1>4, <1>6 DEF IInv, MailedMeansAdded, ConfirmedMeansMailed
<1>10. Forward /\ \A b \in Account : Present(b)' <=> Present(b)
  BY <1>1, <1>4, <1>6 DEF Forward, Present
<1>11. Shape(r)'
  BY <1>1, <1>2, <1>3, <1>4, <1>6 DEF Shape, Asking
<1>12. Progress(r)'
  BY <1>2, <1>3, <1>4, <1>6 DEF Progress, Present
<1>13. req[r].op # "register"
  BY <1>3, <1>4
<1> QED
  BY <1>3, <1>8, <1>9, <1>10, <1>11, <1>12, <1>13, Moves DEF RequestInv

-----------------------------------------------------------------------------
(* Failures, answers and what happens around the requests                  *)

LEMMA AbortInv ==
  ASSUME IInv, NEW r \in Req, Abort(r)
  PROVE  IInv'
<1>1. /\ req[r].pc \notin Final \cup {"idle"} /\ Decide(r, "error")
      /\ harmed' = harmed \cup {a \in Account : req[r].op = "register" /\ a = req[r].user}
      /\ UNCHANGED <<user, token, announced, fate, taken>>
  BY DEF Abort, tables, Mine
<1>2. "error" \in Label
  BY DEF Label, Final
<1>3. PICK q \in Request :
        /\ req' = [req EXCEPT ![r] = q] /\ req'[r] = q
        /\ q.pc = "error" /\ q.op = req[r].op /\ q.email = None /\ q.name = None
        /\ q.user = req[r].user
  BY <1>1, <1>2, DecideEffect
<1>4. harmed' \subseteq Account /\ harmed \subseteq harmed'
  BY <1>1, Typed DEF TypeOK
<1>5. Shape(r)'
  BY <1>1, <1>3, Typed DEF Shape, Asking, Idle
<1>6. Progress(r)'
  BY <1>1, <1>3 DEF Progress
<1> QED
  BY <1>1, <1>3, <1>4, <1>5, <1>6, MovesAlone DEF RequestInv

LEMMA FinishInv ==
  ASSUME IInv, NEW r \in Req, Finish(r)
  PROVE  IInv'
<1>1. /\ req[r].pc \in Final /\ req' = [req EXCEPT ![r] = Idle]
      /\ UNCHANGED <<user, token, announced, fate, taken, harmed>>
  BY DEF Finish, tables
<1>2. Idle \in Request /\ req'[r] = Idle
  BY <1>1, Typed DEF Idle, Request, Label
<1>3. /\ Idle.pc = "idle" /\ Idle.op = "none" /\ Idle.email = None /\ Idle.name = None
      /\ Idle.user \notin Account
  BY Typed DEF Idle
<1>4. Shape(r)' /\ Progress(r)'
  BY <1>2, <1>3 DEF Shape, Progress, Asking
<1> QED
  BY <1>1, <1>2, <1>4, MovesAlone DEF RequestInv, IInv, TypeOK

LEMMA MailStepInv ==
  ASSUME IInv, NEW a \in Account, MailStep(a)
  PROVE  IInv'
<1>1. /\ UNCHANGED <<user, token, announced, req, harmed>> /\ fate[a] = "pending"
      /\ taken' = taken \cup {a} \/ taken' = taken
      /\ fate' = fate \/ \E f \in {"sent", "lost"} : fate' = [fate EXCEPT ![a] = f]
  BY DEF MailStep, Post!Take, Post!Lose, tables
<1>2. fate \in [Account -> {"unborn", "pending", "sent", "lost"}] /\ taken \subseteq Account
  BY DEF IInv, TypeOK
<1>3. /\ fate' \in [Account -> {"unborn", "pending", "sent", "lost"}]
      /\ fate'[a] # "unborn" /\ \A b \in Account : b # a => fate'[b] = fate[b]
  BY <1>1, <1>2
<1>4. TypeOK'
  BY <1>1, <1>3 DEF IInv, TypeOK, Present
<1>5. MailedMeansAdded' /\ ConfirmedMeansMailed'
  BY <1>1, <1>3 DEF IInv, MailedMeansAdded, ConfirmedMeansMailed
<1>6. Forward /\ \A b \in Account : Present(b)' => Present(b)
  BY <1>1, <1>3 DEF Forward, Present
<1> QED
  BY <1>1, <1>4, <1>5, <1>6, Elsewhere

LEMMA ExpireTokenInv ==
  ASSUME IInv, NEW a \in Account, ExpireToken(a)
  PROVE  IInv'
<1>1. token' \subseteq token /\ UNCHANGED <<user, announced, fate, taken, req, harmed>>
  BY DEF ExpireToken
<1>2. TypeOK' /\ MailedMeansAdded' /\ ConfirmedMeansMailed'
  BY <1>1 DEF IInv, TypeOK, Present, MailedMeansAdded, ConfirmedMeansMailed
<1>3. Forward /\ \A b \in Account : Present(b)' => Present(b)
  BY <1>1 DEF Forward, Present
<1> QED
  BY <1>1, <1>2, <1>3, Elsewhere

LEMMA DeleteUserInv ==
  ASSUME IInv, NEW a \in Account, DeleteUser(a)
  PROVE  IInv'
<1> DEFINE u == [NoUser EXCEPT !.status = "deleted"]
<1>1. /\ user' = [user EXCEPT ![a] = u] /\ token' = token \ {a} /\ harmed' = harmed \ {a}
      /\ UNCHANGED <<announced, fate, taken, req>>
  BY DEF DeleteUser
<1>2. /\ u \in [status: {"absent", "present", "deleted"}, email: Email \cup {None},
                name: Name \cup {None}, confirmed: BOOLEAN]
      /\ u.status = "deleted" /\ u.confirmed = FALSE
  BY DEF NoUser
<1> HIDE DEF u
<1>3. /\ user' \in [Account -> [status: {"absent", "present", "deleted"},
                       email: Email \cup {None}, name: Name \cup {None}, confirmed: BOOLEAN]]
      /\ user'[a] = u /\ \A b \in Account : b # a => user'[b] = user[b]
  BY <1>1, <1>2 DEF IInv, TypeOK
<1>4. \A b \in token' : Present(b)'
  BY <1>1, <1>3 DEF IInv, TypeOK, Present
<1>5. TypeOK'
  BY <1>1, <1>3, <1>4 DEF IInv, TypeOK
<1>6. MailedMeansAdded' /\ ConfirmedMeansMailed'
  BY <1>1, <1>2, <1>3 DEF IInv, MailedMeansAdded, ConfirmedMeansMailed
<1>7. Forward /\ \A b \in Account : Present(b)' => Present(b)
  BY <1>1, <1>2, <1>3 DEF Forward, Present
<1> QED
  BY <1>1, <1>5, <1>6, <1>7, Elsewhere

-----------------------------------------------------------------------------
LEMMA NextInv == IInv /\ [Next]_vars => IInv'
<1> SUFFICES ASSUME IInv, [Next]_vars
             PROVE  IInv'
  OBVIOUS
<1>1. CASE UNCHANGED vars
  <2>1. /\ UNCHANGED <<user, token, announced, fate, taken, req, harmed>>
    BY <1>1 DEF vars, tables
  <2> QED
    BY <2>1 DEF IInv, TypeOK, Present, MailedMeansAdded, ConfirmedMeansMailed,
       RegistrationComplete, Mine, RequestInv, Shape, Progress
<1>2. ASSUME NEW r \in Req, Arrive(r) \/ Advance(r) \/ Abort(r)
      PROVE  IInv'
  BY <1>2, BeginRegisterInv, VerifyTokenInv, ChecksInv, InsertUserInv, LogEventInv,
     PublishCreatedInv, SaveTokenInv, LookupUserInv, ConfirmUserInv, FinishInv, AbortInv
  DEF Arrive, Advance
<1>3. ASSUME NEW a \in Account, MailStep(a) \/ ExpireToken(a) \/ DeleteUser(a)
      PROVE  IInv'
  BY <1>3, MailStepInv, ExpireTokenInv, DeleteUserInv
<1> QED
  BY <1>1, <1>2, <1>3 DEF Next

(* The invariant holds for any numbers of requests, accounts, addresses    *)
(* and names.                                                              *)
THEOREM RegistrationInvariant == Spec => []IInv
<1>1. Init => IInv
  <2> SUFFICES ASSUME Init
               PROVE  IInv
    OBVIOUS
  <2>1. /\ Idle \in Request /\ Idle.pc = "idle" /\ Idle.op = "none" /\ Idle.email = None
        /\ Idle.name = None /\ Idle.user \notin Account
    BY RegistrationAssumption DEF Idle, Request, Label
  <2>2. /\ NoUser \in [status: {"absent", "present", "deleted"}, email: Email \cup {None},
                       name: Name \cup {None}, confirmed: BOOLEAN]
        /\ NoUser.status = "absent" /\ NoUser.confirmed = FALSE
    BY DEF NoUser
  <2>3. /\ user = [a \in Account |-> NoUser] /\ token = {} /\ announced = {} /\ taken = {}
        /\ fate = [a \in Account |-> "unborn"] /\ req = [r \in Req |-> Idle] /\ harmed = {}
    BY DEF Init, Post!Init
  <2>4. TypeOK
    BY <2>1, <2>2, <2>3 DEF TypeOK
  <2>5. MailedMeansAdded /\ ConfirmedMeansMailed /\ RegistrationComplete
    BY <2>2, <2>3 DEF MailedMeansAdded, ConfirmedMeansMailed, RegistrationComplete, Present
  <2>6. \A r \in Req : RequestInv(r)
    BY <2>1, <2>3 DEF RequestInv, Shape, Progress, Asking
  <2> QED
    BY <2>4, <2>5, <2>6 DEF IInv
<1> QED
  BY <1>1, NextInv, PTL DEF Spec

(* Every variable keeps its type, and no token outlives its user.          *)
THEOREM RegistrationTypeCorrect == Spec => []TypeOK
<1>1. IInv => TypeOK
  BY DEF IInv
<1> QED
  BY <1>1, RegistrationInvariant, PTL

(* Where addresses have to be confirmed, an account counts as confirmed    *)
(* only after the mail server took a mail with its token.                  *)
THEOREM ConfirmedMeansMailedAlways == Spec => []ConfirmedMeansMailed
<1>1. IInv => ConfirmedMeansMailed
  BY DEF IInv
<1> QED
  BY <1>1, RegistrationInvariant, PTL

(* The answer of confirm_email is true of an account that is still there.  *)
THEOREM AnsweredMeansConfirmedAlways == Spec => []AnsweredMeansConfirmed
<1>1. IInv => AnsweredMeansConfirmed
  BY DEF IInv, RequestInv, Shape, Progress, AnsweredMeansConfirmed, Mine
<1> QED
  BY <1>1, RegistrationInvariant, PTL

(* A registration that met no failure has announced its account and has    *)
(* started the mail that it needs.                                         *)
THEOREM RegistrationCompleteAlways == Spec => []RegistrationComplete
<1>1. IInv => RegistrationComplete
  BY DEF IInv
<1> QED
  BY <1>1, RegistrationInvariant, PTL

-----------------------------------------------------------------------------
(* Registration implements the directory of accounts                       *)

EntryOf(a) == [status |-> user[a].status, email |-> user[a].email, name |-> user[a].name]
CallOf(r) == [state |-> CallState(r), email |-> req[r].email, name |-> req[r].name]

Entries == [a \in Account |-> EntryOf(a)]
Calls == [r \in Req |-> CallOf(r)]

(* A call that needs its address and name no more.                         *)
Settled(state) == [state |-> state, email |-> None, name |-> None]

LEMMA SettledCalls ==
  /\ Directory!NoCall = Settled("none")
  /\ \A state \in {"added", "refused", "failed"} :
        [Directory!NoCall EXCEPT !.state = state] = Settled(state)
BY DEF Directory!NoCall, Settled

(* The actions of the directory, in the words of this module.              *)
LEMMA DirectoryTaken ==
  ASSUME NEW e, NEW n
  PROVE  Directory!Taken(e, n) <=> EmailTaken(e) \/ NameTaken(n)
BY DEF Directory!Taken, EmailTaken, NameTaken, Present

LEMMA DirectoryRefuse ==
  ASSUME NEW r \in Req, CallState(r) = "asked",
         EmailTaken(req[r].email) \/ NameTaken(req[r].name),
         Calls' = [Calls EXCEPT ![r] = Settled("refused")], Entries' = Entries
  PROVE  Directory!Refuse(r)
<1>1. Directory!Taken(req[r].email, req[r].name)
  BY DirectoryTaken
<1>2. Calls' = [Calls EXCEPT ![r] = [Directory!NoCall EXCEPT !.state = "refused"]]
  BY SettledCalls
<1>3. Calls[r].state = "asked" /\ Calls[r].email = req[r].email /\ Calls[r].name = req[r].name
  BY DEF Calls, CallOf
<1>4. Directory!Taken(Calls[r].email, Calls[r].name)
  BY <1>1, <1>3
<1> QED
  BY <1>2, <1>3, <1>4, Zenon
  DEF Directory!Refuse, Directory!Settle, Calls, CallOf, Entries, EntryOf

LEMMA DirectoryAsk ==
  ASSUME NEW r \in Req, NEW e \in Email, NEW n \in Name, CallOf(r) = Settled("none"),
         Calls' = [Calls EXCEPT ![r] = [state |-> "asked", email |-> e, name |-> n]],
         Entries' = Entries
  PROVE  Directory!Ask(r, e, n)
<1>1. Calls[r] = Directory!NoCall
  BY SettledCalls DEF Calls
<1> QED
  BY <1>1, Zenon DEF Directory!Ask, Calls, CallOf, Entries, EntryOf

LEMMA DirectoryAdd ==
  ASSUME NEW r \in Req, NEW a \in Account, CallState(r) = "asked",
         ~EmailTaken(req[r].email), ~NameTaken(req[r].name), EntryOf(a) = Directory!NoEntry,
         Calls' = [Calls EXCEPT ![r] = Settled("added")],
         Entries' = [Entries EXCEPT ![a] = [status |-> "present", email |-> req[r].email,
                                            name |-> req[r].name]]
  PROVE  Directory!Add(r, a)
<1>1. Calls[r].state = "asked" /\ Calls[r].email = req[r].email /\ Calls[r].name = req[r].name
  BY DEF Calls, CallOf
<1>2. ~Directory!Taken(Calls[r].email, Calls[r].name)
  BY <1>1, DirectoryTaken
<1>3. Calls' = [Calls EXCEPT ![r] = [Directory!NoCall EXCEPT !.state = "added"]]
  BY SettledCalls
<1>4. Entries[a] = Directory!NoEntry
  BY DEF Entries
<1>5. Entries' = [Entries EXCEPT ![a] = [status |-> "present", email |-> Calls[r].email,
                                         name |-> Calls[r].name]]
  BY <1>1
<1> QED
  BY <1>1, <1>2, <1>3, <1>4, <1>5, Zenon
  DEF Directory!Add, Directory!Settle, Calls, CallOf, Entries, EntryOf

LEMMA DirectoryFail ==
  ASSUME NEW r \in Req, CallState(r) = "asked",
         Calls' = [Calls EXCEPT ![r] = Settled("failed")], Entries' = Entries
  PROVE  Directory!Fail(r)
<1>1. Calls' = [Calls EXCEPT ![r] = [Directory!NoCall EXCEPT !.state = "failed"]]
  BY SettledCalls
<1>2. Calls[r].state = "asked"
  BY DEF Calls, CallOf
<1> QED
  BY <1>1, <1>2, Zenon DEF Directory!Fail, Directory!Settle, Calls, CallOf, Entries, EntryOf

LEMMA DirectoryReturn ==
  ASSUME NEW r \in Req, CallState(r) \in {"added", "refused", "failed"},
         Calls' = [Calls EXCEPT ![r] = Settled("none")], Entries' = Entries
  PROVE  Directory!Return(r)
<1>1. Calls' = [Calls EXCEPT ![r] = Directory!NoCall]
  BY SettledCalls
<1>2. Calls[r].state \in {"added", "refused", "failed"}
  BY DEF Calls, CallOf
<1> QED
  BY <1>1, <1>2, Zenon DEF Directory!Return, Calls, CallOf, Entries, EntryOf

LEMMA DirectoryRemove ==
  ASSUME NEW a \in Account, Present(a), Calls' = Calls,
         Entries' = [Entries EXCEPT ![a] = [status |-> "deleted", email |-> None, name |-> None]]
  PROVE  Directory!Remove(a)
<1>1. [status |-> "deleted", email |-> None, name |-> None]
        = [Directory!NoEntry EXCEPT !.status = "deleted"]
  BY DEF Directory!NoEntry
<1>2. Entries' = [Entries EXCEPT ![a] = [Directory!NoEntry EXCEPT !.status = "deleted"]]
  BY <1>1
<1>3. Entries[a].status = "present"
  BY DEF Entries, EntryOf, Present
<1> QED
  BY <1>2, <1>3, Zenon DEF Directory!Remove, Calls, CallOf, Entries, EntryOf

LEMMA DirectoryStays ==
  ASSUME Entries' = Entries, Calls' = Calls
  PROVE  UNCHANGED Directory!vars
BY Zenon DEF Directory!vars, Entries, EntryOf, Calls, CallOf

(* The call that a record of a request stands for.                         *)
CallAs(s) ==
    [state |-> IF s.op # "register" THEN "none"
               ELSE IF s.user # None THEN "added"
               ELSE IF s.pc = "error" THEN "failed"
               ELSE IF s.pc \in Final THEN "refused" ELSE "asked",
     email |-> s.email, name |-> s.name]

LEMMA CallsAs ==
  /\ \A r \in Req : CallOf(r) = CallAs(req[r])
  /\ \A r \in Req : CallOf(r)' = CallAs(req'[r])
  /\ \A r \in Req : CallState(r) = CallAs(req[r]).state
BY DEF CallOf, CallState, CallAs, Mine

LEMMA CallIs ==
  ASSUME NEW s
  PROVE  /\ s.op # "register" /\ s.email = None /\ s.name = None => CallAs(s) = Settled("none")
         /\ s.op = "register" /\ s.user = None /\ s.pc \in Asking =>
                CallAs(s) = [state |-> "asked", email |-> s.email, name |-> s.name]
         /\ s.op = "register" /\ s.email = None /\ s.name = None =>
                /\ s.user # None => CallAs(s) = Settled("added")
                /\ s.user = None /\ s.pc = "error" => CallAs(s) = Settled("failed")
                /\ s.user = None /\ s.pc \in {"conflict", "created"} => CallAs(s) = Settled("refused")
BY DEF CallAs, Settled, Asking, Final

LEMMA CallMoves ==
  ASSUME IInv, NEW r \in Req, NEW q \in Request, req' = [req EXCEPT ![r] = q]
  PROVE  Calls' = [Calls EXCEPT ![r] = CallAs(q)]
<1>1. req'[r] = q /\ \A v \in Req : v # r => req'[v] = req[v]
  BY Typed
<1>2. \A v \in Req : CallOf(v)' = IF v = r THEN CallAs(q) ELSE CallOf(v)
  BY <1>1, CallsAs
<1> QED
  BY <1>2 DEF Calls

(* The call of a request, by what is known of the request.                 *)
LEMMA CallFacts ==
  ASSUME IInv, NEW r \in Req
  PROVE  /\ req[r].pc \in Asking => CallState(r) = "asked"
         /\ req[r].op # "register" => CallOf(r) = Settled("none")
         /\ req[r].op = "register" /\ req[r].user # None => CallOf(r) = Settled("added")
         /\ req[r].op = "register" /\ req[r].pc \in Final =>
                CallState(r) \in {"added", "refused", "failed"}
         /\ req[r].op = "register" /\ req[r].pc \notin Final /\ req[r].user = None =>
                req[r].pc \in Asking
<1>1. req[r].pc \in Label /\ req[r].op \in {"none", "register", "confirm"} /\ Shape(r)
  BY Typed DEF Request
<1>2. req[r].pc \in Asking => req[r].op = "register" /\ req[r].user = None
  BY <1>1 DEF Shape
<1>3. req[r].pc \in Asking => CallState(r) = "asked"
  BY <1>2 DEF CallState, Mine, Asking, Final
<1>4. req[r].op # "register" => CallOf(r) = Settled("none")
  BY <1>1, <1>2, CallsAs, CallIs DEF Shape
<1>5. req[r].op = "register" /\ req[r].user # None => CallOf(r) = Settled("added")
  BY <1>1, <1>2, CallsAs, CallIs DEF Shape
<1>6. req[r].op = "register" /\ req[r].pc \in Final =>
        CallState(r) \in {"added", "refused", "failed"}
  BY DEF CallState
<1>7. req[r].op = "register" /\ req[r].pc \notin Final /\ req[r].user = None =>
        req[r].pc \in Asking
  BY <1>1, Typed DEF Shape, Label, Asking, Final
<1> QED
  BY <1>3, <1>4, <1>5, <1>6, <1>7

(* A request that moves on after its decision, or has none to make.        *)
LEMMA DecidedStutters ==
  ASSUME IInv, NEW r \in Req, NEW q \in Request, req' = [req EXCEPT ![r] = q],
         q.op = req[r].op, q.user = req[r].user,
         q.email = req[r].email \/ q.email = None, q.name = req[r].name \/ q.name = None,
         req[r].pc \notin Asking, q.op # "register" \/ q.user # None,
         Entries' = Entries
  PROVE  UNCHANGED Directory!vars
<1>1. q.email = None /\ q.name = None
  BY Typed DEF Shape
<1>2. CallAs(q) = CallOf(r)
  BY <1>1, CallFacts, CallIs
<1>3. Calls' = [Calls EXCEPT ![r] = Calls[r]]
  BY <1>2, CallMoves DEF Calls
<1>4. Calls' = Calls
  BY <1>3 DEF Calls
<1> QED
  BY <1>4, DirectoryStays

-----------------------------------------------------------------------------
LEMMA BeginRefines ==
  ASSUME IInv, NEW r \in Req, NEW e \in Email, NEW n \in Name, BeginRegister(r, e, n)
  PROVE  Directory!Next
<1> DEFINE q == [Idle EXCEPT !.pc = "email", !.op = "register", !.email = e, !.name = n]
<1>1. /\ req[r].pc = "idle" /\ req' = [req EXCEPT ![r] = q] /\ user' = user
  BY DEF BeginRegister, tables
<1>2. /\ q \in Request
      /\ q.pc = "email" /\ q.op = "register" /\ q.email = e /\ q.name = n /\ q.user = None
  BY DEF Idle, Request, Label
<1> HIDE DEF q
<1>3. CallAs(q) = [state |-> "asked", email |-> e, name |-> n]
  BY <1>2, CallIs DEF Asking
<1>4. CallOf(r) = Settled("none")
  BY <1>1, Typed, CallFacts DEF Shape
<1>5. Entries' = Entries
  BY <1>1 DEF Entries, EntryOf
<1>6. Calls' = [Calls EXCEPT ![r] = [state |-> "asked", email |-> e, name |-> n]]
  BY <1>1, <1>2, <1>3, CallMoves
<1>7. Directory!Ask(r, e, n)
  BY <1>4, <1>5, <1>6, DirectoryAsk
<1> QED
  BY <1>7 DEF Directory!Next

(* A look-up that finds nothing leaves the call undecided.                 *)
LEMMA AskingStutters ==
  ASSUME IInv, NEW r \in Req, NEW l \in Label, req[r].pc \in Asking, l \in Asking, Goto(r, l),
         user' = user
  PROVE  UNCHANGED Directory!vars
<1>1. PICK q \in Request :
        /\ req' = [req EXCEPT ![r] = q] /\ req'[r] = q
        /\ q.pc = l /\ q.op = req[r].op /\ q.email = req[r].email /\ q.name = req[r].name
        /\ q.user = req[r].user
  BY GotoEffect
<1>2. req[r].op = "register" /\ req[r].user = None
  BY Typed DEF Shape
<1>3. CallAs(q) = CallOf(r)
  BY <1>1, <1>2, CallIs, CallsAs
<1>4. Calls' = [Calls EXCEPT ![r] = Calls[r]]
  BY <1>1, <1>3, CallMoves DEF Calls
<1>5. Calls' = Calls /\ Entries' = Entries
  BY <1>4 DEF Calls, Entries, EntryOf
<1> QED
  BY <1>5, DirectoryStays

LEMMA ConflictRefines ==
  ASSUME IInv, NEW r \in Req, req[r].pc \in Asking, Decide(r, "conflict"), user' = user,
         EmailTaken(req[r].email) \/ NameTaken(req[r].name)
  PROVE  Directory!Next
<1>1. "conflict" \in Label
  BY DEF Label, Final
<1>2. PICK q \in Request :
        /\ req' = [req EXCEPT ![r] = q] /\ req'[r] = q
        /\ q.pc = "conflict" /\ q.op = req[r].op /\ q.email = None /\ q.name = None
        /\ q.user = req[r].user
  BY <1>1, DecideEffect
<1>3. req[r].op = "register" /\ req[r].user = None
  BY Typed DEF Shape
<1>4. CallAs(q) = Settled("refused")
  BY <1>2, <1>3, CallIs
<1>5. Calls' = [Calls EXCEPT ![r] = Settled("refused")] /\ Entries' = Entries
  BY <1>2, <1>4, CallMoves, ZenonT(60) DEF Entries, EntryOf
<1>6. Directory!Refuse(r)
  BY <1>5, CallFacts, DirectoryRefuse
<1> QED
  BY <1>6 DEF Directory!Next

LEMMA InsertRefines ==
  ASSUME IInv, NEW r \in Req, NEW a \in Account, req[r].pc = "insert",
         ~EmailTaken(req[r].email), ~NameTaken(req[r].name), user[a] = NoUser,
         AddUser(r, a, ~RequireConfirmation)
  PROVE  Directory!Next
<1> DEFINE u == [status |-> "present", email |-> req[r].email, name |-> req[r].name,
                 confirmed |-> ~RequireConfirmation]
           q == [Idle EXCEPT !.pc = "log", !.op = "register", !.user = a]
           e == [status |-> "present", email |-> req[r].email, name |-> req[r].name]
<1>1. user' = [user EXCEPT ![a] = u] /\ req' = [req EXCEPT ![r] = q]
  BY DEF AddUser
<1>2. /\ q \in Request /\ q.pc = "log" /\ q.op = "register" /\ q.email = None
      /\ q.name = None /\ q.user # None
  BY Typed DEF Idle, Request, Label
<1> HIDE DEF q
<1>3. CallAs(q) = Settled("added")
  BY <1>2, CallIs
<1>4. Calls' = [Calls EXCEPT ![r] = Settled("added")]
  BY <1>1, <1>2, <1>3, CallMoves
<1>5. user'[a] = u /\ \A b \in Account : b # a => user'[b] = user[b]
  BY <1>1, Typed
<1>6. \A b \in Account : EntryOf(b)' = IF b = a THEN e ELSE EntryOf(b)
  BY <1>5 DEF EntryOf
<1>7. Entries' = [Entries EXCEPT ![a] = e]
  BY <1>6 DEF Entries
<1>8. EntryOf(a) = Directory!NoEntry
  BY DEF EntryOf, Directory!NoEntry, NoUser
<1>9. Directory!Add(r, a)
  BY <1>4, <1>7, <1>8, CallFacts, DirectoryAdd DEF Asking
<1> QED
  BY <1>9 DEF Directory!Next

LEMMA AbortRefines ==
  ASSUME IInv, NEW r \in Req, Abort(r)
  PROVE  [Directory!Next]_(Directory!vars)
<1>1. req[r].pc \notin Final /\ Decide(r, "error") /\ user' = user
  BY DEF Abort, tables
<1>2. "error" \in Label
  BY DEF Label, Final
<1>3. PICK q \in Request :
        /\ req' = [req EXCEPT ![r] = q] /\ req'[r] = q
        /\ q.pc = "error" /\ q.op = req[r].op /\ q.email = None /\ q.name = None
        /\ q.user = req[r].user
  BY <1>1, <1>2, DecideEffect
<1>4. Entries' = Entries
  BY <1>1 DEF Entries, EntryOf
<1>5. CASE req[r].op = "register" /\ req[r].user = None
  <2>1. req[r].pc \in Asking
    BY <1>1, <1>5, CallFacts
  <2>2. CallAs(q) = Settled("failed")
    BY <1>3, <1>5, CallIs
  <2>3. Calls' = [Calls EXCEPT ![r] = Settled("failed")]
    BY <1>3, <2>2, CallMoves, ZenonT(60)
  <2>4. Directory!Fail(r)
    BY <1>4, <2>1, <2>3, CallFacts, DirectoryFail
  <2> QED
    BY <2>4 DEF Directory!Next
<1>6. CASE req[r].op # "register" \/ req[r].user # None
  <2>1. req[r].pc \notin Asking
    BY <1>6, Typed DEF Shape
  <2> QED
    BY <1>3, <1>4, <1>6, <2>1, DecidedStutters
<1> QED
  BY <1>5, <1>6

LEMMA FinishRefines ==
  ASSUME IInv, NEW r \in Req, Finish(r)
  PROVE  [Directory!Next]_(Directory!vars)
<1>1. req[r].pc \in Final /\ req' = [req EXCEPT ![r] = Idle] /\ user' = user
  BY DEF Finish, tables
<1>2. Idle \in Request /\ Idle.op = "none" /\ Idle.email = None /\ Idle.name = None
  BY DEF Idle, Request, Label
<1>3. Calls' = [Calls EXCEPT ![r] = Settled("none")] /\ Entries' = Entries
  <2>1. CallAs(Idle) = Settled("none")
    BY <1>2, CallIs
  <2>2. Entries' = Entries
    BY <1>1 DEF Entries, EntryOf
  <2> QED
    BY <1>1, <1>2, <2>1, <2>2, CallMoves
<1>4. CASE req[r].op = "register"
  <2>1. Directory!Return(r)
    BY <1>1, <1>3, <1>4, CallFacts, DirectoryReturn
  <2> QED
    BY <2>1 DEF Directory!Next
<1>5. CASE req[r].op # "register"
  <2>1. Calls' = [Calls EXCEPT ![r] = Calls[r]]
    BY <1>3, <1>5, CallFacts DEF Calls
  <2>2. Calls' = Calls
    BY <2>1 DEF Calls
  <2> QED
    BY <1>3, <2>2, DirectoryStays
<1> QED
  BY <1>4, <1>5

(* The steps of a request that neither ask nor decide nor return.          *)
LEMMA LaterStutters ==
  ASSUME IInv, NEW r \in Req,
         \/ LogEvent(r)
         \/ PublishCreated(r)
         \/ SaveToken(r)
         \/ LookupUser(r)
         \/ ConfirmUser(r)
  PROVE  UNCHANGED Directory!vars
<1>1. /\ req[r].pc \in {"log", "publish", "token", "lookup", "confirm"}
      /\ \E l \in {"error", "confirmed", "publish", "token", "created", "confirm", "invalid",
                   "log"} : Goto(r, l)
      /\ \/ user' = user
         \/ user' = [user EXCEPT ![req[r].user].confirmed = TRUE]
  BY DEF LogEvent, PublishCreated, SaveToken, LookupUser, ConfirmUser, tables, Mine
<1>2. {"error", "confirmed", "publish", "token", "created", "confirm", "invalid", "log"}
        \subseteq Label
  BY DEF Label, Final
<1>3. PICK l \in Label : Goto(r, l)
  BY <1>1, <1>2
<1>4. PICK q \in Request :
        /\ req' = [req EXCEPT ![r] = q] /\ req'[r] = q
        /\ q.pc = l /\ q.op = req[r].op /\ q.email = req[r].email /\ q.name = req[r].name
        /\ q.user = req[r].user
  BY <1>3, GotoEffect
<1>5. q.user \in Account /\ q.user # None
  <2>1. req[r].pc \in {"log", "publish", "token", "lookup", "confirm"}
    BY <1>1
  <2>2. q.user \in Account
    BY <1>4, <2>1, AccountMoves
  <2> QED
    BY <2>2, Typed
<1>6. \A a \in Account : EntryOf(a)' = EntryOf(a)
  BY <1>1, <1>4, <1>5, Typed DEF EntryOf
<1>7. Entries' = Entries
  BY <1>6 DEF Entries
<1> QED
  BY <1>1, <1>4, <1>5, <1>7, DecidedStutters DEF Asking

LEMMA VerifyStutters ==
  ASSUME IInv, NEW r \in Req, NEW a \in Account, VerifyToken(r, a)
  PROVE  UNCHANGED Directory!vars
<1> DEFINE l == IF a \in token THEN "lookup" ELSE "invalid"
           q == [Idle EXCEPT !.op = "confirm", !.user = a, !.pc = l]
<1>1. req[r].pc = "idle" /\ req' = [req EXCEPT ![r] = q] /\ user' = user
  BY DEF VerifyToken, tables
<1>2. l \in Label
  BY DEF Label, Final
<1> HIDE DEF l
<1>3. q \in Request /\ q.op = "confirm" /\ q.email = None /\ q.name = None
  BY <1>2 DEF Idle, Request
<1> HIDE DEF q
<1>4. CallAs(q) = CallOf(r)
  BY <1>1, <1>3, Typed, CallIs, CallFacts DEF Shape
<1>5. Calls' = [Calls EXCEPT ![r] = Calls[r]]
  BY <1>1, <1>3, <1>4, CallMoves DEF Calls
<1>6. Calls' = Calls /\ Entries' = Entries
  BY <1>1, <1>5 DEF Calls, Entries, EntryOf
<1> QED
  BY <1>6, DirectoryStays

LEMMA DeleteRefines ==
  ASSUME IInv, NEW a \in Account, DeleteUser(a)
  PROVE  Directory!Next
<1> DEFINE u == [NoUser EXCEPT !.status = "deleted"]
           e == [status |-> "deleted", email |-> None, name |-> None]
<1>1. Present(a) /\ user' = [user EXCEPT ![a] = u] /\ req' = req
  BY DEF DeleteUser
<1>2. u.status = "deleted" /\ u.email = None /\ u.name = None
  BY DEF NoUser
<1> HIDE DEF u
<1>3. user'[a] = u /\ \A b \in Account : b # a => user'[b] = user[b]
  BY <1>1 DEF IInv, TypeOK
<1>4. \A b \in Account : EntryOf(b)' = IF b = a THEN e ELSE EntryOf(b)
  BY <1>2, <1>3 DEF EntryOf
<1>5. Entries' = [Entries EXCEPT ![a] = e]
  BY <1>4 DEF Entries
<1>6. Calls' = Calls
  BY <1>1 DEF Calls, CallOf, CallState, Mine
<1>7. Directory!Remove(a)
  BY <1>1, <1>5, <1>6, DirectoryRemove
<1> QED
  BY <1>7 DEF Directory!Next

LEMMA NextRefines == IInv /\ [Next]_vars => [Directory!Next]_(Directory!vars)
<1> SUFFICES ASSUME IInv, [Next]_vars
             PROVE  [Directory!Next]_(Directory!vars)
  OBVIOUS
<1>1. ASSUME user' = user, req' = req
      PROVE  UNCHANGED Directory!vars
  <2>1. Entries' = Entries /\ Calls' = Calls
    BY <1>1 DEF Entries, EntryOf, Calls, CallOf, CallState, Mine
  <2> QED
    BY <2>1, DirectoryStays
<1>2. CASE UNCHANGED vars
  BY <1>1, <1>2 DEF vars, tables
<1>3. ASSUME NEW r \in Req, CheckEmail(r) \/ CheckName(r)
      PROVE  [Directory!Next]_(Directory!vars)
  <2>1. /\ req[r].pc \in Asking /\ user' = user
        /\ \/ \E l \in {"name", "insert"} : Goto(r, l)
           \/ Decide(r, "conflict") /\ (EmailTaken(req[r].email) \/ NameTaken(req[r].name))
    BY <1>3 DEF CheckEmail, CheckName, Asking, tables
  <2>2. "name" \in Label /\ "insert" \in Label /\ "name" \in Asking /\ "insert" \in Asking
    BY DEF Label, Asking
  <2> QED
    BY <2>1, <2>2, AskingStutters, ConflictRefines
<1>4. ASSUME NEW r \in Req, InsertUser(r)
      PROVE  [Directory!Next]_(Directory!vars)
  BY <1>4, ConflictRefines, InsertRefines DEF InsertUser, Asking
<1>5. ASSUME NEW r \in Req, Arrive(r) \/ Advance(r) \/ Abort(r)
      PROVE  [Directory!Next]_(Directory!vars)
  BY <1>3, <1>4, <1>5, BeginRefines, VerifyStutters, LaterStutters, FinishRefines, AbortRefines
  DEF Arrive, Advance
<1>6. ASSUME NEW a \in Account, MailStep(a) \/ ExpireToken(a)
      PROVE  [Directory!Next]_(Directory!vars)
  BY <1>1, <1>6 DEF MailStep, ExpireToken, tables
<1> QED
  BY <1>2, <1>5, <1>6, DeleteRefines DEF Next

(* However registrations overlap, fail and meet deletions, each call is    *)
(* decided in one instant of a directory in which no two accounts share an *)
(* address or a name: it is refused only when one of the two is taken.     *)
THEOREM ImplementsDirectory == Spec => DirectorySpec
<1>1. Init => Directory!Init
  <2> SUFFICES ASSUME Init
               PROVE  Directory!Init
    OBVIOUS
  <2>1. \A a \in Account : EntryOf(a) = Directory!NoEntry
    BY DEF Init, EntryOf, Directory!NoEntry, NoUser
  <2>2. \A r \in Req : CallOf(r) = Directory!NoCall
    BY SettledCalls, CallIs, CallsAs DEF Init, Idle
  <2> QED
    BY <2>1, <2>2 DEF Directory!Init, EntryOf, CallOf
<1> QED
  BY <1>1, NextRefines, RegistrationInvariant, PTL DEF Spec, DirectorySpec, Directory!Spec
=============================================================================
