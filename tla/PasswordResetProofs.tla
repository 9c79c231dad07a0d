------------------------ MODULE PasswordResetProofs ------------------------
(***************************************************************************)
(* Proofs about PasswordReset for any number of requests, tokens, users    *)
(* and failures: the types, and that a token is used up exactly by         *)
(* confirmations that have written a password.                             *)
(*                                                                         *)
(* The invariant speaks of each request on its own, so a step is examined  *)
(* in two parts: tables only move forward (Monotone), which keeps what the *)
(* other requests rely on, and the request that moves gets to a place      *)
(* where its own invariant holds.                                          *)
(***************************************************************************)
EXTENDS PasswordReset, FiniteSetTheorems, TLAPS

(* What the invariant says of one request.                                 *)
RequestInv(r) ==
    /\ Holds(r)
    /\ Progress(r)
    /\ r \in stale => /\ req[r].pc \in {"check", "verify", "refused", "error"}
                      /\ req[r].pc \in {"check", "verify"} => ~Valid(req[r].token)
    /\ req[r].pc = "done" /\ req[r].op = "confirm" =>
        /\ writes[req[r].token] > 0
        /\ status[req[r].token] \in {"used", "gone"}

(* The invariant of the tables.                                            *)
TableInv == TypeOK /\ MailedTokens /\ UsedMeansWritten

(* What no step takes back: a token has been created, it is spent, it is   *)
(* no longer valid, a password was committed under it.                     *)
Monotone ==
    \A t \in Token :
        /\ status[t] # "absent" => status'[t] # "absent"
        /\ status[t] # "absent" /\ ~Valid(t) => ~Valid(t)'
        /\ status[t] \in {"used", "gone"} => status'[t] \in {"used", "gone"}
        /\ writes[t] > 0 => writes'[t] > 0

(* IInv is the two parts together.                                         *)
LEMMA Split == IInv <=> TableInv /\ \A r \in Req : RequestInv(r)
BY DEF IInv, TableInv, RequestInv, StaysInvalid, StaleTokenNeverWrites, AnsweredMeansSpent,
       TypeOK

(* A request that does not move keeps its invariant.                       *)
LEMMA Unmoved ==
  ASSUME TableInv, Monotone, NEW q \in Req, RequestInv(q),
         req'[q] = req[q], q \in stale' => q \in stale
  PROVE  RequestInv(q)'
BY DEF TableInv, TypeOK, Request, Monotone, RequestInv, Holds, Progress, Valid

(* One request moves.                                                      *)
LEMMA Moves ==
  ASSUME IInv, NEW r \in Req, NEW a, req' = [req EXCEPT ![r] = a],
         stale' \subseteq stale \cup {r}, TableInv', Monotone, RequestInv(r)'
  PROVE  IInv'
<1>1. TableInv /\ \A q \in Req : RequestInv(q)
  BY Split
<1>2. ASSUME NEW q \in Req, q # r
      PROVE  RequestInv(q)'
  <2>1. req'[q] = req[q]
    BY <1>1, <1>2 DEF TableInv, TypeOK
  <2> QED
    BY <1>1, <1>2, <2>1, Unmoved
<1>3. \A q \in Req : RequestInv(q)'
  BY <1>2
<1> QED
  BY <1>3 DEF IInv, TableInv, RequestInv, StaysInvalid, StaleTokenNeverWrites,
              AnsweredMeansSpent, TypeOK

(* No request moves.                                                       *)
LEMMA Stands ==
  ASSUME IInv, req' = req, stale' = stale, TableInv', Monotone
  PROVE  IInv'
<1>1. TableInv /\ \A q \in Req : RequestInv(q)
  BY Split
<1>2. ASSUME NEW q \in Req
      PROVE  RequestInv(q)'
  BY <1>1, <1>2, Unmoved
<1> QED
  BY <1>2 DEF IInv, TableInv, RequestInv, StaysInvalid, StaleTokenNeverWrites,
              AnsweredMeansSpent, TypeOK

(* Going to a label changes the label and nothing else.                    *)
LEMMA GotoEffect ==
  ASSUME req \in [Req -> Request], NEW r \in Req, NEW label \in Label, Goto(r, label)
  PROVE  /\ [req[r] EXCEPT !.pc = label] \in Request
         /\ req' = [req EXCEPT ![r] = [req[r] EXCEPT !.pc = label]]
         /\ req' \in [Req -> Request]
         /\ req'[r].pc = label /\ req'[r].op = req[r].op
         /\ req'[r].token = req[r].token /\ req'[r].user = req[r].user
BY DEF Goto, Request

(* A request that only goes on to a label where its invariant holds.       *)
LEMMA GoesOn ==
  ASSUME IInv, NEW r \in Req, NEW label \in Label, Goto(r, label),
         UNCHANGED <<status, owner, expired, mail, account, writes, stale>>,
         failures' \in Nat,
         label \notin {"idle", "find", "check", "queue", "refresh"},
         label = "create" => req[r].pc = "find",
         label = "verify" => req[r].pc = "check",
         label \in {"user", "write", "select", "mark", "answer"} =>
            req[r].op = "confirm" /\ r \notin stale,
         label \in {"select", "mark"} => writes[req[r].token] > 0,
         label = "answer" => /\ writes[req[r].token] > 0
                             /\ status[req[r].token] \in {"used", "gone"},
         label = "done" => /\ r \notin stale
                           /\ req[r].op = "confirm" => req[r].pc = "answer"
  PROVE  IInv'
<1>1. TableInv /\ RequestInv(r)
  BY Split
<1>2. /\ req' = [req EXCEPT ![r] = [req[r] EXCEPT !.pc = label]]
      /\ req' \in [Req -> Request]
      /\ req'[r].pc = label /\ req'[r].op = req[r].op /\ req'[r].token = req[r].token
  BY <1>1, GotoEffect DEF TableInv, TypeOK
<1>3. TableInv'
  BY <1>1, <1>2 DEF TableInv, TypeOK, MailedTokens, UsedMeansWritten, InTable
<1>4. Monotone
  BY DEF Monotone, Valid
<1>5. RequestInv(r)'
  BY <1>1, <1>2 DEF RequestInv, Holds, Progress, Valid, Label, Final
<1> QED
  BY <1>2, <1>3, <1>4, <1>5, Moves

-----------------------------------------------------------------------------
(* The steps of a request                                                  *)

(* Steps that only go on to another label.                                 *)
LEMMA GoingOn ==
  ASSUME IInv, NEW r \in Req,
         \/ FindUser(r) \/ CheckLockout(r) \/ GetUser(r) \/ RefreshUser(r)
         \/ SelectToken(r) \/ Answer(r) \/ Abort(r)
  PROVE  IInv'
<1>1. TableInv /\ RequestInv(r)
  BY Split
<1> USE DEF TableInv, TypeOK, RequestInv, Holds, Progress, Label, Final
<1>2. CASE FindUser(r)
  BY <1>1, <1>2, GoesOn DEF FindUser
<1>3. CASE CheckLockout(r)
  BY <1>1, <1>3, GoesOn DEF CheckLockout
<1>4. CASE GetUser(r)
  BY <1>1, <1>4, GoesOn DEF GetUser
<1>5. CASE RefreshUser(r)
  BY <1>1, <1>5, GoesOn DEF RefreshUser
<1>6. CASE SelectToken(r)
  <2>1. ~InTable(req[r].token) => status[req[r].token] \in {"used", "gone"}
    BY <1>1, <1>6 DEF SelectToken, InTable
  <2> QED
    BY <1>1, <1>6, <2>1, GoesOn DEF SelectToken
<1>7. CASE Answer(r)
  BY <1>1, <1>7, GoesOn DEF Answer
<1>8. CASE Abort(r)
  BY <1>1, <1>8, GoesOn DEF Abort
<1> QED
  BY <1>2, <1>3, <1>4, <1>5, <1>6, <1>7, <1>8

(* A request arrives at a free slot, or a finished one frees it.           *)
LEMMA SlotStep ==
  ASSUME IInv, NEW r \in Req, Arrive(r) \/ Finish(r)
  PROVE  IInv'
<1>1. TableInv /\ RequestInv(r)
  BY Split
<1> USE DEF TableInv, TypeOK, RequestInv, Holds, Progress
<1>2. Monotone \/ ~UNCHANGED <<status, expired, writes>>
  BY DEF Monotone, Valid
<1>3. ASSUME NEW u \in User, BeginRequest(r, u)
      PROVE  IInv'
  <2> DEFINE a == [Idle EXCEPT !.pc = "find", !.op = "request", !.user = u]
  <2>1. /\ a \in Request /\ a.pc = "find" /\ a.op = "request"
    BY DEF Idle, Request, Label
  <2>2. /\ req' = [req EXCEPT ![r] = a] /\ req[r].pc = "idle"
        /\ UNCHANGED <<status, owner, expired, mail, account, writes, stale, failures>>
    BY <1>3 DEF BeginRequest
  <2> HIDE DEF a
  <2>3. TableInv' /\ RequestInv(r)'
    BY <1>1, <2>1, <2>2 DEF MailedTokens, UsedMeansWritten, InTable
  <2> QED
    BY <1>2, <2>2, <2>3, Moves
<1>4. ASSUME NEW t \in Token, BeginConfirm(r, t)
      PROVE  IInv'
  <2> DEFINE a == [Idle EXCEPT !.pc = "check", !.op = "confirm", !.token = t]
  <2>1. /\ a \in Request /\ a.pc = "check" /\ a.op = "confirm" /\ a.token = t
    BY DEF Idle, Request, Label
  <2>2. /\ req' = [req EXCEPT ![r] = a] /\ mail[t] = "sent"
        /\ stale' = IF Valid(t) THEN stale \ {r} ELSE stale \cup {r}
        /\ UNCHANGED <<status, owner, expired, mail, account, writes, failures>>
    BY <1>4 DEF BeginConfirm
  <2> HIDE DEF a
  <2>3. TableInv'
    BY <1>1, <2>1, <2>2 DEF MailedTokens, UsedMeansWritten, InTable
  <2>4. RequestInv(r)'
    BY <1>1, <2>1, <2>2 DEF MailedTokens, Valid
  <2> QED
    BY <1>2, <2>2, <2>3, <2>4, Moves
<1>5. CASE Finish(r)
  <2>1. /\ Idle \in Request /\ Idle.pc = "idle" /\ Idle.op = "none"
    BY DEF Idle, Request, Label
  <2>2. /\ req' = [req EXCEPT ![r] = Idle] /\ stale' = stale \ {r}
        /\ UNCHANGED <<status, owner, expired, mail, account, writes, failures>>
    BY <1>5 DEF Finish
  <2>3. TableInv' /\ RequestInv(r)'
    BY <1>1, <2>1, <2>2 DEF MailedTokens, UsedMeansWritten, InTable
  <2> QED
    BY <1>2, <2>2, <2>3, Moves
<1> QED
  BY <1>3, <1>4, <1>5 DEF Arrive

(* create_token enters a fresh token.                                      *)
LEMMA CreateStep ==
  ASSUME IInv, NEW r \in Req, CreateToken(r)
  PROVE  IInv'
<1>1. TableInv /\ RequestInv(r)
  BY Split
<1> USE DEF TableInv, TypeOK, RequestInv, Holds, Progress
<1>2. CASE req[r].user \in account
  <2>1. PICK t \in Token :
          /\ status[t] = "absent"
          /\ status' = [status EXCEPT ![t] = "fresh"]
          /\ owner' = [owner EXCEPT ![t] = req[r].user]
          /\ req' = [req EXCEPT ![r] = [req[r] EXCEPT !.pc = "queue", !.token = t]]
    BY <1>2 DEF CreateToken
  <2>2. req[r].pc = "create" /\ UNCHANGED <<expired, mail, account, writes, stale, failures>>
    BY DEF CreateToken
  <2> DEFINE a == [req[r] EXCEPT !.pc = "queue", !.token = t]
  <2>3. a \in Request /\ a.pc = "queue" /\ a.op = req[r].op /\ a.token = t
    BY <1>1 DEF Request, Label
  <2>4. req' = [req EXCEPT ![r] = a]
    BY <2>1
  <2> HIDE DEF a
  <2>5. TableInv'
    BY <1>1, <1>2, <2>1, <2>2, <2>3, <2>4 DEF MailedTokens, UsedMeansWritten, InTable
  <2>6. Monotone
    BY <1>1, <2>1, <2>2 DEF Monotone, Valid
  <2>7. RequestInv(r)'
    BY <1>1, <2>1, <2>2, <2>3, <2>4
  <2> QED
    BY <2>2, <2>4, <2>5, <2>6, <2>7, Moves
<1>3. CASE req[r].user \notin account
  BY <1>1, <1>3, GoesOn DEF CreateToken, Label, Final
<1> QED
  BY <1>2, <1>3

(* The mail is queued for a token that was created.                        *)
LEMMA QueueStep ==
  ASSUME IInv, NEW r \in Req, QueueMail(r)
  PROVE  IInv'
<1>1. TableInv /\ RequestInv(r)
  BY Split
<1>0. req \in [Req -> Request] /\ "done" \in Label
  BY <1>1 DEF TableInv, TypeOK, Label, Final
<1>2. /\ req[r].pc = "queue" /\ Goto(r, "done")
      /\ mail' = mail \/ mail' = [mail EXCEPT ![req[r].token] = "queued"]
      /\ UNCHANGED <<status, owner, expired, account, writes, stale, failures>>
  BY DEF QueueMail
<1>3. /\ req' = [req EXCEPT ![r] = [req[r] EXCEPT !.pc = "done"]]
      /\ req' \in [Req -> Request]
      /\ req'[r].pc = "done" /\ req'[r].op = req[r].op
  BY <1>0, <1>2, GotoEffect
<1> USE DEF TableInv, TypeOK, RequestInv, Holds, Progress
<1>4. TableInv'
  BY <1>1, <1>2, <1>3 DEF MailedTokens, UsedMeansWritten, InTable
<1>5. Monotone
  BY <1>2 DEF Monotone, Valid
<1>6. RequestInv(r)'
  BY <1>1, <1>2, <1>3
<1> QED
  BY <1>2, <1>3, <1>4, <1>5, <1>6, Moves

(* verify_token lets only a valid token through, so no stale one.          *)
LEMMA VerifyStep ==
  ASSUME IInv, NEW r \in Req, VerifyToken(r)
  PROVE  IInv'
<1>1. TableInv /\ RequestInv(r)
  BY Split
<1> USE DEF TableInv, TypeOK, RequestInv, Holds, Progress
<1>2. CASE Valid(req[r].token)
  <2> DEFINE a == [req[r] EXCEPT !.pc = "user", !.user = owner[req[r].token]]
  <2>1. /\ req[r].pc = "verify" /\ req' = [req EXCEPT ![r] = a]
        /\ UNCHANGED <<status, owner, expired, mail, account, writes, stale, failures>>
    BY <1>2 DEF VerifyToken
  <2>2. a \in Request /\ a.pc = "user" /\ a.op = req[r].op /\ a.token = req[r].token
    <3>1. req[r] \in Request
      BY <1>1
    <3>2. "user" \in Label
      BY DEF Label
    <3>3. owner[req[r].token] \in User \cup {None}
      BY <1>1, <2>1 DEF Request
    <3> QED
      BY <3>1, <3>2, <3>3 DEF Request
  <2> HIDE DEF a
  <2>3. TableInv' /\ RequestInv(r)'
    BY <1>1, <1>2, <2>1, <2>2 DEF MailedTokens, UsedMeansWritten, InTable
  <2>4. Monotone
    BY <2>1 DEF Monotone, Valid
  <2> QED
    BY <2>1, <2>3, <2>4, Moves
<1>3. CASE ~Valid(req[r].token)
  BY <1>1, <1>3, GoesOn DEF VerifyToken, Label, Final
<1> QED
  BY <1>2, <1>3

(* The commit of the password is what a later mark relies on.              *)
LEMMA WriteStep ==
  ASSUME IInv, NEW r \in Req, WritePassword(r)
  PROVE  IInv'
<1>1. TableInv /\ RequestInv(r)
  BY Split
<1>0. req \in [Req -> Request] /\ "refresh" \in Label
  BY <1>1 DEF TableInv, TypeOK, Label
<1>4. ASSUME Goto(r, "refresh")
      PROVE  /\ req' = [req EXCEPT ![r] = [req[r] EXCEPT !.pc = "refresh"]]
             /\ req' \in [Req -> Request]
             /\ req'[r].pc = "refresh" /\ req'[r].op = req[r].op
             /\ req'[r].token = req[r].token
  BY <1>0, <1>4, GotoEffect
<1> USE DEF TableInv, TypeOK, RequestInv, Holds, Progress
<1>2. CASE req[r].user \in account
  <2> DEFINE t == req[r].token
             w == writes[t] + 1
  <2>1. /\ req[r].pc = "write" /\ Goto(r, "refresh")
        /\ writes' = [writes EXCEPT ![t] = w]
        /\ UNCHANGED <<status, owner, expired, mail, account, stale, failures>>
    BY <1>2 DEF WritePassword
  <2>2. w \in Nat /\ w > 0
    BY <1>1, <2>1
  <2>3. /\ req' = [req EXCEPT ![r] = [req[r] EXCEPT !.pc = "refresh"]]
        /\ req' \in [Req -> Request]
        /\ req'[r].pc = "refresh" /\ req'[r].op = req[r].op /\ req'[r].token = t
    BY <1>4, <2>1
  <2> HIDE DEF w
  <2>4. TableInv'
    BY <1>1, <2>1, <2>2, <2>3 DEF MailedTokens, UsedMeansWritten, InTable
  <2>5. Monotone
    BY <1>1, <2>1, <2>2 DEF Monotone, Valid
  <2>6. RequestInv(r)'
    BY <1>1, <2>1, <2>2, <2>3
  <2> QED
    BY <2>1, <2>3, <2>4, <2>5, <2>6, Moves
<1>3. CASE req[r].user \notin account
  BY <1>1, <1>3, GoesOn DEF WritePassword, Label, Final
<1> QED
  BY <1>2, <1>3

(* mark_token_used spends a token under which a password was committed.    *)
LEMMA MarkStep ==
  ASSUME IInv, NEW r \in Req, MarkUsed(r)
  PROVE  IInv'
<1>1. TableInv /\ RequestInv(r)
  BY Split
<1> USE DEF TableInv, TypeOK, RequestInv, Holds, Progress
<1>2. CASE InTable(req[r].token)
  <2> DEFINE t == req[r].token
  <2>1. /\ req[r].pc = "mark" /\ Goto(r, "answer")
        /\ status' = [status EXCEPT ![t] = "used"]
        /\ UNCHANGED <<owner, expired, mail, account, writes, stale, failures>>
    BY <1>2 DEF MarkUsed
  <2>2. /\ req' = [req EXCEPT ![r] = [req[r] EXCEPT !.pc = "answer"]]
        /\ req' \in [Req -> Request]
        /\ req'[r].pc = "answer" /\ req'[r].op = req[r].op /\ req'[r].token = t
    <3>1. "answer" \in Label /\ req \in [Req -> Request] /\ Goto(r, "answer")
      BY <1>1, <2>1 DEF Label
    <3> QED
      BY <3>1, GotoEffect
  <2>3. writes[t] > 0
    BY <1>1, <2>1
  <2>4. TableInv'
    BY <1>1, <1>2, <2>1, <2>2, <2>3 DEF MailedTokens, UsedMeansWritten, InTable
  <2>5. status[t] \in {"fresh", "used"}
    BY <1>2 DEF InTable
  <2>6. Monotone
    BY <1>1, <2>1, <2>5 DEF Monotone, Valid
  <2>7. RequestInv(r)'
    BY <1>1, <2>1, <2>2, <2>3
  <2> QED
    BY <2>1, <2>2, <2>4, <2>6, <2>7, Moves
<1>3. CASE ~InTable(req[r].token)
  BY <1>1, <1>3, GoesOn DEF MarkUsed, Label, Final
<1> QED
  BY <1>2, <1>3

-----------------------------------------------------------------------------
(* The steps of the environment                                            *)

LEMMA EnvironmentStep ==
  ASSUME IInv,
         \/ \E t \in Token : SendMail(t) \/ Expire(t)
         \/ Cleanup
         \/ \E u \in User : DeleteUser(u)
  PROVE  IInv'
<1>1. TableInv
  BY Split
<1> USE DEF TableInv, TypeOK, MailedTokens, UsedMeansWritten, InTable
<1>2. ASSUME NEW t \in Token, SendMail(t)
      PROVE  IInv'
  <2>1. TableInv'
    BY <1>1, <1>2 DEF SendMail
  <2>2. Monotone
    BY <1>2 DEF SendMail, Monotone, Valid
  <2> QED
    BY <1>2, <2>1, <2>2, Stands DEF SendMail
<1>3. ASSUME NEW t \in Token, Expire(t)
      PROVE  IInv'
  <2>1. TableInv'
    BY <1>1, <1>3 DEF Expire
  <2>2. Monotone
    BY <1>3 DEF Expire, Monotone, Valid
  <2> QED
    BY <1>3, <2>1, <2>2, Stands DEF Expire
<1>4. ASSUME NEW T, \A t \in T : t \in Token => InTable(t), DeleteRows(T),
             account' \subseteq account,
             \A t \in Token : InTable(t) /\ owner[t] \notin account' => t \in T,
             UNCHANGED <<owner, expired, mail, writes, req, stale, failures>>
      PROVE  IInv'
  <2>1. TableInv'
    BY <1>1, <1>4 DEF DeleteRows
  <2>2. Monotone
    BY <1>1, <1>4 DEF DeleteRows, InTable, Monotone, Valid
  <2> QED
    BY <1>4, <2>1, <2>2, Stands
<1>5. CASE Cleanup
  <2> DEFINE T == {t \in expired : InTable(t)}
  <2>1. /\ DeleteRows(T) /\ account' = account
        /\ UNCHANGED <<owner, expired, mail, writes, req, stale, failures>>
    BY <1>5 DEF Cleanup
  <2>2. /\ \A t \in T : t \in Token => InTable(t)
        /\ account' \subseteq account
        /\ \A t \in Token : InTable(t) /\ owner[t] \notin account' => t \in T
    BY <1>1, <2>1
  <2> HIDE DEF T
  <2> QED
    BY <1>4, <2>1, <2>2
<1>6. ASSUME NEW u \in User, DeleteUser(u)
      PROVE  IInv'
  <2> DEFINE T == {t \in Token : InTable(t) /\ owner[t] = u}
  <2>1. /\ DeleteRows(T) /\ account' = account \ {u}
        /\ UNCHANGED <<owner, expired, mail, writes, req, stale, failures>>
    BY <1>6 DEF DeleteUser
  <2>2. /\ \A t \in T : t \in Token => InTable(t)
        /\ account' \subseteq account
        /\ \A t \in Token : InTable(t) /\ owner[t] \notin account' => t \in T
    BY <1>1, <2>1
  <2> HIDE DEF T
  <2> QED
    BY <1>4, <2>1, <2>2
<1> QED
  BY <1>2, <1>3, <1>5, <1>6

-----------------------------------------------------------------------------
(* The theorems                                                            *)

(* A step keeps the invariant.                                             *)
LEMMA NextStep == IInv /\ [Next]_vars => IInv'
<1> SUFFICES ASSUME IInv, [Next]_vars PROVE IInv'
  OBVIOUS
<1>1. CASE UNCHANGED vars
  BY <1>1 DEF vars, IInv, TypeOK, MailedTokens, Holds, Progress, StaysInvalid, Valid,
              StaleTokenNeverWrites, UsedMeansWritten, AnsweredMeansSpent, InTable
<1> QED
  BY <1>1, GoingOn, SlotStep, CreateStep, QueueStep, VerifyStep, WriteStep, MarkStep,
     EnvironmentStep DEF Next, Advance

(* The invariant of PasswordReset is inductive.                            *)
THEOREM ResetInvariant == Spec => []IInv
<1>1. Init => IInv
  <2> SUFFICES ASSUME Init PROVE IInv
    OBVIOUS
  <2>1. Idle \in Request /\ Idle.pc = "idle" /\ Idle.op = "none"
    BY DEF Idle, Request, Label
  <2> QED
    BY <2>1, PasswordResetAssumption
       DEF Init, IInv, TypeOK, InTable, MailedTokens, Holds, Progress, StaysInvalid,
           StaleTokenNeverWrites, UsedMeansWritten, AnsweredMeansSpent
<1> QED
  BY <1>1, NextStep, PTL DEF Spec

(* A confirmation that answered 200 has committed a password and spent its *)
(* token, whatever ran beside it.                                          *)
THEOREM AnsweredMeansSpentAlways == Spec => []AnsweredMeansSpent
<1>1. IInv => AnsweredMeansSpent
  BY DEF IInv
<1> QED
  BY <1>1, ResetInvariant, PTL

(* No crash or interleaving of confirm_password_reset uses up a token      *)
(* without a password having been committed under it.                      *)
THEOREM UsedMeansWrittenAlways == Spec => []UsedMeansWritten
<1>1. IInv => UsedMeansWritten
  BY DEF IInv
<1> QED
  BY <1>1, ResetInvariant, PTL

(* verify_token keeps every token that was already used, expired or        *)
(* deleted when the confirmation arrived away from the password.           *)
THEOREM StaleTokenNeverWritesAlways == Spec => []StaleTokenNeverWrites
<1>1. IInv => StaleTokenNeverWrites
  BY DEF IInv
<1> QED
  BY <1>1, ResetInvariant, PTL


-----------------------------------------------------------------------------
(* How often a token can serve.  While its row is fresh, a password that   *)
(* was committed under it is accounted for by a request that has not come  *)
(* to mark_token_used yet, or by a failure; once the row is used or gone,  *)
(* only the requests that verified it before can still commit.             *)

WillWrite(t) == {r \in Req : req[r].pc \in {"user", "write"} /\ req[r].token = t}

HasWritten(t) ==
    {r \in Req : req[r].pc \in {"refresh", "select", "mark"} /\ req[r].token = t}

CountOK(t) ==
    /\ status[t] = "absent" => writes[t] = 0
    /\ status[t] = "fresh" => writes[t] <= Cardinality(HasWritten(t)) + failures
    /\ status[t] # "fresh" =>
          writes[t] + Cardinality(WillWrite(t)) <= Cardinality(Req) + failures

(* A confirmation past verify_token carries the owner of its token, whose  *)
(* account a fresh row vouches for.                                        *)
OwnerKept ==
    \A r \in Req :
        req[r].pc \in {"user", "write", "refresh", "select", "mark"}
            => owner[req[r].token] = req[r].user

CountInv == OwnerKept /\ \A t \in Token : CountOK(t)

(* Both sets are finite, and no request is in both.                        *)
LEMMA Counted ==
  ASSUME NEW t
  PROVE  /\ IsFiniteSet(WillWrite(t)) /\ IsFiniteSet(HasWritten(t))
         /\ Cardinality(WillWrite(t)) \in Nat /\ Cardinality(HasWritten(t)) \in Nat
         /\ Cardinality(Req) \in Nat
         /\ Cardinality(WillWrite(t)) + Cardinality(HasWritten(t)) <= Cardinality(Req)
<1> DEFINE W == WillWrite(t)
           H == HasWritten(t)
<1>1. W \subseteq Req /\ H \subseteq Req /\ W \cap H = {}
  BY DEF WillWrite, HasWritten
<1> HIDE DEF W, H
<1>2. IsFiniteSet(Req)
  BY PasswordResetAssumption
<1>3. IsFiniteSet(W) /\ IsFiniteSet(H) /\ W \cup H \subseteq Req
  BY <1>1, <1>2, FS_Subset
<1>4. Cardinality(W \cup H) <= Cardinality(Req)
  BY <1>2, <1>3, FS_Subset
<1>5. Cardinality(W \cup H) = Cardinality(W) + Cardinality(H) - Cardinality(W \cap H)
  BY <1>3, FS_Union
<1>6. Cardinality(W \cap H) = 0
  BY <1>1, FS_EmptySet
<1>7. Cardinality(W) \in Nat /\ Cardinality(H) \in Nat /\ Cardinality(Req) \in Nat
  BY <1>2, <1>3, FS_CardinalityType
<1>8. Cardinality(W) + Cardinality(H) <= Cardinality(Req)
  BY <1>4, <1>5, <1>6, <1>7
<1> QED
  BY <1>3, <1>7, <1>8 DEF W, H

(* How those sets grow and shrink from one state to the next.              *)
LEMMA CountsFollow ==
  ASSUME NEW W, NEW H, NEW W1, NEW H1, NEW r,
         IsFiniteSet(W), IsFiniteSet(H), IsFiniteSet(W1), IsFiniteSet(H1)
  PROVE  /\ W1 \subseteq W => Cardinality(W1) <= Cardinality(W)
         /\ H \subseteq H1 => Cardinality(H) <= Cardinality(H1)
         /\ H \ {r} \subseteq H1 => Cardinality(H) <= Cardinality(H1) + 1
         /\ H1 = H \cup {r} /\ r \notin H => Cardinality(H1) = Cardinality(H) + 1
         /\ W1 = W \ {r} /\ r \in W => Cardinality(W) = Cardinality(W1) + 1
<1>1. /\ Cardinality(W) \in Nat /\ Cardinality(H) \in Nat
      /\ Cardinality(W1) \in Nat /\ Cardinality(H1) \in Nat
  BY FS_CardinalityType
<1>2. W1 \subseteq W => Cardinality(W1) <= Cardinality(W)
  BY FS_Subset
<1>3. H \subseteq H1 => Cardinality(H) <= Cardinality(H1)
  BY FS_Subset
<1>4. ASSUME H \ {r} \subseteq H1
      PROVE  Cardinality(H) <= Cardinality(H1) + 1
  <2>1. Cardinality(H \ {r}) <= Cardinality(H1)
    BY <1>4, FS_Subset
  <2>2. CASE r \in H
    <3>1. IsFiniteSet(H \ {r}) /\ Cardinality(H \ {r}) = Cardinality(H) - 1
      BY <2>2, FS_RemoveElement
    <3> QED
      BY <1>1, <2>1, <3>1
  <2>3. CASE r \notin H
    <3>1. H \ {r} = H
      BY <2>3
    <3> QED
      BY <1>1, <2>1, <3>1
  <2> QED
    BY <2>2, <2>3
<1>5. H1 = H \cup {r} /\ r \notin H => Cardinality(H1) = Cardinality(H) + 1
  BY FS_AddElement
<1>6. W1 = W \ {r} /\ r \in W => Cardinality(W) = Cardinality(W1) + 1
  <2> SUFFICES ASSUME W1 = W \ {r}, r \in W
               PROVE  Cardinality(W) = Cardinality(W1) + 1
    OBVIOUS
  <2>1. Cardinality(W1) = Cardinality(W) - 1
    BY FS_RemoveElement
  <2> QED
    BY <1>1, <2>1
<1> QED
  BY <1>2, <1>3, <1>4, <1>5, <1>6

(* A token under which nothing is committed in this step keeps its bound.  *)
LEMMA CountStays ==
  ASSUME TypeOK, NEW t \in Token, CountOK(t), NEW r,
         writes'[t] = writes[t], failures' \in Nat, failures' >= failures,
         status'[t] = "absent" => status[t] = "absent",
         status'[t] = "fresh" => status[t] \in {"absent", "fresh"},
         status'[t] # "fresh" => WillWrite(t)' \subseteq WillWrite(t),
         status[t] = "fresh" /\ status'[t] = "fresh" =>
            \/ HasWritten(t) \subseteq HasWritten(t)'
            \/ HasWritten(t) \ {r} \subseteq HasWritten(t)' /\ failures' = failures + 1
  PROVE  CountOK(t)'
<1> DEFINE W == WillWrite(t)
           H == HasWritten(t)
           W1 == WillWrite(t)'
           H1 == HasWritten(t)'
           N == Cardinality(Req)
<1>1. /\ W1 \subseteq Req /\ H1 \subseteq Req
  BY DEF WillWrite, HasWritten
<1>2. /\ IsFiniteSet(W) /\ IsFiniteSet(H) /\ N \in Nat
      /\ Cardinality(W) + Cardinality(H) <= N
  BY Counted
<1>3. /\ writes[t] \in Nat /\ failures \in Nat
  BY DEF TypeOK
<1>4. /\ status[t] = "absent" => writes[t] = 0
      /\ status[t] = "fresh" => writes[t] <= Cardinality(H) + failures
      /\ status[t] # "fresh" => writes[t] + Cardinality(W) <= N + failures
  BY DEF CountOK
<1>5. /\ status'[t] # "fresh" => W1 \subseteq W
      /\ status[t] = "fresh" /\ status'[t] = "fresh" =>
            \/ H \subseteq H1
            \/ H \ {r} \subseteq H1 /\ failures' = failures + 1
  OBVIOUS
<1> HIDE DEF W, H, W1, H1, N
<1>6. IsFiniteSet(W1) /\ IsFiniteSet(H1)
  BY <1>1, PasswordResetAssumption, FS_Subset
<1>7. /\ Cardinality(W) \in Nat /\ Cardinality(H) \in Nat
      /\ Cardinality(W1) \in Nat /\ Cardinality(H1) \in Nat
  BY <1>2, <1>6, FS_CardinalityType
<1>8. /\ W1 \subseteq W => Cardinality(W1) <= Cardinality(W)
      /\ H \subseteq H1 => Cardinality(H) <= Cardinality(H1)
      /\ H \ {r} \subseteq H1 => Cardinality(H) <= Cardinality(H1) + 1
  BY <1>2, <1>3, <1>6, CountsFollow
<1>9. status'[t] = "absent" => writes'[t] = 0
  BY <1>4
<1>10. status'[t] = "fresh" => writes'[t] <= Cardinality(H1) + failures'
  <2>1. CASE status[t] = "absent"
    BY <1>3, <1>4, <1>7, <2>1
  <2>2. CASE status[t] = "fresh"
    BY <1>3, <1>4, <1>5, <1>7, <1>8, <2>2
  <2> QED
    BY <2>1, <2>2
<1>11. status'[t] # "fresh" => writes'[t] + Cardinality(W1) <= N + failures'
  <2>1. status'[t] # "fresh" => Cardinality(W1) <= Cardinality(W)
    BY <1>5, <1>8
  <2>2. writes[t] + Cardinality(W) <= N + failures
    BY <1>2, <1>3, <1>4, <1>7
  <2> QED
    BY <1>2, <1>3, <1>7, <2>1, <2>2
<1> QED
  BY <1>9, <1>10, <1>11 DEF CountOK, W, H, W1, H1, N


(* One request moves and commits no password.                              *)
LEMMA CountsOnMove ==
  ASSUME TypeOK, CountInv, NEW r \in Req, NEW a, req' = [req EXCEPT ![r] = a],
         writes' = writes, failures' \in Nat, failures' >= failures,
         \A t \in Token : /\ status'[t] = "absent" => status[t] = "absent"
                          /\ status'[t] = "fresh" => status[t] \in {"absent", "fresh"},
         \/ a.pc \notin {"user", "write"}
         \/ req[r].pc \in {"user", "write"} /\ a.token = req[r].token
         \/ status'[a.token] = "fresh",
         \/ req[r].pc \notin {"refresh", "select", "mark"}
         \/ a.pc \in {"refresh", "select", "mark"} /\ a.token = req[r].token
         \/ status'[req[r].token] # "fresh"
         \/ failures' = failures + 1
  PROVE  \A t \in Token : CountOK(t)'
<1>1. /\ req'[r] = a
      /\ \A q \in Req : q # r => req'[q] = req[q]
  BY DEF TypeOK
<1>2. ASSUME NEW t \in Token
      PROVE  CountOK(t)'
  <2>1. status'[t] # "fresh" => WillWrite(t)' \subseteq WillWrite(t)
    BY <1>1 DEF WillWrite
  <2>2. status[t] = "fresh" /\ status'[t] = "fresh" =>
            \/ HasWritten(t) \subseteq HasWritten(t)'
            \/ HasWritten(t) \ {r} \subseteq HasWritten(t)' /\ failures' = failures + 1
    BY <1>1 DEF HasWritten
  <2> QED
    BY <2>1, <2>2, CountStays DEF CountInv
<1> QED
  BY <1>2

(* No request moves.                                                       *)
LEMMA CountsOnStand ==
  ASSUME TypeOK, CountInv, req' = req, writes' = writes, failures' = failures,
         \A t \in Token : /\ status'[t] = "absent" => status[t] = "absent"
                          /\ status'[t] = "fresh" => status[t] \in {"absent", "fresh"}
  PROVE  \A t \in Token : CountOK(t)'
<1>1. ASSUME NEW t \in Token
      PROVE  CountOK(t)'
  <2>1. WillWrite(t)' = WillWrite(t) /\ HasWritten(t)' = HasWritten(t)
    BY DEF WillWrite, HasWritten
  <2>2. failures \in Nat
    BY DEF TypeOK
  <2> QED
    BY <2>1, <2>2, CountStays DEF CountInv
<1> QED
  BY <1>1

(* A request goes on to another label.                                     *)
LEMMA CountsOnGoto ==
  ASSUME TypeOK, CountInv, NEW r \in Req, NEW label \in Label, Goto(r, label),
         writes' = writes, failures' \in Nat, failures' >= failures,
         \A t \in Token : /\ status'[t] = "absent" => status[t] = "absent"
                          /\ status'[t] = "fresh" => status[t] \in {"absent", "fresh"},
         label \in {"user", "write"} => req[r].pc \in {"user", "write"},
         \/ req[r].pc \notin {"refresh", "select", "mark"}
         \/ label \in {"refresh", "select", "mark"}
         \/ status'[req[r].token] # "fresh"
         \/ failures' = failures + 1
  PROVE  \A t \in Token : CountOK(t)'
<1> DEFINE a == [req[r] EXCEPT !.pc = label]
<1>1. /\ req' = [req EXCEPT ![r] = a] /\ a.pc = label /\ a.token = req[r].token
  BY DEF Goto, TypeOK, Request
<1> HIDE DEF a
<1> QED
  BY <1>1, CountsOnMove

(* The rows left by a deletion.                                            *)
LEMMA RowsGo ==
  ASSUME TypeOK, NEW T, DeleteRows(T)
  PROVE  \A t \in Token : /\ status'[t] = "absent" => status[t] = "absent"
                          /\ status'[t] = "fresh" => status[t] \in {"absent", "fresh"}
BY DEF TypeOK, DeleteRows

(* Every step but the commit of a password.                                *)
LEMMA CountsOfTheRest ==
  ASSUME IInv, CountInv, [Next]_vars, \A r \in Req : ~WritePassword(r)
  PROVE  \A t \in Token : CountOK(t)'
<1>0. TypeOK /\ failures \in Nat /\ \A r \in Req : Holds(r)
  BY DEF IInv, TypeOK
<1> DEFINE Forward == \A t \in Token : /\ status'[t] = "absent" => status[t] = "absent"
                                       /\ status'[t] = "fresh" => status[t] \in {"absent", "fresh"}
<1>a. status' = status => Forward
  BY <1>0 DEF TypeOK
<1>1. CASE UNCHANGED vars
  <2>1. req' = req /\ writes' = writes /\ failures' = failures /\ status' = status
    BY <1>1 DEF vars
  <2> QED
    BY <1>0, <1>a, <2>1, CountsOnStand
<1>2. ASSUME NEW r \in Req, NEW label \in Label, Goto(r, label),
             UNCHANGED <<status, writes, failures>>,
             label \in {"user", "write"} => req[r].pc \in {"user", "write"},
             \/ req[r].pc \notin {"refresh", "select", "mark"}
             \/ label \in {"refresh", "select", "mark"}
             \/ status[req[r].token] # "fresh"
      PROVE  \A t \in Token : CountOK(t)'
  <2>1. /\ writes' = writes /\ failures' \in Nat /\ failures' >= failures
        /\ status' = status /\ Forward
    BY <1>0, <1>2, <1>a
  <2> QED
    BY <1>0, <1>2, <2>1, CountsOnGoto
<1>3. ASSUME NEW r \in Req, FindUser(r) \/ QueueMail(r) \/ CheckLockout(r) \/ GetUser(r)
      PROVE  \A t \in Token : CountOK(t)'
  BY <1>2, <1>3 DEF FindUser, QueueMail, CheckLockout, GetUser, Label, Final
<1>4. ASSUME NEW r \in Req, Answer(r) \/ SelectToken(r)
      PROVE  \A t \in Token : CountOK(t)'
  BY <1>2, <1>4 DEF Answer, SelectToken, InTable, Label, Final
<1>5. ASSUME NEW r \in Req, RefreshUser(r)
      PROVE  \A t \in Token : CountOK(t)'
  <2>1. req[r].pc = "refresh" /\ UNCHANGED <<status, writes, failures>>
    BY <1>5 DEF RefreshUser
  <2>2. CASE req[r].user \in account
    <3>1. Goto(r, "select") /\ "select" \in Label
      BY <1>5, <2>2 DEF RefreshUser, Label
    <3> QED
      BY <1>2, <2>1, <3>1
  <2>3. CASE req[r].user \notin account
    <3>1. Goto(r, "error") /\ "error" \in Label
      BY <1>5, <2>3 DEF RefreshUser, Label, Final
    <3>2. req[r].token \in Token /\ owner[req[r].token] = req[r].user
      BY <1>0, <2>1 DEF Holds, CountInv, OwnerKept
    <3>3. status[req[r].token] # "fresh"
      BY <1>0, <2>3, <3>2 DEF TypeOK, InTable
    <3> QED
      BY <1>2, <2>1, <3>1, <3>3
  <2> QED
    BY <2>2, <2>3
<1>6. ASSUME NEW r \in Req, MarkUsed(r)
      PROVE  \A t \in Token : CountOK(t)'
  <2>1. req[r].pc = "mark" /\ UNCHANGED <<writes, failures>> /\ req[r].token \in Token
    BY <1>0, <1>6 DEF MarkUsed, Holds
  <2>2. CASE InTable(req[r].token)
    <3>1. /\ Goto(r, "answer") /\ "answer" \in Label
          /\ status' = [status EXCEPT ![req[r].token] = "used"]
      BY <1>6, <2>2 DEF MarkUsed, Label
    <3>2. status'[req[r].token] # "fresh" /\ Forward
      BY <1>0, <2>1, <3>1 DEF TypeOK
    <3>3. failures' \in Nat /\ failures' >= failures /\ writes' = writes
      BY <1>0, <2>1
    <3> QED
      BY <1>0, <3>1, <3>2, <3>3, CountsOnGoto
  <2>3. CASE ~InTable(req[r].token)
    <3>1. Goto(r, "error") /\ "error" \in Label /\ status' = status
      BY <1>6, <2>3 DEF MarkUsed, Label, Final
    <3>2. status[req[r].token] # "fresh"
      BY <2>3 DEF InTable
    <3> QED
      BY <1>2, <2>1, <3>1, <3>2
  <2> QED
    BY <2>2, <2>3
<1>7. ASSUME NEW r \in Req, VerifyToken(r)
      PROVE  \A t \in Token : CountOK(t)'
  <2>1. req[r].pc = "verify" /\ UNCHANGED <<status, writes, failures>>
    BY <1>7 DEF VerifyToken
  <2>2. CASE Valid(req[r].token)
    <3> DEFINE a == [req[r] EXCEPT !.pc = "user", !.user = owner[req[r].token]]
    <3>1. req' = [req EXCEPT ![r] = a]
      BY <1>7, <2>2 DEF VerifyToken
    <3>2. a.token = req[r].token
      BY <1>0 DEF TypeOK, Request
    <3> HIDE DEF a
    <3>3. status'[a.token] = "fresh"
      BY <2>1, <2>2, <3>2 DEF Valid
    <3>4. failures' \in Nat /\ failures' >= failures /\ writes' = writes /\ Forward
      BY <1>0, <1>a, <2>1
    <3> QED
      BY <1>0, <2>1, <3>1, <3>3, <3>4, CountsOnMove
  <2>3. CASE ~Valid(req[r].token)
    <3>1. Goto(r, "refused") /\ "refused" \in Label
      BY <1>7, <2>3 DEF VerifyToken, Label, Final
    <3> QED
      BY <1>2, <2>1, <3>1
  <2> QED
    BY <2>2, <2>3
<1>8. ASSUME NEW r \in Req, CreateToken(r)
      PROVE  \A t \in Token : CountOK(t)'
  <2>1. req[r].pc = "create" /\ UNCHANGED <<writes, failures>>
    BY <1>8 DEF CreateToken
  <2>2. CASE req[r].user \in account
    <3>1. PICK t \in Token : /\ status[t] = "absent"
                             /\ status' = [status EXCEPT ![t] = "fresh"]
                             /\ req' = [req EXCEPT ![r] = [req[r] EXCEPT !.pc = "queue", !.token = t]]
      BY <1>8, <2>2 DEF CreateToken
    <3> DEFINE a == [req[r] EXCEPT !.pc = "queue", !.token = t]
    <3>2. req' = [req EXCEPT ![r] = a] /\ a.pc = "queue"
      BY <1>0, <3>1 DEF TypeOK, Request
    <3> HIDE DEF a
    <3>3. failures' \in Nat /\ failures' >= failures /\ writes' = writes /\ Forward
      BY <1>0, <2>1, <3>1 DEF TypeOK
    <3> QED
      BY <1>0, <2>1, <3>2, <3>3, CountsOnMove
  <2>3. CASE req[r].user \notin account
    <3>1. Goto(r, "done") /\ "done" \in Label /\ status' = status
      BY <1>8, <2>3 DEF CreateToken, Label, Final
    <3> QED
      BY <1>2, <2>1, <3>1
  <2> QED
    BY <2>2, <2>3
<1>9. ASSUME NEW r \in Req, Abort(r)
      PROVE  \A t \in Token : CountOK(t)'
  <2>1. /\ failures' = failures + 1 /\ writes' = writes /\ status' = status
        /\ failures' \in Nat /\ failures' >= failures
        /\ \E label \in {"error", "done"} : Goto(r, label)
    BY <1>0, <1>9 DEF Abort
  <2>2. PICK label \in {"error", "done"} : Goto(r, label)
    BY <2>1
  <2>3. label \in Label /\ label \notin {"user", "write"}
    BY DEF Label, Final
  <2> QED
    BY <1>0, <1>a, <2>1, <2>2, <2>3, CountsOnGoto
<1>10. ASSUME NEW r \in Req, Arrive(r) \/ Finish(r)
       PROVE  \A t \in Token : CountOK(t)'
  <2>1. /\ UNCHANGED <<status, writes, failures>>
        /\ req[r].pc \notin {"refresh", "select", "mark"}
        /\ \E a : req' = [req EXCEPT ![r] = a] /\ a.pc \notin {"user", "write"}
    <3>1. CASE Finish(r)
      <4>1. req' = [req EXCEPT ![r] = Idle] /\ Idle.pc = "idle"
        BY <3>1 DEF Finish, Idle
      <4>2. UNCHANGED <<status, writes, failures>> /\ req[r].pc \in Final
        BY <3>1 DEF Finish
      <4>3. req[r].pc \notin {"refresh", "select", "mark"}
        BY <4>2 DEF Final
      <4> HIDE DEF Idle
      <4> QED
        BY <4>1, <4>2, <4>3
    <3>2. ASSUME NEW u \in User, BeginRequest(r, u)
          PROVE  \E a : req' = [req EXCEPT ![r] = a] /\ a.pc \notin {"user", "write"}
      <4> DEFINE a == [Idle EXCEPT !.pc = "find", !.op = "request", !.user = u]
      <4>1. req' = [req EXCEPT ![r] = a] /\ a.pc = "find"
        BY <3>2 DEF BeginRequest, Idle
      <4> HIDE DEF a
      <4> QED
        BY <4>1
    <3>3. ASSUME NEW t \in Token, BeginConfirm(r, t)
          PROVE  \E a : req' = [req EXCEPT ![r] = a] /\ a.pc \notin {"user", "write"}
      <4> DEFINE a == [Idle EXCEPT !.pc = "check", !.op = "confirm", !.token = t]
      <4>1. req' = [req EXCEPT ![r] = a] /\ a.pc = "check"
        BY <3>3 DEF BeginConfirm, Idle
      <4> HIDE DEF a
      <4> QED
        BY <4>1
    <3>4. CASE Arrive(r)
      <4>1. /\ UNCHANGED <<status, writes, failures>> /\ req[r].pc = "idle"
        BY <3>4 DEF Arrive, BeginRequest, BeginConfirm
      <4> QED
        BY <3>2, <3>3, <3>4, <4>1 DEF Arrive
    <3> QED
      BY <1>10, <3>1, <3>4
  <2>2. PICK a : req' = [req EXCEPT ![r] = a] /\ a.pc \notin {"user", "write"}
    BY <2>1
  <2>3. failures' \in Nat /\ failures' >= failures /\ writes' = writes /\ Forward
    BY <1>0, <1>a, <2>1
  <2> QED
    BY <1>0, <2>1, <2>2, <2>3, CountsOnMove
<1>11. ASSUME NEW t \in Token, SendMail(t) \/ Expire(t)
       PROVE  \A s \in Token : CountOK(s)'
  <2>1. req' = req /\ writes' = writes /\ failures' = failures /\ status' = status
    BY <1>11 DEF SendMail, Expire
  <2> QED
    BY <1>0, <1>a, <2>1, CountsOnStand
<1>12. CASE Cleanup \/ \E u \in User : DeleteUser(u)
  <2>1. /\ req' = req /\ writes' = writes /\ failures' = failures
        /\ \E T : DeleteRows(T)
    BY <1>12 DEF Cleanup, DeleteUser
  <2>2. PICK T : DeleteRows(T)
    BY <2>1
  <2> QED
    BY <1>0, <2>1, <2>2, RowsGo, CountsOnStand
<1> QED
  BY <1>1, <1>3, <1>4, <1>5, <1>6, <1>7, <1>8, <1>9, <1>10, <1>11, <1>12 DEF Next, Advance


(* The commit of a password takes a request from the one set to the other. *)
LEMMA CountsOnWrite ==
  ASSUME IInv, CountInv, NEW r \in Req, WritePassword(r)
  PROVE  \A t \in Token : CountOK(t)'
<1>1. /\ TypeOK /\ failures \in Nat /\ req[r].pc = "write" /\ Holds(r)
      /\ status' = status /\ failures' = failures
  BY DEF IInv, TypeOK, WritePassword
<1>2. req[r].token \in Token
  BY <1>1 DEF Holds
<1>3. CASE req[r].user \notin account
  <2>1. Goto(r, "error") /\ "error" \in Label /\ writes' = writes
    BY <1>3 DEF WritePassword, Label, Final
  <2>2. \A t \in Token : /\ status'[t] = "absent" => status[t] = "absent"
                         /\ status'[t] = "fresh" => status[t] \in {"absent", "fresh"}
    BY <1>1
  <2> QED
    BY <1>1, <2>1, <2>2, CountsOnGoto
<1>4. ASSUME req[r].user \in account, NEW t \in Token
      PROVE  CountOK(t)'
  <2>1. /\ writes' = [writes EXCEPT ![req[r].token] = @ + 1]
        /\ req' = [req EXCEPT ![r] = [req[r] EXCEPT !.pc = "refresh"]]
    BY <1>4 DEF WritePassword, Goto
  <2>2. /\ req'[r].pc = "refresh" /\ req'[r].token = req[r].token
        /\ \A q \in Req : q # r => req'[q] = req[q]
    BY <1>1, <2>1 DEF TypeOK, Request
  <2>3. CountOK(t) /\ writes[t] \in Nat
    BY <1>1 DEF CountInv, TypeOK
  <2>4. CASE t # req[r].token
    <3>1. writes'[t] = writes[t]
      BY <1>1, <2>1, <2>4 DEF TypeOK
    <3>2. WillWrite(t)' = WillWrite(t) /\ HasWritten(t)' = HasWritten(t)
      BY <2>2, <2>4 DEF WillWrite, HasWritten
    <3> QED
      BY <1>1, <2>3, <3>1, <3>2, CountStays
  <2>5. CASE t = req[r].token
    <3> DEFINE W == WillWrite(t)
               H == HasWritten(t)
               W1 == WillWrite(t)'
               H1 == HasWritten(t)'
               N == Cardinality(Req)
    <3>1. writes'[t] = writes[t] + 1 /\ status[t] # "absent"
      BY <1>1, <2>1, <2>5 DEF TypeOK, Holds
    <3>2. W1 = W \ {r} /\ r \in W /\ H1 = H \cup {r} /\ r \notin H
      BY <1>1, <2>2, <2>5 DEF WillWrite, HasWritten
    <3>3. /\ W1 \subseteq Req /\ H1 \subseteq Req
          /\ IsFiniteSet(W) /\ IsFiniteSet(H) /\ N \in Nat
      BY Counted DEF WillWrite, HasWritten
    <3>4. /\ status[t] = "fresh" => writes[t] <= Cardinality(H) + failures
          /\ status[t] # "fresh" => writes[t] + Cardinality(W) <= N + failures
      BY <2>3 DEF CountOK
    <3> HIDE DEF W, H, W1, H1, N
    <3>5. IsFiniteSet(W1) /\ IsFiniteSet(H1)
      BY <3>3, PasswordResetAssumption, FS_Subset
    <3>6. /\ Cardinality(W) \in Nat /\ Cardinality(H) \in Nat
          /\ Cardinality(W1) \in Nat /\ Cardinality(H1) \in Nat
      BY <3>3, <3>5, FS_CardinalityType
    <3>7. /\ Cardinality(H1) = Cardinality(H) + 1
          /\ Cardinality(W) = Cardinality(W1) + 1
      BY <3>2, <3>3, <3>5, CountsFollow
    <3>8. /\ status'[t] = "fresh" => writes'[t] <= Cardinality(H1) + failures'
          /\ status'[t] # "fresh" => writes'[t] + Cardinality(W1) <= N + failures'
      BY <1>1, <2>3, <3>1, <3>3, <3>4, <3>6, <3>7
    <3> QED
      BY <1>1, <3>1, <3>8 DEF CountOK, W1, H1, N
  <2> QED
    BY <2>4, <2>5
<1> QED
  BY <1>3, <1>4

(* No request changes owner: a row gets its owner when it is created.      *)
LEMMA OwnersStay ==
  ASSUME IInv, CountInv, [Next]_vars
  PROVE  OwnerKept'
<1>1. /\ OwnerKept /\ TypeOK
      /\ \A q \in Req : Holds(q)
  BY DEF CountInv, IInv
<1> DEFINE Past == {"user", "write", "refresh", "select", "mark"}
<1>2. \A q \in Req : req[q].pc \in Past =>
          /\ req[q].token \in Token /\ status[req[q].token] # "absent"
          /\ owner[req[q].token] = req[q].user
  BY <1>1 DEF Holds, OwnerKept
<1>3. ASSUME owner' = owner, req' = req
      PROVE  OwnerKept'
  BY <1>2, <1>3 DEF OwnerKept
<1>4. ASSUME owner' = owner, NEW r \in Req, NEW a, req' = [req EXCEPT ![r] = a],
             a.pc \in Past => owner[a.token] = a.user
      PROVE  OwnerKept'
  <2>1. req'[r] = a /\ \A q \in Req : q # r => req'[q] = req[q]
    BY <1>1, <1>4 DEF TypeOK
  <2> QED
    BY <1>2, <1>4, <2>1 DEF OwnerKept
<1>5. ASSUME owner' = owner, NEW r \in Req, NEW label, Goto(r, label),
             label \in Past => req[r].pc \in Past
      PROVE  OwnerKept'
  <2> DEFINE a == [req[r] EXCEPT !.pc = label]
  <2>1. /\ req' = [req EXCEPT ![r] = a] /\ a.pc = label
        /\ a.token = req[r].token /\ a.user = req[r].user
    BY <1>1, <1>5 DEF TypeOK, Request, Goto
  <2> HIDE DEF a
  <2> QED
    BY <1>2, <1>4, <1>5, <2>1
<1>6. CASE UNCHANGED vars
  BY <1>3, <1>6 DEF vars
<1>7. ASSUME NEW r \in Req, CreateToken(r)
      PROVE  OwnerKept'
  <2>1. CASE req[r].user \notin account
    BY <1>5, <1>7, <2>1 DEF CreateToken
  <2>2. CASE req[r].user \in account
    <3>1. PICK t \in Token : /\ status[t] = "absent"
                             /\ owner' = [owner EXCEPT ![t] = req[r].user]
                             /\ req' = [req EXCEPT ![r] = [req[r] EXCEPT !.pc = "queue", !.token = t]]
      BY <1>7, <2>2 DEF CreateToken
    <3>2. req'[r].pc = "queue" /\ \A q \in Req : q # r => req'[q] = req[q]
      BY <1>1, <3>1 DEF TypeOK, Request
    <3>3. \A s \in Token : s # t => owner'[s] = owner[s]
      BY <1>1, <3>1 DEF TypeOK
    <3> QED
      BY <1>2, <3>1, <3>2, <3>3 DEF OwnerKept
  <2> QED
    BY <2>1, <2>2
<1>8. ASSUME NEW r \in Req, VerifyToken(r)
      PROVE  OwnerKept'
  <2>1. CASE ~Valid(req[r].token)
    BY <1>5, <1>8, <2>1 DEF VerifyToken
  <2>2. CASE Valid(req[r].token)
    <3> DEFINE a == [req[r] EXCEPT !.pc = "user", !.user = owner[req[r].token]]
    <3>1. /\ req' = [req EXCEPT ![r] = a] /\ owner' = owner
      BY <1>8, <2>2 DEF VerifyToken
    <3>2. a.token = req[r].token /\ a.user = owner[req[r].token]
      BY <1>1 DEF TypeOK, Request
    <3> HIDE DEF a
    <3> QED
      BY <1>4, <3>1, <3>2
  <2> QED
    BY <2>1, <2>2
<1>9. ASSUME NEW r \in Req,
             \/ FindUser(r) \/ QueueMail(r) \/ CheckLockout(r) \/ GetUser(r)
             \/ WritePassword(r) \/ RefreshUser(r) \/ SelectToken(r) \/ MarkUsed(r)
             \/ Answer(r) \/ Abort(r)
      PROVE  OwnerKept'
  BY <1>5, <1>9 DEF FindUser, QueueMail, CheckLockout, GetUser, WritePassword, RefreshUser,
                    SelectToken, MarkUsed, Answer, Abort
<1>10. ASSUME NEW r \in Req, Arrive(r) \/ Finish(r)
       PROVE  OwnerKept'
  <2>1. CASE Finish(r)
    <3>1. /\ owner' = owner /\ req' = [req EXCEPT ![r] = Idle] /\ Idle.pc = "idle"
      BY <2>1 DEF Finish, Idle
    <3> HIDE DEF Idle
    <3> QED
      BY <1>4, <3>1
  <2>2. ASSUME NEW u \in User, BeginRequest(r, u)
        PROVE  OwnerKept'
    <3> DEFINE a == [Idle EXCEPT !.pc = "find", !.op = "request", !.user = u]
    <3>1. owner' = owner /\ req' = [req EXCEPT ![r] = a] /\ a.pc = "find"
      BY <2>2 DEF BeginRequest, Idle
    <3> HIDE DEF a
    <3> QED
      BY <1>4, <3>1
  <2>3. ASSUME NEW t \in Token, BeginConfirm(r, t)
        PROVE  OwnerKept'
    <3> DEFINE a == [Idle EXCEPT !.pc = "check", !.op = "confirm", !.token = t]
    <3>1. owner' = owner /\ req' = [req EXCEPT ![r] = a] /\ a.pc = "check"
      BY <2>3 DEF BeginConfirm, Idle
    <3> HIDE DEF a
    <3> QED
      BY <1>4, <3>1
  <2> QED
    BY <1>10, <2>1, <2>2, <2>3 DEF Arrive
<1>11. CASE \/ \E t \in Token : SendMail(t) \/ Expire(t)
            \/ Cleanup
            \/ \E u \in User : DeleteUser(u)
  BY <1>3, <1>11 DEF SendMail, Expire, Cleanup, DeleteUser
<1> QED
  BY <1>6, <1>7, <1>8, <1>9, <1>10, <1>11 DEF Next, Advance

(* The counts are inductive beside the invariant of the requests.          *)
THEOREM CountInvariant == Spec => [](IInv /\ CountInv)
<1>1. Init => CountInv
  <2> SUFFICES ASSUME Init PROVE CountInv
    OBVIOUS
  <2>1. \A r \in Req : req[r].pc = "idle"
    BY DEF Init, Idle
  <2>2. ASSUME NEW t \in Token
        PROVE  CountOK(t)
    <3>1. WillWrite(t) = {}
      BY <2>1 DEF WillWrite
    <3>2. Cardinality(WillWrite(t)) = 0
      BY <3>1, FS_EmptySet
    <3>3. status[t] = "absent" /\ writes[t] = 0 /\ failures = 0
      BY DEF Init
    <3>4. Cardinality(Req) \in Nat
      BY PasswordResetAssumption, FS_CardinalityType
    <3> QED
      BY <3>2, <3>3, <3>4 DEF CountOK
  <2> QED
    BY <2>1, <2>2 DEF CountInv, OwnerKept
<1>2. IInv /\ CountInv /\ [Next]_vars => CountInv'
  <2> SUFFICES ASSUME IInv, CountInv, [Next]_vars PROVE CountInv'
    OBVIOUS
  <2>1. OwnerKept'
    BY OwnersStay
  <2>2. \A t \in Token : CountOK(t)'
    BY CountsOfTheRest, CountsOnWrite
  <2> QED
    BY <2>1, <2>2 DEF CountInv
<1> QED
  BY <1>1, <1>2, ResetInvariant, PTL DEF Spec

(* The types, and that every reset token in the table has a user, at every *)
(* point of create_token, the clean-up and the deletion of users.          *)
THEOREM ResetTypeCorrect == Spec => []TypeOK
<1>1. IInv => TypeOK
  BY DEF IInv
<1> QED
  BY <1>1, ResetInvariant, PTL

(* A token serves at most once for each request that can be in flight and  *)
(* once more for each failure, because verify_token and mark_token_used    *)
(* are transactions apart.                                                 *)
THEOREM WritesBoundedAlways == Spec => []WritesBounded
<1>1. IInv /\ CountInv => WritesBounded
  <2> SUFFICES ASSUME IInv, CountInv, NEW t \in Token
               PROVE  writes[t] <= Cardinality(Req) + failures
    BY DEF WritesBounded
  <2>1. writes[t] \in Nat /\ failures \in Nat /\ CountOK(t)
    BY DEF IInv, TypeOK, CountInv
  <2>2. /\ Cardinality(WillWrite(t)) \in Nat /\ Cardinality(HasWritten(t)) \in Nat
        /\ Cardinality(Req) \in Nat
        /\ Cardinality(WillWrite(t)) + Cardinality(HasWritten(t)) <= Cardinality(Req)
    BY Counted
  <2> QED
    BY <2>1, <2>2 DEF CountOK
<1> QED
  BY <1>1, CountInvariant, PTL
=============================================================================
