------------------------- MODULE RefreshTokensProofs -------------------------
(***************************************************************************)
(* Proofs about RefreshTokens for any numbers of requests, tokens, users   *)
(* and clients: the inductive invariant IInv, from it the type invariant   *)
(* and RotationConsumes, and the refinement of TokenLedger; then OwnInv,   *)
(* on whose tokens a request holds and what it revokes; and SerialInv, on  *)
(* the sessions of requests served one at a time.                          *)
(*                                                                         *)
(* Most steps do at most two things: they replace the local variables of   *)
(* one request and they move rows that are in the table to "revoked" or    *)
(* "purged".  RequestStep and EnvironmentStep treat all of these at once;  *)
(* the steps that sign, save or deliver a token have a lemma each.         *)
(***************************************************************************)
EXTENDS MCRotation, FiniteSetTheorems, TLAPS

-----------------------------------------------------------------------------
(* Helpers of the specification                                            *)

(* Going to a label replaces the label and nothing else.                   *)
LEMMA GotoEffect ==
  ASSUME req \in [Req -> Request], NEW r \in Req, NEW label \in Label, Goto(r, label)
  PROVE  /\ [req[r] EXCEPT !.pc = label] \in Request
         /\ req' = [req EXCEPT ![r] = [req[r] EXCEPT !.pc = label]]
BY DEF Goto, Request

(* SetStatus changes the status of the rows of S and nothing else.         *)
LEMMA SetStatusEffect ==
  ASSUME row \in [Jti -> Row], NEW S \in SUBSET Jti,
         NEW st \in {"absent", "active", "revoked", "purged"}, SetStatus(S, st)
  PROVE  /\ row' \in [Jti -> Row]
         /\ \A j \in Jti :
              /\ row'[j].status = IF j \in S THEN st ELSE row[j].status
              /\ row'[j].user = row[j].user
              /\ row'[j].client = row[j].client
              /\ row'[j].session = row[j].session
              /\ row'[j].parent = row[j].parent
BY DEF SetStatus, Row

(* The scope of a revocation is a set of tokens.                           *)
LEMMA ScopeType ==
  ASSUME NEW op, NEW u, NEW s, NEW j
  PROVE  Scope(op, u, s, j) \in SUBSET Jti
BY DEF Scope

(* A free slot holds a well-typed request.                                 *)
LEMMA IdleType == Idle \in Request
BY DEF Idle, Request, Label, Op

-----------------------------------------------------------------------------
(* Steps that at most spend rows                                           *)

(* Rows keep their data, and those whose status changes were in the table  *)
(* and are spent now.                                                      *)
OnlySpends ==
    /\ row' \in [Jti -> Row]
    /\ \A j \in Jti :
        /\ row'[j].user = row[j].user
        /\ row'[j].client = row[j].client
        /\ row'[j].session = row[j].session
        /\ row'[j].parent = row[j].parent
        /\ \/ row'[j].status = row[j].status
           \/ InTable(j) /\ row'[j].status \in {"revoked", "purged"}

LEMMA UnchangedSpends ==
  ASSUME TypeOK, UNCHANGED row
  PROVE  OnlySpends
BY DEF TypeOK, OnlySpends

LEMMA SetStatusSpends ==
  ASSUME TypeOK, NEW S \in SUBSET Jti, \A j \in S : InTable(j),
         NEW st \in {"revoked", "purged"}, SetStatus(S, st)
  PROVE  OnlySpends
BY SetStatusEffect DEF TypeOK, OnlySpends

(* What the rows alone contribute to the invariant survives such a step.   *)
LEMMA SpendingKeepsRows ==
  ASSUME IInv, OnlySpends, UNCHANGED <<jwt, delivered>>
  PROVE  /\ SavedTokens'
         /\ RotationConsumes'
         /\ \A j \in Jti : InTable(j)' => row'[j].user # None /\ row'[j].session # None
         /\ \A j \in Jti : Spent(j) => Spent(j)'
         /\ \A j \in Jti : row'[j].status = "absent" <=> row[j].status = "absent"
<1>1. \A j \in Jti : /\ InTable(j)' => InTable(j)
                     /\ Spent(j) => Spent(j)'
                     /\ row'[j].status = "absent" <=> row[j].status = "absent"
  BY DEF OnlySpends, InTable, Spent
<1>2. SavedTokens'
  BY <1>1 DEF IInv, TypeOK, SavedTokens
<1>3. RotationConsumes'
  <2>1. SUFFICES ASSUME NEW j \in Jti, row'[j].status # "absent", row'[j].parent # None
                 PROVE  row'[row'[j].parent].status \in {"revoked", "purged"}
    BY DEF RotationConsumes
  <2>2. row[j].parent \in Jti /\ Spent(row[j].parent) /\ row'[j].parent = row[j].parent
    BY <1>1, <2>1 DEF IInv, TypeOK, RotationConsumes, OnlySpends, Spent, Row
  <2>3. QED BY <1>1, <2>2 DEF Spent
<1>4. QED BY <1>1, <1>2, <1>3 DEF IInv, TypeOK, OnlySpends

(* A request replaces its local variables by q and may spend rows.  The    *)
(* premises about q are the clauses of PresentedToken and SignedToken; a   *)
(* request that holds a signed token already held it before.               *)
LEMMA RequestStep ==
  ASSUME IInv, OnlySpends, UNCHANGED <<jwt, age, delivered, account>>,
         known' \in [Req -> SUBSET Jti],
         NEW r \in Req, NEW q \in Request, req' = [req EXCEPT ![r] = q],
         q.pc \in {"validate", "chain", "auth", "revoke", "spend", "session"}
            => q.op = "refresh",
         q.op = "refresh"
            => q.jti \in Jti /\ q.user \in User /\ row[q.jti].status # "absent",
         q.pc \in {"session", "save"} /\ q.jti # None
            => row'[q.jti].status \in {"revoked", "purged"},
         q.pc \in {"revoke", "spend", "session", "save"}
            => Pending(r) /\ q.fresh = req[r].fresh /\ q.user = req[r].user,
         q.pc = "save" => q.session \in Jti,
         q.pc # "saved"
  PROVE  IInv'
<1>1. req' \in [Req -> Request] /\ req'[r] = q /\ \A p \in Req : p # r => req'[p] = req[p]
  BY DEF IInv, TypeOK
<1>2. TypeOK'
  BY <1>1, SpendingKeepsRows DEF IInv, TypeOK, OnlySpends
<1>3. \A p \in Req : PresentedToken(p)'
  <2> TAKE p \in Req
  <2>1. CASE p = r
    BY <1>1, <2>1, SpendingKeepsRows DEF PresentedToken, Spent
  <2>2. CASE p # r
    BY <1>1, <2>2, SpendingKeepsRows DEF IInv, TypeOK, Request, PresentedToken
  <2>3. QED BY <2>1, <2>2
<1>4. \A p \in Req : SignedToken(p)'
  <2> TAKE p \in Req
  <2>1. CASE p = r
    BY <1>1, <2>1, SpendingKeepsRows DEF IInv, SignedToken, Pending
  <2>2. CASE p # r
    BY <1>1, <2>2, SpendingKeepsRows DEF IInv, SignedToken, Pending
  <2>3. QED BY <2>1, <2>2
<1>5. FreshDistinct'
  BY <1>1 DEF IInv, FreshDistinct, Pending
<1>6. QED BY <1>2, <1>3, <1>4, <1>5, SpendingKeepsRows DEF IInv

(* Time, maintenance and administration leave the requests alone.          *)
LEMMA EnvironmentStep ==
  ASSUME IInv, OnlySpends, UNCHANGED <<jwt, delivered, req, known>>,
         age' \in [Jti -> {"live", "expired", "stale"}],
         account' \in [User -> {"active", "inactive", "absent"}]
  PROVE  IInv'
<1>1. TypeOK'
  BY SpendingKeepsRows DEF IInv, TypeOK, OnlySpends
<1>2. \A p \in Req : PresentedToken(p)'
  BY SpendingKeepsRows DEF IInv, TypeOK, Request, PresentedToken
<1>3. \A p \in Req : SignedToken(p)'
  BY SpendingKeepsRows DEF IInv, SignedToken, Pending
<1>4. FreshDistinct'
  BY DEF IInv, FreshDistinct, Pending
<1>5. QED BY <1>1, <1>2, <1>3, <1>4, SpendingKeepsRows DEF IInv

(* A request signs token n, which nobody holds and no row bears, and       *)
(* replaces its local variables by q.                                      *)
LEMMA SigningStep ==
  ASSUME IInv, UNCHANGED <<row, age, delivered, account, known>>,
         NEW r \in Req, NEW n \in Unminted, NEW u \in User, NEW c \in Client,
         jwt' = [jwt EXCEPT ![n] = [user |-> u, client |-> c]],
         NEW q \in Request, req' = [req EXCEPT ![r] = q],
         q.fresh = n, q.user = u, q.pc \in {"revoke", "save"},
         q.pc = "save" => q.session \in Jti /\ q.jti = None,
         q.pc = "revoke" => q.op = "refresh",
         q.op = "refresh" => q.jti \in Jti /\ row[q.jti].status # "absent"
  PROVE  IInv'
<1>1. req' \in [Req -> Request] /\ req'[r] = q /\ \A p \in Req : p # r => req'[p] = req[p]
  BY DEF IInv, TypeOK
<1>2. /\ n \in Jti /\ jwt' \in [Jti -> Claims] /\ jwt'[n].user = u
      /\ \A j \in Jti : j # n => jwt'[j] = jwt[j]
  BY DEF IInv, TypeOK, Claims, Unminted
<1>3. row[n].status = "absent"
  BY <1>2, RefreshTokensAssumption DEF IInv, SavedTokens, Unminted
<1>4. \A p \in Req : Pending(p) \/ req[p].pc = "saved" => req[p].fresh # n
  BY RefreshTokensAssumption DEF IInv, SignedToken, Unminted
<1>5. TypeOK'
  BY <1>1, <1>2 DEF IInv, TypeOK, InTable
<1>6. SavedTokens'
  BY <1>2 DEF IInv, SavedTokens
<1>7. \A p \in Req : PresentedToken(p)'
  <2> TAKE p \in Req
  <2>1. CASE p = r
    BY <1>1, <2>1 DEF PresentedToken
  <2>2. CASE p # r
    BY <1>1, <2>2 DEF IInv, PresentedToken, Spent
  <2>3. QED BY <2>1, <2>2
<1>8. \A p \in Req : SignedToken(p)'
  <2> TAKE p \in Req
  <2>1. CASE p = r
    BY <1>1, <1>2, <1>3, <2>1 DEF SignedToken, Pending
  <2>2. CASE p # r
    BY <1>1, <1>2, <1>4, <2>2 DEF IInv, SignedToken, Pending
  <2>3. QED BY <2>1, <2>2
<1>9. FreshDistinct'
  BY <1>1, <1>4 DEF IInv, FreshDistinct, Pending
<1>10. RotationConsumes'
  BY DEF IInv, RotationConsumes
<1>11. QED BY <1>5, <1>6, <1>7, <1>8, <1>9, <1>10 DEF IInv

-----------------------------------------------------------------------------
(* One lemma per action: requests that arrive                              *)

LEMMA LoginInv ==
  ASSUME IInv, NEW r \in Req, NEW u \in User, NEW c \in Client, Login(r, u, c)
  PROVE  IInv'
<1>1. PICK n \in Unminted :
        /\ jwt' = [jwt EXCEPT ![n] = [user |-> u, client |-> c]]
        /\ req' = [req EXCEPT ![r] =
                    [Idle EXCEPT !.pc = "save", !.op = "login", !.user = u,
                                 !.client = c, !.fresh = n, !.session = n]]
  BY DEF Login
<1> DEFINE q == [Idle EXCEPT !.pc = "save", !.op = "login", !.user = u,
                             !.client = c, !.fresh = n, !.session = n]
<1>2. /\ q \in Request /\ q.pc = "save" /\ q.op = "login" /\ q.user = u
      /\ q.jti = None /\ q.fresh = n /\ q.session \in Jti
  BY DEF Idle, Request, Label, Op, Unminted
<1>3. /\ UNCHANGED <<row, age, delivered, account, known>>
      /\ jwt' = [jwt EXCEPT ![n] = [user |-> u, client |-> c]]
  BY <1>1 DEF Login
<1>4. req' = [req EXCEPT ![r] = q]
  BY <1>1
<1> HIDE DEF q
<1>5. q.op # "refresh" /\ q.pc \in {"revoke", "save"} /\ q.pc # "revoke"
  BY <1>2
<1>6. QED BY <1>2, <1>3, <1>4, <1>5, SigningStep

LEMMA BeginRefreshInv ==
  ASSUME IInv, NEW r \in Req, NEW j \in Jti, NEW c \in Client, BeginRefresh(r, j, c)
  PROVE  IInv'
<1> DEFINE q == [Idle EXCEPT !.pc = "validate", !.op = "refresh",
                             !.user = jwt[j].user, !.client = c, !.jti = j]
<1>1. row[j].status # "absent" /\ jwt[j].user \in User
  BY DEF BeginRefresh, IInv, SavedTokens
<1>2. /\ q \in Request /\ q.pc = "validate" /\ q.op = "refresh" /\ q.jti = j
      /\ q.user = jwt[j].user
  BY <1>1 DEF Idle, Request, Label, Op
<1>3. req' = [req EXCEPT ![r] = q] /\ UNCHANGED <<row, jwt, age, delivered, account>>
  BY DEF BeginRefresh
<1>4. known' \in [Req -> SUBSET Jti]
  BY ScopeType DEF BeginRefresh, IInv, TypeOK
<1>5. OnlySpends
  BY <1>3, UnchangedSpends DEF IInv
<1> HIDE DEF q
<1>6. QED BY <1>1, <1>2, <1>3, <1>4, <1>5, RequestStep

LEMMA BeginRevokeSessionInv ==
  ASSUME IInv, NEW r \in Req, NEW u \in User, BeginRevokeSession(r, u)
  PROVE  IInv'
<1>1. PICK s \in Jti \cup {None} :
        /\ req' = [req EXCEPT ![r] = [Idle EXCEPT !.pc = "select", !.op = "revokeSession",
                                                  !.user = u, !.session = s]]
        /\ known' = [known EXCEPT ![r] = Scope("revokeSession", u, s, None)]
  <2>1. PICK s \in {row[i].session : i \in {k \in Jti : InTable(k)}} :
          /\ req' = [req EXCEPT ![r] = [Idle EXCEPT !.pc = "select", !.op = "revokeSession",
                                                    !.user = u, !.session = s]]
          /\ known' = [known EXCEPT ![r] = Scope("revokeSession", u, s, None)]
    BY DEF BeginRevokeSession
  <2>2. s \in Jti \cup {None}
    BY <2>1 DEF IInv, TypeOK, Row
  <2>3. QED BY <2>1, <2>2
<1> DEFINE q == [Idle EXCEPT !.pc = "select", !.op = "revokeSession",
                             !.user = u, !.session = s]
<1>2. q \in Request /\ q.pc = "select" /\ q.op = "revokeSession"
  BY DEF Idle, Request, Label, Op
<1>3. req' = [req EXCEPT ![r] = q] /\ UNCHANGED <<row, jwt, age, delivered, account>>
  BY <1>1 DEF BeginRevokeSession
<1>4. known' \in [Req -> SUBSET Jti]
  BY <1>1, ScopeType DEF IInv, TypeOK
<1>5. OnlySpends
  BY <1>3, UnchangedSpends DEF IInv
<1> HIDE DEF q
<1>6. QED BY <1>2, <1>3, <1>4, <1>5, RequestStep

LEMMA LogoutInv ==
  ASSUME IInv, NEW r \in Req, NEW u \in User, Logout(r, u)
  PROVE  IInv'
<1>1. PICK op \in {"logout", "logoutAll"} :
        /\ req' = [req EXCEPT ![r] = [Idle EXCEPT !.pc = "error", !.op = op, !.user = u]]
        /\ known' = [known EXCEPT ![r] =
                      IF op = "logoutAll" THEN Scope(op, u, None, None) ELSE {}]
  BY DEF Logout
<1> DEFINE q == [Idle EXCEPT !.pc = "error", !.op = op, !.user = u]
<1>2. q \in Request /\ q.pc = "error" /\ q.op # "refresh"
  BY DEF Idle, Request, Label, Op, Final
<1>3. req' = [req EXCEPT ![r] = q] /\ UNCHANGED <<row, jwt, age, delivered, account>>
  BY <1>1 DEF Logout
<1>4. known' \in [Req -> SUBSET Jti]
  BY <1>1, ScopeType DEF IInv, TypeOK
<1>5. OnlySpends
  BY <1>3, UnchangedSpends DEF IInv
<1> HIDE DEF q
<1>6. QED BY <1>2, <1>3, <1>4, <1>5, RequestStep

-----------------------------------------------------------------------------
(* One lemma per action: requests in flight                                *)

(* A request that only goes to another label keeps the invariant when that *)
(* label promises no more than its local variables already do.             *)
LEMMA GotoInv ==
  ASSUME IInv, NEW r \in Req, NEW label \in Label, Goto(r, label), OnlySpends,
         UNCHANGED <<jwt, age, delivered, account, known>>, label # "saved",
         label \in {"validate", "chain", "auth", "revoke", "spend", "session"}
            => req[r].op = "refresh",
         label = "session" => row'[req[r].jti].status \in {"revoked", "purged"},
         label \in {"revoke", "spend", "session"} => Pending(r),
         label # "save"
  PROVE  IInv'
<1> DEFINE q == [req[r] EXCEPT !.pc = label]
<1>1. q \in Request /\ req' = [req EXCEPT ![r] = q]
  BY GotoEffect DEF IInv, TypeOK
<1>2. /\ q.pc = label /\ q.op = req[r].op /\ q.jti = req[r].jti
      /\ q.user = req[r].user /\ q.fresh = req[r].fresh
  BY DEF IInv, TypeOK, Request
<1>3. known' \in [Req -> SUBSET Jti] /\ PresentedToken(r)
  BY DEF IInv, TypeOK
<1> HIDE DEF q
<1>4. q.op = "refresh" => q.jti \in Jti /\ q.user \in User /\ row[q.jti].status # "absent"
  BY <1>2, <1>3 DEF PresentedToken
<1>5. QED BY <1>1, <1>2, <1>3, <1>4, RequestStep

LEMMA ValidateRefreshInv ==
  ASSUME IInv, NEW r \in Req, ValidateRefresh(r)
  PROVE  IInv'
<1>1. req[r].op = "refresh"
  BY DEF ValidateRefresh, IInv, PresentedToken
<1>2. PICK label \in {"refused", "chain", "auth"} : Goto(r, label)
  BY DEF ValidateRefresh
<1>3. OnlySpends
  BY UnchangedSpends DEF ValidateRefresh, IInv
<1>4. QED BY <1>1, <1>2, <1>3, GotoInv DEF ValidateRefresh, Label, Final

LEMMA SelectChainInv ==
  ASSUME IInv, NEW r \in Req, SelectChain(r)
  PROVE  IInv'
<1>1. PresentedToken(r) /\ req[r].op = "refresh" /\ req[r] \in Request
  BY DEF SelectChain, IInv, TypeOK, PresentedToken
<1>2. OnlySpends /\ UNCHANGED <<jwt, age, delivered, account, known>>
  BY UnchangedSpends DEF SelectChain, IInv
<1>3. CASE InTable(req[r].jti)
  <2> DEFINE S == {i \in Scope("refresh", row[req[r].jti].user, None, req[r].jti) : Active(i)}
             q == [req[r] EXCEPT !.pc = "commit", !.rows = S]
  <2>1. S \in SUBSET Jti
    BY ScopeType
  <2>2. req' = [req EXCEPT ![r] = q]
    BY <1>3 DEF SelectChain, IInv, TypeOK
  <2> HIDE DEF S
  <2>3. q \in Request /\ q.pc = "commit" /\ q.op = req[r].op
        /\ q.jti = req[r].jti /\ q.user = req[r].user
    BY <1>1, <2>1 DEF Request, Label
  <2> HIDE DEF q
  <2>4. known' \in [Req -> SUBSET Jti]
    BY <1>2 DEF IInv, TypeOK
  <2>5. QED BY <1>1, <1>2, <2>2, <2>3, <2>4, RequestStep DEF PresentedToken
<1>4. CASE ~InTable(req[r].jti)
  BY <1>2, <1>4, GotoInv DEF SelectChain, Label, Final
<1>5. QED BY <1>3, <1>4

LEMMA AuthRefreshInv ==
  ASSUME IInv, NEW r \in Req, AuthRefresh(r)
  PROVE  IInv'
<1>1. PresentedToken(r) /\ req[r].op = "refresh" /\ req[r] \in Request
  BY DEF AuthRefresh, IInv, TypeOK, PresentedToken
<1>2. CASE ~MayRotate(r) /\ Goto(r, "refused") /\ UNCHANGED jwt
  BY <1>2, GotoInv, UnchangedSpends DEF AuthRefresh, Label, Final, IInv
<1>3. ASSUME MayRotate(r), NEW n \in Unminted,
             jwt' = [jwt EXCEPT ![n] = [user |-> req[r].user, client |-> req[r].client]],
             req' = [req EXCEPT ![r].pc = "revoke", ![r].fresh = n]
      PROVE  IInv'
  <2> DEFINE q == [req[r] EXCEPT !.pc = "revoke", !.fresh = n]
  <2>1. req' = [req EXCEPT ![r] = q]
    BY <1>3 DEF IInv, TypeOK
  <2>2. q \in Request /\ q.pc = "revoke" /\ q.fresh = n /\ q.op = req[r].op
        /\ q.jti = req[r].jti /\ q.user = req[r].user
    BY <1>1 DEF Request, Label, Unminted
  <2>3. PICK u \in User, c \in Client : u = req[r].user /\ c = req[r].client
    BY <1>1, <1>3, RefreshTokensAssumption DEF MayRotate, PresentedToken
  <2> HIDE DEF q
  <2>4. /\ UNCHANGED <<row, age, delivered, account, known>>
        /\ jwt' = [jwt EXCEPT ![n] = [user |-> u, client |-> c]]
    BY <1>3, <2>3 DEF AuthRefresh
  <2>5. /\ q.pc = "revoke" /\ q.fresh = n /\ q.op = "refresh" /\ q.user = u
        /\ q.jti \in Jti /\ row[q.jti].status # "absent"
    BY <1>1, <2>2, <2>3 DEF PresentedToken
  <2>6. q.pc \in {"revoke", "save"} /\ q.pc # "save"
    BY <2>5
  <2>7. QED BY <2>1, <2>2, <2>4, <2>5, <2>6, SigningStep
<1>4. QED BY <1>2, <1>3 DEF AuthRefresh

LEMMA SelectOldInv ==
  ASSUME IInv, NEW r \in Req, SelectOld(r)
  PROVE  IInv'
<1>1. PresentedToken(r) /\ req[r].op = "refresh" /\ Pending(r)
  BY DEF SelectOld, IInv, PresentedToken, Pending
<1>2. OnlySpends /\ UNCHANGED <<jwt, age, delivered, account, known>>
  BY UnchangedSpends DEF SelectOld, IInv
<1>3. CASE InTable(req[r].jti)
  BY <1>1, <1>2, <1>3, GotoInv DEF SelectOld, Label
<1>4. CASE ~InTable(req[r].jti)
  <2>1. row'[req[r].jti].status = "purged"
    BY <1>1, <1>4 DEF PresentedToken, InTable, SelectOld, IInv, TypeOK, Row
  <2>2. Goto(r, "session")
    BY <1>4 DEF SelectOld
  <2>3. QED BY <1>1, <1>2, <2>1, <2>2, GotoInv DEF Label
<1>5. QED BY <1>3, <1>4

LEMMA SpendOldInv ==
  ASSUME IInv, NEW r \in Req, SpendOld(r)
  PROVE  IInv'
<1>1. PresentedToken(r) /\ req[r].op = "refresh" /\ req[r].jti \in Jti /\ Pending(r)
  BY DEF SpendOld, IInv, PresentedToken, Pending
<1>2. CASE InTable(req[r].jti)
  <2>1. SetStatus({req[r].jti}, "revoked") /\ Goto(r, "session")
    BY <1>2 DEF SpendOld
  <2>2. OnlySpends
    BY <1>1, <1>2, <2>1, SetStatusSpends DEF IInv
  <2>3. row'[req[r].jti].status = "revoked"
    BY <1>1, <2>1, SetStatusEffect DEF IInv, TypeOK
  <2>4. UNCHANGED <<jwt, age, delivered, account, known>>
    BY DEF SpendOld
  <2>5. QED BY <1>1, <2>1, <2>2, <2>3, <2>4, GotoInv DEF Label
<1>3. CASE ~InTable(req[r].jti)
  BY <1>3, GotoInv, UnchangedSpends DEF SpendOld, Label, Final, IInv
<1>4. QED BY <1>2, <1>3

LEMMA ReadSessionInv ==
  ASSUME IInv, NEW r \in Req, ReadSession(r)
  PROVE  IInv'
<1>1. /\ PresentedToken(r) /\ SignedToken(r) /\ Pending(r)
      /\ req[r] \in Request /\ req[r].op = "refresh"
  BY DEF ReadSession, IInv, TypeOK, PresentedToken, Pending
<1> DEFINE s == IF InTable(req[r].jti) THEN row[req[r].jti].session ELSE req[r].fresh
           q == [req[r] EXCEPT !.pc = "save", !.session = s]
<1>2. s \in Jti
  BY <1>1 DEF IInv, TypeOK, Row, PresentedToken, SignedToken
<1>3. req' = [req EXCEPT ![r] = q]
  BY DEF ReadSession, IInv, TypeOK
<1> HIDE DEF s
<1>4. /\ q \in Request /\ q.pc = "save" /\ q.session \in Jti /\ q.op = req[r].op
      /\ q.jti = req[r].jti /\ q.user = req[r].user /\ q.fresh = req[r].fresh
  BY <1>1, <1>2 DEF Request, Label
<1> HIDE DEF q
<1>5. OnlySpends /\ UNCHANGED <<row, jwt, age, delivered, account, known>>
  BY UnchangedSpends DEF ReadSession, IInv
<1>6. Spent(req[r].jti)
  BY <1>1, RefreshTokensAssumption DEF ReadSession, PresentedToken
<1>7. known' \in [Req -> SUBSET Jti] /\ row'[q.jti].status \in {"revoked", "purged"}
  BY <1>4, <1>5, <1>6 DEF IInv, TypeOK, Spent
<1>8. QED BY <1>1, <1>3, <1>4, <1>5, <1>7, RequestStep DEF PresentedToken

(* The one step that enters a row: its parent is spent by PresentedToken,  *)
(* and no other row names the new one as its parent, for that row would be *)
(* spent and not absent.                                                   *)
LEMMA SaveTokenInv ==
  ASSUME IInv, NEW r \in Req, SaveToken(r)
  PROVE  IInv'
<1>1. PresentedToken(r) /\ SignedToken(r) /\ Pending(r) /\ req[r] \in Request
  BY DEF SaveToken, IInv, TypeOK, Pending
<1>2. CASE account[req[r].user] = "absent"
  BY <1>2, GotoInv, UnchangedSpends DEF SaveToken, Label, Final, IInv
<1>3. CASE account[req[r].user] # "absent"
  <2> DEFINE n == req[r].fresh
             new == [status |-> "active", user |-> jwt[n].user, client |-> jwt[n].client,
                     session |-> req[r].session, parent |-> req[r].jti]
             q == [req[r] EXCEPT !.pc = "saved"]
  <2>1. row' = [row EXCEPT ![n] = new] /\ Goto(r, "saved")
    BY <1>3 DEF SaveToken
  <2>2. UNCHANGED <<jwt, age, delivered, account, known>>
    BY DEF SaveToken
  <2>3. n \in Jti /\ row[n].status = "absent" /\ jwt[n].user \in User /\ req[r].session \in Jti
    BY <1>1 DEF SignedToken, SaveToken
  <2>4. new \in Row
    BY <1>1, <2>3 DEF IInv, TypeOK, Row, Claims, Request
  <2>5. row' \in [Jti -> Row] /\ row'[n] = new /\ \A j \in Jti : j # n => row'[j] = row[j]
    BY <2>1, <2>3, <2>4 DEF IInv, TypeOK
  <2>6. q \in Request /\ req' = [req EXCEPT ![r] = q]
    BY <2>1, GotoEffect DEF IInv, TypeOK, Label
  <2>7. /\ q.pc = "saved" /\ q.op = req[r].op /\ q.jti = req[r].jti
        /\ q.user = req[r].user /\ q.fresh = n
    BY <1>1 DEF Request
  <2> HIDE DEF q
  <2>8. req' \in [Req -> Request] /\ req'[r] = q /\ \A p \in Req : p # r => req'[p] = req[p]
    BY <2>6 DEF IInv, TypeOK
  <2>9. TypeOK'
    BY <2>2, <2>3, <2>5, <2>8, RefreshTokensAssumption DEF IInv, TypeOK, InTable
  <2>10. SavedTokens'
    BY <2>2, <2>3, <2>5 DEF IInv, TypeOK, SavedTokens
  <2>11. \A p \in Req : PresentedToken(p)'
    <3> TAKE p \in Req
    <3>1. CASE p = r
      BY <1>1, <2>3, <2>5, <2>7, <2>8, <3>1 DEF PresentedToken
    <3>2. CASE p # r
      <4>1. req'[p] = req[p] /\ req[p] \in Request /\ PresentedToken(p)
        BY <2>8, <3>2 DEF IInv, TypeOK
      <4>2. \A j \in Jti : row[j].status # "absent" => row'[j] = row[j]
        BY <2>3, <2>5
      <4>3. req[p].jti \in Jti \cup {None}
        BY <4>1 DEF Request
      <4>4. QED BY <4>1, <4>2, <4>3 DEF PresentedToken, Spent
    <3>3. QED BY <3>1, <3>2
  <2>12. \A p \in Req : SignedToken(p)'
    <3> TAKE p \in Req
    <3>1. CASE p = r
      BY <1>1, <2>2, <2>3, <2>5, <2>7, <2>8, <3>1 DEF SignedToken, Pending
    <3>2. CASE p # r
      <4>1. Pending(p) => req[p].fresh # n
        BY <1>1, <3>2 DEF IInv, FreshDistinct
      <4>2. QED BY <2>2, <2>3, <2>5, <2>8, <3>2, <4>1 DEF IInv, SignedToken, Pending
    <3>3. QED BY <3>1, <3>2
  <2>13. FreshDistinct'
    BY <2>7, <2>8 DEF IInv, FreshDistinct, Pending
  <2>14. RotationConsumes'
    <3>1. SUFFICES ASSUME NEW j \in Jti, row'[j].status # "absent", row'[j].parent # None
                   PROVE  row'[row'[j].parent].status \in {"revoked", "purged"}
      BY DEF RotationConsumes
    <3>2. CASE j = n
      <4>1. row'[j].parent = req[r].jti
        BY <2>5, <3>2
      <4>2. req[r].jti \in Jti /\ Spent(req[r].jti)
        BY <1>1, <3>1, <4>1 DEF SaveToken, PresentedToken, Request
      <4>3. QED BY <2>3, <2>5, <4>1, <4>2 DEF Spent
    <3>3. CASE j # n
      <4>1. row'[j] = row[j] /\ row[j].parent \in Jti
            /\ row[row[j].parent].status \in {"revoked", "purged"}
        BY <2>5, <3>1, <3>3 DEF IInv, TypeOK, Row, RotationConsumes
      <4>2. QED BY <2>3, <2>5, <4>1
    <3>4. QED BY <3>2, <3>3
  <2>15. QED BY <2>9, <2>10, <2>11, <2>12, <2>13, <2>14 DEF IInv
<1>4. QED BY <1>2, <1>3

LEMMA RespondInv ==
  ASSUME IInv, NEW r \in Req, Respond(r)
  PROVE  IInv'
<1> DEFINE q == [req[r] EXCEPT !.pc = "done"]
<1>1. PresentedToken(r) /\ SignedToken(r) /\ req[r] \in Request /\ req[r].pc = "saved"
  BY DEF Respond, IInv, TypeOK
<1>2. UNCHANGED <<row, jwt, age, account, known>> /\ delivered' = delivered \cup {req[r].fresh}
  BY DEF Respond
<1>3. q \in Request /\ req' = [req EXCEPT ![r] = q]
  BY GotoEffect DEF Respond, IInv, TypeOK, Label, Final
<1>4. q.pc = "done" /\ q.op = req[r].op /\ q.jti = req[r].jti /\ q.user = req[r].user
  BY <1>1 DEF Request
<1> HIDE DEF q
<1>5. req' \in [Req -> Request] /\ req'[r] = q /\ \A p \in Req : p # r => req'[p] = req[p]
  BY <1>3 DEF IInv, TypeOK
<1>6. TypeOK'
  BY <1>1, <1>2, <1>5 DEF IInv, TypeOK, InTable, SignedToken
<1>7. SavedTokens'
  BY <1>1, <1>2 DEF IInv, SavedTokens, SignedToken
<1>8. \A p \in Req : PresentedToken(p)'
  BY <1>1, <1>2, <1>4, <1>5 DEF IInv, PresentedToken, Spent
<1>9. \A p \in Req : SignedToken(p)'
  BY <1>2, <1>4, <1>5 DEF IInv, SignedToken, Pending
<1>10. FreshDistinct'
  BY <1>4, <1>5 DEF IInv, FreshDistinct, Pending
<1>11. RotationConsumes'
  BY <1>2 DEF IInv, RotationConsumes
<1>12. QED BY <1>6, <1>7, <1>8, <1>9, <1>10, <1>11 DEF IInv

LEMMA SelectForRevocationInv ==
  ASSUME IInv, NEW r \in Req, SelectForRevocation(r)
  PROVE  IInv'
<1> DEFINE S == {i \in Scope(req[r].op, req[r].user, req[r].session, None) : Active(i)}
           label == IF S = {} THEN "done" ELSE "commit"
           q == [req[r] EXCEPT !.pc = label, !.rows = S]
<1>1. PresentedToken(r) /\ req[r] \in Request
  BY DEF IInv, TypeOK
<1>2. S \in SUBSET Jti
  BY ScopeType
<1>3. req' = [req EXCEPT ![r] = q]
  BY DEF SelectForRevocation, IInv, TypeOK
<1>a. label \in {"done", "commit"} /\ label \in Label
  BY DEF Label, Final
<1> HIDE DEF S, label
<1>4. /\ q \in Request /\ q.pc \in {"done", "commit"} /\ q.op = req[r].op
      /\ q.jti = req[r].jti /\ q.user = req[r].user
  BY <1>1, <1>2, <1>a DEF Request
<1> HIDE DEF q
<1>5. OnlySpends /\ UNCHANGED <<row, jwt, age, delivered, account, known>>
  BY UnchangedSpends DEF SelectForRevocation, IInv
<1>6. known' \in [Req -> SUBSET Jti]
  BY <1>5 DEF IInv, TypeOK
<1>7. QED BY <1>1, <1>3, <1>4, <1>5, <1>6, RequestStep DEF PresentedToken

LEMMA CommitRevocationInv ==
  ASSUME IInv, NEW r \in Req, CommitRevocation(r)
  PROVE  IInv'
<1>1. SetStatus(req[r].rows \ Lost(r), "revoked") /\ Goto(r, Outcome(r))
      /\ UNCHANGED <<jwt, age, delivered, account, known>>
  BY DEF CommitRevocation
<1>2. /\ req[r].rows \ Lost(r) \in SUBSET Jti
      /\ \A j \in req[r].rows \ Lost(r) : InTable(j)
  BY DEF IInv, TypeOK, Request, Lost
<1>3. OnlySpends
  BY <1>1, <1>2, SetStatusSpends DEF IInv
<1>4. Outcome(r) \in {"detected", "done"}
  BY DEF Outcome
<1>5. QED BY <1>1, <1>3, <1>4, GotoInv DEF Label, Final

LEMMA FailRevocationInv ==
  ASSUME IInv, NEW r \in Req, FailRevocation(r)
  PROVE  IInv'
BY GotoInv, UnchangedSpends DEF FailRevocation, Label, Final, IInv

LEMMA AbortInv ==
  ASSUME IInv, NEW r \in Req, Abort(r)
  PROVE  IInv'
BY GotoInv, UnchangedSpends DEF Abort, Label, Final, IInv

LEMMA FinishInv ==
  ASSUME IInv, NEW r \in Req, Finish(r)
  PROVE  IInv'
<1>1. OnlySpends /\ req' = [req EXCEPT ![r] = Idle]
      /\ UNCHANGED <<row, jwt, age, delivered, account>> /\ known' \in [Req -> SUBSET Jti]
  BY UnchangedSpends DEF Finish, IInv, TypeOK
<1>2. Idle.pc = "idle" /\ Idle.op = "none"
  BY DEF Idle
<1>3. QED BY <1>1, <1>2, IdleType, RequestStep

-----------------------------------------------------------------------------
(* One lemma per action: time, maintenance and administration              *)

LEMMA ExpireInv ==
  ASSUME IInv, NEW j \in Jti, Expire(j)
  PROVE  IInv'
BY EnvironmentStep, UnchangedSpends DEF Expire, IInv, TypeOK

LEMMA CleanupInv ==
  ASSUME IInv, Cleanup
  PROVE  IInv'
<1> DEFINE S == {j \in Jti : InTable(j) /\ age[j] = "stale"}
<1>1. SetStatus(S, "purged") /\ UNCHANGED <<jwt, age, delivered, account, req, known>>
  BY DEF Cleanup
<1>2. OnlySpends
  BY <1>1, SetStatusSpends DEF IInv
<1>3. QED BY <1>1, <1>2, EnvironmentStep DEF IInv, TypeOK

LEMMA SetActiveInv ==
  ASSUME IInv, NEW u \in User, SetActive(u)
  PROVE  IInv'
BY EnvironmentStep, UnchangedSpends DEF SetActive, IInv, TypeOK

LEMMA DeleteUserInv ==
  ASSUME IInv, NEW u \in User, DeleteUser(u)
  PROVE  IInv'
<1> DEFINE S == {j \in Jti : InTable(j) /\ row[j].user = u}
<1>1. SetStatus(S, "purged") /\ UNCHANGED <<jwt, age, delivered, req, known>>
      /\ account' = [account EXCEPT ![u] = "absent"]
  BY DEF DeleteUser
<1>2. OnlySpends
  BY <1>1, SetStatusSpends DEF IInv
<1>3. QED BY <1>1, <1>2, EnvironmentStep DEF IInv, TypeOK

-----------------------------------------------------------------------------
(* The invariant                                                           *)

LEMMA InitIInv == Init => IInv
BY IdleType DEF Init, IInv, TypeOK, Row, NoRow, Claims, Idle, SavedTokens, PresentedToken,
   SignedToken, Pending, FreshDistinct, RotationConsumes, InTable

LEMMA NextIInv == IInv /\ [Next]_vars => IInv'
<1> SUFFICES ASSUME IInv, [Next]_vars PROVE IInv'
  OBVIOUS
<1>1. ASSUME NEW r \in Req, Arrive(r) PROVE IInv'
  BY <1>1, LoginInv, BeginRefreshInv, BeginRevokeSessionInv, LogoutInv
  DEF Arrive
<1>2. ASSUME NEW r \in Req, Advance(r) PROVE IInv'
  BY <1>2, ValidateRefreshInv, SelectChainInv, AuthRefreshInv, SelectOldInv, SpendOldInv,
     ReadSessionInv, SaveTokenInv, RespondInv, SelectForRevocationInv,
     CommitRevocationInv, FailRevocationInv, FinishInv
  DEF Advance
<1>3. CASE Environment
  BY <1>3, ExpireInv, CleanupInv, SetActiveInv, DeleteUserInv DEF Environment
<1>4. CASE UNCHANGED vars
  <2>1. OnlySpends /\ UNCHANGED <<jwt, age, delivered, account, req, known>>
    BY <1>4, UnchangedSpends DEF vars, IInv
  <2>2. QED BY <2>1, EnvironmentStep DEF IInv, TypeOK
<1>5. QED BY <1>1, <1>2, <1>3, <1>4, AbortInv DEF Next

(* IInv holds in every reachable state.                                    *)
THEOREM InductiveInvariant == Spec => []IInv
<1>1. Init => IInv
  BY InitIInv
<1>2. IInv /\ [Next]_vars => IInv'
  BY NextIInv
<1>3. QED BY <1>1, <1>2, PTL DEF Spec

(* Every reachable state is well typed, and every row of the table has an  *)
(* owner and a session.                                                    *)
THEOREM TypeCorrect == Spec => []TypeOK
<1>1. IInv => TypeOK
  BY DEF IInv
<1>2. QED BY <1>1, InductiveInvariant, PTL

(* For any number of concurrent refreshes, crashes, clean-ups and account  *)
(* changes, a rotated token never exists beside an unspent parent.         *)
THEOREM RotationConsumesAlways == Spec => []RotationConsumes
<1>1. IInv => RotationConsumes
  BY DEF IInv
<1>2. QED BY <1>1, InductiveInvariant, PTL

-----------------------------------------------------------------------------
(* The table implements the ledger                                         *)

LedgerStep == [Ledger!Next]_(Ledger!vars)

LEMMA RowsUnchangedLedger ==
  ASSUME UNCHANGED row
  PROVE  LedgerStep
BY DEF LedgerStep, Ledger!vars

(* Revoking rows of the table revokes in the ledger those that are active. *)
LEMMA RevokeLedger ==
  ASSUME IInv, NEW S \in SUBSET Jti, \A j \in S : InTable(j), SetStatus(S, "revoked")
  PROVE  LedgerStep
<1> PICK T \in SUBSET Jti : T = {j \in S : Active(j)}
  OBVIOUS
<1>1. /\ row' \in [Jti -> Row]
      /\ \A j \in Jti : /\ row'[j].status = IF j \in S THEN "revoked" ELSE row[j].status
                        /\ row'[j].parent = row[j].parent
  BY SetStatusEffect DEF IInv, TypeOK
<1>2. \A j \in Jti : row'[j].status = IF j \in T THEN "revoked" ELSE row[j].status
  BY <1>1 DEF InTable, Active
<1>3. T \in SUBSET Jti /\ \A j \in T : row[j].status = "active"
  BY DEF Active
<1>4. [j \in Jti |-> row'[j].status]
        = [j \in Jti |-> IF j \in T THEN "revoked" ELSE [i \in Jti |-> row[i].status][j]]
  BY <1>2
<1>5. [j \in Jti |-> row'[j].parent] = [j \in Jti |-> row[j].parent]
  BY <1>1
<1>6. Ledger!Revoke(T)
  BY <1>3, <1>4, <1>5 DEF Ledger!Revoke
<1>7. QED BY <1>3, <1>6 DEF LedgerStep, Ledger!Next

LEMMA PurgeLedger ==
  ASSUME IInv, NEW S \in SUBSET Jti, \A j \in S : InTable(j), SetStatus(S, "purged")
  PROVE  LedgerStep
<1>1. \A j \in Jti : /\ row'[j].status = IF j \in S THEN "purged" ELSE row[j].status
                     /\ row'[j].parent = row[j].parent
  BY SetStatusEffect DEF IInv, TypeOK
<1>2. [j \in Jti |-> row'[j].status]
        = [j \in Jti |-> IF j \in S THEN "purged" ELSE [i \in Jti |-> row[i].status][j]]
  BY <1>1
<1>3. [j \in Jti |-> row'[j].parent] = [j \in Jti |-> row[j].parent]
  BY <1>1
<1>4. Ledger!Purge(S)
  BY <1>2, <1>3 DEF Ledger!Purge, InTable
<1>5. QED BY <1>4 DEF LedgerStep, Ledger!Next

(* Saving a token opens a session or rotates a spent token.                *)
LEMMA SaveLedger ==
  ASSUME IInv, NEW r \in Req, SaveToken(r)
  PROVE  LedgerStep
<1>1. PresentedToken(r) /\ SignedToken(r) /\ Pending(r) /\ req[r] \in Request
  BY DEF SaveToken, IInv, TypeOK, Pending
<1> PICK n \in Jti, p \in Jti \cup {None} : n = req[r].fresh /\ p = req[r].jti
  BY <1>1 DEF SignedToken, Request
<1>2. row[n].status = "absent"
  BY <1>1 DEF SignedToken
<1>3. CASE UNCHANGED row
  BY <1>3, RowsUnchangedLedger
<1>4. CASE row' = [row EXCEPT ![n] =
                  [status |-> "active", user |-> jwt[n].user, client |-> jwt[n].client,
                   session |-> req[r].session, parent |-> p]]
  <2>1. [j \in Jti |-> row'[j].status] = [[j \in Jti |-> row[j].status] EXCEPT ![n] = "active"]
    BY <1>2, <1>4 DEF IInv, TypeOK
  <2>2. [j \in Jti |-> row'[j].parent] = [[j \in Jti |-> row[j].parent] EXCEPT ![n] = p]
    BY <1>2, <1>4 DEF IInv, TypeOK
  <2>3. CASE p = None
    <3>1. Ledger!Open(n)
      BY <1>2, <2>1, <2>2, <2>3 DEF Ledger!Open
    <3>2. QED BY <1>2, <3>1 DEF LedgerStep, Ledger!Next
  <2>4. CASE p # None
    <3>1. p \in Jti /\ row[p].status \in {"revoked", "purged"}
      BY <1>1, <1>2, <2>4 DEF SaveToken, PresentedToken, Spent
    <3>2. Ledger!Rotate(n, p)
      BY <1>2, <2>1, <2>2, <3>1 DEF Ledger!Rotate
    <3>3. QED BY <1>2, <3>1, <3>2 DEF LedgerStep, Ledger!Next
  <2>5. QED BY <2>3, <2>4
<1>5. QED BY <1>3, <1>4 DEF SaveToken

LEMMA NextLedger == IInv /\ [Next]_vars => LedgerStep
<1> SUFFICES ASSUME IInv, [Next]_vars PROVE LedgerStep
  OBVIOUS
<1>1. ASSUME NEW r \in Req, Arrive(r) PROVE LedgerStep
  BY <1>1, RowsUnchangedLedger
  DEF Arrive, Login, BeginRefresh, BeginRevokeSession, Logout
<1>2. ASSUME NEW r \in Req, Advance(r) PROVE LedgerStep
  <2>1. CASE SpendOld(r)
    <3>1. PresentedToken(r) /\ req[r].op = "refresh"
      BY <2>1 DEF SpendOld, IInv, PresentedToken
    <3>2. QED BY <2>1, <3>1, RevokeLedger, RowsUnchangedLedger DEF SpendOld, PresentedToken
  <2>2. CASE CommitRevocation(r)
    <3>1. /\ req[r].rows \ Lost(r) \in SUBSET Jti
          /\ \A j \in req[r].rows \ Lost(r) : InTable(j)
      BY DEF IInv, TypeOK, Request, Lost
    <3>2. QED BY <2>2, <3>1, RevokeLedger DEF CommitRevocation
  <2>3. CASE SaveToken(r)
    BY <2>3, SaveLedger
  <2>4. CASE UNCHANGED row
    BY <2>4, RowsUnchangedLedger
  <2>5. QED BY <1>2, <2>1, <2>2, <2>3, <2>4
      DEF Advance, ValidateRefresh, SelectChain, AuthRefresh, SelectOld, ReadSession, Respond,
          SelectForRevocation, FailRevocation, Finish
<1>3. CASE Environment
  <2>1. CASE Cleanup
    BY <2>1, PurgeLedger DEF Cleanup
  <2>2. ASSUME NEW u \in User, DeleteUser(u) PROVE LedgerStep
    BY <2>2, PurgeLedger DEF DeleteUser
  <2>3. QED BY <1>3, <2>1, <2>2, RowsUnchangedLedger DEF Environment, Expire, SetActive
<1>4. ASSUME NEW r \in Req, Abort(r) PROVE LedgerStep
  BY <1>4, RowsUnchangedLedger DEF Abort
<1>5. CASE UNCHANGED vars
  BY <1>5, RowsUnchangedLedger DEF vars
<1>6. QED BY <1>1, <1>2, <1>3, <1>4, <1>5 DEF Next

(* RefreshTokens implements TokenLedger: a token enters once, a successor  *)
(* enters only after its parent is spent, and what is spent stays spent.   *)
THEOREM ImplementsLedger == Spec => LedgerSpec
<1>1. Init => Ledger!Init
  BY DEF Init, NoRow, Ledger!Init
<1>2. IInv /\ [Next]_vars => [Ledger!Next]_(Ledger!vars)
  BY NextLedger DEF LedgerStep
<1>3. QED BY <1>1, <1>2, InductiveInvariant, PTL DEF Spec, LedgerSpec, Ledger!Spec


-----------------------------------------------------------------------------
(* Whose tokens a request holds, rotates and revokes                       *)

Absent(j) == row[j].status = "absent"

(* Token i is one that the revocation of request r is about.               *)
Mine(r, i) ==
    /\ i \in Jti
    /\ ~Absent(i)
    /\ row[i].user = req[r].user
    /\ req[r].op = "revokeSession" => row[i].session = req[r].session
    /\ req[r].op = "refresh" => row[i].client = jwt[req[r].jti].client

(* Every row belongs to whom its token was signed for.                     *)
RowsSigned ==
    \A j \in Jti :
        ~Absent(j) => row[j].user = jwt[j].user /\ row[j].client = jwt[j].client

(* Which operations reach which statements.                                *)
Operation(r) ==
    /\ req[r].pc = "select" => req[r].op = "revokeSession"
    /\ req[r].pc = "commit" => req[r].op \in {"refresh", "revokeSession"}
    /\ Pending(r) \/ req[r].pc = "saved" => req[r].op \in {"login", "refresh"}
    /\ req[r].op # "refresh" => req[r].jti = None

(* A refresh acts for the user of the token presented, and the token it    *)
(* signs has the same user and client; it is saved in the same session.    *)
Bearer(r) ==
    /\ req[r].op = "refresh" => req[r].user = jwt[req[r].jti].user
    /\ Pending(r) /\ req[r].op = "refresh" => jwt[req[r].fresh] = jwt[req[r].jti]
    /\ req[r].pc = "save" /\ req[r].op = "refresh" /\ InTable(req[r].jti)
        => req[r].session = row[req[r].jti].session

(* A token spent on arrival stays spent, which is what ValidateRefresh     *)
(* looks at.                                                               *)
SpentOnArrival(r) ==
    req[r].op = "refresh" /\ req[r].jti \in known[r] =>
        /\ Spent(req[r].jti)
        /\ req[r].pc \in {"validate", "chain", "commit", "detected", "refused", "error"}

Revoking(r) == req[r].op \in {"refresh", "revokeSession"}

(* A token that a revocation is expected to end is among the rows it has   *)
(* selected, or was not active when it selected them.                      *)
Covering(r) ==
    /\ Revoking(r) => \A i \in known[r] : Mine(r, i)
    /\ req[r].pc = "commit" => /\ \A i \in req[r].rows : Mine(r, i)
                               /\ \A i \in known[r] : Active(i) => i \in req[r].rows
    /\ \/ req[r].pc = "done" /\ req[r].op = "revokeSession"
       \/ req[r].pc = "detected"
       => Revoking(r) /\ \A i \in known[r] : ~Active(i)

RequestOwns(r) == Operation(r) /\ Bearer(r) /\ SpentOnArrival(r) /\ Covering(r)

OwnInv ==
    /\ RowsSigned
    /\ RotationKeepsOwner
    /\ \A r \in Req : RequestOwns(r)

(* What no step takes back: a row keeps its data, what is spent stays      *)
(* spent, what is not active never becomes so again, and a signed token    *)
(* keeps its claims.                                                       *)
Forward ==
    /\ \A j \in Jti : ~Absent(j) =>
        /\ ~Absent(j)'
        /\ row'[j].user = row[j].user
        /\ row'[j].client = row[j].client
        /\ row'[j].session = row[j].session
        /\ row'[j].parent = row[j].parent
        /\ Spent(j) => Spent(j)'
        /\ ~Active(j) => ~Active(j)'
        /\ InTable(j)' => InTable(j)
    /\ \A j \in Jti : jwt[j].user # None => jwt'[j] = jwt[j]

LEMMA SpendingGoesForward ==
  ASSUME IInv, OnlySpends, UNCHANGED jwt
  PROVE  Forward /\ \A j \in Jti : Absent(j)' <=> Absent(j)
BY DEF IInv, TypeOK, OnlySpends, Forward, Absent, InTable, Active, Spent

(* Which steps sign, which save, and that the others only spend rows.      *)
LEMMA Kinds ==
  ASSUME IInv, [Next]_vars
  PROVE  \/ OnlySpends /\ UNCHANGED jwt
         \/ \E r \in Req : \E u \in User, c \in Client : Login(r, u, c)
         \/ \E r \in Req : AuthRefresh(r) \/ SaveToken(r)
<1>0. TypeOK
  BY DEF IInv
<1>1. CASE UNCHANGED vars
  <2>1. UNCHANGED row /\ UNCHANGED jwt
    BY <1>1 DEF vars
  <2>2. QED BY <1>0, <2>1, UnchangedSpends
<1>2. ASSUME NEW r \in Req, Arrive(r),
             ~\E u \in User, c \in Client : Login(r, u, c)
      PROVE  OnlySpends /\ UNCHANGED jwt
  <2>1. UNCHANGED row /\ UNCHANGED jwt
    BY <1>2, ZenonT(30)
    DEF Arrive, BeginRefresh, BeginRevokeSession, Logout
  <2>2. QED BY <1>0, <2>1, UnchangedSpends
<1>3. ASSUME NEW r \in Req, Advance(r), ~AuthRefresh(r), ~SaveToken(r)
      PROVE  OnlySpends /\ UNCHANGED jwt
  <2>1. CASE SpendOld(r)
    <3>1. PresentedToken(r) /\ req[r].op = "refresh" /\ req[r].jti \in Jti
      BY <2>1 DEF SpendOld, IInv, PresentedToken
    <3>2. CASE InTable(req[r].jti)
      BY <1>0, <2>1, <3>1, <3>2, SetStatusSpends DEF SpendOld
    <3>3. CASE ~InTable(req[r].jti)
      BY <1>0, <2>1, <3>3, UnchangedSpends DEF SpendOld
    <3>4. QED BY <3>2, <3>3
  <2>2. CASE CommitRevocation(r)
    <3>1. /\ req[r].rows \ Lost(r) \in SUBSET Jti
          /\ \A j \in req[r].rows \ Lost(r) : InTable(j)
      BY <1>0 DEF TypeOK, Request, Lost
    <3>2. QED BY <1>0, <2>2, <3>1, SetStatusSpends DEF CommitRevocation
  <2>3. CASE UNCHANGED <<row, jwt>>
    BY <1>0, <2>3, UnchangedSpends
  <2>4. QED BY <1>3, <2>1, <2>2, <2>3
      DEF Advance, ValidateRefresh, SelectChain, SelectOld, ReadSession, Respond,
          SelectForRevocation, FailRevocation, Finish
<1>4. CASE Environment
  <2>1. CASE Cleanup
    BY <1>0, <2>1, SetStatusSpends DEF Cleanup
  <2>2. ASSUME NEW u \in User, DeleteUser(u)
        PROVE  OnlySpends /\ UNCHANGED jwt
    BY <1>0, <2>2, SetStatusSpends DEF DeleteUser
  <2>3. QED BY <1>0, <1>4, <2>1, <2>2, UnchangedSpends DEF Environment, Expire, SetActive
<1>5. ASSUME NEW r \in Req, Abort(r) PROVE OnlySpends /\ UNCHANGED jwt
  BY <1>0, <1>5, UnchangedSpends DEF Abort
<1>6. QED BY <1>1, <1>2, <1>3, <1>4, <1>5 DEF Next

(* A token that is signed was not signed before.                           *)
LEMMA SigningGoesForward ==
  ASSUME IInv, UNCHANGED row, NEW n \in Unminted, NEW c, jwt' = [jwt EXCEPT ![n] = c]
  PROVE  Forward
<1>1. n \in Jti /\ jwt[n].user = None /\ \A j \in Jti : j # n => jwt'[j] = jwt[j]
  BY DEF IInv, TypeOK, Unminted
<1>2. QED BY <1>1 DEF Forward, Absent, InTable, Active, Spent

(* A row that is saved was not in the table before.                        *)
LEMMA SavingGoesForward ==
  ASSUME IInv, NEW r \in Req, SaveToken(r)
  PROVE  /\ Forward
         /\ account[req[r].user] = "absent" => row' = row
         /\ account[req[r].user] # "absent" =>
              /\ req[r].fresh \in Jti /\ Absent(req[r].fresh)
              /\ \A j \in Jti : j # req[r].fresh => row'[j] = row[j]
              /\ row'[req[r].fresh] =
                    [status |-> "active", user |-> jwt[req[r].fresh].user,
                     client |-> jwt[req[r].fresh].client,
                     session |-> req[r].session, parent |-> req[r].jti]
<1>1. /\ SignedToken(r) /\ Pending(r) /\ jwt' = jwt
      /\ req[r].fresh \in Jti /\ Absent(req[r].fresh)
  BY DEF SaveToken, IInv, Pending, SignedToken, Absent
<1>2. CASE account[req[r].user] = "absent"
  BY <1>1, <1>2 DEF SaveToken, Forward, Absent, InTable, Active, Spent
<1>3. CASE account[req[r].user] # "absent"
  <2> DEFINE n == req[r].fresh
             new == [status |-> "active", user |-> jwt[n].user, client |-> jwt[n].client,
                     session |-> req[r].session, parent |-> req[r].jti]
  <2>1. row' = [row EXCEPT ![n] = new]
    BY <1>3 DEF SaveToken
  <2>2. row'[n] = new /\ \A j \in Jti : j # n => row'[j] = row[j]
    BY <1>1, <2>1 DEF IInv, TypeOK
  <2> HIDE DEF new
  <2>3. Forward
    BY <1>1, <2>2 DEF Forward, Absent, InTable, Active, Spent
  <2>4. QED BY <1>1, <1>3, <2>2, <2>3 DEF new
<1>4. QED BY <1>2, <1>3

LEMMA GoesForward ==
  ASSUME IInv, [Next]_vars
  PROVE  Forward
<1>1. ASSUME NEW r \in Req, NEW u \in User, NEW c \in Client, Login(r, u, c)
      PROVE  Forward
  BY <1>1, SigningGoesForward DEF Login
<1>2. ASSUME NEW r \in Req, AuthRefresh(r)
      PROVE  Forward
  <2>1. UNCHANGED row
    BY <1>2 DEF AuthRefresh
  <2>2. CASE UNCHANGED jwt
    BY <2>1, <2>2, UnchangedSpends, SpendingGoesForward DEF IInv
  <2>3. QED BY <1>2, <2>1, <2>2, SigningGoesForward DEF AuthRefresh
<1>3. QED BY <1>1, <1>2, Kinds, SpendingGoesForward, SavingGoesForward


(* Signed tokens have claims, and whose they are is in the rows.           *)
LEMMA Holdings ==
  ASSUME IInv, OwnInv, NEW r \in Req
  PROVE  /\ req[r] \in Request /\ known[r] \in SUBSET Jti
         /\ RequestOwns(r) /\ PresentedToken(r) /\ SignedToken(r)
         /\ req[r].op = "refresh" =>
              /\ req[r].jti \in Jti /\ ~Absent(req[r].jti)
              /\ jwt[req[r].jti].user # None
              /\ row[req[r].jti].user = jwt[req[r].jti].user
              /\ row[req[r].jti].client = jwt[req[r].jti].client
         /\ Pending(r) => req[r].fresh \in Jti /\ jwt[req[r].fresh].user # None
<1>1. /\ req[r] \in Request /\ known[r] \in SUBSET Jti
      /\ RequestOwns(r) /\ PresentedToken(r) /\ SignedToken(r)
  BY DEF IInv, OwnInv, TypeOK
<1>2. req[r].op = "refresh" => req[r].jti \in Jti /\ ~Absent(req[r].jti)
  BY <1>1 DEF PresentedToken, Absent
<1>3. \A j \in Jti : ~Absent(j) =>
          /\ jwt[j].user # None
          /\ row[j].user = jwt[j].user /\ row[j].client = jwt[j].client
  BY RefreshTokensAssumption DEF IInv, OwnInv, SavedTokens, RowsSigned, Absent
<1>4. Pending(r) => req[r].fresh \in Jti /\ jwt[req[r].fresh].user # None
  BY <1>1, RefreshTokensAssumption DEF SignedToken
<1>5. QED BY <1>1, <1>2, <1>3, <1>4

(* A request that does not move keeps its part.                            *)
LEMMA OthersOwn ==
  ASSUME IInv, OwnInv, Forward, NEW q \in Req, req'[q] = req[q], known'[q] = known[q]
  PROVE  RequestOwns(q)'
<1>1. /\ req[q] \in Request /\ known[q] \in SUBSET Jti
      /\ RequestOwns(q)
      /\ req[q].op = "refresh" =>
           /\ req[q].jti \in Jti /\ ~Absent(req[q].jti)
           /\ jwt'[req[q].jti] = jwt[req[q].jti]
      /\ Pending(q) => req[q].fresh \in Jti /\ jwt'[req[q].fresh] = jwt[req[q].fresh]
  BY Holdings DEF Forward
<1>2. Operation(q)'
  BY <1>1 DEF RequestOwns, Operation, Pending
<1>3. Bearer(q)'
  BY <1>1 DEF RequestOwns, Bearer, Pending, Forward
<1>4. SpentOnArrival(q)'
  BY <1>1 DEF RequestOwns, SpentOnArrival, Forward
<1>5. \A i \in Jti : Mine(q, i) => Mine(q, i)' /\ (~Active(i) => ~Active(i)')
  BY <1>1 DEF Mine, Forward
<1>6. Covering(q)'
  <2>1. Covering(q) /\ (Revoking(q)' <=> Revoking(q))
    BY <1>1 DEF RequestOwns, Revoking
  <2>2. \A i : Mine(q, i) => i \in Jti
    BY DEF Mine
  <2>3. \A i : Mine(q, i) => Mine(q, i)' /\ (Active(i)' => Active(i))
    BY <1>5, <2>2
  <2>4. req[q].pc = "commit" => Revoking(q)
    BY <1>1 DEF RequestOwns, Operation, Revoking
  <2>5. QED BY <1>1, <2>1, <2>3, <2>4 DEF Covering
<1>7. QED BY <1>2, <1>3, <1>4, <1>6 DEF RequestOwns

(* A request that goes on to another label keeps its part when the label   *)
(* promises no more than its local variables do.                           *)
LEMMA GotoOwn ==
  ASSUME IInv, OwnInv, Forward, NEW r \in Req, NEW label \in Label, Goto(r, label),
         UNCHANGED <<jwt, known>>,
         label \notin {"select", "commit", "save"},
         label \in {"revoke", "spend", "session"} => Pending(r),
         label = "saved" => Pending(r),
         req[r].op = "refresh" /\ req[r].jti \in known[r] =>
            label \in {"validate", "chain", "detected", "refused", "error"},
         \/ label = "done" /\ req[r].op = "revokeSession"
         \/ label = "detected"
         => Revoking(r) /\ \A i \in known[r] : ~Active(i)'
  PROVE  RequestOwns(r)'
<1>1. /\ req'[r].pc = label /\ req'[r].op = req[r].op /\ req'[r].user = req[r].user
      /\ req'[r].jti = req[r].jti /\ req'[r].fresh = req[r].fresh
      /\ req'[r].session = req[r].session /\ req'[r].rows = req[r].rows
  BY DEF Goto, IInv, TypeOK, Request
<1>2. /\ known[r] \in SUBSET Jti /\ RequestOwns(r)
      /\ req[r].op = "refresh" => req[r].jti \in Jti /\ ~Absent(req[r].jti)
  BY Holdings
<1>3. Operation(r)'
  BY <1>1, <1>2 DEF RequestOwns, Operation, Pending
<1>4. Bearer(r)'
  BY <1>1, <1>2 DEF RequestOwns, Bearer, Pending
<1>5. SpentOnArrival(r)'
  BY <1>1, <1>2 DEF RequestOwns, SpentOnArrival, Forward
<1>6. \A i \in Jti : Mine(r, i) => Mine(r, i)'
  BY <1>1, <1>2 DEF Mine, Forward
<1>7. Covering(r)'
  BY <1>1, <1>2, <1>6 DEF RequestOwns, Covering, Revoking
<1>8. QED BY <1>3, <1>4, <1>5, <1>7 DEF RequestOwns

(* The rows, when none is saved.                                           *)
LEMMA RowsOwned ==
  ASSUME IInv, OwnInv, Forward, \A j \in Jti : Absent(j)' => row'[j] = row[j],
         \A j \in Jti : Absent(j) => Absent(j)'
  PROVE  RowsSigned' /\ RotationKeepsOwner'
<1>1. \A j \in Jti : ~Absent(j) => jwt[j].user # None
  BY RefreshTokensAssumption DEF IInv, SavedTokens, Absent
<1>2. RowsSigned'
  BY <1>1 DEF OwnInv, RowsSigned, Forward
<1>3. ASSUME NEW j \in Jti, InTable(j)', NEW p, row'[j].parent = p, p # None
      PROVE  /\ row'[j].user = row'[p].user
             /\ row'[j].client = row'[p].client
             /\ InTable(p)' => row'[j].session = row'[p].session
  <2>1. ~Absent(j) /\ InTable(j) /\ row[j].parent = p
    BY <1>3 DEF Forward, InTable, Absent
  <2>2. p \in Jti /\ ~Absent(p)
    BY <1>3, <2>1 DEF IInv, TypeOK, Row, RotationConsumes, Absent
  <2>3. /\ row[j].user = row[p].user /\ row[j].client = row[p].client
        /\ InTable(p) => row[j].session = row[p].session
    BY <1>3, <2>1 DEF OwnInv, RotationKeepsOwner
  <2>4. QED BY <2>1, <2>2, <2>3 DEF Forward
<1>4. QED BY <1>2, <1>3 DEF RotationKeepsOwner

(* The row that is saved: its owner and session are those of the request.  *)
LEMMA SavedRowOwned ==
  ASSUME IInv, OwnInv, NEW r \in Req, SaveToken(r)
  PROVE  RowsSigned' /\ RotationKeepsOwner'
<1>1. Forward /\ jwt' = jwt
  BY SavingGoesForward DEF SaveToken
<1>2. CASE account[req[r].user] = "absent"
  <2>1. row' = row
    BY <1>2, SavingGoesForward
  <2>2. QED BY <1>1, <2>1, RowsOwned DEF Absent
<1>3. CASE account[req[r].user] # "absent"
  <2>1. /\ Operation(r) /\ Bearer(r) /\ req[r].pc = "save" /\ Pending(r)
        /\ req[r] \in Request
        /\ req[r].op = "refresh" =>
              /\ req[r].jti \in Jti /\ ~Absent(req[r].jti)
              /\ row[req[r].jti].user = jwt[req[r].jti].user
              /\ row[req[r].jti].client = jwt[req[r].jti].client
    BY Holdings DEF RequestOwns, SaveToken, Pending
  <2>2. PICK n \in Jti, p \in Jti \cup {None} : n = req[r].fresh /\ p = req[r].jti
    BY <1>3, <2>1, SavingGoesForward DEF Request
  <2>3. /\ Absent(n)
        /\ \A j \in Jti : j # n => row'[j] = row[j]
        /\ row'[n] = [status |-> "active", user |-> jwt[n].user, client |-> jwt[n].client,
                      session |-> req[r].session, parent |-> p]
    BY <1>3, <2>2, SavingGoesForward
  <2>4. /\ row'[n].user = jwt[n].user /\ row'[n].client = jwt[n].client
        /\ row'[n].session = req[r].session /\ row'[n].parent = p
    BY <2>3
  <2>5. RowsSigned'
    BY <1>1, <2>3, <2>4 DEF OwnInv, RowsSigned, Absent
  <2>6. ASSUME NEW j \in Jti, InTable(j)', NEW m, row'[j].parent = m, m # None
        PROVE  /\ row'[j].user = row'[m].user
               /\ row'[j].client = row'[m].client
               /\ InTable(m)' => row'[j].session = row'[m].session
    <3>1. CASE j = n
      <4>1. m = p /\ req[r].op = "refresh"
        BY <2>1, <2>2, <2>4, <2>6, <3>1 DEF Operation
      <4>2. /\ p \in Jti /\ p # n /\ row'[p] = row[p] /\ jwt[n] = jwt[p]
        BY <2>1, <2>2, <2>3, <4>1 DEF Bearer
      <4>3. InTable(p)' => req[r].session = row[p].session
        BY <2>1, <2>2, <4>1, <4>2 DEF Bearer, InTable
      <4>4. QED BY <2>1, <2>2, <2>4, <3>1, <4>1, <4>2, <4>3
    <3>2. CASE j # n
      <4>1. row'[j] = row[j] /\ InTable(j) /\ row[j].parent = m
        BY <2>3, <2>6, <3>2 DEF InTable
      <4>2. m \in Jti /\ ~Absent(m)
        BY <2>6, <4>1 DEF IInv, TypeOK, Row, RotationConsumes, InTable, Absent
      <4>3. row'[m] = row[m]
        BY <2>3, <4>2
      <4>4. /\ row[j].user = row[m].user /\ row[j].client = row[m].client
            /\ InTable(m) => row[j].session = row[m].session
        BY <2>6, <4>1 DEF OwnInv, RotationKeepsOwner
      <4>5. QED BY <4>1, <4>3, <4>4 DEF InTable
    <3>3. QED BY <3>1, <3>2
  <2>7. QED BY <2>5, <2>6 DEF RotationKeepsOwner
<1>4. QED BY <1>2, <1>3

LEMMA TableOwned ==
  ASSUME IInv, OwnInv, [Next]_vars
  PROVE  RowsSigned' /\ RotationKeepsOwner'
<1>1. Forward
  BY GoesForward
<1>2. CASE UNCHANGED row
  BY <1>1, <1>2, RowsOwned DEF Absent
<1>3. CASE OnlySpends /\ UNCHANGED jwt
  <2>1. \A j \in Jti : Absent(j)' <=> Absent(j)
    BY <1>3, SpendingGoesForward
  <2>2. \A j \in Jti : Absent(j)' => row'[j] = row[j]
    BY <1>3, <2>1 DEF OnlySpends, IInv, TypeOK, Row, Absent
  <2>3. QED BY <1>1, <2>1, <2>2, RowsOwned
<1>4. QED BY <1>2, <1>3, Kinds, SavedRowOwned DEF Login, AuthRefresh


(* A request that arrives owns what it names.                              *)
LEMMA ArrivalOwns ==
  ASSUME IInv, OwnInv, NEW r \in Req, Arrive(r)
  PROVE  RequestOwns(r)'
<1>1. TypeOK /\ req \in [Req -> Request] /\ known \in [Req -> SUBSET Jti]
  BY DEF IInv, TypeOK
<1> USE DEF RequestOwns, Operation, Bearer, SpentOnArrival, Covering, Revoking, Pending
<1>2. ASSUME NEW u \in User, NEW c \in Client, Login(r, u, c)
      PROVE  RequestOwns(r)'
  <2>1. PICK n \in Unminted :
          req' = [req EXCEPT ![r] =
                    [Idle EXCEPT !.pc = "save", !.op = "login", !.user = u,
                                 !.client = c, !.fresh = n, !.session = n]]
    BY <1>2 DEF Login
  <2> DEFINE q == [Idle EXCEPT !.pc = "save", !.op = "login", !.user = u,
                               !.client = c, !.fresh = n, !.session = n]
  <2>2. q.pc = "save" /\ q.op = "login" /\ q.jti = None
    BY DEF Idle
  <2>3. req' = [req EXCEPT ![r] = q]
    BY <2>1
  <2> HIDE DEF q
  <2>4. req'[r].pc = "save" /\ req'[r].op = "login" /\ req'[r].jti = None
    BY <1>1, <2>2, <2>3
  <2>5. QED BY <2>4
<1>3. ASSUME NEW u \in User, Logout(r, u)
      PROVE  RequestOwns(r)'
  <2>1. PICK op \in {"logout", "logoutAll"} :
          req' = [req EXCEPT ![r] = [Idle EXCEPT !.pc = "error", !.op = op, !.user = u]]
    BY <1>3 DEF Logout
  <2> DEFINE q == [Idle EXCEPT !.pc = "error", !.op = op, !.user = u]
  <2>2. req' = [req EXCEPT ![r] = q] /\ q.pc = "error" /\ q.op = op /\ q.jti = None
    BY <2>1 DEF Idle
  <2> HIDE DEF q
  <2>3. req'[r].pc = "error" /\ req'[r].op = op /\ req'[r].jti = None
    BY <1>1, <2>2
  <2>4. QED BY <2>3
<1>4. ASSUME NEW u \in User, BeginRevokeSession(r, u)
      PROVE  RequestOwns(r)'
  <2>1. PICK s : req' = [req EXCEPT ![r] = [Idle EXCEPT !.pc = "select",
                                !.op = "revokeSession", !.user = u, !.session = s]]
                 /\ known' = [known EXCEPT ![r] = Scope("revokeSession", u, s, None)]
    BY <1>4 DEF BeginRevokeSession
  <2> DEFINE q == [Idle EXCEPT !.pc = "select", !.op = "revokeSession",
                               !.user = u, !.session = s]
  <2>2. /\ req' = [req EXCEPT ![r] = q] /\ q.pc = "select" /\ q.op = "revokeSession"
        /\ q.jti = None /\ q.user = u /\ q.session = s
    BY <2>1 DEF Idle
  <2> HIDE DEF q
  <2>3. /\ req'[r].pc = "select" /\ req'[r].op = "revokeSession" /\ req'[r].jti = None
        /\ req'[r].user = u /\ req'[r].session = s
    BY <1>1, <2>2
  <2>4. known'[r] = Scope("revokeSession", u, s, None) /\ row' = row
    BY <1>1, <1>4, <2>1 DEF BeginRevokeSession
  <2>5. \A i \in known'[r] : Mine(r, i)'
    BY <2>3, <2>4 DEF Mine, Scope, InTable, Absent
  <2>6. QED BY <2>3, <2>5
<1>5. ASSUME NEW j \in Jti, NEW c \in Client, BeginRefresh(r, j, c)
      PROVE  RequestOwns(r)'
  <2> DEFINE q == [Idle EXCEPT !.pc = "validate", !.op = "refresh",
                               !.user = jwt[j].user, !.client = c, !.jti = j]
  <2>1. /\ req' = [req EXCEPT ![r] = q] /\ UNCHANGED <<row, jwt>>
        /\ q.pc = "validate" /\ q.op = "refresh" /\ q.jti = j /\ q.user = jwt[j].user
    BY <1>5 DEF BeginRefresh, Idle
  <2> HIDE DEF q
  <2>2. /\ req'[r].pc = "validate" /\ req'[r].op = "refresh" /\ req'[r].jti = j
        /\ req'[r].user = jwt'[j].user
    BY <1>1, <2>1
  <2>3. known'[r] = IF row[j].status = "revoked"
                    THEN Scope("refresh", jwt[j].user, None, j) ELSE {}
    BY <1>1, <1>5 DEF BeginRefresh
  <2>4. row[j].status = "revoked" => row[j].client = jwt[j].client
    BY DEF OwnInv, RowsSigned, Absent
  <2>5. \A i \in known'[r] : Mine(r, i)' /\ Spent(j)'
    BY <2>1, <2>2, <2>3, <2>4 DEF Mine, Scope, InTable, Absent, Spent
  <2>6. QED BY <2>2, <2>5
<1>6. QED BY <1>2, <1>3, <1>4, <1>5 DEF Arrive

(* The steps of a refresh.                                                 *)
LEMMA RefreshOwns ==
  ASSUME IInv, OwnInv, Forward, NEW r \in Req,
         \/ ValidateRefresh(r) \/ SelectChain(r) \/ AuthRefresh(r) \/ SelectOld(r)
         \/ SpendOld(r) \/ ReadSession(r) \/ SaveToken(r) \/ Respond(r)
  PROVE  RequestOwns(r)'
<1>1. /\ TypeOK /\ req \in [Req -> Request]
      /\ Operation(r) /\ Bearer(r) /\ SpentOnArrival(r) /\ Covering(r)
      /\ PresentedToken(r) /\ req[r] \in Request /\ known[r] \in SUBSET Jti
      /\ req[r].op = "refresh" =>
            /\ req[r].jti \in Jti /\ ~Absent(req[r].jti)
            /\ jwt[req[r].jti].user # None
            /\ row[req[r].jti].user = jwt[req[r].jti].user
            /\ row[req[r].jti].client = jwt[req[r].jti].client
      /\ Pending(r) => req[r].fresh \in Jti /\ jwt[req[r].fresh].user # None
  BY Holdings DEF RequestOwns, IInv, TypeOK
<1>2. CASE ValidateRefresh(r)
  <2>1. req[r].op = "refresh" /\ req[r].pc = "validate" /\ UNCHANGED <<jwt, known>>
    BY <1>1, <1>2 DEF ValidateRefresh, PresentedToken
  <2>2. \/ Goto(r, "refused")
        \/ Goto(r, "chain")
        \/ Goto(r, "auth") /\ Active(req[r].jti)
    BY <1>2 DEF ValidateRefresh
  <2>3. Active(req[r].jti) => req[r].jti \notin known[r]
    BY <1>1, <2>1 DEF SpentOnArrival, Active, Spent
  <2>4. QED BY <2>1, <2>2, <2>3, GotoOwn DEF Label, Final
<1>3. CASE SelectChain(r)
  <2>1. /\ req[r].op = "refresh" /\ req[r].pc = "chain"
        /\ UNCHANGED <<row, jwt, known>>
    BY <1>1, <1>3 DEF SelectChain, PresentedToken
  <2>2. CASE ~InTable(req[r].jti)
    <3>1. Goto(r, "error")
      BY <1>3, <2>2 DEF SelectChain
    <3>2. QED BY <2>1, <3>1, GotoOwn DEF Label, Final
  <2>3. CASE InTable(req[r].jti)
    <3> DEFINE S == {i \in Scope("refresh", row[req[r].jti].user, None, req[r].jti) : Active(i)}
               q == [req[r] EXCEPT !.pc = "commit", !.rows = S]
    <3>1. req' = [req EXCEPT ![r] = q]
      BY <1>1, <1>3, <2>3 DEF SelectChain
    <3>2. /\ q.pc = "commit" /\ q.rows = S /\ q.op = req[r].op /\ q.jti = req[r].jti
          /\ q.user = req[r].user
      BY <1>1 DEF Request
    <3> HIDE DEF q, S
    <3>3. /\ req'[r].pc = "commit" /\ req'[r].rows = S /\ req'[r].op = "refresh"
          /\ req'[r].jti = req[r].jti /\ req'[r].user = req[r].user
      BY <1>1, <2>1, <3>1, <3>2
    <3>4. \A i \in known[r] : Mine(r, i)
      BY <1>1, <2>1 DEF Covering, Revoking
    <3>5. \A i : Mine(r, i) => Mine(r, i)'
      BY <2>1, <3>3 DEF Mine, Absent
    <3>6. \A i \in S : Mine(r, i)
      BY <1>1, <2>1 DEF Mine, S, Scope, InTable, Absent, Bearer
    <3>7. \A i : Mine(r, i) /\ Active(i) => i \in S
      BY <1>1, <2>1 DEF Mine, S, Scope, InTable, Active, Bearer
    <3>8. Covering(r)'
      BY <2>1, <3>3, <3>4, <3>5, <3>6, <3>7 DEF Covering, Active
    <3>9. SpentOnArrival(r)'
      BY <1>1, <2>1, <3>3 DEF SpentOnArrival, Spent
    <3>10. Operation(r)' /\ Bearer(r)'
      BY <1>1, <2>1, <3>3 DEF Operation, Bearer, Pending
    <3>11. QED BY <3>8, <3>9, <3>10 DEF RequestOwns
  <2>4. QED BY <2>2, <2>3
<1>4. CASE AuthRefresh(r)
  <2>1. /\ req[r].op = "refresh" /\ req[r].pc = "auth" /\ UNCHANGED <<row, known>>
        /\ req[r].jti \notin known[r]
    BY <1>1, <1>4 DEF AuthRefresh, PresentedToken, SpentOnArrival
  <2>2. CASE Goto(r, "refused") /\ UNCHANGED jwt
    BY <2>1, <2>2, GotoOwn DEF Label, Final
  <2>3. ASSUME MayRotate(r), NEW n \in Unminted,
               jwt' = [jwt EXCEPT ![n] = [user |-> req[r].user, client |-> req[r].client]],
               req' = [req EXCEPT ![r].pc = "revoke", ![r].fresh = n]
        PROVE  RequestOwns(r)'
    <3>1. n \in Jti /\ jwt'[n] = [user |-> req[r].user, client |-> req[r].client]
      BY <1>1, <2>3 DEF TypeOK, Unminted
    <3>2. jwt'[req[r].jti] = jwt[req[r].jti]
      BY <1>1, <2>1 DEF Forward
    <3>3. jwt[req[r].jti] = [user |-> req[r].user, client |-> req[r].client]
      BY <1>1, <2>1, <2>3 DEF MayRotate, Bearer, TypeOK, Claims
    <3>4. /\ req'[r].pc = "revoke" /\ req'[r].op = "refresh" /\ req'[r].jti = req[r].jti
          /\ req'[r].user = req[r].user /\ req'[r].fresh = n
      BY <1>1, <2>1, <2>3 DEF Request
    <3>5. \A i \in known[r] : Mine(r, i)'
      BY <1>1, <2>1, <3>2, <3>4 DEF Covering, Revoking, Mine, Absent
    <3>6. Covering(r)' /\ SpentOnArrival(r)'
      BY <2>1, <3>4, <3>5 DEF Covering, SpentOnArrival
    <3>7. Operation(r)'
      BY <3>4 DEF Operation
    <3>8. Bearer(r)'
      BY <1>1, <2>1, <3>1, <3>2, <3>3, <3>4 DEF Bearer
    <3>9. QED BY <3>6, <3>7, <3>8 DEF RequestOwns
  <2>4. QED BY <1>4, <2>2, <2>3 DEF AuthRefresh
<1>5. CASE SelectOld(r) \/ SpendOld(r)
  <2>1. /\ req[r].op = "refresh" /\ Pending(r) /\ UNCHANGED <<jwt, known>>
        /\ req[r].jti \notin known[r]
    BY <1>1, <1>5 DEF SelectOld, SpendOld, PresentedToken, SpentOnArrival, Pending
  <2>2. \E label \in {"spend", "session", "error"} : Goto(r, label)
    BY <1>5 DEF SelectOld, SpendOld
  <2>3. QED BY <2>1, <2>2, GotoOwn DEF Label, Final
<1>6. CASE ReadSession(r)
  <2>1. /\ req[r].op = "refresh" /\ req[r].pc = "session" /\ Pending(r)
        /\ UNCHANGED <<row, jwt, known>> /\ req[r].jti \notin known[r]
    BY <1>1, <1>6 DEF ReadSession, PresentedToken, SpentOnArrival, Pending
  <2> DEFINE s == IF InTable(req[r].jti) THEN row[req[r].jti].session ELSE req[r].fresh
             q == [req[r] EXCEPT !.pc = "save", !.session = s]
  <2>2. req' = [req EXCEPT ![r] = q]
    BY <1>1, <1>6 DEF ReadSession
  <2>3. /\ q.pc = "save" /\ q.session = s /\ q.op = req[r].op /\ q.jti = req[r].jti
        /\ q.user = req[r].user /\ q.fresh = req[r].fresh
    BY <1>1 DEF Request
  <2> HIDE DEF q
  <2>4. /\ req'[r].pc = "save" /\ req'[r].session = s /\ req'[r].op = "refresh"
        /\ req'[r].jti = req[r].jti /\ req'[r].user = req[r].user
        /\ req'[r].fresh = req[r].fresh
    BY <1>1, <2>1, <2>2, <2>3
  <2>5. \A i \in known[r] : Mine(r, i)'
    BY <1>1, <2>1, <2>4 DEF Covering, Revoking, Mine, Absent
  <2>6. Covering(r)' /\ SpentOnArrival(r)' /\ Operation(r)'
    BY <2>1, <2>4, <2>5 DEF Covering, SpentOnArrival, Operation
  <2>7. Bearer(r)'
    BY <1>1, <2>1, <2>4 DEF Bearer, InTable
  <2>8. QED BY <2>6, <2>7 DEF RequestOwns
<1>7. CASE SaveToken(r)
  <2>1. /\ Pending(r) /\ UNCHANGED <<jwt, known>>
        /\ req[r].op = "refresh" => req[r].jti \notin known[r]
    BY <1>1, <1>7 DEF SaveToken, SpentOnArrival, Pending
  <2>2. \E label \in {"saved", "error"} : Goto(r, label)
    BY <1>7 DEF SaveToken
  <2>3. QED BY <2>1, <2>2, GotoOwn DEF Label, Final
<1>8. CASE Respond(r)
  <2>1. /\ req[r].op \in {"login", "refresh"} /\ UNCHANGED <<jwt, known>> /\ Goto(r, "done")
        /\ req[r].op = "refresh" => req[r].jti \notin known[r]
    BY <1>1, <1>8 DEF Respond, SpentOnArrival, Operation
  <2>2. QED BY <2>1, GotoOwn DEF Label, Final
<1>9. QED BY <1>2, <1>3, <1>4, <1>5, <1>6, <1>7, <1>8

(* The steps of a revocation.                                              *)
LEMMA RevocationOwns ==
  ASSUME IInv, OwnInv, Forward, NEW r \in Req,
         SelectForRevocation(r) \/ CommitRevocation(r) \/ FailRevocation(r)
  PROVE  RequestOwns(r)'
<1>1. /\ TypeOK /\ req \in [Req -> Request]
      /\ Operation(r) /\ Bearer(r) /\ SpentOnArrival(r) /\ Covering(r)
      /\ req[r] \in Request /\ known[r] \in SUBSET Jti
  BY Holdings DEF RequestOwns, IInv, TypeOK
<1>2. CASE SelectForRevocation(r)
  <2>1. /\ req[r].op = "revokeSession" /\ req[r].pc = "select"
        /\ UNCHANGED <<row, jwt, known>>
    BY <1>1, <1>2 DEF SelectForRevocation, Operation
  <2> DEFINE S == {i \in Scope(req[r].op, req[r].user, req[r].session, None) : Active(i)}
             label == IF S = {} THEN "done" ELSE "commit"
             q == [req[r] EXCEPT !.pc = label, !.rows = S]
  <2>2. req' = [req EXCEPT ![r] = q]
    BY <1>1, <1>2 DEF SelectForRevocation
  <2>3. /\ q.pc = label /\ q.rows = S /\ q.op = req[r].op /\ q.jti = req[r].jti
        /\ q.user = req[r].user /\ q.session = req[r].session
    BY <1>1 DEF Request
  <2> HIDE DEF q
  <2>4. /\ req'[r].pc = label /\ req'[r].rows = S /\ req'[r].op = req[r].op
        /\ req'[r].jti = req[r].jti /\ req'[r].user = req[r].user
        /\ req'[r].session = req[r].session
    BY <1>1, <2>2, <2>3
  <2>5. \A i \in S : Mine(r, i)
    BY <2>1 DEF Mine, Scope, InTable, Absent
  <2>6. \A i : Mine(r, i) /\ Active(i) => i \in S
    BY <2>1 DEF Mine, Scope, InTable, Active
  <2>7. \A i \in known[r] : Mine(r, i)
    BY <1>1, <2>1 DEF Covering, Revoking
  <2> HIDE DEF S
  <2>8. \A i : Mine(r, i) => Mine(r, i)'
    BY <2>1, <2>4 DEF Mine, Absent
  <2>9. label \in {"done", "commit"} /\ (label = "done" => S = {})
    OBVIOUS
  <2> HIDE DEF label
  <2>10. Covering(r)'
    BY <2>1, <2>4, <2>5, <2>6, <2>7, <2>8, <2>9 DEF Covering, Revoking, Active
  <2>11. SpentOnArrival(r)' /\ Operation(r)' /\ Bearer(r)'
    BY <1>1, <2>1, <2>4, <2>9 DEF SpentOnArrival, Operation, Bearer, Pending
  <2>12. QED BY <2>10, <2>11 DEF RequestOwns
<1>3. CASE CommitRevocation(r)
  <2>1. /\ req[r].pc = "commit" /\ Goto(r, Outcome(r)) /\ UNCHANGED <<jwt, known>>
        /\ SetStatus(req[r].rows \ Lost(r), "revoked")
    BY <1>3 DEF CommitRevocation
  <2>2. req[r].rows \ Lost(r) \in SUBSET Jti
    BY <1>1 DEF Request
  <2>3. \A j \in Jti :
          row'[j].status = IF j \in req[r].rows \ Lost(r) THEN "revoked" ELSE row[j].status
    BY <1>1, <2>1, <2>2, SetStatusEffect DEF TypeOK
  <2>4. \A i \in known[r] : ~Active(i)'
    BY <1>1, <2>1, <2>3 DEF Covering, Lost, Active, InTable
  <2>5. Revoking(r) /\ (req[r].op = "refresh" <=> Outcome(r) = "detected")
        /\ Outcome(r) \in {"detected", "done"}
    BY <1>1, <2>1 DEF Operation, Revoking, Outcome
  <2>6. QED BY <2>1, <2>4, <2>5, GotoOwn DEF Label, Final
<1>4. CASE FailRevocation(r)
  <2>1. Goto(r, "error") /\ UNCHANGED <<jwt, known>>
    BY <1>4 DEF FailRevocation
  <2>2. QED BY <2>1, GotoOwn DEF Label, Final
<1>5. QED BY <1>2, <1>3, <1>4

(* A slot that is freed owns nothing.                                      *)
LEMMA FinishOwns ==
  ASSUME IInv, NEW r \in Req, Finish(r)
  PROVE  RequestOwns(r)'
<1>1. req'[r] = Idle
  BY DEF Finish, IInv, TypeOK
<1>2. Idle.pc = "idle" /\ Idle.op = "none" /\ Idle.jti = None
  BY DEF Idle
<1>3. req'[r].pc = "idle" /\ req'[r].op = "none" /\ req'[r].jti = None
  BY <1>1, <1>2
<1>4. QED BY <1>3 DEF RequestOwns, Operation, Bearer, SpentOnArrival, Covering, Revoking, Pending

(* A step of one request leaves the others where they are.                 *)
LEMMA OneMoves ==
  ASSUME TypeOK, NEW r \in Req, Arrive(r) \/ Advance(r) \/ Abort(r),
         NEW q \in Req, q # r
  PROVE  req'[q] = req[q] /\ known'[q] = known[q]
<1>1. \E a : req' = [req EXCEPT ![r] = a]
  <2>1. ASSUME NEW label, Goto(r, label)
        PROVE  req' = [req EXCEPT ![r] = [req[r] EXCEPT !.pc = label]]
    BY <2>1 DEF Goto
  <2>2. CASE Arrive(r)
    <3>1. ASSUME NEW u \in User, NEW c \in Client, Login(r, u, c)
          PROVE  \E a : req' = [req EXCEPT ![r] = a]
      BY <3>1 DEF Login
    <3>2. ASSUME NEW j \in Jti, NEW c \in Client, BeginRefresh(r, j, c)
          PROVE  \E a : req' = [req EXCEPT ![r] = a]
      BY <3>2 DEF BeginRefresh
    <3>3. ASSUME NEW u \in User, BeginRevokeSession(r, u)
          PROVE  \E a : req' = [req EXCEPT ![r] = a]
      BY <3>3 DEF BeginRevokeSession
    <3>4. ASSUME NEW u \in User, Logout(r, u)
          PROVE  \E a : req' = [req EXCEPT ![r] = a]
      BY <3>4 DEF Logout
    <3>5. QED BY <2>2, <3>1, <3>2, <3>3, <3>4 DEF Arrive
  <2>3. CASE \E label : Goto(r, label)
    BY <2>1, <2>3
  <2>4. CASE Finish(r)
    BY <2>4 DEF Finish
  <2>5. CASE SelectChain(r) \/ AuthRefresh(r) \/ ReadSession(r) \/ SelectForRevocation(r)
    BY <2>3, <2>5 DEF SelectChain, AuthRefresh, ReadSession, SelectForRevocation
  <2>6. QED BY <2>2, <2>3, <2>4, <2>5, ZenonT(30)
      DEF Advance, Abort, ValidateRefresh, SelectOld, SpendOld, SaveToken, Respond,
          CommitRevocation, FailRevocation
<1>2. \E k : known' = [known EXCEPT ![r] = k]
  <2>1. CASE known' = known
    BY <2>1 DEF TypeOK
  <2>2. CASE \/ \E j \in Jti, c \in Client : BeginRefresh(r, j, c)
             \/ \E u \in User : BeginRevokeSession(r, u) \/ Logout(r, u)
             \/ Finish(r)
    BY <2>2 DEF BeginRefresh, BeginRevokeSession, Logout, Finish
  <2>3. QED BY <2>1, <2>2, ZenonT(30)
      DEF Arrive, Login, Advance, Abort,
          ValidateRefresh, SelectChain, AuthRefresh, SelectOld, SpendOld, ReadSession,
          SaveToken, Respond, SelectForRevocation, CommitRevocation, FailRevocation
<1>3. QED BY <1>1, <1>2 DEF TypeOK


LEMMA OwnStep ==
  ASSUME IInv, OwnInv, [Next]_vars
  PROVE  OwnInv'
<1>1. TypeOK /\ Forward
  BY GoesForward DEF IInv
<1>2. ASSUME req' = req, known' = known
      PROVE  \A q \in Req : RequestOwns(q)'
  BY <1>1, <1>2, OthersOwn
<1>3. ASSUME NEW r \in Req, Arrive(r) \/ Advance(r) \/ Abort(r)
      PROVE  \A q \in Req : RequestOwns(q)'
  <2>1. RequestOwns(r)'
    <3>1. CASE Abort(r)
      <4>1. Goto(r, "error") /\ UNCHANGED <<jwt, known>>
        BY <3>1 DEF Abort
      <4>2. QED BY <1>1, <4>1, GotoOwn DEF Label, Final
    <3>2. QED BY <1>1, <1>3, <3>1, ArrivalOwns, RefreshOwns, RevocationOwns, FinishOwns
          DEF Advance
  <2>2. ASSUME NEW q \in Req, q # r
        PROVE  RequestOwns(q)'
    BY <1>1, <1>3, <2>2, OneMoves, OthersOwn
  <2>3. QED BY <2>1, <2>2
<1>4. \A q \in Req : RequestOwns(q)'
  <2>1. CASE Environment \/ UNCHANGED vars
    BY <1>2, <2>1 DEF Environment, Expire, Cleanup, SetActive, DeleteUser, vars
  <2>2. QED BY <1>3, <2>1 DEF Next
<1>5. QED BY <1>4, TableOwned DEF OwnInv

(* What every request holds, rotates and revokes is its own.               *)
THEOREM OwnershipInvariant == Spec => [](IInv /\ OwnInv)
<1>1. Init => OwnInv
  <2> SUFFICES ASSUME Init PROVE OwnInv
    OBVIOUS
  <2>1. \A r \in Req : req[r].pc = "idle" /\ req[r].op = "none" /\ req[r].jti = None
    BY DEF Init, Idle
  <2>2. \A r \in Req : RequestOwns(r)
    BY <2>1 DEF RequestOwns, Operation, Bearer, SpentOnArrival, Covering, Revoking, Pending
  <2>3. RowsSigned /\ RotationKeepsOwner
    BY DEF Init, NoRow, RowsSigned, RotationKeepsOwner, Absent, InTable
  <2>4. QED BY <2>2, <2>3 DEF OwnInv
<1>2. IInv /\ OwnInv /\ [Next]_vars => OwnInv'
  BY OwnStep
<1>3. QED BY <1>1, <1>2, InductiveInvariant, PTL DEF Spec

(* A refresh token that was already revoked when it was presented gets no  *)
(* successor, whatever runs beside _handle_refresh_grant.                  *)
THEOREM SpentTokenNeverRotatesAlways == Spec => []SpentTokenNeverRotates
<1>1. OwnInv => SpentTokenNeverRotates
  BY DEF OwnInv, RequestOwns, SpentOnArrival, SpentTokenNeverRotates
<1>2. QED BY <1>1, OwnershipInvariant, PTL

(* When a session revocation or a reuse detection answers, no token it is  *)
(* about is active that was in the table when the request arrived, for any *)
(* requests, rotations and crashes beside it.                              *)
THEOREM RevocationCoversAlways == Spec => []RevocationCovers
<1>1. OwnInv => RevocationCovers
  BY DEF OwnInv, RequestOwns, Covering, RevocationCovers
<1>2. QED BY <1>1, OwnershipInvariant, PTL

(* A rotated token belongs to the user, client and session of its parent.  *)
THEOREM RotationKeepsOwnerAlways == Spec => []RotationKeepsOwner
<1>1. OwnInv => RotationKeepsOwner
  BY DEF OwnInv
<1>2. QED BY <1>1, OwnershipInvariant, PTL

(* What a step may revoke: only SpendOld and CommitRevocation revoke, and  *)
(* both only tokens of the request's user, and of its session or client.   *)
LEMMA RevokesOwn ==
  ASSUME IInv, OwnInv, [Next]_vars, NEW j \in Jti,
         Active(j), row'[j].status = "revoked"
  PROVE  \E r \in Req :
            /\ req'[r] # req[r]
            /\ row[j].user = req[r].user
            /\ req[r].op = "revokeSession" => row[j].session = req[r].session
            /\ req[r].op = "refresh" => row[j].client = jwt[req[r].jti].client
<1>0. TypeOK
  BY DEF IInv
<1>1. ASSUME NEW r \in Req, SpendOld(r)
      PROVE  req'[r] # req[r] /\ Mine(r, j)
  <2>1. /\ req[r].pc = "spend" /\ req[r].op = "refresh" /\ req[r].jti \in Jti
        /\ ~Absent(req[r].jti)
        /\ row[req[r].jti].user = jwt[req[r].jti].user
        /\ row[req[r].jti].client = jwt[req[r].jti].client
        /\ req[r].user = jwt[req[r].jti].user
    BY <1>1, Holdings DEF SpendOld, PresentedToken, RequestOwns, Bearer
  <2>2. SetStatus({req[r].jti}, "revoked")
    BY <1>1 DEF SpendOld, Active
  <2>3. j = req[r].jti
    BY <1>0, <2>1, <2>2, SetStatusEffect DEF TypeOK, Active
  <2>4. req'[r].pc # "spend"
    BY <1>0, <1>1 DEF SpendOld, Goto, TypeOK, Request
  <2>5. QED BY <2>1, <2>3, <2>4 DEF Mine
<1>2. ASSUME NEW r \in Req, CommitRevocation(r)
      PROVE  req'[r] # req[r] /\ Mine(r, j)
  <2>1. /\ req[r].pc = "commit" /\ SetStatus(req[r].rows \ Lost(r), "revoked")
        /\ req[r].rows \ Lost(r) \in SUBSET Jti
    BY <1>0, <1>2 DEF CommitRevocation, TypeOK, Request
  <2>2. j \in req[r].rows
    BY <1>0, <2>1, SetStatusEffect DEF TypeOK, Active
  <2>3. Mine(r, j)
    BY <2>1, <2>2, Holdings DEF RequestOwns, Covering
  <2>4. req'[r].pc # "commit"
    BY <1>0, <1>2 DEF CommitRevocation, Outcome, Goto, TypeOK, Request
  <2>5. QED BY <2>1, <2>3, <2>4
<1>3. ASSUME NEW r \in Req, SaveToken(r)
      PROVE  FALSE
  <2>1. CASE account[req[r].user] = "absent"
    BY <1>3, <2>1, SavingGoesForward DEF Active
  <2>2. CASE account[req[r].user] # "absent"
    <3>1. /\ Absent(req[r].fresh)
          /\ j # req[r].fresh => row'[j] = row[j]
      BY <1>3, <2>2, SavingGoesForward
    <3>2. QED BY <3>1 DEF Active, Absent
  <2>3. QED BY <2>1, <2>2
<1>4. CASE UNCHANGED row
  BY <1>4 DEF Active
<1>5. CASE Cleanup \/ \E u \in User : DeleteUser(u)
  <2>1. PICK S \in SUBSET Jti : SetStatus(S, "purged")
    <3>1. CASE Cleanup
      BY <3>1 DEF Cleanup
    <3>2. ASSUME NEW u \in User, DeleteUser(u)
          PROVE  \E S \in SUBSET Jti : SetStatus(S, "purged")
      BY <3>2 DEF DeleteUser
    <3>3. QED BY <1>5, <3>1, <3>2
  <2>2. QED BY <1>0, <2>1, SetStatusEffect DEF TypeOK, Active
<1>6. \/ UNCHANGED row
      \/ Cleanup \/ \E u \in User : DeleteUser(u)
      \/ \E r \in Req : SpendOld(r) \/ CommitRevocation(r) \/ SaveToken(r)
  <2>1. ASSUME NEW r \in Req, Arrive(r) \/ Abort(r)
        PROVE  UNCHANGED row
    BY <2>1, ZenonT(30)
    DEF Arrive, Abort, Login, BeginRefresh, BeginRevokeSession,
        Logout
  <2>2. ASSUME NEW r \in Req, Advance(r)
        PROVE  UNCHANGED row \/ SpendOld(r) \/ CommitRevocation(r) \/ SaveToken(r)
    BY <2>2, ZenonT(30)
    DEF Advance, ValidateRefresh, SelectChain, AuthRefresh, SelectOld, ReadSession,
        Respond, SelectForRevocation, FailRevocation, Finish
  <2>3. CASE Environment
    BY <2>3 DEF Environment, Expire, SetActive
  <2>4. CASE UNCHANGED vars
    BY <2>4 DEF vars
  <2>5. QED BY <2>1, <2>2, <2>3, <2>4 DEF Next
<1>7. QED BY <1>1, <1>2, <1>3, <1>4, <1>5, <1>6 DEF Mine

(* No interleaving makes a request revoke a token of another user, or by a *)
(* session revocation one of another session, or by reuse or rotation one  *)
(* of another client.                                                      *)
THEOREM RevokesOnlyOwnAlways == Spec => RevokesOnlyOwn
<1> DEFINE Own ==
      \A j \in Jti : Active(j) /\ row'[j].status = "revoked" =>
        \E r \in Req :
            /\ req'[r] # req[r]
            /\ row[j].user = req[r].user
            /\ req[r].op = "revokeSession" => row[j].session = req[r].session
            /\ req[r].op = "refresh" => row[j].client = jwt[req[r].jti].client
<1>1. IInv /\ OwnInv /\ [Next]_vars => [Own]_vars
  <2> SUFFICES ASSUME IInv, OwnInv, [Next]_vars PROVE Own
    OBVIOUS
  <2>1. QED BY RevokesOwn
<1>2. RevokesOnlyOwn <=> [][Own]_vars
  BY DEF RevokesOnlyOwn
<1> HIDE DEF Own
<1>3. QED BY <1>1, <1>2, OwnershipInvariant, PTL DEF Spec


-----------------------------------------------------------------------------
(* One active token for each session, when requests are served one at a    *)
(* time                                                                    *)

(* A session is named after a token that has entered the table, or it is   *)
(* about to be opened by the token a request is saving.                    *)
SessionOpened ==
    \A j \in Jti : ~Absent(j) => row[j].session \in Jti /\ ~Absent(row[j].session)

SessionHeld(r) ==
    req[r].pc = "save" => req[r].session = req[r].fresh \/ ~Absent(req[r].session)

SessionInv == SessionOpened /\ \A r \in Req : SessionHeld(r)

NoneActive(s) == \A i \in Jti : Active(i) => row[i].session # s

(* What a refresh counts on that is alone: its token is not revoked by     *)
(* another request, and once it is spent the session has no active token.  *)
AloneInv(r) ==
    /\ req[r].pc \in {"auth", "revoke", "spend"} => row[req[r].jti].status # "revoked"
    /\ req[r].pc = "session" /\ InTable(req[r].jti) => NoneActive(row[req[r].jti].session)
    /\ req[r].pc = "save" => NoneActive(req[r].session)

SerialInv ==
    family = "serial" => Serial /\ OneActivePerSession /\ \A r \in Req : AloneInv(r)

(* Where requests come from that are about to save.                        *)
LEMMA ToSave ==
  ASSUME IInv, [Next]_vars, NEW r \in Req, req'[r].pc = "save", req[r].pc # "save"
  PROVE  \/ \E u \in User, c \in Client : Login(r, u, c)
         \/ ReadSession(r)
<1>1. TypeOK
  BY DEF IInv
<1>2. CASE req'[r] = req[r]
  BY <1>2
<1>3. CASE \E q \in Req : q # r /\ (Arrive(q) \/ Advance(q) \/ Abort(q))
  BY <1>1, <1>2, <1>3, OneMoves
<1>4. CASE Environment \/ UNCHANGED vars
  BY <1>2, <1>4 DEF Environment, Expire, Cleanup, SetActive, DeleteUser, vars
<1>5. CASE Arrive(r)
  <2>1. ASSUME NEW j \in Jti, NEW c \in Client, BeginRefresh(r, j, c)
        PROVE  FALSE
    BY <1>1, <2>1 DEF BeginRefresh, TypeOK, Idle
  <2>2. ASSUME NEW u \in User, BeginRevokeSession(r, u)
        PROVE  FALSE
    BY <1>1, <2>2 DEF BeginRevokeSession, TypeOK, Idle
  <2>3. ASSUME NEW u \in User, Logout(r, u)
        PROVE  FALSE
    BY <1>1, <2>3 DEF Logout, TypeOK, Idle
  <2>4. QED BY <1>5, <2>1, <2>2, <2>3 DEF Arrive
<1>6. CASE Advance(r) \/ Abort(r)
  <2>1. ASSUME NEW label, label # "save", Goto(r, label)
        PROVE  FALSE
    BY <1>1, <2>1 DEF Goto, TypeOK, Request
  <2>2. CASE SelectChain(r)
    <3>1. CASE InTable(req[r].jti)
      <4>1. PICK S \in SUBSET Jti : req' = [req EXCEPT ![r].pc = "commit", ![r].rows = S]
        BY <2>2, <3>1, ScopeType DEF SelectChain
      <4>2. req'[r].pc = "commit"
        BY <1>1, <4>1 DEF TypeOK, Request
      <4>3. QED BY <4>2
    <3>2. QED BY <2>1, <2>2, <3>1 DEF SelectChain
  <2>3. CASE AuthRefresh(r)
    <3>1. ASSUME NEW n, req' = [req EXCEPT ![r].pc = "revoke", ![r].fresh = n]
          PROVE  FALSE
      BY <1>1, <3>1 DEF TypeOK, Request
    <3>2. QED BY <2>1, <2>3, <3>1 DEF AuthRefresh
  <2>4. CASE SelectForRevocation(r)
    <3>1. PICK S \in SUBSET Jti, label \in {"done", "commit"} :
            req' = [req EXCEPT ![r].pc = label, ![r].rows = S]
      BY <2>4, ScopeType DEF SelectForRevocation
    <3>2. req'[r].pc = label
      BY <1>1, <3>1 DEF TypeOK, Request
    <3>3. QED BY <3>2
  <2>5. CASE Finish(r)
    BY <1>1, <2>5 DEF Finish, TypeOK, Idle
  <2>6. QED BY <1>6, <2>1, <2>2, <2>3, <2>4, <2>5
      DEF Advance, Abort, ValidateRefresh, SelectOld, SpendOld, SaveToken, Respond,
          CommitRevocation, Outcome, FailRevocation
<1>7. QED BY <1>3, <1>4, <1>5, <1>6 DEF Next

(* A login names its session after its token.                              *)
LEMMA LoginSession ==
  ASSUME IInv, NEW r \in Req, NEW u \in User, NEW c \in Client, Login(r, u, c)
  PROVE  /\ UNCHANGED row
         /\ req'[r].fresh \in Jti /\ Absent(req'[r].fresh)
         /\ req'[r].pc = "save" /\ req'[r].session = req'[r].fresh
<1>1. PICK n \in Unminted :
        req' = [req EXCEPT ![r] =
                  [Idle EXCEPT !.pc = "save", !.op = "login", !.user = u,
                               !.client = c, !.fresh = n, !.session = n]]
  BY DEF Login
<1> DEFINE q == [Idle EXCEPT !.pc = "save", !.op = "login", !.user = u,
                             !.client = c, !.fresh = n, !.session = n]
<1>2. q.pc = "save" /\ q.fresh = n /\ q.session = n /\ req' = [req EXCEPT ![r] = q]
  BY <1>1 DEF Idle
<1> HIDE DEF q
<1>3. req'[r].pc = "save" /\ req'[r].fresh = n /\ req'[r].session = n
  BY <1>2 DEF IInv, TypeOK
<1>4. n \in Jti /\ Absent(n)
  BY RefreshTokensAssumption DEF Unminted, IInv, SavedTokens, Absent
<1>5. UNCHANGED row
  BY DEF Login
<1>6. QED BY <1>3, <1>4, <1>5

(* A rotation takes the session of the old row, or opens one of its own.   *)
LEMMA RotationSession ==
  ASSUME IInv, OwnInv, NEW r \in Req, ReadSession(r)
  PROVE  /\ UNCHANGED row /\ req[r].pc = "session" /\ req[r].jti \in Jti
         /\ req'[r].fresh = req[r].fresh /\ req'[r].pc = "save"
         /\ req[r].fresh \in Jti /\ Absent(req[r].fresh)
         /\ InTable(req[r].jti) => req'[r].session = row[req[r].jti].session
         /\ ~InTable(req[r].jti) => req'[r].session = req[r].fresh
<1>1. /\ req[r].pc = "session" /\ Pending(r) /\ req[r].op = "refresh" /\ UNCHANGED row
      /\ req[r].fresh \in Jti /\ req[r].jti \in Jti /\ Absent(req[r].fresh)
      /\ req[r] \in Request
  BY Holdings DEF ReadSession, Pending, PresentedToken, SignedToken, Absent
<1> DEFINE s == IF InTable(req[r].jti) THEN row[req[r].jti].session ELSE req[r].fresh
<1>2. req' = [req EXCEPT ![r].pc = "save", ![r].session = s]
  BY DEF ReadSession
<1> HIDE DEF s
<1>3. req'[r].pc = "save" /\ req'[r].session = s /\ req'[r].fresh = req[r].fresh
  BY <1>1, <1>2 DEF IInv, TypeOK, Request
<1>4. QED BY <1>1, <1>3 DEF s

(* A request that was about to save and still is has not moved.            *)
LEMMA StillSaving ==
  ASSUME IInv, [Next]_vars, NEW r \in Req, req'[r].pc = "save", req[r].pc = "save"
  PROVE  req'[r].session = req[r].session /\ req'[r].fresh = req[r].fresh
<1>1. TypeOK
  BY DEF IInv
<1>2. CASE req'[r] = req[r]
  BY <1>2
<1>3. CASE \E q \in Req : q # r /\ (Arrive(q) \/ Advance(q) \/ Abort(q))
  BY <1>1, <1>2, <1>3, OneMoves
<1>4. CASE Environment \/ UNCHANGED vars
  BY <1>2, <1>4 DEF Environment, Expire, Cleanup, SetActive, DeleteUser, vars
<1>5. CASE Arrive(r) \/ Advance(r) \/ Abort(r)
  <2>1. SaveToken(r) \/ Abort(r)
    BY <1>5 DEF Arrive, Advance, Login, BeginRefresh, BeginRevokeSession, Logout, ValidateRefresh, SelectChain, AuthRefresh,
                SelectOld, SpendOld, ReadSession, Respond, SelectForRevocation,
                CommitRevocation, FailRevocation, Finish, Final
  <2>2. \E label \in {"saved", "error"} : Goto(r, label)
    BY <2>1 DEF SaveToken, Abort
  <2>3. QED BY <1>1, <2>2 DEF Goto, TypeOK, Request
<1>6. QED BY <1>3, <1>4, <1>5 DEF Next

LEMMA SessionStep ==
  ASSUME IInv, OwnInv, SessionInv, [Next]_vars
  PROVE  SessionInv'
<1>1. Forward
  BY GoesForward
<1>2. ASSUME NEW r \in Req, req'[r].pc = "save"
      PROVE  req'[r].session = req'[r].fresh \/ row'[req'[r].session].status # "absent"
  <2>1. CASE req[r].pc = "save"
    <3>1. req'[r].session = req[r].session /\ req'[r].fresh = req[r].fresh
      BY <1>2, <2>1, StillSaving
    <3>2. req[r].session \in Jti
      BY <2>1 DEF IInv, SignedToken
    <3>3. PICK s \in Jti : s = req[r].session
      BY <3>2
    <3>4. s = req[r].fresh \/ ~Absent(s)
      BY <2>1, <3>3 DEF SessionInv, SessionHeld
    <3>5. QED BY <1>1, <3>1, <3>3, <3>4 DEF Forward, Absent
  <2>2. CASE req[r].pc # "save"
    <3>1. CASE \E u \in User, c \in Client : Login(r, u, c)
      BY <3>1, LoginSession
    <3>2. CASE ReadSession(r)
      <4>1. CASE ~InTable(req[r].jti)
        BY <3>2, <4>1, RotationSession
      <4>2. CASE InTable(req[r].jti)
        <5>1. /\ req[r].jti \in Jti /\ row' = row
              /\ req'[r].session = row[req[r].jti].session
          BY <3>2, <4>2, RotationSession
        <5>2. ~Absent(row[req[r].jti].session)
          BY <4>2, <5>1 DEF SessionInv, SessionOpened, InTable, Absent
        <5>3. QED BY <5>1, <5>2 DEF Absent
      <4>3. QED BY <4>1, <4>2
    <3>3. QED BY <1>2, <2>2, <3>1, <3>2, ToSave
  <2>3. QED BY <2>1, <2>2
<1>3. \A r \in Req : SessionHeld(r)'
  BY <1>2 DEF SessionHeld, Absent
<1>4. ASSUME NEW j \in Jti, ~Absent(j)', ~Absent(j)
      PROVE  row'[j].session \in Jti /\ row'[row'[j].session].status # "absent"
  BY <1>1, <1>4 DEF Forward, SessionInv, SessionOpened, Absent
<1>5. ASSUME NEW j \in Jti, ~Absent(j)', Absent(j)
      PROVE  row'[j].session \in Jti /\ row'[row'[j].session].status # "absent"
  <2>1. PICK r \in Req : SaveToken(r)
    <3>1. CASE OnlySpends /\ UNCHANGED jwt
      BY <1>5, <3>1, SpendingGoesForward
    <3>2. CASE UNCHANGED row
      BY <1>5, <3>2 DEF Absent
    <3>3. QED BY <3>1, <3>2, Kinds DEF Login, AuthRefresh
  <2>2. account[req[r].user] # "absent"
    BY <1>5, <2>1, SavingGoesForward DEF Absent
  <2>3. PICK n \in Jti, s \in Jti : n = req[r].fresh /\ s = req[r].session
    BY <2>1, <2>2, SavingGoesForward DEF SaveToken, IInv, SignedToken
  <2>4. /\ \A i \in Jti : i # n => row'[i] = row[i]
        /\ row'[n].status = "active" /\ row'[n].session = s
    <3>1. row'[n] = [status |-> "active", user |-> jwt[n].user, client |-> jwt[n].client,
                     session |-> s, parent |-> req[r].jti]
      BY <2>1, <2>2, <2>3, SavingGoesForward
    <3>2. QED BY <2>1, <2>2, <2>3, <3>1, SavingGoesForward
  <2>5. j = n
    BY <1>5, <2>4 DEF Absent
  <2>6. s = n \/ ~Absent(s)
    BY <2>1, <2>3 DEF SessionInv, SessionHeld, SaveToken
  <2>7. row'[s].status # "absent"
    BY <1>1, <2>4, <2>6 DEF Forward, Absent
  <2>8. QED BY <2>4, <2>5, <2>7
<1>6. SessionOpened'
  BY <1>4, <1>5 DEF SessionOpened, Absent
<1>7. QED BY <1>3, <1>6 DEF SessionInv


(* When at most one request is in flight, two of them are the same.        *)
LEMMA OnlyOne ==
  ASSUME NEW f, Cardinality({r \in Req : f[r].pc # "idle"}) <= 1,
         NEW r \in Req, f[r].pc # "idle", NEW q \in Req, f[q].pc # "idle"
  PROVE  r = q
<1> DEFINE S == {p \in Req : f[p].pc # "idle"}
<1>1. S \subseteq Req /\ r \in S /\ q \in S /\ Cardinality(S) <= 1
  OBVIOUS
<1> HIDE DEF S
<1>2. IsFiniteSet(S)
  BY <1>1, RefreshTokensAssumption, FS_Subset
<1>3. SUFFICES ASSUME r # q PROVE FALSE
  OBVIOUS
<1>4. IsFiniteSet(S \ {r}) /\ Cardinality(S \ {r}) = Cardinality(S) - 1
  BY <1>1, <1>2, FS_RemoveElement
<1>5. q \in S \ {r}
  BY <1>1, <1>3
<1>6. Cardinality(S) \in Nat /\ Cardinality(S \ {r}) \in Nat
  BY <1>2, <1>4, FS_CardinalityType
<1>7. Cardinality(S \ {r}) # 0
  BY <1>4, <1>5, FS_EmptySet
<1>8. QED BY <1>1, <1>4, <1>6, <1>7

(* A request in flight is the one that moves, if any does.                 *)
LEMMA TheOneMoves ==
  ASSUME Serial, Serial', TypeOK, NEW r \in Req, Arrive(r) \/ Advance(r) \/ Abort(r),
         NEW q \in Req, req'[q].pc # "idle"
  PROVE  q = r
<1>1. SUFFICES ASSUME q # r PROVE FALSE
  OBVIOUS
<1>2. req'[q] = req[q]
  BY <1>1, OneMoves
<1>3. CASE req[r].pc # "idle"
  BY <1>1, <1>2, <1>3, OnlyOne DEF Serial
<1>4. CASE req[r].pc = "idle"
  <2>1. Arrive(r)
    BY <1>4 DEF Advance, Abort, ValidateRefresh, SelectChain, AuthRefresh, SelectOld,
                SpendOld, ReadSession, SaveToken, Respond, SelectForRevocation,
                CommitRevocation, FailRevocation, Finish, Final
  <2>2. req'[r].pc # "idle"
    <3>1. ASSUME NEW u \in User, NEW c \in Client, Login(r, u, c)
          PROVE  req'[r].pc # "idle"
      BY <3>1 DEF Login, TypeOK, Idle
    <3>2. ASSUME NEW j \in Jti, NEW c \in Client, BeginRefresh(r, j, c)
          PROVE  req'[r].pc # "idle"
      BY <3>2 DEF BeginRefresh, TypeOK, Idle
    <3>3. ASSUME NEW u \in User, BeginRevokeSession(r, u)
          PROVE  req'[r].pc # "idle"
      BY <3>3 DEF BeginRevokeSession, TypeOK, Idle
    <3>4. ASSUME NEW u \in User, Logout(r, u)
          PROVE  req'[r].pc # "idle"
      BY <3>4 DEF Logout, TypeOK, Idle
    <3>5. QED BY <2>1, <3>1, <3>2, <3>3, <3>4
          DEF Arrive
  <2>3. QED BY <1>1, <2>2, OnlyOne DEF Serial
<1>5. QED BY <1>3, <1>4

(* Where no row is saved, a session without active tokens stays so, and no *)
(* second token of a session becomes active.                               *)
LEMMA ActivesStay ==
  ASSUME Forward, \A j \in Jti : Absent(j) => ~Active(j)'
  PROVE  /\ \A j \in Jti : Active(j)' => Active(j) /\ row'[j].session = row[j].session
         /\ OneActivePerSession => OneActivePerSession'
         /\ \A s : NoneActive(s) => \A i \in Jti : Active(i)' => row'[i].session # s
<1>1. \A j \in Jti : Active(j)' => Active(j) /\ row'[j].session = row[j].session
  BY DEF Forward, Active, Absent
<1>2. OneActivePerSession => OneActivePerSession'
  BY <1>1 DEF OneActivePerSession
<1>3. QED BY <1>1, <1>2 DEF NoneActive

(* The steps that save no row.                                             *)
LEMMA NoSave ==
  ASSUME IInv, [Next]_vars, \A r \in Req : ~SaveToken(r)
  PROVE  \A j \in Jti : Absent(j) => ~Active(j)'
<1>1. CASE OnlySpends /\ UNCHANGED jwt
  BY <1>1, SpendingGoesForward DEF Absent, Active
<1>2. CASE UNCHANGED row
  BY <1>2 DEF Absent, Active
<1>3. QED BY <1>1, <1>2, Kinds DEF Login, AuthRefresh

(* The token of a refresh is revoked by this refresh or not at all.        *)
LEMMA AloneKept ==
  ASSUME IInv, OwnInv, SessionInv, Serial, Serial', OneActivePerSession,
         \A q \in Req : AloneInv(q), [Next]_vars, Forward,
         \A r \in Req : ~SaveToken(r),
         NEW q \in Req, req'[q] = req[q],
         \A j \in Jti : row'[j].status = "revoked" => row[j].status = "revoked"
  PROVE  AloneInv(q)'
<1>1. /\ AloneInv(q) /\ PresentedToken(q)
      /\ \A s : NoneActive(s) => \A i \in Jti : Active(i)' => row'[i].session # s
  BY NoSave, ActivesStay DEF IInv
<1>2. req[q].pc \in {"auth", "revoke", "spend", "session"} =>
          req[q].jti \in Jti /\ ~Absent(req[q].jti)
  BY <1>1 DEF PresentedToken, Absent
<1>3. req[q].pc \in {"auth", "revoke", "spend"} => row'[req[q].jti].status # "revoked"
  BY <1>1, <1>2 DEF AloneInv
<1>4. ASSUME req[q].pc = "session", row'[req[q].jti].status \in {"active", "revoked"},
             NEW i \in Jti, row'[i].status = "active"
      PROVE  row'[i].session # row'[req[q].jti].session
  <2>1. InTable(req[q].jti) /\ row'[req[q].jti].session = row[req[q].jti].session
    BY <1>2, <1>4 DEF Forward, InTable
  <2>2. NoneActive(row[req[q].jti].session)
    BY <1>1, <1>4, <2>1 DEF AloneInv
  <2>3. QED BY <1>1, <1>4, <2>1, <2>2 DEF Active
<1>5. ASSUME req[q].pc = "save", NEW i \in Jti, row'[i].status = "active"
      PROVE  row'[i].session # req[q].session
  BY <1>1, <1>5 DEF AloneInv, Active
<1>6. QED BY <1>3, <1>4, <1>5 DEF AloneInv, InTable, NoneActive, Active


(* The request that is alone moves.                                        *)
LEMMA AloneMoves ==
  ASSUME IInv, OwnInv, SessionInv, OneActivePerSession, NEW r \in Req, AloneInv(r),
         Arrive(r) \/ Advance(r) \/ Abort(r)
  PROVE  AloneInv(r)'
<1>1. /\ TypeOK /\ req \in [Req -> Request] /\ req[r] \in Request
      /\ PresentedToken(r)
  BY DEF IInv, TypeOK
<1>2. ASSUME req'[r].pc \notin {"auth", "revoke", "spend", "session", "save"}
      PROVE  AloneInv(r)'
  BY <1>2 DEF AloneInv
<1>3. ASSUME NEW label, Goto(r, label),
             label \notin {"auth", "revoke", "spend", "session", "save"}
      PROVE  AloneInv(r)'
  <2>1. req'[r].pc = label
    BY <1>1, <1>3 DEF Goto, Request
  <2>2. QED BY <1>2, <1>3, <2>1
<1>4. ASSUME NEW s \in Jti, Absent(s) \/ NoneActive(s), NEW i \in Jti, Active(i)
      PROVE  row[i].session # s
  BY <1>4 DEF SessionInv, SessionOpened, NoneActive, Active, Absent
<1>5. CASE Arrive(r)
  <2>1. ASSUME NEW u \in User, NEW c \in Client, Login(r, u, c)
        PROVE  AloneInv(r)'
    <3>1. PICK s \in Jti : s = req'[r].session /\ Absent(s) /\ req'[r].pc = "save" /\ row' = row
      BY <2>1, LoginSession
    <3>2. \A i \in Jti : row'[i].status = "active" => row'[i].session # s
      BY <1>4, <3>1 DEF Active
    <3>3. QED BY <3>1, <3>2 DEF AloneInv, NoneActive, Active
  <2>2. ASSUME NEW j \in Jti, NEW c \in Client, BeginRefresh(r, j, c)
        PROVE  AloneInv(r)'
    <3>1. req'[r].pc = "validate"
      BY <1>1, <2>2 DEF BeginRefresh, Idle
    <3>2. QED BY <1>2, <3>1
  <2>3. ASSUME NEW u \in User, BeginRevokeSession(r, u)
        PROVE  AloneInv(r)'
    <3>1. req'[r].pc = "select"
      BY <1>1, <2>3 DEF BeginRevokeSession, Idle
    <3>2. QED BY <1>2, <3>1
  <2>4. ASSUME NEW u \in User, Logout(r, u)
        PROVE  AloneInv(r)'
    <3>1. req'[r].pc = "error"
      BY <1>1, <2>4 DEF Logout, Idle
    <3>2. QED BY <1>2, <3>1
  <2>5. QED BY <1>5, <2>1, <2>2, <2>3, <2>4 DEF Arrive
<1>6. CASE ValidateRefresh(r)
  <2>1. CASE Goto(r, "refused") \/ Goto(r, "chain")
    BY <1>3, <2>1
  <2>2. CASE Goto(r, "auth") /\ Active(req[r].jti)
    <3>1. req'[r].pc = "auth" /\ req'[r].jti = req[r].jti
      BY <1>1, <2>2 DEF Goto, Request
    <3>2. QED BY <1>6, <2>2, <3>1 DEF ValidateRefresh, AloneInv, Active
  <2>3. QED BY <1>6, <2>1, <2>2 DEF ValidateRefresh
<1>7. CASE SelectChain(r)
  <2>1. CASE InTable(req[r].jti)
    <3>1. PICK S \in SUBSET Jti : req' = [req EXCEPT ![r].pc = "commit", ![r].rows = S]
      BY <1>7, <2>1, ScopeType DEF SelectChain
    <3>2. req'[r].pc = "commit"
      BY <1>1, <3>1 DEF Request
    <3>3. QED BY <1>2, <3>2
  <2>2. QED BY <1>3, <1>7, <2>1 DEF SelectChain
<1>8. CASE AuthRefresh(r)
  <2>1. row[req[r].jti].status # "revoked" /\ UNCHANGED row
    BY <1>8 DEF AuthRefresh, AloneInv
  <2>2. ASSUME NEW n, req' = [req EXCEPT ![r].pc = "revoke", ![r].fresh = n]
        PROVE  AloneInv(r)'
    <3>1. req'[r].pc = "revoke" /\ req'[r].jti = req[r].jti
      BY <1>1, <2>2 DEF Request
    <3>2. QED BY <2>1, <3>1 DEF AloneInv
  <2>3. QED BY <1>3, <1>8, <2>2 DEF AuthRefresh
<1>9. CASE SelectOld(r)
  <2>1. row[req[r].jti].status # "revoked" /\ UNCHANGED row
    BY <1>9 DEF SelectOld, AloneInv
  <2>2. PICK label \in {"spend", "session"} :
          Goto(r, label) /\ (label = "session" => ~InTable(req[r].jti))
    BY <1>9 DEF SelectOld
  <2>3. req'[r].pc = label /\ req'[r].jti = req[r].jti
    BY <1>1, <2>2 DEF Goto, Request
  <2>4. QED BY <2>1, <2>2, <2>3 DEF AloneInv, InTable
<1>10. CASE SpendOld(r)
  <2>1. CASE ~InTable(req[r].jti)
    BY <1>3, <1>10, <2>1 DEF SpendOld
  <2>2. CASE InTable(req[r].jti)
    <3>1. PICK j \in Jti : j = req[r].jti
      BY <1>1, <1>10 DEF SpendOld, PresentedToken
    <3>2. Active(j) /\ SetStatus({j}, "revoked") /\ Goto(r, "session")
      BY <1>10, <2>2, <3>1 DEF SpendOld, AloneInv, InTable, Active
    <3>3. \A i \in Jti : /\ row'[i].status = IF i = j THEN "revoked" ELSE row[i].status
                         /\ row'[i].session = row[i].session
      BY <1>1, <3>2, SetStatusEffect DEF TypeOK
    <3>4. \A i \in Jti : row'[i].status = "active" => row'[i].session # row'[j].session
      BY <3>2, <3>3 DEF OneActivePerSession, Active
    <3>5. req'[r].pc = "session" /\ req'[r].jti = j
      BY <1>1, <3>1, <3>2 DEF Goto, Request
    <3>6. QED BY <3>4, <3>5 DEF AloneInv, NoneActive, Active
  <2>3. QED BY <2>1, <2>2
<1>11. CASE ReadSession(r)
  <2>1. /\ row' = row /\ req[r].pc = "session" /\ req'[r].pc = "save"
        /\ req[r].jti \in Jti /\ req[r].fresh \in Jti /\ Absent(req[r].fresh)
        /\ InTable(req[r].jti) => req'[r].session = row[req[r].jti].session
        /\ ~InTable(req[r].jti) => req'[r].session = req[r].fresh
    BY <1>11, RotationSession
  <2>2. PICK s \in Jti : s = req'[r].session /\ (Absent(s) \/ NoneActive(s))
    BY <2>1 DEF AloneInv, SessionInv, SessionOpened, InTable, Absent
  <2>3. \A i \in Jti : row'[i].status = "active" => row'[i].session # s
    BY <1>4, <2>1, <2>2 DEF Active
  <2>4. QED BY <2>1, <2>2, <2>3 DEF AloneInv, NoneActive, Active
<1>12. CASE SelectForRevocation(r)
  <2>1. PICK S \in SUBSET Jti, label \in {"done", "commit"} :
            req' = [req EXCEPT ![r].pc = label, ![r].rows = S]
    BY <1>12, ScopeType DEF SelectForRevocation
  <2>2. req'[r].pc = label
    BY <1>1, <2>1 DEF Request
  <2>3. QED BY <1>2, <2>2
<1>13. CASE Finish(r)
  <2>1. req'[r].pc = "idle"
    BY <1>1, <1>13 DEF Finish, Idle
  <2>2. QED BY <1>2, <2>1
<1>14. CASE \/ SaveToken(r) \/ Respond(r) \/ CommitRevocation(r) \/ FailRevocation(r)
            \/ Abort(r)
  <2>1. PICK label : /\ Goto(r, label)
                     /\ label \in {"saved", "error", "done", "detected"}
    BY <1>14 DEF SaveToken, Respond, CommitRevocation, Outcome, FailRevocation, Abort
  <2>2. QED BY <1>3, <2>1
<1>15. QED BY <1>5, <1>6, <1>7, <1>8, <1>9, <1>10, <1>11, <1>12, <1>13, <1>14 DEF Advance

(* The row that is saved is the only active one of its session.            *)
LEMMA SavesOnlyActive ==
  ASSUME IInv, OwnInv, OneActivePerSession, NEW r \in Req, AloneInv(r), SaveToken(r)
  PROVE  OneActivePerSession'
<1>1. CASE account[req[r].user] = "absent"
  <2>1. row' = row
    BY <1>1, SavingGoesForward
  <2>2. QED BY <2>1 DEF OneActivePerSession, Active
<1>2. CASE account[req[r].user] # "absent"
  <2>1. PICK n \in Jti : n = req[r].fresh
    BY <1>2, SavingGoesForward
  <2>2. /\ \A j \in Jti : j # n => row'[j] = row[j]
        /\ row'[n].session = req[r].session
    <3>1. row'[n] = [status |-> "active", user |-> jwt[n].user, client |-> jwt[n].client,
                     session |-> req[r].session, parent |-> req[r].jti]
      BY <1>2, <2>1, SavingGoesForward
    <3>2. QED BY <1>2, <2>1, <3>1, SavingGoesForward
  <2>3. \A i \in Jti : Active(i) => row[i].session # req[r].session
    BY DEF SaveToken, AloneInv, NoneActive
  <2>4. QED BY <2>2, <2>3 DEF OneActivePerSession, Active
<1>3. QED BY <1>1, <1>2

LEMMA SerialStep ==
  ASSUME IInv, OwnInv, SessionInv, Serial, Serial', OneActivePerSession,
         \A q \in Req : AloneInv(q), [Next]_vars
  PROVE  OneActivePerSession' /\ \A q \in Req : AloneInv(q)'
<1>1. TypeOK /\ Forward
  BY GoesForward DEF IInv
<1>2. OneActivePerSession'
  <2>1. CASE \E r \in Req : SaveToken(r)
    BY <2>1, SavesOnlyActive
  <2>2. CASE \A r \in Req : ~SaveToken(r)
    BY <1>1, <2>2, NoSave, ActivesStay
  <2>3. QED BY <2>1, <2>2
<1>3. ASSUME NEW r \in Req, Arrive(r) \/ Advance(r) \/ Abort(r), NEW q \in Req
      PROVE  AloneInv(q)'
  <2>1. CASE req'[q].pc = "idle"
    BY <2>1 DEF AloneInv
  <2>2. CASE req'[q].pc # "idle"
    <3>1. q = r
      BY <1>1, <1>3, <2>2, TheOneMoves
    <3>2. QED BY <1>3, <3>1, AloneMoves
  <2>3. QED BY <2>1, <2>2
<1>4. ASSUME Environment \/ UNCHANGED vars, NEW q \in Req
      PROVE  AloneInv(q)'
  <2>1. req' = req
    BY <1>4 DEF Environment, Expire, Cleanup, SetActive, DeleteUser, vars
  <2>2. \A r \in Req : ~SaveToken(r)
    <3>1. ASSUME NEW r \in Req, SaveToken(r) PROVE FALSE
      <4>1. req[r].pc = "save" /\ \E label \in {"error", "saved"} : Goto(r, label)
        BY <3>1 DEF SaveToken
      <4>2. req'[r].pc # "save"
        BY <1>1, <4>1 DEF Goto, TypeOK, Request
      <4>3. QED BY <2>1, <4>1, <4>2
    <3>2. QED BY <3>1
  <2>3. \A j \in Jti : row'[j].status = "revoked" => row[j].status = "revoked"
    <3>1. CASE UNCHANGED row
      BY <3>1
    <3>2. CASE Cleanup \/ \E u \in User : DeleteUser(u)
      <4>1. PICK S \in SUBSET Jti : SetStatus(S, "purged")
        BY <3>2 DEF Cleanup, DeleteUser
      <4>2. QED BY <1>1, <4>1, SetStatusEffect DEF TypeOK
    <3>3. QED BY <1>4, <3>1, <3>2 DEF Environment, Expire, SetActive, vars
  <2>4. QED BY <1>1, <2>1, <2>2, <2>3, AloneKept
<1>5. QED BY <1>2, <1>3, <1>4 DEF Next

(* Served one at a time, requests keep every session at one active token,  *)
(* crashes, failures, expiry, clean-up and account changes included.       *)
THEOREM SerialOneActiveAlways == MCSpec => []SerialOneActive
<1>1. MCInit => Init /\ OwnInv /\ SessionInv /\ SerialInv
  <2> SUFFICES ASSUME MCInit PROVE Init /\ OwnInv /\ SessionInv /\ SerialInv
    OBVIOUS
  <2>1. Init
    BY DEF MCInit
  <2>2. \A r \in Req : req[r].pc = "idle" /\ req[r].op = "none" /\ req[r].jti = None
    BY <2>1 DEF Init, Idle
  <2>3. \A j \in Jti : Absent(j) /\ ~Active(j) /\ ~InTable(j)
    BY <2>1 DEF Init, NoRow, Absent, Active, InTable
  <2>4. \A r \in Req : RequestOwns(r)
    BY <2>2 DEF RequestOwns, Operation, Bearer, SpentOnArrival, Covering, Revoking, Pending
  <2>5. RowsSigned /\ RotationKeepsOwner
    BY <2>3 DEF RowsSigned, RotationKeepsOwner
  <2>6. SessionInv
    BY <2>2, <2>3 DEF SessionInv, SessionOpened, SessionHeld
  <2>7. Serial
    <3>1. {r \in Req : req[r].pc # "idle"} = {}
      BY <2>2
    <3>2. QED BY <3>1, FS_EmptySet DEF Serial
  <2>8. OneActivePerSession /\ \A r \in Req : AloneInv(r)
    BY <2>2, <2>3 DEF OneActivePerSession, AloneInv
  <2>9. QED BY <2>1, <2>4, <2>5, <2>6, <2>7, <2>8 DEF OwnInv, SerialInv
<1>2. IInv /\ OwnInv /\ SessionInv /\ SerialInv /\ [MCNext]_<<vars, family>>
        => IInv' /\ OwnInv' /\ SessionInv' /\ SerialInv'
  <2> SUFFICES ASSUME IInv, OwnInv, SessionInv, SerialInv, [MCNext]_<<vars, family>>
               PROVE  IInv' /\ OwnInv' /\ SessionInv' /\ SerialInv'
    OBVIOUS
  <2>1. [Next]_vars /\ family' = family
    BY DEF MCNext
  <2>2. family = "serial" => Serial'
    BY <2>1 DEF MCNext, SerialInv, Serial, vars
  <2>3. SerialInv'
    BY <2>1, <2>2, SerialStep DEF SerialInv
  <2>4. QED BY <2>1, <2>3, NextIInv, OwnStep, SessionStep
<1>3. IInv /\ SerialInv => SerialOneActive
  BY DEF SerialInv, SerialOneActive
<1>4. QED BY <1>1, <1>2, <1>3, InitIInv, PTL DEF MCSpec
=============================================================================
