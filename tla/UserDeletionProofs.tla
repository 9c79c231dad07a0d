------------------------ MODULE UserDeletionProofs ------------------------
(***************************************************************************)
(* Proofs about UserDeletion for any numbers of requests, users and rows,  *)
(* on top of those about TokenBlacklist: the handler uses the blacklist    *)
(* only through its calls, marks nobody whose tokens it found are not on   *)
(* it, and announces a user no more often than deletions can overlap.      *)
(***************************************************************************)
EXTENDS UserDeletion, FiniteSetTheorems, TLAPS

(* What is proved of the blacklist, of the instance that the handler uses. *)
Proved == INSTANCE TokenBlacklistProofs

(* The blacklist of the handler meets the assumption of RevocableTokens.   *)
LEMMA BlacklistAssumption ==
  /\ Proved!IsFiniteSet(Key)
  /\ None \notin Key \cup User
  /\ Owner \in [Key -> User]
  /\ Exp \in [Key -> Nat]
  /\ MinTtl \in Nat \ {0}
  /\ MaxTime \in Nat
BY RevocableTokensAssumption DEF IsFiniteSet, Proved!IsFiniteSet

-----------------------------------------------------------------------------
(* The operators of the two instances of TokenBlacklist are the same       *)

LEMMA SameValues ==
  /\ Blacklist!vars = Proved!vars
  /\ Blacklist!Idle = Proved!Idle
  /\ Blacklist!Call = Proved!Call
  /\ Blacklist!Label = Proved!Label
  /\ Blacklist!TypeOK <=> Proved!TypeOK
  /\ \A k \in Key : Blacklist!Revoked(k) <=> Proved!Revoked(k)
BY DEF Blacklist!redis, Proved!redis, Blacklist!vars, Proved!vars, Blacklist!Idle,
   Proved!Idle, Blacklist!Call, Proved!Call, Blacklist!Label, Proved!Label,
   Blacklist!SetOf, Proved!SetOf, Blacklist!Revoked, Proved!Revoked,
   Blacklist!TypeOK, Proved!TypeOK

LEMMA SameTypesNext ==
  ASSUME Proved!TypeOK'
  PROVE  Blacklist!TypeOK'
BY DEF Blacklist!Call, Proved!Call, Blacklist!Label, Proved!Label,
   Blacklist!SetOf, Proved!SetOf, Blacklist!TypeOK, Proved!TypeOK

LEMMA SameInit ==
  ASSUME Blacklist!Init
  PROVE  Proved!Init
BY DEF Blacklist!Init, Proved!Init, Blacklist!Idle, Proved!Idle

LEMMA SameTick ==
  ASSUME Blacklist!Tick
  PROVE  Proved!Tick
BY DEF Blacklist!Tick, Proved!Tick

LEMMA SameCall ==
  ASSUME NEW r \in Req, NEW u, NEW keys
  PROVE  /\ Blacklist!BeginRevokeAll(r, u, keys) => Proved!BeginRevokeAll(r, u, keys)
         /\ Blacklist!Return(r) => Proved!Return(r)
         /\ Blacklist!Fail(r) => Proved!Fail(r)
BY DEF Blacklist!BeginRevokeAll, Proved!BeginRevokeAll, Blacklist!Started, Proved!Started,
   Blacklist!Return, Proved!Return, Blacklist!Fail, Proved!Fail, Blacklist!Goto,
   Proved!Goto, Blacklist!redis, Proved!redis, Blacklist!Idle, Proved!Idle

LEMMA SamePipeline ==
  ASSUME NEW r \in Req, Blacklist!ExecutePipeline(r)
  PROVE  Proved!ExecutePipeline(r)
BY Zenon DEF Blacklist!ExecutePipeline, Proved!ExecutePipeline, Blacklist!Ttl, Proved!Ttl,
   Blacklist!Goto, Proved!Goto, Blacklist!Write, Proved!Write, Blacklist!Unexpired,
   Proved!Unexpired, Blacklist!Max, Proved!Max

-----------------------------------------------------------------------------
(* The inductive invariant                                                 *)

Settled(k) == Proved!Settled(k)

(* What a deletion relies on: its call of the blacklist is about the       *)
(* tokens it has found, and once the call has been answered with success   *)
(* none of them can be used without the blacklist knowing of it.           *)
HandlerOK(r) ==
    /\ req[r].pc # "idle" => Mine(r) \in User
    /\ req[r].pc = "revoke" => /\ req[r].found # {}
                               /\ \A k \in req[r].found : Owner[k] = Mine(r)
    /\ req[r].pc = "await" =>
        /\ call[r].pc \in {"pipeline", "done", "failed"}
        /\ call[r].keys = req[r].found
        /\ call[r].pc = "done" => \A k \in req[r].found : Settled(k)
    /\ req[r].pc \in {"mark", "publish", "deleted", "publishFailed"} =>
        \A k \in req[r].found : Settled(k)
    /\ req[r].pc \in {"publish", "deleted", "publishFailed"} =>
        user[Mine(r)] \in {"marked", "gone"}

(* The deletions of a user that may still announce it.                     *)
Open(u) ==
    {r \in Req : Mine(r) = u /\ req[r].pc \in {"tokens", "revoke", "await", "mark", "publish"}}

(* A user is announced only after it was marked, and then no deletion that *)
(* would announce it again can begin.                                      *)
EventsOK ==
    \A u \in User :
        /\ user[u] = "present" => events[u] = 0
        /\ events[u] + Cardinality(Open(u)) <= Cardinality(Req)

IInv ==
    /\ TypeOK
    /\ Proved!IInv
    /\ \A r \in Req : HandlerOK(r)
    /\ EventsOK

-----------------------------------------------------------------------------
(* Steps of the blacklist                                                  *)

(* Whatever the step, it is one of the blacklist or leaves it alone.       *)
BlacklistMoves ==
    /\ Proved!IInv'
    /\ \A k \in Key : Settled(k) => Settled(k)'

LEMMA StepKeeps ==
  ASSUME Proved!IInv, [Proved!Next]_(Proved!vars)
  PROVE  BlacklistMoves
<1>1. Proved!IInv'
  BY Proved!NextInv, BlacklistAssumption
<1>2. ASSUME NEW k \in Key, Settled(k)
      PROVE  Settled(k)'
  <2>1. Proved!Settled(k)
    BY <1>2 DEF Settled
  <2>2. Proved!Settled(k)'
    BY <2>1, Proved!SettledStable, BlacklistAssumption
  <2> QED
    BY <2>2 DEF Settled
<1> QED
  BY <1>1, <1>2 DEF BlacklistMoves

LEMMA StutterKeeps ==
  ASSUME Proved!IInv, UNCHANGED blacklistVars
  PROVE  BlacklistMoves
<1>1. [Proved!Next]_(Proved!vars)
  BY DEF blacklistVars, Proved!vars, Proved!redis
<1> QED
  BY <1>1, StepKeeps

-----------------------------------------------------------------------------
(* Steps of the handler                                                    *)

LEMMA OpenFinite ==
  ASSUME NEW u
  PROVE  /\ IsFiniteSet(Open(u))
         /\ Cardinality(Open(u)) \in Nat
         /\ Cardinality(Req) \in Nat
         /\ Cardinality(Open(u)) <= Cardinality(Req)
<1>1. Open(u) \in SUBSET Req
  BY DEF Open
<1>2. IsFiniteSet(Req)
  BY UserDeletionAssumption
<1> QED
  BY <1>1, <1>2, FS_Subset, FS_CardinalityType

(* Where nothing is announced, the count of a user holds unless another    *)
(* deletion of it begins after its first announcement.                     *)
LEMMA EventsKept ==
  ASSUME IInv, UNCHANGED events,
         \A u \in User : user'[u] = "present" => user[u] = "present",
         \A u \in User : events[u] = 0 \/ Open(u)' \subseteq Open(u)
  PROVE  EventsOK'
<1> SUFFICES ASSUME NEW u \in User
             PROVE  /\ user'[u] = "present" => events'[u] = 0
                    /\ events'[u] + Cardinality(Open(u)') <= Cardinality(Req)
  BY DEF EventsOK
<1>1. events[u] \in Nat /\ events[u] + Cardinality(Open(u)) <= Cardinality(Req)
  BY DEF IInv, TypeOK, EventsOK
<1>2. /\ IsFiniteSet(Open(u)) /\ Cardinality(Open(u)) \in Nat /\ Cardinality(Req) \in Nat
      /\ Open(u)' \in SUBSET Req /\ IsFiniteSet(Req)
  BY OpenFinite, UserDeletionAssumption DEF Open
<1> DEFINE S == Open(u)'
<1>3. Cardinality(S) \in Nat /\ Cardinality(S) <= Cardinality(Req)
  <2> HIDE DEF S
  <2> QED
    BY <1>2, FS_Subset, FS_CardinalityType DEF S
<1>4. S \subseteq Open(u) => Cardinality(S) <= Cardinality(Open(u))
  <2> HIDE DEF S
  <2> QED
    BY <1>2, FS_Subset
<1> HIDE DEF S
<1>5. events[u] + Cardinality(S) <= Cardinality(Req)
  BY <1>1, <1>2, <1>3, <1>4 DEF S
<1> QED
  BY <1>5 DEF S, IInv, EventsOK

(* A request replaces its local variables by q.                            *)
LEMMA RequestStep ==
  ASSUME IInv, BlacklistMoves, EventsOK',
         NEW r \in Req, NEW q \in Request, req' = [req EXCEPT ![r] = q],
         \A p \in Req : p # r => call'[p] = call[p],
         q.pc = "await" <=> call'[r] # Blacklist!Idle,
         user' \in [User -> {"present", "marked", "gone"}],
         \A u \in User : user[u] \in {"marked", "gone"} => user'[u] \in {"marked", "gone"},
         row' \in [Key -> {"none", "active", "revoked"}],
         events' \in [User -> Nat],
         HandlerOK(r)'
  PROVE  IInv'
<1>1. req' \in [Req -> Request] /\ req'[r] = q /\ \A p \in Req : p # r => req'[p] = req[p]
  BY DEF IInv, TypeOK
<1>2. Blacklist!TypeOK'
  BY SameTypesNext DEF BlacklistMoves, Proved!IInv
<1>3. TypeOK'
  BY <1>1, <1>2 DEF IInv, TypeOK
<1>4. ASSUME NEW p \in Req
      PROVE  HandlerOK(p)'
  <2>1. CASE p = r
    BY <2>1
  <2>2. CASE p # r
    <3>1. req[p].found \in SUBSET Key /\ (req[p].pc # "idle" => Mine(p) \in User)
      BY DEF IInv, TypeOK, Request, HandlerOK
    <3> QED
      BY <1>1, <2>2, <3>1 DEF IInv, HandlerOK, Mine, BlacklistMoves
  <2> QED
    BY <2>1, <2>2
<1> QED
  BY <1>3, <1>4 DEF IInv, BlacklistMoves

(* A request that does not touch the blacklist changes only itself.        *)
LEMMA QuietStep ==
  ASSUME IInv, UNCHANGED blacklistVars, EventsOK',
         NEW r \in Req, NEW q \in Request, req' = [req EXCEPT ![r] = q],
         req[r].pc # "await", q.pc # "await",
         user' \in [User -> {"present", "marked", "gone"}],
         \A u \in User : user[u] \in {"marked", "gone"} => user'[u] \in {"marked", "gone"},
         UNCHANGED row,
         events' \in [User -> Nat],
         HandlerOK(r)'
  PROVE  IInv'
<1>1. BlacklistMoves
  BY StutterKeeps DEF IInv
<1>2. /\ \A p \in Req : call'[p] = call[p]
      /\ row' \in [Key -> {"none", "active", "revoked"}]
      /\ q.pc = "await" <=> call'[r] # Blacklist!Idle
  BY DEF blacklistVars, IInv, TypeOK
<1> QED
  BY <1>1, <1>2, RequestStep

(* Settled(k) where the blacklist stands still.                            *)
LEMMA SettledStill ==
  ASSUME UNCHANGED blacklistVars, NEW k, Settled(k)
  PROVE  Settled(k)'
BY DEF Settled, Proved!Settled, blacklistVars

(* A step of a request only takes it out of the open deletions.            *)
LEMMA OpenShrinks ==
  ASSUME IInv, NEW r \in Req, NEW q \in Request, req' = [req EXCEPT ![r] = q],
         \/ q.user = Mine(r) /\ req[r].pc \in {"tokens", "revoke", "await", "mark", "publish"}
         \/ q.pc \notin {"tokens", "revoke", "await", "mark", "publish"}
  PROVE  \A u \in User : Open(u)' \subseteq Open(u)
BY DEF IInv, TypeOK, Open, Mine

LEMMA InitInv == Init => IInv
<1> SUFFICES ASSUME Init
             PROVE  IInv
  OBVIOUS
<1>1. Proved!IInv
  BY SameInit, Proved!InitInv, BlacklistAssumption DEF Init
<1>2. Idle \in Request
  BY DEF Idle, Request, Label
<1>3. TypeOK
  BY <1>1, <1>2, SameValues DEF Init, Blacklist!Init, Proved!IInv, TypeOK, Idle
<1>4. \A r \in Req : HandlerOK(r)
  BY DEF Init, HandlerOK, Idle
<1>5. EventsOK
  <2> SUFFICES ASSUME NEW u \in User
               PROVE  events[u] = 0 /\ events[u] + Cardinality(Open(u)) <= Cardinality(Req)
    BY DEF EventsOK
  <2>1. events[u] = 0
    BY DEF Init
  <2> QED
    BY <2>1, OpenFinite
<1> QED
  BY <1>1, <1>3, <1>4, <1>5 DEF IInv

-----------------------------------------------------------------------------
(* One lemma per action                                                    *)

LEMMA FindUserInv ==
  ASSUME IInv, NEW r \in Req, NEW u \in User, FindUser(r, u)
  PROVE  IInv'
<1> DEFINE label == CASE user[u] = "gone" -> "notFound"
                      [] user[u] = "marked" -> "already"
                      [] OTHER -> "tokens"
           q == [Idle EXCEPT !.user = u, !.pc = label]
<1>1. /\ label \in {"notFound", "already", "tokens"}
      /\ label = "tokens" => user[u] = "present"
  BY DEF IInv, TypeOK
<1>2. /\ req[r].pc = "idle" /\ req' = [req EXCEPT ![r] = q]
      /\ UNCHANGED <<blacklistVars, user, row, events>>
  BY DEF FindUser
<1> HIDE DEF label
<1>3. q \in Request /\ q.pc = label /\ q.user = u /\ q.found = {}
  BY <1>1 DEF Idle, Request, Label, Final
<1> HIDE DEF q
<1>4. req'[r] = q
  BY <1>2 DEF IInv, TypeOK
<1>5. HandlerOK(r)'
  BY <1>1, <1>3, <1>4 DEF HandlerOK, Mine
<1>6. \A v \in User : events[v] = 0 \/ Open(v)' \subseteq Open(v)
  BY <1>1, <1>2, <1>3 DEF IInv, TypeOK, EventsOK, Open, Mine
<1>7. EventsOK'
  BY <1>2, <1>6, EventsKept
<1> QED
  BY <1>1, <1>2, <1>3, <1>5, <1>7, QuietStep DEF IInv, TypeOK

LEMMA SelectTokensInv ==
  ASSUME IInv, NEW r \in Req, SelectTokens(r)
  PROVE  IInv'
<1> DEFINE found == Usable(Mine(r))
           label == CASE found = {} -> "mark"
                      [] found # {} /\ Wired -> "revoke"
                      [] OTHER -> "revokeFailed"
           q == [req[r] EXCEPT !.found = found, !.pc = label]
<1>1. req[r] \in Request /\ HandlerOK(r) /\ req[r].pc = "tokens" /\ Mine(r) \in User
  BY DEF SelectTokens, IInv, TypeOK, HandlerOK
<1>2. /\ req' = [req EXCEPT ![r] = q]
      /\ UNCHANGED <<blacklistVars, user, row, events>>
  <2> HIDE DEF found, label
  <2>1. req' = [req EXCEPT ![r].found = found, ![r].pc = label]
    BY DEF SelectTokens, found, label
  <2>2. req \in [Req -> Request]
    BY DEF IInv, TypeOK
  <2> QED
    BY <2>1, <2>2 DEF SelectTokens
<1>3. /\ label \in {"mark", "revoke", "revokeFailed"}
      /\ label = "mark" => found = {}
      /\ label = "revoke" => found # {}
      /\ found \in SUBSET Key /\ \A k \in found : Owner[k] = Mine(r)
  <2>1. found \in SUBSET Key /\ \A k \in found : Owner[k] = Mine(r)
    BY DEF Usable
  <2>2. Wired \in BOOLEAN
    BY UserDeletionAssumption
  <2> HIDE DEF found
  <2> QED
    BY <2>1, <2>2
<1> HIDE DEF found, label
<1>4. /\ q \in Request /\ q.pc = label /\ q.user = Mine(r) /\ q.found = found
  BY <1>1, <1>3 DEF Request, Label, Final, Mine
<1> HIDE DEF q
<1>5. req'[r] = q
  BY <1>2 DEF IInv, TypeOK
<1>6. HandlerOK(r)'
  BY <1>1, <1>3, <1>4, <1>5 DEF HandlerOK, Mine
<1>7. EventsOK'
  BY <1>1, <1>2, <1>4, OpenShrinks, EventsKept
<1> QED
  BY <1>1, <1>2, <1>3, <1>4, <1>6, <1>7, QuietStep DEF IInv, TypeOK

(* A step that only moves on, or ends, a request that does not wait.       *)
LEMMA MoveInv ==
  ASSUME IInv, NEW r \in Req, NEW label \in {"publish"} \cup Final, Goto(r, label),
         UNCHANGED <<blacklistVars, row>>, req[r].pc \in {"tokens", "revoke", "mark", "publish"},
         user' \in [User -> {"present", "marked", "gone"}],
         \A u \in User : user[u] \in {"marked", "gone"} => user'[u] \in {"marked", "gone"},
         events' \in [User -> Nat], EventsOK',
         label \in {"publish", "deleted", "publishFailed"} =>
            /\ req[r].pc \in {"mark", "publish"}
            /\ user'[Mine(r)] \in {"marked", "gone"}
  PROVE  IInv'
<1> DEFINE q == [req[r] EXCEPT !.pc = label]
<1>1. req[r] \in Request /\ HandlerOK(r) /\ req[r].pc # "await" /\ Mine(r) \in User
  BY DEF IInv, TypeOK, HandlerOK
<1>2. req' = [req EXCEPT ![r] = q]
  BY DEF Goto
<1>3. /\ q \in Request /\ q.pc = label /\ q.user = Mine(r) /\ q.found = req[r].found
      /\ label \notin {"await", "idle", "revoke", "mark"}
  BY <1>1 DEF Request, Label, Final, Mine
<1> HIDE DEF q
<1>4. req'[r] = q
  BY <1>2 DEF IInv, TypeOK
<1>5. \A k \in req[r].found : Settled(k) => Settled(k)'
  BY SettledStill
<1>6. HandlerOK(r)'
  BY <1>1, <1>3, <1>4, <1>5 DEF HandlerOK, Mine
<1> QED
  BY <1>1, <1>2, <1>3, <1>6, QuietStep

LEMMA MarkDeletedInv ==
  ASSUME IInv, NEW r \in Req, MarkDeleted(r)
  PROVE  IInv'
<1>1. /\ req[r] \in Request /\ HandlerOK(r) /\ req[r].pc = "mark" /\ Mine(r) \in User
      /\ user \in [User -> {"present", "marked", "gone"}]
      /\ UNCHANGED <<blacklistVars, row, events>>
  BY DEF MarkDeleted, IInv, TypeOK, HandlerOK
<1>2. PICK label \in {"error", "publish"} :
        /\ Goto(r, label)
        /\ label = "error" => UNCHANGED user
        /\ label = "publish" => user' = [user EXCEPT ![Mine(r)] = "marked"]
  BY DEF MarkDeleted
<1>3. /\ user' \in [User -> {"present", "marked", "gone"}]
      /\ \A u \in User : user[u] \in {"marked", "gone"} => user'[u] \in {"marked", "gone"}
      /\ \A u \in User : user'[u] = "present" => user[u] = "present"
      /\ label = "publish" => user'[Mine(r)] \in {"marked", "gone"}
  BY <1>1, <1>2
<1> DEFINE q == [req[r] EXCEPT !.pc = label]
<1>4. /\ req' = [req EXCEPT ![r] = q] /\ label \in {"publish"} \cup Final
      /\ q \in Request /\ q.user = Mine(r)
  BY <1>1, <1>2 DEF Goto, Request, Label, Final, Mine
<1> HIDE DEF q
<1>5. EventsOK'
  BY <1>1, <1>3, <1>4, OpenShrinks, EventsKept
<1>6. label \notin {"deleted", "publishFailed"} /\ events' \in [User -> Nat]
  BY <1>1, <1>2 DEF IInv, TypeOK
<1> QED
  BY <1>1, <1>2, <1>3, <1>4, <1>5, <1>6, MoveInv

(* The deletion that announces the user is no longer one that may.         *)
LEMMA AnnounceCounted ==
  ASSUME IInv, NEW r \in Req, NEW label \in Final, Goto(r, label), req[r].pc = "publish",
         Mine(r) \in User, UNCHANGED user, Announce(Mine(r))
  PROVE  EventsOK'
<1> SUFFICES ASSUME NEW u \in User
             PROVE  /\ user'[u] = "present" => events'[u] = 0
                    /\ events'[u] + Cardinality(Open(u)') <= Cardinality(Req)
  BY DEF EventsOK
<1> DEFINE S == Open(u)'
           T == Open(u)
<1>1. /\ events \in [User -> Nat] /\ HandlerOK(r) /\ req \in [Req -> Request]
      /\ user[u] = "present" => events[u] = 0
      /\ events[u] + Cardinality(Open(u)) <= Cardinality(Req)
  BY DEF IInv, TypeOK, EventsOK
<1>2. /\ IsFiniteSet(T) /\ Cardinality(T) \in Nat /\ Cardinality(Req) \in Nat
  BY OpenFinite
<1>3. events' = [events EXCEPT ![Mine(r)] = events[Mine(r)] + 1]
  BY DEF Announce
<1>4. /\ req' \in [Req -> Request] /\ req'[r].pc = label
      /\ \A p \in Req : p # r => req'[p] = req[p]
  BY <1>1 DEF Goto, Request, Label
<1>5. CASE u = Mine(r)
  <2>1. r \in T /\ S = T \ {r}
    BY <1>1, <1>4, <1>5 DEF Open, Mine, Final
  <2> HIDE DEF S, T
  <2>2. Cardinality(S) = Cardinality(T) - 1
    BY <1>2, <2>1, FS_RemoveElement
  <2>3. events'[u] = events[u] + 1 /\ events[u] \in Nat
    BY <1>1, <1>3, <1>5
  <2>4. events'[u] + Cardinality(S) <= Cardinality(Req)
    BY <1>1, <1>2, <2>2, <2>3 DEF T
  <2>5. user'[u] # "present"
    BY <1>1, <1>5 DEF HandlerOK
  <2> QED
    BY <2>4, <2>5 DEF S
<1>6. CASE u # Mine(r)
  <2>1. S = T
    BY <1>1, <1>4, <1>6 DEF Open, Mine, Final, Goto
  <2>2. events'[u] = events[u]
    BY <1>1, <1>3, <1>6
  <2> QED
    BY <1>1, <2>1, <2>2
<1> QED
  BY <1>5, <1>6

LEMMA PublishInv ==
  ASSUME IInv, NEW r \in Req, Publish(r)
  PROVE  IInv'
<1>1. /\ req[r] \in Request /\ HandlerOK(r) /\ req[r].pc = "publish" /\ Mine(r) \in User
      /\ events \in [User -> Nat] /\ user \in [User -> {"present", "marked", "gone"}]
      /\ user[Mine(r)] \in {"marked", "gone"}
      /\ UNCHANGED <<blacklistVars, user, row>>
  BY DEF Publish, IInv, TypeOK, HandlerOK
<1>2. PICK label \in {"deleted", "publishFailed"} :
        Goto(r, label) /\ (Announce(Mine(r)) \/ UNCHANGED events)
  BY DEF Publish
<1> DEFINE q == [req[r] EXCEPT !.pc = label]
<1>3. /\ req' = [req EXCEPT ![r] = q] /\ label \in Final
      /\ q \in Request /\ q.user = Mine(r)
  BY <1>1, <1>2 DEF Goto, Request, Label, Final, Mine
<1> HIDE DEF q
<1>4. EventsOK'
  <2>1. CASE Announce(Mine(r))
    BY <1>1, <1>2, <1>3, <2>1, AnnounceCounted
  <2>2. CASE UNCHANGED events
    BY <1>1, <1>3, <2>2, OpenShrinks, EventsKept
  <2> QED
    BY <1>2, <2>1, <2>2
<1>5. events' \in [User -> Nat]
  BY <1>1, <1>2 DEF Announce
<1> QED
  BY <1>1, <1>2, <1>3, <1>4, <1>5, MoveInv

LEMMA AbortInv ==
  ASSUME IInv, NEW r \in Req, Abort(r)
  PROVE  IInv'
<1>1. /\ req[r] \in Request /\ Goto(r, "error") /\ "error" \in Final
      /\ req[r].pc \in {"tokens", "revoke", "mark", "publish"}
      /\ UNCHANGED <<blacklistVars, user, row, events>>
      /\ user \in [User -> {"present", "marked", "gone"}] /\ events \in [User -> Nat]
  BY DEF Abort, IInv, TypeOK, Final
<1> DEFINE q == [req[r] EXCEPT !.pc = "error"]
<1>2. req' = [req EXCEPT ![r] = q] /\ q \in Request /\ q.user = Mine(r)
  BY <1>1 DEF Goto, Request, Label, Final, Mine
<1> HIDE DEF q
<1>3. EventsOK'
  BY <1>1, <1>2, OpenShrinks, EventsKept
<1>4. "error" \notin {"publish", "deleted", "publishFailed"}
  OBVIOUS
<1> QED
  BY <1>1, <1>3, <1>4, MoveInv

LEMMA FinishInv ==
  ASSUME IInv, NEW r \in Req, Finish(r)
  PROVE  IInv'
<1>1. /\ req[r].pc # "await" /\ req' = [req EXCEPT ![r] = Idle]
      /\ UNCHANGED <<blacklistVars, user, row, events>>
      /\ user \in [User -> {"present", "marked", "gone"}] /\ events \in [User -> Nat]
  BY DEF Finish, Final, IInv, TypeOK
<1>2. Idle \in Request /\ Idle.pc = "idle"
  BY DEF Idle, Request, Label
<1>3. HandlerOK(r)'
  BY <1>1, <1>2 DEF IInv, TypeOK, HandlerOK
<1>4. EventsOK'
  BY <1>1, <1>2, OpenShrinks, EventsKept
<1> QED
  BY <1>1, <1>2, <1>3, <1>4, QuietStep

-----------------------------------------------------------------------------
(* The two steps that use the blacklist                                    *)

LEMMA RevokeTokensInv ==
  ASSUME IInv, NEW r \in Req, RevokeTokens(r)
  PROVE  IInv' /\ Proved!Next
<1> DEFINE q == [req[r] EXCEPT !.pc = "await"]
<1>1. /\ req[r] \in Request /\ HandlerOK(r) /\ req[r].pc = "revoke" /\ Mine(r) \in User
      /\ req[r].found \in SUBSET {k \in Key : Owner[k] = Mine(r)} /\ req[r].found # {}
      /\ Blacklist!BeginRevokeAll(r, Mine(r), req[r].found)
      /\ Goto(r, "await") /\ UNCHANGED <<user, row, events>>
      /\ user \in [User -> {"present", "marked", "gone"}] /\ events \in [User -> Nat]
  BY DEF RevokeTokens, IInv, TypeOK, HandlerOK, Request
<1>2. Proved!BeginRevokeAll(r, Mine(r), req[r].found)
  BY <1>1, SameCall
<1>3. Proved!Next
  BY <1>1, <1>2 DEF Proved!Next, Proved!Begin
<1>4. BlacklistMoves
  BY <1>3, StepKeeps DEF IInv
<1>5. /\ req' = [req EXCEPT ![r] = q] /\ q \in Request /\ q.pc = "await"
      /\ q.user = Mine(r) /\ q.found = req[r].found
  BY <1>1 DEF Goto, Request, Label, Mine
<1> HIDE DEF q
<1>6. req'[r] = q
  BY <1>5 DEF IInv, TypeOK
<1>7. /\ call'[r].pc = "pipeline" /\ call'[r].keys = req[r].found
      /\ \A p \in Req : p # r => call'[p] = call[p]
  <2>1. call \in [Req -> Proved!Call]
    BY DEF IInv, Proved!IInv, Proved!TypeOK
  <2> QED
    BY <1>1, <1>2, <2>1 DEF Proved!BeginRevokeAll, Proved!Started
<1>8. HandlerOK(r)'
  BY <1>1, <1>5, <1>6, <1>7 DEF HandlerOK, Mine
<1>9. EventsOK'
  BY <1>1, <1>5, OpenShrinks, EventsKept
<1>10. call'[r] # Blacklist!Idle
  BY <1>7 DEF Blacklist!Idle
<1>11. /\ \A u \in User : user[u] \in {"marked", "gone"} => user'[u] \in {"marked", "gone"}
       /\ row' \in [Key -> {"none", "active", "revoked"}]
  BY <1>1 DEF IInv, TypeOK
<1> QED
  BY <1>1, <1>3, <1>4, <1>5, <1>7, <1>8, <1>9, <1>10, <1>11, RequestStep

LEMMA TokensRevokedInv ==
  ASSUME IInv, NEW r \in Req, TokensRevoked(r)
  PROVE  IInv' /\ Proved!Next
<1> DEFINE label == IF call[r].pc = "done" THEN "mark" ELSE "revokeFailed"
           q == [req[r] EXCEPT !.pc = label]
<1>1. /\ req[r] \in Request /\ HandlerOK(r) /\ req[r].pc = "await" /\ Mine(r) \in User
      /\ Blacklist!Return(r)
      /\ Goto(r, label) /\ UNCHANGED <<user, row, events>>
      /\ user \in [User -> {"present", "marked", "gone"}] /\ events \in [User -> Nat]
  BY DEF TokensRevoked, IInv, TypeOK, HandlerOK
<1>2. Proved!Return(r)
  BY <1>1, SameCall
<1>3. Proved!Next
  BY <1>2 DEF Proved!Next
<1>4. BlacklistMoves
  BY <1>3, StepKeeps DEF IInv
<1>5. /\ label \in {"mark", "revokeFailed"}
      /\ label = "mark" => call[r].pc = "done"
  OBVIOUS
<1> HIDE DEF label
<1>6. /\ req' = [req EXCEPT ![r] = q] /\ q \in Request /\ q.pc = label
      /\ q.user = Mine(r) /\ q.found = req[r].found /\ q.found \in SUBSET Key
  BY <1>1, <1>5 DEF Goto, Request, Label, Final, Mine
<1> HIDE DEF q
<1>7. req'[r] = q
  BY <1>6 DEF IInv, TypeOK
<1>8. /\ call'[r] = Blacklist!Idle
      /\ \A p \in Req : p # r => call'[p] = call[p]
  <2>1. call \in [Req -> Proved!Call]
    BY DEF IInv, Proved!IInv, Proved!TypeOK
  <2> QED
    BY <1>1, <2>1 DEF Blacklist!Return
<1>9. HandlerOK(r)'
  BY <1>1, <1>4, <1>5, <1>6, <1>7 DEF HandlerOK, Mine, BlacklistMoves
<1>10. EventsOK'
  BY <1>1, <1>6, OpenShrinks, EventsKept
<1>11. /\ \A u \in User : user[u] \in {"marked", "gone"} => user'[u] \in {"marked", "gone"}
       /\ row' \in [Key -> {"none", "active", "revoked"}]
       /\ q.pc # "await"
  BY <1>1, <1>5, <1>6 DEF IInv, TypeOK
<1> QED
  BY <1>1, <1>3, <1>4, <1>6, <1>8, <1>9, <1>10, <1>11, RequestStep

(* What a step of the blacklist does to a call that a request waits for.   *)
Answered(r) ==
    \/ call'[r] = call[r]
    \/ /\ req[r].pc = "await"
       /\ call'[r].pc \in {"done", "failed"}
       /\ call'[r].keys = call[r].keys
       /\ call'[r].pc = "done" => \A k \in call[r].keys : Settled(k)'

LEMMA BlacklistStepInv ==
  ASSUME IInv, BlacklistStep
  PROVE  IInv' /\ Proved!Next
<1>1. /\ UNCHANGED <<user, row, events, req>> /\ call \in [Req -> Proved!Call]
      /\ \A r \in Req : HandlerOK(r) /\ req[r] \in Request
      /\ \A r \in Req : req[r].pc = "await" <=> call[r] # Blacklist!Idle
  BY DEF BlacklistStep, IInv, TypeOK, Proved!IInv, Proved!TypeOK
<1>2. Proved!Next /\ \A r \in Req : Answered(r)
  <2>1. CASE Blacklist!Tick
    BY <2>1, SameTick DEF Blacklist!Tick, Proved!Next, Answered
  <2>2. ASSUME NEW r \in Req, Blacklist!Command(r)
        PROVE  Proved!Next /\ \A p \in Req : Answered(p)
    <3>1. call[r].pc = "pipeline" /\ req[r].pc = "await"
      <4>1. call[r].pc \in {"setex", "sadd", "expire", "metadata", "pipeline", "exists", "srem"}
        BY <2>2, ZenonT(60) DEF Blacklist!Command, Blacklist!SetKey, Blacklist!AddToSet,
           Blacklist!ExpireSet, Blacklist!SetMetadata, Blacklist!ExecutePipeline,
           Blacklist!LookUpKey, Blacklist!RemoveMember
      <4>2. req[r].pc = "await"
        BY <1>1, <4>1 DEF Blacklist!Idle
      <4> QED
        BY <1>1, <4>1, <4>2 DEF HandlerOK
    <3>2. Blacklist!ExecutePipeline(r)
      BY <2>2, <3>1, ZenonT(60) DEF Blacklist!Command, Blacklist!SetKey,
         Blacklist!AddToSet, Blacklist!ExpireSet, Blacklist!SetMetadata,
         Blacklist!LookUpKey, Blacklist!RemoveMember
    <3>3. Proved!ExecutePipeline(r)
      BY <3>2, SamePipeline
    <3>4. Proved!Next
      BY <3>3 DEF Proved!Next, Proved!Command
    <3>5. /\ call'[r].pc \in {"done", "failed"}
          /\ call'[r].keys = call[r].keys
          /\ \A q \in Req : q # r => call'[q] = call[q]
          /\ \A k \in call[r].keys : Proved!Settled(k)'
      BY <3>3, Proved!PipelineSettles, BlacklistAssumption DEF IInv
    <3> QED
      BY <3>1, <3>4, <3>5 DEF Settled, Answered
  <2>3. ASSUME NEW r \in Req, Blacklist!Fail(r)
        PROVE  Proved!Next /\ \A p \in Req : Answered(p)
    <3>1. call[r] # Blacklist!Idle /\ req[r].pc = "await"
      BY <1>1, <2>3 DEF Blacklist!Fail, Blacklist!Idle
    <3>2. Proved!Next
      BY <2>3, SameCall DEF Proved!Next
    <3>3. /\ call'[r].pc = "failed"
          /\ call'[r].keys = call[r].keys
          /\ \A q \in Req : q # r => call'[q] = call[q]
      BY <1>1, <2>3 DEF Blacklist!Fail, Blacklist!Goto, Proved!Call
    <3> QED
      BY <3>1, <3>2, <3>3 DEF Answered
  <2> QED
    BY <2>1, <2>2, <2>3 DEF BlacklistStep
<1>3. BlacklistMoves
  BY <1>2, StepKeeps DEF IInv
<1>4. ASSUME NEW r \in Req
      PROVE  HandlerOK(r)' /\ (req'[r].pc = "await" <=> call'[r] # Blacklist!Idle)
  <2>1. /\ req'[r] = req[r] /\ Mine(r)' = Mine(r) /\ req[r].found \in SUBSET Key
        /\ user' = user
    BY <1>1 DEF Mine, Request
  <2>2. CASE call'[r] = call[r]
    BY <1>1, <1>3, <2>1, <2>2 DEF HandlerOK, BlacklistMoves
  <2>3. CASE /\ req[r].pc = "await"
             /\ call'[r].pc \in {"done", "failed"}
             /\ call'[r].keys = call[r].keys
             /\ call'[r].pc = "done" => \A k \in call[r].keys : Settled(k)'
    BY <1>1, <2>1, <2>3 DEF HandlerOK, Blacklist!Idle
  <2> QED
    BY <1>2, <2>2, <2>3 DEF Answered
<1>5. Blacklist!TypeOK'
  BY <1>3, SameTypesNext DEF BlacklistMoves, Proved!IInv
<1>6. TypeOK'
  BY <1>1, <1>4, <1>5 DEF IInv, TypeOK
<1>7. EventsOK'
  BY <1>1 DEF IInv, EventsOK, Open, Mine
<1> QED
  BY <1>2, <1>3, <1>4, <1>6, <1>7 DEF IInv, BlacklistMoves

-----------------------------------------------------------------------------
(* What runs beside it                                                     *)

LEMMA RowsInv ==
  ASSUME IInv, UNCHANGED <<blacklistVars, events, req>>,
         user' \in [User -> {"present", "marked", "gone"}],
         \A u \in User : user[u] \in {"marked", "gone"} => user'[u] \in {"marked", "gone"},
         row' \in [Key -> {"none", "active", "revoked"}]
  PROVE  IInv'
<1>1. BlacklistMoves
  BY StutterKeeps DEF IInv
<1>2. Blacklist!TypeOK'
  BY <1>1, SameTypesNext DEF BlacklistMoves, Proved!IInv
<1>3. TypeOK'
  BY <1>2 DEF IInv, TypeOK, blacklistVars
<1>4. ASSUME NEW r \in Req
      PROVE  HandlerOK(r)'
  <2>1. req[r].found \in SUBSET Key /\ HandlerOK(r)
    BY DEF IInv, TypeOK, Request
  <2> QED
    BY <1>1, <2>1 DEF HandlerOK, Mine, BlacklistMoves, blacklistVars
<1>5. \A u \in User : Open(u)' = Open(u) /\ (user'[u] = "present" => user[u] = "present")
  BY DEF Open, Mine, IInv, TypeOK
<1>6. EventsOK'
  BY <1>5 DEF IInv, EventsOK
<1> QED
  BY <1>1, <1>3, <1>4, <1>6 DEF IInv, BlacklistMoves

LEMMA BesideInv ==
  ASSUME IInv,
         \/ \E k \in Key : Issue(k) \/ RevokeRow(k)
         \/ \E u \in User : RemoveUser(u)
  PROVE  IInv'
<1>1. /\ user \in [User -> {"present", "marked", "gone"}]
      /\ row \in [Key -> {"none", "active", "revoked"}]
  BY DEF IInv, TypeOK
<1>2. ASSUME NEW k \in Key, Issue(k) \/ RevokeRow(k)
      PROVE  IInv'
  BY <1>1, <1>2, RowsInv DEF Issue, RevokeRow
<1>3. ASSUME NEW u \in User, RemoveUser(u)
      PROVE  IInv'
  BY <1>1, <1>3, RowsInv DEF RemoveUser
<1> QED
  BY <1>2, <1>3

-----------------------------------------------------------------------------
LEMMA NextInv ==
  ASSUME IInv, [Next]_vars
  PROVE  IInv'
<1>1. ASSUME NEW r \in Req, Advance(r) \/ Abort(r) \/ \E u \in User : FindUser(r, u)
      PROVE  IInv'
  BY <1>1, SelectTokensInv, RevokeTokensInv, TokensRevokedInv, MarkDeletedInv, PublishInv,
     FinishInv, AbortInv, FindUserInv DEF Advance
<1>2. CASE UNCHANGED vars
  BY <1>2, RowsInv DEF vars, IInv, TypeOK
<1> QED
  BY <1>1, <1>2, BlacklistStepInv, BesideInv DEF Next

(* The handler keeps to the protocol of the blacklist.                     *)
LEMMA NextUses ==
  ASSUME IInv, [Next]_vars
  PROVE  [Proved!Next]_(Proved!vars)
<1>1. CASE UNCHANGED blacklistVars
  BY <1>1 DEF blacklistVars, Proved!vars, Proved!redis
<1>2. CASE BlacklistStep \/ \E r \in Req : RevokeTokens(r) \/ TokensRevoked(r)
  BY <1>2, BlacklistStepInv, RevokeTokensInv, TokensRevokedInv
<1> QED
  BY <1>1, <1>2 DEF Next, Advance, Abort, FindUser, SelectTokens, MarkDeleted, Publish,
     Finish, Issue, RevokeRow, RemoveUser, vars

(* Spec => []IInv: what every request in progress may rely on.             *)
THEOREM DeletionInvariant == Spec => []IInv
<1>1. Init => IInv
  BY InitInv
<1>2. IInv /\ [Next]_vars => IInv'
  BY NextInv
<1> QED
  BY <1>1, <1>2, PTL DEF Spec

(* The variables keep their types, and exactly the deletions that wait for *)
(* the blacklist have a call of it in progress.                            *)
THEOREM DeletionTypeCorrect == Spec => []TypeOK
<1>1. IInv => TypeOK
  BY DEF IInv
<1> QED
  BY <1>1, DeletionInvariant, PTL

(* A deletion that has marked its user found every token it needed on the  *)
(* blacklist, and they are there until they expire.                        *)
THEOREM DeletedMeansBlacklistedAlways == Spec => []DeletedMeansBlacklisted
<1>1. ASSUME IInv
      PROVE  DeletedMeansBlacklisted
  <2>1. SUFFICES ASSUME NEW r \in Req, req[r].pc \in {"publish", "deleted", "publishFailed"}
                 PROVE  /\ user[Mine(r)] \in {"marked", "gone"}
                        /\ \A k \in req[r].found : Exp[k] > now => Blacklist!Revoked(k)
    BY DEF DeletedMeansBlacklisted
  <2>2. HandlerOK(r) /\ req[r].found \in SUBSET Key
    BY <1>1 DEF IInv, TypeOK, Request
  <2>3. /\ \A k \in written : Exp[k] <= now \/ black[k] >= Exp[k]
        /\ now \in Nat /\ black \in [Key -> Nat] /\ Exp \in [Key -> Nat]
    BY <1>1, RevocableTokensAssumption DEF IInv, Proved!IInv, Proved!KeysLast, Proved!TypeOK
  <2>4. ASSUME NEW k \in req[r].found, Exp[k] > now
        PROVE  black[k] > now
    <3>1. k \in Key /\ (k \in written \/ Exp[k] <= now)
      BY <2>1, <2>2 DEF HandlerOK, Settled, Proved!Settled
    <3> QED
      BY <2>3, <2>4, <3>1
  <2> QED
    BY <2>1, <2>2, <2>4 DEF HandlerOK, Blacklist!Revoked
<1> QED
  BY <1>1, DeletionInvariant, PTL

(* No user is announced more often than deletions can overlap.             *)
THEOREM EventsBoundedAlways == Spec => []EventsBounded
<1>1. ASSUME IInv
      PROVE  EventsBounded
  BY <1>1, OpenFinite DEF IInv, TypeOK, EventsOK, EventsBounded
<1> QED
  BY <1>1, DeletionInvariant, PTL

(* The handler uses the blacklist as its specification allows: it starts a *)
(* call only when it has none in progress and takes each answer once, so   *)
(* that what is proved of the blacklist holds here.                        *)
THEOREM UsesBlacklist == Spec => Proved!Spec
<1>1. Init => Proved!Init
  BY SameInit DEF Init
<1>2. IInv /\ [Next]_vars => [Proved!Next]_(Proved!vars)
  BY NextUses
<1> QED
  BY <1>1, <1>2, DeletionInvariant, PTL DEF Spec, Proved!Spec
=============================================================================
