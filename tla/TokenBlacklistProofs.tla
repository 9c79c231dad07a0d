----------------------- MODULE TokenBlacklistProofs -----------------------
(***************************************************************************)
(* Proofs about TokenBlacklist for any numbers of callers, tokens and      *)
(* users and any lives of the tokens: the types, and that what was         *)
(* reported as revoked is found for as long as it could be used.           *)
(***************************************************************************)
EXTENDS TokenBlacklist, FiniteSetTheorems, WellFoundedInduction, TLAPS

-----------------------------------------------------------------------------
(* The greatest of finitely many numbers                                   *)

(* Among the sizes of the sets without a greatest element there is a least *)
(* one; taking one element away from such a set leaves none.               *)
LEMMA FiniteHasGreatest ==
  ASSUME NEW S \in SUBSET Nat, IsFiniteSet(S), S # {}
  PROVE  \E x \in S : \A y \in S : x >= y
<1> DEFINE Endless(T) == IsFiniteSet(T) /\ T # {} /\ ~\E x \in T : \A y \in T : x >= y
           sizes == {n \in Nat : \E T \in SUBSET Nat : Endless(T) /\ Cardinality(T) = n}
<1>1. SUFFICES ASSUME Endless(S)
               PROVE  FALSE
  OBVIOUS
<1>2. Cardinality(S) \in sizes
  BY <1>1, FS_CardinalityType
<1>3. PICK n \in sizes : \A m \in sizes : ~(<<m, n>> \in OpToRel(<, Nat))
  <2> HIDE DEF sizes
  <2>1. sizes \subseteq Nat
    BY DEF sizes
  <2> QED
    BY <1>2, <2>1, NatLessThanWellFounded, WFMin
<1>4. \A m \in sizes : ~(m < n)
  BY <1>3 DEF OpToRel
<1>5. PICK T \in SUBSET Nat : Endless(T) /\ Cardinality(T) = n
  OBVIOUS
<1>6. PICK x \in T : TRUE
  BY <1>5
<1> DEFINE R == T \ {x}
<1>7. IsFiniteSet(R) /\ Cardinality(R) = n - 1 /\ Cardinality(R) \in Nat
  <2>1. IsFiniteSet(R) /\ Cardinality(R) = n - 1
    BY <1>5, <1>6, FS_RemoveElement
  <2> QED
    BY <2>1, FS_CardinalityType
<1>8. CASE R = {}
  BY <1>5, <1>6, <1>8
<1>9. CASE R # {}
  <2>1. ~Endless(R)
    <3>1. SUFFICES ASSUME Endless(R)
                   PROVE  FALSE
      OBVIOUS
    <3>2. Cardinality(R) \in sizes
      BY <1>7, <3>1
    <3> QED
      BY <1>4, <1>7, <3>2
  <2>2. PICK y \in R : \A z \in R : y >= z
    BY <1>7, <1>9, <2>1
  <2>3. \E g \in {x, y} : g >= x /\ g >= y
    BY <1>6, <2>2
  <2> QED
    BY <1>5, <1>6, <2>2, <2>3
<1> QED
  BY <1>8, <1>9

LEMMA MaxIsNat ==
  ASSUME NEW S \in SUBSET Nat, IsFiniteSet(S), S # {}
  PROVE  Max(S) \in Nat
BY FiniteHasGreatest DEF Max

(* EXPIRE gets a number.                                                   *)
LEMMA MaxOverKeys ==
  ASSUME NEW keys \in SUBSET Key, keys # {}, NEW f \in [Key -> Nat]
  PROVE  Max({f[k] : k \in keys}) \in Nat
<1> DEFINE S == {f[k] : k \in keys}
           g == [k \in keys |-> f[k]]
<1>1. S \in SUBSET Nat /\ S # {}
  OBVIOUS
<1>2. IsFiniteSet(keys)
  BY RevocableTokensAssumption, FS_Subset
<1>3. g \in Surjection(keys, S)
  BY DEF Surjection
<1>4. IsFiniteSet(S)
  BY <1>2, <1>3, FS_Surjection
<1> QED
  BY <1>1, <1>4, MaxIsNat

-----------------------------------------------------------------------------
(* The inductive invariant                                                 *)

(* What a call relies on: its clock is not ahead; what it adds to a set is *)
(* of the set's user, and what it reports was written before.              *)
CallOK(r) ==
    LET c == call[r] IN
    /\ c.at <= now
    /\ c.pc \in {"setex", "sadd", "expire", "metadata", "pipeline"}
        => c.user \in User /\ c.keys # {}
    /\ c.pc = "pipeline" => \A k \in c.keys : Owner[k] = c.user
    /\ c.pc \in {"sadd", "expire", "metadata"} => c.keys \subseteq written

(* The key of a token lives until the token has expired.                   *)
KeysLast == \A k \in written : Exp[k] <= now \/ black[k] >= Exp[k]

IInv ==
    /\ TypeOK
    /\ \A r \in Req : CallOK(r)
    /\ KeysLast

-----------------------------------------------------------------------------
(* Helpers of the specification                                            *)

(* The life of a key is at least that of its token from when the clock was *)
(* read.                                                                   *)
LEMMA TtlCovers ==
  ASSUME NEW exp \in Nat, NEW at \in Nat
  PROVE  /\ Ttl(exp, at) \in Nat
         /\ Ttl(exp, at) >= exp - at
BY RevocableTokensAssumption DEF Ttl

LEMMA GotoEffect ==
  ASSUME call \in [Req -> Call], NEW r \in Req, NEW label \in Label, Goto(r, label)
  PROVE  /\ call' \in [Req -> Call]
         /\ call'[r] = [call[r] EXCEPT !.pc = label]
         /\ call'[r].pc = label
         /\ call'[r].at = call[r].at
         /\ call'[r].keys = call[r].keys
         /\ call'[r].user = call[r].user
         /\ call'[r].next = call[r].next
         /\ \A q \in Req : q # r => call'[q] = call[q]
BY DEF Goto, Call

LEMMA WriteEffect ==
  ASSUME IInv, NEW keys \in SUBSET Key, NEW at \in Nat, at <= now, UNCHANGED now,
         Write(keys, at)
  PROVE  /\ black' \in [Key -> Nat]
         /\ written' = written \cup keys
         /\ KeysLast'
<1>1. \A k \in Key : /\ Exp[k] \in Nat
                     /\ Ttl(Exp[k], at) \in Nat
                     /\ Ttl(Exp[k], at) >= Exp[k] - at
  BY TtlCovers, RevocableTokensAssumption
<1>2. black' = [k \in Key |-> IF k \in keys THEN now + Ttl(Exp[k], at) ELSE black[k]]
  BY DEF Write
<1>3. now \in Nat /\ black \in [Key -> Nat] /\ written \subseteq Key
  BY RevocableTokensAssumption DEF IInv, TypeOK
<1>4. black' \in [Key -> Nat]
  BY <1>1, <1>2, <1>3
<1>5. written' = written \cup keys
  BY DEF Write
<1>6. ASSUME NEW k \in written'
      PROVE  Exp[k] <= now' \/ black'[k] >= Exp[k]
  <2>1. CASE k \in keys
    <3>1. black'[k] = now + Ttl(Exp[k], at)
      BY <1>2, <2>1
    <3>2. now + Ttl(Exp[k], at) >= Exp[k]
      BY <1>1, <1>3, <2>1
    <3> QED
      BY <3>1, <3>2
  <2>2. CASE k \notin keys
    <3>1. k \in written /\ black'[k] = black[k]
      BY <1>2, <1>3, <1>5, <1>6, <2>2
    <3> QED
      BY <3>1 DEF IInv, KeysLast
  <2> QED
    BY <2>1, <2>2
<1> QED
  BY <1>4, <1>5, <1>6 DEF KeysLast

(* Calls that do not move keep what they rely on while time stands still.  *)
LEMMA OthersKeep ==
  ASSUME IInv, UNCHANGED now, written \subseteq written', NEW q \in Req,
         call'[q] = call[q]
  PROVE  CallOK(q)'
BY DEF IInv, CallOK

-----------------------------------------------------------------------------
(* One lemma per action                                                    *)

LEMMA InitInv == Init => IInv
<1> SUFFICES ASSUME Init
             PROVE  IInv
  OBVIOUS
<1>1. TypeOK
  BY RevocableTokensAssumption DEF Init, TypeOK, Call, Label, Idle, SetOf
<1>2. \A r \in Req : CallOK(r)
  BY DEF Init, CallOK, Idle
<1> QED
  BY <1>1, <1>2 DEF Init, IInv, KeysLast

(* A call starts or ends; the stores stay as they are.                     *)
LEMMA LocalStep ==
  ASSUME IInv, NEW r \in Req, NEW c \in Call, call' = [call EXCEPT ![r] = c],
         UNCHANGED <<now, redis, written>>, acked' \subseteq written', CallOK(r)'
  PROVE  IInv'
<1>1. /\ call' \in [Req -> Call]
      /\ \A q \in Req : q # r => call'[q] = call[q]
  BY DEF IInv, TypeOK
<1>2. TypeOK'
  BY <1>1 DEF IInv, TypeOK, SetOf, redis
<1>3. \A q \in Req : CallOK(q)'
  BY <1>1, OthersKeep
<1> QED
  BY <1>2, <1>3 DEF IInv, KeysLast, redis

LEMMA BeginRevokeInv ==
  ASSUME IInv, NEW r \in Req, NEW k \in Key, BeginRevoke(r, k)
  PROVE  IInv'
<1> DEFINE c == Started("setex", {k}, Owner[k])
<1>0. /\ "setex" \in Label /\ {k} \in SUBSET Key /\ now \in Nat /\ Owner[k] \in User
      /\ UNCHANGED <<now, redis, acked, written>> /\ call' = [call EXCEPT ![r] = c]
  BY RevocableTokensAssumption DEF Label, BeginRevoke, IInv, TypeOK
<1>1. /\ c \in Call /\ c.pc = "setex" /\ c.at = now /\ c.keys = {k} /\ c.user \in User
  BY <1>0 DEF Started, Call
<1> HIDE DEF c
<1>2. call'[r] = c /\ acked' \subseteq written' /\ {k} # {}
  BY <1>0 DEF IInv, TypeOK
<1>3. CallOK(r)'
  BY <1>0, <1>1, <1>2 DEF CallOK
<1> QED
  BY <1>0, <1>1, <1>2, <1>3, LocalStep

LEMMA BeginRevokeAllInv ==
  ASSUME IInv, NEW r \in Req, NEW u \in User,
         NEW keys \in SUBSET {k \in Key : Owner[k] = u}, BeginRevokeAll(r, u, keys)
  PROVE  IInv'
<1> DEFINE label == IF keys = {} THEN "done" ELSE "pipeline"
           c == Started(label, keys, u)
<1>1. label \in Label /\ (label = "pipeline" => keys # {}) /\ label \in {"done", "pipeline"}
  BY DEF Label
<1> HIDE DEF label
<1>2. /\ c \in Call /\ c.pc = label /\ c.at = now /\ c.keys = keys /\ c.user = u
  BY <1>1, RevocableTokensAssumption DEF Started, Call, IInv, TypeOK
<1>3. call' = [call EXCEPT ![r] = c] /\ UNCHANGED <<now, redis, acked, written>>
  BY DEF BeginRevokeAll, label
<1> HIDE DEF c
<1>4. CallOK(r)' /\ acked' \subseteq written'
  BY <1>1, <1>2, <1>3, RevocableTokensAssumption DEF CallOK, IInv, TypeOK
<1> QED
  BY <1>2, <1>3, <1>4, LocalStep

LEMMA BeginCleanupInv ==
  ASSUME IInv, NEW r \in Req, NEW u \in User, BeginCleanup(r, u)
  PROVE  IInv'
<1> DEFINE c == Started("exists", SetOf(u), u)
<1>1. /\ c \in Call /\ c.pc = "exists" /\ c.at = now /\ c.keys = SetOf(u) /\ c.user = u
      /\ call' = [call EXCEPT ![r] = c]
      /\ UNCHANGED <<now, redis, acked, written>>
  BY RevocableTokensAssumption DEF BeginCleanup, Started, SetOf, Call, Label, IInv, TypeOK
<1> HIDE DEF c
<1>2. CallOK(r)' /\ acked' \subseteq written'
  BY <1>1, RevocableTokensAssumption DEF CallOK, IInv, TypeOK, redis
<1> QED
  BY <1>1, <1>2, LocalStep

LEMMA SetKeyInv ==
  ASSUME IInv, NEW r \in Req, SetKey(r)
  PROVE  IInv'
<1>1. /\ call \in [Req -> Call] /\ CallOK(r) /\ call[r].pc = "setex"
      /\ call[r].keys \in SUBSET Key /\ call[r].at \in Nat
      /\ Goto(r, "sadd") /\ Write(call[r].keys, call[r].at)
      /\ UNCHANGED <<now, index, lapse, acked>>
  BY DEF IInv, TypeOK, SetKey, Call
<1>2. black' \in [Key -> Nat] /\ written' = written \cup call[r].keys /\ KeysLast'
  BY <1>1, WriteEffect DEF CallOK
<1>3. "sadd" \in Label
  BY DEF Label
<1>4. CallOK(r)'
  BY <1>1, <1>2, <1>3, GotoEffect DEF CallOK
<1>5. \A q \in Req : CallOK(q)'
  BY <1>1, <1>2, <1>3, <1>4, GotoEffect, OthersKeep, ZenonT(60)
<1>6. TypeOK'
  BY <1>1, <1>2, <1>3, GotoEffect DEF IInv, TypeOK, SetOf
<1> QED
  BY <1>1, <1>2, <1>5, <1>6 DEF IInv

LEMMA AddToSetInv ==
  ASSUME IInv, NEW r \in Req, AddToSet(r)
  PROVE  IInv'
<1>1. /\ call \in [Req -> Call] /\ CallOK(r) /\ call[r].pc = "sadd"
      /\ call[r].keys \in SUBSET Key /\ call[r].keys \subseteq written
      /\ Goto(r, "expire") /\ index' = index \cup call[r].keys
      /\ UNCHANGED <<now, black, lapse, acked, written>>
  BY DEF IInv, TypeOK, AddToSet, Call, CallOK
<1>2. "expire" \in Label
  BY DEF Label
<1>3. CallOK(r)'
  BY <1>1, <1>2, GotoEffect DEF CallOK
<1>4. \A q \in Req : CallOK(q)'
  BY <1>1, <1>3, <1>2, GotoEffect, OthersKeep, ZenonT(60)
<1>5. \A u \in User : lapse'[u] # 0 => SetOf(u)' # {}
  BY <1>1 DEF IInv, TypeOK, SetOf
<1>6. TypeOK'
  BY <1>1, <1>2, <1>5, GotoEffect DEF IInv, TypeOK
<1> QED
  BY <1>1, <1>4, <1>6 DEF IInv, KeysLast

(* SetMetadata, Fail, Return and the end of a clean-up only change labels. *)
LEMMA GotoInv ==
  ASSUME IInv, NEW r \in Req, NEW label \in {"metadata", "done", "failed"},
         Goto(r, label), UNCHANGED <<now, redis, written>>, acked' \subseteq written',
         label = "metadata" => call[r].pc \in {"expire"}
  PROVE  IInv'
<1> DEFINE c == [call[r] EXCEPT !.pc = label]
<1>1. call \in [Req -> Call] /\ label \in Label
  BY DEF IInv, TypeOK, Label
<1>2. /\ c \in Call /\ c.pc = label /\ c.at = call[r].at /\ c.keys = call[r].keys
      /\ c.user = call[r].user
  BY <1>1 DEF Call
<1>3. call' = [call EXCEPT ![r] = c]
  BY DEF Goto
<1> HIDE DEF c
<1>4. CallOK(r)'
  BY <1>1, <1>2, <1>3 DEF IInv, CallOK
<1> QED
  BY <1>2, <1>3, <1>4, LocalStep

LEMMA SetMetadataInv ==
  ASSUME IInv, NEW r \in Req, SetMetadata(r)
  PROVE  IInv'
<1>1. acked' \subseteq written'
  BY DEF SetMetadata, IInv, TypeOK, CallOK
<1>2. "done" # "metadata"
  OBVIOUS
<1> QED
  BY <1>1, <1>2, GotoInv DEF SetMetadata

LEMMA FailInv ==
  ASSUME IInv, NEW r \in Req, Fail(r)
  PROVE  IInv'
<1>1. acked' \subseteq written'
  BY DEF Fail, IInv, TypeOK
<1>2. "failed" # "metadata"
  OBVIOUS
<1> QED
  BY <1>1, <1>2, GotoInv DEF Fail

LEMMA ReturnInv ==
  ASSUME IInv, NEW r \in Req, Return(r)
  PROVE  IInv'
<1>1. Idle \in Call
  BY DEF Idle, Call, Label
<1>2. CallOK(r)' /\ acked' \subseteq written'
  BY RevocableTokensAssumption DEF Return, CallOK, Idle, IInv, TypeOK
<1> QED
  BY <1>1, <1>2, LocalStep DEF Return

LEMMA ExpireSetInv ==
  ASSUME IInv, NEW r \in Req, ExpireSet(r)
  PROVE  IInv'
<1> DEFINE u == call[r].user
           f == [k \in Key |-> Ttl(Exp[k], call[r].at)]
           n == IF SetOf(u) = {} THEN 0
                ELSE now + Max({Ttl(Exp[k], call[r].at) : k \in call[r].keys})
<1>1. /\ call \in [Req -> Call] /\ CallOK(r) /\ call[r].pc = "expire"
      /\ u \in User /\ call[r].keys # {} /\ call[r].keys \in SUBSET Key
      /\ call[r].at \in Nat /\ now \in Nat
      /\ Goto(r, "metadata") /\ UNCHANGED <<now, black, index, acked, written>>
  BY RevocableTokensAssumption DEF IInv, TypeOK, ExpireSet, Call, CallOK
<1>2. f \in [Key -> Nat]
  BY <1>1, TtlCovers, RevocableTokensAssumption
<1>3. {f[k] : k \in call[r].keys} = {Ttl(Exp[k], call[r].at) : k \in call[r].keys}
  BY <1>1
<1>4. n \in Nat /\ (n # 0 => SetOf(u) # {})
  <2> HIDE DEF f
  <2>1. Max({f[k] : k \in call[r].keys}) \in Nat
    BY <1>1, <1>2, MaxOverKeys
  <2> QED
    BY <1>1, <1>3, <2>1
<1>5. lapse' = [lapse EXCEPT ![u] = n]
  BY DEF ExpireSet
<1> HIDE DEF n, u
<1>6. /\ lapse' \in [User -> Nat]
      /\ \A v \in User : lapse'[v] # 0 => SetOf(v)' # {}
  BY <1>1, <1>4, <1>5 DEF IInv, TypeOK, SetOf
<1>7. "metadata" \in Label
  BY DEF Label
<1>8. CallOK(r)'
  BY <1>1, <1>7, GotoEffect DEF CallOK
<1>9. \A q \in Req : CallOK(q)'
  BY <1>1, <1>7, <1>8, GotoEffect, OthersKeep
<1>10. TypeOK'
  BY <1>1, <1>6, <1>7, GotoEffect DEF IInv, TypeOK
<1> QED
  BY <1>1, <1>9, <1>10 DEF IInv, KeysLast

LEMMA ExecutePipelineInv ==
  ASSUME IInv, NEW r \in Req, ExecutePipeline(r)
  PROVE  IInv'
<1> DEFINE keys == call[r].keys
           at == call[r].at
           u == call[r].user
           fresh == Unexpired(keys, at)
           n == now + Ttl(Max({Exp[k] : k \in keys}), at)
<1>1. /\ call \in [Req -> Call] /\ CallOK(r) /\ call[r].pc = "pipeline"
      /\ u \in User /\ keys # {} /\ keys \in SUBSET Key
      /\ at \in Nat /\ at <= now /\ now \in Nat /\ UNCHANGED now
      /\ \A k \in keys : Owner[k] = u
  BY RevocableTokensAssumption DEF IInv, TypeOK, ExecutePipeline, Call, CallOK
<1>2. fresh \in SUBSET keys
  BY <1>1, RevocableTokensAssumption DEF Unexpired
<1>3. /\ black' \in [Key -> Nat] /\ written' = written \cup fresh /\ KeysLast'
  <2>1. Write(fresh, at)
    BY DEF ExecutePipeline
  <2> HIDE DEF fresh
  <2> QED
    BY <1>1, <1>2, <2>1, WriteEffect
<1>4. n \in Nat
  <2> DEFINE last == Max({Exp[k] : k \in keys})
  <2>1. last \in Nat
    BY <1>1, MaxOverKeys, RevocableTokensAssumption
  <2> HIDE DEF last
  <2>2. Ttl(last, at) \in Nat
    BY <1>1, <2>1, TtlCovers
  <2> QED
    BY <1>1, <2>2 DEF last
<1>5. /\ index' \subseteq Key /\ lapse' \in [User -> Nat]
      /\ \A v \in User : lapse'[v] # 0 => SetOf(v)' # {}
  <2>1. CASE fresh = {}
    <3>1. UNCHANGED <<index, lapse>>
      BY <2>1 DEF ExecutePipeline
    <3> QED
      BY <1>1, <1>3, <3>1 DEF IInv, TypeOK, SetOf
  <2>2. CASE fresh # {}
    <3>1. index' = index \cup keys /\ lapse' = [lapse EXCEPT ![u] = n]
      BY <2>2 DEF ExecutePipeline
    <3> HIDE DEF n, keys, at, u, fresh
    <3>2. \A v \in User : lapse'[v] # 0 => SetOf(v)' # {}
      BY <1>1, <3>1 DEF IInv, TypeOK, SetOf
    <3> QED
      BY <1>1, <1>4, <3>1, <3>2 DEF IInv, TypeOK
  <2> QED
    BY <2>1, <2>2
<1>6. PICK label \in {"done", "failed"} : Goto(r, label)
  BY DEF ExecutePipeline
<1>7. acked' \subseteq written' /\ acked' \subseteq Key
  BY <1>2, <1>1, <1>3 DEF ExecutePipeline, IInv, TypeOK
<1> HIDE DEF n, fresh
<1>8. label \in Label
  BY DEF Label
<1>9. /\ call' \in [Req -> Call]
      /\ call'[r].pc = label
      /\ call'[r].at = call[r].at
      /\ \A q \in Req : q # r => call'[q] = call[q]
  BY <1>1, <1>6, <1>8, GotoEffect
<1>10. CallOK(r)'
  BY <1>1, <1>9 DEF CallOK
<1>11. \A q \in Req : CallOK(q)'
  BY <1>1, <1>3, <1>9, <1>10, OthersKeep
<1>12. written' \subseteq Key
  BY <1>1, <1>2, <1>3 DEF IInv, TypeOK
<1>13. TypeOK'
  BY <1>1, <1>3, <1>5, <1>7, <1>9, <1>12 DEF IInv, TypeOK
<1> QED
  BY <1>3, <1>11, <1>13 DEF IInv

LEMMA LookUpKeyInv ==
  ASSUME IInv, NEW r \in Req, LookUpKey(r)
  PROVE  IInv'
<1>1. /\ call \in [Req -> Call] /\ CallOK(r) /\ call[r].pc = "exists"
      /\ UNCHANGED <<now, redis, acked, written>>
      /\ acked' \subseteq written' /\ call[r].keys \in SUBSET Key /\ call[r].at <= now
  BY DEF IInv, TypeOK, LookUpKey, CallOK, Call
<1>2. CASE call[r].keys = {}
  <2>1. Goto(r, "done") /\ "done" # "metadata"
    BY <1>2 DEF LookUpKey
  <2> QED
    BY <1>1, <2>1, GotoInv
<1>3. CASE call[r].keys # {}
  <2>1. PICK k \in call[r].keys :
          call' = [call EXCEPT ![r].keys = @ \ {k},
                               ![r].pc = IF Exists(Formatted(k)) THEN "exists" ELSE "srem",
                               ![r].next = IF Exists(Formatted(k)) THEN None ELSE k]
    BY <1>3 DEF LookUpKey
  <2> DEFINE label == IF Exists(Formatted(k)) THEN "exists" ELSE "srem"
             next == IF Exists(Formatted(k)) THEN None ELSE k
             rest == call[r].keys \ {k}
             c == [call[r] EXCEPT !.keys = rest, !.pc = label, !.next = next]
  <2>2. call' = [call EXCEPT ![r] = c]
    BY <1>1, <2>1
  <2>3. label \in {"exists", "srem"} /\ next \in Key \cup {None} /\ rest \in SUBSET Key
    BY <1>1
  <2>4. label \in Label
    BY <2>3 DEF Label
  <2> HIDE DEF label, next, rest
  <2>5. c \in Call /\ c.pc = label /\ c.at = call[r].at
    BY <1>1, <2>3, <2>4 DEF Call
  <2> HIDE DEF c
  <2>6. call'[r] = c
    BY <1>1, <2>2
  <2>7. CallOK(r)'
    BY <1>1, <2>3, <2>5, <2>6 DEF CallOK
  <2> QED
    BY <1>1, <2>2, <2>5, <2>7, LocalStep
<1> QED
  BY <1>2, <1>3

LEMMA RemoveMemberInv ==
  ASSUME IInv, NEW r \in Req, RemoveMember(r)
  PROVE  IInv'
<1>1. /\ call \in [Req -> Call] /\ CallOK(r) /\ call[r].pc = "srem"
      /\ index' = index \ {call[r].next}
      /\ UNCHANGED <<now, black, acked, written>>
  BY DEF IInv, TypeOK, RemoveMember
<1> DEFINE c == [call[r] EXCEPT !.pc = "exists", !.next = None]
<1>2. call' = [call EXCEPT ![r] = c] /\ "exists" \in Label /\ call[r] \in Call
  BY <1>1 DEF RemoveMember, Label
<1>3. /\ c \in Call /\ c.pc = "exists" /\ c.keys = call[r].keys /\ c.at = call[r].at
  BY <1>2 DEF Call
<1> HIDE DEF c
<1>4. /\ call' \in [Req -> Call] /\ call'[r] = c
      /\ \A q \in Req : q # r => call'[q] = call[q]
  BY <1>1, <1>2, <1>3
<1>5. CallOK(r)'
  BY <1>1, <1>3, <1>4 DEF CallOK
<1>6. \A q \in Req : CallOK(q)'
  BY <1>1, <1>4, <1>5, OthersKeep
<1>7. lapse' = [v \in User |-> IF \E k \in index' : Owner[k] = v THEN lapse[v] ELSE 0]
  BY DEF RemoveMember
<1>8. /\ lapse' \in [User -> Nat]
      /\ \A v \in User : lapse'[v] # 0 => SetOf(v)' # {}
  BY <1>7 DEF SetOf, IInv, TypeOK
<1>9. TypeOK'
  BY <1>1, <1>4, <1>8 DEF IInv, TypeOK
<1> QED
  BY <1>1, <1>6, <1>9 DEF IInv, KeysLast

LEMMA TickInv ==
  ASSUME IInv, Tick
  PROVE  IInv'
<1>1. /\ now \in Nat /\ now' = now + 1 /\ now' \in 0 .. MaxTime
      /\ black' = [k \in Key |-> IF black[k] <= now' THEN 0 ELSE black[k]]
      /\ index' = {k \in index : lapse[Owner[k]] = 0 \/ lapse[Owner[k]] > now'}
      /\ lapse' = [u \in User |-> IF lapse[u] <= now' THEN 0 ELSE lapse[u]]
      /\ UNCHANGED <<call, acked, written>>
  BY RevocableTokensAssumption DEF Tick, IInv, TypeOK
<1>2. black' \in [Key -> Nat] /\ lapse' \in [User -> Nat]
  BY <1>1 DEF IInv, TypeOK
<1>3. \A u \in User : lapse'[u] # 0 => SetOf(u)' # {}
  BY <1>1 DEF IInv, TypeOK, SetOf
<1>4. TypeOK'
  BY <1>1, <1>2, <1>3 DEF IInv, TypeOK
<1>5. \A r \in Req : CallOK(r)'
  BY <1>1, RevocableTokensAssumption DEF IInv, TypeOK, CallOK, Call
<1>6. KeysLast'
  BY <1>1, RevocableTokensAssumption DEF IInv, TypeOK, KeysLast
<1> QED
  BY <1>4, <1>5, <1>6 DEF IInv

-----------------------------------------------------------------------------
(* What the callers of revoke_all_user_tokens may rely on                  *)

(* Nobody can use the token without the blacklist knowing of it.           *)
Settled(k) == k \in written \/ Exp[k] <= now

(* A pipeline that was carried out leaves no token of the list usable.     *)
LEMMA PipelineSettles ==
  ASSUME IInv, NEW r \in Req, ExecutePipeline(r)
  PROVE  /\ call'[r].pc \in {"done", "failed"}
         /\ call'[r].keys = call[r].keys
         /\ \A q \in Req : q # r => call'[q] = call[q]
         /\ \A k \in call[r].keys : Settled(k)'
<1>1. /\ call \in [Req -> Call] /\ CallOK(r) /\ call[r].keys \in SUBSET Key
      /\ call[r].at \in Nat /\ call[r].at <= now /\ now \in Nat /\ UNCHANGED now
  BY RevocableTokensAssumption DEF IInv, TypeOK, ExecutePipeline, Call, CallOK
<1>2. PICK label \in {"done", "failed"} : Goto(r, label)
  BY DEF ExecutePipeline
<1>3. label \in Label
  BY DEF Label
<1>4. Write(Unexpired(call[r].keys, call[r].at), call[r].at)
  BY DEF ExecutePipeline
<1>5. \A k \in call[r].keys : Settled(k)'
  BY <1>1, <1>4, RevocableTokensAssumption DEF Write, Unexpired, Settled
<1> QED
  BY <1>1, <1>2, <1>3, <1>5, GotoEffect

(* A token that is settled stays so.                                       *)
LEMMA SettledStable ==
  ASSUME IInv, [Next]_vars, NEW k \in Key, Settled(k)
  PROVE  Settled(k)'
<1>1. now \in Nat /\ Exp[k] \in Nat
  BY RevocableTokensAssumption DEF IInv, TypeOK
<1>2. now' \in Nat /\ now' >= now /\ written \subseteq written'
  <2>1. CASE Tick
    <3>1. now' = now + 1 /\ written' = written
      BY <2>1, ZenonT(60) DEF Tick
    <3> QED
      BY <1>1, <3>1
  <2>2. ASSUME NEW r \in Req, Begin(r) \/ Command(r) \/ Fail(r) \/ Return(r)
        PROVE  UNCHANGED now /\ written \subseteq written'
    BY <2>2, ZenonT(60) DEF Begin, BeginRevoke, BeginRevokeAll, BeginCleanup, Command, SetKey, AddToSet,
       ExpireSet, SetMetadata, ExecutePipeline, LookUpKey, RemoveMember, Fail, Return, Write
  <2> QED
    BY <1>1, <2>1, <2>2 DEF Next, vars
<1> QED
  BY <1>1, <1>2 DEF Settled

-----------------------------------------------------------------------------
LEMMA NextInv ==
  ASSUME IInv, [Next]_vars
  PROVE  IInv'
<1>1. CASE Tick
  BY <1>1, TickInv
<1>2. ASSUME NEW r \in Req, Begin(r)
      PROVE  IInv'
  BY <1>2, BeginRevokeInv, BeginRevokeAllInv, BeginCleanupInv DEF Begin
<1>3. ASSUME NEW r \in Req, Command(r)
      PROVE  IInv'
  BY <1>3, SetKeyInv, AddToSetInv, ExpireSetInv, SetMetadataInv, ExecutePipelineInv,
     LookUpKeyInv, RemoveMemberInv DEF Command
<1>4. ASSUME NEW r \in Req, Fail(r) \/ Return(r)
      PROVE  IInv'
  BY <1>4, FailInv, ReturnInv
<1>5. CASE UNCHANGED vars
  BY <1>5 DEF vars, redis, IInv, TypeOK, CallOK, KeysLast, SetOf
<1> QED
  BY <1>1, <1>2, <1>3, <1>4, <1>5 DEF Next

(* Spec => []IInv: what every call in progress may rely on.                *)
THEOREM BlacklistInvariant == Spec => []IInv
<1>1. Init => IInv
  BY InitInv
<1>2. IInv /\ [Next]_vars => IInv'
  BY NextInv
<1> QED
  BY <1>1, <1>2, PTL DEF Spec

(* The variables keep their types, an empty set has no time to live, and   *)
(* what was reported as revoked had its key written.                       *)
THEOREM BlacklistTypeCorrect == Spec => []TypeOK
<1>1. IInv => TypeOK
  BY DEF IInv
<1> QED
  BY <1>1, BlacklistInvariant, PTL

(* A token that was reported as revoked is found for as long as it could   *)
(* be used: every key is written with a life counted from when the clock   *)
(* was read, at or before the moment of the command, and is never cut      *)
(* short.                                                                  *)
THEOREM BlacklistHoldsAlways == Spec => []BlacklistHolds
<1>1. IInv => BlacklistHolds
  BY RevocableTokensAssumption DEF IInv, TypeOK, KeysLast, BlacklistHolds, Revoked
<1> QED
  BY <1>1, BlacklistInvariant, PTL
=============================================================================
