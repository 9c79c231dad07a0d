------------------------ MODULE LoginThrottleProofs ------------------------
(***************************************************************************)
(* Proofs about LoginThrottle for any number of requests, names and        *)
(* addresses and any threshold: the types, that without failures no        *)
(* counter is left without a time to live, how many attempts get past a    *)
(* counter, and how far a counter can exceed the attempts.                 *)
(***************************************************************************)
EXTENDS LoginThrottle, FiniteSetTheorems, TLAPS

(* INCR of whatever key yields counters.                                   *)
LEMMA IncrType ==
  ASSUME count \in [Key -> Nat], NEW k
  PROVE  [count EXCEPT ![k] = count[k] + 1] \in [Key -> Nat]
<1> DEFINE c == [count EXCEPT ![k] = count[k] + 1]
<1>1. ASSUME NEW j \in Key
      PROVE  c[j] \in Nat
  <2>1. CASE j = k
    BY <2>1
  <2>2. CASE j # k
    BY <2>2
  <2> QED
    BY <2>1, <2>2
<1> QED
  BY <1>1

(* A request keeps its type when it changes its label and its flags.       *)
LEMMA AttemptType ==
  ASSUME att \in [Req -> Attempt], NEW r \in Req, NEW label \in Label,
         NEW b \in BOOLEAN, NEW c \in BOOLEAN
  PROVE  /\ [att EXCEPT ![r] = [att[r] EXCEPT !.pc = label]] \in [Req -> Attempt]
         /\ [att EXCEPT ![r] = [att[r] EXCEPT !.pc = label, !.nameFirst = b]]
              \in [Req -> Attempt]
         /\ [att EXCEPT ![r] = [att[r] EXCEPT !.pc = label, !.ipFirst = c]]
              \in [Req -> Attempt]
BY DEF Attempt

(* The variables keep their types in every step. *)
LEMMA TypeStep ==
    ASSUME TypeOK, [Next]_vars
    PROVE  TypeOK'
<1> USE DEF TypeOK, Label, Final
<1>1. ASSUME NEW r \in Req, NEW n \in Name, NEW i \in Ip, Begin(r, n, i)
      PROVE  TypeOK'
  BY <1>1 DEF Begin, Attempt, NoAttempt
<1>2. ASSUME NEW r \in Req, CheckName(r)
      PROVE  TypeOK'
  BY <1>2 DEF CheckName, Goto, Attempt
<1>3. ASSUME NEW r \in Req, CheckIp(r)
      PROVE  TypeOK'
  BY <1>3 DEF CheckIp, Goto, Attempt
<1>4. ASSUME NEW r \in Req, Fail(r)
      PROVE  TypeOK'
  BY <1>4 DEF Fail, Goto, Attempt
<1>5. ASSUME NEW r \in Req, Succeed(r) \/ Leave(r)
      PROVE  TypeOK'
  BY <1>5 DEF Succeed, Leave, Goto, Attempt
<1>6. ASSUME NEW r \in Req, IncrName(r)
      PROVE  TypeOK'
  <2> DEFINE k == att[r].name
             first == (count[k] = 0)
  <2>1. /\ count' = [count EXCEPT ![k] = count[k] + 1]
        /\ att' = [att EXCEPT ![r] = [att[r] EXCEPT !.pc = "incrIp", !.nameFirst = first]]
        /\ UNCHANGED <<ttl, tried, faults>>
    BY <1>6 DEF IncrName
  <2>2. first \in BOOLEAN
    BY Zenon
  <2>3. count' \in [Key -> Nat]
    BY <2>1, IncrType
  <2> HIDE DEF first
  <2>4. att' \in [Req -> Attempt]
    BY <2>1, <2>2, AttemptType
  <2> QED
    BY <2>1, <2>3, <2>4
<1>7. ASSUME NEW r \in Req, IncrIp(r)
      PROVE  TypeOK'
  <2> DEFINE k == att[r].ip
             first == (count[k] = 0)
             next == AfterIncr(att[r].nameFirst, first)
  <2>1. /\ count' = [count EXCEPT ![k] = count[k] + 1]
        /\ att' = [att EXCEPT ![r] = [att[r] EXCEPT !.pc = next, !.ipFirst = first]]
        /\ UNCHANGED <<ttl, tried, faults>>
    BY <1>7 DEF IncrIp
  <2>2. first \in BOOLEAN
    BY Zenon
  <2>3. next \in {"armName", "armIp", "done"}
    BY DEF AfterIncr
  <2>4. count' \in [Key -> Nat]
    BY <2>1, IncrType
  <2> HIDE DEF first, next
  <2>5. att' \in [Req -> Attempt]
    BY <2>1, <2>2, <2>3, AttemptType
  <2> QED
    BY <2>1, <2>4, <2>5
<1>8. ASSUME NEW r \in Req, ArmName(r)
      PROVE  TypeOK'
  <2> DEFINE k == att[r].name
             alive == (count[k] > 0)
             next == AfterIncr(FALSE, att[r].ipFirst)
  <2>1. /\ ttl' = [ttl EXCEPT ![k] = alive]
        /\ att' = [att EXCEPT ![r] = [att[r] EXCEPT !.pc = next]]
        /\ UNCHANGED <<count, tried, faults>>
    BY <1>8 DEF ArmName, Expire, Goto
  <2>2. alive \in BOOLEAN
    OBVIOUS
  <2>3. next \in {"armIp", "done"}
    BY DEF AfterIncr
  <2> HIDE DEF alive, next
  <2>4. ttl' \in [Key -> BOOLEAN]
    BY <2>1, <2>2
  <2>5. att' \in [Req -> Attempt]
    BY <2>1, <2>3, AttemptType
  <2> QED
    BY <2>1, <2>4, <2>5
<1>9. ASSUME NEW r \in Req, ArmIp(r)
      PROVE  TypeOK'
  <2> DEFINE k == att[r].ip
             alive == (count[k] > 0)
             next == "done"
  <2>1. /\ ttl' = [ttl EXCEPT ![k] = alive]
        /\ att' = [att EXCEPT ![r] = [att[r] EXCEPT !.pc = next]]
        /\ UNCHANGED <<count, tried, faults>>
    BY <1>9 DEF ArmIp, Expire, Goto
  <2>2. alive \in BOOLEAN
    OBVIOUS
  <2>3. next \in {"armIp", "done"}
    BY DEF AfterIncr
  <2> HIDE DEF alive, next
  <2>4. ttl' \in [Key -> BOOLEAN]
    BY <2>1, <2>2
  <2>5. att' \in [Req -> Attempt]
    BY <2>1, <2>3, AttemptType
  <2> QED
    BY <2>1, <2>4, <2>5
<1>10. ASSUME NEW r \in Req, Reset(r)
       PROVE  TypeOK'
  BY <1>10 DEF Reset, Forget, Goto, Attempt
<1>11. ASSUME NEW r \in Req, Finish(r)
       PROVE  TypeOK'
  BY <1>11 DEF Finish, Attempt, NoAttempt
<1>12. ASSUME NEW r \in Req, RedisError(r)
       PROVE  TypeOK'
  BY <1>12 DEF RedisError, Goto, Attempt
<1>13. ASSUME NEW r \in Req, Crash(r)
       PROVE  TypeOK'
  BY <1>13 DEF Crash, Attempt, NoAttempt
<1>14. ASSUME NEW k \in Key, KeyExpires(k)
       PROVE  TypeOK'
  BY <1>14 DEF KeyExpires, Forget
<1>15. CASE UNCHANGED vars
  BY <1>15 DEF vars
<1> QED
  BY <1>1, <1>2, <1>3, <1>4, <1>5, <1>6, <1>7, <1>8, <1>9, <1>10, <1>11, <1>12,
     <1>13, <1>14, <1>15 DEF Next, Advance

-----------------------------------------------------------------------------
(* Counters and their time to live                                         *)

(* A step keeps CounterHasTtl when the requests that will arm a key still  *)
(* will, and every counter the step leaves without a time to live was      *)
(* without one before or was created by a request that will arm it.        *)
LEMMA TtlKept ==
  ASSUME TypeOK, CounterHasTtl, faults' = 0 => faults = 0,
         \A k \in Key : count'[k] > 0 /\ ~ttl'[k] =>
            \/ \E q \in Req : WillArm(q, k)'
            \/ /\ count[k] > 0 /\ ~ttl[k]
               /\ \A q \in Req : WillArm(q, k) => WillArm(q, k)'
  PROVE  CounterHasTtl'
BY DEF CounterHasTtl

(* A step that touches no counter and moves no request on its way to an    *)
(* EXPIRE keeps CounterHasTtl.                                             *)
LEMMA TtlKeptByMove ==
  ASSUME TypeOK, CounterHasTtl, NEW r \in Req, NEW a \in Attempt,
         att' = [att EXCEPT ![r] = a], UNCHANGED <<count, ttl>>,
         faults' = 0 => /\ faults = 0
                        /\ att[r].pc \notin {"incrIp", "armName", "armIp"}
  PROVE  CounterHasTtl'
<1>1. CASE faults' = 0
  <2>1. ASSUME NEW k \in Key, NEW q \in Req, WillArm(q, k)
        PROVE  WillArm(q, k)'
    BY <1>1, <2>1 DEF TypeOK, WillArm
  <2> QED
    BY <1>1, <2>1, TtlKept
<1>2. CASE faults' # 0
  BY <1>2 DEF CounterHasTtl
<1> QED
  BY <1>1, <1>2

(* The INCR of a name: the request that created the counter will arm it.   *)
LEMMA TtlIncrName ==
  ASSUME TypeOK, CounterHasTtl, NEW r \in Req, IncrName(r)
  PROVE  CounterHasTtl'
<1> DEFINE n == att[r].name
           first == (count[n] = 0)
<1>1. /\ att[r].pc = "incrName"
      /\ count' = [count EXCEPT ![n] = count[n] + 1]
      /\ att' = [att EXCEPT ![r] = [att[r] EXCEPT !.pc = "incrIp", !.nameFirst = first]]
      /\ ttl' = ttl /\ faults' = faults
  BY DEF IncrName
<1>2. ASSUME NEW k \in Key, NEW q \in Req, WillArm(q, k)
      PROVE  WillArm(q, k)'
  <2> HIDE DEF first
  <2> QED
    BY <1>1, <1>2 DEF TypeOK, WillArm
<1>3. ASSUME NEW k \in Key, count'[k] > 0, ~ttl'[k], count[k] = 0
      PROVE  WillArm(r, k)'
  <2>1. k = n
    BY <1>1, <1>3 DEF TypeOK
  <2>2. first
    BY <1>3, <2>1
  <2> HIDE DEF first
  <2> QED
    BY <1>1, <2>1, <2>2 DEF TypeOK, Attempt, WillArm
<1>4. \A k \in Key : count[k] # 0 => count[k] > 0
  BY DEF TypeOK
<1> QED
  BY <1>1, <1>2, <1>3, <1>4, TtlKept

(* The INCR of an address: the request goes on to the EXPIRE of every key  *)
(* it has created, the name first.                                         *)
LEMMA TtlIncrIp ==
  ASSUME TypeOK, CounterHasTtl, NEW r \in Req, IncrIp(r)
  PROVE  CounterHasTtl'
<1> DEFINE i == att[r].ip
           first == (count[i] = 0)
           next == AfterIncr(att[r].nameFirst, first)
<1>1. /\ att[r].pc = "incrIp"
      /\ count' = [count EXCEPT ![i] = count[i] + 1]
      /\ att' = [att EXCEPT ![r] = [att[r] EXCEPT !.pc = next, !.ipFirst = first]]
      /\ ttl' = ttl /\ faults' = faults
  BY DEF IncrIp
<1>2. /\ att[r].nameFirst => next = "armName"
      /\ first => next \in {"armName", "armIp"}
  BY DEF AfterIncr
<1>3. ASSUME NEW k \in Key, NEW q \in Req, WillArm(q, k)
      PROVE  WillArm(q, k)'
  <2> HIDE DEF first, next
  <2> QED
    BY <1>1, <1>2, <1>3 DEF TypeOK, Attempt, WillArm
<1>4. ASSUME NEW k \in Key, count'[k] > 0, ~ttl'[k], count[k] = 0
      PROVE  WillArm(r, k)'
  <2>1. k = i
    BY <1>1, <1>4 DEF TypeOK
  <2>2. first
    BY <1>4, <2>1
  <2> HIDE DEF first, next
  <2> QED
    BY <1>1, <1>2, <2>1, <2>2 DEF TypeOK, Attempt, WillArm
<1>5. \A k \in Key : count[k] # 0 => count[k] > 0
  BY DEF TypeOK
<1> QED
  BY <1>1, <1>3, <1>4, <1>5, TtlKept

(* EXPIRE on the name: that key has a time to live or is missing now, and  *)
(* the request goes on to the address if it created that counter too.      *)
LEMMA TtlArmName ==
  ASSUME TypeOK, CounterHasTtl, NEW r \in Req, ArmName(r)
  PROVE  CounterHasTtl'
<1> DEFINE n == att[r].name
           alive == (count[n] > 0)
           next == AfterIncr(FALSE, att[r].ipFirst)
<1>1. /\ att[r].pc = "armName"
      /\ ttl' = [ttl EXCEPT ![n] = alive]
      /\ att' = [att EXCEPT ![r] = [att[r] EXCEPT !.pc = next]]
      /\ count' = count /\ faults' = faults
  BY DEF ArmName, Expire, Goto
<1>2. att[r].ipFirst => next = "armIp"
  BY DEF AfterIncr
<1>3. ASSUME NEW k \in Key, count'[k] > 0, ~ttl'[k]
      PROVE  k # n /\ ~ttl[k]
  <2>1. k # n
    <3>1. CASE k = n
      <4>1. alive
        BY <1>1, <1>3, <3>1
      <4> HIDE DEF alive
      <4> QED
        BY <1>1, <1>3, <3>1, <4>1 DEF TypeOK
    <3> QED
      BY <3>1
  <2> HIDE DEF alive
  <2> QED
    BY <1>1, <1>3, <2>1 DEF TypeOK
<1>4. ASSUME NEW k \in Key, k # n, NEW q \in Req, WillArm(q, k)
      PROVE  WillArm(q, k)'
  <2> HIDE DEF next
  <2> QED
    BY <1>1, <1>2, <1>4 DEF TypeOK, Attempt, WillArm
<1> QED
  BY <1>1, <1>3, <1>4, TtlKept

(* EXPIRE on the address.                                                  *)
LEMMA TtlArmIp ==
  ASSUME TypeOK, CounterHasTtl, NEW r \in Req, ArmIp(r)
  PROVE  CounterHasTtl'
<1> DEFINE i == att[r].ip
           alive == (count[i] > 0)
<1>1. /\ att[r].pc = "armIp"
      /\ ttl' = [ttl EXCEPT ![i] = alive]
      /\ att' = [att EXCEPT ![r] = [att[r] EXCEPT !.pc = "done"]]
      /\ count' = count /\ faults' = faults
  BY DEF ArmIp, Expire, Goto
<1>2. ASSUME NEW k \in Key, count'[k] > 0, ~ttl'[k]
      PROVE  k # i /\ ~ttl[k]
  <2>1. k # i
    <3>1. CASE k = i
      <4>1. alive
        BY <1>1, <1>2, <3>1
      <4> HIDE DEF alive
      <4> QED
        BY <1>1, <1>2, <3>1, <4>1 DEF TypeOK
    <3> QED
      BY <3>1
  <2> HIDE DEF alive
  <2> QED
    BY <1>1, <1>2, <2>1 DEF TypeOK
<1>3. ASSUME NEW k \in Key, k # i, NEW q \in Req, WillArm(q, k)
      PROVE  WillArm(q, k)'
  BY <1>1, <1>3 DEF TypeOK, Attempt, WillArm
<1> QED
  BY <1>1, <1>2, <1>3, TtlKept

(* DEL and expiry remove the counters they are about.                      *)
LEMMA TtlForget ==
  ASSUME TypeOK, CounterHasTtl, NEW K, Forget(K), faults' = faults,
         \A q \in Req, k \in Key : WillArm(q, k) => WillArm(q, k)'
  PROVE  CounterHasTtl'
<1>1. ASSUME NEW k \in Key, count'[k] > 0, ~ttl'[k]
      PROVE  count[k] > 0 /\ ~ttl[k]
  BY <1>1 DEF Forget
<1> QED
  BY <1>1, TtlKept

(* Every step keeps CounterHasTtl.                                         *)
LEMMA TtlStep ==
  ASSUME TypeOK, CounterHasTtl, [Next]_vars
  PROVE  CounterHasTtl'
<1> USE DEF TypeOK
<1>1. NoAttempt \in Attempt
  BY DEF NoAttempt, Attempt, Label
<1>2. ASSUME NEW r \in Req, NEW n \in Name, NEW i \in Ip, Begin(r, n, i)
      PROVE  CounterHasTtl'
  <2> DEFINE a == [NoAttempt EXCEPT !.pc = "checkName", !.name = n, !.ip = i]
  <2>1. a \in Attempt
    BY DEF NoAttempt, Attempt, Label
  <2>2. att[r].pc = "idle" /\ att' = [att EXCEPT ![r] = a] /\ UNCHANGED <<count, ttl, faults>>
    BY <1>2 DEF Begin
  <2> HIDE DEF a
  <2> QED
    BY <2>1, <2>2, TtlKeptByMove
<1>3. ASSUME NEW r \in Req, NEW label \in Label, Goto(r, label), UNCHANGED <<count, ttl>>,
             faults' = 0 => /\ faults = 0
                            /\ att[r].pc \notin {"incrIp", "armName", "armIp"}
      PROVE  CounterHasTtl'
  <2> DEFINE a == [att[r] EXCEPT !.pc = label]
  <2>1. a \in Attempt
    BY DEF Attempt
  <2>2. att' = [att EXCEPT ![r] = a]
    BY <1>3 DEF Goto
  <2> HIDE DEF a
  <2> QED
    BY <1>3, <2>1, <2>2, TtlKeptByMove
<1>4. ASSUME NEW r \in Req, CheckName(r) \/ CheckIp(r) \/ Fail(r) \/ Succeed(r) \/ Leave(r)
      PROVE  CounterHasTtl'
  BY <1>3, <1>4 DEF CheckName, CheckIp, Fail, Succeed, Leave, Label, Final
<1>5. ASSUME NEW r \in Req, Finish(r)
      PROVE  CounterHasTtl'
  BY <1>1, <1>5, TtlKeptByMove DEF Finish, Final
<1>6. ASSUME NEW r \in Req, RedisError(r)
      PROVE  CounterHasTtl'
  BY <1>3, <1>6 DEF RedisError, Label, Final
<1>7. ASSUME NEW r \in Req, Crash(r)
      PROVE  CounterHasTtl'
  <2>1. faults' # 0 /\ att' = [att EXCEPT ![r] = NoAttempt] /\ UNCHANGED <<count, ttl>>
    BY <1>7 DEF Crash
  <2> QED
    BY <1>1, <2>1, TtlKeptByMove
<1>8. ASSUME NEW r \in Req, Reset(r)
      PROVE  CounterHasTtl'
  <2>1. \A q \in Req, k \in Key : WillArm(q, k) => WillArm(q, k)'
    BY <1>8 DEF Reset, Goto, WillArm
  <2> QED
    BY <1>8, <2>1, TtlForget DEF Reset
<1>9. ASSUME NEW k \in Key, KeyExpires(k)
      PROVE  CounterHasTtl'
  <2>1. \A q \in Req, i \in Key : WillArm(q, i) => WillArm(q, i)'
    BY <1>9 DEF KeyExpires, WillArm
  <2> QED
    BY <1>9, <2>1, TtlForget DEF KeyExpires
<1>10. CASE UNCHANGED vars
  BY <1>10 DEF vars, CounterHasTtl, WillArm
<1> QED
  BY <1>2, <1>4, <1>5, <1>6, <1>7, <1>8, <1>9, <1>10, TtlIncrName, TtlIncrIp, TtlArmName,
     TtlArmIp DEF Next, Advance

-----------------------------------------------------------------------------
(* Attempts and their counters                                             *)

(* The attempt a was judged a failure that the counter k does not show yet.*)
Owes(a, k) ==
    \/ a.name = k /\ a.pc = "incrName"
    \/ a.ip = k /\ a.pc \in {"incrName", "incrIp"}

(* The attempt a got past the counter k and is not judged yet.             *)
Admitted(a, k) ==
    \/ a.name = k /\ a.pc \in {"checkIp", "judge"}
    \/ a.ip = k /\ a.pc = "judge"

Owing(k) == {r \in Req : Owes(att[r], k)}

Passing(k) == {r \in Req : Admitted(att[r], k)}

(* What is judged is counted, is about to be counted or was lost by a      *)
(* fault; what is counted was judged, or was owed when the counter was     *)
(* dropped; and who gets past a counter below its limit finds no more      *)
(* judged than counted and owed.                                           *)
KeyOK(k) ==
    /\ tried[k] <= count[k] + Cardinality(Owing(k)) + faults
    /\ count[k] + Cardinality(Owing(k)) <= tried[k] + Cardinality(Req)
    /\ tried[k] + Cardinality(Passing(k)) < Limit(k) + Cardinality(Req) + faults

CountInv == \A k \in Key : KeyOK(k)

LEMMA LimitPositive ==
  ASSUME NEW k
  PROVE  Limit(k) \in Nat /\ Limit(k) >= 1
BY LoginThrottleAssumption DEF Limit

(* Sizes of sets of requests.                                              *)
LEMMA RequestSets ==
  ASSUME NEW S \in SUBSET Req, NEW T \in SUBSET Req, NEW r \in Req
  PROVE  /\ Cardinality(S) \in Nat
         /\ Cardinality(S) <= Cardinality(Req)
         /\ Cardinality(Req) \in Nat
         /\ S \subseteq T => Cardinality(S) <= Cardinality(T)
         /\ S \subseteq T \cup {r} => Cardinality(S) <= Cardinality(T) + 1
         /\ r \in S /\ T = S \ {r} => Cardinality(T) = Cardinality(S) - 1
         /\ S \cap T = {} => Cardinality(S) + Cardinality(T) <= Cardinality(Req)
<1>1. /\ IsFiniteSet(Req) /\ IsFiniteSet(S) /\ IsFiniteSet(T)
      /\ Cardinality(S) <= Cardinality(Req)
  BY LoginThrottleAssumption, FS_Subset
<1>2. /\ Cardinality(S) \in Nat /\ Cardinality(T) \in Nat /\ Cardinality(Req) \in Nat
  BY <1>1, FS_CardinalityType
<1>3. S \subseteq T => Cardinality(S) <= Cardinality(T)
  BY <1>1, FS_Subset
<1>4. ASSUME S \subseteq T \cup {r}
      PROVE  Cardinality(S) <= Cardinality(T) + 1
  <2>1. IsFiniteSet(T \cup {r}) /\ Cardinality(T \cup {r}) \in {Cardinality(T), Cardinality(T) + 1}
    BY <1>1, <1>2, FS_AddElement
  <2>2. Cardinality(S) <= Cardinality(T \cup {r})
    BY <1>4, <2>1, FS_Subset
  <2> QED
    BY <1>2, <2>1, <2>2
<1>5. r \in S /\ T = S \ {r} => Cardinality(T) = Cardinality(S) - 1
  BY <1>1, FS_RemoveElement
<1>6. ASSUME S \cap T = {}
      PROVE  Cardinality(S) + Cardinality(T) <= Cardinality(Req)
  <2>1. /\ S \cup T \in SUBSET Req
        /\ Cardinality(S \cup T) = Cardinality(S) + Cardinality(T) - Cardinality(S \cap T)
    BY <1>1, FS_Union
  <2>2. Cardinality(S \cap T) = 0
    BY <1>6, FS_EmptySet
  <2>3. Cardinality(S \cup T) <= Cardinality(Req)
    BY <1>1, <2>1, FS_Subset
  <2> QED
    BY <1>2, <2>1, <2>2, <2>3
<1> QED
  BY <1>1, <1>2, <1>3, <1>4, <1>5, <1>6

(* What a counter and its attempts look like before and after a step.      *)
LEMMA KeySizes ==
  ASSUME TypeOK, NEW k \in Key
  PROVE  /\ Owing(k) \in SUBSET Req /\ Passing(k) \in SUBSET Req
         /\ Owing(k) \cap Passing(k) = {}
         /\ count[k] \in Nat /\ tried[k] \in Nat /\ faults \in Nat
BY LoginThrottleAssumption DEF TypeOK, Owing, Passing, Owes, Admitted, Attempt, Key

LEMMA KeySizesNext ==
  ASSUME TypeOK', NEW k \in Key
  PROVE  /\ Owing(k)' \in SUBSET Req /\ Passing(k)' \in SUBSET Req
         /\ Owing(k)' \cap Passing(k)' = {}
         /\ count'[k] \in Nat /\ tried'[k] \in Nat /\ faults' \in Nat
BY LoginThrottleAssumption DEF TypeOK, Owing, Passing, Owes, Admitted, Attempt, Key

(* A step of one request keeps KeyOK(k) when it is about another key, when *)
(* it judges the request, or when it counts the judgement.                 *)
LEMMA KeyKept ==
  ASSUME TypeOK, TypeOK', NEW k \in Key, KeyOK(k), NEW r \in Req,
         \A q \in Req : q # r => att'[q] = att[q],
         \/ /\ count'[k] = count[k] /\ tried'[k] = tried[k]
            /\ faults' \in {faults, faults + 1}
            /\ Owes(att'[r], k) => Owes(att[r], k)
            /\ Owes(att[r], k) => Owes(att'[r], k) \/ faults' = faults + 1
            /\ Admitted(att'[r], k) =>
                  Admitted(att[r], k) \/ count[k] < Limit(k) \/ faults' = faults + 1
         \/ /\ count'[k] = count[k] /\ tried'[k] = tried[k] + 1 /\ faults' = faults
            /\ ~Owes(att[r], k) /\ Owes(att'[r], k)
            /\ Admitted(att[r], k) /\ ~Admitted(att'[r], k)
         \/ /\ count'[k] = count[k] + 1 /\ tried'[k] = tried[k] /\ faults' = faults
            /\ Owes(att[r], k) /\ ~Owes(att'[r], k)
            /\ Admitted(att'[r], k) => Admitted(att[r], k)
  PROVE  KeyOK(k)'
<1> DEFINE U == Owing(k)
           V == Passing(k)
           X == Owing(k)'
           Y == Passing(k)'
           n == Cardinality(Req)
<1>1. /\ U \in SUBSET Req /\ V \in SUBSET Req /\ X \in SUBSET Req /\ Y \in SUBSET Req
      /\ X \cap Y = {}
      /\ count[k] \in Nat /\ tried[k] \in Nat /\ faults \in Nat
      /\ count'[k] \in Nat /\ tried'[k] \in Nat /\ faults' \in Nat
      /\ Limit(k) \in Nat /\ Limit(k) >= 1
  BY KeySizes, KeySizesNext, LimitPositive
<1>2. /\ \A q \in Req : q # r => (q \in X <=> q \in U) /\ (q \in Y <=> q \in V)
      /\ r \in U <=> Owes(att[r], k)
      /\ r \in X <=> Owes(att'[r], k)
      /\ r \in V <=> Admitted(att[r], k)
      /\ r \in Y <=> Admitted(att'[r], k)
  BY DEF Owing, Passing
<1>3. /\ tried[k] <= count[k] + Cardinality(U) + faults
      /\ count[k] + Cardinality(U) <= tried[k] + n
      /\ tried[k] + Cardinality(V) < Limit(k) + n + faults
  BY DEF KeyOK
<1> HIDE DEF U, V, X, Y
<1>4. /\ Cardinality(U) \in Nat /\ Cardinality(V) \in Nat /\ n \in Nat
      /\ Cardinality(X) \in Nat /\ Cardinality(Y) \in Nat
      /\ Cardinality(X) + Cardinality(Y) <= n
      /\ Cardinality(U) <= Cardinality(X) + 1 /\ Cardinality(Y) <= Cardinality(V) + 1
      /\ X \subseteq U => Cardinality(X) <= Cardinality(U)
      /\ U \subseteq X => Cardinality(U) <= Cardinality(X)
      /\ Y \subseteq V => Cardinality(Y) <= Cardinality(V)
      /\ r \in U /\ X = U \ {r} => Cardinality(X) = Cardinality(U) - 1
      /\ r \in X /\ U = X \ {r} => Cardinality(U) = Cardinality(X) - 1
      /\ r \in V /\ Y = V \ {r} => Cardinality(Y) = Cardinality(V) - 1
  <2>1. U \subseteq X \cup {r} /\ Y \subseteq V \cup {r}
    BY <1>1, <1>2
  <2> HIDE DEF n
  <2> QED
    BY <1>1, <2>1, RequestSets DEF n
<1> HIDE DEF n
<1>5. /\ tried'[k] <= count'[k] + Cardinality(X) + faults'
      /\ count'[k] + Cardinality(X) <= tried'[k] + n
      /\ tried'[k] + Cardinality(Y) < Limit(k) + n + faults'
  <2>1. CASE /\ count'[k] = count[k] /\ tried'[k] = tried[k]
             /\ faults' \in {faults, faults + 1}
             /\ Owes(att'[r], k) => Owes(att[r], k)
             /\ Owes(att[r], k) => Owes(att'[r], k) \/ faults' = faults + 1
             /\ Admitted(att'[r], k) =>
                   Admitted(att[r], k) \/ count[k] < Limit(k) \/ faults' = faults + 1
    <3>1. X \subseteq U
      BY <1>1, <1>2, <2>1
    <3>2. U \subseteq X \/ faults' = faults + 1
      BY <1>1, <1>2, <2>1
    <3>3. Y \subseteq V \/ count[k] < Limit(k) \/ faults' = faults + 1
      BY <1>1, <1>2, <2>1
    <3>4. tried'[k] <= count'[k] + Cardinality(X) + faults'
      BY <1>1, <1>3, <1>4, <2>1, <3>2
    <3>5. tried'[k] + Cardinality(Y) < Limit(k) + n + faults'
      BY <1>1, <1>3, <1>4, <2>1, <3>3, <3>4
    <3> QED
      BY <1>1, <1>3, <1>4, <2>1, <3>1, <3>4, <3>5
  <2>2. CASE /\ count'[k] = count[k] /\ tried'[k] = tried[k] + 1 /\ faults' = faults
             /\ ~Owes(att[r], k) /\ Owes(att'[r], k)
             /\ Admitted(att[r], k) /\ ~Admitted(att'[r], k)
    <3>1. r \in X /\ U = X \ {r} /\ r \in V /\ Y = V \ {r}
      BY <1>1, <1>2, <2>2
    <3> QED
      BY <1>1, <1>3, <1>4, <2>2, <3>1
  <2>3. CASE /\ count'[k] = count[k] + 1 /\ tried'[k] = tried[k] /\ faults' = faults
             /\ Owes(att[r], k) /\ ~Owes(att'[r], k)
             /\ Admitted(att'[r], k) => Admitted(att[r], k)
    <3>1. r \in U /\ X = U \ {r} /\ Y \subseteq V
      BY <1>1, <1>2, <2>3
    <3> QED
      BY <1>1, <1>3, <1>4, <2>3, <3>1
  <2> QED
    BY <2>1, <2>2, <2>3
<1> QED
  BY <1>5 DEF KeyOK, n, X, Y, Limit

(* A counter that is dropped owes nothing for what came before.            *)
LEMMA KeyDropped ==
  ASSUME TypeOK', NEW k \in Key, count'[k] = 0, tried'[k] = 0
  PROVE  KeyOK(k)'
<1> DEFINE X == Owing(k)'
           Y == Passing(k)'
<1>1. /\ X \in SUBSET Req /\ Y \in SUBSET Req /\ faults' \in Nat
      /\ Limit(k) \in Nat /\ Limit(k) >= 1
  BY KeySizes, KeySizesNext, LimitPositive
<1> HIDE DEF X, Y
<1>2. /\ Cardinality(X) \in Nat /\ Cardinality(Y) \in Nat /\ Cardinality(Req) \in Nat
      /\ Cardinality(X) <= Cardinality(Req) /\ Cardinality(Y) <= Cardinality(Req)
  BY <1>1, LoginThrottleAssumption, FS_Subset, FS_CardinalityType
<1>3. /\ tried'[k] <= count'[k] + Cardinality(X) + faults'
      /\ count'[k] + Cardinality(X) <= tried'[k] + Cardinality(Req)
      /\ tried'[k] + Cardinality(Y) < Limit(k) + Cardinality(Req) + faults'
  BY <1>1, <1>2
<1> QED
  BY <1>3 DEF KeyOK, X, Y, Limit

(* A step that touches no counter may let a request past one that is below *)
(* its limit; only a fault lets it past another, or loses what it owes.    *)
LEMMA CountKeptByMove ==
  ASSUME TypeOK, TypeOK', CountInv, NEW r \in Req, NEW a, att' = [att EXCEPT ![r] = a],
         UNCHANGED <<count, tried>>, faults' \in {faults, faults + 1},
         \A k \in Key :
            /\ Owes(a, k) => Owes(att[r], k)
            /\ \/ faults' = faults + 1
               \/ /\ Owes(att[r], k) => Owes(a, k)
                  /\ Admitted(a, k) => Admitted(att[r], k) \/ count[k] < Limit(k)
  PROVE  CountInv'
<1> SUFFICES ASSUME NEW k \in Key
             PROVE  KeyOK(k)'
  BY DEF CountInv, Key
<1>1. att'[r] = a /\ \A q \in Req : q # r => att'[q] = att[q]
  BY DEF TypeOK
<1> QED
  BY <1>1, KeyKept DEF CountInv

(* A verdict of failure, on whatever keys the attempt was made.            *)
LEMMA CountFail ==
  ASSUME TypeOK, TypeOK', CountInv, NEW r \in Req, Fail(r)
  PROVE  CountInv'
<1> SUFFICES ASSUME NEW k \in Key
             PROVE  KeyOK(k)'
  BY DEF CountInv, Key
<1>1. /\ att[r].pc = "judge" /\ att'[r] = [att[r] EXCEPT !.pc = "incrName"]
      /\ att[r] \in Attempt /\ \A q \in Req : q # r => att'[q] = att[q]
      /\ UNCHANGED <<count, faults>>
      /\ tried'[k] = IF k \in {att[r].name, att[r].ip} THEN tried[k] + 1 ELSE tried[k]
  BY DEF TypeOK, Fail, Goto
<1>2. CASE k \in {att[r].name, att[r].ip}
  <2>1. /\ ~Owes(att[r], k) /\ Owes(att'[r], k)
        /\ Admitted(att[r], k) /\ ~Admitted(att'[r], k)
    BY <1>1, <1>2 DEF Owes, Admitted, Attempt
  <2> QED
    BY <1>1, <1>2, <2>1, KeyKept DEF CountInv
<1>3. CASE k \notin {att[r].name, att[r].ip}
  <2>1. /\ ~Owes(att[r], k) /\ ~Owes(att'[r], k)
        /\ ~Admitted(att[r], k) /\ ~Admitted(att'[r], k)
    BY <1>1, <1>3 DEF Owes, Admitted, Attempt
  <2> QED
    BY <1>1, <1>3, <2>1, KeyKept DEF CountInv
<1> QED
  BY <1>2, <1>3

(* An INCR pays for the key it counts, and for no other.                   *)
LEMMA CountIncr ==
  ASSUME TypeOK, TypeOK', CountInv, NEW r \in Req, NEW j, NEW a,
         att' = [att EXCEPT ![r] = a], count' = [count EXCEPT ![j] = count[j] + 1],
         UNCHANGED <<tried, faults>>,
         \A k \in Key : /\ Owes(att[r], k) <=> Owes(a, k) \/ k = j
                        /\ k = j => ~Owes(a, k)
                        /\ ~Admitted(a, k)
  PROVE  CountInv'
<1> SUFFICES ASSUME NEW k \in Key
             PROVE  KeyOK(k)'
  BY DEF CountInv, Key
<1>1. att'[r] = a /\ \A q \in Req : q # r => att'[q] = att[q]
  BY DEF TypeOK
<1>2. count'[k] = IF k = j THEN count[k] + 1 ELSE count[k]
  BY DEF TypeOK
<1>3. CASE k = j
  BY <1>1, <1>2, <1>3, KeyKept DEF CountInv
<1>4. CASE k # j
  BY <1>1, <1>2, <1>4, KeyKept DEF CountInv
<1> QED
  BY <1>3, <1>4

LEMMA CountIncrName ==
  ASSUME TypeOK, TypeOK', CountInv, NEW r \in Req, IncrName(r)
  PROVE  CountInv'
<1> DEFINE j == att[r].name
           first == (count[j] = 0)
           a == [att[r] EXCEPT !.pc = "incrIp", !.nameFirst = first]
<1>1. /\ att' = [att EXCEPT ![r] = a] /\ count' = [count EXCEPT ![j] = count[j] + 1]
      /\ att[r].pc = "incrName" /\ att[r] \in Attempt /\ UNCHANGED <<tried, faults>>
  BY DEF IncrName, TypeOK
<1> HIDE DEF first
<1>2. a.pc = "incrIp" /\ a.name = att[r].name /\ a.ip = att[r].ip
  BY <1>1 DEF Attempt
<1>3. \A k \in Key : k = att[r].name => k # att[r].ip
  BY <1>1, LoginThrottleAssumption DEF Key, Attempt
<1> HIDE DEF a
<1>4. \A k \in Key : /\ Owes(att[r], k) <=> Owes(a, k) \/ k = j
                     /\ k = j => ~Owes(a, k)
                     /\ ~Admitted(a, k)
  BY <1>1, <1>2, <1>3 DEF Owes, Admitted
<1> HIDE DEF j
<1> QED
  BY <1>1, <1>4, CountIncr

LEMMA CountIncrIp ==
  ASSUME TypeOK, TypeOK', CountInv, NEW r \in Req, IncrIp(r)
  PROVE  CountInv'
<1> DEFINE j == att[r].ip
           first == (count[j] = 0)
           label == AfterIncr(att[r].nameFirst, first)
           a == [att[r] EXCEPT !.pc = label, !.ipFirst = first]
<1>1. /\ att' = [att EXCEPT ![r] = a] /\ count' = [count EXCEPT ![j] = count[j] + 1]
      /\ att[r].pc = "incrIp" /\ att[r] \in Attempt /\ UNCHANGED <<tried, faults>>
  BY DEF IncrIp, TypeOK
<1>2. label \in {"armName", "armIp", "done"}
  BY DEF AfterIncr
<1> HIDE DEF first, label
<1>3. a.pc = label
  BY <1>1 DEF Attempt
<1> HIDE DEF a
<1>4. \A k \in Key : /\ Owes(att[r], k) <=> Owes(a, k) \/ k = j
                     /\ k = j => ~Owes(a, k)
                     /\ ~Admitted(a, k)
  BY <1>1, <1>2, <1>3 DEF Owes, Admitted
<1> HIDE DEF j
<1> QED
  BY <1>1, <1>4, CountIncr

(* DEL and expiry drop the counters they are about.                        *)
LEMMA CountForget ==
  ASSUME TypeOK, TypeOK', CountInv, NEW K, Forget(K), faults' = faults, NEW r \in Req,
         \A q \in Req : q # r => att'[q] = att[q],
         \A k \in Key : /\ Owes(att'[r], k) <=> Owes(att[r], k)
                        /\ Admitted(att'[r], k) => Admitted(att[r], k)
  PROVE  CountInv'
<1> SUFFICES ASSUME NEW k \in Key
             PROVE  KeyOK(k)'
  BY DEF CountInv, Key
<1>1. CASE k \in K
  BY <1>1, KeyDropped DEF Forget
<1>2. CASE k \notin K
  <2>1. count'[k] = count[k] /\ tried'[k] = tried[k]
    BY <1>2 DEF Forget
  <2> QED
    BY <2>1, KeyKept DEF CountInv
<1> QED
  BY <1>1, <1>2

LEMMA CountReset ==
  ASSUME TypeOK, TypeOK', CountInv, NEW r \in Req, Reset(r)
  PROVE  CountInv'
<1>1. /\ att[r].pc = "reset" /\ att'[r] = [att[r] EXCEPT !.pc = "done"]
      /\ att[r] \in Attempt /\ \A q \in Req : q # r => att'[q] = att[q]
      /\ faults' = faults /\ Forget({att[r].name, att[r].ip})
  BY DEF TypeOK, Reset, Goto
<1>2. \A k \in Key : /\ Owes(att'[r], k) <=> Owes(att[r], k)
                     /\ Admitted(att'[r], k) => Admitted(att[r], k)
  BY <1>1 DEF Owes, Admitted, Attempt
<1> QED
  BY <1>1, <1>2, CountForget

LEMMA CountExpires ==
  ASSUME TypeOK, TypeOK', CountInv, NEW j \in Key, KeyExpires(j)
  PROVE  CountInv'
<1> SUFFICES ASSUME NEW k \in Key
             PROVE  KeyOK(k)'
  BY DEF CountInv, Key
<1>1. Forget({j}) /\ UNCHANGED <<att, faults>>
  BY DEF KeyExpires
<1>2. CASE k = j
  BY <1>1, <1>2, KeyDropped DEF Forget
<1>3. CASE k # j
  <2>1. count'[k] = count[k] /\ tried'[k] = tried[k]
    BY <1>1, <1>3 DEF Forget
  <2> QED
    BY <1>1, <2>1 DEF CountInv, KeyOK, Owing, Passing, Limit
<1> QED
  BY <1>2, <1>3

(* Every step keeps the bounds.                                            *)
LEMMA CountStep ==
  ASSUME TypeOK, TypeOK', CountInv, [Next]_vars
  PROVE  CountInv'
<1>1. ASSUME NEW k
      PROVE  ~Owes(NoAttempt, k) /\ ~Admitted(NoAttempt, k)
  BY DEF NoAttempt, Owes, Admitted
<1>2. ASSUME NEW r \in Req, NEW n \in Name, NEW i \in Ip, Begin(r, n, i)
      PROVE  CountInv'
  <2> DEFINE a == [NoAttempt EXCEPT !.pc = "checkName", !.name = n, !.ip = i]
  <2>1. att[r].pc = "idle" /\ att' = [att EXCEPT ![r] = a] /\ UNCHANGED <<count, tried, faults>>
    BY <1>2 DEF Begin
  <2>2. \A k \in Key : ~Owes(a, k) /\ ~Admitted(a, k) /\ ~Owes(att[r], k)
    BY <2>1 DEF NoAttempt, Owes, Admitted
  <2> HIDE DEF a
  <2> QED
    BY <2>1, <2>2, CountKeptByMove
<1>3. ASSUME NEW r \in Req, NEW label \in Label, Goto(r, label), UNCHANGED <<count, tried>>,
             faults' \in {faults, faults + 1},
             label \notin {"incrName", "incrIp", "checkIp"},
             \/ faults' = faults + 1
             \/ /\ att[r].pc \notin {"incrName", "incrIp"}
                /\ label = "judge" => att[r].pc = "checkIp" /\ count[att[r].ip] < Limit(att[r].ip)
      PROVE  CountInv'
  <2> DEFINE a == [att[r] EXCEPT !.pc = label]
  <2>1. att' = [att EXCEPT ![r] = a] /\ a.pc = label /\ a.name = att[r].name /\ a.ip = att[r].ip
    BY <1>3 DEF Goto, TypeOK, Attempt
  <2> HIDE DEF a
  <2>2. \A k \in Key :
            /\ Owes(a, k) => Owes(att[r], k)
            /\ \/ faults' = faults + 1
               \/ /\ Owes(att[r], k) => Owes(a, k)
                  /\ Admitted(a, k) => Admitted(att[r], k) \/ count[k] < Limit(k)
    BY <1>3, <2>1 DEF Owes, Admitted
  <2> QED
    BY <1>3, <2>1, <2>2, CountKeptByMove
<1>4. ASSUME NEW r \in Req, CheckName(r)
      PROVE  CountInv'
  <2> DEFINE label == IF Locked(att[r].name) THEN "locked" ELSE "checkIp"
             a == [att[r] EXCEPT !.pc = label]
  <2>1. /\ att' = [att EXCEPT ![r] = a] /\ a.pc = label /\ a.name = att[r].name /\ a.ip = att[r].ip
        /\ att[r] \in Attempt /\ att[r].pc = "checkName" /\ UNCHANGED <<count, tried, faults>>
        /\ label \in {"locked", "checkIp"}
    BY <1>4 DEF CheckName, Goto, TypeOK, Attempt
  <2>2. ASSUME NEW k \in Key, label = "checkIp", k = att[r].name
        PROVE  count[k] < Limit(k)
    <3>1. ~(count[k] >= Limit(k)) /\ count[k] \in Nat
      BY <2>2 DEF Locked, TypeOK
    <3> QED
      BY <3>1, LimitPositive
  <2> HIDE DEF a, label
  <2>3. \A k \in Key :
            /\ ~Owes(a, k) /\ ~Owes(att[r], k)
            /\ Admitted(a, k) => count[k] < Limit(k)
    BY <2>1, <2>2 DEF Owes, Admitted
  <2> QED
    BY <2>1, <2>3, CountKeptByMove
<1>5. ASSUME NEW r \in Req, CheckIp(r)
      PROVE  CountInv'
  <2> DEFINE label == IF Locked(att[r].ip) THEN "locked" ELSE "judge"
             a == [att[r] EXCEPT !.pc = label]
  <2>1. /\ att' = [att EXCEPT ![r] = a] /\ a.pc = label /\ a.name = att[r].name /\ a.ip = att[r].ip
        /\ att[r] \in Attempt /\ att[r].pc = "checkIp" /\ UNCHANGED <<count, tried, faults>>
        /\ label \in {"locked", "judge"}
    BY <1>5 DEF CheckIp, Goto, TypeOK, Attempt
  <2>2. ASSUME NEW k \in Key, label = "judge", k = att[r].ip
        PROVE  count[k] < Limit(k)
    <3>1. ~(count[k] >= Limit(k)) /\ count[k] \in Nat
      BY <2>2 DEF Locked, TypeOK
    <3> QED
      BY <3>1, LimitPositive
  <2> HIDE DEF a, label
  <2>3. \A k \in Key :
            /\ ~Owes(a, k) /\ ~Owes(att[r], k)
            /\ Admitted(a, k) => Admitted(att[r], k) \/ count[k] < Limit(k)
    BY <2>1, <2>2 DEF Owes, Admitted
  <2> QED
    BY <2>1, <2>3, CountKeptByMove
<1>6. ASSUME NEW r \in Req, Succeed(r) \/ Leave(r)
      PROVE  CountInv'
  BY <1>3, <1>6 DEF Succeed, Leave, Label, Final
<1>7. ASSUME NEW r \in Req, ArmName(r)
      PROVE  CountInv'
  <2>1. AfterIncr(FALSE, att[r].ipFirst) \in {"armIp", "done"}
    BY DEF AfterIncr
  <2> QED
    BY <1>3, <1>7, <2>1 DEF ArmName, Label, Final
<1>8. ASSUME NEW r \in Req, ArmIp(r)
      PROVE  CountInv'
  BY <1>3, <1>8 DEF ArmIp, Label, Final
<1>9. ASSUME NEW r \in Req, RedisError(r)
      PROVE  CountInv'
  BY <1>3, <1>9 DEF RedisError, Label, Final
<1>10. ASSUME NEW r \in Req, Finish(r) \/ Crash(r)
       PROVE  CountInv'
  <2>1. /\ att' = [att EXCEPT ![r] = NoAttempt] /\ UNCHANGED <<count, tried>>
        /\ \/ faults' = faults + 1
           \/ faults' = faults /\ att[r].pc \in Final
    BY <1>10 DEF Finish, Crash
  <2>2. att[r].pc \in Final => \A k \in Key : ~Owes(att[r], k)
    BY DEF Final, Owes
  <2> QED
    BY <1>1, <2>1, <2>2, CountKeptByMove
<1>11. CASE UNCHANGED vars
  BY <1>11 DEF vars, CountInv, KeyOK, Owing, Passing, Limit, Key
<1> QED
  BY <1>2, <1>4, <1>5, <1>6, <1>7, <1>8, <1>9, <1>10, <1>11, CountFail, CountIncrName,
     CountIncrIp, CountReset, CountExpires DEF Next, Advance

-----------------------------------------------------------------------------
(* The theorems                                                            *)

(* Every variable keeps its type, for any number of requests and faults.   *)
THEOREM ThrottleTypeCorrect == Spec => []TypeOK
<1>1. Init => TypeOK
  BY DEF Init, TypeOK, NoAttempt, Attempt, Label
<1>2. TypeOK /\ [Next]_vars => TypeOK'
  BY TypeStep
<1> QED
  BY <1>1, <1>2, PTL DEF Spec

(* Without a failure of Redis or of a worker, record_failed_attempt never  *)
(* leaves a counter without a time to live, however its commands, those of *)
(* reset_failed_attempts and the expiry of keys interleave.                *)
THEOREM CounterHasTtlAlways == Spec => []CounterHasTtl
<1>1. Init => CounterHasTtl
  BY DEF Init, CounterHasTtl
<1>2. TypeOK /\ CounterHasTtl /\ [Next]_vars => CounterHasTtl'
  BY TtlStep
<1> QED
  BY <1>1, <1>2, ThrottleTypeCorrect, PTL DEF Spec

(* What the counters, the attempts in flight and the faults of Redis and   *)
(* of workers have to do with each other.                                  *)
THEOREM CountInvariant == Spec => []CountInv
<1>1. Init => CountInv
  <2> SUFFICES ASSUME Init, NEW k \in Key
               PROVE  KeyOK(k)
    BY DEF CountInv
  <2>1. Owing(k) = {} /\ Passing(k) = {} /\ count[k] = 0 /\ tried[k] = 0 /\ faults = 0
    BY DEF Init, Owing, Passing, Owes, Admitted, NoAttempt
  <2>2. Cardinality(Req) \in Nat /\ Cardinality({}) = 0
    BY LoginThrottleAssumption, FS_CardinalityType, FS_EmptySet
  <2> QED
    BY <2>1, <2>2, LimitPositive DEF KeyOK
<1>2. TypeOK /\ TypeOK' /\ CountInv /\ [Next]_vars => CountInv'
  BY CountStep
<1> QED
  BY <1>1, <1>2, ThrottleTypeCorrect, PTL DEF Spec

(* However many requests, names and addresses there are, the attempts      *)
(* judged before a lock-out exceed the limit by less than the requests in  *)
(* flight and the faults.                                                  *)
THEOREM AttemptsBoundedAlways == Spec => []AttemptsBounded
<1>1. TypeOK /\ CountInv => AttemptsBounded
  <2> SUFFICES ASSUME TypeOK, CountInv, NEW k \in Key
               PROVE  tried[k] < Limit(k) + Cardinality(Req) + faults
    BY DEF AttemptsBounded
  <2>1. /\ tried[k] \in Nat /\ faults \in Nat /\ Limit(k) \in Nat
        /\ IsFiniteSet(Passing(k)) /\ Cardinality(Passing(k)) \in Nat
        /\ Cardinality(Req) \in Nat
        /\ tried[k] + Cardinality(Passing(k)) < Limit(k) + Cardinality(Req) + faults
    BY KeySizes, LimitPositive, LoginThrottleAssumption, FS_Subset, FS_CardinalityType
       DEF CountInv, KeyOK
  <2> QED
    BY <2>1
<1> QED
  BY <1>1, ThrottleTypeCorrect, CountInvariant, PTL

(* A counter shows no more failures than were judged since it was dropped  *)
(* and the requests that were in flight then.                              *)
THEOREM CountsAreEarnedAlways == Spec => []CountsAreEarned
<1>1. TypeOK /\ CountInv => CountsAreEarned
  <2> SUFFICES ASSUME TypeOK, CountInv, NEW k \in Key
               PROVE  count[k] <= tried[k] + Cardinality(Req)
    BY DEF CountsAreEarned
  <2>1. /\ tried[k] \in Nat /\ count[k] \in Nat
        /\ IsFiniteSet(Owing(k)) /\ Cardinality(Owing(k)) \in Nat
        /\ Cardinality(Req) \in Nat
        /\ count[k] + Cardinality(Owing(k)) <= tried[k] + Cardinality(Req)
    BY KeySizes, LoginThrottleAssumption, FS_Subset, FS_CardinalityType
       DEF CountInv, KeyOK
  <2> QED
    BY <2>1
<1> QED
  BY <1>1, ThrottleTypeCorrect, CountInvariant, PTL
=============================================================================
