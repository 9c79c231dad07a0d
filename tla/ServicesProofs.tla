--------------------------- MODULE ServicesProofs ---------------------------
(***************************************************************************)
(* Proofs about the mail tasks, the rate limiter and the start of the      *)
(* workers, for any numbers of mails, requests, addresses and workers, any *)
(* limits and any numbers of retries, key pairs and crashes.               *)
(***************************************************************************)
EXTENDS MCServices, Integers, FiniteSetTheorems, TLAPS

-----------------------------------------------------------------------------
(* Rate limiter                                                            *)

(* What a counter shows, as far as it admits requests.                     *)
Shown(n) == IF n <= Limit THEN n ELSE Limit

(* The requests that were served and those that still will be are among    *)
(* those the counter has counted within the limit, and a request knows the *)
(* counter it is about from when it has passed the exemptions.             *)
LimiterInv ==
    /\ Limiter!TypeOK
    /\ \A k \in Key : admitted[k] + Cardinality(Limiter!Counting(k)) <= Shown(count[k]) + beyond[k]
    /\ \A r \in Req : req[r].pc # "idle" => req[r].key \in Key

(* How the sizes of two sets of requests compare.                          *)
LEMMA Sizes ==
  ASSUME NEW S \in SUBSET Req, NEW T \in SUBSET Req, NEW r \in Req
  PROVE  /\ Cardinality(S) \in Nat /\ Cardinality(T) \in Nat
         /\ T \subseteq S => Cardinality(T) <= Cardinality(S)
         /\ T \subseteq S \cup {r} => Cardinality(T) <= Cardinality(S) + 1
         /\ r \in S /\ T = S \ {r} => Cardinality(T) + 1 = Cardinality(S)
<1>1. IsFiniteSet(S) /\ IsFiniteSet(T) /\ IsFiniteSet(S \cup {r})
  BY FS_Subset, LimiterAssumption
<1>2. Cardinality(S) \in Nat /\ Cardinality(T) \in Nat /\ Cardinality(S \cup {r}) \in Nat
  BY <1>1, FS_CardinalityType
<1>3. T \subseteq S => Cardinality(T) <= Cardinality(S)
  BY <1>1, FS_Subset
<1>4. ASSUME T \subseteq S \cup {r}
      PROVE  Cardinality(T) <= Cardinality(S) + 1
  <2>1. Cardinality(S \cup {r}) <= Cardinality(S) + 1
    BY <1>1, <1>2, FS_AddElement
  <2>2. Cardinality(T) <= Cardinality(S \cup {r})
    BY <1>1, <1>4, FS_Subset
  <2> QED
    BY <1>2, <2>1, <2>2
<1>5. ASSUME r \in S, T = S \ {r}
      PROVE  Cardinality(T) + 1 = Cardinality(S)
  <2>1. Cardinality(T) = Cardinality(S) - 1
    BY <1>1, <1>5, FS_RemoveElement
  <2> QED
    BY <1>2, <2>1
<1> QED
  BY <1>2, <1>3, <1>4, <1>5

LEMMA LimiterGoto ==
  ASSUME LimiterInv, NEW r \in Req, NEW label \in Limiter!Label, Limiter!Goto(r, label),
         req[r].pc # "idle"
  PROVE  /\ req' \in [Req -> Limiter!Request]
         /\ req'[r].pc = label /\ req'[r].key = req[r].key
         /\ req'[r].current = req[r].current
         /\ \A q \in Req : q # r => req'[q] = req[q]
         /\ \A q \in Req : req'[q].pc # "idle" => req'[q].key \in Key
BY DEF LimiterInv, Limiter!TypeOK, Limiter!Goto, Limiter!Request

LEMMA CountedNext ==
  ASSUME NEW n \in 0 .. Limit + 1
  PROVE  /\ Limiter!Counted(n) \in 0 .. Limit + 1
         /\ Shown(n) \in Nat /\ Shown(Limiter!Counted(n)) \in Nat
         /\ Limiter!Counted(n) <= Limit => Shown(Limiter!Counted(n)) = Shown(n) + 1
         /\ Shown(Limiter!Counted(n)) >= Shown(n)
<1>1. Limit \in Nat
  BY LimiterAssumption
<1>2. CASE n > Limit
  BY <1>1, <1>2 DEF Limiter!Counted, Shown
<1>3. CASE n <= Limit
  BY <1>1, <1>3 DEF Limiter!Counted, Shown
<1> QED
  BY <1>1, <1>2, <1>3

(* What INCR does to a counter.                                            *)
LEMMA CountRises ==
  ASSUME LimiterInv, NEW k \in Key, count' = [count EXCEPT ![k] = Limiter!Counted(count[k])]
  PROVE  /\ count' \in [Key -> 0 .. Limit + 1]
         /\ \A j \in Key : /\ Shown(count[j]) \in Nat /\ Shown(count'[j]) \in Nat
                           /\ Shown(count'[j]) >= Shown(count[j])
         /\ Limiter!Counted(count[k]) <= Limit => Shown(count'[k]) = Shown(count[k]) + 1
<1>1. count \in [Key -> 0 .. Limit + 1]
  BY DEF LimiterInv, Limiter!TypeOK
<1> DEFINE n == count[k]
           c == Limiter!Counted(n)
<1>2. n \in 0 .. Limit + 1
  BY <1>1
<1> HIDE DEF n
<1>3. /\ c \in 0 .. Limit + 1 /\ Shown(n) \in Nat /\ Shown(c) \in Nat
      /\ c <= Limit => Shown(c) = Shown(n) + 1
      /\ Shown(c) >= Shown(n)
  BY <1>2, CountedNext
<1>4. count' = [count EXCEPT ![k] = c]
  BY DEF n
<1> HIDE DEF c
<1>5. \A j \in Key : Shown(count[j]) \in Nat
  BY <1>1, LimiterAssumption DEF Shown
<1>6. count' \in [Key -> 0 .. Limit + 1]
  BY <1>1, <1>3, <1>4
<1>7. \A j \in Key : /\ Shown(count[j]) \in Nat /\ Shown(count'[j]) \in Nat
                     /\ Shown(count'[j]) >= Shown(count[j])
  BY <1>1, <1>3, <1>4, <1>5 DEF n
<1> QED
  BY <1>1, <1>3, <1>4, <1>6, <1>7 DEF n, c

(* A request moves; what it changes concerns its own counter.              *)
LEMMA LimiterStep ==
  ASSUME LimiterInv, NEW r \in Req, NEW k \in Key,
         req' \in [Req -> Limiter!Request],
         \A q \in Req : q # r => req'[q] = req[q],
         req[r].pc = "idle" \/ req[r].key = k,
         req'[r].pc = "idle" \/ req'[r].key = k,
         count' \in [Key -> 0 .. Limit + 1], left' \in [Key -> 0 .. Window],
         NEW a \in Nat, admitted' = [admitted EXCEPT ![k] = a],
         NEW b \in Nat, beyond' = [beyond EXCEPT ![k] = b],
         stuck' \subseteq Key, faults' \in 0 .. MaxFaults,
         \A j \in Key : Shown(count'[j]) \in Nat /\ Shown(count'[j]) >= Shown(count[j]),
         a + Cardinality(Limiter!Counting(k)') <= Shown(count'[k]) + b
  PROVE  LimiterInv'
<1>1. /\ admitted \in [Key -> Nat] /\ beyond \in [Key -> Nat]
      /\ count \in [Key -> 0 .. Limit + 1] /\ Limit \in Nat
  BY LimiterAssumption DEF LimiterInv, Limiter!TypeOK
<1>2. Limiter!TypeOK'
  BY <1>1 DEF Limiter!TypeOK, Limiter!Request, Limiter!Label
<1>3. ASSUME NEW j \in Key
      PROVE  admitted'[j] + Cardinality(Limiter!Counting(j)') <= Shown(count'[j]) + beyond'[j]
  <2>1. CASE j = k
    BY <1>1, <2>1
  <2>2. CASE j # k
    <3> DEFINE S == Limiter!Counting(j)
               T == Limiter!Counting(j)'
    <3>1. S \in SUBSET Req /\ T \in SUBSET Req /\ T \subseteq S
      BY <2>2 DEF Limiter!Counting, Limiter!Mine
    <3> HIDE DEF S, T
    <3>2. Cardinality(S) \in Nat /\ Cardinality(T) \in Nat /\ Cardinality(T) <= Cardinality(S)
      BY <3>1, Sizes
    <3>3. admitted[j] + Cardinality(S) <= Shown(count[j]) + beyond[j]
      BY DEF LimiterInv, S
    <3>4. Shown(count[j]) \in Nat
      BY <1>1 DEF Shown
    <3>5. /\ admitted'[j] = admitted[j] /\ beyond'[j] = beyond[j]
          /\ admitted[j] \in Nat /\ beyond[j] \in Nat
          /\ Shown(count'[j]) \in Nat /\ Shown(count'[j]) >= Shown(count[j])
      BY <1>1, <2>2
    <3>6. admitted'[j] + Cardinality(T) <= Shown(count'[j]) + beyond'[j]
      BY <3>2, <3>3, <3>4, <3>5
    <3> QED
      BY <3>6 DEF T
  <2> QED
    BY <2>1, <2>2
<1>4. \A q \in Req : req'[q].pc # "idle" => req'[q].key \in Key
  BY DEF LimiterInv
<1> QED
  BY <1>2, <1>3, <1>4 DEF LimiterInv

(* What is known of the counter of a request before it moves.              *)
LEMMA LimiterBefore ==
  ASSUME LimiterInv, NEW r \in Req, NEW k \in Key
  PROVE  /\ Limiter!Counting(k) \in SUBSET Req /\ Limiter!Counting(k)' \in SUBSET Req
         /\ admitted[k] \in Nat /\ beyond[k] \in Nat /\ Shown(count[k]) \in Nat
         /\ \A j \in Key : Shown(count[j]) \in Nat
         /\ count \in [Key -> 0 .. Limit + 1] /\ left \in [Key -> 0 .. Window]
         /\ admitted \in [Key -> Nat] /\ beyond \in [Key -> Nat]
         /\ stuck \subseteq Key /\ faults \in 0 .. MaxFaults
         /\ req \in [Req -> Limiter!Request] /\ Limit \in Nat /\ Window \in Nat
         /\ MaxFaults \in Nat
         /\ admitted[k] + Cardinality(Limiter!Counting(k)) <= Shown(count[k]) + beyond[k]
BY LimiterAssumption DEF LimiterInv, Limiter!TypeOK, Limiter!Counting, Shown

LEMMA LimiterDispatch ==
  ASSUME LimiterInv, NEW r \in Req, NEW k \in Key, Limiter!Dispatch(r, k)
  PROVE  LimiterInv'
<1> DEFINE label == IF k \in Exempt THEN "served" ELSE "incr"
           q == [pc |-> label, key |-> k, current |-> 0]
           S == Limiter!Counting(k)
           T == Limiter!Counting(k)'
<1>1. /\ req[r].pc = "idle" /\ req' = [req EXCEPT ![r] = q]
      /\ UNCHANGED <<count, left, admitted, beyond, stuck, faults>>
  BY DEF Limiter!Dispatch, Limiter!history
<1>2. q \in Limiter!Request /\ q.key = k /\ q.pc \notin {"expire", "decide"}
  BY LimiterAssumption DEF Limiter!Request, Limiter!Label
<1> HIDE DEF q
<1>3. /\ req' \in [Req -> Limiter!Request] /\ req'[r] = q
      /\ \A p \in Req : p # r => req'[p] = req[p]
  BY <1>1, <1>2, LimiterBefore
<1>4. T \subseteq S
  BY <1>1, <1>2, <1>3 DEF Limiter!Counting, Limiter!Mine
<1>5. admitted[k] + Cardinality(T) <= Shown(count'[k]) + beyond[k]
  <2>1. S \in SUBSET Req /\ T \in SUBSET Req
    BY LimiterBefore
  <2> HIDE DEF S, T
  <2>2. Cardinality(S) \in Nat /\ Cardinality(T) \in Nat /\ Cardinality(T) <= Cardinality(S)
    BY <1>4, <2>1, Sizes
  <2> QED
    BY <1>1, <2>2, LimiterBefore DEF S
<1> HIDE DEF S, T
<1>6. /\ admitted' = [admitted EXCEPT ![k] = admitted[k]]
      /\ beyond' = [beyond EXCEPT ![k] = beyond[k]]
      /\ \A j \in Key : Shown(count'[j]) \in Nat /\ Shown(count'[j]) >= Shown(count[j])
      /\ admitted[k] \in Nat /\ beyond[k] \in Nat
      /\ count' \in [Key -> 0 .. Limit + 1] /\ left' \in [Key -> 0 .. Window]
      /\ stuck' \subseteq Key /\ faults' \in 0 .. MaxFaults
  BY <1>1, LimiterBefore DEF Shown
<1>7. admitted[k] + Cardinality(Limiter!Counting(k)') <= Shown(count'[k]) + beyond[k]
  BY <1>5 DEF T
<1> QED
  BY <1>1, <1>2, <1>3, <1>6, <1>7, LimiterStep, ZenonT(60)

LEMMA LimiterIncrement ==
  ASSUME LimiterInv, NEW r \in Req, Limiter!Increment(r)
  PROVE  LimiterInv'
<1> DEFINE k == req[r].key
           current == Limiter!Counted(count[k])
           label == IF Limiter!Arms(current) THEN "expire" ELSE "decide"
           q == [req[r] EXCEPT !.current = current, !.pc = label]
           S == Limiter!Counting(k)
           T == Limiter!Counting(k)'
<1>1. /\ k \in Key /\ req[r] \in Limiter!Request /\ req[r].pc = "incr"
      /\ UNCHANGED <<left, admitted, beyond, stuck, faults>>
  BY DEF LimiterInv, Limiter!TypeOK, Limiter!Increment, Limiter!history
<1>2. /\ count' = [count EXCEPT ![k] = current]
      /\ req' = [req EXCEPT ![r] = q]
  BY DEF Limiter!Increment, Limiter!Mine, LimiterInv, Limiter!TypeOK
<1>3. /\ count' \in [Key -> 0 .. Limit + 1]
      /\ \A j \in Key : /\ Shown(count[j]) \in Nat /\ Shown(count'[j]) \in Nat
                        /\ Shown(count'[j]) >= Shown(count[j])
      /\ current <= Limit => Shown(count'[k]) = Shown(count[k]) + 1
  BY <1>1, <1>2, CountRises
<1>4. current \in 0 .. Limit + 1
  <2> HIDE DEF k
  <2>1. count'[k] = current
    BY <1>1, <1>2, LimiterBefore
  <2> QED
    BY <1>1, <1>3, <2>1
<1>5. label \in {"expire", "decide"}
  OBVIOUS
<1> HIDE DEF label, current
<1>6. q \in Limiter!Request /\ q.pc = label /\ q.key = k /\ q.current = current
  BY <1>1, <1>4, <1>5 DEF Limiter!Request, Limiter!Label
<1> HIDE DEF q
<1>7. /\ req' \in [Req -> Limiter!Request] /\ req'[r] = q
      /\ \A p \in Req : p # r => req'[p] = req[p]
  BY <1>1, <1>2, <1>6, LimiterBefore
<1>8. /\ T \subseteq S \cup {r}
      /\ current > Limit => T \subseteq S
  BY <1>4, <1>6, <1>7, LimiterAssumption DEF Limiter!Counting, Limiter!Mine
<1>9. admitted[k] + Cardinality(T) <= Shown(count'[k]) + beyond[k]
  <2>1. S \in SUBSET Req /\ T \in SUBSET Req
    BY DEF Limiter!Counting
  <2> HIDE DEF T
  <2>2. /\ Cardinality(S) \in Nat /\ Cardinality(T) \in Nat
        /\ Cardinality(T) <= Cardinality(S) + 1
        /\ current > Limit => Cardinality(T) <= Cardinality(S)
    <3> HIDE DEF S
    <3> QED
      BY <1>8, <2>1, Sizes
  <2>3. /\ admitted[k] \in Nat /\ beyond[k] \in Nat
        /\ admitted[k] + Cardinality(S) <= Shown(count[k]) + beyond[k]
    BY <1>1, LimiterBefore
  <2> HIDE DEF S, k
  <2> QED
    BY <1>1, <1>3, <1>4, <2>2, <2>3, LimiterAssumption
<1> HIDE DEF S, T, k
<1>10. /\ admitted' = [admitted EXCEPT ![k] = admitted[k]]
       /\ beyond' = [beyond EXCEPT ![k] = beyond[k]]
       /\ admitted[k] \in Nat /\ beyond[k] \in Nat
       /\ left' \in [Key -> 0 .. Window] /\ stuck' \subseteq Key /\ faults' \in 0 .. MaxFaults
  BY <1>1, LimiterBefore
<1> QED
  BY <1>1, <1>3, <1>6, <1>7, <1>9, <1>10, LimiterStep, ZenonT(60) DEF T, k

(* A request goes on to another label, and no more of those that its       *)
(* counter has counted remain to be served than before.                    *)
LEMMA LimiterGotoStep ==
  ASSUME LimiterInv, NEW r \in Req, req[r].pc # "idle",
         NEW label \in Limiter!Label, Limiter!Goto(r, label), label # "expire",
         label = "decide" => req[r].pc = "expire",
         count' \in [Key -> 0 .. Limit + 1], left' \in [Key -> 0 .. Window],
         NEW a \in Nat, admitted' = [admitted EXCEPT ![req[r].key] = a],
         NEW b \in Nat, beyond' = [beyond EXCEPT ![req[r].key] = b],
         stuck' \subseteq Key, faults' \in 0 .. MaxFaults,
         \A j \in Key : Shown(count'[j]) \in Nat /\ Shown(count'[j]) >= Shown(count[j]),
         \/ a = admitted[req[r].key] /\ b = beyond[req[r].key]
         \/ a = admitted[req[r].key] + 1 /\ b = beyond[req[r].key] + 1
         \/ /\ a = admitted[req[r].key] + 1 /\ b = beyond[req[r].key]
            /\ label = "served" /\ r \in Limiter!Counting(req[r].key)
  PROVE  LimiterInv'
<1> DEFINE k == req[r].key
           S == Limiter!Counting(k)
           T == Limiter!Counting(k)'
<1>1. k \in Key /\ req[r] \in Limiter!Request
  BY DEF LimiterInv, Limiter!TypeOK
<1>2. /\ req' \in [Req -> Limiter!Request]
      /\ req'[r].pc = label /\ req'[r].key = k
      /\ req'[r].current = req[r].current
      /\ \A q \in Req : q # r => req'[q] = req[q]
  BY LimiterGoto
<1>3. /\ T \subseteq S
      /\ label = "served" => T = S \ {r}
  BY <1>1, <1>2 DEF Limiter!Counting, Limiter!Mine
<1>4. S \in SUBSET Req /\ T \in SUBSET Req
  BY DEF Limiter!Counting
<1>5. /\ admitted[k] \in Nat /\ beyond[k] \in Nat
      /\ admitted[k] + Cardinality(S) <= Shown(count[k]) + beyond[k]
      /\ Shown(count[k]) \in Nat /\ Shown(count'[k]) \in Nat
      /\ Shown(count'[k]) >= Shown(count[k])
  BY <1>1, LimiterBefore
<1> HIDE DEF S, T
<1>6. /\ Cardinality(S) \in Nat /\ Cardinality(T) \in Nat /\ Cardinality(T) <= Cardinality(S)
      /\ label = "served" /\ r \in S => Cardinality(T) + 1 = Cardinality(S)
  BY <1>3, <1>4, Sizes
<1>7. a + Cardinality(T) <= Shown(count'[k]) + b
  BY <1>5, <1>6 DEF S
<1> HIDE DEF k
<1> QED
  BY <1>1, <1>2, <1>7, LimiterStep DEF T, k

LEMMA LimiterSetWindow ==
  ASSUME LimiterInv, NEW r \in Req, Limiter!SetWindow(r)
  PROVE  LimiterInv'
<1> DEFINE k == req[r].key
           n == IF count[k] > 0 THEN Window ELSE 0
<1>1. /\ req[r].pc = "expire" /\ Limiter!Goto(r, "decide")
      /\ left' = [left EXCEPT ![k] = n]
      /\ UNCHANGED <<count, admitted, beyond, stuck, faults>>
  BY DEF Limiter!SetWindow, Limiter!Arm, Limiter!Mine, Limiter!history
<1>2. k \in Key /\ n \in 0 .. Window
  BY <1>1, LimiterAssumption DEF LimiterInv
<1> HIDE DEF k, n
<1>3. left' \in [Key -> 0 .. Window]
  BY <1>1, <1>2, LimiterBefore
<1>4. /\ admitted' = [admitted EXCEPT ![k] = admitted[k]]
      /\ beyond' = [beyond EXCEPT ![k] = beyond[k]]
      /\ admitted[k] \in Nat /\ beyond[k] \in Nat
      /\ count' \in [Key -> 0 .. Limit + 1] /\ stuck' \subseteq Key /\ faults' \in 0 .. MaxFaults
      /\ \A j \in Key : Shown(count'[j]) \in Nat /\ Shown(count'[j]) >= Shown(count[j])
  BY <1>1, <1>2, LimiterBefore DEF Shown
<1>5. "decide" \in Limiter!Label
  BY DEF Limiter!Label
<1> QED
  BY <1>1, <1>3, <1>4, <1>5, LimiterGotoStep DEF k

LEMMA LimiterDecide ==
  ASSUME LimiterInv, NEW r \in Req, Limiter!Decide(r)
  PROVE  LimiterInv'
<1> DEFINE k == req[r].key
<1>1. /\ req[r].pc = "decide" /\ UNCHANGED <<count, left, beyond, stuck, faults>>
      /\ k \in Key
  BY DEF Limiter!Decide, LimiterInv
<1>2. /\ admitted[k] \in Nat /\ beyond[k] \in Nat /\ admitted[k] + 1 \in Nat
      /\ beyond' = [beyond EXCEPT ![k] = beyond[k]]
      /\ count' \in [Key -> 0 .. Limit + 1] /\ left' \in [Key -> 0 .. Window]
      /\ stuck' \subseteq Key /\ faults' \in 0 .. MaxFaults
      /\ \A j \in Key : Shown(count'[j]) \in Nat /\ Shown(count'[j]) >= Shown(count[j])
  <2> HIDE DEF k
  <2> QED
    BY <1>1, LimiterBefore DEF Shown
<1>3. "served" \in Limiter!Label /\ "refused" \in Limiter!Label
  BY DEF Limiter!Label
<1>4. CASE req[r].current <= Limit
  <2>1. /\ Limiter!Goto(r, "served")
        /\ admitted' = [admitted EXCEPT ![k] = admitted[k] + 1]
    BY <1>4, LimiterBefore, <1>1, LimiterAssumption
       DEF Limiter!Decide, Limiter!Mine, Limiter!Request
  <2>2. r \in Limiter!Counting(k)
    BY <1>1, <1>4 DEF Limiter!Counting, Limiter!Mine
  <2> QED
    BY <1>1, <1>2, <1>3, <2>1, <2>2, LimiterGotoStep
<1>5. CASE ~(req[r].current <= Limit)
  <2>1. /\ Limiter!Goto(r, "refused")
        /\ admitted' = [admitted EXCEPT ![k] = admitted[k]]
    BY <1>1, <1>5, LimiterBefore DEF Limiter!Decide
  <2> QED
    BY <1>1, <1>2, <1>3, <2>1, LimiterGotoStep
<1> QED
  BY <1>4, <1>5

LEMMA LimiterFailOpen ==
  ASSUME LimiterInv, NEW r \in Req, Limiter!FailOpen(r)
  PROVE  LimiterInv'
<1> DEFINE k == req[r].key
           n == IF count[k] > 0 THEN Window ELSE 0
<1>1. /\ req[r].pc \in {"incr", "expire"} /\ Limiter!Goto(r, "served")
      /\ faults < MaxFaults /\ faults' = faults + 1
      /\ admitted' = [admitted EXCEPT ![k] = @ + 1]
      /\ beyond' = [beyond EXCEPT ![k] = @ + 1]
      /\ k \in Key
  BY DEF Limiter!FailOpen, Limiter!Mine, LimiterInv
<1>2. /\ UNCHANGED count \/ count' = [count EXCEPT ![k] = Limiter!Counted(count[k])]
      /\ UNCHANGED left \/ left' = [left EXCEPT ![k] = n]
  BY <1>1, LimiterBefore DEF Limiter!FailOpen, Limiter!Mine, Limiter!Arm
<1>3. stuck' \subseteq Key
  BY <1>1, LimiterBefore DEF Limiter!FailOpen, Limiter!Mine
<1>4. n \in 0 .. Window
  BY LimiterAssumption
<1> HIDE DEF k, n
<1>5. /\ count' \in [Key -> 0 .. Limit + 1]
      /\ \A j \in Key : Shown(count'[j]) \in Nat /\ Shown(count'[j]) >= Shown(count[j])
  <2>1. CASE UNCHANGED count
    BY <1>1, <2>1, LimiterBefore DEF Shown
  <2>2. CASE count' = [count EXCEPT ![k] = Limiter!Counted(count[k])]
    BY <1>1, <2>2, CountRises
  <2> QED
    BY <1>2, <2>1, <2>2
<1>6. left' \in [Key -> 0 .. Window] /\ faults' \in 0 .. MaxFaults
  BY <1>1, <1>2, <1>4, LimiterBefore
<1>7. /\ admitted[k] + 1 \in Nat /\ beyond[k] + 1 \in Nat
      /\ admitted' = [admitted EXCEPT ![k] = admitted[k] + 1]
      /\ beyond' = [beyond EXCEPT ![k] = beyond[k] + 1]
  BY <1>1, LimiterBefore
<1>8. "served" \in Limiter!Label
  BY DEF Limiter!Label
<1> QED
  BY <1>1, <1>3, <1>5, <1>6, <1>7, <1>8, LimiterGotoStep DEF k

LEMMA LimiterFinish ==
  ASSUME LimiterInv, NEW r \in Req, Limiter!Finish(r)
  PROVE  LimiterInv'
<1>1. /\ req[r].pc # "idle" /\ req[r].pc \notin {"expire", "decide"}
      /\ req' = [req EXCEPT ![r] = Limiter!Idle]
      /\ UNCHANGED <<count, left, admitted, beyond, stuck, faults>>
  BY DEF Limiter!Finish, Limiter!history
<1>2. Limiter!Idle \in Limiter!Request /\ Limiter!Idle.pc = "idle"
  BY LimiterAssumption DEF Limiter!Idle, Limiter!Request, Limiter!Label
<1>3. /\ req' \in [Req -> Limiter!Request] /\ req'[r].pc = "idle"
      /\ \A p \in Req : p # r => req'[p] = req[p]
  BY <1>1, <1>2 DEF LimiterInv, Limiter!TypeOK
<1>4. \A k \in Key : Limiter!Counting(k)' = Limiter!Counting(k)
  BY <1>1, <1>3 DEF Limiter!Counting, Limiter!Mine
<1> QED
  BY <1>1, <1>3, <1>4 DEF LimiterInv, Limiter!TypeOK

(* The limiter counts as we do.                                            *)
LEMMA SameCardinality == \A S : Limiter!Cardinality(S) = Cardinality(S)
BY Zenon DEF Cardinality, Limiter!Cardinality

(* Counters are dropped; who was counted may still be answered.            *)
LEMMA LimiterForget ==
  ASSUME LimiterInv, NEW K \in SUBSET Key, Limiter!Forget(K), left' \in [Key -> 0 .. Window]
  PROVE  LimiterInv'
<1>1. /\ count' = [k \in Key |-> IF k \in K THEN 0 ELSE count[k]]
      /\ admitted' = [k \in Key |-> IF k \in K THEN 0 ELSE admitted[k]]
      /\ beyond' = [k \in Key |-> IF k \in K THEN Cardinality(Limiter!Counting(k)) ELSE beyond[k]]
      /\ stuck' = stuck \ K
      /\ req' = req
      /\ faults' = faults
  BY SameCardinality, Zenon DEF Limiter!Forget
<1>2. \A k \in Key : Limiter!Counting(k)' = Limiter!Counting(k)
  BY <1>1 DEF Limiter!Counting, Limiter!Mine
<1>3. \A k \in Key : Cardinality(Limiter!Counting(k)) \in Nat
  <2>1. ASSUME NEW k \in Key
        PROVE  Cardinality(Limiter!Counting(k)) \in Nat
    <3>1. Limiter!Counting(k) \in SUBSET Req
      BY DEF Limiter!Counting
    <3> QED
      BY <3>1, FS_Subset, FS_CardinalityType, LimiterAssumption
  <2> QED
    BY <2>1
<1>4. Limiter!TypeOK'
  BY <1>1, <1>3, LimiterAssumption DEF LimiterInv, Limiter!TypeOK
<1>5. ASSUME NEW k \in Key
      PROVE  admitted'[k] + Cardinality(Limiter!Counting(k)') <= Shown(count'[k]) + beyond'[k]
  <2>1. CASE k \in K
    <3>1. admitted'[k] = 0 /\ count'[k] = 0 /\ beyond'[k] = Cardinality(Limiter!Counting(k))
      BY <1>1, <2>1
    <3> QED
      BY <1>2, <1>3, <3>1, LimiterAssumption DEF Shown
  <2>2. CASE k \notin K
    <3>1. admitted'[k] = admitted[k] /\ count'[k] = count[k] /\ beyond'[k] = beyond[k]
      BY <1>1, <2>2
    <3> QED
      BY <1>2, <3>1 DEF LimiterInv, Shown
  <2> QED
    BY <2>1, <2>2
<1> QED
  BY <1>1, <1>4, <1>5 DEF LimiterInv

LEMMA LimiterNext ==
  ASSUME LimiterInv, [Limiter!Next]_(Limiter!vars)
  PROVE  LimiterInv'
<1>1. ASSUME NEW k \in Key, Limiter!Reset(k)
      PROVE  LimiterInv'
  <2>1. Limiter!Forget({k}) /\ left' = [left EXCEPT ![k] = 0] /\ {k} \in SUBSET Key
    BY <1>1 DEF Limiter!Reset
  <2>2. left' \in [Key -> 0 .. Window]
    BY <2>1, LimiterAssumption DEF LimiterInv, Limiter!TypeOK
  <2> QED
    BY <2>1, <2>2, LimiterForget
<1>2. ASSUME Limiter!Tick
      PROVE  LimiterInv'
  <2> DEFINE K == {k \in Key : left[k] = 1}
  <2>1. /\ left' = [k \in Key |-> IF left[k] = 0 THEN 0 ELSE left[k] - 1]
        /\ left \in [Key -> 0 .. Window] /\ Window \in Nat
    BY <1>2, LimiterAssumption DEF LimiterInv, Limiter!TypeOK, Limiter!Tick
  <2>2. left' \in [Key -> 0 .. Window]
    BY <2>1
  <2>3. Limiter!Forget(K) /\ K \in SUBSET Key
    BY <1>2 DEF Limiter!Tick
  <2> HIDE DEF K
  <2> QED
    BY <2>2, <2>3, LimiterForget
<1>3. CASE UNCHANGED Limiter!vars
  BY <1>3 DEF LimiterInv, Limiter!TypeOK, Limiter!vars, Limiter!history, Limiter!Counting,
     Limiter!Mine
<1> QED
  BY <1>1, <1>2, <1>3, LimiterDispatch, LimiterIncrement, LimiterSetWindow, LimiterDecide,
     LimiterFailOpen, LimiterFinish DEF Limiter!Next, Limiter!Advance

LEMMA LimiterStarts == Limiter!Init => LimiterInv
<1> SUFFICES ASSUME Limiter!Init
             PROVE  LimiterInv
  OBVIOUS
<1>1. Limiter!TypeOK
  BY LimiterAssumption DEF Limiter!Init, Limiter!TypeOK, Limiter!Idle, Limiter!Request,
     Limiter!Label
<1>2. \A r \in Req : req[r].pc = "idle"
  BY DEF Limiter!Init, Limiter!Idle
<1>3. \A k \in Key : Limiter!Counting(k) = {}
  BY <1>2 DEF Limiter!Counting
<1>4. ASSUME NEW k \in Key
      PROVE  admitted[k] + Cardinality(Limiter!Counting(k)) <= Shown(count[k]) + beyond[k]
  <2>1. Cardinality(Limiter!Counting(k)) = 0
    BY <1>3, FS_EmptySet
  <2>2. admitted[k] = 0 /\ count[k] = 0 /\ beyond[k] = 0
    BY DEF Limiter!Init
  <2> QED
    BY <2>1, <2>2, LimiterAssumption DEF Shown
<1> QED
  BY <1>1, <1>2, <1>4 DEF LimiterInv

(* What every request knows and every counter has admitted.                *)
THEOREM LimiterInvariant == Limiter!Spec => []LimiterInv
<1>1. Limiter!Init => LimiterInv
  BY LimiterStarts
<1>2. LimiterInv /\ [Limiter!Next]_(Limiter!vars) => LimiterInv'
  BY LimiterNext
<1> QED
  BY <1>1, <1>2, PTL DEF Limiter!Spec

(* However requests, expiries and resets overlap, the verdicts of          *)
(* check_rate_limit_ip serve no more requests than the limit between two   *)
(* moments at which a counter is dropped, apart from those for which Redis *)
(* failed and those answered after the counter they were counted by.       *)
THEOREM LimitHoldsAlways == Limiter!Spec => []LimitHolds
<1>1. ASSUME LimiterInv, NEW k \in Key
      PROVE  admitted[k] <= Limit + beyond[k]
  <2>1. Cardinality(Limiter!Counting(k)) \in Nat
    <3>1. Limiter!Counting(k) \in SUBSET Req
      BY DEF Limiter!Counting
    <3> QED
      BY <3>1, FS_Subset, FS_CardinalityType, LimiterAssumption
  <2>2. /\ admitted[k] \in Nat /\ beyond[k] \in Nat /\ count[k] \in 0 .. Limit + 1
        /\ admitted[k] + Cardinality(Limiter!Counting(k)) <= Shown(count[k]) + beyond[k]
    BY <1>1 DEF LimiterInv, Limiter!TypeOK
  <2>3. Shown(count[k]) \in Nat /\ Shown(count[k]) <= Limit
    BY <2>2, LimiterAssumption DEF Shown
  <2> QED
    BY <2>1, <2>2, <2>3, LimiterAssumption
<1>2. LimiterInv => LimitHolds
  BY <1>1 DEF LimitHolds, Limiter!LimitHolds
<1> QED
  BY <1>2, LimiterInvariant, PTL

-----------------------------------------------------------------------------
(* Mail tasks                                                              *)

(* A task that is not over has been taken at most once for each attempt    *)
(* that ended in doubt, and its attempts are numbered up to MaxRetries.    *)
MailInv ==
    /\ TypeOK
    /\ \A m \in Mail :
        /\ task[m].stage = "unborn" => task[m] = Unborn /\ taken[m] = 0
        /\ task[m].stage = "offer" => /\ taken[m] <= task[m].doubt
                                      /\ taken[m] <= task[m].attempt
                                      /\ task[m].attempt <= MaxRetries
        /\ task[m].stage = "sleep" => /\ taken[m] <= task[m].doubt
                                      /\ taken[m] <= task[m].attempt + 1
                                      /\ task[m].attempt < MaxRetries
        /\ taken[m] <= task[m].doubt + 1
        /\ taken[m] <= MaxRetries + 1

(* What one turn of the loop makes of a mail.                              *)
LEMMA OfferEffect ==
  ASSUME TypeOK, NEW m \in Mail, Offer(m)
  PROVE  \E v \in Verdict, got \in BOOLEAN :
            /\ v = "accepted" => got
            /\ v \in {"refused", "temporary"} => ~got
            /\ taken' = [taken EXCEPT ![m] = IF got THEN taken[m] + 1 ELSE taken[m]]
            /\ task' = [task EXCEPT ![m] = [task[m] EXCEPT !.stage = After(m, v),
                  !.doubt = IF v \in Ambiguous THEN task[m].doubt + 1 ELSE task[m].doubt]]
<1>1. PICK v \in Verdict : \E got \in MayHaveTaken(v) :
        /\ taken' = [taken EXCEPT ![m] = IF got THEN @ + 1 ELSE @]
        /\ task' = [task EXCEPT ![m].stage = After(m, v),
                                ![m].doubt = IF v \in Ambiguous THEN @ + 1 ELSE @]
  BY DEF Offer
<1>2. PICK got \in MayHaveTaken(v) :
        /\ taken' = [taken EXCEPT ![m] = IF got THEN @ + 1 ELSE @]
        /\ task' = [task EXCEPT ![m].stage = After(m, v),
                                ![m].doubt = IF v \in Ambiguous THEN @ + 1 ELSE @]
  BY <1>1
<1>3. got \in BOOLEAN /\ (v = "accepted" => got) /\ (v \in {"refused", "temporary"} => ~got)
  BY DEF MayHaveTaken, Ambiguous
<1>4. task' = [task EXCEPT ![m] = [task[m] EXCEPT !.stage = After(m, v),
                  !.doubt = IF v \in Ambiguous THEN task[m].doubt + 1 ELSE task[m].doubt]]
  BY <1>2 DEF TypeOK
<1> QED
  BY <1>2, <1>3, <1>4

LEMMA MailOffer ==
  ASSUME MailInv, NEW m \in Mail, Offer(m)
  PROVE  MailInv'
<1>1. PICK v \in Verdict, got \in BOOLEAN :
        /\ v = "accepted" => got
        /\ v \in {"refused", "temporary"} => ~got
        /\ taken' = [taken EXCEPT ![m] = IF got THEN taken[m] + 1 ELSE taken[m]]
        /\ task' = [task EXCEPT ![m] = [task[m] EXCEPT !.stage = After(m, v),
              !.doubt = IF v \in Ambiguous THEN task[m].doubt + 1 ELSE task[m].doubt]]
  BY OfferEffect DEF MailInv
<1> DEFINE doubt == IF v \in Ambiguous THEN task[m].doubt + 1 ELSE task[m].doubt
           n == IF got THEN taken[m] + 1 ELSE taken[m]
           stage == After(m, v)
           t == [task[m] EXCEPT !.stage = stage, !.doubt = doubt]
<1>2. /\ task[m].stage = "offer" /\ task[m].doubt \in Nat /\ task[m].attempt \in Nat
      /\ taken[m] \in Nat /\ taken[m] <= task[m].doubt /\ taken[m] <= task[m].attempt
      /\ task[m].attempt <= MaxRetries /\ MaxRetries \in Nat
      /\ task[m] \in [stage: Stage, attempt: Nat, doubt: Nat]
  BY MailDeliveryAssumption DEF MailInv, TypeOK, Offer
<1>3. /\ doubt \in Nat /\ n \in Nat /\ n <= doubt + 1 /\ n <= task[m].attempt + 1
      /\ v # "accepted" => n <= doubt
  BY <1>1, <1>2 DEF Verdict, Ambiguous
<1>4. /\ stage \in {"sent", "sleep", "lost"}
      /\ stage = "sleep" => v # "accepted" /\ task[m].attempt < MaxRetries
  BY DEF After, Retryable
<1>5. taken' = [taken EXCEPT ![m] = n] /\ task' = [task EXCEPT ![m] = t]
  BY <1>1
<1> HIDE DEF doubt, n, stage
<1>6. /\ t \in [stage: Stage, attempt: Nat, doubt: Nat]
      /\ t.stage = stage /\ t.doubt = doubt /\ t.attempt = task[m].attempt
  BY <1>2, <1>3, <1>4 DEF Stage
<1> HIDE DEF t
<1> QED
  BY <1>2, <1>3, <1>4, <1>5, <1>6 DEF MailInv, TypeOK

LEMMA MailNext ==
  ASSUME MailInv, [Next]_vars
  PROVE  MailInv'
<1>1. ASSUME NEW m \in Mail, Queue(m)
      PROVE  MailInv'
  <2> DEFINE t == [task[m] EXCEPT !.stage = "offer"]
  <2>1. /\ task[m] = Unborn /\ taken[m] = 0 /\ MaxRetries \in Nat
        /\ task' = [task EXCEPT ![m] = t] /\ UNCHANGED taken
    BY <1>1, MailDeliveryAssumption DEF MailInv, TypeOK, Queue
  <2>2. /\ t \in [stage: Stage, attempt: Nat, doubt: Nat]
        /\ t.stage = "offer" /\ t.doubt = 0 /\ t.attempt = 0
    <3>1. task[m] \in [stage: Stage, attempt: Nat, doubt: Nat] /\ "offer" \in Stage
      BY DEF MailInv, TypeOK, Stage
    <3>2. task[m].doubt = 0 /\ task[m].attempt = 0
      BY <2>1 DEF Unborn
    <3> QED
      BY <3>1, <3>2
  <2> HIDE DEF t
  <2> QED
    BY <2>1, <2>2 DEF MailInv, TypeOK
<1>2. ASSUME NEW m \in Mail, Wake(m)
      PROVE  MailInv'
  <2> DEFINE t == [task[m] EXCEPT !.stage = "offer", !.attempt = task[m].attempt + 1]
  <2>1. /\ task[m] \in [stage: Stage, attempt: Nat, doubt: Nat] /\ MaxRetries \in Nat
        /\ task[m].stage = "sleep"
        /\ task' = [task EXCEPT ![m] = t] /\ UNCHANGED taken
    BY <1>2, MailDeliveryAssumption DEF MailInv, TypeOK, Wake
  <2>2. /\ t \in [stage: Stage, attempt: Nat, doubt: Nat]
        /\ t.stage = "offer" /\ t.doubt = task[m].doubt /\ t.attempt = task[m].attempt + 1
    <3>1. "offer" \in Stage /\ task[m].attempt + 1 \in Nat
      BY <2>1 DEF Stage
    <3> QED
      BY <2>1, <3>1
  <2> HIDE DEF t
  <2> QED
    BY <2>1, <2>2 DEF MailInv, TypeOK
<1>3. ASSUME NEW m \in Mail, Drop(m)
      PROVE  MailInv'
  <2> DEFINE t == [task[m] EXCEPT !.stage = "lost"]
  <2>1. /\ task[m] \in [stage: Stage, attempt: Nat, doubt: Nat] /\ MaxRetries \in Nat
        /\ task' = [task EXCEPT ![m] = t] /\ UNCHANGED taken
    BY <1>3, MailDeliveryAssumption DEF MailInv, TypeOK, Drop
  <2>2. /\ t \in [stage: Stage, attempt: Nat, doubt: Nat]
        /\ t.stage = "lost" /\ t.doubt = task[m].doubt
    BY <2>1 DEF Stage
  <2> HIDE DEF t
  <2> QED
    BY <2>1, <2>2 DEF MailInv, TypeOK
<1>4. CASE UNCHANGED vars
  BY <1>4 DEF vars, MailInv, TypeOK
<1> QED
  BY <1>1, <1>2, <1>3, <1>4, MailOffer DEF Next, Work

LEMMA MailStarts == Init => MailInv
BY MailDeliveryAssumption DEF Init, MailInv, TypeOK, Unborn, Stage

(* What is known of every task while it runs.                              *)
THEOREM MailInvariant == Spec => []MailInv
<1>1. Init => MailInv
  BY MailStarts
<1>2. MailInv /\ [Next]_vars => MailInv'
  BY MailNext
<1> QED
  BY <1>1, <1>2, PTL DEF Spec

(* A mail arrives twice only when an attempt ended in doubt, and never     *)
(* more often than the configured retries allow.                           *)
THEOREM CopiesBoundedAlways == Spec => []CopiesBounded
<1>1. MailInv => CopiesBounded
  BY DEF MailInv, CopiesBounded
<1> QED
  BY <1>1, MailInvariant, PTL

(* A step of a task is one of the promise of MailTask, or no step of it.   *)
LEMMA MailStepKeepsPromise ==
  ASSUME MailInv, [Next]_vars
  PROVE  [Promise!Next]_(Promise!vars)
<1> DEFINE fate == [m \in Mail |-> Fate(m)]
           got == {m \in Mail : taken[m] > 0}
<1>1. CASE UNCHANGED vars
  BY <1>1 DEF vars, Promise!vars, Fate, Pending
<1>2. ASSUME NEW m \in Mail, Queue(m)
      PROVE  Promise!Queue(m)
  <2>1. /\ task[m].stage = "unborn" /\ task'[m].stage = "offer" /\ UNCHANGED taken
        /\ \A n \in Mail : n # m => task'[n] = task[n]
    BY <1>2 DEF Queue, MailInv, TypeOK
  <2>2. fate' = [fate EXCEPT ![m] = "pending"]
    BY <2>1 DEF Fate, Pending
  <2> QED
    BY <2>1, <2>2 DEF Promise!Queue, Fate, Pending
<1>3. ASSUME NEW m \in Mail, Wake(m)
      PROVE  UNCHANGED Promise!vars
  <2>1. /\ task[m].stage = "sleep" /\ task'[m].stage = "offer" /\ UNCHANGED taken
        /\ \A n \in Mail : n # m => task'[n] = task[n]
    BY <1>3 DEF Wake, MailInv, TypeOK
  <2>2. fate' = fate
    BY <2>1 DEF Fate, Pending
  <2> QED
    BY <2>1, <2>2 DEF Promise!vars
<1>4. ASSUME NEW m \in Mail, Drop(m)
      PROVE  Promise!Lose(m)
  <2>1. /\ Pending(m) /\ task'[m].stage = "lost" /\ UNCHANGED taken
        /\ \A n \in Mail : n # m => task'[n] = task[n]
    BY <1>4 DEF Drop, MailInv, TypeOK
  <2>2. fate' = [fate EXCEPT ![m] = "lost"]
    BY <2>1 DEF Fate, Pending
  <2> QED
    BY <2>1, <2>2 DEF Promise!Lose, Fate
<1>5. ASSUME NEW m \in Mail, Offer(m)
      PROVE  Promise!Take(m) \/ Promise!Lose(m) \/ UNCHANGED Promise!vars
  <2>1. PICK v \in Verdict, b \in BOOLEAN :
        /\ v = "accepted" => b
        /\ v \in {"refused", "temporary"} => ~b
        /\ taken' = [taken EXCEPT ![m] = IF b THEN taken[m] + 1 ELSE taken[m]]
        /\ task' = [task EXCEPT ![m] = [task[m] EXCEPT !.stage = After(m, v),
              !.doubt = IF v \in Ambiguous THEN task[m].doubt + 1 ELSE task[m].doubt]]
    BY <1>5, OfferEffect DEF MailInv
  <2> DEFINE stage == After(m, v)
  <2>2. /\ task[m].stage = "offer" /\ task'[m].stage = stage
        /\ \A n \in Mail : n # m => task'[n] = task[n]
    <3> DEFINE doubt == IF v \in Ambiguous THEN task[m].doubt + 1 ELSE task[m].doubt
    <3>1. task' = [task EXCEPT ![m] = [task[m] EXCEPT !.stage = stage, !.doubt = doubt]]
      BY <2>1
    <3> HIDE DEF stage, doubt
    <3>2. task \in [Mail -> [stage: Stage, attempt: Nat, doubt: Nat]] /\ task[m].stage = "offer"
      BY <1>5 DEF Offer, MailInv, TypeOK
    <3> QED
      BY <3>1, <3>2
  <2>3. stage \in {"sent", "sleep", "lost"} /\ (stage = "sent" <=> v = "accepted")
    BY DEF After
  <2> HIDE DEF stage
  <2>4. \/ stage = "sleep" /\ fate' = fate
        \/ stage \in {"sent", "lost"} /\ fate' = [fate EXCEPT ![m] = stage]
    BY <2>2, <2>3 DEF Fate, Pending
  <2>5. got' = IF b THEN got \cup {m} ELSE got
    BY <2>1 DEF MailInv, TypeOK
  <2>6. fate[m] = "pending"
    BY <2>2 DEF Fate, Pending
  <2> HIDE DEF fate, got
  <2>7. CASE b
    <3>1. got' = got \cup {m}
      BY <2>5, <2>7
    <3>2. fate' \in {fate, [fate EXCEPT ![m] = "sent"], [fate EXCEPT ![m] = "lost"]}
      BY <2>4
    <3> QED
      BY <2>6, <3>1, <3>2 DEF Promise!Take, fate, got
  <2>8. CASE ~b
    <3>1. got' = got /\ stage # "sent"
      BY <2>1, <2>3, <2>5, <2>8
    <3>2. CASE stage = "sleep"
      BY <2>4, <3>1, <3>2 DEF Promise!vars, fate, got
    <3>3. CASE stage = "lost"
      BY <2>4, <2>6, <3>1, <3>3 DEF Promise!Lose, fate, got
    <3> QED
      BY <2>3, <3>1, <3>2, <3>3
  <2> QED
    BY <2>7, <2>8
<1> QED
  BY <1>1, <1>2, <1>3, <1>4, <1>5 DEF Next, Work, Promise!Next

(* Every behaviour of the tasks is one of the promise, the end of every    *)
(* task aside: a mail is queued once, "sent" is said only of a mail that   *)
(* the server has taken, and what has ended stays so.                      *)
THEOREM KeepsPromise == Spec => Promise!Init /\ [][Promise!Next]_(Promise!vars)
<1>1. Init => Promise!Init
  BY DEF Init, Promise!Init, Fate, Pending, Unborn
<1>2. MailInv /\ [Next]_vars => [Promise!Next]_(Promise!vars)
  BY MailStepKeepsPromise
<1> QED
  BY <1>1, <1>2, MailInvariant, PTL DEF Spec

-----------------------------------------------------------------------------
(* Start of the workers                                                    *)

Holder == [pc: Start!Label, private: {Start!Missing, Start!Empty} \cup Start!Pair,
           public: {Start!Missing, Start!Empty} \cup Start!Pair, next: 1 .. 4, pending: 0 .. 3,
           faulty: BOOLEAN]

(* What a worker holds: pairs that were generated; while it seeds, its own *)
(* or committed rows behind it, but for the one it is about to insert; and *)
(* when it is up and no statement failed, everything is there.             *)
SeedView(w) ==
    LET s == worker[w] IN
    /\ s.private <= made /\ s.public <= made
    /\ s.pc \notin {"seed", "up"} => s.next = 1 /\ s.pending = 0
    /\ s.pc \in {"seed", "up"} => schema
    /\ s.pc = "seed" =>
        /\ s.pending # 0 => s.pending = s.next - 1
        /\ \A d \in Start!Default :
              d < s.next /\ d # s.pending => row[d] \in {"committed", w}
    /\ s.pc = "up" /\ ~s.faulty => \A d \in Start!Default : row[d] = "committed"

(* The defaults are committed together.                                    *)
AllOrNone ==
    (\E d \in Start!Default : row[d] = "committed")
        => \A d \in Start!Default : row[d] = "committed"

SeedInv ==
    /\ Start!TypeOK
    /\ \A w \in Worker : SeedView(w)
    /\ AllOrNone

(* The step of one worker keeps what the others hold.                      *)
LEMMA WorkerStep ==
  ASSUME SeedInv, NEW w \in Worker, NEW q \in Holder, worker' = [worker EXCEPT ![w] = q],
         made' \in 0 .. MaxPairs, made <= made',
         private' \in {Start!Missing, Start!Empty} \cup 1 .. made',
         public' \in {Start!Missing, Start!Empty} \cup 1 .. made',
         schema' \in BOOLEAN, schema => schema',
         crashes' \in 0 .. MaxCrash, raced' \in BOOLEAN,
         row' \in [Start!Default -> {"absent", "committed"} \cup Worker],
         \A d \in Start!Default :
            /\ row[d] = "committed" => row'[d] = "committed"
            /\ row'[d] = w => q.pc = "seed"
            /\ \A v \in Worker :
                v # w => (row'[d] = v => row[d] = v)
            /\ \A v \in Worker :
                v # w => (row[d] = v => row'[d] \in {"committed", v}),
         AllOrNone', SeedView(w)'
  PROVE  SeedInv'
<1>1. /\ worker \in [Worker -> Holder] /\ made \in Nat /\ made' \in Nat
      /\ \A v \in Worker : SeedView(v)
      /\ \A d \in Start!Default, v \in Worker : row[d] = v => worker[v].pc = "seed"
  BY StartAssumption DEF SeedInv, Start!TypeOK, Start!Seeding, Holder
<1>2. worker' \in [Worker -> Holder] /\ worker'[w] = q /\ \A v \in Worker : v # w => worker'[v] = worker[v]
  BY <1>1
<1>3. \A d \in Start!Default, v \in Worker : row'[d] = v => worker'[v].pc = "seed"
  <2> SUFFICES ASSUME NEW d \in Start!Default, NEW v \in Worker, row'[d] = v
               PROVE  worker'[v].pc = "seed"
    OBVIOUS
  <2>1. CASE v = w
    BY <1>2, <2>1
  <2>2. CASE v # w
    <3>1. row[d] = v
      BY <2>2
    <3> QED
      BY <1>1, <1>2, <2>2, <3>1
  <2> QED
    BY <2>1, <2>2
<1>4. Start!TypeOK'
  BY <1>2, <1>3 DEF Start!TypeOK, Start!Seeding, Holder
<1>5. ASSUME NEW v \in Worker, v # w
      PROVE  SeedView(v)'
  <2>1. worker'[v] = worker[v] /\ SeedView(v) /\ worker[v] \in Holder
    BY <1>1, <1>2, <1>5
  <2>2. \A d \in Start!Default : row[d] \in {"committed", v} => row'[d] \in {"committed", v}
    BY <1>5
  <2>3. (worker[v].private <= made') /\ (worker[v].public <= made')
    <3>1. /\ worker[v].private \in Int /\ worker[v].public \in Int
          /\ worker[v].private <= made /\ worker[v].public <= made
      BY <2>1, StartAssumption DEF SeedView, Holder, Start!Missing, Start!Empty, Start!Pair
    <3> QED
      BY <1>1, <3>1
  <2> QED
    BY <2>1, <2>2, <2>3 DEF SeedView
<1> QED
  BY <1>4, <1>5 DEF SeedInv

(* ... above all when it does not touch the rows.                          *)
LEMMA WorkerMove ==
  ASSUME SeedInv, NEW w \in Worker, NEW q \in Holder, worker' = [worker EXCEPT ![w] = q],
         made' \in 0 .. MaxPairs, made <= made',
         private' \in {Start!Missing, Start!Empty} \cup 1 .. made',
         public' \in {Start!Missing, Start!Empty} \cup 1 .. made',
         schema' \in BOOLEAN, schema => schema',
         UNCHANGED <<row, crashes>>, raced' \in BOOLEAN,
         worker[w].pc = "seed" => q.pc = "seed",
         SeedView(w)'
  PROVE  SeedInv'
<1>1. /\ crashes' \in 0 .. MaxCrash
      /\ row' \in [Start!Default -> {"absent", "committed"} \cup Worker]
      /\ AllOrNone'
      /\ \A d \in Start!Default : row'[d] = w => q.pc = "seed"
  BY DEF SeedInv, Start!TypeOK, AllOrNone, Start!Seeding
<1> QED
  BY <1>1, WorkerStep

(* Before the defaults are looked up.                                      *)
LEMMA EarlyMove ==
  ASSUME SeedInv, NEW w \in Worker, NEW q \in Holder, worker' = [worker EXCEPT ![w] = q],
         made' \in 0 .. MaxPairs, made <= made',
         private' \in {Start!Missing, Start!Empty} \cup 1 .. made',
         public' \in {Start!Missing, Start!Empty} \cup 1 .. made',
         schema' \in BOOLEAN, schema => schema',
         UNCHANGED <<row, crashes>>, raced' \in BOOLEAN,
         worker[w].pc # "seed", q.pc # "up", q.next = 1, q.pending = 0,
         q.pc = "seed" => schema',
         q.private <= made', q.public <= made'
  PROVE  SeedInv'
<1>1. worker'[w] = q
  BY DEF SeedInv, Start!TypeOK
<1>2. SeedView(w)'
  BY <1>1 DEF SeedView, Start!Default
<1> QED
  BY <1>2, WorkerMove

(* What every step may rely on.                                            *)
LEMMA SeedTypes ==
  ASSUME SeedInv, NEW w \in Worker
  PROVE  /\ worker \in [Worker -> Holder] /\ worker[w] \in Holder
         /\ worker[w].private \in {Start!Missing, Start!Empty} \cup 1 .. made
         /\ worker[w].public \in {Start!Missing, Start!Empty} \cup 1 .. made
         /\ worker[w].private <= made /\ worker[w].public <= made
         /\ worker[w].pc \notin {"seed", "up"} => worker[w].next = 1 /\ worker[w].pending = 0
         /\ made \in 0 .. MaxPairs /\ made \in Nat /\ MaxPairs \in Nat
         /\ Start!Missing <= made /\ Start!Empty <= made
         /\ private \in {Start!Missing, Start!Empty} \cup 1 .. made
         /\ public \in {Start!Missing, Start!Empty} \cup 1 .. made
         /\ {Start!Missing, Start!Empty} \cup 1 .. made
                \subseteq {Start!Missing, Start!Empty} \cup Start!Pair
         /\ private <= made /\ public <= made
         /\ schema \in BOOLEAN /\ raced \in BOOLEAN
BY StartAssumption DEF SeedInv, Start!TypeOK, SeedView, Holder, Start!Missing, Start!Empty,
   Start!Pair

(* ... and what it has to show of what it does not change.                 *)
LEMMA SeedStill ==
  ASSUME SeedInv, UNCHANGED <<private, public, made, schema, raced>>
  PROVE  /\ made' \in 0 .. MaxPairs /\ made <= made'
         /\ private' \in {Start!Missing, Start!Empty} \cup 1 .. made'
         /\ public' \in {Start!Missing, Start!Empty} \cup 1 .. made'
         /\ schema' \in BOOLEAN /\ (schema => schema') /\ raced' \in BOOLEAN
<1>1. /\ made \in 0 .. MaxPairs /\ made <= made
      /\ private \in {Start!Missing, Start!Empty} \cup 1 .. made
      /\ public \in {Start!Missing, Start!Empty} \cup 1 .. made
      /\ schema \in BOOLEAN /\ raced \in BOOLEAN
  BY StartAssumption DEF SeedInv, Start!TypeOK
<1> QED
  BY <1>1

LEMMA StartMoves ==
  ASSUME SeedInv, NEW w \in Worker,
         \/ Start!CheckKeys(w)
         \/ Start!OpenPrivate(w)
         \/ Start!WritePrivate(w)
         \/ Start!OpenPublic(w)
         \/ Start!WritePublic(w)
         \/ Start!LookUpTables(w)
         \/ Start!CreateTables(w)
  PROVE  SeedInv'
<1>1. PICK label \in {"generate", "readPrivate", "writePrivate", "openPublic", "writePublic",
                      "schema", "seed", "tables", "failed"} :
        /\ worker' = [worker EXCEPT ![w].pc = label]
        /\ label = "seed" => schema'
  BY DEF Start!CheckKeys, Start!OpenPrivate, Start!WritePrivate, Start!OpenPublic,
     Start!WritePublic, Start!LookUpTables, Start!CreateTables, Start!Goto
<1> DEFINE q == [worker[w] EXCEPT !.pc = label]
<1>2. /\ worker[w].pc \notin {"seed", "up"} /\ made' = made
      /\ private' \in {private, Start!Empty, worker[w].private}
      /\ public' \in {public, Start!Empty, worker[w].public}
      /\ UNCHANGED <<row, crashes>> /\ (schema' = schema \/ schema' = TRUE)
      /\ raced' = raced \/ raced' = (raced \/ \E v \in Worker : Start!Generating(v))
  BY DEF Start!CheckKeys, Start!OpenPrivate, Start!WritePrivate, Start!OpenPublic,
     Start!WritePublic, Start!LookUpTables, Start!CreateTables, Start!files
<1>3. raced' \in BOOLEAN /\ schema' \in BOOLEAN /\ (schema => schema')
  <2>1. raced \in BOOLEAN /\ schema \in BOOLEAN
    BY SeedTypes
  <2>2. raced' \in BOOLEAN
    BY <1>2, <2>1, Zenon
  <2> QED
    BY <1>2, <2>1, <2>2
<1>4. /\ worker' = [worker EXCEPT ![w] = q] /\ q \in Holder
      /\ q.pc = label /\ q.next = 1 /\ q.pending = 0
      /\ q.private = worker[w].private /\ q.public = worker[w].public
  BY <1>1, <1>2, SeedTypes DEF Holder, Start!Label
<1> HIDE DEF q
<1>5. /\ made' \in 0 .. MaxPairs /\ made <= made'
      /\ private' \in {Start!Missing, Start!Empty} \cup 1 .. made'
      /\ public' \in {Start!Missing, Start!Empty} \cup 1 .. made'
      /\ q.private <= made' /\ q.public <= made'
  BY <1>2, <1>4, SeedTypes
<1> QED
  BY <1>1, <1>2, <1>3, <1>4, <1>5, EarlyMove

LEMMA StartRead ==
  ASSUME SeedInv, NEW w \in Worker, Start!ReadPrivate(w) \/ Start!ReadPublic(w)
  PROVE  SeedInv'
<1> DEFINE q1 == [worker[w] EXCEPT !.private = private,
                    !.pc = IF private = Start!Empty THEN "failed" ELSE "readPublic"]
           q2 == [worker[w] EXCEPT !.public = public,
                    !.pc = IF public \in {Start!Missing, Start!Empty} THEN "failed" ELSE "schema"]
<1>1. PICK q \in {q1, q2} : worker' = [worker EXCEPT ![w] = q]
  BY SeedTypes DEF Start!ReadPrivate, Start!ReadPublic
<1>2. /\ worker[w].pc \in {"readPrivate", "readPublic"}
      /\ UNCHANGED <<private, public, made, schema, row, crashes, raced>>
  BY DEF Start!ReadPrivate, Start!ReadPublic, Start!files
<1>3. q1 \in Holder /\ q1.pc \in {"failed", "readPublic"} /\ q1.private = private
  BY SeedTypes DEF Holder, Start!Label
<1>4. q2 \in Holder /\ q2.pc \in {"failed", "schema"} /\ q2.public = public
  BY SeedTypes DEF Holder, Start!Label
<1>5. /\ q1.next = 1 /\ q1.pending = 0 /\ q1.public = worker[w].public
      /\ q2.next = 1 /\ q2.pending = 0 /\ q2.private = worker[w].private
  BY <1>2, SeedTypes DEF Holder
<1> HIDE DEF q1, q2
<1>6. /\ q \in Holder /\ q.pc \notin {"seed", "up"} /\ q.next = 1 /\ q.pending = 0
      /\ q.private <= made /\ q.public <= made
  BY <1>1, <1>3, <1>4, <1>5, SeedTypes
<1>7. q.private <= made' /\ q.public <= made' /\ UNCHANGED <<row, crashes>>
  BY <1>2, <1>6
<1> QED
  BY <1>1, <1>2, <1>6, <1>7, SeedStill, EarlyMove

LEMMA StartGenerate ==
  ASSUME SeedInv, NEW w \in Worker, Start!GenerateKeys(w)
  PROVE  SeedInv'
<1> DEFINE q == [worker[w] EXCEPT !.private = made', !.public = made', !.pc = "openPrivate"]
<1>1. /\ worker[w].pc = "generate" /\ made < MaxPairs /\ made' = made + 1
      /\ worker' = [worker EXCEPT ![w] = q]
      /\ UNCHANGED <<private, public, schema, row, crashes, raced>>
  BY SeedTypes DEF Start!GenerateKeys, Start!files
<1>2. made' \in 0 .. MaxPairs /\ made' \in Start!Pair /\ made <= made' /\ made' <= made'
  BY <1>1, SeedTypes DEF Start!Pair
<1>3. /\ q \in Holder /\ q.pc = "openPrivate" /\ q.next = 1 /\ q.pending = 0
      /\ q.private = made' /\ q.public = made'
  BY <1>1, <1>2, SeedTypes DEF Holder, Start!Label
<1> HIDE DEF q
<1>4. /\ private' \in {Start!Missing, Start!Empty} \cup 1 .. made'
      /\ public' \in {Start!Missing, Start!Empty} \cup 1 .. made'
  BY <1>1, SeedTypes
<1> QED
  BY <1>1, <1>2, <1>3, <1>4, SeedTypes, EarlyMove

LEMMA Worker0Type ==
  /\ Start!Worker0 \in Holder /\ Start!Worker0.pc = "down"
  /\ Start!Worker0.next = 1 /\ Start!Worker0.pending = 0
  /\ Start!Worker0.private = Start!Missing /\ Start!Worker0.public = Start!Missing
BY DEF Start!Worker0, Holder, Start!Label

LEMMA StartStart ==
  ASSUME SeedInv, NEW w \in Worker, Start!Start(w)
  PROVE  SeedInv'
<1> DEFINE q == [Start!Worker0 EXCEPT !.pc = "keys"]
<1>1. /\ worker[w].pc # "seed" /\ worker' = [worker EXCEPT ![w] = q]
      /\ UNCHANGED <<private, public, made, schema, row, crashes, raced>>
  BY DEF Start!Start, Start!files
<1>2. /\ q \in Holder /\ q.pc = "keys" /\ q.next = 1 /\ q.pending = 0
      /\ q.private = Start!Missing /\ q.public = Start!Missing
  BY Worker0Type DEF Holder, Start!Label
<1> HIDE DEF q
<1>3. q.private <= made' /\ q.public <= made' /\ UNCHANGED <<row, crashes>>
  BY <1>1, <1>2, SeedTypes
<1> QED
  BY <1>1, <1>2, <1>3, SeedStill, EarlyMove

-----------------------------------------------------------------------------
(* The transaction that seeds                                              *)

LEMMA LookUpInv ==
  ASSUME SeedInv, NEW w \in Worker, Start!LookUpDefault(w)
  PROVE  SeedInv'
<1> DEFINE d0 == worker[w].next
           found == row[d0] = "committed"
           p == IF found THEN 0 ELSE d0
           q == [worker[w] EXCEPT !.next = d0 + 1, !.pending = p]
<1>1. /\ worker[w].pc = "seed" /\ worker[w].pending = 0 /\ d0 \in 1 .. 3
      /\ worker' = [worker EXCEPT ![w] = q]
      /\ UNCHANGED <<private, public, made, schema, row, crashes, raced>>
  BY SeedTypes DEF Start!LookUpDefault, Start!files, Start!Seeding, Start!Default
<1>2. p \in {0, d0} /\ (p = 0 => row[d0] = "committed")
  BY <1>1
<1> HIDE DEF p
<1>3. /\ q \in Holder /\ q.pc = "seed" /\ q.next = d0 + 1 /\ q.pending = p
      /\ q.private = worker[w].private /\ q.public = worker[w].public
  <2>1. d0 + 1 \in 1 .. 4 /\ p \in 0 .. 3 /\ worker[w] \in Holder
    BY <1>1, <1>2, SeedTypes
  <2> HIDE DEF d0
  <2> QED
    BY <1>1, <2>1 DEF Holder
<1> HIDE DEF q
<1>4. worker'[w] = q
  BY <1>1, SeedTypes
<1>5. SeedView(w) /\ schema
  BY <1>1 DEF SeedInv, SeedView
<1>6. \A d \in Start!Default : d < d0 + 1 /\ d # p => row[d] \in {"committed", w}
  <2> SUFFICES ASSUME NEW d \in Start!Default, d < d0 + 1, d # p
               PROVE  row[d] \in {"committed", w}
    OBVIOUS
  <2>1. CASE d = d0
    BY <1>1, <1>2, <2>1
  <2>2. CASE d # d0
    <3>1. d < d0 /\ d # worker[w].pending
      BY <1>1, <2>2 DEF Start!Default
    <3> QED
      BY <1>1, <1>5, <3>1 DEF SeedView
  <2> QED
    BY <2>1, <2>2
<1>7. SeedView(w)'
  <2>1. q.pending # 0 => q.pending = q.next - 1
    BY <1>1, <1>2, <1>3
  <2> HIDE DEF d0
  <2> QED
    BY <1>1, <1>3, <1>4, <1>5, <1>6, <2>1, SeedTypes DEF SeedView
<1> QED
  BY <1>1, <1>3, <1>7, SeedStill, WorkerMove

(* The rows of a worker that is rolled back.                               *)
LEMMA RollBack ==
  ASSUME SeedInv, NEW w \in Worker, row' = Start!RolledBack(w)
  PROVE  /\ row' \in [Start!Default -> {"absent", "committed"} \cup Worker]
         /\ AllOrNone'
         /\ \A d \in Start!Default :
              /\ row[d] = "committed" <=> row'[d] = "committed"
              /\ row'[d] # w
              /\ \A v \in Worker : v # w => (row'[d] = v <=> row[d] = v)
<1>1. /\ row \in [Start!Default -> {"absent", "committed"} \cup Worker] /\ AllOrNone
      /\ "absent" \notin Worker /\ "committed" \notin Worker
  BY StartAssumption DEF SeedInv, Start!TypeOK
<1>2. \A d \in Start!Default : row'[d] = IF row[d] = w THEN "absent" ELSE row[d]
  BY DEF Start!RolledBack
<1>3. row' \in [Start!Default -> {"absent", "committed"} \cup Worker]
  BY <1>1 DEF Start!RolledBack
<1>4. \A d \in Start!Default :
        /\ row[d] = "committed" <=> row'[d] = "committed"
        /\ row'[d] # w
        /\ \A v \in Worker : v # w => (row'[d] = v <=> row[d] = v)
  BY <1>1, <1>2
<1>5. AllOrNone'
  BY <1>1, <1>4 DEF AllOrNone
<1> QED
  BY <1>3, <1>4, <1>5

LEMMA InsertInv ==
  ASSUME SeedInv, NEW w \in Worker, Start!InsertDefault(w)
  PROVE  SeedInv'
<1> DEFINE p == worker[w].pending
           q == [worker[w] EXCEPT !.pending = 0]
<1>1. /\ worker[w].pc = "seed" /\ p # 0 /\ row[p] = "absent"
      /\ worker' = [worker EXCEPT ![w] = q] /\ row' = [row EXCEPT ![p] = w]
      /\ UNCHANGED <<private, public, made, schema, crashes, raced>>
  BY DEF Start!InsertDefault, Start!files, Start!Seeding
<1>2. /\ q \in Holder /\ q.pc = "seed" /\ q.next = worker[w].next /\ q.pending = 0
      /\ q.private = worker[w].private /\ q.public = worker[w].public
  BY <1>1, SeedTypes DEF Holder
<1> HIDE DEF q
<1>3. p \in Start!Default
  BY <1>1, SeedTypes DEF Holder, Start!Default
<1>4. worker'[w] = q /\ SeedView(w) /\ schema /\ crashes \in 0 .. MaxCrash
  BY <1>1, SeedTypes DEF SeedInv, SeedView, Start!TypeOK
<1>5. /\ row \in [Start!Default -> {"absent", "committed"} \cup Worker] /\ AllOrNone
      /\ "absent" \notin Worker /\ "committed" \notin Worker
  BY StartAssumption DEF SeedInv, Start!TypeOK
<1>6. \A d \in Start!Default : row[d] # "committed"
  BY <1>1, <1>3, <1>5 DEF AllOrNone
<1> HIDE DEF p
<1>7. /\ row' \in [Start!Default -> {"absent", "committed"} \cup Worker]
      /\ \A d \in Start!Default : row'[d] = IF d = p THEN w ELSE row[d]
  BY <1>1, <1>3, <1>5
<1>8. AllOrNone'
  BY <1>5, <1>6, <1>7 DEF AllOrNone
<1>9. \A d \in Start!Default :
        /\ row[d] = "committed" => row'[d] = "committed"
        /\ row'[d] = w => q.pc = "seed"
        /\ \A v \in Worker : v # w => (row'[d] = v => row[d] = v)
        /\ \A v \in Worker : v # w => (row[d] = v => row'[d] \in {"committed", v})
  BY <1>1, <1>2, <1>5, <1>6, <1>7
<1>10. \A d \in Start!Default : d < worker[w].next /\ d # 0 => row'[d] \in {"committed", w}
  BY <1>1, <1>4, <1>7 DEF SeedView, p
<1>11. SeedView(w)'
  <2>1. (worker[w].private <= made') /\ (worker[w].public <= made')
    BY <1>1, SeedTypes
  <2> QED
    BY <1>1, <1>2, <1>4, <1>10, <2>1 DEF SeedView
<1> QED
  BY <1>1, <1>2, <1>4, <1>7, <1>8, <1>9, <1>11, SeedStill, WorkerStep

(* The worker that has seeded comes up, and so does one whose statement    *)
(* failed.                                                                 *)
LEMMA ComesUp ==
  ASSUME SeedInv, NEW w \in Worker, NEW q \in Holder, worker' = [worker EXCEPT ![w] = q],
         worker[w].pc = "seed", q.pc = "up", q.private = worker[w].private,
         q.public = worker[w].public,
         UNCHANGED <<private, public, made, schema, crashes, raced>>,
         row' \in [Start!Default -> {"absent", "committed"} \cup Worker],
         \A d \in Start!Default :
            /\ row[d] = "committed" => row'[d] = "committed"
            /\ row'[d] # w
            /\ \A v \in Worker :
                v # w => (row'[d] = v <=> row[d] = v),
         AllOrNone',
         ~q.faulty => \A d \in Start!Default : row'[d] = "committed"
  PROVE  SeedInv'
<1>1. worker'[w] = q /\ schema /\ crashes' \in 0 .. MaxCrash
  BY SeedTypes DEF SeedInv, SeedView, Start!TypeOK
<1>2. (q.private <= made') /\ (q.public <= made')
  BY SeedTypes
<1>3. SeedView(w)'
  BY <1>1, <1>2 DEF SeedView
<1>4. \A d \in Start!Default :
        /\ row[d] = "committed" => row'[d] = "committed"
        /\ row'[d] = w => q.pc = "seed"
        /\ \A v \in Worker : v # w => (row'[d] = v => row[d] = v)
        /\ \A v \in Worker : v # w => (row[d] = v => row'[d] \in {"committed", v})
  OBVIOUS
<1> QED
  BY <1>1, <1>3, <1>4, SeedStill, WorkerStep

LEMMA CommitInv ==
  ASSUME SeedInv, NEW w \in Worker, Start!CommitDefaults(w)
  PROVE  SeedInv'
<1> DEFINE q == [worker[w] EXCEPT !.pc = "up"]
<1>1. /\ worker[w].pc = "seed" /\ worker[w].pending = 0 /\ worker[w].next \notin Start!Default
      /\ worker' = [worker EXCEPT ![w] = q]
      /\ row' = [d \in Start!Default |-> IF row[d] = w THEN "committed" ELSE row[d]]
      /\ UNCHANGED <<private, public, made, schema, crashes, raced>>
  BY SeedTypes DEF Start!CommitDefaults, Start!files, Start!Seeding, Start!Goto
<1>2. /\ q \in Holder /\ q.pc = "up"
      /\ q.private = worker[w].private /\ q.public = worker[w].public
  BY SeedTypes DEF Holder, Start!Label
<1> HIDE DEF q
<1>3. worker[w].next = 4
  BY <1>1, SeedTypes DEF Holder, Start!Default
<1>4. /\ row \in [Start!Default -> {"absent", "committed"} \cup Worker] /\ SeedView(w)
      /\ "absent" \notin Worker /\ "committed" \notin Worker
  BY StartAssumption DEF SeedInv, Start!TypeOK
<1>5. \A d \in Start!Default : row[d] \in {"committed", w} /\ row'[d] = "committed"
  <2>1. \A d \in Start!Default : d < 4 /\ d # 0
    BY DEF Start!Default
  <2> QED
    BY <1>1, <1>3, <1>4, <2>1 DEF SeedView
<1>6. row' \in [Start!Default -> {"absent", "committed"} \cup Worker] /\ AllOrNone'
  BY <1>1, <1>5 DEF AllOrNone
<1>7. \A d \in Start!Default :
        /\ row[d] = "committed" => row'[d] = "committed"
        /\ row'[d] # w
        /\ \A v \in Worker : v # w => (row'[d] = v <=> row[d] = v)
  BY <1>4, <1>5
<1> QED
  BY <1>1, <1>2, <1>5, <1>6, <1>7, ComesUp

LEMMA ConflictInv ==
  ASSUME SeedInv, NEW w \in Worker, Start!SeedConflict(w)
  PROVE  SeedInv'
<1> DEFINE q == [worker[w] EXCEPT !.pc = "up"]
<1>1. /\ worker[w].pc = "seed" /\ worker[w].pending # 0
      /\ row[worker[w].pending] = "committed" /\ row' = Start!RolledBack(w)
      /\ worker' = [worker EXCEPT ![w] = q]
      /\ UNCHANGED <<private, public, made, schema, crashes, raced>>
  BY SeedTypes DEF Start!SeedConflict, Start!files, Start!Seeding, Start!Goto
<1>2. /\ q \in Holder /\ q.pc = "up"
      /\ q.private = worker[w].private /\ q.public = worker[w].public
  BY SeedTypes DEF Holder, Start!Label
<1> HIDE DEF q
<1>3. worker[w].pending \in Start!Default
  BY <1>1, SeedTypes DEF Holder, Start!Default
<1>4. \A d \in Start!Default : row'[d] = "committed"
  BY <1>1, <1>3, RollBack DEF SeedInv, AllOrNone
<1>5. ~q.faulty => \A d \in Start!Default : row'[d] = "committed"
  BY <1>4
<1>6. /\ worker[w].pc = "seed" /\ row' = Start!RolledBack(w)
      /\ worker' = [worker EXCEPT ![w] = q]
      /\ UNCHANGED <<private, public, made, schema, crashes, raced>>
  BY <1>1
<1>7. /\ row' \in [Start!Default -> {"absent", "committed"} \cup Worker] /\ AllOrNone'
      /\ \A d \in Start!Default :
            /\ row[d] = "committed" => row'[d] = "committed"
            /\ row'[d] # w
            /\ \A v \in Worker : v # w => (row'[d] = v <=> row[d] = v)
  BY <1>6, RollBack
<1> QED
  BY <1>2, <1>5, <1>6, <1>7, ComesUp

LEMMA FaultInv ==
  ASSUME SeedInv, NEW w \in Worker, Start!SeedFault(w)
  PROVE  SeedInv'
<1> DEFINE q == [worker[w] EXCEPT !.pc = "up", !.faulty = TRUE]
<1>1. /\ worker[w].pc = "seed" /\ row' = Start!RolledBack(w)
      /\ worker' = [worker EXCEPT ![w] = q]
      /\ UNCHANGED <<private, public, made, schema, crashes, raced>>
  BY SeedTypes DEF Start!SeedFault, Start!files, Start!Seeding
<1>2. /\ q \in Holder /\ q.pc = "up" /\ q.faulty
      /\ q.private = worker[w].private /\ q.public = worker[w].public
  BY SeedTypes DEF Holder, Start!Label
<1> HIDE DEF q
<1>3. ~q.faulty => \A d \in Start!Default : row'[d] = "committed"
  BY <1>2
<1> QED
  BY <1>1, <1>2, <1>3, RollBack, ComesUp

LEMMA CrashInv ==
  ASSUME SeedInv, NEW w \in Worker, Start!Crash(w)
  PROVE  SeedInv'
<1> DEFINE b == worker[w].pc \in {"writePrivate", "openPublic", "writePublic"}
           q == Start!Worker0
<1>1. /\ crashes < MaxCrash /\ crashes' = crashes + 1 /\ row' = Start!RolledBack(w)
      /\ raced' = (raced \/ b) /\ worker' = [worker EXCEPT ![w] = q]
      /\ UNCHANGED <<private, public, made, schema>>
  BY DEF Start!Crash, Start!files
<1>2. /\ q \in Holder /\ q.pc = "down" /\ q.next = 1 /\ q.pending = 0
      /\ q.private = Start!Missing /\ q.public = Start!Missing
  BY Worker0Type
<1>3. raced' \in BOOLEAN
  <2>1. raced \in BOOLEAN /\ b \in BOOLEAN
    BY SeedTypes
  <2> HIDE DEF b
  <2> QED
    BY <1>1, <2>1, Zenon
<1> HIDE DEF b, q
<1>4. crashes' \in 0 .. MaxCrash
  BY <1>1, StartAssumption DEF SeedInv, Start!TypeOK
<1>5. /\ made' \in 0 .. MaxPairs /\ made <= made' /\ schema' \in BOOLEAN /\ (schema => schema')
      /\ private' \in {Start!Missing, Start!Empty} \cup 1 .. made'
      /\ public' \in {Start!Missing, Start!Empty} \cup 1 .. made'
      /\ q.private <= made' /\ q.public <= made'
  BY <1>1, <1>2, SeedTypes
<1>6. worker'[w] = q
  BY <1>1, SeedTypes
<1>7. SeedView(w)'
  BY <1>2, <1>5, <1>6 DEF SeedView
<1>8. /\ row' \in [Start!Default -> {"absent", "committed"} \cup Worker] /\ AllOrNone'
      /\ \A d \in Start!Default :
            /\ row[d] = "committed" => row'[d] = "committed"
            /\ row'[d] = w => q.pc = "seed"
            /\ \A v \in Worker : v # w => (row'[d] = v => row[d] = v)
            /\ \A v \in Worker : v # w => (row[d] = v => row'[d] \in {"committed", v})
  BY <1>1, RollBack
<1> QED
  BY <1>1, <1>2, <1>3, <1>4, <1>5, <1>7, <1>8, WorkerStep

LEMMA SeedNext == SeedInv /\ [Start!Next]_(Start!vars) => SeedInv'
<1> SUFFICES ASSUME SeedInv, [Start!Next]_(Start!vars)
             PROVE  SeedInv'
  OBVIOUS
<1>1. CASE UNCHANGED Start!vars
  BY <1>1 DEF Start!vars, Start!files, SeedInv, SeedView, AllOrNone, Start!TypeOK,
     Start!Seeding
<1>2. ASSUME NEW w \in Worker, Start!Advance(w)
      PROVE  SeedInv'
  BY <1>2, StartStart, StartMoves, StartRead, StartGenerate, LookUpInv, InsertInv, CommitInv,
     ConflictInv DEF Start!Advance, Start!LoadKeys, Start!Seed
<1> QED
  BY <1>1, <1>2, FaultInv, CrashInv DEF Start!Next

LEMMA SeedStarts == Start!Init => SeedInv
<1> SUFFICES ASSUME Start!Init
             PROVE  SeedInv
  OBVIOUS
<1>1. Start!TypeOK
  <2>1. worker \in [Worker -> Holder]
    BY Worker0Type DEF Start!Init
  <2>2. \A d \in Start!Default : row[d] \notin Worker
    BY StartAssumption DEF Start!Init
  <2>3. row \in [Start!Default -> {"absent", "committed"} \cup Worker]
    BY DEF Start!Init
  <2>4. /\ private = Start!Missing /\ public = Start!Missing /\ made = 0 /\ schema = FALSE
        /\ crashes = 0 /\ raced = FALSE
    BY DEF Start!Init
  <2>5. made \in 0 .. MaxPairs /\ crashes \in 0 .. MaxCrash
    BY <2>4, StartAssumption
  <2>6. \A d \in Start!Default, w \in Worker : row[d] # w
    BY <2>2
  <2> QED
    BY <2>1, <2>3, <2>4, <2>5, <2>6 DEF Start!TypeOK, Holder
<1>2. \A w \in Worker : worker[w] = Start!Worker0
  BY DEF Start!Init
<1>3. Start!Missing <= made
  BY DEF Start!Init, Start!Missing
<1>4. \A w \in Worker : SeedView(w)
  BY <1>2, <1>3, Worker0Type DEF SeedView
<1>5. AllOrNone
  BY DEF Start!Init, AllOrNone
<1> QED
  BY <1>1, <1>4, <1>5 DEF SeedInv

(* What every worker holds while the defaults are seeded.                  *)
THEOREM SeedInvariant == Start!Spec => []SeedInv
BY SeedStarts, SeedNext, PTL DEF Start!Spec

(* A worker none of whose statements failed is up only when the tables     *)
(* exist and hold all the defaults (lifespan: init_db, seed_default_data). *)
THEOREM UpMeansSeededAlways == Start!Spec => []UpMeansSeeded
<1>1. SeedInv => UpMeansSeeded
  BY DEF SeedInv, SeedView, UpMeansSeeded, Start!UpMeansSeeded, Start!Up
<1> QED
  BY <1>1, SeedInvariant, PTL

-----------------------------------------------------------------------------
(* The key files                                                           *)

Busy == {"generate", "openPrivate", "writePrivate", "openPublic", "writePublic"}

Agreed == private = public /\ private \notin {Start!Missing, Start!Empty}

(* What a worker knows of the files at each label.                         *)
FileView(w) ==
    LET s == worker[w] IN
    /\ s.pc \in {"generate", "openPrivate"} => private = Start!Missing /\ public = Start!Missing
    /\ s.pc = "writePrivate" => private = Start!Empty /\ public = Start!Missing
    /\ s.pc = "openPublic" => private = s.private /\ public = Start!Missing
    /\ s.pc = "writePublic" => private = s.private /\ public = Start!Empty
    /\ s.pc \in Busy \ {"generate"} =>
          s.private = s.public /\ s.private \notin {Start!Missing, Start!Empty}
    /\ s.pc = "readPrivate" => private # Start!Missing
    /\ s.pc = "readPublic" =>
          s.private = private /\ private \notin {Start!Missing, Start!Empty}
    /\ s.pc \in {"schema", "tables", "seed", "up"} =>
          Agreed /\ s.private = private /\ s.public = public

OneWrites == \A v, w \in Worker : worker[v].pc \in Busy /\ worker[w].pc \in Busy => v = w

(* While nobody writes them, the files are both there or both missing.     *)
Settled ==
    (\A v \in Worker : worker[v].pc \notin Busy) =>
        \/ private = Start!Missing /\ public = Start!Missing
        \/ Agreed

KeyState == OneWrites /\ Settled /\ \A w \in Worker : FileView(w)

KeyInv == ~raced => KeyState

LEMMA MissingIsNotEmpty == Start!Missing # Start!Empty
BY DEF Start!Missing, Start!Empty

(* A step that leaves the files alone.                                     *)
LEMMA KeyStill ==
  ASSUME worker \in [Worker -> Holder], KeyState, NEW w \in Worker, NEW q \in Holder,
         worker' = [worker EXCEPT ![w] = q], UNCHANGED <<private, public>>, FileView(w)',
         q.pc \in Busy => worker[w].pc \in Busy \/ \A v \in Worker : worker[v].pc \notin Busy,
         worker[w].pc \in Busy \ {"generate", "openPrivate"} => q.pc \in Busy
  PROVE  KeyState'
<1>1. worker'[w] = q /\ \A v \in Worker : v # w => worker'[v] = worker[v]
  OBVIOUS
<1>2. \A v \in Worker : FileView(v)'
  <2> SUFFICES ASSUME NEW v \in Worker, v # w
               PROVE  FileView(v)'
    OBVIOUS
  <2>1. worker'[v] = worker[v] /\ FileView(v)
    BY <1>1 DEF KeyState
  <2> QED
    BY <2>1 DEF FileView, Agreed
<1>3. OneWrites'
  BY <1>1 DEF KeyState, OneWrites
<1>4. Settled'
  <2> SUFFICES ASSUME \A v \in Worker : worker'[v].pc \notin Busy
               PROVE  (private = Start!Missing /\ public = Start!Missing) \/ Agreed
    BY DEF Settled, Agreed
  <2>1. CASE worker[w].pc \in Busy
    BY <1>1, <2>1 DEF KeyState, FileView, Busy
  <2>2. CASE worker[w].pc \notin Busy
    <3>1. \A v \in Worker : worker[v].pc \notin Busy
      BY <1>1, <2>2
    <3> QED
      BY <3>1 DEF KeyState, Settled
  <2> QED
    BY <2>1, <2>2
<1> QED
  BY <1>2, <1>3, <1>4 DEF KeyState

(* A step of the one worker that saves its keys.                           *)
LEMMA KeyWrite ==
  ASSUME worker \in [Worker -> Holder], KeyState, NEW w \in Worker, NEW q \in Holder,
         worker' = [worker EXCEPT ![w] = q], worker[w].pc \in Busy, FileView(w)',
         q.pc \in Busy \/ (q.pc = "schema" /\ Agreed'),
         private' # Start!Missing,
         private \notin {Start!Missing, Start!Empty} => private' = private
  PROVE  KeyState'
<1>1. worker'[w] = q /\ \A v \in Worker : v # w => worker'[v] = worker[v]
  OBVIOUS
<1>2. ~Agreed
  BY MissingIsNotEmpty DEF KeyState, FileView, Agreed, Busy
<1>3. \A v \in Worker : v # w => worker[v].pc \notin Busy
  BY DEF KeyState, OneWrites
<1>4. \A v \in Worker : FileView(v)'
  <2> SUFFICES ASSUME NEW v \in Worker, v # w
               PROVE  FileView(v)'
    OBVIOUS
  <2>1. worker'[v] = worker[v] /\ FileView(v) /\ worker[v].pc \notin Busy
    BY <1>1, <1>3 DEF KeyState
  <2> QED
    BY <1>2, <2>1 DEF FileView, Busy
<1>5. OneWrites'
  BY <1>1, <1>3 DEF OneWrites
<1>6. Settled'
  BY <1>1 DEF Settled
<1> QED
  BY <1>4, <1>5, <1>6 DEF KeyState

LEMMA KeyCheck ==
  ASSUME SeedInv, KeyState, NEW w \in Worker, Start!CheckKeys(w), ~raced'
  PROVE  KeyState'
<1> DEFINE label == IF private = Start!Missing THEN "generate" ELSE "readPrivate"
           q == [worker[w] EXCEPT !.pc = label]
<1>1. /\ worker[w].pc = "keys" /\ worker' = [worker EXCEPT ![w] = q]
      /\ UNCHANGED <<private, public>>
      /\ private = Start!Missing => ~\E v \in Worker : Start!Generating(v)
  BY SeedTypes DEF Start!CheckKeys, Start!Goto, Start!files
<1>2. \A v \in Worker : private = Start!Missing => worker[v].pc \notin Busy
  BY <1>1 DEF Start!Generating, Busy
<1>3. private = Start!Missing => public = Start!Missing
  BY <1>2 DEF KeyState, Settled, Agreed
<1>4. q \in Holder /\ q.pc = label
  BY SeedTypes DEF Holder, Start!Label
<1>5. label \in {"generate", "readPrivate"} /\ (label = "generate" <=> private = Start!Missing)
  OBVIOUS
<1> HIDE DEF q, label
<1>6. worker'[w] = q
  BY <1>1, SeedTypes
<1>7. FileView(w)'
  BY <1>1, <1>3, <1>4, <1>5, <1>6 DEF FileView, Busy
<1> QED
  BY <1>1, <1>2, <1>4, <1>5, <1>7, SeedTypes, KeyStill DEF Busy

LEMMA KeyRead ==
  ASSUME SeedInv, KeyState, NEW w \in Worker, Start!ReadPrivate(w) \/ Start!ReadPublic(w)
  PROVE  KeyState'
<1>1. CASE Start!ReadPrivate(w)
  <2> DEFINE label == IF private = Start!Empty THEN "failed" ELSE "readPublic"
             q == [worker[w] EXCEPT !.private = private, !.pc = label]
  <2>1. /\ worker[w].pc = "readPrivate" /\ worker' = [worker EXCEPT ![w] = q]
        /\ UNCHANGED <<private, public>>
    BY <1>1, SeedTypes DEF Start!ReadPrivate, Start!files
  <2>2. q \in Holder /\ q.pc = label /\ q.private = private
    BY SeedTypes DEF Holder, Start!Label
  <2>3. label \in {"failed", "readPublic"} /\ (label = "readPublic" => private # Start!Empty)
    OBVIOUS
  <2> HIDE DEF q, label
  <2>4. worker'[w] = q /\ private # Start!Missing
    BY <2>1, SeedTypes DEF KeyState, FileView
  <2>5. FileView(w)'
    BY <2>1, <2>2, <2>3, <2>4 DEF FileView, Busy
  <2> QED
    BY <2>1, <2>2, <2>3, <2>5, SeedTypes, KeyStill DEF Busy
<1>2. CASE Start!ReadPublic(w)
  <2> DEFINE label == IF public \in {Start!Missing, Start!Empty} THEN "failed" ELSE "schema"
             q == [worker[w] EXCEPT !.public = public, !.pc = label]
  <2>1. /\ worker[w].pc = "readPublic" /\ worker' = [worker EXCEPT ![w] = q]
        /\ UNCHANGED <<private, public>>
    BY <1>2, SeedTypes DEF Start!ReadPublic, Start!files
  <2>2. /\ q \in Holder /\ q.pc = label /\ q.public = public
        /\ q.private = worker[w].private
    BY SeedTypes DEF Holder, Start!Label
  <2>3. /\ label \in {"failed", "schema"}
        /\ label = "schema" => public \notin {Start!Missing, Start!Empty}
    OBVIOUS
  <2> HIDE DEF q, label
  <2>4. worker'[w] = q /\ worker[w].private = private
    BY <2>1, SeedTypes DEF KeyState, FileView
  <2>5. public \notin {Start!Missing, Start!Empty} => Agreed
    <3>1. CASE \E v \in Worker : worker[v].pc \in Busy
      BY <3>1 DEF KeyState, FileView, Busy
    <3>2. CASE \A v \in Worker : worker[v].pc \notin Busy
      BY <3>2 DEF KeyState, Settled
    <3> QED
      BY <3>1, <3>2
  <2>6. FileView(w)'
    BY <2>1, <2>2, <2>3, <2>4, <2>5 DEF FileView, Busy, Agreed
  <2> QED
    BY <2>1, <2>2, <2>3, <2>6, SeedTypes, KeyStill DEF Busy
<1> QED
  BY <1>1, <1>2

LEMMA KeyGenerate ==
  ASSUME SeedInv, KeyState, NEW w \in Worker, Start!GenerateKeys(w)
  PROVE  KeyState'
<1> DEFINE q == [worker[w] EXCEPT !.private = made', !.public = made', !.pc = "openPrivate"]
<1>1. /\ worker[w].pc = "generate" /\ made < MaxPairs /\ made' = made + 1
      /\ worker' = [worker EXCEPT ![w] = q] /\ UNCHANGED <<private, public>>
  BY SeedTypes DEF Start!GenerateKeys, Start!files
<1>2. made' \in Start!Pair /\ made' \notin {Start!Missing, Start!Empty}
  BY <1>1, SeedTypes DEF Start!Pair, Start!Missing, Start!Empty
<1>3. q \in Holder /\ q.pc = "openPrivate" /\ q.private = made' /\ q.public = made'
  BY <1>2, SeedTypes DEF Holder, Start!Label
<1> HIDE DEF q
<1>4. worker'[w] = q /\ private = Start!Missing /\ public = Start!Missing
  BY <1>1, SeedTypes DEF KeyState, FileView
<1>5. FileView(w)'
  BY <1>1, <1>2, <1>3, <1>4 DEF FileView, Busy
<1> QED
  BY <1>1, <1>3, <1>5, SeedTypes, KeyStill DEF Busy

LEMMA KeySave ==
  ASSUME SeedInv, KeyState, NEW w \in Worker,
         \/ Start!OpenPrivate(w)
         \/ Start!WritePrivate(w)
         \/ Start!OpenPublic(w)
         \/ Start!WritePublic(w)
  PROVE  KeyState'
<1>1. PICK label \in {"writePrivate", "openPublic", "writePublic", "schema"} :
        worker' = [worker EXCEPT ![w].pc = label]
  BY DEF Start!OpenPrivate, Start!WritePrivate, Start!OpenPublic, Start!WritePublic, Start!Goto
<1> DEFINE q == [worker[w] EXCEPT !.pc = label]
<1>2. /\ worker' = [worker EXCEPT ![w] = q] /\ q \in Holder /\ q.pc = label
      /\ q.private = worker[w].private /\ q.public = worker[w].public
  BY <1>1, SeedTypes DEF Holder, Start!Label
<1> HIDE DEF q
<1>3. worker'[w] = q /\ worker[w].pc \in Busy /\ FileView(w)
  BY <1>2, SeedTypes DEF KeyState, Busy, Start!OpenPrivate, Start!WritePrivate,
     Start!OpenPublic, Start!WritePublic
<1>4. label = worker'[w].pc
  BY <1>2, <1>3
<1>5. CASE Start!OpenPrivate(w)
  <2>1. /\ worker[w].pc = "openPrivate" /\ label = "writePrivate"
        /\ private' = Start!Empty /\ public' = public
    BY <1>4, <1>5, SeedTypes DEF Start!OpenPrivate, Start!Goto, Holder
  <2>2. FileView(w)' /\ private' # Start!Missing /\ private = Start!Missing
    BY <1>2, <1>3, <2>1, MissingIsNotEmpty DEF FileView, Busy
  <2> QED
    BY <1>2, <1>3, <2>1, <2>2, SeedTypes, KeyWrite DEF Busy
<1>6. CASE Start!WritePrivate(w)
  <2>1. /\ worker[w].pc = "writePrivate" /\ label = "openPublic"
        /\ private' = worker[w].private /\ public' = public
    BY <1>4, <1>6, SeedTypes DEF Start!WritePrivate, Start!Goto, Holder
  <2>2. FileView(w)' /\ private' # Start!Missing /\ private = Start!Empty
    BY <1>2, <1>3, <2>1, MissingIsNotEmpty DEF FileView, Busy
  <2> QED
    BY <1>2, <1>3, <2>1, <2>2, SeedTypes, KeyWrite DEF Busy
<1>7. CASE Start!OpenPublic(w)
  <2>1. /\ worker[w].pc = "openPublic" /\ label = "writePublic"
        /\ public' = Start!Empty /\ private' = private
    BY <1>4, <1>7, SeedTypes DEF Start!OpenPublic, Start!Goto, Holder
  <2>2. FileView(w)' /\ private' # Start!Missing
    BY <1>2, <1>3, <2>1 DEF FileView, Busy
  <2> QED
    BY <1>2, <1>3, <2>1, <2>2, SeedTypes, KeyWrite DEF Busy
<1>8. CASE Start!WritePublic(w)
  <2>1. /\ worker[w].pc = "writePublic" /\ label = "schema"
        /\ public' = worker[w].public /\ private' = private
    BY <1>4, <1>8, SeedTypes DEF Start!WritePublic, Start!Goto, Holder
  <2>2. FileView(w)' /\ private' # Start!Missing /\ Agreed'
    BY <1>2, <1>3, <2>1 DEF FileView, Busy, Agreed
  <2> QED
    BY <1>2, <1>3, <2>1, <2>2, SeedTypes, KeyWrite
<1> QED
  BY <1>5, <1>6, <1>7, <1>8

(* The tables, the defaults and a start or a crash outside of the saving   *)
(* of keys.                                                                *)
LEMMA KeyElsewhere ==
  ASSUME SeedInv, KeyState, NEW w \in Worker, NEW q \in Holder,
         worker' = [worker EXCEPT ![w] = q], UNCHANGED <<private, public>>,
         \/ q.pc \in {"down", "keys", "failed"}
         \/ /\ worker[w].pc \in {"schema", "tables", "seed"} /\ q.pc \in {"tables", "seed", "up"}
            /\ q.private = worker[w].private /\ q.public = worker[w].public,
         worker[w].pc \notin Busy \ {"generate", "openPrivate"}
  PROVE  KeyState'
<1>1. worker'[w] = q /\ FileView(w)
  BY SeedTypes DEF KeyState
<1>2. FileView(w)'
  BY <1>1 DEF FileView, Busy, Agreed
<1> QED
  BY <1>2, SeedTypes, KeyStill DEF Busy

LEMMA KeyTables ==
  ASSUME SeedInv, KeyState, NEW w \in Worker,
         \/ Start!LookUpTables(w)
         \/ Start!CreateTables(w)
         \/ Start!CommitDefaults(w)
         \/ Start!SeedConflict(w)
  PROVE  KeyState'
<1>1. PICK label \in {"tables", "seed", "up", "failed"} :
        worker' = [worker EXCEPT ![w].pc = label]
  BY DEF Start!LookUpTables, Start!CreateTables, Start!CommitDefaults, Start!SeedConflict,
     Start!Goto
<1> DEFINE q == [worker[w] EXCEPT !.pc = label]
<1>2. /\ worker' = [worker EXCEPT ![w] = q] /\ q \in Holder /\ q.pc = label
      /\ q.private = worker[w].private /\ q.public = worker[w].public
  BY <1>1, SeedTypes DEF Holder, Start!Label
<1> HIDE DEF q
<1>3. worker[w].pc \in {"schema", "tables", "seed"} /\ UNCHANGED <<private, public>>
  BY DEF Start!LookUpTables, Start!CreateTables, Start!CommitDefaults, Start!SeedConflict,
     Start!Seeding, Start!files
<1> QED
  BY <1>1, <1>2, <1>3, KeyElsewhere DEF Busy

LEMMA KeySeed ==
  ASSUME SeedInv, KeyState, NEW w \in Worker,
         \/ Start!LookUpDefault(w)
         \/ Start!InsertDefault(w)
         \/ Start!SeedFault(w)
  PROVE  KeyState'
<1>1. worker[w].pc = "seed" /\ UNCHANGED <<private, public>>
  BY DEF Start!LookUpDefault, Start!InsertDefault, Start!SeedFault, Start!Seeding, Start!files
<1>2. worker[w] \in Holder /\ worker' \in [Worker -> Holder]
  BY SeedTypes, LookUpInv, InsertInv, FaultInv DEF SeedInv, Start!TypeOK, Holder
<1> DEFINE q == worker'[w]
<1>3. q.pc \in {"seed", "up"} /\ q.private = worker[w].private /\ q.public = worker[w].public
  BY <1>1, <1>2, SeedTypes
  DEF Start!LookUpDefault, Start!InsertDefault, Start!SeedFault, Holder
<1>4. worker' = [worker EXCEPT ![w] = q]
  BY <1>2, SeedTypes DEF Start!LookUpDefault, Start!InsertDefault, Start!SeedFault
<1>5. q \in Holder
  BY <1>2
<1> HIDE DEF q
<1> QED
  BY <1>1, <1>3, <1>4, <1>5, KeyElsewhere DEF Busy

LEMMA KeyStart ==
  ASSUME SeedInv, KeyState, NEW w \in Worker,
         Start!Start(w) \/ (Start!Crash(w) /\ ~raced')
  PROVE  KeyState'
<1>1. PICK q \in {Start!Worker0, [Start!Worker0 EXCEPT !.pc = "keys"]} :
        worker' = [worker EXCEPT ![w] = q]
  BY DEF Start!Start, Start!Crash
<1>2. worker[w].pc \notin Busy \ {"generate", "openPrivate"} /\ UNCHANGED <<private, public>>
  BY DEF Start!Start, Start!Crash, Start!files, Busy
<1>3. q \in Holder /\ q.pc \in {"down", "keys"}
  BY <1>1, Worker0Type DEF Holder, Start!Label
<1> QED
  BY <1>1, <1>2, <1>3, KeyElsewhere

LEMMA KeyNext == SeedInv /\ KeyInv /\ [Start!Next]_(Start!vars) => KeyInv'
<1> SUFFICES ASSUME SeedInv, KeyInv, [Start!Next]_(Start!vars), ~raced'
             PROVE  KeyState'
  BY DEF KeyInv
<1>1. CASE UNCHANGED Start!vars
  BY <1>1 DEF Start!vars, Start!files, KeyInv, KeyState, OneWrites, Settled, FileView, Agreed
<1>2. CASE Start!Next
  <2>1. PICK w \in Worker : Start!Advance(w) \/ Start!SeedFault(w) \/ Start!Crash(w)
    BY <1>2 DEF Start!Next
  <2>2. ~raced
    BY <2>1 DEF Start!Advance, Start!LoadKeys, Start!Seed, Start!Start, Start!CheckKeys,
       Start!ReadPrivate, Start!ReadPublic, Start!GenerateKeys, Start!OpenPrivate,
       Start!WritePrivate, Start!OpenPublic, Start!WritePublic, Start!LookUpTables,
       Start!CreateTables, Start!LookUpDefault, Start!InsertDefault, Start!CommitDefaults,
       Start!SeedConflict, Start!SeedFault, Start!Crash
  <2>3. KeyState
    BY <2>2 DEF KeyInv
  <2> QED
    BY <2>1, <2>3, KeyCheck, KeyRead, KeyGenerate, KeySave, KeyTables, KeySeed, KeyStart
    DEF Start!Advance, Start!LoadKeys, Start!Seed
<1> QED
  BY <1>1, <1>2

(* What the files of the keys, the worker that saves them and every worker *)
(* that holds a pair have to do with each other.                           *)
THEOREM KeyInvariant == Start!Spec => []KeyInv
<1>1. Start!Init => KeyInv
  <2> SUFFICES ASSUME Start!Init
               PROVE  KeyState
    BY DEF KeyInv
  <2>1. \A w \in Worker : worker[w].pc = "down"
    BY Worker0Type DEF Start!Init
  <2>2. private = Start!Missing /\ public = Start!Missing
    BY DEF Start!Init
  <2> QED
    BY <2>1, <2>2 DEF KeyState, OneWrites, Settled, FileView, Busy
<1> QED
  BY <1>1, SeedInvariant, KeyNext, PTL DEF Start!Spec

(* Unless two workers generated keys at once or one stopped while it saved *)
(* them, all workers that are up hold the pair of the files                *)
(* (RSAKeyManager.load_keys, save_keys).                                   *)
THEOREM WorkersShareKeysAlways == Start!Spec => []WorkersShareKeys
<1>1. KeyInv => WorkersShareKeys
  BY DEF KeyInv, KeyState, FileView, Agreed, WorkersShareKeys, Start!WorkersShareKeys, Start!Up
<1> QED
  BY <1>1, KeyInvariant, PTL
-----------------------------------------------------------------------------
(* The three parts side by side                                            *)

(* Every variable of the three parts keeps its type: what the workers, the *)
(* requests and the tasks hold, and a row that is not committed belongs to *)
(* a worker whose transaction is open.                                     *)
THEOREM ServicesTypeCorrect == MCSpec => []MCTypeOK
<1> DEFINE Inv == MailInv /\ SeedInv /\ LimiterInv
<1>1. MCInit => Inv
  BY MailStarts, SeedStarts, LimiterStarts DEF MCInit
<1>2. Inv /\ [MCNext]_allVars => Inv'
  <2> SUFFICES ASSUME Inv, [MCNext]_allVars
               PROVE  Inv'
    OBVIOUS
  <2>1. [Next]_vars
    BY DEF MCNext, InMail, InStart, InLimiter, allVars
  <2>2. [Start!Next]_(Start!vars)
    BY DEF MCNext, InMail, InStart, InLimiter, allVars, startVars, Start!vars, Start!files
  <2>3. [Limiter!Next]_(Limiter!vars)
    BY DEF MCNext, InMail, InStart, InLimiter, allVars, limiterVars, Limiter!vars, Limiter!history
  <2> QED
    BY <2>1, <2>2, <2>3, MailNext, SeedNext, LimiterNext
<1>3. Inv => MCTypeOK
  BY DEF MailInv, SeedInv, LimiterInv, MCTypeOK
<1> QED
  BY <1>1, <1>2, <1>3, PTL DEF MCSpec
=============================================================================
