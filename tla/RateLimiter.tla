---------------------------- MODULE RateLimiter ----------------------------
(***************************************************************************)
(* RateLimitMiddleware and RateLimiter: a counter per address in Redis     *)
(* that is incremented by every request and is given its time to live by   *)
(* the request that made it.                                               *)
(*                                                                         *)
(* A definition whose name starts with Bug is a faulty variant of the one  *)
(* that follows it, no part of the specification.                          *)
(***************************************************************************)
EXTENDS Naturals, FiniteSets

CONSTANTS
    Req,       \* request slots
    Key,       \* addresses, or user names: the two checks are the same
    None,      \* the absence of a value
    Exempt,    \* public paths; local addresses when developing
    Limit,     \* requests in a window
    Window,    \* the length of a window
    MaxFaults  \* bound on the commands of Redis that fail

VARIABLES
    count,     \* the counters; 0 when there is none
    left,      \* what is left of a counter's time to live; 0 when it has none
    admitted,  \* history: the requests about a counter that were served
    beyond,    \* history: how many of them may be beyond the limit; see LimitHolds
    stuck,     \* history: the counters whose EXPIRE was lost
    faults,    \* history: how many commands have failed
    req        \* what each request in progress holds in its local variables

history == <<admitted, beyond, stuck, faults>>
vars == <<count, left, history, req>>

Label == {"idle", "incr", "expire", "decide", "served", "refused"}

Request == [pc: Label, key: Key \cup {None}, current: 0 .. Limit + 1]

Idle == [pc |-> "idle", key |-> None, current |-> 0]

Mine(r) == req[r].key

Goto(r, label) == req' = [req EXCEPT ![r].pc = label]

(* The requests that a counter has counted within the limit and that are   *)
(* not answered yet.                                                       *)
Counting(k) ==
    {r \in Req : /\ req[r].pc \in {"expire", "decide"}
                 /\ Mine(r) = k
                 /\ req[r].current <= Limit}

(* Counters are compared with 1 and with Limit only: further requests do   *)
(* not tell them apart.                                                    *)
Counted(n) == IF n > Limit THEN n ELSE n + 1

(* The window starts again with every request. *)
BugAllArm(current) == current > 0

(* Which request sets the time to live.                                    *)
Arms(current) == current = 1

-----------------------------------------------------------------------------
(* dispatch: what is exempt, or all when limiting is off, is served        *)
(* without a check.                                                        *)
Dispatch(r, k) ==
    /\ req[r].pc = "idle"
    /\ req' = [req EXCEPT ![r] = [pc |-> IF k \in Exempt THEN "served" ELSE "incr",
                                  key |-> k, current |-> 0]]
    /\ UNCHANGED <<count, left, history>>

Increment(r) ==
    /\ req[r].pc = "incr"
    /\ LET current == Counted(count[Mine(r)]) IN
        /\ count' = [count EXCEPT ![Mine(r)] = current]
        /\ req' = [req EXCEPT ![r].current = current,
                              ![r].pc = IF Arms(current) THEN "expire" ELSE "decide"]
    /\ UNCHANGED <<left, history>>

(* EXPIRE does nothing when the counter is gone by now.                    *)
Arm(k) == left' = [left EXCEPT ![k] = IF count[k] > 0 THEN Window ELSE 0]

SetWindow(r) ==
    /\ req[r].pc = "expire"
    /\ Arm(Mine(r))
    /\ Goto(r, "decide")
    /\ UNCHANGED <<count, history>>

(* The request after the last of the window is let through. *)
BugDecide(r) ==
    /\ req[r].pc = "decide"
    /\ \/ /\ req[r].current <= Limit + 1
          /\ Goto(r, "served")
          /\ admitted' = [admitted EXCEPT ![Mine(r)] = @ + 1]
       \/ /\ req[r].current > Limit + 1
          /\ Goto(r, "refused")
          /\ UNCHANGED admitted
    /\ UNCHANGED <<count, left, beyond, stuck, faults>>

(* is_allowed, and what dispatch makes of it.                              *)
Decide(r) ==
    /\ req[r].pc = "decide"
    /\ \/ /\ req[r].current <= Limit
          /\ Goto(r, "served")
          /\ admitted' = [admitted EXCEPT ![Mine(r)] = @ + 1]
       \/ /\ req[r].current > Limit
          /\ Goto(r, "refused")
          /\ UNCHANGED admitted
    /\ UNCHANGED <<count, left, beyond, stuck, faults>>

(* Redis fails, before or after it has carried out the command, and the    *)
(* request is served.                                                      *)
FailOpen(r) ==
    LET k == Mine(r) IN
    /\ faults < MaxFaults
    /\ \/ req[r].pc \in {"incr", "expire"} /\ UNCHANGED <<count, left>>
       \/ req[r].pc = "incr" /\ count' = [count EXCEPT ![k] = Counted(@)] /\ UNCHANGED left
       \/ req[r].pc = "expire" /\ Arm(k) /\ UNCHANGED count
    /\ Goto(r, "served")
    /\ admitted' = [admitted EXCEPT ![k] = @ + 1]
    /\ beyond' = [beyond EXCEPT ![k] = @ + 1]
    /\ stuck' = stuck \cup {j \in {k} : /\ req[r].pc = "expire" \/ count[j] = 0
                                        /\ count'[j] > 0
                                        /\ left'[j] = 0}
    /\ faults' = faults + 1

Finish(r) ==
    /\ req[r].pc \in {"served", "refused"}
    /\ req' = [req EXCEPT ![r] = Idle]
    /\ UNCHANGED <<count, left, history>>

-----------------------------------------------------------------------------
(* The counters are dropped; who was counted is still to be answered.      *)
Forget(K) ==
    /\ count' = [k \in Key |-> IF k \in K THEN 0 ELSE count[k]]
    /\ admitted' = [k \in Key |-> IF k \in K THEN 0 ELSE admitted[k]]
    /\ beyond' = [k \in Key |-> IF k \in K THEN Cardinality(Counting(k)) ELSE beyond[k]]
    /\ stuck' = stuck \ K
    /\ UNCHANGED <<req, faults>>

(* reset_rate_limit_ip and reset_rate_limit_username, for an operator      *)
Reset(k) ==
    /\ count[k] > 0
    /\ Forget({k})
    /\ left' = [left EXCEPT ![k] = 0]

(* Time passes, and counters lapse.                                        *)
Tick ==
    /\ \E k \in Key : left[k] > 0
    /\ Forget({k \in Key : left[k] = 1})
    /\ left' = [k \in Key |-> IF left[k] = 0 THEN 0 ELSE left[k] - 1]

-----------------------------------------------------------------------------
Init ==
    /\ count = [k \in Key |-> 0]
    /\ left = [k \in Key |-> 0]
    /\ admitted = [k \in Key |-> 0]
    /\ beyond = [k \in Key |-> 0]
    /\ stuck = {}
    /\ faults = 0
    /\ req = [r \in Req |-> Idle]

Advance(r) == Increment(r) \/ SetWindow(r) \/ Decide(r) \/ Finish(r)

Next ==
    \/ \E r \in Req : Advance(r) \/ FailOpen(r) \/ \E k \in Key : Dispatch(r, k)
    \/ \E k \in Key : Reset(k)
    \/ Tick

(* A request goes on, and time passes.                                     *)
Spec == Init /\ [][Next]_vars /\ WF_vars(Tick) /\ \A r \in Req : WF_vars(Advance(r))

-----------------------------------------------------------------------------
(* Properties                                                              *)

(* Every variable has its type.                                            *)
TypeOK ==
    /\ count \in [Key -> 0 .. Limit + 1]
    /\ left \in [Key -> 0 .. Window]
    /\ admitted \in [Key -> Nat]
    /\ beyond \in [Key -> Nat]
    /\ stuck \subseteq Key
    /\ faults \in 0 .. MaxFaults
    /\ req \in [Req -> Request]

(* Between two moments at which a counter is dropped no more requests are  *)
(* served than the limit, however they overlap, apart from those for which *)
(* Redis failed and those that had been counted before and were answered   *)
(* after the counter was dropped.                                          *)
LimitHolds == \A k \in Key : admitted[k] <= Limit + beyond[k]

(* An address that was refused is admitted again, however many requests it *)
(* goes on to send, unless the EXPIRE of its counter was lost.             *)
RefusedIsForgiven ==
    \A k \in Key : count[k] > Limit ~> (count[k] <= Limit \/ k \in stuck)
=============================================================================
