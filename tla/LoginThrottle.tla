--------------------------- MODULE LoginThrottle ---------------------------
(***************************************************************************)
(* BruteForceProtection: counters of failed attempts in Redis, one per     *)
(* user name and one per IP address, as the password grant and the         *)
(* confirmation of a password reset use them: read the two counters, judge *)
(* the credentials, then count the failure or clear the counters.  Every   *)
(* Redis command is a step of its own, other requests run in between, and  *)
(* a command may fail: a check that fails lets the request pass, a record  *)
(* or a reset that fails is logged and forgotten.                          *)
(*                                                                         *)
(* A definition whose name starts with Bug is a faulty variant of the one  *)
(* that follows it, no part of the specification.                          *)
(***************************************************************************)
EXTENDS Naturals, FiniteSets

CONSTANTS
    Req,        \* request slots
    Name,       \* user names, as sent by the client, and the one name
                \* "password_reset" that counts the confirmations of everybody
    Ip,         \* client addresses
    NoKey,      \* the absence of a name or an address
    Threshold,  \* settings.brute_force_threshold
    MaxFaults   \* bound: Redis errors and crashes in a run

ASSUME LoginThrottleAssumption ==
    /\ IsFiniteSet(Req)
    /\ Name \cap Ip = {}
    /\ NoKey \notin Name \cup Ip
    /\ Threshold \in Nat \ {0}
    /\ MaxFaults \in Nat

VARIABLES
    count,      \* the integer stored under each key, 0 for a missing key
    ttl,        \* whether the key has a time to live
    att,        \* what each request in flight holds in its local variables
    tried,      \* history: attempts judged and failed since the key was missing
    faults      \* history: how many errors and crashes there were

vars == <<count, ttl, att, tried, faults>>

Key == Name \cup Ip

Limit(k) == IF k \in Name THEN Threshold ELSE 2 * Threshold

Locked(k) == count[k] >= Limit(k)

Final == {"locked", "done"}

Label == {"idle", "checkName", "checkIp", "judge", "incrName", "incrIp", "armName",
          "armIp", "reset"} \cup Final

Attempt == [pc: Label, name: Name \cup {NoKey}, ip: Ip \cup {NoKey},
            nameFirst: BOOLEAN, ipFirst: BOOLEAN]

NoAttempt == [pc |-> "idle", name |-> NoKey, ip |-> NoKey,
              nameFirst |-> FALSE, ipFirst |-> FALSE]

Goto(r, label) == att' = [att EXCEPT ![r].pc = label]

-----------------------------------------------------------------------------
(* is_locked_out                                                           *)

Begin(r, n, i) ==
    /\ att[r].pc = "idle"
    /\ att' = [att EXCEPT ![r] = [NoAttempt EXCEPT !.pc = "checkName", !.name = n, !.ip = i]]
    /\ UNCHANGED <<count, ttl, tried, faults>>

(* The counter has to exceed the threshold. *)
BugCheckName(r) ==
    /\ att[r].pc = "checkName"
    /\ Goto(r, IF count[att[r].name] > Threshold THEN "locked" ELSE "checkIp")
    /\ UNCHANGED <<count, ttl, tried, faults>>

CheckName(r) ==
    /\ att[r].pc = "checkName"
    /\ Goto(r, IF Locked(att[r].name) THEN "locked" ELSE "checkIp")
    /\ UNCHANGED <<count, ttl, tried, faults>>

CheckIp(r) ==
    /\ att[r].pc = "checkIp"
    /\ Goto(r, IF Locked(att[r].ip) THEN "locked" ELSE "judge")
    /\ UNCHANGED <<count, ttl, tried, faults>>

-----------------------------------------------------------------------------
(* The verdict on the credentials or on the reset token                    *)

Fail(r) ==
    /\ att[r].pc = "judge"
    /\ tried' = [k \in Key |-> IF k \in {att[r].name, att[r].ip} THEN tried[k] + 1 ELSE tried[k]]
    /\ Goto(r, "incrName")
    /\ UNCHANGED <<count, ttl, faults>>

Succeed(r) ==
    /\ att[r].pc = "judge"
    /\ Goto(r, "reset")
    /\ UNCHANGED <<count, ttl, tried, faults>>

(* A refusal for another reason (the user of the token is gone, 400) and   *)
(* an error 500 touch no counter.                                          *)
Leave(r) ==
    /\ att[r].pc = "judge"
    /\ Goto(r, "done")
    /\ UNCHANGED <<count, ttl, tried, faults>>

-----------------------------------------------------------------------------
(* record_failed_attempt and reset_failed_attempts                         *)

(* Where a request goes on after its INCRs: to the EXPIREs of the keys     *)
(* that its own INCRs created.                                             *)
AfterIncr(nameFirst, ipFirst) ==
    IF nameFirst THEN "armName" ELSE IF ipFirst THEN "armIp" ELSE "done"

IncrName(r) ==
    /\ att[r].pc = "incrName"
    /\ LET k == att[r].name IN
        /\ count' = [count EXCEPT ![k] = @ + 1]
        /\ att' = [att EXCEPT ![r].pc = "incrIp", ![r].nameFirst = (count[k] = 0)]
    /\ UNCHANGED <<ttl, tried, faults>>

(* The second test is an elif: a request that created both keys arms one. *)
BugIncrIp(r) ==
    /\ att[r].pc = "incrIp"
    /\ LET k == att[r].ip
           first == count[k] = 0 /\ ~att[r].nameFirst IN
        /\ count' = [count EXCEPT ![k] = @ + 1]
        /\ att' = [att EXCEPT ![r].pc = AfterIncr(att[r].nameFirst, first),
                              ![r].ipFirst = first]
    /\ UNCHANGED <<ttl, tried, faults>>

IncrIp(r) ==
    /\ att[r].pc = "incrIp"
    /\ LET k == att[r].ip
           first == count[k] = 0 IN
        /\ count' = [count EXCEPT ![k] = @ + 1]
        /\ att' = [att EXCEPT ![r].pc = AfterIncr(att[r].nameFirst, first),
                              ![r].ipFirst = first]
    /\ UNCHANGED <<ttl, tried, faults>>

(* EXPIRE does nothing to a key that is missing.                           *)
Expire(k) == ttl' = [ttl EXCEPT ![k] = count[k] > 0]

ArmName(r) ==
    /\ att[r].pc = "armName"
    /\ Expire(att[r].name)
    /\ Goto(r, AfterIncr(FALSE, att[r].ipFirst))
    /\ UNCHANGED <<count, tried, faults>>

ArmIp(r) ==
    /\ att[r].pc = "armIp"
    /\ Expire(att[r].ip)
    /\ Goto(r, "done")
    /\ UNCHANGED <<count, tried, faults>>

Forget(K) ==
    /\ count' = [k \in Key |-> IF k \in K THEN 0 ELSE count[k]]
    /\ ttl' = [k \in Key |-> IF k \in K THEN FALSE ELSE ttl[k]]
    /\ tried' = [k \in Key |-> IF k \in K THEN 0 ELSE tried[k]]

(* A success takes one failure back instead of all. *)
BugTakeBack(r) ==
    /\ att[r].pc = "reset"
    /\ count' = [k \in Key |-> IF k \in {att[r].name, att[r].ip} THEN count[k] - 1 ELSE count[k]]
    /\ Goto(r, "done")
    /\ UNCHANGED <<ttl, tried, faults>>

(* The counter of the address survives a success. *)
BugReset(r) ==
    /\ att[r].pc = "reset"
    /\ tried' = [k \in Key |-> IF k \in {att[r].name, att[r].ip} THEN 0 ELSE tried[k]]
    /\ count' = [count EXCEPT ![att[r].name] = 0]
    /\ ttl' = [ttl EXCEPT ![att[r].name] = FALSE]
    /\ Goto(r, "done")
    /\ UNCHANGED faults

Reset(r) ==
    /\ att[r].pc = "reset"
    /\ Forget({att[r].name, att[r].ip})
    /\ Goto(r, "done")
    /\ UNCHANGED faults

(* The request is answered, with 429 when it was locked out.               *)
Finish(r) ==
    /\ att[r].pc \in Final
    /\ att' = [att EXCEPT ![r] = NoAttempt]
    /\ UNCHANGED <<count, ttl, tried, faults>>

-----------------------------------------------------------------------------
(* Failures and time                                                       *)

(* A Redis command fails: a check answers not locked (fail open), a record *)
(* or a reset ends there.                                                  *)
RedisError(r) ==
    /\ att[r].pc \notin Final \cup {"idle", "judge"}
    /\ faults < MaxFaults
    /\ Goto(r, IF att[r].pc \in {"checkName", "checkIp"} THEN "judge" ELSE "done")
    /\ faults' = faults + 1
    /\ UNCHANGED <<count, ttl, tried>>

(* The worker dies or the request is cancelled.                            *)
Crash(r) ==
    /\ att[r].pc # "idle"
    /\ faults < MaxFaults
    /\ att' = [att EXCEPT ![r] = NoAttempt]
    /\ faults' = faults + 1
    /\ UNCHANGED <<count, ttl, tried>>

(* settings.brute_force_lockout_duration has passed since the EXPIRE.      *)
KeyExpires(k) ==
    /\ ttl[k]
    /\ Forget({k})
    /\ UNCHANGED <<att, faults>>

-----------------------------------------------------------------------------
Init ==
    /\ count = [k \in Key |-> 0]
    /\ ttl = [k \in Key |-> FALSE]
    /\ att = [r \in Req |-> NoAttempt]
    /\ tried = [k \in Key |-> 0]
    /\ faults = 0

Advance(r) ==
    \/ CheckName(r)
    \/ CheckIp(r)
    \/ Fail(r)
    \/ Succeed(r)
    \/ Leave(r)
    \/ IncrName(r)
    \/ IncrIp(r)
    \/ ArmName(r)
    \/ ArmIp(r)
    \/ Reset(r)
    \/ Finish(r)

Next ==
    \/ \E r \in Req :
        \/ \E n \in Name, i \in Ip : Begin(r, n, i)
        \/ Advance(r)
        \/ RedisError(r)
        \/ Crash(r)
    \/ \E k \in Key : KeyExpires(k)

Spec == Init /\ [][Next]_vars

(* The event loop resumes a request when Redis has answered, and Redis     *)
(* drops a key whose time to live is over.                                 *)
Fairness ==
    /\ \A r \in Req : WF_vars(Advance(r))
    /\ \A k \in Key : WF_vars(KeyExpires(k))

FairSpec == Spec /\ Fairness

-----------------------------------------------------------------------------
(* Properties                                                              *)

(* Every variable has its type.                                            *)
TypeOK ==
    /\ count \in [Key -> Nat]
    /\ ttl \in [Key -> BOOLEAN]
    /\ att \in [Req -> Attempt]
    /\ tried \in [Key -> Nat]
    /\ faults \in Nat

(* Request r will set the time to live of key k, unless it fails: its INCR *)
(* was the one that created the key.                                       *)
WillArm(r, k) ==
    \/ att[r].name = k /\ att[r].nameFirst /\ att[r].pc \in {"incrIp", "armName"}
    \/ att[r].ip = k /\ att[r].ipFirst /\ att[r].pc \in {"armName", "armIp"}

(* As long as Redis and the workers do not fail, a counter without a time  *)
(* to live is about to get one from the request that created it: no        *)
(* interleaving of failures, successes and expiries leaves a counter that  *)
(* would never be dropped.                                                 *)
CounterHasTtl ==
    faults = 0 => \A k \in Key : count[k] > 0 /\ ~ttl[k] => \E r \in Req : WillArm(r, k)

(* However requests interleave, the attempts judged under a name or an     *)
(* address before it is locked exceed the limit by less than the number of *)
(* requests in flight, plus one for each failure of Redis or of a worker.  *)
AttemptsBounded ==
    \A k \in Key : tried[k] < Limit(k) + Cardinality(Req) + faults

(* Nobody is locked out for failures of an earlier period: but for the     *)
(* requests that were in flight when a counter was dropped, it counts only *)
(* attempts judged since.                                                  *)
CountsAreEarned ==
    \A k \in Key : count[k] <= tried[k] + Cardinality(Req)

(* A lock-out is temporary: a locked name or address is unlocked again.    *)
LockoutIsTemporary ==
    \A k \in Key : Locked(k) ~> ~Locked(k)

=============================================================================
