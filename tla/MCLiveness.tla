---------------------------- MODULE MCLiveness ----------------------------
(* Liveness of the refresh tokens and of the brute-force protection, side  *)
(* by side in one instance.  The two share nothing but the request slots,  *)
(* so a behaviour is about one of them.                                    *)
EXTENDS RefreshTokens

CONSTANTS Name, Ip, NoKey, Threshold, MaxFaults   \* see LoginThrottle

VARIABLES
    count, ttl, att, tried, faults,   \* see LoginThrottle
    part                              \* which of the two runs

Throttle == INSTANCE LoginThrottle

throttleVars == <<count, ttl, att, tried, faults>>

MCInit == Init /\ Throttle!Init /\ part \in {"tokens", "throttle"}

MCNext ==
    /\ UNCHANGED part
    /\ \/ part = "tokens" /\ Next /\ UNCHANGED throttleVars
       \/ part = "throttle" /\ Throttle!Next /\ UNCHANGED vars

(* The fairness of the two specifications: see Fairness in RefreshTokens   *)
(* and in LoginThrottle.                                                   *)
MCSpec ==
    /\ MCInit /\ [][MCNext]_<<vars, throttleVars, part>>
    /\ \A r \in Req : WF_vars(Advance(r)) /\ WF_throttleVars(Throttle!Advance(r))
    /\ \A k \in Throttle!Key : WF_throttleVars(Throttle!KeyExpires(k))

(* See LoginThrottle: a locked name or address is unlocked again.          *)
LockoutIsTemporary == Throttle!LockoutIsTemporary
=============================================================================
