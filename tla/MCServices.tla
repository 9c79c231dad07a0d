---------------------------- MODULE MCServices ----------------------------
(* The start of two workers, the rate limiter and the mail tasks, side by  *)
(* side in one instance: every behaviour is one of one of the three, the   *)
(* two others stay where they start.                                       *)
EXTENDS MailDelivery, FiniteSets

CONSTANTS
    Worker, MaxCrash, MaxPairs,                         \* of Startup
    Req, Key, None, Exempt, Limit, Window, MaxFaults    \* of RateLimiter

ASSUME StartAssumption ==
    /\ Worker \cap {"absent", "committed"} = {}
    /\ MaxCrash \in Nat
    /\ MaxPairs \in Nat

ASSUME LimiterAssumption ==
    /\ IsFiniteSet(Req)
    /\ None \notin Key
    /\ Limit \in Nat \ {0}
    /\ Window \in Nat \ {0}
    /\ MaxFaults \in Nat

VARIABLES
    part,                                                            \* which of the three
    private, public, made, schema, row, worker, crashes, raced,      \* of Startup
    count, left, admitted, beyond, stuck, faults, req                \* of RateLimiter

Start == INSTANCE Startup
Limiter == INSTANCE RateLimiter

startVars == <<private, public, made, schema, row, worker, crashes, raced>>
limiterVars == <<count, left, admitted, beyond, stuck, faults, req>>
allVars == <<part, vars, startVars, limiterVars>>

MCInit ==
    /\ part \in {"mail", "start", "limiter"}
    /\ Init /\ Start!Init /\ Limiter!Init

InMail(A) == part = "mail" /\ A /\ UNCHANGED <<part, startVars, limiterVars>>
InStart(A) == part = "start" /\ A /\ UNCHANGED <<part, vars, limiterVars>>
InLimiter(A) == part = "limiter" /\ A /\ UNCHANGED <<part, vars, startVars>>

MCNext == InMail(Next) \/ InStart(Start!Next) \/ InLimiter(Limiter!Next)

(* The fairness of the three specifications.                               *)
MCSpec ==
    /\ MCInit /\ [][MCNext]_allVars
    /\ \A m \in Mail : WF_allVars(InMail(Work(m)))
    /\ \A w \in Worker : WF_allVars(InStart(Start!Advance(w)))
    /\ WF_allVars(InLimiter(Limiter!Tick))
    /\ \A r \in Req : WF_allVars(InLimiter(Limiter!Advance(r)))

(* The properties of the instances under names of their own; see there.    *)
MCTypeOK == TypeOK /\ Start!TypeOK /\ Limiter!TypeOK
WorkersShareKeys == Start!WorkersShareKeys
UpMeansSeeded == Start!UpMeansSeeded
StartSucceeds == Start!StartSucceeds
LimitHolds == Limiter!LimitHolds
RefusedIsForgiven == Limiter!RefusedIsForgiven
=============================================================================
