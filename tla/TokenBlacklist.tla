-------------------------- MODULE TokenBlacklist --------------------------
(***************************************************************************)
(* TokenBlacklistService: in Redis, a key per revoked token that lives     *)
(* until the token has expired, and a set of the revoked tokens of each    *)
(* user.  Every command is a step; a pipeline is one step.  Time is read   *)
(* once per call and the commands follow later.                            *)
(*                                                                         *)
(* A definition whose name starts with Bug is a faulty variant of the one  *)
(* that follows it, no part of the specification.                          *)
(***************************************************************************)
EXTENDS RevocableTokens, FiniteSetsExt

CONSTANT
    Req        \* callers

VARIABLES
    now,
    black,     \* when the key of a token lapses; 0 when there is none
    index,     \* the members of the sets of revoked tokens
    lapse,     \* when the set of a user lapses; 0 when it has no time to live
    call,      \* what each call in progress holds in its local variables
    acked,     \* history: the tokens whose revocation was reported
    written    \* history: the tokens whose key was ever written

redis == <<black, index, lapse>>
vars == <<now, redis, call, acked, written>>

Label == {"idle", "setex", "sadd", "expire", "metadata", "pipeline", "exists", "srem",
          "done", "failed"}

Call == [pc: Label, at: Nat, keys: SUBSET Key, user: User \cup {None}, next: Key \cup {None}]

Idle == [pc |-> "idle", at |-> 0, keys |-> {}, user |-> None, next |-> None]

(* is_token_revoked                                                        *)
Revoked(k) == black[k] > now

SetOf(u) == {k \in index : Owner[k] = u}

(* An hour is taken for the longest time to live, not for the shortest. *)
BugTtl(exp, at) == IF exp - at > MinTtl THEN MinTtl ELSE exp - at

Ttl(exp, at) == IF exp - at < MinTtl THEN MinTtl ELSE exp - at

(* What a call holds when it has read the clock.                           *)
Started(label, keys, u) ==
    [pc |-> label, at |-> now, keys |-> keys, user |-> u, next |-> None]

Goto(r, label) == call' = [call EXCEPT ![r].pc = label]

Unexpired(keys, at) == {k \in keys : Exp[k] > at}

Write(keys, at) ==
    /\ black' = [k \in Key |-> IF k \in keys THEN now + Ttl(Exp[k], at) ELSE black[k]]
    /\ written' = written \cup keys

-----------------------------------------------------------------------------
(* revoke_token                                                            *)

(* The clock is read; an expired token is not revoked.                     *)
BeginRevoke(r, k) ==
    /\ call[r].pc = "idle"
    /\ Exp[k] > now
    /\ call' = [call EXCEPT ![r] = Started("setex", {k}, Owner[k])]
    /\ UNCHANGED <<now, redis, acked, written>>

SetKey(r) ==
    /\ call[r].pc = "setex"
    /\ Write(call[r].keys, call[r].at)
    /\ Goto(r, "sadd")
    /\ UNCHANGED <<now, index, lapse, acked>>

AddToSet(r) ==
    /\ call[r].pc = "sadd"
    /\ index' = index \cup call[r].keys
    /\ Goto(r, "expire")
    /\ UNCHANGED <<now, black, lapse, acked, written>>

(* EXPIRE takes the time to live of this token, whatever the others of the *)
(* set need.                                                               *)
ExpireSet(r) ==
    /\ call[r].pc = "expire"
    /\ lapse' = [lapse EXCEPT ![call[r].user] =
                    IF SetOf(call[r].user) = {} THEN 0
                    ELSE now + Max({Ttl(Exp[k], call[r].at) : k \in call[r].keys})]
    /\ Goto(r, "metadata")
    /\ UNCHANGED <<now, black, index, acked, written>>

(* The metadata, which are only read for display, and the answer True.     *)
SetMetadata(r) ==
    /\ call[r].pc = "metadata"
    /\ acked' = acked \cup call[r].keys
    /\ Goto(r, "done")
    /\ UNCHANGED <<now, redis, written>>

-----------------------------------------------------------------------------
(* revoke_all_user_tokens                                                  *)

BeginRevokeAll(r, u, keys) ==
    /\ call[r].pc = "idle"
    /\ call' = [call EXCEPT ![r] = Started(IF keys = {} THEN "done" ELSE "pipeline", keys, u)]
    /\ UNCHANGED <<now, redis, acked, written>>

(* Expired tokens get no key, but join the set when another one does.  The *)
(* answer of the pipeline can get lost.                                    *)
ExecutePipeline(r) ==
    LET c == call[r]
        fresh == Unexpired(c.keys, c.at) IN
    /\ c.pc = "pipeline"
    /\ Write(fresh, c.at)
    /\ IF fresh = {}
       THEN UNCHANGED <<index, lapse>>
       ELSE /\ index' = index \cup c.keys
            /\ lapse' = [lapse EXCEPT ![c.user] =
                            now + Ttl(Max({Exp[k] : k \in c.keys}), c.at)]
    /\ \/ Goto(r, "done") /\ acked' = acked \cup fresh
       \/ Goto(r, "failed") /\ UNCHANGED acked
    /\ UNCHANGED now

-----------------------------------------------------------------------------
(* cleanup_user_tokens                                                     *)

BeginCleanup(r, u) ==
    /\ call[r].pc = "idle"
    /\ SetOf(u) # {}
    /\ call' = [call EXCEPT ![r] = Started("exists", SetOf(u), u)]
    /\ UNCHANGED <<now, redis, acked, written>>

(* The client returns the members as bytes, and formatted into the name of *)
(* a key they read b'...', which is not the name any key is written under. *)
Formatted(k) == None

Exists(name) == name \in Key /\ Revoked(name)

(* The key of the next member is looked up ...                             *)
LookUpKey(r) ==
    /\ call[r].pc = "exists"
    /\ IF call[r].keys = {}
       THEN Goto(r, "done")
       ELSE \E k \in call[r].keys :
                call' = [call EXCEPT ![r].keys = @ \ {k},
                                     ![r].pc = IF Exists(Formatted(k)) THEN "exists"
                                               ELSE "srem",
                                     ![r].next = IF Exists(Formatted(k)) THEN None
                                                 ELSE k]
    /\ UNCHANGED <<now, redis, acked, written>>

(* ... and the member is removed when there was none.                      *)
RemoveMember(r) ==
    /\ call[r].pc = "srem"
    /\ index' = index \ {call[r].next}
    /\ lapse' = [u \in User |-> IF \E k \in index' : Owner[k] = u THEN lapse[u] ELSE 0]
    /\ call' = [call EXCEPT ![r].pc = "exists", ![r].next = None]
    /\ UNCHANGED <<now, black, acked, written>>

-----------------------------------------------------------------------------
(* Redis fails: the exception is raised again to the caller.               *)
Fail(r) ==
    /\ call[r].pc \notin {"idle", "done", "failed"}
    /\ Goto(r, "failed")
    /\ UNCHANGED <<now, redis, acked, written>>

Return(r) ==
    /\ call[r].pc \in {"done", "failed"}
    /\ call' = [call EXCEPT ![r] = Idle]
    /\ UNCHANGED <<now, redis, acked, written>>

(* Time passes; Redis drops what has lapsed.                               *)
Tick ==
    /\ now < MaxTime
    /\ now' = now + 1
    /\ black' = [k \in Key |-> IF black[k] <= now' THEN 0 ELSE black[k]]
    /\ index' = {k \in index : lapse[Owner[k]] = 0 \/ lapse[Owner[k]] > now'}
    /\ lapse' = [u \in User |-> IF lapse[u] <= now' THEN 0 ELSE lapse[u]]
    /\ UNCHANGED <<call, acked, written>>

-----------------------------------------------------------------------------
Init ==
    /\ now = 0
    /\ black = [k \in Key |-> 0]
    /\ index = {}
    /\ lapse = [u \in User |-> 0]
    /\ call = [r \in Req |-> Idle]
    /\ acked = {}
    /\ written = {}

(* One Redis command of a call.                                            *)
Command(r) ==
    \/ SetKey(r)
    \/ AddToSet(r)
    \/ ExpireSet(r)
    \/ SetMetadata(r)
    \/ ExecutePipeline(r)
    \/ LookUpKey(r)
    \/ RemoveMember(r)

Begin(r) ==
    \/ \E k \in Key : BeginRevoke(r, k)
    \/ \E u \in User : BeginCleanup(r, u) \/ \E keys \in SUBSET {k \in Key : Owner[k] = u} :
                                                    BeginRevokeAll(r, u, keys)

Next == Tick \/ \E r \in Req : Begin(r) \/ Command(r) \/ Fail(r) \/ Return(r)

Spec == Init /\ [][Next]_vars

-----------------------------------------------------------------------------
(* Properties                                                              *)

(* Every variable has its type, an empty set has no time to live, and what *)
(* was reported as revoked had its key written.                            *)
TypeOK ==
    /\ now \in 0 .. MaxTime
    /\ black \in [Key -> Nat]
    /\ index \subseteq Key
    /\ lapse \in [User -> Nat]
    /\ call \in [Req -> Call]
    /\ acked \subseteq Key
    /\ written \subseteq Key
    /\ \A u \in User : lapse[u] # 0 => SetOf(u) # {}
    /\ acked \subseteq written

(* A token that was reported as revoked stays in the blacklist for as long *)
(* as it could be used, whatever was revoked, cleaned up or lost since.    *)
BlacklistHolds == \A k \in acked : Exp[k] > now => Revoked(k)

-----------------------------------------------------------------------------
(* What the documentation says and the code does not do                    *)

(* A clean-up takes only expired tokens out of the set of their user.      *)
CleanupSparesRevoked ==
    \A r \in Req : call[r].pc = "srem" => Exp[call[r].next] <= now
=============================================================================
