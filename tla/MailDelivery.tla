--------------------------- MODULE MailDelivery ---------------------------
(***************************************************************************)
(* EmailRetryService around SMTPEmailSender: a task per mail that offers   *)
(* the message to the SMTP server, sleeps and offers it again after an     *)
(* error that may pass.  A time-out or a broken connection can come before *)
(* or after the server has taken the message.                              *)
(*                                                                         *)
(* A definition whose name starts with Bug is a faulty variant of the one  *)
(* that follows it, no part of the specification.                          *)
(***************************************************************************)
EXTENDS Naturals

CONSTANTS
    Mail,       \* the mails a run can send
    MaxRetries  \* settings.smtp_max_retries, which every caller passes

ASSUME MailDeliveryAssumption == MaxRetries \in Nat

VARIABLES
    task,       \* the task of each mail
    taken       \* how often the server has taken each mail

vars == <<task, taken>>

Stage == {"unborn", "offer", "sleep", "sent", "lost"}

Unborn == [stage |-> "unborn", attempt |-> 0, doubt |-> 0]

Pending(m) == task[m].stage \in {"offer", "sleep"}

(* What send_email makes of the server's answer: True, False, an error     *)
(* that send_with_retry tries again, or one that it does not.              *)
Verdict == {"accepted", "refused", "temporary", "timeout", "odd"}

(* The errors that leave open whether the server has taken the message.    *)
Ambiguous == {"timeout", "odd"}

MayHaveTaken(v) ==
    IF v = "accepted" THEN {TRUE} ELSE IF v \in Ambiguous THEN BOOLEAN ELSE {FALSE}

Retryable(v) == v \in {"temporary", "timeout"}

(* A permanent refusal is reported as a success. *)
BugAfter(m, v) ==
    IF v \in {"accepted", "refused"} THEN "sent"
    ELSE IF Retryable(v) /\ task[m].attempt < MaxRetries THEN "sleep" ELSE "lost"

(* Where the loop goes on after an attempt.                                *)
After(m, v) ==
    IF v = "accepted" THEN "sent"
    ELSE IF Retryable(v) /\ task[m].attempt < MaxRetries THEN "sleep" ELSE "lost"

-----------------------------------------------------------------------------
(* create_task                                                             *)
Queue(m) ==
    /\ task[m].stage = "unborn"
    /\ task' = [task EXCEPT ![m].stage = "offer"]
    /\ UNCHANGED taken

(* One turn of the loop: send_email and what follows it.                   *)
Offer(m) ==
    /\ task[m].stage = "offer"
    /\ \E v \in Verdict : \E got \in MayHaveTaken(v) :
        /\ taken' = [taken EXCEPT ![m] = IF got THEN @ + 1 ELSE @]
        /\ task' = [task EXCEPT ![m].stage = After(m, v),
                                ![m].doubt = IF v \in Ambiguous THEN @ + 1 ELSE @]

(* The same attempt number is used again. *)
BugWake(m) ==
    /\ task[m].stage = "sleep"
    /\ task' = [task EXCEPT ![m].stage = "offer"]
    /\ UNCHANGED taken

(* The back-off is over.                                                   *)
Wake(m) ==
    /\ task[m].stage = "sleep"
    /\ task' = [task EXCEPT ![m].stage = "offer", ![m].attempt = @ + 1]
    /\ UNCHANGED taken

(* The template cannot be rendered, or the worker stops: nothing restarts  *)
(* the task.                                                               *)
Drop(m) ==
    /\ Pending(m)
    /\ task' = [task EXCEPT ![m].stage = "lost"]
    /\ UNCHANGED taken

-----------------------------------------------------------------------------
Init ==
    /\ task = [m \in Mail |-> Unborn]
    /\ taken = [m \in Mail |-> 0]

Work(m) == Offer(m) \/ Wake(m)

Next == \E m \in Mail : Queue(m) \/ Work(m) \/ Drop(m)

(* The event loop runs every task, and time-outs bound every attempt.      *)
Spec == Init /\ [][Next]_vars /\ \A m \in Mail : WF_vars(Work(m))

-----------------------------------------------------------------------------
(* Properties                                                              *)

(* Every variable has its type.                                            *)
TypeOK ==
    /\ task \in [Mail -> [stage: Stage, attempt: Nat, doubt: Nat]]
    /\ taken \in [Mail -> Nat]

(* The recipient gets a mail twice only when an earlier attempt ended in   *)
(* doubt, and never more often than the configured retries allow.          *)
CopiesBounded ==
    \A m \in Mail :
        /\ taken[m] <= task[m].doubt + 1
        /\ taken[m] <= MaxRetries + 1

Fate(m) == IF Pending(m) THEN "pending" ELSE task[m].stage

(* The retry loop keeps the promise of a mail task, that it ends included. *)
Promise == INSTANCE MailTask WITH
    fate <- [m \in Mail |-> Fate(m)],
    taken <- {m \in Mail : taken[m] > 0}

PromiseSpec == Promise!Spec
=============================================================================
