----------------------------- MODULE MailTask -----------------------------
(***************************************************************************)
(* What the code that starts a mail task relies on: the task ends, once,   *)
(* whatever the mail server does, and it says "sent" only when the server  *)
(* has taken the message.  MailDelivery implements it.                     *)
(***************************************************************************)
CONSTANT Mail      \* the mails a run can send

VARIABLES
    fate,          \* of each mail: unborn, pending, sent or lost
    taken          \* the mails the server has taken at least once

vars == <<fate, taken>>

Init ==
    /\ fate = [m \in Mail |-> "unborn"]
    /\ taken = {}

Queue(m) ==
    /\ fate[m] = "unborn"
    /\ fate' = [fate EXCEPT ![m] = "pending"]
    /\ UNCHANGED taken

(* The server takes the message; the task may not have learned of it yet.  *)
Take(m) ==
    /\ fate[m] = "pending"
    /\ taken' = taken \cup {m}
    /\ fate' \in {fate, [fate EXCEPT ![m] = "sent"], [fate EXCEPT ![m] = "lost"]}

(* The task gives up, or its worker stops.                                 *)
Lose(m) ==
    /\ fate[m] = "pending"
    /\ fate' = [fate EXCEPT ![m] = "lost"]
    /\ UNCHANGED taken

Next == \E m \in Mail : Queue(m) \/ Take(m) \/ Lose(m)

(* A task that was started comes to its end.                               *)
Spec == Init /\ [][Next]_vars /\ \A m \in Mail : WF_vars(Take(m) \/ Lose(m))
=============================================================================
