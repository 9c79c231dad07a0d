------------------------- MODULE AccountDirectory -------------------------
(***************************************************************************)
(* What registration promises: a directory in which no two accounts share  *)
(* an e-mail address or a user name, and in which every call is decided in *)
(* one instant between its arrival and its return: it adds an account when *)
(* both are free at that instant, and is refused only when one is taken.   *)
(* A call that fails before that instant has changed nothing.              *)
(***************************************************************************)
CONSTANTS
    Caller,     \* who calls
    Account,    \* identities of accounts
    Email,
    Name,
    Nil         \* the absence of an address or a name

VARIABLES
    entry,      \* the accounts, by identity
    call        \* what each caller waits for

vars == <<entry, call>>

NoEntry == [status |-> "absent", email |-> Nil, name |-> Nil]
NoCall == [state |-> "none", email |-> Nil, name |-> Nil]

Taken(e, n) ==
    \E a \in Account : entry[a].status = "present" /\ (entry[a].email = e \/ entry[a].name = n)

Settle(c, state) == call' = [call EXCEPT ![c] = [NoCall EXCEPT !.state = state]]

Ask(c, e, n) ==
    /\ call[c] = NoCall
    /\ call' = [call EXCEPT ![c] = [state |-> "asked", email |-> e, name |-> n]]
    /\ UNCHANGED entry

Add(c, a) ==
    /\ call[c].state = "asked"
    /\ ~Taken(call[c].email, call[c].name)
    /\ entry[a] = NoEntry
    /\ entry' = [entry EXCEPT ![a] = [status |-> "present", email |-> call[c].email,
                                      name |-> call[c].name]]
    /\ Settle(c, "added")

Refuse(c) ==
    /\ call[c].state = "asked"
    /\ Taken(call[c].email, call[c].name)
    /\ Settle(c, "refused")
    /\ UNCHANGED entry

Fail(c) ==
    /\ call[c].state = "asked"
    /\ Settle(c, "failed")
    /\ UNCHANGED entry

Return(c) ==
    /\ call[c].state \in {"added", "refused", "failed"}
    /\ call' = [call EXCEPT ![c] = NoCall]
    /\ UNCHANGED entry

Remove(a) ==
    /\ entry[a].status = "present"
    /\ entry' = [entry EXCEPT ![a] = [NoEntry EXCEPT !.status = "deleted"]]
    /\ UNCHANGED call

Init ==
    /\ entry = [a \in Account |-> NoEntry]
    /\ call = [c \in Caller |-> NoCall]

Next ==
    \/ \E c \in Caller :
        \/ \E e \in Email, n \in Name : Ask(c, e, n)
        \/ \E a \in Account : Add(c, a)
        \/ Refuse(c)
        \/ Fail(c)
        \/ Return(c)
    \/ \E a \in Account : Remove(a)

Spec == Init /\ [][Next]_vars
=============================================================================
