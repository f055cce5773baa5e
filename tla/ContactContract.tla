--------------------------- MODULE ContactContract --------------------------
(***************************************************************************)
(* What the contract (policy.yaml, section contact) promises a customer,   *)
(* with no episode, agent or decision in sight: contacts may be made at any*)
(* time, but never closer together than MinGap, never more than Cap within *)
(* Window, and never in quiet hours.                                       *)
(***************************************************************************)
EXTENDS Integers, Sequences

CONSTANTS Customers, MinGap, Window, Cap, Quiet(_)

VARIABLE log                       \* contacts received, by customer

Init == log = [c \in Customers |-> <<>>]

Permitted(past, t) ==
    /\ ~Quiet(t)
    /\ \A i \in 1..Len(past) : t - past[i] >= MinGap
    /\ Len(past) >= Cap => t - past[Len(past) - Cap + 1] >= Window

\* The time is read off the new log, so that the action can be evaluated as a property.
Contact(c) ==
    LET t == log'[c][Len(log[c]) + 1]
    IN  /\ Len(log'[c]) = Len(log[c]) + 1
        /\ t \in Nat
        /\ Permitted(log[c], t)
        /\ log' = [log EXCEPT ![c] = Append(@, t)]

Next == \E c \in Customers : Contact(c)

Spec == Init /\ [][Next]_log
=============================================================================
