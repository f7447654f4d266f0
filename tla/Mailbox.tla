------------------------------ MODULE Mailbox ------------------------------
(***************************************************************************)
(* What user::send promises the rest of the server: a message accepted    *)
(* for a user is put in the user's mailbox, each message leaves the       *)
(* mailbox at most once, and once the connection has failed nothing more  *)
(* leaves it.  Nothing is promised about the order in which messages      *)
(* leave.  WriteQueue, the translation of ws_user.cpp, implements this.   *)
(***************************************************************************)
EXTENDS Sequences

CONSTANT Messages       \* the messages, each of them one call of user::send

VARIABLES
    box,                \* accepted and not yet written
    out,                \* written to the connection, in that order
    broken              \* the connection has failed

vars == <<box, out, broken>>

Init ==
    /\ box = {}
    /\ out = << >>
    /\ broken = FALSE

Accept(m) ==
    /\ \A i \in DOMAIN out : out[i] # m
    /\ m \notin box
    /\ box' = box \cup {m}
    /\ UNCHANGED <<out, broken>>

Deliver(m) ==
    /\ ~broken
    /\ m \in box
    /\ box' = box \ {m}
    /\ out' = Append(out, m)
    /\ UNCHANGED broken

Break ==
    /\ broken' = TRUE
    /\ UNCHANGED <<box, out>>

Next ==
    \/ \E m \in Messages : Accept(m) \/ Deliver(m)
    \/ Break

Spec == Init /\ [][Next]_vars
=============================================================================
