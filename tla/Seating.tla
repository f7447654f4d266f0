------------------------------ MODULE Seating ------------------------------
(***************************************************************************)
(* What the table promises about its seats: one seat each, which nobody   *)
(* loses before leaving the channel, and which is open again once the     *)
(* table has dealt with the leave.  Table, the translation of             *)
(* blackjack.cpp, implements this, although it knows a player by the      *)
(* address of an object that may be freed and used again.                 *)
(***************************************************************************)
CONSTANTS
    Users, NoUser,
    Visits,             \* the connections made from one address
    Chairs              \* the seats of players

VARIABLES
    present,            \* who is in the channel
    leaving,            \* who has left it, until the table has dealt with it
    seat                \* who sits where

vars == <<present, leaving, seat>>

\* A person is a connection, at an address; somebody who asks for a seat from
\* outside the channel is known by the address only.
People == Users \X Visits

Guest(u) == <<u, 0>>

Nobody == <<NoUser, 0>>

Init ==
    /\ present = {}
    /\ leaving = {}
    /\ seat = [i \in Chairs |-> Nobody]

Enter(p) ==
    /\ \A q \in present : q[1] # p[1]
    /\ present' = present \cup {p}
    /\ UNCHANGED <<leaving, seat>>

Depart(p) ==
    /\ p \in present
    /\ present' = present \ {p}
    /\ leaving' = leaving \cup {p}
    /\ UNCHANGED seat

Sit(p, i) ==
    /\ seat[i] = Nobody
    /\ \A j \in Chairs : seat[j][1] # p[1]
    /\ seat' = [seat EXCEPT ![i] = p]
    /\ UNCHANGED <<present, leaving>>

\* The seat of p is open again.  Who has left more than once stays in leaving.
Settle(p) ==
    /\ p \in leaving
    /\ leaving' \in {leaving, leaving \ {p}}
    /\ seat' = [i \in Chairs |-> IF seat[i] \in {p, Guest(p[1])} THEN Nobody ELSE seat[i]]
    /\ UNCHANGED present

Next ==
    \/ \E p \in People : Enter(p) \/ Depart(p) \/ Settle(p)
    \/ \E p \in present \cup leaving, i \in Chairs : Sit(p, i)
    \/ \E u \in Users, i \in Chairs : Sit(Guest(u), i)

Spec == Init /\ [][Next]_vars

-----------------------------------------------------------------------------
\* What follows from the promise alone: nobody who is gone for good has a seat,
\* unless it was asked for from outside, and nobody has two.
SeatsKept ==
    /\ \A i \in Chairs :
        \/ seat[i] = Nobody
        \/ seat[i] \in present \cup leaving
        \/ \E u \in Users : seat[i] = Guest(u)
    /\ \A i, j \in Chairs :
        seat[i] # Nobody /\ seat[j] # Nobody /\ seat[i][1] = seat[j][1] => i = j
=============================================================================
