------------------------------- MODULE Roster -------------------------------
(***************************************************************************)
(* What the channels promise about membership: a user is in a channel     *)
(* only while it exists, and it ceases to exist only after it has left    *)
(* every channel.  Channel, the translation of channel.cpp and user.cpp,  *)
(* implements this.                                                        *)
(***************************************************************************)
CONSTANTS Users, Channels

VARIABLES
    exists,             \* the users that exist
    member              \* the pairs <<user, channel>> of members

vars == <<exists, member>>

Init ==
    /\ exists = {}
    /\ member = {}

Appear(u) ==
    /\ u \notin exists
    /\ exists' = exists \cup {u}
    /\ UNCHANGED member

Join(u, c) ==
    /\ u \in exists
    /\ <<u, c>> \notin member
    /\ member' = member \cup {<<u, c>>}
    /\ UNCHANGED exists

Leave(u, c) ==
    /\ u \in exists
    /\ <<u, c>> \in member
    /\ member' = member \ {<<u, c>>}
    /\ UNCHANGED exists

Vanish(u) ==
    /\ u \in exists
    /\ \A c \in Channels : <<u, c>> \notin member
    /\ exists' = exists \ {u}
    /\ UNCHANGED member

Next ==
    \E u \in Users :
        \/ Appear(u)
        \/ Vanish(u)
        \/ \E c \in Channels : Join(u, c) \/ Leave(u, c)

Spec == Init /\ [][Next]_vars
=============================================================================
