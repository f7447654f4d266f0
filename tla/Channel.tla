------------------------------ MODULE Channel ------------------------------
(***************************************************************************)
(* The channels and the life of the users in them: insert, erase, send,   *)
(* do_join and do_leave (server/core/channel.cpp), on_insert, on_erase    *)
(* and the destructor (user.cpp), the identify request (system.cpp).      *)
(*                                                                         *)
(* channel keeps raw pointers to its users, user raw pointers to its      *)
(* channels.  Each list has a mutex of its own that is released before    *)
(* the next step, so insert and erase are sequences of atomic steps that  *)
(* interleave with those of other users.  The steps for user u are taken  *)
(* by u's read coroutine, or by u's destructor on whichever thread gave   *)
(* up the last reference to u.                                            *)
(***************************************************************************)
CONSTANTS
    Users,              \* addresses of user objects; one is used again after a free
    Channels,
    Sys,                \* the system channel, which do_identify inserts into
    Tables              \* the channels whose on_insert posts a strong reference

ASSUME SysAssumption == Sys \in Channels

ASSUME TablesAssumption == Tables \subseteq Channels

VARIABLES
    users,              \* users_ of each channel
    channels,           \* channels_ of each user
    state,              \* of the object at each address
    session,            \* users whose read coroutine holds a reference
    posted,             \* users some posted handler or outstanding write refers to
    named,              \* users with a name that is not empty
    at,                 \* how far insert or erase has got for each user
    op,                 \* which of the two it is
    chan,               \* on which channel
    todo                \* the weak pointers in channel::send's local list v

vars == <<users, channels, state, session, posted, named, at, op, chan, todo>>

Init ==
    /\ users = [c \in Channels |-> {}]
    /\ channels = [u \in Users |-> {}]
    /\ state = [u \in Users |-> "free"]
    /\ session = {}
    /\ posted = {}
    /\ named = {}
    /\ at = [u \in Users |-> "idle"]
    /\ op = [u \in Users |-> "erase"]
    /\ chan = [u \in Users |-> Sys]
    /\ todo = [u \in Users |-> {}]

-----------------------------------------------------------------------------
\* insert: users_.insert(&u), under the channel's mutex
InsertList(u, c) ==
    /\ u \notin users[c]
    /\ users' = [users EXCEPT ![c] = @ \cup {u}]
    /\ at' = [at EXCEPT ![u] = "snapshot"]
    /\ op' = [op EXCEPT ![u] = "insert"]
    /\ chan' = [chan EXCEPT ![u] = c]
    /\ UNCHANGED <<channels, state, session, posted, todo>>

\* Faulty variant: the result of users_.erase is ignored.
EraseListBlind(u, c) ==
    /\ users' = [users EXCEPT ![c] = @ \ {u}]
    /\ at' = [at EXCEPT ![u] = "snapshot"]
    /\ op' = [op EXCEPT ![u] = "erase"]
    /\ chan' = [chan EXCEPT ![u] = c]
    /\ UNCHANGED <<channels, state, session, posted, todo>>

\* erase: users_.erase(&u), under the channel's mutex
EraseList(u, c) ==
    /\ u \in users[c]
    /\ users' = [users EXCEPT ![c] = @ \ {u}]
    /\ at' = [at EXCEPT ![u] = "snapshot"]
    /\ op' = [op EXCEPT ![u] = "erase"]
    /\ chan' = [chan EXCEPT ![u] = c]
    /\ UNCHANGED <<channels, state, session, posted, todo>>

\* The last reference to u is gone: ~user begins, and every weak pointer to u
\* has expired for good, even if the address is used again.
Expire(u) ==
    /\ state' = [state EXCEPT ![u] = "dying"]
    /\ todo' = [v \in Users |-> todo[v] \ {u}]

-----------------------------------------------------------------------------
\* A websocket session is created for a client.
Connect(u) ==
    /\ state[u] = "free"
    /\ state' = [state EXCEPT ![u] = "live"]
    /\ session' = session \cup {u}
    /\ named' = named \ {u}
    /\ UNCHANGED <<users, channels, posted, at, op, chan, todo>>

\* u's coroutine is running and about to dispatch a request.
Ready(u) == u \in session /\ at[u] = "idle"

\* A name may be empty, and is then no name: u is in the system channel all the
\* same, and may identify itself again, when insert finds it there.
do_identify(u) ==
    /\ Ready(u)
    /\ u \notin named
    /\ named' \in {named, named \cup {u}}
    /\ \/ InsertList(u, Sys)
       \/ /\ u \in users[Sys]
          /\ UNCHANGED <<users, channels, state, session, posted, at, op, chan, todo>>

\* Faulty variant: checked_user is left out.
do_joinUnchecked(u, c) ==
    /\ Ready(u)
    /\ InsertList(u, c)
    /\ UNCHANGED named

do_join(u, c) ==
    /\ Ready(u)
    /\ u \in named
    /\ InsertList(u, c)
    /\ UNCHANGED named

do_leave(u, c) ==
    /\ Ready(u)
    /\ EraseList(u, c)
    /\ UNCHANGED named

-----------------------------------------------------------------------------
\* The rest of insert and erase, for the user u and the channel chan[u].

\* send: copy weak pointers to the channel's users, under its mutex
Snapshot(u) ==
    /\ at[u] = "snapshot"
    /\ todo' = [todo EXCEPT ![u] = {v \in users[chan[u]] : state[v] = "live"}]
    /\ at' = [at EXCEPT ![u] = "send"]
    /\ UNCHANGED <<users, channels, state, session, posted, named, op, chan>>

\* send: lock one weak pointer and send to that user.  The handler or write
\* that sending starts refers to the user; a pointer that has expired is no
\* longer in todo.
SendTo(u, v) ==
    /\ at[u] = "send"
    /\ v \in todo[u]
    /\ todo' = [todo EXCEPT ![u] = @ \ {v}]
    /\ posted' = posted \cup {v}
    /\ UNCHANGED <<users, channels, state, session, named, at, op, chan>>

\* send: the loop over the local list is done
SendDone(u) ==
    /\ at[u] = "send"
    /\ todo[u] = {}
    /\ at' = [at EXCEPT ![u] = IF op[u] = "erase" THEN "self" ELSE "note"]
    /\ UNCHANGED <<users, channels, state, session, posted, named, op, chan, todo>>

\* erase: also notify the user, if still connected
SendSelf(u) ==
    /\ at[u] = "self"
    /\ at' = [at EXCEPT ![u] = "note"]
    /\ posted' = IF state[u] = "live" THEN posted \cup {u} ELSE posted
    /\ UNCHANGED <<users, channels, state, session, named, op, chan, todo>>

\* Faulty variant: user::on_erase does not drop the channel.
NoteInsertOnly(u) ==
    /\ at[u] = "note"
    /\ at' = [at EXCEPT ![u] = "hook"]
    /\ channels' = [channels EXCEPT ![u] = @ \cup {chan[u]}]
    /\ UNCHANGED <<users, state, session, posted, named, op, chan, todo>>

\* user::on_insert or user::on_erase, under the user's mutex
Note(u) ==
    /\ at[u] = "note"
    /\ at' = [at EXCEPT ![u] = "hook"]
    /\ channels' = [channels EXCEPT ![u] =
            IF op[u] = "insert" THEN @ \cup {chan[u]} ELSE @ \ {chan[u]}]
    /\ UNCHANGED <<users, state, session, posted, named, op, chan, todo>>

\* The channel's own on_insert or on_erase.  A table posts do_insert with a
\* strong reference and do_erase with a plain one; other channels do nothing.
Hook(u) ==
    /\ at[u] = "hook"
    /\ at' = [at EXCEPT ![u] = "idle"]
    /\ posted' = IF op[u] = "insert" /\ chan[u] \in Tables
                 THEN posted \cup {u} ELSE posted
    /\ op' = [op EXCEPT ![u] = "erase"]
    /\ chan' = [chan EXCEPT ![u] = Sys]
    /\ UNCHANGED <<users, channels, state, session, named, todo>>

-----------------------------------------------------------------------------
\* The coroutine ends between two requests: a read error, or text that is not
\* JSON.
EndSession(u) ==
    /\ Ready(u)
    /\ session' = session \ {u}
    /\ IF u \in posted THEN UNCHANGED <<state, todo>> ELSE Expire(u)
    /\ UNCHANGED <<users, channels, posted, named, at, op, chan>>

\* All the posted handlers and writes that refer to u have run.
Release(u) ==
    /\ u \in posted
    /\ posted' = posted \ {u}
    /\ IF u \in session THEN UNCHANGED <<state, todo>> ELSE Expire(u)
    /\ UNCHANGED <<users, channels, session, named, at, op, chan>>

\* ~user: one round of the loop
DestroyOne(u, c) ==
    /\ state[u] = "dying"
    /\ at[u] = "idle"
    /\ c \in channels[u]
    /\ EraseList(u, c)
    /\ UNCHANGED named

\* Faulty variant: the object is freed without leaving its channels.
FreeEarly(u) ==
    /\ state[u] = "dying"
    /\ at[u] = "idle"
    /\ state' = [state EXCEPT ![u] = "free"]
    /\ UNCHANGED <<users, channels, session, posted, named, at, op, chan, todo>>

\* ~user: the loop is done and the object is freed
Free(u) ==
    /\ state[u] = "dying"
    /\ at[u] = "idle"
    /\ channels[u] = {}
    /\ state' = [state EXCEPT ![u] = "free"]
    /\ UNCHANGED <<users, channels, session, posted, named, at, op, chan, todo>>

-----------------------------------------------------------------------------
\* What the thread that runs insert, erase or ~user for u does next
Step(u) ==
    \/ Snapshot(u)
    \/ \E v \in Users : SendTo(u, v)
    \/ SendDone(u)
    \/ SendSelf(u)
    \/ Note(u)
    \/ Hook(u)
    \/ \E c \in Channels : DestroyOne(u, c)
    \/ Free(u)

Next ==
    \E u \in Users :
        \/ Connect(u)
        \/ do_identify(u)
        \/ \E c \in Channels : do_join(u, c) \/ do_leave(u, c)
        \/ Step(u)
        \/ EndSession(u)
        \/ Release(u)

Spec == Init /\ [][Next]_vars

\* A thread inside insert, erase or ~user goes on, and posted handlers and
\* writes complete.  Clients need do nothing.
Fairness == \A u \in Users : WF_vars(Step(u)) /\ WF_vars(Release(u))

FairSpec == Spec /\ Fairness

-----------------------------------------------------------------------------
TypeOK ==
    /\ users \in [Channels -> SUBSET Users]
    /\ channels \in [Users -> SUBSET Channels]
    /\ state \in [Users -> {"free", "live", "dying"}]
    /\ session \in SUBSET Users
    /\ posted \in SUBSET Users
    /\ named \in SUBSET Users
    /\ at \in [Users -> {"idle", "snapshot", "send", "self", "note", "hook"}]
    /\ op \in [Users -> {"insert", "erase"}]
    /\ chan \in [Users -> Channels]
    /\ todo \in [Users -> SUBSET Users]
    /\ \A u \in Users :
        /\ at[u] = "self" => op[u] = "erase"
        /\ at[u] # "send" => todo[u] = {}

\* channel::send dereferences every pointer in users_ (weak_from(p)): none of
\* them designates an object that has been freed, whatever insert, erase and
\* ~user are doing on other threads.
MemberExists == \A c \in Channels : \A u \in users[c] : state[u] # "free"

\* Between operations the two lists say the same: users_ of the channel and
\* channels_ of the user.  ~user relies on it to terminate, since it loops
\* until channels_ is empty and erase drops an entry only if users_ had one.
ListsAgree ==
    \A u \in Users, c \in Channels :
        at[u] = "idle" => (u \in users[c] <=> c \in channels[u])

\* The BOOST_VERIFYs of user::on_insert and user::on_erase: the channel was
\* not in channels_ before, respectively was.
VerifyHolds ==
    \A u \in Users :
        at[u] = "note" => (op[u] = "insert" <=> chan[u] \notin channels[u])

\* checked_user's rule, long after do_join checked it: the members of a channel
\* have a name.  The system channel is the exception, since do_identify inserts
\* a user that gives an empty one.
MembersNamed == \A c \in Channels \ {Sys} : users[c] \subseteq named

\* No thread can revive a user that is being destroyed: nothing refers to it.
NoRevival ==
    \A u \in Users : state[u] # "live" =>
        /\ u \notin session \cup posted
        /\ \A v \in Users : u \notin todo[v]

\* The inductive invariant.  Before user::on_insert or user::on_erase the two
\* lists differ, in the way the operation says; at any other time they agree.
Noting(u, c) == chan[u] = c /\ at[u] \in {"snapshot", "send", "self", "note"}

Lists ==
    \A u \in Users, c \in Channels :
        /\ Noting(u, c) => /\ u \in users[c] <=> op[u] = "insert"
                           /\ c \in channels[u] <=> op[u] = "erase"
        /\ ~Noting(u, c) => (u \in users[c] <=> c \in channels[u])

\* Who may refer to u in each state of its life
Lifetime ==
    \A u \in Users :
        /\ state[u] = "live" <=> u \in session \cup posted
        /\ state[u] = "live" /\ at[u] # "idle" => u \in session
        /\ state[u] = "dying" /\ at[u] # "idle" => op[u] = "erase"
        /\ state[u] = "free" => at[u] = "idle" /\ channels[u] = {}
        /\ \A v \in todo[u] : state[v] = "live"

IInv == TypeOK /\ Lists /\ Lifetime /\ MembersNamed

\* Membership as the abstract roster has it
Members == {p \in Users \X Channels : p[1] \in users[p[2]]}

R == INSTANCE Roster WITH
        exists <- {u \in Users : state[u] # "free"}, member <- Members

\* A user object is freed only when it has left every channel, and joins and
\* leaves one channel at a time: insert, erase and ~user implement the roster.
RosterSpec == R!Spec

\* A client that is gone is cleared away in the end: its object is destroyed,
\* out of every channel, whatever broadcasts are still under way to it.
DisconnectCleansUp ==
    \A u \in Users :
        (state[u] # "free" /\ u \notin session) ~> (state[u] = "free")
=============================================================================
