------------------------------- MODULE Table -------------------------------
(***************************************************************************)
(* The blackjack table (class table, server/core/blackjack.cpp): a        *)
(* channel whose handlers run one at a time on the strand of its timer.   *)
(* Sessions on other threads put handlers on that strand: do_insert and   *)
(* the requests with a strong reference to the user, do_erase with a      *)
(* plain one.  A user's object goes through its life, and its place in    *)
(* users_, as in Channel, with insert and erase cut down to the two steps *)
(* that matter here: the change of users_ and the call of on_insert or    *)
(* on_erase.                                                               *)
(***************************************************************************)
EXTENDS Game, Sequences

CONSTANTS
    Methods,            \* the requests that clients make
    JoinFirst,          \* clients make them only while in the channel: the
                        \* page does, the table does not insist
    MaxEpoch,           \* bound: how often one address is used
    MaxQueue,           \* bound: handlers on the strand when a client acts
    MaxWager            \* bound: no bet is made above it

ASSUME MethodsAssumption ==
    Methods \subseteq {"play", "watch", "bet", "start", "hit", "stand"}

ASSUME BoundsAssumption ==
    /\ JoinFirst \in BOOLEAN
    /\ MaxEpoch \in Nat \ {0} /\ MaxQueue \in Nat \ {0} /\ MaxWager \in Nat

VARIABLES
    life,               \* of the object at each address
    epoch,              \* how many objects each address has held
    session,            \* users whose read coroutine runs
    users,              \* users_ of the channel
    phase,              \* insert or erase under way for a user
    strand,             \* handlers on the table's strand, oldest first
    g,                  \* g_
    holder,             \* history: the epoch of the user that took each seat,
                        \* 0 if it asked for it from outside the channel
    synced,             \* history: users last sent the game as it is now
    crashed             \* why the program is undefined or has terminated

vars == <<life, epoch, session, users, phase, strand, g, holder, synced, crashed>>

\* A handler, the user it was posted for, that user's epoch, and whether the
\* user was in the channel then (e and member are history)
Handler == [op : Methods \cup {"insert", "erase"}, u : Users, e : 1 .. MaxEpoch,
            member : BOOLEAN]

Bound(op, u) == [op |-> op, u |-> u, e |-> epoch[u], member |-> u \in users]

Init ==
    /\ life = [u \in Users |-> "free"]
    /\ epoch = [u \in Users |-> 0]
    /\ session = {}
    /\ users = {}
    /\ phase = [u \in Users |-> "idle"]
    /\ strand = << >>
    /\ g \in NewGames
    /\ holder = [i \in Seats |-> 0]
    /\ synced = {}
    /\ crashed = "no"

-----------------------------------------------------------------------------
\* Faulty variant: a handler overtakes those that are waiting.
postFront(op, u) ==
    strand' = <<Bound(op, u)>> \o strand

\* table::post
post(op, u) == strand' = Append(strand, Bound(op, u))

Ready(u) == crashed = "no" /\ u \in session /\ phase[u] = "idle"

GameUnchanged == UNCHANGED <<g, holder, synced, crashed>>

Connect(u) ==
    /\ crashed = "no"
    /\ life[u] = "free"
    /\ epoch[u] < MaxEpoch
    /\ life' = [life EXCEPT ![u] = "live"]
    /\ epoch' = [epoch EXCEPT ![u] = @ + 1]
    /\ session' = session \cup {u}
    /\ synced' = synced \ {u}
    /\ UNCHANGED <<users, phase, strand, g, holder, crashed>>

\* channel::insert, up to the call of on_insert
Join(u) ==
    /\ Ready(u)
    /\ u \notin users
    /\ Len(strand) < MaxQueue
    /\ users' = users \cup {u}
    /\ phase' = [phase EXCEPT ![u] = "inserting"]
    /\ UNCHANGED <<life, epoch, session, strand>>
    /\ GameUnchanged

\* channel::erase, up to the call of on_erase
Leave(u) ==
    /\ Ready(u)
    /\ u \in users
    /\ users' = users \ {u}
    /\ phase' = [phase EXCEPT ![u] = "erasing"]
    /\ UNCHANGED <<life, epoch, session, strand>>
    /\ GameUnchanged

on_insert(u) ==
    /\ crashed = "no"
    /\ phase[u] = "inserting"
    /\ post("insert", u)
    /\ phase' = [phase EXCEPT ![u] = "idle"]
    /\ UNCHANGED <<life, epoch, session, users>>
    /\ GameUnchanged

\* Faulty variant: on_erase does not post do_erase.
on_eraseNothing(u) ==
    /\ crashed = "no"
    /\ phase[u] = "erasing"
    /\ phase' = [phase EXCEPT ![u] = "idle"]
    /\ UNCHANGED <<life, epoch, session, users, strand>>
    /\ GameUnchanged

on_erase(u) ==
    /\ crashed = "no"
    /\ phase[u] = "erasing"
    /\ post("erase", u)
    /\ phase' = [phase EXCEPT ![u] = "idle"]
    /\ UNCHANGED <<life, epoch, session, users>>
    /\ GameUnchanged

\* on_dispatch.  The table does not ask whether u is in the channel.
on_dispatch(u, m) ==
    /\ Ready(u)
    /\ JoinFirst => u \in users
    /\ Len(strand) < MaxQueue
    /\ m = "bet" => \A i \in Seats : g.seat[i].wager < MaxWager
    /\ post(m, u)
    /\ UNCHANGED <<life, epoch, session, users, phase>>
    /\ GameUnchanged

EndSession(u) ==
    /\ Ready(u)
    /\ session' = session \ {u}
    /\ UNCHANGED <<life, epoch, users, phase, strand>>
    /\ GameUnchanged

\* A handler bound to do_erase does not keep its user alive, the others do.
Referenced(u) ==
    \/ u \in session
    \/ \E k \in DOMAIN strand : strand[k].u = u /\ strand[k].op # "erase"

\* The last reference is gone; messages on their way to u may delay this.
Expire(u) ==
    /\ crashed = "no"
    /\ life[u] = "live"
    /\ ~Referenced(u)
    /\ life' = [life EXCEPT ![u] = "dying"]
    /\ UNCHANGED <<epoch, session, users, phase, strand>>
    /\ GameUnchanged

\* ~user leaves the channel, if it is in it ...
Destroy(u) ==
    /\ crashed = "no"
    /\ life[u] = "dying"
    /\ phase[u] = "idle"
    /\ u \in users
    /\ users' = users \ {u}
    /\ phase' = [phase EXCEPT ![u] = "erasing"]
    /\ UNCHANGED <<life, epoch, session, strand>>
    /\ GameUnchanged

\* ... and then the object is freed.
Free(u) ==
    /\ crashed = "no"
    /\ life[u] = "dying"
    /\ phase[u] = "idle"
    /\ u \notin users
    /\ life' = [life EXCEPT ![u] = "free"]
    /\ UNCHANGED <<epoch, session, users, phase, strand>>
    /\ GameUnchanged

-----------------------------------------------------------------------------
\* The handlers.  Each is at the front of the strand when it runs.
Run(op) ==
    /\ crashed = "no"
    /\ strand # << >>
    /\ Head(strand).op = op
    /\ strand' = Tail(strand)
    /\ UNCHANGED <<life, epoch, session, users, phase>>

Who == Head(strand).u

\* seat::to_json reads u->name of every seat that is taken.
NamesReadable(h) == \A i \in Seats : Taken(h, i) => life[h.seat[i].u] # "free"

\* The game becomes h without anybody being told.
Quietly(h) ==
    /\ g' = h
    /\ synced' = IF h = g THEN synced ELSE {}
    /\ UNCHANGED crashed

\* The game becomes h, and update sends it to every user in the channel that
\* is alive.
update(h) ==
    /\ g' = h
    /\ IF NamesReadable(h)
       THEN /\ synced' = (IF h = g THEN synced ELSE {})
                            \cup {u \in users : life[u] = "live"}
            /\ UNCHANGED crashed
       ELSE crashed' = "dangling" /\ UNCHANGED synced

do_insert ==
    /\ Run("insert")
    /\ IF NamesReadable(g)
       THEN synced' = synced \cup {Who} /\ UNCHANGED crashed
       ELSE crashed' = "dangling" /\ UNCHANGED synced
    /\ UNCHANGED <<g, holder>>

do_erase ==
    /\ Run("erase")
    /\ LET r == surrender(g, Who) IN
        IF r.ec = "none" THEN update(r.g) ELSE Quietly(g)
    /\ UNCHANGED holder

do_play ==
    /\ Run("play")
    /\ LET r == join(g, Who) IN
        IF r.ec = "none"
        THEN /\ update(r.g)
             /\ holder' = [holder EXCEPT ![find(r.g, Who)] =
                    IF Head(strand).member THEN Head(strand).e ELSE 0]
        ELSE Quietly(g) /\ UNCHANGED holder

do_watch ==
    /\ Run("watch")
    /\ LET r == leave(g, Who) IN
        IF r.ec = "none" THEN update(r.g) ELSE Quietly(g)
    /\ UNCHANGED holder

\* Faulty variant: on_game_bet does not update.
do_betQuiet ==
    /\ Run("bet")
    /\ Quietly(bet(g, Who).g)
    /\ UNCHANGED holder

do_bet ==
    /\ Run("bet")
    /\ LET r == bet(g, Who) IN
        IF r.ec = "none" THEN update(r.g) ELSE Quietly(g)
    /\ UNCHANGED holder

\* do_start does not catch length_error: the thread, and so the program, ends.
do_start ==
    /\ Run("start")
    /\ LET r == deal_one(g) IN
        IF r.ec = "none" THEN update(r.g)
        ELSE crashed' = "overflow" /\ UNCHANGED <<g, synced>>
    /\ UNCHANGED holder

\* do_hit and do_stand only answer.
do_hit_stand ==
    /\ Run("hit") \/ Run("stand")
    /\ GameUnchanged

Handle ==
    \/ do_insert \/ do_erase \/ do_play \/ do_watch
    \/ do_bet \/ do_start \/ do_hit_stand

Finish(u) == on_insert(u) \/ on_erase(u) \/ Expire(u) \/ Destroy(u) \/ Free(u)

Next ==
    \/ \E u \in Users :
        \/ Connect(u) \/ Join(u) \/ Leave(u) \/ EndSession(u)
        \/ \E m \in Methods : on_dispatch(u, m)
        \/ Finish(u)
    \/ Handle

Spec == Init /\ [][Next]_vars

\* The strand runs its handlers, and a thread inside insert, erase or ~user
\* goes on.  Clients need do nothing.
Fairness == WF_vars(Handle) /\ \A u \in Users : WF_vars(Finish(u))

FairSpec == Spec /\ Fairness

-----------------------------------------------------------------------------
TypeOK ==
    /\ life \in [Users -> {"free", "live", "dying"}]
    /\ epoch \in [Users -> 0 .. MaxEpoch]
    /\ session \in SUBSET Users
    /\ users \in SUBSET Users
    /\ phase \in [Users -> {"idle", "inserting", "erasing"}]
    /\ strand \in Seq(Handler)
    /\ g \in Game
    /\ holder \in [Seats -> 0 .. MaxEpoch]
    /\ synced \in SUBSET Users
    /\ crashed \in {"no", "dangling", "overflow"}

\* A user has at most one seat, and never the dealer's, whose index find
\* returns for "none".
OneSeatPerUser ==
    /\ g.seat[0].state = "dealer" /\ g.seat[0].u = NoUser
    /\ \A i, j \in Seats :
        Taken(g, i) /\ Taken(g, j) /\ g.seat[i].u = g.seat[j].u => i = j

\* Hands are cleared one at a time and whenever a player leaves, and dealt to
\* in turn for ever, yet none gets ahead of the dealer's, which is never cleared:
\* no player's hand is the first to be full, and start can be called for as many
\* rounds as a hand holds cards before push_back throws.
DealsInTurn ==
    \A i \in Seats :
        LET due == g.turn # 0 /\ i >= g.turn IN
        g.seat[i].cards + (IF due THEN 1 ELSE 0) <= g.seat[0].cards

\* The handler do_erase of the user that took seat i is still to come.
EraseToCome(i) ==
    LET u == g.seat[i].u IN
    \/ epoch[u] = holder[i] /\ (u \in users \/ phase[u] = "erasing")
    \/ \E k \in DOMAIN strand :
        strand[k].op = "erase" /\ strand[k].u = u /\ strand[k].e = holder[i]

\* The seats whose players asked for them from inside the channel.  Only these
\* are sure to be given up: on_erase is not called for the others.
MemberSeats == {i \in Seats : Taken(g, i) /\ holder[i] # 0}

\* No seat taken from inside the channel is kept by a user that is gone: its
\* user is still in the channel, or the do_erase that will free the seat has
\* been, or is about to be, posted.
NoLostSeat == \A i \in MemberSeats : EraseToCome(i)

\* A do_erase that arrives after its user was freed and the address used again
\* never takes the seat of the new user, nor does any other handler change a
\* seat that belongs to somebody else, but for the cards dealt to it.
OwnSeatOnly ==
    [][\A i \in MemberSeats :
        LET s == g.seat[i] IN
        [g'.seat[i] EXCEPT !.cards = s.cards] # s
            => Who = s.u /\ Head(strand).e = holder[i]]_vars

\* Whom Seating calls present, leaving and seated: the user of an address is
\* told from the others it had by the epoch.
Present == {<<u, epoch[u]>> : u \in users}

Erasing == {<<u, epoch[u]>> : u \in {v \in Users : phase[v] = "erasing"}}

Queued ==
    {<<strand[k].u, strand[k].e>> : k \in {j \in DOMAIN strand : strand[j].op = "erase"}}

Sitting ==
    [i \in Seats \ {0} |->
        IF Taken(g, i) THEN <<g.seat[i].u, holder[i]>> ELSE <<NoUser, 0>>]

\* The table keeps the promise of Seating: its handlers know a player by an
\* address, run after the player has left or been freed, and may find the next
\* user of the address there, yet each seat is taken once, kept until its own
\* user has left, and open again when do_erase has run.
Promise == INSTANCE Seating WITH
    Visits <- 1 .. MaxEpoch,
    Chairs <- Seats \ {0},
    present <- Present,
    leaving <- Erasing \cup Queued,
    seat <- Sitting
SeatingSpec == Promise!Spec

\* The users of the table live as Roster says, which Channel implements: the
\* short insert, erase and ~user of this module allow nothing that the long ones
\* of Channel exclude.
Members == INSTANCE Roster WITH
    Channels <- {"table"},
    exists <- {u \in Users : life[u] # "free"},
    member <- users \X {"table"}
TableRoster == Members!Spec

\* A user in the channel whose do_insert has run has last been sent the game
\* as it is: no change of the game goes unannounced, whenever the user joined.
NoMissedUpdate ==
    \A u \in users :
        \/ u \in synced
        \/ crashed # "no" \/ life[u] # "live" \/ phase[u] = "inserting"
        \/ \E k \in DOMAIN strand : strand[k].op = "insert" /\ strand[k].u = u

\* Bets move chips and never make any: the chips and the wager of a seat add
\* up to what the seat began with, or to the stake clear gives it.
ChipsConserved ==
    \A i \in Seats : g.seat[i].chips + g.seat[i].wager \in InitChips \cup {Stake}

\* The user that took seat i from inside the channel is not in it any more.
Abandoned(i) ==
    LET u == g.seat[i].u IN
    i \in MemberSeats /\ ~(epoch[u] = holder[i] /\ u \in users)

\* The seat of a user that has left is open again in the end, though the user may
\* be gone, be back, or have a successor at its address by then, unless the
\* program has come to a bad end before.
SeatFreed ==
    \A i \in Seats \ {0} : Abandoned(i) ~> (~Taken(g, i) \/ crashed # "no")

\* user.hpp: "Represents a connected user".  The pointer of a taken seat
\* designates one whenever to_json follows it.
NoDanglingName == crashed # "dangling"
=============================================================================
