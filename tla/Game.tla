------------------------------- MODULE Game -------------------------------
(***************************************************************************)
(* The blackjack game of server/core/blackjack.cpp: class game and its    *)
(* seats, as functions from a game to the game an operation leaves.       *)
(* Cards are counted; which cards they are is left out.                   *)
(***************************************************************************)
EXTENDS Integers

CONSTANTS
    Users,              \* addresses of user objects
    NoUser,             \* nullptr
    NumSeats,           \* seat_.size(), 6 in the code; seat 0 is the dealer's
    HandCap,            \* how many cards a hand can hold, 22 in the code
    InitChips           \* what the uninitialised seat::chips may hold

ASSUME SeatsAssumption == NumSeats \in Nat /\ NumSeats >= 2

ASSUME UserAssumption == NoUser \notin Users

ASSUME ChipsAssumption == InitChips \subseteq Int /\ HandCap \in Nat \ {0}

Seats == 0 .. NumSeats - 1

Stake == 1000           \* chips after seat::clear
BetSize == 5

SeatRecord ==
    [u : Users \cup {NoUser},
     state : {"dealer", "waiting", "playing", "leaving", "open"},
     chips : Int, wager : Int, cards : 0 .. HandCap]

Game == [seat : [Seats -> SeatRecord], turn : Seats]

\* The games the constructor of game can leave
NewGames ==
    {[seat |-> [i \in Seats |->
        [u |-> NoUser, state |-> IF i = 0 THEN "dealer" ELSE "open",
         chips |-> f[i], wager |-> 0, cards |-> 0]],
      turn |-> 0] : f \in [Seats -> InitChips]}

Taken(g, i) == g.seat[i].state \in {"waiting", "playing", "leaving"}

-----------------------------------------------------------------------------
\* The first seat of a set, in the order of the loops over seat_; 0 if none
First(S) == IF S = {} THEN 0 ELSE CHOOSE i \in S : \A j \in S : i <= j

\* find: the seat of u; 0 stands for none
find(g, u) == First({i \in Seats : g.seat[i].state # "open" /\ g.seat[i].u = u})

OpenSeats(g) == {i \in Seats : g.seat[i].state = "open"}

\* The outcome of an operation: its error and the game it leaves
Failed(g, e) == [ec |-> e, g |-> g]
Done(g) == [ec |-> "none", g |-> g]

\* Faulty variant: join does not ask whether the user has a seat.
joinTwice(g, u) ==
    IF OpenSeats(g) = {} THEN Failed(g, "no_open_seat")
    ELSE Done([g EXCEPT !.seat[First(OpenSeats(g))].u = u,
                        !.seat[First(OpenSeats(g))].state = "playing"])

\* join: take the first open seat.  Chips, wager and cards stay as they are.
join(g, u) ==
    IF find(g, u) # 0 THEN Failed(g, "already_playing")
    ELSE IF OpenSeats(g) = {} THEN Failed(g, "no_open_seat")
    ELSE Done([g EXCEPT !.seat[First(OpenSeats(g))].u = u,
                        !.seat[First(OpenSeats(g))].state = "playing"])

\* seat::clear
clear(s) == [s EXCEPT !.chips = Stake, !.wager = 0, !.cards = 0]

leave(g, u) ==
    LET i == find(g, u) IN
    IF i = 0 THEN Failed(g, "not_playing")
    ELSE CASE g.seat[i].state = "waiting" ->
                Done([g EXCEPT !.seat[i].state = "open"])
           [] g.seat[i].state = "playing" ->
                Done([g EXCEPT !.seat[i] = clear([@ EXCEPT !.state = "leaving"])])
           [] OTHER -> Failed(g, "already_leaving")

\* Faulty variant: the seat is left in state leaving.
surrenderAsLeave(g, u) ==
    LET i == find(g, u) IN
    IF i = 0 THEN Failed(g, "not_playing")
    ELSE Done([g EXCEPT !.seat[i].state = "leaving"])

\* surrender: the seat is open again, with the chips, wager and cards it had
surrender(g, u) ==
    LET i == find(g, u) IN
    IF i = 0 THEN Failed(g, "not_playing")
    ELSE Done([g EXCEPT !.seat[i].state = "open"])

\* Faulty variant: the wager grows and the chips stay.
betFree(g, u) ==
    LET i == find(g, u) IN
    IF i = 0 THEN Failed(g, "not_playing")
    ELSE Done([g EXCEPT !.seat[i].wager = @ + BetSize])

bet(g, u) ==
    LET i == find(g, u) IN
    IF i = 0 THEN Failed(g, "not_playing")
    ELSE IF g.seat[i].state \notin {"playing", "leaving"}
    THEN Failed(g, "no_more_bets")
    ELSE Done([g EXCEPT !.seat[i].wager = @ + BetSize,
                        !.seat[i].chips = @ - BetSize])

\* Faulty variant: the second round begins at the first player.
deal_oneNoDealer(g) ==
    IF g.seat[g.turn].cards = HandCap THEN Failed(g, "length_error")
    ELSE Done([seat |-> [g.seat EXCEPT ![g.turn].cards = @ + 1],
               turn |-> IF g.turn + 1 >= NumSeats THEN 1 ELSE g.turn + 1])

\* deal_one: one more card for the seat whose turn it is.  push_back throws
\* std::length_error when the hand is full.
deal_one(g) ==
    IF g.seat[g.turn].cards = HandCap THEN Failed(g, "length_error")
    ELSE Done([seat |-> [g.seat EXCEPT ![g.turn].cards = @ + 1],
               turn |-> IF g.turn + 1 >= NumSeats THEN 0 ELSE g.turn + 1])
=============================================================================
