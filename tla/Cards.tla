------------------------------- MODULE Cards -------------------------------
(***************************************************************************)
(* The cards of server/blackjack/game.hpp: a shoe that is shuffled anew   *)
(* when it is used up, and hands dealt from it until they are done, the   *)
(* way test/server/blackjack.cpp plays them.                              *)
(*                                                                         *)
(* A card is its code, 1 to 52.  Nobody sees the order of the cards that  *)
(* are still in the shoe, so it is drawn when they are dealt; and eval    *)
(* does not depend on the order of a hand, so a hand is how often it has  *)
(* each card.                                                             *)
(***************************************************************************)
EXTENDS Integers, FiniteSetsExt

CONSTANTS
    Codes,              \* the cards of a deck, 1 .. 52 in the code
    Decks,              \* config::decks
    Capacity            \* of static_string, 22 in the code

ASSUME CodesAssumption == Codes \subseteq 1 .. 52 /\ Codes # {}

ASSUME DecksAssumption == Decks \in Nat \ {0} /\ Capacity \in Nat

VARIABLES
    shoe,               \* how many of each card lie from pos_ to the end
    cards,              \* how many of each card the hand has
    busted, twenty_one, blackjack,
    thrown              \* push_back on a full hand

hand == <<cards, busted, twenty_one, blackjack>>
vars == <<shoe, hand, thrown>>

Size(h) == SumFunctionOnSet(h, Codes)

NoCards == [c \in Codes |-> 0]

\* shuffle: all cards of all decks are in the shoe again
shuffle == [c \in Codes |-> Decks]

Init ==
    /\ shoe = shuffle
    /\ cards = NoCards
    /\ busted = FALSE /\ twenty_one = FALSE /\ blackjack = FALSE
    /\ thrown = FALSE

-----------------------------------------------------------------------------
\* hand::value: aces are one, court cards ten, in every suit
value(c) == IF 1 + ((c - 1) % 13) > 10 THEN 10 ELSE 1 + ((c - 1) % 13)

\* Faulty variant: only the first ace of the deck is one.
acesFirst(h) == SumFunctionOnSet(h, Codes \cap {1})

\* How many aces a hand has
aces(h) == SumFunctionOnSet(h, {c \in Codes : value(c) = 1})

\* The total of hand::eval: aces are eleven, and while that is too much and one
\* is left, ten less.
total(h) ==
    LET high == SumFunctionOnSet([c \in Codes |-> h[c] * value(c)], Codes) + 10 * aces(h) IN
    high - 10 * Min({n \in 0 .. aces(h) : high - 10 * n <= 21} \cup {aces(h)})

\* hand::eval
eval(h) ==
    /\ busted' = (total(h) > 21)
    /\ twenty_one' = (total(h) = 21)
    /\ blackjack' = (total(h) = 21 /\ Size(h) = 2)

\* Faulty variant: the hand goes on when it is over 21.
is_doneNotBusted == twenty_one

is_done == busted \/ twenty_one

\* hand::deal and shoe::deal
deal ==
    /\ ~is_done /\ ~thrown
    /\ LET s == IF shoe = NoCards THEN shuffle ELSE shoe IN
       \E c \in {x \in Codes : s[x] > 0} :
        /\ shoe' = [s EXCEPT ![c] = @ - 1]
        /\ IF Size(cards) = Capacity
           THEN thrown' = TRUE /\ UNCHANGED hand
           ELSE /\ cards' = [cards EXCEPT ![c] = @ + 1]
                /\ eval(cards')
                /\ UNCHANGED thrown

\* A new hand, or clear
clear ==
    /\ is_done
    /\ cards' = NoCards
    /\ busted' = FALSE /\ twenty_one' = FALSE /\ blackjack' = FALSE
    /\ UNCHANGED <<shoe, thrown>>

Next == deal \/ clear

Spec == Init /\ [][Next]_vars

\* The loop that deals goes on.
FairSpec == Spec /\ WF_vars(Next)

-----------------------------------------------------------------------------
(* The rules of the game, for comparison: each ace counts one or eleven as *)
(* its player likes, so a hand has a set of totals.                        *)

\* The thirteenth card of a suit is its king, and the first its ace.
Worth(c) == IF c % 13 \in {0, 10, 11, 12} THEN 10 ELSE c % 13

Hard == SumFunctionOnSet([c \in Codes |-> cards[c] * Worth(c)], Codes)

AcesHeld == SumFunctionOnSet(cards, {c \in Codes : c % 13 = 1})

Totals == {Hard + 10 * n : n \in 0 .. AcesHeld}

\* eval, with its loop over the aces, agrees with the rules on every hand the
\* shoe can deal, one that spans a shuffle included: a hand is bust if every way
\* to count its aces is over 21, it is 21 if some way is, and two cards that
\* make 21 are a blackjack.
EvalRight ==
    /\ busted <=> \A t \in Totals : t > 21
    /\ twenty_one <=> 21 \in Totals
    /\ blackjack <=> 21 \in Totals /\ Size(cards) = 2

\* A hand that is not done has a free slot: one that is dealt to until is_done
\* never outgrows its static_string, where push_back would throw, because each
\* card counts at least one and 21 of them are done.
HandFits == ~thrown

\* Every hand that is dealt to until is_done comes to its end, and so does the
\* loop that deals it, however many aces eval takes back from eleven to one and
\* however often the shoe is shuffled meanwhile.
HandEnds == cards # NoCards ~> is_done
=============================================================================
