---------------------------- MODULE TableProofs ----------------------------
(***************************************************************************)
(* Proofs about Game and Table, for any number of users, seats and        *)
(* handlers, and any hands and chips: what the operations of the game do  *)
(* to its seats, that no seat is lost or taken from its user by a handler *)
(* that comes late, and that no change of the game goes unannounced.      *)
(***************************************************************************)
EXTENDS Table, WellFoundedInduction, TLAPS

-----------------------------------------------------------------------------
(* The loops over the seats                                                *)

\* A set of seat numbers that is not empty has a first one.
LEMMA LeastOf ==
    ASSUME NEW S, S \subseteq Nat, S # {}
    PROVE  \E i \in S : \A j \in S : i <= j
<1> DEFINE R == OpToRel(<, Nat)
<1>1. IsWellFoundedOn(R, Nat)
  BY NatLessThanWellFounded
<1>2. \A y, x \in S : y < x => <<y, x>> \in R
  BY DEF OpToRel
<1> HIDE DEF R
<1>3. PICK x \in S : \A y \in S : ~(<<y, x>> \in R)
  BY <1>1, WFMin
<1>4. \A y \in S : ~(y < x)
  BY <1>2, <1>3
<1>5. \A y \in S : x <= y
  BY <1>4
<1> QED
  BY <1>5

\* The loop ends at a seat of the set, if there is one.
LEMMA FirstIsIn ==
    ASSUME NEW S, S \subseteq Seats, S # {}
    PROVE  First(S) \in S
<1>1. S \subseteq Nat
  BY SeatsAssumption DEF Seats
<1>2. \E i \in S : \A j \in S : i <= j
  BY <1>1, LeastOf
<1> QED
  BY <1>2 DEF First

-----------------------------------------------------------------------------
(* The operations of the game                                              *)

\* A game in which find tells a user's seat from the dealer's; nobody is ever
\* made to wait for one
Seated(h) ==
    /\ h \in Game
    /\ h.seat[0].state = "dealer" /\ h.seat[0].u = NoUser
    /\ \A i \in Seats \ {0} : h.seat[i].state \in {"open", "playing", "leaving"}
    /\ \A i \in Seats : Taken(h, i) => h.seat[i].u \in Users
    /\ \A i, j \in Seats : Taken(h, i) /\ Taken(h, j) /\ h.seat[i].u = h.seat[j].u => i = j

HasSeat(h, u) == \E i \in Seats : Taken(h, i) /\ h.seat[i].u = u

\* The game k is h but for seat i, which is s in k.
Changed(h, k, i, s) == k = [seat |-> [h.seat EXCEPT ![i] = s], turn |-> h.turn]

\* u, who had no seat, has taken seat i.
Took(h, k, u, i) ==
    /\ i \in Seats \ {0} /\ h.seat[i].state = "open"
    /\ ~HasSeat(h, u)
    /\ Changed(h, k, i, [h.seat[i] EXCEPT !.u = u, !.state = "playing"])

\* u has done something with seat i, its own.
UsedOwn(h, k, u, i) ==
    /\ i \in Seats \ {0} /\ Taken(h, i) /\ h.seat[i].u = u
    /\ \E s \in SeatRecord :
        /\ s.u = u /\ s.state \in {"open", "playing", "leaving"}
        /\ s.chips + s.wager \in {h.seat[i].chips + h.seat[i].wager, Stake}
        /\ s.cards \in {0, h.seat[i].cards}
        /\ Changed(h, k, i, s)

\* One card more for the seat whose turn it was
Dealt(h, k) ==
    /\ h.seat[h.turn].cards < HandCap
    /\ k = [seat |-> [h.seat EXCEPT ![h.turn] =
                        [h.seat[h.turn] EXCEPT !.cards = h.seat[h.turn].cards + 1]],
            turn |-> IF h.turn + 1 >= NumSeats THEN 0 ELSE h.turn + 1]

\* The dealer's seat is one of the seats, and not the only one.
LEMMA SeatZero == 0 \in Seats /\ 1 \in Seats /\ Seats \subseteq Nat
BY SeatsAssumption DEF Seats

\* find returns the seat of the user, or 0 when it has none.
LEMMA FindSeat ==
    ASSUME NEW h, Seated(h), NEW u \in Users
    PROVE  \/ find(h, u) = 0 /\ ~HasSeat(h, u)
           \/ /\ find(h, u) \in Seats \ {0} /\ Taken(h, find(h, u))
              /\ h.seat[find(h, u)].u = u /\ HasSeat(h, u)
<1> DEFINE S == {i \in Seats : h.seat[i].state # "open" /\ h.seat[i].u = u}
<1>1. \A i \in Seats : h.seat[i] \in SeatRecord
  BY DEF Seated, Game
<1>2. u # NoUser
  BY UserAssumption
<1>3. \A i \in Seats : i \in S <=> i # 0 /\ Taken(h, i) /\ h.seat[i].u = u
  <2> SUFFICES ASSUME NEW i \in Seats
               PROVE  i \in S <=> i # 0 /\ Taken(h, i) /\ h.seat[i].u = u
    OBVIOUS
  <2>1. h.seat[i].state \in {"dealer", "waiting", "playing", "leaving", "open"}
    BY <1>1 DEF SeatRecord
  <2>2. i # 0 => h.seat[i].state # "dealer"
    BY DEF Seated
  <2>3. i = 0 => h.seat[i].u # u
    BY <1>2 DEF Seated
  <2> QED
    BY <2>1, <2>2, <2>3 DEF Taken
<1>4. find(h, u) = First(S)
  BY DEF find
<1>5. CASE S = {}
  <2>1. ~HasSeat(h, u)
    <3>1. ~Taken(h, 0)
      BY DEF Seated, Taken
    <3> QED
      BY <1>3, <1>5, <3>1 DEF HasSeat
  <2> QED
    BY <1>4, <1>5, <2>1 DEF First
<1>6. CASE S # {}
  <2> HIDE DEF S
  <2>1. First(S) \in S /\ First(S) \in Seats
    BY <1>6, FirstIsIn DEF S
  <2> QED
    BY <1>3, <1>4, <2>1 DEF HasSeat
<1> QED
  BY <1>5, <1>6

\* join that succeeds seats the user, and find then returns that seat.
LEMMA JoinTakes ==
    ASSUME NEW h, Seated(h), NEW u \in Users, join(h, u).ec = "none"
    PROVE  \E i : Took(h, join(h, u).g, u, i)
<1> DEFINE i == First(OpenSeats(h))
           s == [h.seat[i] EXCEPT !.u = u, !.state = "playing"]
           k == [h EXCEPT !.seat[i].u = u, !.seat[i].state = "playing"]
<1>1. find(h, u) = 0 /\ OpenSeats(h) # {} /\ join(h, u).g = k
  BY DEF join, Failed, Done
<1>2. ~HasSeat(h, u)
  BY <1>1, FindSeat
<1>3. i \in Seats /\ h.seat[i].state = "open"
  BY <1>1, FirstIsIn DEF OpenSeats
<1>4. i # 0
  BY <1>3 DEF Seated
<1>5. h = [seat |-> h.seat, turn |-> h.turn] /\ h.seat \in [Seats -> SeatRecord]
  BY DEF Seated, Game
<1> HIDE DEF i
<1>6. k = [seat |-> [h.seat EXCEPT ![i] = s], turn |-> h.turn]
  <2> DEFINE s1 == [h.seat[i] EXCEPT !.u = u]
             k1 == [seat |-> [h.seat EXCEPT ![i] = s1], turn |-> h.turn]
  <2>1. [h EXCEPT !.seat[i].u = u] = k1
    BY <1>3, <1>5
  <2>2. k = [k1 EXCEPT !.seat[i].state = "playing"]
    BY <2>1
  <2>3. k1.seat[i] = s1 /\ [s1 EXCEPT !.state = "playing"] = s
    BY <1>3, <1>5
  <2>4. k = [seat |-> [k1.seat EXCEPT ![i] = [k1.seat[i] EXCEPT !.state = "playing"]],
             turn |-> k1.turn]
    BY <2>2
  <2>5. k = [seat |-> [k1.seat EXCEPT ![i] = s], turn |-> h.turn]
    BY <2>3, <2>4
  <2> HIDE DEF s1, s, k
  <2>6. [k1.seat EXCEPT ![i] = s] = [h.seat EXCEPT ![i] = s]
    BY <1>3, <1>5
  <2> QED
    BY <2>5, <2>6
<1> QED
  BY <1>1, <1>2, <1>3, <1>4, <1>6 DEF Took, Changed

\* surrender that succeeds opens the user's own seat.
LEMMA SurrenderOpens ==
    ASSUME NEW h, Seated(h), NEW u \in Users
    PROVE  /\ surrender(h, u).ec = "none" =>
                \E i : UsedOwn(h, surrender(h, u).g, u, i)
                        /\ ~Taken(surrender(h, u).g, i)
           /\ surrender(h, u).ec # "none" => ~HasSeat(h, u)
<1> DEFINE i == find(h, u)
           s == [h.seat[i] EXCEPT !.state = "open"]
           k == [h EXCEPT !.seat[i].state = "open"]
<1>1. CASE i = 0
  BY <1>1, FindSeat DEF surrender, Failed
<1>2. CASE i # 0
  <2>1. surrender(h, u).ec = "none" /\ surrender(h, u).g = k
    BY <1>2 DEF surrender, Done
  <2>2. i \in Seats \ {0} /\ Taken(h, i) /\ h.seat[i].u = u
    BY <1>2, FindSeat
  <2>3. h = [seat |-> h.seat, turn |-> h.turn] /\ h.seat \in [Seats -> SeatRecord]
    BY DEF Seated, Game
  <2> HIDE DEF i
  <2>4. k = [seat |-> [h.seat EXCEPT ![i] = s], turn |-> h.turn]
    BY <2>2, <2>3
  <2>5. h.seat[i] \in SeatRecord
    BY <2>2, <2>3
  <2>6. /\ s \in SeatRecord /\ s.u = u /\ s.state = "open" /\ s.chips = h.seat[i].chips
        /\ s.wager = h.seat[i].wager /\ s.cards = h.seat[i].cards
    BY <2>2, <2>5 DEF SeatRecord
  <2>7. Changed(h, k, i, s) /\ k.seat[i] = s
    BY <2>2, <2>3, <2>4 DEF Changed
  <2> HIDE DEF k, s
  <2>8. UsedOwn(h, k, u, i)
    BY <2>2, <2>6, <2>7 DEF UsedOwn
  <2> QED
    BY <2>1, <2>6, <2>7, <2>8 DEF Taken
<1> QED
  BY <1>1, <1>2

\* leave that succeeds clears the user's own seat, which stays taken.
LEMMA LeaveUses ==
    ASSUME NEW h, Seated(h), NEW u \in Users, leave(h, u).ec = "none"
    PROVE  \E i : UsedOwn(h, leave(h, u).g, u, i) /\ Taken(leave(h, u).g, i)
<1> DEFINE i == find(h, u)
<1>1. i # 0
  BY DEF leave, Failed
<1>2. i \in Seats \ {0} /\ Taken(h, i) /\ h.seat[i].u = u
  BY <1>1, FindSeat
<1>3. h = [seat |-> h.seat, turn |-> h.turn] /\ h.seat \in [Seats -> SeatRecord]
  BY DEF Seated, Game
<1>4. h.seat[i] \in SeatRecord
  BY <1>2, <1>3
<1>5. CASE h.seat[i].state = "playing"
  <2> DEFINE s == clear([h.seat[i] EXCEPT !.state = "leaving"])
             k == [h EXCEPT !.seat[i] = clear([@ EXCEPT !.state = "leaving"])]
  <2>1. leave(h, u).g = k
    BY <1>1, <1>5 DEF leave, Done
  <2> HIDE DEF i
  <2>2. Changed(h, k, i, s)
    BY <1>2, <1>3 DEF Changed
  <2>3. /\ s \in SeatRecord /\ s.u = u /\ s.state = "leaving"
        /\ s.chips + s.wager = Stake /\ s.cards = 0
    <3> DEFINE r == [h.seat[i] EXCEPT !.state = "leaving"]
    <3>1. r \in SeatRecord /\ r.u = u /\ r.state = "leaving"
      BY <1>2, <1>4 DEF SeatRecord
    <3>2. s = [r EXCEPT !.chips = Stake, !.wager = 0, !.cards = 0]
      BY DEF clear
    <3>3. Stake \in Int /\ Stake + 0 = Stake /\ 0 \in 0 .. HandCap
      BY ChipsAssumption DEF Stake
    <3> HIDE DEF r, s
    <3>4. PICK c, w, n : r = [u |-> u, state |-> "leaving", chips |-> c, wager |-> w, cards |-> n]
      BY <3>1 DEF SeatRecord
    <3>5. s = [u |-> u, state |-> "leaving", chips |-> Stake, wager |-> 0, cards |-> 0]
      BY <3>2, <3>4
    <3> QED
      BY <3>3, <3>5 DEF SeatRecord
  <2> HIDE DEF k, s
  <2>4. k.seat[i] = s
    BY <1>2, <1>3, <2>2 DEF Changed
  <2> QED
    BY <1>2, <2>1, <2>2, <2>3, <2>4 DEF UsedOwn, Taken
<1>6. h.seat[i].state = "playing"
  <2>1. h.seat[i].state \in {"waiting", "playing"}
    BY <1>1 DEF leave, Failed
  <2> QED
    BY <1>2, <2>1 DEF Seated
<1> QED
  BY <1>5, <1>6

\* bet that succeeds moves chips of the user's own seat to its wager.
LEMMA BetUses ==
    ASSUME NEW h, Seated(h), NEW u \in Users, bet(h, u).ec = "none"
    PROVE  \E i : UsedOwn(h, bet(h, u).g, u, i) /\ Taken(bet(h, u).g, i)
<1> DEFINE i == find(h, u)
           w == h.seat[i].wager + BetSize
           c == h.seat[i].chips - BetSize
           s == [h.seat[i] EXCEPT !.wager = w, !.chips = c]
           k == [h EXCEPT !.seat[i].wager = @ + BetSize, !.seat[i].chips = @ - BetSize]
<1>1. i # 0 /\ bet(h, u).g = k
  BY DEF bet, Failed, Done
<1>2. i \in Seats \ {0} /\ Taken(h, i) /\ h.seat[i].u = u
  BY <1>1, FindSeat
<1>3. h = [seat |-> h.seat, turn |-> h.turn] /\ h.seat \in [Seats -> SeatRecord]
  BY DEF Seated, Game
<1>4. h.seat[i] \in SeatRecord
  BY <1>2, <1>3
<1> HIDE DEF i
<1>5. Changed(h, k, i, s)
  <2> DEFINE s1 == [h.seat[i] EXCEPT !.wager = w]
             k1 == [seat |-> [h.seat EXCEPT ![i] = s1], turn |-> h.turn]
  <2>1. [h EXCEPT !.seat[i].wager = @ + BetSize] = k1
    BY <1>2, <1>3
  <2>2. k1.seat[i] = s1 /\ s1.chips - BetSize = c /\ [s1 EXCEPT !.chips = c] = s
    BY <1>2, <1>3, <1>4 DEF SeatRecord
  <2>3. k = [k1 EXCEPT !.seat[i].chips = c]
    BY <2>1
  <2>4. k = [seat |-> [k1.seat EXCEPT ![i] = [k1.seat[i] EXCEPT !.chips = c]],
             turn |-> k1.turn]
    BY <2>3
  <2>5. k = [seat |-> [k1.seat EXCEPT ![i] = s], turn |-> h.turn]
    BY <2>2, <2>4
  <2> HIDE DEF s1, s, k
  <2>6. [k1.seat EXCEPT ![i] = s] = [h.seat EXCEPT ![i] = s]
    BY <1>2, <1>3
  <2> QED
    BY <2>5, <2>6 DEF Changed
<1>6. w \in Int /\ c \in Int /\ c + w = h.seat[i].chips + h.seat[i].wager
  BY <1>4 DEF SeatRecord, BetSize
<1> HIDE DEF w, c
<1>7. /\ s \in SeatRecord /\ s.u = u /\ s.state = h.seat[i].state
      /\ s.chips = c /\ s.wager = w /\ s.cards = h.seat[i].cards
  BY <1>2, <1>4, <1>6 DEF SeatRecord
<1>8. s.state \in {"playing", "leaving"}
  BY <1>2, <1>7 DEF Taken, Seated
<1> HIDE DEF k, s
<1>9. k.seat[i] = s
  BY <1>2, <1>3, <1>5 DEF Changed
<1> QED
  BY <1>1, <1>2, <1>5, <1>6, <1>7, <1>8, <1>9 DEF UsedOwn, Taken

\* deal_one that succeeds deals.
LEMMA DealOneDeals ==
    ASSUME NEW h, Seated(h), deal_one(h).ec = "none"
    PROVE  Dealt(h, deal_one(h).g)
<1>1. h.seat[h.turn] \in SeatRecord /\ h.turn \in Seats
  BY DEF Seated, Game
<1>2. h.seat[h.turn].cards < HandCap
  BY <1>1, ChipsAssumption DEF deal_one, Failed, SeatRecord
<1>3. deal_one(h).g = [seat |-> [h.seat EXCEPT ![h.turn].cards = @ + 1],
                       turn |-> IF h.turn + 1 >= NumSeats THEN 0 ELSE h.turn + 1]
  BY DEF deal_one, Failed, Done
<1> QED
  BY <1>2, <1>3 DEF Dealt

\* A change of one seat is no change of the others.
LEMMA ChangedSeat ==
    ASSUME NEW h, Seated(h), NEW k, NEW i \in Seats, NEW s \in SeatRecord,
           Changed(h, k, i, s)
    PROVE  /\ k \in Game /\ k.seat[i] = s /\ k.turn = h.turn
           /\ \A j \in Seats : j # i => k.seat[j] = h.seat[j]
<1>1. h.seat \in [Seats -> SeatRecord] /\ h.turn \in Seats
  BY DEF Seated, Game
<1>2. [h.seat EXCEPT ![i] = s] \in [Seats -> SeatRecord]
  BY <1>1
<1>3. k = [seat |-> [h.seat EXCEPT ![i] = s], turn |-> h.turn]
  BY DEF Changed
<1>4. k \in Game
  BY <1>1, <1>2, <1>3 DEF Game
<1> QED
  BY <1>1, <1>3, <1>4

\* The record of a seat that was taken
LEMMA TookSeat ==
    ASSUME NEW h, Seated(h), NEW u \in Users, NEW k, NEW i, Took(h, k, u, i)
    PROVE  /\ i \in Seats \ {0} /\ k \in Game /\ k.turn = h.turn
           /\ \A j \in Seats : j # i => k.seat[j] = h.seat[j]
           /\ k.seat[i].u = u /\ k.seat[i].state = "playing"
           /\ k.seat[i].chips = h.seat[i].chips /\ k.seat[i].wager = h.seat[i].wager
           /\ k.seat[i].cards = h.seat[i].cards
<1> DEFINE s == [h.seat[i] EXCEPT !.u = u, !.state = "playing"]
<1>1. i \in Seats \ {0} /\ Changed(h, k, i, s) /\ h.seat[i] \in SeatRecord
  BY DEF Took, Seated, Game
<1>2. PICK v, t, c, w, n :
        h.seat[i] = [u |-> v, state |-> t, chips |-> c, wager |-> w, cards |-> n]
  BY <1>1 DEF SeatRecord
<1>3. s = [u |-> u, state |-> "playing", chips |-> c, wager |-> w, cards |-> n]
  <2> DEFINE r == h.seat[i]
  <2>1. s = [r EXCEPT !.u = u, !.state = "playing"]
    OBVIOUS
  <2>2. r = [u |-> v, state |-> t, chips |-> c, wager |-> w, cards |-> n]
    BY <1>2
  <2> HIDE DEF r, s
  <2> QED
    BY <2>1, <2>2
<1>4. c \in Int /\ w \in Int /\ n \in 0 .. HandCap
  BY <1>1, <1>2 DEF SeatRecord
<1>5. s \in SeatRecord
  BY <1>3, <1>4 DEF SeatRecord
<1> HIDE DEF s
<1> QED
  BY <1>1, <1>2, <1>3, <1>5, ChangedSeat

\* Whoever takes a seat has that seat and no other, and find returns it.
LEMMA TookKeepsSeated ==
    ASSUME NEW h, Seated(h), NEW u \in Users, NEW k, NEW i, Took(h, k, u, i)
    PROVE  Seated(k) /\ find(k, u) = i
<1>1. /\ i \in Seats \ {0} /\ k \in Game
      /\ \A j \in Seats : j # i => k.seat[j] = h.seat[j]
      /\ k.seat[i].u = u /\ k.seat[i].state = "playing"
  BY TookSeat
<1>2. \A j \in Seats : j # i => (Taken(k, j) <=> Taken(h, j))
  BY <1>1 DEF Taken
<1>3. \A j \in Seats : j # i /\ Taken(k, j) => k.seat[j].u # u
  BY <1>1, <1>2 DEF Took, HasSeat
<1>4. \A j \in Seats \ {0} : k.seat[j].state # "dealer"
  BY <1>1 DEF Seated
<1>5. ASSUME NEW j \in Seats, NEW l \in Seats, Taken(k, j), Taken(k, l),
             k.seat[j].u = k.seat[l].u
      PROVE  j = l
  BY <1>1, <1>2, <1>3, <1>5 DEF Seated
<1>6. \A j \in Seats : Taken(k, j) => k.seat[j].u \in Users
  BY <1>1, <1>2 DEF Seated
<1>7. Seated(k)
  BY <1>1, <1>4, <1>5, <1>6, SeatZero DEF Seated
<1>8. find(k, u) = i
  <2>1. Taken(k, i) /\ HasSeat(k, u)
    BY <1>1 DEF Taken, HasSeat
  <2> QED
    BY <1>1, <1>5, <1>7, <2>1, FindSeat
<1> QED
  BY <1>7, <1>8

\* The record of a seat its user has used
LEMMA UsedOwnSeat ==
    ASSUME NEW h, Seated(h), NEW u \in Users, NEW k, NEW i, UsedOwn(h, k, u, i)
    PROVE  /\ i \in Seats \ {0} /\ k \in Game /\ k.turn = h.turn
           /\ Taken(h, i) /\ h.seat[i].u = u
           /\ \A j \in Seats : j # i => k.seat[j] = h.seat[j]
           /\ k.seat[i] \in SeatRecord
           /\ k.seat[i].u = u /\ k.seat[i].state \in {"open", "playing", "leaving"}
           /\ k.seat[i].chips + k.seat[i].wager
                \in {h.seat[i].chips + h.seat[i].wager, Stake}
           /\ k.seat[i].cards \in {0, h.seat[i].cards}
<1>1. PICK s \in SeatRecord :
        /\ s.u = u /\ s.state \in {"open", "playing", "leaving"}
        /\ s.chips + s.wager \in {h.seat[i].chips + h.seat[i].wager, Stake}
        /\ s.cards \in {0, h.seat[i].cards}
        /\ Changed(h, k, i, s)
  BY DEF UsedOwn
<1>2. i \in Seats \ {0} /\ Taken(h, i) /\ h.seat[i].u = u
  BY DEF UsedOwn
<1> QED
  BY <1>1, <1>2, ChangedSeat

\* leave and bet change the seat of their own user only, so nobody gets a second.
LEMMA UsedOwnKeepsSeated ==
    ASSUME NEW h, Seated(h), NEW u \in Users, NEW k, NEW i, UsedOwn(h, k, u, i)
    PROVE  Seated(k)
<1>1. /\ i \in Seats \ {0} /\ k \in Game /\ Taken(h, i)
      /\ \A j \in Seats : j # i => k.seat[j] = h.seat[j]
      /\ k.seat[i].u = h.seat[i].u /\ k.seat[i].state \in {"open", "playing", "leaving"}
  BY UsedOwnSeat
<1>2. \A j \in Seats : k.seat[j].u = h.seat[j].u /\ (Taken(k, j) => Taken(h, j))
  BY <1>1 DEF Taken
<1>3. \A j \in Seats \ {0} : k.seat[j].state \in {"open", "playing", "leaving"}
  BY <1>1 DEF Seated
<1>4. k.seat[0] = h.seat[0]
  BY <1>1, SeatZero
<1> QED
  BY <1>1, <1>2, <1>3, <1>4 DEF Seated

\* The seats after a card was dealt
LEMMA DealtSeats ==
    ASSUME NEW h, Seated(h), NEW k, Dealt(h, k)
    PROVE  /\ k \in Game /\ h.turn \in Seats
           /\ \A j \in Seats : j # h.turn => k.seat[j] = h.seat[j]
           /\ k.seat[h.turn].u = h.seat[h.turn].u
           /\ k.seat[h.turn].state = h.seat[h.turn].state
           /\ k.seat[h.turn].chips = h.seat[h.turn].chips
           /\ k.seat[h.turn].wager = h.seat[h.turn].wager
           /\ k.seat[h.turn].cards = h.seat[h.turn].cards + 1
           /\ k.turn = IF h.turn + 1 >= NumSeats THEN 0 ELSE h.turn + 1
<1> DEFINE t == h.turn
           s == [h.seat[t] EXCEPT !.cards = h.seat[t].cards + 1]
           n == IF t + 1 >= NumSeats THEN 0 ELSE t + 1
<1>1. h.seat \in [Seats -> SeatRecord] /\ t \in Seats /\ h.seat[t] \in SeatRecord
  BY DEF Seated, Game
<1>2. k = [seat |-> [h.seat EXCEPT ![t] = s], turn |-> n] /\ h.seat[t].cards < HandCap
  BY DEF Dealt
<1>3. PICK v, r, c, w, m :
        h.seat[t] = [u |-> v, state |-> r, chips |-> c, wager |-> w, cards |-> m]
  BY <1>1 DEF SeatRecord
<1>4. s = [u |-> v, state |-> r, chips |-> c, wager |-> w, cards |-> m + 1]
  BY <1>3
<1>5. /\ v \in Users \cup {NoUser} /\ c \in Int /\ w \in Int /\ m + 1 \in 0 .. HandCap
      /\ r \in {"dealer", "waiting", "playing", "leaving", "open"}
  BY <1>1, <1>2, <1>3, ChipsAssumption DEF SeatRecord
<1>6. s \in SeatRecord
  BY <1>4, <1>5 DEF SeatRecord
<1>7. n \in Seats
  BY <1>1, SeatsAssumption DEF Seats
<1> HIDE DEF s, n, t
<1>8. [h.seat EXCEPT ![t] = s] \in [Seats -> SeatRecord]
  BY <1>1, <1>6
<1>9. k \in Game /\ k.turn = n /\ k.seat[t] = s /\ \A j \in Seats : j # t => k.seat[j] = h.seat[j]
  BY <1>1, <1>2, <1>7, <1>8 DEF Game
<1>10. /\ k.seat[t].u = h.seat[t].u /\ k.seat[t].state = h.seat[t].state
       /\ k.seat[t].chips = h.seat[t].chips /\ k.seat[t].wager = h.seat[t].wager
       /\ k.seat[t].cards = h.seat[t].cards + 1
  BY <1>3, <1>4, <1>9
<1> QED
  BY <1>1, <1>9, <1>10 DEF t, n

\* Dealing moves nobody.
LEMMA DealtKeepsSeated ==
    ASSUME NEW h, Seated(h), NEW k, Dealt(h, k)
    PROVE  Seated(k)
<1>1. /\ k \in Game
      /\ \A j \in Seats : k.seat[j].u = h.seat[j].u /\ k.seat[j].state = h.seat[j].state
  BY DealtSeats
<1>2. \A j \in Seats : Taken(k, j) <=> Taken(h, j)
  BY <1>1 DEF Taken
<1> QED
  BY <1>1, <1>2, SeatZero DEF Seated

-----------------------------------------------------------------------------
(* One handler of the strand                                               *)

\* The handler at the front has left the strand.
Ran ==
    /\ crashed = "no" /\ strand # << >>
    /\ strand' = Tail(strand)
    /\ UNCHANGED <<life, epoch, session, users, phase>>

\* What a handler may do to the seats.  do_erase leaves its user without one.
SeatStep ==
    \/ /\ UNCHANGED <<g, holder>>
       /\ Head(strand).op = "erase" => ~HasSeat(g, Who)
    \/ /\ Head(strand).op = "play"
       /\ \E i : /\ Took(g, g', Who, i)
                 /\ holder' = [holder EXCEPT ![i] =
                        IF Head(strand).member THEN Head(strand).e ELSE 0]
    \/ /\ UNCHANGED holder
       /\ \E i : /\ UsedOwn(g, g', Who, i)
                 /\ Head(strand).op = "erase" <=> ~Taken(g', i)
    \/ Head(strand).op # "erase" /\ Dealt(g, g') /\ UNCHANGED holder

\* Whom a handler may leave with an old game: nobody that had the present one,
\* unless everybody in the channel is told.
ToldStep ==
    /\ synced' \in SUBSET Users /\ crashed' \in {"no", "dangling", "overflow"}
    /\ \/ crashed' # "no"
       \/ {u \in users : life[u] = "live"} \subseteq synced'
       \/ synced' = synced /\ Head(strand).op # "insert"
       \/ synced' = synced \cup {Who}

\* The handler at the front is one, with its user.
LEMMA HeadHandler ==
    ASSUME strand \in Seq(Handler), strand # << >>
    PROVE  Head(strand) \in Handler /\ Who \in Users
<1>1. Head(strand) \in Handler
  OBVIOUS
<1> QED
  BY <1>1 DEF Who, Handler

\* update tells everybody, unless it reads a name that is gone.
LEMMA UpdateTells ==
    ASSUME users \in SUBSET Users, synced \in SUBSET Users,
           crashed = "no", NEW h, update(h)
    PROVE  ToldStep /\ g' = h
<1>1. CASE NamesReadable(h)
  BY <1>1 DEF update, ToldStep
<1>2. CASE ~NamesReadable(h)
  BY <1>2 DEF update, ToldStep
<1> QED
  BY <1>1, <1>2

\* Each handler does one of these things to the seats, and tells of it.
LEMMA HandleSteps ==
    ASSUME TypeOK, Seated(g), Handle
    PROVE  Ran /\ SeatStep /\ ToldStep
<1>1. /\ strand \in Seq(Handler) /\ users \in SUBSET Users /\ synced \in SUBSET Users
      /\ crashed \in {"no", "dangling", "overflow"}
  BY DEF TypeOK
<1>2. Ran
  BY DEF Handle, do_insert, do_erase, do_play, do_watch, do_bet, do_start,
         do_hit_stand, Run, Ran
<1>3. Who \in Users /\ crashed = "no"
  BY <1>1, <1>2, HeadHandler DEF Ran
<1>4. ASSUME Quietly(g), Head(strand).op # "insert" PROVE g' = g /\ ToldStep
  BY <1>1, <1>4 DEF Quietly, ToldStep
<1>5. ASSUME do_insert PROVE SeatStep /\ ToldStep
  <2>1. Head(strand).op = "insert" /\ UNCHANGED <<g, holder>>
    BY <1>5 DEF do_insert, Run
  <2>2. ToldStep
    BY <1>1, <1>3, <1>5 DEF do_insert, ToldStep
  <2> QED
    BY <2>1, <2>2 DEF SeatStep
<1>6. ASSUME do_erase PROVE SeatStep /\ ToldStep
  <2> DEFINE r == surrender(g, Who)
  <2>1. /\ Head(strand).op = "erase" /\ UNCHANGED holder
        /\ IF r.ec = "none" THEN update(r.g) ELSE Quietly(g)
    BY <1>6 DEF do_erase, Run
  <2>2. /\ r.ec = "none" => \E i : UsedOwn(g, r.g, Who, i) /\ ~Taken(r.g, i)
        /\ r.ec # "none" => ~HasSeat(g, Who)
    BY <1>3, SurrenderOpens
  <2> HIDE DEF r
  <2>3. CASE r.ec = "none"
    <3>1. ToldStep /\ g' = r.g
      BY <1>1, <1>3, <2>1, <2>3, UpdateTells
    <3> QED
      BY <2>1, <2>2, <2>3, <3>1 DEF SeatStep
  <2>4. CASE r.ec # "none"
    BY <1>4, <2>1, <2>2, <2>4 DEF SeatStep
  <2> QED
    BY <2>3, <2>4
<1>7. ASSUME do_play PROVE SeatStep /\ ToldStep
  <2> DEFINE r == join(g, Who)
  <2>1. /\ Head(strand).op = "play"
        /\ IF r.ec = "none"
           THEN /\ update(r.g)
                /\ holder' = [holder EXCEPT ![find(r.g, Who)] =
                    IF Head(strand).member THEN Head(strand).e ELSE 0]
           ELSE Quietly(g) /\ UNCHANGED holder
    BY <1>7 DEF do_play, Run
  <2>2. r.ec = "none" => \E i : Took(g, r.g, Who, i)
    BY <1>3, JoinTakes
  <2> HIDE DEF r
  <2>3. CASE r.ec = "none"
    <3>1. ToldStep /\ g' = r.g
      BY <1>1, <1>3, <2>1, <2>3, UpdateTells
    <3>2. PICK i : Took(g, r.g, Who, i)
      BY <2>2, <2>3
    <3>3. find(r.g, Who) = i
      BY <1>3, <3>2, TookKeepsSeated
    <3> QED
      BY <2>1, <2>3, <3>1, <3>2, <3>3 DEF SeatStep
  <2>4. CASE r.ec # "none"
    BY <1>4, <2>1, <2>4 DEF SeatStep
  <2> QED
    BY <2>3, <2>4
<1>8. ASSUME NEW r, r.ec = "none" => \E i : UsedOwn(g, r.g, Who, i) /\ Taken(r.g, i),
             Head(strand).op \notin {"erase", "insert"}, UNCHANGED holder,
             IF r.ec = "none" THEN update(r.g) ELSE Quietly(g)
      PROVE  SeatStep /\ ToldStep
  <2>1. CASE r.ec = "none"
    <3>1. ToldStep /\ g' = r.g
      BY <1>1, <1>3, <1>8, <2>1, UpdateTells
    <3> QED
      BY <1>8, <2>1, <3>1 DEF SeatStep
  <2>2. CASE r.ec # "none"
    BY <1>4, <1>8, <2>2 DEF SeatStep
  <2> QED
    BY <2>1, <2>2
<1>9. ASSUME do_watch PROVE SeatStep /\ ToldStep
  <2> DEFINE r == leave(g, Who)
  <2>1. /\ Head(strand).op = "watch" /\ UNCHANGED holder
        /\ IF r.ec = "none" THEN update(r.g) ELSE Quietly(g)
    BY <1>9 DEF do_watch, Run
  <2>2. r.ec = "none" => \E i : UsedOwn(g, r.g, Who, i) /\ Taken(r.g, i)
    BY <1>3, LeaveUses
  <2> HIDE DEF r
  <2> QED
    BY <1>8, <2>1, <2>2
<1>10. ASSUME do_bet PROVE SeatStep /\ ToldStep
  <2> DEFINE r == bet(g, Who)
  <2>1. /\ Head(strand).op = "bet" /\ UNCHANGED holder
        /\ IF r.ec = "none" THEN update(r.g) ELSE Quietly(g)
    BY <1>10 DEF do_bet, Run
  <2>2. r.ec = "none" => \E i : UsedOwn(g, r.g, Who, i) /\ Taken(r.g, i)
    BY <1>3, BetUses
  <2> HIDE DEF r
  <2> QED
    BY <1>8, <2>1, <2>2
<1>11. ASSUME do_start PROVE SeatStep /\ ToldStep
  <2> DEFINE r == deal_one(g)
  <2>1. /\ Head(strand).op = "start" /\ UNCHANGED holder
        /\ IF r.ec = "none" THEN update(r.g)
           ELSE crashed' = "overflow" /\ UNCHANGED <<g, synced>>
    BY <1>11 DEF do_start, Run
  <2>2. r.ec = "none" => Dealt(g, r.g)
    BY DealOneDeals
  <2> HIDE DEF r
  <2>3. CASE r.ec = "none"
    <3>1. ToldStep /\ g' = r.g
      BY <1>1, <1>3, <2>1, <2>3, UpdateTells
    <3> QED
      BY <2>1, <2>2, <2>3, <3>1 DEF SeatStep
  <2>4. CASE r.ec # "none"
    BY <1>1, <2>1, <2>4 DEF SeatStep, ToldStep
  <2> QED
    BY <2>3, <2>4
<1>12. ASSUME do_hit_stand PROVE SeatStep /\ ToldStep
  <2>1. Head(strand).op \in {"hit", "stand"} /\ UNCHANGED <<g, holder, synced, crashed>>
    BY <1>12 DEF do_hit_stand, Run, GameUnchanged
  <2> QED
    BY <1>1, <2>1 DEF SeatStep, ToldStep
<1> QED
  BY <1>2, <1>5, <1>6, <1>7, <1>9, <1>10, <1>11, <1>12 DEF Handle

-----------------------------------------------------------------------------
(* The invariant                                                           *)

\* Who is in the channel, or on the way into or out of it, is not freed, and
\* the objects that are not freed have been counted.
Lives ==
    /\ \A u \in Users : life[u] # "free" => epoch[u] \in 1 .. MaxEpoch
    /\ \A u \in session : life[u] = "live"
    /\ \A u \in users : life[u] # "free"
    /\ \A u \in Users : phase[u] = "inserting" => u \in users /\ u \in session
    /\ \A u \in Users : phase[u] = "erasing" => life[u] # "free"

\* A handler is of the present user of its address, which it keeps alive, or it
\* is do_erase and may be of an earlier one.
Current ==
    \A k \in DOMAIN strand :
        LET u == strand[k].u IN
        /\ strand[k].e <= epoch[u]
        /\ strand[k].op # "erase" => life[u] = "live" /\ strand[k].e = epoch[u]

\* The handlers of one address are in the order of the users it had.
InOrder ==
    \A j, k \in DOMAIN strand :
        j < k /\ strand[j].u = strand[k].u => strand[j].e <= strand[k].e

\* A seat was taken by a handler before those that are waiting.
Later ==
    \A i \in MemberSeats, k \in DOMAIN strand :
        strand[k].u = g.seat[i].u => holder[i] <= strand[k].e

\* Behind a request made inside the channel comes the do_erase of its user, on
\* the strand already or still to be posted.
ErasedLater ==
    \A k \in DOMAIN strand :
        strand[k].member /\ strand[k].op # "erase" =>
            LET u == strand[k].u IN
            \/ u \in users \/ phase[u] = "erasing"
            \/ \E j \in DOMAIN strand :
                /\ k < j /\ strand[j].op = "erase"
                /\ strand[j].u = u /\ strand[j].e = strand[k].e

\* NoLostSeat by itself is not inductive: do_play makes it depend on the
\* handlers behind it, and do_erase on the seat being of its own user.
IInv ==
    /\ TypeOK /\ Seated(g)
    /\ Lives /\ Current /\ InOrder /\ Later /\ ErasedLater
    /\ NoLostSeat

\* The seats are made open, for nobody.
LEMMA NewGameSeated == ASSUME NEW h \in NewGames PROVE Seated(h)
<1>1. PICK f \in [Seats -> InitChips] :
        h = [seat |-> [i \in Seats |->
                [u |-> NoUser, state |-> IF i = 0 THEN "dealer" ELSE "open",
                 chips |-> f[i], wager |-> 0, cards |-> 0]],
             turn |-> 0]
  BY DEF NewGames
<1>2. ASSUME NEW i \in Seats
      PROVE  /\ h.seat[i] \in SeatRecord /\ ~Taken(h, i) /\ h.seat[i].u = NoUser
             /\ h.seat[i].state = IF i = 0 THEN "dealer" ELSE "open"
  <2>1. h.seat[i] = [u |-> NoUser, state |-> IF i = 0 THEN "dealer" ELSE "open",
                     chips |-> f[i], wager |-> 0, cards |-> 0]
    BY <1>1
  <2>2. f[i] \in Int
    BY ChipsAssumption
  <2>3. 0 \in 0 .. HandCap
    BY ChipsAssumption
  <2> QED
    BY <2>1, <2>2, <2>3 DEF SeatRecord, Taken
<1>3. h.seat \in [Seats -> SeatRecord] /\ h = [seat |-> h.seat, turn |-> 0]
  BY <1>1, <1>2
<1>4. h \in Game
  BY <1>3, SeatZero DEF Game
<1> QED
  BY <1>2, <1>4, SeatZero DEF Seated

\* An empty table with nobody connected satisfies the invariant.
LEMMA InitIInv == Init => IInv
<1> SUFFICES ASSUME Init PROVE IInv
  OBVIOUS
<1>1. Seated(g)
  BY NewGameSeated DEF Init
<1>2. strand = << >> /\ DOMAIN strand = {} /\ strand \in Seq(Handler)
  BY DEF Init
<1>3. TypeOK
  BY <1>1, <1>2, BoundsAssumption DEF Init, TypeOK, Seated
<1>4. MemberSeats = {}
  BY DEF Init, MemberSeats
<1> QED
  BY <1>1, <1>2, <1>3, <1>4
  DEF IInv, Lives, Current, InOrder, Later, ErasedLater, NoLostSeat, Init

\* The strand after a handler was posted
LEMMA Posted ==
    ASSUME strand \in Seq(Handler), NEW h \in Handler, strand' = Append(strand, h)
    PROVE  /\ strand' \in Seq(Handler)
           /\ DOMAIN strand = 1 .. Len(strand) /\ Len(strand) \in Nat
           /\ DOMAIN strand' = 1 .. Len(strand) + 1
           /\ \A k \in DOMAIN strand : k \in DOMAIN strand' /\ strand'[k] = strand[k]
           /\ \A k \in DOMAIN strand' : k \in DOMAIN strand \/ k = Len(strand) + 1
           /\ strand'[Len(strand) + 1] = h
OBVIOUS

\* The strand after its first handler was run
LEMMA Shifted ==
    ASSUME strand \in Seq(Handler), strand # << >>, strand' = Tail(strand)
    PROVE  /\ strand' \in Seq(Handler)
           /\ 1 \in DOMAIN strand /\ Head(strand) = strand[1]
           /\ \A k \in DOMAIN strand' :
                k + 1 \in DOMAIN strand /\ 1 < k + 1 /\ strand'[k] = strand[k + 1]
           /\ \A k \in DOMAIN strand :
                k = 1 \/ (1 < k /\ k - 1 \in DOMAIN strand' /\ strand'[k - 1] = strand[k])
           /\ DOMAIN strand \subseteq Nat /\ DOMAIN strand' \subseteq Nat
<1>1. /\ DOMAIN strand = 1 .. Len(strand) /\ Len(strand) \in Nat /\ Len(strand) > 0
      /\ Head(strand) = strand[1]
  OBVIOUS
<1>2. /\ strand' \in Seq(Handler) /\ DOMAIN strand' = 1 .. Len(strand) - 1
      /\ \A k \in 1 .. Len(strand) - 1 : strand'[k] = strand[k + 1]
  BY <1>1
<1>3. ASSUME NEW k \in DOMAIN strand, k # 1
      PROVE  k - 1 \in DOMAIN strand' /\ strand'[k - 1] = strand[k - 1 + 1] /\ k - 1 + 1 = k
  BY <1>1, <1>2, <1>3
<1> QED
  BY <1>1, <1>2, <1>3

-----------------------------------------------------------------------------
(* Steps of the sessions                                                   *)

\* A step that leaves the strand and the game alone, forgets no do_erase that
\* is to come, and frees or replaces no user that a handler keeps alive
LEMMA StillKeeps ==
    ASSUME IInv, TypeOK', Lives', UNCHANGED <<strand, g, holder>>,
           \A v \in Users : v \in users \/ phase[v] = "erasing"
                            => v \in users' \/ phase'[v] = "erasing",
           \A v \in Users : epoch'[v] = epoch[v]
                            \/ (life[v] = "free" /\ epoch'[v] = epoch[v] + 1),
           \A k \in DOMAIN strand : strand[k].op # "erase" => life'[strand[k].u] = "live"
    PROVE  IInv'
<1>1. strand \in Seq(Handler) /\ \A k \in DOMAIN strand : strand[k] \in Handler
  BY DEF IInv, TypeOK
<1>2. \A k \in DOMAIN strand : strand[k].u \in Users /\ strand[k].e \in Nat
  BY <1>1 DEF Handler
<1>3. \A v \in Users : epoch[v] \in Nat
  BY BoundsAssumption DEF IInv, TypeOK
<1>4. Current'
  BY <1>2, <1>3 DEF Current, IInv
<1>5. MemberSeats' = MemberSeats
  BY DEF MemberSeats, Taken
<1>6. InOrder' /\ Later'
  BY <1>5 DEF InOrder, Later, IInv
<1>7. ErasedLater'
  BY <1>2 DEF ErasedLater, IInv
<1>8. NoLostSeat'
  <2> SUFFICES ASSUME NEW i \in MemberSeats PROVE EraseToCome(i)'
    BY <1>5 DEF NoLostSeat
  <2>1. g.seat[i].u \in Users
    BY DEF MemberSeats, IInv, Seated
  <2>2. EraseToCome(i)
    BY DEF IInv, NoLostSeat
  <2>3. life[g.seat[i].u] = "free" =>
            g.seat[i].u \notin users /\ phase[g.seat[i].u] # "erasing"
    BY <2>1 DEF IInv, Lives
  <2> QED
    BY <2>1, <2>2, <2>3 DEF EraseToCome
<1>9. Seated(g)'
  BY DEF IInv, Seated, Taken
<1> QED
  BY <1>4, <1>6, <1>7, <1>8, <1>9 DEF IInv

\* A step that posts a handler for u
LEMMA PostKeeps ==
    ASSUME IInv, TypeOK', Lives', NEW u \in Users, NEW op, post(op, u),
           Bound(op, u) \in Handler,
           UNCHANGED <<g, holder, life, epoch, users>>,
           op # "erase" => life[u] = "live",
           \A v \in Users : phase[v] = "erasing" =>
                phase'[v] = "erasing" \/ (v = u /\ op = "erase")
    PROVE  IInv'
<1> DEFINE h == Bound(op, u)
           n == Len(strand) + 1
<1>1. /\ DOMAIN strand = 1 .. Len(strand) /\ Len(strand) \in Nat
      /\ DOMAIN strand' = 1 .. n
      /\ \A k \in DOMAIN strand : k \in DOMAIN strand' /\ strand'[k] = strand[k]
      /\ \A k \in DOMAIN strand' : k \in DOMAIN strand \/ k = n
      /\ strand'[n] = h /\ n \in DOMAIN strand'
  BY Posted DEF IInv, TypeOK, post
<1>2. h.op = op /\ h.u = u /\ h.e = epoch[u] /\ h.member = (u \in users) /\ epoch[u] \in Nat
  BY BoundsAssumption DEF Bound, IInv, TypeOK
<1>3. \A k \in DOMAIN strand : strand[k] \in Handler
  BY DEF IInv, TypeOK
<1>4. \A k \in DOMAIN strand : strand[k].u \in Users /\ strand[k].e \in Nat
  BY <1>3 DEF Handler
<1> HIDE DEF h
<1>5. Current'
  <2> SUFFICES ASSUME NEW k \in DOMAIN strand'
               PROVE  /\ strand'[k].e <= epoch[strand'[k].u]
                      /\ strand'[k].op # "erase" =>
                            life[strand'[k].u] = "live" /\ strand'[k].e = epoch[strand'[k].u]
    BY DEF Current
  <2>1. CASE k \in DOMAIN strand
    BY <2>1, <1>1 DEF IInv, Current
  <2>2. CASE k = n
    BY <2>2, <1>1, <1>2
  <2> QED
    BY <2>1, <2>2, <1>1
<1>6. InOrder'
  <2> SUFFICES ASSUME NEW j \in DOMAIN strand', NEW k \in DOMAIN strand', j < k,
                      strand'[j].u = strand'[k].u
               PROVE  strand'[j].e <= strand'[k].e
    BY DEF InOrder
  <2>1. j \in DOMAIN strand
    BY <1>1
  <2>2. CASE k \in DOMAIN strand
    BY <2>1, <2>2, <1>1 DEF IInv, InOrder
  <2>3. CASE k = n
    BY <2>1, <2>3, <1>1, <1>2 DEF IInv, Current
  <2> QED
    BY <2>2, <2>3, <1>1
<1>7. MemberSeats' = MemberSeats
  BY DEF MemberSeats, Taken
<1>8. ASSUME NEW i \in MemberSeats
      PROVE  /\ g.seat[i].u \in Users /\ holder[i] \in Nat /\ EraseToCome(i)
             /\ holder[i] <= epoch[g.seat[i].u]
  <2>1. g.seat[i].u \in Users /\ EraseToCome(i) /\ i \in Seats
    BY DEF MemberSeats, IInv, Seated, NoLostSeat
  <2>2. holder[i] \in Nat /\ epoch[g.seat[i].u] \in Nat
    BY <2>1, BoundsAssumption DEF IInv, TypeOK
  <2> QED
    BY <2>1, <2>2, <1>4 DEF EraseToCome, IInv, Current
<1>9. Later'
  <2> SUFFICES ASSUME NEW i \in MemberSeats, NEW k \in DOMAIN strand',
                      strand'[k].u = g.seat[i].u
               PROVE  holder[i] <= strand'[k].e
    BY <1>7 DEF Later
  <2>1. CASE k \in DOMAIN strand
    BY <2>1, <1>1 DEF IInv, Later
  <2>2. CASE k = n
    BY <2>2, <1>1, <1>2, <1>8
  <2> QED
    BY <2>1, <2>2, <1>1
<1>10. ErasedLater'
  <2> SUFFICES ASSUME NEW k \in DOMAIN strand', strand'[k].member, strand'[k].op # "erase"
               PROVE  \/ strand'[k].u \in users \/ phase'[strand'[k].u] = "erasing"
                      \/ \E j \in DOMAIN strand' :
                            /\ k < j /\ strand'[j].op = "erase"
                            /\ strand'[j].u = strand'[k].u /\ strand'[j].e = strand'[k].e
    BY DEF ErasedLater
  <2>1. CASE k = n
    BY <2>1, <1>1, <1>2
  <2>2. CASE k \in DOMAIN strand
    <3>1. /\ strand'[k] = strand[k] /\ strand[k].u \in Users /\ k < n
          /\ strand[k].e = epoch[strand[k].u]
      BY <2>2, <1>1, <1>4 DEF IInv, Current
    <3>2. CASE strand[k].u \in users
      BY <3>1, <3>2
    <3>3. CASE phase[strand[k].u] = "erasing"
      BY <3>1, <3>3, <1>1, <1>2
    <3>4. CASE \E j \in DOMAIN strand :
                /\ k < j /\ strand[j].op = "erase"
                /\ strand[j].u = strand[k].u /\ strand[j].e = strand[k].e
      BY <3>1, <3>4, <1>1
    <3> QED
      BY <2>2, <3>1, <3>2, <3>3, <3>4 DEF IInv, ErasedLater
  <2> QED
    BY <2>1, <2>2, <1>1
<1>11. NoLostSeat'
  <2> SUFFICES ASSUME NEW i \in MemberSeats PROVE EraseToCome(i)'
    BY <1>7 DEF NoLostSeat
  <2>1. CASE \E k \in DOMAIN strand :
                strand[k].op = "erase" /\ strand[k].u = g.seat[i].u /\ strand[k].e = holder[i]
    BY <2>1, <1>1 DEF EraseToCome
  <2>2. CASE epoch[g.seat[i].u] = holder[i] /\ g.seat[i].u \in users
    BY <2>2 DEF EraseToCome
  <2>3. CASE epoch[g.seat[i].u] = holder[i] /\ phase[g.seat[i].u] = "erasing"
    BY <2>3, <1>1, <1>2, <1>8 DEF EraseToCome
  <2> QED
    BY <2>1, <2>2, <2>3, <1>8 DEF EraseToCome
<1>12. Seated(g)'
  BY DEF IInv, Seated, Taken
<1> QED
  BY <1>5, <1>6, <1>9, <1>10, <1>11, <1>12 DEF IInv

\* The sessions keep the invariant: an address is used again only when nothing
\* but do_erase remains on the strand of the user it had.
LEMMA SessionKeeps ==
    ASSUME IInv, NEW u \in Users,
           \/ Connect(u) \/ Join(u) \/ Leave(u) \/ EndSession(u)
           \/ \E m \in Methods : on_dispatch(u, m)
           \/ Finish(u)
    PROVE  IInv'
<1>1. TypeOK /\ Lives /\ Current
  BY DEF IInv
<1>2. strand \in Seq(Handler) /\ \A k \in DOMAIN strand : strand[k].u \in Users
  <2>1. strand \in Seq(Handler) /\ \A k \in DOMAIN strand : strand[k] \in Handler
    BY <1>1 DEF TypeOK
  <2> QED
    BY <2>1 DEF Handler
<1>3. ASSUME NEW op \in Methods \cup {"insert", "erase"}, life[u] # "free"
      PROVE  Bound(op, u) \in Handler
  BY <1>1, <1>3 DEF Bound, Handler, Lives
<1>4. ASSUME NEW op \in Methods \cup {"insert", "erase"}, life[u] # "free", post(op, u)
      PROVE  strand' \in Seq(Handler)
  BY <1>2, <1>3, <1>4 DEF post
<1>5. ASSUME Connect(u) PROVE IInv'
  <2>1. TypeOK'
    BY <1>1, <1>5, BoundsAssumption DEF TypeOK, Connect
  <2>2. Lives'
    BY <1>1, <1>5, BoundsAssumption DEF TypeOK, Lives, Connect
  <2>3. \A k \in DOMAIN strand : strand[k].op # "erase" => life'[strand[k].u] = "live"
    BY <1>1, <1>2, <1>5 DEF TypeOK, Current, Connect
  <2>4. \A v \in Users : epoch'[v] = epoch[v]
                         \/ (life[v] = "free" /\ epoch'[v] = epoch[v] + 1)
    <3>1. epoch \in [Users -> 0 .. MaxEpoch] /\ life[u] = "free"
          /\ epoch' = [epoch EXCEPT ![u] = epoch[u] + 1]
      BY <1>1, <1>5 DEF TypeOK, Connect
    <3> QED
      BY <3>1
  <2>5. UNCHANGED <<users, phase, strand, g, holder>>
    BY <1>5 DEF Connect
  <2> QED
    BY <2>1, <2>2, <2>3, <2>4, <2>5, StillKeeps
<1>6. ASSUME Join(u) \/ Leave(u) \/ EndSession(u) \/ Destroy(u) PROVE IInv'
  <2>1. TypeOK'
    BY <1>1, <1>6 DEF TypeOK, Join, Leave, EndSession, Destroy, GameUnchanged
  <2>2. UNCHANGED <<life, epoch, strand, g, holder>>
    BY <1>6 DEF Join, Leave, EndSession, Destroy, GameUnchanged
  <2>3. Lives'
    BY <1>1, <1>6, <2>2 DEF TypeOK, Lives, Join, Leave, EndSession, Destroy, Ready
  <2>4. \A v \in Users : v \in users \/ phase[v] = "erasing"
                         => v \in users' \/ phase'[v] = "erasing"
    BY <1>1, <1>6 DEF TypeOK, Join, Leave, EndSession, Destroy, Ready
  <2>5. \A k \in DOMAIN strand : strand[k].op # "erase" => life'[strand[k].u] = "live"
    BY <1>1, <2>2 DEF Current
  <2>6. \A v \in Users : epoch'[v] = epoch[v]
                         \/ (life[v] = "free" /\ epoch'[v] = epoch[v] + 1)
    BY <2>2
  <2> QED
    BY <2>1, <2>2, <2>3, <2>4, <2>5, <2>6, StillKeeps
<1>7. ASSUME Expire(u) \/ Free(u) PROVE IInv'
  <2>1. TypeOK' /\ UNCHANGED <<epoch, users, phase, strand, g, holder>>
    BY <1>1, <1>7 DEF TypeOK, Expire, Free, GameUnchanged
  <2>2. Lives'
    <3>1. CASE Expire(u)
      BY <1>1, <3>1 DEF TypeOK, Lives, Expire, Referenced
    <3>2. CASE Free(u)
      BY <1>1, <3>2 DEF TypeOK, Lives, Free
    <3> QED
      BY <1>7, <3>1, <3>2
  <2>3. \A k \in DOMAIN strand : strand[k].op # "erase" => life'[strand[k].u] = "live"
    <3>1. CASE Expire(u)
      BY <1>1, <1>2, <3>1 DEF TypeOK, Current, Expire, Referenced
    <3>2. CASE Free(u)
      BY <1>1, <1>2, <3>2 DEF TypeOK, Current, Free
    <3> QED
      BY <1>7, <3>1, <3>2
  <2>4. \A v \in Users : epoch'[v] = epoch[v]
                         \/ (life[v] = "free" /\ epoch'[v] = epoch[v] + 1)
    BY <2>1
  <2>5. \A v \in Users : v \in users \/ phase[v] = "erasing"
                         => v \in users' \/ phase'[v] = "erasing"
    BY <2>1
  <2> QED
    BY <2>1, <2>2, <2>3, <2>4, <2>5, StillKeeps
<1>8. ASSUME on_insert(u) \/ on_erase(u) PROVE IInv'
  <2>1. PICK op \in {"insert", "erase"} :
            /\ post(op, u) /\ phase[u] # "idle" /\ phase' = [phase EXCEPT ![u] = "idle"]
            /\ op = "insert" => phase[u] = "inserting"
            /\ op = "erase" => phase[u] = "erasing"
    BY <1>8 DEF on_insert, on_erase
  <2>2. UNCHANGED <<life, epoch, session, users, g, holder, synced, crashed>>
    BY <1>8 DEF on_insert, on_erase, GameUnchanged
  <2>3. life[u] # "free"
    BY <1>1, <2>1 DEF Lives, TypeOK
  <2>4. Bound(op, u) \in Handler /\ strand' \in Seq(Handler)
    BY <1>3, <1>4, <2>1, <2>3
  <2>5. TypeOK' /\ Lives'
    BY <1>1, <2>1, <2>2, <2>4 DEF TypeOK, Lives
  <2>6. \A v \in Users : phase[v] = "erasing" =>
            phase'[v] = "erasing" \/ (v = u /\ op = "erase")
    BY <1>1, <2>1 DEF TypeOK
  <2>7. op # "erase" => life[u] = "live"
    BY <1>1, <2>1 DEF Lives
  <2> QED
    BY <2>1, <2>2, <2>4, <2>5, <2>6, <2>7, PostKeeps
<1>9. ASSUME NEW m \in Methods, on_dispatch(u, m) PROVE IInv'
  <2>1. /\ post(m, u) /\ u \in session
        /\ UNCHANGED <<life, epoch, session, users, phase, g, holder, synced, crashed>>
    BY <1>9 DEF on_dispatch, Ready, GameUnchanged
  <2>2. life[u] = "live"
    BY <1>1, <2>1 DEF Lives
  <2>3. Bound(m, u) \in Handler /\ strand' \in Seq(Handler)
    BY <1>3, <1>4, <2>1, <2>2
  <2>4. TypeOK' /\ Lives'
    BY <1>1, <2>1, <2>3 DEF TypeOK, Lives
  <2> QED
    BY <2>1, <2>2, <2>3, <2>4, PostKeeps
<1> QED
  BY <1>5, <1>6, <1>7, <1>8, <1>9 DEF Finish

-----------------------------------------------------------------------------
(* Steps of the strand                                                     *)

\* A handler whose user's address has a seat comes from the user that took it.
LEMMA HeadOwnsSeat ==
    ASSUME IInv, strand # << >>, NEW i \in MemberSeats, g.seat[i].u = Who
    PROVE  Head(strand).e = holder[i]
<1>1. /\ strand \in Seq(Handler) /\ 1 \in DOMAIN strand /\ Head(strand) = strand[1]
      /\ DOMAIN strand = 1 .. Len(strand) /\ \A k \in DOMAIN strand : strand[k] \in Handler
  BY DEF IInv, TypeOK
<1>2. \A k \in DOMAIN strand : strand[k].u \in Users /\ strand[k].e \in Nat
  BY <1>1 DEF Handler
<1>3. holder[i] \in Nat /\ epoch[Who] \in Nat
  <2>1. i \in Seats /\ Who \in Users
    BY <1>1, <1>2 DEF MemberSeats, Who
  <2> QED
    BY <2>1, BoundsAssumption DEF IInv, TypeOK
<1>4. holder[i] <= strand[1].e /\ strand[1].e <= epoch[Who]
  BY <1>1 DEF IInv, Later, Current, Who
<1>5. CASE epoch[Who] = holder[i]
  BY <1>1, <1>2, <1>3, <1>4, <1>5
<1>6. CASE \E k \in DOMAIN strand :
            strand[k].op = "erase" /\ strand[k].u = Who /\ strand[k].e = holder[i]
  <2>1. PICK k \in DOMAIN strand : strand[k].u = Who /\ strand[k].e = holder[i]
    BY <1>6
  <2>2. strand[1].e <= strand[k].e
    BY <1>1, <1>2, <2>1 DEF IInv, InOrder, Who
  <2> QED
    BY <1>1, <1>2, <1>3, <1>4, <2>1, <2>2
<1> QED
  BY <1>5, <1>6 DEF IInv, NoLostSeat, EraseToCome

\* The game stays one in which find works.
LEMMA SeatStepSeated ==
    ASSUME IInv, strand # << >>, SeatStep
    PROVE  Seated(g')
<1>1. Seated(g) /\ Who \in Users
  BY HeadHandler DEF IInv, TypeOK
<1> QED
  BY <1>1, TookKeepsSeated, UsedOwnKeepsSeated, DealtKeepsSeated DEF SeatStep

\* After a handler, a seat of a member is one that was there before, unless its
\* user has just been erased, or the one that was just taken.
LEMMA SeatStepMembers ==
    ASSUME IInv, strand # << >>, SeatStep, NEW l \in MemberSeats'
    PROVE  \/ /\ l \in MemberSeats /\ g'.seat[l].u = g.seat[l].u
              /\ holder'[l] = holder[l]
              /\ Head(strand).op = "erase" => g.seat[l].u # Who
           \/ /\ g'.seat[l].u = Who /\ holder'[l] = Head(strand).e
              /\ Head(strand).op = "play" /\ Head(strand).member
<1>1. Seated(g) /\ Who \in Users /\ holder \in [Seats -> 0 .. MaxEpoch] /\ l \in Seats
  BY HeadHandler DEF IInv, TypeOK, MemberSeats
<1>2. Taken(g', l) /\ holder'[l] # 0
  BY DEF MemberSeats
<1>3. ASSUME UNCHANGED <<g, holder>>, Head(strand).op = "erase" => ~HasSeat(g, Who)
      PROVE  /\ l \in MemberSeats /\ g'.seat[l].u = g.seat[l].u /\ holder'[l] = holder[l]
             /\ Head(strand).op = "erase" => g.seat[l].u # Who
  BY <1>1, <1>2, <1>3 DEF MemberSeats, HasSeat
<1>4. ASSUME Head(strand).op = "play", NEW i, Took(g, g', Who, i),
             holder' = [holder EXCEPT ![i] =
                    IF Head(strand).member THEN Head(strand).e ELSE 0]
      PROVE  \/ /\ l \in MemberSeats /\ g'.seat[l].u = g.seat[l].u
                /\ holder'[l] = holder[l]
             \/ /\ g'.seat[l].u = Who /\ holder'[l] = Head(strand).e
                /\ Head(strand).member
  <2>1. /\ i \in Seats \ {0} /\ g'.seat[i].u = Who
        /\ \A j \in Seats : j # i => g'.seat[j] = g.seat[j]
    BY <1>1, <1>4, TookSeat
  <2>2. CASE l = i
    BY <1>1, <1>2, <1>4, <2>1, <2>2
  <2>3. CASE l # i
    BY <1>1, <1>2, <1>4, <2>1, <2>3 DEF MemberSeats, Taken
  <2> QED
    BY <2>2, <2>3
<1>5. ASSUME UNCHANGED holder, NEW i, UsedOwn(g, g', Who, i),
             Head(strand).op = "erase" => ~Taken(g', i)
      PROVE  /\ l \in MemberSeats /\ g'.seat[l].u = g.seat[l].u /\ holder'[l] = holder[l]
             /\ Head(strand).op = "erase" => g.seat[l].u # Who
  <2>1. /\ i \in Seats \ {0} /\ g'.seat[i].u = Who /\ Taken(g, i) /\ g.seat[i].u = Who
        /\ \A j \in Seats : j # i => g'.seat[j] = g.seat[j]
    BY <1>1, <1>5, UsedOwnSeat
  <2>2. Taken(g, l) /\ g'.seat[l].u = g.seat[l].u
    BY <1>1, <1>2, <2>1 DEF Taken
  <2>3. g.seat[l].u = Who => l = i
    BY <1>1, <2>1, <2>2 DEF Seated
  <2> QED
    BY <1>1, <1>2, <1>5, <2>2, <2>3 DEF MemberSeats
<1>6. ASSUME Dealt(g, g'), UNCHANGED holder
      PROVE  l \in MemberSeats /\ g'.seat[l].u = g.seat[l].u /\ holder'[l] = holder[l]
  <2>1. g'.seat[l].u = g.seat[l].u /\ g'.seat[l].state = g.seat[l].state
    BY <1>1, <1>6, DealtSeats
  <2> QED
    BY <1>1, <1>2, <1>6, <2>1 DEF MemberSeats, Taken
<1> QED
  BY <1>3, <1>4, <1>5, <1>6 DEF SeatStep

\* A handler keeps the invariant: do_play seats a user whose do_erase is still
\* to come, and do_erase leaves the strand with the seat it was to free.
LEMMA HandleKeeps == ASSUME IInv, Handle PROVE IInv'
<1>1. Ran /\ SeatStep /\ ToldStep
  BY HandleSteps DEF IInv
<1>2. /\ strand \in Seq(Handler) /\ strand # << >> /\ strand' = Tail(strand)
      /\ UNCHANGED <<life, epoch, session, users, phase>>
  BY <1>1 DEF IInv, TypeOK, Ran
<1>3. /\ strand' \in Seq(Handler)
      /\ 1 \in DOMAIN strand /\ Head(strand) = strand[1]
      /\ \A k \in DOMAIN strand' :
            k + 1 \in DOMAIN strand /\ 1 < k + 1 /\ strand'[k] = strand[k + 1]
      /\ \A k \in DOMAIN strand :
            k = 1 \/ (1 < k /\ k - 1 \in DOMAIN strand' /\ strand'[k - 1] = strand[k])
      /\ DOMAIN strand \subseteq Nat /\ DOMAIN strand' \subseteq Nat
  BY <1>2, Shifted
<1>4. Seated(g')
  BY <1>1, <1>2, SeatStepSeated
<1>5. Head(strand) \in Handler /\ Who \in Users
  BY <1>2, HeadHandler
<1>6. holder' \in [Seats -> 0 .. MaxEpoch]
  <2>1. holder \in [Seats -> 0 .. MaxEpoch] /\ Head(strand).e \in 0 .. MaxEpoch /\ 0 \in 0 .. MaxEpoch
    BY <1>5, BoundsAssumption DEF IInv, TypeOK, Handler
  <2>2. (IF Head(strand).member THEN Head(strand).e ELSE 0) \in 0 .. MaxEpoch
    BY <2>1
  <2> QED
    BY <1>1, <2>1, <2>2 DEF SeatStep
<1>7. TypeOK'
  BY <1>1, <1>2, <1>3, <1>4, <1>6 DEF IInv, TypeOK, Seated, ToldStep
<1>8. Lives'
  BY <1>2 DEF IInv, Lives
<1>9. Current'
  BY <1>2, <1>3 DEF IInv, Current
<1>10. InOrder'
  <2> SUFFICES ASSUME NEW j \in DOMAIN strand', NEW k \in DOMAIN strand', j < k,
                      strand'[j].u = strand'[k].u
               PROVE  strand'[j].e <= strand'[k].e
    BY DEF InOrder
  <2>1. j + 1 \in DOMAIN strand /\ k + 1 \in DOMAIN strand /\ j + 1 < k + 1
    BY <1>3
  <2> QED
    BY <1>3, <2>1 DEF IInv, InOrder
<1>11. ErasedLater'
  <2> SUFFICES ASSUME NEW k \in DOMAIN strand', strand'[k].member, strand'[k].op # "erase"
               PROVE  \/ strand'[k].u \in users \/ phase[strand'[k].u] = "erasing"
                      \/ \E j \in DOMAIN strand' :
                            /\ k < j /\ strand'[j].op = "erase"
                            /\ strand'[j].u = strand'[k].u /\ strand'[j].e = strand'[k].e
    BY <1>2 DEF ErasedLater
  <2>1. k + 1 \in DOMAIN strand /\ strand'[k] = strand[k + 1] /\ k \in Nat
    BY <1>3
  <2>2. ASSUME NEW j \in DOMAIN strand, k + 1 < j
        PROVE  j - 1 \in DOMAIN strand' /\ strand'[j - 1] = strand[j] /\ k < j - 1
    BY <1>3, <2>1, <2>2
  <2> QED
    BY <2>1, <2>2 DEF IInv, ErasedLater
<1>12. ASSUME NEW l \in MemberSeats'
       PROVE  \/ /\ l \in MemberSeats /\ g'.seat[l].u = g.seat[l].u
                 /\ holder'[l] = holder[l]
                 /\ Head(strand).op = "erase" => g.seat[l].u # Who
              \/ /\ g'.seat[l].u = Who /\ holder'[l] = Head(strand).e
                 /\ Head(strand).op = "play" /\ Head(strand).member
  BY <1>1, <1>2, SeatStepMembers
<1>13. Later'
  <2> SUFFICES ASSUME NEW l \in MemberSeats', NEW k \in DOMAIN strand',
                      strand'[k].u = g'.seat[l].u
               PROVE  holder'[l] <= strand'[k].e
    BY DEF Later
  <2>1. CASE l \in MemberSeats /\ g'.seat[l].u = g.seat[l].u /\ holder'[l] = holder[l]
    BY <2>1, <1>3 DEF IInv, Later
  <2>2. CASE g'.seat[l].u = Who /\ holder'[l] = Head(strand).e
    BY <2>2, <1>3 DEF IInv, InOrder, Who
  <2> QED
    BY <2>1, <2>2, <1>12
<1>14. NoLostSeat'
  <2> SUFFICES ASSUME NEW l \in MemberSeats' PROVE EraseToCome(l)'
    BY DEF NoLostSeat
  <2>1. CASE /\ l \in MemberSeats /\ g'.seat[l].u = g.seat[l].u
             /\ holder'[l] = holder[l]
             /\ Head(strand).op = "erase" => g.seat[l].u # Who
    <3>1. EraseToCome(l)
      BY <2>1 DEF IInv, NoLostSeat
    <3>2. ASSUME NEW k \in DOMAIN strand, strand[k].op = "erase",
                 strand[k].u = g.seat[l].u, strand[k].e = holder[l]
          PROVE  EraseToCome(l)'
      <4>1. k # 1
        BY <1>3, <2>1, <3>2 DEF Who
      <4>2. k - 1 \in DOMAIN strand' /\ strand'[k - 1] = strand[k]
        BY <1>3, <4>1
      <4> QED
        BY <2>1, <3>2, <4>2 DEF EraseToCome
    <3> QED
      BY <1>2, <2>1, <3>1, <3>2 DEF EraseToCome
  <2>2. CASE /\ g'.seat[l].u = Who /\ holder'[l] = Head(strand).e
             /\ Head(strand).op = "play" /\ Head(strand).member
    <3>1. Head(strand).e = epoch[Who]
      BY <1>3, <2>2 DEF IInv, Current, Who
    <3>2. ASSUME NEW j \in DOMAIN strand, 1 < j, strand[j].op = "erase",
                 strand[j].u = Who, strand[j].e = Head(strand).e
          PROVE  EraseToCome(l)'
      <4>1. j - 1 \in DOMAIN strand' /\ strand'[j - 1] = strand[j]
        BY <1>3, <3>2
      <4> QED
        BY <2>2, <3>2, <4>1 DEF EraseToCome
    <3>3. \/ Who \in users \/ phase[Who] = "erasing"
          \/ \E j \in DOMAIN strand :
                /\ 1 < j /\ strand[j].op = "erase"
                /\ strand[j].u = Who /\ strand[j].e = Head(strand).e
      BY <1>3, <2>2 DEF IInv, ErasedLater, Who
    <3>4. CASE Who \in users \/ phase[Who] = "erasing"
      <4> DEFINE w == Who
      <4>1. /\ g'.seat[l].u = w /\ epoch'[w] = holder'[l]
            /\ w \in users' \/ phase'[w] = "erasing"
        BY <1>2, <2>2, <3>1, <3>4
      <4> HIDE DEF w
      <4> QED
        BY <4>1 DEF EraseToCome
    <3> QED
      BY <3>2, <3>3, <3>4
  <2> QED
    BY <2>1, <2>2, <1>12
<1> QED
  BY <1>4, <1>7, <1>8, <1>9, <1>10, <1>11, <1>13, <1>14 DEF IInv

\* Every step keeps the invariant.
LEMMA NextIInv == IInv /\ [Next]_vars => IInv'
<1> SUFFICES ASSUME IInv, [Next]_vars PROVE IInv'
  OBVIOUS
<1>1. ASSUME UNCHANGED vars PROVE IInv'
  <2>1. TypeOK' /\ Lives' /\ Current'
    BY <1>1 DEF IInv, vars, TypeOK, Lives, Current
  <2>2. MemberSeats' = MemberSeats /\ Seated(g)'
    BY <1>1 DEF IInv, vars, MemberSeats, Taken, Seated
  <2>3. InOrder' /\ Later' /\ ErasedLater'
    BY <1>1, <2>2 DEF IInv, vars, InOrder, Later, ErasedLater
  <2>4. NoLostSeat'
    BY <1>1, <2>2 DEF IInv, vars, NoLostSeat, EraseToCome
  <2> QED
    BY <2>1, <2>2, <2>3, <2>4 DEF IInv
<1> QED
  BY <1>1, SessionKeeps, HandleKeeps DEF Next

\* The invariant holds in every reachable state.
LEMMA Invariance == Spec => []IInv
BY InitIInv, NextIInv, PTL DEF Spec

-----------------------------------------------------------------------------
(* The theorems                                                            *)

\* The game, the strand and the lives of the users keep their types; a hand in
\* particular never has more cards than its array has room for.
THEOREM TableTypeOK == Spec => []TypeOK
<1>1. IInv => TypeOK
  BY DEF IInv
<1> QED
  BY <1>1, Invariance, PTL

\* game::find is asked before join seats anybody, so nobody has two seats, and
\* the dealer's seat, whose number find returns for none, stays the dealer's.
THEOREM OneSeatPerUserHolds == Spec => []OneSeatPerUser
<1>1. IInv => OneSeatPerUser
  BY DEF IInv, Seated, OneSeatPerUser
<1> QED
  BY <1>1, Invariance, PTL

\* A seat that was taken from inside the channel has the do_erase that will free
\* it still before it, however late, and however often the address of its user
\* has been used since.
THEOREM NoLostSeatHolds == Spec => []NoLostSeat
<1>1. IInv => NoLostSeat
  BY DEF IInv
<1> QED
  BY <1>1, Invariance, PTL

\* A record whose cards are set to what they are
LEMMA SameCards ==
    ASSUME NEW s \in SeatRecord, NEW r \in SeatRecord,
           r.u = s.u, r.state = s.state, r.chips = s.chips, r.wager = s.wager
    PROVE  [r EXCEPT !.cards = s.cards] = s
<1>1. PICK u, t, c, w, n : s = [u |-> u, state |-> t, chips |-> c, wager |-> w, cards |-> n]
  BY DEF SeatRecord
<1>2. PICK m : r = [u |-> u, state |-> t, chips |-> c, wager |-> w, cards |-> m]
  BY <1>1 DEF SeatRecord
<1>3. [r EXCEPT !.cards = n] = [u |-> u, state |-> t, chips |-> c, wager |-> w, cards |-> n]
  BY <1>2
<1> QED
  BY <1>1, <1>3

\* A handler changes no seat but that of the user it was posted for, and not
\* that of a later user of the same address either.
THEOREM OwnSeatOnlyHolds == Spec => OwnSeatOnly
<1> DEFINE Own(i) == LET s == g.seat[i] IN
                     [g'.seat[i] EXCEPT !.cards = s.cards] # s
                        => Who = s.u /\ Head(strand).e = holder[i]
           A == \A i \in MemberSeats : Own(i)
<1>1. ASSUME IInv, NEW i \in MemberSeats, g' = g PROVE Own(i)
  <2>1. g.seat[i] \in SeatRecord
    BY <1>1 DEF IInv, Seated, Game, MemberSeats
  <2> QED
    BY <1>1, <2>1, SameCards
<1>2. ASSUME IInv, NEW i \in MemberSeats, Handle PROVE Own(i)
  <2>1. SeatStep /\ strand # << >>
    BY <1>2, HandleSteps DEF IInv, Ran
  <2>2. /\ Seated(g) /\ Who \in Users /\ i \in Seats /\ Taken(g, i)
        /\ g.seat[i] \in SeatRecord
    BY <2>1, HeadHandler, <1>2 DEF IInv, TypeOK, MemberSeats, Seated, Game
  <2>3. g.seat[i].u = Who => Own(i)
    BY <1>2, <2>1, HeadOwnsSeat
  <2>4. ASSUME NEW j, Took(g, g', Who, j) PROVE Own(i)
    <3>1. j # i
      BY <2>2, <2>4 DEF Took, Taken
    <3>2. g'.seat[i] = g.seat[i]
      BY <2>2, <2>4, <3>1, TookSeat
    <3> QED
      BY <2>2, <3>2, SameCards
  <2>5. ASSUME NEW j, UsedOwn(g, g', Who, j) PROVE Own(i)
    <3>1. CASE j = i
      BY <2>2, <2>3, <2>5, <3>1 DEF UsedOwn
    <3>2. CASE j # i
      <4>1. g'.seat[i] = g.seat[i]
        BY <2>2, <2>5, <3>2, UsedOwnSeat
      <4> QED
        BY <2>2, <4>1, SameCards
    <3> QED
      BY <3>1, <3>2
  <2>6. ASSUME Dealt(g, g') PROVE Own(i)
    <3>1. /\ g'.seat[i].u = g.seat[i].u /\ g'.seat[i].state = g.seat[i].state
          /\ g'.seat[i].chips = g.seat[i].chips /\ g'.seat[i].wager = g.seat[i].wager
          /\ g' \in Game
      BY <2>2, <2>6, DealtSeats
    <3>2. g'.seat[i] \in SeatRecord
      BY <2>2, <3>1 DEF Game
    <3> QED
      BY <2>2, <3>1, <3>2, SameCards
  <2> HIDE DEF Own
  <2> QED
    BY <1>1, <1>2, <2>1, <2>4, <2>5, <2>6 DEF SeatStep
<1>3. IInv /\ [Next]_vars => [A]_vars
  <2> SUFFICES ASSUME IInv, Next PROVE A
    OBVIOUS
  <2>1. ASSUME NEW u \in Users, \/ Connect(u) \/ Join(u) \/ Leave(u) \/ EndSession(u)
                                \/ \E m \in Methods : on_dispatch(u, m)
                                \/ Finish(u)
        PROVE  g' = g
    BY <2>1 DEF Connect, Join, Leave, EndSession, on_dispatch, Finish, on_insert, on_erase,
                Expire, Destroy, Free, GameUnchanged
  <2> HIDE DEF Own
  <2> QED
    BY <1>1, <1>2, <2>1 DEF Next
<1>4. Spec => [][A]_vars
  BY <1>3, Invariance, PTL DEF Spec
<1> QED
  BY <1>4 DEF OwnSeatOnly

-----------------------------------------------------------------------------
\* What NoMissedUpdate asks of one user: it was sent the game, or it will be.
Informed(u) ==
    \/ u \in synced
    \/ crashed # "no" \/ life[u] # "live" \/ phase[u] = "inserting"
    \/ \E k \in DOMAIN strand : strand[k].op = "insert" /\ strand[k].u = u

\* update, on every change of the game, and do_insert, on arrival, leave nobody
\* in the channel with an old game.
THEOREM NoMissedUpdateHolds == Spec => []NoMissedUpdate
<1>1. Init => NoMissedUpdate
  BY DEF Init, NoMissedUpdate
<1>2. IInv /\ NoMissedUpdate /\ [Next]_vars => NoMissedUpdate'
  <2> SUFFICES ASSUME IInv, NoMissedUpdate, [Next]_vars, NEW v \in users'
               PROVE  Informed(v)'
    BY DEF NoMissedUpdate, Informed
  <2>1. TypeOK /\ Lives /\ \A u \in users : Informed(u)
    BY DEF IInv, NoMissedUpdate, Informed
  <2>2. ASSUME UNCHANGED <<life, phase, synced, crashed, strand>>, v \in users PROVE Informed(v)'
    BY <2>1, <2>2 DEF Informed
  <2>3. ASSUME UNCHANGED vars PROVE Informed(v)'
    BY <2>2, <2>3 DEF vars
  <2>4. ASSUME NEW u \in Users, Connect(u) PROVE Informed(v)'
    <3>1. v \in users /\ v # u
      BY <2>1, <2>4 DEF Connect, Lives
    <3> QED
      BY <2>1, <2>4, <3>1 DEF Connect, Informed, TypeOK
  <2>5. ASSUME NEW u \in Users, Join(u) PROVE Informed(v)'
    BY <2>1, <2>5 DEF Join, Informed, TypeOK, GameUnchanged
  <2>6. ASSUME NEW u \in Users, Leave(u) \/ Destroy(u) PROVE Informed(v)'
    <3>1. v \in users /\ v # u /\ UNCHANGED <<synced, crashed, life, strand>>
      BY <2>6 DEF Leave, Destroy, GameUnchanged
    <3>2. phase'[v] = phase[v]
      BY <2>1, <2>6, <3>1 DEF Leave, Destroy, TypeOK
    <3> QED
      BY <2>1, <3>1, <3>2 DEF Informed
  <2>7. ASSUME NEW u \in Users, EndSession(u) PROVE Informed(v)'
    BY <2>2, <2>7 DEF EndSession, GameUnchanged
  <2>8. ASSUME NEW u \in Users, Expire(u) \/ Free(u) PROVE Informed(v)'
    <3>1. v \in users /\ UNCHANGED <<synced, crashed, phase, strand>>
      BY <2>8 DEF Expire, Free, GameUnchanged
    <3>2. life'[v] = life[v] \/ life'[v] # "live"
      BY <2>1, <2>8 DEF Expire, Free, TypeOK
    <3> QED
      BY <2>1, <3>1, <3>2 DEF Informed
  <2>9. ASSUME NEW u \in Users, NEW op, post(op, u), UNCHANGED <<life, users, synced, crashed>>,
               phase' = phase \/ (phase' = [phase EXCEPT ![u] = "idle"] /\
                                    (phase[u] = "inserting" => op = "insert"))
        PROVE  Informed(v)'
    <3>1. /\ strand \in Seq(Handler) /\ v \in users /\ v \in Users
          /\ strand' = Append(strand, Bound(op, u))
      BY <2>1, <2>9 DEF TypeOK, post
    <3>2. Bound(op, u).op = op /\ Bound(op, u).u = u
      BY DEF Bound
    <3> DEFINE h == Bound(op, u)
    <3> HIDE DEF h
    <3>3. /\ \A k \in DOMAIN strand : k \in DOMAIN strand' /\ strand'[k] = strand[k]
          /\ Len(strand) + 1 \in DOMAIN strand' /\ strand'[Len(strand) + 1] = h
      BY <3>1 DEF h
    <3>4. CASE phase'[v] = phase[v]
      BY <2>1, <2>9, <3>1, <3>3, <3>4 DEF Informed
    <3>5. CASE phase'[v] # phase[v] /\ op = "insert"
      <4>1. v = u
        BY <2>1, <2>9, <3>1, <3>5 DEF TypeOK
      <4> QED
        BY <3>2, <3>3, <3>5, <4>1 DEF Informed, h
    <3>6. CASE phase'[v] # phase[v] /\ op # "insert"
      <4>1. v = u /\ phase[v] # "inserting"
        BY <2>1, <2>9, <3>1, <3>6 DEF TypeOK
      <4> QED
        BY <2>1, <2>9, <3>1, <3>3, <4>1 DEF Informed
    <3> QED
      BY <3>4, <3>5, <3>6
  <2>10. ASSUME NEW u \in Users, on_insert(u) \/ on_erase(u) PROVE Informed(v)'
    <3>1. PICK op \in {"insert", "erase"} :
            post(op, u) /\ phase' = [phase EXCEPT ![u] = "idle"]
            /\ (phase[u] = "inserting" => op = "insert")
      BY <2>10 DEF on_insert, on_erase
    <3>2. UNCHANGED <<life, users, synced, crashed>>
      BY <2>10 DEF on_insert, on_erase, GameUnchanged
    <3> QED
      BY <2>9, <3>1, <3>2
  <2>11. ASSUME NEW u \in Users, NEW m \in Methods, on_dispatch(u, m) PROVE Informed(v)'
    <3>1. post(m, u) /\ UNCHANGED <<life, users, synced, crashed, phase>>
      BY <2>11 DEF on_dispatch, GameUnchanged
    <3> QED
      BY <2>9, <3>1
  <2>12. ASSUME Handle PROVE Informed(v)'
    <3>1. Ran /\ ToldStep
      BY <2>12, HandleSteps DEF IInv
    <3>2. /\ strand \in Seq(Handler) /\ strand # << >> /\ strand' = Tail(strand)
          /\ UNCHANGED <<life, users, phase>> /\ crashed = "no" /\ v \in users
      BY <2>1, <3>1 DEF TypeOK, Ran
    <3>3. /\ 1 \in DOMAIN strand /\ Head(strand) = strand[1]
          /\ \A k \in DOMAIN strand :
                k = 1 \/ (1 < k /\ k - 1 \in DOMAIN strand' /\ strand'[k - 1] = strand[k])
      BY <3>2, Shifted
    <3>4. CASE crashed' # "no" \/ life[v] # "live" \/ phase[v] = "inserting"
      BY <3>2, <3>4 DEF Informed
    <3>5. CASE life[v] = "live" /\ {u \in users : life[u] = "live"} \subseteq synced'
      BY <3>2, <3>5 DEF Informed
    <3>6. ASSUME synced \subseteq synced', Head(strand).op # "insert" \/ Who \in synced',
                 ~(crashed' # "no" \/ life[v] # "live" \/ phase[v] = "inserting")
          PROVE  Informed(v)'
      <4>1. CASE v \in synced'
        BY <4>1 DEF Informed
      <4>2. CASE v \notin synced'
        <5>1. PICK k \in DOMAIN strand : strand[k].op = "insert" /\ strand[k].u = v
          BY <2>1, <3>2, <3>6, <4>2 DEF Informed
        <5>2. k # 1
          BY <3>3, <3>6, <4>2, <5>1 DEF Who
        <5>3. k - 1 \in DOMAIN strand' /\ strand'[k - 1] = strand[k]
          BY <3>3, <5>2
        <5> QED
          BY <5>1, <5>3 DEF Informed
      <4> QED
        BY <4>1, <4>2
    <3> QED
      BY <3>1, <3>4, <3>5, <3>6 DEF ToldStep
  <2> QED
    BY <2>3, <2>4, <2>5, <2>6, <2>7, <2>8, <2>10, <2>11, <2>12 DEF Next, Finish
<1> QED
  BY <1>1, <1>2, Invariance, PTL DEF Spec

-----------------------------------------------------------------------------
\* What every step may do to the game
LEMMA GameSteps ==
    ASSUME IInv, [Next]_vars
    PROVE  \/ g' = g
           \/ Who \in Users /\ \E i : Took(g, g', Who, i)
           \/ Who \in Users /\ \E i : UsedOwn(g, g', Who, i)
           \/ Dealt(g, g')
<1>1. ASSUME NEW u \in Users, \/ Connect(u) \/ Join(u) \/ Leave(u) \/ EndSession(u)
                              \/ \E m \in Methods : on_dispatch(u, m)
                              \/ Finish(u)
      PROVE  g' = g
  BY <1>1 DEF Connect, Join, Leave, EndSession, on_dispatch, Finish, on_insert, on_erase,
              Expire, Destroy, Free, GameUnchanged
<1>2. ASSUME Handle
      PROVE  \/ g' = g
             \/ Who \in Users /\ \E i : Took(g, g', Who, i)
             \/ Who \in Users /\ \E i : UsedOwn(g, g', Who, i)
             \/ Dealt(g, g')
  <2>1. SeatStep /\ strand # << >>
    BY <1>2, HandleSteps DEF IInv, Ran
  <2>2. Who \in Users
    BY <2>1, HeadHandler DEF IInv, TypeOK
  <2> QED
    BY <2>1, <2>2 DEF SeatStep
<1>3. ASSUME UNCHANGED vars PROVE g' = g
  BY <1>3 DEF vars
<1> QED
  BY <1>1, <1>2, <1>3 DEF Next

\* The fields of the seats of a game that the invariant holds of
LEMMA SeatFields ==
    ASSUME NEW h, Seated(h), NEW i \in Seats
    PROVE  h.seat[i].chips \in Int /\ h.seat[i].wager \in Int /\ h.seat[i].cards \in Nat
<1>1. h.seat[i] \in SeatRecord
  BY DEF Seated, Game
<1> QED
  BY <1>1, ChipsAssumption DEF SeatRecord

\* Whatever the seats hold at first, no sequence of bets, surrenders, joins and
\* leaves makes or loses a chip, but for the stake that clear gives.
THEOREM ChipsConservedHolds == Spec => []ChipsConserved
<1>1. Init => ChipsConserved
  <2> SUFFICES ASSUME Init, NEW i \in Seats
               PROVE  g.seat[i].chips + g.seat[i].wager \in InitChips
    BY DEF ChipsConserved
  <2>1. PICK f \in [Seats -> InitChips] :
          g = [seat |-> [j \in Seats |->
                  [u |-> NoUser, state |-> IF j = 0 THEN "dealer" ELSE "open",
                   chips |-> f[j], wager |-> 0, cards |-> 0]],
               turn |-> 0]
    BY DEF Init, NewGames
  <2>2. g.seat[i].chips = f[i] /\ g.seat[i].wager = 0 /\ f[i] \in InitChips
    BY <2>1
  <2>3. f[i] \in Int
    BY <2>2, ChipsAssumption
  <2> QED
    BY <2>2, <2>3
<1>2. IInv /\ ChipsConserved /\ [Next]_vars => ChipsConserved'
  <2> SUFFICES ASSUME IInv, ChipsConserved, [Next]_vars, NEW i \in Seats
               PROVE  g'.seat[i].chips + g'.seat[i].wager \in InitChips \cup {Stake}
    BY DEF ChipsConserved
  <2>1. Seated(g) /\ g.seat[i].chips + g.seat[i].wager \in InitChips \cup {Stake}
    BY DEF IInv, ChipsConserved
  <2>2. CASE g' = g
    BY <2>1, <2>2
  <2>3. ASSUME Who \in Users, NEW j, Took(g, g', Who, j)
        PROVE  g'.seat[i].chips = g.seat[i].chips /\ g'.seat[i].wager = g.seat[i].wager
    <3>1. /\ \A l \in Seats : l # j => g'.seat[l] = g.seat[l]
          /\ g'.seat[j].chips = g.seat[j].chips /\ g'.seat[j].wager = g.seat[j].wager
      BY <2>1, <2>3, TookSeat
    <3> QED
      BY <3>1
  <2>4. ASSUME Who \in Users, NEW j, UsedOwn(g, g', Who, j)
        PROVE  g'.seat[i].chips + g'.seat[i].wager \in InitChips \cup {Stake}
    <3>1. /\ \A l \in Seats : l # j => g'.seat[l] = g.seat[l]
          /\ g'.seat[j].chips + g'.seat[j].wager
                \in {g.seat[j].chips + g.seat[j].wager, Stake}
      BY <2>1, <2>4, UsedOwnSeat
    <3>2. CASE j = i
      BY <2>1, <3>1, <3>2
    <3>3. CASE j # i
      BY <2>1, <3>1, <3>3
    <3> QED
      BY <3>2, <3>3
  <2>5. ASSUME Dealt(g, g')
        PROVE  g'.seat[i].chips = g.seat[i].chips /\ g'.seat[i].wager = g.seat[i].wager
    BY <2>1, <2>5, DealtSeats
  <2>6. \/ g' = g
        \/ Who \in Users /\ \E j : Took(g, g', Who, j)
        \/ Who \in Users /\ \E j : UsedOwn(g, g', Who, j)
        \/ Dealt(g, g')
    BY GameSteps
  <2> QED
    BY <2>1, <2>2, <2>3, <2>4, <2>5, <2>6
<1> QED
  BY <1>1, <1>2, Invariance, PTL DEF Spec

\* deal_one goes round the seats and starts with the dealer's, so the dealer's
\* hand, which is never cleared, is the first that can be full.
THEOREM DealsInTurnHolds == Spec => []DealsInTurn
<1> DEFINE due(h, i) == IF h.turn # 0 /\ i >= h.turn THEN 1 ELSE 0
           Fair(h) == \A i \in Seats : h.seat[i].cards + due(h, i) <= h.seat[0].cards
<1>1. ASSUME NEW h \in NewGames PROVE Fair(h)
  <2>1. PICK f \in [Seats -> InitChips] :
          h = [seat |-> [j \in Seats |->
                  [u |-> NoUser, state |-> IF j = 0 THEN "dealer" ELSE "open",
                   chips |-> f[j], wager |-> 0, cards |-> 0]],
               turn |-> 0]
    BY DEF NewGames
  <2>2. h.turn = 0 /\ \A i \in Seats : h.seat[i].cards = 0
    BY <2>1
  <2> QED
    BY <2>2, SeatZero
<1>2. ASSUME IInv, Fair(g), [Next]_vars PROVE Fair(g')
  <2>1. /\ Seated(g) /\ 0 \in Seats /\ Seats \subseteq Nat /\ g.turn \in Seats
        /\ \A i \in Seats : g.seat[i].cards \in Nat
    BY <1>2, SeatZero, SeatFields DEF IInv, Seated, Game
  <2>2. CASE g' = g
    BY <1>2, <2>2
  <2>3. ASSUME g'.turn = g.turn, g'.seat[0] = g.seat[0],
               \A l \in Seats : g'.seat[l].cards \in {0, g.seat[l].cards}
        PROVE  Fair(g')
    <3> SUFFICES ASSUME NEW i \in Seats
                 PROVE  g'.seat[i].cards + due(g, i) <= g.seat[0].cards
      BY <2>3
    <3>1. /\ g'.seat[i].cards \in {0, g.seat[i].cards} /\ due(g, i) \in {0, 1}
          /\ g.seat[i].cards \in Nat /\ g.seat[0].cards \in Nat
      BY <2>1, <2>3
    <3>2. g.seat[i].cards + due(g, i) <= g.seat[0].cards
      BY <1>2
    <3> HIDE DEF due
    <3> QED
      BY <3>1, <3>2
  <2>4. ASSUME Who \in Users, NEW j, Took(g, g', Who, j) PROVE Fair(g')
    <3>1. /\ j # 0 /\ g'.turn = g.turn
          /\ \A l \in Seats : l # j => g'.seat[l] = g.seat[l]
          /\ g'.seat[j].cards = g.seat[j].cards
      BY <2>1, <2>4, TookSeat
    <3> HIDE DEF Fair
    <3> QED
      BY <2>1, <2>3, <3>1
  <2>5. ASSUME Who \in Users, NEW j, UsedOwn(g, g', Who, j) PROVE Fair(g')
    <3>1. /\ j # 0 /\ g'.turn = g.turn
          /\ \A l \in Seats : l # j => g'.seat[l] = g.seat[l]
          /\ g'.seat[j].cards \in {0, g.seat[j].cards}
      <4>1. Seated(g)
        BY <2>1
      <4> HIDE DEF Fair, due
      <4> QED
        BY <2>5, <4>1, UsedOwnSeat
    <3> HIDE DEF Fair
    <3> QED
      BY <2>1, <2>3, <3>1
  <2>6. ASSUME Dealt(g, g') PROVE Fair(g')
    <3> DEFINE t == g.turn
    <3>1. /\ \A l \in Seats : l # t => g'.seat[l] = g.seat[l]
          /\ g'.seat[t].cards = g.seat[t].cards + 1
          /\ g'.turn = IF t + 1 >= NumSeats THEN 0 ELSE t + 1
      BY <2>1, <2>6, DealtSeats
    <3>2. t \in Seats /\ t \in Nat /\ g.seat[0].cards \in Nat
      BY <2>1
    <3> SUFFICES ASSUME NEW i \in Seats
                 PROVE  g'.seat[i].cards + due(g', i) <= g'.seat[0].cards
      OBVIOUS
    <3>3. i \in Nat /\ i < NumSeats /\ g.seat[i].cards \in Nat
      BY <2>1, SeatsAssumption DEF Seats
    <3>4. g.seat[i].cards + due(g, i) <= g.seat[0].cards
      BY <1>2
    <3> HIDE DEF t
    <3>5. CASE t = 0
      <4>1. g'.turn = 1 /\ g'.seat[0].cards = g.seat[0].cards + 1
        BY <3>1, <3>5, SeatsAssumption
      <4>2. due(g, i) = 0 /\ due(g', i) = (IF i = 0 THEN 0 ELSE 1)
        BY <3>3, <3>5, <4>1 DEF t
      <4>3. CASE i = 0
        BY <3>2, <4>1, <4>2, <4>3
      <4>4. CASE i # 0
        <5>1. g'.seat[i].cards = g.seat[i].cards
          BY <3>1, <3>5, <4>4
        <5> HIDE DEF due
        <5> QED
          BY <3>2, <3>3, <3>4, <4>1, <4>2, <4>4, <5>1
      <4> QED
        BY <4>3, <4>4
    <3>6. CASE t # 0
      <4>1. g'.seat[0].cards = g.seat[0].cards
        BY <2>1, <3>1, <3>6
      <4>2. CASE i = t
        <5>1. due(g, i) = 1 /\ due(g', i) = 0
          BY <3>1, <3>2, <3>6, <4>2, SeatsAssumption DEF t
        <5> HIDE DEF due
        <5> QED
          BY <3>1, <3>2, <3>3, <3>4, <4>1, <4>2, <5>1
      <4>3. CASE i # t
        <5>1. due(g', i) = due(g, i)
          BY <3>1, <3>2, <3>3, <3>6, <4>3, SeatsAssumption DEF t
        <5>2. g'.seat[i].cards = g.seat[i].cards
          BY <3>1, <4>3
        <5> HIDE DEF due
        <5> QED
          BY <3>4, <4>1, <5>1, <5>2
      <4> QED
        BY <4>2, <4>3
    <3> QED
      BY <3>5, <3>6
  <2> HIDE DEF Fair
  <2> QED
    BY <1>2, <2>2, <2>4, <2>5, <2>6, GameSteps
<1>3. DealsInTurn <=> Fair(g)
  BY DEF DealsInTurn
<1>4. Init => DealsInTurn
  BY <1>1, <1>3 DEF Init
<1>5. IInv /\ DealsInTurn /\ [Next]_vars => DealsInTurn'
  <2>1. Fair(g') => DealsInTurn'
    BY DEF DealsInTurn
  <2> HIDE DEF Fair
  <2> QED
    BY <1>2, <1>3, <2>1
<1> QED
  BY <1>4, <1>5, Invariance, PTL DEF Spec

-----------------------------------------------------------------------------
(* The table implements Roster                                             *)

\* Each step is one of the roster, or none.
LEMMA StepMembers == IInv /\ [Next]_vars => [Members!Next]_Members!vars
<1> SUFFICES ASSUME IInv, [Next]_vars PROVE [Members!Next]_Members!vars
  OBVIOUS
<1> DEFINE X == {u \in Users : life[u] # "free"}
           M == users \X {"table"}
<1>1. TypeOK /\ Lives
  BY DEF IInv
<1>2. ASSUME NEW u \in Users, Connect(u) PROVE [Members!Next]_Members!vars
  <2>1. u \notin X /\ X' = X \cup {u} /\ M' = M
    BY <1>1, <1>2 DEF Connect, TypeOK
  <2> HIDE DEF X, M
  <2>2. Members!Appear(u)
    BY <2>1 DEF Members!Appear, X, M
  <2> QED
    BY <2>2 DEF Members!Next
<1>3. ASSUME NEW u \in Users, Join(u) PROVE [Members!Next]_Members!vars
  <2>1. u \in X /\ X' = X /\ <<u, "table">> \notin M /\ M' = M \cup {<<u, "table">>}
    BY <1>1, <1>3 DEF Join, Ready, Lives
  <2>2. Members!Join(u, "table")
    BY <2>1 DEF Members!Join
  <2> QED
    BY <2>2 DEF Members!Next
<1>4. ASSUME NEW u \in Users, Leave(u) \/ Destroy(u) PROVE [Members!Next]_Members!vars
  <2>1. u \in X /\ X' = X /\ <<u, "table">> \in M /\ M' = M \ {<<u, "table">>}
    BY <1>1, <1>4 DEF Leave, Destroy, Lives
  <2>2. Members!Leave(u, "table")
    BY <2>1 DEF Members!Leave
  <2> QED
    BY <2>2 DEF Members!Next
<1>5. ASSUME NEW u \in Users, Free(u) PROVE [Members!Next]_Members!vars
  <2>1. /\ u \in X /\ X' = X \ {u} /\ M' = M
        /\ \A c \in {"table"} : <<u, c>> \notin M
    BY <1>1, <1>5 DEF Free, TypeOK
  <2>2. Members!Vanish(u)
    BY <2>1 DEF Members!Vanish
  <2> QED
    BY <2>2 DEF Members!Next
<1>6. ASSUME NEW u \in Users, Expire(u) PROVE X' = X /\ M' = M
  BY <1>1, <1>6 DEF Expire, TypeOK
<1>7. ASSUME NEW u \in Users,
             \/ EndSession(u) \/ on_insert(u) \/ on_erase(u)
             \/ \E m \in Methods : on_dispatch(u, m)
      PROVE  X' = X /\ M' = M
  BY <1>7 DEF EndSession, on_insert, on_erase, on_dispatch
<1>8. ASSUME Handle PROVE X' = X /\ M' = M
  BY <1>1, <1>8, HandleSteps DEF IInv, Ran
<1>9. ASSUME UNCHANGED vars PROVE X' = X /\ M' = M
  BY <1>9 DEF vars
<1>10. ASSUME X' = X, M' = M PROVE [Members!Next]_Members!vars
  BY <1>10 DEF Members!vars
<1> HIDE DEF X, M
<1> QED
  BY <1>2, <1>3, <1>4, <1>5, <1>6, <1>7, <1>8, <1>9, <1>10 DEF Next, Finish

\* The users of the table come, join, leave and go as Channel's do: none is
\* freed while it is in users_.
THEOREM TableImplementsRoster == Spec => TableRoster
<1>1. Init => Members!Init
  BY DEF Init, Members!Init
<1> QED
  BY <1>1, Invariance, StepMembers, PTL DEF Spec, Members!Spec, TableRoster

-----------------------------------------------------------------------------
(* The table implements Seating                                            *)

\* A posted do_erase is one more to come.
LEMMA PostQueued ==
    ASSUME strand \in Seq(Handler), NEW h \in Handler, strand' = Append(strand, h)
    PROVE  /\ h.op # "erase" => Queued' = Queued
           /\ h.op = "erase" => Queued' = Queued \cup {<<h.u, h.e>>}
<1> DEFINE n == Len(strand) + 1
<1>1. /\ \A k \in DOMAIN strand : k \in DOMAIN strand' /\ strand'[k] = strand[k]
      /\ \A k \in DOMAIN strand' : k \in DOMAIN strand \/ k = n
      /\ strand'[n] = h /\ n \in DOMAIN strand'
  BY Posted
<1> HIDE DEF n
<1>2. Queued \subseteq Queued'
  BY <1>1 DEF Queued
<1>3. h.op = "erase" => <<h.u, h.e>> \in Queued'
  BY <1>1 DEF Queued
<1>4. \A p \in Queued' : p \in Queued \/ (h.op = "erase" /\ p = <<h.u, h.e>>)
  <2> SUFFICES ASSUME NEW k \in DOMAIN strand', strand'[k].op = "erase"
               PROVE  \/ <<strand'[k].u, strand'[k].e>> \in Queued
                      \/ h.op = "erase" /\ <<strand'[k].u, strand'[k].e>> = <<h.u, h.e>>
    BY DEF Queued
  <2>1. CASE k = n
    BY <1>1, <2>1
  <2>2. CASE k \in DOMAIN strand
    BY <1>1, <2>2 DEF Queued
  <2> QED
    BY <1>1, <2>1, <2>2
<1> QED
  BY <1>2, <1>3, <1>4

\* A do_erase that has run is one less, unless the same user has another.
LEMMA RunQueued ==
    ASSUME strand \in Seq(Handler), strand # << >>, strand' = Tail(strand)
    PROVE  /\ Head(strand).op # "erase" => Queued = Queued'
           /\ Head(strand).op = "erase" => Queued = Queued' \cup {<<Who, Head(strand).e>>}
<1>1. /\ 1 \in DOMAIN strand /\ Head(strand) = strand[1]
      /\ \A k \in DOMAIN strand' : k + 1 \in DOMAIN strand /\ strand'[k] = strand[k + 1]
      /\ \A k \in DOMAIN strand :
            k = 1 \/ (k - 1 \in DOMAIN strand' /\ strand'[k - 1] = strand[k])
  BY Shifted
<1>2. Queued' \subseteq Queued
  BY <1>1 DEF Queued
<1>3. ASSUME NEW k \in DOMAIN strand, strand[k].op = "erase", k # 1
      PROVE  <<strand[k].u, strand[k].e>> \in Queued'
  BY <1>1, <1>3 DEF Queued
<1>4. Head(strand).op = "erase" => <<Who, Head(strand).e>> \in Queued
  BY <1>1 DEF Queued, Who
<1>5. \A p \in Queued : p \in Queued' \/ (Head(strand).op = "erase" /\ p = <<Who, Head(strand).e>>)
  <2> SUFFICES ASSUME NEW k \in DOMAIN strand, strand[k].op = "erase"
               PROVE  \/ <<strand[k].u, strand[k].e>> \in Queued'
                      \/ /\ Head(strand).op = "erase"
                         /\ <<strand[k].u, strand[k].e>> = <<Who, Head(strand).e>>
    BY DEF Queued
  <2>1. CASE k = 1
    BY <1>1, <2>1 DEF Who
  <2> QED
    BY <1>3, <2>1
<1> QED
  BY <1>2, <1>4, <1>5

\* Steps of the sessions come and go, and leave the seats alone.
LEMMA SessionPromise ==
    ASSUME IInv, NEW u \in Users,
           \/ Connect(u) \/ Join(u) \/ Leave(u) \/ EndSession(u)
           \/ \E m \in Methods : on_dispatch(u, m)
           \/ Finish(u)
    PROVE  [Promise!Next]_Promise!vars
<1> DEFINE p == <<u, epoch[u]>>
<1>1. /\ TypeOK /\ Lives /\ strand \in Seq(Handler)
      /\ life[u] # "free" => p \in Users \X (1 .. MaxEpoch)
  BY DEF IInv, TypeOK, Lives
<1>2. g' = g /\ holder' = holder
  BY DEF Connect, Join, Leave, EndSession, on_dispatch, Finish, on_insert, on_erase,
         Expire, Destroy, Free, GameUnchanged
<1>3. Sitting' = Sitting
  BY <1>2 DEF Sitting, Taken
<1>4. ASSUME Present' = Present, (Erasing \cup Queued)' = Erasing \cup Queued
      PROVE  [Promise!Next]_Promise!vars
  BY <1>3, <1>4 DEF Promise!vars
<1>5. ASSUME NEW op \in Methods \cup {"insert", "erase"}, life[u] # "free"
      PROVE  Bound(op, u) \in Handler
  BY <1>1, <1>5 DEF Bound, Handler, Lives
<1>6. ASSUME Connect(u) PROVE [Promise!Next]_Promise!vars
  <2>1. \A v \in users : epoch'[v] = epoch[v]
    BY <1>1, <1>6 DEF Connect, Lives, TypeOK
  <2>2. \A v \in Users : phase[v] = "erasing" => epoch'[v] = epoch[v]
    BY <1>1, <1>6 DEF Connect, Lives, TypeOK
  <2>3. UNCHANGED <<users, phase, strand>>
    BY <1>6 DEF Connect
  <2>4. Present' = Present /\ Erasing' = Erasing /\ Queued' = Queued
    BY <2>1, <2>2, <2>3 DEF Present, Erasing, Queued
  <2> QED
    BY <1>4, <2>4
<1>7. ASSUME Join(u) PROVE [Promise!Next]_Promise!vars
  <2>1. Present' = Present \cup {p} /\ \A q \in Present : q[1] # p[1]
    BY <1>7 DEF Join, Present
  <2>2. Erasing' = Erasing /\ Queued' = Queued
    BY <1>1, <1>7 DEF Join, Ready, Erasing, Queued, TypeOK
  <2>3. p \in Users \X (1 .. MaxEpoch)
    BY <1>1, <1>7 DEF Join, Ready, Lives
  <2> HIDE DEF p
  <2>4. Promise!Enter(p)
    BY <1>3, <2>1, <2>2 DEF Promise!Enter
  <2> QED
    BY <2>3, <2>4 DEF Promise!Next, Promise!People
<1>8. ASSUME Leave(u) \/ Destroy(u) PROVE [Promise!Next]_Promise!vars
  <2>1. p \in Present /\ Present' = Present \ {p}
    BY <1>8 DEF Leave, Destroy, Present
  <2>2. Erasing' = Erasing \cup {p} /\ Queued' = Queued
    BY <1>1, <1>8 DEF Leave, Destroy, Erasing, Queued, TypeOK
  <2>3. p \in Users \X (1 .. MaxEpoch)
    BY <1>1, <1>8 DEF Leave, Destroy, Lives
  <2> HIDE DEF p
  <2>4. Promise!Depart(p)
    BY <1>3, <2>1, <2>2 DEF Promise!Depart
  <2> QED
    BY <2>3, <2>4 DEF Promise!Next, Promise!People
<1>9. ASSUME EndSession(u) \/ Expire(u) \/ Free(u) PROVE [Promise!Next]_Promise!vars
  <2>1. UNCHANGED <<users, epoch, phase, strand>>
    BY <1>9 DEF EndSession, Expire, Free
  <2>2. Present' = Present /\ Erasing' = Erasing /\ Queued' = Queued
    BY <2>1 DEF Present, Erasing, Queued
  <2> QED
    BY <1>4, <2>2
<1>10. ASSUME on_erase(u) PROVE [Promise!Next]_Promise!vars
  <2>1. life[u] # "free" /\ post("erase", u) /\ UNCHANGED <<users, epoch>>
    BY <1>1, <1>10 DEF on_erase, Lives
  <2>2. Erasing = Erasing' \cup {p} /\ Present' = Present
    BY <1>1, <1>10 DEF on_erase, Erasing, Present, TypeOK
  <2>3. Bound("erase", u).op = "erase" /\ Bound("erase", u).u = u
        /\ Bound("erase", u).e = epoch[u]
    BY DEF Bound
  <2>4. Queued' = Queued \cup {p}
    BY <1>1, <1>5, <2>1, <2>3, PostQueued DEF post
  <2> HIDE DEF p
  <2> QED
    BY <1>4, <2>2, <2>4
<1>11. ASSUME on_insert(u) \/ \E m \in Methods : on_dispatch(u, m)
       PROVE  [Promise!Next]_Promise!vars
  <2>1. PICK op \in Methods \cup {"insert"} : post(op, u)
    BY <1>11 DEF on_insert, on_dispatch
  <2>2. /\ life[u] # "free" /\ UNCHANGED <<users, epoch>>
        /\ \A v \in Users : phase'[v] = "erasing" <=> phase[v] = "erasing"
    BY <1>1, <1>11 DEF on_insert, on_dispatch, Ready, Lives, TypeOK
  <2>3. Present' = Present /\ Erasing' = Erasing
    BY <2>2 DEF Present, Erasing
  <2>4. Bound(op, u).op = op /\ op # "erase"
    BY MethodsAssumption DEF Bound
  <2>5. Queued' = Queued
    BY <1>1, <1>5, <2>1, <2>2, <2>4, PostQueued DEF post
  <2> QED
    BY <1>4, <2>3, <2>5
<1> QED
  BY <1>6, <1>7, <1>8, <1>9, <1>10, <1>11 DEF Finish

\* Who asked from inside the channel is in it still, or has left and not been
\* dealt with.
LEMMA PlayerKnown ==
    ASSUME IInv, strand # << >>, Head(strand).member, Head(strand).op # "erase"
    PROVE  <<Who, Head(strand).e>> \in Present \cup (Erasing \cup Queued)
<1>1. 1 \in DOMAIN strand /\ Head(strand) = strand[1] /\ Who \in Users
  BY HeadHandler DEF IInv, TypeOK
<1>2. Head(strand).e = epoch[Who]
  BY <1>1 DEF IInv, Current, Who
<1>3. \/ Who \in users \/ phase[Who] = "erasing"
      \/ \E j \in DOMAIN strand :
            strand[j].op = "erase" /\ strand[j].u = Who /\ strand[j].e = Head(strand).e
  BY <1>1 DEF IInv, ErasedLater, Who
<1> QED
  BY <1>1, <1>2, <1>3 DEF Present, Erasing, Queued

\* The address of a seat that is not taken is nobody's.
LEMMA SittingAt ==
    ASSUME NEW i \in Seats \ {0}, NEW u \in Users, ~Taken(g, i) \/ g.seat[i].u # u
    PROVE  Sitting[i][1] # u
BY UserAssumption DEF Sitting

\* What a handler does to the seats: play takes one that is open, do_erase opens
\* that of its own user, and no other handler moves anybody.
LEMMA HandlePromise == ASSUME IInv, Handle PROVE [Promise!Next]_Promise!vars
<1> DEFINE p == <<Who, Head(strand).e>>
           G == <<Who, 0>>
           Lv == Erasing \cup Queued
<1>1. /\ Ran /\ SeatStep /\ Seated(g) /\ strand \in Seq(Handler) /\ strand # << >>
      /\ holder \in [Seats -> 0 .. MaxEpoch]
  BY HandleSteps DEF IInv, TypeOK, Ran
<1>2. Who \in Users /\ p \in Users \X (1 .. MaxEpoch)
  BY <1>1, HeadHandler DEF Handler
<1>3. Present' = Present /\ Erasing' = Erasing
  BY <1>1 DEF Ran, Present, Erasing
<1>4. Head(strand).op # "erase" => Lv' = Lv
  BY <1>1, <1>3, RunQueued DEF Ran
<1>5. ASSUME Head(strand).op = "erase" PROVE p \in Lv /\ Lv' \in {Lv, Lv \ {p}}
  <2>1. Lv = Lv' \cup {p}
    BY <1>1, <1>3, <1>5, RunQueued DEF Ran
  <2> HIDE DEF Lv, p
  <2>2. CASE p \in Lv'
    BY <2>1, <2>2
  <2>3. CASE p \notin Lv'
    BY <2>1, <2>3
  <2> QED
    BY <2>1, <2>2, <2>3
<1>6. ASSUME Head(strand).op # "erase", Sitting' = Sitting
      PROVE  [Promise!Next]_Promise!vars
  BY <1>3, <1>4, <1>6 DEF Promise!vars
<1>7. ASSUME Head(strand).op = "erase",
             \A i \in Seats \ {0} :
                Sitting'[i] = IF Sitting[i] \in {p, G} THEN <<NoUser, 0>> ELSE Sitting[i]
      PROVE  [Promise!Next]_Promise!vars
  <2>1. Sitting' = [i \in Seats \ {0} |->
                        IF Sitting[i] \in {p, G} THEN <<NoUser, 0>> ELSE Sitting[i]]
    BY <1>7 DEF Sitting
  <2>2. p[1] = Who
    OBVIOUS
  <2>3. p \in Lv /\ Lv' \in {Lv, Lv \ {p}}
    BY <1>5, <1>7
  <2> HIDE DEF p, Lv
  <2>4. Promise!Settle(p)
    BY <1>3, <2>1, <2>2, <2>3 DEF Promise!Settle, Promise!Guest, Promise!Nobody, Lv
  <2> QED
    BY <1>2, <2>4 DEF Promise!Next, Promise!People
<1>8. ASSUME UNCHANGED <<g, holder>>, Head(strand).op = "erase" => ~HasSeat(g, Who)
      PROVE  [Promise!Next]_Promise!vars
  <2>1. Sitting' = Sitting
    BY <1>8 DEF Sitting, Taken
  <2>2. ASSUME Head(strand).op = "erase", NEW i \in Seats \ {0} PROVE Sitting[i] \notin {p, G}
    <3>1. Sitting[i][1] # Who
      BY <1>2, <1>8, <2>2, SittingAt DEF HasSeat
    <3> QED
      BY <3>1
  <2> QED
    BY <1>6, <1>7, <2>1, <2>2
<1>9. ASSUME Head(strand).op = "play", NEW i, Took(g, g', Who, i),
             holder' = [holder EXCEPT ![i] =
                    IF Head(strand).member THEN Head(strand).e ELSE 0]
      PROVE  [Promise!Next]_Promise!vars
  <2> DEFINE q == IF Head(strand).member THEN p ELSE G
  <2>1. /\ i \in Seats \ {0} /\ g'.seat[i].u = Who /\ g'.seat[i].state = "playing"
        /\ \A j \in Seats : j # i => g'.seat[j] = g.seat[j]
    BY <1>1, <1>2, <1>9, TookSeat
  <2>2. Sitting[i] = <<NoUser, 0>>
    BY <1>9, <2>1 DEF Took, Sitting, Taken
  <2>3. \A j \in Seats \ {0} : Sitting[j][1] # Who
    BY <1>2, <1>9, SittingAt DEF Took, HasSeat
  <2>4. Sitting'[i] = q
    BY <1>1, <1>9, <2>1 DEF Sitting, Taken
  <2>5. ASSUME NEW j \in Seats \ {0}, j # i PROVE Sitting'[j] = Sitting[j]
    BY <1>1, <1>9, <2>1, <2>5 DEF Sitting, Taken
  <2>6. Sitting' = [Sitting EXCEPT ![i] = q]
    BY <2>1, <2>4, <2>5 DEF Sitting
  <2>7. q[1] = Who
    OBVIOUS
  <2> HIDE DEF q
  <2>8. Promise!Sit(q, i)
    BY <1>3, <1>4, <1>9, <2>2, <2>3, <2>6, <2>7 DEF Promise!Sit, Promise!Nobody
  <2>9. CASE Head(strand).member
    <3>1. q \in Present \cup Lv
      BY <1>1, <1>9, <2>9, PlayerKnown DEF q
    <3> QED
      BY <2>1, <2>8, <3>1 DEF Promise!Next
  <2>10. CASE ~Head(strand).member
    <3>1. q = Promise!Guest(Who)
      BY <2>10 DEF q, Promise!Guest
    <3> QED
      BY <1>2, <2>1, <2>8, <3>1 DEF Promise!Next
  <2> QED
    BY <2>9, <2>10
<1>10. ASSUME UNCHANGED holder, NEW i, UsedOwn(g, g', Who, i),
              Head(strand).op = "erase" <=> ~Taken(g', i)
       PROVE  [Promise!Next]_Promise!vars
  <2>1. /\ i \in Seats \ {0} /\ g'.seat[i].u = Who /\ Taken(g, i) /\ g.seat[i].u = Who
        /\ \A j \in Seats : j # i => g'.seat[j] = g.seat[j]
    BY <1>1, <1>2, <1>10, UsedOwnSeat
  <2>2. ASSUME NEW j \in Seats \ {0}, j # i PROVE Sitting'[j] = Sitting[j] /\ Sitting[j][1] # Who
    <3>1. Sitting'[j] = Sitting[j]
      BY <1>10, <2>1, <2>2 DEF Sitting, Taken
    <3>2. ~Taken(g, j) \/ g.seat[j].u # Who
      BY <1>1, <2>1, <2>2 DEF Seated
    <3> QED
      BY <1>2, <3>1, <3>2, SittingAt
  <2>3. Sitting[i] = <<Who, holder[i]>>
    BY <2>1 DEF Sitting
  <2>4. CASE Head(strand).op # "erase"
    <3>1. Sitting'[i] = Sitting[i]
      BY <1>10, <2>1, <2>4 DEF Sitting
    <3>2. Sitting' = Sitting
      BY <2>2, <3>1 DEF Sitting
    <3> QED
      BY <1>6, <2>4, <3>2
  <2>5. CASE Head(strand).op = "erase"
    <3>1. Sitting'[i] = <<NoUser, 0>>
      BY <1>10, <2>1, <2>5 DEF Sitting
    <3>2. holder[i] = 0 \/ holder[i] = Head(strand).e
      BY <1>1, <2>1, HeadOwnsSeat DEF MemberSeats
    <3>3. Sitting[i] \in {p, G}
      BY <2>3, <3>2
    <3>4. \A j \in Seats \ {0} : j # i => Sitting[j] \notin {p, G} /\ Sitting'[j] = Sitting[j]
      BY <2>2
    <3> QED
      BY <1>7, <2>5, <3>1, <3>3, <3>4
  <2> QED
    BY <2>4, <2>5
<1>11. ASSUME Head(strand).op # "erase", Dealt(g, g'), UNCHANGED holder
       PROVE  [Promise!Next]_Promise!vars
  <2>1. \A j \in Seats : g'.seat[j].u = g.seat[j].u /\ g'.seat[j].state = g.seat[j].state
    BY <1>1, <1>11, DealtSeats
  <2>2. Sitting' = Sitting
    BY <1>11, <2>1 DEF Sitting, Taken
  <2> QED
    BY <1>6, <1>11, <2>2
<1> QED
  BY <1>1, <1>8, <1>9, <1>10, <1>11 DEF SeatStep

\* Each step of the table is one of the promise, or none.
LEMMA StepPromise == IInv /\ [Next]_vars => [Promise!Next]_Promise!vars
<1> SUFFICES ASSUME IInv, [Next]_vars PROVE [Promise!Next]_Promise!vars
  OBVIOUS
<1>1. ASSUME UNCHANGED vars PROVE UNCHANGED Promise!vars
  BY <1>1 DEF vars, Promise!vars, Present, Erasing, Queued, Sitting, Taken
<1> QED
  BY <1>1, SessionPromise, HandlePromise DEF Next

\* The table keeps its promise for any number of seats, users and addresses used
\* again, however late its handlers run.
THEOREM TableImplementsSeating == Spec => SeatingSpec
<1>1. Init => Promise!Init
  <2> SUFFICES ASSUME Init PROVE Promise!Init
    OBVIOUS
  <2>1. Present = {} /\ Erasing = {} /\ Queued = {}
    BY DEF Init, Present, Erasing, Queued
  <2>2. \A i \in Seats \ {0} : ~Taken(g, i)
    <3>1. PICK f \in [Seats -> InitChips] :
            g = [seat |-> [i \in Seats |->
                    [u |-> NoUser, state |-> IF i = 0 THEN "dealer" ELSE "open",
                     chips |-> f[i], wager |-> 0, cards |-> 0]],
                 turn |-> 0]
      BY DEF Init, NewGames
    <3> QED
      BY <3>1 DEF Taken
  <2> QED
    BY <2>1, <2>2 DEF Promise!Init, Promise!Nobody, Sitting
<1> QED
  BY <1>1, Invariance, StepPromise, PTL DEF Spec, Promise!Spec, SeatingSpec

\* The promise is worth something: from it alone, without a look at the table,
\* it follows that a member's seat has its owner in the channel or about to be
\* dealt with, and that nobody has two.
THEOREM PromiseKeepsSeats == SeatingSpec => []Promise!SeatsKept
<1> DEFINE Lv == Erasing \cup Queued
           C == Seats \ {0}
<1>1. Promise!Init => Promise!SeatsKept
  BY DEF Promise!Init, Promise!SeatsKept
<1>2. ASSUME Promise!SeatsKept, [Promise!Next]_Promise!vars PROVE Promise!SeatsKept'
  <2>0. Sitting = [i \in C |-> Sitting[i]] /\ Sitting' = [i \in C |-> Sitting'[i]]
    BY DEF Sitting
  <2> HIDE DEF C
  <2>1. ASSUME NEW q, NEW i \in C, Promise!Sit(q, i),
               q \in Present \cup Lv \/ \E u \in Users : q = <<u, 0>>
        PROVE  Promise!SeatsKept'
    <3>1. /\ Sitting'[i] = q /\ \A j \in C : j # i => Sitting'[j] = Sitting[j]
          /\ \A j \in C : Sitting[j][1] # q[1]
          /\ Present' = Present /\ Lv' = Lv
      BY <2>0, <2>1 DEF Promise!Sit, C
    <3>2. ASSUME NEW j \in C, NEW k \in C,
                 Sitting'[j] # Promise!Nobody, Sitting'[k] # Promise!Nobody,
                 Sitting'[j][1] = Sitting'[k][1]
          PROVE  j = k
      <4>1. CASE j # i /\ k # i
        BY <1>2, <3>1, <3>2, <4>1 DEF Promise!SeatsKept, C
      <4>2. CASE j = i \/ k = i
        BY <3>1, <3>2, <4>2
      <4> QED
        BY <4>1, <4>2
    <3>3. ASSUME NEW j \in C
          PROVE  \/ Sitting'[j] = Promise!Nobody
                 \/ Sitting'[j] \in Present' \cup Lv'
                 \/ \E u \in Users : Sitting'[j] = Promise!Guest(u)
      <4>1. CASE j = i
        BY <2>1, <3>1, <4>1 DEF Promise!Guest
      <4>2. CASE j # i
        BY <1>2, <3>1, <4>2 DEF Promise!SeatsKept, C
      <4> QED
        BY <4>1, <4>2
    <3> QED
      BY <3>2, <3>3 DEF Promise!SeatsKept, C, Promise!Nobody, Promise!Guest
  <2>2. ASSUME NEW p, Promise!Settle(p) PROVE Promise!SeatsKept'
    <3>1. /\ \A j \in C : Sitting'[j] = IF Sitting[j] \in {p, Promise!Guest(p[1])}
                                        THEN Promise!Nobody ELSE Sitting[j]
          /\ Present' = Present /\ Lv' \in {Lv, Lv \ {p}}
      BY <2>2 DEF Promise!Settle, C
    <3>2. ASSUME NEW j \in C, NEW k \in C,
                 Sitting'[j] # Promise!Nobody, Sitting'[k] # Promise!Nobody,
                 Sitting'[j][1] = Sitting'[k][1]
          PROVE  j = k
      <4>1. Sitting'[j] = Sitting[j] /\ Sitting'[k] = Sitting[k]
        BY <3>1, <3>2
      <4> QED
        BY <1>2, <3>2, <4>1 DEF Promise!SeatsKept, C
    <3>3. ASSUME NEW j \in C
          PROVE  \/ Sitting'[j] = Promise!Nobody
                 \/ Sitting'[j] \in Present' \cup Lv'
                 \/ \E u \in Users : Sitting'[j] = Promise!Guest(u)
      <4>1. CASE Sitting'[j] = Sitting[j] /\ Sitting[j] # p
        BY <1>2, <3>1, <4>1 DEF Promise!SeatsKept, C
      <4>2. CASE Sitting'[j] = Promise!Nobody
        BY <4>2
      <4> QED
        BY <3>1, <4>1, <4>2
    <3> QED
      BY <3>2, <3>3 DEF Promise!SeatsKept, C, Promise!Nobody, Promise!Guest
  <2>3. ASSUME NEW p, Promise!Enter(p) \/ Promise!Depart(p) PROVE Promise!SeatsKept'
    <3>1. Sitting' = Sitting /\ Present \cup Lv \subseteq Present' \cup Lv'
      BY <2>3 DEF Promise!Enter, Promise!Depart
    <3> HIDE DEF Lv
    <3> QED
      BY <1>2, <3>1 DEF Promise!SeatsKept, Promise!Nobody, Promise!Guest, Lv
  <2>4. ASSUME UNCHANGED Promise!vars PROVE Promise!SeatsKept'
    <3>1. Sitting' = Sitting /\ Present' = Present /\ Lv' = Lv
      BY <2>4 DEF Promise!vars
    <3> HIDE DEF Lv
    <3> QED
      BY <1>2, <3>1 DEF Promise!SeatsKept, Promise!Nobody, Promise!Guest, Lv
  <2> QED
    BY <1>2, <2>1, <2>2, <2>3, <2>4 DEF Promise!Next, Promise!Guest, C
<1> QED
  BY <1>1, <1>2, PTL DEF SeatingSpec, Promise!Spec
=============================================================================
