---------------------------- MODULE CardsProofs ----------------------------
(***************************************************************************)
(* Proofs about Cards, for any deck and any number of decks: eval agrees  *)
(* with the rules of the game, and a hand fits into its string.           *)
(*                                                                         *)
(* What a hand is worth is a sum over its cards, so that first a few facts *)
(* about the sum of a function over a finite set are proved.  A fact about *)
(* every subset is shown by its smallest counterexample.                  *)
(***************************************************************************)
EXTENDS Cards, FiniteSetTheorems, TLAPS

-----------------------------------------------------------------------------
(* Sums                                                                    *)

\* A nonempty set of natural numbers has a least element.
LEMMA LeastNat ==
    ASSUME NEW T, T \subseteq Nat, T # {}
    PROVE  \E m \in T : \A n \in T : m <= n
<1> DEFINE R == OpToRel(<, Nat)
<1>1. IsWellFoundedOn(R, Nat)
  BY NatLessThanWellFounded
<1>2. \A n, m \in T : n < m => <<n, m>> \in R
  BY DEF OpToRel
<1> HIDE DEF R
<1>3. PICK m \in T : \A n \in T : <<n, m>> \notin R
  BY <1>1, WFMin
<1>4. \A n \in T : ~(n < m)
  BY <1>2, <1>3
<1>5. \A n \in T : m <= n
  BY <1>4
<1> QED
  BY <1>5

\* Among some subsets of a finite set there is one with the fewest elements.
LEMMA SmallestOf ==
    ASSUME NEW S, IsFiniteSet(S), NEW Bad, Bad \subseteq SUBSET S, Bad # {}
    PROVE  \E s \in Bad : \A t \in Bad : Cardinality(s) <= Cardinality(t)
<1> DEFINE T == {Cardinality(s) : s \in Bad}
<1>1. \A s \in Bad : Cardinality(s) \in Nat
  BY FS_Subset, FS_CardinalityType
<1>2. T \subseteq Nat /\ T # {}
  BY <1>1
<1>3. PICK m \in T : \A n \in T : m <= n
  BY <1>2, LeastNat
<1> QED
  BY <1>3

\* The element the sum takes from a set, and what it leaves
Pick(s) == CHOOSE x \in s : TRUE
Rest(s) == s \ {Pick(s)}

\* What is left is smaller.
LEMMA RestSmaller ==
    ASSUME NEW S, IsFiniteSet(S), NEW s \in SUBSET S, s # {}
    PROVE  /\ Pick(s) \in s /\ Rest(s) \in SUBSET S
           /\ Cardinality(s) \in Nat /\ Cardinality(Rest(s)) \in Nat
           /\ Cardinality(Rest(s)) = Cardinality(s) - 1
<1>1. Pick(s) \in s
  BY DEF Pick
<1>2. IsFiniteSet(s) /\ IsFiniteSet(Rest(s))
  BY FS_Subset DEF Rest
<1>3. Cardinality(Rest(s)) = Cardinality(s) - 1
  BY <1>1, <1>2, FS_RemoveElement DEF Rest
<1> QED
  BY <1>1, <1>2, <1>3, FS_CardinalityType DEF Rest

\* it sums f over each of the sets D.
Sums(f, D, it) ==
    it = [s \in D |-> IF s = {} THEN 0 ELSE f[Pick(s)] + it[Rest(s)]]

\* There is such a function: one for the sets of up to n elements makes one for
\* the sets of up to n + 1.
LEMMA SumsExist ==
    ASSUME NEW S, IsFiniteSet(S), NEW f
    PROVE  \E it : Sums(f, SUBSET S, it)
<1> DEFINE Small(n) == {s \in SUBSET S : Cardinality(s) <= n}
           Bad == {n \in Nat : ~ \E it : Sums(f, Small(n), it)}
<1>1. Bad = {}
  <2> SUFFICES ASSUME Bad # {} PROVE FALSE
    OBVIOUS
  <2>1. PICK m \in Bad : \A n \in Bad : m <= n
    BY LeastNat
  <2>2. CASE m = 0
    <3>1. \A s \in Small(m) : s = {}
      BY <2>2, FS_Subset, FS_EmptySet, FS_CardinalityType
    <3>2. Sums(f, Small(m), [s \in Small(m) |-> 0])
      BY <3>1 DEF Sums
    <3> QED
      BY <3>2
  <2>3. CASE m # 0
    <3>0. m \in Nat /\ Bad \subseteq Nat
      OBVIOUS
    <3> HIDE DEF Bad
    <3>1. m - 1 \in Nat /\ m - 1 \notin Bad
      BY <2>1, <2>3, <3>0
    <3> USE DEF Bad
    <3>2. PICK h : Sums(f, Small(m - 1), h)
      BY <3>1
    <3> DEFINE k == [s \in Small(m) |-> IF s = {} THEN 0 ELSE f[Pick(s)] + h[Rest(s)]]
    <3>3. ASSUME NEW s \in Small(m), s # {} PROVE Rest(s) \in Small(m - 1) /\ Rest(s) \in Small(m)
      BY <3>3, <3>1, RestSmaller
    <3>4. ASSUME NEW s \in Small(m - 1), s \in Small(m) PROVE k[s] = h[s]
      BY <3>2, <3>4 DEF Sums
    <3>5. ASSUME NEW s \in Small(m), s # {} PROVE k[Rest(s)] = h[Rest(s)]
      BY <3>3, <3>4, <3>5
    <3> HIDE DEF Small
    <3>6. k = [s \in Small(m) |-> IF s = {} THEN 0 ELSE f[Pick(s)] + k[Rest(s)]]
      BY <3>5
    <3>7. Sums(f, Small(m), k)
      BY <3>6 DEF Sums
    <3> QED
      BY <3>7
  <2> QED
    BY <2>2, <2>3
<1>2. Cardinality(S) \in Nat
  BY FS_CardinalityType
<1>3. Small(Cardinality(S)) = SUBSET S
  BY FS_Subset
<1> QED
  BY <1>1, <1>2, <1>3

\* The sum over S is what such a function says of S.
LEMMA SumIs ==
    ASSUME NEW S, IsFiniteSet(S), NEW f
    PROVE  \E it : Sums(f, SUBSET S, it) /\ SumFunctionOnSet(f, S) = it[S]
<1> DEFINE it == CHOOSE h : h = [s \in SUBSET S |->
                    IF s = {} THEN 0
                    ELSE f[CHOOSE x \in s : TRUE] + h[s \ {CHOOSE x \in s : TRUE}]]
<1>1. SumFunctionOnSet(f, S) = it[S]
  BY DEF SumFunctionOnSet, FoldFunctionOnSet, MapThenFoldSet
<1>2. \E h : h = [s \in SUBSET S |->
                    IF s = {} THEN 0
                    ELSE f[CHOOSE x \in s : TRUE] + h[s \ {CHOOSE x \in s : TRUE}]]
  <2>1. PICK h : Sums(f, SUBSET S, h)
    BY SumsExist
  <2>2. h = [s \in SUBSET S |->
                IF s = {} THEN 0
                ELSE f[CHOOSE x \in s : TRUE] + h[s \ {CHOOSE x \in s : TRUE}]]
    BY <2>1 DEF Sums, Pick, Rest
  <2> QED
    BY <2>2
<1>3. Sums(f, SUBSET S, it)
  BY <1>2 DEF Sums, Pick, Rest
<1> HIDE DEF it
<1> QED
  BY <1>1, <1>3

\* A sum of natural numbers is one, and nothing adds up to nothing.
LEMMA SumNat ==
    ASSUME NEW S, IsFiniteSet(S), NEW f, \A x \in S : f[x] \in Nat
    PROVE  /\ SumFunctionOnSet(f, S) \in Nat
           /\ (\A x \in S : f[x] = 0) => SumFunctionOnSet(f, S) = 0
<1>1. PICK it : Sums(f, SUBSET S, it) /\ SumFunctionOnSet(f, S) = it[S]
  BY SumIs
<1>2. \A s \in SUBSET S : it[s] = IF s = {} THEN 0 ELSE f[Pick(s)] + it[Rest(s)]
  BY <1>1 DEF Sums
<1> DEFINE Right(n) == n \in Nat /\ ((\A x \in S : f[x] = 0) => n = 0)
           Bad == {s \in SUBSET S : ~Right(it[s])}
<1>3. Bad = {}
  <2> SUFFICES ASSUME Bad # {} PROVE FALSE
    OBVIOUS
  <2>1. Bad \subseteq SUBSET S
    OBVIOUS
  <2> HIDE DEF Bad
  <2>2. PICK s \in Bad : \A t \in Bad : Cardinality(s) <= Cardinality(t)
    BY <2>1, SmallestOf
  <2> USE DEF Bad
  <2>3. s # {}
    BY <1>2
  <2>4. Rest(s) \notin Bad
    BY <2>2, <2>3, RestSmaller
  <2>5. Right(it[Rest(s)]) /\ Pick(s) \in S
    BY <2>3, <2>4, RestSmaller
  <2> QED
    BY <1>2, <2>3, <2>5
<1> QED
  BY <1>1, <1>3

\* A sum grows with its parts.
LEMMA SumGrows ==
    ASSUME NEW S, IsFiniteSet(S), NEW f, NEW g,
           \A x \in S : f[x] \in Nat /\ g[x] \in Nat /\ f[x] <= g[x]
    PROVE  SumFunctionOnSet(f, S) <= SumFunctionOnSet(g, S)
<1>1. PICK a : Sums(f, SUBSET S, a) /\ SumFunctionOnSet(f, S) = a[S]
  BY SumIs
<1>2. PICK b : Sums(g, SUBSET S, b) /\ SumFunctionOnSet(g, S) = b[S]
  BY SumIs
<1>3. \A s \in SUBSET S : a[s] = IF s = {} THEN 0 ELSE f[Pick(s)] + a[Rest(s)]
  BY <1>1 DEF Sums
<1>4. \A s \in SUBSET S : b[s] = IF s = {} THEN 0 ELSE g[Pick(s)] + b[Rest(s)]
  BY <1>2 DEF Sums
<1> DEFINE Right(s) == a[s] \in Nat /\ b[s] \in Nat /\ a[s] <= b[s]
           Bad == {s \in SUBSET S : ~Right(s)}
<1>5. Bad = {}
  <2> SUFFICES ASSUME Bad # {} PROVE FALSE
    OBVIOUS
  <2>1. Bad \subseteq SUBSET S
    OBVIOUS
  <2> HIDE DEF Bad
  <2>2. PICK s \in Bad : \A t \in Bad : Cardinality(s) <= Cardinality(t)
    BY <2>1, SmallestOf
  <2> USE DEF Bad
  <2>3. s # {}
    BY <1>3, <1>4
  <2>4. Rest(s) \notin Bad
    BY <2>2, <2>3, RestSmaller
  <2>5. Right(Rest(s)) /\ Pick(s) \in S
    BY <2>3, <2>4, RestSmaller
  <2> QED
    BY <1>3, <1>4, <2>3, <2>5
<1> QED
  BY <1>1, <1>2, <1>5

\* One more in one place is one more in the sum.
LEMMA SumOneMore ==
    ASSUME NEW S, IsFiniteSet(S), NEW f \in [S -> Nat], NEW x \in S
    PROVE  SumFunctionOnSet([f EXCEPT ![x] = f[x] + 1], S) = SumFunctionOnSet(f, S) + 1
<1> DEFINE g == [f EXCEPT ![x] = f[x] + 1]
<1>0. /\ g[x] = f[x] + 1 /\ f[x] \in Nat
      /\ \A y \in S : f[y] \in Nat /\ (y # x => g[y] = f[y])
  OBVIOUS
<1> HIDE DEF g
<1>1. PICK a : Sums(f, SUBSET S, a) /\ SumFunctionOnSet(f, S) = a[S]
  BY SumIs
<1>2. PICK b : Sums(g, SUBSET S, b) /\ SumFunctionOnSet(g, S) = b[S]
  BY SumIs
<1>3. \A s \in SUBSET S : a[s] = IF s = {} THEN 0 ELSE f[Pick(s)] + a[Rest(s)]
  BY <1>1 DEF Sums
<1>4. \A s \in SUBSET S : b[s] = IF s = {} THEN 0 ELSE g[Pick(s)] + b[Rest(s)]
  BY <1>2 DEF Sums
<1> DEFINE Right(s) == a[s] \in Nat /\ b[s] = a[s] + (IF x \in s THEN 1 ELSE 0)
           Bad == {s \in SUBSET S : ~Right(s)}
<1>5. Bad = {}
  <2> SUFFICES ASSUME Bad # {} PROVE FALSE
    OBVIOUS
  <2>1. Bad \subseteq SUBSET S
    OBVIOUS
  <2> HIDE DEF Bad
  <2>2. PICK s \in Bad : \A t \in Bad : Cardinality(s) <= Cardinality(t)
    BY <2>1, SmallestOf
  <2> USE DEF Bad
  <2>3. s # {}
    BY <1>3, <1>4
  <2>4. Rest(s) \notin Bad
    BY <2>2, <2>3, RestSmaller
  <2>5. Right(Rest(s)) /\ Pick(s) \in s /\ Pick(s) \in S
    BY <2>3, <2>4, RestSmaller
  <2>6. a[s] = f[Pick(s)] + a[Rest(s)] /\ b[s] = g[Pick(s)] + b[Rest(s)]
    BY <1>3, <1>4, <2>3
  <2>7. CASE Pick(s) = x
    <3>1. x \in s /\ x \notin Rest(s)
      BY <2>5, <2>7 DEF Rest
    <3> QED
      BY <1>0, <2>5, <2>6, <2>7, <3>1
  <2>8. CASE Pick(s) # x
    <3>1. x \in s <=> x \in Rest(s)
      BY <2>8 DEF Rest
    <3>2. f[Pick(s)] \in Nat /\ g[Pick(s)] = f[Pick(s)]
      BY <1>0, <2>5, <2>8
    <3> QED
      BY <2>5, <2>6, <3>1, <3>2
  <2> QED
    BY <2>7, <2>8
<1>6. b[S] = a[S] + 1
  BY <1>5
<1> QED
  BY <1>1, <1>2, <1>6 DEF g

-----------------------------------------------------------------------------
(* Hands                                                                   *)

\* hand::value counts a card as the rules do, and takes the same ones for aces.
LEMMA ValueIsWorth ==
    ASSUME NEW c \in Codes
    PROVE  value(c) = Worth(c) /\ value(c) \in 1 .. 10 /\ (value(c) = 1 <=> c % 13 = 1)
BY CodesAssumption DEF value, Worth

\* The deck has finitely many cards.
LEMMA CodesFinite == IsFiniteSet(Codes)
<1>1. IsFiniteSet(1 .. 52)
  <2>1. 1 \in Int /\ 52 \in Int
    OBVIOUS
  <2> QED
    BY <2>1, FS_Interval, Zenon
<1> QED
  BY <1>1, CodesAssumption, FS_Subset

\* What a hand is worth if its aces count one, and how many aces it has
HardOf(h) == SumFunctionOnSet([c \in Codes |-> h[c] * Worth(c)], Codes)
AcesOf(h) == SumFunctionOnSet(h, {c \in Codes : c % 13 = 1})

Hands == [Codes -> Nat]

\* The sums of a hand are natural numbers, and each card is worth at least one.
LEMMA HandSums ==
    ASSUME NEW h \in Hands
    PROVE  /\ HardOf(h) \in Nat /\ AcesOf(h) \in Nat /\ Size(h) \in Nat
           /\ Size(h) <= HardOf(h)
<1> DEFINE f == [c \in Codes |-> h[c] * Worth(c)]
<1>1. \A n \in Nat, w \in 1 .. 10 : n * w \in Nat /\ n <= n * w
  OBVIOUS
<1>2. \A c \in Codes : h[c] \in Nat /\ f[c] \in Nat /\ h[c] <= f[c]
  BY <1>1, ValueIsWorth DEF Hands
<1>3. IsFiniteSet({c \in Codes : c % 13 = 1})
  BY CodesFinite, FS_Subset
<1> HIDE DEF f
<1>4. SumFunctionOnSet(f, Codes) \in Nat /\ Size(h) \in Nat
  BY <1>2, CodesFinite, SumNat DEF Size
<1>5. Size(h) <= SumFunctionOnSet(f, Codes)
  BY <1>2, CodesFinite, SumGrows DEF Size
<1>6. AcesOf(h) \in Nat
  BY <1>2, <1>3, SumNat DEF AcesOf
<1> QED
  BY <1>4, <1>5, <1>6 DEF f, HardOf

\* The loop of eval: it finds the total nearest to 21 from below if there is
\* one, and the least of all if there is none.
LEMMA LoopRight ==
    ASSUME NEW H \in Nat, NEW A \in Nat, NEW t,
           t = (H + 10 * A) - 10 * Min({n \in 0 .. A : (H + 10 * A) - 10 * n <= 21} \cup {A})
    PROVE  /\ t > 21 <=> \A x \in {H + 10 * n : n \in 0 .. A} : x > 21
           /\ t = 21 <=> 21 \in {H + 10 * n : n \in 0 .. A}
<1> DEFINE T == {n \in 0 .. A : (H + 10 * A) - 10 * n <= 21} \cup {A}
           m == Min(T)
<1>1. T \subseteq Nat /\ T # {}
  OBVIOUS
<1>2. \E k \in T : \A n \in T : k <= n
  BY <1>1, LeastNat
<1>3. m \in T /\ \A n \in T : m <= n
  BY <1>2 DEF Min
<1>4. t = (H + 10 * A) - 10 * m
  OBVIOUS
<1> HIDE DEF m
<1>5. m \in 0 .. A /\ A - m \in 0 .. A
  BY <1>3
<1>6. t \in {H + 10 * n : n \in 0 .. A}
  <2>1. t = H + 10 * (A - m)
    BY <1>4, <1>5
  <2> QED
    BY <1>5, <2>1
<1>7. ASSUME NEW n \in 0 .. A, H + 10 * n <= 21 PROVE t <= 21 /\ H + 10 * n <= t
  <2>1. A - n \in 0 .. A /\ (H + 10 * A) - 10 * (A - n) <= 21
    BY <1>7
  <2>2. A - n \in T
    BY <2>1
  <2>3. m <= A - n
    BY <1>3, <2>2
  <2>4. (H + 10 * A) - 10 * m <= 21
    BY <1>3, <1>7, <1>5
  <2> QED
    BY <1>4, <1>5, <2>3, <2>4
<1>8. t \in Nat
  BY <1>6
<1> QED
  <2>1. (\A x \in {H + 10 * n : n \in 0 .. A} : x > 21) <=> \A n \in 0 .. A : H + 10 * n > 21
    OBVIOUS
  <2>2. (\A n \in 0 .. A : H + 10 * n > 21) <=> t > 21
    BY <1>6, <1>7, <1>8
  <2>3. 21 \in {H + 10 * n : n \in 0 .. A} <=> t = 21
    BY <1>6, <1>7, <1>8
  <2> QED
    BY <2>1, <2>2, <2>3

\* eval, with its loop, says of a hand what the rules say.
LEMMA EvalOfHand ==
    ASSUME NEW h \in Hands
    PROVE  /\ total(h) > 21 <=> \A t \in {HardOf(h) + 10 * n : n \in 0 .. AcesOf(h)} : t > 21
           /\ total(h) = 21 <=> 21 \in {HardOf(h) + 10 * n : n \in 0 .. AcesOf(h)}
<1> DEFINE H == SumFunctionOnSet([c \in Codes |-> h[c] * value(c)], Codes)
           A == aces(h)
<1>1. H = HardOf(h)
  <2>1. [c \in Codes |-> h[c] * value(c)] = [c \in Codes |-> h[c] * Worth(c)]
    BY ValueIsWorth
  <2> QED
    BY <2>1 DEF HardOf
<1>2. A = AcesOf(h)
  <2>1. {c \in Codes : value(c) = 1} = {c \in Codes : c % 13 = 1}
    BY ValueIsWorth
  <2> QED
    BY <2>1 DEF aces, AcesOf
<1>3. total(h) = (H + 10 * A) - 10 * Min({n \in 0 .. A : (H + 10 * A) - 10 * n <= 21} \cup {A})
  BY DEF total
<1>4. H \in Nat /\ A \in Nat
  BY <1>1, <1>2, HandSums
<1> HIDE DEF H, A
<1>5. /\ total(h) > 21 <=> \A t \in {H + 10 * n : n \in 0 .. A} : t > 21
      /\ total(h) = 21 <=> 21 \in {H + 10 * n : n \in 0 .. A}
  BY <1>3, <1>4, LoopRight
<1>6. {H + 10 * n : n \in 0 .. A} = {HardOf(h) + 10 * n : n \in 0 .. AcesOf(h)}
  BY <1>1, <1>2
<1> QED
  BY <1>5, <1>6

-----------------------------------------------------------------------------
(* The game                                                                *)

\* The strengthening of EvalRight and HandFits: hands and the shoe hold cards.
IInv ==
    /\ shoe \in Hands /\ cards \in Hands
    /\ EvalRight
    /\ Capacity > 20 => HandFits

\* An empty hand is neither bust nor 21.
LEMMA NothingHeld == NoCards \in Hands /\ HardOf(NoCards) = 0 /\ AcesOf(NoCards) = 0
<1> DEFINE f == [c \in Codes |-> NoCards[c] * Worth(c)]
           S == {c \in Codes : c % 13 = 1}
<1>1. NoCards \in Hands
  BY DEF NoCards, Hands
<1>2. \A c \in Codes : f[c] = 0
  BY ValueIsWorth DEF NoCards
<1>3. IsFiniteSet(S) /\ \A c \in S : NoCards[c] = 0
  BY CodesFinite, FS_Subset DEF NoCards
<1> HIDE DEF f, S
<1>4. SumFunctionOnSet(f, Codes) = 0
  BY <1>2, CodesFinite, SumNat
<1>5. SumFunctionOnSet(NoCards, S) = 0
  BY <1>3, SumNat
<1> QED
  BY <1>1, <1>4, <1>5 DEF f, S, HardOf, AcesOf

\* At the start the hand is empty and the shoe is full.
LEMMA InitInv == Init => IInv
<1> SUFFICES ASSUME Init PROVE IInv
  OBVIOUS
<1>1. shoe \in Hands /\ cards \in Hands
  BY DecksAssumption, NothingHeld DEF Init, shuffle, Hands
<1>2. Hard = 0 /\ AcesHeld = 0
  BY NothingHeld DEF Init, Hard, AcesHeld, HardOf, AcesOf
<1>3. Totals = {0}
  BY <1>2 DEF Totals
<1>4. EvalRight
  BY <1>3 DEF Init, EvalRight
<1> QED
  BY <1>1, <1>4 DEF IInv, Init, HandFits

\* A hand that is not done has at most 20 cards: with all aces as one it is
\* below 21, and no card is worth less than one.
LEMMA UndoneShort ==
    ASSUME IInv, ~busted, ~twenty_one
    PROVE  Size(cards) \in 0 .. 20
<1>1. Hard \in Nat /\ AcesHeld \in Nat /\ Size(cards) \in Nat /\ Size(cards) <= Hard
  BY HandSums DEF IInv, Hard, AcesHeld, HardOf, AcesOf
<1>2. Hard \in Totals
  <2>1. 0 \in 0 .. AcesHeld /\ Hard = Hard + 10 * 0
    BY <1>1
  <2> QED
    BY <2>1 DEF Totals
<1>3. \E t \in Totals : ~(t > 21)
  BY DEF IInv, EvalRight
<1>4. Hard <= 21 /\ Hard # 21
  BY <1>1, <1>2, <1>3 DEF IInv, EvalRight, Totals
<1> QED
  BY <1>1, <1>4

\* Dealing and clearing keep it.
LEMMA NextInv == IInv /\ [Next]_vars => IInv'
<1> SUFFICES ASSUME IInv, [Next]_vars PROVE IInv'
  OBVIOUS
<1>1. ASSUME deal PROVE IInv'
  <2> DEFINE s == IF shoe = NoCards THEN shuffle ELSE shoe
  <2>1. s \in Hands
    BY DecksAssumption DEF IInv, shuffle, Hands
  <2>2. PICK c \in Codes :
          /\ s[c] > 0
          /\ shoe' = [s EXCEPT ![c] = @ - 1]
          /\ IF Size(cards) = Capacity
             THEN thrown' = TRUE /\ UNCHANGED hand
             ELSE /\ cards' = [cards EXCEPT ![c] = @ + 1]
                  /\ eval(cards')
                  /\ UNCHANGED thrown
    BY <1>1 DEF deal
  <2> HIDE DEF s
  <2>3. shoe' \in Hands
    BY <2>1, <2>2 DEF Hands
  <2>4. CASE Size(cards) = Capacity
    \* a hand that is full is done, unless the string is too short for it
    <3>6. ~(Capacity > 20)
      BY <1>1, <2>4, UndoneShort DEF deal, is_done
    <3>7. UNCHANGED <<cards, busted, twenty_one, blackjack>>
      BY <2>2, <2>4 DEF hand
    <3>8. EvalRight'
      BY <3>7 DEF IInv, EvalRight, Totals, Hard, AcesHeld
    <3> QED
      BY <2>3, <3>6, <3>7, <3>8 DEF IInv
  <2>5. CASE Size(cards) # Capacity
    <3>1. cards' \in Hands
      BY <2>2, <2>5 DEF IInv, Hands
    <3>2. /\ total(cards') > 21 <=> \A t \in Totals' : t > 21
          /\ total(cards') = 21 <=> 21 \in Totals'
      BY <3>1, EvalOfHand DEF Totals, Hard, AcesHeld, HardOf, AcesOf
    <3>3. EvalRight'
      BY <2>2, <2>5, <3>2 DEF eval, EvalRight
    <3>4. thrown' = thrown
      BY <2>2, <2>5
    <3> QED
      BY <2>3, <3>1, <3>3, <3>4 DEF IInv, HandFits
  <2> QED
    BY <2>4, <2>5
<1>2. ASSUME clear PROVE IInv'
  <2>1. (Hard = 0 /\ AcesHeld = 0)'
    BY <1>2, NothingHeld DEF clear, Hard, AcesHeld, HardOf, AcesOf
  <2>2. Totals' = {0}
    BY <2>1 DEF Totals
  <2>3. EvalRight'
    BY <1>2, <2>2 DEF clear, EvalRight
  <2> QED
    BY <1>2, <2>3, NothingHeld DEF clear, IInv, HandFits
<1>3. ASSUME UNCHANGED vars PROVE IInv'
  BY <1>3 DEF vars, hand, IInv, EvalRight, HandFits, Totals, Hard, AcesHeld, Size
<1> QED
  BY <1>1, <1>2, <1>3 DEF Next

\* eval agrees with the rules on every hand a shoe of any decks can deal.
THEOREM EvalIsRight == Spec => []EvalRight
<1>1. IInv => EvalRight
  BY DEF IInv
<1> QED
  BY <1>1, InitInv, NextInv, PTL DEF Spec

\* A string of 21 cards or more, such as the one of 22, holds every hand.
THEOREM HandFitsAlways == ASSUME Capacity > 20 PROVE Spec => []HandFits
<1>1. IInv => HandFits
  BY DEF IInv
<1> QED
  BY <1>1, InitInv, NextInv, PTL DEF Spec

-----------------------------------------------------------------------------
\* The part of HandEnds that is about single steps: each card dealt makes the
\* hand longer by one, and a hand that is dealt to has at most 20.  So it is
\* done after at most 21 cards, if dealing goes on.
DealAdds ==
    deal => Size(cards) \in 0 .. 20 /\ (Size(cards') = Size(cards) + 1 \/ thrown')

\* Every card brings the hand nearer to its end, whatever deck it is from.
THEOREM DealAddsHolds == Spec => [][DealAdds]_vars
<1>1. ASSUME IInv, deal PROVE DealAdds
  <2>1. Size(cards) \in 0 .. 20
    BY <1>1, UndoneShort DEF deal, is_done
  <2>2. ASSUME ~thrown' PROVE Size(cards') = Size(cards) + 1
    <3>1. PICK c \in Codes : cards' = [cards EXCEPT ![c] = cards[c] + 1]
      BY <1>1, <2>2 DEF deal
    <3>2. cards \in [Codes -> Nat]
      BY <1>1 DEF IInv, Hands
    <3>3. SumFunctionOnSet([cards EXCEPT ![c] = cards[c] + 1], Codes)
            = SumFunctionOnSet(cards, Codes) + 1
      BY <3>2, CodesFinite, SumOneMore
    <3> QED
      BY <3>1, <3>3 DEF Size
  <2> QED
    BY <2>1, <2>2 DEF DealAdds
<1>2. IInv /\ [Next]_vars => [DealAdds]_vars
  BY <1>1 DEF DealAdds
<1> QED
  BY <1>2, InitInv, NextInv, PTL DEF Spec
=============================================================================
