----------------------------- MODULE BoardProofs -----------------------------
(***************************************************************************)
(* Theorems about the board, for every deal, contract, order of the ranks  *)
(* and number of tricks.  The first half is about where the cards are: no  *)
(* card is lost or doubled, and a round is the hand the table relies on.   *)
(*                                                                         *)
(* The second half is about what they are worth: who takes a trick, which  *)
(* cards may be played, how the live scores add up and what the round is   *)
(* awarded.  Its invariant (RoundOK) adds what is scored, kept in pairs    *)
(* and declared on the way; before it come lemmas about the operators      *)
(* alone: sums over sets, the order of the announcements, the winner of a  *)
(* trick, the cards that may be played.                                    *)
(***************************************************************************)
EXTENDS Board, FiniteSetTheorems, SequenceTheorems, WellFoundedInduction, TLAPS

-----------------------------------------------------------------------------
(* The invariant of a board, within a method as well as at rest *)

Fields == {"hands", "contract", "dealer", "announcements", "trick", "winners", "piles",
           "active", "reviewing", "score", "points", "der", "belotes", "bonus",
           "declared", "revealed", "announced", "result"}

PlayedCard == [seat : Position, card : Card]

\* The provers are confused by equations and bounds of Len itself.
Size(s) == Len(s)

FieldsOK(b) ==
  /\ DOMAIN b = Fields
  /\ b.hands \in [Position -> SUBSET Card]
  /\ b.trick \in Seq(PlayedCard) /\ Size(b.trick) \in 0..4
  /\ b.winners \in Seq(Position) /\ Size(b.winners) \in 0..Tricks
  /\ b.piles \in [Team -> Seq(Card)]
  /\ b.active \in Position /\ b.dealer \in Position
  /\ b.reviewing \in BOOLEAN
  /\ Size(b.winners) = Tricks => b.reviewing
  /\ b.reviewing => Size(b.trick) = 4 /\ Size(b.winners) >= 1

\* The seats of the trick follow each other, and the active one comes next.
TurnOK(b) ==
  \A i \in 1..Size(b.trick) :
    b.active = (b.trick[i].seat + Size(b.trick) - i + 1) % 4

HasPlayed(b, s) == ~b.reviewing /\ \E i \in 1..Size(b.trick) : b.trick[i].seat = s

SizesOK(b) ==
  \A s \in Position :
    Cardinality(b.hands[s]) = Tricks - Size(b.winners) - IF HasPlayed(b, s) THEN 1 ELSE 0

CardsOK(b) ==
  /\ \A s, t \in Position : s # t => b.hands[s] \cap b.hands[t] = {}
  /\ InHands(b) \cap TrickOnTable(b) = {}
  /\ \A t \in Team : PileCards(b, t) \cap (InHands(b) \cup TrickOnTable(b)) = {}
  /\ PileCards(b, 0) \cap PileCards(b, 1) = {}
  /\ InHands(b) \cup TrickOnTable(b) \cup PileCards(b, 0) \cup PileCards(b, 1) = Card
  /\ Size(b.piles[0]) + Size(b.piles[1]) = 4 * Size(b.winners)

BoardOK(b) == FieldsOK(b) /\ TurnOK(b) /\ SizesOK(b) /\ CardsOK(b)

\* At rest a trick in play has room, and is never the last one.
RestOK(b) ==
  /\ ~b.reviewing => Size(b.trick) \in 0..3 /\ Size(b.winners) \in 0..(Tricks - 2)
  /\ Over(b) <=> Size(b.winners) = Tricks

BoardInv == BoardOK(board) /\ RestOK(board)

-----------------------------------------------------------------------------
(* Seats in turn *)

\* Four turns bring the turn back.
LEMMA TurnsAround ==
  ASSUME NEW s \in Position
  PROVE  /\ Following(s) \in Position /\ Following(s) # s
         /\ Following(Following(Following(Following(s)))) = s
BY DEF Position, Following

\* The size of a sequence, and where it is defined.
LEMMA SizeOfSeq ==
  ASSUME NEW S, NEW q \in Seq(S)
  PROVE  /\ Size(q) \in Nat /\ DOMAIN q = 1..Size(q)
         /\ \A i \in 1..Size(q) : q[i] \in S
BY DEF Size

\* Appending adds one element and keeps the others.
LEMMA SizeOfAppend ==
  ASSUME NEW S, NEW q \in Seq(S), NEW e \in S
  PROVE  /\ Append(q, e) \in Seq(S) /\ Size(Append(q, e)) = Size(q) + 1
         /\ \A i \in 1..Size(q) : Append(q, e)[i] = q[i]
         /\ Append(q, e)[Size(q) + 1] = e
BY DEF Size

\* Sizes add up.
LEMMA SizeOfConcat ==
  ASSUME NEW S, NEW q \in Seq(S), NEW r \in Seq(S)
  PROVE  q \o r \in Seq(S) /\ Size(q \o r) = Size(q) + Size(r)
BY ConcatProperties DEF Size

\* Each seat is in a team.
LEMMA TeamOfSeat == ASSUME NEW s \in Position PROVE TeamOf(s) \in Team
BY DEF Position, TeamOf, Team

\* The deck is finite, and so is every hand.
LEMMA CardIsFinite == IsFiniteSet(Card)
<1> DEFINE f == [p \in Ranks \X Suits |-> [rank |-> p[1], suit |-> p[2]]]
<1>1. IsFiniteSet(Ranks \X Suits) BY BoardAssumption, FS_Product
<1>2. f \in [Ranks \X Suits -> Card] BY DEF Card
<1>3. ASSUME NEW c \in Card PROVE \E p \in Ranks \X Suits : f[p] = c
  <2>1. <<c.rank, c.suit>> \in Ranks \X Suits BY DEF Card
  <2>2. f[<<c.rank, c.suit>>] = [rank |-> c.rank, suit |-> c.suit] BY <2>1
  <2>3. c = [rank |-> c.rank, suit |-> c.suit] BY DEF Card
  <2> QED BY <2>1, <2>2, <2>3
<1>4. f \in Surjection(Ranks \X Suits, Card) BY <1>2, <1>3 DEF Surjection
<1> QED BY <1>1, <1>4, FS_Surjection

-----------------------------------------------------------------------------
(* The cards that may be played *)

\* prefer_higher chooses among the cards it is given, and always some.
LEMMA PreferHigherIsAmong ==
  ASSUME NEW cards, NEW winner, NEW trump
  PROVE  /\ PreferHigher(cards, winner, trump) \subseteq cards
         /\ cards # {} => PreferHigher(cards, winner, trump) # {}
BY DEF PreferHigher

\* Whoever holds a card may play one, of those it holds.
LEMMA LegalIsAmong ==
  ASSUME NEW hand, NEW trick, NEW trump
  PROVE  /\ Legal(hand, trick, trump) \subseteq hand
         /\ hand # {} => Legal(hand, trick, trump) # {}
<1> DEFINE lead == Lead(trick)
           winner == WinningIndex(trick, trump)
           following == InSuit(hand, lead)
           trumps == TrumpsAmong(hand, trump)
<1>1. following \subseteq hand /\ trumps \subseteq hand BY DEF InSuit, TrumpsAmong
<1> HIDE DEF lead, winner, following, trumps
<1>2. CASE trick = <<>> BY <1>2 DEF Legal
<1>3. CASE trick # <<>> /\ following # {}
  <2>1. Legal(hand, trick, trump) = IF IsTrump(lead, trump)
          THEN PreferHigher(following, trick[winner].card, trump) ELSE following
    BY <1>3 DEF Legal, lead, winner, following, trumps
  <2> QED BY <1>1, <1>3, <2>1, PreferHigherIsAmong
<1>4. CASE trick # <<>> /\ following = {}
  <2>1. Legal(hand, trick, trump) =
          IF winner + 1 = Len(trick) \/ ~SuitContract(trump) \/ trumps = {}
          THEN hand ELSE PreferHigher(trumps, trick[winner].card, trump)
    BY <1>4 DEF Legal, lead, winner, following, trumps
  <2> QED BY <1>1, <2>1, PreferHigherIsAmong
<1> QED BY <1>2, <1>3, <1>4

-----------------------------------------------------------------------------
(* What a method leaves alone, and what it does to the other fields *)

SameBoard(b, n) ==
  /\ DOMAIN n = DOMAIN b
  /\ n.hands = b.hands /\ n.trick = b.trick /\ n.winners = b.winners /\ n.piles = b.piles
  /\ n.active = b.active /\ n.dealer = b.dealer /\ n.reviewing = b.reviewing

SameResult(b, n) == n.result = b.result

\* What the invariant says of a board, it says of one with the same cards and turn.
LEMMA SameBoardOK ==
  ASSUME NEW b, NEW n, SameBoard(b, n), BoardOK(b)
  PROVE  BoardOK(n)
<1>1. FieldsOK(n) BY DEF SameBoard, BoardOK, FieldsOK
<1>2. TurnOK(n) BY DEF SameBoard, BoardOK, TurnOK
<1>3. SizesOK(n)
  <2>1. \A s : HasPlayed(n, s) <=> HasPlayed(b, s) BY DEF SameBoard, HasPlayed
  <2>2. n.hands = b.hands /\ n.winners = b.winners BY DEF SameBoard
  <2> QED BY <2>1, <2>2 DEF BoardOK, SizesOK
<1>4. CardsOK(n)
  <2>1. InHands(n) = InHands(b) BY DEF SameBoard, InHands
  <2>2. TrickOnTable(n) = TrickOnTable(b) BY DEF SameBoard, TrickOnTable
  <2>3. \A t : PileCards(n, t) = PileCards(b, t) BY DEF SameBoard, PileCards
  <2>4. n.hands = b.hands /\ n.winners = b.winners /\ n.piles = b.piles BY DEF SameBoard
  <2>5. CardsOK(b) BY DEF BoardOK
  <2>6. \A s, t \in Position : s # t => n.hands[s] \cap n.hands[t] = {}
    BY <2>4, <2>5 DEF CardsOK
  <2>7. Size(n.piles[0]) + Size(n.piles[1]) = 4 * Size(n.winners) BY <2>4, <2>5 DEF CardsOK
  <2> QED BY <2>1, <2>2, <2>3, <2>5, <2>6, <2>7 DEF CardsOK
<1> QED BY <1>1, <1>2, <1>3, <1>4 DEF BoardOK

\* Belote moves no card, and neither does an announcement, declared or revealed.
LEMMA RegisterBeloteSame ==
  ASSUME NEW b, DOMAIN b = Fields, NEW s, NEW c
  PROVE  SameBoard(b, RegisterBelote(b, s, c)) /\ SameResult(b, RegisterBelote(b, s, c))
BY DEF RegisterBelote, SameBoard, SameResult, Fields

\* Declaring takes no card from the hand.
LEMMA DeclareSame ==
  ASSUME NEW b, DOMAIN b = Fields, NEW s, NEW declare
  PROVE  SameBoard(b, Declare(b, s, declare)) /\ SameResult(b, Declare(b, s, declare))
BY DEF Declare, SameBoard, SameResult, Fields

\* Revealing announcements changes scores only.
LEMMA RevealAnnouncementsSame ==
  ASSUME NEW b, DOMAIN b = Fields
  PROVE  SameBoard(b, RevealAnnouncements(b)) /\ SameResult(b, RevealAnnouncements(b))
BY DEF RevealAnnouncements, SameBoard, SameResult, Fields

\* The round is over once its last trick is complete.
LEMMA CalculateRoundResultSame ==
  ASSUME NEW b, DOMAIN b = Fields, ~Over(b)
  PROVE  /\ SameBoard(b, CalculateRoundResult(b))
         /\ Over(CalculateRoundResult(b)) <=> Size(b.winners) = Tricks
<1>1. SameBoard(b, CalculateRoundResult(b))
  BY DEF CalculateRoundResult, SameBoard, Fields
<1>2. CASE Size(b.winners) = Tricks
  <2> DEFINE r == Score(Totals(b), TeamOf(b.contract.declarer))
  <2>1. CalculateRoundResult(b).result = r BY <1>2 DEF CalculateRoundResult, Fields, Size
  <2>2. DOMAIN r.awarded = Team BY DEF Score
  <2>3. NoResult.awarded = <<>> BY DEF NoResult
  <2>4. r # NoResult BY <2>2, <2>3 DEF Team
  <2> QED BY <1>1, <1>2, <2>1, <2>4 DEF Over
<1>3. CASE Size(b.winners) # Tricks BY <1>1, <1>3 DEF CalculateRoundResult, Over, Size
<1> QED BY <1>2, <1>3

\* The fields of a board a card has been put down on,
LEMMA PutDownFields ==
  ASSUME NEW b, DOMAIN b = Fields, NEW s, NEW c
  PROVE  /\ DOMAIN PutDown(b, s, c) = Fields
         /\ PutDown(b, s, c).hands = [b.hands EXCEPT ![s] = @ \ {c}]
         /\ PutDown(b, s, c).trick = Append(b.trick, [seat |-> s, card |-> c])
         /\ PutDown(b, s, c).active = Following(b.active)
         /\ PutDown(b, s, c).winners = b.winners
         /\ PutDown(b, s, c).piles = b.piles
         /\ PutDown(b, s, c).dealer = b.dealer
         /\ PutDown(b, s, c).reviewing = b.reviewing
         /\ PutDown(b, s, c).result = b.result
BY DEF PutDown, Fields

Winner(b) == b.trick[WinningIndex(b.trick, b.contract.trump)].seat

\* of one whose trick has been won,
LEMMA WinTrickFields ==
  ASSUME NEW b, DOMAIN b = Fields
  PROVE  /\ DOMAIN WinTrick(b) = Fields
         /\ WinTrick(b).hands = b.hands
         /\ WinTrick(b).trick = b.trick
         /\ WinTrick(b).active = b.active
         /\ WinTrick(b).winners = Append(b.winners, Winner(b))
         /\ WinTrick(b).piles =
              [b.piles EXCEPT ![TeamOf(Winner(b))] = TrickCards(b.trick) \o @]
         /\ WinTrick(b).dealer = b.dealer
         /\ WinTrick(b).reviewing = TRUE
         /\ WinTrick(b).result = b.result
BY DEF WinTrick, Winner, Fields

\* and of one whose trick has been collected.
LEMMA CollectedFields ==
  ASSUME NEW b, DOMAIN b = Fields
  PROVE  /\ DOMAIN Collected(b) = Fields
         /\ Collected(b).hands = b.hands
         /\ Collected(b).trick = <<>>
         /\ Collected(b).active = NextLeader(b)
         /\ Collected(b).winners = b.winners
         /\ Collected(b).piles = b.piles
         /\ Collected(b).dealer = b.dealer
         /\ Collected(b).reviewing = FALSE
         /\ Collected(b).result = b.result
BY DEF Collected, Fields

-----------------------------------------------------------------------------
(* A card is put down *)

\* Seats counted on around the table come back after four.
LEMMA Wraps ==
  ASSUME NEW s \in Position, NEW k \in 1..4
  PROVE  /\ Following((s + k) % 4) = (s + k + 1) % 4
         /\ k < 4 => (s + k) % 4 # s
BY DEF Position, Following

\* The active seat has no card in the trick yet.
LEMMA ActiveHasNotPlayed ==
  ASSUME NEW b, BoardOK(b), Size(b.trick) \in 0..3
  PROVE  ~HasPlayed(b, b.active)
<1> SUFFICES ASSUME NEW i \in 1..Size(b.trick), b.trick[i].seat = b.active
             PROVE  FALSE
  BY DEF HasPlayed
<1>1. b.active \in Position /\ Size(b.trick) \in Nat BY DEF BoardOK, FieldsOK
<1>2. Size(b.trick) - i + 1 \in 1..4 /\ Size(b.trick) - i + 1 < 4 BY <1>1
<1>3. b.active = (b.active + Size(b.trick) - i + 1) % 4 BY DEF BoardOK, TurnOK
<1>4. b.active + Size(b.trick) - i + 1 = b.active + (Size(b.trick) - i + 1)
  BY <1>1 DEF Position
<1> QED BY <1>1, <1>2, <1>3, <1>4, Wraps

\* A card put down goes from one hand to the trick, and the turn passes.
LEMMA PutDownOK ==
  ASSUME NEW b, BoardOK(b), ~b.reviewing, Size(b.trick) \in 0..3, NEW c \in b.hands[b.active]
  PROVE  BoardOK(PutDown(b, b.active, c))
<1> DEFINE s == b.active
           n == PutDown(b, s, c)
           p == [seat |-> s, card |-> c]
<1>1. DOMAIN b = Fields /\ s \in Position /\ c \in Card /\ p \in PlayedCard
  BY DEF BoardOK, FieldsOK, PlayedCard
<1>2. /\ DOMAIN n = Fields
      /\ n.hands = [b.hands EXCEPT ![s] = @ \ {c}]
      /\ n.trick = Append(b.trick, p)
      /\ n.active = Following(s)
      /\ n.winners = b.winners /\ n.piles = b.piles /\ n.dealer = b.dealer
      /\ n.reviewing = b.reviewing
  BY <1>1, PutDownFields
<1> HIDE DEF n
<1>3. /\ b.trick \in Seq(PlayedCard) /\ b.hands \in [Position -> SUBSET Card]
      /\ Size(b.trick) \in Nat
  BY DEF BoardOK, FieldsOK
<1>4. /\ Size(n.trick) = Size(b.trick) + 1
      /\ \A i \in 1..Size(b.trick) : n.trick[i] = b.trick[i] /\ b.trick[i] \in PlayedCard
      /\ n.trick[Size(b.trick) + 1] = p
  BY <1>1, <1>2, <1>3, SizeOfSeq, SizeOfAppend
<1> HIDE DEF p
<1>5. p.seat = s /\ p.card = c BY DEF p
<1>6. \A t \in Position : n.hands[t] = IF t = s THEN b.hands[s] \ {c} ELSE b.hands[t]
  BY <1>1, <1>2, <1>3
<1>7. FieldsOK(n)
  <2>1. n.hands \in [Position -> SUBSET Card] BY <1>1, <1>2, <1>3
  <2>2. n.trick \in Seq(PlayedCard) BY <1>1, <1>2, <1>3
  <2> QED BY <1>1, <1>2, <1>3, <1>4, <2>1, <2>2, TurnsAround DEF BoardOK, FieldsOK
<1>8. TurnOK(n)
  <2> SUFFICES ASSUME NEW i \in 1..Size(n.trick)
               PROVE  n.active = (n.trick[i].seat + Size(n.trick) - i + 1) % 4
    BY DEF TurnOK
  <2>1. CASE i = Size(b.trick) + 1
    <3>1. n.trick[i].seat = s BY <1>4, <1>5, <2>1
    <3>2. s + Size(n.trick) - i + 1 = s + 1 BY <1>1, <1>3, <1>4, <2>1 DEF Position
    <3> QED BY <1>2, <3>1, <3>2 DEF Following
  <2>2. CASE i # Size(b.trick) + 1
    <3> DEFINE k == Size(b.trick) - i + 1
               t == b.trick[i].seat
    <3>1. i \in 1..Size(b.trick) BY <1>3, <1>4, <2>2
    <3>2. k \in 1..4 /\ k + 1 = Size(n.trick) - i + 1 BY <1>3, <1>4, <3>1
    <3>3. t \in Position /\ n.trick[i].seat = t BY <1>4, <3>1 DEF PlayedCard
    <3>4. b.active = (t + k) % 4
      <4>1. b.active = (t + Size(b.trick) - i + 1) % 4 BY <3>1 DEF BoardOK, TurnOK
      <4>2. t + Size(b.trick) - i + 1 = t + k BY <1>3, <3>3 DEF Position
      <4> QED BY <4>1, <4>2
    <3>5. n.active = (t + k + 1) % 4 BY <1>2, <3>2, <3>3, <3>4, Wraps
    <3> HIDE DEF k, t
    <3>6. t + k + 1 = t + Size(n.trick) - i + 1 BY <1>3, <1>4, <3>2, <3>3 DEF Position
    <3> QED BY <3>3, <3>5, <3>6
  <2> QED BY <2>1, <2>2
<1>9. \A t \in Position : HasPlayed(n, t) <=> HasPlayed(b, t) \/ t = s
  <2> TAKE t \in Position
  <2>1. ASSUME NEW i \in 1..Size(n.trick), n.trick[i].seat = t
        PROVE  t = s \/ \E j \in 1..Size(b.trick) : b.trick[j].seat = t
    BY <1>3, <1>4, <1>5, <2>1
  <2>2. ASSUME NEW j \in 1..Size(b.trick), b.trick[j].seat = t
        PROVE  \E i \in 1..Size(n.trick) : n.trick[i].seat = t
    <3>1. j \in 1..Size(n.trick) /\ n.trick[j].seat = t BY <1>3, <1>4, <2>2
    <3> QED BY <3>1
  <2>3. \E i \in 1..Size(n.trick) : n.trick[i].seat = s
    <3>1. Size(b.trick) + 1 \in 1..Size(n.trick) BY <1>3, <1>4
    <3> QED BY <1>4, <1>5, <3>1
  <2> QED BY <1>2, <2>1, <2>2, <2>3 DEF HasPlayed
<1>10. SizesOK(n)
  <2> SUFFICES ASSUME NEW t \in Position
               PROVE  Cardinality(n.hands[t]) = Tricks - Size(n.winners)
                                                  - IF HasPlayed(n, t) THEN 1 ELSE 0
    BY DEF SizesOK
  <2>1. Cardinality(b.hands[t]) = Tricks - Size(b.winners)
                                    - IF HasPlayed(b, t) THEN 1 ELSE 0
    BY DEF BoardOK, SizesOK
  <2>2. CASE t # s BY <1>2, <1>6, <1>9, <2>1, <2>2
  <2>3. CASE t = s
    <3>1. IsFiniteSet(b.hands[s]) BY <1>1, <1>3, CardIsFinite, FS_Subset
    <3>2. Cardinality(n.hands[s]) = Cardinality(b.hands[s]) - 1
      BY <1>1, <1>6, <3>1, FS_RemoveElement
    <3>3. ~HasPlayed(b, s) /\ HasPlayed(n, s) BY <1>1, <1>9, ActiveHasNotPlayed
    <3>4. Tricks \in Nat /\ Size(b.winners) \in Nat BY BoardAssumption DEF BoardOK, FieldsOK
    <3> QED BY <1>2, <2>1, <2>3, <3>2, <3>3, <3>4
  <2> QED BY <2>2, <2>3
<1>11. CardsOK(n)
  <2>1. CardsOK(b) BY DEF BoardOK
  <2>2. \A t, u \in Position : t # u => n.hands[t] \cap n.hands[u] = {}
    BY <1>6, <2>1 DEF CardsOK
  <2>3. InHands(n) = InHands(b) \ {c}
    <3>1. \A t \in Position : n.hands[t] = b.hands[t] \ {c}
      BY <1>1, <1>6, <2>1 DEF CardsOK
    <3> QED BY <3>1 DEF InHands
  <2>4. TrickOnTable(n) = TrickOnTable(b) \cup {c}
    <3>1. DOMAIN n.trick = 1..Size(n.trick) /\ DOMAIN b.trick = 1..Size(b.trick)
      BY <1>3, <1>7, SizeOfSeq DEF FieldsOK
    <3>2. TrickOnTable(b) = {b.trick[i].card : i \in 1..Size(b.trick)}
      BY <3>1 DEF TrickOnTable
    <3>3. TrickOnTable(n) = {n.trick[i].card : i \in 1..Size(n.trick)}
      BY <1>2, <3>1 DEF TrickOnTable
    <3>4. \A i \in 1..Size(b.trick) :
            i \in 1..Size(n.trick) /\ n.trick[i].card = b.trick[i].card
      BY <1>3, <1>4
    <3>5. Size(n.trick) \in 1..Size(n.trick) /\ n.trick[Size(n.trick)].card = c
      BY <1>3, <1>4, <1>5
    <3>6. \A i \in 1..Size(n.trick) : i \in 1..Size(b.trick) \/ i = Size(n.trick)
      BY <1>3, <1>4
    <3> QED BY <3>2, <3>3, <3>4, <3>5, <3>6
  <2>5. \A t : PileCards(n, t) = PileCards(b, t) BY <1>2 DEF PileCards
  <2>6. c \in InHands(b) BY <1>1 DEF InHands
  <2>7. \A t \in Team : PileCards(n, t) \cap (InHands(n) \cup TrickOnTable(n)) = {}
    BY <2>1, <2>3, <2>4, <2>5, <2>6 DEF CardsOK
  <2>8. InHands(n) \cap TrickOnTable(n) = {} BY <2>1, <2>3, <2>4 DEF CardsOK
  <2>9. InHands(n) \cup TrickOnTable(n) \cup PileCards(n, 0) \cup PileCards(n, 1) = Card
    BY <2>1, <2>3, <2>4, <2>5, <2>6 DEF CardsOK
  <2>10. PileCards(n, 0) \cap PileCards(n, 1) = {} BY <2>1, <2>5 DEF CardsOK
  <2>11. Size(n.piles[0]) + Size(n.piles[1]) = 4 * Size(n.winners)
    BY <1>2, <2>1 DEF CardsOK
  <2> QED BY <2>2, <2>7, <2>8, <2>9, <2>10, <2>11 DEF CardsOK
<1>12. BoardOK(n) BY <1>7, <1>8, <1>10, <1>11 DEF BoardOK
<1> QED BY <1>12 DEF n

-----------------------------------------------------------------------------
(* A trick is won *)

\* Joined sequences have the elements of both.
LEMMA ToSetConcat ==
  ASSUME NEW S, NEW q \in Seq(S), NEW r \in Seq(S)
  PROVE  ToSet(q \o r) = ToSet(q) \cup ToSet(r)
<1>1. /\ Len(q) \in Nat /\ Len(r) \in Nat /\ Len(q \o r) = Len(q) + Len(r)
      /\ DOMAIN q = 1..Len(q) /\ DOMAIN r = 1..Len(r) /\ DOMAIN (q \o r) = 1..(Len(q) + Len(r))
      /\ \A i \in 1..(Len(q) + Len(r)) :
           (q \o r)[i] = IF i <= Len(q) THEN q[i] ELSE r[i - Len(q)]
  OBVIOUS
<1>2. ASSUME NEW i \in DOMAIN (q \o r) PROVE (q \o r)[i] \in ToSet(q) \cup ToSet(r)
  <2>1. CASE i <= Len(q)
    <3>1. i \in DOMAIN q /\ (q \o r)[i] = q[i] BY <1>1, <1>2, <2>1
    <3> QED BY <3>1 DEF ToSet
  <2>2. CASE ~(i <= Len(q))
    <3>1. i - Len(q) \in DOMAIN r /\ (q \o r)[i] = r[i - Len(q)] BY <1>1, <1>2, <2>2
    <3> QED BY <3>1 DEF ToSet
  <2> QED BY <2>1, <2>2
<1>3. ASSUME NEW i \in DOMAIN q PROVE q[i] \in ToSet(q \o r)
  <2>1. i \in DOMAIN (q \o r) /\ (q \o r)[i] = q[i] BY <1>1, <1>3
  <2> QED BY <2>1 DEF ToSet
<1>4. ASSUME NEW i \in DOMAIN r PROVE r[i] \in ToSet(q \o r)
  <2>1. /\ i + Len(q) \in DOMAIN (q \o r)
        /\ (q \o r)[i + Len(q)] = r[(i + Len(q)) - Len(q)]
    BY <1>1, <1>4
  <2>2. (i + Len(q)) - Len(q) = i BY <1>1, <1>4
  <2> QED BY <2>1, <2>2 DEF ToSet
<1>5. ToSet(q \o r) \subseteq ToSet(q) \cup ToSet(r) BY <1>2 DEF ToSet
<1>6. ToSet(q) \subseteq ToSet(q \o r) BY <1>3 DEF ToSet
<1>7. ToSet(r) \subseteq ToSet(q \o r) BY <1>4 DEF ToSet
<1> QED BY <1>5, <1>6, <1>7

\* Every seat has a card in a trick of four.
LEMMA AllHavePlayed ==
  ASSUME NEW b, BoardOK(b), ~b.reviewing, Size(b.trick) = 4, NEW s \in Position
  PROVE  HasPlayed(b, s)
<1>1. ASSUME NEW i \in 1..4
      PROVE  b.trick[i].seat \in Position /\ b.active = (b.trick[i].seat + 5 - i) % 4
  <2>1. b.trick[i] \in PlayedCard
    <3>1. b.trick \in Seq(PlayedCard) BY DEF BoardOK, FieldsOK
    <3> QED BY <3>1, SizeOfSeq
  <2>2. b.active = (b.trick[i].seat + 4 - i + 1) % 4 BY DEF BoardOK, TurnOK
  <2> QED BY <2>1, <2>2 DEF PlayedCard, Position
<1>2. b.active \in Position BY DEF BoardOK, FieldsOK
<1>3. \E i \in 1..4 : (s + 5 - i) % 4 = b.active
  <2>1. \E i \in {1, 2, 3, 4} : (s + 5 - i) % 4 = b.active BY <1>2 DEF Position
  <2> QED BY <2>1
<1>4. PICK i \in 1..4 : (s + 5 - i) % 4 = b.active BY <1>3
<1>5. b.trick[i].seat = s
  <2>1. \A t \in Position : (t + 5 - i) % 4 = (s + 5 - i) % 4 => t = s BY DEF Position
  <2> QED BY <1>1, <1>4, <2>1
<1> QED BY <1>5 DEF HasPlayed

\* A trick adds four cards to those won.
LEMMA FourMore ==
  \A p, q, k \in Nat :
    p + q = 4 * k => (4 + p) + q = 4 * (k + 1) /\ p + (4 + q) = 4 * (k + 1)
OBVIOUS

\* The winning card is one of the trick's.
LEMMA WinningIndexIsIn ==
  ASSUME NEW trick, NEW trump, Size(trick) = 4
  PROVE  WinningIndex(trick, trump) \in 1..4
BY DEF WinningIndex, Winning

\* A full trick goes to one pile, and every hand has one card fewer than before it.
LEMMA WinTrickOK ==
  ASSUME NEW b, BoardOK(b), ~b.reviewing, Size(b.trick) = 4
  PROVE  BoardOK(WinTrick(b)) /\ Winner(b) \in Position
<1> DEFINE n == WinTrick(b)
           w == Winner(b)
           cards == TrickCards(b.trick)
<1>1. /\ DOMAIN b = Fields /\ b.trick \in Seq(PlayedCard)
      /\ b.winners \in Seq(Position) /\ Size(b.winners) \in Nat
      /\ b.piles \in [Team -> Seq(Card)]
  BY DEF BoardOK, FieldsOK
<1>2. \A i \in 1..4 : b.trick[i] \in PlayedCard BY <1>1, SizeOfSeq
<1>3. w \in Position /\ TeamOf(w) \in Team
  BY <1>2, WinningIndexIsIn, TeamOfSeat DEF Winner, PlayedCard
<1>4. /\ DOMAIN n = Fields /\ n.hands = b.hands /\ n.trick = b.trick
      /\ n.active = b.active /\ n.dealer = b.dealer
      /\ n.winners = Append(b.winners, w)
      /\ n.piles = [b.piles EXCEPT ![TeamOf(w)] = cards \o @]
      /\ n.reviewing = TRUE
  BY <1>1, WinTrickFields
<1>5. cards \in Seq(Card) /\ Size(cards) = 4 /\ ToSet(cards) = TrickOnTable(b)
  <2>1. cards = [i \in 1..4 |-> b.trick[i].card] BY DEF TrickCards
  <2>2. cards \in [1..4 -> Card] BY <1>2, <2>1 DEF PlayedCard
  <2>3. cards \in Seq(Card) BY <2>2, SeqDef
  <2>6. Size(cards) = 4 BY <2>1, <2>3 DEF Size
  <2>4. DOMAIN b.trick = 1..4 BY <1>1, SizeOfSeq
  <2>5. ToSet(cards) = TrickOnTable(b) BY <2>1, <2>4 DEF ToSet, TrickOnTable
  <2> QED BY <2>3, <2>5, <2>6
<1> HIDE DEF n, w, cards
<1>6. \A t \in Team : n.piles[t] = IF t = TeamOf(w) THEN cards \o b.piles[t] ELSE b.piles[t]
  BY <1>1, <1>3, <1>4
<1>7. Size(n.winners) = Size(b.winners) + 1 /\ n.winners \in Seq(Position)
  BY <1>1, <1>3, <1>4, SizeOfAppend
<1>8. FieldsOK(n)
  <2>1. n.piles \in [Team -> Seq(Card)] BY <1>1, <1>3, <1>4, <1>5
  <2>2. Size(b.winners) + 1 \in 1..Tricks
    BY <1>1, BoardAssumption DEF BoardOK, FieldsOK
  <2>3. n.active \in Position /\ n.dealer \in Position /\ n.hands \in [Position -> SUBSET Card]
    BY <1>4 DEF BoardOK, FieldsOK
  <2>4. n.trick \in Seq(PlayedCard) /\ Size(n.trick) = 4 BY <1>1, <1>4
  <2>5. Size(n.winners) \in 0..Tricks /\ Size(n.winners) >= 1 BY <1>1, <1>7, <2>2
  <2>6. DOMAIN n = Fields /\ n.reviewing = TRUE BY <1>4
  <2>7. n.reviewing \in BOOLEAN /\ n.reviewing BY <2>6
  <2>8. Size(n.trick) \in 0..4 BY <2>4
  <2> QED BY <1>7, <2>1, <2>3, <2>4, <2>5, <2>6, <2>7, <2>8 DEF FieldsOK
<1>9. TurnOK(n) BY <1>4 DEF BoardOK, TurnOK
<1>10. SizesOK(n)
  <2> SUFFICES ASSUME NEW s \in Position
               PROVE  Cardinality(n.hands[s]) = Tricks - Size(n.winners)
                                                  - IF HasPlayed(n, s) THEN 1 ELSE 0
    BY DEF SizesOK
  <2>1. Cardinality(b.hands[s]) = Tricks - Size(b.winners)
                                    - IF HasPlayed(b, s) THEN 1 ELSE 0
    BY DEF BoardOK, SizesOK
  <2>2. HasPlayed(b, s) /\ ~HasPlayed(n, s) BY <1>4, AllHavePlayed DEF HasPlayed
  <2> QED BY <1>1, <1>4, <1>7, <2>1, <2>2, BoardAssumption
<1>11. CardsOK(n)
  <2>1. CardsOK(b) BY DEF BoardOK
  <2>2. InHands(n) = InHands(b) BY <1>4 DEF InHands
  <2>3. TrickOnTable(n) = {} BY <1>4 DEF TrickOnTable
  <2>4. ASSUME NEW t \in Team
        PROVE  PileCards(n, t) = PileCards(b, t)
                                   \cup IF t = TeamOf(w) THEN TrickOnTable(b) ELSE {}
    BY <1>1, <1>5, <1>6, ToSetConcat DEF PileCards
  <2>5. \A s, t \in Position : s # t => n.hands[s] \cap n.hands[t] = {}
    BY <1>4, <2>1 DEF CardsOK
  <2>6. \A t \in Team : PileCards(n, t) \cap (InHands(n) \cup TrickOnTable(n)) = {}
    BY <2>1, <2>2, <2>3, <2>4 DEF CardsOK
  <2>7. PileCards(n, 0) \cap PileCards(n, 1) = {} BY <2>1, <2>4 DEF CardsOK, Team
  <2>8. InHands(n) \cup TrickOnTable(n) \cup PileCards(n, 0) \cup PileCards(n, 1) = Card
    BY <1>3, <2>1, <2>2, <2>3, <2>4 DEF CardsOK, Team
  <2>9. Size(n.piles[0]) + Size(n.piles[1]) = 4 * Size(n.winners)
    <3> DEFINE u == TeamOf(w)
    <3>1. n.piles[u] = cards \o b.piles[u] /\ n.piles[Other(u)] = b.piles[Other(u)]
      <4>1. u \in Team /\ Other(u) \in Team /\ Other(u) # u BY <1>3 DEF Team, Other
      <4> QED BY <1>6, <4>1
    <3>2. Size(n.piles[u]) = 4 + Size(b.piles[u])
      <4>1. b.piles[u] \in Seq(Card) BY <1>1, <1>3
      <4>2. Size(cards \o b.piles[u]) = Size(cards) + Size(b.piles[u])
        BY <1>5, <4>1, SizeOfConcat
      <4> QED BY <1>5, <3>1, <4>2
    <3>3. Size(n.piles[Other(u)]) = Size(b.piles[Other(u)]) BY <3>1
    <3>4. Size(b.piles[0]) \in Nat /\ Size(b.piles[1]) \in Nat
      <4>1. b.piles[0] \in Seq(Card) /\ b.piles[1] \in Seq(Card) BY <1>1 DEF Team
      <4> QED BY <4>1, SizeOfSeq
    <3>5. Size(b.piles[0]) + Size(b.piles[1]) = 4 * Size(b.winners) BY <2>1 DEF CardsOK
    <3> HIDE DEF u
    <3>6. (u = 0 /\ Other(u) = 1) \/ (u = 1 /\ Other(u) = 0)
      BY <1>3 DEF Team, Other, u
    <3>7. /\ (4 + Size(b.piles[0])) + Size(b.piles[1]) = 4 * Size(n.winners)
          /\ Size(b.piles[0]) + (4 + Size(b.piles[1])) = 4 * Size(n.winners)
      <4>1. Size(b.winners) \in Nat BY <1>1
      <4>2. Size(n.winners) = Size(b.winners) + 1 BY <1>7
      <4>3. /\ (4 + Size(b.piles[0])) + Size(b.piles[1]) = 4 * (Size(b.winners) + 1)
            /\ Size(b.piles[0]) + (4 + Size(b.piles[1])) = 4 * (Size(b.winners) + 1)
        BY <3>4, <3>5, <4>1, FourMore, Zenon
      <4> QED BY <4>2, <4>3, Zenon
    <3>8. CASE u = 0 /\ Other(u) = 1
      <4>1. Size(n.piles[0]) = 4 + Size(b.piles[0]) BY <3>2, <3>8
      <4>2. Size(n.piles[1]) = Size(b.piles[1]) BY <3>3, <3>8
      <4> QED BY <3>7, <4>1, <4>2, Zenon
    <3>9. CASE u = 1 /\ Other(u) = 0
      <4>1. Size(n.piles[1]) = 4 + Size(b.piles[1]) BY <3>2, <3>9
      <4>2. Size(n.piles[0]) = Size(b.piles[0]) BY <3>3, <3>9
      <4> QED BY <3>7, <4>1, <4>2, Zenon
    <3> QED BY <3>6, <3>8, <3>9
  <2> QED BY <2>3, <2>5, <2>6, <2>7, <2>8, <2>9 DEF CardsOK
<1>12. BoardOK(n) /\ w \in Position BY <1>3, <1>8, <1>9, <1>10, <1>11 DEF BoardOK
<1> QED BY <1>12 DEF n, w

-----------------------------------------------------------------------------
(* A card is played *)

\* What one more card leads to: the fourth completes the trick.
AfterCard(b, n) ==
  /\ n.dealer = b.dealer /\ n.active = Following(b.active)
  /\ Size(n.trick) = Size(b.trick) + 1
  /\ Size(b.trick) < 3 => ~n.reviewing /\ n.winners = b.winners /\ ~Over(n)
  /\ Size(b.trick) = 3 => /\ n.reviewing
                          /\ Size(n.winners) = Size(b.winners) + 1
                          /\ (Over(n) <=> Size(n.winners) = Tricks)

\* A card of the active hand keeps the board in order, whatever else is scored.
LEMMA PlayedOK ==
  ASSUME NEW b, BoardOK(b), ~b.reviewing, Size(b.trick) \in 0..3, ~Over(b),
         NEW c \in b.hands[b.active], NEW declare
  PROVE  BoardOK(Played(b, c, declare)) /\ AfterCard(b, Played(b, c, declare))
<1> DEFINE s == b.active
           r == RegisterBelote(b, s, c)
           d == Declare(r, s, declare)
           p == PutDown(d, s, c)
           n == Played(b, c, declare)
<1>1. n = ResolveTrick(p) BY DEF Played
<1>2. DOMAIN b = Fields /\ b.trick \in Seq(PlayedCard) BY DEF BoardOK, FieldsOK
<1>3. SameBoard(b, r) /\ SameResult(b, r) BY <1>2, RegisterBeloteSame
<1>4. SameBoard(r, d) /\ SameResult(r, d) BY <1>2, <1>3, DeclareSame DEF SameBoard
<1> HIDE DEF r, d
<1>5. SameBoard(b, d) /\ SameResult(b, d) BY <1>3, <1>4 DEF SameBoard, SameResult
<1>6. BoardOK(d) BY <1>5, SameBoardOK
<1>7. /\ DOMAIN d = Fields /\ d.active = s /\ d.hands = b.hands /\ d.trick = b.trick
      /\ d.winners = b.winners /\ d.dealer = b.dealer /\ d.result = b.result
      /\ d.reviewing = b.reviewing
  BY <1>2, <1>5 DEF SameBoard, SameResult
<1>8. BoardOK(p)
  <2>1. ~d.reviewing /\ Size(d.trick) \in 0..3 /\ c \in d.hands[d.active] BY <1>7
  <2>2. BoardOK(PutDown(d, d.active, c)) BY <1>6, <2>1, PutDownOK
  <2> QED BY <1>7, <2>2
<1>9. /\ DOMAIN p = Fields /\ p.trick = Append(b.trick, [seat |-> s, card |-> c])
      /\ p.active = Following(s) /\ p.winners = b.winners /\ p.dealer = b.dealer
      /\ p.result = b.result /\ p.reviewing = b.reviewing
  <2>3. DOMAIN d = Fields BY <1>7
  <2>1. p.active = Following(d.active) BY <2>3 DEF PutDown, Fields
  <2>2. /\ DOMAIN p = Fields /\ p.trick = Append(d.trick, [seat |-> s, card |-> c])
        /\ p.winners = d.winners /\ p.dealer = d.dealer
        /\ p.result = d.result /\ p.reviewing = d.reviewing
    BY <2>3 DEF PutDown, Fields
  <2> HIDE DEF p
  <2> QED BY <1>7, <2>1, <2>2
<1> HIDE DEF p, n
<1>10. Size(p.trick) = Size(b.trick) + 1
  <2>1. c \in Card /\ s \in Position BY DEF BoardOK, FieldsOK
  <2>2. [seat |-> s, card |-> c] \in PlayedCard BY <2>1 DEF PlayedCard
  <2> QED BY <1>2, <1>9, <2>2, SizeOfAppend
<1>11. ~p.reviewing /\ ~Over(p) BY <1>9 DEF Over
<1>12. CASE Size(b.trick) < 3
  <2>3. Size(p.trick) # 4 BY <1>2, <1>10, <1>12
  <2>1. n = p BY <1>1, <2>3 DEF ResolveTrick, Size
  <2>2. /\ n.dealer = b.dealer /\ n.active = Following(b.active) /\ ~n.reviewing
        /\ n.winners = b.winners /\ ~Over(n) /\ Size(n.trick) = Size(b.trick) + 1
    BY <1>9, <1>10, <1>11, <2>1
  <2>4. AfterCard(b, n) BY <1>2, <1>12, <2>2 DEF AfterCard
  <2> QED BY <1>8, <2>1, <2>4 DEF n
<1>13. CASE Size(b.trick) = 3
  <2> DEFINE w == WinTrick(p)
             a == RevealAnnouncements(w)
  <2>1. Size(p.trick) = 4 BY <1>10, <1>13
  <2>2. n = CalculateRoundResult(a) BY <1>1, <2>1 DEF ResolveTrick, Size
  <2>3. BoardOK(w) /\ Winner(p) \in Position BY <1>8, <1>11, <2>1, WinTrickOK
  <2>4. /\ DOMAIN w = Fields /\ w.trick = p.trick /\ w.active = p.active
        /\ w.winners = Append(p.winners, Winner(p)) /\ w.dealer = p.dealer
        /\ w.reviewing = TRUE /\ w.result = p.result
    BY <1>9, WinTrickFields
  <2> HIDE DEF w
  <2>5. SameBoard(w, a) /\ SameResult(w, a) BY <2>4, RevealAnnouncementsSame
  <2> HIDE DEF a
  <2>6. ~Over(a) BY <1>11, <2>4, <2>5 DEF SameResult, Over
  <2>7. DOMAIN a = Fields BY <2>4, <2>5 DEF SameBoard
  <2>8. SameBoard(a, n) /\ (Over(n) <=> Size(a.winners) = Tricks)
    BY <2>2, <2>6, <2>7, CalculateRoundResultSame
  <2>9. SameBoard(w, n) /\ n.winners = a.winners BY <2>5, <2>8 DEF SameBoard
  <2>10. BoardOK(n) BY <2>3, <2>9, SameBoardOK
  <2>11. n.dealer = b.dealer /\ n.active = Following(s) /\ n.trick = p.trick /\ n.reviewing
    BY <1>9, <2>4, <2>9 DEF SameBoard
  <2>12. Size(n.winners) = Size(b.winners) + 1
    <3>1. n.winners = Append(b.winners, Winner(p)) BY <1>9, <2>4, <2>9 DEF SameBoard
    <3>2. b.winners \in Seq(Position) BY DEF BoardOK, FieldsOK
    <3> QED BY <2>3, <3>1, <3>2, SizeOfAppend
  <2>13. Over(n) <=> Size(n.winners) = Tricks BY <2>8, <2>9
  <2>14. Size(n.trick) = Size(b.trick) + 1 BY <1>10, <2>11
  <2>15. AfterCard(b, n) BY <1>13, <2>11, <2>12, <2>13, <2>14 DEF AfterCard
  <2> QED BY <2>10, <2>15 DEF n
<1>14. Size(b.trick) < 3 \/ Size(b.trick) = 3 BY <1>2
<1> QED BY <1>12, <1>13, <1>14

\* In the last trick each seat plays the card it has left.
LEMMA PlayedAloneIsPlayed ==
  ASSUME NEW b, BoardOK(b), ~b.reviewing, Size(b.trick) \in 0..3, Size(b.winners) = Tricks - 1
  PROVE  \E c \in b.hands[b.active] : PlayedAlone(b) = Played(b, c, FALSE)
<1>1. b.active \in Position /\ b.hands[b.active] \subseteq Card BY DEF BoardOK, FieldsOK
<1>2. IsFiniteSet(b.hands[b.active]) BY <1>1, CardIsFinite, FS_Subset
<1>3. Cardinality(b.hands[b.active]) = 1
  <2>1. ~HasPlayed(b, b.active) BY ActiveHasNotPlayed
  <2>2. Cardinality(b.hands[b.active]) = Tricks - Size(b.winners)
                                           - IF HasPlayed(b, b.active) THEN 1 ELSE 0
    BY <1>1 DEF BoardOK, SizesOK
  <2> QED BY <2>1, <2>2, BoardAssumption
<1>4. PICK x : b.hands[b.active] = {x} BY <1>2, <1>3, FS_Singleton
<1>5. (CHOOSE c \in b.hands[b.active] : TRUE) = x BY <1>4
<1>6. x \in LegalCards(b, b.active)
  <2>1. LegalCards(b, b.active) = Legal(b.hands[b.active], b.trick, b.contract.trump)
    BY DEF LegalCards
  <2>2. /\ Legal({x}, b.trick, b.contract.trump) \subseteq {x}
        /\ Legal({x}, b.trick, b.contract.trump) # {}
    BY LegalIsAmong
  <2> QED BY <1>4, <2>1, <2>2
<1>7. PlayedAlone(b) = Played(b, x, FALSE) BY <1>5, <1>6 DEF PlayedAlone
<1> QED BY <1>4, <1>7

\* The board's own card does what a played card does.
LEMMA PlayedAloneOK ==
  ASSUME NEW b, BoardOK(b), ~b.reviewing, Size(b.trick) \in 0..3, ~Over(b),
         Size(b.winners) = Tricks - 1
  PROVE  BoardOK(PlayedAlone(b)) /\ AfterCard(b, PlayedAlone(b))
<1>1. PICK c \in b.hands[b.active] : PlayedAlone(b) = Played(b, c, FALSE)
  BY PlayedAloneIsPlayed
<1> QED BY <1>1, PlayedOK

-----------------------------------------------------------------------------
(* A trick is collected *)

\* A seat leads next.
LEMMA NextLeaderIsSeat ==
  ASSUME NEW b, BoardOK(b), b.reviewing
  PROVE  NextLeader(b) \in Position
<1>1. b.winners \in Seq(Position) /\ Size(b.winners) >= 1 BY DEF BoardOK, FieldsOK
<1>2. Size(b.winners) \in 1..Size(b.winners) BY <1>1, SizeOfSeq
<1>3. b.winners[Size(b.winners)] \in Position BY <1>1, <1>2, SizeOfSeq
<1> QED BY <1>3 DEF NextLeader, Last, Size

\* A trick collected leaves the table empty, and the winner to lead.
LEMMA CollectedOK ==
  ASSUME NEW b, BoardOK(b), b.reviewing, Size(b.winners) # Tricks
  PROVE  /\ BoardOK(Collected(b))
         /\ ~Collected(b).reviewing /\ Size(Collected(b).trick) = 0
         /\ Collected(b).active = NextLeader(b) /\ Collected(b).dealer = b.dealer
         /\ Collected(b).winners = b.winners /\ Collected(b).result = b.result
<1> DEFINE n == Collected(b)
<1>1. DOMAIN b = Fields BY DEF BoardOK, FieldsOK
<1>2. /\ DOMAIN n = Fields /\ n.hands = b.hands /\ n.trick = <<>>
      /\ n.active = NextLeader(b) /\ n.winners = b.winners /\ n.piles = b.piles
      /\ n.dealer = b.dealer /\ n.reviewing = FALSE /\ n.result = b.result
  BY <1>1, CollectedFields
<1> HIDE DEF n
<1>3. n.trick \in Seq(PlayedCard) /\ Size(n.trick) = 0 BY <1>2 DEF Size
<1>4. ~n.reviewing /\ n.reviewing \in BOOLEAN BY <1>2
<1>5. FieldsOK(n)
  <2>1. n.active \in Position BY <1>2, NextLeaderIsSeat
  <2> QED BY <1>2, <1>3, <1>4, <2>1 DEF BoardOK, FieldsOK
<1>6. TurnOK(n) BY <1>3 DEF TurnOK
<1>7. SizesOK(n)
  <2>1. \A s : ~HasPlayed(b, s) /\ ~HasPlayed(n, s) BY <1>3 DEF HasPlayed
  <2> QED BY <1>2, <2>1 DEF BoardOK, SizesOK
<1>8. CardsOK(n)
  <2>1. CardsOK(b) BY DEF BoardOK
  <2>2. InHands(n) = InHands(b) BY <1>2 DEF InHands
  <2>3. TrickOnTable(n) = TrickOnTable(b) BY <1>2 DEF TrickOnTable
  <2>4. \A t : PileCards(n, t) = PileCards(b, t) BY <1>2 DEF PileCards
  <2>5. \A s, t \in Position : s # t => n.hands[s] \cap n.hands[t] = {}
    BY <1>2, <2>1 DEF CardsOK
  <2>6. Size(n.piles[0]) + Size(n.piles[1]) = 4 * Size(n.winners)
    BY <1>2, <2>1 DEF CardsOK
  <2> QED BY <2>1, <2>2, <2>3, <2>4, <2>5, <2>6 DEF CardsOK
<1>9. BoardOK(n) BY <1>5, <1>6, <1>7, <1>8 DEF BoardOK
<1> QED BY <1>2, <1>3, <1>4, <1>9 DEF n

\* What continuing leads to: the next trick, or the end of the round.
AfterReview(b, n) ==
  /\ n.dealer = b.dealer /\ n.active = NextLeader(b)
  /\ Size(b.winners) # Tricks - 1 =>
       ~n.reviewing /\ Size(n.trick) = 0 /\ n.winners = b.winners /\ ~Over(n)
  /\ Size(b.winners) = Tricks - 1 =>
       n.reviewing /\ Size(n.trick) = 4 /\ Size(n.winners) = Tricks /\ Over(n)

\* Continuing starts the next trick, or plays the last one to its end.
LEMMA ContinuedOK ==
  ASSUME NEW b, BoardOK(b), b.reviewing, ~Over(b), Size(b.winners) # Tricks
  PROVE  BoardOK(Continued(b)) /\ AfterReview(b, Continued(b))
<1> DEFINE c == Collected(b)
           p == PlayedAlone(c)
           q == PlayedAlone(p)
           r == PlayedAlone(q)
           n == PlayedAlone(r)
<1>1. /\ BoardOK(c) /\ ~c.reviewing /\ Size(c.trick) = 0 /\ c.active = NextLeader(b)
      /\ c.dealer = b.dealer /\ c.winners = b.winners /\ c.result = b.result
  BY CollectedOK
<1>2. ~Over(c) BY <1>1 DEF Over
<1>3. CASE Size(b.winners) # Tricks - 1
  <2>1. Continued(b) = c BY <1>3 DEF Continued, Size
  <2> QED BY <1>1, <1>2, <1>3, <2>1 DEF AfterReview
<1>4. CASE Size(b.winners) = Tricks - 1
  <2>1. Continued(b) = n BY <1>4 DEF Continued, Size
  <2> HIDE DEF c
  <2>2. /\ BoardOK(p) /\ Size(p.trick) = 1 /\ ~p.reviewing /\ ~Over(p)
        /\ p.dealer = c.dealer /\ p.winners = c.winners /\ p.active = Following(c.active)
    BY <1>1, <1>2, <1>4, PlayedAloneOK DEF AfterCard
  <2> HIDE DEF p
  <2>3. /\ BoardOK(q) /\ Size(q.trick) = 2 /\ ~q.reviewing /\ ~Over(q)
        /\ q.dealer = c.dealer /\ q.winners = c.winners
        /\ q.active = Following(Following(c.active))
    BY <1>1, <1>4, <2>2, PlayedAloneOK DEF AfterCard
  <2> HIDE DEF q
  <2>4. /\ BoardOK(r) /\ Size(r.trick) = 3 /\ ~r.reviewing /\ ~Over(r)
        /\ r.dealer = c.dealer /\ r.winners = c.winners
        /\ r.active = Following(Following(Following(c.active)))
    BY <1>1, <1>4, <2>3, PlayedAloneOK DEF AfterCard
  <2> HIDE DEF r
  <2>5. /\ BoardOK(n) /\ Size(n.trick) = 4 /\ n.reviewing
        /\ Size(n.winners) = Tricks - 1 + 1 /\ (Over(n) <=> Size(n.winners) = Tricks)
        /\ n.dealer = c.dealer
        /\ n.active = Following(Following(Following(Following(c.active))))
    <3>1. Size(r.trick) \in 0..3 /\ Size(r.winners) = Tricks - 1 BY <1>1, <1>4, <2>4
    <3>2. BoardOK(n) /\ AfterCard(r, n) BY <2>4, <3>1, PlayedAloneOK
    <3> HIDE DEF n
    <3>3. /\ n.reviewing /\ Size(n.winners) = Size(r.winners) + 1
          /\ Over(n) <=> Size(n.winners) = Tricks
      <4>1. Size(r.trick) = 3 BY <2>4
      <4> QED BY <3>2, <4>1, Zenon DEF AfterCard
    <3>4. Size(n.trick) = 4
      <4>1. Size(n.trick) = Size(r.trick) + 1 BY <3>2 DEF AfterCard
      <4> QED BY <2>4, <4>1
    <3>5. Size(n.winners) = Tricks - 1 + 1
      <4>1. Size(n.winners) = Size(r.winners) + 1 BY <3>3
      <4> QED BY <3>1, <4>1, Zenon
    <3>6. Over(n) <=> Size(n.winners) = Tricks BY <3>3, Zenon
    <3>7. n.dealer = r.dealer /\ n.active = Following(r.active) BY <3>2 DEF AfterCard
    <3> QED BY <2>4, <3>2, <3>3, <3>4, <3>5, <3>6, <3>7
  <2> HIDE DEF n
  <2>6. Size(n.winners) = Tricks BY <2>5, BoardAssumption
  <2>7. n.active = c.active BY <1>1, <2>5, NextLeaderIsSeat, TurnsAround
  <2> QED BY <1>1, <1>4, <2>1, <2>5, <2>6, <2>7 DEF AfterReview
<1> QED BY <1>3, <1>4

-----------------------------------------------------------------------------
(* The invariant holds *)

\* A board starts with every card in a hand, and its turn after the dealer.
LEMMA NewBoardOK ==
  ASSUME NEW hands \in Deals, NEW contract, NEW dealer \in Dealers, NEW announcements
  PROVE  /\ BoardOK(NewBoard(hands, contract, dealer, announcements))
         /\ RestOK(NewBoard(hands, contract, dealer, announcements))
<1> DEFINE b == NewBoard(hands, contract, dealer, announcements)
<1>1. IsDeal(hands) /\ dealer \in Position BY BoardAssumption
<1>2. /\ DOMAIN b = Fields /\ b.hands = hands /\ b.trick = <<>> /\ b.winners = <<>>
      /\ b.piles = [t \in Team |-> <<>>] /\ b.active = Following(dealer)
      /\ b.dealer = dealer /\ b.reviewing = FALSE /\ b.result = NoResult
  BY DEF NewBoard, Fields
<1> HIDE DEF b
<1>3. /\ b.trick \in Seq(PlayedCard) /\ b.winners \in Seq(Position)
      /\ Size(b.trick) = 0 /\ Size(b.winners) = 0
  BY <1>2 DEF Size
<1>4. 0 \in 0..Tricks /\ 0 # Tricks /\ 0 \in 0..(Tricks - 2) /\ 0 \in 0..4 /\ 0 \in 0..3
  BY BoardAssumption
<1>5. ~b.reviewing /\ b.reviewing \in BOOLEAN BY <1>2
<1>6. 0 \in Team /\ 1 \in Team BY DEF Team
<1>7. \A t \in Team : b.piles[t] = <<>> BY <1>2
<1>8. FieldsOK(b)
  <2>1. b.hands \in [Position -> SUBSET Card] BY <1>1, <1>2 DEF IsDeal
  <2>2. b.piles \in [Team -> Seq(Card)] BY <1>2
  <2>3. b.active \in Position /\ b.dealer \in Position BY <1>1, <1>2, TurnsAround
  <2>4. Size(b.trick) \in 0..4 /\ Size(b.winners) \in 0..Tricks /\ Size(b.winners) # Tricks
    BY <1>3, <1>4
  <2> QED BY <1>2, <1>3, <1>5, <2>1, <2>2, <2>3, <2>4 DEF FieldsOK
<1>9. TurnOK(b) BY <1>3 DEF TurnOK
<1>10. SizesOK(b)
  <2>1. \A s : ~HasPlayed(b, s) BY <1>3 DEF HasPlayed
  <2>2. \A s \in Position : Cardinality(b.hands[s]) = Tricks BY <1>1, <1>2 DEF IsDeal
  <2>3. Tricks - Size(b.winners) - 0 = Tricks BY <1>3, BoardAssumption
  <2> QED BY <2>1, <2>2, <2>3 DEF SizesOK
<1>11. CardsOK(b)
  <2>1. InHands(b) = Card BY <1>1, <1>2 DEF InHands, IsDeal
  <2>2. TrickOnTable(b) = {} BY <1>2 DEF TrickOnTable
  <2>3. \A t \in Team : PileCards(b, t) = {} BY <1>7 DEF PileCards, ToSet
  <2>4. \A s, t \in Position : s # t => b.hands[s] \cap b.hands[t] = {}
    BY <1>1, <1>2 DEF IsDeal
  <2>5. Size(b.piles[0]) + Size(b.piles[1]) = 4 * Size(b.winners)
    <3>1. Size(b.piles[0]) = 0 /\ Size(b.piles[1]) = 0 BY <1>6, <1>7 DEF Size
    <3> QED BY <1>3, <3>1
  <2> QED BY <1>6, <2>1, <2>2, <2>3, <2>4, <2>5 DEF CardsOK
<1>12. BoardOK(b) BY <1>8, <1>9, <1>10, <1>11 DEF BoardOK
<1>13. RestOK(b) BY <1>2, <1>3, <1>4 DEF RestOK, Over
<1> QED BY <1>12, <1>13 DEF b

\* Cards are played only to a trick in play, and of the active hand.
LEMMA PlayStep ==
  ASSUME BoardInv, NEW card, NEW declare, Play(card, declare)
  PROVE  /\ ~board.reviewing /\ ~Over(board)
         /\ Size(board.trick) \in 0..3 /\ Size(board.winners) \in 0..(Tricks - 2)
         /\ BoardOK(board') /\ AfterCard(board, board')
<1> DEFINE b == board
           n == Played(board, card, declare)
<1>1. BoardOK(b) /\ RestOK(b) BY DEF BoardInv
<1>2. card \in LegalCards(b, b.active) /\ board' = n BY DEF Play
<1>3. ~b.reviewing BY <1>2 DEF LegalCards
<1>4. Size(b.trick) \in 0..3 /\ Size(b.winners) \in 0..(Tricks - 2)
  BY <1>1, <1>3 DEF RestOK
<1>5. Size(b.winners) # Tricks BY <1>4, BoardAssumption
<1>6. ~Over(b) BY <1>1, <1>5 DEF RestOK
<1>7. card \in b.hands[b.active] BY <1>2, <1>3, LegalIsAmong DEF LegalCards
<1>8. BoardOK(n) /\ AfterCard(b, n) BY <1>1, <1>3, <1>4, <1>6, <1>7, PlayedOK
<1> QED BY <1>2, <1>3, <1>4, <1>6, <1>8

\* A trick is collected only while it is reviewed, and the round is not over.
LEMMA ContinueStep ==
  ASSUME BoardInv, ContinueAfterTrick
  PROVE  /\ board.reviewing /\ ~Over(board) /\ Size(board.trick) = 4
         /\ Size(board.winners) \in 1..(Tricks - 1)
         /\ BoardOK(board') /\ AfterReview(board, board')
<1>1. BoardOK(board) /\ RestOK(board) BY DEF BoardInv
<1>2. ~Over(board) /\ board.reviewing /\ board' = Continued(board)
  BY DEF ContinueAfterTrick
<1>3. Size(board.winners) # Tricks BY <1>1, <1>2 DEF RestOK
<1>4. /\ Size(board.trick) = 4 /\ Size(board.winners) >= 1
      /\ Size(board.winners) \in 0..Tricks
  BY <1>1, <1>2 DEF BoardOK, FieldsOK
<1>5. Size(board.winners) \in 1..(Tricks - 1) BY <1>3, <1>4, BoardAssumption
<1>6. BoardOK(Continued(board)) /\ AfterReview(board, Continued(board))
  BY <1>1, <1>2, <1>3, ContinuedOK
<1> QED BY <1>2, <1>4, <1>5, <1>6

\* Every method of the board keeps the invariant.
LEMMA BoardStep == BoardInv /\ [Next]_board => BoardInv'
<1> SUFFICES ASSUME BoardInv, [Next]_board PROVE BoardInv' OBVIOUS
<1>1. CASE UNCHANGED board BY <1>1 DEF BoardInv
<1>2. ASSUME NEW card \in Card, NEW declare \in BOOLEAN, Play(card, declare)
      PROVE  BoardInv'
  <2> DEFINE w == Size(board.winners)
             n == board'
  <2>1. /\ w \in 0..(Tricks - 2) /\ Size(board.trick) \in 0..3
        /\ BoardOK(n) /\ AfterCard(board, n)
    BY <1>2, PlayStep
  <2> HIDE DEF w, n
  <2>2. CASE Size(board.trick) < 3
    <3>1. /\ ~n.reviewing /\ n.winners = board.winners /\ ~Over(n)
          /\ Size(n.trick) = Size(board.trick) + 1
      BY <2>1, <2>2 DEF AfterCard
    <3>2. Size(n.trick) \in 0..3 BY <2>1, <2>2, <3>1
    <3>3. Size(n.winners) \in 0..(Tricks - 2) BY <2>1, <3>1 DEF w
    <3>4. Size(n.winners) # Tricks BY <3>3, BoardAssumption
    <3>5. RestOK(n) BY <3>1, <3>2, <3>3, <3>4 DEF RestOK
    <3> QED BY <2>1, <3>5 DEF BoardInv, n
  <2>3. CASE Size(board.trick) = 3
    <3>1. n.reviewing /\ (Over(n) <=> Size(n.winners) = Tricks)
      BY <2>1, <2>3 DEF AfterCard
    <3>2. RestOK(n) BY <3>1 DEF RestOK
    <3> QED BY <2>1, <3>2 DEF BoardInv, n
  <2> QED BY <2>1, <2>2, <2>3
<1>3. CASE ContinueAfterTrick
  <2> DEFINE w == Size(board.winners)
             n == board'
  <2>1. w \in 1..(Tricks - 1) /\ BoardOK(n) /\ AfterReview(board, n)
    BY <1>3, ContinueStep
  <2> HIDE DEF w, n
  <2>2. CASE w # Tricks - 1
    <3>1. ~n.reviewing /\ Size(n.trick) = 0 /\ n.winners = board.winners /\ ~Over(n)
      BY <2>1, <2>2 DEF AfterReview, w
    <3>2. Size(n.winners) = w BY <3>1 DEF w
    <3>3. Size(n.winners) \in 0..(Tricks - 2) /\ Size(n.winners) # Tricks
      BY <2>1, <2>2, <3>2, BoardAssumption
    <3>4. Size(n.trick) \in 0..3 BY <3>1
    <3>5. RestOK(n) BY <3>1, <3>3, <3>4 DEF RestOK
    <3> QED BY <2>1, <3>5 DEF BoardInv, n
  <2>3. CASE w = Tricks - 1
    <3>1. n.reviewing /\ Size(n.winners) = Tricks /\ Over(n)
      BY <2>1, <2>3 DEF AfterReview, w
    <3>2. RestOK(n) BY <3>1 DEF RestOK
    <3> QED BY <2>1, <3>2 DEF BoardInv, n
  <2> QED BY <2>2, <2>3
<1> QED BY <1>1, <1>2, <1>3 DEF Next

\* Whatever is played, the fields of a board, the turn, the sizes of the hands and the places
\* of the cards stay in step, and the round is over exactly when the last trick is won.
THEOREM BoardInvariance == Spec => []BoardInv
<1>1. Init => BoardInv BY NewBoardOK DEF Init, BoardInv
<1> QED BY <1>1, BoardStep, PTL DEF Spec

-----------------------------------------------------------------------------
(* No card is lost *)

\* A pile turned over has the same cards.
LEMMA ReverseKeepsCards ==
  ASSUME NEW S, NEW q \in Seq(S)
  PROVE  Reverse(q) \in Seq(S) /\ ToSet(Reverse(q)) = ToSet(q) /\ Size(Reverse(q)) = Size(q)
<1> DEFINE n == Len(q)
           r == Reverse(q)
<1>1. n \in Nat /\ \A i \in 1..n : n - i + 1 \in 1..n BY LenProperties
<1>2. r = [i \in 1..n |-> q[n - i + 1]] BY DEF Reverse
<1>3. DOMAIN q = 1..n /\ \A i \in 1..n : q[i] \in S BY LenProperties, ElementOfSeq
<1> HIDE DEF n, r
<1>4. \A i \in 1..n : r[i] = q[n - i + 1] /\ r[i] \in S BY <1>1, <1>2, <1>3
<1>5. r \in [1..n -> S] BY <1>2, <1>4
<1>6. r \in Seq(S) /\ Len(r) = n BY <1>1, <1>5
<1>7. DOMAIN r = 1..n BY <1>2
<1>8. ToSet(r) \subseteq ToSet(q) BY <1>1, <1>3, <1>4, <1>7 DEF ToSet
<1>9. ToSet(q) \subseteq ToSet(r)
  <2>1. ASSUME NEW i \in 1..n PROVE q[i] \in ToSet(r)
    <3>1. n - i + 1 \in 1..n BY <1>1
    <3>2. n - (n - i + 1) + 1 = i BY <1>1
    <3>3. r[n - i + 1] = q[i] BY <1>4, <3>1, <3>2
    <3> QED BY <1>7, <3>1, <3>3 DEF ToSet
  <2> QED BY <1>3, <2>1 DEF ToSet
<1> QED BY <1>6, <1>8, <1>9 DEF n, r, Size

\* Once the round is over every card is in one pile.
LEMMA AllCardsWon ==
  ASSUME BoardInv, Over(board)
  PROVE  /\ PileCards(board, 0) \cup PileCards(board, 1) = Card
         /\ Size(board.piles[0]) + Size(board.piles[1]) = 4 * Tricks
<1>1. Size(board.winners) = Tricks /\ board.reviewing
  BY DEF BoardInv, RestOK, BoardOK, FieldsOK
<1>2. ASSUME NEW s \in Position PROVE board.hands[s] = {}
  <2>1. ~HasPlayed(board, s) BY <1>1 DEF HasPlayed
  <2>2. Cardinality(board.hands[s]) = Tricks - Size(board.winners) - 0
    BY <2>1 DEF BoardInv, BoardOK, SizesOK
  <2>3. Cardinality(board.hands[s]) = 0 BY <1>1, <2>2, BoardAssumption
  <2>4. board.hands[s] \subseteq Card BY DEF BoardInv, BoardOK, FieldsOK
  <2> QED BY <2>3, <2>4, CardIsFinite, FS_Subset, FS_EmptySet
<1>3. InHands(board) = {} BY <1>2 DEF InHands
<1>4. TrickOnTable(board) = {} BY <1>1 DEF TrickOnTable
<1> QED BY <1>1, <1>3, <1>4 DEF BoardInv, BoardOK, CardsOK

\* The deck gathered for the next deal has every card once, whoever deals.
LEMMA GatheredIsWhole ==
  ASSUME BoardInv, Over(board), NEW dealer \in Position
  PROVE  IsWholeDeck(GatheredDeck(board, dealer))
<1> DEFINE p == board.piles[0]
           q == board.piles[1]
<1>1. p \in Seq(Card) /\ q \in Seq(Card)
  BY DEF BoardInv, BoardOK, FieldsOK, Team
<1>2. ToSet(p) \cup ToSet(q) = Card /\ Size(p) + Size(q) = 4 * Tricks
  BY AllCardsWon DEF PileCards
<1>3. /\ Reverse(p) \in Seq(Card) /\ ToSet(Reverse(p)) = ToSet(p)
      /\ Size(Reverse(p)) = Size(p)
      /\ Reverse(q) \in Seq(Card) /\ ToSet(Reverse(q)) = ToSet(q)
      /\ Size(Reverse(q)) = Size(q)
  BY <1>1, ReverseKeepsCards
<1>4. \/ GatheredDeck(board, dealer) = Reverse(p) \o Reverse(q)
      \/ GatheredDeck(board, dealer) = Reverse(q) \o Reverse(p)
  <2>1. TeamOf(dealer) = 0 \/ TeamOf(dealer) = 1 BY DEF TeamOf, Position
  <2>2. Other(0) = 1 /\ Other(1) = 0 BY DEF Other
  <2> QED BY <2>1, <2>2 DEF GatheredDeck
<1> HIDE DEF p, q
<1>5. ASSUME NEW x \in Seq(Card), NEW y \in Seq(Card), ToSet(x) \cup ToSet(y) = Card,
             Size(x) + Size(y) = 4 * Tricks
      PROVE  IsWholeDeck(x \o y)
  <2>1. ToSet(x \o y) = Card BY <1>5, ToSetConcat
  <2>2. Size(x \o y) = 4 * Tricks BY <1>5, SizeOfConcat
  <2> QED BY <2>1, <2>2 DEF IsWholeDeck, Size
<1>6. IsWholeDeck(Reverse(p) \o Reverse(q)) BY <1>2, <1>3, <1>5
<1>7. Size(Reverse(q)) + Size(Reverse(p)) = 4 * Tricks
  BY <1>1, <1>2, <1>3, SizeOfSeq
<1>8. IsWholeDeck(Reverse(q) \o Reverse(p)) BY <1>2, <1>3, <1>5, <1>7
<1> QED BY <1>4, <1>6, <1>8

\* For every deal, contract and number of tricks, no card is lost or doubled: played one by
\* one or by the board itself, and gathered for the next deal (board.rs, gathered_deck).
THEOREM BoardConservesCards == Spec => []CardsAreConserved
<1>1. ASSUME BoardInv PROVE CardsAreConserved
  <2>1. FieldsOK(board) /\ SizesOK(board) /\ CardsOK(board) BY <1>1 DEF BoardInv, BoardOK
  <2>2. InHands(board) \cup TrickOnTable(board)
          \cup PileCards(board, 0) \cup PileCards(board, 1) = Card
    BY <2>1 DEF CardsOK
  <2>3. \A t \in Team : PileCards(board, t) \cap
          (InHands(board) \cup TrickOnTable(board) \cup PileCards(board, Other(t))) = {}
    BY <2>1 DEF CardsOK, Team, Other
  <2>4. ASSUME NEW s \in Position
        PROVE  Cardinality(board.hands[s]) =
                 Tricks - Len(board.winners)
                   - IF \E i \in DOMAIN board.trick :
                          board.trick[i].seat = s /\ ~board.reviewing
                     THEN 1 ELSE 0
    <3>1. DOMAIN board.trick = 1..Size(board.trick) BY <2>1, SizeOfSeq DEF FieldsOK
    <3>2. HasPlayed(board, s) <=> \E i \in DOMAIN board.trick :
                                    board.trick[i].seat = s /\ ~board.reviewing
      BY <3>1 DEF HasPlayed
    <3>3. Cardinality(board.hands[s]) = Tricks - Size(board.winners)
                                          - IF HasPlayed(board, s) THEN 1 ELSE 0
      BY <2>1 DEF SizesOK
    <3> QED BY <3>2, <3>3, Zenon DEF Size
  <2>5. Over(board) => \A dealer \in Position : IsWholeDeck(GatheredDeck(board, dealer))
    BY <1>1, GatheredIsWhole
  <2> QED BY <2>2, <2>3, <2>4, <2>5 DEF CardsAreConserved
<1> QED BY <1>1, BoardInvariance, PTL

-----------------------------------------------------------------------------
(* The board is the hand the table relies on *)

\* A new board is the hand the table gets when the contract is settled.
LEMMA StartsAsHand == Init => Promise!HandInit
<1> SUFFICES ASSUME Init PROVE Promise!HandInit OBVIOUS
<1>1. PICK hands \in Deals, contract \in Contracts, dealer \in Dealers,
           announcements \in BOOLEAN :
        board = NewBoard(hands, contract, dealer, announcements)
  BY DEF Init
<1>2. /\ board.result = NoResult /\ board.reviewing = FALSE /\ board.dealer = dealer
      /\ board.active = Following(dealer) /\ board.trick = <<>> /\ board.winners = <<>>
  BY <1>1 DEF NewBoard
<1>3. handView = [phase |-> "play", dealer |-> dealer, active |-> Following(dealer),
                  cards |-> 0, tricks |-> 0]
  BY <1>2 DEF handView, ViewOf, Over
<1>4. dealer \in Promise!Position BY BoardAssumption DEF Position, Promise!Position
<1> QED BY <1>3, <1>4 DEF Promise!HandInit, Promise!Board, Promise!Following, Following

\* The hand as the table knows it.
HandAt(phase, dealer, active, cards, tricks) ==
  [phase |-> phase, dealer |-> dealer, active |-> active, cards |-> cards, tricks |-> tricks]

\* What Hand says of one card, and of continuing.
LEMMA PlayedInHand ==
  ASSUME NEW d, NEW a, NEW c \in 0..3, NEW t, NEW w \in Position
  PROVE  LET h == HandAt("play", d, a, c, t)
         IN  /\ c < 3 => HandAt("play", d, Following(a), c + 1, t) \in Promise!Play(h, 1)
             /\ c = 3 => HandAt("review", d, w, 4, t + 1) \in Promise!Play(h, 1)
<1> DEFINE h == HandAt("play", d, a, c, t)
<1>1. [h EXCEPT !.active = Following(a), !.cards = c + 1]
        = HandAt("play", d, Following(a), c + 1, t)
  <2> DEFINE g == [h EXCEPT !.active = Following(a)]
  <2>1. g = HandAt("play", d, Following(a), c, t) BY DEF HandAt
  <2> HIDE DEF g
  <2>2. [g EXCEPT !.cards = c + 1] = HandAt("play", d, Following(a), c + 1, t)
    BY <2>1 DEF HandAt
  <2> QED BY <2>2 DEF g
<1>2. [h EXCEPT !.phase = "review", !.active = w, !.cards = 4, !.tricks = t + 1]
        = HandAt("review", d, w, 4, t + 1)
  <2> DEFINE f == [h EXCEPT !.phase = "review"]
             g == [f EXCEPT !.active = w]
             k == [g EXCEPT !.cards = 4]
  <2>1. f = HandAt("review", d, a, c, t) BY DEF HandAt
  <2> HIDE DEF f
  <2>2. g = HandAt("review", d, w, c, t) BY <2>1 DEF HandAt
  <2> HIDE DEF g
  <2>3. k = HandAt("review", d, w, 4, t) BY <2>2 DEF HandAt
  <2> HIDE DEF k
  <2>4. [k EXCEPT !.tricks = t + 1] = HandAt("review", d, w, 4, t + 1)
    BY <2>3 DEF HandAt
  <2> QED BY <2>4 DEF f, g, k
<1>3. h.active = a /\ h.cards = c /\ h.tricks = t BY DEF HandAt
<1> HIDE DEF h
<1>4. CASE c < 3
  <2>1. c + 1 # 4 /\ c # 3 BY <1>4
  <2>2. Promise!Play(h, 1) = {[h EXCEPT !.active = Following(a), !.cards = c + 1]}
    BY <1>3, <2>1 DEF Promise!Play, Following
  <2> QED BY <1>1, <2>1, <2>2 DEF h
<1>5. CASE c = 3
  <2>1. c + 1 = 4 /\ ~(c < 3) BY <1>5
  <2>2. Promise!Play(h, 1) =
          {[h EXCEPT !.phase = "review", !.active = winner, !.cards = 4, !.tricks = t + 1]
             : winner \in Promise!Position}
    BY <1>3, <2>1 DEF Promise!Play
  <2>3. w \in Promise!Position BY DEF Position, Promise!Position
  <2> QED BY <1>2, <2>1, <2>2, <2>3 DEF h
<1> QED BY <1>4, <1>5

\* Continuing after the trick before the last ends the round; after another, play goes on.
LEMMA ContinuedInHand ==
  ASSUME NEW d, NEW a, NEW t
  PROVE  LET h == HandAt("review", d, a, 4, t)
         IN  /\ t = Tricks - 1 => HandAt("over", d, a, 4, Tricks) = Promise!Continue(h)
             /\ t # Tricks - 1 => HandAt("play", d, a, 0, t) = Promise!Continue(h)
BY DEF HandAt, Promise!Continue

InPhase(b, phase, active) ==
  HandAt(phase, b.dealer, active, Size(b.trick), Size(b.winners))

\* What the table sees of a board, in each phase.
LEMMA ViewInPlay ==
  ASSUME NEW b, ~b.reviewing, ~Over(b)
  PROVE  ViewOf(b) = InPhase(b, "play", b.active)
BY DEF ViewOf, InPhase, HandAt, Size

\* While a trick is reviewed, its winner is the active seat.
LEMMA ViewInReview ==
  ASSUME NEW b, b.reviewing, ~Over(b)
  PROVE  ViewOf(b) = InPhase(b, "review", NextLeader(b))
BY DEF ViewOf, InPhase, HandAt, Size

\* Once the round is over, the turn is where the last trick left it.
LEMMA ViewWhenOver ==
  ASSUME NEW b, Over(b)
  PROVE  ViewOf(b) = InPhase(b, "over", b.active)
BY DEF ViewOf, InPhase, HandAt, Size

\* To the table, a card played is one card more in the hand.
LEMMA PlayIsPlay ==
  ASSUME BoardInv, NEW card, NEW declare, Play(card, declare)
  PROVE  Promise!HandNext
<1> DEFINE n == board'
           c == Size(board.trick)
           t == Size(board.winners)
<1>1. /\ ~board.reviewing /\ ~Over(board) /\ c \in 0..3 /\ t \in 0..(Tricks - 2)
      /\ BoardOK(n) /\ AfterCard(board, n)
  BY PlayStep
<1>2. handView = HandAt("play", board.dealer, board.active, c, t)
  BY <1>1, ViewInPlay DEF handView, InPhase
<1>3. handView' = ViewOf(n) BY DEF handView, ViewOf, Over, NextLeader
<1> HIDE DEF n, c, t
<1>4. /\ n.dealer = board.dealer /\ n.active = Following(board.active)
      /\ Size(n.trick) = c + 1
  BY <1>1 DEF AfterCard, c
<1>5. handView' \in Promise!Play(handView, 1)
  <2>1. CASE c < 3
    <3>1. ~n.reviewing /\ n.winners = board.winners /\ ~Over(n)
      BY <1>1, <2>1 DEF AfterCard, c
    <3>2. ViewOf(n) = HandAt("play", board.dealer, Following(board.active), c + 1, t)
      BY <1>4, <3>1, ViewInPlay DEF InPhase, t
    <3>3. 0 \in Position BY DEF Position
    <3> QED BY <1>1, <1>2, <1>3, <2>1, <3>2, <3>3, PlayedInHand
  <2>2. CASE c = 3
    <3>1. n.reviewing /\ Size(n.winners) = t + 1 /\ (Over(n) <=> Size(n.winners) = Tricks)
      BY <1>1, <2>2 DEF AfterCard, c, t
    <3>2. t + 1 # Tricks BY <1>1, BoardAssumption
    <3>3. ~Over(n) BY <3>1, <3>2
    <3>4. NextLeader(n) \in Position BY <1>1, <3>1, NextLeaderIsSeat
    <3>5. Size(n.trick) = 4 BY <1>4, <2>2
    <3>6. ViewOf(n) = HandAt("review", board.dealer, NextLeader(n), 4, t + 1)
      <4>1. ViewOf(n) = InPhase(n, "review", NextLeader(n))
        BY <3>1, <3>3, ViewInReview
      <4> QED BY <1>4, <3>1, <3>5, <4>1, Zenon DEF InPhase
    <3> QED BY <1>1, <1>2, <1>3, <2>2, <3>4, <3>6, PlayedInHand
  <2> QED BY <1>1, <2>1, <2>2
<1>6. handView.phase = "play" BY <1>2 DEF HandAt
<1> QED BY <1>5, <1>6 DEF Promise!HandNext

\* To the table, continuing is continuing the hand.
LEMMA ContinueIsContinue ==
  ASSUME BoardInv, ContinueAfterTrick
  PROVE  Promise!HandNext
<1> DEFINE n == board'
           t == Size(board.winners)
<1>1. /\ board.reviewing /\ ~Over(board) /\ Size(board.trick) = 4
      /\ BoardOK(n) /\ AfterReview(board, n)
  BY ContinueStep
<1>2. handView = HandAt("review", board.dealer, NextLeader(board), 4, t)
  <2>1. handView = InPhase(board, "review", NextLeader(board))
    BY <1>1, ViewInReview DEF handView
  <2> QED BY <1>1, <2>1, Zenon DEF InPhase
<1>3. handView' = ViewOf(n) BY DEF handView, ViewOf, Over, NextLeader
<1> HIDE DEF n, t
<1>4. n.dealer = board.dealer /\ n.active = NextLeader(board) BY <1>1 DEF AfterReview
<1>5. handView' = Promise!Continue(handView)
  <2>1. CASE t # Tricks - 1
    <3>1. ~n.reviewing /\ Size(n.trick) = 0 /\ n.winners = board.winners /\ ~Over(n)
      BY <1>1, <2>1 DEF AfterReview, t
    <3>2. ViewOf(n) = HandAt("play", board.dealer, NextLeader(board), 0, t)
      BY <1>4, <3>1, ViewInPlay DEF InPhase, t
    <3> QED BY <1>2, <1>3, <2>1, <3>2, ContinuedInHand
  <2>2. CASE t = Tricks - 1
    <3>1. Size(n.trick) = 4 /\ Size(n.winners) = Tricks /\ Over(n)
      BY <1>1, <2>2 DEF AfterReview, t
    <3>2. ViewOf(n) = HandAt("over", board.dealer, NextLeader(board), 4, Tricks)
      BY <1>4, <3>1, ViewWhenOver DEF InPhase
    <3> QED BY <1>2, <1>3, <2>2, <3>2, ContinuedInHand
  <2> QED BY <2>1, <2>2
<1>6. handView.phase = "review" BY <1>2 DEF HandAt
<1> QED BY <1>5, <1>6 DEF Promise!HandNext

\* For every deal and contract, the table sees its hand move on as HandPromise says: the turn
\* passes, the winner leads, the last trick plays itself and the round ends after it.
THEOREM BoardImplementsHand == Spec => ImplementsHand
<1>1. BoardInv /\ [Next]_board => [Promise!HandNext]_handView
  <2> SUFFICES ASSUME BoardInv, [Next]_board PROVE [Promise!HandNext]_handView OBVIOUS
  <2>1. CASE UNCHANGED board BY <2>1 DEF handView, ViewOf, Over, NextLeader
  <2>2. ASSUME NEW card \in Card, NEW declare \in BOOLEAN, Play(card, declare)
        PROVE  Promise!HandNext
    BY <2>2, PlayIsPlay
  <2>3. CASE ContinueAfterTrick BY <2>3, ContinueIsContinue
  <2> QED BY <2>1, <2>2, <2>3 DEF Next
<1> QED BY <1>1, StartsAsHand, BoardInvariance, PTL
        DEF Spec, ImplementsHand, Promise!HandSpec

-----------------------------------------------------------------------------
(* Sums over a set: MapThenSumSet takes the elements in the order CHOOSE gives them *)

Chosen(s) == CHOOSE x \in s : TRUE

\* g gives each subset of U the sum of f over it, one chosen element after the other.
IsSum(g, f, U) ==
  g = [s \in SUBSET U |-> IF s = {} THEN 0 ELSE f[Chosen(s)] + g[s \ {Chosen(s)}]]

\* One of the elements is chosen.
LEMMA ChosenIsIn == ASSUME NEW s, s # {} PROVE Chosen(s) \in s
BY DEF Chosen

\* A set of numbers that is not empty has a smallest.
LEMMA Smallest ==
  ASSUME NEW S \in SUBSET Nat, S # {}
  PROVE  \E n \in S : \A m \in S : n <= m
<1>1. IsWellFoundedOn(OpToRel(<, Nat), Nat) BY NatLessThanWellFounded
<1>2. PICK n \in S : \A m \in S : ~(<<m, n>> \in OpToRel(<, Nat))
  BY <1>1, WFMin
<1>3. \A m \in S : ~(m < n) BY <1>2 DEF OpToRel
<1> QED BY <1>3

\* Without an element a finite set is smaller by one.
LEMMA Smaller ==
  ASSUME NEW U, IsFiniteSet(U), NEW s \in SUBSET U, NEW x \in s
  PROVE  /\ IsFiniteSet(s) /\ Cardinality(s) \in Nat
         /\ s \ {x} \in SUBSET U /\ Cardinality(s \ {x}) = Cardinality(s) - 1
         /\ Cardinality(s \ {x}) \in Nat
BY FS_Subset, FS_RemoveElement, FS_CardinalityType

\* There is such a function,
LEMMA SumExists ==
  ASSUME NEW U, IsFiniteSet(U), NEW f
  PROVE  \E g : IsSum(g, f, U)
<1> DEFINE Upto(g, n) ==
             /\ g = [s \in SUBSET U |-> g[s]]
             /\ \A s \in SUBSET U : Cardinality(s) <= n =>
                  g[s] = IF s = {} THEN 0 ELSE f[Chosen(s)] + g[s \ {Chosen(s)}]
           bad == {n \in Nat : ~ \E g : Upto(g, n)}
<1>1. bad = {}
  <2> SUFFICES ASSUME bad # {} PROVE FALSE OBVIOUS
  <2>1. bad \in SUBSET Nat OBVIOUS
  <2> HIDE DEF bad
  <2>2. PICK n \in bad : \A m \in bad : n <= m BY <2>1, Smallest
  <2>3. n \in Nat /\ ~ \E g : Upto(g, n) BY DEF bad
  <2>4. CASE n = 0
    <3> DEFINE g == [s \in SUBSET U |-> 0]
    <3>1. \A s \in SUBSET U : Cardinality(s) <= 0 => s = {}
      BY FS_Subset, FS_EmptySet, FS_CardinalityType
    <3>2. Upto(g, 0) BY <3>1
    <3> QED BY <2>3, <2>4, <3>2
  <2>5. CASE n # 0
    <3>1. n - 1 \in Nat /\ ~(n <= n - 1) BY <2>3, <2>5
    <3>2. n - 1 \notin bad BY <2>2, <3>1
    <3>3. \E g : Upto(g, n - 1) BY <3>1, <3>2 DEF bad
    <3>4. PICK g : Upto(g, n - 1) BY <3>3
    <3> DEFINE h == [s \in SUBSET U |->
                       IF s = {} THEN 0 ELSE f[Chosen(s)] + g[s \ {Chosen(s)}]]
    <3>5. ASSUME NEW s \in SUBSET U, Cardinality(s) <= n - 1 PROVE h[s] = g[s]
      BY <3>4, <3>5
    <3>6. ASSUME NEW s \in SUBSET U, Cardinality(s) <= n
          PROVE  h[s] = IF s = {} THEN 0 ELSE f[Chosen(s)] + h[s \ {Chosen(s)}]
      <4>1. CASE s = {} BY <4>1
      <4>2. CASE s # {}
        <5>1. Chosen(s) \in s BY <4>2, ChosenIsIn
        <5>2. s \ {Chosen(s)} \in SUBSET U /\ Cardinality(s \ {Chosen(s)}) <= n - 1
          BY <2>3, <3>6, <5>1, Smaller
        <5>3. h[s \ {Chosen(s)}] = g[s \ {Chosen(s)}] BY <3>5, <5>2
        <5> QED BY <4>2, <5>3
      <4> QED BY <4>1, <4>2
    <3>7. h = [s \in SUBSET U |-> h[s]] OBVIOUS
    <3> HIDE DEF h
    <3>8. Upto(h, n) BY <3>6, <3>7
    <3> QED BY <2>3, <3>8
  <2> QED BY <2>4, <2>5
<1>2. Cardinality(U) \in Nat BY FS_CardinalityType
<1>3. \E g : Upto(g, Cardinality(U)) BY <1>1, <1>2
<1>4. PICK g : Upto(g, Cardinality(U)) BY <1>3
<1>5. \A s \in SUBSET U : Cardinality(s) <= Cardinality(U) BY FS_Subset
<1>6. \A s \in SUBSET U : g[s] = IF s = {} THEN 0 ELSE f[Chosen(s)] + g[s \ {Chosen(s)}]
  BY <1>4, <1>5
<1>7. IsSum(g, f, U) BY <1>4, <1>6 DEF IsSum
<1> QED BY <1>7

\* and on a smaller set it is the same.
LEMMA SumsAgree ==
  ASSUME NEW U, IsFiniteSet(U), NEW S \in SUBSET U, NEW f, NEW g, NEW h,
         IsSum(g, f, U), IsSum(h, f, S)
  PROVE  g[S] = h[S]
<1> DEFINE bad == {n \in Nat : \E s \in SUBSET S : Cardinality(s) = n /\ g[s] # h[s]}
<1>1. bad = {}
  <2> SUFFICES ASSUME bad # {} PROVE FALSE OBVIOUS
  <2>1. bad \in SUBSET Nat OBVIOUS
  <2> HIDE DEF bad
  <2>2. PICK n \in bad : \A m \in bad : n <= m BY <2>1, Smallest
  <2>3. PICK s \in SUBSET S : Cardinality(s) = n /\ g[s] # h[s] BY DEF bad
  <2>4. s \in SUBSET U OBVIOUS
  <2>5. s # {} BY <2>3, <2>4 DEF IsSum
  <2> DEFINE t == s \ {Chosen(s)}
  <2>6. Chosen(s) \in s BY <2>5, ChosenIsIn
  <2>7. t \in SUBSET S /\ Cardinality(t) \in Nat /\ Cardinality(t) = n - 1
    BY <2>3, <2>4, <2>6, Smaller
  <2>8. n \in Nat BY <2>1
  <2>9. Cardinality(t) \notin bad BY <2>2, <2>7, <2>8
  <2>10. g[t] = h[t] BY <2>7, <2>9 DEF bad
  <2>11. g[s] = f[Chosen(s)] + g[t] BY <2>4, <2>5 DEF IsSum
  <2>12. h[s] = f[Chosen(s)] + h[t] BY <2>5 DEF IsSum
  <2> QED BY <2>3, <2>10, <2>11, <2>12
<1>2. Cardinality(S) \in Nat BY FS_Subset, FS_CardinalityType
<1> QED BY <1>1, <1>2

\* Sums of numbers are numbers,
LEMMA SumIsNumber ==
  ASSUME NEW U, IsFiniteSet(U), NEW f \in [U -> Nat], NEW g, IsSum(g, f, U)
  PROVE  \A s \in SUBSET U : g[s] \in Nat
<1> DEFINE bad == {n \in Nat : \E s \in SUBSET U : Cardinality(s) = n /\ g[s] \notin Nat}
<1>1. bad = {}
  <2> SUFFICES ASSUME bad # {} PROVE FALSE OBVIOUS
  <2>1. bad \in SUBSET Nat OBVIOUS
  <2> HIDE DEF bad
  <2>2. PICK n \in bad : \A m \in bad : n <= m BY <2>1, Smallest
  <2>3. PICK s \in SUBSET U : Cardinality(s) = n /\ g[s] \notin Nat BY DEF bad
  <2>4. s # {} BY <2>3 DEF IsSum
  <2> DEFINE t == s \ {Chosen(s)}
  <2>5. Chosen(s) \in s BY <2>4, ChosenIsIn
  <2>6. t \in SUBSET U /\ Cardinality(t) \in Nat /\ Cardinality(t) = n - 1
    BY <2>3, <2>5, Smaller
  <2>7. n \in Nat BY <2>1
  <2>8. Cardinality(t) \notin bad BY <2>2, <2>6, <2>7
  <2>9. g[t] \in Nat BY <2>6, <2>8 DEF bad
  <2>10. g[s] = f[Chosen(s)] + g[t] BY <2>4 DEF IsSum
  <2>11. f[Chosen(s)] \in Nat BY <2>5
  <2> QED BY <2>3, <2>9, <2>10, <2>11
<1>2. \A s \in SUBSET U : Cardinality(s) \in Nat BY FS_Subset, FS_CardinalityType
<1> QED BY <1>1, <1>2

\* and whichever element is taken first, the sum is the same.
LEMMA SumTakes ==
  ASSUME NEW U, IsFiniteSet(U), NEW f \in [U -> Nat], NEW g, IsSum(g, f, U)
  PROVE  \A s \in SUBSET U : \A x \in s : g[s] = f[x] + g[s \ {x}]
<1> DEFINE Fails(s) == \E x \in s : g[s] # f[x] + g[s \ {x}]
           bad == {n \in Nat : \E s \in SUBSET U : Cardinality(s) = n /\ Fails(s)}
<1>1. bad = {}
  <2> SUFFICES ASSUME bad # {} PROVE FALSE OBVIOUS
  <2>1. bad \in SUBSET Nat OBVIOUS
  <2> HIDE DEF bad
  <2>2. PICK n \in bad : \A m \in bad : n <= m BY <2>1, Smallest
  <2>3. PICK s \in SUBSET U : Cardinality(s) = n /\ Fails(s) BY DEF bad
  <2>4. PICK x \in s : g[s] # f[x] + g[s \ {x}] BY <2>3
  <2> HIDE DEF Fails
  <2> DEFINE y == Chosen(s)
             t == s \ {y}
             u == s \ {x}
  <2>5. y \in s BY ChosenIsIn
  <2>6. g[s] = f[y] + g[t] BY DEF IsSum
  <2>7. x # y BY <2>4, <2>6
  <2> HIDE DEF y
  <2>8. /\ t \in SUBSET U /\ Cardinality(t) \in Nat /\ Cardinality(t) = n - 1
        /\ u \in SUBSET U /\ Cardinality(u) \in Nat /\ Cardinality(u) = n - 1
    BY <2>3, <2>5, Smaller
  <2>9. n \in Nat BY <2>1
  <2>10. ~Fails(t) /\ ~Fails(u) BY <2>2, <2>8, <2>9 DEF bad
  <2>11. x \in t /\ y \in u BY <2>5, <2>7
  <2>12. g[t] = f[x] + g[t \ {x}] BY <2>10, <2>11 DEF Fails
  <2>13. g[u] = f[y] + g[u \ {y}] BY <2>10, <2>11 DEF Fails
  <2>14. t \ {x} = u \ {y} OBVIOUS
  <2>15. f[x] \in Nat /\ f[y] \in Nat BY <2>5
  <2>16. g[t \ {x}] \in Nat
    <3>1. t \ {x} \in SUBSET U OBVIOUS
    <3> QED BY <3>1, SumIsNumber
  <2>17. g[s] # f[x] + g[u] BY <2>4
  <2> DEFINE k == g[t \ {x}]
  <2>18. k \in Nat /\ g[t] = f[x] + k /\ g[u] = f[y] + k BY <2>12, <2>13, <2>14, <2>16
  <2>19. g[s] = f[y] + g[t] BY <2>6
  <2> HIDE DEF t, u, k
  <2>20. f[y] + (f[x] + k) = f[x] + (f[y] + k) BY <2>15, <2>18
  <2> QED BY <2>17, <2>18, <2>19, <2>20
<1>2. \A s \in SUBSET U : Cardinality(s) \in Nat BY FS_Subset, FS_CardinalityType
<1> HIDE DEF Fails
<1>3. \A s \in SUBSET U : ~Fails(s) BY <1>1, <1>2
<1> QED BY <1>3 DEF Fails

-----------------------------------------------------------------------------
(* The sums of the board *)

\* A card is worth something under every trump, or nothing.
LEMMA PointsAreNumbers ==
  ASSUME NEW trump, NEW c \in Card
  PROVE  Points(c, trump) \in Nat
<1>1. c.rank \in {"seven", "eight", "nine", "ten", "jack", "queen", "king", "ace"}
  BY RulesAssumption DEF Card, NaturalOrder
<1> QED BY <1>1 DEF Points, AllTrumpsPoints, NoTrumpsPoints, TrumpPoints, PlainPoints

\* What cards are worth together: nothing for none, and each one's points.
LEMMA PointsOfTakes ==
  ASSUME NEW trump
  PROVE  /\ PointsOf({}, trump) = 0
         /\ \A cards \in SUBSET Card : PointsOf(cards, trump) \in Nat
         /\ \A cards \in SUBSET Card : \A c \in cards :
              PointsOf(cards, trump) = Points(c, trump) + PointsOf(cards \ {c}, trump)
<1> DEFINE f == [c \in Card |-> Points(c, trump)]
<1>1. f \in [Card -> Nat] BY PointsAreNumbers
<1>2. PICK g : IsSum(g, f, Card) BY CardIsFinite, SumExists
<1>3. ASSUME NEW S \in SUBSET Card PROVE PointsOf(S, trump) = g[S]
  <2> DEFINE Unfolds(it) ==
               it = [s \in SUBSET S |-> IF s = {} THEN 0
                       ELSE Points(Chosen(s), trump) + it[s \ {Chosen(s)}]]
             h == CHOOSE it : Unfolds(it)
  <2>1. \A s \in SUBSET S : s # {} => Chosen(s) \in Card BY ChosenIsIn
  <2>2. IsFiniteSet(S) BY CardIsFinite, FS_Subset
  <2>3. PICK k : IsSum(k, f, S) BY <2>2, SumExists
  <2>4. Unfolds(k)
    <3>1. \A s \in SUBSET S : s # {} => f[Chosen(s)] = Points(Chosen(s), trump) BY <2>1
    <3> HIDE DEF f
    <3> QED BY <2>3, <3>1 DEF IsSum
  <2>5. Unfolds(h)
    <3> HIDE DEF Unfolds
    <3> QED BY <2>4
  <2>6. PointsOf(S, trump) = h[S]
    BY Zenon DEF PointsOf, MapThenSumSet, MapThenFoldSet, Chosen
  <2> HIDE DEF h
  <2>7. IsSum(h, f, S)
    <3>1. \A s \in SUBSET S : s # {} => f[Chosen(s)] = Points(Chosen(s), trump) BY <2>1
    <3> HIDE DEF f
    <3> QED BY <2>5, <3>1 DEF IsSum
  <2> HIDE DEF f
  <2> QED BY <1>2, <2>6, <2>7, CardIsFinite, SumsAgree
<1> HIDE DEF f
<1>4. PointsOf({}, trump) = 0 BY <1>2, <1>3 DEF IsSum
<1>5. \A cards \in SUBSET Card : PointsOf(cards, trump) \in Nat
  BY <1>1, <1>2, <1>3, CardIsFinite, SumIsNumber
<1>6. ASSUME NEW cards \in SUBSET Card, NEW c \in cards
      PROVE  PointsOf(cards, trump) = Points(c, trump) + PointsOf(cards \ {c}, trump)
  <2>1. g[cards] = f[c] + g[cards \ {c}] BY <1>1, <1>2, CardIsFinite, SumTakes
  <2>2. f[c] = Points(c, trump) BY DEF f
  <2>3. cards \ {c} \in SUBSET Card OBVIOUS
  <2> QED BY <1>3, <2>1, <2>2, <2>3
<1> QED BY <1>4, <1>5, <1>6

\* Four more cards are worth their points more.
LEMMA PointsOfTrick ==
  ASSUME NEW trump, NEW cards \in SUBSET Card, NEW trick,
         \A i \in 1..4 : trick[i].card \in Card \ cards,
         \A i, j \in 1..4 : i # j => trick[i].card # trick[j].card
  PROVE  /\ TrickPoints(trick, trump) \in Nat
         /\ PointsOf(cards \cup {trick[i].card : i \in 1..4}, trump)
              = PointsOf(cards, trump) + TrickPoints(trick, trump)
<1> DEFINE c(i) == trick[i].card
           p(i) == Points(c(i), trump)
           s1 == cards \cup {c(1)}
           s2 == s1 \cup {c(2)}
           s3 == s2 \cup {c(3)}
           s4 == s3 \cup {c(4)}
<1>1. c(1) \in Card \ cards /\ c(2) \in Card \ s1 /\ c(3) \in Card \ s2 /\ c(4) \in Card \ s3
  <2>1. 1 \in 1..4 /\ 2 \in 1..4 /\ 3 \in 1..4 /\ 4 \in 1..4 OBVIOUS
  <2> QED BY <2>1
<1>2. cards \cup {trick[i].card : i \in 1..4} = s4
  <2>1. 1..4 = {1, 2, 3, 4} OBVIOUS
  <2> QED BY <2>1
<1>3. p(1) \in Nat /\ p(2) \in Nat /\ p(3) \in Nat /\ p(4) \in Nat
  BY <1>1, PointsAreNumbers
<1>4. TrickPoints(trick, trump) = p(1) + p(2) + p(3) + p(4) BY DEF TrickPoints
<1>5. ASSUME NEW s \in SUBSET Card, NEW x \in Card \ s
      PROVE  PointsOf(s \cup {x}, trump) = Points(x, trump) + PointsOf(s, trump)
  <2>1. s \cup {x} \in SUBSET Card /\ x \in s \cup {x} /\ (s \cup {x}) \ {x} = s OBVIOUS
  <2> QED BY <2>1, PointsOfTakes
<1>6. PointsOf(cards, trump) \in Nat BY PointsOfTakes
<1>7. s1 \in SUBSET Card /\ s2 \in SUBSET Card /\ s3 \in SUBSET Card BY <1>1
<1> HIDE DEF s4
<1>8. PointsOf(s1, trump) = p(1) + PointsOf(cards, trump) BY <1>1, <1>5
<1> HIDE DEF s1
<1>9. PointsOf(s2, trump) = p(2) + PointsOf(s1, trump) BY <1>1, <1>5, <1>7
<1> HIDE DEF s2
<1>10. PointsOf(s3, trump) = p(3) + PointsOf(s2, trump) BY <1>1, <1>5, <1>7
<1> HIDE DEF s3
<1>11. PointsOf(s4, trump) = p(4) + PointsOf(s3, trump) BY <1>1, <1>5, <1>7 DEF s4
<1> HIDE DEF p, c
<1>12. PointsOf(s4, trump) = PointsOf(cards, trump) + TrickPoints(trick, trump)
  BY <1>3, <1>4, <1>6, <1>8, <1>9, <1>10, <1>11
<1>13. TrickPoints(trick, trump) \in Nat BY <1>3, <1>4
<1> QED BY <1>2, <1>12, <1>13

-----------------------------------------------------------------------------
(* Announcements *)

Announcement == [value : 1..200, length : 0..8, top : 0..7, suit : Suits \cup {NoSuit}]

\* There are finitely many announcements.
LEMMA AnnouncementIsFinite == IsFiniteSet(Announcement)
<1> DEFINE A == (1..200) \X (0..8)
           B == (0..7) \X (Suits \cup {NoSuit})
           f == [p \in A \X B |-> [value |-> p[1][1], length |-> p[1][2],
                                   top |-> p[2][1], suit |-> p[2][2]]]
<1>0. \A m, n \in Int : IsFiniteSet(m..n) BY FS_Interval
<1>1. IsFiniteSet(A)
  <2>1. 1 \in Int /\ 200 \in Int /\ 0 \in Int /\ 8 \in Int OBVIOUS
  <2>2. IsFiniteSet(1..200) /\ IsFiniteSet(0..8) BY <1>0, <2>1, Zenon
  <2> QED BY <2>2, FS_Product
<1>2. IsFiniteSet(B)
  <2>3. 0 \in Int /\ 7 \in Int OBVIOUS
  <2>1. IsFiniteSet(0..7) BY <1>0, <2>3, Zenon
  <2>2. IsFiniteSet(Suits \cup {NoSuit}) BY FS_AddElement, BoardAssumption
  <2> QED BY <2>1, <2>2, FS_Product
<1>3. IsFiniteSet(A \X B) BY <1>1, <1>2, FS_Product
<1>4. \A p \in A \X B : f[p] \in Announcement BY DEF Announcement
<1>5. ASSUME NEW a \in Announcement PROVE \E p \in A \X B : f[p] = a
  <2> DEFINE q == <<a.value, a.length>>
             r == <<a.top, a.suit>>
  <2>1. q \in A /\ r \in B BY DEF Announcement
  <2>2. <<q, r>> \in A \X B BY <2>1
  <2>3. f[<<q, r>>] = [value |-> a.value, length |-> a.length, top |-> a.top,
                       suit |-> a.suit]
    BY <2>2
  <2>4. a = [value |-> a.value, length |-> a.length, top |-> a.top, suit |-> a.suit]
    BY DEF Announcement
  <2> QED BY <2>2, <2>3, <2>4
<1>6. f \in [A \X B -> Announcement]
  <2>1. f = [p \in A \X B |-> f[p]] OBVIOUS
  <2> HIDE DEF f, A, B
  <2> QED BY <1>4, <2>1
<1>7. f \in Surjection(A \X B, Announcement) BY <1>5, <1>6 DEF Surjection
<1> QED BY <1>3, <1>7, FS_Surjection

\* What a hand finds are announcements.
LEMMA FindsAnnouncements ==
  ASSUME NEW hand \in SUBSET Card, NEW trump
  PROVE  Find(hand, trump) \in SUBSET Announcement
<1> DEFINE carres == CarreRanks(hand)
           left == {c \in hand : c.rank \notin carres}
<1>1. ASSUME NEW r \in carres
      PROVE  [value |-> CarreValue(r, trump), length |-> Cardinality(Suits),
              top |-> NaturalOrder[r], suit |-> NoSuit] \in Announcement
  <2>1. r \in {"jack", "nine", "ace", "ten", "king", "queen"}
    BY DEF CarreRanks, CarreValues
  <2>2. CarreValue(r, trump) \in 1..200
    BY <2>1 DEF CarreValue, CarreValues, NoTrumpsCarreValues
  <2>3. NaturalOrder[r] \in 0..7 BY <2>1 DEF NaturalOrder
  <2>4. Cardinality(Suits) \in 0..8
    BY BoardAssumption, FS_CardinalityType
  <2> QED BY <2>2, <2>3, <2>4 DEF Announcement
<1>2. ASSUME NEW s \in Suits, NEW run \in Runs(Heights(left, s))
      PROVE  [value |-> SequenceValue(Cardinality(run)), length |-> Cardinality(run),
              top |-> Max(run), suit |-> s] \in Announcement
  <2> DEFINE heights == Heights(left, s)
  <2>1. heights \subseteq 0..7
    <3>1. \A c \in Card : NaturalOrder[c.rank] \in 0..7
      BY RulesAssumption DEF Card, NaturalOrder
    <3> QED BY <3>1 DEF Heights, InSuit
  <2> HIDE DEF heights, left
  <2>2. PICK lo \in heights, hi \in heights : run = lo..hi BY DEF Runs, heights
  <2>3. Cardinality(run) >= 3 /\ run \subseteq heights BY DEF Runs, heights
  <2>4. lo \in 0..7 /\ hi \in 0..7 BY <2>1
  <2>5. Cardinality(run) = IF lo > hi THEN 0 ELSE hi - lo + 1 BY <2>2, <2>4, FS_Interval
  <2>6. Cardinality(run) \in 3..8 BY <2>3, <2>4, <2>5
  <2>7. SequenceValue(Cardinality(run)) \in 1..200 BY <2>6 DEF SequenceValue
  <2>8. hi \in run /\ \A y \in run : hi >= y BY <2>2, <2>3, <2>4, <2>5
  <2>9. Max(run) = CHOOSE x \in run : \A y \in run : x >= y BY Zenon DEF Max
  <2>10. Max(run) \in run BY <2>8, <2>9
  <2>11. Max(run) \in 0..7 BY <2>1, <2>3, <2>10
  <2> QED BY <2>6, <2>7, <2>11 DEF Announcement
<1>3. Find(hand, trump) =
        {[value |-> CarreValue(r, trump), length |-> Cardinality(Suits),
          top |-> NaturalOrder[r], suit |-> NoSuit] : r \in carres}
        \cup UNION {{[value |-> SequenceValue(Cardinality(run)), length |-> Cardinality(run),
                      top |-> Max(run), suit |-> s] : run \in Runs(Heights(left, s))}
                    : s \in Suits}
  BY DEF Find
<1> HIDE DEF carres, left
<1> QED BY <1>1, <1>2, <1>3

\* A seat's announcements are worth something, if it has any.
LEMMA WorthIsPositive ==
  ASSUME NEW found \in SUBSET Announcement
  PROVE  Worth(found) \in Nat /\ (found # {} => Worth(found) > 0)
<1> DEFINE f == [a \in found |-> a.value]
<1>1. f \in [found -> Nat] BY DEF Announcement
<1>2. IsFiniteSet(found) BY AnnouncementIsFinite, FS_Subset
<1>3. Worth(found) \in Nat /\ \A a \in found : \E k \in Nat : Worth(found) = a.value + k
  <2> DEFINE Unfolds(it) ==
               it = [s \in SUBSET found |-> IF s = {} THEN 0
                       ELSE Chosen(s).value + it[s \ {Chosen(s)}]]
             h == CHOOSE it : Unfolds(it)
  <2>1. \A s \in SUBSET found : s # {} => Chosen(s) \in found BY ChosenIsIn
  <2>2. PICK k : IsSum(k, f, found) BY <1>2, SumExists
  <2>3. \A s \in SUBSET found : s # {} => f[Chosen(s)] = Chosen(s).value BY <2>1
  <2>4. Unfolds(k)
    <3> HIDE DEF f
    <3> QED BY <2>2, <2>3 DEF IsSum
  <2>5. Unfolds(h)
    <3> HIDE DEF Unfolds
    <3> QED BY <2>4
  <2>6. Worth(found) = h[found]
    BY Zenon DEF Worth, MapThenSumSet, MapThenFoldSet, Chosen
  <2> HIDE DEF h
  <2>7. IsSum(h, f, found)
    <3> HIDE DEF f
    <3> QED BY <2>3, <2>5 DEF IsSum
  <2>8. \A a \in found : f[a] = a.value OBVIOUS
  <2> HIDE DEF f
  <2>9. \A s \in SUBSET found : h[s] \in Nat BY <1>1, <1>2, <2>7, SumIsNumber
  <2>10. \A a \in found : h[found] = f[a] + h[found \ {a}]
    BY <1>1, <1>2, <2>7, SumTakes
  <2>11. ASSUME NEW a \in found
         PROVE  \E m \in Nat : Worth(found) = a.value + m
    <3>1. found \ {a} \in SUBSET found OBVIOUS
    <3>2. h[found \ {a}] \in Nat BY <2>9, <3>1
    <3> QED BY <2>6, <2>8, <2>10, <3>2
  <2> QED BY <2>6, <2>9, <2>11
<1>4. ASSUME found # {} PROVE Worth(found) > 0
  <2>1. PICK a \in found : TRUE BY <1>4
  <2>2. a.value \in 1..200 BY DEF Announcement
  <2>3. PICK k \in Nat : Worth(found) = a.value + k BY <1>3
  <2> QED BY <2>2, <2>3
<1> QED BY <1>3, <1>4

\* A bounded set of numbers that is not empty has a largest.
LEMMA Largest ==
  ASSUME NEW k \in Nat, NEW S \in SUBSET (0..k), S # {}
  PROVE  \E n \in S : \A m \in S : m <= n
<1> DEFINE T == {k - n : n \in S}
<1>1. T \in SUBSET Nat OBVIOUS
<1>2. T # {} OBVIOUS
<1> HIDE DEF T
<1>3. PICK t \in T : \A u \in T : t <= u BY <1>1, <1>2, Smallest
<1>4. PICK n \in S : t = k - n BY DEF T
<1>5. ASSUME NEW m \in S PROVE m <= n
  <2>1. k - m \in T BY DEF T
  <2>2. k - n <= k - m BY <1>3, <1>4, <2>1
  <2>3. m \in 0..k /\ n \in 0..k OBVIOUS
  <2> QED BY <2>2, <2>3
<1> QED BY <1>5

\* The order of announcements, as a number.
MaxRank == 50000
Weight(v, l, t, k) == 200 * v + 20 * l + 2 * t + k
Rank(a, trump) == Weight(a.value, a.length, a.top, TrumpLast(a, trump))

\* Comparing the value, the length, the top card and the trump suit
Above(v, l, t, k, w, m, u, n) ==
  \/ v > w
  \/ v = w /\ (l > m \/ (l = m /\ (t > u \/ (t = u /\ k > n))))

\* is comparing weights: what is above weighs more,
LEMMA AboveWeighsMore ==
  ASSUME NEW v \in Nat, NEW l \in 0..8, NEW t \in 0..7, NEW k \in 0..1,
         NEW w \in Nat, NEW m \in 0..8, NEW u \in 0..7, NEW n \in 0..1,
         Above(v, l, t, k, w, m, u, n)
  PROVE  Weight(v, l, t, k) > Weight(w, m, u, n)
BY DEF Above, Weight

\* and what weighs more is above.
LEMMA HeavierIsAbove ==
  ASSUME NEW v \in Nat, NEW l \in 0..8, NEW t \in 0..7, NEW k \in 0..1,
         NEW w \in Nat, NEW m \in 0..8, NEW u \in 0..7, NEW n \in 0..1,
         Weight(v, l, t, k) > Weight(w, m, u, n)
  PROVE  Above(v, l, t, k, w, m, u, n)
<1>1. Weight(v, l, t, k) \in Int /\ Weight(w, m, u, n) \in Int BY DEF Weight
<1>2. CASE Above(w, m, u, n, v, l, t, k)
  <2>1. Weight(w, m, u, n) > Weight(v, l, t, k) BY <1>2, AboveWeighsMore
  <2> QED BY <1>1, <2>1
<1>3. CASE ~Above(w, m, u, n, v, l, t, k) /\ ~Above(v, l, t, k, w, m, u, n)
  <2>1. v = w /\ l = m /\ t = u /\ k = n BY <1>3 DEF Above
  <2> QED BY <1>1, <2>1
<1> QED BY <1>2, <1>3

\* A weight is a bounded number.
LEMMA WeightIsBounded ==
  ASSUME NEW v \in 0..200, NEW l \in 0..8, NEW t \in 0..7, NEW k \in 0..1
  PROVE  Weight(v, l, t, k) \in 0..MaxRank
<1>1. Weight(v, l, t, k) \in Nat BY DEF Weight
<1>2. Weight(v, l, t, k) <= MaxRank BY DEF Weight, MaxRank
<1>3. MaxRank \in Nat BY DEF MaxRank
<1> QED BY <1>1, <1>2, <1>3

\* Of two announcements the stronger ranks higher.
LEMMA StrongerRanksHigher ==
  ASSUME NEW trump, NEW a \in Announcement, NEW b \in Announcement
  PROVE  /\ Rank(a, trump) \in 0..MaxRank /\ MaxRank \in Nat
         /\ Stronger(a, b, trump) <=> Rank(a, trump) > Rank(b, trump)
<1>1. \A x \in Announcement :
        /\ x.value \in 0..200 /\ x.value \in Nat /\ x.length \in 0..8 /\ x.top \in 0..7
        /\ TrumpLast(x, trump) \in 0..1
  BY DEF Announcement, TrumpLast
<1>2. Rank(a, trump) \in 0..MaxRank BY <1>1, WeightIsBounded DEF Rank
<1> DEFINE above == Above(a.value, a.length, a.top, TrumpLast(a, trump),
                          b.value, b.length, b.top, TrumpLast(b, trump))
<1>3. Stronger(a, b, trump) <=> above BY DEF Stronger, Above
<1>4. above => Rank(a, trump) > Rank(b, trump) BY <1>1, AboveWeighsMore DEF Rank
<1>5. Rank(a, trump) > Rank(b, trump) => above BY <1>1, HeavierIsAbove DEF Rank
<1>6. MaxRank \in Nat BY DEF MaxRank
<1> QED BY <1>2, <1>3, <1>4, <1>5, <1>6

Declaration == [seat : Position, found : (SUBSET Announcement) \ {{}}]

\* The first of the declarations with the strongest announcement: no announcement is
\* stronger, and it is stronger than those declared before.
LEMMA FirstOfTheStrongest ==
  ASSUME NEW declared \in Seq(Declaration), Size(declared) >= 1, NEW trump
  PROVE  LET m == Min(Strongest(declared, trump))
         IN  /\ m \in DOMAIN declared
             /\ \E a \in declared[m].found : \A j \in DOMAIN declared :
                  \A b \in declared[j].found :
                    ~Stronger(b, a, trump) /\ (j < m => Stronger(a, b, trump))
<1> DEFINE D == DOMAIN declared
           R(a) == Rank(a, trump)
           S == Strongest(declared, trump)
           m == Min(S)
           ranks == {r \in 0..MaxRank : \E i \in D : \E a \in declared[i].found : r = R(a)}
<1>0. D = 1..Size(declared) /\ Size(declared) \in Nat BY SizeOfSeq
<1>1. \A i \in D : declared[i].found \subseteq Announcement /\ declared[i].found # {}
  <2>1. \A i \in D : declared[i] \in Declaration BY <1>0, SizeOfSeq
  <2> QED BY <2>1 DEF Declaration
<1>2. D \subseteq Nat /\ D # {} BY <1>0
<1>15. MaxRank \in Nat BY DEF MaxRank
<1>3. MaxRank \in Nat /\ \A a \in Announcement : R(a) \in 0..MaxRank
  BY <1>15, StrongerRanksHigher
<1>4. \A a, b \in Announcement : Stronger(a, b, trump) <=> R(a) > R(b)
  BY StrongerRanksHigher
<1> HIDE DEF R, D
<1>5. \E r \in ranks : \A q \in ranks : q <= r
  <2>1. ranks # {} BY <1>1, <1>2, <1>3
  <2>2. ranks \in SUBSET (0..MaxRank) OBVIOUS
  <2> HIDE DEF ranks
  <2> QED BY <1>3, <2>1, <2>2, Largest
<1>6. PICK r \in ranks : \A q \in ranks : q <= r BY <1>5
<1>7. PICK i \in D : \E a \in declared[i].found : r = R(a) OBVIOUS
<1>8. \A j \in D : \A b \in declared[j].found : b \in Announcement /\ R(b) \in ranks
  BY <1>1, <1>3
<1> HIDE DEF ranks
<1>9. ASSUME NEW j \in D, NEW a \in declared[j].found
      PROVE  (\A k \in D : \A b \in declared[k].found : ~Stronger(b, a, trump)) <=> R(a) = r
  <2>1. a \in Announcement /\ R(a) \in 0..MaxRank /\ R(a) <= r BY <1>3, <1>6, <1>8
  <2>2. r \in 0..MaxRank BY <1>3, <1>7, <1>8
  <2>3. ASSUME R(a) = r, NEW k \in D, NEW b \in declared[k].found
        PROVE  ~Stronger(b, a, trump)
    <3>1. b \in Announcement /\ R(b) \in 0..MaxRank /\ R(b) <= r BY <1>3, <1>6, <1>8
    <3> QED BY <1>4, <2>1, <2>2, <2>3, <3>1
  <2>4. ASSUME R(a) # r PROVE \E k \in D : \E b \in declared[k].found : Stronger(b, a, trump)
    <3>1. PICK b \in declared[i].found : r = R(b) BY <1>7
    <3>2. R(b) > R(a) BY <2>1, <2>2, <2>4, <3>1
    <3>3. Stronger(b, a, trump) BY <1>4, <1>8, <2>1, <3>2
    <3> QED BY <3>3
  <2> QED BY <2>3, <2>4
<1>10. S = {j \in D : \E a \in declared[j].found : R(a) = r}
  <2>1. S = {j \in D : \E a \in declared[j].found :
               \A k \in D : \A b \in declared[k].found : ~Stronger(b, a, trump)}
    BY DEF Strongest, D
  <2> HIDE DEF S
  <2> QED BY <1>9, <2>1
<1>11. m \in S /\ \A j \in S : m <= j
  <2>1. S \in SUBSET Nat /\ S # {} BY <1>2, <1>7, <1>10
  <2>2. m = CHOOSE x \in S : \A y \in S : x <= y BY Zenon DEF Min
  <2> HIDE DEF S, m
  <2>3. \E x \in S : \A y \in S : x <= y BY <2>1, Smallest
  <2> QED BY <2>2, <2>3
<1> HIDE DEF S, m
<1>12. PICK a \in declared[m].found : R(a) = r BY <1>10, <1>11
<1>13. m \in D /\ a \in Announcement /\ R(a) \in 0..MaxRank BY <1>3, <1>8, <1>10, <1>11
<1>14. ASSUME NEW j \in D, NEW b \in declared[j].found
       PROVE  ~Stronger(b, a, trump) /\ (j < m => Stronger(a, b, trump))
  <2>1. ~Stronger(b, a, trump) BY <1>9, <1>12, <1>13
  <2>2. ASSUME j < m PROVE Stronger(a, b, trump)
    <3>1. j \notin S BY <1>2, <1>11, <1>13, <2>2
    <3>2. R(b) # r BY <1>10, <3>1
    <3>3. b \in Announcement /\ R(b) \in 0..MaxRank /\ R(b) <= r BY <1>3, <1>6, <1>8
    <3> QED BY <1>4, <1>12, <1>13, <3>2, <3>3
  <2> QED BY <2>1, <2>2
<1> QED BY <1>13, <1>14 DEF m, S, D

-----------------------------------------------------------------------------
(* The winner of a trick *)

\* How high a card stands in a trick: trumps of a suit contract first, then the suit led.
Class(card, lead, trump) ==
  IF SuitContract(trump) /\ card.suit = trump THEN 2
  ELSE IF card.suit = lead THEN 1 ELSE 0

Higher(c, d, lead, trump) ==
  \/ Class(c, lead, trump) > Class(d, lead, trump)
  \/ Class(c, lead, trump) = Class(d, lead, trump)
       /\ Strength(c, trump) > Strength(d, trump)

\* A card has a strength, and no other of its suit has the same.
LEMMA StrengthTellsCards ==
  ASSUME NEW trump, NEW c \in Card, NEW d \in Card
  PROVE  /\ Strength(c, trump) \in Nat
         /\ c.suit = d.suit /\ Strength(c, trump) = Strength(d, trump) => c = d
<1> DEFINE eight == {"seven", "eight", "nine", "ten", "jack", "queen", "king", "ace"}
<1>1. c.rank \in eight /\ d.rank \in eight BY RulesAssumption DEF Card, NaturalOrder
<1>2. Strength(c, trump) \in Nat BY <1>1 DEF Strength, TrumpOrder, PlainOrder
<1>3. ASSUME c.suit = d.suit, Strength(c, trump) = Strength(d, trump)
      PROVE  c = d
  <2>1. c.rank = d.rank
    <3>1. CASE IsTrump(c.suit, trump)
      <4>1. TrumpOrder[c.rank] = TrumpOrder[d.rank] BY <1>3, <3>1 DEF Strength
      <4> QED BY <1>1, <4>1 DEF TrumpOrder
    <3>2. CASE ~IsTrump(c.suit, trump)
      <4>1. PlainOrder[c.rank] = PlainOrder[d.rank] BY <1>3, <3>2 DEF Strength
      <4> QED BY <1>1, <4>1 DEF PlainOrder
    <3> QED BY <3>1, <3>2
  <2> QED BY <1>3, <2>1 DEF Card
<1> QED BY <1>2, <1>3

\* A suit is not all trumps, nor no trumps.
LEMMA SuitsAreNoContracts ==
  ASSUME NEW trump, NEW s \in Suits
  PROVE  /\ s # "allTrumps" /\ s # "noTrumps"
         /\ SuitContract(trump) => (IsTrump(s, trump) <=> s = trump)
BY RulesAssumption DEF SuitContract, IsTrump

\* Against a card that can win, to beat it is to stand higher.
LEMMA BeatsIsHigher ==
  ASSUME NEW trump \in Trumps, NEW lead \in Suits, NEW c \in Card, NEW w \in Card,
         Class(w, lead, trump) # 0
  PROVE  Beats(c, w, lead, trump) <=> Higher(c, w, lead, trump)
<1>1. c.suit \in Suits /\ w.suit \in Suits BY DEF Card
<1>2. SuitContract(trump) => (IsTrump(c.suit, trump) <=> c.suit = trump)
  BY <1>1, SuitsAreNoContracts
<1>3. SuitContract(trump) => (IsTrump(w.suit, trump) <=> w.suit = trump)
  BY <1>1, SuitsAreNoContracts
<1>4. CASE c.suit = w.suit
  BY <1>4 DEF Beats, Higher, Class
<1>5. CASE c.suit # w.suit /\ SuitContract(trump)
  BY <1>2, <1>3, <1>5 DEF Beats, Higher, Class
<1>6. CASE c.suit # w.suit /\ ~SuitContract(trump)
  BY <1>6 DEF Beats, Higher, Class
<1> QED BY <1>4, <1>5, <1>6

\* Two cards neither of which stands higher, and that can win, are the same.
LEMMA HigherTellsCards ==
  ASSUME NEW trump, NEW lead, NEW c \in Card, NEW w \in Card, Class(w, lead, trump) # 0,
         c # w
  PROVE  /\ Higher(c, w, lead, trump) \/ Higher(w, c, lead, trump)
         /\ ~(Higher(c, w, lead, trump) /\ Higher(w, c, lead, trump))
         /\ Higher(c, w, lead, trump) => Class(c, lead, trump) # 0
<1>1. Strength(c, trump) \in Nat /\ Strength(w, trump) \in Nat BY StrengthTellsCards
<1>2. Class(c, lead, trump) \in 0..2 /\ Class(w, lead, trump) \in 0..2 BY DEF Class
<1>3. Class(c, lead, trump) = Class(w, lead, trump) => c.suit = w.suit BY DEF Class
<1>4. Class(c, lead, trump) = Class(w, lead, trump)
        => Strength(c, trump) # Strength(w, trump)
  BY <1>3, StrengthTellsCards
<1> QED BY <1>1, <1>2, <1>4 DEF Higher

\* Standing higher is transitive.
LEMMA HigherIsTransitive ==
  ASSUME NEW trump, NEW lead, NEW c \in Card, NEW d \in Card, NEW e \in Card,
         Higher(c, d, lead, trump), Higher(d, e, lead, trump)
  PROVE  Higher(c, e, lead, trump)
<1>1. \A x \in Card : Strength(x, trump) \in Nat /\ Class(x, lead, trump) \in 0..2
  BY StrengthTellsCards DEF Class
<1> QED BY <1>1 DEF Higher

\* A trick in play: some cards, each its own.
IsTrick(trick) ==
  /\ trick \in Seq(PlayedCard) /\ Size(trick) \in 1..4
  /\ \A i, j \in 1..Size(trick) : i # j => trick[i].card # trick[j].card

\* The winner among the first k cards stands higher than each of the others.
Tops(trick, trump, k, w) ==
  /\ w \in 1..k /\ w \in 1..Size(trick)
  /\ Class(trick[w].card, Lead(trick), trump) # 0
  /\ \A j \in 1..Size(trick) : j <= k /\ j # w =>
       Higher(trick[w].card, trick[j].card, Lead(trick), trump)

\* The cards of a trick are cards, and the first of them is led.
LEMMA TrickFacts ==
  ASSUME NEW trick, IsTrick(trick)
  PROVE  /\ Lead(trick) \in Suits /\ Size(trick) \in Nat
         /\ \A i \in 1..Size(trick) : trick[i].card \in Card /\ trick[i].seat \in Position
<1>1. \A i \in 1..Size(trick) : trick[i] \in PlayedCard BY SizeOfSeq DEF IsTrick
<1>2. 1 \in 1..Size(trick) /\ Size(trick) \in Nat BY DEF IsTrick
<1>3. \A i \in 1..Size(trick) : trick[i].card \in Card /\ trick[i].seat \in Position
  BY <1>1 DEF PlayedCard
<1> QED BY <1>2, <1>3 DEF Lead, Card

\* One more card against the winner so far gives the winner of one card more.
LEMMA WinningTops ==
  ASSUME NEW trick, IsTrick(trick), NEW trump \in Trumps, NEW k \in 1..3, NEW w,
         Tops(trick, trump, k, w)
  PROVE  Tops(trick, trump, k + 1, Winning(trick, trump, w, k + 1))
<1> DEFINE n == Size(trick)
           lead == Lead(trick)
           v == Winning(trick, trump, w, k + 1)
<1>1. /\ lead \in Suits /\ n \in Nat
      /\ \A i \in 1..n : trick[i].card \in Card
  BY TrickFacts
<1>2. \A i, j \in 1..n : i # j => trick[i].card # trick[j].card BY DEF IsTrick
<1>3. /\ w \in 1..k /\ w \in 1..n /\ Class(trick[w].card, lead, trump) # 0
      /\ \A j \in 1..n : j <= k /\ j # w => Higher(trick[w].card, trick[j].card, lead, trump)
  BY DEF Tops
<1>4. v = IF k + 1 <= n /\ Beats(trick[k + 1].card, trick[w].card, lead, trump)
          THEN k + 1 ELSE w
  BY DEF Winning, Size
<1> HIDE DEF v, lead, n
<1>5. CASE ~(k + 1 <= n)
  <2>1. v = w BY <1>4, <1>5
  <2>2. \A j \in 1..n : j <= k BY <1>1, <1>5
  <2>3. w \in 1..(k + 1) BY <1>3
  <2> QED BY <1>3, <2>1, <2>2, <2>3 DEF Tops, v, n, lead
<1>6. CASE k + 1 <= n
  <2> DEFINE c == trick[k + 1].card
             d == trick[w].card
  <2>1. k + 1 \in 1..n /\ w # k + 1 BY <1>1, <1>3, <1>6
  <2>2. c \in Card /\ d \in Card /\ c # d BY <1>1, <1>2, <1>3, <2>1
  <2>3. Beats(c, d, lead, trump) <=> Higher(c, d, lead, trump)
    BY <1>1, <1>3, <2>2, BeatsIsHigher
  <2>4. CASE Higher(c, d, lead, trump)
    <3>1. v = k + 1 BY <1>4, <1>6, <2>3, <2>4
    <3>2. Class(c, lead, trump) # 0 BY <1>3, <2>2, <2>4, HigherTellsCards
    <3>3. ASSUME NEW j \in 1..n, j <= k + 1, j # k + 1
          PROVE  Higher(c, trick[j].card, lead, trump)
      <4>1. CASE j = w BY <2>4, <4>1
      <4>2. CASE j # w
        <5>1. j <= k BY <1>1, <3>3
        <5>2. Higher(d, trick[j].card, lead, trump) BY <1>3, <4>2, <5>1
        <5>3. trick[j].card \in Card BY <1>1
        <5> QED BY <2>2, <2>4, <5>2, <5>3, HigherIsTransitive
      <4> QED BY <4>1, <4>2
    <3>4. k + 1 \in 1..(k + 1) OBVIOUS
    <3> QED BY <2>1, <3>1, <3>2, <3>3, <3>4 DEF Tops, v, n, lead
  <2>5. CASE ~Higher(c, d, lead, trump)
    <3>1. v = w BY <1>4, <2>3, <2>5
    <3>2. Higher(d, c, lead, trump) BY <1>3, <2>2, <2>5, HigherTellsCards
    <3>3. ASSUME NEW j \in 1..n, j <= k + 1, j # w
          PROVE  Higher(d, trick[j].card, lead, trump)
      <4>1. CASE j = k + 1 BY <3>2, <4>1
      <4>2. CASE j # k + 1
        <5>1. j <= k BY <1>1, <3>3, <4>2
        <5> QED BY <1>3, <3>3, <5>1
      <4> QED BY <4>1, <4>2
    <3>4. w \in 1..(k + 1) BY <1>3
    <3> QED BY <1>3, <3>1, <3>3, <3>4 DEF Tops, v, n, lead
  <2> QED BY <2>4, <2>5
<1> QED BY <1>5, <1>6

\* winning_index is the card of the trick that stands higher than every other.
LEMMA WinningIndexTops ==
  ASSUME NEW trick, IsTrick(trick), NEW trump \in Trumps
  PROVE  Tops(trick, trump, 4, WinningIndex(trick, trump))
<1> DEFINE w2 == Winning(trick, trump, 1, 2)
           w3 == Winning(trick, trump, w2, 3)
           w4 == Winning(trick, trump, w3, 4)
<1>1. Tops(trick, trump, 1, 1)
  <2>1. 1 \in 1..1 /\ 1 \in 1..Size(trick) BY DEF IsTrick
  <2>2. Class(trick[1].card, Lead(trick), trump) # 0 BY DEF Class, Lead
  <2>3. \A j \in 1..Size(trick) : ~(j <= 1 /\ j # 1) BY DEF IsTrick
  <2> QED BY <2>1, <2>2, <2>3 DEF Tops
<1>2. 1 + 1 = 2 /\ 2 + 1 = 3 /\ 3 + 1 = 4 /\ 1 \in 1..3 /\ 2 \in 1..3 /\ 3 \in 1..3 OBVIOUS
<1>3. Tops(trick, trump, 2, w2) BY <1>1, <1>2, WinningTops
<1> HIDE DEF w2
<1>4. Tops(trick, trump, 3, w3) BY <1>2, <1>3, WinningTops
<1> HIDE DEF w3
<1>5. Tops(trick, trump, 4, w4) BY <1>2, <1>4, WinningTops
<1> HIDE DEF w4
<1>6. WinningIndex(trick, trump) = w4 BY DEF WinningIndex, w2, w3, w4
<1> QED BY <1>5, <1>6

\* Of the cards of a trick only one stands higher than every other.
LEMMA OneTops ==
  ASSUME NEW trick, IsTrick(trick), NEW trump \in Trumps, NEW v, NEW w,
         Tops(trick, trump, 4, v), Tops(trick, trump, 4, w)
  PROVE  v = w
<1> SUFFICES ASSUME v # w PROVE FALSE OBVIOUS
<1> DEFINE lead == Lead(trick)
<1>1. /\ v \in 1..Size(trick) /\ w \in 1..Size(trick) /\ v <= 4 /\ w <= 4
      /\ Class(trick[w].card, lead, trump) # 0
  BY DEF Tops
<1>2. Higher(trick[v].card, trick[w].card, lead, trump) BY <1>1 DEF Tops
<1>3. Higher(trick[w].card, trick[v].card, lead, trump) BY <1>1 DEF Tops
<1>4. trick[v].card \in Card /\ trick[w].card \in Card BY <1>1, TrickFacts
<1>5. trick[v].card # trick[w].card BY <1>1 DEF IsTrick
<1> QED BY <1>1, <1>2, <1>3, <1>4, <1>5, HigherTellsCards

\* The winner is the strongest play of the rules.
LEMMA WinnerIsStrongest ==
  ASSUME NEW trick, IsTrick(trick), NEW trump \in Trumps
  PROVE  WinningIndex(trick, trump) = StrongestPlay(trick, trump)
<1> DEFINE w == WinningIndex(trick, trump)
           lead == Lead(trick)
           D == DOMAIN trick
           ruffs == {i \in D : SuitContract(trump) /\ trick[i].card.suit = trump}
           able == IF ruffs # {} THEN ruffs ELSE {i \in D : trick[i].card.suit = lead}
           Best(i) == i \in able /\ \A j \in able \ {i} :
                        Strength(trick[i].card, trump) > Strength(trick[j].card, trump)
<1>1. D = 1..Size(trick) /\ D \subseteq 1..4 BY SizeOfSeq DEF IsTrick
<1>2. Tops(trick, trump, 4, w) BY WinningIndexTops
<1> HIDE DEF w, D, lead
<1>3. /\ w \in D /\ Class(trick[w].card, lead, trump) # 0
      /\ \A j \in D \ {w} : Higher(trick[w].card, trick[j].card, lead, trump)
  BY <1>1, <1>2 DEF Tops, lead
<1>4. \A i \in D : trick[i].card \in Card BY <1>1, TrickFacts
<1>5. \A i \in D : Strength(trick[i].card, trump) \in Nat BY <1>4, StrengthTellsCards
<1>6. ASSUME ruffs # {} PROVE Best(w)
  <2>1. \A i \in D : i \in ruffs <=> Class(trick[i].card, lead, trump) = 2
    BY DEF Class
  <2>2. \A i \in D : Class(trick[i].card, lead, trump) \in 0..2 BY DEF Class
  <2>3. able = ruffs BY <1>6
  <2> HIDE DEF ruffs, able
  <2>4. PICK r \in D : r \in ruffs BY <1>6 DEF ruffs
  <2>5. Class(trick[w].card, lead, trump) = 2
    <3>1. CASE r = w BY <2>1, <2>4, <3>1
    <3>2. CASE r # w BY <1>3, <2>1, <2>2, <2>4, <3>2 DEF Higher
    <3> QED BY <3>1, <3>2
  <2>6. w \in able BY <1>3, <2>1, <2>3, <2>5
  <2>7. ASSUME NEW j \in able \ {w}
        PROVE  Strength(trick[w].card, trump) > Strength(trick[j].card, trump)
    <3>1. j \in D BY <2>3 DEF ruffs
    <3>2. Class(trick[j].card, lead, trump) = 2 BY <2>1, <2>3, <3>1
    <3>3. Higher(trick[w].card, trick[j].card, lead, trump) BY <1>3, <3>1
    <3> QED BY <2>5, <3>2, <3>3 DEF Higher
  <2> QED BY <2>6, <2>7
<1>7. ASSUME ruffs = {} PROVE Best(w)
  <2>1. able = {i \in D : trick[i].card.suit = lead} BY <1>7
  <2>2. \A i \in D : Class(trick[i].card, lead, trump) # 2 BY <1>7 DEF Class
  <2>3. \A i \in D : i \in able <=> Class(trick[i].card, lead, trump) = 1
    BY <2>1, <2>2 DEF Class
  <2>4. Class(trick[w].card, lead, trump) = 1 BY <1>3, <2>2 DEF Class
  <2> HIDE DEF ruffs, able
  <2>5. w \in able BY <1>3, <2>3, <2>4
  <2>6. ASSUME NEW j \in able \ {w}
        PROVE  Strength(trick[w].card, trump) > Strength(trick[j].card, trump)
    <3>1. j \in D BY <2>1
    <3>2. Class(trick[j].card, lead, trump) = 1 BY <2>3, <3>1
    <3>3. Higher(trick[w].card, trick[j].card, lead, trump) BY <1>3, <3>1
    <3> QED BY <2>4, <3>2, <3>3 DEF Higher
  <2> QED BY <2>5, <2>6
<1>8. Best(w) BY <1>6, <1>7
<1>9. ASSUME NEW i, Best(i) PROVE i = w
  <2> SUFFICES ASSUME i # w PROVE FALSE OBVIOUS
  <2>1. i \in able \ {w} /\ w \in able \ {i} BY <1>8, <1>9
  <2>2. /\ Strength(trick[i].card, trump) > Strength(trick[w].card, trump)
        /\ Strength(trick[w].card, trump) > Strength(trick[i].card, trump)
    BY <1>8, <1>9, <2>1
  <2>3. i \in D BY <1>9
  <2> QED BY <1>3, <1>5, <2>2, <2>3
<1>10. StrongestPlay(trick, trump) =
         CHOOSE i \in able : \A j \in able \ {i} :
           Strength(trick[i].card, trump) > Strength(trick[j].card, trump)
  BY DEF StrongestPlay, D, lead
<1> HIDE DEF able
<1>11. StrongestPlay(trick, trump) = w BY <1>8, <1>9, <1>10
<1> QED BY <1>11 DEF w

-----------------------------------------------------------------------------
(* The cards that may be played *)

\* A card would win a trick when it stands higher than its winner.
LEMMA WouldWinIsHigher ==
  ASSUME NEW trick, IsTrick(trick), Size(trick) \in 1..3, NEW trump \in Trumps,
         NEW seat \in Position, NEW card \in Card,
         \A i \in 1..Size(trick) : trick[i].card # card
  PROVE  WouldWin(trick, seat, card, trump) <=>
           Higher(card, trick[WinningIndex(trick, trump)].card, Lead(trick), trump)
<1> DEFINE n == Size(trick)
           p == [seat |-> seat, card |-> card]
           t == Append(trick, p)
           w == WinningIndex(trick, trump)
           v == WinningIndex(t, trump)
           lead == Lead(trick)
<1>1. p \in PlayedCard /\ trick \in Seq(PlayedCard) /\ n \in 1..3 BY DEF PlayedCard, IsTrick
<1>2. /\ t \in Seq(PlayedCard) /\ Size(t) = n + 1
      /\ \A i \in 1..n : t[i] = trick[i]
      /\ t[n + 1] = p
  BY <1>1, SizeOfAppend
<1>3. p.card = card OBVIOUS
<1> HIDE DEF t, p, v, w
<1>4. \A i \in 1..(n + 1) : i \in 1..n \/ i = n + 1 BY <1>1
<1>5. IsTrick(t)
  <2>1. \A i, j \in 1..n : i # j => trick[i].card # trick[j].card BY DEF IsTrick
  <2>2. Size(t) \in 1..4 BY <1>1, <1>2
  <2>3. ASSUME NEW i \in 1..(n + 1), NEW j \in 1..(n + 1), i # j
        PROVE  t[i].card # t[j].card
    <3>1. CASE i \in 1..n /\ j \in 1..n BY <1>2, <2>1, <2>3, <3>1
    <3>2. CASE i \in 1..n /\ j = n + 1 BY <1>2, <1>3, <3>2
    <3>3. CASE i = n + 1 /\ j \in 1..n BY <1>2, <1>3, <3>3
    <3> QED BY <1>4, <2>3, <3>1, <3>2, <3>3
  <2> QED BY <1>2, <2>2, <2>3 DEF IsTrick
<1>6. Lead(t) = lead BY <1>1, <1>2 DEF Lead
<1>7. Tops(trick, trump, 4, w) BY WinningIndexTops DEF w
<1>8. WouldWin(trick, seat, card, trump) <=> v = n + 1
  BY <1>5, WinnerIsStrongest DEF WouldWin, Size, t, p, v
<1>9. w \in 1..n /\ Class(trick[w].card, lead, trump) # 0 BY <1>7 DEF Tops
<1>10. \A i \in 1..n : i <= 4 BY <1>1
<1>11. ASSUME v = n + 1
       PROVE  Higher(card, trick[w].card, lead, trump)
  <2>1. Tops(t, trump, 4, n + 1) BY <1>5, <1>11, WinningIndexTops DEF v
  <2>2. w \in 1..Size(t) /\ w <= 4 /\ w # n + 1 BY <1>1, <1>2, <1>9
  <2>3. Higher(t[n + 1].card, t[w].card, Lead(t), trump) BY <2>1, <2>2 DEF Tops
  <2> QED BY <1>2, <1>3, <1>6, <1>9, <2>3
<1>12. ASSUME Higher(card, trick[w].card, lead, trump)
       PROVE  v = n + 1
  <2>1. trick[w].card \in Card /\ \A j \in 1..n : trick[j].card \in Card
    BY <1>9, TrickFacts
  <2>2. ASSUME NEW j \in 1..n PROVE Higher(card, trick[j].card, lead, trump)
    <3>1. CASE j = w BY <1>12, <3>1
    <3>2. CASE j # w
      <4>1. Higher(trick[w].card, trick[j].card, lead, trump)
        BY <1>7, <1>10, <3>2 DEF Tops
      <4> QED BY <1>12, <2>1, <4>1, HigherIsTransitive
    <3> QED BY <3>1, <3>2
  <2>3. Class(card, lead, trump) # 0
    <3>1. card # trick[w].card BY <1>9
    <3> QED BY <1>9, <1>12, <2>1, <3>1, HigherTellsCards
  <2>4. Tops(t, trump, 4, n + 1)
    <3>1. n + 1 \in 1..4 /\ n + 1 \in 1..Size(t) BY <1>1, <1>2
    <3>2. \A j \in 1..Size(t) : j # n + 1 =>
            Higher(t[n + 1].card, t[j].card, Lead(t), trump)
      BY <1>2, <1>3, <1>4, <1>6, <2>2
    <3>3. Class(t[n + 1].card, Lead(t), trump) # 0 BY <1>2, <1>3, <1>6, <2>3
    <3> QED BY <3>1, <3>2, <3>3 DEF Tops
  <2> QED BY <1>5, <2>4, OneTops, WinningIndexTops DEF v
<1>13. v = n + 1 <=> Higher(card, trick[w].card, lead, trump) BY <1>11, <1>12
<1> QED BY <1>8, <1>13 DEF w

\* Where a trump is asked for, the cards that overtake the winner are those that would win.
LEMMA PreferHigherIsWouldWin ==
  ASSUME NEW trick, IsTrick(trick), Size(trick) \in 1..3, NEW trump \in Trumps,
         NEW seat \in Position, NEW cards \in SUBSET Card,
         \A i \in 1..Size(trick) : trick[i].card \notin cards,
         \/ IsTrump(Lead(trick), trump) /\ \A c \in cards : c.suit = Lead(trick)
         \/ SuitContract(trump) /\ \A c \in cards : c.suit = trump
  PROVE  PreferHigher(cards, trick[WinningIndex(trick, trump)].card, trump) =
           {c \in cards : \/ WouldWin(trick, seat, c, trump)
                          \/ \A d \in cards : ~WouldWin(trick, seat, d, trump)}
<1> DEFINE w == WinningIndex(trick, trump)
           winner == trick[w].card
           lead == Lead(trick)
           higher == {c \in cards : \/ ~IsTrump(winner.suit, trump)
                                    \/ Strength(c, trump) > Strength(winner, trump)}
<1>1. \A c \in cards : WouldWin(trick, seat, c, trump) <=> Higher(c, winner, lead, trump)
  BY WouldWinIsHigher
<1>2. w \in 1..Size(trick) /\ Class(winner, lead, trump) # 0
  BY WinningIndexTops DEF Tops
<1>3. winner \in Card /\ lead \in Suits BY <1>2, TrickFacts
<1> HIDE DEF w, winner, lead
<1>4. \A c \in cards : c.suit \in Suits /\ winner.suit \in Suits BY <1>3 DEF Card
<1>5. ASSUME NEW c \in cards
      PROVE  (\/ ~IsTrump(winner.suit, trump)
              \/ Strength(c, trump) > Strength(winner, trump))
               <=> Higher(c, winner, lead, trump)
  <2>1. CASE SuitContract(trump) /\ c.suit = trump
    <3>1. IsTrump(winner.suit, trump) <=> winner.suit = trump
      BY <1>4, <2>1, SuitsAreNoContracts
    <3> QED BY <1>2, <2>1, <3>1 DEF Higher, Class
  <2>2. CASE IsTrump(lead, trump) /\ c.suit = lead /\ ~SuitContract(trump)
    <3>1. trump = "allTrumps" BY <1>3, <2>2 DEF IsTrump, SuitContract
    <3>2. winner.suit = lead BY <1>2, <2>2 DEF Class
    <3> QED BY <2>2, <3>1, <3>2 DEF Higher, Class, IsTrump
  <2>3. CASE IsTrump(lead, trump) /\ c.suit = lead /\ SuitContract(trump)
    <3>1. lead = trump BY <1>3, <2>3, SuitsAreNoContracts
    <3> QED BY <2>1, <2>3, <3>1
  <2> QED BY <2>1, <2>2, <2>3 DEF lead
<1>6. higher = {c \in cards : WouldWin(trick, seat, c, trump)} BY <1>1, <1>5
<1>7. PreferHigher(cards, winner, trump) = IF higher = {} THEN cards ELSE higher
  BY DEF PreferHigher
<1> HIDE DEF higher
<1>8. PreferHigher(cards, winner, trump) =
        {c \in cards : \/ WouldWin(trick, seat, c, trump)
                       \/ \A d \in cards : ~WouldWin(trick, seat, d, trump)}
  <2>1. CASE higher = {} BY <1>6, <1>7, <2>1
  <2>2. CASE higher # {} BY <1>6, <1>7, <2>2
  <2> QED BY <2>1, <2>2
<1> QED BY <1>8 DEF winner, w

\* No card is twice in a trick.
CardsDiffer(b) ==
  \A i, j \in 1..Size(b.trick) : i # j => b.trick[i].card # b.trick[j].card

\* The partner of the active seat is winning when the last but one card is.
LEMMA PartnerIsWinning ==
  ASSUME NEW b, BoardOK(b), Size(b.trick) \in 1..3, NEW w \in 1..Size(b.trick)
  PROVE  w + 1 = Size(b.trick) <=> Partners(b.trick[w].seat, b.active)
<1> DEFINE n == Size(b.trick)
           s == b.trick[w].seat
<1>1. s \in Position
  <2>1. b.trick \in Seq(PlayedCard) BY DEF BoardOK, FieldsOK
  <2>2. b.trick[w] \in PlayedCard BY <2>1, SizeOfSeq
  <2> QED BY <2>2 DEF PlayedCard
<1>2. b.active = (s + n - w + 1) % 4 BY DEF BoardOK, TurnOK
<1> HIDE DEF n, s
<1>3. n \in {1, 2, 3} /\ w \in {1, 2, 3} /\ w <= n BY DEF n
<1>4. s \in {0, 1, 2, 3} BY <1>1 DEF Position
<1>5. \/ n = w /\ s + n - w + 1 = s + 1
      \/ n = w + 1 /\ s + n - w + 1 = s + 2
      \/ n = w + 2 /\ s + n - w + 1 = s + 3
  BY <1>3, <1>4
<1>6. CASE n = w /\ s + n - w + 1 = s + 1
  <2>1. b.active = (s + 1) % 4 BY <1>2, <1>6
  <2>2. s % 2 # b.active % 2 BY <1>4, <2>1
  <2> QED BY <1>3, <1>6, <2>2 DEF Partners, n, s
<1>7. CASE n = w + 1 /\ s + n - w + 1 = s + 2
  <2>1. b.active = (s + 2) % 4 BY <1>2, <1>7
  <2>2. s % 2 = b.active % 2 BY <1>4, <2>1
  <2> QED BY <1>7, <2>2 DEF Partners, n, s
<1>8. CASE n = w + 2 /\ s + n - w + 1 = s + 3
  <2>1. b.active = (s + 3) % 4 BY <1>2, <1>8
  <2>2. s % 2 # b.active % 2 BY <1>4, <2>1
  <2> QED BY <1>3, <1>8, <2>2 DEF Partners, n, s
<1> QED BY <1>5, <1>6, <1>7, <1>8

\* The trick on the table is a trick, and none of its cards is in a hand.
LEMMA TrickOfBoard ==
  ASSUME NEW b, BoardOK(b), CardsDiffer(b), ~b.reviewing, Size(b.trick) >= 1
  PROVE  /\ IsTrick(b.trick)
         /\ \A s \in Position : \A i \in 1..Size(b.trick) : b.trick[i].card \notin b.hands[s]
<1>1. b.trick \in Seq(PlayedCard) /\ Size(b.trick) \in 0..4 BY DEF BoardOK, FieldsOK
<1>2. DOMAIN b.trick = 1..Size(b.trick) BY <1>1, SizeOfSeq
<1>3. \A i \in 1..Size(b.trick) : b.trick[i].card \in TrickOnTable(b)
  BY <1>2 DEF TrickOnTable
<1>4. \A s \in Position : b.hands[s] \subseteq InHands(b) BY DEF InHands
<1>5. InHands(b) \cap TrickOnTable(b) = {} BY DEF BoardOK, CardsOK
<1>6. Size(b.trick) \in 1..4 BY <1>1
<1> QED BY <1>1, <1>3, <1>4, <1>5, <1>6 DEF IsTrick, CardsDiffer

\* On a trick begun, the legal cards of a hand are those the rules allow, card by card.
LEMMA LegalIsMayPlay ==
  ASSUME NEW trick, IsTrick(trick), Size(trick) \in 1..3, NEW trump \in Trumps,
         NEW seat \in Position, NEW hand \in SUBSET Card,
         \A i \in 1..Size(trick) : trick[i].card \notin hand,
         WinningIndex(trick, trump) + 1 = Size(trick)
           <=> Partners(trick[WinningIndex(trick, trump)].seat, seat)
  PROVE  Legal(hand, trick, trump) = {c \in hand : MayPlay(c, hand, trick, seat, trump)}
<1> DEFINE w == WinningIndex(trick, trump)
           lead == Lead(trick)
           following == InSuit(hand, lead)
           trumps == TrumpsAmong(hand, trump)
           Wins(c) == WouldWin(trick, seat, c, trump)
           follows == \E c \in hand : c.suit = lead
           mustTrump == /\ ~follows /\ SuitContract(trump)
                        /\ \E c \in hand : c.suit = trump
                        /\ ~Partners(trick[w].seat, seat)
           suited == {c \in hand : /\ follows => c.suit = lead
                                   /\ mustTrump => c.suit = trump}
           mustWin == mustTrump \/ (follows /\ IsTrump(lead, trump))
<1>1. \A c : MayPlay(c, hand, trick, seat, trump) <=>
               /\ c \in suited
               /\ mustWin => (Wins(c) \/ \A d \in suited : ~Wins(d))
  BY WinnerIsStrongest DEF MayPlay
<1>2. trick # <<>> BY DEF IsTrick, Size
<1>3. following = {c \in hand : c.suit = lead} BY DEF InSuit
<1>4. trumps = {c \in hand : IsTrump(c.suit, trump)} BY DEF TrumpsAmong
<1>5. SuitContract(trump) => trumps = {c \in hand : c.suit = trump}
  BY <1>4, SuitsAreNoContracts DEF Card
<1>6. ASSUME NEW cards \in SUBSET hand,
             \/ IsTrump(lead, trump) /\ \A c \in cards : c.suit = lead
             \/ SuitContract(trump) /\ \A c \in cards : c.suit = trump
      PROVE  PreferHigher(cards, trick[w].card, trump) =
               {c \in cards : Wins(c) \/ \A d \in cards : ~Wins(d)}
  <2>1. cards \in SUBSET Card /\ \A i \in 1..Size(trick) : trick[i].card \notin cards
    OBVIOUS
  <2> QED BY <1>6, <2>1, PreferHigherIsWouldWin
<1> HIDE DEF lead, Wins
<1>7. CASE follows
  <2>1. following # {} /\ ~mustTrump /\ suited = following BY <1>3, <1>7
  <2>2. Legal(hand, trick, trump) =
          IF IsTrump(lead, trump) THEN PreferHigher(following, trick[w].card, trump)
          ELSE following
    BY <1>2, <2>1 DEF Legal, lead
  <2>3. mustWin <=> IsTrump(lead, trump) BY <1>7, <2>1
  <2> HIDE DEF suited, mustWin, mustTrump, follows, w
  <2>4. \A c : MayPlay(c, hand, trick, seat, trump) <=>
                 /\ c \in following
                 /\ IsTrump(lead, trump) => (Wins(c) \/ \A d \in following : ~Wins(d))
    BY <1>1, <2>1, <2>3
  <2>5. following \in SUBSET hand /\ \A c \in following : c.suit = lead BY <1>3
  <2> HIDE DEF following
  <2>6. CASE IsTrump(lead, trump)
    <3>1. PreferHigher(following, trick[w].card, trump) =
            {c \in following : Wins(c) \/ \A d \in following : ~Wins(d)}
      BY <1>6, <2>5, <2>6
    <3> QED BY <2>2, <2>4, <2>5, <2>6, <3>1
  <2>7. CASE ~IsTrump(lead, trump) BY <2>2, <2>4, <2>5, <2>7
  <2> QED BY <2>6, <2>7
<1>8. CASE ~follows
  <2>1. following = {} BY <1>3, <1>8
  <2>2. Legal(hand, trick, trump) =
          IF w + 1 = Size(trick) \/ ~SuitContract(trump) \/ trumps = {} THEN hand
          ELSE PreferHigher(trumps, trick[w].card, trump)
    BY <1>2, <2>1 DEF Legal, Size, lead
  <2>3. mustWin <=> mustTrump BY <1>8
  <2>4. mustTrump <=> ~(w + 1 = Size(trick) \/ ~SuitContract(trump) \/ trumps = {})
    BY <1>5, <1>8
  <2>5. suited = IF mustTrump THEN {c \in hand : c.suit = trump} ELSE hand BY <1>8
  <2> HIDE DEF suited, mustWin, mustTrump, follows, w, trumps
  <2>6. CASE mustTrump
    <3>1. suited = trumps /\ SuitContract(trump) BY <1>5, <2>4, <2>5, <2>6
    <3>2. trumps \in SUBSET hand /\ \A c \in trumps : c.suit = trump BY <1>5, <3>1
    <3>3. PreferHigher(trumps, trick[w].card, trump) =
            {c \in trumps : Wins(c) \/ \A d \in trumps : ~Wins(d)}
      BY <1>6, <3>1, <3>2
    <3> QED BY <1>1, <2>2, <2>3, <2>4, <2>6, <3>1, <3>2, <3>3
  <2>7. CASE ~mustTrump
    <3>1. suited = hand BY <2>5, <2>7
    <3> QED BY <1>1, <2>2, <2>3, <2>4, <2>7, <3>1
  <2> QED BY <2>6, <2>7
<1> QED BY <1>7, <1>8

\* The seat to play may play what the rules allow, and something.
LEMMA LegalOfBoard ==
  ASSUME NEW b, BoardOK(b), CardsDiffer(b), b.contract.trump \in Trumps, ~b.reviewing,
         Size(b.trick) \in 0..3, Size(b.winners) \in 0..(Tricks - 1)
  PROVE  /\ LegalCards(b, b.active) # {}
         /\ LegalCards(b, b.active) =
              {c \in b.hands[b.active] : b.trick = <<>> \/
                 MayPlay(c, b.hands[b.active], b.trick, b.active, b.contract.trump)}
<1> DEFINE seat == b.active
           hand == b.hands[seat]
           trump == b.contract.trump
<1>1. /\ seat \in Position /\ hand \in SUBSET Card /\ b.trick \in Seq(PlayedCard)
      /\ Size(b.winners) \in Nat
  BY DEF BoardOK, FieldsOK
<1>2. LegalCards(b, seat) = Legal(hand, b.trick, trump) BY DEF LegalCards
<1>3. hand # {}
  <2>1. ~HasPlayed(b, seat) BY ActiveHasNotPlayed
  <2>2. Cardinality(hand) = Tricks - Size(b.winners) - 0
    BY <1>1, <2>1 DEF BoardOK, SizesOK
  <2>3. Cardinality(hand) # 0 BY <1>1, <2>2, BoardAssumption
  <2> QED BY <2>3, FS_EmptySet
<1>4. CASE b.trick = <<>>
  <2>1. Legal(hand, b.trick, trump) = hand BY <1>4 DEF Legal
  <2> QED BY <1>2, <1>3, <1>4, <2>1
<1>5. CASE b.trick # <<>>
  <2>1. Size(b.trick) \in 1..3 BY <1>1, <1>5, EmptySeq DEF Size
  <2>2. /\ IsTrick(b.trick)
        /\ \A i \in 1..Size(b.trick) : b.trick[i].card \notin hand
    BY <1>1, <2>1, TrickOfBoard
  <2>3. WinningIndex(b.trick, trump) \in 1..Size(b.trick)
    BY <2>2, WinningIndexTops DEF Tops
  <2>4. WinningIndex(b.trick, trump) + 1 = Size(b.trick)
          <=> Partners(b.trick[WinningIndex(b.trick, trump)].seat, seat)
    BY <2>1, <2>3, PartnerIsWinning
  <2>5. Legal(hand, b.trick, trump) =
          {c \in hand : MayPlay(c, hand, b.trick, seat, trump)}
    BY <1>1, <2>1, <2>2, <2>4, LegalIsMayPlay
  <2>6. Legal(hand, b.trick, trump) # {} BY <1>3, LegalIsAmong
  <2> QED BY <1>2, <1>5, <2>5, <2>6
<1> QED BY <1>4, <1>5

\* A team is announced the worth of its seats' announcements that score.
LEMMA AnnouncedIsWorth ==
  ASSUME NEW revealed, IsFiniteSet(DOMAIN revealed), NEW team,
         \A i \in DOMAIN revealed : revealed[i].found \in SUBSET Announcement
  PROVE  /\ AnnouncedBy(revealed, team) \in Nat
         /\ (\A i \in DOMAIN revealed :
               ~(revealed[i].scored /\ TeamOf(revealed[i].seat) = team))
              => AnnouncedBy(revealed, team) = 0
         /\ \A i \in DOMAIN revealed :
              revealed[i].scored /\ TeamOf(revealed[i].seat) = team
                /\ revealed[i].found # {}
                => AnnouncedBy(revealed, team) > 0
<1> DEFINE U == {i \in DOMAIN revealed :
                   revealed[i].scored /\ TeamOf(revealed[i].seat) = team}
           f == [i \in U |-> Worth(revealed[i].found)]
           Unfolds(it) ==
             it = [s \in SUBSET U |-> IF s = {} THEN 0
                     ELSE Worth(revealed[Chosen(s)].found) + it[s \ {Chosen(s)}]]
           h == CHOOSE it : Unfolds(it)
<1>1. \A i \in U : /\ Worth(revealed[i].found) \in Nat
                   /\ revealed[i].found # {} => Worth(revealed[i].found) > 0
  BY WorthIsPositive
<1>2. f \in [U -> Nat] BY <1>1
<1>3. IsFiniteSet(U) BY FS_Subset
<1>4. \A s \in SUBSET U : s # {} => Chosen(s) \in U BY ChosenIsIn
<1>5. PICK k : IsSum(k, f, U) BY <1>3, SumExists
<1>6. \A s \in SUBSET U : s # {} => f[Chosen(s)] = Worth(revealed[Chosen(s)].found)
  BY <1>4
<1>7. \A i \in U : f[i] = Worth(revealed[i].found) OBVIOUS
<1>8. Unfolds(k)
  <2> HIDE DEF f, U
  <2> QED BY <1>5, <1>6 DEF IsSum
<1>9. Unfolds(h)
  <2> HIDE DEF Unfolds
  <2> QED BY <1>8
<1>10. AnnouncedBy(revealed, team) = h[U]
  BY Zenon DEF AnnouncedBy, MapThenSumSet, MapThenFoldSet, Chosen
<1>11. \A i \in DOMAIN revealed :
         revealed[i].scored /\ TeamOf(revealed[i].seat) = team <=> i \in U
  OBVIOUS
<1> HIDE DEF h, f, U
<1>12. IsSum(h, f, U) BY <1>6, <1>9 DEF IsSum
<1>13. \A s \in SUBSET U : h[s] \in Nat BY <1>2, <1>3, <1>12, SumIsNumber
<1>14. AnnouncedBy(revealed, team) \in Nat BY <1>10, <1>13
<1>15. ASSUME \A i \in DOMAIN revealed :
                ~(revealed[i].scored /\ TeamOf(revealed[i].seat) = team)
       PROVE  AnnouncedBy(revealed, team) = 0
  <2>1. U = {} BY <1>15 DEF U
  <2> QED BY <1>10, <1>12, <2>1 DEF IsSum
<1>16. ASSUME NEW i \in U, revealed[i].found # {}
       PROVE  AnnouncedBy(revealed, team) > 0
  <2>1. h[U] = f[i] + h[U \ {i}] BY <1>2, <1>3, <1>12, SumTakes
  <2>2. U \ {i} \in SUBSET U OBVIOUS
  <2>3. h[U \ {i}] \in Nat BY <1>13, <2>2
  <2>4. f[i] \in Nat /\ f[i] > 0 BY <1>1, <1>7, <1>16
  <2> QED BY <1>10, <2>1, <2>3, <2>4
<1> QED BY <1>11, <1>14, <1>15, <1>16

\* One team scores what it declared: it has an announcement no other beats, declared before
\* any as strong.
SettledAs(declared, revealed, announced, trump) ==
  LET scored == {i \in DOMAIN revealed : revealed[i].scored}
      beaten == DOMAIN revealed \ scored
  IN  /\ Len(revealed) = Len(declared)
      /\ revealed # <<>> =>
           \E i \in scored : \E a \in revealed[i].found :
             /\ \A j \in beaten : \A b \in revealed[j].found :
                  Stronger(a, b, trump) \/ (i < j /\ ~Stronger(b, a, trump))
             /\ announced[TeamOf(revealed[i].seat)] > 0
             /\ announced[1 - TeamOf(revealed[i].seat)] = 0
      /\ \A i \in scored, j \in beaten :
           TeamOf(revealed[i].seat) # TeamOf(revealed[j].seat)

\* Two seats are partners when they are of a team.
LEMMA PartnersAreATeam ==
  ASSUME NEW s \in Position, NEW t \in Position
  PROVE  /\ Partners(s, t) <=> TeamOf(s) = TeamOf(t)
         /\ TeamOf(s) \in Team /\ 1 - TeamOf(s) \in Team /\ 1 - TeamOf(s) # TeamOf(s)
BY DEF Partners, TeamOf, Position, Team

\* Once revealed, the announcements are settled.
LEMMA RevealedIsSettled ==
  ASSUME NEW b, b.declared \in Seq(Declaration), NEW announced,
         announced = [t \in Team |-> AnnouncedBy(Revealed(b), t)]
  PROVE  /\ \A t \in Team : AnnouncedBy(Revealed(b), t) \in Nat
         /\ SettledAs(b.declared, Revealed(b), announced, b.contract.trump)
<1> DEFINE q == b.declared
           r == Revealed(b)
           n == Size(q)
           D == DOMAIN q
           trump == b.contract.trump
<1>1. n \in Nat /\ D = 1..n /\ \A i \in D : q[i] \in Declaration BY SizeOfSeq
<1>2. \A i \in D : /\ q[i].seat \in Position /\ q[i].found \in SUBSET Announcement
                   /\ q[i].found # {}
  BY <1>1 DEF Declaration
<1>3. CASE q = <<>>
  <2>1. r = <<>> BY <1>3 DEF Revealed
  <2>2. DOMAIN r = {} /\ IsFiniteSet(DOMAIN r) BY <2>1, FS_EmptySet
  <2>3. \A t \in Team : AnnouncedBy(r, t) \in Nat BY <2>2, AnnouncedIsWorth
  <2> HIDE DEF r
  <2>4. SettledAs(q, r, announced, trump) BY <1>3, <2>1, <2>2 DEF SettledAs
  <2> QED BY <2>3, <2>4 DEF r
<1>4. CASE q # <<>>
  <2> DEFINE m == Min(Strongest(q, trump))
             best == q[m].seat
  <2>1. n >= 1 BY <1>1, <1>4, EmptySeq DEF Size
  <2>2. /\ m \in D
        /\ \E a \in q[m].found : \A j \in D : \A x \in q[j].found :
             ~Stronger(x, a, trump) /\ (j < m => Stronger(a, x, trump))
    BY <2>1, FirstOfTheStrongest
  <2>3. r = [i \in D |-> [seat |-> q[i].seat, found |-> q[i].found,
                          scored |-> Partners(q[i].seat, best)]]
    BY <1>4 DEF Revealed, BestSeat
  <2> HIDE DEF m, r
  <2>4. best \in Position /\ best = q[m].seat BY <1>2, <2>2
  <2> HIDE DEF best
  <2>5. DOMAIN r = D /\ \A i \in D : /\ r[i].seat = q[i].seat /\ r[i].found = q[i].found
                                     /\ r[i].scored <=> TeamOf(q[i].seat) = TeamOf(best)
    BY <1>2, <2>3, <2>4, PartnersAreATeam
  <2>6. IsFiniteSet(DOMAIN r)
    <3>1. \A k, l \in Int : IsFiniteSet(k..l) BY FS_Interval
    <3>2. 1 \in Int /\ n \in Int BY <1>1
    <3> QED BY <1>1, <2>5, <3>1, <3>2, Zenon
  <2>7. \A i \in DOMAIN r : r[i].found \in SUBSET Announcement BY <1>2, <2>5
  <2>8. \A t \in Team : AnnouncedBy(r, t) \in Nat BY <2>6, <2>7, AnnouncedIsWorth
  <2> DEFINE u == TeamOf(best)
  <2>9. u \in Team /\ 1 - u \in Team /\ 1 - u # u BY <2>4, PartnersAreATeam
  <2> HIDE DEF u
  <2>10. AnnouncedBy(r, u) > 0
    <3>1. r[m].scored /\ TeamOf(r[m].seat) = u /\ r[m].found # {} /\ m \in DOMAIN r
      BY <1>2, <2>2, <2>4, <2>5 DEF u
    <3> QED BY <2>6, <2>7, <3>1, AnnouncedIsWorth
  <2>11. AnnouncedBy(r, 1 - u) = 0
    <3>1. \A i \in DOMAIN r : ~(r[i].scored /\ TeamOf(r[i].seat) = 1 - u)
      BY <2>5, <2>9 DEF u
    <3> QED BY <2>6, <2>7, <3>1, AnnouncedIsWorth
  <2>12. announced[u] > 0 /\ announced[1 - u] = 0 BY <2>9, <2>10, <2>11 DEF r
  <2>13. Len(r) = Len(q)
    <3> DEFINE T == {r[i] : i \in D}
    <3>1. r \in [1..n -> T] BY <1>1, <2>3
    <3>2. Len(r) = n BY <1>1, <3>1
    <3> QED BY <3>2 DEF Size
  <2>14. PICK a \in q[m].found : \A j \in D : \A x \in q[j].found :
           ~Stronger(x, a, trump) /\ (j < m => Stronger(a, x, trump))
    BY <2>2
  <2>15. m \in DOMAIN r /\ r[m].scored /\ a \in r[m].found /\ TeamOf(r[m].seat) = u
    BY <2>2, <2>4, <2>5 DEF u
  <2>16. ASSUME NEW j \in DOMAIN r, ~r[j].scored, NEW x \in r[j].found
         PROVE  Stronger(a, x, trump) \/ (m < j /\ ~Stronger(x, a, trump))
    <3>1. j \in D /\ x \in q[j].found /\ j # m BY <2>5, <2>15, <2>16
    <3>2. j < m \/ m < j BY <1>1, <2>2, <3>1
    <3> QED BY <2>14, <3>1, <3>2
  <2>17. \A i, j \in DOMAIN r : r[i].scored /\ ~r[j].scored
           => TeamOf(r[i].seat) # TeamOf(r[j].seat)
    BY <2>5
  <2>18. SettledAs(q, r, announced, trump)
    BY <2>12, <2>13, <2>15, <2>16, <2>17 DEF SettledAs
  <2> QED BY <2>8, <2>18 DEF r
<1> QED BY <1>3, <1>4

-----------------------------------------------------------------------------
(* The invariant of a round: what is scored, kept and declared on the way *)

\* The winner of a trick under review is the seat of its winning card.
WonOK(b) == b.reviewing => NextLeader(b) = Winner(b)

IsTally(f) == DOMAIN f = Team /\ \A t \in Team : f[t] \in Nat

ScoreOK(b) ==
  /\ IsTally(b.score) /\ IsTally(b.points) /\ IsTally(b.der)
  /\ IsTally(b.bonus) /\ IsTally(b.announced)
  /\ \A t \in Team :
       /\ b.score[t] = b.points[t] + b.der[t] + b.bonus[t] + b.announced[t]
       /\ b.points[t] = PointsOf(PileCards(b, t), b.contract.trump)
  /\ b.der[0] + b.der[1] = IF Size(b.winners) = Tricks THEN 10 ELSE 0

\* How many of a pair have left the hand.
Out(hands, p) ==
  (IF [rank |-> "king", suit |-> p.suit] \in hands[p.seat] THEN 0 ELSE 1)
    + (IF [rank |-> "queen", suit |-> p.suit] \in hands[p.seat] THEN 0 ELSE 1)

PairsOf(belotes, t) == {p \in DOMAIN belotes : TeamOf(p.seat) = t /\ belotes[p] = 2}

BelotesOK(hands, belotes, bonus) ==
  /\ DOMAIN belotes \subseteq [seat : Position, suit : Suits]
  /\ \A p, q \in DOMAIN belotes : p.suit = q.suit => p = q
  /\ \A p \in DOMAIN belotes : belotes[p] = Out(hands, p)
  /\ \A t \in Team : bonus[t] = 20 * Cardinality(PairsOf(belotes, t))

BeloteOK(b) == BelotesOK(b.hands, b.belotes, b.bonus)

\* How many seats from the first to play.
Place(dealer, s) == (s - dealer + 3) % 4

\* Seats declare in turn, before the cards they play; then announcements are settled.
DeclaredOK(b) ==
  /\ b.declared \in Seq(Declaration)
  /\ \A i, j \in 1..Size(b.declared) : i < j =>
       Place(b.dealer, b.declared[i].seat) < Place(b.dealer, b.declared[j].seat)

DeclaringOK(b) ==
  /\ Place(b.dealer, b.active) = Size(b.trick) % 4
  /\ \A i \in 1..Size(b.declared) : Place(b.dealer, b.declared[i].seat) < Size(b.trick)
  /\ b.revealed = <<>>
  /\ \A t \in Team : b.announced[t] = 0

Settled(b) == SettledAs(b.declared, b.revealed, b.announced, b.contract.trump)

AnnounceOK(b) ==
  /\ DeclaredOK(b)
  /\ Size(b.winners) = 0 => DeclaringOK(b)
  /\ Size(b.winners) # 0 => Settled(b)

RoundOK(b) ==
  /\ b.contract \in Contract
  /\ CardsDiffer(b) /\ WonOK(b) /\ ScoreOK(b) /\ BeloteOK(b) /\ AnnounceOK(b)

\* The result is the score of the totals.
ResultOK(b) == Over(b) => b.result = Score(Totals(b), TeamOf(b.contract.declarer))

-----------------------------------------------------------------------------
(* The other fields, method by method *)

\* What no card played before the end of a trick changes.
SameRound(b, n) ==
  /\ n.contract = b.contract /\ n.points = b.points /\ n.der = b.der
  /\ n.revealed = b.revealed /\ n.announced = b.announced

\* What is paid for a card of a pair.
Paid(belotes, p) == IF belotes[p] = 1 THEN 20 ELSE 0

\* A King or Queen of a pair counts, and the second one scores.
Counted(b, n, s, c) ==
  LET p == Pair(s, c.suit)
      bonus == Paid(b.belotes, p)
  IN  IF c.rank \in {"king", "queen"} /\ p \in DOMAIN b.belotes
      THEN /\ n.belotes = [b.belotes EXCEPT ![p] = @ + 1]
           /\ n.score = [b.score EXCEPT ![TeamOf(s)] = @ + bonus]
           /\ n.bonus = [b.bonus EXCEPT ![TeamOf(s)] = @ + bonus]
      ELSE n.belotes = b.belotes /\ n.score = b.score /\ n.bonus = b.bonus

\* Declaring adds a declaration of what the whole hand has, or nothing.
Declares(b, n, s) ==
  LET found == Find(b.hands[s], b.contract.trump)
  IN  \/ n.declared = b.declared
      \/ /\ n.declared = Append(b.declared, [seat |-> s, found |-> found])
         /\ Cardinality(b.hands[s]) = Tricks /\ found # {}

\* register_belote counts the pair, and that is all.
LEMMA RegisterBeloteFields ==
  ASSUME NEW b, DOMAIN b = Fields, NEW s, NEW c
  PROVE  /\ SameRound(b, RegisterBelote(b, s, c)) /\ Counted(b, RegisterBelote(b, s, c), s, c)
         /\ RegisterBelote(b, s, c).declared = b.declared
BY DEF RegisterBelote, SameRound, Counted, Paid, Fields

\* Announcements are declared without a score.
LEMMA DeclareFields ==
  ASSUME NEW b, DOMAIN b = Fields, NEW s, NEW declare
  PROVE  LET n == Declare(b, s, declare)
         IN  /\ SameRound(b, n) /\ Declares(b, n, s)
             /\ n.belotes = b.belotes /\ n.score = b.score /\ n.bonus = b.bonus
<1> DEFINE found == Find(b.hands[s], b.contract.trump)
<1>1. Declare(b, s, declare) =
        IF b.announcements /\ declare /\ Cardinality(b.hands[s]) = Tricks /\ found # {}
        THEN [b EXCEPT !.declared = Append(@, [seat |-> s, found |-> found])]
        ELSE b
  BY DEF Declare
<1> HIDE DEF found
<1>2. SameRound(b, b) BY DEF SameRound
<1>3. CASE Declare(b, s, declare) = b BY <1>2, <1>3 DEF Declares
<1>4. CASE /\ Declare(b, s, declare) =
                [b EXCEPT !.declared = Append(@, [seat |-> s, found |-> found])]
           /\ Cardinality(b.hands[s]) = Tricks /\ found # {}
  <2> DEFINE e == [seat |-> s, found |-> found]
             n == [b EXCEPT !.declared = Append(@, e)]
  <2> HIDE DEF e
  <2>1. SameRound(b, n) BY DEF SameRound, Fields
  <2>2. /\ n.belotes = b.belotes /\ n.score = b.score /\ n.bonus = b.bonus
        /\ n.declared = Append(b.declared, e)
    BY DEF Fields
  <2> QED BY <1>4, <2>1, <2>2 DEF found, e, Declares
<1> QED BY <1>1, <1>3, <1>4 DEF found

\* A card put down moves a card.
LEMMA PutDownRound ==
  ASSUME NEW b, DOMAIN b = Fields, NEW s, NEW c
  PROVE  LET n == PutDown(b, s, c)
         IN  /\ SameRound(b, n) /\ n.belotes = b.belotes /\ n.score = b.score
             /\ n.bonus = b.bonus /\ n.declared = b.declared
BY DEF PutDown, SameRound, Fields

\* A trick won scores its points, and ten more if it is the last.
LEMMA WinTrickRound ==
  ASSUME NEW b, DOMAIN b = Fields
  PROVE  LET n == WinTrick(b)
             team == TeamOf(Winner(b))
             points == TrickPoints(b.trick, b.contract.trump)
             der == IF Size(b.winners) = Tricks - 1 THEN 10 ELSE 0
         IN  /\ n.contract = b.contract /\ n.belotes = b.belotes /\ n.bonus = b.bonus
             /\ n.declared = b.declared /\ n.revealed = b.revealed
             /\ n.announced = b.announced
             /\ n.score = [b.score EXCEPT ![team] = @ + points + der]
             /\ n.points = [b.points EXCEPT ![team] = @ + points]
             /\ n.der = [b.der EXCEPT ![team] = @ + der]
BY DEF WinTrick, Winner, Fields, Size

\* Announcements are revealed after the first trick, and score.
LEMMA RevealRound ==
  ASSUME NEW b, DOMAIN b = Fields
  PROVE  LET n == RevealAnnouncements(b)
             revealed == Revealed(b)
             announced == [t \in Team |-> AnnouncedBy(revealed, t)]
         IN  /\ n.contract = b.contract /\ n.belotes = b.belotes /\ n.bonus = b.bonus
             /\ n.points = b.points /\ n.der = b.der /\ n.declared = b.declared
             /\ Size(b.winners) # 1 => /\ n.revealed = b.revealed /\ n.score = b.score
                                       /\ n.announced = b.announced
             /\ Size(b.winners) = 1 => /\ n.revealed = revealed
                                       /\ n.announced = announced
                                       /\ n.score = [t \in Team |-> b.score[t] + announced[t]]
<1> DEFINE revealed == Revealed(b)
           announced == [t \in Team |-> AnnouncedBy(revealed, t)]
           score == [t \in Team |-> b.score[t] + announced[t]]
<1>1. RevealAnnouncements(b) =
        IF Size(b.winners) = 1
        THEN [b EXCEPT !.revealed = revealed, !.announced = announced, !.score = score]
        ELSE b
  BY DEF RevealAnnouncements, Size
<1> HIDE DEF revealed, announced, score
<1>2. CASE Size(b.winners) = 1
  BY <1>1, <1>2 DEF Fields, score, announced, revealed
<1>3. CASE Size(b.winners) # 1 BY <1>1, <1>3
<1> QED BY <1>2, <1>3 DEF score, announced, revealed

\* The result changes nothing else.
LEMMA CalculateRound ==
  ASSUME NEW b, DOMAIN b = Fields
  PROVE  LET n == CalculateRoundResult(b)
         IN  /\ SameRound(b, n) /\ n.belotes = b.belotes /\ n.score = b.score
             /\ n.bonus = b.bonus /\ n.declared = b.declared
             /\ Size(b.winners) = Tricks =>
                  n.result = Score(Totals(b), TeamOf(b.contract.declarer))
<1> DEFINE result == Score(Totals(b), TeamOf(b.contract.declarer))
<1>1. CalculateRoundResult(b) =
        IF Size(b.winners) = Tricks THEN [b EXCEPT !.result = result] ELSE b
  BY DEF CalculateRoundResult, Size
<1> HIDE DEF result
<1>2. CASE Size(b.winners) = Tricks BY <1>1, <1>2 DEF Fields, SameRound, result
<1>3. CASE Size(b.winners) # Tricks BY <1>1, <1>3 DEF SameRound
<1> QED BY <1>2, <1>3

\* A trick collected scores nothing.
LEMMA CollectedRound ==
  ASSUME NEW b, DOMAIN b = Fields
  PROVE  LET n == Collected(b)
         IN  /\ SameRound(b, n) /\ n.belotes = b.belotes /\ n.score = b.score
             /\ n.bonus = b.bonus /\ n.declared = b.declared
BY DEF Collected, SameRound, Fields

\* There are no more pairs than suits.
LEMMA FewPairs ==
  ASSUME NEW S \in SUBSET [seat : Position, suit : Suits],
         \A p, q \in S : p.suit = q.suit => p = q
  PROVE  IsFiniteSet(S) /\ Cardinality(S) \in 0..4
<1> DEFINE f == [p \in S |-> p.suit]
<1>1. f \in Injection(S, Suits)
  <2>1. f \in [S -> Suits] OBVIOUS
  <2>2. \A p, q \in S : f[p] = f[q] => p = q OBVIOUS
  <2> QED BY <2>1, <2>2 DEF Injection, IsInjective
<1>2. IsFiniteSet(S) /\ Cardinality(S) <= Cardinality(Suits)
  BY <1>1, BoardAssumption, FS_Injection
<1>3. Cardinality(S) \in Nat /\ Cardinality(Suits) \in Nat
  BY <1>2, BoardAssumption, FS_CardinalityType
<1> QED BY <1>2, <1>3, BoardAssumption

Without(hands, s, c) == [hands EXCEPT ![s] = @ \ {c}]

\* A card leaves its hand: of a pair, it is one more out; of other pairs, nothing changes.
LEMMA OneMoreOut ==
  ASSUME NEW hands \in [Position -> SUBSET Card], NEW s \in Position, NEW c \in hands[s],
         NEW p \in [seat : Position, suit : Suits]
  PROVE  LET n == Without(hands, s, c)
         IN  /\ c.rank \in {"king", "queen"} /\ p = Pair(s, c.suit)
                  => Out(n, p) = Out(hands, p) + 1 /\ Out(hands, p) \in 0..1
             /\ ~(c.rank \in {"king", "queen"} /\ p = Pair(s, c.suit))
                  => Out(n, p) = Out(hands, p)
<1> DEFINE n == Without(hands, s, c)
           k == [rank |-> "king", suit |-> p.suit]
           q == [rank |-> "queen", suit |-> p.suit]
           here == p.seat = s
<1>1. n[p.seat] = IF p.seat = s THEN hands[s] \ {c} ELSE hands[p.seat]
  BY DEF Without
<1>2. c \in Card /\ c = [rank |-> c.rank, suit |-> c.suit] BY DEF Card
<1>3. p = [seat |-> p.seat, suit |-> p.suit] OBVIOUS
<1>4. p = Pair(s, c.suit) <=> here /\ p.suit = c.suit BY <1>3 DEF Pair
<1>5. c = k <=> c.rank = "king" /\ c.suit = p.suit BY <1>2
<1>6. c = q <=> c.rank = "queen" /\ c.suit = p.suit BY <1>2
<1>7. k # q OBVIOUS
<1>8. k \in n[p.seat] <=> k \in hands[p.seat] /\ ~(here /\ c = k) BY <1>1
<1>9. q \in n[p.seat] <=> q \in hands[p.seat] /\ ~(here /\ c = q) BY <1>1
<1>10. Out(n, p) = (IF k \in n[p.seat] THEN 0 ELSE 1) + (IF q \in n[p.seat] THEN 0 ELSE 1)
  BY DEF Out
<1>11. Out(hands, p) = (IF k \in hands[p.seat] THEN 0 ELSE 1)
                         + (IF q \in hands[p.seat] THEN 0 ELSE 1)
  BY DEF Out
<1> HIDE DEF n, k, q
<1>12. CASE c.rank \in {"king", "queen"} /\ p = Pair(s, c.suit)
  <2>1. here /\ (c = k \/ c = q) BY <1>4, <1>5, <1>6, <1>12
  <2>2. CASE c = k
    <3>1. k \in hands[p.seat] /\ k \notin n[p.seat] BY <1>8, <2>1, <2>2
    <3>2. q \in n[p.seat] <=> q \in hands[p.seat] BY <1>7, <1>9, <2>2
    <3> QED BY <1>10, <1>11, <1>12, <3>1, <3>2 DEF n
  <2>3. CASE c = q
    <3>1. q \in hands[p.seat] /\ q \notin n[p.seat] BY <1>9, <2>1, <2>3
    <3>2. k \in n[p.seat] <=> k \in hands[p.seat] BY <1>7, <1>8, <2>3
    <3> QED BY <1>10, <1>11, <1>12, <3>1, <3>2 DEF n
  <2> QED BY <2>1, <2>2, <2>3
<1>13. CASE ~(c.rank \in {"king", "queen"} /\ p = Pair(s, c.suit))
  <2>1. ~(here /\ (c = k \/ c = q)) BY <1>4, <1>5, <1>6, <1>13
  <2>2. k \in n[p.seat] <=> k \in hands[p.seat] BY <1>8, <2>1
  <2>3. q \in n[p.seat] <=> q \in hands[p.seat] BY <1>9, <2>1
  <2> QED BY <1>10, <1>11, <1>13, <2>2, <2>3 DEF n
<1> QED BY <1>12, <1>13

\* The pairs keep step with the hands, and the bonus with the pairs, as a card is played.
LEMMA BelotesKept ==
  ASSUME NEW hands \in [Position -> SUBSET Card], NEW belotes, NEW bonus,
         BelotesOK(hands, belotes, bonus), IsTally(bonus),
         NEW s \in Position, NEW c \in hands[s],
         c.rank \in {"king", "queen"}, Pair(s, c.suit) \in DOMAIN belotes
  PROVE  LET p == Pair(s, c.suit)
         IN  BelotesOK(Without(hands, s, c), [belotes EXCEPT ![p] = @ + 1],
                       [bonus EXCEPT ![TeamOf(s)] = @ + Paid(belotes, p)])
<1> DEFINE p == Pair(s, c.suit)
           u == TeamOf(s)
           n == Without(hands, s, c)
           nb == [belotes EXCEPT ![p] = @ + 1]
           nbonus == [bonus EXCEPT ![u] = @ + Paid(belotes, p)]
<1>1. /\ DOMAIN belotes \in SUBSET [seat : Position, suit : Suits]
      /\ \A q, r \in DOMAIN belotes : q.suit = r.suit => q = r
      /\ \A q \in DOMAIN belotes : belotes[q] = Out(hands, q)
      /\ \A t \in Team : bonus[t] = 20 * Cardinality(PairsOf(belotes, t))
  BY DEF BelotesOK
<1>2. p \in DOMAIN belotes /\ p.seat = s BY DEF Pair
<1>12. \A q \in DOMAIN belotes :
         /\ q = p => Out(n, q) = Out(hands, q) + 1 /\ Out(hands, q) \in 0..1
         /\ q # p => Out(n, q) = Out(hands, q)
  <2> TAKE q \in DOMAIN belotes
  <2>1. q \in [seat : Position, suit : Suits] BY <1>1
  <2> QED BY <2>1, OneMoreOut
<1>3. Out(n, p) = belotes[p] + 1 /\ belotes[p] \in 0..1 BY <1>1, <1>2, <1>12
<1>4. \A q \in DOMAIN belotes : q # p => Out(n, q) = belotes[q] BY <1>1, <1>12
<1>5. DOMAIN nb = DOMAIN belotes OBVIOUS
<1>6. \A q \in DOMAIN belotes : nb[q] = IF q = p THEN belotes[p] + 1 ELSE belotes[q]
  OBVIOUS
<1>7. DOMAIN bonus = Team /\ u \in Team /\ \A t \in Team : bonus[t] \in Nat
  BY TeamOfSeat DEF IsTally
<1>8. \A t \in Team : nbonus[t] = IF t = u THEN bonus[u] + Paid(belotes, p) ELSE bonus[t]
  BY <1>7
<1> HIDE DEF p, n, nb, nbonus
<1>9. ASSUME NEW t \in Team PROVE nbonus[t] = 20 * Cardinality(PairsOf(nb, t))
  <2>1. IsFiniteSet(PairsOf(belotes, t)) /\ Cardinality(PairsOf(belotes, t)) \in Nat
    <3>1. PairsOf(belotes, t) \subseteq DOMAIN belotes BY DEF PairsOf
    <3>2. IsFiniteSet(DOMAIN belotes) BY <1>1, FewPairs
    <3> QED BY <3>1, <3>2, FS_Subset, FS_CardinalityType
  <2>2. CASE t = u /\ belotes[p] = 1
    <3>1. p \notin PairsOf(belotes, t) BY <2>2 DEF PairsOf
    <3>2. PairsOf(nb, t) = PairsOf(belotes, t) \cup {p}
      BY <1>2, <1>5, <1>6, <2>2 DEF PairsOf
    <3>3. Cardinality(PairsOf(nb, t)) = Cardinality(PairsOf(belotes, t)) + 1
      BY <2>1, <3>1, <3>2, FS_AddElement
    <3>4. nbonus[t] = bonus[t] + 20 BY <1>8, <2>2 DEF Paid
    <3>5. bonus[t] = 20 * Cardinality(PairsOf(belotes, t)) BY <1>1
    <3> HIDE DEF u
    <3> QED BY <2>1, <3>3, <3>4, <3>5
  <2>3. CASE ~(t = u /\ belotes[p] = 1)
    <3>1. PairsOf(nb, t) = PairsOf(belotes, t)
      <4>1. ASSUME NEW q \in DOMAIN belotes
            PROVE  TeamOf(q.seat) = t /\ nb[q] = 2
                     <=> TeamOf(q.seat) = t /\ belotes[q] = 2
        <5>1. CASE q # p BY <1>6, <5>1
        <5>2. CASE q = p BY <1>2, <1>3, <1>6, <2>3, <5>2
        <5> QED BY <5>1, <5>2
      <4> QED BY <1>5, <4>1 DEF PairsOf
    <3>2. nbonus[t] = bonus[t]
      <4>1. CASE t # u BY <1>8, <4>1
      <4>2. CASE t = u
        <5>1. Paid(belotes, p) = 0 BY <2>3, <4>2 DEF Paid
        <5>2. bonus[u] \in Nat BY <1>7
        <5> QED BY <1>8, <4>2, <5>1, <5>2
      <4> QED BY <4>1, <4>2
    <3> QED BY <1>1, <3>1, <3>2
  <2> QED BY <2>2, <2>3
<1>10. \A q \in DOMAIN nb : nb[q] = Out(n, q) BY <1>3, <1>4, <1>5, <1>6
<1>11. BelotesOK(n, nb, nbonus) BY <1>1, <1>5, <1>9, <1>10 DEF BelotesOK
<1> QED BY <1>11 DEF p, n, nb, nbonus

\* Another card leaves every pair as it was.
LEMMA BelotesStay ==
  ASSUME NEW hands \in [Position -> SUBSET Card], NEW belotes, NEW bonus,
         BelotesOK(hands, belotes, bonus), NEW s \in Position, NEW c \in hands[s],
         ~(c.rank \in {"king", "queen"} /\ Pair(s, c.suit) \in DOMAIN belotes)
  PROVE  BelotesOK(Without(hands, s, c), belotes, bonus)
<1> DEFINE n == Without(hands, s, c)
<1>1. \A p \in DOMAIN belotes : Out(n, p) = Out(hands, p)
  <2> TAKE p \in DOMAIN belotes
  <2>1. p \in [seat : Position, suit : Suits] BY DEF BelotesOK
  <2>2. ~(c.rank \in {"king", "queen"} /\ p = Pair(s, c.suit)) OBVIOUS
  <2> QED BY <2>1, <2>2, OneMoreOut
<1> QED BY <1>1 DEF BelotesOK

\* The board once the card is down, before a fourth one completes the trick.
Down(b, c, declare) ==
  PutDown(Declare(RegisterBelote(b, b.active, c), b.active, declare), b.active, c)

\* Its fields.
LEMMA DownFields ==
  ASSUME NEW b, BoardOK(b), ~b.reviewing, Size(b.trick) \in 0..3,
         NEW c \in b.hands[b.active], NEW declare
  PROVE  LET n == Down(b, c, declare)
             s == b.active
         IN  /\ BoardOK(n) /\ SameRound(b, n) /\ Counted(b, n, s, c) /\ Declares(b, n, s)
             /\ n.hands = Without(b.hands, s, c)
             /\ n.trick = Append(b.trick, [seat |-> s, card |-> c])
             /\ Size(n.trick) = Size(b.trick) + 1
             /\ n.active = Following(s) /\ n.winners = b.winners /\ n.piles = b.piles
             /\ n.dealer = b.dealer /\ ~n.reviewing /\ n.result = b.result
<1> DEFINE s == b.active
           r == RegisterBelote(b, s, c)
           d == Declare(r, s, declare)
           n == PutDown(d, s, c)
<1>1. /\ DOMAIN b = Fields /\ b.trick \in Seq(PlayedCard) /\ s \in Position /\ c \in Card
      /\ Size(b.trick) \in Nat
  BY DEF BoardOK, FieldsOK
<1>2. SameBoard(b, r) /\ SameResult(b, r) BY <1>1, RegisterBeloteSame
<1>3. SameBoard(r, d) /\ SameResult(r, d) BY <1>1, <1>2, DeclareSame DEF SameBoard
<1>4. SameRound(b, r) /\ Counted(b, r, s, c) /\ r.declared = b.declared
  BY <1>1, RegisterBeloteFields
<1> HIDE DEF r
<1>5. DOMAIN r = Fields /\ r.hands = b.hands /\ r.contract = b.contract
  BY <1>1, <1>2, <1>4 DEF SameBoard, SameRound
<1>6. /\ SameRound(r, d) /\ Declares(r, d, s)
      /\ d.belotes = r.belotes /\ d.score = r.score /\ d.bonus = r.bonus
  BY <1>5, DeclareFields
<1> HIDE DEF d
<1>7. SameBoard(b, d) /\ d.result = b.result
  BY <1>2, <1>3 DEF SameBoard, SameResult
<1>8. /\ DOMAIN d = Fields /\ d.active = s /\ d.hands = b.hands /\ d.trick = b.trick
      /\ d.winners = b.winners /\ d.dealer = b.dealer /\ d.piles = b.piles
      /\ ~d.reviewing
  BY <1>1, <1>7 DEF SameBoard
<1>9. BoardOK(n)
  <2>1. BoardOK(d) BY <1>7, SameBoardOK
  <2> QED BY <1>8, <2>1, PutDownOK
<1>10. /\ n.hands = Without(b.hands, s, c)
       /\ n.trick = Append(b.trick, [seat |-> s, card |-> c])
       /\ n.active = Following(s) /\ n.winners = b.winners /\ n.piles = b.piles
       /\ n.dealer = b.dealer /\ ~n.reviewing /\ n.result = b.result
  BY <1>7, <1>8, PutDownFields DEF Without
<1>11. /\ SameRound(d, n) /\ n.belotes = d.belotes /\ n.score = d.score
       /\ n.bonus = d.bonus /\ n.declared = d.declared
  BY <1>8, PutDownRound
<1>12. Down(b, c, declare) = n BY DEF Down, d, r
<1> HIDE DEF n
<1>13. SameRound(b, n) BY <1>4, <1>6, <1>11 DEF SameRound
<1>14. Size(n.trick) = Size(b.trick) + 1
  <2> DEFINE e == [seat |-> s, card |-> c]
  <2>1. e \in PlayedCard BY <1>1 DEF PlayedCard
  <2>2. n.trick = Append(b.trick, e) BY <1>10
  <2> HIDE DEF e
  <2> QED BY <1>1, <2>1, <2>2, SizeOfAppend
<1>15. Counted(b, n, s, c)
  <2>1. n.belotes = r.belotes /\ n.score = r.score /\ n.bonus = r.bonus BY <1>6, <1>11
  <2> QED BY <1>4, <2>1, Zenon DEF Counted
<1>16. Declares(b, n, s)
  <2>1. n.declared = d.declared BY <1>11
  <2> QED BY <1>4, <1>5, <1>6, <2>1, Zenon DEF Declares
<1> QED BY <1>9, <1>10, <1>12, <1>13, <1>14, <1>15, <1>16

\* The active seat plays in its turn.
LEMMA PlaceTurns ==
  ASSUME NEW d \in Position, NEW s \in Position, NEW k \in 0..3, Place(d, s) = k % 4
  PROVE  /\ Place(d, Following(s)) = (k + 1) % 4
         /\ Place(d, s) = k
<1>1. k \in {0, 1, 2, 3} OBVIOUS
<1>2. d \in {0, 1, 2, 3} /\ s \in {0, 1, 2, 3} BY DEF Position
<1>3. Place(d, s) = k BY <1>1
<1>4. Place(d, Following(s)) = (k + 1) % 4 BY <1>1, <1>2, <1>3 DEF Place, Following
<1> QED BY <1>3, <1>4

\* A place is a number.
LEMMA PlaceIsNumber ==
  ASSUME NEW d \in Position, NEW s \in Position
  PROVE  Place(d, s) \in 0..3
BY DEF Place, Position

\* A card put down keeps the invariant of the round.
LEMMA DownOK ==
  ASSUME NEW b, BoardOK(b), RoundOK(b), ~b.reviewing, Size(b.trick) \in 0..3,
         Size(b.winners) \in 0..(Tricks - 1), NEW c \in b.hands[b.active], NEW declare
  PROVE  RoundOK(Down(b, c, declare))
<1> DEFINE n == Down(b, c, declare)
           s == b.active
           u == TeamOf(s)
           p == Pair(s, c.suit)
           bonus == Paid(b.belotes, p)
           counts == c.rank \in {"king", "queen"} /\ p \in DOMAIN b.belotes
           found == Find(b.hands[s], b.contract.trump)
<1>1. /\ BoardOK(n) /\ SameRound(b, n)
      /\ n.hands = Without(b.hands, s, c)
      /\ n.trick = Append(b.trick, [seat |-> s, card |-> c])
      /\ Size(n.trick) = Size(b.trick) + 1
      /\ n.active = Following(s) /\ n.winners = b.winners /\ n.piles = b.piles
      /\ n.dealer = b.dealer /\ ~n.reviewing
  BY DownFields, Zenon
<1>17. Counted(b, n, s, c) /\ Declares(b, n, s) BY DownFields
<1> HIDE DEF n
<1>2. ~counts => n.belotes = b.belotes /\ n.score = b.score /\ n.bonus = b.bonus
  BY <1>17 DEF Counted
<1>3. counts => /\ n.belotes = [b.belotes EXCEPT ![p] = @ + 1]
                /\ n.score = [b.score EXCEPT ![u] = @ + bonus]
                /\ n.bonus = [b.bonus EXCEPT ![u] = @ + bonus]
  BY <1>17 DEF Counted
<1>4. \/ n.declared = b.declared
      \/ /\ n.declared = Append(b.declared, [seat |-> s, found |-> found])
         /\ Cardinality(b.hands[s]) = Tricks /\ found # {}
  BY <1>17 DEF Declares
<1> HIDE DEF counts, bonus, found, p, u
<1>5. /\ n.contract = b.contract /\ n.points = b.points /\ n.der = b.der
      /\ n.revealed = b.revealed /\ n.announced = b.announced
  BY <1>1 DEF SameRound
<1>6. /\ s \in Position /\ u \in Team /\ b.hands \in [Position -> SUBSET Card]
      /\ b.trick \in Seq(PlayedCard) /\ b.dealer \in Position /\ Size(b.trick) \in Nat
      /\ b.hands[s] \in SUBSET Card /\ c \in Card
  BY TeamOfSeat DEF BoardOK, FieldsOK, u
<1>7. n.contract \in Contract BY <1>5 DEF RoundOK
<1>8. CardsDiffer(n)
  <2>1. \A i \in 1..Size(b.trick) : b.trick[i].card # c
    <3>1. DOMAIN b.trick = 1..Size(b.trick) BY <1>6, SizeOfSeq
    <3>2. \A i \in 1..Size(b.trick) : b.trick[i].card \in TrickOnTable(b)
      BY <3>1 DEF TrickOnTable
    <3>3. c \in InHands(b) BY <1>6 DEF InHands
    <3> QED BY <3>2, <3>3 DEF BoardOK, CardsOK
  <2>2. /\ \A i \in 1..Size(b.trick) : n.trick[i] = b.trick[i]
        /\ n.trick[Size(b.trick) + 1].card = c
    <3> DEFINE e == [seat |-> s, card |-> c]
    <3>1. e \in PlayedCard /\ e.card = c BY <1>6 DEF PlayedCard
    <3>2. n.trick = Append(b.trick, e) BY <1>1
    <3> HIDE DEF e
    <3>3. b.trick \in Seq(PlayedCard) BY <1>6
    <3>4. \A i \in 1..Size(b.trick) : n.trick[i] = b.trick[i]
      BY <1>6, <3>1, <3>2, <3>3, SizeOfSeq, SizeOfAppend
    <3>5. n.trick[Size(b.trick) + 1] = e
      BY <1>6, <3>1, <3>2, <3>3, SizeOfSeq, SizeOfAppend
    <3> QED BY <3>1, <3>4, <3>5
  <2>3. \A i \in 1..Size(n.trick) : i \in 1..Size(b.trick) \/ i = Size(b.trick) + 1
    BY <1>1, <1>6
  <2> QED BY <2>1, <2>2, <2>3 DEF RoundOK, CardsDiffer
<1>9. WonOK(n) BY <1>1 DEF WonOK
<1>10. BeloteOK(n)
  <2>1. BelotesOK(b.hands, b.belotes, b.bonus) /\ IsTally(b.bonus)
    BY DEF RoundOK, BeloteOK, ScoreOK
  <2>2. CASE counts
    <3>1. c.rank \in {"king", "queen"} /\ Pair(s, c.suit) \in DOMAIN b.belotes
      BY <2>2 DEF counts, p
    <3>2. BelotesOK(Without(b.hands, s, c), [b.belotes EXCEPT ![p] = @ + 1],
                    [b.bonus EXCEPT ![u] = @ + bonus])
      BY <1>6, <2>1, <3>1, BelotesKept DEF p, u, bonus
    <3> QED BY <1>1, <1>3, <2>2, <3>2 DEF BeloteOK
  <2>3. CASE ~counts
    <3>1. ~(c.rank \in {"king", "queen"} /\ Pair(s, c.suit) \in DOMAIN b.belotes)
      BY <2>3 DEF counts, p
    <3>2. BelotesOK(Without(b.hands, s, c), b.belotes, b.bonus)
      BY <1>6, <2>1, <3>1, BelotesStay
    <3> QED BY <1>1, <1>2, <2>3, <3>2 DEF BeloteOK
  <2> QED BY <2>2, <2>3
<1>11. ScoreOK(n)
  <2>1. /\ IsTally(b.score) /\ IsTally(b.points) /\ IsTally(b.der)
        /\ IsTally(b.bonus) /\ IsTally(b.announced)
    BY DEF RoundOK, ScoreOK
  <2>2. \A t \in Team :
          /\ b.score[t] = b.points[t] + b.der[t] + b.bonus[t] + b.announced[t]
          /\ b.points[t] = PointsOf(PileCards(b, t), b.contract.trump)
    BY DEF RoundOK, ScoreOK
  <2>3. b.der[0] + b.der[1] = IF Size(b.winners) = Tricks THEN 10 ELSE 0
    BY DEF RoundOK, ScoreOK
  <2>4. \A t \in Team : PileCards(n, t) = PileCards(b, t) BY <1>1 DEF PileCards
  <2>5. bonus \in Nat BY DEF bonus, Paid
  <2>6. /\ IsTally(n.score) /\ IsTally(n.bonus)
        /\ \A t \in Team : n.score[t] = b.points[t] + b.der[t] + n.bonus[t] + b.announced[t]
    <3>1. CASE ~counts BY <1>2, <2>1, <2>2, <3>1
    <3>2. CASE counts
      <4>1. DOMAIN n.score = Team /\ DOMAIN n.bonus = Team BY <1>3, <2>1, <3>2 DEF IsTally
      <4>2. ASSUME NEW t \in Team
            PROVE  /\ n.score[t] \in Nat /\ n.bonus[t] \in Nat
                   /\ n.score[t] = b.points[t] + b.der[t] + n.bonus[t] + b.announced[t]
        <5>1. /\ b.points[t] \in Nat /\ b.der[t] \in Nat /\ b.bonus[t] \in Nat
              /\ b.announced[t] \in Nat /\ b.score[t] \in Nat
          BY <2>1 DEF IsTally
        <5>2. CASE t = u
          <6>1. n.score[t] = b.score[t] + bonus /\ n.bonus[t] = b.bonus[t] + bonus
            BY <1>3, <2>1, <3>2, <5>2 DEF IsTally
          <6>2. b.score[t] = b.points[t] + b.der[t] + b.bonus[t] + b.announced[t]
            BY <2>2
          <6> QED BY <2>5, <5>1, <6>1, <6>2
        <5>3. CASE t # u
          <6>1. n.score[t] = b.score[t] /\ n.bonus[t] = b.bonus[t]
            BY <1>3, <2>1, <3>2, <5>3 DEF IsTally
          <6> QED BY <2>2, <5>1, <6>1
        <5> QED BY <5>2, <5>3
      <4> QED BY <4>1, <4>2 DEF IsTally
    <3> QED BY <3>1, <3>2
  <2> QED BY <1>1, <1>5, <2>1, <2>2, <2>3, <2>4, <2>6 DEF ScoreOK
<1>12. AnnounceOK(n)
  <2> DEFINE e == [seat |-> s, found |-> found]
             P(x) == Place(b.dealer, x)
  <2>1. /\ b.declared \in Seq(Declaration)
        /\ \A i, j \in 1..Size(b.declared) : i < j =>
             P(b.declared[i].seat) < P(b.declared[j].seat)
        /\ Size(b.winners) = 0 => DeclaringOK(b)
        /\ Size(b.winners) # 0 => Settled(b)
    BY DEF RoundOK, AnnounceOK, DeclaredOK
  <2> HIDE DEF P, e
  <2>2. Size(b.winners) = 0 =>
          /\ P(s) = Size(b.trick) /\ Place(b.dealer, Following(s)) = Size(n.trick) % 4
          /\ \A i \in 1..Size(b.declared) : P(b.declared[i].seat) < Size(b.trick)
          /\ b.revealed = <<>> /\ \A t \in Team : b.announced[t] = 0
    <3> SUFFICES ASSUME Size(b.winners) = 0
                 PROVE  /\ P(s) = Size(b.trick)
                        /\ Place(b.dealer, Following(s)) = Size(n.trick) % 4
                        /\ \A i \in 1..Size(b.declared) :
                             P(b.declared[i].seat) < Size(b.trick)
                        /\ b.revealed = <<>> /\ \A t \in Team : b.announced[t] = 0
      OBVIOUS
    <3>1. /\ Place(b.dealer, s) = Size(b.trick) % 4
          /\ \A i \in 1..Size(b.declared) : P(b.declared[i].seat) < Size(b.trick)
          /\ b.revealed = <<>> /\ \A t \in Team : b.announced[t] = 0
      BY <2>1 DEF DeclaringOK, P
    <3>2. /\ Place(b.dealer, Following(s)) = (Size(b.trick) + 1) % 4
          /\ Place(b.dealer, s) = Size(b.trick)
      BY <1>6, <3>1, PlaceTurns
    <3> QED BY <1>1, <3>1, <3>2 DEF P
  <2>3. CASE n.declared = b.declared
    <3>1. DeclaredOK(n) BY <1>1, <2>1, <2>3 DEF DeclaredOK, P
    <3>2. ASSUME Size(b.winners) = 0 PROVE DeclaringOK(n)
      <4>1. \A i \in 1..Size(b.declared) : P(b.declared[i].seat) < Size(n.trick)
        <5> TAKE i \in 1..Size(b.declared)
        <5>1. P(b.declared[i].seat) \in 0..3
          <6>1. b.declared[i] \in Declaration BY <2>1, SizeOfSeq
          <6> QED BY <1>6, <6>1, PlaceIsNumber DEF Declaration, P
        <5> QED BY <1>1, <1>6, <2>2, <3>2, <5>1
      <4> QED BY <1>1, <1>5, <2>2, <2>3, <3>2, <4>1 DEF DeclaringOK, P
    <3>3. Size(b.winners) # 0 => Settled(n) BY <1>5, <2>1, <2>3 DEF Settled
    <3> QED BY <1>1, <3>1, <3>2, <3>3 DEF AnnounceOK
  <2>4. CASE /\ n.declared = Append(b.declared, e)
             /\ Cardinality(b.hands[s]) = Tricks /\ found # {}
    <3>1. Size(b.winners) = 0
      <4>1. ~HasPlayed(b, s) BY ActiveHasNotPlayed
      <4>2. Cardinality(b.hands[s]) = Tricks - Size(b.winners) - 0
        BY <1>6, <4>1 DEF BoardOK, SizesOK
      <4>3. Size(b.winners) \in Nat /\ Tricks \in Nat BY BoardAssumption
      <4> QED BY <2>4, <4>2, <4>3
    <3>2. e \in Declaration /\ e.seat = s
      <4>1. found \in SUBSET Announcement BY <1>6, FindsAnnouncements DEF found
      <4> QED BY <1>6, <2>4, <4>1 DEF Declaration, e
    <3>3. /\ n.declared \in Seq(Declaration) /\ Size(n.declared) = Size(b.declared) + 1
          /\ \A i \in 1..Size(b.declared) : n.declared[i] = b.declared[i]
          /\ n.declared[Size(b.declared) + 1] = e /\ Size(b.declared) \in Nat
      BY <2>1, <2>4, <3>2, SizeOfAppend, SizeOfSeq
    <3>4. \A i \in 1..Size(n.declared) :
            i \in 1..Size(b.declared) \/ i = Size(b.declared) + 1
      BY <3>3
    <3>5. P(s) = Size(b.trick) /\ \A i \in 1..Size(b.declared) :
            P(b.declared[i].seat) < Size(b.trick)
      BY <2>2, <3>1
    <3>6. DeclaredOK(n)
      <4> SUFFICES ASSUME NEW i \in 1..Size(n.declared), NEW j \in 1..Size(n.declared), i < j
                   PROVE  P(n.declared[i].seat) < P(n.declared[j].seat)
        BY <1>1, <3>3 DEF DeclaredOK, P
      <4>1. i \in 1..Size(b.declared) BY <3>3
      <4>2. CASE j \in 1..Size(b.declared) BY <2>1, <3>3, <4>1, <4>2
      <4>3. CASE j = Size(b.declared) + 1 BY <3>2, <3>3, <3>5, <4>1, <4>3
      <4> QED BY <3>4, <4>2, <4>3
    <3>7. \A i \in 1..Size(n.declared) : P(n.declared[i].seat) < Size(n.trick)
      <4> TAKE i \in 1..Size(n.declared)
      <4>1. CASE i \in 1..Size(b.declared)
        <5>1. P(n.declared[i].seat) < Size(b.trick) BY <3>3, <3>5, <4>1
        <5>2. P(n.declared[i].seat) \in 0..3
          <6>1. b.declared[i] \in Declaration BY <2>1, <4>1, SizeOfSeq
          <6> QED BY <1>6, <3>3, <4>1, <6>1, PlaceIsNumber DEF Declaration, P
        <5> QED BY <1>1, <1>6, <5>1, <5>2
      <4>2. CASE i = Size(b.declared) + 1 BY <1>1, <1>6, <3>2, <3>3, <3>5, <4>2
      <4> QED BY <3>4, <4>1, <4>2
    <3>8. DeclaringOK(n) BY <1>1, <1>5, <2>2, <3>1, <3>7 DEF DeclaringOK, P
    <3> QED BY <1>1, <3>1, <3>6, <3>8 DEF AnnounceOK
  <2> QED BY <1>4, <2>3, <2>4 DEF e
<1>13. RoundOK(n) BY <1>7, <1>8, <1>9, <1>10, <1>11, <1>12 DEF RoundOK
<1> QED BY <1>13 DEF n

\* The pile of the team that wins the trick has its cards, and the team its points.
LEMMA WinTrickPoints ==
  ASSUME NEW b, BoardOK(b), CardsDiffer(b), ~b.reviewing, Size(b.trick) = 4
  PROVE  LET n == WinTrick(b)
             u == TeamOf(Winner(b))
             trump == b.contract.trump
         IN  /\ u \in Team /\ TrickPoints(b.trick, trump) \in Nat
             /\ PointsOf(PileCards(n, u), trump) =
                  PointsOf(PileCards(b, u), trump) + TrickPoints(b.trick, trump)
             /\ \A t \in Team : t # u => PileCards(n, t) = PileCards(b, t)
<1> DEFINE n == WinTrick(b)
           u == TeamOf(Winner(b))
           trump == b.contract.trump
           cards == TrickCards(b.trick)
<1>1. /\ DOMAIN b = Fields /\ b.trick \in Seq(PlayedCard)
      /\ b.piles \in [Team -> Seq(Card)]
  BY DEF BoardOK, FieldsOK
<1>2. u \in Team BY WinTrickOK, TeamOfSeat
<1>3. n.piles = [b.piles EXCEPT ![u] = cards \o @] BY <1>1, WinTrickFields
<1>4. \A i \in 1..4 : b.trick[i].card \in Card
  <2>1. \A i \in 1..4 : b.trick[i] \in PlayedCard BY <1>1, SizeOfSeq
  <2> QED BY <2>1 DEF PlayedCard
<1>5. /\ cards \in Seq(Card) /\ ToSet(cards) = {b.trick[i].card : i \in 1..4}
      /\ TrickOnTable(b) = {b.trick[i].card : i \in 1..4}
  <2>1. cards = [i \in 1..4 |-> b.trick[i].card] BY DEF TrickCards
  <2>2. cards \in [1..4 -> Card] BY <1>4, <2>1
  <2>3. cards \in Seq(Card) BY <2>2, SeqDef
  <2>4. DOMAIN b.trick = 1..4 BY <1>1, SizeOfSeq
  <2> QED BY <2>1, <2>3, <2>4 DEF ToSet, TrickOnTable
<1> HIDE DEF n, u, cards
<1>6. n.piles[u] = cards \o b.piles[u] /\ \A t \in Team : t # u => n.piles[t] = b.piles[t]
  BY <1>1, <1>2, <1>3
<1>7. b.piles[u] \in Seq(Card) BY <1>1, <1>2
<1>8. PileCards(n, u) = PileCards(b, u) \cup {b.trick[i].card : i \in 1..4}
  BY <1>5, <1>6, <1>7, ToSetConcat DEF PileCards
<1>9. PileCards(b, u) \in SUBSET Card /\ PileCards(b, u) \cap TrickOnTable(b) = {}
  <2>1. CardsOK(b) BY DEF BoardOK
  <2>2. u = 0 \/ u = 1 BY <1>2 DEF Team
  <2> QED BY <1>2, <2>1, <2>2 DEF CardsOK
<1>10. \A i \in 1..4 : b.trick[i].card \in Card \ PileCards(b, u) BY <1>4, <1>5, <1>9
<1>11. \A i, j \in 1..4 : i # j => b.trick[i].card # b.trick[j].card BY DEF CardsDiffer
<1>12. /\ TrickPoints(b.trick, trump) \in Nat
       /\ PointsOf(PileCards(b, u) \cup {b.trick[i].card : i \in 1..4}, trump) =
            PointsOf(PileCards(b, u), trump) + TrickPoints(b.trick, trump)
  BY <1>9, <1>10, <1>11, PointsOfTrick
<1>13. \A t \in Team : t # u => PileCards(n, t) = PileCards(b, t)
  BY <1>6 DEF PileCards
<1> QED BY <1>2, <1>8, <1>12, <1>13 DEF n, u

\* The points of the trick, and of the last one, are in the score as they are in the totals.
LEMMA WinTrickScoreOK ==
  ASSUME NEW b, BoardOK(b), RoundOK(b), ~b.reviewing, Size(b.trick) = 4,
         Size(b.winners) \in 0..(Tricks - 1)
  PROVE  ScoreOK(WinTrick(b))
<1> DEFINE n == WinTrick(b)
           u == TeamOf(Winner(b))
           trump == b.contract.trump
           points == TrickPoints(b.trick, trump)
           der == IF Size(b.winners) = Tricks - 1 THEN 10 ELSE 0
<1>1. DOMAIN b = Fields /\ b.winners \in Seq(Position) /\ Size(b.winners) \in Nat
  BY DEF BoardOK, FieldsOK
<1>2. /\ u \in Team /\ points \in Nat
      /\ PointsOf(PileCards(n, u), trump) = PointsOf(PileCards(b, u), trump) + points
      /\ \A t \in Team : t # u => PileCards(n, t) = PileCards(b, t)
  BY WinTrickPoints DEF RoundOK
<1>3. /\ n.contract = b.contract /\ n.bonus = b.bonus /\ n.announced = b.announced
      /\ n.score = [b.score EXCEPT ![u] = @ + points + der]
      /\ n.points = [b.points EXCEPT ![u] = @ + points]
      /\ n.der = [b.der EXCEPT ![u] = @ + der]
  BY <1>1, WinTrickRound
<1>4. Size(n.winners) = Size(b.winners) + 1
  <2>1. Winner(b) \in Position BY WinTrickOK
  <2>2. n.winners = Append(b.winners, Winner(b)) BY <1>1, WinTrickFields
  <2> HIDE DEF n
  <2> QED BY <1>1, <2>1, <2>2, SizeOfAppend
<1>5. der \in Nat /\ der \in {0, 10} OBVIOUS
<1>6. Size(n.winners) = Tricks <=> Size(b.winners) = Tricks - 1
  BY <1>1, <1>4, BoardAssumption
<1>7. der = IF Size(n.winners) = Tricks THEN 10 ELSE 0 BY <1>6
<1>8. Size(b.winners) # Tricks BY BoardAssumption
<1> HIDE DEF n, u, points, der, trump
<1>9. /\ IsTally(b.score) /\ IsTally(b.points) /\ IsTally(b.der)
      /\ IsTally(b.bonus) /\ IsTally(b.announced)
      /\ \A t \in Team :
           /\ b.score[t] = b.points[t] + b.der[t] + b.bonus[t] + b.announced[t]
           /\ b.points[t] = PointsOf(PileCards(b, t), trump)
      /\ b.der[0] + b.der[1] = 0
  BY <1>8 DEF RoundOK, ScoreOK, trump
<1>10. DOMAIN n.score = Team /\ DOMAIN n.points = Team /\ DOMAIN n.der = Team
  BY <1>3, <1>9 DEF IsTally
<1>11. ASSUME NEW t \in Team
       PROVE  /\ n.score[t] \in Nat /\ n.points[t] \in Nat /\ n.der[t] \in Nat
              /\ n.score[t] = n.points[t] + n.der[t] + n.bonus[t] + n.announced[t]
              /\ n.points[t] = PointsOf(PileCards(n, t), trump)
  <2>1. /\ b.points[t] \in Nat /\ b.der[t] \in Nat /\ b.bonus[t] \in Nat
        /\ b.announced[t] \in Nat /\ b.score[t] \in Nat
        /\ b.score[t] = b.points[t] + b.der[t] + b.bonus[t] + b.announced[t]
        /\ b.points[t] = PointsOf(PileCards(b, t), trump)
    BY <1>9 DEF IsTally
  <2>2. CASE t = u
    <3>1. /\ n.score[t] = b.score[t] + points + der /\ n.points[t] = b.points[t] + points
          /\ n.der[t] = b.der[t] + der
      BY <1>3, <1>9, <2>2 DEF IsTally
    <3>2. n.bonus[t] = b.bonus[t] /\ n.announced[t] = b.announced[t] BY <1>3
    <3>3. n.points[t] = PointsOf(PileCards(n, t), trump) BY <1>2, <2>1, <2>2, <3>1
    <3>4. n.score[t] = n.points[t] + n.der[t] + n.bonus[t] + n.announced[t]
      BY <1>2, <1>5, <2>1, <3>1, <3>2
    <3>5. n.score[t] \in Nat /\ n.points[t] \in Nat /\ n.der[t] \in Nat
      BY <1>2, <1>5, <2>1, <3>1
    <3> QED BY <3>3, <3>4, <3>5
  <2>3. CASE t # u
    <3>1. n.score[t] = b.score[t] /\ n.points[t] = b.points[t] /\ n.der[t] = b.der[t]
      BY <1>3, <1>9, <2>3 DEF IsTally
    <3>2. PileCards(n, t) = PileCards(b, t) BY <1>2, <2>3
    <3> QED BY <1>3, <2>1, <3>1, <3>2
  <2> QED BY <2>2, <2>3
<1>12. n.der[0] + n.der[1] = der
  <2>1. 0 \in Team /\ 1 \in Team BY DEF Team
  <2>2. b.der[0] = 0 /\ b.der[1] = 0
    <3>1. b.der[0] \in Nat /\ b.der[1] \in Nat BY <1>9, <2>1 DEF IsTally
    <3> QED BY <1>9, <3>1
  <2>3. \A t \in Team : n.der[t] = IF t = u THEN b.der[t] + der ELSE b.der[t]
    BY <1>3, <1>9 DEF IsTally
  <2>4. u = 0 \/ u = 1 BY <1>2 DEF Team
  <2>5. CASE u = 0
    <3>1. n.der[0] = 0 + der /\ n.der[1] = 0 BY <2>1, <2>2, <2>3, <2>5
    <3> QED BY <1>5, <3>1
  <2>6. CASE u = 1
    <3>1. n.der[0] = 0 /\ n.der[1] = 0 + der BY <2>1, <2>2, <2>3, <2>6
    <3> QED BY <1>5, <3>1
  <2> QED BY <2>4, <2>5, <2>6
<1>13. IsTally(n.score) /\ IsTally(n.points) /\ IsTally(n.der)
  BY <1>10, <1>11 DEF IsTally
<1>14. ScoreOK(n)
  BY <1>3, <1>7, <1>9, <1>11, <1>12, <1>13 DEF ScoreOK, trump
<1> QED BY <1>14 DEF n

\* The board once a trick of four is resolved.
Won(b) == CalculateRoundResult(RevealAnnouncements(WinTrick(b)))

\* A trick won keeps the invariant of the round; the last one gives the result.
LEMMA WonRoundOK ==
  ASSUME NEW b, BoardOK(b), RoundOK(b), ~b.reviewing, Size(b.trick) = 4, ~Over(b),
         Size(b.winners) \in 0..(Tricks - 1)
  PROVE  RoundOK(Won(b)) /\ ResultOK(Won(b))
<1> DEFINE w == WinTrick(b)
           a == RevealAnnouncements(w)
           n == CalculateRoundResult(a)
<1>1. /\ DOMAIN b = Fields /\ b.winners \in Seq(Position) /\ Size(b.winners) \in Nat
      /\ Winner(b) \in Position
  BY WinTrickOK DEF BoardOK, FieldsOK
<1>2. /\ DOMAIN w = Fields /\ w.hands = b.hands /\ w.trick = b.trick
      /\ w.winners = Append(b.winners, Winner(b)) /\ w.reviewing = TRUE
      /\ w.dealer = b.dealer /\ w.result = b.result
  BY <1>1, WinTrickFields
<1>3. /\ w.contract = b.contract /\ w.belotes = b.belotes /\ w.bonus = b.bonus
      /\ w.declared = b.declared /\ w.revealed = b.revealed /\ w.announced = b.announced
  BY <1>1, WinTrickRound
<1>4. ScoreOK(w) BY WinTrickScoreOK
<1> HIDE DEF w
<1>5. SameBoard(w, a) /\ SameResult(w, a) BY <1>2, RevealAnnouncementsSame
<1>6. /\ a.contract = w.contract /\ a.belotes = w.belotes /\ a.bonus = w.bonus
      /\ a.points = w.points /\ a.der = w.der /\ a.declared = w.declared
      /\ Size(w.winners) # 1 => /\ a.revealed = w.revealed /\ a.score = w.score
                                /\ a.announced = w.announced
  BY <1>2, RevealRound
<1> DEFINE announced == [t \in Team |-> AnnouncedBy(Revealed(w), t)]
<1>7. Size(w.winners) = 1 => /\ a.revealed = Revealed(w) /\ a.announced = announced
                             /\ a.score = [t \in Team |-> w.score[t] + announced[t]]
  BY <1>2, RevealRound
<1> HIDE DEF a, announced
<1>8. DOMAIN a = Fields /\ ~Over(a) BY <1>2, <1>5 DEF SameBoard, SameResult, Over
<1>9. SameBoard(a, n) /\ (Over(n) <=> Size(a.winners) = Tricks)
  BY <1>8, CalculateRoundResultSame
<1>10. /\ SameRound(a, n) /\ n.belotes = a.belotes /\ n.score = a.score
       /\ n.bonus = a.bonus /\ n.declared = a.declared
       /\ Size(a.winners) = Tricks => n.result = Score(Totals(a), TeamOf(a.contract.declarer))
  BY <1>8, CalculateRound
<1>11. Won(b) = n BY DEF Won, w, a
<1> HIDE DEF n
<1>12. /\ n.hands = b.hands /\ n.trick = b.trick /\ n.winners = w.winners
       /\ n.piles = w.piles /\ n.dealer = b.dealer /\ n.winners = a.winners
  BY <1>2, <1>5, <1>9 DEF SameBoard
<1>13. /\ n.contract = b.contract /\ n.points = w.points /\ n.der = w.der
       /\ n.revealed = a.revealed /\ n.announced = a.announced
       /\ n.belotes = b.belotes /\ n.bonus = b.bonus /\ n.declared = b.declared
       /\ n.score = a.score
  BY <1>3, <1>6, <1>10 DEF SameRound
<1>14. /\ Size(w.winners) = Size(b.winners) + 1
       /\ w.winners[Size(b.winners) + 1] = Winner(b)
  BY <1>1, <1>2, SizeOfSeq, SizeOfAppend
<1>15. n.contract \in Contract /\ CardsDiffer(n) BY <1>12, <1>13 DEF RoundOK, CardsDiffer
<1>16. WonOK(n)
  <2>1. NextLeader(n) = w.winners[Size(w.winners)] BY <1>12 DEF NextLeader, Last, Size
  <2>2. Winner(n) = Winner(b) BY <1>12, <1>13 DEF Winner
  <2> QED BY <1>14, <2>1, <2>2 DEF WonOK
<1>17. BeloteOK(n) BY <1>12, <1>13 DEF RoundOK, BeloteOK
<1>18. b.declared \in Seq(Declaration) BY DEF RoundOK, AnnounceOK, DeclaredOK
<1>19. ASSUME Size(w.winners) = 1
       PROVE  /\ \A t \in Team : announced[t] \in Nat
              /\ SettledAs(b.declared, a.revealed, announced, b.contract.trump)
  <2>1. announced = [t \in Team |-> AnnouncedBy(Revealed(w), t)] BY DEF announced
  <2>2. w.declared \in Seq(Declaration) BY <1>3, <1>18
  <2>3. /\ \A t \in Team : AnnouncedBy(Revealed(w), t) \in Nat
        /\ SettledAs(w.declared, Revealed(w), announced, w.contract.trump)
    BY <2>1, <2>2, RevealedIsSettled
  <2> QED BY <1>3, <1>7, <1>19, <2>1, <2>3
<1>20. ScoreOK(n)
  <2>1. /\ IsTally(w.score) /\ IsTally(w.points) /\ IsTally(w.der)
        /\ IsTally(w.bonus) /\ IsTally(w.announced)
        /\ \A t \in Team :
             /\ w.score[t] = w.points[t] + w.der[t] + w.bonus[t] + w.announced[t]
             /\ w.points[t] = PointsOf(PileCards(w, t), w.contract.trump)
        /\ w.der[0] + w.der[1] = IF Size(w.winners) = Tricks THEN 10 ELSE 0
    BY <1>4 DEF ScoreOK
  <2>2. \A t : PileCards(n, t) = PileCards(w, t) BY <1>12 DEF PileCards
  <2>3. /\ IsTally(a.score) /\ IsTally(a.announced)
        /\ \A t \in Team :
             a.score[t] = w.points[t] + w.der[t] + w.bonus[t] + a.announced[t]
    <3>1. CASE Size(w.winners) # 1 BY <1>6, <2>1, <3>1
    <3>2. CASE Size(w.winners) = 1
      <4>1. /\ \A t \in Team : announced[t] \in Nat
            /\ a.announced = announced
            /\ a.score = [t \in Team |-> w.score[t] + announced[t]]
        BY <1>7, <1>19, <3>2
      <4>2. Size(b.winners) = 0 BY <1>1, <1>14, <3>2
      <4>3. \A t \in Team : w.announced[t] = 0
        BY <1>3, <4>2 DEF RoundOK, AnnounceOK, DeclaringOK
      <4>4. DOMAIN a.announced = Team /\ DOMAIN a.score = Team
        BY <4>1 DEF announced
      <4>5. ASSUME NEW t \in Team
            PROVE  /\ a.score[t] \in Nat
                   /\ a.score[t] = w.points[t] + w.der[t] + w.bonus[t] + a.announced[t]
        <5>1. /\ w.points[t] \in Nat /\ w.der[t] \in Nat /\ w.bonus[t] \in Nat
              /\ w.score[t] \in Nat /\ announced[t] \in Nat
          BY <2>1, <4>1 DEF IsTally
        <5>2. w.score[t] = w.points[t] + w.der[t] + w.bonus[t] + 0 BY <2>1, <4>3
        <5>3. a.score[t] = w.score[t] + announced[t] /\ a.announced[t] = announced[t]
          BY <4>1
        <5> QED BY <5>1, <5>2, <5>3
      <4> QED BY <4>1, <4>4, <4>5 DEF IsTally
    <3> QED BY <3>1, <3>2
  <2> QED BY <1>3, <1>12, <1>13, <2>1, <2>2, <2>3 DEF ScoreOK
<1>21. AnnounceOK(n)
  <2>1. DeclaredOK(n) BY <1>12, <1>13 DEF RoundOK, AnnounceOK, DeclaredOK
  <2>2. Size(n.winners) # 0 BY <1>1, <1>12, <1>14
  <2>3. Settled(n)
    <3>1. CASE Size(w.winners) = 1 BY <1>7, <1>13, <1>19, <3>1 DEF Settled
    <3>2. CASE Size(w.winners) # 1
      <4>1. Size(b.winners) # 0 BY <1>1, <1>14, <3>2
      <4>2. Settled(b) BY <4>1 DEF RoundOK, AnnounceOK
      <4> QED BY <1>3, <1>6, <1>13, <3>2, <4>2 DEF Settled
    <3> QED BY <3>1, <3>2
  <2> QED BY <2>1, <2>2, <2>3 DEF AnnounceOK
<1>22. ResultOK(n)
  <2>1. Totals(n) = Totals(a) BY <1>10, <1>12 DEF Totals, SameRound
  <2>2. n.contract = a.contract BY <1>10 DEF SameRound
  <2> QED BY <1>9, <1>10, <2>1, <2>2 DEF ResultOK
<1>23. RoundOK(n) BY <1>15, <1>16, <1>17, <1>20, <1>21 DEF RoundOK
<1> QED BY <1>11, <1>22, <1>23

\* A card played keeps the invariant of the round.
LEMMA PlayedRoundOK ==
  ASSUME NEW b, BoardOK(b), RoundOK(b), ~b.reviewing, Size(b.trick) \in 0..3, ~Over(b),
         Size(b.winners) \in 0..(Tricks - 1), NEW c \in b.hands[b.active], NEW declare
  PROVE  RoundOK(Played(b, c, declare)) /\ ResultOK(Played(b, c, declare))
<1> DEFINE d == Down(b, c, declare)
           n == Played(b, c, declare)
<1>1. n = ResolveTrick(d) BY DEF Played, Down
<1>2. BoardOK(d) /\ ~d.reviewing /\ d.winners = b.winners /\ d.result = b.result
  BY DownFields
<1>3. RoundOK(d) BY DownOK
<1> HIDE DEF d, n
<1>4. ~Over(d) BY <1>2 DEF Over
<1>5. CASE Size(d.trick) = 4
  <2>1. n = Won(d) BY <1>1, <1>5 DEF ResolveTrick, Won, Size
  <2>2. RoundOK(Won(d)) /\ ResultOK(Won(d)) BY <1>2, <1>3, <1>4, <1>5, WonRoundOK
  <2> QED BY <2>1, <2>2 DEF n
<1>6. CASE Size(d.trick) # 4
  <2>1. n = d BY <1>1, <1>6 DEF ResolveTrick, Size
  <2>2. ResultOK(d) BY <1>4 DEF ResultOK
  <2> QED BY <1>3, <2>1, <2>2 DEF n
<1> QED BY <1>5, <1>6

\* So does a card the board plays.
LEMMA PlayedAloneRoundOK ==
  ASSUME NEW b, BoardOK(b), RoundOK(b), ~b.reviewing, Size(b.trick) \in 0..3, ~Over(b),
         Size(b.winners) = Tricks - 1
  PROVE  RoundOK(PlayedAlone(b)) /\ ResultOK(PlayedAlone(b))
<1>1. PICK c \in b.hands[b.active] : PlayedAlone(b) = Played(b, c, FALSE)
  BY PlayedAloneIsPlayed
<1>2. Size(b.winners) \in 0..(Tricks - 1) BY BoardAssumption
<1> QED BY <1>1, <1>2, PlayedRoundOK

\* So does a trick collected,
LEMMA CollectedRoundOK ==
  ASSUME NEW b, BoardOK(b), RoundOK(b), b.reviewing
  PROVE  RoundOK(Collected(b))
<1> DEFINE n == Collected(b)
<1>1. DOMAIN b = Fields /\ Size(b.winners) >= 1 /\ Size(b.winners) \in Nat
  BY DEF BoardOK, FieldsOK
<1>2. /\ n.hands = b.hands /\ n.trick = <<>> /\ n.winners = b.winners /\ n.piles = b.piles
      /\ n.dealer = b.dealer /\ n.reviewing = FALSE
  BY <1>1, CollectedFields
<1>3. /\ SameRound(b, n) /\ n.belotes = b.belotes /\ n.score = b.score
      /\ n.bonus = b.bonus /\ n.declared = b.declared
  BY <1>1, CollectedRound
<1> HIDE DEF n
<1>4. /\ n.contract = b.contract /\ n.points = b.points /\ n.der = b.der
      /\ n.revealed = b.revealed /\ n.announced = b.announced
  BY <1>3 DEF SameRound
<1>5. CardsDiffer(n)
  <2>1. Size(n.trick) = 0 BY <1>2 DEF Size
  <2> QED BY <2>1 DEF CardsDiffer
<1>6. WonOK(n) BY <1>2 DEF WonOK
<1>7. ScoreOK(n)
  <2>1. \A t : PileCards(n, t) = PileCards(b, t) BY <1>2 DEF PileCards
  <2> QED BY <1>2, <1>3, <1>4, <2>1 DEF RoundOK, ScoreOK
<1>8. BeloteOK(n) BY <1>2, <1>3 DEF RoundOK, BeloteOK
<1>9. AnnounceOK(n)
  <2>1. DeclaredOK(n) BY <1>2, <1>3 DEF RoundOK, AnnounceOK, DeclaredOK
  <2>2. Size(b.winners) # 0 BY <1>1
  <2>3. Settled(n) BY <1>3, <1>4, <2>2 DEF RoundOK, AnnounceOK, Settled
  <2> QED BY <1>2, <2>1, <2>2, <2>3 DEF AnnounceOK
<1>10. RoundOK(n) BY <1>4, <1>5, <1>6, <1>7, <1>8, <1>9 DEF RoundOK
<1> QED BY <1>10 DEF n

\* and the last trick, played alone.
LEMMA ContinuedRoundOK ==
  ASSUME NEW b, BoardOK(b), RoundOK(b), b.reviewing, ~Over(b), Size(b.winners) # Tricks
  PROVE  RoundOK(Continued(b)) /\ ResultOK(Continued(b))
<1> DEFINE c == Collected(b)
           p == PlayedAlone(c)
           q == PlayedAlone(p)
           r == PlayedAlone(q)
           n == PlayedAlone(r)
<1>1. /\ BoardOK(c) /\ ~c.reviewing /\ Size(c.trick) = 0 /\ c.winners = b.winners
      /\ c.result = b.result
  BY CollectedOK
<1>2. RoundOK(c) BY CollectedRoundOK
<1>3. ~Over(c) BY <1>1 DEF Over
<1>4. CASE Size(b.winners) # Tricks - 1
  <2>1. Continued(b) = c BY <1>4 DEF Continued, Size
  <2>2. ResultOK(c) BY <1>3 DEF ResultOK
  <2> QED BY <1>2, <2>1, <2>2
<1>5. CASE Size(b.winners) = Tricks - 1
  <2>1. Continued(b) = n BY <1>5 DEF Continued, Size
  <2> HIDE DEF c
  <2>2. /\ BoardOK(p) /\ Size(p.trick) = 1 /\ ~p.reviewing /\ ~Over(p)
        /\ p.winners = c.winners
    BY <1>1, <1>3, <1>5, PlayedAloneOK DEF AfterCard
  <2>3. RoundOK(p) BY <1>1, <1>2, <1>3, <1>5, PlayedAloneRoundOK
  <2> HIDE DEF p
  <2>4. /\ BoardOK(q) /\ Size(q.trick) = 2 /\ ~q.reviewing /\ ~Over(q)
        /\ q.winners = c.winners
    BY <1>1, <1>5, <2>2, PlayedAloneOK DEF AfterCard
  <2>5. RoundOK(q) BY <1>1, <1>5, <2>2, <2>3, PlayedAloneRoundOK
  <2> HIDE DEF q
  <2>6. /\ BoardOK(r) /\ Size(r.trick) = 3 /\ ~r.reviewing /\ ~Over(r)
        /\ r.winners = c.winners
    BY <1>1, <1>5, <2>4, PlayedAloneOK DEF AfterCard
  <2>7. RoundOK(r) BY <1>1, <1>5, <2>4, <2>5, PlayedAloneRoundOK
  <2> HIDE DEF r
  <2>8. Size(r.trick) \in 0..3 BY <2>6
  <2>9. RoundOK(n) /\ ResultOK(n)
    BY <1>1, <1>5, <2>6, <2>7, <2>8, PlayedAloneRoundOK
  <2> QED BY <2>1, <2>9
<1> QED BY <1>4, <1>5

\* A new board has nothing scored, and its pairs are one to a suit.
LEMMA NewBoardRoundOK ==
  ASSUME NEW hands \in Deals, NEW contract \in Contracts, NEW dealer \in Dealers,
         NEW announcements
  PROVE  LET b == NewBoard(hands, contract, dealer, announcements)
         IN  RoundOK(b) /\ ResultOK(b)
<1> DEFINE b == NewBoard(hands, contract, dealer, announcements)
           trump == contract.trump
           zero == [t \in Team |-> 0]
<1>1. IsDeal(hands) /\ dealer \in Position /\ contract \in Contract BY BoardAssumption
<1>2. /\ b.hands = hands /\ b.contract = contract /\ b.trick = <<>> /\ b.winners = <<>>
      /\ b.piles = [t \in Team |-> <<>>] /\ b.active = Following(dealer)
      /\ b.dealer = dealer /\ b.reviewing = FALSE /\ b.result = NoResult
  BY DEF NewBoard
<1>3. /\ b.score = zero /\ b.points = zero /\ b.der = zero /\ b.bonus = zero
      /\ b.announced = zero /\ b.declared = <<>> /\ b.revealed = <<>>
      /\ b.belotes = [p \in Belotes(hands, trump) |-> 0]
  BY DEF NewBoard
<1> HIDE DEF b
<1>4. Size(b.trick) = 0 /\ Size(b.winners) = 0 /\ Size(b.declared) = 0
  BY <1>2, <1>3 DEF Size
<1>5. IsTally(zero) /\ \A t \in Team : zero[t] = 0 BY DEF IsTally
<1> HIDE DEF zero
<1>6. b.contract \in Contract /\ CardsDiffer(b) /\ WonOK(b)
  BY <1>1, <1>2, <1>4 DEF CardsDiffer, WonOK
<1>7. ScoreOK(b)
  <2>1. \A t \in Team : PileCards(b, t) = {} BY <1>2 DEF PileCards, ToSet
  <2>2. \A t \in Team : PointsOf(PileCards(b, t), b.contract.trump) = 0
    BY <2>1, PointsOfTakes
  <2>3. Size(b.winners) # Tricks BY <1>4, BoardAssumption
  <2>4. 0 \in Team /\ 1 \in Team BY DEF Team
  <2>5. b.der[0] + b.der[1] = 0 BY <1>3, <1>5, <2>4
  <2>6. \A t \in Team :
          /\ b.score[t] = b.points[t] + b.der[t] + b.bonus[t] + b.announced[t]
          /\ b.points[t] = PointsOf(PileCards(b, t), b.contract.trump)
    BY <1>3, <1>5, <2>2
  <2> QED BY <1>3, <1>5, <2>3, <2>5, <2>6 DEF ScoreOK
<1>8. BeloteOK(b)
  <2> DEFINE pairs == Belotes(hands, trump)
  <2>1. /\ pairs \subseteq [seat : Position, suit : Suits]
        /\ \A p \in pairs : /\ [rank |-> "king", suit |-> p.suit] \in hands[p.seat]
                            /\ [rank |-> "queen", suit |-> p.suit] \in hands[p.seat]
    BY DEF Belotes, Honours
  <2> HIDE DEF pairs
  <2>2. DOMAIN b.belotes = pairs /\ \A p \in pairs : b.belotes[p] = 0 BY <1>3 DEF pairs
  <2>3. ASSUME NEW p \in pairs, NEW q \in pairs, p.suit = q.suit PROVE p = q
    <3>1. p \in [seat : Position, suit : Suits] /\ q \in [seat : Position, suit : Suits]
      BY <2>1
    <3>2. p.seat = q.seat
      <4> SUFFICES ASSUME p.seat # q.seat PROVE FALSE OBVIOUS
      <4>1. hands[p.seat] \cap hands[q.seat] = {} BY <1>1, <3>1 DEF IsDeal
      <4> QED BY <2>1, <2>3, <4>1
    <3> QED BY <2>3, <3>1, <3>2
  <2>4. ASSUME NEW p \in pairs PROVE Out(hands, p) = 0
    <3>1. Out(hands, p) = 0 + 0 BY <2>1, Zenon DEF Out
    <3> QED BY <3>1
  <2>5. \A t : PairsOf(b.belotes, t) = {} BY <2>2 DEF PairsOf
  <2>6. \A t \in Team : b.bonus[t] = 20 * Cardinality(PairsOf(b.belotes, t))
    <3>1. Cardinality({}) = 0 BY FS_EmptySet
    <3> TAKE t \in Team
    <3>2. Cardinality(PairsOf(b.belotes, t)) = 0 BY <2>5, <3>1
    <3>3. b.bonus[t] = 0 BY <1>3, <1>5
    <3> QED BY <3>2, <3>3
  <2> QED BY <1>2, <2>1, <2>2, <2>3, <2>4, <2>6 DEF BeloteOK, BelotesOK
<1>9. AnnounceOK(b)
  <2>1. b.declared \in Seq(Declaration) BY <1>3
  <2>2. Place(dealer, Following(dealer)) = 0 % 4
    <3>1. dealer \in {0, 1, 2, 3} BY <1>1 DEF Position
    <3> QED BY <3>1 DEF Place, Following
  <2> QED BY <1>2, <1>3, <1>4, <1>5, <2>1, <2>2 DEF AnnounceOK, DeclaredOK, DeclaringOK
<1>10. RoundOK(b) BY <1>6, <1>7, <1>8, <1>9 DEF RoundOK
<1>11. ResultOK(b) BY <1>2 DEF ResultOK, Over
<1> QED BY <1>10, <1>11 DEF b

RoundInv == BoardInv /\ RoundOK(board) /\ ResultOK(board)

\* Every method of the board keeps the invariant of the round.
LEMMA RoundStep == RoundInv /\ [Next]_board => RoundInv'
<1> SUFFICES ASSUME RoundInv, [Next]_board PROVE RoundOK(board') /\ ResultOK(board')
  BY BoardStep DEF RoundInv
<1>1. BoardOK(board) /\ RestOK(board) /\ RoundOK(board) /\ ResultOK(board)
  BY DEF RoundInv, BoardInv
<1>2. CASE UNCHANGED board BY <1>1, <1>2
<1>3. ASSUME NEW card \in Card, NEW declare \in BOOLEAN, Play(card, declare)
      PROVE  RoundOK(board') /\ ResultOK(board')
  <2>1. /\ ~board.reviewing /\ ~Over(board) /\ Size(board.trick) \in 0..3
        /\ Size(board.winners) \in 0..(Tricks - 2)
    BY <1>3, PlayStep DEF RoundInv
  <2>2. Size(board.winners) \in 0..(Tricks - 1) BY <2>1, BoardAssumption
  <2>3. card \in LegalCards(board, board.active) /\ board' = Played(board, card, declare)
    BY <1>3 DEF Play
  <2>4. card \in board.hands[board.active] BY <2>1, <2>3, LegalIsAmong DEF LegalCards
  <2>5. /\ RoundOK(Played(board, card, declare))
        /\ ResultOK(Played(board, card, declare))
    BY <1>1, <2>1, <2>2, <2>4, PlayedRoundOK
  <2> QED BY <2>3, <2>5
<1>4. CASE ContinueAfterTrick
  <2>1. /\ board.reviewing /\ ~Over(board) /\ Size(board.winners) \in 1..(Tricks - 1)
        /\ board' = Continued(board)
    BY <1>4, ContinueStep DEF RoundInv, ContinueAfterTrick
  <2>2. Size(board.winners) # Tricks BY <2>1, BoardAssumption
  <2>3. RoundOK(Continued(board)) /\ ResultOK(Continued(board))
    BY <1>1, <2>1, <2>2, ContinuedRoundOK
  <2> QED BY <2>1, <2>3
<1> QED BY <1>2, <1>3, <1>4 DEF Next

\* In every round, what is scored, kept in pairs and declared stays in step with the cards.
THEOREM RoundInvariance == Spec => []RoundInv
<1>1. Init => RoundInv
  BY NewBoardOK, NewBoardRoundOK DEF Init, RoundInv, BoardInv
<1> QED BY <1>1, RoundStep, PTL DEF Spec

-----------------------------------------------------------------------------
(* What the invariant says to the players *)

\* For every deal and contract, a completed trick goes to the strongest card of the four,
\* though winning_index only compares each card with the winner so far (rules.rs).
THEOREM BestCardTakesTheTrick == Spec => []StrongestCardWins
<1>1. ASSUME RoundInv PROVE StrongestCardWins
  <2> SUFFICES ASSUME board.reviewing
               PROVE  NextLeader(board) =
                        board.trick[StrongestPlay(board.trick, board.contract.trump)].seat
    BY DEF StrongestCardWins
  <2>1. board.trick \in Seq(PlayedCard) /\ Size(board.trick) = 4
    BY <1>1 DEF RoundInv, BoardInv, BoardOK, FieldsOK
  <2>2. IsTrick(board.trick) BY <1>1, <2>1 DEF RoundInv, RoundOK, CardsDiffer, IsTrick
  <2>3. board.contract.trump \in Trumps BY <1>1 DEF RoundInv, RoundOK, Contract
  <2>4. WinningIndex(board.trick, board.contract.trump)
          = StrongestPlay(board.trick, board.contract.trump)
    BY <2>2, <2>3, WinnerIsStrongest
  <2>5. NextLeader(board) = Winner(board) BY <1>1 DEF RoundInv, RoundOK, WonOK
  <2> QED BY <2>4, <2>5 DEF Winner
<1> QED BY <1>1, RoundInvariance, PTL

\* For every deal and contract, the cards that may be played are those the rules allow, card
\* by card, and there always is one (rules.rs, legal_cards).
THEOREM PlayIsByTheRules == Spec => []LegalAsTheRulesSay
<1>1. ASSUME RoundInv PROVE LegalAsTheRulesSay
  <2> SUFFICES ASSUME ~board.reviewing
               PROVE  LET seat == board.active
                          hand == board.hands[seat]
                      IN  /\ LegalCards(board, seat) # {}
                          /\ LegalCards(board, seat) =
                               {c \in hand : board.trick = <<>> \/
                                  MayPlay(c, hand, board.trick, seat, board.contract.trump)}
    BY DEF LegalAsTheRulesSay
  <2>1. BoardOK(board) /\ CardsDiffer(board) BY <1>1 DEF RoundInv, BoardInv, RoundOK
  <2>2. board.contract.trump \in Trumps BY <1>1 DEF RoundInv, RoundOK, Contract
  <2>3. Size(board.trick) \in 0..3 /\ Size(board.winners) \in 0..(Tricks - 2)
    BY <1>1 DEF RoundInv, BoardInv, RestOK
  <2>4. Size(board.winners) \in 0..(Tricks - 1) BY <2>3, BoardAssumption
  <2> QED BY <2>1, <2>2, <2>3, <2>4, LegalOfBoard
<1> QED BY <1>1, RoundInvariance, PTL

\* For every deal and contract, the live scores are the sum of the totals, at every moment:
\* each team's cards, the last trick, its pairs of King and Queen and its announcements.
THEOREM ScoresAreTheTotals == Spec => []ScoresAddUp
<1>1. ASSUME RoundInv PROVE ScoresAddUp
  <2>1. ScoreOK(board) /\ BelotesOK(board.hands, board.belotes, board.bonus)
    BY <1>1 DEF RoundInv, RoundOK, BeloteOK
  <2>2. ASSUME NEW t \in Team
        PROVE  PairsOf(board.belotes, t) =
                 {p \in DOMAIN board.belotes :
                    TeamOf(p.seat) = t /\ Honours(p.suit) \cap board.hands[p.seat] = {}}
    <3>1. ASSUME NEW p \in DOMAIN board.belotes
          PROVE  board.belotes[p] = 2 <=> Honours(p.suit) \cap board.hands[p.seat] = {}
      <4> DEFINE k == [rank |-> "king", suit |-> p.suit]
                 q == [rank |-> "queen", suit |-> p.suit]
                 hand == board.hands[p.seat]
      <4>1. Honours(p.suit) \cap hand = {} <=> k \notin hand /\ q \notin hand
        BY DEF Honours
      <4>2. board.belotes[p] = (IF k \in hand THEN 0 ELSE 1) + (IF q \in hand THEN 0 ELSE 1)
        BY <2>1 DEF BelotesOK, Out
      <4> HIDE DEF k, q, hand
      <4>3. board.belotes[p] = 2 <=> k \notin hand /\ q \notin hand BY <4>2
      <4> QED BY <4>1, <4>3 DEF hand
    <3> QED BY <3>1 DEF PairsOf
  <2>3. \A t \in Team :
          board.bonus[t] = 20 * Cardinality(
            {p \in DOMAIN board.belotes :
               TeamOf(p.seat) = t /\ Honours(p.suit) \cap board.hands[p.seat] = {}})
    BY <2>1, <2>2 DEF BelotesOK
  <2>4. Over(board) <=> Size(board.winners) = Tricks
    BY <1>1 DEF RoundInv, BoardInv, RestOK
  <2> QED BY <2>1, <2>3, <2>4 DEF ScoreOK, ScoresAddUp
<1> QED BY <1>1, RoundInvariance, PTL

-----------------------------------------------------------------------------
(* Announcements *)

\* One team scores its announcements, for the best of all.
LEMMA TeamAnnounces == RoundInv => OneTeamAnnounces
<1> SUFFICES ASSUME RoundInv PROVE OneTeamAnnounces OBVIOUS
<1>1. AnnounceOK(board) /\ board.winners \in Seq(Position)
  BY DEF RoundInv, RoundOK, BoardInv, BoardOK, FieldsOK
<1>2. \A i, j \in DOMAIN board.declared : i < j =>
        (board.declared[i].seat - board.dealer + 3) % 4
          < (board.declared[j].seat - board.dealer + 3) % 4
  <2>1. DeclaredOK(board) BY <1>1 DEF AnnounceOK
  <2>2. DOMAIN board.declared = 1..Size(board.declared)
    BY <2>1, SizeOfSeq DEF DeclaredOK
  <2> QED BY <2>1, <2>2 DEF DeclaredOK, Place
<1>3. CASE Size(board.winners) = 0
  <2>1. board.winners = <<>> BY <1>1, <1>3, EmptySeq DEF Size
  <2>2. board.revealed = <<>> BY <1>1, <1>3 DEF AnnounceOK, DeclaringOK
  <2>3. DOMAIN board.revealed = {} BY <2>2
  <2> QED BY <1>2, <2>1, <2>2, <2>3 DEF OneTeamAnnounces
<1>4. CASE Size(board.winners) # 0
  <2>1. SettledAs(board.declared, board.revealed, board.announced, board.contract.trump)
    BY <1>1, <1>4 DEF AnnounceOK, Settled
  <2> QED BY <1>2, <2>1 DEF OneTeamAnnounces, SettledAs
<1> QED BY <1>3, <1>4

-----------------------------------------------------------------------------
(* The result *)

\* Totals as a board gives them.
IsTotals(T) ==
  /\ \A t \in Team : /\ T.points[t] \in Nat /\ T.der[t] \in Nat /\ T.announced[t] \in Nat
                     /\ T.belote[t] \in 0..80
  /\ T.value \in Nat /\ T.variant \in {"classic", "contree"}

\* Who takes every trick is capot's winner.
LEMMA CapotIs ==
  ASSUME NEW T
  PROVE  /\ Capot(T) \in {0, 1, 2}
         /\ Capot(T) = 0 => T.tricks = Tricks
         /\ Capot(T) = 1 => T.tricks = 0
BY DEF Capot, NoTeam

\* When a team takes every trick, it is awarded 250 and more, and the other its Belote.
LEMMA CapotAwards ==
  ASSUME NEW T, IsTotals(T), NEW taker \in Team, NEW team \in Team, Capot(T) = team
  PROVE  /\ ContractMade(T, taker) <=> team = taker
         /\ Undoubled(T, taker, Other(team)) = T.belote[Other(team)]
         /\ Undoubled(T, taker, team) \in Nat /\ Undoubled(T, taker, team) >= 250
<1> DEFINE all == T.announced[0] + T.announced[1]
           bid == IF T.variant = "contree" THEN T.value ELSE 0
           other == Other(team)
<1>1. /\ other \in Team /\ other # team /\ Other(other) = team /\ team # NoTeam
      /\ 0 \in Team /\ 1 \in Team
  BY DEF Team, Other, NoTeam
<1>2. /\ T.belote[team] \in Nat /\ T.announced[team] \in Nat /\ all \in Nat /\ bid \in Nat
  BY <1>1 DEF IsTotals
<1>3. ContractMade(T, taker) <=> team = taker BY <1>1 DEF ContractMade
<1>4. Undoubled(T, taker, other) = T.belote[other] BY <1>1 DEF Undoubled
<1>5. CASE team = taker
  <2>1. Undoubled(T, taker, team) = 250 + bid + T.announced[team] + T.belote[team]
    BY <1>1, <1>5 DEF Undoubled
  <2> HIDE DEF bid
  <2> QED BY <1>2, <1>3, <1>4, <2>1
<1>6. CASE team # taker
  <2>1. Undoubled(T, taker, team) = 250 + all + T.belote[team]
    BY <1>1, <1>6 DEF Undoubled
  <2> HIDE DEF all
  <2> QED BY <1>2, <1>3, <1>4, <2>1
<1> QED BY <1>5, <1>6

\* Otherwise the contract decides: its maker keeps its total, as the other does; who fails it
\* keeps its Belote, and the other has 162 and more.
LEMMA ContractAwards ==
  ASSUME NEW T, IsTotals(T), NEW taker \in Team, Capot(T) = NoTeam
  PROVE  /\ ContractMade(T, taker) <=>
              IF T.variant = "contree" THEN Total(T, taker) >= T.value
              ELSE Total(T, taker) > Total(T, Other(taker))
         /\ ContractMade(T, taker) =>
              \A team \in Team : Undoubled(T, taker, team) = Total(T, team)
         /\ ~ContractMade(T, taker) =>
              /\ Undoubled(T, taker, taker) = T.belote[taker]
              /\ Undoubled(T, taker, Other(taker)) \in Nat
              /\ Undoubled(T, taker, Other(taker)) >= 162
<1> DEFINE all == T.announced[0] + T.announced[1]
           other == Other(taker)
<1>1. /\ other \in Team /\ other # taker /\ 0 \in Team /\ 1 \in Team
      /\ \A team \in Team : NoTeam # team /\ NoTeam # Other(team)
  BY DEF Team, Other, NoTeam
<1>2. T.belote[taker] \in Nat /\ T.belote[other] \in Nat /\ all \in Nat
  BY <1>1 DEF IsTotals
<1>3. ContractMade(T, taker) <=>
        IF T.variant = "contree" THEN Total(T, taker) >= T.value
        ELSE Total(T, taker) > Total(T, Other(taker))
  BY <1>1 DEF ContractMade, IsTotals
<1>4. ASSUME ContractMade(T, taker), NEW team \in Team
      PROVE  Undoubled(T, taker, team) = Total(T, team)
  BY <1>1, <1>4 DEF Undoubled
<1>5. ASSUME ~ContractMade(T, taker)
      PROVE  /\ Undoubled(T, taker, taker) = T.belote[taker]
             /\ Undoubled(T, taker, other) \in Nat /\ Undoubled(T, taker, other) >= 162
  <2>1. Undoubled(T, taker, taker) = T.belote[taker] + 0 BY <1>1, <1>5 DEF Undoubled
  <2>2. Undoubled(T, taker, other) = T.belote[other] + (162 + all)
    BY <1>1, <1>5 DEF Undoubled
  <2> HIDE DEF all, other
  <2> QED BY <1>2, <2>1, <2>2
<1> QED BY <1>3, <1>4, <1>5

\* Who took every trick: the winners tell.
LEMMA CapotTookAll ==
  ASSUME RoundInv, Over(board), NEW team \in Team, Capot(Totals(board)) = team
  PROVE  \A i \in DOMAIN board.winners : TeamOf(board.winners[i]) = team
<1> DEFINE D == DOMAIN board.winners
           S == {i \in D : TeamOf(board.winners[i]) = 0}
<1>1. board.winners \in Seq(Position) /\ Size(board.winners) = Tricks
  BY DEF RoundInv, BoardInv, RestOK, BoardOK, FieldsOK
<1>2. D = 1..Tricks /\ \A i \in D : TeamOf(board.winners[i]) \in Team
  BY <1>1, SizeOfSeq, TeamOfSeat
<1>3. IsFiniteSet(D) /\ Cardinality(D) = Tricks
  <2>1. \A k, l \in Int : /\ IsFiniteSet(k..l)
                          /\ Cardinality(k..l) = IF k > l THEN 0 ELSE l - k + 1
    BY FS_Interval
  <2>2. 1 \in Int /\ Tricks \in Int /\ ~(1 > Tricks) BY BoardAssumption
  <2>3. IsFiniteSet(1..Tricks) /\ Cardinality(1..Tricks) = Tricks - 1 + 1
    BY <2>1, <2>2, Zenon
  <2>4. Tricks - 1 + 1 = Tricks BY BoardAssumption
  <2> QED BY <1>2, <2>3, <2>4
<1>4. Totals(board).tricks = Cardinality(S) BY DEF Totals
<1>5. S \in SUBSET D OBVIOUS
<1> HIDE DEF D, S
<1>6. CASE team = 0
  <2>1. Cardinality(D) = Cardinality(S) BY <1>3, <1>4, <1>6, CapotIs
  <2>2. S = D BY <1>3, <1>5, <2>1, FS_Subset
  <2> QED BY <1>6, <2>2 DEF S, D
<1>7. CASE team = 1
  <2>1. Cardinality(S) = 0 BY <1>4, <1>7, CapotIs
  <2>2. S = {} BY <1>3, <1>5, <2>1, FS_Subset, FS_EmptySet
  <2>3. \A i \in D : TeamOf(board.winners[i]) # 0 BY <2>2 DEF S
  <2> QED BY <1>2, <1>7, <2>3 DEF Team, D
<1> QED BY <1>6, <1>7 DEF Team

\* The totals of a board are numbers, and sum up to the live scores.
LEMMA TotalsOfBoard ==
  ASSUME RoundInv
  PROVE  LET T == Totals(board)
         IN  /\ IsTotals(T)
             /\ \A t \in Team : Total(T, t) = board.score[t] /\ T.belote[t] = board.bonus[t]
                                /\ board.score[t] \in Nat
             /\ T.variant = board.contract.variant /\ T.value = board.contract.value
             /\ T.coinched = board.contract.coinched
<1> DEFINE T == Totals(board)
<1>1. /\ T.variant = board.contract.variant /\ T.value = board.contract.value
      /\ T.coinched = board.contract.coinched /\ T.points = board.points
      /\ T.der = board.der /\ T.belote = board.bonus /\ T.announced = board.announced
  BY DEF Totals
<1>2. /\ ScoreOK(board) /\ BelotesOK(board.hands, board.belotes, board.bonus)
      /\ board.contract \in Contract
  BY DEF RoundInv, RoundOK, BeloteOK
<1> HIDE DEF T
<1>3. ASSUME NEW t \in Team PROVE board.bonus[t] \in 0..80
  <2> DEFINE k == Cardinality(PairsOf(board.belotes, t))
  <2>1. board.bonus[t] = 20 * k BY <1>2 DEF BelotesOK
  <2>2. k \in 0..4
    <3> DEFINE D == DOMAIN board.belotes
               S == PairsOf(board.belotes, t)
    <3>1. D \in SUBSET [seat : Position, suit : Suits]
          /\ \A p, q \in D : p.suit = q.suit => p = q
      BY <1>2 DEF BelotesOK
    <3>2. S \in SUBSET D BY DEF PairsOf
    <3> HIDE DEF D, S
    <3>3. S \in SUBSET [seat : Position, suit : Suits]
          /\ \A p, q \in S : p.suit = q.suit => p = q
      BY <3>1, <3>2
    <3>4. Cardinality(S) \in 0..4 BY <3>3, FewPairs
    <3> QED BY <3>4 DEF S
  <2> HIDE DEF k
  <2> QED BY <2>1, <2>2
<1>4. IsTotals(T) BY <1>1, <1>2, <1>3 DEF IsTotals, ScoreOK, IsTally, Contract
<1>5. \A t \in Team : Total(T, t) = board.score[t] /\ board.score[t] \in Nat
  BY <1>1, <1>2 DEF Total, ScoreOK, IsTally
<1> QED BY <1>1, <1>4, <1>5 DEF T

\* Doubled or not, awards compare as they did.
LEMMA TimesKeeps ==
  ASSUME NEW times \in {1, 2}, NEW a \in Nat, NEW b \in 0..80, a >= 162
  PROVE  times * a > times * b
<1>1. CASE times = 1 BY <1>1
<1>2. CASE times = 2 BY <1>2
<1> QED BY <1>1, <1>2

\* The result of a round follows from the scores its players saw.
LEMMA ResultFollows == RoundInv => AwardsFollowScores
<1> SUFFICES ASSUME RoundInv, Over(board)
             PROVE  AwardsFollowScores
  BY DEF AwardsFollowScores
<1> DEFINE r == board.result
           taker == TeamOf(board.contract.declarer)
           times == IF board.contract.coinched THEN 2 ELSE 1
           T == Totals(board)
<1>1. r = Score(T, taker) BY DEF RoundInv, ResultOK
<1>2. taker \in Team BY TeamOfSeat DEF RoundInv, RoundOK, Contract
<1>3. /\ IsTotals(T) /\ T.coinched = board.contract.coinched
      /\ \A t \in Team : Total(T, t) = board.score[t] /\ T.belote[t] = board.bonus[t]
                         /\ board.score[t] \in Nat
      /\ T.variant = board.contract.variant /\ T.value = board.contract.value
  BY TotalsOfBoard
<1>4. Over(board) OBVIOUS
<1> HIDE DEF T, taker
<1>5. /\ (r.made <=> ContractMade(T, taker)) /\ r.capot = Capot(T)
      /\ \A t \in Team : r.awarded[t] = times * Undoubled(T, taker, t)
  BY <1>1, <1>3 DEF Score
<1>6. times \in {1, 2} OBVIOUS
<1>7. Other(taker) \in Team /\ \A t \in Team : Other(t) \in Team /\ Other(Other(t)) = t
  BY <1>2 DEF Team, Other
<1>8. \A t \in Team : T.belote[t] \in 0..80 BY <1>3 DEF IsTotals
<1>9. CASE Capot(T) \in Team
  <2> DEFINE team == Capot(T)
             other == Other(team)
  <2>1. /\ ContractMade(T, taker) <=> team = taker
        /\ Undoubled(T, taker, other) = T.belote[other]
        /\ Undoubled(T, taker, team) \in Nat /\ Undoubled(T, taker, team) >= 250
    BY <1>2, <1>3, <1>9, CapotAwards
  <2>2. team \in Team /\ team # NoTeam BY <1>9 DEF Team, NoTeam
  <2>3. \A i \in DOMAIN board.winners : TeamOf(board.winners[i]) = team
    BY <1>4, <2>2, CapotTookAll DEF T
  <2> HIDE DEF team, other, times, r
  <2>4. r.awarded[team] > r.awarded[other]
    <3>1. other \in Team BY <1>7, <2>2 DEF other
    <3>2. /\ r.awarded[team] = times * Undoubled(T, taker, team)
          /\ r.awarded[other] = times * T.belote[other]
      BY <1>5, <2>1, <2>2, <3>1
    <3>3. T.belote[other] \in 0..80 BY <1>8, <3>1
    <3>4. Undoubled(T, taker, team) >= 162 BY <2>1
    <3>5. times * Undoubled(T, taker, team) > times * T.belote[other]
      BY <1>6, <2>1, <3>3, <3>4, TimesKeeps
    <3> QED BY <3>2, <3>5
  <2>5. r.capot = team BY <1>5 DEF team
  <2>6. r.made <=> team = taker BY <1>5, <2>1
  <2>7. ASSUME ~r.made
        PROVE  /\ r.awarded[taker] = times * board.bonus[taker]
               /\ r.awarded[taker] < r.awarded[Other(taker)]
    <3>1. other = taker /\ Other(taker) = team
      BY <1>2, <2>2, <2>6, <2>7 DEF Team, Other, other
    <3>2. r.awarded[taker] = times * T.belote[taker] BY <1>2, <1>5, <2>1, <3>1
    <3>3. T.belote[taker] = board.bonus[taker] BY <1>2, <1>3
    <3>4. r.awarded[team] \in Int /\ r.awarded[taker] \in Int
      <4>1. T.belote[taker] \in Nat BY <1>2, <1>8
      <4>2. times \in Int BY <1>6
      <4>3. r.awarded[team] = times * Undoubled(T, taker, team) BY <1>5, <2>2
      <4> QED BY <2>1, <3>2, <4>1, <4>2, <4>3
    <3>5. r.awarded[taker] < r.awarded[team] BY <2>4, <3>1, <3>4
    <3> QED BY <3>1, <3>2, <3>3, <3>5
  <2>8. Other(team) = other BY DEF other
  <2> QED BY <2>2, <2>3, <2>4, <2>5, <2>6, <2>7, <2>8
          DEF AwardsFollowScores, taker, times, r
<1>10. CASE Capot(T) = NoTeam
  <2>1. /\ ContractMade(T, taker) <=>
             IF T.variant = "contree" THEN Total(T, taker) >= T.value
             ELSE Total(T, taker) > Total(T, Other(taker))
        /\ ContractMade(T, taker) =>
             \A team \in Team : Undoubled(T, taker, team) = Total(T, team)
        /\ ~ContractMade(T, taker) =>
             /\ Undoubled(T, taker, taker) = T.belote[taker]
             /\ Undoubled(T, taker, Other(taker)) \in Nat
             /\ Undoubled(T, taker, Other(taker)) >= 162
    BY <1>2, <1>3, <1>10, ContractAwards
  <2> HIDE DEF times, r
  <2>2. r.capot = NoTeam BY <1>5, <1>10
  <2>3. r.made <=> IF board.contract.variant = "contree"
                   THEN board.score[taker] >= board.contract.value
                   ELSE board.score[taker] > board.score[Other(taker)]
    BY <1>2, <1>3, <1>5, <1>7, <2>1
  <2>4. r.made => \A t \in Team : r.awarded[t] = times * board.score[t]
    BY <1>3, <1>5, <2>1
  <2>5. ASSUME ~r.made
        PROVE  /\ r.awarded[taker] = times * board.bonus[taker]
               /\ r.awarded[taker] < r.awarded[Other(taker)]
    <3>1. /\ Undoubled(T, taker, taker) = T.belote[taker]
          /\ Undoubled(T, taker, Other(taker)) \in Nat
          /\ Undoubled(T, taker, Other(taker)) >= 162
      BY <1>5, <2>1, <2>5
    <3>2. r.awarded[taker] = times * T.belote[taker] BY <1>2, <1>5, <3>1
    <3>3. r.awarded[Other(taker)] = times * Undoubled(T, taker, Other(taker))
      BY <1>5, <1>7
    <3>4. T.belote[taker] = board.bonus[taker] /\ T.belote[taker] \in 0..80
      BY <1>2, <1>3, <1>8
    <3>5. times * Undoubled(T, taker, Other(taker)) > times * T.belote[taker]
      BY <1>6, <3>1, <3>4, TimesKeeps
    <3>6. r.awarded[Other(taker)] > r.awarded[taker] BY <3>2, <3>3, <3>5
    <3>7. r.awarded[taker] \in Int /\ r.awarded[Other(taker)] \in Int
      <4>1. times \in Int BY <1>6
      <4> QED BY <3>1, <3>2, <3>3, <3>4, <4>1
    <3> QED BY <3>2, <3>4, <3>6, <3>7
  <2> QED BY <2>2, <2>3, <2>4, <2>5 DEF AwardsFollowScores, taker, times, r
<1>11. Capot(T) \in Team \/ Capot(T) = NoTeam BY CapotIs DEF Team, NoTeam
<1> QED BY <1>9, <1>10, <1>11

\* For every deal and contract, one team scores its announcements, for the best of all, and
\* the awards follow the live scores (board.rs, reveal_announcements; scoring.rs).
THEOREM RoundsAreAwarded == Spec => []RoundIsAwarded
<1>1. RoundInv => RoundIsAwarded
  BY TeamAnnounces, ResultFollows DEF RoundIsAwarded
<1> QED BY <1>1, RoundInvariance, PTL

=============================================================================
