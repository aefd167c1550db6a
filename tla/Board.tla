-------------------------------- MODULE Board --------------------------------
(***************************************************************************)
(* The card play of one round (beelot-game, board.rs): cards played in     *)
(* turn, tricks resolved and reviewed, Belote and announcements scored on  *)
(* the way, the last trick played by the board itself, and the result.     *)
(*                                                                         *)
(* The board is one record and each method that changes it an operator     *)
(* from board to board, since continuing plays cards in its turn.  What is *)
(* kept for display only is left out: the latest Belote, the order of the  *)
(* cards in a hand, and the tricks beyond their piles and winners.         *)
(***************************************************************************)
EXTENDS Announcements, Scoring, SequencesExt

CONSTANTS Deals,     \* the hands considered: each maps a seat to its cards
          Contracts, \* the contracts considered
          Dealers    \* the seats that may have dealt: all four in the program

Contract == [trump : Trumps, declarer : Position, variant : {"classic", "contree"},
             value : Nat, coinched : BOOLEAN]

IsDeal(hands) ==
  /\ hands \in [Position -> SUBSET Card]
  /\ \A s \in Position : Cardinality(hands[s]) = Tricks
  /\ \A s, t \in Position : s # t => hands[s] \cap hands[t] = {}
  /\ UNION {hands[s] : s \in Position} = Card

ASSUME BoardAssumption ==
  /\ Tricks \in Nat /\ Tricks >= 2
  /\ IsFiniteSet(Suits) /\ Cardinality(Suits) <= 4   \* four in the program
  /\ IsFiniteSet(Ranks)
  /\ \A hands \in Deals : IsDeal(hands)
  /\ Contracts \subseteq Contract
  /\ Dealers \subseteq Position

VARIABLE board

NoResult == [made |-> FALSE, capot |-> NoTeam, awarded |-> <<>>]

TeamOf(seat) == seat % 2

Pair(seat, suit) == [seat |-> seat, suit |-> suit]
Honours(suit) == {[rank |-> r, suit |-> suit] : r \in {"king", "queen"}}

\* The King and Queen of trump in one hand, by seat and suit.
Belotes(hands, trump) ==
  {p \in [seat : Position, suit : Suits] :
     IsTrump(p.suit, trump) /\ Honours(p.suit) \subseteq hands[p.seat]}

\* new: the seat after the dealer leads.
NewBoard(hands, contract, dealer, announcements) ==
  [hands |-> hands, contract |-> contract, dealer |-> dealer,
   announcements |-> announcements,
   trick |-> <<>>,                  \* current_trick
   winners |-> <<>>,                \* trick_winners, as many as completed_tricks
   piles |-> [t \in Team |-> <<>>], \* top card first
   active |-> Following(dealer), reviewing |-> FALSE,
   score |-> [t \in Team |-> 0],    \* the live scores
   points |-> [t \in Team |-> 0], der |-> [t \in Team |-> 0],
   belotes |-> [p \in Belotes(hands, contract.trump) |-> 0],   \* belote_cards_played
   bonus |-> [t \in Team |-> 0],    \* belote_bonus_by_team
   declared |-> <<>>, revealed |-> <<>>, announced |-> [t \in Team |-> 0],
   result |-> NoResult]

Over(b) == b.result # NoResult
NextLeader(b) == Last(b.winners)

LegalCards(b, seat) ==
  IF b.reviewing \/ seat # b.active THEN {}
  ELSE Legal(b.hands[seat], b.trick, b.contract.trump)

-----------------------------------------------------------------------------
(* Playing a card *)

BeloteOnFirstCard(b, seat, card) ==
  LET p == Pair(seat, card.suit) IN
  IF card.rank \in {"king", "queen"} /\ p \in DOMAIN b.belotes
  THEN [b EXCEPT !.belotes[p] = @ + 1,
                 !.score[TeamOf(seat)] = @ + 10,
                 !.bonus[TeamOf(seat)] = @ + 20]
  ELSE b

\* register_belote: the second card of the pair scores.
RegisterBelote(b, seat, card) ==
  LET p == Pair(seat, card.suit)
      bonus == IF b.belotes[p] = 1 THEN 20 ELSE 0
  IN  IF card.rank \in {"king", "queen"} /\ p \in DOMAIN b.belotes
      THEN [b EXCEPT !.belotes[p] = @ + 1,
                     !.score[TeamOf(seat)] = @ + bonus,
                     !.bonus[TeamOf(seat)] = @ + bonus]
      ELSE b

\* Announcements are declared with the first card, while the hand still has it.
Declare(b, seat, declare) ==
  LET found == Find(b.hands[seat], b.contract.trump)
  IN  IF b.announcements /\ declare /\ Cardinality(b.hands[seat]) = Tricks /\ found # {}
      THEN [b EXCEPT !.declared = Append(@, [seat |-> seat, found |-> found])]
      ELSE b

\* Removes the first card of the hand, whichever was played.
PutDownRemovingFirst(b, seat, card) ==
  [b EXCEPT !.hands[seat] = @ \ {CHOOSE c \in @ : TRUE},
            !.trick = Append(@, [seat |-> seat, card |-> card]),
            !.active = Following(@)]

PutDown(b, seat, card) ==
  [b EXCEPT !.hands[seat] = @ \ {card},
            !.trick = Append(@, [seat |-> seat, card |-> card]),
            !.active = Following(@)]

-----------------------------------------------------------------------------
(* Resolving a trick *)

\* Only the team with the best announcement scores, all of its own.
Revealed(b) ==
  IF b.declared = <<>> THEN <<>>
  ELSE [i \in DOMAIN b.declared |->
          [seat |-> b.declared[i].seat, found |-> b.declared[i].found,
           scored |-> Partners(b.declared[i].seat,
                               BestSeat(b.declared, b.contract.trump))]]

AnnouncedBy(revealed, team) ==
  MapThenSumSet(LAMBDA i : Worth(revealed[i].found),
                {i \in DOMAIN revealed :
                   revealed[i].scored /\ TeamOf(revealed[i].seat) = team})

RevealAnnouncements(b) ==
  LET revealed == Revealed(b)
      announced == [t \in Team |-> AnnouncedBy(revealed, t)]
  IN  IF Len(b.winners) = 1
      THEN [b EXCEPT !.revealed = revealed, !.announced = announced,
                     !.score = [t \in Team |-> @[t] + announced[t]]]
      ELSE b

Totals(b) ==
  [variant |-> b.contract.variant, value |-> b.contract.value,
   coinched |-> b.contract.coinched,
   points |-> b.points, der |-> b.der, belote |-> b.bonus, announced |-> b.announced,
   tricks |-> Cardinality({i \in DOMAIN b.winners : TeamOf(b.winners[i]) = 0})]

CalculateRoundResult(b) ==
  IF Len(b.winners) = Tricks
  THEN [b EXCEPT !.result = Score(Totals(b), TeamOf(b.contract.declarer))]
  ELSE b

TrickCards(trick) == [i \in 1..4 |-> trick[i].card]

TrickPoints(trick, trump) ==
  Points(trick[1].card, trump) + Points(trick[2].card, trump)
    + Points(trick[3].card, trump) + Points(trick[4].card, trump)

\* The trick goes to the winner's team: its cards on top of the pile, its points, and
\* ten more for the last one.
WinTrick(b) ==
  LET winner == b.trick[WinningIndex(b.trick, b.contract.trump)].seat
      team == TeamOf(winner)
      points == TrickPoints(b.trick, b.contract.trump)
      der == IF Len(b.winners) = Tricks - 1 THEN 10 ELSE 0
  IN  [b EXCEPT !.winners = Append(@, winner),
                !.piles[team] = TrickCards(b.trick) \o @,
                !.score[team] = @ + points + der,
                !.points[team] = @ + points,
                !.der[team] = @ + der,
                !.reviewing = TRUE]

ResolveTrick(b) ==
  IF Len(b.trick) = 4
  THEN CalculateRoundResult(RevealAnnouncements(WinTrick(b)))
  ELSE b

-----------------------------------------------------------------------------
(* The methods that change the board *)

\* play, of a legal card of the active seat.
Played(b, card, declare) ==
  ResolveTrick(PutDown(Declare(RegisterBelote(b, b.active, card), b.active, declare),
                       b.active, card))

\* A card the board plays for the active seat, whose only one it is.  An illegal card
\* would be refused, and the round left unfinished.
PlayedAlone(b) ==
  LET card == CHOOSE c \in b.hands[b.active] : TRUE
  IN  IF card \in LegalCards(b, b.active) THEN Played(b, card, FALSE) ELSE b

CollectedKeepingTurn(b) == [b EXCEPT !.trick = <<>>, !.reviewing = FALSE]

Collected(b) ==
  [b EXCEPT !.trick = <<>>, !.reviewing = FALSE, !.active = NextLeader(b)]

\* continue_after_trick: the trick is collected, and the last one played.
Continued(b) ==
  LET collected == Collected(b)
  IN  IF Len(b.winners) = Tricks - 1
      THEN PlayedAlone(PlayedAlone(PlayedAlone(PlayedAlone(collected))))
      ELSE collected

Play(card, declare) ==
  /\ card \in LegalCards(board, board.active)
  /\ board' = Played(board, card, declare)

ContinueAfterTrick ==
  /\ ~Over(board) /\ board.reviewing
  /\ board' = Continued(board)

\* gathered_deck: both piles counted, the next dealer's on top.
GatheredDeck(b, nextDealer) ==
  LET team == TeamOf(nextDealer)
  IN  Reverse(b.piles[team]) \o Reverse(b.piles[Other(team)])

-----------------------------------------------------------------------------
(* The specification *)

Init ==
  \E hands \in Deals, contract \in Contracts, dealer \in Dealers,
     announcements \in BOOLEAN :
    board = NewBoard(hands, contract, dealer, announcements)

Next ==
  \/ \E card \in Card, declare \in BOOLEAN : Play(card, declare)
  \/ ContinueAfterTrick

Spec == Init /\ [][Next]_board
-----------------------------------------------------------------------------
(* What the board promises *)

InHands(b) == UNION {b.hands[s] : s \in Position}
TrickOnTable(b) == IF b.reviewing THEN {} ELSE {b.trick[i].card : i \in DOMAIN b.trick}
PileCards(b, team) == ToSet(b.piles[team])

\* Of a deck, every card is there and none twice.
IsWholeDeck(cards) == ToSet(cards) = Card /\ Len(cards) = 4 * Tricks

\* No card is lost and none is doubled, whoever won it: every card is in one hand, on the
\* table or in one pile, seats have played as many cards as the trick has reached them,
\* and the deck gathered for the next deal is whole, as Deck::new asserts.
CardsAreConserved ==
  /\ InHands(board) \cup TrickOnTable(board)
       \cup PileCards(board, 0) \cup PileCards(board, 1) = Card
  /\ \A t \in Team : PileCards(board, t) \cap
       (InHands(board) \cup TrickOnTable(board) \cup PileCards(board, Other(t))) = {}
  /\ \A s \in Position :
       Cardinality(board.hands[s]) =
         Tricks - Len(board.winners)
           - IF \E i \in DOMAIN board.trick : board.trick[i].seat = s /\ ~board.reviewing
             THEN 1 ELSE 0
  /\ Over(board) => \A dealer \in Position : IsWholeDeck(GatheredDeck(board, dealer))

\* The strongest of the cards played: the highest trump in a suit contract, if there is
\* a trump, and else the highest card of the suit led.
StrongestPlay(trick, trump) ==
  LET ruffs == {i \in DOMAIN trick : SuitContract(trump) /\ trick[i].card.suit = trump}
      able == IF ruffs # {} THEN ruffs
              ELSE {i \in DOMAIN trick : trick[i].card.suit = Lead(trick)}
  IN  CHOOSE i \in able : \A j \in able \ {i} :
        Strength(trick[i].card, trump) > Strength(trick[j].card, trump)

\* A completed trick is won by the strongest card played, though the code only ever
\* compares a card with the winner so far.
StrongestCardWins ==
  board.reviewing =>
    NextLeader(board) = board.trick[StrongestPlay(board.trick, board.contract.trump)].seat

WouldWin(trick, seat, card, trump) ==
  StrongestPlay(Append(trick, [seat |-> seat, card |-> card]), trump) = Len(trick) + 1

\* rules.rs:84-89, card by card: follow suit; without the suit led, trump, unless the
\* partner is winning or one suit is not trump; and wherever a trump is asked for, take
\* the lead with it if a card that may be played can.
MayPlay(card, hand, trick, seat, trump) ==
  LET lead == Lead(trick)
      follows == \E c \in hand : c.suit = lead
      mustTrump == /\ ~follows /\ SuitContract(trump)
                   /\ \E c \in hand : c.suit = trump
                   /\ ~Partners(trick[StrongestPlay(trick, trump)].seat, seat)
      suited == {c \in hand : /\ follows => c.suit = lead
                              /\ mustTrump => c.suit = trump}
      mustWin == mustTrump \/ (follows /\ IsTrump(lead, trump))
  IN  /\ card \in suited
      /\ mustWin => \/ WouldWin(trick, seat, card, trump)
                    \/ \A c \in suited : ~WouldWin(trick, seat, c, trump)

\* The seat to play always has a card it may play, and may play exactly those the rules
\* allow: all of them to a new trick.
LegalAsTheRulesSay ==
  ~board.reviewing =>
    LET seat == board.active
        hand == board.hands[seat]
    IN  /\ LegalCards(board, seat) # {}
        /\ LegalCards(board, seat) =
             {c \in hand : board.trick = <<>> \/
                MayPlay(c, hand, board.trick, seat, board.contract.trump)}

PointsOf(cards, trump) == MapThenSumSet(LAMBDA c : Points(c, trump), cards)

\* The live scores and the totals of the result are kept apart and never differ: a team
\* has the points of the cards it won, ten for the last trick, twenty for each pair of
\* King and Queen of trump it was dealt, once both are played, and its announcements.
ScoresAddUp ==
  /\ \A t \in Team :
       /\ board.score[t] = board.points[t] + board.der[t] + board.bonus[t]
                             + board.announced[t]
       /\ board.points[t] = PointsOf(PileCards(board, t), board.contract.trump)
       /\ board.bonus[t] =
            20 * Cardinality({p \in DOMAIN board.belotes :
                   /\ TeamOf(p.seat) = t
                   /\ Honours(p.suit) \cap board.hands[p.seat] = {}})
  /\ board.der[0] + board.der[1] = IF Over(board) THEN 10 ELSE 0

\* Seats declare once, in turn, on the first trick; then one team scores all it declared,
\* and no announcement of the other is stronger than its best, or as strong and earlier.
OneTeamAnnounces ==
  LET scored == {i \in DOMAIN board.revealed : board.revealed[i].scored}
      beaten == DOMAIN board.revealed \ scored
      trump == board.contract.trump
  IN  /\ \A i, j \in DOMAIN board.declared : i < j =>
           (board.declared[i].seat - board.dealer + 3) % 4
             < (board.declared[j].seat - board.dealer + 3) % 4
      /\ board.winners # <<>> => Len(board.revealed) = Len(board.declared)
      /\ board.revealed # <<>> =>
           \E i \in scored : \E a \in board.revealed[i].found :
             /\ \A j \in beaten : \A b \in board.revealed[j].found :
                  Stronger(a, b, trump) \/ (i < j /\ ~Stronger(b, a, trump))
             /\ board.announced[TeamOf(board.revealed[i].seat)] > 0
             /\ board.announced[1 - TeamOf(board.revealed[i].seat)] = 0
      /\ \A i \in scored, j \in beaten :
           TeamOf(board.revealed[i].seat) # TeamOf(board.revealed[j].seat)

\* The result follows from the live scores the players saw: the taker makes a contract
\* by its score, both keep their scores if it does, and if it fails it keeps Belote and
\* scores less than the defence; a team that took every trick scores more than the other.
AwardsFollowScores ==
  LET r == board.result
      taker == TeamOf(board.contract.declarer)
      times == IF board.contract.coinched THEN 2 ELSE 1
  IN  Over(board) =>
        /\ r.capot # NoTeam =>
             /\ \A i \in DOMAIN board.winners : TeamOf(board.winners[i]) = r.capot
             /\ r.made <=> r.capot = taker
             /\ r.awarded[r.capot] > r.awarded[Other(r.capot)]
        /\ r.capot = NoTeam =>
             r.made <=> IF board.contract.variant = "contree"
                        THEN board.score[taker] >= board.contract.value
                        ELSE board.score[taker] > board.score[Other(taker)]
        /\ r.made /\ r.capot = NoTeam =>
             \A t \in Team : r.awarded[t] = times * board.score[t]
        /\ ~r.made => /\ r.awarded[taker] = times * board.bonus[taker]
                      /\ r.awarded[taker] < r.awarded[Other(taker)]

\* The hand, as the table sees it: the winner leads next while a trick is reviewed.
ViewOf(b) ==
  [phase |-> IF Over(b) THEN "over" ELSE IF b.reviewing THEN "review" ELSE "play",
   dealer |-> b.dealer,
   active |-> IF b.reviewing /\ ~Over(b) THEN NextLeader(b) ELSE b.active,
   cards |-> Len(b.trick),
   tricks |-> Len(b.winners)]

handView == ViewOf(board)

Promise == INSTANCE HandPromise WITH hand <- handView
ImplementsHand == Promise!HandSpec

\* What the round adds to the match: the announcements of one team, and the awards.
RoundIsAwarded == OneTeamAnnounces /\ AwardsFollowScores

=============================================================================
