-------------------------------- MODULE Rules --------------------------------
(***************************************************************************)
(* Cards and the rules of play (beelot-game, card.rs and rules.rs): which  *)
(* card beats which under a trump suit, all trumps or no trumps, what a    *)
(* card is worth, and which cards of a hand may be played on a trick.      *)
(*                                                                         *)
(* A hand is the set of its cards: nothing here depends on their order.    *)
(***************************************************************************)
EXTENDS Positions, Integers, Sequences, FiniteSets

CONSTANTS Suits,   \* the suits of the deck: four in the program
          Ranks    \* the ranks of the deck: all eight in the program

\* Orders and points are records, from the rank to its place or its worth.
NaturalOrder == [seven |-> 0, eight |-> 1, nine |-> 2, ten |-> 3, jack |-> 4,
                 queen |-> 5, king |-> 6, ace |-> 7]
TrumpOrder == [seven |-> 0, eight |-> 1, queen |-> 2, king |-> 3, ten |-> 4,
               ace |-> 5, nine |-> 6, jack |-> 7]
PlainOrder == [seven |-> 0, eight |-> 1, nine |-> 2, jack |-> 3, queen |-> 4,
               king |-> 5, ten |-> 6, ace |-> 7]

TrumpPoints == [seven |-> 0, eight |-> 0, nine |-> 14, ten |-> 10, jack |-> 20,
                queen |-> 3, king |-> 4, ace |-> 11]
PlainPoints == [seven |-> 0, eight |-> 0, nine |-> 0, ten |-> 10, jack |-> 2,
                queen |-> 3, king |-> 4, ace |-> 11]
AllTrumpsPoints == [seven |-> 0, eight |-> 0, nine |-> 9, ten |-> 5, jack |-> 13,
                    queen |-> 2, king |-> 3, ace |-> 6]
NoTrumpsPoints == [seven |-> 0, eight |-> 0, nine |-> 0, ten |-> 10, jack |-> 2,
                   queen |-> 3, king |-> 4, ace |-> 19]

ASSUME RulesAssumption ==
  /\ Ranks \subseteq DOMAIN NaturalOrder
  /\ {"allTrumps", "noTrumps"} \cap Suits = {}

Card == [rank : Ranks, suit : Suits]
Trumps == Suits \cup {"allTrumps", "noTrumps"}

-----------------------------------------------------------------------------
(* Cards under a trump *)

IsTrump(suit, trump) == trump = "allTrumps" \/ trump = suit
SuitContract(trump) == trump \in Suits

Strength(card, trump) ==
  IF IsTrump(card.suit, trump) THEN TrumpOrder[card.rank] ELSE PlainOrder[card.rank]

Points(card, trump) ==
  CASE trump = "allTrumps" -> AllTrumpsPoints[card.rank]
    [] trump = "noTrumps" -> NoTrumpsPoints[card.rank]
    [] trump = card.suit -> TrumpPoints[card.rank]
    [] OTHER -> PlainPoints[card.rank]

BeatsAcrossSuits(card, winner, lead, trump) ==
  IF card.suit = winner.suit
  THEN Strength(card, trump) > Strength(winner, trump)
  ELSE \/ IsTrump(card.suit, trump)
       \/ ~IsTrump(winner.suit, trump) /\ card.suit = lead

\* Outside suit contracts, no card beats one of another suit.
Beats(card, winner, lead, trump) ==
  IF card.suit = winner.suit
  THEN Strength(card, trump) > Strength(winner, trump)
  ELSE /\ SuitContract(trump)
       /\ \/ IsTrump(card.suit, trump)
          \/ ~IsTrump(winner.suit, trump) /\ card.suit = lead

-----------------------------------------------------------------------------
(* A trick: the cards played, with their seats, the first being the lead *)

Lead(trick) == trick[1].card.suit

\* The later of two cards of the trick, if it is played and beats the earlier one.
Winning(trick, trump, winner, next) ==
  IF next <= Len(trick)
     /\ Beats(trick[next].card, trick[winner].card, Lead(trick), trump)
  THEN next ELSE winner

\* winning_index, counted from one: each card in turn against the winner so far.
WinningIndex(trick, trump) ==
  Winning(trick, trump, Winning(trick, trump, Winning(trick, trump, 1, 2), 3), 4)

InSuit(cards, suit) == {c \in cards : c.suit = suit}
TrumpsAmong(cards, trump) == {c \in cards : IsTrump(c.suit, trump)}

\* The cards that overtrump the winner, when there are any.
PreferHigher(cards, winner, trump) ==
  LET higher == {c \in cards : \/ ~IsTrump(winner.suit, trump)
                               \/ Strength(c, trump) > Strength(winner, trump)}
  IN  IF higher = {} THEN cards ELSE higher

LegalUnderTrumping(hand, trick, trump) ==
  LET lead == Lead(trick)
      winner == WinningIndex(trick, trump)
      following == InSuit(hand, lead)
      trumps == TrumpsAmong(hand, trump)
  IN  CASE trick = <<>> -> hand
        [] trick # <<>> /\ following # {} ->
             IF IsTrump(lead, trump)
             THEN PreferHigher(following, trick[winner].card, trump)
             ELSE following
        [] trick # <<>> /\ following = {} ->
             IF winner + 1 = Len(trick) \/ ~SuitContract(trump) \/ trumps = {}
             THEN hand ELSE trumps

\* A player follows the suit led, and overtakes when it is trump.  Who cannot follow must
\* trump, higher if possible, unless the partner is winning the trick.
Legal(hand, trick, trump) ==
  LET lead == Lead(trick)
      winner == WinningIndex(trick, trump)
      following == InSuit(hand, lead)
      trumps == TrumpsAmong(hand, trump)
  IN  CASE trick = <<>> -> hand
        [] trick # <<>> /\ following # {} ->
             IF IsTrump(lead, trump)
             THEN PreferHigher(following, trick[winner].card, trump)
             ELSE following
        [] trick # <<>> /\ following = {} ->
             IF winner + 1 = Len(trick) \/ ~SuitContract(trump) \/ trumps = {}
             THEN hand
             ELSE PreferHigher(trumps, trick[winner].card, trump)

=============================================================================
