CONSTANTS
  hearts = hearts
  spades = spades
  clubs = clubs
  Suits = {hearts, spades, clubs}
  Ranks = {"jack", "queen", "king", "ace"}
  Tricks = 3
  Dealers = {3}
  Deals <- MCDeals
  Contracts <- MCContracts
SPECIFICATION Spec
CHECK_DEADLOCK FALSE
INVARIANTS CardsAreConserved StrongestCardWins LegalAsTheRulesSay ScoresAddUp RoundIsAwarded
PROPERTY ImplementsHand
