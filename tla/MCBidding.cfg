CONSTANTS
  Tricks = 8
  Suits = {hearts, spades, clubs}
  AllTrumps = FALSE
  Offered = {70, 80, 85, 120, 160, 170}
SPECIFICATION Spec
CHECK_DEADLOCK FALSE
INVARIANTS CallsInTurn SoldOnlyAfterAnswers AuctionEndsWell
PROPERTY ImplementsHand
