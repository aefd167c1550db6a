SPECIFICATION Spec
CONSTANTS
  Dealers = 2
  Rounds = 3
  Tricks = 2
  Cards = 2
CHECK_DEADLOCK FALSE
INVARIANTS EachMomentIsToldOnce
