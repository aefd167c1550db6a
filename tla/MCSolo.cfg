CONSTANTS
  InOrder = TRUE
  Tricks = 2
  MaxRequests = 2
SPECIFICATION FairSpec
CHECK_DEADLOCK FALSE
PROPERTIES MatchGoesOn
