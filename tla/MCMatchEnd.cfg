SPECIFICATION EndFairSpec
CONSTANTS
  Games = {g1}
  Matches = 3
  Keep = 2
  Cooldown = 2
  MaxPending = 2
CHECK_DEADLOCK FALSE
INVARIANTS LedgerTellsTheMatches EndingIsLeftAlone
PROPERTIES EndIsShown
