CONSTANTS
  MaxVersion = 4
  OnlineVersions = 3
  Slots = {c1, c2}
  PrivateSlots = {c1}
  AuctionLength = 2
SPECIFICATION FairSpec
CHECK_DEADLOCK FALSE
INVARIANTS TheirReactionOnce OnlineStreamOnlyAtTheTable
PROPERTIES OnlineScreenNeverGoesBack PresentSeesTheNewest
