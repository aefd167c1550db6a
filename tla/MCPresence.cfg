CONSTANTS
  NoAccount = NoAccount
  Accounts = {ada}
  Targets = {1000}
  Publics = {TRUE, FALSE}
  Tokens = {t1, t2}
  NoToken = NoToken
  Workers = {w1, w2}
  Streams = {i1, i2}
SPECIFICATION FairSpec
CHECK_DEADLOCK FALSE
CONSTRAINTS PrivateBounds PublicBounds
INVARIANTS TokenNamesItsSeat GoneIsNoticed CountersCountStreams
PROPERTY AbandonedSeatGoesToBot
