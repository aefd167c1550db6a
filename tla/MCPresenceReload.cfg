CONSTANTS
  NoAccount = NoAccount
  Accounts = {}
  Targets = {1000}
  Publics = {TRUE}
  Tokens = {t1}
  NoToken = NoToken
  Workers = {w1, w2}
  Streams = {i1, i2}
SPECIFICATION Spec
CHECK_DEADLOCK FALSE
INVARIANT OpenStreamKeepsSeat
