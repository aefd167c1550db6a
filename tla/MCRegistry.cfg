CONSTANTS
  Ids = {a, b}
  InviteCodes = {k1}
  NoCode = NoCode
  Workers = {w1, w2}
  NoWorker = NoWorker
  NoId = NoId
  Places = 2
  MaxLocal = 1
  MaxOnline = 2
  Width = 16
SPECIFICATION FairSpec
CHECK_DEADLOCK FALSE
CONSTRAINT DrawsDiffer
INVARIANTS CodesLeadToTables OneOpenTable
PROPERTY EmptyTablesGo
