CONSTANTS
  MaxEntries = 4
  MaxSteps = 1
SPECIFICATION SheetsSpec
INVARIANTS HistoryMatchesSheets
