SPECIFICATION HistorySpec
CONSTANTS
  MaxEntries = 4
  MaxFailures = 2
  MaxRestarts = 3
INVARIANTS LatestSurvives FileKeepsUp
CHECK_DEADLOCK FALSE
