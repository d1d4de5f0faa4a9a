SPECIFICATION FairSpec
CONSTANTS
  MaxQueries = 2
  MaxTokens = 1
  HistoryLimit = 2
  Cuts = {0, 2, 3}
INVARIANT OnlyTheLatest
INVARIANT FramesAsSent
INVARIANT RecordedOnce
PROPERTY BusyEnds
\* The page may be left for good, with every question asked.
CHECK_DEADLOCK FALSE
