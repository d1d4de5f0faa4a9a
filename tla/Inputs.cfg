SPECIFICATION InputsSpec
CONSTANTS
  Drawings <- MCDrawings
  Vocabulary <- MCVocabulary
  Dictionary <- MCDictionary
  Exceptions <- MCExceptions
  Reach <- MCReach
  Lengths = {1, 2, 4, 6}
  WindowChars = 9
  WindowStride = 3
  MaxWords = 3
  MaxUnits = 7
  trapped = trapped
  untrapped = untrapped
  easy = easy
  NoFile = NoFile
  AdversarialSet <- MCAdversarialSet
  RetrievalSet <- MCRetrievalSet
  Groups <- MCGroups
  Responses <- MCResponses
  Limits = {1, 9}
  MaxRate <- MCMaxRate
INVARIANT NothingLost
INVARIANT CellsApart
INVARIANT Restored
INVARIANT PremiseCovered
INVARIANT GradesHold
\* Each behaviour ends at its bound.
CHECK_DEADLOCK FALSE
