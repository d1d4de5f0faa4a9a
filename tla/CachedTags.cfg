SPECIFICATION Spec
CONSTANTS
  a = a
  b = b
  NoPassage = NoPassage
  MaxScore = 1
  Threshold = 1
  Passages <- MCPassages
  Requests = {r1}
  Questions = {q}
  Statements = {s}
  Chunks = {a, b}
  Versions <- MCVersions
  Models = {m1, m2}
  Generations <- MCGenerations
  Unvalidated = {m2}
  Garbled = Garbled
  Relevance <- MCRelevance
  CandidateK = 2
  TopK = 2
  MaxAttempts = 2
  MaxTokens = 1
  MaxEntries = 1
INVARIANT TagsMeanWhatWasShown
