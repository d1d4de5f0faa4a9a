SPECIFICATION FairSpec
CONSTANTS
  NoThread = NoThread
  r1 = r1
  r2 = r2
  Requests = {r1, r2}
  Preloads = {"nli"}
  Failures = {"cache", "network", "head", "search"}
  Routes <- MCRoutes
  Deployments = {"openai", "gemini"}
  MaxAttempts = 2
INVARIANT ModelsAreWhole
INVARIANT LatencyAddsUp
INVARIANT AnswersAreHonest
PROPERTY RequestsEnd
\* Every request is answered once.
CHECK_DEADLOCK FALSE
