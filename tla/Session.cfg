SPECIFICATION Spec
CONSTANTS
  Tabs = {a, b}
  Calls = {c1, c2}
  Overlap = {}
  StrictMode = FALSE
  MaxMints = 4
  MaxVersion = 2
  None = None
SYMMETRY MCSymmetry
INVARIANT SingleFlight
INVARIANT CookieCoversTokens
INVARIANT RevivedIsDead
INVARIANT WaitersHaveARefresh
PROPERTY NotSignedOutByRaces
PROPERTY RetrySucceeds
PROPERTY BootFindsSession
