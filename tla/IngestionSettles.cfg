SPECIFICATION FairSpec
CONSTANTS
  long = long
  short = short
  empty = empty
  NoRow = NoRow
  NoHash = NoHash
  NoReq = NoReq
  Files = {f1}
  Contents = {long, short}
  ChunkCount <- MCChunkCount
  Jobs = {j1, j2, j3}
  Kinds = {"upload", "index"}
  FullReindex = {TRUE}
  Faults = {"index"}
  Overlap = "per_file"
INVARIANT IndexedMatchesHash
PROPERTY UploadSettles
PROPERTY RebuildIsExact
\* The jobs of the instance run out.
CHECK_DEADLOCK FALSE
