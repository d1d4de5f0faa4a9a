SPECIFICATION FairSpec
CONSTANTS
  long = long
  short = short
  empty = empty
  NoRow = NoRow
  NoHash = NoHash
  NoReq = NoReq
  Files = {f1}
  Contents = {short}
  ChunkCount <- MCChunkCount
  Jobs = {j1, j2}
  Kinds = {"upload"}
  FullReindex = {FALSE}
  Faults = {"loader"}
  Overlap = "free"
PROPERTY UploadSettles
\* The jobs of the instance run out.
CHECK_DEADLOCK FALSE
