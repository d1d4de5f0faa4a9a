SPECIFICATION Spec
CONSTANTS
  long = long
  short = short
  empty = empty
  NoRow = NoRow
  NoHash = NoHash
  NoReq = NoReq
  Files = {f1}
  Contents = {long, short}
  ChunkCount <- MCChunkCount
  Jobs = {j1, j2}
  Kinds = {"upload", "ingest", "index"}
  FullReindex = {FALSE}
  Faults = {"loader", "store"}
  Overlap = "free"
SYMMETRY MCSymmetry
INVARIANT NoHalfChunkSet
INVARIANT QuietIsSearchable
PROPERTY WrittenBeforeIndexed
\* The jobs of the instance run out.
CHECK_DEADLOCK FALSE
