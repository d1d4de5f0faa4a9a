SPECIFICATION Spec
CONSTANTS
  long = long
  short = short
  empty = empty
  NoRow = NoRow
  NoHash = NoHash
  NoReq = NoReq
  Files = {f1}
  Contents = {long, short, empty}
  ChunkCount <- MCChunkCount
  Jobs = {j1, j2, j3}
  Kinds = {"upload", "ingest"}
  FullReindex = {FALSE}
  Faults = {"loader", "store", "index", "crash"}
  Overlap = "per_file"
SYMMETRY MCSymmetry
INVARIANT IndexedIsSearchable
INVARIANT UploadInProgressIsPending
PROPERTY ImplementsLifecycle
\* The jobs of the instance run out.
CHECK_DEADLOCK FALSE
