--------------------------- MODULE IngestionProofs ---------------------------
(***************************************************************************)
(* Proofs about the ingestion pipeline, for any files, contents and jobs:  *)
(* what is stored, searchable and recorded, that the pipeline implements   *)
(* the document lifecycle, and that each job advances and is never stuck.  *)
(***************************************************************************)
EXTENDS Ingestion, FiniteSets, FiniteSetTheorems, TLAPS

-----------------------------------------------------------------------------
(* The requests a job may serve at a label, and the facts the steps use.   *)

LEMMA RequestFacts ==
  ASSUME TypeOK, NEW j \in Jobs, pc[j] # "idle"
  PROVE  /\ IsIngest(j) => req[j] \in IngestReq
         /\ ~IsIngest(j) => req[j] \in IndexReq
         /\ Targets(j) \subseteq Backends
  <1>1. req[j] \in IngestReq \cup IndexReq
    BY DEF TypeOK
  <1>2. CASE req[j] \in IngestReq
    BY <1>2 DEF IsIngest, Targets, IngestReq
  <1>3. CASE req[j] \in IndexReq
    BY <1>3 DEF IsIngest, Targets, IndexReq
  <1> QED BY <1>1, <1>2, <1>3

LEMMA EntryTypes ==
  ASSUME NEW rows \in SUBSET ChunkRow
  PROVE  EntriesOf(rows) \in SUBSET Entry
  BY DEF EntriesOf, EntryOf, ChunkRow, Entry

LEMMA NewRowTypes ==
  ASSUME TypeOK, NEW j \in Jobs, pc[j] \in IngestOnly
  PROVE  NewRows(j) \in SUBSET ChunkRow
  <1>1. req[j].file \in Files /\ req[j].content \in Contents
    BY DEF TypeOK, IngestReq
  <1>2. ChunkCount[req[j].content] \in Nat
    BY <1>1, IngestionAssumption
  <1> QED BY <1>1, <1>2 DEF NewRows, ChunkRow
LEMMA StatusTypes ==
  ASSUME TypeOK, NEW f \in Files, NEW s \in {"indexed", "failed"}, NEW e \in BOOLEAN,
         SetStatus(f, s, e)
  PROVE  docs' \in [Files -> DocRow \cup {NoRow}]
  <1>1. docs[f] \in DocRow
    BY DEF TypeOK, SetStatus
  <1>2. [hash |-> docs[f].hash, count |-> docs[f].count, status |-> s, error |-> e] \in DocRow
    BY <1>1 DEF DocRow
  <1> QED BY <1>2 DEF TypeOK, SetStatus

LEMMA ReserveTypes ==
  ASSUME TypeOK, NEW f \in Files, Reserve(f)
  PROVE  docs' \in [Files -> DocRow \cup {NoRow}]
  <1>1. CASE docs[f] = NoRow
    BY <1>1 DEF TypeOK, Reserve, DocRow
  <1>2. CASE docs[f] # NoRow
    <2>1. docs[f] \in DocRow
      BY <1>2 DEF TypeOK
    <2>2. [hash |-> docs[f].hash, count |-> docs[f].count,
           status |-> "pending", error |-> FALSE] \in DocRow
      BY <2>1 DEF DocRow
    <2> QED BY <1>2, <2>2 DEF TypeOK, Reserve
  <1> QED BY <1>1, <1>2

\* What a call into an index does to the entries keeps their type.
LEMMA EntriesWritten ==
  ASSUME TypeOK, NEW j \in Jobs,
         Ensured(j) \/ Upserted(j) \/ \E r \in todo[j] : Sent(j, r)
  PROVE  entries' \in [Backends -> SUBSET Entry]
  <1>1. CASE Ensured(j)
    BY <1>1 DEF TypeOK, Ensured, Recreate, Backends
  <1>2. CASE Upserted(j)
    <2>1. PICK new \in LastWins(stored[j]) :
            entries' = [entries EXCEPT !["qdrant"] = Upsert(entries["qdrant"], new)]
      BY <1>2 DEF Upserted
    <2>2. new \in SUBSET Entry
      BY EntryTypes DEF LastWins, TypeOK
    <2> QED BY <2>1, <2>2 DEF TypeOK, Upsert, Backends
  <1>3. CASE \E r \in todo[j] : Sent(j, r)
    <2>1. PICK r \in todo[j] : Sent(j, r)
      BY <1>3
    <2>2. EntryOf(r) \in Entry
      BY DEF TypeOK, EntryOf, Entry, ChunkRow
    <2> QED BY <2>1, <2>2 DEF TypeOK, Sent, Upsert, Backends
  <1> QED BY <1>1, <1>2, <1>3
-----------------------------------------------------------------------------
LEMMA TypeInit == Init => TypeOK
  BY DEF Init, TypeOK, Labels, Ended, IngestOnly

LEMMA StartKeepsType ==
  ASSUME TypeOK, NEW j \in Jobs, Start(j)
  PROVE  TypeOK'
  <1>1. CASE \E f \in Files, c \in Contents : Upload(j, f, c)
    <2>1. PICK f \in Files, c \in Contents : Upload(j, f, c)
      BY <1>1
    <2>2. docs' \in [Files -> DocRow \cup {NoRow}]
      BY <2>1, ReserveTypes DEF Upload
    <2> QED BY <2>1, <2>2 DEF Upload, Goto, TypeOK, Labels, IngestOnly, IngestReq
  <1>2. CASE \E f \in Files, c \in Contents, force \in BOOLEAN, full \in FullReindex :
               IngestCli(j, f, c, force, full)
    BY <1>2, IngestionAssumption DEF IngestCli, Goto, TypeOK, Labels, IngestOnly, IngestReq
  <1>3. CASE \E scope \in {{f} : f \in Files} \cup {Files},
                targets \in (SUBSET Backends) \ {{}}, full \in FullReindex :
               IndexCli(j, scope, targets, full)
    BY <1>3, IngestionAssumption DEF IndexCli, Goto, TypeOK, Labels, IngestOnly, IndexReq
  <1> QED BY <1>1, <1>2, <1>3 DEF Start

LEMMA WorkKeepsType ==
  ASSUME TypeOK, NEW j \in Jobs, Work(j)
  PROVE  TypeOK'
  <1> USE DEF TypeOK, Goto, Labels, IngestOnly
  <1>1. CASE FindByFilename(j)
    BY <1>1 DEF FindByFilename
  <1>2. CASE RecordIngestion(j)
    <2>1. req[j].file \in Files /\ req[j].content \in Contents
      BY <1>2 DEF RecordIngestion, IngestReq
    <2>2. ChunkCount[req[j].content] \in Nat
      BY <2>1, IngestionAssumption
    <2>3. docs' \in [Files -> DocRow \cup {NoRow}]
      BY <1>2, <2>1, <2>2 DEF RecordIngestion, DocRow
    <2> QED BY <1>2, <2>3 DEF RecordIngestion
  <1>3. CASE DeleteChunks(j)
    BY <1>3 DEF DeleteChunks, RowsOf
  <1>4. CASE AcquireRowLocks(j)
    BY <1>4 DEF AcquireRowLocks
  <1>5. CASE CommitChunks(j)
    <2>1. NewRows(j) \in SUBSET ChunkRow
      BY <1>5, NewRowTypes DEF CommitChunks
    <2> QED BY <1>5, <2>1 DEF CommitChunks
  <1>6. CASE ListForDocument(j)
    <2>1. pc[j] # "idle"
      BY <1>6 DEF ListForDocument
    <2>2. AfterIndexing(j) = "set_indexed" => req[j] \in IngestReq
      BY <2>1, RequestFacts DEF AfterIndexing
    <2>3. AfterIndexing(j) \in {"set_indexed", "done"}
      BY DEF AfterIndexing
    <2> QED BY <1>6, <2>2, <2>3 DEF ListForDocument, RowsOf, Ended
  <1>7. CASE EnsureIndex(j)
    <2>1. entries' \in [Backends -> SUBSET Entry]
      BY <1>7, EntriesWritten DEF EnsureIndex
    <2> QED BY <1>7, <2>1 DEF EnsureIndex, Ensured
  <1>8. CASE UpsertPoints(j)
    <2>1. entries' \in [Backends -> SUBSET Entry]
      BY <1>8, EntriesWritten DEF UpsertPoints
    <2>2. pc[j] # "idle"
      BY <1>8 DEF UpsertPoints, Upserted
    <2>3. AfterIndexing(j) = "set_indexed" => req[j] \in IngestReq
      BY <2>2, RequestFacts DEF AfterIndexing
    <2>4. AfterIndexing(j) \in {"set_indexed", "done"}
      BY DEF AfterIndexing
    <2> QED BY <1>8, <2>1, <2>2, <2>3, <2>4 DEF UpsertPoints, Ended
  <1>9. CASE \E r \in todo[j] : IndexChunk(j, r)
    <2>1. PICK r \in todo[j] : IndexChunk(j, r)
      BY <1>9
    <2>2. entries' \in [Backends -> SUBSET Entry]
      BY <2>1, EntriesWritten DEF IndexChunk
    <2>3. pc[j] # "idle"
      BY <2>1 DEF IndexChunk, Sent
    <2>4. AfterIndexing(j) = "set_indexed" => req[j] \in IngestReq
      BY <2>3, RequestFacts DEF AfterIndexing
    <2>5. AfterIndexing(j) \in {"set_indexed", "done"}
      BY DEF AfterIndexing
    <2> QED BY <2>1, <2>2, <2>3, <2>4, <2>5 DEF IndexChunk, Ended
  <1>10. CASE SetIndexed(j)
    <2>1. req[j].file \in Files
      BY <1>10 DEF SetIndexed, IngestReq
    <2>2. docs' \in [Files -> DocRow \cup {NoRow}]
      BY <1>10, <2>1, StatusTypes DEF SetIndexed
    <2> QED BY <1>10, <2>2 DEF SetIndexed, End, Ended
  <1>11. CASE SetFailed(j)
    <2>1. req[j].file \in Files
      BY <1>11 DEF SetFailed, IngestReq
    <2>2. docs' \in [Files -> DocRow \cup {NoRow}]
      BY <1>11, <2>1, StatusTypes DEF SetFailed
    <2> QED BY <1>11, <2>2 DEF SetFailed, End, Ended
  <1> QED BY <1>1, <1>2, <1>3, <1>4, <1>5, <1>6, <1>7, <1>8, <1>9, <1>10, <1>11 DEF Work

LEMMA FaultKeepsType ==
  ASSUME TypeOK, NEW j \in Jobs, Fault(j)
  PROVE  TypeOK'
  <1> USE DEF TypeOK, Goto, End, Labels, IngestOnly, Ended
  <1>1. CASE LoaderFails(j)
    BY <1>1 DEF LoaderFails
  <1>2. CASE StoreFails(j)
    BY <1>2 DEF StoreFails
  <1>3. CASE IndexingFails(j)
    <2>1. entries' \in [Backends -> SUBSET Entry]
      BY <1>3, EntriesWritten DEF IndexingFails
    <2>2. pc[j] # "idle"
      BY <1>3 DEF IndexingFails
    <2>3. IsIngest(j) => req[j] \in IngestReq
      BY <2>2, RequestFacts
    <2>4. CASE IsIngest(j)
      BY <1>3, <2>1, <2>2, <2>3, <2>4 DEF IndexingFails
    <2>5. CASE ~IsIngest(j)
      BY <1>3, <2>1, <2>2, <2>5 DEF IndexingFails
    <2> QED BY <2>4, <2>5
  <1>4. CASE CommandDies(j)
    BY <1>4 DEF CommandDies, Running
  <1> QED BY <1>1, <1>2, <1>3, <1>4 DEF Fault

LEMMA BackendDeathKeepsType == TypeOK /\ BackendDies => TypeOK'
  BY DEF BackendDies, TypeOK, Labels, IngestOnly, Ended, Running

LEMMA TypeStep == TypeOK /\ [Next]_vars => TypeOK'
  <1> SUFFICES ASSUME TypeOK, [Next]_vars PROVE TypeOK'
    OBVIOUS
  <1>1. ASSUME NEW j \in Jobs, Start(j) \/ Work(j) \/ Fault(j) PROVE TypeOK'
    BY <1>1, StartKeepsType, WorkKeepsType, FaultKeepsType
  <1>2. CASE BackendDies
    BY <1>2, BackendDeathKeepsType
  <1>3. CASE UNCHANGED vars
    BY <1>3 DEF vars, TypeOK
  <1> QED BY <1>1, <1>2, <1>3 DEF Next

(* Every variable keeps its type, and a job at a label of `ingest` serves  *)
(* an ingest request.                                                      *)
THEOREM TypeCorrect == Spec => []TypeOK
  BY TypeInit, TypeStep, PTL DEF Spec
-----------------------------------------------------------------------------
(* The error column. *)

LEMMA ErrorStep ==
  ASSUME TypeOK, ErrorIffFailed, [Next]_vars
  PROVE  ErrorIffFailed'
  <1> USE DEF ErrorIffFailed
  <1>1. ASSUME NEW f \in Files, Reserve(f) PROVE ErrorIffFailed'
    BY <1>1 DEF Reserve, TypeOK
  <1>2. ASSUME NEW f \in Files, NEW s \in {"indexed", "failed"},
               SetStatus(f, s, s = "failed")
        PROVE  ErrorIffFailed'
    BY <1>2 DEF SetStatus, TypeOK
  <1>3. ASSUME NEW j \in Jobs, RecordIngestion(j) PROVE ErrorIffFailed'
    <2>1. req[j].file \in Files
      BY <1>3 DEF RecordIngestion, TypeOK, IngestOnly, IngestReq
    <2> QED BY <1>3, <2>1 DEF RecordIngestion, TypeOK
  <1>4. ASSUME NEW j \in Jobs, SetIndexed(j) \/ SetFailed(j) PROVE ErrorIffFailed'
    <2>1. req[j].file \in Files
      BY <1>4 DEF SetIndexed, SetFailed, TypeOK, IngestOnly, IngestReq
    <2>2. SetStatus(req[j].file, "indexed", FALSE) \/ SetStatus(req[j].file, "failed", TRUE)
      BY <1>4 DEF SetIndexed, SetFailed
    <2> QED BY <2>1, <2>2, <1>2
  <1>5. ASSUME NEW j \in Jobs, Start(j) PROVE ErrorIffFailed'
    BY <1>5, <1>1 DEF Start, Upload, IngestCli, IndexCli
  <1>6. ASSUME NEW j \in Jobs, Work(j) PROVE ErrorIffFailed'
    BY <1>6, <1>3, <1>4 DEF Work, FindByFilename, DeleteChunks, AcquireRowLocks,
       CommitChunks, ListForDocument, EnsureIndex, UpsertPoints, IndexChunk
  <1>7. ASSUME NEW j \in Jobs, Fault(j) PROVE ErrorIffFailed'
    BY <1>7 DEF Fault, LoaderFails, StoreFails, IndexingFails, CommandDies
  <1>8. CASE BackendDies
    BY <1>8 DEF BackendDies
  <1>9. CASE UNCHANGED vars
    BY <1>9 DEF vars
  <1> QED BY <1>5, <1>6, <1>7, <1>8, <1>9 DEF Next

(* A documents row has an error exactly while it says failed, however      *)
(* uploads, commands, failures and crashes interleave.                     *)
THEOREM ErrorCorrect == Spec => []ErrorIffFailed
  <1>1. Init => ErrorIffFailed
    BY DEF Init, ErrorIffFailed
  <1> QED BY <1>1, ErrorStep, TypeCorrect, PTL DEF Spec
-----------------------------------------------------------------------------
(* Chunk sets are whole. A transaction removes the rows its DELETE saw, so *)
(* what it saw must be whole too: that is the strengthening.               *)

Sibling(r, i) == [file |-> r.file, index |-> i, content |-> r.content, writer |-> r.writer]

Whole(rows) ==
  \A r \in rows : /\ r.index \in 0..(ChunkCount[r.content] - 1)
                  /\ \A i \in 0..(ChunkCount[r.content] - 1) : Sibling(r, i) \in rows

WholeInv == Whole(chunks) /\ \A j \in Jobs : Whole(old[j])

LEMMA WholeUnion ==
  ASSUME NEW A, NEW B, Whole(A), Whole(B)
  PROVE  Whole(A \cup B)
  BY DEF Whole

LEMMA WholeMinus ==
  ASSUME NEW A \in SUBSET ChunkRow, NEW B \in SUBSET ChunkRow, Whole(A), Whole(B)
  PROVE  Whole(A \ B)
  <1> SUFFICES ASSUME NEW r \in A \ B, NEW i \in 0..(ChunkCount[r.content] - 1),
                      Sibling(r, i) \in B
               PROVE  FALSE
    BY DEF Whole
  <1>1. r.index \in 0..(ChunkCount[r.content] - 1)
    BY DEF Whole
  <1>2. Sibling(r, i).content = r.content
    BY DEF Sibling
  <1>3. Sibling(Sibling(r, i), r.index) \in B
    BY <1>1, <1>2 DEF Whole
  <1>4. Sibling(Sibling(r, i), r.index) = r
    BY DEF Sibling, ChunkRow
  <1> QED BY <1>3, <1>4

LEMMA WholeNewRows ==
  ASSUME NEW j \in Jobs
  PROVE  Whole(NewRows(j))
  BY DEF Whole, NewRows, Sibling

LEMMA WholeFile ==
  ASSUME NEW f, Whole(chunks)
  PROVE  Whole(RowsOf({f}))
  BY DEF Whole, RowsOf, Sibling

LEMMA WholeStep ==
  ASSUME TypeOK, WholeInv, [Next]_vars
  PROVE  WholeInv'
  <1> USE DEF WholeInv
  <1>0. Whole({})
    BY DEF Whole
  <1>1. ASSUME NEW j \in Jobs, DeleteChunks(j) PROVE WholeInv'
    <2>1. Whole(RowsOf({req[j].file}))
      BY WholeFile
    <2> QED BY <1>1, <2>1 DEF DeleteChunks, TypeOK, Whole
  <1>2. ASSUME NEW j \in Jobs, CommitChunks(j) PROVE WholeInv'
    <2>1. Whole(chunks \ old[j])
      BY WholeMinus DEF TypeOK
    <2>2. Whole((chunks \ old[j]) \cup NewRows(j))
      BY <2>1, WholeNewRows, WholeUnion
    <2>3. Whole(chunks')
      BY <1>2, <2>2 DEF CommitChunks
    <2>4. \A k \in Jobs : Whole(old'[k])
      BY <1>0, <1>2 DEF CommitChunks, TypeOK
    <2> QED BY <2>3, <2>4 DEF Whole
  <1>3. ASSUME NEW j \in Jobs, End(j, "done") \/ End(j, "failed") \/ End(j, "aborted"),
               UNCHANGED chunks
        PROVE  WholeInv'
    BY <1>0, <1>3 DEF End, TypeOK, Whole
  <1>4. ASSUME UNCHANGED <<chunks, old>> PROVE WholeInv'
    BY <1>4 DEF Whole
  <1>5. ASSUME NEW j \in Jobs, Start(j) PROVE WholeInv'
    BY <1>5, <1>4 DEF Start, Upload, IngestCli, IndexCli
  <1>6. ASSUME NEW j \in Jobs, Work(j) PROVE WholeInv'
    BY <1>6, <1>1, <1>2, <1>3, <1>4 DEF Work, FindByFilename, RecordIngestion,
       AcquireRowLocks, ListForDocument, EnsureIndex, UpsertPoints, IndexChunk,
       SetIndexed, SetFailed
  <1>7. ASSUME NEW j \in Jobs, Fault(j) PROVE WholeInv'
    BY <1>7, <1>3, <1>4 DEF Fault, LoaderFails, StoreFails, IndexingFails, CommandDies
  <1>8. CASE BackendDies
    <2>1. \A k \in Jobs : Whole(old'[k])
      BY <1>0, <1>8 DEF BackendDies, TypeOK
    <2> QED BY <1>8, <2>1 DEF BackendDies, Whole
  <1>9. CASE UNCHANGED vars
    BY <1>9, <1>4 DEF vars
  <1> QED BY <1>5, <1>6, <1>7, <1>8, <1>9 DEF Next

(* A committed chunk is never there without the other chunks of the pass   *)
(* that wrote it: not while jobs overlap, nor after failures and crashes.  *)
THEOREM ChunkSetsWhole == Spec => []NoHalfChunkSet
  <1>1. Init => WholeInv
    BY DEF Init, WholeInv, Whole
  <1>2. WholeInv => NoHalfChunkSet
    BY DEF WholeInv, Whole, Sibling, NoHalfChunkSet
  <1> QED BY <1>1, <1>2, WholeStep, TypeCorrect, PTL DEF Spec
-----------------------------------------------------------------------------
(***************************************************************************)
(* Overlapping jobs. Jobs of one file may run at once and rewrite its rows *)
(* under each other; as long as nobody drops an index, a key that has been *)
(* written stays there, whichever job's text it carries.                   *)
(***************************************************************************)

NoIndexDropped == FullReindex \subseteq {FALSE}

\* The calls that may fail are the ones before the chunks are committed and
\* the two that set the status.
NoIndexingFaults == Faults \subseteq {"loader", "store"}

NothingDropped == \A j \in Jobs : Running(j) => req[j].full = FALSE

HasKey(b, r) == \E e \in entries[b] : SameKey(r, e)

\* What a job has written of what it listed.
ListedWritten ==
  \A j \in Jobs :
    /\ pc[j] \in {"es_index", "es_docs", "set_indexed"} /\ "qdrant" \in Targets(j) =>
         \A r \in stored[j] : HasKey("qdrant", r)
    /\ pc[j] = "es_docs" => \A r \in stored[j] \ todo[j] : HasKey("elasticsearch", r)
    /\ pc[j] = "set_indexed" => \A r \in stored[j] : HasKey("elasticsearch", r)

WrittenInv == NothingDropped /\ ListedWritten

\* A step of a job's own, or a fault that strikes it alone.
LEMMA OneJobMoves ==
  ASSUME TypeOK, NEW j \in Jobs, Work(j) \/ Fault(j)
  PROVE  /\ Running(j) /\ UNCHANGED req
         /\ \A k \in Jobs \ {j} : pc'[k] = pc[k]
  <1>1. CASE Work(j)
    BY <1>1 DEF Work, FindByFilename, RecordIngestion, DeleteChunks, AcquireRowLocks,
       CommitChunks, ListForDocument, EnsureIndex, Ensured, UpsertPoints, Upserted,
       IndexChunk, Sent, SetIndexed, SetFailed, Goto, End, Running, Ended, TypeOK
  <1>2. CASE Fault(j)
    BY <1>2 DEF Fault, LoaderFails, StoreFails, IndexingFails, CommandDies, Goto, End,
       Running, Ended, TypeOK
  <1> QED BY <1>1, <1>2

\* The request of a job is the one it was started with.
LEMMA NothingDroppedStep ==
  ASSUME TypeOK, NothingDropped, NoIndexDropped, [Next]_vars
  PROVE  NothingDropped'
  <1> USE DEF NothingDropped
  <1>1. ASSUME NEW j \in Jobs, Start(j) PROVE NothingDropped'
    <2>1. req'[j].full = FALSE
      <3>1. ASSUME NEW f, NEW c, Upload(j, f, c) PROVE req'[j].full = FALSE
        BY <3>1 DEF Upload, TypeOK
      <3>2. ASSUME NEW f, NEW c, NEW force, NEW full \in FullReindex,
                   IngestCli(j, f, c, force, full)
            PROVE  req'[j].full = FALSE
        BY <3>2 DEF IngestCli, TypeOK, NoIndexDropped
      <3>3. ASSUME NEW scope, NEW targets, NEW full \in FullReindex,
                   IndexCli(j, scope, targets, full)
            PROVE  req'[j].full = FALSE
        BY <3>3 DEF IndexCli, TypeOK, NoIndexDropped
      <3> QED BY <1>1, <3>1, <3>2, <3>3 DEF Start
    <2>2. \A k \in Jobs \ {j} : req'[k] = req[k] /\ pc'[k] = pc[k]
      BY <1>1 DEF Start, Upload, IngestCli, IndexCli, Goto, TypeOK
    <2> QED BY <2>1, <2>2 DEF Running
  <1>2. ASSUME NEW j \in Jobs, Work(j) \/ Fault(j) PROVE NothingDropped'
    BY <1>2, OneJobMoves DEF Running
  <1>3. CASE BackendDies
    BY <1>3 DEF BackendDies, Running, Ended
  <1>4. CASE UNCHANGED vars
    BY <1>4 DEF vars, Running
  <1> QED BY <1>1, <1>2, <1>3, <1>4 DEF Next

\* An upsert replaces entries by entries of the same key.
LEMMA UpsertKeepsKeys ==
  ASSUME NEW es, NEW new, NEW r, NEW e \in es, SameKey(r, e)
  PROVE  \E d \in Upsert(es, new) : SameKey(r, d)
  BY DEF Upsert, SameKey

KeysKept == \A b \in Backends, r \in ChunkRow : HasKey(b, r) => HasKey(b, r)'

LEMMA SameEntriesKeepKeys == UNCHANGED entries => KeysKept
  BY DEF KeysKept, HasKey

LEMMA IndexWritesKeepKeys ==
  ASSUME TypeOK, NothingDropped, NEW j \in Jobs, Running(j),
         Ensured(j) \/ Upserted(j) \/ \E r \in todo[j] : Sent(j, r)
  PROVE  KeysKept
  <1>1. CASE Ensured(j)
    <2>1. UNCHANGED entries
      BY <1>1 DEF Ensured, Recreate, NothingDropped, TypeOK
    <2> QED BY <2>1, SameEntriesKeepKeys
  <1>2. CASE Upserted(j)
    <2>1. PICK new : entries' = [entries EXCEPT !["qdrant"] = Upsert(entries["qdrant"], new)]
      BY <1>2 DEF Upserted
    <2> QED BY <2>1, UpsertKeepsKeys DEF KeysKept, HasKey, TypeOK, Backends
  <1>3. CASE \E r \in todo[j] : Sent(j, r)
    <2>1. PICK r \in todo[j] :
            entries' = [entries EXCEPT !["elasticsearch"] =
                          Upsert(entries["elasticsearch"], {EntryOf(r)})]
      BY <1>3 DEF Sent
    <2> QED BY <2>1, UpsertKeepsKeys DEF KeysKept, HasKey, TypeOK, Backends
  <1> QED BY <1>1, <1>2, <1>3

\* A step of another job, or one that promises nothing new, keeps the promise.
LEMMA PromisesKept ==
  ASSUME TypeOK, ListedWritten, KeysKept, NEW k \in Jobs,
         pc'[k] = pc[k], UNCHANGED <<req[k], stored[k], todo[k]>>
  PROVE  /\ pc'[k] \in {"es_index", "es_docs", "set_indexed"} /\ "qdrant" \in Targets(k)' =>
              \A r \in stored'[k] : HasKey("qdrant", r)'
         /\ pc'[k] = "es_docs" => \A r \in stored'[k] \ todo'[k] : HasKey("elasticsearch", r)'
         /\ pc'[k] = "set_indexed" => \A r \in stored'[k] : HasKey("elasticsearch", r)'
  <1>1. stored[k] \in SUBSET ChunkRow
    BY DEF TypeOK
  <1>2. Targets(k)' = Targets(k)
    BY DEF Targets, IsIngest
  <1> QED BY <1>1, <1>2 DEF ListedWritten, KeysKept, Backends

\* A step of job j that keeps the keys: what is left to show is its own part.
LEMMA OwnPromise ==
  ASSUME TypeOK, ListedWritten, KeysKept, NEW j \in Jobs,
         \A k \in Jobs \ {j} : pc'[k] = pc[k] /\ UNCHANGED <<req[k], stored[k], todo[k]>>,
         /\ pc'[j] \in {"es_index", "es_docs", "set_indexed"} /\ "qdrant" \in Targets(j)' =>
              \A r \in stored'[j] : HasKey("qdrant", r)'
         /\ pc'[j] = "es_docs" => \A r \in stored'[j] \ todo'[j] : HasKey("elasticsearch", r)'
         /\ pc'[j] = "set_indexed" => \A r \in stored'[j] : HasKey("elasticsearch", r)'
  PROVE  ListedWritten'
  BY PromisesKept DEF ListedWritten

LEMMA WrittenWork ==
  ASSUME TypeOK, WrittenInv, NEW j \in Jobs, Work(j)
  PROVE  ListedWritten' /\ KeysKept
  <1> USE DEF WrittenInv
  <1>0. ASSUME UNCHANGED <<entries, req, stored, todo>>,
               \A k \in Jobs \ {j} : pc'[k] = pc[k],
               pc'[j] \notin {"es_index", "es_docs", "set_indexed"}
        PROVE  ListedWritten' /\ KeysKept
    BY <1>0, SameEntriesKeepKeys, OwnPromise
  <1>1. CASE FindByFilename(j) \/ RecordIngestion(j) \/ DeleteChunks(j)
             \/ AcquireRowLocks(j) \/ CommitChunks(j)
    BY <1>0, <1>1 DEF FindByFilename, RecordIngestion, DeleteChunks, AcquireRowLocks,
       CommitChunks, Goto, TypeOK
  <1>2. CASE SetIndexed(j) \/ SetFailed(j)
    <2>1. /\ UNCHANGED <<entries, req>> /\ pc'[j] \in Ended
          /\ \A k \in Jobs \ {j} : pc'[k] = pc[k] /\ UNCHANGED <<stored[k], todo[k]>>
      BY <1>2 DEF SetIndexed, SetFailed, End, Goto, Ended, TypeOK
    <2> QED BY <2>1, SameEntriesKeepKeys, OwnPromise DEF Ended
  <1>3. CASE ListForDocument(j)
    <2>1. /\ UNCHANGED <<entries, req, todo>>
          /\ \A k \in Jobs \ {j} : pc'[k] = pc[k] /\ stored'[k] = stored[k]
      BY <1>3 DEF ListForDocument, Goto, TypeOK
    <2>2. CASE RowsOf(Scope(j)) = {}
      <3>1. stored'[j] = {} /\ pc'[j] \in {"set_indexed", "done"}
        BY <1>3, <2>2 DEF ListForDocument, Goto, AfterIndexing, TypeOK
      <3> QED BY <2>1, <3>1, SameEntriesKeepKeys, OwnPromise
    <2>3. CASE RowsOf(Scope(j)) # {}
      <3>1. /\ pc'[j] \in {"collection", "es_index"}
            /\ pc'[j] = "es_index" => "qdrant" \notin Targets(j)
        BY <1>3, <2>3 DEF ListForDocument, Goto, TypeOK
      <3>2. Targets(j)' = Targets(j)
        BY <2>1 DEF Targets, IsIngest
      <3> QED BY <2>1, <3>1, <3>2, SameEntriesKeepKeys, OwnPromise
    <2> QED BY <2>2, <2>3
  <1>4. CASE EnsureIndex(j)
    <2>1. KeysKept
      BY <1>4, IndexWritesKeepKeys DEF EnsureIndex, Ensured, Running, Ended
    <2>2. /\ UNCHANGED <<req, stored>>
          /\ \A k \in Jobs \ {j} : pc'[k] = pc[k] /\ todo'[k] = todo[k]
      BY <1>4 DEF EnsureIndex, Goto, TypeOK
    <2>3. \/ pc'[j] = "upsert"
          \/ pc[j] = "es_index" /\ pc'[j] = "es_docs" /\ todo'[j] = stored[j]
      BY <1>4 DEF EnsureIndex, Ensured, Goto, TypeOK
    <2>4. Targets(j)' = Targets(j)
      BY <2>2 DEF Targets, IsIngest
    <2>5. stored[j] \in SUBSET ChunkRow
      BY DEF TypeOK
    <2>6. pc'[j] = "es_docs" /\ "qdrant" \in Targets(j) => \A r \in stored[j] : HasKey("qdrant", r)'
      BY <2>1, <2>3, <2>5 DEF ListedWritten, KeysKept, Backends
    <2> QED BY <2>1, <2>2, <2>3, <2>4, <2>6, OwnPromise
  <1>5. CASE UpsertPoints(j)
    <2>1. KeysKept
      BY <1>5, IndexWritesKeepKeys DEF UpsertPoints, Upserted, Running, Ended
    <2>2. /\ UNCHANGED <<req, stored, todo>>
          /\ \A k \in Jobs \ {j} : pc'[k] = pc[k]
      BY <1>5 DEF UpsertPoints, Goto, TypeOK
    <2>3. pc'[j] \in {"es_index", "done"}
      <3>1. pc[j] = "upsert"
        BY <1>5 DEF UpsertPoints, Upserted
      <3>2. IsIngest(j) => "elasticsearch" \in Targets(j)
        BY DEF Targets, Backends
      <3> QED BY <1>5, <3>2 DEF UpsertPoints, AfterIndexing, Goto, TypeOK
    <2>4. \A r \in stored[j] : HasKey("qdrant", r)'
      <3>1. PICK new \in LastWins(stored[j]) :
              entries' = [entries EXCEPT !["qdrant"] = Upsert(entries["qdrant"], new)]
        BY <1>5 DEF UpsertPoints, Upserted
      <3>2. new \subseteq entries'["qdrant"]
        BY <3>1 DEF TypeOK, Backends, Upsert
      <3> QED BY <3>2 DEF LastWins, HasKey
    <2> QED BY <2>1, <2>2, <2>3, <2>4, OwnPromise
  <1>6. CASE \E r \in todo[j] : IndexChunk(j, r)
    <2>0. PICK r \in todo[j] : IndexChunk(j, r)
      BY <1>6
    <2>1. KeysKept
      BY <2>0, IndexWritesKeepKeys DEF IndexChunk, Sent, Running, Ended
    <2>2. /\ UNCHANGED <<req, stored>>
          /\ \A k \in Jobs \ {j} : pc'[k] = pc[k] /\ todo'[k] = todo[k]
          /\ todo'[j] = todo[j] \ {r} /\ pc[j] = "es_docs"
      BY <2>0 DEF IndexChunk, Sent, Goto, TypeOK
    <2>3. IF todo[j] = {r} THEN pc'[j] \in {"set_indexed", "done"} ELSE pc'[j] = "es_docs"
      BY <2>0 DEF IndexChunk, AfterIndexing, Goto, TypeOK
    <2>4. \A s \in stored[j] \ todo'[j] : HasKey("elasticsearch", s)'
      <3>1. stored[j] \in SUBSET ChunkRow
        BY DEF TypeOK
      <3>2. \A s \in stored[j] \ todo[j] : HasKey("elasticsearch", s)'
        BY <2>1, <2>2, <3>1 DEF ListedWritten, KeysKept, Backends
      <3>3. HasKey("elasticsearch", r)'
        <4>1. EntryOf(r) \in entries'["elasticsearch"]
          BY <2>0 DEF IndexChunk, Sent, Upsert, TypeOK, Backends
        <4> QED BY <4>1 DEF HasKey, SameKey, EntryOf
      <3> QED BY <2>2, <3>2, <3>3
    <2>5. "qdrant" \in Targets(j)' => \A s \in stored[j] : HasKey("qdrant", s)'
      <3>1. stored[j] \in SUBSET ChunkRow
        BY DEF TypeOK
      <3>2. Targets(j)' = Targets(j)
        BY <2>2 DEF Targets, IsIngest
      <3> QED BY <2>1, <2>2, <3>1, <3>2 DEF ListedWritten, KeysKept, Backends
    <2>6. todo[j] = {r} => stored[j] \ todo'[j] = stored[j]
      BY <2>2
    <2> QED BY <2>1, <2>2, <2>3, <2>4, <2>5, <2>6, OwnPromise
  <1> QED BY <1>1, <1>2, <1>3, <1>4, <1>5, <1>6 DEF Work

LEMMA WrittenFault ==
  ASSUME TypeOK, WrittenInv, NEW j \in Jobs, Fault(j)
  PROVE  ListedWritten' /\ KeysKept
  <1> USE DEF WrittenInv
  <1>1. pc'[j] \in {"set_failed"} \cup Ended
    BY DEF Fault, LoaderFails, StoreFails, IndexingFails, CommandDies, Goto, End, Ended, TypeOK
  <1>2. \A k \in Jobs \ {j} : pc'[k] = pc[k] /\ UNCHANGED <<req[k], stored[k], todo[k]>>
    BY DEF Fault, LoaderFails, StoreFails, IndexingFails, CommandDies, Goto, End, TypeOK
  <1>3. KeysKept
    <2>1. CASE IndexingFails(j)
      BY <2>1, SameEntriesKeepKeys, IndexWritesKeepKeys DEF IndexingFails, Running, Ended
    <2>2. CASE ~IndexingFails(j)
      BY <2>2, SameEntriesKeepKeys DEF Fault, LoaderFails, StoreFails, CommandDies
    <2> QED BY <2>1, <2>2
  <1> QED BY <1>1, <1>2, <1>3, OwnPromise DEF Ended

LEMMA WrittenStart ==
  ASSUME TypeOK, WrittenInv, NEW j \in Jobs, Start(j)
  PROVE  ListedWritten' /\ KeysKept
  <1>1. /\ pc'[j] \in {"find", "list"} /\ UNCHANGED <<entries, stored, todo>>
        /\ \A k \in Jobs \ {j} : pc'[k] = pc[k] /\ req'[k] = req[k]
    BY DEF Start, Upload, IngestCli, IndexCli, Goto, TypeOK
  <1> QED BY <1>1, SameEntriesKeepKeys, OwnPromise DEF WrittenInv

LEMMA WrittenDeath ==
  ASSUME TypeOK, WrittenInv, BackendDies \/ UNCHANGED vars
  PROVE  ListedWritten' /\ KeysKept
  <1>1. UNCHANGED <<entries, req>> /\ KeysKept
    BY SameEntriesKeepKeys DEF BackendDies, vars
  <1>2. ASSUME NEW k \in Jobs, pc'[k] # "aborted"
        PROVE  pc'[k] = pc[k] /\ UNCHANGED <<req[k], stored[k], todo[k]>>
    BY <1>2 DEF BackendDies, vars, TypeOK
  <1> QED BY <1>1, <1>2, PromisesKept DEF WrittenInv, ListedWritten

LEMMA WrittenStep ==
  ASSUME TypeOK, WrittenInv, NoIndexDropped, [Next]_vars
  PROVE  WrittenInv' /\ KeysKept
  <1>1. NothingDropped'
    BY NothingDroppedStep DEF WrittenInv
  <1>2. ListedWritten' /\ KeysKept
    BY WrittenStart, WrittenWork, WrittenFault, WrittenDeath DEF Next
  <1> QED BY <1>1, <1>2 DEF WrittenInv

LEMMA WrittenInit == Init => WrittenInv
  BY DEF Init, WrittenInv, NothingDropped, ListedWritten, Running

\* Only SetIndexed makes a row say indexed.
LEMMA BecomesIndexed ==
  ASSUME TypeOK, [Next]_vars, NEW f \in Files, ~Indexed(f), Indexed(f)'
  PROVE  \E j \in Jobs : pc[j] = "set_indexed" /\ req[j].file = f
  <1> USE DEF Indexed, StatusOf
  <1>1. ASSUME NEW g \in Files, Reserve(g) PROVE FALSE
    BY <1>1 DEF Reserve, TypeOK
  <1>2. ASSUME NEW j \in Jobs, Start(j) PROVE FALSE
    BY <1>1, <1>2 DEF Start, Upload, IngestCli, IndexCli
  <1>3. ASSUME NEW j \in Jobs, RecordIngestion(j) \/ SetFailed(j) PROVE FALSE
    <2>1. req[j].file \in Files
      BY <1>3 DEF RecordIngestion, SetFailed, TypeOK, IngestOnly, IngestReq
    <2> QED BY <1>3, <2>1 DEF RecordIngestion, SetFailed, SetStatus, TypeOK
  <1>4. ASSUME NEW j \in Jobs, SetIndexed(j) PROVE pc[j] = "set_indexed" /\ req[j].file = f
    BY <1>4 DEF SetIndexed, SetStatus, TypeOK
  <1>5. ASSUME NEW j \in Jobs, Work(j)
        PROVE  \E k \in Jobs : pc[k] = "set_indexed" /\ req[k].file = f
    BY <1>3, <1>4, <1>5 DEF Work, FindByFilename, DeleteChunks, AcquireRowLocks, CommitChunks,
       ListForDocument, EnsureIndex, UpsertPoints, IndexChunk
  <1>6. ASSUME NEW j \in Jobs, Fault(j) PROVE FALSE
    BY <1>6 DEF Fault, LoaderFails, StoreFails, IndexingFails, CommandDies
  <1>7. CASE BackendDies \/ UNCHANGED vars
    BY <1>7 DEF BackendDies, vars
  <1> QED BY <1>2, <1>5, <1>6, <1>7 DEF Next

(* A row becomes indexed only by a job that found, in both indexes, an     *)
(* entry for every chunk it had listed: however many jobs rewrite the file *)
(* at once and whatever fails, as long as no index is dropped.             *)
THEOREM IndexedAfterWriting == NoIndexDropped /\ Spec => WrittenBeforeIndexed
  <1> SUFFICES ASSUME NoIndexDropped PROVE Spec => WrittenBeforeIndexed
    OBVIOUS
  <1> DEFINE Published ==
        \A f \in Files : ~Indexed(f) /\ Indexed(f)' =>
          \E j \in Jobs :
            /\ pc[j] = "set_indexed" /\ req[j].file = f
            /\ \A r \in stored[j], b \in Backends : \E e \in entries[b] : SameKey(r, e)
  <1>1. TypeOK /\ WrittenInv /\ [Next]_vars => WrittenInv'
    BY WrittenStep
  <1>2. ASSUME TypeOK, WrittenInv, [Next]_vars PROVE Published
    <2> SUFFICES ASSUME NEW f \in Files, ~Indexed(f), Indexed(f)'
                 PROVE  \E j \in Jobs :
                          /\ pc[j] = "set_indexed" /\ req[j].file = f
                          /\ \A r \in stored[j], b \in Backends : HasKey(b, r)
      BY DEF HasKey
    <2>1. PICK j \in Jobs : pc[j] = "set_indexed" /\ req[j].file = f
      BY <1>2, BecomesIndexed
    <2>2. Targets(j) = Backends
      BY <1>2, <2>1 DEF TypeOK, IngestOnly, IngestReq, Targets, IsIngest
    <2> QED BY <1>2, <2>1, <2>2 DEF WrittenInv, ListedWritten, Backends
  <1>3. TypeOK /\ WrittenInv /\ [Next]_vars => [Published]_vars
    BY <1>2
  <1> QED BY <1>1, <1>3, WrittenInit, TypeCorrect, PTL DEF Spec, WrittenBeforeIndexed

\* A committed row is looked after by the pass that wrote it: the job lists
\* it, carries it through both indexes, and has left its key in each when it
\* ends.
Looked(r) ==
  LET w == r.writer IN
  /\ pc[w] \in {"list", "collection", "upsert", "es_index", "es_docs", "set_indexed"} \cup Ended
  /\ IsIngest(w) /\ req[w].file = r.file
  /\ pc[w] \in {"collection", "upsert", "es_index", "es_docs", "set_indexed"} => r \in stored[w]
  /\ pc[w] \in Ended => \A b \in Backends : HasKey(b, r)

LookedAfter == \A r \in chunks : Looked(r)

\* A row that was there keeps what it was promised while its writer rests.
LEMMA LookedKept ==
  ASSUME TypeOK, KeysKept, NEW r \in chunks, Looked(r),
         LET w == r.writer IN pc'[w] = pc[w] /\ UNCHANGED <<req[w], stored[w]>>
  PROVE  Looked(r)'
  BY DEF Looked, KeysKept, IsIngest, TypeOK, ChunkRow

LEMMA LookedStart ==
  ASSUME TypeOK, LookedAfter, KeysKept, NEW j \in Jobs, Start(j)
  PROVE  LookedAfter'
  <1>1. /\ UNCHANGED <<chunks, stored>> /\ pc[j] = "idle"
        /\ \A k \in Jobs \ {j} : pc'[k] = pc[k] /\ req'[k] = req[k]
    BY DEF Start, Upload, IngestCli, IndexCli, Goto, TypeOK
  <1>2. \A r \in chunks : r.writer \in Jobs \ {j}
    BY <1>1 DEF LookedAfter, Looked, Ended, TypeOK, ChunkRow
  <1> QED BY <1>1, <1>2, LookedKept DEF LookedAfter

\* A step before the commit moves no job that has rows.
LEMMA LookedBefore ==
  ASSUME TypeOK, LookedAfter, KeysKept, NEW j \in Jobs,
         pc[j] \notin {"list", "collection", "upsert", "es_index", "es_docs", "set_indexed"}
                      \cup Ended,
         UNCHANGED chunks,
         \A k \in Jobs \ {j} : pc'[k] = pc[k] /\ UNCHANGED <<req[k], stored[k]>>
  PROVE  LookedAfter'
  <1>1. \A r \in chunks : r.writer \in Jobs \ {j}
    BY DEF LookedAfter, Looked, TypeOK, ChunkRow
  <1> QED BY <1>1, LookedKept DEF LookedAfter

LEMMA LookedCommit ==
  ASSUME TypeOK, LookedAfter, KeysKept, NEW j \in Jobs, CommitChunks(j)
  PROVE  LookedAfter'
  <1>1. /\ pc[j] = "commit" /\ pc'[j] = "list" /\ UNCHANGED <<req, stored>>
        /\ \A k \in Jobs \ {j} : pc'[k] = pc[k]
        /\ chunks' \subseteq chunks \cup NewRows(j)
    BY DEF CommitChunks, Goto, TypeOK
  <1>2. \A r \in chunks : Looked(r)'
    <2>1. \A r \in chunks : r.writer \in Jobs \ {j}
      BY <1>1 DEF LookedAfter, Looked, Ended, TypeOK, ChunkRow
    <2> QED BY <1>1, <2>1, LookedKept DEF LookedAfter
  <1>3. \A r \in NewRows(j) : Looked(r)'
    <2>1. IsIngest(j)
      BY <1>1 DEF TypeOK, IngestOnly, IngestReq, IsIngest
    <2> QED BY <1>1, <2>1 DEF NewRows, Looked, IsIngest, Ended
  <1> QED BY <1>1, <1>2, <1>3 DEF LookedAfter

\* A job that goes on with the rows it listed.
LEMMA LookedIndexing ==
  ASSUME TypeOK, LookedAfter, KeysKept, NEW j \in Jobs,
         UNCHANGED <<chunks, req, stored>>, \A k \in Jobs \ {j} : pc'[k] = pc[k],
         pc[j] \in {"collection", "upsert", "es_index", "es_docs"},
         pc'[j] \in {"upsert", "es_index", "es_docs", "set_indexed"} \/ ~IsIngest(j)
  PROVE  LookedAfter'
  <1> SUFFICES ASSUME NEW r \in chunks PROVE Looked(r)'
    BY DEF LookedAfter
  <1>1. CASE r.writer = j
    BY <1>1 DEF LookedAfter, Looked, IsIngest, Ended
  <1>2. CASE r.writer # j
    <2>1. r.writer \in Jobs \ {j}
      BY <1>2 DEF TypeOK, ChunkRow
    <2> QED BY <2>1, LookedKept DEF LookedAfter
  <1> QED BY <1>1, <1>2

LEMMA LookedList ==
  ASSUME TypeOK, LookedAfter, KeysKept, NEW j \in Jobs, ListForDocument(j)
  PROVE  LookedAfter'
  <1> SUFFICES ASSUME NEW r \in chunks PROVE Looked(r)'
    BY DEF LookedAfter, ListForDocument
  <1>1. /\ UNCHANGED <<chunks, entries, req>> /\ pc[j] = "list"
        /\ \A k \in Jobs \ {j} : pc'[k] = pc[k] /\ stored'[k] = stored[k]
        /\ stored'[j] = RowsOf(Scope(j))
    BY DEF ListForDocument, Goto, TypeOK
  <1>2. CASE r.writer = j
    <2>1. IsIngest(j) /\ req[j].file = r.file
      BY <1>2 DEF LookedAfter, Looked
    <2>2. r \in RowsOf(Scope(j)) /\ Targets(j) = Backends
      BY <2>1 DEF RowsOf, Scope, Targets
    <2>3. pc'[j] = "collection"
      BY <2>2 DEF ListForDocument, Goto, TypeOK, Backends
    <2> QED BY <1>1, <1>2, <2>1, <2>2, <2>3 DEF Looked, IsIngest, Ended
  <1>3. CASE r.writer # j
    <2>1. r.writer \in Jobs \ {j}
      BY <1>3 DEF TypeOK, ChunkRow
    <2> QED BY <1>1, <2>1, LookedKept DEF LookedAfter
  <1> QED BY <1>2, <1>3

\* A job that ends at set_indexed has written every row it listed.
LEMMA LookedEnd ==
  ASSUME TypeOK, LookedAfter, ListedWritten, NEW j \in Jobs,
         pc[j] = "set_indexed", UNCHANGED <<chunks, entries>>,
         End(j, "done") \/ End(j, "aborted")
  PROVE  LookedAfter'
  <1> SUFFICES ASSUME NEW r \in chunks PROVE Looked(r)'
    BY DEF LookedAfter
  <1>1. /\ UNCHANGED req /\ pc'[j] \in {"done", "aborted"}
        /\ \A k \in Jobs \ {j} : pc'[k] = pc[k] /\ stored'[k] = stored[k]
    BY DEF End, Goto, TypeOK
  <1>2. CASE r.writer = j
    <2>1. IsIngest(j) /\ req[j].file = r.file /\ r \in stored[j]
      BY <1>2 DEF LookedAfter, Looked
    <2>2. Targets(j) = Backends
      BY <2>1 DEF Targets
    <2>3. \A b \in Backends : HasKey(b, r)
      BY <2>1, <2>2 DEF ListedWritten, Backends
    <2> QED BY <1>1, <1>2, <2>1, <2>3 DEF Looked, HasKey, IsIngest, Ended
  <1>3. CASE r.writer # j
    <2>1. r.writer \in Jobs \ {j}
      BY <1>3 DEF TypeOK, ChunkRow
    <2> QED BY <1>1, <2>1, SameEntriesKeepKeys, LookedKept DEF LookedAfter
  <1> QED BY <1>2, <1>3

LEMMA LookedStep ==
  ASSUME TypeOK, WrittenInv, LookedAfter, NoIndexDropped, NoIndexingFaults, [Next]_vars
  PROVE  LookedAfter'
  <1>0. KeysKept /\ ListedWritten
    BY WrittenStep DEF WrittenInv
  <1>1. ASSUME NEW j \in Jobs, Work(j) PROVE LookedAfter'
    <2>1. CASE FindByFilename(j) \/ RecordIngestion(j) \/ DeleteChunks(j) \/ AcquireRowLocks(j)
      BY <1>0, <2>1, LookedBefore DEF FindByFilename, RecordIngestion, DeleteChunks,
         AcquireRowLocks, Goto, Ended, TypeOK
    <2>2. CASE SetFailed(j)
      BY <1>0, <2>2, LookedBefore DEF SetFailed, End, Goto, Ended, TypeOK
    <2>3. CASE SetIndexed(j)
      BY <1>0, <2>3, LookedEnd DEF SetIndexed
    <2>4. CASE EnsureIndex(j)
      BY <1>0, <2>4, LookedIndexing DEF EnsureIndex, Ensured, Goto, TypeOK
    <2>5. CASE UpsertPoints(j)
      <3>1. IsIngest(j) => "elasticsearch" \in Targets(j)
        BY DEF Targets, Backends
      <3> QED BY <1>0, <2>5, <3>1, LookedIndexing DEF UpsertPoints, Upserted, Goto, TypeOK
    <2>6. CASE \E r \in todo[j] : IndexChunk(j, r)
      BY <1>0, <2>6, LookedIndexing DEF IndexChunk, Sent, AfterIndexing, Goto, TypeOK
    <2> QED BY <1>0, <1>1, <2>1, <2>2, <2>3, <2>4, <2>5, <2>6, LookedCommit, LookedList
            DEF Work
  <1>2. ASSUME NEW j \in Jobs, Fault(j) PROVE LookedAfter'
    <2>1. LoaderFails(j) \/ StoreFails(j)
      BY <1>2 DEF Fault, IndexingFails, CommandDies, NoIndexingFaults
    <2>2. End(j, "aborted") /\ UNCHANGED <<chunks, entries>>
      BY <2>1 DEF LoaderFails, StoreFails
    <2>3. CASE pc[j] = "set_indexed"
      BY <1>0, <2>2, <2>3, LookedEnd
    <2>4. CASE pc[j] # "set_indexed"
      <3>1. pc[j] \in {"find", "record", "delete", "locks", "commit", "set_failed"}
        BY <2>1, <2>4 DEF LoaderFails, StoreFails
      <3> QED BY <1>0, <2>2, <3>1, LookedBefore DEF End, Goto, Ended, TypeOK
    <2> QED BY <2>3, <2>4
  <1>3. CASE BackendDies
    BY <1>3 DEF BackendDies, NoIndexingFaults
  <1>4. CASE UNCHANGED vars
    BY <1>4, <1>0, LookedKept DEF vars, LookedAfter
  <1> QED BY <1>0, <1>1, <1>2, <1>3, <1>4, LookedStart DEF Next

(* Once the overlapping jobs of a file have ended, every key of its        *)
(* chunks, whichever job's chunks they are, is in both indexes. It takes   *)
(* that no index is dropped and that a job that has committed its chunks   *)
(* gets through both indexes: the status alone may be lost.                *)
THEOREM QuietSearchable ==
  NoIndexDropped /\ NoIndexingFaults /\ Spec => []QuietIsSearchable
  <1> SUFFICES ASSUME NoIndexDropped, NoIndexingFaults PROVE Spec => []QuietIsSearchable
    OBVIOUS
  <1>1. TypeOK /\ WrittenInv /\ LookedAfter /\ [Next]_vars => WrittenInv' /\ LookedAfter'
    BY WrittenStep, LookedStep
  <1>2. Init => LookedAfter
    BY DEF Init, LookedAfter
  <1>3. TypeOK /\ LookedAfter => QuietIsSearchable
    <2> SUFFICES ASSUME TypeOK, LookedAfter, NEW f \in Files, Quiet(f), NEW r \in RowsOf({f}),
                        NEW b \in Backends
                 PROVE  HasKey(b, r)
      BY DEF QuietIsSearchable, HasKey
    <2>1. r \in chunks /\ r.file = f /\ r.writer \in Jobs /\ Looked(r)
      BY DEF RowsOf, LookedAfter, TypeOK, ChunkRow
    <2>2. Scope(r.writer) = {f}
      BY <2>1 DEF Looked, Scope
    <2>3. ~Running(r.writer)
      BY <2>1, <2>2 DEF Quiet
    <2> QED BY <2>1, <2>3 DEF Looked, Running, Ended
  <1> QED BY <1>1, <1>2, <1>3, WrittenInit, TypeCorrect, PTL DEF Spec
-----------------------------------------------------------------------------
(***************************************************************************)
(* One job at a time touches a file (PerFile). Then the rows a job has     *)
(* read are still the rows Postgres holds, and that gives what the callers *)
(* rely on: an upload in progress reads pending; a row that says indexed   *)
(* describes the chunks there are; a full rebuild leaves exactly them in   *)
(* both indexes; a document that says indexed is searchable; and the       *)
(* pipeline implements DocumentLifecycle.                                  *)
(***************************************************************************)
PerFile == Overlap = "per_file"

\* The jobs of two files do not meet.
Exclusive ==
  \A j, k \in Jobs : j # k /\ Running(j) /\ Running(k) => Scope(j) \cap Scope(k) = {}

ScopesInhabited ==
  \A j \in Jobs : Running(j) /\ Files # {} => Scope(j) # {} /\ Scope(j) \subseteq Files

UniqueKeys == \A r, s \in chunks : SameKey(r, s) => r = s

\* What a transaction is about to remove is all there is of its document.
OldCurrent ==
  \A j \in Jobs : pc[j] \in {"locks", "commit"} => old[j] = RowsOf(Scope(j))

Rewriting == {"delete", "locks", "commit"}

RecordedRow(j) == [hash |-> req[j].content, count |-> ChunkCount[req[j].content],
                   status |-> "pending", error |-> FALSE]

\* While a job rewrites the chunks, the row is the one it has recorded.
RewritingIsRecorded ==
  \A j \in Jobs : pc[j] \in Rewriting => docs[req[j].file] = RecordedRow(j)

Indexing == {"collection", "upsert", "es_index", "es_docs"}

\* What a job listed is still what Postgres holds.
StoredCurrent ==
  \A j \in Jobs : /\ pc[j] \in Indexing => stored[j] = RowsOf(Scope(j))
                  /\ pc[j] = "es_docs" => todo[j] \subseteq stored[j]

UploadIsReserved ==
  \A j \in Jobs : Running(j) /\ req[j].kind = "upload" =>
    docs[req[j].file] # NoRow /\ docs[req[j].file].status = "pending"

JobInv ==
  /\ Exclusive /\ ScopesInhabited /\ UniqueKeys /\ OldCurrent
  /\ RewritingIsRecorded /\ StoredCurrent /\ UploadIsReserved
-----------------------------------------------------------------------------
(* The steps of one job. *)

\* Only job j moves, and it serves the request it served before.
OnlyMoves(j) ==
  /\ UNCHANGED req
  /\ Running(j)
  /\ \E l \in Labels \ {"idle"} : pc' = [pc EXCEPT ![j] = l]
  /\ \A k \in Jobs \ {j} : old'[k] = old[k] /\ stored'[k] = stored[k] /\ todo'[k] = todo[k]

LEMMA MoveFacts ==
  ASSUME TypeOK, NEW j \in Jobs, OnlyMoves(j)
  PROVE  /\ \A k \in Jobs : /\ Scope(k)' = Scope(k)
                            /\ Targets(k)' = Targets(k)
                            /\ Running(k)' => Running(k)
         /\ \A k \in Jobs \ {j} : pc'[k] = pc[k]
  BY DEF OnlyMoves, Scope, Targets, IsIngest, Running, TypeOK

LEMMA IngestScope ==
  ASSUME TypeOK, NEW j \in Jobs, pc[j] \in IngestOnly
  PROVE  req[j].file \in Files /\ Scope(j) = {req[j].file} /\ Targets(j) = Backends
  BY DEF TypeOK, IngestReq, Scope, Targets, IsIngest

\* Whoever else runs has no business with the file of a running ingest job.
LEMMA OthersElsewhere ==
  ASSUME TypeOK, Exclusive, NEW j \in Jobs, Running(j), NEW k \in Jobs \ {j}, Running(k),
         Scope(j) = {req[j].file}
  PROVE  req[j].file \notin Scope(k) /\ (IsIngest(k) => req[k].file # req[j].file)
  BY DEF Exclusive, Scope

\* What reserve and set_status make of a row.
LEMMA ReserveRow ==
  ASSUME TypeOK, NEW f \in Files, Reserve(f)
  PROVE  docs'[f] \in DocRow /\ docs'[f].status = "pending"
  <1>1. CASE docs[f] = NoRow
    BY <1>1 DEF TypeOK, Reserve, DocRow
  <1>2. CASE docs[f] # NoRow
    <2>1. docs[f] \in DocRow
      BY <1>2 DEF TypeOK
    <2> QED BY <1>2, <2>1 DEF TypeOK, Reserve, DocRow
  <1> QED BY <1>1, <1>2

\* What every start of a job looks like.
Started(j, scope) ==
  /\ MayStart(scope)
  /\ pc[j] = "idle"
  /\ scope \in {{f} : f \in Files} \cup {Files}
  /\ \E l \in {"find", "list"} : pc' = [pc EXCEPT ![j] = l]
  /\ Scope(j)' = scope
  /\ \A k \in Jobs \ {j} : req'[k] = req[k]
  /\ \A f \in Files : Indexed(f)' => Indexed(f)
  /\ \A f \in Files \ scope : docs'[f] = docs[f]
  /\ req'[j].kind = "upload" =>
       docs'[req'[j].file] # NoRow /\ docs'[req'[j].file].status = "pending"
  /\ UNCHANGED <<chunks, entries, old, stored, todo>>

LEMMA StartForm ==
  ASSUME TypeOK, NEW j \in Jobs, Start(j)
  PROVE  \E scope : Started(j, scope)
  <1>1. ASSUME NEW f \in Files, NEW c \in Contents, Upload(j, f, c)
        PROVE  Started(j, {f})
    <2>1. \A g \in Files : Indexed(g)' => Indexed(g)
      BY <1>1 DEF Upload, Reserve, Indexed, StatusOf, TypeOK
    <2>2. Scope(j)' = {f} /\ req'[j].file = f
      BY <1>1 DEF Upload, Scope, IsIngest, TypeOK
    <2>3. \A g \in Files \ {f} : docs'[g] = docs[g]
      BY <1>1 DEF Upload, Reserve, TypeOK
    <2>4. docs'[f] # NoRow /\ docs'[f].status = "pending"
      <3>1. docs'[f] \in DocRow /\ docs'[f].status = "pending"
        BY <1>1, ReserveRow DEF Upload
      <3> QED BY <3>1, NoRowAssumption
    <2> QED BY <1>1, <2>1, <2>2, <2>3, <2>4 DEF Started, Upload, Goto, TypeOK
  <1>2. ASSUME NEW f \in Files, NEW c \in Contents, NEW force \in BOOLEAN,
               NEW full \in FullReindex, IngestCli(j, f, c, force, full)
        PROVE  Started(j, {f})
    <2>1. Scope(j)' = {f} /\ req'[j].kind = "ingest"
      BY <1>2 DEF IngestCli, Scope, IsIngest, TypeOK
    <2> QED BY <1>2, <2>1 DEF Started, IngestCli, Goto, TypeOK, Indexed, StatusOf
  <1>3. ASSUME NEW scope \in {{f} : f \in Files} \cup {Files}, NEW targets,
               NEW full \in FullReindex, IndexCli(j, scope, targets, full)
        PROVE  Started(j, scope)
    <2>1. Scope(j)' = scope /\ req'[j].kind = "index"
      BY <1>3 DEF IndexCli, Scope, IsIngest, TypeOK
    <2> QED BY <1>3, <2>1 DEF Started, IndexCli, Goto, TypeOK, Indexed, StatusOf
  <1> QED BY <1>1, <1>2, <1>3 DEF Start

LEMMA JobStart ==
  ASSUME TypeOK, JobInv, PerFile, NEW j \in Jobs, Start(j)
  PROVE  JobInv'
  <1> USE DEF JobInv
  <1>0. PICK scope : Started(j, scope)
    BY StartForm
  <1>1. \A k \in Jobs \ {j} : /\ Scope(k)' = Scope(k) /\ pc'[k] = pc[k]
                              /\ Running(k)' = Running(k) /\ req'[k] = req[k]
    BY <1>0 DEF Started, Scope, IsIngest, Running, TypeOK
  <1>2. pc'[j] \in {"find", "list"}
    BY <1>0 DEF Started, TypeOK
  <1>3. \A k \in Jobs : Running(k) => Scope(k) \cap scope = {}
    BY <1>0 DEF Started, MayStart, PerFile
  <1>4. \A k \in Jobs \ {j} : Running(k) /\ IsIngest(k) => docs'[req[k].file] = docs[req[k].file]
    <2>1. \A k \in Jobs : Running(k) /\ IsIngest(k) => req[k].file \in Files \ scope
      BY <1>3, RequestFacts DEF Running, Scope, IngestReq
    <2> QED BY <1>0, <2>1 DEF Started
  <1>5. Exclusive'
    BY <1>0, <1>1, <1>3 DEF Exclusive, Started
  <1>6. ScopesInhabited'
    BY <1>0, <1>1 DEF ScopesInhabited, Started
  <1>7. UniqueKeys'
    BY <1>0 DEF UniqueKeys, Started
  <1>8. OldCurrent'
    BY <1>0, <1>1, <1>2 DEF OldCurrent, Started, RowsOf
  <1>9. RewritingIsRecorded'
    <2>1. ASSUME NEW k \in Jobs, pc'[k] \in Rewriting
          PROVE  docs'[req'[k].file] = RecordedRow(k)'
      <3>1. k # j /\ pc[k] \in Rewriting
        BY <1>1, <1>2, <2>1 DEF Rewriting
      <3>2. Running(k) /\ IsIngest(k)
        BY <3>1 DEF Rewriting, Running, Ended, TypeOK, IngestOnly, IngestReq, IsIngest
      <3> QED BY <1>1, <1>4, <3>1, <3>2 DEF RewritingIsRecorded, RecordedRow
    <2> QED BY <2>1 DEF RewritingIsRecorded
  <1>10. StoredCurrent'
    BY <1>0, <1>1, <1>2 DEF StoredCurrent, Started, RowsOf, Indexing
  <1>11. UploadIsReserved'
    <2>1. ASSUME NEW k \in Jobs \ {j}, Running(k)', req'[k].kind = "upload"
          PROVE  docs'[req'[k].file] # NoRow /\ docs'[req'[k].file].status = "pending"
      <3>1. Running(k) /\ req[k].kind = "upload" /\ IsIngest(k)
        BY <1>1, <2>1 DEF IsIngest
      <3> QED BY <1>1, <1>4, <3>1 DEF UploadIsReserved
    <2>2. req'[j].kind = "upload" =>
            docs'[req'[j].file] # NoRow /\ docs'[req'[j].file].status = "pending"
      BY <1>0 DEF Started
    <2> QED BY <2>1, <2>2 DEF UploadIsReserved
  <1> QED BY <1>5, <1>6, <1>7, <1>8, <1>9, <1>10, <1>11

\* A step that changes neither table.
LEMMA TablesRest ==
  ASSUME TypeOK, JobInv, NEW j \in Jobs, OnlyMoves(j), UNCHANGED <<docs, chunks>>,
         pc'[j] \in Rewriting => pc[j] \in Rewriting,
         pc'[j] \in {"locks", "commit"} => old'[j] = RowsOf(Scope(j)),
         pc'[j] \in Indexing => stored'[j] = RowsOf(Scope(j)),
         pc'[j] = "es_docs" => todo'[j] \subseteq stored'[j]
  PROVE  JobInv'
  <1> USE DEF JobInv
  <1>1. Exclusive' /\ ScopesInhabited'
    BY MoveFacts DEF Exclusive, ScopesInhabited
  <1>2. UniqueKeys'
    BY DEF UniqueKeys
  <1>3. \A k \in Jobs : RowsOf(Scope(k))' = RowsOf(Scope(k))
    BY MoveFacts DEF RowsOf
  <1>4. OldCurrent'
    BY <1>3, MoveFacts DEF OldCurrent, OnlyMoves
  <1>5. RewritingIsRecorded'
    BY MoveFacts DEF RewritingIsRecorded, RecordedRow, OnlyMoves
  <1>6. StoredCurrent'
    BY <1>3, MoveFacts DEF StoredCurrent, OnlyMoves, Indexing
  <1>7. UploadIsReserved'
    BY MoveFacts DEF UploadIsReserved, OnlyMoves
  <1> QED BY <1>1, <1>2, <1>4, <1>5, <1>6, <1>7

\* record_ingestion, and the last step of a job of `ingest`.
OwnRowOnly(j) ==
  /\ pc[j] \in IngestOnly
  /\ UNCHANGED <<chunks, entries>>
  /\ \A f \in Files \ {req[j].file} : docs'[f] = docs[f]
  /\ \/ pc'[j] = "delete" /\ docs'[req[j].file] = RecordedRow(j)
     \/ pc'[j] \in Ended /\ docs'[req[j].file].status \in {"indexed", "failed"}
  /\ docs'[req[j].file] \in DocRow

LEMMA OwnRowForm ==
  ASSUME TypeOK, NEW j \in Jobs, RecordIngestion(j) \/ SetIndexed(j) \/ SetFailed(j)
  PROVE  OnlyMoves(j) /\ OwnRowOnly(j)
  <1>1. OnlyMoves(j)
    BY DEF RecordIngestion, SetIndexed, SetFailed, OnlyMoves, Goto, End, Labels, Ended,
       Running, TypeOK
  <1>2. pc[j] \in IngestOnly /\ UNCHANGED <<chunks, entries>>
    BY DEF RecordIngestion, SetIndexed, SetFailed, IngestOnly, End
  <1>3. req[j].file \in Files /\ req[j].content \in Contents
    BY <1>2 DEF TypeOK, IngestReq
  <1>4. CASE RecordIngestion(j)
    <2>1. RecordedRow(j) \in DocRow
      BY <1>3, IngestionAssumption DEF RecordedRow, DocRow
    <2> QED BY <1>1, <1>2, <1>3, <1>4, <2>1
            DEF RecordIngestion, OwnRowOnly, RecordedRow, Goto, TypeOK
  <1>5. ASSUME NEW s \in {"indexed", "failed"}, SetStatus(req[j].file, s, s = "failed"),
               pc'[j] \in Ended
        PROVE  OwnRowOnly(j)
    <2>1. docs[req[j].file] \in DocRow
      BY <1>3, <1>5 DEF SetStatus, TypeOK
    <2>2. /\ docs'[req[j].file] \in DocRow
          /\ docs'[req[j].file].status = s
      BY <1>3, <1>5, <2>1 DEF SetStatus, TypeOK, DocRow
    <2> QED BY <1>2, <1>3, <1>5, <2>2 DEF OwnRowOnly, SetStatus, TypeOK
  <1>6. CASE SetIndexed(j)
    BY <1>1, <1>5, <1>6 DEF SetIndexed, End, Goto, Ended, TypeOK
  <1>7. CASE SetFailed(j)
    BY <1>1, <1>5, <1>7 DEF SetFailed, End, Goto, Ended, TypeOK
  <1> QED BY <1>4, <1>6, <1>7

LEMMA JobOwnRow ==
  ASSUME TypeOK, JobInv, NEW j \in Jobs, OnlyMoves(j), OwnRowOnly(j)
  PROVE  JobInv'
  <1> USE DEF JobInv
  <1>1. Exclusive' /\ ScopesInhabited'
    BY MoveFacts DEF Exclusive, ScopesInhabited
  <1>2. UniqueKeys'
    BY DEF UniqueKeys, OwnRowOnly
  <1>3. \A k \in Jobs : RowsOf(Scope(k))' = RowsOf(Scope(k))
    BY MoveFacts DEF RowsOf, OwnRowOnly
  <1>4. pc'[j] \in {"delete"} \cup Ended
    BY DEF OwnRowOnly
  <1>5. OldCurrent'
    BY <1>3, <1>4, MoveFacts DEF OldCurrent, OnlyMoves, Ended
  <1>6. StoredCurrent'
    BY <1>3, <1>4, MoveFacts DEF StoredCurrent, OnlyMoves, Indexing, Ended
  <1>7. ASSUME NEW k \in Jobs \ {j}, Running(k), IsIngest(k)
        PROVE  docs'[req[k].file] = docs[req[k].file]
    <2>1. Scope(j) = {req[j].file} /\ Running(j)
      BY IngestScope DEF OwnRowOnly, OnlyMoves
    <2>2. req[k].file # req[j].file
      BY <1>7, <2>1, OthersElsewhere
    <2>3. req[k].file \in Files
      BY <1>7, RequestFacts DEF Running, IngestReq
    <2> QED BY <2>2, <2>3 DEF OwnRowOnly
  <1>8. RewritingIsRecorded'
    <2>1. ASSUME NEW k \in Jobs \ {j}, pc'[k] \in Rewriting
          PROVE  docs'[req'[k].file] = RecordedRow(k)'
      <3>1. pc[k] \in Rewriting
        BY <2>1, MoveFacts
      <3>2. Running(k) /\ IsIngest(k)
        BY <3>1 DEF Rewriting, Running, Ended, TypeOK, IngestOnly, IngestReq, IsIngest
      <3> QED BY <1>7, <3>1, <3>2 DEF RewritingIsRecorded, RecordedRow, OnlyMoves
    <2>2. pc'[j] \in Rewriting => docs'[req'[j].file] = RecordedRow(j)'
      BY <1>4 DEF OwnRowOnly, RecordedRow, OnlyMoves, Rewriting, Ended
    <2> QED BY <2>1, <2>2 DEF RewritingIsRecorded
  <1>9. UploadIsReserved'
    <2>1. ASSUME NEW k \in Jobs \ {j}, Running(k)', req'[k].kind = "upload"
          PROVE  docs'[req'[k].file] # NoRow /\ docs'[req'[k].file].status = "pending"
      <3>1. Running(k) /\ req[k].kind = "upload" /\ IsIngest(k)
        BY <2>1, MoveFacts DEF IsIngest, OnlyMoves
      <3> QED BY <1>7, <3>1 DEF UploadIsReserved, OnlyMoves
    <2>2. Running(j)' => docs'[req'[j].file] # NoRow /\ docs'[req'[j].file].status = "pending"
      BY <1>4, NoRowAssumption DEF OwnRowOnly, RecordedRow, OnlyMoves, Running
    <2> QED BY <2>1, <2>2 DEF UploadIsReserved
  <1> QED BY <1>1, <1>2, <1>5, <1>6, <1>8, <1>9

\* Rows are keyed by their document and index, one chunking pass each.
LEMMA NewRowsUnique ==
  ASSUME NEW j \in Jobs, NEW r \in NewRows(j), NEW s \in NewRows(j), SameKey(r, s)
  PROVE  r = s
  BY DEF NewRows, SameKey

\* The transaction commits: the document's rows are now the job's, and no
\* other document's have changed.
LEMMA CommitForm ==
  ASSUME TypeOK, JobInv, NEW j \in Jobs, CommitChunks(j)
  PROVE  /\ OnlyMoves(j) /\ pc[j] = "commit" /\ pc'[j] = "list" /\ Running(j)
         /\ UNCHANGED <<docs, entries, req, stored, todo>>
         /\ Scope(j) = {req[j].file} /\ req[j].file \in Files
         /\ chunks' = (chunks \ RowsOf(Scope(j))) \cup NewRows(j)
         /\ \A r \in NewRows(j) : r.file = req[j].file
         /\ RowsOf({req[j].file})' = NewRows(j)
         /\ \A fs : req[j].file \notin fs => RowsOf(fs)' = RowsOf(fs)
         /\ \A k \in Jobs : k # j /\ Running(k) => RowsOf(Scope(k))' = RowsOf(Scope(k))
  <1> USE DEF JobInv
  <1>0. OnlyMoves(j)
    BY DEF CommitChunks, OnlyMoves, Goto, Labels, Running, Ended, TypeOK
  <1>1. Scope(j) = {req[j].file} /\ req[j].file \in Files
    BY IngestScope DEF CommitChunks, IngestOnly
  <1>2. /\ pc[j] = "commit" /\ pc'[j] = "list" /\ Running(j)
        /\ UNCHANGED <<docs, entries, req, stored, todo>>
    BY DEF CommitChunks, Goto, TypeOK, Running, Ended
  <1>3. chunks' = (chunks \ RowsOf(Scope(j))) \cup NewRows(j)
    BY DEF CommitChunks, OldCurrent
  <1>4. \A r \in NewRows(j) : r.file = req[j].file
    BY DEF NewRows
  <1>5. RowsOf({req[j].file})' = NewRows(j)
    BY <1>1, <1>2, <1>3, <1>4 DEF RowsOf
  <1>6. \A fs : req[j].file \notin fs => RowsOf(fs)' = RowsOf(fs)
    BY <1>1, <1>3, <1>4 DEF RowsOf
  <1>7. \A k \in Jobs : k # j /\ Running(k) => RowsOf(Scope(k))' = RowsOf(Scope(k))
    <2>1. \A k \in Jobs : k # j /\ Running(k) => req[j].file \notin Scope(k)
      BY <1>1, <1>2 DEF Exclusive
    <2>2. \A k \in Jobs : Scope(k)' = Scope(k)
      BY <1>0, MoveFacts
    <2> QED BY <1>6, <2>1, <2>2 DEF RowsOf
  <1> QED BY <1>0, <1>1, <1>2, <1>3, <1>4, <1>5, <1>6, <1>7

LEMMA JobCommit ==
  ASSUME TypeOK, JobInv, NEW j \in Jobs, CommitChunks(j)
  PROVE  JobInv'
  <1> USE DEF JobInv
  <1>0. OnlyMoves(j) /\ pc'[j] = "list" /\ UNCHANGED docs
    BY CommitForm
  <1>1. \A k \in Jobs : k # j /\ Running(k) => RowsOf(Scope(k))' = RowsOf(Scope(k))
    BY CommitForm
  <1>2. Exclusive' /\ ScopesInhabited'
    BY <1>0, MoveFacts DEF Exclusive, ScopesInhabited
  <1>3. UniqueKeys'
    <2>1. /\ chunks' = (chunks \ RowsOf(Scope(j))) \cup NewRows(j)
          /\ Scope(j) = {req[j].file}
          /\ \A r \in NewRows(j) : r.file = req[j].file
      BY CommitForm
    <2>2. ASSUME NEW r \in chunks', NEW s \in chunks', SameKey(r, s), r.file = req[j].file
          PROVE  r = s
      BY <2>1, <2>2, NewRowsUnique DEF SameKey, RowsOf
    <2>3. ASSUME NEW r \in chunks', NEW s \in chunks', SameKey(r, s), r.file # req[j].file
          PROVE  r = s
      BY <2>1, <2>3 DEF SameKey, UniqueKeys
    <2> QED BY <2>2, <2>3 DEF UniqueKeys, SameKey
  <1>4. OldCurrent'
    BY <1>0, <1>1, MoveFacts DEF OldCurrent, OnlyMoves, Running, Ended
  <1>5. RewritingIsRecorded'
    BY <1>0, MoveFacts DEF RewritingIsRecorded, RecordedRow, OnlyMoves, Rewriting
  <1>6. StoredCurrent'
    BY <1>0, <1>1, MoveFacts DEF StoredCurrent, OnlyMoves, Running, Ended, Indexing
  <1>7. UploadIsReserved'
    BY <1>0, MoveFacts DEF UploadIsReserved, OnlyMoves
  <1> QED BY <1>2, <1>3, <1>4, <1>5, <1>6, <1>7

LEMMA JobWork ==
  ASSUME TypeOK, JobInv, NEW j \in Jobs, Work(j)
  PROVE  JobInv'
  <1> USE DEF JobInv
  <1>1. CASE FindByFilename(j)
    <2>1. OnlyMoves(j) /\ pc'[j] \in {"list", "record"}
      BY <1>1 DEF FindByFilename, OnlyMoves, Goto, Labels, Ended, Running, TypeOK
    <2> QED BY <1>1, <2>1, TablesRest DEF FindByFilename, Rewriting, Indexing
  <1>2. CASE RecordIngestion(j) \/ SetIndexed(j) \/ SetFailed(j)
    BY <1>2, OwnRowForm, JobOwnRow
  <1>3. CASE DeleteChunks(j) \/ AcquireRowLocks(j)
    <2>1. /\ OnlyMoves(j) /\ pc[j] \in Rewriting /\ pc'[j] \in {"locks", "commit"}
          /\ UNCHANGED <<docs, chunks>>
      BY <1>3 DEF DeleteChunks, AcquireRowLocks, OnlyMoves, Goto, Labels, Ended, Running,
         Rewriting, TypeOK
    <2>2. Scope(j) = {req[j].file}
      BY <1>3, IngestScope DEF DeleteChunks, AcquireRowLocks, IngestOnly
    <2>3. old'[j] = RowsOf(Scope(j))
      BY <1>3, <2>2 DEF DeleteChunks, AcquireRowLocks, OldCurrent, TypeOK
    <2> QED BY <2>1, <2>3, TablesRest DEF Indexing
  <1>4. CASE ListForDocument(j)
    <2>1. /\ pc'[j] \in Labels \ ({"idle"} \cup Rewriting \cup {"es_docs"})
          /\ pc' = [pc EXCEPT ![j] = pc'[j]]
      BY <1>4 DEF ListForDocument, Goto, Labels, AfterIndexing, Ended, Rewriting, TypeOK
    <2>2. OnlyMoves(j)
      BY <1>4, <2>1 DEF ListForDocument, OnlyMoves, Running, Ended, TypeOK
    <2>3. stored'[j] = RowsOf(Scope(j)) /\ UNCHANGED <<docs, chunks>>
      BY <1>4 DEF ListForDocument, TypeOK
    <2> QED BY <2>1, <2>2, <2>3, TablesRest DEF Rewriting
  <1>5. CASE EnsureIndex(j)
    <2>1. /\ OnlyMoves(j) /\ pc[j] \in Indexing /\ pc'[j] \in {"upsert", "es_docs"}
          /\ UNCHANGED <<docs, chunks, stored>>
          /\ pc'[j] = "es_docs" => todo'[j] = stored[j]
      BY <1>5 DEF EnsureIndex, Ensured, OnlyMoves, Goto, Labels, Ended, Running, Indexing, TypeOK
    <2> QED BY <2>1, TablesRest DEF StoredCurrent, Rewriting
  <1>6. CASE UpsertPoints(j)
    <2>1. /\ OnlyMoves(j) /\ pc[j] \in Indexing
          /\ pc'[j] \in {"es_index", "set_indexed", "done"}
          /\ UNCHANGED <<docs, chunks, stored>>
      BY <1>6 DEF UpsertPoints, Upserted, AfterIndexing, OnlyMoves, Goto, Labels, Ended,
         Running, Indexing, TypeOK
    <2> QED BY <2>1, TablesRest DEF StoredCurrent, Rewriting
  <1>7. ASSUME NEW r \in todo[j], IndexChunk(j, r) PROVE JobInv'
    <2>1. /\ OnlyMoves(j) /\ pc[j] = "es_docs"
          /\ pc'[j] \in {"es_docs", "set_indexed", "done"}
          /\ UNCHANGED <<docs, chunks, stored>> /\ todo'[j] \subseteq todo[j]
      BY <1>7 DEF IndexChunk, Sent, AfterIndexing, OnlyMoves, Goto, Labels, Ended,
         Running, TypeOK
    <2> QED BY <2>1, TablesRest DEF StoredCurrent, Rewriting, Indexing
  <1> QED BY <1>1, <1>2, <1>3, <1>4, <1>5, <1>6, <1>7, JobCommit DEF Work

LEMMA JobFault ==
  ASSUME TypeOK, JobInv, NEW j \in Jobs, Fault(j)
  PROVE  JobInv'
  <1>1. /\ OnlyMoves(j) /\ UNCHANGED <<docs, chunks>>
        /\ pc'[j] \in {"set_failed", "aborted"}
    <2>1. CASE LoaderFails(j) \/ StoreFails(j) \/ CommandDies(j)
      BY <2>1 DEF LoaderFails, StoreFails, CommandDies, OnlyMoves, End, Goto, Labels,
         Ended, Running, TypeOK
    <2>2. CASE IndexingFails(j)
      BY <2>2 DEF IndexingFails, OnlyMoves, End, Goto, Labels, Ended, Running, TypeOK
    <2> QED BY <2>1, <2>2 DEF Fault
  <1> QED BY <1>1, TablesRest DEF Rewriting, Indexing

\* The death of the backend ends several jobs at once; stuttering ends none.
LEMMA DeathFacts ==
  ASSUME TypeOK, BackendDies \/ UNCHANGED vars
  PROVE  /\ UNCHANGED <<docs, chunks, entries, req>>
         /\ \A k \in Jobs : pc'[k] # "aborted" =>
              /\ pc'[k] = pc[k] /\ old'[k] = old[k] /\ stored'[k] = stored[k]
              /\ todo'[k] = todo[k]
         /\ \A k \in Jobs : /\ Scope(k)' = Scope(k) /\ Targets(k)' = Targets(k)
                            /\ RowsOf(Scope(k))' = RowsOf(Scope(k))
                            /\ Running(k)' => Running(k)
  <1>1. /\ UNCHANGED <<docs, chunks, entries, req>>
        /\ \A k \in Jobs : pc'[k] # "aborted" =>
             /\ pc'[k] = pc[k] /\ old'[k] = old[k] /\ stored'[k] = stored[k] /\ todo'[k] = todo[k]
    BY DEF BackendDies, vars, TypeOK
  <1> QED BY <1>1 DEF Scope, Targets, IsIngest, RowsOf, Running, Ended

LEMMA JobDeath ==
  ASSUME TypeOK, JobInv, BackendDies \/ UNCHANGED vars
  PROVE  JobInv'
  <1> USE DEF JobInv
  <1>1. Exclusive' /\ ScopesInhabited' /\ UniqueKeys'
    BY DeathFacts DEF Exclusive, ScopesInhabited, UniqueKeys
  <1>2. OldCurrent'
    BY DeathFacts DEF OldCurrent
  <1>3. RewritingIsRecorded'
    BY DeathFacts DEF RewritingIsRecorded, RecordedRow, Rewriting
  <1>4. StoredCurrent'
    BY DeathFacts DEF StoredCurrent, Indexing
  <1>5. UploadIsReserved'
    BY DeathFacts DEF UploadIsReserved
  <1> QED BY <1>1, <1>2, <1>3, <1>4, <1>5

LEMMA JobStep ==
  ASSUME TypeOK, JobInv, PerFile, [Next]_vars
  PROVE  JobInv'
  BY JobStart, JobWork, JobFault, JobDeath DEF Next

LEMMA JobInit == Init => JobInv
  BY DEF Init, JobInv, Exclusive, ScopesInhabited, UniqueKeys, OldCurrent,
     RewritingIsRecorded, StoredCurrent, UploadIsReserved, Running, Rewriting, Indexing

LEMMA JobInvariant == PerFile /\ Spec => []JobInv
  <1>1. SUFFICES ASSUME PerFile PROVE Spec => []JobInv
    OBVIOUS
  <1>2. TypeOK /\ JobInv /\ [Next]_vars => JobInv'
    BY <1>1, JobStep
  <1> QED BY <1>2, JobInit, TypeCorrect, PTL DEF Spec

(* With one job at a time on a file, a poll during an upload reads         *)
(* pending: nobody else's outcome shows before the upload's own.           *)
THEOREM PendingWhileUploading == PerFile /\ Spec => []UploadInProgressIsPending
  <1>1. JobInv => UploadInProgressIsPending
    BY DEF JobInv, UploadIsReserved, UploadInProgressIsPending
  <1> QED BY <1>1, JobInvariant, PTL
-----------------------------------------------------------------------------
(***************************************************************************)
(* The hash of the row describes the chunks of the file, or a job is about *)
(* to replace them by the chunks it describes. A job that has recorded the *)
(* new hash must get as far as its commit: with "store" or "crash" faults  *)
(* it may not, and the next upload of the same bytes finds them unchanged. *)
(***************************************************************************)

RewriteCompletes == Faults \subseteq {"loader", "index"}

ChunksOf(f, hash, count) ==
  {[file |-> f, index |-> i, content |-> hash] : i \in 0..(count - 1)}

Described(f) ==
  EntriesOf(RowsOf({f})) =
    IF docs[f] = NoRow THEN {} ELSE ChunksOf(f, docs[f].hash, docs[f].count)

HashInv ==
  \A f \in Files : Described(f) \/ \E j \in Jobs : pc[j] \in Rewriting /\ req[j].file = f

\* Steps that rewrite no chunk and no hash.
SameHashes ==
  \A f \in Files : Described(f) => Described(f)'

LEMMA RowsKeepDescribing ==
  ASSUME UNCHANGED <<docs, chunks>>
  PROVE  SameHashes
  BY DEF SameHashes, Described, EntriesOf, EntryOf, RowsOf

LEMMA ReserveKeepsHash ==
  ASSUME TypeOK, NEW f \in Files, Reserve(f), UNCHANGED chunks
  PROVE  SameHashes
  <1> SUFFICES ASSUME NEW g \in Files, Described(g) PROVE Described(g)'
    BY DEF SameHashes
  <1>1. EntriesOf(RowsOf({g}))' = EntriesOf(RowsOf({g}))
    BY DEF EntriesOf, EntryOf, RowsOf
  <1>2. CASE g # f
    BY <1>1, <1>2 DEF Reserve, Described, TypeOK
  <1>3. CASE g = f /\ docs[f] = NoRow
    <2>1. docs'[f] # NoRow
      BY ReserveRow, NoRowAssumption
    <2>2. docs'[f].hash = NoHash /\ docs'[f].count = 0
      BY <1>3 DEF Reserve, TypeOK
    <2>3. ChunksOf(f, NoHash, 0) = {}
      BY DEF ChunksOf
    <2> QED BY <1>1, <1>3, <2>1, <2>2, <2>3 DEF Described
  <1>4. CASE g = f /\ docs[f] # NoRow
    <2>1. docs'[f] # NoRow
      BY ReserveRow, NoRowAssumption
    <2>2. docs'[f].hash = docs[f].hash /\ docs'[f].count = docs[f].count
      BY <1>4 DEF Reserve, TypeOK
    <2> QED BY <1>1, <1>4, <2>1, <2>2 DEF Described
  <1> QED BY <1>2, <1>3, <1>4

LEMMA StatusKeepsHash ==
  ASSUME TypeOK, NEW f \in Files, NEW s \in {"indexed", "failed"}, NEW e \in BOOLEAN,
         SetStatus(f, s, e), UNCHANGED chunks
  PROVE  SameHashes
  <1> SUFFICES ASSUME NEW g \in Files, Described(g) PROVE Described(g)'
    BY DEF SameHashes
  <1>1. EntriesOf(RowsOf({g}))' = EntriesOf(RowsOf({g}))
    BY DEF EntriesOf, EntryOf, RowsOf
  <1>2. CASE g # f
    BY <1>1, <1>2 DEF SetStatus, Described, TypeOK
  <1>3. CASE g = f
    <2>1. docs[f] \in DocRow
      BY DEF SetStatus, TypeOK
    <2>2. docs'[f] \in DocRow
      BY <2>1 DEF SetStatus, TypeOK, DocRow
    <2>3. docs'[f].hash = docs[f].hash /\ docs'[f].count = docs[f].count
      BY DEF SetStatus, TypeOK
    <2> QED BY <1>1, <1>3, <2>1, <2>2, <2>3, NoRowAssumption DEF Described
  <1> QED BY <1>2, <1>3

\* A step that keeps the hashes and ends no rewriting.
LEMMA HashKept ==
  ASSUME HashInv, SameHashes,
         \A k \in Jobs : pc[k] \in Rewriting => pc'[k] \in Rewriting /\ req'[k] = req[k]
  PROVE  HashInv'
  BY DEF HashInv, SameHashes

LEMMA HashStart ==
  ASSUME TypeOK, HashInv, NEW j \in Jobs, Start(j)
  PROVE  HashInv'
  <1>1. \A k \in Jobs : pc[k] \in Rewriting => pc'[k] = pc[k] /\ req'[k] = req[k]
    BY DEF Start, Upload, IngestCli, IndexCli, Goto, TypeOK, Rewriting
  <1>2. SameHashes
    BY ReserveKeepsHash, RowsKeepDescribing DEF Start, Upload, IngestCli, IndexCli
  <1> QED BY <1>1, <1>2, HashKept

LEMMA HashRecord ==
  ASSUME TypeOK, HashInv, NEW j \in Jobs, RecordIngestion(j)
  PROVE  HashInv'
  <1>1. /\ UNCHANGED <<chunks, req>> /\ pc'[j] \in Rewriting
        /\ \A k \in Jobs : pc[k] \in Rewriting => pc'[k] = pc[k]
    BY DEF RecordIngestion, Goto, Rewriting, TypeOK
  <1>2. ASSUME NEW f \in Files, f # req[j].file, Described(f) PROVE Described(f)'
    <2>1. docs'[f] = docs[f]
      BY <1>2 DEF RecordIngestion, TypeOK
    <2> QED BY <1>1, <1>2, <2>1 DEF Described, EntriesOf, EntryOf, RowsOf
  <1> QED BY <1>1, <1>2 DEF HashInv

LEMMA HashCommit ==
  ASSUME TypeOK, JobInv, HashInv, NEW j \in Jobs, CommitChunks(j)
  PROVE  HashInv'
  <1>0. PICK f \in Files : f = req[j].file
    BY CommitForm
  <1>1. /\ UNCHANGED <<docs, req>> /\ pc[j] = "commit"
        /\ RowsOf({f})' = NewRows(j)
        /\ \A fs : f \notin fs => RowsOf(fs)' = RowsOf(fs)
        /\ \A k \in Jobs \ {j} : pc'[k] = pc[k]
    BY <1>0, CommitForm, MoveFacts
  <1>2. Described(f)'
    <2>1. docs[f] = RecordedRow(j)
      BY <1>0, <1>1 DEF JobInv, RewritingIsRecorded, Rewriting
    <2>2. docs[f] # NoRow
      <3>1. req[j].content \in Contents
        BY <1>1 DEF TypeOK, IngestOnly, IngestReq
      <3>2. RecordedRow(j) \in DocRow
        BY <3>1, IngestionAssumption DEF RecordedRow, DocRow
      <3> QED BY <2>1, <3>2, NoRowAssumption
    <2>3. EntriesOf(NewRows(j)) = ChunksOf(f, req[j].content, ChunkCount[req[j].content])
      <3>1. \A i : EntryOf([file |-> f, index |-> i, content |-> req[j].content, writer |-> j])
                    = [file |-> f, index |-> i, content |-> req[j].content]
        BY DEF EntryOf
      <3> QED BY <1>0, <3>1 DEF EntriesOf, NewRows, ChunksOf
    <2>4. EntriesOf(RowsOf({f}))' = EntriesOf(NewRows(j))
      BY <1>1 DEF EntriesOf, EntryOf
    <2> QED BY <1>1, <2>1, <2>2, <2>3, <2>4 DEF Described, RecordedRow
  <1>3. ASSUME NEW g \in Files, g # f
        PROVE  Described(g)' \/ \E k \in Jobs : pc'[k] \in Rewriting /\ req'[k].file = g
    <2>1. CASE Described(g)
      <3>1. RowsOf({g})' = RowsOf({g})
        BY <1>1, <1>3
      <3> QED BY <1>1, <2>1, <3>1 DEF Described, EntriesOf, EntryOf
    <2>2. CASE ~Described(g)
      <3>1. PICK k \in Jobs : pc[k] \in Rewriting /\ req[k].file = g
        BY <2>2 DEF HashInv
      <3> QED BY <1>0, <1>1, <1>3, <3>1
    <2> QED BY <2>1, <2>2
  <1> QED BY <1>2, <1>3 DEF HashInv

LEMMA HashWork ==
  ASSUME TypeOK, JobInv, HashInv, NEW j \in Jobs, Work(j)
  PROVE  HashInv'
  <1>1. CASE FindByFilename(j) \/ DeleteChunks(j) \/ AcquireRowLocks(j) \/ ListForDocument(j)
             \/ EnsureIndex(j) \/ UpsertPoints(j) \/ \E r \in todo[j] : IndexChunk(j, r)
    <2>1. UNCHANGED <<docs, chunks, req>>
      BY <1>1 DEF FindByFilename, DeleteChunks, AcquireRowLocks, ListForDocument,
         EnsureIndex, UpsertPoints, IndexChunk
    <2>2. \A k \in Jobs : pc[k] \in Rewriting => pc'[k] \in Rewriting
      BY <1>1 DEF FindByFilename, DeleteChunks, AcquireRowLocks, ListForDocument,
         EnsureIndex, Ensured, UpsertPoints, Upserted, IndexChunk, Sent, Goto, Rewriting, TypeOK
    <2> QED BY <2>1, <2>2, RowsKeepDescribing, HashKept
  <1>2. CASE SetIndexed(j) \/ SetFailed(j)
    <2>1. req[j].file \in Files
      BY <1>2 DEF SetIndexed, SetFailed, TypeOK, IngestOnly, IngestReq
    <2>2. SameHashes
      BY <1>2, <2>1, StatusKeepsHash DEF SetIndexed, SetFailed
    <2>3. /\ UNCHANGED req
          /\ \A k \in Jobs : pc[k] \in Rewriting => pc'[k] = pc[k]
      BY <1>2 DEF SetIndexed, SetFailed, End, Goto, Rewriting, TypeOK
    <2> QED BY <2>2, <2>3, HashKept
  <1> QED BY <1>1, <1>2, HashRecord, HashCommit DEF Work

LEMMA HashFault ==
  ASSUME TypeOK, HashInv, RewriteCompletes, NEW j \in Jobs, Fault(j)
  PROVE  HashInv'
  <1>1. LoaderFails(j) \/ IndexingFails(j)
    BY DEF Fault, StoreFails, CommandDies, RewriteCompletes
  <1>2. /\ UNCHANGED <<docs, chunks, req>>
        /\ \A k \in Jobs : pc[k] \in Rewriting => pc'[k] = pc[k]
    BY <1>1 DEF LoaderFails, IndexingFails, End, Goto, Rewriting, TypeOK
  <1> QED BY <1>2, RowsKeepDescribing, HashKept

LEMMA HashStep ==
  ASSUME TypeOK, JobInv, HashInv, RewriteCompletes, [Next]_vars
  PROVE  HashInv'
  <1>1. CASE BackendDies
    BY <1>1 DEF BackendDies, RewriteCompletes
  <1>2. CASE UNCHANGED vars
    BY <1>2, RowsKeepDescribing, HashKept DEF vars
  <1> QED BY <1>1, <1>2, HashStart, HashWork, HashFault DEF Next

(* With one job at a time on a file, and as long as whoever records a new  *)
(* hash gets to commit the chunks, a row that says indexed describes the   *)
(* chunks Postgres holds: the bytes it names, as many as it says. The      *)
(* short-circuit of `ingest` trusts it.                                    *)
THEOREM HashDescribesChunks ==
  PerFile /\ RewriteCompletes /\ Spec => []IndexedMatchesHash
  <1>1. SUFFICES ASSUME RewriteCompletes PROVE PerFile /\ Spec => []IndexedMatchesHash
    OBVIOUS
  <1>2. Init => HashInv
    BY DEF Init, HashInv, Described, EntriesOf, RowsOf
  <1>3. TypeOK /\ JobInv /\ HashInv /\ [Next]_vars => HashInv'
    BY <1>1, HashStep
  <1>4. JobInv /\ HashInv => IndexedMatchesHash
    <2> SUFFICES ASSUME JobInv, HashInv, NEW f \in Files, Indexed(f)
                 PROVE  EntriesOf(RowsOf({f})) = ChunksOf(f, docs[f].hash, docs[f].count)
      BY DEF IndexedMatchesHash, ChunksOf
    <2>1. ASSUME NEW j \in Jobs, pc[j] \in Rewriting, req[j].file = f PROVE FALSE
      <3>1. docs[f] = RecordedRow(j)
        BY <2>1 DEF JobInv, RewritingIsRecorded
      <3>2. docs[f].status = "pending"
        BY <3>1 DEF RecordedRow
      <3> QED BY <3>2 DEF Indexed, StatusOf
    <2> QED BY <2>1 DEF HashInv, Described, Indexed, StatusOf
  <1> QED BY <1>2, <1>3, <1>4, JobInvariant, TypeCorrect, PTL DEF Spec
-----------------------------------------------------------------------------
(***************************************************************************)
(* A rebuild of everything: `app.cli.index --full-reindex` over all the    *)
(* documents and both indexes. With one job at a time on a file it runs    *)
(* alone, so what it drops and writes is all that happens to the indexes.  *)
(***************************************************************************)

Rebuilding(j) ==
  /\ Running(j) /\ ~IsIngest(j)
  /\ req[j].full /\ req[j].scope = Files /\ req[j].targets = Backends

RebuildInv ==
  \A j \in Jobs : Rebuilding(j) /\ Files # {} =>
    /\ pc[j] = "upsert" => entries["qdrant"] = {}
    /\ pc[j] \in {"es_index", "es_docs"} => entries["qdrant"] = EntriesOf(chunks)
    /\ pc[j] = "es_docs" => entries["elasticsearch"] = EntriesOf(chunks \ todo[j])

LEMMA RebuildsAlone ==
  ASSUME JobInv, NEW j \in Jobs, Rebuilding(j), Files # {}, NEW k \in Jobs \ {j}
  PROVE  ~Running(k)
  BY DEF JobInv, Exclusive, ScopesInhabited, Rebuilding, Scope

LEMMA RebuildFacts ==
  ASSUME TypeOK, JobInv, NEW j \in Jobs, Rebuilding(j)
  PROVE  /\ pc[j] \notin IngestOnly
         /\ Targets(j) = Backends
         /\ AfterIndexing(j) = "done"
         /\ RowsOf(Scope(j)) = chunks
         /\ pc[j] \in Indexing => stored[j] = chunks
         /\ pc[j] = "es_docs" => todo[j] \subseteq chunks
  <1>1. pc[j] \notin IngestOnly
    BY DEF Rebuilding, TypeOK, IngestReq, IsIngest
  <1>2. Targets(j) = Backends /\ AfterIndexing(j) = "done"
    BY DEF Rebuilding, Targets, AfterIndexing
  <1>3. RowsOf(Scope(j)) = chunks
    BY DEF Rebuilding, Scope, RowsOf, TypeOK, ChunkRow
  <1> QED BY <1>1, <1>2, <1>3 DEF JobInv, StoredCurrent, Indexing

\* Writing rows of Postgres into an index loses no row that was there, and a
\* batch of them writes all of them.
LEMMA UpsertKeeps ==
  ASSUME UniqueKeys, NEW es, NEW new, new \subseteq EntriesOf(chunks),
         NEW e \in EntriesOf(chunks), e \in es
  PROVE  e \in Upsert(es, new)
  <1>1. PICK r \in chunks : e = EntryOf(r)
    BY DEF EntriesOf
  <1>2. ASSUME NEW d \in new, SameKey(d, e) PROVE d = e
    <2>1. PICK s \in chunks : d = EntryOf(s)
      BY DEF EntriesOf
    <2>2. SameKey(s, r)
      BY <1>1, <1>2, <2>1 DEF SameKey, EntryOf
    <2> QED BY <1>1, <2>1, <2>2 DEF UniqueKeys
  <1> QED BY <1>2 DEF Upsert

LEMMA BatchIsAll ==
  ASSUME UniqueKeys, NEW rows, rows \subseteq chunks, NEW new \in LastWins(rows)
  PROVE  new = EntriesOf(rows) /\ new \subseteq EntriesOf(chunks)
  <1>1. new \subseteq EntriesOf(rows)
    BY DEF LastWins
  <1>2. ASSUME NEW r \in rows PROVE EntryOf(r) \in new
    <2>1. PICK e \in new : SameKey(r, e)
      BY DEF LastWins
    <2>2. PICK s \in rows : e = EntryOf(s)
      BY <1>1 DEF EntriesOf
    <2>3. SameKey(r, s)
      BY <2>1, <2>2 DEF SameKey, EntryOf
    <2> QED BY <2>1, <2>2, <2>3 DEF UniqueKeys
  <1> QED BY <1>1, <1>2 DEF EntriesOf

\* One row more, of a document set without duplicates.
LEMMA OneMore ==
  ASSUME UniqueKeys, NEW rows, rows \subseteq chunks, NEW r \in chunks \ rows
  PROVE  Upsert(EntriesOf(rows), {EntryOf(r)}) = EntriesOf(rows \cup {r})
  <1>1. \A e \in EntriesOf(rows) : ~SameKey(EntryOf(r), e)
    <2> SUFFICES ASSUME NEW s \in rows, SameKey(EntryOf(r), EntryOf(s)) PROVE FALSE
      BY DEF EntriesOf
    <2>1. SameKey(r, s)
      BY DEF SameKey, EntryOf
    <2> QED BY <2>1 DEF UniqueKeys
  <1>2. EntriesOf(rows \cup {r}) = EntriesOf(rows) \cup {EntryOf(r)}
    BY DEF EntriesOf
  <1> QED BY <1>1, <1>2 DEF Upsert

\* What the call that sends the last row leaves behind, and every call before.
LEMMA RebuildSends ==
  ASSUME TypeOK, JobInv, RebuildInv, NEW j \in Jobs, Rebuilding(j), Files # {},
         NEW r \in todo[j], Sent(j, r)
  PROVE  /\ entries'["qdrant"] = EntriesOf(chunks)
         /\ entries'["elasticsearch"] = EntriesOf(chunks \ (todo[j] \ {r}))
  <1>1. pc[j] = "es_docs" /\ todo[j] \subseteq chunks
    BY RebuildFacts DEF Sent
  <1>2. /\ entries["qdrant"] = EntriesOf(chunks)
        /\ entries["elasticsearch"] = EntriesOf(chunks \ todo[j])
    BY <1>1 DEF RebuildInv
  <1>3. Upsert(EntriesOf(chunks \ todo[j]), {EntryOf(r)}) = EntriesOf((chunks \ todo[j]) \cup {r})
    BY <1>1, OneMore DEF JobInv
  <1>4. (chunks \ todo[j]) \cup {r} = chunks \ (todo[j] \ {r})
    BY <1>1
  <1> QED BY <1>2, <1>3, <1>4 DEF Sent, TypeOK, Backends

LEMMA RebuildOwnWork ==
  ASSUME TypeOK, JobInv, RebuildInv, NEW j \in Jobs, Rebuilding(j), Files # {}, Work(j)
  PROVE  /\ pc'[j] = "upsert" => entries'["qdrant"] = {}
         /\ pc'[j] \in {"es_index", "es_docs"} => entries'["qdrant"] = EntriesOf(chunks')
         /\ pc'[j] = "es_docs" => entries'["elasticsearch"] = EntriesOf(chunks' \ todo'[j])
  <1>1. CASE ListForDocument(j)
    <2>1. pc'[j] \in {"collection", "done"}
      BY <1>1, RebuildFacts DEF ListForDocument, Goto, TypeOK, Backends
    <2> QED BY <2>1
  <1>2. CASE EnsureIndex(j)
    <2>1. req[j].full /\ UNCHANGED chunks
      BY <1>2 DEF EnsureIndex, Rebuilding
    <2>2. CASE pc[j] = "collection"
      <3>1. pc'[j] = "upsert" /\ entries' = Recreate("qdrant", req[j].full)
        BY <1>2, <2>2 DEF EnsureIndex, Ensured, Goto, TypeOK
      <3> QED BY <2>1, <3>1 DEF Recreate, TypeOK, Backends
    <2>3. CASE pc[j] = "es_index"
      <3>1. /\ pc'[j] = "es_docs" /\ entries' = Recreate("elasticsearch", req[j].full)
            /\ todo'[j] = stored[j]
        BY <1>2, <2>3 DEF EnsureIndex, Ensured, Goto, TypeOK
      <3>2. entries'["elasticsearch"] = {} /\ entries'["qdrant"] = entries["qdrant"]
        BY <2>1, <3>1 DEF Recreate, TypeOK, Backends
      <3>3. chunks \ todo'[j] = {}
        BY <2>3, <3>1, RebuildFacts DEF Indexing
      <3>4. EntriesOf(chunks' \ todo'[j]) = {}
        BY <2>1, <3>3 DEF EntriesOf
      <3>5. EntriesOf(chunks') = EntriesOf(chunks)
        BY <2>1
      <3> QED BY <2>3, <3>1, <3>2, <3>4, <3>5 DEF RebuildInv
    <2> QED BY <1>2, <2>2, <2>3 DEF EnsureIndex, Ensured
  <1>3. CASE UpsertPoints(j)
    <2>1. pc'[j] = "es_index" /\ pc[j] = "upsert" /\ UNCHANGED chunks
      BY <1>3, RebuildFacts DEF UpsertPoints, Upserted, Goto, TypeOK, Backends
    <2>2. PICK new \in LastWins(stored[j]) :
            entries' = [entries EXCEPT !["qdrant"] = Upsert(entries["qdrant"], new)]
      BY <1>3 DEF UpsertPoints, Upserted
    <2>3. new = EntriesOf(chunks)
      BY <2>1, BatchIsAll, RebuildFacts DEF JobInv, Indexing
    <2>4. entries["qdrant"] = {}
      BY <2>1 DEF RebuildInv
    <2>5. entries'["qdrant"] = EntriesOf(chunks)
      BY <2>2, <2>3, <2>4 DEF Upsert, TypeOK, Backends
    <2>6. EntriesOf(chunks') = EntriesOf(chunks)
      BY <2>1
    <2> QED BY <2>1, <2>5, <2>6
  <1>4. ASSUME NEW r \in todo[j], IndexChunk(j, r)
        PROVE  /\ pc'[j] \in {"es_docs", "done"}
               /\ entries'["qdrant"] = EntriesOf(chunks')
               /\ entries'["elasticsearch"] = EntriesOf(chunks' \ todo'[j])
    <2>1. /\ pc'[j] \in {"es_docs", "done"} /\ UNCHANGED chunks
          /\ todo'[j] = todo[j] \ {r} /\ Sent(j, r)
      BY <1>4, RebuildFacts DEF IndexChunk, Goto, TypeOK
    <2> QED BY <2>1, RebuildSends
  <1>5. CASE FindByFilename(j) \/ RecordIngestion(j) \/ DeleteChunks(j) \/ AcquireRowLocks(j)
             \/ CommitChunks(j) \/ SetIndexed(j) \/ SetFailed(j)
    BY <1>5, RebuildFacts DEF FindByFilename, RecordIngestion, DeleteChunks, AcquireRowLocks,
       CommitChunks, SetIndexed, SetFailed, IngestOnly
  <1> QED BY <1>1, <1>2, <1>3, <1>4, <1>5 DEF Work

LEMMA RebuildStep ==
  ASSUME TypeOK, JobInv, RebuildInv, [Next]_vars
  PROVE  RebuildInv'
  <1> SUFFICES ASSUME NEW j \in Jobs, Rebuilding(j)', Files # {}
               PROVE  /\ pc'[j] = "upsert" => entries'["qdrant"] = {}
                      /\ pc'[j] \in {"es_index", "es_docs"} =>
                           entries'["qdrant"] = EntriesOf(chunks')
                      /\ pc'[j] = "es_docs" =>
                           entries'["elasticsearch"] = EntriesOf(chunks' \ todo'[j])
    BY DEF RebuildInv, EntriesOf, EntryOf
  <1>1. ASSUME UNCHANGED <<chunks, entries>>, pc'[j] = pc[j], req'[j] = req[j],
               todo'[j] = todo[j]
        PROVE  /\ pc'[j] = "upsert" => entries'["qdrant"] = {}
               /\ pc'[j] \in {"es_index", "es_docs"} => entries'["qdrant"] = EntriesOf(chunks')
               /\ pc'[j] = "es_docs" =>
                    entries'["elasticsearch"] = EntriesOf(chunks' \ todo'[j])
    <2>1. Rebuilding(j)
      BY <1>1 DEF Rebuilding, Running, IsIngest
    <2> QED BY <1>1, <2>1 DEF RebuildInv
  <1>2. ASSUME NEW k \in Jobs, Start(k)
        PROVE  pc'[j] \in {"find", "list"} \/ k # j
    BY <1>2 DEF Start, Upload, IngestCli, IndexCli, Goto, TypeOK
  <1>3. ASSUME NEW k \in Jobs \ {j}, Start(k)
        PROVE  /\ UNCHANGED <<chunks, entries, todo>>
               /\ pc'[j] = pc[j] /\ req'[j] = req[j]
    BY <1>3 DEF Start, Upload, IngestCli, IndexCli, Goto, TypeOK
  <1>4. ASSUME NEW k \in Jobs \ {j}, Work(k) \/ Fault(k) PROVE FALSE
    <2>1. Running(k) /\ UNCHANGED req /\ pc'[j] = pc[j]
      BY <1>4, OneJobMoves
    <2>2. Rebuilding(j)
      BY <2>1 DEF Rebuilding, Running, IsIngest
    <2> QED BY <2>1, <2>2, RebuildsAlone
  <1>5. CASE Work(j)
    <2>1. Running(j) /\ UNCHANGED req
      BY <1>5, OneJobMoves
    <2>2. Rebuilding(j)
      BY <2>1 DEF Rebuilding, IsIngest
    <2> QED BY <1>5, <2>2, RebuildOwnWork
  <1>6. CASE Fault(j)
    <2>1. pc'[j] \in {"set_failed", "aborted"}
      BY <1>6 DEF Fault, LoaderFails, StoreFails, IndexingFails, CommandDies, End, Goto, TypeOK
    <2> QED BY <2>1
  <1>7. CASE BackendDies \/ UNCHANGED vars
    <2>1. pc'[j] # "aborted"
      BY DEF Rebuilding, Running, Ended
    <2> QED BY <1>1, <1>7, <2>1, DeathFacts
  <1> QED BY <1>1, <1>2, <1>3, <1>4, <1>5, <1>6, <1>7 DEF Next

(* A full rebuild of all documents that ends leaves in each index exactly  *)
(* the rows of Postgres: nothing stale, nothing missing, whatever was      *)
(* there before and whatever other jobs did to it.                         *)
THEOREM RebuildExact == PerFile /\ Spec => RebuildIsExact
  <1> DEFINE Exact ==
        \A j \in Jobs :
          /\ pc[j] = "es_docs" /\ pc'[j] = "done"
          /\ req[j].full /\ req[j].scope = Files /\ req[j].targets = Backends
          => \A b \in Backends : entries'[b] = EntriesOf(chunks)
  <1>1. Init => RebuildInv
    BY DEF Init, RebuildInv
  <1>2. TypeOK /\ JobInv /\ RebuildInv /\ [Next]_vars => RebuildInv'
    BY RebuildStep
  <1>3. ASSUME TypeOK, JobInv, RebuildInv, [Next]_vars PROVE [Exact]_vars
    <2> SUFFICES ASSUME NEW j \in Jobs, pc[j] = "es_docs", pc'[j] = "done",
                        req[j].full, req[j].scope = Files, req[j].targets = Backends
                 PROVE  \A b \in Backends : entries'[b] = EntriesOf(chunks)
      OBVIOUS
    <2>1. \E r \in todo[j] : IndexChunk(j, r)
      <3>1. \A k \in Jobs \ {j} : ~Start(k) /\ ~Work(k) /\ ~Fault(k)
        <4>1. ASSUME NEW k \in Jobs \ {j}, Start(k) PROVE FALSE
          BY <1>3, <4>1 DEF Start, Upload, IngestCli, IndexCli, Goto, TypeOK
        <4> QED BY <1>3, <4>1, OneJobMoves
      <3>2. ~BackendDies /\ vars' # vars
        BY <1>3 DEF BackendDies, vars, TypeOK
      <3>3. ~Start(j) /\ ~Fault(j)
        BY <1>3 DEF Start, Upload, IngestCli, IndexCli, Fault, LoaderFails, StoreFails,
           IndexingFails, CommandDies, End, Goto, TypeOK
      <3>4. Work(j)
        BY <1>3, <3>1, <3>2, <3>3 DEF Next
      <3> QED BY <3>4 DEF Work, FindByFilename, RecordIngestion, DeleteChunks,
              AcquireRowLocks, CommitChunks, ListForDocument, EnsureIndex, Ensured,
              UpsertPoints, Upserted, SetIndexed, SetFailed
    <2>2. PICK r \in todo[j] : IndexChunk(j, r)
      BY <2>1
    <2>3. todo[j] = {r} /\ AfterIndexing(j) = "done" /\ Sent(j, r)
      BY <1>3, <2>2 DEF IndexChunk, Goto, TypeOK
    <2>4. Rebuilding(j)
      BY <2>3 DEF Rebuilding, AfterIndexing, Running, Ended
    <2>5. Files # {} /\ chunks \ (todo[j] \ {r}) = chunks
      <3>1. r \in ChunkRow
        BY <1>3 DEF TypeOK
      <3> QED BY <2>3, <3>1 DEF ChunkRow
    <2> QED BY <1>3, <2>3, <2>4, <2>5, RebuildSends DEF Backends
  <1>4. TypeOK /\ JobInv /\ RebuildInv /\ [Next]_vars => [Exact]_vars
    BY <1>3
  <1> QED BY <1>1, <1>2, <1>4, JobInvariant, TypeCorrect, PTL DEF Spec, RebuildIsExact
-----------------------------------------------------------------------------
(***************************************************************************)
(* A document that says indexed is searchable. Besides one job at a time   *)
(* on a file this takes that nobody drops an index under it.               *)
(***************************************************************************)

\* How far each job has come with writing the rows to the indexes.
WrittenSoFar ==
  \A j \in Jobs :
    /\ pc[j] \in {"es_index", "es_docs", "set_indexed"} /\ "qdrant" \in Targets(j) =>
         EntriesOf(RowsOf(Scope(j))) \subseteq entries["qdrant"]
    /\ pc[j] = "es_docs" =>
         EntriesOf(RowsOf(Scope(j)) \ todo[j]) \subseteq entries["elasticsearch"]
    /\ pc[j] = "set_indexed" =>
         EntriesOf(RowsOf(Scope(j))) \subseteq entries["elasticsearch"]

SearchInv == WrittenSoFar /\ IndexedIsSearchable

EntriesKept ==
  \A b \in Backends, e \in EntriesOf(chunks) : e \in entries[b] => e \in entries'[b]

LEMMA EntriesUnchanged == UNCHANGED entries => EntriesKept
  BY DEF EntriesKept

LEMMA IndexWritesKeep ==
  ASSUME TypeOK, JobInv, NothingDropped, NEW j \in Jobs, Running(j),
         Ensured(j) \/ Upserted(j) \/ \E r \in todo[j] : Sent(j, r)
  PROVE  EntriesKept
  <1>1. CASE Ensured(j)
    <2>1. req[j].full = FALSE
      BY DEF NothingDropped
    <2> QED BY <1>1, <2>1 DEF Ensured, Recreate, TypeOK, Backends, EntriesKept
  <1>2. CASE Upserted(j)
    <2>1. stored[j] \subseteq chunks
      BY <1>2 DEF JobInv, StoredCurrent, Upserted, RowsOf, Indexing
    <2>2. PICK new \in LastWins(stored[j]) :
            entries' = [entries EXCEPT !["qdrant"] = Upsert(entries["qdrant"], new)]
      BY <1>2 DEF Upserted
    <2>3. new \subseteq EntriesOf(chunks)
      BY <2>1, BatchIsAll DEF JobInv
    <2>4. \A e \in EntriesOf(chunks) :
            e \in entries["qdrant"] => e \in Upsert(entries["qdrant"], new)
      BY <2>3, UpsertKeeps DEF JobInv
    <2> QED BY <2>2, <2>4 DEF TypeOK, Backends, EntriesKept
  <1>3. CASE \E r \in todo[j] : Sent(j, r)
    <2>0. PICK r \in todo[j] : Sent(j, r)
      BY <1>3
    <2>1. r \in chunks
      BY <2>0 DEF JobInv, StoredCurrent, Sent, RowsOf, Indexing
    <2>2. {EntryOf(r)} \subseteq EntriesOf(chunks)
      BY <2>1 DEF EntriesOf
    <2>3. \A e \in EntriesOf(chunks) :
            e \in entries["elasticsearch"] => e \in Upsert(entries["elasticsearch"], {EntryOf(r)})
      BY <2>2, UpsertKeeps DEF JobInv
    <2> QED BY <2>0, <2>3 DEF Sent, TypeOK, Backends, EntriesKept
  <1> QED BY <1>1, <1>2, <1>3
-----------------------------------------------------------------------------
(* The invariant, one kind of step at a time. *)

\* A step that leaves the rows alone and says indexed of no new document:
\* what is left is that the job's own label promises the truth.
LEMMA IndexingKeeps ==
  ASSUME TypeOK, SearchInv, NEW j \in Jobs, OnlyMoves(j), EntriesKept,
         UNCHANGED chunks, \A f \in Files : Indexed(f)' => Indexed(f),
         pc'[j] = "es_docs" => EntriesOf(RowsOf(Scope(j)) \ todo'[j])
                                 \subseteq entries'["elasticsearch"],
         pc'[j] \in {"es_index", "es_docs", "set_indexed"} /\ "qdrant" \in Targets(j) =>
           EntriesOf(RowsOf(Scope(j))) \subseteq entries'["qdrant"],
         pc'[j] = "set_indexed" =>
           EntriesOf(RowsOf(Scope(j))) \subseteq entries'["elasticsearch"]
  PROVE  SearchInv'
  <1> USE DEF SearchInv
  <1>1. \A k \in Jobs : RowsOf(Scope(k))' = RowsOf(Scope(k))
    BY MoveFacts DEF RowsOf
  <1>2. WrittenSoFar'
    <2>1. ASSUME NEW k \in Jobs \ {j}
          PROVE  /\ pc'[k] = pc[k] /\ todo'[k] = todo[k]
                 /\ Targets(k)' = Targets(k)
                 /\ RowsOf(Scope(k))' = RowsOf(Scope(k))
      BY <1>1, MoveFacts DEF OnlyMoves
    <2>2. \A k \in Jobs : RowsOf(Scope(k)) \subseteq chunks
      BY DEF RowsOf
    <2>3. ASSUME NEW k \in Jobs \ {j}
          PROVE
    /\ pc'[k] \in {"es_index", "es_docs", "set_indexed"} /\ "qdrant" \in Targets(k) =>
         EntriesOf(RowsOf(Scope(k))) \subseteq entries'["qdrant"]
    /\ pc'[k] = "es_docs" =>
         EntriesOf(RowsOf(Scope(k)) \ todo[k]) \subseteq entries'["elasticsearch"]
    /\ pc'[k] = "set_indexed" =>
         EntriesOf(RowsOf(Scope(k))) \subseteq entries'["elasticsearch"]
      <3>1. /\ EntriesOf(RowsOf(Scope(k))) \subseteq EntriesOf(chunks)
            /\ EntriesOf(RowsOf(Scope(k)) \ todo[k]) \subseteq EntriesOf(chunks)
        BY <2>2 DEF EntriesOf
      <3>2. \A b \in Backends : \A es :
              es \subseteq EntriesOf(chunks) /\ es \subseteq entries[b] => es \subseteq entries'[b]
        BY DEF EntriesKept
      <3>3. pc'[k] = pc[k]
        BY <2>1
      <3>4. /\ pc[k] \in {"es_index", "es_docs", "set_indexed"} /\ "qdrant" \in Targets(k) =>
                 EntriesOf(RowsOf(Scope(k))) \subseteq entries["qdrant"]
            /\ pc[k] = "es_docs" =>
                 EntriesOf(RowsOf(Scope(k)) \ todo[k]) \subseteq entries["elasticsearch"]
            /\ pc[k] = "set_indexed" =>
                 EntriesOf(RowsOf(Scope(k))) \subseteq entries["elasticsearch"]
        BY DEF WrittenSoFar
      <3> QED BY <3>1, <3>2, <3>3, <3>4 DEF Backends
    <2>4. Targets(j)' = Targets(j)
      BY MoveFacts
    <2> QED BY <1>1, <2>1, <2>3, <2>4 DEF WrittenSoFar, EntriesOf, EntryOf
  <1>3. IndexedIsSearchable'
    BY DEF IndexedIsSearchable, Searchable, EntriesOf, EntryOf, RowsOf, EntriesKept
  <1> QED BY <1>2, <1>3

\* A step that brings its job to a label that promises nothing.
LEMMA HarmlessKeeps ==
  ASSUME TypeOK, SearchInv, NEW j \in Jobs, OnlyMoves(j), EntriesKept,
         UNCHANGED chunks, \A f \in Files : Indexed(f)' => Indexed(f),
         pc'[j] \notin {"es_index", "es_docs", "set_indexed"}
  PROVE  SearchInv'
  BY IndexingKeeps

LEMMA SameRows == UNCHANGED docs => \A f \in Files : Indexed(f)' => Indexed(f)
  BY DEF Indexed, StatusOf

LEMMA StartKeeps ==
  ASSUME TypeOK, SearchInv, NEW j \in Jobs, Start(j)
  PROVE  SearchInv'
  <1> USE DEF SearchInv
  <1>0. PICK scope : Started(j, scope)
    BY StartForm
  <1>1. \A k \in Jobs \ {j} : /\ Scope(k)' = Scope(k) /\ Targets(k)' = Targets(k)
                              /\ pc'[k] = pc[k]
    BY <1>0 DEF Started, Scope, Targets, IsIngest, TypeOK
  <1>2. pc'[j] \in {"find", "list"}
    BY <1>0 DEF Started, TypeOK
  <1>3. WrittenSoFar'
    BY <1>0, <1>1, <1>2 DEF WrittenSoFar, Started, RowsOf, EntriesOf, EntryOf
  <1>4. IndexedIsSearchable'
    BY <1>0 DEF IndexedIsSearchable, Searchable, Started, RowsOf, EntriesOf, EntryOf
  <1> QED BY <1>3, <1>4

\* The job's own row is set to pending or failed.
LEMMA DemoteKeeps ==
  ASSUME TypeOK, SearchInv, NEW j \in Jobs, RecordIngestion(j) \/ SetFailed(j)
  PROVE  SearchInv'
  <1>1. OnlyMoves(j) /\ OwnRowOnly(j)
    BY OwnRowForm
  <1>2. req[j].file \in Files
    BY <1>1, IngestScope DEF OwnRowOnly
  <1>3. \A f \in Files : Indexed(f)' => Indexed(f)
    <2>1. CASE RecordIngestion(j)
      BY <1>2, <2>1 DEF RecordIngestion, Indexed, StatusOf, TypeOK
    <2>2. CASE SetFailed(j)
      BY <1>2, <2>2 DEF SetFailed, SetStatus, End, Indexed, StatusOf, TypeOK
    <2> QED BY <2>1, <2>2
  <1>4. pc'[j] \in {"delete"} \cup Ended /\ UNCHANGED <<chunks, entries>>
    BY <1>1 DEF OwnRowOnly
  <1> QED BY <1>1, <1>3, <1>4, EntriesUnchanged, HarmlessKeeps DEF Ended

LEMMA CommitKeeps ==
  ASSUME TypeOK, JobInv, SearchInv, NEW j \in Jobs, CommitChunks(j)
  PROVE  SearchInv'
  <1> USE DEF SearchInv
  <1>1. /\ OnlyMoves(j) /\ pc[j] = "commit" /\ pc'[j] = "list"
        /\ UNCHANGED <<docs, entries, req, todo>>
        /\ \A fs : req[j].file \notin fs => RowsOf(fs)' = RowsOf(fs)
        /\ \A k \in Jobs : k # j /\ Running(k) => RowsOf(Scope(k))' = RowsOf(Scope(k))
    BY CommitForm
  <1>2. WrittenSoFar'
    <2>1. \A k \in Jobs : pc'[k] \in {"es_index", "es_docs", "set_indexed"} =>
            /\ k # j /\ pc[k] = pc'[k] /\ RowsOf(Scope(k))' = RowsOf(Scope(k))
      BY <1>1, MoveFacts DEF Running, Ended
    <2>2. \A k \in Jobs : Targets(k)' = Targets(k)
      BY <1>1, MoveFacts
    <2> QED BY <1>1, <2>1, <2>2 DEF WrittenSoFar, EntriesOf, EntryOf
  <1>3. IndexedIsSearchable'
    <2>1. ASSUME NEW f \in Files, Indexed(f)' PROVE Searchable(f)'
      <3>1. docs[req[j].file].status = "pending"
        <4>1. docs[req[j].file] = RecordedRow(j)
          BY <1>1 DEF JobInv, RewritingIsRecorded, Rewriting
        <4> QED BY <4>1 DEF RecordedRow
      <3>2. Indexed(f) /\ f # req[j].file
        BY <1>1, <2>1, <3>1 DEF Indexed, StatusOf
      <3>3. RowsOf({f})' = RowsOf({f})
        BY <1>1, <3>2
      <3> QED BY <1>1, <3>2, <3>3 DEF IndexedIsSearchable, Searchable, EntriesOf, EntryOf
    <2> QED BY <2>1 DEF IndexedIsSearchable
  <1> QED BY <1>2, <1>3

LEMMA ListKeeps ==
  ASSUME TypeOK, SearchInv, NEW j \in Jobs, ListForDocument(j)
  PROVE  SearchInv'
  <1>1. AfterIndexing(j) \in {"set_indexed", "done"}
    BY DEF AfterIndexing
  <1>2. OnlyMoves(j)
    BY <1>1 DEF ListForDocument, OnlyMoves, Goto, Labels, Running, Ended, TypeOK
  <1>3. UNCHANGED <<docs, chunks, entries>>
    BY DEF ListForDocument
  <1>4. CASE RowsOf(Scope(j)) = {}
    <2>1. EntriesOf(RowsOf(Scope(j))) = {}
      BY <1>4 DEF EntriesOf
    <2>2. pc'[j] \in {"set_indexed", "done"}
      BY <1>1, <1>4 DEF ListForDocument, Goto, TypeOK
    <2> QED BY <1>2, <1>3, <2>1, <2>2, SameRows, EntriesUnchanged, IndexingKeeps
  <1>5. CASE RowsOf(Scope(j)) # {}
    <2>1. /\ pc'[j] \in {"collection", "es_index"}
          /\ pc'[j] = "es_index" => "qdrant" \notin Targets(j)
      BY <1>5 DEF ListForDocument, Goto, TypeOK
    <2> QED BY <1>2, <1>3, <2>1, SameRows, EntriesUnchanged, IndexingKeeps
  <1> QED BY <1>4, <1>5

LEMMA EnsureKeeps ==
  ASSUME TypeOK, JobInv, NothingDropped, SearchInv, NEW j \in Jobs, EnsureIndex(j)
  PROVE  SearchInv'
  <1>1. Running(j) /\ pc[j] \in {"collection", "es_index"}
    BY DEF EnsureIndex, Ensured, Running, Ended
  <1>2. OnlyMoves(j)
    BY <1>1 DEF EnsureIndex, OnlyMoves, Goto, Labels, Ended, TypeOK
  <1>3. EntriesKept
    BY <1>1, IndexWritesKeep DEF EnsureIndex
  <1>4. UNCHANGED <<docs, chunks>>
    BY DEF EnsureIndex
  <1>5. CASE pc[j] = "collection"
    <2>1. pc'[j] = "upsert"
      BY <1>5 DEF EnsureIndex, Goto, TypeOK
    <2> QED BY <1>2, <1>3, <1>4, <2>1, SameRows, HarmlessKeeps
  <1>6. CASE pc[j] = "es_index"
    <2>1. pc'[j] = "es_docs" /\ todo'[j] = stored[j]
      BY <1>6 DEF EnsureIndex, Goto, TypeOK
    <2>2. stored[j] = RowsOf(Scope(j))
      BY <1>6 DEF JobInv, StoredCurrent, Indexing
    <2>3. EntriesOf(RowsOf(Scope(j)) \ todo'[j]) = {}
      BY <2>1, <2>2 DEF EntriesOf
    <2>4. "qdrant" \in Targets(j) => EntriesOf(RowsOf(Scope(j))) \subseteq entries'["qdrant"]
      <3>1. "qdrant" \in Targets(j) => EntriesOf(RowsOf(Scope(j))) \subseteq entries["qdrant"]
        BY <1>6 DEF SearchInv, WrittenSoFar
      <3> QED BY <1>3, <3>1 DEF EntriesKept, EntriesOf, RowsOf, Backends
    <2> QED BY <1>2, <1>3, <1>4, <2>1, <2>3, <2>4, SameRows, IndexingKeeps
  <1> QED BY <1>1, <1>5, <1>6

LEMMA UpsertPointsKeeps ==
  ASSUME TypeOK, JobInv, NothingDropped, SearchInv, NEW j \in Jobs, UpsertPoints(j)
  PROVE  SearchInv'
  <1>1. Running(j) /\ pc[j] = "upsert"
    BY DEF UpsertPoints, Upserted, Running, Ended
  <1>2. /\ Targets(j) \subseteq Backends
        /\ IsIngest(j) => Targets(j) = Backends
    BY <1>1, RequestFacts DEF Targets
  <1>3. pc'[j] \in {"es_index", "done"}
    BY <1>2 DEF UpsertPoints, Goto, AfterIndexing, TypeOK, Backends
  <1>4. OnlyMoves(j)
    BY <1>1, <1>3 DEF UpsertPoints, OnlyMoves, Goto, Labels, Ended, TypeOK
  <1>5. EntriesKept
    BY <1>1, IndexWritesKeep DEF UpsertPoints
  <1>6. stored[j] = RowsOf(Scope(j))
    BY <1>1 DEF JobInv, StoredCurrent, Indexing
  <1>7. EntriesOf(RowsOf(Scope(j))) \subseteq entries'["qdrant"]
    <2>1. PICK new \in LastWins(stored[j]) :
            entries' = [entries EXCEPT !["qdrant"] = Upsert(entries["qdrant"], new)]
      BY DEF UpsertPoints, Upserted
    <2>2. EntriesOf(stored[j]) \subseteq new
      BY <1>6, BatchIsAll DEF JobInv, RowsOf
    <2> QED BY <1>6, <2>1, <2>2 DEF Upsert, TypeOK, Backends
  <1>8. UNCHANGED <<docs, chunks>>
    BY DEF UpsertPoints
  <1> QED BY <1>3, <1>4, <1>5, <1>7, <1>8, SameRows, IndexingKeeps

LEMMA IndexChunkKeeps ==
  ASSUME TypeOK, JobInv, NothingDropped, SearchInv, NEW j \in Jobs, NEW r \in todo[j],
         IndexChunk(j, r)
  PROVE  SearchInv'
  <1>1. Running(j) /\ pc[j] = "es_docs"
    BY DEF IndexChunk, Sent, Running, Ended
  <1>2. IF todo[j] = {r} THEN pc'[j] \in {"set_indexed", "done"} ELSE pc'[j] = "es_docs"
    BY DEF IndexChunk, Goto, AfterIndexing, TypeOK
  <1>3. OnlyMoves(j)
    BY <1>1, <1>2 DEF IndexChunk, OnlyMoves, Goto, Labels, Ended, TypeOK, AfterIndexing
  <1>4. EntriesKept
    BY <1>1, IndexWritesKeep DEF IndexChunk
  <1>5. todo'[j] = todo[j] \ {r} /\ UNCHANGED <<docs, chunks>>
    BY DEF IndexChunk, TypeOK
  <1>6. EntriesOf(RowsOf(Scope(j)) \ todo'[j]) \subseteq entries'["elasticsearch"]
    <2>1. EntriesOf(RowsOf(Scope(j)) \ todo[j]) \subseteq entries["elasticsearch"]
      BY <1>1 DEF SearchInv, WrittenSoFar
    <2>2. EntriesOf(RowsOf(Scope(j)) \ todo[j]) \subseteq entries'["elasticsearch"]
      BY <1>4, <2>1 DEF EntriesKept, EntriesOf, RowsOf, Backends
    <2>3. EntryOf(r) \in entries'["elasticsearch"]
      BY DEF IndexChunk, Sent, Upsert, TypeOK, Backends
    <2> QED BY <1>5, <2>2, <2>3 DEF EntriesOf
  <1>7. "qdrant" \in Targets(j) => EntriesOf(RowsOf(Scope(j))) \subseteq entries'["qdrant"]
    <2>1. "qdrant" \in Targets(j) => EntriesOf(RowsOf(Scope(j))) \subseteq entries["qdrant"]
      BY <1>1 DEF SearchInv, WrittenSoFar
    <2> QED BY <1>4, <2>1 DEF EntriesKept, EntriesOf, RowsOf, Backends
  <1>8. todo[j] = {r} => RowsOf(Scope(j)) \ todo'[j] = RowsOf(Scope(j))
    BY <1>5
  <1>9. pc'[j] = "set_indexed" =>
          EntriesOf(RowsOf(Scope(j))) \subseteq entries'["elasticsearch"]
    BY <1>2, <1>6, <1>8
  <1> QED BY <1>3, <1>4, <1>5, <1>6, <1>7, <1>9, SameRows, IndexingKeeps

\* The row becomes indexed when both indexes hold what Postgres holds.
LEMMA PublishedIsSearchable ==
  ASSUME TypeOK, SearchInv, NEW j \in Jobs, SetIndexed(j)
  PROVE  req[j].file \in Files /\ Searchable(req[j].file)
  <1>1. Scope(j) = {req[j].file} /\ req[j].file \in Files /\ Targets(j) = Backends
    BY IngestScope DEF SetIndexed, IngestOnly
  <1> QED BY <1>1 DEF SetIndexed, SearchInv, WrittenSoFar, Searchable, Backends

LEMMA SetIndexedKeeps ==
  ASSUME TypeOK, SearchInv, NEW j \in Jobs, SetIndexed(j)
  PROVE  SearchInv'
  <1> USE DEF SearchInv
  <1>1. OnlyMoves(j) /\ OwnRowOnly(j)
    BY OwnRowForm
  <1>2. pc'[j] = "done" /\ UNCHANGED <<chunks, entries, req>>
    BY DEF SetIndexed, Goto, End, TypeOK
  <1>3. \A k \in Jobs : RowsOf(Scope(k))' = RowsOf(Scope(k))
    BY <1>1, <1>2, MoveFacts DEF RowsOf
  <1>4. WrittenSoFar'
    <2>1. \A k \in Jobs : pc'[k] \in {"es_index", "es_docs", "set_indexed"} =>
            k # j /\ pc[k] = pc'[k] /\ todo'[k] = todo[k]
      BY <1>1, <1>2, MoveFacts DEF OnlyMoves
    <2> QED BY <1>1, <1>2, <1>3, <2>1, MoveFacts DEF WrittenSoFar, EntriesOf, EntryOf, RowsOf
  <1>5. IndexedIsSearchable'
    <2>1. ASSUME NEW f \in Files, Indexed(f)' PROVE Searchable(f)
      <3>1. CASE f = req[j].file
        BY <3>1, PublishedIsSearchable
      <3>2. CASE f # req[j].file
        BY <1>1, <2>1, <3>2 DEF OwnRowOnly, IndexedIsSearchable, Indexed, StatusOf
      <3> QED BY <3>1, <3>2
    <2> QED BY <1>2, <2>1 DEF IndexedIsSearchable, Searchable, EntriesOf, EntryOf, RowsOf
  <1> QED BY <1>4, <1>5

LEMMA WorkKeeps ==
  ASSUME TypeOK, JobInv, NothingDropped, SearchInv, NEW j \in Jobs, Work(j)
  PROVE  SearchInv'
  <1>1. CASE FindByFilename(j) \/ DeleteChunks(j) \/ AcquireRowLocks(j)
    <2>1. OnlyMoves(j) /\ pc'[j] \in {"list", "record", "locks", "commit"}
      BY <1>1 DEF FindByFilename, DeleteChunks, AcquireRowLocks, OnlyMoves, Goto, Labels,
         Ended, Running, TypeOK
    <2>2. UNCHANGED <<docs, chunks, entries>>
      BY <1>1 DEF FindByFilename, DeleteChunks, AcquireRowLocks
    <2> QED BY <2>1, <2>2, SameRows, EntriesUnchanged, HarmlessKeeps
  <1> QED BY <1>1, DemoteKeeps, CommitKeeps, ListKeeps, EnsureKeeps, UpsertPointsKeeps,
             IndexChunkKeeps, SetIndexedKeeps DEF Work

LEMMA FaultKeeps ==
  ASSUME TypeOK, JobInv, NothingDropped, SearchInv, NEW j \in Jobs, Fault(j)
  PROVE  SearchInv' /\ UNCHANGED <<docs, chunks>> /\ EntriesKept
  <1>1. Running(j) /\ UNCHANGED <<docs, chunks>>
    BY DEF Fault, LoaderFails, StoreFails, IndexingFails, CommandDies, Running, Ended
  <1>2. EntriesKept
    BY <1>1, EntriesUnchanged, IndexWritesKeep
       DEF Fault, LoaderFails, StoreFails, IndexingFails, CommandDies
  <1>3. OnlyMoves(j) /\ pc'[j] \in {"set_failed", "aborted"}
    BY <1>1 DEF Fault, LoaderFails, StoreFails, IndexingFails, CommandDies, OnlyMoves, End,
       Goto, Labels, Ended, TypeOK
  <1> QED BY <1>1, <1>2, <1>3, SameRows, HarmlessKeeps

LEMMA DeathKeeps ==
  ASSUME TypeOK, SearchInv, BackendDies \/ UNCHANGED vars
  PROVE  SearchInv'
  <1> USE DEF SearchInv
  <1>1. WrittenSoFar'
    BY DeathFacts DEF WrittenSoFar, EntriesOf, EntryOf
  <1>2. IndexedIsSearchable'
    BY DeathFacts DEF IndexedIsSearchable, Indexed, StatusOf, Searchable, EntriesOf,
       EntryOf, RowsOf
  <1> QED BY <1>1, <1>2

LEMMA SearchInit == Init => SearchInv /\ NothingDropped
  BY DEF Init, SearchInv, NothingDropped, WrittenSoFar, IndexedIsSearchable, Indexed,
     StatusOf, Running

LEMMA SearchStep ==
  ASSUME TypeOK, JobInv, NothingDropped, SearchInv, [Next]_vars
  PROVE  SearchInv'
  BY StartKeeps, WorkKeeps, FaultKeeps, DeathKeeps DEF Next

\* The regime: one job at a time on a file, and nobody drops an index.
OneJobPerFile == PerFile /\ NoIndexDropped

LEMMA SearchInvariant == OneJobPerFile /\ Spec => [](NothingDropped /\ SearchInv)
  <1>1. SUFFICES ASSUME NoIndexDropped
                 PROVE  PerFile /\ Spec => [](NothingDropped /\ SearchInv)
    BY DEF OneJobPerFile
  <1>2. TypeOK /\ JobInv /\ NothingDropped /\ SearchInv /\ [Next]_vars =>
          (NothingDropped /\ SearchInv)'
    BY <1>1, NothingDroppedStep, SearchStep
  <1> QED BY <1>2, SearchInit, JobInvariant, TypeCorrect, PTL DEF Spec

(* With one job at a time on a file and no index dropped, an indexed       *)
(* document is searchable, through failures, crashes and re-uploads.       *)
THEOREM IndexedSearchable == OneJobPerFile /\ Spec => []IndexedIsSearchable
  <1>1. SearchInv => IndexedIsSearchable
    BY DEF SearchInv
  <1> QED BY <1>1, SearchInvariant, PTL
-----------------------------------------------------------------------------
(***************************************************************************)
(* The pipeline implements DocumentLifecycle. A step that records or       *)
(* reserves a row is Accept, one that sets the status is Publish or Fail,  *)
(* and whatever rewrites rows or indexes is Write.                         *)
(***************************************************************************)

statusBar == [f \in Files |-> StatusOf(f)]
searchableBar == [f \in Files |-> Searchable(f)]

LEMMA SameBars ==
  ASSUME UNCHANGED <<docs, chunks, entries>>
  PROVE  UNCHANGED Lifecycle!vars
  BY DEF Lifecycle!vars, StatusOf, Searchable, EntriesOf, EntryOf, RowsOf

LEMMA SameSearchable ==
  ASSUME UNCHANGED <<chunks, entries>>
  PROVE  searchableBar' = searchableBar
  BY DEF searchableBar, Searchable, EntriesOf, EntryOf, RowsOf

\* A row that changes is a row of the document's own status.
LEMMA OneStatus ==
  ASSUME TypeOK, NEW f \in Files, docs'[f] \in DocRow,
         \A g \in Files \ {f} : docs'[g] = docs[g]
  PROVE  statusBar' = [statusBar EXCEPT ![f] = docs'[f].status]
  <1>1. StatusOf(f)' = docs'[f].status
    BY NoRowAssumption DEF StatusOf
  <1>2. \A g \in Files \ {f} : StatusOf(g)' = StatusOf(g)
    BY DEF StatusOf
  <1> QED BY <1>1, <1>2 DEF statusBar

LEMMA AcceptStep ==
  ASSUME TypeOK, NEW f \in Files, docs'[f] \in DocRow, docs'[f].status = "pending",
         \A g \in Files \ {f} : docs'[g] = docs[g], UNCHANGED <<chunks, entries>>
  PROVE  Lifecycle!Accept(f)
  BY OneStatus, SameSearchable DEF Lifecycle!Accept, statusBar, searchableBar

LEMMA WriteStep ==
  ASSUME TypeOK, IndexedIsSearchable', UNCHANGED docs
  PROVE  Lifecycle!Write
  <1>1. statusBar' = statusBar
    BY DEF statusBar, StatusOf
  <1>2. \A f \in Files : Searchable(f)' \in BOOLEAN
    BY DEF Searchable
  <1>3. searchableBar' \in [Files -> BOOLEAN]
    BY <1>2 DEF searchableBar
  <1>4. ASSUME NEW f \in Files, statusBar[f] = "indexed" PROVE searchableBar'[f]
    <2>1. Indexed(f)'
      BY <1>4 DEF statusBar, Indexed, StatusOf
    <2> QED BY <2>1 DEF searchableBar, IndexedIsSearchable
  <1> QED BY <1>1, <1>3, <1>4 DEF Lifecycle!Write, statusBar, searchableBar

LEMMA PublishStep ==
  ASSUME TypeOK, SearchInv, NEW j \in Jobs, SetIndexed(j)
  PROVE  \E f \in Files : Lifecycle!Publish(f)
  <1> DEFINE f == req[j].file
  <1>1. /\ f \in Files /\ Searchable(f)
    BY PublishedIsSearchable
  <1>2. /\ docs'[f] \in DocRow /\ \A g \in Files \ {f} : docs'[g] = docs[g]
        /\ UNCHANGED <<chunks, entries>>
    BY OwnRowForm DEF OwnRowOnly
  <1>3. docs'[f].status = "indexed" /\ docs[f] # NoRow
    BY <1>1 DEF SetIndexed, SetStatus, TypeOK
  <1>4. statusBar' = [statusBar EXCEPT ![f] = "indexed"]
    BY <1>1, <1>2, <1>3, OneStatus
  <1>5. statusBar[f] # "absent"
    <2>1. docs[f].status # "absent"
      BY <1>1, <1>3 DEF TypeOK, DocRow
    <2> QED BY <1>1, <1>3, <2>1 DEF statusBar, StatusOf
  <1> QED BY <1>1, <1>2, <1>4, <1>5, SameSearchable
          DEF Lifecycle!Publish, statusBar, searchableBar

LEMMA FailStep ==
  ASSUME TypeOK, NEW j \in Jobs, SetFailed(j)
  PROVE  \E f \in Files : Lifecycle!Fail(f)
  <1> DEFINE f == req[j].file
  <1>1. f \in Files
    BY IngestScope DEF SetFailed, IngestOnly
  <1>2. /\ docs'[f] \in DocRow /\ \A g \in Files \ {f} : docs'[g] = docs[g]
        /\ UNCHANGED <<chunks, entries>>
    BY OwnRowForm DEF OwnRowOnly
  <1>3. docs'[f].status = "failed" /\ docs[f] # NoRow
    BY <1>1 DEF SetFailed, SetStatus, TypeOK
  <1>4. statusBar' = [statusBar EXCEPT ![f] = "failed"]
    BY <1>1, <1>2, <1>3, OneStatus
  <1>5. statusBar[f] # "absent"
    <2>1. docs[f].status # "absent"
      BY <1>1, <1>3 DEF TypeOK, DocRow
    <2> QED BY <1>1, <1>3, <2>1 DEF statusBar, StatusOf
  <1> QED BY <1>1, <1>2, <1>4, <1>5, SameSearchable
          DEF Lifecycle!Fail, statusBar, searchableBar

LEMMA LifecycleStart ==
  ASSUME TypeOK, NEW j \in Jobs, Start(j)
  PROVE  Lifecycle!Next \/ UNCHANGED Lifecycle!vars
  <1>1. ASSUME NEW f \in Files, NEW c \in Contents, Upload(j, f, c)
        PROVE  Lifecycle!Next
    <2>1. \A g \in Files \ {f} : docs'[g] = docs[g]
      BY <1>1 DEF Upload, Reserve, TypeOK
    <2>2. Lifecycle!Accept(f)
      BY <1>1, <2>1, ReserveRow, AcceptStep DEF Upload
    <2> QED BY <2>2 DEF Lifecycle!Next
  <1>2. CASE ~\E f \in Files, c \in Contents : Upload(j, f, c)
    BY <1>2, SameBars DEF Start, IngestCli, IndexCli
  <1> QED BY <1>1, <1>2

LEMMA LifecycleWork ==
  ASSUME TypeOK, JobInv, NothingDropped, SearchInv, SearchInv', NEW j \in Jobs, Work(j)
  PROVE  Lifecycle!Next
  <1>1. CASE RecordIngestion(j)
    <2>1. req[j].file \in Files
      BY <1>1, IngestScope DEF RecordIngestion, IngestOnly
    <2>2. /\ docs'[req[j].file] \in DocRow
          /\ \A g \in Files \ {req[j].file} : docs'[g] = docs[g]
          /\ UNCHANGED <<chunks, entries>>
      BY <1>1, OwnRowForm DEF OwnRowOnly
    <2>3. docs'[req[j].file].status = "pending"
      BY <1>1, <2>1 DEF RecordIngestion, TypeOK
    <2> QED BY <2>1, <2>2, <2>3, AcceptStep DEF Lifecycle!Next
  <1>2. CASE SetIndexed(j)
    BY <1>2, PublishStep DEF Lifecycle!Next
  <1>3. CASE SetFailed(j)
    BY <1>3, FailStep DEF Lifecycle!Next
  <1>4. CASE ~RecordIngestion(j) /\ ~SetIndexed(j) /\ ~SetFailed(j)
    <2>1. UNCHANGED docs
      BY <1>4 DEF Work, FindByFilename, DeleteChunks, AcquireRowLocks, CommitChunks,
         ListForDocument, EnsureIndex, UpsertPoints, IndexChunk
    <2> QED BY <2>1, WriteStep DEF SearchInv, Lifecycle!Next
  <1> QED BY <1>1, <1>2, <1>3, <1>4

LEMMA LifecycleStep ==
  ASSUME TypeOK, JobInv, NothingDropped, SearchInv, [Next]_vars
  PROVE  [Lifecycle!Next]_Lifecycle!vars
  <1>1. SearchInv'
    BY SearchStep
  <1>2. ASSUME NEW j \in Jobs, Fault(j) PROVE Lifecycle!Next
    <2>1. UNCHANGED docs
      BY <1>2, FaultKeeps
    <2> QED BY <1>1, <2>1, WriteStep DEF SearchInv, Lifecycle!Next
  <1>3. CASE BackendDies \/ UNCHANGED vars
    BY <1>3, SameBars DEF BackendDies, vars
  <1> QED BY <1>1, <1>2, <1>3, LifecycleStart, LifecycleWork DEF Next

(* With one job at a time on a file and no index dropped, the pipeline     *)
(* implements what DocumentLifecycle promises the caller who polls.        *)
THEOREM Implementation == OneJobPerFile /\ Spec => ImplementsLifecycle
  <1>1. Init => Lifecycle!Init
    BY DEF Init, Lifecycle!Init, StatusOf, Searchable, EntriesOf, RowsOf
  <1>2. TypeOK /\ JobInv /\ NothingDropped /\ SearchInv /\ [Next]_vars =>
          [Lifecycle!Next]_Lifecycle!vars
    BY LifecycleStep
  <1>3. OneJobPerFile /\ Spec => [](TypeOK /\ JobInv /\ NothingDropped /\ SearchInv)
    <2>1. OneJobPerFile => PerFile
      BY DEF OneJobPerFile
    <2> QED BY <2>1, TypeCorrect, JobInvariant, SearchInvariant, PTL
  <1> QED BY <1>1, <1>2, <1>3, PTL DEF Spec, ImplementsLifecycle, Lifecycle!Spec
-----------------------------------------------------------------------------
(* Why a job ends *)

(* How far a job is from its end.                                          *)
Place == [idle |-> 13, find |-> 12, record |-> 11, delete |-> 10, locks |-> 9, commit |-> 8,
          list |-> 7, collection |-> 6, upsert |-> 5, es_index |-> 4, es_docs |-> 3,
          set_indexed |-> 2, set_failed |-> 1, done |-> 0, failed |-> 0, aborted |-> 0]
Behind(j) == Place[pc[j]]

(* A document has finitely many rows, so the loop over them ends.          *)
FiniteRows ==
  /\ IsFiniteSet(chunks)
  /\ \A j \in Jobs : IsFiniteSet(stored[j]) /\ IsFiniteSet(todo[j])

LEMMA NewRowsFinite ==
  ASSUME TypeOK, NEW j \in Jobs, pc[j] \in IngestOnly
  PROVE  IsFiniteSet(NewRows(j))
  <1> DEFINE D == 0 .. (ChunkCount[req[j].content] - 1)
             f == [i \in D |-> [file |-> req[j].file, index |-> i,
                                content |-> req[j].content, writer |-> j]]
  <1>1. ChunkCount[req[j].content] \in Nat
    BY IngestionAssumption DEF TypeOK, IngestReq
  <1>2. IsFiniteSet(D)
    BY <1>1, FS_Interval
  <1>3. f \in Surjection(D, NewRows(j))
    BY DEF Surjection, NewRows
  <1> QED BY <1>2, <1>3, FS_Surjection

(* What a step leaves to the loop, and to the listing.                     *)
LEMMA RowsStep ==
  ASSUME TypeOK, [Next]_vars
  PROVE  /\ \/ chunks' = chunks
            \/ \E j \in Jobs : CommitChunks(j)
         /\ \A k \in Jobs : stored'[k] \in {stored[k], {}} \/ stored'[k] \subseteq chunks
         /\ \A k \in Jobs : \/ todo'[k] \in {todo[k], {}, stored[k]}
                            \/ \E r \in todo[k] : todo'[k] = todo[k] \ {r}
  <1>1. ASSUME NEW j \in Jobs, Start(j)
        PROVE  UNCHANGED <<chunks, stored, todo>>
    BY <1>1 DEF Start, Upload, IngestCli, IndexCli
  <1>2. ASSUME NEW j \in Jobs,
               End(j, "done") \/ End(j, "failed") \/ End(j, "aborted"), UNCHANGED chunks
        PROVE  /\ UNCHANGED chunks
               /\ \A k \in Jobs : stored'[k] \in {stored[k], {}} /\ todo'[k] \in {todo[k], {}}
    BY <1>2 DEF End, TypeOK
  <1>3. ASSUME NEW j \in Jobs, Fault(j)
        PROVE  /\ UNCHANGED chunks
               /\ \A k \in Jobs : stored'[k] \in {stored[k], {}} /\ todo'[k] \in {todo[k], {}}
    BY <1>2, <1>3 DEF Fault, LoaderFails, StoreFails, IndexingFails, CommandDies, TypeOK
  <1>4. ASSUME NEW j \in Jobs,
               FindByFilename(j) \/ RecordIngestion(j) \/ DeleteChunks(j) \/ AcquireRowLocks(j)
        PROVE  UNCHANGED <<chunks, stored, todo>>
    BY <1>4 DEF FindByFilename, RecordIngestion, DeleteChunks, AcquireRowLocks
  <1>5. ASSUME NEW j \in Jobs, CommitChunks(j) PROVE UNCHANGED <<stored, todo>>
    BY <1>5 DEF CommitChunks
  <1>6. ASSUME NEW j \in Jobs, ListForDocument(j)
        PROVE  /\ UNCHANGED <<chunks, todo>>
               /\ \A k \in Jobs : stored'[k] = stored[k] \/ stored'[k] \subseteq chunks
    BY <1>6 DEF ListForDocument, RowsOf, TypeOK
  <1>7. ASSUME NEW j \in Jobs, EnsureIndex(j)
        PROVE  /\ UNCHANGED <<chunks, stored>>
               /\ \A k \in Jobs : todo'[k] \in {todo[k], {}, stored[k]}
    BY <1>7 DEF EnsureIndex, TypeOK
  <1>8. ASSUME NEW j \in Jobs, UpsertPoints(j) PROVE UNCHANGED <<chunks, stored, todo>>
    BY <1>8 DEF UpsertPoints
  <1>9. ASSUME NEW j \in Jobs, NEW r \in todo[j], IndexChunk(j, r)
        PROVE  /\ UNCHANGED <<chunks, stored>>
               /\ todo'[j] = todo[j] \ {r}
               /\ \A k \in Jobs \ {j} : todo'[k] = todo[k]
    BY <1>9 DEF IndexChunk, TypeOK
  <1>10. ASSUME NEW j \in Jobs, SetIndexed(j) \/ SetFailed(j)
         PROVE  /\ UNCHANGED chunks
                /\ \A k \in Jobs : stored'[k] \in {stored[k], {}} /\ todo'[k] \in {todo[k], {}}
    BY <1>2, <1>10 DEF SetIndexed, SetFailed
  <1>11. CASE BackendDies
    BY <1>11 DEF BackendDies, TypeOK
  <1>12. CASE UNCHANGED vars
    BY <1>12 DEF vars
  <1>13. ASSUME NEW j \in Jobs, Work(j)
         PROVE  /\ \/ chunks' = chunks
                   \/ CommitChunks(j)
                /\ \A k \in Jobs : stored'[k] \in {stored[k], {}} \/ stored'[k] \subseteq chunks
                /\ \A k \in Jobs : \/ todo'[k] \in {todo[k], {}, stored[k]}
                                   \/ \E r \in todo[k] : todo'[k] = todo[k] \ {r}
    <2>1. CASE \E r \in todo[j] : IndexChunk(j, r)
      <3>1. PICK r \in todo[j] : IndexChunk(j, r)
        BY <2>1
      <3> QED BY <1>9, <3>1
    <2> QED BY <1>4, <1>5, <1>6, <1>7, <1>8, <1>10, <1>13, <2>1 DEF Work
  <1> QED BY <1>1, <1>3, <1>11, <1>12, <1>13 DEF Next

LEMMA RowsStayFinite == TypeOK /\ FiniteRows /\ [Next]_vars => FiniteRows'
  <1> SUFFICES ASSUME TypeOK, FiniteRows, [Next]_vars PROVE FiniteRows'
    OBVIOUS
  <1>1. IsFiniteSet({})
    BY FS_EmptySet
  <1>2. \A S, T : IsFiniteSet(S) /\ T \subseteq S => IsFiniteSet(T)
    BY FS_Subset
  <1>3. IsFiniteSet(chunks')
    <2>1. ASSUME NEW j \in Jobs, CommitChunks(j) PROVE IsFiniteSet(chunks')
      <3>1. IsFiniteSet(NewRows(j))
        BY <2>1, NewRowsFinite DEF CommitChunks, IngestOnly
      <3>2. IsFiniteSet(chunks \ old[j])
        BY <1>2 DEF FiniteRows
      <3> QED BY <2>1, <3>1, <3>2, FS_Union DEF CommitChunks
    <2> QED BY <2>1, RowsStep DEF FiniteRows
  <1>4. ASSUME NEW k \in Jobs PROVE IsFiniteSet(stored'[k]) /\ IsFiniteSet(todo'[k])
    <2>1. /\ stored'[k] \in {stored[k], {}} \/ stored'[k] \subseteq chunks
          /\ \/ todo'[k] \in {todo[k], {}, stored[k]}
             \/ \E r \in todo[k] : todo'[k] = todo[k] \ {r}
      BY RowsStep
    <2>2. IsFiniteSet(stored[k]) /\ IsFiniteSet(todo[k]) /\ IsFiniteSet(chunks)
      BY DEF FiniteRows
    <2>3. IsFiniteSet(stored'[k])
      BY <1>1, <1>2, <2>1, <2>2
    <2>4. CASE \E r \in todo[k] : todo'[k] = todo[k] \ {r}
      <3>1. todo'[k] \subseteq todo[k]
        BY <2>4
      <3> QED BY <1>2, <2>2, <2>3, <3>1
    <2> QED BY <1>1, <2>1, <2>2, <2>3, <2>4
  <1> QED BY <1>3, <1>4 DEF FiniteRows
LEMMA PlaceFacts ==
  /\ \A l \in Labels : Place[l] \in 0 .. 13
  /\ \A l \in Labels \ {"idle"} : Place[l] < Place["idle"]
  /\ \A l \in Ended : Place[l] = 0
  /\ \A l \in Labels \ Ended : Place[l] > 0
  BY DEF Labels, Ended, Place

(* A job's own step takes it on, or sends one row of the loop.             *)
LEMMA WorkTakesOn ==
  ASSUME TypeOK, NEW j \in Jobs, Work(j)
  PROVE  \/ Behind(j)' < Behind(j)
         \/ /\ pc'[j] = pc[j]
            /\ \E r \in todo[j] : todo'[j] = todo[j] \ {r}
  <1>1. pc \in [Jobs -> Labels] /\ todo \in [Jobs -> SUBSET ChunkRow]
    BY DEF TypeOK
  <1>2. AfterIndexing(j) \in {"set_indexed", "done"}
    BY DEF AfterIndexing
  <1>3. CASE FindByFilename(j) \/ RecordIngestion(j) \/ DeleteChunks(j) \/ AcquireRowLocks(j)
             \/ CommitChunks(j)
    <2>1. \/ pc[j] = "find" /\ pc'[j] \in {"list", "record"}
          \/ pc[j] = "record" /\ pc'[j] = "delete"
          \/ pc[j] = "delete" /\ pc'[j] = "locks"
          \/ pc[j] = "locks" /\ pc'[j] = "commit"
          \/ pc[j] = "commit" /\ pc'[j] = "list"
      BY <1>1, <1>3 DEF FindByFilename, RecordIngestion, DeleteChunks, AcquireRowLocks,
                        CommitChunks, Goto
    <2> QED BY <2>1 DEF Behind, Place
  <1>4. CASE ListForDocument(j) \/ EnsureIndex(j) \/ UpsertPoints(j)
    <2>1. \/ /\ pc[j] = "list"
             /\ pc'[j] \in {"collection", "es_index", "set_indexed", "done"}
          \/ pc[j] = "collection" /\ pc'[j] = "upsert"
          \/ pc[j] = "es_index" /\ pc'[j] = "es_docs"
          \/ pc[j] = "upsert" /\ pc'[j] \in {"es_index", "set_indexed", "done"}
      BY <1>1, <1>2, <1>4 DEF ListForDocument, EnsureIndex, Ensured, UpsertPoints, Upserted,
                              Goto
    <2> QED BY <2>1 DEF Behind, Place
  <1>5. CASE \E r \in todo[j] : IndexChunk(j, r)
    <2>1. PICK r \in todo[j] : IndexChunk(j, r)
      BY <1>5
    <2>2. /\ pc[j] = "es_docs" /\ todo'[j] = todo[j] \ {r}
          /\ pc'[j] \in {"es_docs", "set_indexed", "done"}
      BY <1>1, <1>2, <2>1 DEF IndexChunk, Sent, Goto
    <2> QED BY <2>2 DEF Behind, Place
  <1>6. CASE SetIndexed(j) \/ SetFailed(j)
    <2>1. \/ pc[j] = "set_indexed" /\ pc'[j] = "done"
          \/ pc[j] = "set_failed" /\ pc'[j] = "failed"
      BY <1>1, <1>6 DEF SetIndexed, SetFailed, End, Goto
    <2> QED BY <2>1 DEF Behind, Place
  <1> QED BY <1>3, <1>4, <1>5, <1>6 DEF Work

LEMMA FaultTakesOn ==
  ASSUME TypeOK, NEW j \in Jobs, Fault(j)
  PROVE  Behind(j)' < Behind(j)
  <1>1. pc \in [Jobs -> Labels]
    BY DEF TypeOK
  <1>2. CASE IndexingFails(j)
    <2>1. /\ pc[j] \in {"list", "collection", "upsert", "es_index", "es_docs"}
          /\ pc'[j] \in {"set_failed", "aborted"}
      BY <1>1, <1>2 DEF IndexingFails, End, Goto
    <2> QED BY <2>1 DEF Behind, Place
  <1>3. CASE LoaderFails(j) \/ StoreFails(j) \/ CommandDies(j)
    <2>1. pc[j] \in Labels \ Ended /\ pc'[j] = "aborted"
      BY <1>1, <1>3 DEF LoaderFails, StoreFails, CommandDies, End, Goto, Running, Ended
    <2>2. Place["aborted"] = 0 /\ Place[pc[j]] > 0
      BY <2>1, PlaceFacts DEF Ended
    <2> QED BY <2>1, <2>2 DEF Behind
  <1> QED BY <1>2, <1>3 DEF Fault

LEMMA StartTakesOn ==
  ASSUME TypeOK, NEW j \in Jobs, Start(j)
  PROVE  Behind(j)' < Behind(j) /\ \A k \in Jobs \ {j} : pc'[k] = pc[k] /\ todo'[k] = todo[k]
  <1>1. /\ pc[j] = "idle" /\ pc'[j] \in {"find", "list"} /\ todo' = todo
        /\ \A k \in Jobs \ {j} : pc'[k] = pc[k]
    BY DEF Start, Upload, IngestCli, IndexCli, Goto, TypeOK
  <1> QED BY <1>1 DEF Behind, Place

\* A job's steps take it nearer to its end, or send one of finitely many rows; nobody else's
\* step sets it back or gives it rows to send.
Advancing ==
  \A j \in Jobs :
    /\ IsFiniteSet(todo[j])
    /\ Behind(j)' <= Behind(j)
    /\ Behind(j)' = Behind(j) => Cardinality(todo[j])' <= Cardinality(todo[j])
    /\ Start(j) \/ Work(j) \/ Fault(j) =>
         \/ Behind(j)' < Behind(j)
         \/ Behind(j)' = Behind(j) /\ Cardinality(todo[j])' < Cardinality(todo[j])

LEMMA OwnLoop ==
  ASSUME TypeOK, NEW j \in Jobs, Work(j) \/ Fault(j)
  PROVE  \A k \in Jobs \ {j} : pc'[k] = pc[k] /\ todo'[k] = todo[k]
  <1>1. \A k \in Jobs \ {j} : pc'[k] = pc[k]
    BY OneJobMoves
  <1>2. CASE Work(j)
    BY <1>1, <1>2 DEF Work, FindByFilename, RecordIngestion, DeleteChunks, AcquireRowLocks,
       CommitChunks, ListForDocument, EnsureIndex, UpsertPoints, IndexChunk, SetIndexed,
       SetFailed, End, TypeOK
  <1>3. CASE Fault(j)
    BY <1>1, <1>3 DEF Fault, LoaderFails, StoreFails, IndexingFails, CommandDies, End, TypeOK
  <1> QED BY <1>2, <1>3

LEMMA StepsAdvance ==
  ASSUME TypeOK, TypeOK', FiniteRows, Next
  PROVE  Advancing
  <1>1. pc \in [Jobs -> Labels] /\ pc' \in [Jobs -> Labels] /\ \A j \in Jobs : IsFiniteSet(todo[j])
    BY DEF TypeOK, FiniteRows
  <1>2. ASSUME NEW j \in Jobs
        PROVE  /\ Behind(j) \in 0 .. 13 /\ Behind(j)' \in 0 .. 13
               /\ Cardinality(todo[j]) \in Nat
    BY <1>1, PlaceFacts, FS_CardinalityType DEF Behind
  <1>3. ASSUME NEW j \in Jobs, NEW r \in todo[j], todo'[j] = todo[j] \ {r}
        PROVE  Cardinality(todo[j])' < Cardinality(todo[j])
    <2>1. Cardinality(todo[j] \ {r}) = Cardinality(todo[j]) - 1
      BY <1>1, FS_RemoveElement
    <2> QED BY <1>2, <1>3, <2>1
  <1>4. ASSUME NEW j \in Jobs, Start(j) \/ Work(j) \/ Fault(j)
        PROVE  /\ \/ Behind(j)' < Behind(j)
                  \/ Behind(j)' = Behind(j) /\ Cardinality(todo[j])' < Cardinality(todo[j])
               /\ \A k \in Jobs \ {j} : pc'[k] = pc[k] /\ todo'[k] = todo[k]
    <2>1. CASE Start(j)
      BY <2>1, StartTakesOn
    <2>2. CASE Fault(j)
      BY <2>2, FaultTakesOn, OwnLoop
    <2>3. CASE Work(j)
      <3>1. CASE pc'[j] = pc[j] /\ \E r \in todo[j] : todo'[j] = todo[j] \ {r}
        BY <1>3, <2>3, <3>1, OwnLoop DEF Behind
      <3> QED BY <2>3, <3>1, WorkTakesOn, OwnLoop
    <2> QED BY <1>4, <2>1, <2>2, <2>3
  <1>5. ASSUME NEW k \in Jobs, pc'[k] = pc[k], todo'[k] = todo[k]
        PROVE  /\ Behind(k)' = Behind(k)
               /\ Cardinality(todo[k])' = Cardinality(todo[k])
    BY <1>5 DEF Behind
  <1>6. ASSUME NEW k \in Jobs
        PROVE  /\ Behind(k)' <= Behind(k)
               /\ Behind(k)' = Behind(k) => Cardinality(todo[k])' <= Cardinality(todo[k])
    <2>1. CASE \E j \in Jobs : Start(j) \/ Work(j) \/ Fault(j)
      <3>1. PICK j \in Jobs : Start(j) \/ Work(j) \/ Fault(j)
        BY <2>1
      <3>2. CASE k = j
        <4>1. \/ Behind(k)' < Behind(k)
              \/ Behind(k)' = Behind(k) /\ Cardinality(todo[k])' < Cardinality(todo[k])
          BY <1>4, <3>1, <3>2
        <4>2. Behind(k)' = Behind(k) => Cardinality(todo[k])' < Cardinality(todo[k])
          BY <1>2, <4>1
        <4>3. Behind(k)' <= Behind(k)
          BY <1>2, <4>1
        <4>4. ASSUME Behind(k)' = Behind(k)
              PROVE  Cardinality(todo[k])' <= Cardinality(todo[k])
          <5>1. \E r \in todo[k] : todo'[k] = todo[k] \ {r}
            <6>1. ~(Behind(k)' < Behind(k))
              BY <1>2, <4>4
            <6> QED BY <3>1, <3>2, <6>1, StartTakesOn, FaultTakesOn, WorkTakesOn
          <5>2. PICK r \in todo[k] : todo'[k] = todo[k] \ {r}
            BY <5>1
          <5>3. Cardinality(todo[k] \ {r}) = Cardinality(todo[k]) - 1
            BY <1>1, FS_RemoveElement
          <5> QED BY <1>2, <5>2, <5>3
        <4> QED BY <4>3, <4>4
      <3>3. CASE k # j
        BY <1>2, <1>4, <1>5, <3>1, <3>3
      <3> QED BY <3>2, <3>3
    <2>2. CASE BackendDies
      <3>1. CASE Running(k) /\ req[k].kind = "upload"
        <4>1. pc'[k] = "aborted" /\ pc[k] \in Labels \ Ended
          BY <1>1, <2>2, <3>1 DEF BackendDies, Running
        <4>2. Behind(k)' = 0 /\ Behind(k) > 0
          BY <4>1, PlaceFacts DEF Behind, Ended
        <4> QED BY <1>2, <4>2
      <3>2. CASE ~(Running(k) /\ req[k].kind = "upload")
        <4>1. pc'[k] = pc[k] /\ todo'[k] = todo[k]
          BY <2>2, <3>2 DEF BackendDies
        <4> QED BY <1>2, <1>5, <4>1
      <3> QED BY <3>1, <3>2
    <2> QED BY <2>1, <2>2 DEF Next
  <1> QED BY <1>1, <1>4, <1>6 DEF Advancing

(* No job goes round in circles: whatever fails, dies or runs beside it,   *)
(* each step of a job ends one of its at most thirteen stages or sends one *)
(* of the finitely many rows it has listed, and no other job's step sets   *)
(* it back (ingestion_service.py, elasticsearch_index.py's loop over the   *)
(* chunks).  What UploadSettles needs beside it is that the steps are      *)
(* taken: that none is blocked (JobsNeverStuck), and the scheduler.        *)
THEOREM JobsAdvance == Spec => [][Advancing]_vars
  <1>1. Init => FiniteRows
    <2>1. IsFiniteSet({})
      BY FS_EmptySet
    <2> QED BY <2>1 DEF Init, FiniteRows
  <1>2. TypeOK /\ TypeOK' /\ FiniteRows /\ [Next]_vars => [Advancing]_vars
    BY StepsAdvance
  <1> QED BY <1>1, <1>2, RowsStayFinite, TypeCorrect, PTL DEF Spec
(* The row of a job that has found or recorded it is there, and what a     *)
(* job has listed is not empty: with nothing to index it has gone on.      *)
RowKnown(j) ==
  pc[j] \notin {"idle", "find", "record"} \cup Ended /\ IsIngest(j) => docs[req[j].file] # NoRow

RowsListed(j) ==
  /\ pc[j] \in {"collection", "upsert", "es_index"} => stored[j] # {}
  /\ pc[j] = "es_docs" => todo[j] # {}

LocksApart ==
  \A j \in Jobs : \A k \in Jobs \ {j} :
    pc[j] = "commit" /\ pc[k] = "commit" => old[k] \cap old[j] = {}

ReadyInv == (\A j \in Jobs : RowKnown(j) /\ RowsListed(j)) /\ LocksApart

(* A row is written, never deleted.                                        *)
LEMMA RowsRemain ==
  ASSUME TypeOK, [Next]_vars
  PROVE  \A f \in Files : docs[f] # NoRow => docs'[f] # NoRow
  <1> SUFFICES ASSUME NEW f \in Files, docs[f] # NoRow PROVE docs'[f] # NoRow
    OBVIOUS
  <1>1. ASSUME NEW g \in Files, NEW row \in DocRow, docs' = [docs EXCEPT ![g] = row]
        PROVE  docs'[f] # NoRow
    BY <1>1, NoRowAssumption DEF TypeOK
  <1>2. ASSUME NEW j \in Jobs, Start(j) PROVE docs'[f] # NoRow
    <2>1. ASSUME NEW g \in Files, NEW c \in Contents, Upload(j, g, c)
          PROVE  docs'[f] # NoRow
      <3>1. docs'[g] # NoRow
        BY <2>1, ReserveRow, NoRowAssumption DEF Upload
      <3>2. f # g => docs'[f] = docs[f]
        BY <2>1 DEF Upload, Reserve, TypeOK
      <3> QED BY <3>1, <3>2
    <2> QED BY <1>2, <2>1 DEF Start, IngestCli, IndexCli
  <1>3. ASSUME NEW j \in Jobs, Work(j) PROVE docs'[f] # NoRow
    <2>1. CASE RecordIngestion(j)
      <3>1. req[j].file \in Files /\ req[j].content \in Contents
        BY <2>1 DEF RecordIngestion, TypeOK, IngestOnly, IngestReq
      <3>2. [hash |-> req[j].content, count |-> ChunkCount[req[j].content],
             status |-> "pending", error |-> FALSE] \in DocRow
        BY <3>1, IngestionAssumption DEF DocRow
      <3> QED BY <1>1, <2>1, <3>1, <3>2 DEF RecordIngestion
    <2>2. CASE SetIndexed(j) \/ SetFailed(j)
      <3>1. req[j].file \in Files
        BY <2>2 DEF SetIndexed, SetFailed, TypeOK, IngestOnly, IngestReq
      <3>2. docs[req[j].file] \in DocRow
        BY <2>2, <3>1 DEF SetIndexed, SetFailed, SetStatus, TypeOK
      <3>3. \A status \in {"indexed", "failed"}, error \in BOOLEAN :
              [hash |-> docs[req[j].file].hash, count |-> docs[req[j].file].count,
               status |-> status, error |-> error] \in DocRow
        BY <3>2 DEF DocRow
      <3> QED BY <1>1, <2>2, <3>1, <3>3 DEF SetIndexed, SetFailed, SetStatus
    <2>3. CASE ~RecordIngestion(j) /\ ~SetIndexed(j) /\ ~SetFailed(j)
      BY <1>3, <2>3 DEF Work, FindByFilename, DeleteChunks, AcquireRowLocks, CommitChunks,
                        ListForDocument, EnsureIndex, UpsertPoints, IndexChunk
    <2> QED BY <2>1, <2>2, <2>3
  <1>4. ASSUME NEW j \in Jobs, Fault(j) PROVE docs'[f] # NoRow
    BY <1>4 DEF Fault, LoaderFails, StoreFails, IndexingFails, CommandDies
  <1>5. CASE BackendDies \/ UNCHANGED vars
    BY <1>5 DEF BackendDies, vars
  <1> QED BY <1>2, <1>3, <1>4, <1>5 DEF Next

LEMMA RowStaysKnown ==
  ASSUME TypeOK, NEW k \in Jobs, RowKnown(k), pc'[k] = pc[k], req'[k] = req[k],
         \A f \in Files : docs[f] # NoRow => docs'[f] # NoRow
  PROVE  RowKnown(k)'
  <1>1. CASE pc[k] \notin {"idle"} /\ IsIngest(k)
    <2>1. req[k].file \in Files
      BY <1>1, RequestFacts DEF IngestReq
    <2> QED BY <2>1 DEF RowKnown, IsIngest
  <1> QED BY <1>1 DEF RowKnown, IsIngest

(* The job's own steps.                                                    *)
LEMMA ReadyWork ==
  ASSUME TypeOK, ReadyInv, NEW j \in Jobs, Work(j)
  PROVE  RowKnown(j)' /\ RowsListed(j)' /\ LocksApart'
  <1>1. /\ RowKnown(j) /\ RowsListed(j) /\ LocksApart /\ req' = req
        /\ pc \in [Jobs -> Labels] /\ todo \in [Jobs -> SUBSET ChunkRow]
        /\ old \in [Jobs -> SUBSET ChunkRow] /\ stored \in [Jobs -> SUBSET ChunkRow]
        /\ \A k \in Jobs \ {j} : pc'[k] = pc[k] /\ todo'[k] = todo[k]
        /\ \A f \in Files : docs[f] # NoRow => docs'[f] # NoRow
    BY OneJobMoves, OwnLoop, RowsRemain DEF ReadyInv, TypeOK, Next
  <1>2. IsIngest(j) => (pc[j] # "idle" => req[j].file \in Files)
    BY RequestFacts DEF IngestReq
  <1>3. AfterIndexing(j) \in {"set_indexed", "done"}
    BY DEF AfterIndexing
  <1>4. ASSUME pc'[j] # "commit", \A k \in Jobs \ {j} : old'[k] = old[k] PROVE LocksApart'
    BY <1>1, <1>4 DEF LocksApart
  <1>5. ASSUME pc[j] \notin {"idle", "find", "record"} \cup Ended PROVE RowKnown(j)'
    BY <1>1, <1>2, <1>5 DEF RowKnown, IsIngest
  <1>6. ASSUME pc'[j] \notin {"collection", "upsert", "es_index", "es_docs"}
        PROVE  RowsListed(j)'
    BY <1>6 DEF RowsListed
  <1>7. CASE FindByFilename(j)
    <2>1. pc[j] = "find" /\ pc'[j] \in {"list", "record"} /\ UNCHANGED <<docs, old>>
      BY <1>1, <1>7 DEF FindByFilename, Goto
    <2>2. pc'[j] = "list" => docs[req[j].file] # NoRow
      BY <1>1, <1>7 DEF FindByFilename, Goto, Unchanged
    <2> QED BY <1>1, <1>4, <1>6, <2>1, <2>2 DEF RowKnown
  <1>8. CASE RecordIngestion(j)
    <2>1. pc[j] = "record" /\ pc'[j] = "delete" /\ UNCHANGED old /\ req[j] \in IngestReq
      BY <1>1, <1>8 DEF RecordIngestion, Goto, TypeOK, IngestOnly
    <2>2. docs'[req[j].file] \in DocRow
      BY <1>8, <2>1, IngestionAssumption DEF RecordIngestion, TypeOK, IngestReq, DocRow
    <2> QED BY <1>1, <1>4, <1>6, <2>1, <2>2, NoRowAssumption DEF RowKnown
  <1>9. CASE DeleteChunks(j)
    <2>1. /\ pc[j] = "delete" /\ pc'[j] = "locks"
          /\ \A k \in Jobs \ {j} : old'[k] = old[k]
      BY <1>1, <1>9 DEF DeleteChunks, Goto
    <2> QED BY <1>4, <1>5, <1>6, <2>1 DEF Ended
  <1>10. CASE AcquireRowLocks(j)
    <2>1. /\ pc[j] = "locks" /\ pc'[j] = "commit" /\ old' = old
          /\ \A k \in Jobs \ {j} : pc[k] = "commit" => old[k] \cap old[j] = {}
      BY <1>1, <1>10 DEF AcquireRowLocks, Goto
    <2>2. LocksApart'
      BY <1>1, <2>1 DEF LocksApart
    <2> QED BY <1>5, <1>6, <2>1, <2>2 DEF Ended
  <1>11. CASE CommitChunks(j)
    <2>1. /\ pc[j] = "commit" /\ pc'[j] = "list"
          /\ \A k \in Jobs \ {j} : old'[k] = old[k]
      BY <1>1, <1>11 DEF CommitChunks, Goto
    <2> QED BY <1>4, <1>5, <1>6, <2>1 DEF Ended
  <1>12. CASE ListForDocument(j)
    <2>1. /\ pc[j] = "list" /\ old' = old
          /\ \/ pc'[j] \in {"set_indexed", "done"}
             \/ pc'[j] \in {"collection", "es_index"} /\ stored'[j] # {}
      BY <1>1, <1>3, <1>12 DEF ListForDocument, Goto
    <2> QED BY <1>4, <1>5, <1>6, <2>1 DEF Ended, RowsListed
  <1>13. CASE EnsureIndex(j)
    <2>1. /\ stored'[j] = stored[j] /\ old' = old
          /\ \/ pc[j] = "collection" /\ pc'[j] = "upsert"
             \/ pc[j] = "es_index" /\ pc'[j] = "es_docs" /\ todo'[j] = stored[j]
      BY <1>1, <1>13 DEF EnsureIndex, Ensured, Goto
    <2> QED BY <1>1, <1>4, <1>5, <2>1 DEF Ended, RowsListed
  <1>14. CASE UpsertPoints(j)
    <2>1. /\ stored'[j] = stored[j] /\ old' = old /\ pc[j] = "upsert"
          /\ pc'[j] \in {"es_index", "set_indexed", "done"}
      BY <1>1, <1>3, <1>14 DEF UpsertPoints, Upserted, Goto
    <2> QED BY <1>1, <1>4, <1>5, <2>1 DEF Ended, RowsListed
  <1>15. ASSUME NEW r \in todo[j], IndexChunk(j, r)
         PROVE  RowKnown(j)' /\ RowsListed(j)' /\ LocksApart'
    <2>1. /\ old' = old /\ pc[j] = "es_docs" /\ todo'[j] = todo[j] \ {r}
          /\ pc'[j] \in {"es_docs", "set_indexed", "done"}
          /\ pc'[j] = "es_docs" => todo[j] # {r}
      BY <1>1, <1>3, <1>15 DEF IndexChunk, Sent, Goto
    <2>2. RowsListed(j)'
      BY <2>1, <1>15 DEF RowsListed
    <2> QED BY <1>4, <1>5, <2>1, <2>2 DEF Ended
  <1>16. CASE SetIndexed(j) \/ SetFailed(j)
    <2>1. pc'[j] \in Ended /\ \A k \in Jobs \ {j} : old'[k] = old[k]
      BY <1>1, <1>16 DEF SetIndexed, SetFailed, End, Goto, Ended
    <2> QED BY <1>4, <1>6, <2>1 DEF RowKnown, Ended
  <1> QED BY <1>7, <1>8, <1>9, <1>10, <1>11, <1>12, <1>13, <1>14, <1>15, <1>16 DEF Work

LEMMA ReadyFault ==
  ASSUME TypeOK, ReadyInv, NEW j \in Jobs, Fault(j)
  PROVE  RowKnown(j)' /\ RowsListed(j)' /\ LocksApart'
  <1>1. pc \in [Jobs -> Labels] /\ old \in [Jobs -> SUBSET ChunkRow] /\ req' = req
        /\ \A k \in Jobs \ {j} : pc'[k] = pc[k]
    BY OneJobMoves DEF TypeOK
  <1>2. /\ \A k \in Jobs \ {j} : old'[k] = old[k]
        /\ docs' = docs /\ pc'[j] \in {"aborted", "set_failed"}
        /\ pc'[j] = "set_failed" => pc[j] \in {"list", "collection", "upsert", "es_index", "es_docs"}
    BY <1>1 DEF Fault, LoaderFails, StoreFails, IndexingFails, CommandDies, End, Goto
  <1>3. RowKnown(j)'
    BY <1>1, <1>2 DEF ReadyInv, RowKnown, IsIngest, Ended
  <1>4. RowsListed(j)'
    BY <1>2 DEF RowsListed
  <1>5. LocksApart'
    BY <1>1, <1>2 DEF ReadyInv, LocksApart
  <1> QED BY <1>3, <1>4, <1>5

LEMMA ReadyStep == TypeOK /\ ReadyInv /\ [Next]_vars => ReadyInv'
  <1> SUFFICES ASSUME TypeOK, ReadyInv, [Next]_vars PROVE ReadyInv'
    OBVIOUS
  <1>1. ASSUME NEW j \in Jobs, Start(j) PROVE ReadyInv'
    <2>1. /\ pc[j] = "idle" /\ pc'[j] \in {"find", "list"}
          /\ pc'[j] = "list" => req'[j].kind = "index"
          /\ UNCHANGED <<stored, todo, old>>
          /\ \A k \in Jobs \ {j} : pc'[k] = pc[k] /\ req'[k] = req[k]
      <3>1. ASSUME NEW f \in Files, NEW c \in Contents, Upload(j, f, c)
            PROVE  pc[j] = "idle" /\ pc'[j] = "find" /\ UNCHANGED <<stored, todo, old>>
        BY <3>1 DEF Upload, Goto, TypeOK
      <3>2. ASSUME NEW f \in Files, NEW c \in Contents, NEW force \in BOOLEAN,
                   NEW full \in FullReindex, IngestCli(j, f, c, force, full)
            PROVE  pc[j] = "idle" /\ pc'[j] = "find" /\ UNCHANGED <<stored, todo, old>>
        BY <3>2 DEF IngestCli, Goto, TypeOK
      <3>3. ASSUME NEW scope, NEW targets, NEW full, IndexCli(j, scope, targets, full)
            PROVE  /\ pc[j] = "idle" /\ pc'[j] = "list" /\ UNCHANGED <<stored, todo, old>>
                   /\ req'[j].kind = "index"
        BY <3>3 DEF IndexCli, Goto, TypeOK
      <3>4. \A k \in Jobs \ {j} : pc'[k] = pc[k] /\ req'[k] = req[k]
        BY <1>1 DEF Start, Upload, IngestCli, IndexCli, Goto, TypeOK
      <3>5. \/ \E f \in Files, c \in Contents : Upload(j, f, c)
            \/ \E f \in Files, c \in Contents, force \in BOOLEAN, full \in FullReindex :
                 IngestCli(j, f, c, force, full)
            \/ \E scope, targets, full : IndexCli(j, scope, targets, full)
        BY <1>1 DEF Start
      <3> QED BY <3>1, <3>2, <3>3, <3>4, <3>5
    <2>2. RowKnown(j)' /\ RowsListed(j)'
      BY <2>1 DEF RowKnown, RowsListed, IsIngest
    <2>3. ASSUME NEW k \in Jobs \ {j} PROVE RowKnown(k)' /\ RowsListed(k)'
      <3>1. RowKnown(k)'
        BY <2>1, RowsRemain, RowStaysKnown DEF ReadyInv
      <3> QED BY <2>1, <3>1 DEF ReadyInv, RowsListed
    <2>4. LocksApart'
      BY <2>1 DEF ReadyInv, LocksApart
    <2> QED BY <2>2, <2>3, <2>4 DEF ReadyInv
  <1>2. ASSUME NEW j \in Jobs, Work(j) \/ Fault(j) PROVE ReadyInv'
    <2>1. RowKnown(j)' /\ RowsListed(j)' /\ LocksApart'
      BY <1>2, ReadyWork, ReadyFault
    <2>2. ASSUME NEW k \in Jobs \ {j} PROVE RowKnown(k)' /\ RowsListed(k)'
      <3>1. pc'[k] = pc[k] /\ todo'[k] = todo[k] /\ req'[k] = req[k]
        BY <1>2, OwnLoop, OneJobMoves
      <3>2. stored'[k] = stored[k]
        <4>1. CASE Work(j)
          BY <4>1 DEF Work, FindByFilename, RecordIngestion, DeleteChunks, AcquireRowLocks,
             CommitChunks, ListForDocument, EnsureIndex, UpsertPoints, IndexChunk, SetIndexed,
             SetFailed, End, TypeOK
        <4>2. CASE Fault(j)
          BY <4>2 DEF Fault, LoaderFails, StoreFails, IndexingFails, CommandDies, End, TypeOK
        <4> QED BY <1>2, <4>1, <4>2
      <3>3. RowKnown(k)'
        BY <3>1, RowsRemain, RowStaysKnown DEF ReadyInv
      <3> QED BY <3>1, <3>2, <3>3 DEF ReadyInv, RowsListed
    <2> QED BY <2>1, <2>2 DEF ReadyInv
  <1>3. CASE BackendDies \/ UNCHANGED vars
    <2>1. ASSUME NEW k \in Jobs PROVE RowKnown(k)' /\ RowsListed(k)'
      <3>1. CASE pc'[k] = "aborted"
        BY <3>1 DEF RowKnown, RowsListed, Ended
      <3>2. CASE pc'[k] # "aborted"
        BY <1>3, <3>2, DeathFacts DEF ReadyInv, RowKnown, RowsListed, IsIngest
      <3> QED BY <3>1, <3>2
    <2>2. LocksApart'
      BY <1>3, DeathFacts DEF ReadyInv, LocksApart
    <2> QED BY <2>1, <2>2 DEF ReadyInv
  <1> QED BY <1>1, <1>2, <1>3 DEF Next

(* A batch can always be written: one row of each key is what it leaves.   *)
LEMMA SomeWin ==
  ASSUME NEW rows \in SUBSET ChunkRow
  PROVE  LastWins(rows) # {}
  <1> DEFINE E       == EntriesOf(rows)
             Of(f, i) == CHOOSE e \in E : e.file = f /\ e.index = i
             es      == {Of(d.file, d.index) : d \in E}
  <1>1. ASSUME NEW d \in E
        PROVE  /\ Of(d.file, d.index) \in E
               /\ SameKey(Of(d.file, d.index), d)
    BY DEF SameKey
  <1>2. es \in SUBSET E
    BY <1>1
  <1>3. ASSUME NEW d \in es, NEW e \in es, SameKey(d, e) PROVE d = e
    <2>1. PICK a \in E, b \in E : d = Of(a.file, a.index) /\ e = Of(b.file, b.index)
      OBVIOUS
    <2>2. SameKey(d, a) /\ SameKey(e, b)
      BY <1>1, <2>1
    <2>3. a.file = b.file /\ a.index = b.index
      BY <1>3, <2>2 DEF SameKey
    <2> QED BY <2>1, <2>3
  <1>4. ASSUME NEW r \in rows PROVE \E e \in es : SameKey(r, e)
    <2> DEFINE d == EntryOf(r)
    <2>1. d \in E /\ d.file = r.file /\ d.index = r.index
      BY DEF EntriesOf, EntryOf
    <2>2. SameKey(Of(d.file, d.index), d) /\ Of(d.file, d.index) \in es
      BY <1>1, <2>1
    <2>3. SameKey(r, Of(d.file, d.index))
      BY <2>1, <2>2 DEF SameKey
    <2> QED BY <2>2, <2>3
  <1>5. es \in LastWins(rows)
    BY <1>2, <1>3, <1>4 DEF LastWins
  <1> QED BY <1>5

\* Nothing a job's next call asks for can be missing.
Ready(j) ==
  /\ pc[j] \in {"set_indexed", "set_failed"} => docs[req[j].file] # NoRow
  /\ pc[j] = "upsert" => LastWins(stored[j]) # {}
  /\ pc[j] = "es_docs" => todo[j] # {}
  /\ pc[j] = "commit" =>
       \A k \in Jobs \ {j} : pc[k] = "commit" => old[k] \cap old[j] = {}

(* No job is ever without a next step, with any jobs beside it and after   *)
(* any fault: the row whose status it writes last is still there (set_     *)
(* status returns without a word when it is not, document_repository.py:   *)
(* 112-113, and the upload would stay pending for ever), the loop and the  *)
(* batch it enters have rows to write, and of two rewrites of the same     *)
(* rows one holds the locks and needs nothing else, so that a wait for row *)
(* locks ends with that commit.                                            *)
THEOREM JobsNeverStuck == Spec => [](\A j \in Jobs : Ready(j))
  <1>1. Init => ReadyInv
    BY DEF Init, ReadyInv, RowKnown, RowsListed, LocksApart
  <1>2. TypeOK /\ ReadyInv => \A j \in Jobs : Ready(j)
    <2> SUFFICES ASSUME TypeOK, ReadyInv, NEW j \in Jobs PROVE Ready(j)
      OBVIOUS
    <2>1. ASSUME pc[j] \in {"set_indexed", "set_failed"} PROVE docs[req[j].file] # NoRow
      BY <2>1 DEF ReadyInv, RowKnown, TypeOK, IngestOnly, IngestReq, IsIngest, Ended
    <2>2. LastWins(stored[j]) # {}
      BY SomeWin DEF TypeOK
    <2> QED BY <2>1, <2>2 DEF Ready, ReadyInv, RowsListed, LocksApart
  <1> QED BY <1>1, <1>2, ReadyStep, TypeCorrect, PTL DEF Spec
=============================================================================
