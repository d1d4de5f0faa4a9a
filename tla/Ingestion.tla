------------------------------ MODULE Ingestion ------------------------------
(***************************************************************************)
(* The ingestion pipeline: POST /ingest, `python -m app.cli.ingest` and    *)
(* `python -m app.cli.index` over the documents and chunks tables of       *)
(* Postgres, the Qdrant collection and the Elasticsearch index.            *)
(*                                                                         *)
(* A job is one background task or one command-line process. Every step of *)
(* a job is one call into a repository or a search index, so jobs          *)
(* interleave between those calls, as threads and processes do. A file     *)
(* name stands for its documents row (filename is UNIQUE and rows are      *)
(* never deleted), a content for the bytes of a PDF and for their SHA-256, *)
(* and the text of a chunk is the pair of its content and its index.       *)
(***************************************************************************)
EXTENDS Integers

CONSTANTS
  Files,        \* base names of PDFs
  Contents,     \* distinct byte contents of PDFs
  ChunkCount,   \* how many chunks chunk_document makes of a content
  Jobs,         \* background tasks and command-line processes, each run once
  Kinds,        \* the kinds of job this instance starts
  FullReindex,  \* the values --full-reindex may take
  Faults,       \* the calls that may fail: "loader", "store", "index", "crash"
  Overlap,      \* "free", or "per_file": one job at a time touches a file
  NoRow, NoHash, NoReq

Backends == {"qdrant", "elasticsearch"}

ASSUME IngestionAssumption ==
  /\ ChunkCount \in [Contents -> Nat]
  /\ Kinds \subseteq {"upload", "ingest", "index"}
  /\ FullReindex \subseteq BOOLEAN
  /\ Faults \subseteq {"loader", "store", "index", "crash"}
  /\ Overlap \in {"free", "per_file"}
  /\ NoHash \notin Contents

VARIABLES
  docs,     \* documents: the row of each file, or NoRow
  chunks,   \* chunks: the committed rows
  entries,  \* what each search index holds
  pc, req,  \* per job: the call it makes next, and its arguments
  old,      \* per job: the rows its DELETE statement saw
  stored,   \* per job: the result of list_for_document
  todo      \* per job: the rows the Elasticsearch loop has not sent yet

vars == <<docs, chunks, entries, pc, req, old, stored, todo>>
-----------------------------------------------------------------------------
DocRow == [hash : Contents \cup {NoHash}, count : Nat,
           status : {"pending", "indexed", "failed"}, error : BOOLEAN]

ASSUME NoRowAssumption == NoRow \notin DocRow

\* `writer` stands for the surrogate key that tells rows of two inserts apart.
ChunkRow == [file : Files, index : Nat, content : Contents, writer : Jobs]

Entry == [file : Files, index : Nat, content : Contents]

IngestReq == [kind : {"upload", "ingest"}, file : Files, content : Contents,
              force : BOOLEAN, full : BOOLEAN]
IndexReq  == [kind : {"index"}, scope : SUBSET Files,
              targets : SUBSET Backends, full : BOOLEAN]

Ended == {"done", "failed", "aborted"}
Running(j) == pc[j] \notin {"idle"} \cup Ended

IsIngest(j) == req[j].kind # "index"
Scope(j)    == IF IsIngest(j) THEN {req[j].file} ELSE req[j].scope
Targets(j)  == IF IsIngest(j) THEN Backends ELSE req[j].targets

\* The code starts any job at any time; "per_file" is a caller that waits.
MayStart(scope) ==
  Overlap = "per_file" => \A k \in Jobs : Running(k) => Scope(k) \cap scope = {}

RowsOf(fs) == {r \in chunks : r.file \in fs}

EntryOf(r) == [file |-> r.file, index |-> r.index, content |-> r.content]
EntriesOf(rows) == {EntryOf(r) : r \in rows}

SameKey(d, e) == d.file = e.file /\ d.index = e.index

\* Both indexes write under a key derived from (document_id, chunk_index):
\* the new entry replaces the old one, and nothing else is removed.
Upsert(es, new) == {e \in es : \A d \in new : ~SameKey(d, e)} \cup new

\* What a batch of rows may leave behind: one row per key. It matters only
\* when rows share a key; the query has no ORDER BY, so either may come last.
LastWins(rows) ==
  {es \in SUBSET EntriesOf(rows) :
     /\ \A d, e \in es : SameKey(d, e) => d = e
     /\ \A r \in rows : \E e \in es : SameKey(r, e)}
-----------------------------------------------------------------------------
Init ==
  /\ docs = [f \in Files |-> NoRow]
  /\ chunks = {}
  /\ entries = [b \in Backends |-> {}]
  /\ pc = [j \in Jobs |-> "idle"]
  /\ req = [j \in Jobs |-> NoReq]
  /\ old = [j \in Jobs |-> {}]
  /\ stored = [j \in Jobs |-> {}]
  /\ todo = [j \in Jobs |-> {}]

Goto(j, l) == pc' = [pc EXCEPT ![j] = l]

\* A job that ends forgets its locals.
End(j, l) ==
  /\ Goto(j, l)
  /\ old' = [old EXCEPT ![j] = {}]
  /\ stored' = [stored EXCEPT ![j] = {}]
  /\ todo' = [todo EXCEPT ![j] = {}]
  /\ UNCHANGED req

\* Mutants of the operators below carry their name and the bug they stand for.
Reserve_KeepsRow(f) ==
  docs' = [docs EXCEPT ![f] =
             IF docs[f] = NoRow
             THEN [hash |-> NoHash, count |-> 0, status |-> "pending", error |-> FALSE]
             ELSE docs[f]]

(* DocumentRepository.reserve: a row that exists keeps its hash. *)
Reserve(f) ==
  docs' = [docs EXCEPT ![f] =
             IF docs[f] = NoRow
             THEN [hash |-> NoHash, count |-> 0, status |-> "pending", error |-> FALSE]
             ELSE [hash |-> docs[f].hash, count |-> docs[f].count,
                   status |-> "pending", error |-> FALSE]]

(* DocumentRepository.set_status *)
SetStatus(f, status, error) ==
  /\ docs[f] # NoRow
  /\ docs' = [docs EXCEPT ![f] = [hash |-> docs[f].hash, count |-> docs[f].count,
                                  status |-> status, error |-> error]]

(* POST /ingest: the row is reserved before the 202, the task runs after it. *)
Upload(j, f, c) ==
  /\ "upload" \in Kinds
  /\ pc[j] = "idle"
  /\ MayStart({f})
  /\ Reserve(f)
  /\ req' = [req EXCEPT ![j] = [kind |-> "upload", file |-> f, content |-> c,
                                force |-> FALSE, full |-> FALSE]]
  /\ Goto(j, "find")
  /\ UNCHANGED <<chunks, entries, old, stored, todo>>

(* app.cli.ingest: nothing is reserved. *)
IngestCli(j, f, c, force, full) ==
  /\ "ingest" \in Kinds
  /\ pc[j] = "idle"
  /\ MayStart({f})
  /\ req' = [req EXCEPT ![j] = [kind |-> "ingest", file |-> f, content |-> c,
                                force |-> force, full |-> full]]
  /\ Goto(j, "find")
  /\ UNCHANGED <<docs, chunks, entries, old, stored, todo>>

(* app.cli.index: one document or all of them, into one index or both. *)
IndexCli(j, scope, targets, full) ==
  /\ "index" \in Kinds
  /\ pc[j] = "idle"
  /\ MayStart(scope)
  /\ req' = [req EXCEPT ![j] = [kind |-> "index", scope |-> scope,
                                targets |-> targets, full |-> full]]
  /\ Goto(j, "list")
  /\ UNCHANGED <<docs, chunks, entries, old, stored, todo>>
-----------------------------------------------------------------------------
Unchanged(j) ==
  LET f == req[j].file IN
  docs[f] # NoRow /\ docs[f].hash = req[j].content /\ ~req[j].force

FindByFilename_SkipsIndexing(j) ==
  /\ pc[j] = "find"
  /\ Goto(j, IF Unchanged(j) THEN "set_indexed" ELSE "record")
  /\ UNCHANGED <<docs, chunks, entries, req, old, stored, todo>>

(* content_hash, then find_by_filename: an unchanged file is not chunked. *)
FindByFilename(j) ==
  /\ pc[j] = "find"
  /\ Goto(j, IF Unchanged(j) THEN "list" ELSE "record")
  /\ UNCHANGED <<docs, chunks, entries, req, old, stored, todo>>

RecordIngestion_KeepsStatus(j) ==
  /\ pc[j] = "record"
  /\ docs' = [docs EXCEPT ![req[j].file] =
                [hash |-> req[j].content, count |-> ChunkCount[req[j].content],
                 status |-> IF docs[req[j].file] = NoRow THEN "pending"
                            ELSE docs[req[j].file].status,
                 error |-> FALSE]]
  /\ Goto(j, "delete")
  /\ UNCHANGED <<chunks, entries, req, old, stored, todo>>

RecordIngestion_KeepsCount(j) ==
  /\ pc[j] = "record"
  /\ docs' = [docs EXCEPT ![req[j].file] =
                [hash |-> req[j].content,
                 count |-> IF docs[req[j].file] = NoRow THEN ChunkCount[req[j].content]
                           ELSE docs[req[j].file].count,
                 status |-> "pending", error |-> FALSE]]
  /\ Goto(j, "delete")
  /\ UNCHANGED <<chunks, entries, req, old, stored, todo>>

(* loader.chunk, then record_ingestion: the new hash is committed here,    *)
(* before the chunks it describes.                                         *)
RecordIngestion(j) ==
  /\ pc[j] = "record"
  /\ docs' = [docs EXCEPT ![req[j].file] =
                [hash |-> req[j].content, count |-> ChunkCount[req[j].content],
                 status |-> "pending", error |-> FALSE]]
  /\ Goto(j, "delete")
  /\ UNCHANGED <<chunks, entries, req, old, stored, todo>>

(* The DELETE of replace_for_document. READ COMMITTED: the statement sees  *)
(* the rows committed when it starts, whoever is about to replace them.    *)
DeleteChunks(j) ==
  /\ pc[j] = "delete"
  /\ old' = [old EXCEPT ![j] = RowsOf({req[j].file})]
  /\ Goto(j, "locks")
  /\ UNCHANGED <<docs, chunks, entries, req, stored, todo>>

(* It waits for a transaction that holds locks on the same rows.           *)
AcquireRowLocks(j) ==
  /\ pc[j] = "locks"
  /\ \A k \in Jobs \ {j} : pc[k] = "commit" => old[k] \cap old[j] = {}
  /\ Goto(j, "commit")
  /\ UNCHANGED <<docs, chunks, entries, req, old, stored, todo>>

NewRows(j) ==
  {[file |-> req[j].file, index |-> i, content |-> req[j].content, writer |-> j]
     : i \in 0..(ChunkCount[req[j].content] - 1)}

CommitChunks_ByIndex(j) ==
  /\ pc[j] = "commit"
  /\ chunks' = {r \in chunks : \A n \in NewRows(j) : ~SameKey(r, n)} \cup NewRows(j)
  /\ old' = [old EXCEPT ![j] = {}]
  /\ Goto(j, "list")
  /\ UNCHANGED <<docs, entries, req, stored, todo>>

(* The INSERTs and the COMMIT of replace_for_document.                     *)
CommitChunks(j) ==
  /\ pc[j] = "commit"
  /\ chunks' = (chunks \ old[j]) \cup NewRows(j)
  /\ old' = [old EXCEPT ![j] = {}]
  /\ Goto(j, "list")
  /\ UNCHANGED <<docs, entries, req, stored, todo>>
-----------------------------------------------------------------------------
\* After both indexes `ingest` marks the row; `app.cli.index` just returns.
AfterIndexing(j) == IF IsIngest(j) THEN "set_indexed" ELSE "done"

(* list_for_document. With no chunks both index() calls return 0 at once.  *)
ListForDocument(j) ==
  LET rows == RowsOf(Scope(j)) IN
  /\ pc[j] = "list"
  /\ stored' = [stored EXCEPT ![j] = rows]
  /\ Goto(j, IF rows = {} THEN AfterIndexing(j)
             ELSE IF "qdrant" \in Targets(j) THEN "collection" ELSE "es_index")
  /\ UNCHANGED <<docs, chunks, entries, req, old, todo>>

Recreate_Never(b, full) == entries

\* ensure_collection and ensure_index with recreate drop every document.
Recreate(b, full) == [entries EXCEPT ![b] = IF full THEN {} ELSE entries[b]]

\* What the call that job j makes next does to the indexes.
Ensured(j) ==
  \/ pc[j] = "collection" /\ entries' = Recreate("qdrant", req[j].full)
  \/ pc[j] = "es_index"   /\ entries' = Recreate("elasticsearch", req[j].full)
Upserted(j) ==
  /\ pc[j] = "upsert"
  /\ \E new \in LastWins(stored[j]) :
       entries' = [entries EXCEPT !["qdrant"] = Upsert(entries["qdrant"], new)]
Sent(j, r) ==
  /\ pc[j] = "es_docs"
  /\ entries' = [entries EXCEPT !["elasticsearch"] =
                   Upsert(entries["elasticsearch"], {EntryOf(r)})]

(* QdrantIndex.ensure_collection and ElasticsearchIndex.ensure_index       *)
EnsureIndex(j) ==
  /\ Ensured(j)
  /\ Goto(j, IF pc[j] = "collection" THEN "upsert" ELSE "es_docs")
  /\ todo' = [todo EXCEPT ![j] = IF pc[j] = "es_index" THEN stored[j] ELSE {}]
  /\ UNCHANGED <<docs, chunks, req, old, stored>>

UpsertPoints_SkipsElasticsearch(j) ==
  /\ Upserted(j)
  /\ Goto(j, AfterIndexing(j))
  /\ UNCHANGED <<docs, chunks, req, old, stored, todo>>

(* QdrantIndex.index: all the points in one request.                       *)
UpsertPoints(j) ==
  /\ Upserted(j)
  /\ Goto(j, IF "elasticsearch" \in Targets(j) THEN "es_index" ELSE AfterIndexing(j))
  /\ UNCHANGED <<docs, chunks, req, old, stored, todo>>

IndexChunk_First(j, r) ==
  /\ r \in todo[j]
  /\ Sent(j, r)
  /\ todo' = [todo EXCEPT ![j] = todo[j] \ {r}]
  /\ Goto(j, AfterIndexing(j))
  /\ UNCHANGED <<docs, chunks, req, old, stored>>

(* ElasticsearchIndex.index: one request per chunk.                        *)
IndexChunk(j, r) ==
  /\ r \in todo[j]
  /\ Sent(j, r)
  /\ todo' = [todo EXCEPT ![j] = todo[j] \ {r}]
  /\ Goto(j, IF todo[j] = {r} THEN AfterIndexing(j) ELSE "es_docs")
  /\ UNCHANGED <<docs, chunks, req, old, stored>>

SetIndexed(j) ==
  /\ pc[j] = "set_indexed"
  /\ SetStatus(req[j].file, "indexed", FALSE)
  /\ End(j, "done")
  /\ UNCHANGED <<chunks, entries>>

SetFailed(j) ==
  /\ pc[j] = "set_failed"
  /\ SetStatus(req[j].file, "failed", TRUE)
  /\ End(j, "failed")
  /\ UNCHANGED <<chunks, entries>>
-----------------------------------------------------------------------------
(* Exceptions. Before the try block of `ingest` and after it they leave    *)
(* the row as it is; a transaction in progress rolls back.                 *)
LoaderFails(j) ==
  /\ "loader" \in Faults
  /\ pc[j] \in {"find", "record"}
  /\ End(j, "aborted")
  /\ UNCHANGED <<docs, chunks, entries>>

StoreFails(j) ==
  /\ "store" \in Faults
  /\ pc[j] \in {"find", "record", "delete", "locks", "commit", "set_indexed", "set_failed"}
  /\ End(j, "aborted")
  /\ UNCHANGED <<docs, chunks, entries>>

IndexingFails_NotRecorded(j) ==
  /\ "index" \in Faults
  /\ pc[j] \in {"list", "collection", "upsert", "es_index", "es_docs"}
  /\ End(j, "aborted")
  /\ UNCHANGED <<docs, chunks, entries>>

(* Inside the try block: `failed` is recorded next. The call that raised   *)
(* may still have taken effect, as a request that timed out does.          *)
IndexingFails(j) ==
  /\ "index" \in Faults
  /\ pc[j] \in {"list", "collection", "upsert", "es_index", "es_docs"}
  /\ \/ UNCHANGED entries
     \/ Ensured(j)
     \/ Upserted(j)
     \/ \E r \in todo[j] : Sent(j, r)
  /\ IF IsIngest(j)
     THEN /\ Goto(j, "set_failed")
          /\ stored' = [stored EXCEPT ![j] = {}]
          /\ todo' = [todo EXCEPT ![j] = {}]
          /\ UNCHANGED <<req, old>>
     ELSE End(j, "aborted")
  /\ UNCHANGED <<docs, chunks>>

(* The backend process dies with every background task; a command alone.   *)
BackendDies ==
  LET dead == {j \in Jobs : Running(j) /\ req[j].kind = "upload"}
      Cleared(f) == [j \in Jobs |-> IF j \in dead THEN {} ELSE f[j]]
  IN /\ "crash" \in Faults
     /\ dead # {}
     /\ pc' = [j \in Jobs |-> IF j \in dead THEN "aborted" ELSE pc[j]]
     /\ old' = Cleared(old)
     /\ stored' = Cleared(stored)
     /\ todo' = Cleared(todo)
     /\ UNCHANGED <<docs, chunks, entries, req>>

CommandDies(j) ==
  /\ "crash" \in Faults
  /\ Running(j)
  /\ req[j].kind # "upload"
  /\ End(j, "aborted")
  /\ UNCHANGED <<docs, chunks, entries>>
-----------------------------------------------------------------------------
Start(j) ==
  \/ \E f \in Files, c \in Contents : Upload(j, f, c)
  \/ \E f \in Files, c \in Contents, force \in BOOLEAN, full \in FullReindex :
       IngestCli(j, f, c, force, full)
  \/ \E scope \in {{f} : f \in Files} \cup {Files},
        targets \in (SUBSET Backends) \ {{}}, full \in FullReindex :
       IndexCli(j, scope, targets, full)

\* The steps of a job's own thread, which the scheduler keeps running.
Work(j) ==
  \/ FindByFilename(j) \/ RecordIngestion(j)
  \/ DeleteChunks(j) \/ AcquireRowLocks(j) \/ CommitChunks(j)
  \/ ListForDocument(j) \/ EnsureIndex(j) \/ UpsertPoints(j)
  \/ \E r \in todo[j] : IndexChunk(j, r)
  \/ SetIndexed(j) \/ SetFailed(j)

Fault(j) == LoaderFails(j) \/ StoreFails(j) \/ IndexingFails(j) \/ CommandDies(j)

Next ==
  \/ \E j \in Jobs : Start(j) \/ Work(j) \/ Fault(j)
  \/ BackendDies

Spec == Init /\ [][Next]_vars

\* A thread whose next call has returned makes it return: no job stops for
\* ever unless its process dies.
FairSpec == Spec /\ \A j \in Jobs : WF_vars(Work(j))
-----------------------------------------------------------------------------
Labels == {"idle", "find", "record", "delete", "locks", "commit", "list", "collection",
           "upsert", "es_index", "es_docs", "set_indexed", "set_failed"} \cup Ended

IngestOnly == {"find", "record", "delete", "locks", "commit", "set_indexed", "set_failed"}

\* The types of the variables, and which requests a job at a label serves.
TypeOK ==
  /\ docs \in [Files -> DocRow \cup {NoRow}]
  /\ chunks \in SUBSET ChunkRow
  /\ entries \in [Backends -> SUBSET Entry]
  /\ pc \in [Jobs -> Labels]
  /\ req \in [Jobs -> IngestReq \cup IndexReq \cup {NoReq}]
  /\ old \in [Jobs -> SUBSET ChunkRow]
  /\ stored \in [Jobs -> SUBSET ChunkRow]
  /\ todo \in [Jobs -> SUBSET ChunkRow]
  /\ \A j \in Jobs : /\ pc[j] # "idle" => req[j] \in IngestReq \cup IndexReq
                     /\ pc[j] \in IngestOnly => req[j] \in IngestReq

StatusOf(f) == IF docs[f] = NoRow THEN "absent" ELSE docs[f].status
Indexed(f) == StatusOf(f) = "indexed"
Searchable(f) == \A b \in Backends : EntriesOf(RowsOf({f})) \subseteq entries[b]
Quiet(f)   == \A j \in Jobs : Running(j) => f \notin Scope(j)

\* A row carries an error exactly while its status is failed, whatever
\* uploads, commands, failures and crashes follow each other on the file
\* (DocumentRow: error is "only set alongside status=failed").
ErrorIffFailed ==
  \A f \in Files : docs[f] # NoRow => (docs[f].error <=> docs[f].status = "failed")

\* Whoever replaces a document's chunks, and whoever fails or dies while
\* doing it, the committed rows are whole chunk sets: a row is never there
\* without the other chunks of the same pass (replace_for_document).
NoHalfChunkSet ==
  \A r \in chunks : \A i \in 0..(ChunkCount[r.content] - 1) :
    [file |-> r.file, index |-> i, content |-> r.content, writer |-> r.writer] \in chunks

\* While a row says indexed, every chunk Postgres holds for it is in both
\* search indexes with the same text (record_ingestion: only the service,
\* "after both indexes have been written, is entitled to call it indexed").
IndexedIsSearchable ==
  \A f \in Files : Indexed(f) => Searchable(f)

\* With overlapping jobs on one file: once they have all ended, every key
\* of an indexed document is found in both indexes.
QuietIsSearchable ==
  \A f \in Files : Indexed(f) /\ Quiet(f) =>
    \A r \in RowsOf({f}), b \in Backends : \E e \in entries[b] : SameKey(r, e)

\* An indexed row describes the chunks Postgres holds: their content is the
\* one content_hash names, and they are chunk_count many. The short-circuit
\* of `ingest` rests on it.
IndexedMatchesHash ==
  \A f \in Files : Indexed(f) =>
    EntriesOf(RowsOf({f})) =
      {[file |-> f, index |-> i, content |-> docs[f].hash] : i \in 0..(docs[f].count - 1)}

\* A poll of GET /ingest/{id} answers for the upload it was accepted for: as
\* long as an upload of the file is in progress the row says pending.
UploadInProgressIsPending ==
  \A j \in Jobs : Running(j) /\ req[j].kind = "upload" =>
    docs[req[j].file].status = "pending"

\* A row becomes indexed only by a job that found, in both indexes, an entry
\* for every chunk it had listed, even when jobs overlap and calls fail.
WrittenBeforeIndexed ==
  [][\A f \in Files : ~Indexed(f) /\ Indexed(f)' =>
       \E j \in Jobs :
         /\ pc[j] = "set_indexed" /\ req[j].file = f
         /\ \A r \in stored[j], b \in Backends : \E e \in entries[b] : SameKey(r, e)]_vars

\* `app.cli.index --full-reindex` over all documents and both indexes leaves
\* exactly the rows of Postgres in each, whatever was stale before.
RebuildIsExact ==
  [][\A j \in Jobs :
       /\ pc[j] = "es_docs" /\ pc'[j] = "done"
       /\ req[j].full /\ req[j].scope = Files /\ req[j].targets = Backends
       => \A b \in Backends : entries'[b] = EntriesOf(chunks)]_vars

\* An accepted upload does not stay pending: its row becomes indexed or failed
\* ("rather than watching a row sit at pending forever").
UploadSettles ==
  \A f \in Files : StatusOf(f) = "pending" ~> StatusOf(f) \in {"indexed", "failed"}

\* One job at a time on a file: the pipeline implements what DocumentLifecycle
\* promises the caller who polls.
Lifecycle == INSTANCE DocumentLifecycle WITH
  status     <- [f \in Files |-> StatusOf(f)],
  searchable <- [f \in Files |-> Searchable(f)]

ImplementsLifecycle == Lifecycle!Spec
=============================================================================
