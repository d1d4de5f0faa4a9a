# TLA+ models of KnowRAG

KnowRAG answers questions about a corpus of PDFs. A FastAPI backend
(`src/backend/app/`) ingests documents into Postgres, Qdrant and Elasticsearch,
retrieves chunks for a question, has a language model answer from them and
verifies every claim of the answer against its sources; a React frontend
(`src/frontend/src/`) uploads documents, streams answers and keeps the session.
This directory holds TLA+ modules translated from that code, TLC
configurations that check them on small instances, and theorems about them that
TLAPS proves for every value of the constants.

Run `tlc -config <run>.cfg <module>` for a run of PROJECT.json, and
`tlapm <module>.tla` for a proof module.

## 1. Inventory

Paths are under `src/backend/app/` (Python) and `src/frontend/src/` (TypeScript).

| Component | State | Operations | What makes it correct |
|---|---|---|---|
| **Ingestion** `services/ingestion_service.py`, `infrastructure/db/`, `infrastructure/search/*_index.py`, `api/routes/ingest.py`, `cli/` | `documents` and `chunks` tables, Qdrant collection, Elasticsearch index; one background task or process per job | upload (reserve, 202, task), ingest and index commands, poll | an indexed document is searchable; its hash describes its chunks; nothing stale is found; every upload settles |
| **Authentication** `services/auth_service.py`, `infrastructure/db/user_repository.py`, `infrastructure/auth/tokens.py`, `api/routes/auth.py`, `api/dependencies.py` | `users` table (`token_version`), signed tokens held by clients, the refresh cookie | register, login, refresh, logout, authenticate | one account; a token minted before a logout is not accepted after it; versions never go back |
| **Query pipeline** `services/query_service.py`, `domain/` (classification, context, verification, assembly, conflation), `infrastructure/search/hybrid_retriever.py`, `infrastructure/llm/` (provider, cache), `api/routes/query.py` | per request: candidates, context, answer, verdict; shared: the LLM cache | blocking query, SSE stream | order of events, exactly one terminal event; a verdict justified by the scores; a cached answer belongs to the context it is shown with |
| **Model loading** `infrastructure/ml/`, `services/warmup.py`, `main.py` | process-wide models behind locks, the preload threads | load embeddings, reranker, NLI; preload; health | loaded once; no reader sees a half-initialised model; a failure is retried |
| **Frontend session** `lib/auth/`, `lib/api/client.ts`, `hooks/useAuth.ts`, `components/auth/` | access token in memory, refresh promise, session status | bootstrap, request with 401-retry, refresh, logout | one refresh in flight; no retry loop; signed out stays signed out |
| **Frontend query stream** `lib/api/sse.ts`, `hooks/useQueryStream.ts`, `hooks/useQuerySubmit.ts`, `lib/storage/history.ts` | reducer state, the abort controller, history in local storage | submit, supersede, cancel, frames, completion | no event of a superseded stream is applied; one history entry per completed query |
| **Frontend upload polling** `hooks/useIngestStatus.ts`, `components/documents/` | query cache per document, poll timer and budget | upload, poll, stop | polling goes on while the document is pending and stops when it settles or times out |
| **Chunking and text extraction** `infrastructure/pdf/reader.py`, `domain/chunking.py`, `domain/tables.py`, `domain/text_normalization.py` | none (pure) | read a page, detect its table, linearise rows, normalise text, cut prose | what a page says is in exactly one chunk; the words are those that were printed |
| **Timing** `core/timing.py`, the stages of `services/query_service.py` | a cost table per request | collect, record, diff at a stage's exit | the reported spans are disjoint and add up |
| **Evaluation** `src/backend/eval/run_faithfulness_eval.py`, `trap_scoring.py` | the records of a run and the file they are written to | ask the golden questions, report, gate, rescore a file | the gate fails what was falsely supported and nothing else; old records are graded by the same rules |
| Presentation (`components/ui`, layout, pages), the other evaluation scripts, printing commands, prompts, logging, metrics | – | – | not modelled: no state of the system depends on them |

The components meet in few places. Every route but login, register, refresh and
logout calls `authenticate` first. The frontend's client wraps every call with
refresh-and-retry. Ingestion and retrieval share the two indexes and the
chunks table. The query pipeline calls the models and the language model.

What is hard in this code: background tasks that overlap on one file; a
document's state spread over three stores without a common transaction; calls
that fail after taking effect; read-modify-write of `token_version`; tokens in
flight while a logout happens; a refresh answer that arrives after the session
ended; streams that end early or are superseded; caches keyed by less than what
they depend on; lazily loaded globals. PROJECT.json "hazards" lists each at its
line with the properties that would catch it.

## 2. Plan

| Step | Modules | Abstract specification, composition | State |
|---|---|---|---|
| 1 | `Ingestion`, `IngestionProofs` | implements `DocumentLifecycle` | done |
| 2 | `Auth`, `AuthProofs` | – | done |
| 3 | `Session`, `SessionProofs` | the server's side is what `Auth` promises of one account | done |
| 4 | `UploadPolling`, `UploadPollingProofs` | composed with `DocumentLifecycle` as the server | done |
| 5 | `QueryPipeline`, `QueryProofs` | extends `Verification`, the decision procedure for one claim | done |
| 6 | `QueryStream`, `QueryStreamProofs` | the server's side is what `FramesInOrder` promises; the token it carries is `Session`'s | done |
| 7 | `ModelLoading`, `Providers`, `Serving`, `ServingProofs` | `Serving` composes requests with shared models and with a provider | done |
| 8 | `Tables`, `TextNormalization`, `Premises`, `Extraction` | pure algorithms; `Extraction` composes them: what chunking makes of a page is what the screen reads | done |
| 9 | `Evaluation` | – | done |
| 10 | more proofs in `IngestionProofs`, `SessionProofs`, `UploadPollingProofs`, `ServingProofs`, `QueryStreamProofs` | `Ingestion` implements `DocumentLifecycle`, proved; the safety part of what is live: nobody goes round in circles or waits in one | done |
| 11 | `InputsProofs` | the pure algorithms: pages (`NothingLost`, `CellsApart`), lines (`Restored`), premises (`PremiseCovered`) and evaluations (`GradesHold`), proved | done |
| 12 | `Session` implements a one-session abstraction; corpus reads during ingestion | – | next |

The order is that of the damage a mistake does: lost or stale documents first,
then who may read them, then what the user is shown. Runs are kept small (each
well under five minutes on two workers); instances grow only where a
counterexample needs a further actor.

## 3. What is modelled, and how it corresponds to the code

`PROJECT.json` "map" names the lines behind every definition; the comments in
the modules say what an action stands for. An operator named `X_Bug` is a
mutated form of `X`, used by no specification: replacing `X` by it must break
the property `PROJECT.json` "mutants" pairs it with.

### Ingestion

A *job* is one background task of `POST /ingest` (`Upload`), one
`python -m app.cli.ingest` (`IngestCli`) or one `python -m app.cli.index`
(`IndexCli`). Its `pc` names the repository or index call it makes next, and
every action of `Work(j)` is one such call:

| `pc` | Action | Code |
|---|---|---|
| find | `FindByFilename` | content hash, `find_by_filename`, the unchanged-file short-circuit |
| record | `RecordIngestion` | `loader.chunk`, then `record_ingestion` (commits) |
| delete, locks, commit | `DeleteChunks`, `AcquireRowLocks`, `CommitChunks` | `replace_for_document`: what the DELETE statement saw (READ COMMITTED), the wait for another transaction on the same rows, INSERTs and COMMIT |
| list | `ListForDocument` | `list_for_document`; with no chunks both index calls return at once |
| collection, es_index | `EnsureIndex` | `ensure_collection`, `ensure_index`, with or without recreate |
| upsert | `UpsertPoints` | all points in one request |
| es_docs | `IndexChunk` | one request per chunk, in any order of rows |
| set_indexed, set_failed | `SetIndexed`, `SetFailed` | `set_status` |

`docs`, `chunks` and `entries` are the three stores. A chunk's text is the pair
of its content and its index, so stale text is told from current text.
Rows carry their writer, the model's surrogate key. Failures: `LoaderFails` and
`StoreFails` are exceptions outside the `try` block, `IndexingFails` those inside
it, where the call that raised may have taken effect; `BackendDies` ends every
upload's task, `CommandDies` one command. `Overlap = "per_file"` is a caller who
waits for one job of a file before the next; `"free"` is what the code allows.

`DocumentLifecycle` is the abstract specification: what a poller may rely on.
`Ingestion!Lifecycle` instantiates it with the row's status and with whether
all the document's chunks are in both indexes.

### Auth

A *thread* serves one request. `Register`/`Create`, `Login`/`Mint`,
`Refresh`/`Mint`, `Logout`/`LoadVersion`/`BumpVersion` and `Call`/`Serve` split
each handler at its database transactions; `job` holds the `User` object the
request carries from one to the next. A request that is refused changes nothing
and is no step. Tokens are records; one is accepted when it has the type
that is asked for, has not expired and its version is the user's
(`Accepts`). `iat`, `since`, `clock` and `loggedOut` are history: they say
whether a token is older than a logout, which the code does not record.

### Session

A *tab* has `getAccessToken()` (`token`), the fetch behind `inFlightRefresh`
(`refreshes`, `inFlight`) and the boot effect of `AuthProvider` (`boot`); all
tabs share one `cookie`. `refreshes` is a sequence so that a second refresh is
expressible at all: `SingleFlight` says there is none. A *call* goes through
sent, replied, refreshing (waiting for the shared promise), and, after its
refresh, sent again with `attempt` 1. `Resolve` is everything that happens in
one turn of the event loop when a refresh ends: the token store, the cookie,
`finally`, the resumed callers and the boot effect. `GiveUp` and `RefreshFails` are the timeouts
and network errors; what the server may still get of a logout whose caller has gone
is kept in `late`. The server's handlers are atomic here; `Auth` has their steps.

### UploadPolling

The documents page over the server of `DocumentLifecycle` (`Server!Accept`,
`Server!Publish`, `Server!Fail`). `active`, `clock` and `notified` are the
panel's `activeDocumentId`, `startedAtRef` and `lastNotifiedStatusRef`; `armed`
is the interval `refetchInterval` asked for when it was last evaluated, that is after
every change of the active entry. The query client's entries outlive the page: `cache`,
`old`, `poll`, `failed` for each document's status, and the same for the list. Its rules
are those the code's options select: fetches of a key are shared, an observer's
new key is fetched if its entry is stale, `invalidateQueries` drops a fetch in
flight for a new one unless it is the one that loads the list, a failed fetch is
retried once while somebody looks, an unmounted panel's `onSuccess` is not
called but the hook's is. A slot of `upload` is one `POST /ingest`. The `upload`
field of a view or of `active` says which upload of the document it is about:
the code does not know it, the properties are about it.

### QueryPipeline and Verification

A *request* is one `POST /query` or, with `stream`, one `POST /query/stream`, in the
thread Starlette gives it. Its `pc` names the step it takes next:

| `pc` | Action | Code |
|---|---|---|
| semantic, keyword | `SearchSemantic`, `SearchKeyword` | `HybridRetriever.search`: one index after the other, then the merge by key, the rerank and the cut to k in the second step |
| lookup, call | `Lookup`, `Generate`, `Retry` | `generate_claims`: the cache, then the provider under its retries, then the write of the entry |
| tokens | `Token`, `EndOfStream` | `_stream_answer` until the deltas are parsed; no cache, no retry |
| verify | `Verify`, `Assemble` | `verify_tagged`, one claim a step, then the response |
| report, verdict, finish | `Report` | the frames, each a `yield` at which `ClientLeaves` may close the generator |

A *passage* is a text a chunk has had, a chunk with a version; a context is the
ranked sequence of passages, and tag `i` is `[Ci]`. A statement skips generation: it
becomes one assertion that cites every tag. `cache` is the directory of entries: it outlives
the process (`Redeploy`) and keeps what one request wrote for another. `shown` is
history: what the claims were generated from, which the entry does not record. An entry of an `Unvalidated` model may
be `Garbled`: stored by `Generate` in a request that it fails, it fails every `Lookup` that hits it.
`Fail` is any exception: a status code from `/query`, the error frame of a stream.

`Verification` is the decision procedure for one claim, over scored citations:
`Score` the windowed retry, `EntailmentRank` and `FirstMax` the race with Python's tie
rule, `Judge` the four outcomes. `Follows` states the reference it is checked against.

### Serving, ModelLoading and Providers

A *thread* is one that serves a request or one that startup leaves preloading a model.
`ModelLoading` is what a thread does inside a loader; its `frame` says where:

| `frame[t].at` | Action | Code |
|---|---|---|
| lock | `Acquire` | `with _<m>_lock`; a cached model is returned |
| cache, network | `FromCache`, `FromNetwork` | `from_cache_first`: local files only, then with the network |
| derive, publish | `Derive`, `Publish` | `_derive_labels`, then the two globals of the entailment model |
| returned, raised | the caller's next action | |

`Leave` is the way out of a loader: the lock and `timed("model_load")` end, on the failure
path as well. `owner` and `cached` are the locks and the `lru_cache`s (`_nli_model` for the third),
`labels` is `_nli_labels`, `preload` is `_load_and_warm`.

`Serving` is a request's way through the stages that need a model or a provider. Its `pc`:
`embed` and `resolve` are the calls of the two loaders of retrieval, `generate` one attempt of the provider
with the backoff before it, `verify` and `score` the entailment model's. `before`, `latency` and
`costs` are `_stage`'s snapshot, the breakdown and the `collect()` scope; time is counted in steps that take
some, so that `spent`, which is history, says what a request's time went into. `QueryPipeline` says what
is retrieved, claimed and concluded; here it is only when a stage needs what.

`Providers` maps what a provider sent to what the caller may get (`CallOutcomes`, `StreamOutcomes`), with the
differences of the two adapters: a failure without a status is retried, and named, in one of them only, and so is
the validation of a buffered reply. Where nothing validates (`Unchecked`: Gemini's buffered reply, either provider's stream) a text
that is not the schema may be an exception, no claims or claims. That such a reply is cached too is `QueryPipeline`'s matter
(`Garbled`, `Unvalidated`).

### QueryStream

The query page. A *question* is known by its number. `stream[q].at` is the `await` at which
its generator waits:

| `at` | Action | Code |
|---|---|---|
| opening | `Opened`, `Refused`, `Rejected` | `fetch` |
| refreshing | `Refreshed` | `refreshAccessToken`, which takes no signal |
| refusal | `Rejected` | reading the body of an error status |
| reading | `Read`, `Close`, `Rejected` | `reader.read()` |
| orphan | – | the page was left; nobody hears of it |

The frames of one read are handed to the hook in one step, since nothing but microtasks lies between
them. A frame is five symbols (its event line, a data line in two parts, a blank line), and `Read` takes any
number of them, so every split of the bytes across reads that can matter is covered; `Cuts`
bounds only where a *connection* ends within a frame. `script`, `sent` and `ending` are history: what the server wrote.
`Start`, `Mutate`, `Cancel`, `Toggle`, `Leave`, `Return` and `Forget` are the user, over both transports;
`Settle` is a blocking call's end; `Record` the effect that writes the history. React renders and runs
due effects before the next click (`UserActs`).

### Tables, TextNormalization, Premises and Extraction

Pure algorithms, as operators. A page is its sequence of drawing callbacks, and `Tables` speaks of sets of
positions in it, so that `PageKept` can say of each operation where it went: a run, which the code collects in a loop, is the set of
positions that follow its first one in the same column, a row is known by the start of its left run. A text is a
sequence of fragments and marks, so that a printed word, its glyphs and what is made of them can be compared
(`Meant`, `Extracted`, `NormalizeLigatures`). `Premises` has the windows of a long premise, as lengths,
and the composition screen, over words named for what its patterns see in them. `Extraction` builds every page, line and
premise up to its bounds, one piece a step; `CellsApart` composes two of the algorithms: the screen
reads the rows that the table code linearises.

What the indexes return, what the language model answers and how a pair of texts is scored is free
in every step: `Ingestion` says what the indexes hold, and nothing here rests on a model being right.

### Evaluation

`Begin` is `main` up to the first question (`todo` holds the places, in the two golden sets, of the items it loaded), `Ask` one turn of `evaluate`'s loop (the answer's verdicts are free, an
exception is recorded), `Finish` the report, the file and the exit code, `Rescore` the same from a file. A claim's
text is what the traps see of it: the patterns its words match, those only its citation tags match, and whether it
denies. `Archived` is a record as versions before refusals wrote it. `said` and `written` are history, which the
metrics are compared with. `MCInputs` puts `Extraction` and `Evaluation` side by side: a behaviour takes one of them.

## 4. The runs

| Run | Instance | What it shows |
|---|---|---|
| `IngestionPerFile` | 1 file, contents of 2, 1 and 0 chunks, 3 jobs, all failures and crashes, one job at a time | rows, chunks and indexes stay consistent (`IndexedIsSearchable`, `UploadInProgressIsPending`) and the pipeline implements `DocumentLifecycle` |
| `IngestionOverlap` | 1 file, 2 contents, 2 overlapping jobs of all kinds | what survives overlap: whole chunk sets (`NoHalfChunkSet`), indexed only after one's own writes (`WrittenBeforeIndexed`), every key found once all is quiet (`QuietIsSearchable`) |
| `IngestionSettles` | 1 file, 3 jobs, index failures, full rebuilds, fair | uploads settle, hash and count describe the chunks, a full rebuild is exact |
| `Auth` | 2 threads, 2 users, 2 passwords, overlapping registrations, one logout at a time | no revoked token is accepted, only a logout ends a session, no account is replaced |
| `Session` | 2 tabs, 2 requests, 4 tokens, 2 logouts, a login alone in flight | one refresh per tab, nobody waits for nothing, only a logout or a lost answer ends a session, sign-out is final, one retry suffices, a reload finds its session |
| `Polling` | 1 document uploaded twice, 2 uploads in flight, pages left and opened, failures, entries that age | polling goes on until the document settles, the outcome shown is that of the upload, the list follows |
| `Query` | 2 requests, a question and a statement, 2 chunks one of which has two texts that rank on either side of the other, 2 models, one of them not validated, 1 cache entry, claims with none, one and two citations, dangling tags and refusals | a context has one text per chunk, a verdict follows from its scores (`VerdictFollowsEvidence`), `ok` is earned, frames come in order whatever fails, claims belong to this question, model and set of chunks |
| `Serving` | 2 requests, one of them by any of the generating routes, the other a fact query, the entailment model preloading, cold caches, no network, an unknown head, failing searches, both providers, any reply, 2 attempts; fair | each model is built by one thread and published whole (`ModelsAreWhole`), the latency keys name disjoint spans (`LatencyAddsUp`), an answer stands on the claim set last sent, but for the replies a path does not validate, and a spent quota is asked once (`AnswersAreHonest`), every request ends (`RequestsEnd`) |
| `Stream` | 2 questions over either transport, 1 token, a history of 2, connections that are cut or break at a frame's start, before and within its data; fair | frames come out as written whatever the split (`FramesAsSent`), only the latest question is on the page (`OnlyTheLatest`), answers are recorded once (`RecordedOnce`), the page stops waiting (`BusyEnds`) |
| `Inputs` | pages of 7 operations over three columns and of 5 with telling words, lines of 3 words out of 8, premises of 7 sentences; evaluations of three items, one without a trap, any subset and limit, old and new records | nothing on a page is lost or repeated (`NothingLost`), the screen never binds across columns (`CellsApart`), printed words are restored (`Restored`), a premise is read in full (`PremiseCovered`); the gate and the metrics agree with what was claimed, and a rescored file with its run (`GradesHold`) |

Type correctness is proved for every instance (section 5), so no run repeats it; so is `ErrorIffFailed`.

Violation runs, each a disagreement of the code with what the repository says:

| Run | Property | What happens |
|---|---|---|
| `StuckPending` | `UploadSettles` | a PDF that cannot be read leaves its row pending for ever: the exception is outside the `try` block that records `failed` |
| `CachedTags` | `TagsMeanWhatWasShown` | the cache key sorts the chunk ids, tags are positions: after a re-rank a cached claim is supported by a chunk its generator saw under another tag |

Met while modelling, each shown by a change to a run that is kept:

- `Auth.cfg` with `Overlap = {"logout"}`, one user and password and `MaxClock = 7` violates
  `AcceptedIsLive`: overlapping logouts write an old version back and revoked tokens verify again.
- `Session.cfg` with `Overlap = {"login"}` and `MaxMints = 3` violates `NotSignedOutByRaces`: the 401 of the
  boot refresh clears the token a login has put into the store meanwhile.
- `Polling.cfg` with `Slots = {s1}` and `BudgetIsPerUpload` as an invariant violates it: the poll budget is
  that of the mounted panel, so an upload made after it is spent is polled once and never again.
- `Serving.cfg` with `OnlyClaimSetsVerified` as an invariant violates it, although `prompts.py:71-73` says that a
  claim set "must never reach verification malformed": a buffered Gemini reply is parsed (`gemini.py:163`) and not
  validated, so a JSON object without `claims` goes to the verifier as an empty claim set (`provider.py:156`), and the client
  gets 200 `insufficient_evidence`, which `errors.py:13-19` promises never to make of a failure.
- `Query.cfg` with `LookupsAnswerOrMiss` as a property violates it, although `cache.py:8-9` says that the cache "stores the
  validated claim dict": that reply is stored (`provider.py:94`) before it is read as claims, and if reading it raises, the
  entry fails everyone who asks the same question over the same chunks, without a call.

And seen on the way: without "only the index backends fail"
`IndexedMatchesHash` does not hold, since `record_ingestion` commits the new hash before the
chunks, and after a failure between the two the next upload of the file short-circuits on a
hash whose chunks do not exist; a version with fewer chunks leaves its old tail in both
indexes under an indexed row, until a full rebuild; with `StrictMode = TRUE` (a
development build) `WaitersHaveARefresh` fails, since the cleanup cancels the one boot
effect that runs and `bootedRef` stops the other; with `Reupload = "free"`
`OutcomeIsOfThisUpload` fails, since a status fetched less than 30 s ago is fresh
and a re-uploaded document is not polled at all, although `app/providers.tsx:34-35`
says status polling overrides `staleTime`; without "first upload" `ListCatchesUp` fails,
since `lastNotifiedStatusRef` is spent on the earlier outcome; two overlapping uploads of a
file leave both jobs' chunks, and the first to end reports `indexed` for both;
two first registrations with different usernames can both succeed; a refresh
token stays valid after it was exchanged, although `core/config.py:174-175` says
an older cookie stops working; a failing `reserve` leaves the staged file
behind; after a sign-out a late refresh answer makes the tab look signed in
until its next request (the token is worthless: `RevivedIsDead`).

In the newer modules, and stated in their properties as exceptions or outcomes:

- *Tables*: a second run of the right column within one row replaces the cell, while the operations of
  the first stay in `consumed_op_indices` (`tables.py:144-146`), so their text is in no chunk, although
  lines 101-107 give that loss as the reason for the field. `NothingLost` excepts exactly these (`Interrupted`).
- *Premises*: windows start at every third unit and stop at the character cap, so with long sentences a
  unit may be in no window, although `verification.py:119-122` says that each is; `PremiseCovered` claims it
  where any three neighbours fit. `_normalize` collapses newlines before `_SEGMENT_SPLIT` looks for one, so that branch never fires.
- *TextNormalization*: the dictionary cannot tell two lost spaces in a row, a broken word in the heading font, or
  an unlisted word broken after a word; `Recoverable` names what it can.
- *Providers*: a blocked buffered answer of Gemini, or one that is not JSON, is an exception of the parser
  and so a 500, where OpenAI's is a 503; one that is JSON of another shape is a 500, an answer without claims, or claims
  whose missing `kind` makes them assertions (`MayPass` lists what each path lets through); Gemini's transport errors are not retried; in a stream a truncated
  answer of either provider, and Gemini's blocked one, count as no claims and so as
  insufficient evidence, although `openai_client.py:229-233` keeps the two apart for the buffered call.
- *Serving*: a request that waits while another thread loads a model books the wait under its
  own stage; the embedding model's library is imported outside the timed load.
- *Evaluation*: `DeclinedIsUnseen`, added to `Inputs.cfg` as an invariant, is violated. `trap_scoring.py:108-109` says a
  rejected claim that asserts the bait was caught by verification; since `assembly.py` shows unsupported claims, such a claim
  is in the answer and D1 does not count it, and D4 credits the item if a refusal stands beside it. An evaluation in which
  every adversarial item failed passes the gate with a rate of 0; `GradesHold` speaks of scored items only.
- *QueryStream*: a stream that ends cleanly between two frames without `done` or `error` leaves the phase at
  streaming and the composer disabled until the user cancels (`SilentlyCut`); a broken connection after
  `done` turns the phase to error; a streamed answer that is cancelled after its verification is still in the
  history, a cancelled blocking one never; leaving the page aborts nothing.

**Bounds.** `Jobs` (2 or 3, each used once) bounds how many operations a history
has. Three are enough for the sequences the properties are about: an upload, one
that fails or shortens it, and one that builds on the remains. One file suffices
because jobs of different files share nothing but the drop-and-recreate of an
index. `MaxClock` (4) bounds tokens and logouts of `Auth`; `MaxMints` and `MaxVersion` those
of `Session`: four tokens are a login, its refresh in each tab and one more; two
logouts are one that is confirmed and one that comes late. One document suffices in `UploadPolling`: two share nothing but the panel's refs,
which two uploads of one document share too. Two threads, tabs and
calls are the fewest that race. In `Query` the constraint `Overlap` keeps requests concurrent
inside `generate_claims`, where they share the cache, and one at a time elsewhere, where a request
reads and writes only its own state; slots are reused, so histories of any length are covered, and
`MaxEntries` = 1 with `MaxTokens` = 1 and `MaxAttempts` = 2 (7 in the code) bound what only repeats. Two scores and the threshold
at the upper one tell every outcome apart, ties included. At these bounds a server step is disabled;
clients may always give up, so no deadlock is hidden, and deadlock is checked in `Auth`, `Session`,
`Polling` and `Query`.
In `Serving` two requests and one preload thread are enough for a holder, a waiter and a third that comes
late; the fact route enters every loader, and reads of the two requests' own state commute. `Stream` needs two questions for one to supersede, be
abandoned for or outlive the other, and one token, for a third frame differs from the second in nothing;
two reads and a cut place every symbol of a frame on either side of a boundary. In `Inputs` seven operations are
the least for a caption, a header, two rows and an interruption; three words for one lost space with a neighbour on either side;
seven sentences for a third window start after two full ones; an item of each kind, asked once, and a rescored file are all
that the rates of an evaluation depend on.
The ingestion instances stop when their jobs are used up
(`CHECK_DEADLOCK FALSE`), the requests of `Serving` when they are answered, the page of `Stream`
may be left for good, and `Inputs` ends at its bounds. Symmetry is used in safety runs only
(`IngestionSettles` and `StuckPending` have none).

**Fairness.** `Ingestion!FairSpec` asks for weak fairness of each job's own
steps: a thread or process whose call has returned goes on. Row locks are held
by a transaction whose COMMIT is its next step, so weak fairness is enough.
Nothing is assumed of clients, crashes or failures. `Serving!FairSpec` asks the same of a request's and of a preload thread's steps: a lock is held by a thread whose
next step is its own; that a call of the provider returns is assumed (OpenAI's client has a timeout by default, for Gemini's the
repository sets none). `QueryStream!FairSpec` asks that the network
settles what is open and that a due effect runs; nothing is asked of the user, and `Read` is fair only as part of what
the network may do with a question. `QueryPipeline` states no liveness: whether a provider answers is not the code's. `Auth`, `Session` and
`UploadPolling` assume none: that nobody hangs is stated as an invariant (`WaitersHaveARefresh`: who
waits, waits for a fetch that is in flight), which does not depend on when a
fetch ends; the refresh fetch has no timeout in the code.

## 5. The proofs

For every value of the constants that satisfies the modules' assumptions:

| Theorem | States | Inductive invariant |
|---|---|---|
| `IngestionProofs!TypeCorrect`, `ErrorCorrect` | `TypeOK`, `ErrorIffFailed` | themselves |
| `IngestionProofs!ChunkSetsWhole` | `NoHalfChunkSet` with any overlap and any failure | `WholeInv`: the rows a DELETE saw are whole too, or removing them could split a set |
| `IngestionProofs!IndexedAfterWriting` | `WrittenBeforeIndexed` for any overlap and any failure, if no index is dropped (`NoIndexDropped`) | `WrittenInv`: nothing is dropped or about to be (`NothingDropped`), and what a job listed and has sent to an index is there under its key (`ListedWritten`), where it stays: without a drop a later upsert only replaces its text (`KeysKept`) |
| `IngestionProofs!QuietSearchable` | `QuietIsSearchable` for any overlap, if no index is dropped and the indexing stages do not fail (`NoIndexingFaults`) | `LookedAfter`: whoever committed a chunk that is still there has yet to list it, holds it among what it listed, or has ended and left its key in both indexes |
| `IngestionProofs!PendingWhileUploading` | `UploadInProgressIsPending` with one job per file (`PerFile`) | `JobInv`: jobs exclude each other (`Exclusive`), their scopes are of rows that exist (`ScopesInhabited`), one row per key (`UniqueKeys`), a rewriting job's view is current (`OldCurrent`), its row says so (`RewritingIsRecorded`), what was listed is still stored (`StoredCurrent`), and an upload's document is reserved until it ends (`UploadIsReserved`) |
| `IngestionProofs!HashDescribesChunks` | `IndexedMatchesHash` with one job per file and rewrites that complete (`RewriteCompletes`: the loader or an index may fail, not the store or the process, between recording the hash and committing the chunks) | `HashInv`: a file's chunks are those its content_hash and chunk_count describe, unless a job is rewriting them |
| `IngestionProofs!RebuildExact` | `RebuildIsExact` with one job per file | `RebuildInv`: Qdrant is empty before the upsert and exactly the chunks after it, Elasticsearch is exactly what has been sent; a rebuild of everything runs alone (`RebuildsAlone`) |
| `IngestionProofs!IndexedSearchable` | `IndexedIsSearchable` with one job per file and no `--full-reindex` (`OneJobPerFile`) | `JobInv`, `NothingDropped` and `SearchInv`: of what Postgres holds, what a job has sent is there with the same text (`WrittenSoFar`) |
| `IngestionProofs!Implementation` | `ImplementsLifecycle` (`Ingestion` implements `DocumentLifecycle`) under the same | the refinement mapping, step by step: the two commits that change a status are the lifecycle's steps, `WriteStep` says that what a job writes shows only once the row is pending, and everything else stutters |
| `IngestionProofs!JobsAdvance` | no job goes round in circles, whatever fails or overlaps | types: a job's rank is its stage and the rows it has still to send, and each step of any job keeps or lowers it |
| `IngestionProofs!JobsNeverStuck` | no job is without a next step: what `UploadSettles` rests on beside fairness | with `TypeOK`: a row once written stays (`set_status` finds it), what is looped over is not empty, and of two rewrites of the same rows one is past its delete |
| `AuthProofs!TypeCorrect`, `AccountsAreKept` | `TypeOK`, `AccountsKept` however registrations race | `TypeOK` |
| `AuthProofs!SessionsDoSurvive` | `SessionsSurvive` whatever overlaps, logouts included | `SurviveInv`: reads are not in the future, and a request about to mint with no logout since its read holds the current version |
| `AuthProofs!RevokedNotAccepted` | `AcceptedIsLive` if logouts do not overlap | `RevokedInv`: one logout at a time, what it writes back is current plus one, and neither a token nor a request about to mint is ahead of the user's version |
| `AuthProofs!OnlyOneAccount` | `OneAccount` if registrations do not overlap | with `RegisteringAlone` |
| `SessionProofs!TypeCorrect`, `OneRefresh` | `TypeOK`, `SingleFlight` in either build, whatever overlaps | themselves |
| `SessionProofs!NobodyHangs` | `WaitersHaveARefresh` in a production build | `HangInv`: and no boot effect was cancelled |
| `SessionProofs!TokensAreCovered`, `SignedOutIsDead` | `CookieCoversTokens`, `RevivedIsDead` if logins do not overlap with other requests | `EndInv`: no version held by a tab, the cookie or a fetch is ahead of the account's (`NoneHeldAhead`); once signed out, all of them are behind it (`OverIsDead`); an accepted token or an answer carrying one goes with a good cookie (`TokensCovered`); a login is alone and brings the current version (`LoginAlone`, `LoginCurrent`) |
| `SessionProofs!SignedOutByChoice`, `BootSignsIn` | `NotSignedOutByRaces`, `BootFindsSession` under the same | `FetchesFollow`: what the server will say to a refresh on the wire, or has said, is what it would say to the cookie now |
| `SessionProofs!OneRetryIsEnough` | `RetrySucceeds` whatever overlaps | `RetryInv`: the token of an answered refresh (`FreshAnswers`) and of a second attempt (`FreshRetries`) has not expired, and if the attempt was refused a logout has outdated it |
| `UploadPollingProofs!TypeCorrect`, `PollsUntilSettled` | `TypeOK`, `PollingGoesOn` whatever is uploaded | themselves |
| `UploadPollingProofs!OutcomeIsRight` | `OutcomeIsOfThisUpload` for patient users | `OutcomeInv`: one upload of the panel at a time (`OneMine`), whose document nobody fetches before it is accepted (`MineWaits`), so what is on its way to the panel was read after the acceptance (`AnswersNew`, `NumbersCurrent`) |
| `UploadPollingProofs!ListIsRight` | `ListCatchesUp` for the same users | `ListInv`, with `OutcomeInv`: what the cache or an answer says of a document was true and outcomes stay (`ReadsHold`); before a first upload is accepted the panel has notified nothing and knows no outcome (`PageReady`); when its outcome shows, the list was fetched since, or is being fetched (`FirstOutcome`) |
| `QueryProofs!TypeCorrect` | `TypeOK`: in particular the decision procedure returns a well-formed verdict for any scores, and a context has at most k texts | itself |
| `QueryProofs!RetryOnlyEntails` | the windowed retry only ever adds an entailment | none: a fact about `Score` |
| `QueryProofs!OneTextOfAChunk`, `VerdictsFollow`, `GeneratedForThis`, `AnswersAreEarned` | `OneTextPerChunk`, `VerdictFollowsEvidence`, `GeneratedForThisContext`, `AnswerIsEarned`, for any number of requests, texts, citations and models | `IInv`: both search results have one text per chunk (`TextsInv`), nothing is generated, verified or answered out of turn (`EarlyInv`), the scores at hand are those of texts of this context (`ScoresInv`), the last verdict follows from them (`VerdictInv`), a statement is one assertion and a stream cut short left no claims (`ClaimsInv`), a response was assembled from the verdicts of all the claims (`ResponseInv`), and what a request or a cache entry was generated from is what it says (`ShownInv`, `CacheInv`) |
| `QueryProofs!FramesComeInOrder` | `FramesInOrder` for streams of any length | with `FramesInv`: what can have been sent when a request is at each step (`SoFar`), which is what makes the next frame rank above it |
| `ServingProofs!ModelsLoadedWhole`, `TypeCorrect` | `ModelsAreWhole`, `TypeOK` for any number of requests, any preloaded models, routes and deployments | `ServingInv`: whoever is past the check owns the lock of a model that is not cached (`FramesHold`), publishing has its labels (`LabelsKnown`), a request is in a loader only where its code calls one, and nothing recorded is less than the open stage's snapshot (`RequestHolds`), so that no stage's time is negative |
| `ServingProofs!Honesty` | `AnswersAreHonest` for any number of attempts, any deployment, whatever the provider replies | `HonestInv`: `Honest` as far as a request has got (`HonestSoFar`): what the next attempt may find, and what each outcome was built from |
| `ServingProofs!ValidatedOnly` | `OnlyClaimSetsVerified` where OpenAI is the only provider deployed; with Gemini it fails, as section 4 says | `HonestInv`: what reaches the verifier is made of the last reply, and no reply passes for a claim set where all are validated (`MayPass`) |
| `ServingProofs!LatencyIsTime` | `LatencyAddsUp` whatever loads and fails | `TimeInv` (`TimeKept`): within a stage, the time since its snapshot is what its key still lacks plus what the loader and the reranker have put on record, which a second timer may not count again |
| `ServingProofs!RequestsAdvance` | no request goes round in circles, with any attempts and any provider: what `RequestsEnd` rests on beside fairness | with `ServingInv`: the steps a request has left, at most 70 and its attempts, are fewer after each of its own and no more after another's |
| `ServingProofs!WaitersWaitForWorkers` | nobody waits in a circle | with `ServingInv`: a lock's owner is inside a load of that model (`CallersWait` says where a request is in a loader at all) |
| `QueryStreamProofs!LatestOnly`, `TypeCorrect` | `OnlyTheLatest`, `TypeOK` for any number of questions and any answers | `PageInv`: a generator that may still speak to the page is the latest question's or knows itself aborted, and the two transports never share a question |
| `QueryStreamProofs!FramesComeOut` | `FramesAsSent` for answers of any length, split and cut anywhere | `StreamInv`: what has been read of a stream is k whole frames of its script and r symbols of the next (`Received`); the buffer holds those r, the wire what is still to come, and nothing follows a frame that ends a script (`Ordered`) |
| `QueryStreamProofs!RecordedExactlyOnce` | `RecordedOnce` for any number of questions and any limit | `HistInv`, with `PageInv` and `StreamInv`: a question that is not the last asked has nothing more to say to the page (`Quiet`), and neither has one whose phase shows an end (`PhaseInv`); a call on the wire is the last asked and not stored (`CallInv`); an effect is due only for the last asked, and what is stored of the current question has been seen (`SeenInv`) |
| `QueryStreamProofs!BusyHasCause` | the page is busy only while it is owed an answer, or was cut off without an error | with `PhaseInv`, `CallInv`: the stream on show has frames to hand over or the call has not settled (`CauseInv`), and a script's last frame is one that ends it |
| `QueryStreamProofs!StreamsAdvance` | no question goes on for ever: what `BusyEnds` rests on beside fairness | with `StreamInv`: the awaits a stream has left, reopened once at most, and the symbols still to read (`Distance`) |
| `InputsProofs!PagesAreWhole` | `NothingLost` for pages of any length, drawing anything in any order | a page is a sequence of operations (`PageIsDrawn`); then a fact about `Tables`: what a text says comes from the places it was made of and from each of them (`TextFrom`), a run is of one column and each operation in one run (`RunFacts`), and a row's two cells hold all that it consumes but what was broken off (`RowWhole`, `BrokenOff`) |
| `InputsProofs!ColumnsApart` | `CellsApart` for the same pages | the same; then a fact about a row's chunk: between two bars all words were drawn in one column (`Segmented`), `_normalize` removes no bar (`NormalizedSegments`), and a pattern reads none |
| `InputsProofs!PremisesAreRead`, `WindowsCover` | `PremiseCovered` for premises of any lengths, any window and stride | lengths are natural numbers; a window starts less than a stride before any unit (`StartBefore`) and takes in every unit up to one that fits (`WindowReaches`) |
| `InputsProofs!LinesAreRestored` | `Restored` for lines of any number of words, any dictionary and exceptions, when no word of the vocabulary is misleading by itself or in a pair (`ClearVocabulary`) | `LineInv`: a recoverable line reads as it was meant, stage by stage (`Reads`), and what precedes its last word is repaired alike whatever follows that begins like it (`Opens`), which a space the dictionary has to guess needs. Each stage treats the two sides of a stop apart (`SpacesApart`, `ExpandApart`, `BreaksRepairedApart`), since the runs it asks the dictionary about end there (`RunsApart`); so a word's glyphs are read as on paper (`WordRead`), its break is repaired (`BrokenRepaired`), and a line grows by a word after a space (`FollowsSpace`), a comma (`FollowsComma`) or neither (`FollowsGuessed`, from `PairRead`) |
| `InputsProofs!GradesAreRight` | `GradesHold` for golden sets, traps and responses of any size | `EvalInv`: a record of this version says what the response to it said (`Faithful`); no item is asked twice, and the traps asked are among those the report is given (`Asking`), so that to be given the whole set instead changes no rate (`SameReport`); what was printed and written is the report of the records at hand |

The step lemma of `ServingProofs` (`LoadAdvances`) says what any step inside a loader leaves true and may
change, once for requests and preload threads alike; `RequestStep` does the same for a request's own
steps. `QueryProofs` rests on facts about the procedure proved once: `FirstMaxIs` (what `max` with a key
returns), `JudgeFollows` (the verdict `Judge` reaches is the one `Follows` asks for, whatever is flagged,
missing or tied) and `RankedIs` (a ranked context has no text twice). `QueryStreamProofs` and `InputsProofs` do their induction over
data with a set in the place of a formula: `SetInduction`, from the library's least-element principle, says that
a set with 0 and the successors of its members holds every natural number. `CutPiece` uses it on the turns of `push`'s loop,
with `DrainStep` for one turn: whatever piece of a script the buffer has grown to, the loop hands out its whole frames and keeps the rest.
`FlattenOrigin` uses it on the recursive function behind `FlattenSeq` (`FlattenExists`: there is one): each member of the result comes
from one of the sequences, in order, and none is left out, which is all the proofs about texts need to know of it.

The hypotheses are the regimes the runs check, and what they exclude does break the property: dropping
"logouts do not overlap" lets revoked tokens revive, dropping "logins do not overlap" signs a user out by a race
(`SignedOutByChoice`, `BootSignsIn`, `TokensAreCovered`), dropping "production build" or "patient" breaks the
theorem's property as section 4 says. `ValidatedOnly` is about deployments without Gemini, which the run `Serving` covers beside those with it. `PerFile` is the command line's and the page's custom of one job per document, which
no lock enforces; `NoIndexDropped` is that nobody runs `--full-reindex`, which empties an index that other jobs believe written;
`NoIndexingFaults` is needed because a job that dies after its commit leaves chunks that nobody sends; without
`RewriteCompletes` a new hash stays recorded beside the old chunks. What holds in any regime has no hypothesis
(`ChunkSetsWhole`, `AccountsAreKept`, `SessionsDoSurvive`, `OneRefresh`, `OneRetryIsEnough`, `PollsUntilSettled`, and
all of `QueryProofs`, `ServingProofs` but for `ValidatedOnly`, `QueryStreamProofs`, and `InputsProofs` but for lines).
`LinesAreRestored` needs `ClearVocabulary` because the code can only ask the dictionary: an unlisted word that splits into two listed
ones at a ligature, two listed words whose join is listed too, a word that another font makes into another word, or one
whose hyphen does not follow a listed part, is beyond what it can tell. `ClearVocabulary` says that of each word, of its
parts on a line and of each pair of listed words, never of a line; the run's words, which are listed, unlisted, hyphenated,
parts of one another and exceptions, satisfy it (`MCVocabularyAssumption`, which TLC evaluates). The constants' own assumptions are named in their modules:
that the counts are natural numbers, and that a model value which stands for "nothing" is none of the things
it is told apart from (`NoRowAssumption`, `NoneAssumption`); and that an id names one question of the golden sets
(`EvaluationAssumption`), as it does in both files.

Only model-checked: liveness (`UploadSettles`, `RequestsEnd`, `BusyEnds`) and deadlock, which the prover does not
handle. Of the liveness properties the safety part is proved: each step of a job, request or stream
brings it nearer an end that is finitely far (`JobsAdvance`, `RequestsAdvance`, `StreamsAdvance`), nobody is without a
next step or waits in a circle (`JobsNeverStuck`, `WaitersWaitForWorkers`), and who is shown as busy has a cause
(`BusyHasCause`); what is left to TLC is that enabled steps are taken, which is about `ENABLED`. Every invariant a passing run checks is a theorem.

## 6. Abstractions and what is left out

- *Ingestion*: a repository method other than `replace_for_document` is one step,
  its session's reads and its commit together; a commit whose acknowledgement is
  lost is not modelled; requests to an index that time out either take effect before the
  job goes on or not at all. Chunking is a constant number of chunks per
  content. No file system.
- *Auth*: bcrypt and JWT are what they let through. Rate limits and cookies'
  attributes are left out. A refresh token outlives an access token, as the
  default settings say (`Expire`).
- *Session*: one account; the server's handlers are atomic. A token does not
  expire between a refresh's answer and the retry it leads to. Closing a tab drops the
  answers it was waiting for. `api` stands for every guarded request, the
  opening of a stream included; what a stream does after it is open is `QueryStream`.
- *UploadPolling*: all uploads of a document come from this page's query client; a reload of
  the browser is not an action (it starts over from `Init` with the server's
  rows as they are). A hidden tab, in which the interval does not fetch, and
  the refetch when the network returns are left out. The 401 of a poll is `Session`'s matter.
- *QueryPipeline*: the system prompt's fingerprint in the cache key is constant;
  a verdict's citations and chunk ids, latencies and messages are left out; the classifier, the
  composition screen and the cutting into windows are free choices here (`Premises` has the last two);
  model loading is `Serving`'s.
- *Serving*: sockets' and disks' own timeouts are failures of a call; GPU and thread pools are left out, as
  are Prometheus counters and the health route. A retry's backoff is part of the attempt after it.
- *QueryStream*: a storage that refuses writes and malformed stored entries are left out, as are two tabs that
  share one history.
- *Tables, TextNormalization, Premises*: `split_prose` and `page.extract_text` are other libraries' code; plurals and aliases of the screen,
  `strip_citation_tags` and the classifier's patterns are not modelled: they are lists of wordings, and a model of
  one would repeat it.
- *Evaluation*: every golden question takes the generating route; the breakdown by category, the blind items and all
  printing are left out. Recall, the labelling of chunks, the trap controls and the experiments print figures over data.
- Components not modelled are listed in section 1 and in `PROJECT.json` with
  the reason. Presentation, printing commands, logging and
  metrics stay out: no state of the system depends on them. Retrieval scores,
  embeddings and model outputs are data that no check here could judge.
