---------------------------- MODULE QueryPipeline ----------------------------
(***************************************************************************)
(* The query use case of the backend: services/query_service.py behind     *)
(* POST /query and POST /query/stream, the merge of the two searches, the  *)
(* on-disk cache of generations, and the response assembled from the       *)
(* verdicts.  Requests run in threads of their own and share the cache.    *)
(*                                                                         *)
(* External, and therefore free: what each index returns (it is written    *)
(* while requests read it; Ingestion.tla says what it can hold), what the  *)
(* language model answers, and what the entailment model answers.          *)
(***************************************************************************)
EXTENDS Verification, Functions

CONSTANTS
  Requests,    \* requests in flight at once; a slot is reused
  Questions,   \* inputs the classifier calls a question
  Statements,  \* inputs it calls a fact
  Chunks,      \* the keys (document_id, chunk_index)
  Versions,    \* the texts a chunk has had
  Models,      \* the generation models a deployment can select
  Generations, \* the claim lists a model may return
  Unvalidated, \* the models whose replies nobody validates, Gemini's
  Garbled,     \* a reply that parses, and raises when it is read as claims
  Relevance,   \* the reranker: [input -> [passage -> score]]
  CandidateK,  \* top_k_retrieval
  TopK,        \* top_k_rerank
  MaxAttempts, \* attempts of a buffered generation call
  MaxTokens,   \* bound: deltas of one stream
  MaxEntries   \* bound: entries the cache directory takes

ASSUME QueryAssumption ==
  /\ Passages \subseteq [chunk : Chunks, version : Versions]
  /\ Questions \cap Statements = {}
  /\ Generations \subseteq Seq([kind : {"assertion", "refusal"},
                                citations : Seq(1 .. TopK + 1)])
  /\ Garbled \notin Generations
  /\ Relevance \in [Questions \cup Statements -> [Passages -> Int]]
  /\ TopK \in Nat /\ CandidateK \in Nat /\ MaxAttempts \in Nat \ {0}
  /\ IsFiniteSet(Passages)

VARIABLES
  model, \* the generation model this process was configured with
  cache, \* the cache directory
  req    \* the requests

vars == <<model, cache, req>>
-----------------------------------------------------------------------------
Inputs == Questions \cup Statements
Tags   == 1 .. TopK + 1

Claim == [kind : {"assertion", "refusal"}, citations : Seq(Tags)]

\* The ids the claims of a context are cached under: sorted(), so a set.
ChunkIds(context) == {context[i].chunk : i \in DOMAIN context}

\* Mutant: the key names the question and the model only.
CacheKey_WithoutChunks(input, context) ==
  [question |-> input, ids |-> {}, model |-> model]

CacheKey(input, context) ==
  [question |-> input, ids |-> ChunkIds(context), model |-> model]

\* An entry is the reply alone; `shown` is history: the context, the question
\* and the model they were generated from.
Entry(claims, input, context) ==
  [claims |-> claims, shown |-> [input |-> input, context |-> context, model |-> model]]

NotShown == [input |-> "none", context |-> <<>>, model |-> "none"]

Frames == {"retrieval", "token", "verification", "done", "error"}

NoResponse == [state |-> "none", answer |-> {}]

Idle ==
  [pc |-> "idle", input |-> "none", stream |-> FALSE, semantic |-> {},
   context |-> <<>>, attempt |-> 0, claims |-> <<>>, shown |-> NotShown,
   truncated |-> FALSE, scored |-> <<>>, verdicts |-> <<>>,
   response |-> NoResponse, sent |-> <<>>]
-----------------------------------------------------------------------------
Init ==
  /\ model \in Models
  /\ cache = <<>>
  /\ req = [r \in Requests |-> Idle]

Become(r, new) == req' = [req EXCEPT ![r] = new]

\* The frame of an event, for a request that streams.
Send(r, frame) == IF req[r].stream THEN Append(req[r].sent, frame) ELSE req[r].sent

\* A request arrives and is classified; both routes begin with a search.
Ask(r) ==
  /\ req[r].pc = "idle"
  /\ \E i \in Inputs, s \in BOOLEAN :
       Become(r, [Idle EXCEPT !.pc = "semantic", !.input = i, !.stream = s])
  /\ UNCHANGED <<model, cache>>

\* What one index returns: at most CandidateK texts under distinct keys.
SearchResults ==
  {hits \in SUBSET Passages : /\ Cardinality(hits) <= CandidateK
                          /\ \A t, u \in hits : t.chunk = u.chunk => t = u}

SearchSemantic(r) ==
  /\ req[r].pc = "semantic"
  /\ \E hits \in SearchResults :
       Become(r, [req[r] EXCEPT !.pc = "keyword", !.semantic = hits])
  /\ UNCHANGED <<model, cache>>

\* Mutant: the two results are concatenated.
Merge_KeepsBoth(semantic, keyword) == semantic \cup keyword

\* The union of both results by key; the semantic leg comes first and wins.
Merge(semantic, keyword) ==
  semantic \cup {t \in keyword : \A u \in semantic : u.chunk # t.chunk}

\* What sorting the candidates by their score and cutting to TopK can give: ties
\* fall in the order the searches returned them.
Ranked(input, candidates) ==
  {context \in [1 .. Min({TopK, Cardinality(candidates)}) -> candidates] :
     /\ IsInjective(context)
     /\ \A i, j \in DOMAIN context :
          i < j => Relevance[input][context[i]] >= Relevance[input][context[j]]
     /\ \A t \in candidates \ Range(context), i \in DOMAIN context :
          Relevance[input][context[i]] >= Relevance[input][t]}

\* The statement becomes one assertion that cites every tag of its context.
StatementClaim(context) ==
  [kind |-> "assertion", citations |-> [i \in DOMAIN context |-> i]]

\* The second search, the merge and the rerank.  A question that streams reports
\* its context at once, a statement only with its verdict.
SearchKeyword(r) ==
  /\ req[r].pc = "keyword"
  /\ \E hits \in SearchResults :
     \E context \in Ranked(req[r].input, Merge(req[r].semantic, hits)) :
       Become(r,
         IF req[r].input \in Statements
           THEN [req[r] EXCEPT !.pc = "verify", !.semantic = {}, !.context = context,
                               !.claims = <<StatementClaim(context)>>]
         ELSE IF req[r].stream
           THEN [req[r] EXCEPT !.pc = "tokens", !.semantic = {}, !.context = context,
                               !.sent = Send(r, "retrieval")]
         ELSE [req[r] EXCEPT !.pc = "lookup", !.semantic = {}, !.context = context])
  /\ UNCHANGED <<model, cache>>
-----------------------------------------------------------------------------
Shown(r) == [input |-> req[r].input, context |-> req[r].context, model |-> model]

\* generate_claims: the cache is read, and only a miss reaches the provider.  An
\* entry that cannot be read, being half written by another request, is a miss;
\* one that was stored garbled is a hit, and raises.
Lookup(r) ==
  /\ req[r].pc = "lookup"
  /\ LET key == CacheKey(req[r].input, req[r].context)
     IN \/ /\ key \in DOMAIN cache
           /\ IF cache[key].claims = Garbled
              THEN Become(r, [req[r] EXCEPT !.pc = "closed"])
              ELSE Become(r, [req[r] EXCEPT !.pc = "verify", !.claims = cache[key].claims,
                                            !.shown = cache[key].shown])
        \/ Become(r, [req[r] EXCEPT !.pc = "call"])
  /\ UNCHANGED <<model, cache>>

\* The entry is written over whatever another request put there meanwhile; a write
\* that fails is only logged.
Store(key, entry) ==
  \/ UNCHANGED cache
  \/ /\ Cardinality(DOMAIN cache \cup {key}) <= MaxEntries
     /\ cache' = [k \in DOMAIN cache \cup {key} |-> IF k = key THEN entry ELSE cache[k]]

\* The provider answers.  The reply is stored before it is read as claims, so one
\* that nobody validated may be stored by a request that it fails.
Generate(r) ==
  /\ req[r].pc = "call"
  /\ \E claims \in Generations \cup (IF model \in Unvalidated THEN {Garbled} ELSE {}) :
       /\ IF claims = Garbled
          THEN Become(r, [req[r] EXCEPT !.pc = "closed"])
          ELSE Become(r, [req[r] EXCEPT !.pc = "verify", !.claims = claims, !.shown = Shown(r)])
       /\ Store(CacheKey(req[r].input, req[r].context),
                Entry(claims, req[r].input, req[r].context))
  /\ UNCHANGED model

\* A 429 or a 5xx is tried again, up to the last attempt.
Retry(r) ==
  /\ req[r].pc = "call"
  /\ req[r].attempt + 1 < MaxAttempts
  /\ Become(r, [req[r] EXCEPT !.attempt = @ + 1])
  /\ UNCHANGED <<model, cache>>

Token(r) ==
  /\ req[r].pc = "tokens"
  /\ Cardinality({i \in DOMAIN req[r].sent : req[r].sent[i] = "token"}) < MaxTokens
  /\ Become(r, [req[r] EXCEPT !.sent = Send(r, "token")])
  /\ UNCHANGED <<model, cache>>

\* The stream ends: with the claims it spelled, or cut short, in which case the
\* text does not parse and counts as no claims at all.
EndOfStream(r) ==
  /\ req[r].pc = "tokens"
  /\ \/ \E claims \in Generations :
          Become(r, [req[r] EXCEPT !.pc = "verify", !.claims = claims, !.shown = Shown(r)])
     \/ Become(r, [req[r] EXCEPT !.pc = "verify", !.truncated = TRUE, !.shown = Shown(r)])
  /\ UNCHANGED <<model, cache>>
-----------------------------------------------------------------------------
Resolve(context, tag) == IF tag \in DOMAIN context THEN context[tag] ELSE NoPassage

\* What scoring the citations of a claim, one after the other, can give.
ScoredCitations(claim, context) ==
  IF claim.kind = "refusal"
    THEN {<<>>}
    ELSE {scored \in [DOMAIN claim.citations ->
                        UNION {CitationResults(Resolve(context, claim.citations[i])) :
                                 i \in DOMAIN claim.citations}] :
            \A i \in DOMAIN scored :
              scored[i] \in CitationResults(Resolve(context, claim.citations[i]))}

\* verify_tagged, one claim at a time.
Verify(r) ==
  /\ req[r].pc = "verify"
  /\ Len(req[r].verdicts) < Len(req[r].claims)
  /\ LET claim == req[r].claims[Len(req[r].verdicts) + 1]
     IN \E scored \in ScoredCitations(claim, req[r].context) :
          Become(r, [req[r] EXCEPT
                       !.scored = scored,
                       !.verdicts = Append(@, VerifyClaim(claim.kind, scored))])
  /\ UNCHANGED <<model, cache>>

With(verdicts, statuses) == {i \in DOMAIN verdicts : verdicts[i].status \in statuses}

\* Mutant: only refusals are left out of the answerable claims.
AssembleAnswer_Contradicted(verdicts) ==
  LET answerable == With(verdicts, {"SUPPORTED", "UNSUPPORTED", "CONTRADICTED"})
      refusals   == With(verdicts, {"REFUSAL"})
  IN [state  |-> IF answerable # {} THEN "ok" ELSE "insufficient_evidence",
      answer |-> answerable \cup refusals]

\* assemble_response: which claims the answer is made of.
AssembleAnswer(verdicts) ==
  LET answerable == With(verdicts, {"SUPPORTED", "UNSUPPORTED"})
      refusals   == With(verdicts, {"REFUSAL"})
  IN [state  |-> IF answerable # {} THEN "ok" ELSE "insufficient_evidence",
      answer |-> answerable \cup refusals]

\* assemble_fact_check_response: the answer is a sentence about the evidence.
AssembleFactCheck(verdict) ==
  [state  |-> CASE verdict.status = "SUPPORTED"    -> "ok"
                [] verdict.status = "CONTRADICTED" -> "contradicted"
                [] OTHER                           -> "insufficient_evidence",
   answer |-> {}]

Assemble(r) ==
  /\ req[r].pc = "verify"
  /\ Len(req[r].verdicts) = Len(req[r].claims)
  /\ LET fact == req[r].input \in Statements
     IN Become(r, [req[r] EXCEPT
          !.pc = IF ~req[r].stream THEN "closed" ELSE IF fact THEN "report" ELSE "verdict",
          !.response = IF fact THEN AssembleFactCheck(req[r].verdicts[1])
                               ELSE AssembleAnswer(req[r].verdicts)])
  /\ UNCHANGED <<model, cache>>

\* The last frames, each a yield at which the client may be gone.
Report(r) ==
  /\ \/ /\ req[r].pc = "report"
        /\ Become(r, [req[r] EXCEPT !.pc = "verdict", !.sent = Send(r, "retrieval")])
     \/ /\ req[r].pc = "verdict"
        /\ Become(r, [req[r] EXCEPT !.pc = "finish", !.sent = Send(r, "verification")])
     \/ /\ req[r].pc = "finish"
        /\ Become(r, [req[r] EXCEPT !.pc = "closed", !.sent = Send(r, "done")])
  /\ UNCHANGED <<model, cache>>
-----------------------------------------------------------------------------
\* Mutant: the error frame does not return, and `done` follows it.
Fail_GoesOn(r) ==
  /\ \/ req[r].pc \in {"semantic", "keyword", "call", "tokens"}
     \/ req[r].pc = "verify" /\ Len(req[r].verdicts) < Len(req[r].claims)
  /\ Become(r, [req[r] EXCEPT !.pc = IF req[r].stream THEN "finish" ELSE "closed",
                              !.sent = Send(r, "error")])
  /\ UNCHANGED <<model, cache>>

\* A search, the provider or a model load raises: a status code from /query, an
\* error frame on a stream, whose status is long since sent.
Fail(r) ==
  /\ \/ req[r].pc \in {"semantic", "keyword", "call", "tokens"}
     \/ req[r].pc = "verify" /\ Len(req[r].verdicts) < Len(req[r].claims)
  /\ Become(r, [req[r] EXCEPT !.pc = "closed", !.sent = Send(r, "error")])
  /\ UNCHANGED <<model, cache>>

\* The generator behind a stream is closed at a yield when its client has left.
ClientLeaves(r) ==
  /\ req[r].stream
  /\ \/ req[r].pc \in {"tokens", "finish"}
     \/ req[r].pc = "verdict" /\ req[r].input \in Statements
  /\ Become(r, [req[r] EXCEPT !.pc = "closed"])
  /\ UNCHANGED <<model, cache>>

Forget(r) ==
  /\ req[r].pc = "closed"
  /\ Become(r, Idle)
  /\ UNCHANGED <<model, cache>>

\* A restart, possibly with another model: requests die, the cache directory stays.
Redeploy ==
  /\ \E m \in Models : model' = m
  /\ req' = [r \in Requests |-> Idle]
  /\ UNCHANGED cache

Next ==
  \/ \E r \in Requests :
       \/ Ask(r) \/ SearchSemantic(r) \/ SearchKeyword(r)
       \/ Lookup(r) \/ Generate(r) \/ Retry(r) \/ Token(r) \/ EndOfStream(r)
       \/ Verify(r) \/ Assemble(r) \/ Report(r)
       \/ Fail(r) \/ ClientLeaves(r) \/ Forget(r)
  \/ Redeploy

Spec == Init /\ [][Next]_vars
-----------------------------------------------------------------------------
Contexts == [input : Inputs \cup {"none"}, context : Seq(Passages),
             model : Models \cup {"none"}]

Steps == {"idle", "semantic", "keyword", "lookup", "call", "tokens",
          "verify", "report", "verdict", "finish", "closed"}

Attempts == 0 .. MaxAttempts - 1

Responses == [state  : {"none", "ok", "contradicted", "insufficient_evidence"},
              answer : SUBSET Nat]

AnyInput  == Inputs \cup {"none"}
TextSets  == SUBSET Passages
TextLists == Seq(Passages)
ClaimLists   == Seq(Claim)
ScoredLists  == Seq(Scored)
VerdictLists == Seq(Verdict)
FrameLists   == Seq(Frames)

RequestState ==
  [pc : Steps, input : AnyInput, stream : BOOLEAN, semantic : TextSets,
   context : TextLists, attempt : Attempts, claims : ClaimLists, shown : Contexts,
   truncated : BOOLEAN, scored : ScoredLists, verdicts : VerdictLists,
   response : Responses, sent : FrameLists]

\* Every variable keeps its type, and the steps of the question route are only
\* taken by questions: the state query_service.py and cache.py hold.
TypeOK ==
  /\ model \in Models
  /\ DOMAIN cache \subseteq [question : Questions, ids : SUBSET Chunks, model : Models]
  /\ cache \in [DOMAIN cache -> [claims : Generations \cup {Garbled}, shown : Contexts]]
  /\ req \in [Requests -> RequestState]
  /\ \A r \in Requests :
       /\ req[r].pc \in {"semantic", "keyword"} => req[r].input \in Inputs
       /\ req[r].pc \in {"lookup", "call", "tokens"} => req[r].input \in Questions
       /\ Len(req[r].context) <= TopK

\* However the indexes are rewritten between and during the two searches, a
\* context never holds two texts of one chunk: the merge by key of
\* hybrid_retriever.py, on which a tag meaning one text rests.
OneTextPerChunk ==
  \A r \in Requests : \A i, j \in DOMAIN req[r].context :
    req[r].context[i].chunk = req[r].context[j].chunk => i = j

\* The positions of a scored claim that may count as support.
Supporting(scored) ==
  {i \in DOMAIN scored : /\ scored[i].label = "entailment" /\ ~scored[i].flagged
                         /\ scored[i].score >= Threshold}

Refuting(scored) == {i \in DOMAIN scored : scored[i].label = "contradiction"}

Largest(scored, among, score) ==
  /\ \E i \in among : scored[i].score = score
  /\ \A i \in among : scored[i].score <= score

\* What a verdict says of the scores it was decided on.
Follows(kind, scored, verdict) ==
  /\ verdict.status = "REFUSAL" <=> kind = "refusal"
  /\ verdict.status = "SUPPORTED" <=> kind # "refusal" /\ Supporting(scored) # {}
  /\ verdict.status = "CONTRADICTED" <=>
       kind # "refusal" /\ Supporting(scored) = {} /\ Refuting(scored) # {}
  /\ verdict.status = "SUPPORTED" => Largest(scored, Supporting(scored), verdict.score)
  /\ verdict.status = "CONTRADICTED" => Largest(scored, Refuting(scored), verdict.score)
  /\ verdict.reason = "rejected" =>
       Largest(scored, {i \in DOMAIN scored : scored[i].flagged}, verdict.score)
  /\ verdict.reason = "below_threshold" =>
       \E i \in DOMAIN scored : /\ Entails(scored[i]) /\ ~scored[i].flagged
                                /\ scored[i].score = verdict.score

\* verify_claim says SUPPORTED exactly on an unflagged entailment at the
\* threshold, then CONTRADICTED exactly on a contradiction, and reports the score
\* that decided: whatever the order and mix of missing, flagged, neutral,
\* contradicting and tied citations.
VerdictFollowsEvidence ==
  \A r \in Requests : LET n == Len(req[r].verdicts) IN
    n > 0 => Follows(req[r].claims[n].kind, req[r].scored, req[r].verdicts[n])

\* When a question may be answered ok, and a statement.
Answered(q) ==
  /\ ~q.truncated
  /\ \E i \in DOMAIN q.claims : /\ q.claims[i].kind = "assertion"
                                /\ q.verdicts[i].status # "CONTRADICTED"

Confirmed(q) == \E i \in Supporting(q.scored) : q.scored[i].passage \in Range(q.context)

\* A response says ok only if it is earned.  For a statement: some text of the
\* one context entails it at the threshold.  For a question: some claim of a
\* generation that was complete is an assertion no cited text contradicts, and
\* no contradicted claim is in the answer, whatever was cut short on the way.
AnswerIsEarned ==
  \A r \in Requests : req[r].response # NoResponse =>
    /\ req[r].response.state = "ok" =>
         IF req[r].input \in Statements THEN Confirmed(req[r]) ELSE Answered(req[r])
    /\ \A i \in req[r].response.answer : req[r].verdicts[i].status # "CONTRADICTED"
    /\ req[r].response.state = "contradicted" => Supporting(req[r].scored) = {}

FrameRank == [f \in Frames |-> CASE f = "retrieval" -> 1 [] f = "token" -> 2
                                 [] f = "verification" -> 3 [] OTHER -> 4]

\* Whatever fails and wherever, a stream is retrieval, tokens, verification, done
\* in this order, each but the token at most once; an error ends it; done comes
\* only after a verification, and a verification only with a response; a
\* statement streams no token.
FramesInOrder ==
  \A r \in Requests : LET sent == req[r].sent IN
    /\ \A i, j \in DOMAIN sent : i < j =>
         \/ FrameRank[sent[i]] < FrameRank[sent[j]]
         \/ sent[i] = "token" /\ sent[j] = "token"
    /\ "done" \in Range(sent) => "verification" \in Range(sent)
    /\ "verification" \in Range(sent) =>
         "retrieval" \in Range(sent) /\ req[r].response # NoResponse
    /\ req[r].input \in Statements => "token" \notin Range(sent)
    /\ req[r].response # NoResponse => "error" \notin Range(sent)

\* The claims a question is answered with were generated for this question, by
\* the model now configured, from a context of the same chunks; and on a stream,
\* which bypasses the cache, from this very context.  Concurrent misses,
\* overwritten entries and restarts with another model do not change that.
GeneratedForThisContext ==
  \A r \in Requests : req[r].shown # NotShown =>
    /\ req[r].shown.input = req[r].input
    /\ req[r].shown.model = model
    /\ ChunkIds(req[r].shown.context) = ChunkIds(req[r].context)
    /\ req[r].stream => req[r].shown.context = req[r].context

\* "It stores the validated claim dict" (cache.py:8-9): whoever looks a question up
\* finds claims or calls the provider; the cache itself fails nobody.  Not so for a
\* model that is not validated: its reply is stored (provider.py:93-94) before
\* Claim(**c) raises (provider.py:156), and raises again for everyone who asks the same.
LookupsAnswerOrMiss ==
  [][\A r \in Requests :
       req[r].pc = "lookup" /\ req'[r] # req[r] => req'[r].pc \in {"verify", "call", "idle"}]_vars

\* What query_service.py promises of _verify: no claim is supported by another
\* chunk than the one its generator was shown under the tag it cites.
TagsMeanWhatWasShown ==
  \A r \in Requests : LET n == Len(req[r].verdicts) IN
    req[r].shown # NotShown /\ n > 0 =>
      \A i \in Supporting(req[r].scored) :
        req[r].scored[i].passage.chunk =
          Resolve(req[r].shown.context, req[r].claims[n].citations[i]).chunk
=============================================================================
