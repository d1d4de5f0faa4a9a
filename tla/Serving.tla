------------------------------- MODULE Serving -------------------------------
(***************************************************************************)
(* Query requests over shared models and an unreliable language model:     *)
(* the stages of services/query_service.py with what each costs, the       *)
(* searches of infrastructure/search that need a model, and the status a   *)
(* client gets (api/errors.py).  What is retrieved, claimed and concluded  *)
(* is QueryPipeline's matter; here only when each stage needs what.        *)
(***************************************************************************)
EXTENDS ModelLoading, Providers

CONSTANTS
  Routes,      \* Routes[r]: the routes request r may take
  Deployments, \* the providers llm_provider may select
  MaxAttempts  \* attempts of a buffered generation call

ASSUME ServingAssumption ==
  /\ Routes \in [Requests -> SUBSET {"answer", "fact", "stream"}]
  /\ Deployments \subseteq ProviderNames
  /\ MaxAttempts \in Nat \ {0}

VARIABLES
  provider, \* settings.llm_provider; "open" until a generation depends on it
  reranker, \* HybridRetriever._reranker is not None: all requests share the service
  req       \* the requests

vars == <<loadVars, provider, reranker, req>>
-----------------------------------------------------------------------------
Keys    == {"retrieval", "rerank", "model_load", "generation", "verification"}
Nothing == [k \in Keys |-> 0]

NoOutcome == [kind |-> "pending", hint |-> FALSE]
Verdict   == [kind |-> "verdict", hint |-> FALSE]

\* before is _stage's snapshot; its clock starts over with each stage.  spent, last and
\* futile are history: what the request's time went into, the provider's last
\* reply, and whether it was asked again although waiting could not help.
New == [route |-> "none", pc |-> "new", before |-> NoCosts, latency |-> Nothing,
        spent |-> Nothing, attempts |-> 0, last |-> "nothing", futile |-> FALSE,
        outcome |-> NoOutcome]

At(r, pc) == req[r].pc = pc

\* Mutant: nested costs are read off the table and not off its change since the entry.
Staged_Absolute(r, name, nested, total) ==
  LET own   == total - (IF "rerank" \in nested THEN costs[r].rerank ELSE 0)
                     - (IF "model_load" \in nested THEN costs[r].model_load ELSE 0)
  IN [k \in Keys |-> IF k \in nested THEN req[r].latency[k] + costs[r][k]
                     ELSE IF k = name THEN (IF own < 0 THEN 0 ELSE own)
                     ELSE req[r].latency[k]]

\* The exit of _stage after `total`: nested costs since its entry are reported under
\* their own names and taken out of the stage's.
Staged(r, name, nested, total) ==
  LET incurred(k) == costs[r][k] - req[r].before[k]
      own   == total - (IF "rerank" \in nested THEN incurred("rerank") ELSE 0)
                     - (IF "model_load" \in nested THEN incurred("model_load") ELSE 0)
  IN [k \in Keys |-> IF k \in nested THEN req[r].latency[k] + incurred(k)
                     ELSE IF k = name THEN (IF own < 0 THEN 0 ELSE own)
                     ELSE req[r].latency[k]]

\* An exception: the status code of a blocking request, the error frame of a stream.
\* What was measured is lost with it.
Ended(r, outcome, last, futile) ==
  [req EXCEPT ![r] = [New EXCEPT !.route = req[r].route, !.pc = "respond", !.last = last,
                                 !.futile = futile, !.outcome = outcome]]

Broken(r) == Ended(r, Exception, req[r].last, req[r].futile)

ServingInit ==
  /\ LoadInit
  /\ provider = "open"
  /\ reranker = FALSE
  /\ req = [r \in Requests |-> New]
-----------------------------------------------------------------------------
(* Retrieval *)

\* A request is routed; a buffered route opens its collect() scope.
Arrive(r, route) ==
  /\ At(r, "new")
  /\ req' = [req EXCEPT ![r].route = route, ![r].pc = "embed"]
  /\ costs' = [costs EXCEPT ![r] = [NoCosts EXCEPT !.scope = (route # "stream")]]
  /\ frame' = [frame EXCEPT ![r] = Called("embedding")]
  /\ UNCHANGED <<owner, cached, labels, preload, clock, provider, reranker>>

\* The request's own steps inside a loader.
Loading(r) ==
  /\ Load(r)
  /\ req' = [req EXCEPT ![r].spent["model_load"] = @ + clock'[r] - clock[r]]
  /\ UNCHANGED <<provider, reranker>>

\* QdrantIndex.search with the model at hand, then ElasticsearchIndex.search; with no
\* document the reranker is not needed.
Search(r) ==
  /\ At(r, "embed") /\ Holds(r, "returned")
  /\ clock' = Tick(r, 1)
  /\ \/ /\ ~reranker
        /\ frame' = [frame EXCEPT ![r] = Called("reranker")]
        /\ req' = [req EXCEPT ![r].spent["retrieval"] = @ + 1, ![r].pc = "resolve"]
     \/ /\ reranker
        /\ frame' = [frame EXCEPT ![r] = Out]
        /\ req' = [req EXCEPT ![r].spent["retrieval"] = @ + 1, ![r].pc = "rerank"]
     \/ /\ frame' = [frame EXCEPT ![r] = Out]
        /\ req' = [req EXCEPT ![r].spent["retrieval"] = @ + 1, ![r].pc = "retrieved"]
     \/ /\ "search" \in Failures
        /\ frame' = [frame EXCEPT ![r] = Out]
        /\ req' = Broken(r)
  /\ UNCHANGED <<owner, cached, labels, preload, costs, provider, reranker>>

\* _get_reranker: resolved before the timed span, and kept for every later request.
Resolve(r) ==
  /\ At(r, "resolve") /\ Holds(r, "returned")
  /\ reranker' = TRUE
  /\ frame' = [frame EXCEPT ![r] = Out]
  /\ req' = [req EXCEPT ![r].pc = "rerank"]
  /\ UNCHANGED <<owner, cached, labels, preload, clock, costs, provider>>

Rerank(r) ==
  /\ At(r, "rerank")
  /\ clock' = Tick(r, 1)
  /\ costs' = Recorded(r, "rerank", 1)
  /\ req' = [req EXCEPT ![r].pc = "retrieved",
                        ![r].spent["rerank"] = @ + 1]
  /\ UNCHANGED <<owner, cached, labels, frame, preload, provider, reranker>>

\* The retrieval stage ends; the next one begins.
Retrieved(r) ==
  /\ At(r, "retrieved")
  /\ req' = [req EXCEPT
       ![r].latency = Staged(r, "retrieval",
                             IF costs[r].scope THEN {"rerank", "model_load"} ELSE {}, clock[r]),
       ![r].before = costs[r],
       ![r].pc = IF req[r].route = "fact" THEN "verify" ELSE "generate"]
  /\ clock' = [clock EXCEPT ![r] = 0]
  /\ UNCHANGED <<owner, cached, labels, frame, preload, costs, provider, reranker>>
-----------------------------------------------------------------------------
(* Generation *)

\* The request asks again, or for the first time, and gets this reply.
Futile(r) == req[r].futile \/ req[r].last \in {"spent", "rejected"} \cup Complete \cup Declined

\* The call is over: its stage ends with claims to verify, or the request does.
Generated(r, reply, outcome) ==
  req' = IF outcome.kind \in Complete
         THEN [req EXCEPT ![r] =
                [req[r] EXCEPT !.pc = "verify", !.attempts = 0, !.before = costs[r],
                               !.last = reply, !.futile = Futile(r), !.outcome = outcome,
                               !.spent["generation"] = clock[r] + 1,
                               !.latency = Staged(r, "generation", {}, clock[r] + 1)]]
         ELSE Ended(r, outcome, reply, Futile(r))

\* One attempt, the backoff before it included.  A buffered call is attempted again
\* while that may help; a stream is attempted once.
Generate(r) ==
  /\ At(r, "generate")
  /\ provider' \in IF provider = "open" THEN Deployments ELSE {provider}
  /\ \E reply \in Replies, hinted \in BOOLEAN :
       LET again == /\ req[r].route = "answer" /\ Retryable(provider', reply)
                    /\ req[r].attempts + 1 < MaxAttempts
       IN /\ hinted => reply \in {"rate", "spent"}
          /\ \/ /\ again
                /\ req' = [req EXCEPT ![r].attempts = @ + 1, ![r].last = reply,
                                      ![r].futile = Futile(r)]
                /\ clock' = Tick(r, 1)
             \/ /\ ~again
                /\ \E o \in (IF req[r].route = "answer"
                             THEN CallOutcomes(provider', reply, hinted)
                             ELSE StreamOutcomes(provider', reply, hinted)) :
                     Generated(r, reply, o)
                /\ clock' = [clock EXCEPT ![r] = 0]
  /\ UNCHANGED <<owner, cached, labels, frame, preload, costs, reranker>>
-----------------------------------------------------------------------------
(* Verification *)

\* The entailment model is asked for when there is something to score: not for
\* refusals, uncited claims or an empty context.
Verify(r) ==
  /\ At(r, "verify")
  /\ \/ /\ req[r].outcome.kind # "none"
        /\ frame' = [frame EXCEPT ![r] = Called("nli")]
        /\ req' = [req EXCEPT ![r].pc = "score"]
     \/ /\ req' = [req EXCEPT ![r].pc = "scored"]
        /\ UNCHANGED frame
  /\ UNCHANGED <<owner, cached, labels, preload, clock, costs, provider, reranker>>

\* predict_nli with the model at hand: the labels are read without the lock.
Score(r) ==
  /\ At(r, "score") /\ Holds(r, "returned")
  /\ frame' = [frame EXCEPT ![r] = Out]
  /\ clock' = Tick(r, 1)
  /\ req' = IF ~labels THEN Broken(r)
            ELSE [req EXCEPT ![r].spent["verification"] = @ + 1, ![r].pc = "scored"]
  /\ UNCHANGED <<owner, cached, labels, preload, costs, provider, reranker>>

\* The last stage ends and the response is assembled.
Scored(r) ==
  /\ At(r, "scored")
  /\ req' = [req EXCEPT
       ![r].latency = Staged(r, "verification",
                             IF costs[r].scope THEN {"model_load"} ELSE {}, clock[r]),
       ![r].outcome = IF req[r].route = "fact" THEN Verdict ELSE @,
       ![r].pc = "respond"]
  /\ UNCHANGED <<loadVars, provider, reranker>>

\* A load that raised ends the request.
LoadRaised(r) ==
  /\ Holds(r, "raised")
  /\ frame' = [frame EXCEPT ![r] = Out]
  /\ req' = Broken(r)
  /\ clock' = [clock EXCEPT ![r] = 0]
  /\ UNCHANGED <<owner, cached, labels, preload, costs, provider, reranker>>

\* The answer leaves, the scope closes; what was measured goes with the response.
Respond(r) ==
  /\ At(r, "respond")
  /\ req' = [req EXCEPT ![r] = [New EXCEPT !.pc = "done"]]
  /\ costs' = [costs EXCEPT ![r] = NoCosts]
  /\ clock' = [clock EXCEPT ![r] = 0]
  /\ UNCHANGED <<owner, cached, labels, frame, preload, provider, reranker>>

Serve(r) ==
  \/ Loading(r) \/ Search(r) \/ Resolve(r) \/ Rerank(r) \/ Retrieved(r)
  \/ Generate(r) \/ Verify(r) \/ Score(r) \/ Scored(r) \/ LoadRaised(r) \/ Respond(r)

Preload(m) ==
  /\ Load(m) \/ Warm(m)
  /\ UNCHANGED <<provider, reranker, req>>

Next ==
  \/ \E r \in Requests : Serve(r) \/ \E route \in Routes[r] : Arrive(r, route)
  \/ \E m \in Preloads : Preload(m)

Spec == ServingInit /\ [][Next]_vars

\* A thread whose call has returned goes on; nobody has to ask anything.
FairSpec ==
  /\ Spec
  /\ \A r \in Requests : WF_vars(Serve(r))
  /\ \A m \in Preloads : WF_vars(Preload(m))
-----------------------------------------------------------------------------
TypeOK ==
  /\ LoadTypeOK
  /\ provider \in Deployments \cup {"open"}
  /\ reranker \in BOOLEAN
  /\ req \in [Requests ->
       [route : {"none", "answer", "fact", "stream"},
        pc : {"new", "embed", "resolve", "rerank", "retrieved", "generate", "verify",
              "score", "scored", "respond", "done"},
        before : [scope : BOOLEAN, model_load : Nat, rerank : Nat],
        latency : [Keys -> Nat], spent : [Keys -> Nat], attempts : 0 .. MaxAttempts - 1,
        last : Replies \cup {"nothing"}, futile : BOOLEAN,
        outcome : Outcomes \cup {NoOutcome, Verdict}]]

\* The breakdown of a finished buffered request names disjoint spans (query_service.py:77-84): each
\* key holds the time that went into just that, whichever stages touched a
\* cold model and whoever loaded it, so the keys add up to the wall time.
LatencyAddsUp ==
  \A r \in Requests :
    /\ At(r, "respond") /\ costs[r].scope
    /\ req[r].outcome.kind \in {"claims", "none", "verdict"}
    => req[r].latency = req[r].spent

\* The replies that are not claim sets and may pass for one: what a path does not look at.
\* Only OpenAI's buffered answer is validated, and only its refusals are told in a stream.
MayPass(p, route) ==
  CASE route = "answer" /\ p = "openai" -> {}
    [] route = "answer" /\ p = "gemini" -> {"garbled"}
    [] route = "stream" /\ p = "openai" -> {"cut", "garbled"}
    [] OTHER -> Declined

Honest(r) ==
  LET last    == req[r].last
      outcome == req[r].outcome
  IN /\ outcome.kind \in Complete =>
          last = outcome.kind \/ last \in MayPass(provider, req[r].route)
     /\ outcome.kind = "claims" => last \in {"claims", "garbled"}
     /\ outcome.kind = "unavailable" => last \notin Complete
     /\ outcome.hint => last = "rate"
     /\ ~req[r].futile

\* A failed generation is told from an honest answer wherever the code looks at it
\* (openai_client.py:229-233): an answer stands on the claim set its last attempt got, except on
\* the paths that do not validate (gemini.py:163, query_service.py:405-416); claims are never made
\* of a refused or truncated text; a spent quota is asked once; Retry-After is promised only where
\* waiting helps.
AnswersAreHonest == \A r \in Requests : At(r, "respond") => Honest(r)

\* "A claim set is the one thing in this system that must never reach verification malformed"
\* (prompts.py:71-73): what a buffered call hands to the verifier is what the provider claimed.
\* Not so for Gemini: its reply is parsed and never validated (gemini.py:163, provider.py:156).
OnlyClaimSetsVerified ==
  \A r \in Requests :
    At(r, "verify") /\ req[r].route = "answer" => req[r].last = req[r].outcome.kind

\* Every request ends, with a model that another thread is loading, with one nobody can load,
\* and whatever the provider does (warmup.py:104-108, loading.py:66-73).
RequestsEnd == \A r \in Requests : ~At(r, "new") ~> At(r, "done")
=============================================================================
