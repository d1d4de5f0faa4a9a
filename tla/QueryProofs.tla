----------------------------- MODULE QueryProofs -----------------------------
(***************************************************************************)
(* Theorems about QueryPipeline, for any requests, contexts, generations,  *)
(* thresholds and bounds.                                                  *)
(***************************************************************************)
EXTENDS QueryPipeline, TLAPS, FiniteSetTheorems, WellFoundedInduction

(* Every nonempty set of naturals has a least element.                     *)
LEMMA Least ==
  ASSUME NEW S \in SUBSET Nat, S # {}
  PROVE  \E x \in S : \A y \in S : x <= y
  <1>1. \E x \in S : \A y \in S : ~ (<<y, x>> \in OpToRel(<, Nat))
    BY NatLessThanWellFounded, WFMin
  <1>2. \A x, y \in Nat : ~ (<<y, x>> \in OpToRel(<, Nat)) => x <= y
    BY DEF OpToRel
  <1> QED BY <1>1, <1>2

(* The element max() returns exists for every nonempty list of keys, and is *)
(* the first of the largest.                                               *)
LEMMA FirstMaxIs ==
  ASSUME NEW key, NEW among \in SUBSET Nat, among # {},
         \A i \in among : key[i] \in -1 .. MaxScore
  PROVE  LET m == FirstMax(key, among)
         IN /\ m \in among
            /\ \A j \in among : key[j] <= key[m]
            /\ \A j \in among : key[j] = key[m] => m <= j
  <1> DEFINE gap(i) == MaxScore - key[i]
             gaps   == {gap(i) : i \in among}
  <1>1. \A i \in among : gap(i) \in Nat
    BY ScoreAssumption
  <1>2. PICK g \in gaps : \A h \in gaps : g <= h
    <2>1. gaps \in SUBSET Nat /\ gaps # {}
      BY <1>1
    <2> HIDE DEF gaps
    <2> QED BY <2>1, Least
  <1> DEFINE top == {i \in among : gap(i) = g}
  <1>3. PICK m \in top : \A j \in top : m <= j
    <2>1. top \in SUBSET Nat /\ top # {}
      BY <1>2
    <2> HIDE DEF top
    <2> QED BY <2>1, Least
  <1>4. \A j \in among : key[j] <= key[m]
    BY <1>1, <1>2, <1>3, ScoreAssumption
  <1>5. \A j \in among : key[j] = key[m] => m <= j
    BY <1>3
  <1>6. m \in among
    BY <1>3
  <1> HIDE DEF gap, gaps, top
  <1> QED BY <1>4, <1>5, <1>6 DEF FirstMax
-----------------------------------------------------------------------------
(* A nonempty set of scores has a largest element, and Max returns it.     *)
LEMMA MaxScoreIs ==
  ASSUME NEW S \in SUBSET Scores, S # {}
  PROVE  Max(S) \in S
  <1> DEFINE gaps == {MaxScore - x : x \in S}
  <1>1. gaps \in SUBSET Nat /\ gaps # {}
    BY ScoreAssumption DEF Scores
  <1>2. PICK g \in gaps : \A h \in gaps : g <= h
    <2> HIDE DEF gaps
    <2> QED BY <1>1, Least
  <1>3. PICK x \in S : g = MaxScore - x
    BY <1>2
  <1>4. \A y \in S : x >= y
    BY <1>2, <1>3, ScoreAssumption DEF Scores
  <1> QED BY <1>4 DEF Max

(* The retry on the windows of a long premise can turn an answer into an   *)
(* entailment and can do nothing else: it never removes one and never      *)
(* changes a neutral into a contradiction.                                 *)
THEOREM RetryOnlyEntails ==
  ASSUME NEW whole \in Answers, NEW long \in BOOLEAN, NEW windows \in SUBSET Answers
  PROVE  /\ Score(whole, long, windows) \in Answers
         /\ Score(whole, long, windows) # whole =>
              /\ ~Entails(whole) /\ long
              /\ Entails(Score(whole, long, windows))
              /\ \E w \in windows : w = Score(whole, long, windows)
  <1> DEFINE entailing == {w \in windows : Entails(w)}
             values    == {w.score : w \in entailing}
  <1>1. CASE Entails(whole) \/ ~long \/ entailing = {}
    BY <1>1 DEF Score
  <1>2. CASE ~(Entails(whole) \/ ~long \/ entailing = {})
    <2>1. values \in SUBSET Scores /\ values # {}
      BY <1>2 DEF Answers
    <2>2. Max(values) \in values
      BY <2>1, MaxScoreIs
    <2>3. PICK w \in entailing : w.score = Max(values)
      BY <2>2
    <2>4. w = [label |-> "entailment", score |-> Max(values)]
      BY <2>3 DEF Answers, Entails
    <2>5. Score(whole, long, windows) = w
      BY <1>2, <2>4 DEF Score
    <2> QED BY <1>2, <2>3, <2>5
  <1> QED BY <1>1, <1>2

LEMMA CitationTypes ==
  ASSUME NEW p \in Passages \cup {NoPassage}, NEW s \in CitationResults(p)
  PROVE  /\ s \in Scored /\ s.passage = p
         /\ s.label = "MISSING_CHUNK" <=> p = NoPassage
         /\ s.flagged => s.label = "entailment"
  <1>1. CASE p = NoPassage
    <2>1. s = [label |-> "MISSING_CHUNK", score |-> 0, flagged |-> FALSE, passage |-> p]
      BY <1>1 DEF CitationResults
    <2> QED BY <1>1, <2>1, ScoreAssumption DEF Scored, Scores
  <1>2. CASE p # NoPassage
    <2>1. ScoreResults \subseteq Answers
      BY RetryOnlyEntails DEF ScoreResults
    <2>2. PICK x \in ScoreResults : \E f \in IF Entails(x) THEN BOOLEAN ELSE {FALSE} :
             s = [label |-> x.label, score |-> x.score, flagged |-> f, passage |-> p]
      BY <1>2 DEF CitationResults
    <2>3. PICK f \in BOOLEAN :
             /\ s = [label |-> x.label, score |-> x.score, flagged |-> f, passage |-> p]
             /\ f => Entails(x)
      BY <2>2
    <2>4. x.label \in {"entailment", "neutral", "contradiction"} /\ x.score \in Scores
      BY <2>1 DEF Answers
    <2> QED BY <1>2, <2>3, <2>4 DEF Scored, Entails
  <1> QED BY <1>1, <1>2
-----------------------------------------------------------------------------
(* What the decision procedure reads off a list of scored citations.       *)
LEMMA RankType ==
  ASSUME NEW scored \in Seq(Scored)
  PROVE  /\ DOMAIN scored \in SUBSET Nat
         /\ \A i \in DOMAIN scored :
              /\ scored[i] \in Scored /\ scored[i].score \in 0 .. MaxScore
              /\ Ranks(scored)[i] = EntailmentRank(scored[i])
              /\ Values(scored)[i] = scored[i].score
              /\ Ranks(scored)[i] \in -1 .. MaxScore
              /\ Values(scored)[i] \in -1 .. MaxScore
              /\ EntailmentRank(scored[i]) < 0 <=>
                   scored[i].label # "entailment" \/ scored[i].flagged
              /\ EntailmentRank(scored[i]) >= 0 =>
                   EntailmentRank(scored[i]) = scored[i].score
  <1> SUFFICES ASSUME NEW i \in DOMAIN scored
               PROVE  /\ scored[i] \in Scored /\ scored[i].score \in 0 .. MaxScore
                      /\ EntailmentRank(scored[i]) \in -1 .. MaxScore
                      /\ EntailmentRank(scored[i]) < 0 <=>
                           scored[i].label # "entailment" \/ scored[i].flagged
                      /\ EntailmentRank(scored[i]) >= 0 =>
                           EntailmentRank(scored[i]) = scored[i].score
    BY ScoreAssumption DEF Ranks, Values
  <1>1. scored[i] \in Scored
    OBVIOUS
  <1>2. scored[i].score \in 0 .. MaxScore
    BY <1>1 DEF Scored, Scores
  <1>3. CASE scored[i].label # "entailment" \/ scored[i].flagged
    BY <1>1, <1>2, <1>3, ScoreAssumption DEF EntailmentRank
  <1>4. CASE ~(scored[i].label # "entailment" \/ scored[i].flagged)
    BY <1>1, <1>2, <1>4, ScoreAssumption DEF EntailmentRank
  <1> QED BY <1>1, <1>2, <1>3, <1>4

(* The four outcomes of Judge: each names the citations that decided it.   *)
LEMMA JudgeFollows ==
  ASSUME NEW scored \in Seq(Scored), scored # <<>>,
         \A i \in DOMAIN scored : scored[i].flagged => scored[i].label = "entailment"
  PROVE  /\ Judge(scored) \in Verdict
         /\ Judge(scored).status # "REFUSAL"
         /\ Follows("assertion", scored, Judge(scored))
  <1> DEFINE ranked   == FirstMax(Ranks(scored), DOMAIN scored)
             refuting == Refuting(scored)
             flagged  == {i \in DOMAIN scored : scored[i].flagged}
             worst    == FirstMax(Values(scored), refuting)
             rejected == FirstMax(Values(scored), flagged)
             best     == scored[ranked]
  <1>1. DOMAIN scored \in SUBSET Nat /\ DOMAIN scored # {}
    BY RankType
  <1>2. /\ ranked \in DOMAIN scored
        /\ \A i \in DOMAIN scored : EntailmentRank(scored[i]) <= EntailmentRank(best)
    <2>1. \A i \in DOMAIN scored : /\ Ranks(scored)[i] \in -1 .. MaxScore
                                  /\ Ranks(scored)[i] = EntailmentRank(scored[i])
      BY RankType
    <2>2. /\ ranked \in DOMAIN scored
          /\ \A i \in DOMAIN scored : Ranks(scored)[i] <= Ranks(scored)[ranked]
      BY <1>1, <2>1, FirstMaxIs
    <2> QED BY <2>1, <2>2
  <1>3. refuting # {} => Largest(scored, refuting, scored[worst].score)
    <2> SUFFICES ASSUME refuting # {} PROVE Largest(scored, refuting, scored[worst].score)
      OBVIOUS
    <2>1. refuting \in SUBSET Nat /\ refuting \subseteq DOMAIN scored
      BY <1>1 DEF Refuting
    <2>2. worst \in refuting /\ \A i \in refuting : Values(scored)[i] <= Values(scored)[worst]
      BY <2>1, RankType, FirstMaxIs
    <2> QED BY <2>1, <2>2, RankType DEF Largest
  <1>4. flagged # {} => Largest(scored, flagged, scored[rejected].score)
    <2> SUFFICES ASSUME flagged # {} PROVE Largest(scored, flagged, scored[rejected].score)
      OBVIOUS
    <2>1. flagged \in SUBSET Nat /\ flagged \subseteq DOMAIN scored
      BY <1>1
    <2>2. rejected \in flagged /\ \A i \in flagged : Values(scored)[i] <= Values(scored)[rejected]
      BY <2>1, RankType, FirstMaxIs
    <2> QED BY <2>1, <2>2, RankType DEF Largest
  <1>5. best \in Scored /\ best.score \in Scores
    BY <1>2, RankType DEF Scores
  <1>6. Supporting(scored) # {} <=> EntailmentRank(best) >= Threshold
    <2>1. ASSUME NEW i \in Supporting(scored) PROVE EntailmentRank(best) >= Threshold
      <3>1. i \in DOMAIN scored /\ EntailmentRank(scored[i]) >= Threshold
        BY ScoreAssumption, RankType DEF Supporting, EntailmentRank
      <3> QED BY <3>1, <1>2, RankType, ScoreAssumption
    <2>2. ASSUME EntailmentRank(best) >= Threshold PROVE ranked \in Supporting(scored)
      BY <1>2, <2>2, RankType, ScoreAssumption DEF Supporting, EntailmentRank
    <2> QED BY <2>1, <2>2
  <1> HIDE DEF ranked, refuting, flagged, worst, rejected, best
  <1>7. CASE EntailmentRank(best) >= Threshold
    <2>1. Judge(scored) = [status |-> "SUPPORTED", score |-> best.score, reason |-> "none"]
      BY <1>7 DEF Judge, best, ranked
    <2>2. Largest(scored, Supporting(scored), best.score)
      <3>1. ranked \in Supporting(scored)
        BY <1>2, <1>7, RankType, ScoreAssumption DEF Supporting, EntailmentRank, best
      <3>2. \A i \in Supporting(scored) : scored[i].score <= best.score
        BY <1>2, <1>7, RankType, ScoreAssumption DEF Supporting, EntailmentRank, best
      <3>3. best = scored[ranked]
        BY DEF best
      <3> QED BY <3>1, <3>2, <3>3 DEF Largest
    <2> QED BY <1>5, <1>6, <1>7, <2>1, <2>2 DEF Verdict, Statuses, Reasons, Follows
  <1>8. CASE ~(EntailmentRank(best) >= Threshold) /\ refuting # {}
    <2>1. Judge(scored) = [status |-> "CONTRADICTED", score |-> scored[worst].score,
                           reason |-> "contradicts"]
      BY <1>8 DEF Judge, Refuting, best, ranked, refuting, worst
    <2>2. worst \in refuting
      <3>1. refuting \in SUBSET Nat /\ refuting \subseteq DOMAIN scored
        BY <1>1 DEF Refuting, refuting
      <3> QED BY <1>8, <3>1, RankType, FirstMaxIs DEF worst
    <2>3. scored[worst].score \in Scores
      BY <2>2, RankType DEF Refuting, Scores, refuting
    <2>4. Judge(scored) \in Verdict
      BY <2>1, <2>3 DEF Verdict, Statuses, Reasons
    <2>5. Supporting(scored) = {} /\ Refuting(scored) # {}
      BY <1>6, <1>8 DEF refuting
    <2>6. Largest(scored, Refuting(scored), Judge(scored).score)
      BY <1>3, <1>8, <2>1 DEF refuting
    <2> QED BY <2>1, <2>4, <2>5, <2>6 DEF Follows
  <1>9. CASE /\ ~(EntailmentRank(best) >= Threshold) /\ refuting = {}
             /\ flagged # {} /\ EntailmentRank(best) < 0
    <2>1. Judge(scored) = [status |-> "UNSUPPORTED", score |-> scored[rejected].score,
                           reason |-> "rejected"]
      BY <1>9 DEF Judge, Refuting, best, ranked, refuting, flagged, rejected
    <2>2. rejected \in flagged
      <3>1. flagged \in SUBSET Nat /\ flagged \subseteq DOMAIN scored
        BY <1>1 DEF flagged
      <3> QED BY <1>9, <3>1, RankType, FirstMaxIs DEF rejected
    <2>3. scored[rejected].score \in Scores
      BY <2>2, RankType DEF Scores, flagged
    <2>4. Judge(scored) \in Verdict
      BY <2>1, <2>3 DEF Verdict, Statuses, Reasons
    <2>5. Supporting(scored) = {} /\ Refuting(scored) = {}
      BY <1>6, <1>9 DEF refuting
    <2>6. Largest(scored, {i \in DOMAIN scored : scored[i].flagged}, Judge(scored).score)
      BY <1>4, <1>9, <2>1 DEF flagged
    <2> QED BY <2>1, <2>4, <2>5, <2>6 DEF Follows
  <1>10. CASE /\ ~(EntailmentRank(best) >= Threshold) /\ refuting = {}
              /\ ~(flagged # {} /\ EntailmentRank(best) < 0)
    <2>1. PICK why \in {"not_found", "below_threshold", "none_entails"} :
            /\ Judge(scored) = [status |-> "UNSUPPORTED", score |-> best.score, reason |-> why]
            /\ why = "below_threshold" => Entails(best)
      BY <1>10 DEF Judge, Refuting, best, ranked, refuting, flagged
    <2>2. Entails(best) => ~best.flagged
      BY <1>2, <1>10, RankType DEF Entails, best, flagged
    <2>3. Judge(scored) \in Verdict
      BY <1>5, <2>1 DEF Verdict, Statuses, Reasons
    <2>4. Supporting(scored) = {} /\ Refuting(scored) = {}
      BY <1>6, <1>10 DEF refuting
    <2>5. Judge(scored).reason = "below_threshold" =>
            \E i \in DOMAIN scored : /\ Entails(scored[i]) /\ ~scored[i].flagged
                                     /\ scored[i].score = Judge(scored).score
      BY <1>2, <2>1, <2>2 DEF best
    <2> QED BY <2>1, <2>3, <2>4, <2>5 DEF Follows
  <1> QED BY <1>7, <1>8, <1>9, <1>10
(* What VerifyClaim decides of a claim follows from its scored citations.  *)
LEMMA VerifyFollows ==
  ASSUME NEW kind \in {"assertion", "refusal"}, NEW scored \in Seq(Scored),
         \A i \in DOMAIN scored : scored[i].flagged => scored[i].label = "entailment"
  PROVE  /\ VerifyClaim(kind, scored) \in Verdict
         /\ Follows(kind, scored, VerifyClaim(kind, scored))
  <1>1. CASE kind = "refusal"
    BY <1>1 DEF VerifyClaim, Verdict, Statuses, Reasons, Follows
  <1>2. CASE kind # "refusal" /\ scored = <<>>
    <2>1. Supporting(scored) = {} /\ Refuting(scored) = {}
      BY <1>2 DEF Supporting, Refuting
    <2> QED BY <1>2, <2>1 DEF VerifyClaim, Verdict, Statuses, Reasons, Follows
  <1>3. CASE kind # "refusal" /\ scored # <<>>
    <2>1. VerifyClaim(kind, scored) = Judge(scored) /\ kind = "assertion"
      BY <1>3 DEF VerifyClaim
    <2> QED BY <1>3, <2>1, JudgeFollows
  <1> QED BY <1>1, <1>2, <1>3
-----------------------------------------------------------------------------
Distinct(texts) == \A t, u \in texts : t.chunk = u.chunk => t = u

LEMMA SearchIs ==
  ASSUME NEW hits \in SearchResults
  PROVE  hits \in SUBSET Passages /\ Distinct(hits)
  BY DEF SearchResults, Distinct

(* The merge of two results holds one text per chunk.                      *)
LEMMA MergeIs ==
  ASSUME NEW s \in SUBSET Passages, NEW k \in SUBSET Passages, Distinct(s), Distinct(k)
  PROVE  Merge(s, k) \in SUBSET Passages /\ Distinct(Merge(s, k))
  BY DEF Merge, Distinct

(* A ranked context is a sequence of at most TopK of the candidates, none  *)
(* of them twice.                                                          *)
LEMMA RankedIs ==
  ASSUME NEW input, NEW candidates \in SUBSET Passages,
         NEW context \in Ranked(input, candidates)
  PROVE  /\ context \in Seq(Passages) /\ Len(context) <= TopK
         /\ \A i \in DOMAIN context : context[i] \in candidates
         /\ \A i, j \in DOMAIN context : context[i] = context[j] => i = j
  <1> DEFINE c == Cardinality(candidates)
             n == Min({TopK, c})
  <1>1. c \in Nat
    BY FS_Subset, FS_CardinalityType, QueryAssumption
  <1>2. n \in Nat /\ n <= TopK
    <2>1. \E x \in {TopK, c} : \A y \in {TopK, c} : x <= y
      BY <1>1, QueryAssumption
    <2>2. n \in {TopK, c} /\ \A y \in {TopK, c} : n <= y
      BY <2>1 DEF Min
    <2> QED BY <1>1, <2>2, QueryAssumption
  <1>3. context \in [1 .. n -> candidates] /\ IsInjective(context)
    BY DEF Ranked
  <1> HIDE DEF n
  <1>4. context \in Seq(Passages) /\ Len(context) = n
    BY <1>2, <1>3
  <1> QED BY <1>2, <1>3, <1>4 DEF IsInjective

(* Scoring the citations of a claim resolves each of them in the context.  *)
LEMMA ScoredIs ==
  ASSUME NEW claim \in Claim, NEW context \in Seq(Passages),
         NEW scored \in ScoredCitations(claim, context)
  PROVE  /\ scored \in Seq(Scored)
         /\ \A i \in DOMAIN scored :
              /\ scored[i].flagged => scored[i].label = "entailment"
              /\ scored[i].label = "MISSING_CHUNK" <=> scored[i].passage = NoPassage
              /\ i \in DOMAIN claim.citations
              /\ scored[i].passage = Resolve(context, claim.citations[i])
  <1>1. CASE claim.kind = "refusal"
    BY <1>1 DEF ScoredCitations
  <1>2. CASE claim.kind # "refusal"
    <2>1. claim.citations \in Seq(Tags)
      BY DEF Claim
    <2>2. /\ DOMAIN scored = DOMAIN claim.citations
          /\ scored = [i \in DOMAIN scored |-> scored[i]]
          /\ \A i \in DOMAIN scored :
               scored[i] \in CitationResults(Resolve(context, claim.citations[i]))
      BY <1>2 DEF ScoredCitations
    <2>3. \A i \in DOMAIN scored : Resolve(context, claim.citations[i]) \in Passages \cup {NoPassage}
      BY DEF Resolve
    <2>4. \A i \in DOMAIN scored :
            /\ scored[i] \in Scored
            /\ scored[i].passage = Resolve(context, claim.citations[i])
            /\ scored[i].flagged => scored[i].label = "entailment"
            /\ scored[i].label = "MISSING_CHUNK" <=> scored[i].passage = NoPassage
      BY <2>2, <2>3, CitationTypes
    <2>5. DOMAIN scored = 1 .. Len(claim.citations) /\ Len(claim.citations) \in Nat
      BY <2>1, <2>2
    <2>6. scored \in Seq(Scored)
      BY <2>2, <2>4, <2>5
    <2> QED BY <2>2, <2>4, <2>6
  <1> QED BY <1>1, <1>2
-----------------------------------------------------------------------------
(* What TypeOK says of one request.                                        *)
RequestOK(q) ==
  /\ q \in RequestState
  /\ q.pc \in {"semantic", "keyword"} => q.input \in Inputs
  /\ q.pc \in {"lookup", "call", "tokens"} => q.input \in Questions
  /\ Len(q.context) <= TopK

LEMMA RequestsOK ==
  ASSUME TypeOK
  PROVE  \A r \in Requests : RequestOK(req[r])
  BY DEF TypeOK, RequestOK

(* A step that gives one request a good state and changes nothing else.    *)
LEMMA BecomeOK ==
  ASSUME TypeOK, NEW r \in Requests, NEW new, RequestOK(new), Become(r, new),
         UNCHANGED <<model, cache>>
  PROVE  TypeOK'
  <1>1. req' = [req EXCEPT ![r] = new]
    BY DEF Become
  <1>2. \A o \in Requests : req'[o] = IF o = r THEN new ELSE req[o]
    BY <1>1 DEF TypeOK
  <1>3. \A o \in Requests : RequestOK(req'[o])
    BY <1>2, RequestsOK
  <1>4. req' \in [Requests -> RequestState]
    BY <1>1, <1>3 DEF TypeOK, RequestOK
  <1> QED BY <1>3, <1>4 DEF TypeOK, RequestOK

LEMMA IdleOK == RequestOK(Idle)
  <1>1. Idle \in RequestState
    BY QueryAssumption DEF Idle, RequestState, Contexts, NotShown, NoResponse, Steps, Attempts,
          Responses, AnyInput, TextSets, TextLists, ClaimLists, ScoredLists,
          VerdictLists, FrameLists
  <1> QED BY <1>1, QueryAssumption DEF Idle, RequestOK

LEMMA SendType ==
  ASSUME TypeOK, NEW r \in Requests, NEW frame \in Frames
  PROVE  Send(r, frame) \in FrameLists
  BY DEF TypeOK, RequestState, Send, FrameLists

LEMMA GenerationsType == \A claims \in Generations : claims \in ClaimLists
  BY QueryAssumption DEF Claim, Tags, ClaimLists

(* The ways a call of the provider leaves a request and the cache.         *)
LEMMA GenerateStep ==
  ASSUME NEW r \in Requests, Generate(r)
  PROVE  \E claims \in Generations \cup {Garbled} :
           /\ \/ Become(r, [req[r] EXCEPT !.pc = "closed"])
              \/ /\ claims \in Generations
                 /\ Become(r, [req[r] EXCEPT !.pc = "verify", !.claims = claims,
                                             !.shown = Shown(r)])
           /\ \/ UNCHANGED cache
              \/ cache' = [k \in DOMAIN cache \cup {CacheKey(req[r].input, req[r].context)} |->
                            IF k = CacheKey(req[r].input, req[r].context)
                            THEN Entry(claims, req[r].input, req[r].context) ELSE cache[k]]
  <1>1. PICK claims \in Generations \cup {Garbled} :
          /\ IF claims = Garbled
             THEN Become(r, [req[r] EXCEPT !.pc = "closed"])
             ELSE Become(r, [req[r] EXCEPT !.pc = "verify", !.claims = claims, !.shown = Shown(r)])
          /\ Store(CacheKey(req[r].input, req[r].context),
                   Entry(claims, req[r].input, req[r].context))
    BY DEF Generate
  <1> QED BY <1>1 DEF Store

LEMMA ShownType ==
  ASSUME TypeOK, NEW r \in Requests
  PROVE  Shown(r) \in Contexts
  BY DEF TypeOK, RequestState, Shown, Contexts, AnyInput, TextLists

LEMMA StatementClaimType ==
  ASSUME NEW context \in Seq(Passages), Len(context) <= TopK
  PROVE  <<StatementClaim(context)>> \in ClaimLists
  <1>1. [i \in DOMAIN context |-> i] \in Seq(Tags)
    <2>1. DOMAIN context = 1 .. Len(context) /\ Len(context) \in Nat
      OBVIOUS
    <2>2. \A i \in DOMAIN context : i \in Tags
      BY <2>1, QueryAssumption DEF Tags
    <2> QED BY <2>1, <2>2
  <1> QED BY <1>1 DEF StatementClaim, Claim, ClaimLists

LEMMA AssembleTypes ==
  ASSUME NEW verdicts \in Seq(Verdict), NEW verdict
  PROVE  /\ AssembleAnswer(verdicts) \in Responses
         /\ AssembleFactCheck(verdict) \in Responses
  BY DEF AssembleAnswer, AssembleFactCheck, With, Responses
-----------------------------------------------------------------------------
(* Each update the actions make keeps a request good.                      *)
LEMMA ToSemantic ==
  ASSUME NEW i \in Inputs, NEW b \in BOOLEAN
  PROVE  RequestOK([Idle EXCEPT !.pc = "semantic", !.input = i, !.stream = b])
  BY IdleOK DEF RequestOK, RequestState, Steps, AnyInput

LEMMA ToKeyword ==
  ASSUME NEW q, RequestOK(q), q.pc = "semantic",
         NEW t \in TextSets
  PROVE  RequestOK([q EXCEPT !.pc = "keyword", !.semantic = t])
  BY DEF RequestOK, RequestState, Steps

LEMMA ToStatement ==
  ASSUME NEW q, RequestOK(q),
         NEW t \in TextSets, NEW c \in TextLists, NEW l \in ClaimLists, Len(c) <= TopK
  PROVE  RequestOK([q EXCEPT !.pc = "verify", !.semantic = t, !.context = c, !.claims = l])
  BY DEF RequestOK, RequestState, Steps

LEMMA ToTokens ==
  ASSUME NEW q, RequestOK(q),
         NEW t \in TextSets, NEW c \in TextLists, NEW f \in FrameLists, Len(c) <= TopK,
         q.input \in Questions
  PROVE  RequestOK([q EXCEPT !.pc = "tokens", !.semantic = t, !.context = c, !.sent = f])
  BY DEF RequestOK, RequestState, Steps

LEMMA ToLookup ==
  ASSUME NEW q, RequestOK(q),
         NEW t \in TextSets, NEW c \in TextLists, Len(c) <= TopK, q.input \in Questions
  PROVE  RequestOK([q EXCEPT !.pc = "lookup", !.semantic = t, !.context = c])
  BY DEF RequestOK, RequestState, Steps

LEMMA ToVerify ==
  ASSUME NEW q, RequestOK(q),
         NEW l \in ClaimLists, NEW h \in Contexts
  PROVE  RequestOK([q EXCEPT !.pc = "verify", !.claims = l, !.shown = h])
  BY DEF RequestOK, RequestState, Steps

LEMMA ToCall ==
  ASSUME NEW q, RequestOK(q),
         q.input \in Questions
  PROVE  RequestOK([q EXCEPT !.pc = "call"])
  BY DEF RequestOK, RequestState, Steps

LEMMA ToClosed ==
  ASSUME NEW q, RequestOK(q)
  PROVE  RequestOK([q EXCEPT !.pc = "closed"])
  BY DEF RequestOK, RequestState, Steps

LEMMA ToAttempt ==
  ASSUME NEW q, RequestOK(q),
         NEW n \in Attempts
  PROVE  RequestOK([q EXCEPT !.attempt = n])
  BY DEF RequestOK, RequestState, Steps

LEMMA ToSent ==
  ASSUME NEW q, RequestOK(q),
         NEW f \in FrameLists
  PROVE  RequestOK([q EXCEPT !.sent = f])
  BY DEF RequestOK, RequestState, Steps

LEMMA ToTruncated ==
  ASSUME NEW q, RequestOK(q),
         NEW h \in Contexts
  PROVE  RequestOK([q EXCEPT !.pc = "verify", !.truncated = TRUE, !.shown = h])
  BY DEF RequestOK, RequestState, Steps

LEMMA ToScored ==
  ASSUME NEW q, RequestOK(q),
         NEW d \in ScoredLists, NEW v \in VerdictLists
  PROVE  RequestOK([q EXCEPT !.scored = d, !.verdicts = v])
  BY DEF RequestOK, RequestState, Steps

LEMMA ToResponse ==
  ASSUME NEW q, RequestOK(q),
         NEW p \in {"closed", "report", "verdict"}, NEW a \in Responses
  PROVE  RequestOK([q EXCEPT !.pc = p, !.response = a])
  BY DEF RequestOK, RequestState, Steps

LEMMA ToFrame ==
  ASSUME NEW q, RequestOK(q),
         NEW p \in {"verdict", "finish", "closed"}, NEW f \in FrameLists
  PROVE  RequestOK([q EXCEPT !.pc = p, !.sent = f])
  BY DEF RequestOK, RequestState, Steps
-----------------------------------------------------------------------------
(* Type correctness: one step per action.                                  *)
LEMMA TypeStep == TypeOK /\ [Next]_vars => TypeOK'
  <1> SUFFICES ASSUME TypeOK, [Next]_vars PROVE TypeOK'
    OBVIOUS
  <1>1. ASSUME NEW r \in Requests, Ask(r) PROVE TypeOK'
    <2>1. PICK i \in Inputs, s \in BOOLEAN :
            Become(r, [Idle EXCEPT !.pc = "semantic", !.input = i, !.stream = s])
      BY <1>1 DEF Ask
    <2>2. RequestOK([Idle EXCEPT !.pc = "semantic", !.input = i, !.stream = s])
      BY ToSemantic
    <2> QED BY <1>1, <2>1, <2>2, BecomeOK DEF Ask
  <1>2. ASSUME NEW r \in Requests, SearchSemantic(r) PROVE TypeOK'
    <2>1. PICK hits \in SearchResults :
            Become(r, [req[r] EXCEPT !.pc = "keyword", !.semantic = hits])
      BY <1>2 DEF SearchSemantic
    <2>2. RequestOK([req[r] EXCEPT !.pc = "keyword", !.semantic = hits])
      BY <1>2, RequestsOK, SearchIs, ToKeyword DEF TextSets, SearchSemantic
    <2> QED BY <1>2, <2>1, <2>2, BecomeOK DEF SearchSemantic
  <1>3. ASSUME NEW r \in Requests, SearchKeyword(r) PROVE TypeOK'
    <2>0. PICK hits \in SearchResults :
            \E context \in Ranked(req[r].input, Merge(req[r].semantic, hits)) :
              Become(r,
                IF req[r].input \in Statements
                  THEN [req[r] EXCEPT !.pc = "verify", !.semantic = {}, !.context = context,
                                      !.claims = <<StatementClaim(context)>>]
                ELSE IF req[r].stream
                  THEN [req[r] EXCEPT !.pc = "tokens", !.semantic = {}, !.context = context,
                                      !.sent = Send(r, "retrieval")]
                ELSE [req[r] EXCEPT !.pc = "lookup", !.semantic = {}, !.context = context])
      BY <1>3 DEF SearchKeyword
    <2>1. PICK context \in Ranked(req[r].input, Merge(req[r].semantic, hits)) :
            Become(r,
              IF req[r].input \in Statements
                THEN [req[r] EXCEPT !.pc = "verify", !.semantic = {}, !.context = context,
                                    !.claims = <<StatementClaim(context)>>]
              ELSE IF req[r].stream
                THEN [req[r] EXCEPT !.pc = "tokens", !.semantic = {}, !.context = context,
                                    !.sent = Send(r, "retrieval")]
              ELSE [req[r] EXCEPT !.pc = "lookup", !.semantic = {}, !.context = context])
      BY <2>0
    <2>2. Merge(req[r].semantic, hits) \in SUBSET Passages
      BY SearchIs DEF Merge, TypeOK, RequestState, TextSets
    <2>3. context \in Seq(Passages) /\ Len(context) <= TopK
      BY <2>2, RankedIs
    <2>4. <<StatementClaim(context)>> \in ClaimLists /\ Send(r, "retrieval") \in FrameLists
      BY <2>3, StatementClaimType, SendType DEF Frames
    <2>5. /\ context \in TextLists /\ {} \in TextSets
          /\ req[r].input \in Questions \/ req[r].input \in Statements
      BY <1>3, <2>3, RequestsOK DEF RequestOK, SearchKeyword, TextLists, TextSets, Inputs
    <2>6. RequestOK([req[r] EXCEPT !.pc = "verify", !.semantic = {}, !.context = context,
                                   !.claims = <<StatementClaim(context)>>])
      BY <2>3, <2>4, <2>5, RequestsOK, ToStatement
    <2>7. req[r].input \notin Statements =>
            RequestOK([req[r] EXCEPT !.pc = "tokens", !.semantic = {}, !.context = context,
                                     !.sent = Send(r, "retrieval")])
      BY <2>3, <2>4, <2>5, RequestsOK, ToTokens
    <2>8. req[r].input \notin Statements =>
            RequestOK([req[r] EXCEPT !.pc = "lookup", !.semantic = {}, !.context = context])
      BY <2>3, <2>5, RequestsOK, ToLookup
    <2> QED BY <1>3, <2>1, <2>6, <2>7, <2>8, BecomeOK DEF SearchKeyword
  <1>4. ASSUME NEW r \in Requests, Lookup(r) PROVE TypeOK'
    <2> DEFINE key == CacheKey(req[r].input, req[r].context)
    <2>1. CASE /\ key \in DOMAIN cache /\ cache[key].claims # Garbled
               /\ Become(r, [req[r] EXCEPT !.pc = "verify", !.claims = cache[key].claims,
                                           !.shown = cache[key].shown])
      <3>1. Become(r, [req[r] EXCEPT !.pc = "verify", !.claims = cache[key].claims,
                                     !.shown = cache[key].shown])
        BY <2>1
      <3>2. cache[key].claims \in ClaimLists /\ cache[key].shown \in Contexts
        <4> HIDE DEF key
        <4> QED BY <2>1, GenerationsType DEF TypeOK
      <3>3. RequestOK([req[r] EXCEPT !.pc = "verify", !.claims = cache[key].claims,
                                     !.shown = cache[key].shown])
        <4> HIDE DEF key
        <4> QED BY <3>2, RequestsOK, ToVerify
      <3> QED BY <1>4, <3>1, <3>3, BecomeOK DEF Lookup
    <2>2. CASE Become(r, [req[r] EXCEPT !.pc = "call"])
      <3>1. Become(r, [req[r] EXCEPT !.pc = "call"])
        BY <2>2
      <3>2. RequestOK([req[r] EXCEPT !.pc = "call"])
        BY <1>4, RequestsOK, ToCall DEF RequestOK, Lookup
      <3> QED BY <1>4, <3>1, <3>2, BecomeOK DEF Lookup
    <2>3. CASE Become(r, [req[r] EXCEPT !.pc = "closed"])
      <3>1. RequestOK([req[r] EXCEPT !.pc = "closed"])
        BY RequestsOK, ToClosed
      <3> QED BY <1>4, <2>3, <3>1, BecomeOK DEF Lookup
    <2> QED BY <1>4, <2>1, <2>2, <2>3 DEF Lookup
  <1>5. ASSUME NEW r \in Requests, Generate(r) PROVE TypeOK'
    <2>1. PICK claims \in Generations \cup {Garbled} :
            /\ \/ Become(r, [req[r] EXCEPT !.pc = "closed"])
               \/ /\ claims \in Generations
                  /\ Become(r, [req[r] EXCEPT !.pc = "verify", !.claims = claims,
                                              !.shown = Shown(r)])
            /\ \/ UNCHANGED cache
               \/ cache' = [k \in DOMAIN cache \cup {CacheKey(req[r].input, req[r].context)} |->
                             IF k = CacheKey(req[r].input, req[r].context)
                             THEN Entry(claims, req[r].input, req[r].context) ELSE cache[k]]
      BY <1>5, GenerateStep
    <2>2. /\ RequestOK([req[r] EXCEPT !.pc = "closed"])
          /\ claims \in Generations =>
               RequestOK([req[r] EXCEPT !.pc = "verify", !.claims = claims, !.shown = Shown(r)])
      BY RequestsOK, GenerationsType, ShownType, ToVerify, ToClosed
    <2>3. model' = model
      BY <1>5 DEF Generate
    <2>4. /\ req' \in [Requests -> RequestState]
          /\ \A o \in Requests : RequestOK(req'[o])
      <3>1. PICK new : RequestOK(new) /\ req' = [req EXCEPT ![r] = new]
        BY <2>1, <2>2 DEF Become
      <3> QED BY <3>1, RequestsOK DEF TypeOK, RequestOK
    <2> DEFINE key   == CacheKey(req[r].input, req[r].context)
               entry == Entry(claims, req[r].input, req[r].context)
    <2>5. key \in [question : Questions, ids : SUBSET Chunks, model : Models]
      <3>1. req[r].input \in Questions /\ req[r].context \in Seq(Passages)
  BY <1>5, RequestsOK DEF RequestOK, RequestState, Generate, TextLists
      <3>2. ChunkIds(req[r].context) \subseteq Chunks
        BY <3>1, QueryAssumption DEF ChunkIds
      <3> QED BY <3>1, <3>2 DEF CacheKey, TypeOK
    <2>6. entry \in [claims : Generations \cup {Garbled}, shown : Contexts]
      BY ShownType DEF Entry, Shown
    <2> HIDE DEF key, entry
    <2>7. /\ DOMAIN cache' \subseteq [question : Questions, ids : SUBSET Chunks, model : Models]
          /\ cache' \in [DOMAIN cache' -> [claims : Generations \cup {Garbled}, shown : Contexts]]
      <3>1. CASE UNCHANGED cache
        BY <3>1 DEF TypeOK
      <3>2. CASE cache' = [k \in DOMAIN cache \cup {key} |->
                            IF k = key THEN entry ELSE cache[k]]
        BY <3>2, <2>5, <2>6 DEF TypeOK
      <3> QED BY <2>1, <3>1, <3>2 DEF key, entry
    <2> QED BY <2>3, <2>4, <2>7 DEF TypeOK, RequestOK
  <1>6. ASSUME NEW r \in Requests, Retry(r) PROVE TypeOK'
    <2>1. req[r].attempt + 1 \in Attempts
      BY <1>6, QueryAssumption DEF TypeOK, RequestState, Retry, Attempts
    <2>2. RequestOK([req[r] EXCEPT !.attempt = req[r].attempt + 1])
      BY <2>1, RequestsOK, ToAttempt
    <2> QED BY <1>6, <2>2, BecomeOK DEF Retry
  <1>7. ASSUME NEW r \in Requests, Token(r) PROVE TypeOK'
    <2>1. RequestOK([req[r] EXCEPT !.sent = Send(r, "token")])
      BY RequestsOK, SendType, ToSent DEF Frames
    <2> QED BY <1>7, <2>1, BecomeOK DEF Token
  <1>8. ASSUME NEW r \in Requests, EndOfStream(r) PROVE TypeOK'
    <2>1. \A claims \in Generations :
            RequestOK([req[r] EXCEPT !.pc = "verify", !.claims = claims, !.shown = Shown(r)])
      BY RequestsOK, GenerationsType, ShownType, ToVerify
    <2>2. RequestOK([req[r] EXCEPT !.pc = "verify", !.truncated = TRUE, !.shown = Shown(r)])
      BY RequestsOK, ShownType, ToTruncated
    <2> QED BY <1>8, <2>1, <2>2, BecomeOK DEF EndOfStream
  <1>9. ASSUME NEW r \in Requests, Verify(r) PROVE TypeOK'
    <2> DEFINE claim == req[r].claims[Len(req[r].verdicts) + 1]
    <2>1. PICK scored \in ScoredCitations(claim, req[r].context) :
            Become(r, [req[r] EXCEPT !.scored = scored,
                         !.verdicts = Append(req[r].verdicts,
                                            VerifyClaim(claim.kind, scored))])
      BY <1>9 DEF Verify
    <2>2. claim \in Claim /\ req[r].context \in Seq(Passages)
      BY <1>9, RequestsOK DEF RequestOK, RequestState, Verify, TextLists, ClaimLists,
         VerdictLists
    <2>3. scored \in Seq(Scored) /\ VerifyClaim(claim.kind, scored) \in Verdict
      <3> HIDE DEF claim
      <3>1. claim.kind \in {"assertion", "refusal"}
        BY <2>2 DEF Claim
      <3> QED BY <2>2, <3>1, ScoredIs, VerifyFollows
    <2>4. RequestOK([req[r] EXCEPT !.scored = scored,
                       !.verdicts = Append(req[r].verdicts,
                                            VerifyClaim(claim.kind, scored))])
      <3> HIDE DEF claim
      <3>1. Append(req[r].verdicts, VerifyClaim(claim.kind, scored)) \in VerdictLists
        BY <2>3, RequestsOK DEF RequestOK, RequestState, VerdictLists
      <3>2. scored \in ScoredLists
        BY <2>3 DEF ScoredLists
      <3> QED BY <3>1, <3>2, RequestsOK, ToScored
    <2> QED BY <1>9, <2>1, <2>4, BecomeOK DEF Verify
  <1>10. ASSUME NEW r \in Requests, Assemble(r) PROVE TypeOK'
    <2> DEFINE fact == req[r].input \in Statements
               new == [req[r] EXCEPT
                 !.pc = IF ~req[r].stream THEN "closed" ELSE IF fact THEN "report" ELSE "verdict",
                 !.response = IF fact THEN AssembleFactCheck(req[r].verdicts[1])
                                      ELSE AssembleAnswer(req[r].verdicts)]
    <2>1. RequestOK(new)
      <3>1. /\ AssembleFactCheck(req[r].verdicts[1]) \in Responses
            /\ AssembleAnswer(req[r].verdicts) \in Responses
        BY RequestsOK, AssembleTypes DEF RequestOK, RequestState, VerdictLists
      <3> QED BY <3>1, RequestsOK, ToResponse
    <2>2. Become(r, new)
      BY <1>10 DEF Assemble
    <2> QED BY <1>10, <2>1, <2>2, BecomeOK DEF Assemble
  <1>11. ASSUME NEW r \in Requests, Report(r) PROVE TypeOK'
    <2>1. \A pc \in {"verdict", "finish", "closed"}, f \in Frames :
            RequestOK([req[r] EXCEPT !.pc = pc, !.sent = Send(r, f)])
      BY RequestsOK, SendType, ToFrame
    <2>2. PICK pc \in {"verdict", "finish", "closed"}, f \in Frames :
            Become(r, [req[r] EXCEPT !.pc = pc, !.sent = Send(r, f)])
      BY <1>11 DEF Report, Frames
    <2> QED BY <1>11, <2>1, <2>2, BecomeOK DEF Report
  <1>12. ASSUME NEW r \in Requests, Fail(r) PROVE TypeOK'
    <2>1. RequestOK([req[r] EXCEPT !.pc = "closed", !.sent = Send(r, "error")])
      BY RequestsOK, SendType, ToFrame DEF Frames
    <2> QED BY <1>12, <2>1, BecomeOK DEF Fail
  <1>13. ASSUME NEW r \in Requests, ClientLeaves(r) PROVE TypeOK'
    <2>1. RequestOK([req[r] EXCEPT !.pc = "closed"])
      BY RequestsOK, ToClosed
    <2> QED BY <1>13, <2>1, BecomeOK DEF ClientLeaves
  <1>14. ASSUME NEW r \in Requests, Forget(r) PROVE TypeOK'
    BY <1>14, IdleOK, BecomeOK DEF Forget
  <1>15. CASE Redeploy
    BY <1>15, IdleOK DEF Redeploy, TypeOK, RequestOK
  <1>16. CASE UNCHANGED vars
    BY <1>16 DEF vars, TypeOK
  <1> QED BY <1>1, <1>2, <1>3, <1>4, <1>5, <1>6, <1>7, <1>8, <1>9, <1>10, <1>11,
            <1>12, <1>13, <1>14, <1>15, <1>16 DEF Next

(* The requests, the cache and every verdict keep their types, whatever    *)
(* the searches, the models and the clients do.                            *)
THEOREM TypeCorrect == Spec => []TypeOK
  <1>1. Init => TypeOK
    BY IdleOK DEF Init, TypeOK, RequestOK
  <1> QED BY <1>1, TypeStep, PTL DEF Spec
-----------------------------------------------------------------------------
(* The inductive invariant.  A context has one text per chunk because both *)
(* results it is merged from do.                                           *)
TextsInv(q) ==
  /\ Distinct(q.semantic)
  /\ \A i, j \in DOMAIN q.context : q.context[i].chunk = q.context[j].chunk => i = j

Early == {"idle", "semantic", "keyword", "lookup", "call", "tokens"}

(* Nothing is generated, verified or answered out of turn.                 *)
EarlyInv(q) ==
  /\ q.pc \in Early => /\ q.claims = <<>> /\ q.verdicts = <<>> /\ q.scored = <<>>
                       /\ q.shown = NotShown /\ q.truncated = FALSE
                       /\ q.response = NoResponse
  /\ q.pc = "verify" => q.response = NoResponse
  /\ q.pc \in {"lookup", "call"} => q.stream = FALSE

(* The scores at hand are those of texts of this context.                  *)
ScoresInv(q) ==
  \A i \in DOMAIN q.scored :
    \/ q.scored[i].label = "MISSING_CHUNK"
    \/ q.scored[i].passage \in Range(q.context)

(* The last verdict follows from them, and only refusals are refused.      *)
VerdictInv(q) ==
  /\ Len(q.verdicts) <= Len(q.claims)
  /\ Len(q.verdicts) > 0 =>
       Follows(q.claims[Len(q.verdicts)].kind, q.scored, q.verdicts[Len(q.verdicts)])
  /\ \A i \in DOMAIN q.verdicts :
       q.verdicts[i].status = "REFUSAL" <=> q.claims[i].kind = "refusal"

(* A statement is one assertion; a stream cut short left no claims.        *)
ClaimsInv(q) ==
  /\ q.input \in Statements /\ (q.pc = "verify" \/ q.response # NoResponse) =>
       q.claims = <<StatementClaim(q.context)>>
  /\ q.truncated = TRUE => q.claims = <<>> /\ q.input \in Questions

(* A response is assembled from the verdicts of all the claims.            *)
ResponseInv(q) ==
  q.response # NoResponse =>
    /\ Len(q.verdicts) = Len(q.claims)
    /\ q.response = IF q.input \in Statements THEN AssembleFactCheck(q.verdicts[1])
                                              ELSE AssembleAnswer(q.verdicts)

(* What the claims were generated from is what this request asks.          *)
ShownInv(q, m) ==
  q.shown # NotShown =>
    /\ q.shown.input = q.input
    /\ q.shown.model = m
    /\ ChunkIds(q.shown.context) = ChunkIds(q.context)
    /\ q.stream => q.shown.context = q.context

RequestInv(q, m) ==
  /\ TextsInv(q) /\ EarlyInv(q) /\ ScoresInv(q) /\ VerdictInv(q)
  /\ ClaimsInv(q) /\ ResponseInv(q) /\ ShownInv(q, m)

(* An entry was generated from what its key says.                          *)
CacheInv ==
  \A k \in DOMAIN cache : /\ cache[k].shown.input = k.question
                          /\ cache[k].shown.model = k.model
                          /\ ChunkIds(cache[k].shown.context) = k.ids

RequestsInv == \A r \in Requests : RequestInv(req[r], model)

IInv == TypeOK /\ RequestsInv /\ CacheInv
-----------------------------------------------------------------------------
(* A step that touches neither claims nor verdicts keeps the invariant.    *)
LEMMA Unmoved ==
  ASSUME NEW q, NEW m, RequestInv(q, m), NEW new,
         new.input = q.input, new.stream = q.stream, new.context = q.context,
         new.claims = q.claims, new.shown = q.shown, new.truncated = q.truncated,
         new.scored = q.scored, new.verdicts = q.verdicts, new.response = q.response,
         Distinct(new.semantic),
         new.pc \in Early => q.pc \in Early, new.pc = "verify" => q.pc = "verify",
         new.pc \in {"lookup", "call"} => q.pc \in {"lookup", "call"}
  PROVE  RequestInv(new, m)
  <1>1. TextsInv(new)
    BY DEF RequestInv, TextsInv
  <1>2. EarlyInv(new)
    BY DEF RequestInv, EarlyInv
  <1>3. ScoresInv(new)
    BY DEF RequestInv, ScoresInv
  <1>4. VerdictInv(new)
    BY DEF RequestInv, VerdictInv
  <1>5. ClaimsInv(new)
    BY DEF RequestInv, ClaimsInv
  <1>6. ResponseInv(new)
    BY DEF RequestInv, ResponseInv
  <1>7. ShownInv(new, m)
    BY DEF RequestInv, ShownInv
  <1> QED BY <1>1, <1>2, <1>3, <1>4, <1>5, <1>6, <1>7 DEF RequestInv

(* So does one that moves on, tries again or sends a frame.                *)
LEMMA MovesOn ==
  ASSUME NEW q, NEW m, RequestInv(q, m), RequestOK(q), NEW p, NEW f, NEW n,
         p \in Early => q.pc \in Early, p = "verify" => q.pc = "verify",
         p \in {"lookup", "call"} => q.pc \in {"lookup", "call"}
  PROVE  /\ RequestInv([q EXCEPT !.pc = p], m)
         /\ RequestInv([q EXCEPT !.pc = p, !.sent = f], m)
         /\ RequestInv([q EXCEPT !.sent = f], m)
         /\ RequestInv([q EXCEPT !.attempt = n], m)
  <1>1. ASSUME NEW new,
               new.input = q.input /\ new.stream = q.stream /\ new.context = q.context,
               new.claims = q.claims /\ new.shown = q.shown /\ new.truncated = q.truncated,
               new.scored = q.scored /\ new.verdicts = q.verdicts,
               new.response = q.response /\ new.semantic = q.semantic,
               new.pc \in {p, q.pc}
        PROVE  RequestInv(new, m)
    <2>1. Distinct(new.semantic)
      BY <1>1 DEF RequestInv, TextsInv
    <2> QED BY <1>1, <2>1, Unmoved
  <1>2. RequestInv([q EXCEPT !.pc = p], m)
    BY <1>1 DEF RequestOK, RequestState
  <1>3. RequestInv([q EXCEPT !.pc = p, !.sent = f], m)
    BY <1>1 DEF RequestOK, RequestState
  <1>4. RequestInv([q EXCEPT !.sent = f], m)
    BY <1>1 DEF RequestOK, RequestState
  <1>5. RequestInv([q EXCEPT !.attempt = n], m)
    BY <1>1 DEF RequestOK, RequestState
  <1> QED BY <1>2, <1>3, <1>4, <1>5

(* One that stays where it is and only tries again or sends a frame.       *)
LEMMA StaysPut ==
  ASSUME NEW q, NEW m, RequestInv(q, m), RequestOK(q), NEW f, NEW n
  PROVE  /\ RequestInv([q EXCEPT !.sent = f], m)
         /\ RequestInv([q EXCEPT !.attempt = n], m)
  <1> DEFINE p == q.pc
  <1>1. /\ p \in Early => q.pc \in Early
        /\ p = "verify" => q.pc = "verify"
        /\ p \in {"lookup", "call"} => q.pc \in {"lookup", "call"}
    OBVIOUS
  <1> HIDE DEF p
  <1> QED BY <1>1, MovesOn

(* A request of which nothing is verified yet, about to be or not.         *)
LEMMA Unverified ==
  ASSUME NEW q, NEW m, TextsInv(q), q.verdicts = <<>>, q.scored = <<>>,
         q.response = NoResponse, q.claims \in ClaimLists,
         q.pc \in Early => /\ q.claims = <<>> /\ q.shown = NotShown /\ q.truncated = FALSE,
         q.pc = "verify" /\ q.input \in Statements => q.claims = <<StatementClaim(q.context)>>,
         q.truncated = TRUE => q.claims = <<>> /\ q.input \in Questions,
         q.pc \in {"lookup", "call"} => q.stream = FALSE, ShownInv(q, m)
  PROVE  RequestInv(q, m)
  <1>1. EarlyInv(q)
    BY DEF EarlyInv
  <1>2. ScoresInv(q)
    BY DEF ScoresInv
  <1>3. VerdictInv(q)
    <2>1. Len(q.claims) \in Nat /\ Len(q.verdicts) = 0 /\ DOMAIN q.verdicts = {}
      BY DEF ClaimLists
    <2> QED BY <2>1 DEF VerdictInv
  <1>4. ClaimsInv(q) /\ ResponseInv(q)
    BY DEF ClaimsInv, ResponseInv
  <1> QED BY <1>1, <1>2, <1>3, <1>4 DEF RequestInv

LEMMA IdleInv == ASSUME NEW m PROVE RequestInv(Idle, m)
  <1>1. TextsInv(Idle) /\ ShownInv(Idle, m) /\ Idle.claims \in ClaimLists
    BY DEF Idle, TextsInv, Distinct, ShownInv, ClaimLists
  <1> QED BY <1>1, Unverified DEF Idle, Early

(* A step that gives one request a good state and leaves the cache.        *)
LEMMA BecomeInv ==
  ASSUME IInv, TypeOK', NEW r \in Requests, NEW new, Become(r, new),
         RequestInv(new, model), UNCHANGED <<model, cache>>
  PROVE  IInv'
  <1>1. req' = [req EXCEPT ![r] = new]
    BY DEF Become
  <1>2. \A o \in Requests : req'[o] = IF o = r THEN new ELSE req[o]
    BY <1>1 DEF IInv, TypeOK
  <1>3. RequestsInv'
    BY <1>2 DEF IInv, RequestsInv
  <1> QED BY <1>3 DEF IInv, CacheInv
-----------------------------------------------------------------------------
(* The steps that make claims.                                             *)
LEMMA KeywordInv ==
  ASSUME IInv, TypeOK', NEW r \in Requests, SearchKeyword(r)
  PROVE  IInv'
  <1> DEFINE q == req[r]
             new(context) ==
               IF q.input \in Statements
                 THEN [q EXCEPT !.pc = "verify", !.semantic = {}, !.context = context,
                                !.claims = <<StatementClaim(context)>>]
               ELSE IF q.stream
                 THEN [q EXCEPT !.pc = "tokens", !.semantic = {}, !.context = context,
                                !.sent = Send(r, "retrieval")]
               ELSE [q EXCEPT !.pc = "lookup", !.semantic = {}, !.context = context]
  <1>1. PICK hits \in SearchResults : \E context \in Ranked(q.input, Merge(q.semantic, hits)) :
          Become(r, new(context))
    BY DEF SearchKeyword
  <1>2. PICK context \in Ranked(q.input, Merge(q.semantic, hits)) : Become(r, new(context))
    BY <1>1
  <1>3. /\ RequestOK(q) /\ RequestInv(q, model) /\ q.pc \in Early
        /\ q.pc = "keyword" /\ UNCHANGED <<model, cache>>
    BY RequestsOK DEF IInv, RequestsInv, SearchKeyword, Early
  <1> HIDE DEF q
  <1>4. /\ q.claims = <<>> /\ q.verdicts = <<>> /\ q.scored = <<>> /\ q.shown = NotShown
        /\ q.truncated = FALSE /\ q.response = NoResponse
    BY <1>3 DEF RequestInv, EarlyInv
  <1>5. \A i, j \in DOMAIN context : context[i].chunk = context[j].chunk => i = j
    <2>1. q.semantic \in SUBSET Passages /\ Distinct(q.semantic)
      BY <1>3 DEF RequestOK, RequestState, TextSets, RequestInv, TextsInv
    <2>2. Merge(q.semantic, hits) \in SUBSET Passages /\ Distinct(Merge(q.semantic, hits))
      BY <2>1, SearchIs, MergeIs
    <2>3. /\ \A i \in DOMAIN context : context[i] \in Merge(q.semantic, hits)
          /\ \A i, j \in DOMAIN context : context[i] = context[j] => i = j
      BY <2>2, RankedIs
    <2> QED BY <2>2, <2>3 DEF Distinct
  <1>6. /\ new(context).context = context /\ new(context).semantic = {}
        /\ new(context).input = q.input /\ new(context).stream = q.stream
        /\ new(context).verdicts = <<>> /\ new(context).scored = <<>>
        /\ new(context).response = NoResponse /\ new(context).shown = NotShown
        /\ new(context).truncated = FALSE
        /\ new(context).claims = IF q.input \in Statements THEN <<StatementClaim(context)>>
                                                           ELSE <<>>
        /\ new(context).pc = IF q.input \in Statements THEN "verify"
                             ELSE IF q.stream THEN "tokens" ELSE "lookup"
    BY <1>3, <1>4 DEF RequestOK, RequestState
  <1>7. new(context).claims \in ClaimLists
    <2>1. RequestOK(q) /\ context \in Seq(Passages) /\ Len(context) <= TopK
      <3>1. Merge(q.semantic, hits) \in SUBSET Passages
        BY <1>3, SearchIs DEF Merge, RequestOK, RequestState, TextSets
      <3> QED BY <1>3, <3>1, RankedIs
    <2>2. <<StatementClaim(context)>> \in ClaimLists
      BY <2>1, StatementClaimType
    <2>3. <<>> \in ClaimLists
      BY DEF ClaimLists
    <2> QED BY <1>6, <2>2, <2>3
  <1> HIDE DEF new
  <1>8. RequestInv(new(context), model)
    <2>1. TextsInv(new(context))
      BY <1>5, <1>6 DEF TextsInv, Distinct
    <2>2. ShownInv(new(context), model)
      BY <1>6 DEF ShownInv
    <2>3. /\ new(context).pc \notin Early \/ new(context).claims = <<>>
          /\ new(context).pc \in {"lookup", "call"} => new(context).stream = FALSE
          /\ new(context).pc = "verify" /\ new(context).input \in Statements =>
               new(context).claims = <<StatementClaim(new(context).context)>>
      <3>1. q.stream \in BOOLEAN
        BY <1>3 DEF RequestOK, RequestState
      <3> QED BY <1>6, <3>1 DEF Early
    <2> QED BY <1>6, <1>7, <2>1, <2>2, <2>3, Unverified
  <1> QED BY <1>2, <1>3, <1>8, BecomeInv

(* Claims for a question, from wherever they come, with what they were     *)
(* generated from.                                                         *)
LEMMA ClaimsArrive ==
  ASSUME NEW q, NEW m, RequestOK(q), RequestInv(q, m), q.pc \in {"lookup", "call", "tokens"},
         NEW claims \in ClaimLists, NEW shown,
         shown.input = q.input, shown.model = m,
         ChunkIds(shown.context) = ChunkIds(q.context),
         q.stream => shown.context = q.context
  PROVE  /\ RequestInv([q EXCEPT !.pc = "verify", !.claims = claims, !.shown = shown], m)
         /\ RequestInv([q EXCEPT !.pc = "verify", !.truncated = TRUE, !.shown = shown], m)
  <1>1. /\ q.claims = <<>> /\ q.verdicts = <<>> /\ q.scored = <<>> /\ q.shown = NotShown
        /\ q.truncated = FALSE /\ q.response = NoResponse
        /\ q.input \in Questions /\ q.input \notin Statements /\ TextsInv(q)
    BY QueryAssumption DEF RequestOK, RequestInv, EarlyInv, Early
  <1>2. ASSUME NEW new,
               /\ new.pc = "verify" /\ new.shown = shown /\ new.input = q.input
               /\ new.context = q.context /\ new.semantic = q.semantic /\ new.stream = q.stream
               /\ new.verdicts = <<>> /\ new.scored = <<>> /\ new.response = NoResponse,
               new.truncated = TRUE => new.claims = <<>>,
               new.claims \in ClaimLists
        PROVE  RequestInv(new, m)
    <2>1. TextsInv(new) /\ ShownInv(new, m)
      BY <1>1, <1>2 DEF TextsInv, ShownInv
    <2> QED BY <1>1, <1>2, <2>1, Unverified DEF Early
  <1>3. RequestInv([q EXCEPT !.pc = "verify", !.claims = claims, !.shown = shown], m)
    BY <1>1, <1>2 DEF RequestOK, RequestState
  <1>4. RequestInv([q EXCEPT !.pc = "verify", !.truncated = TRUE, !.shown = shown], m)
    BY <1>1, <1>2 DEF RequestOK, RequestState
  <1> QED BY <1>3, <1>4

LEMMA LookupInv ==
  ASSUME IInv, TypeOK', NEW r \in Requests, Lookup(r)
  PROVE  IInv'
  <1> DEFINE q   == req[r]
             key == CacheKey(q.input, q.context)
  <1>1. RequestOK(q) /\ RequestInv(q, model) /\ q.pc = "lookup" /\ UNCHANGED <<model, cache>>
    BY RequestsOK DEF IInv, RequestsInv, Lookup
  <1>2. CASE /\ key \in DOMAIN cache /\ cache[key].claims # Garbled
             /\ Become(r, [q EXCEPT !.pc = "verify", !.claims = cache[key].claims,
                                    !.shown = cache[key].shown])
    <2>1. cache[key].claims \in ClaimLists
      <3> HIDE DEF key
      <3> QED BY <1>2, GenerationsType DEF IInv, TypeOK
    <2>2. /\ cache[key].shown.input = q.input /\ cache[key].shown.model = model
          /\ ChunkIds(cache[key].shown.context) = ChunkIds(q.context)
      <3>1. key.question = q.input /\ key.model = model /\ key.ids = ChunkIds(q.context)
        BY DEF CacheKey
      <3> HIDE DEF key
      <3> QED BY <1>2, <3>1 DEF IInv, CacheInv
    <2>3. q.stream = FALSE
      BY <1>1 DEF RequestInv, EarlyInv
    <2> QED BY <1>1, <1>2, <2>1, <2>2, <2>3, ClaimsArrive, BecomeInv
  <1>3. CASE Become(r, [q EXCEPT !.pc = "call"])
    <2>1. RequestInv([q EXCEPT !.pc = "call"], model)
      BY <1>1, MovesOn DEF Early
    <2> QED BY <1>1, <1>3, <2>1, BecomeInv
  <1>4. CASE Become(r, [q EXCEPT !.pc = "closed"])
    <2>1. RequestInv([q EXCEPT !.pc = "closed"], model)
      BY <1>1, MovesOn DEF Early
    <2> QED BY <1>1, <1>4, <2>1, BecomeInv
  <1> QED BY <1>2, <1>3, <1>4 DEF Lookup

LEMMA GenerateInv ==
  ASSUME IInv, TypeOK', NEW r \in Requests, Generate(r)
  PROVE  IInv'
  <1> DEFINE q     == req[r]
             key   == CacheKey(q.input, q.context)
  <1>1. RequestOK(q) /\ RequestInv(q, model) /\ q.pc = "call" /\ UNCHANGED model
    BY RequestsOK DEF IInv, RequestsInv, Generate
  <1>2. PICK claims \in Generations \cup {Garbled} :
          /\ \/ Become(r, [q EXCEPT !.pc = "closed"])
             \/ /\ claims \in Generations
                /\ Become(r, [q EXCEPT !.pc = "verify", !.claims = claims, !.shown = Shown(r)])
          /\ \/ UNCHANGED cache
             \/ cache' = [k \in DOMAIN cache \cup {key} |->
                            IF k = key THEN Entry(claims, q.input, q.context) ELSE cache[k]]
    BY GenerateStep
  <1>3. Shown(r).input = q.input /\ Shown(r).model = model /\ Shown(r).context = q.context
    BY DEF Shown
  <1>4. PICK new : RequestInv(new, model) /\ Become(r, new)
    <2>1. RequestInv([q EXCEPT !.pc = "closed"], model)
      BY <1>1, MovesOn DEF Early
    <2>2. claims \in Generations =>
            RequestInv([q EXCEPT !.pc = "verify", !.claims = claims, !.shown = Shown(r)], model)
      BY <1>1, <1>3, GenerationsType, ClaimsArrive
    <2> HIDE DEF q
    <2> QED BY <1>2, <2>1, <2>2
  <1>5. RequestsInv'
    <2>1. \A o \in Requests : req'[o] = IF o = r THEN new ELSE req[o]
      BY <1>4 DEF Become, IInv, TypeOK
    <2> QED BY <1>1, <1>4, <2>1 DEF IInv, RequestsInv
  <1>6. CacheInv'
    <2>1. LET e == Entry(claims, q.input, q.context)
          IN /\ e.shown.input = key.question /\ e.shown.model = key.model
             /\ ChunkIds(e.shown.context) = key.ids
      BY DEF Entry, CacheKey
    <2> HIDE DEF key, q
    <2>2. CASE UNCHANGED cache
      BY <2>2 DEF IInv, CacheInv
    <2>3. CASE cache' = [k \in DOMAIN cache \cup {key} |->
                           IF k = key THEN Entry(claims, q.input, q.context) ELSE cache[k]]
      BY <2>1, <2>3 DEF IInv, CacheInv
    <2> QED BY <1>2, <2>2, <2>3
  <1> QED BY <1>5, <1>6 DEF IInv

LEMMA EndOfStreamInv ==
  ASSUME IInv, TypeOK', NEW r \in Requests, EndOfStream(r)
  PROVE  IInv'
  <1> DEFINE q == req[r]
  <1>1. /\ RequestOK(q) /\ RequestInv(q, model) /\ q.pc = "tokens"
        /\ UNCHANGED <<model, cache>>
    BY RequestsOK DEF IInv, RequestsInv, EndOfStream
  <1>2. Shown(r).input = q.input /\ Shown(r).model = model /\ Shown(r).context = q.context
    BY DEF Shown
  <1>3. \A claims \in Generations :
          RequestInv([q EXCEPT !.pc = "verify", !.claims = claims, !.shown = Shown(r)], model)
    BY <1>1, <1>2, GenerationsType, ClaimsArrive
  <1>4. <<>> \in ClaimLists
    BY DEF ClaimLists
  <1>5. RequestInv([q EXCEPT !.pc = "verify", !.truncated = TRUE, !.shown = Shown(r)], model)
    BY <1>1, <1>2, <1>4, ClaimsArrive
  <1> QED BY <1>1, <1>3, <1>5, BecomeInv DEF EndOfStream
-----------------------------------------------------------------------------
(* A verdict follows from the scores it was decided on.                    *)
LEMMA VerifyInv ==
  ASSUME IInv, TypeOK', NEW r \in Requests, Verify(r)
  PROVE  IInv'
  <1> DEFINE q       == req[r]
             n       == Len(q.verdicts)
             claim   == q.claims[n + 1]
             decided(scored) == Append(q.verdicts, VerifyClaim(claim.kind, scored))
             new(scored) == [q EXCEPT !.scored = scored, !.verdicts = decided(scored)]
  <1>1. /\ RequestOK(q) /\ RequestInv(q, model) /\ q.pc = "verify" /\ n < Len(q.claims)
        /\ UNCHANGED <<model, cache>>
    BY RequestsOK DEF IInv, RequestsInv, Verify
  <1>2. PICK scored \in ScoredCitations(claim, q.context) : Become(r, new(scored))
    BY DEF Verify
  <1> HIDE DEF q
  <1>3. /\ q.claims \in Seq(Claim) /\ q.context \in Seq(Passages) /\ q.verdicts \in Seq(Verdict)
        /\ n \in Nat /\ Len(q.claims) \in Nat
    BY <1>1 DEF RequestOK, RequestState, ClaimLists, TextLists, VerdictLists
  <1>4. claim \in Claim /\ claim.kind \in {"assertion", "refusal"}
    <2>1. n + 1 \in DOMAIN q.claims
      BY <1>1, <1>3
    <2>2. claim \in Claim
      BY <1>3, <2>1
    <2> QED BY <2>2 DEF Claim
  <1> HIDE DEF claim
  <1>5. /\ scored \in Seq(Scored)
        /\ \A i \in DOMAIN scored :
             /\ scored[i].flagged => scored[i].label = "entailment"
             /\ scored[i].label = "MISSING_CHUNK" <=> scored[i].passage = NoPassage
             /\ scored[i].passage = Resolve(q.context, claim.citations[i])
    BY <1>3, <1>4, ScoredIs
  <1>6. /\ VerifyClaim(claim.kind, scored) \in Verdict
        /\ Follows(claim.kind, scored, VerifyClaim(claim.kind, scored))
    BY <1>4, <1>5, VerifyFollows
  <1>7. /\ Len(decided(scored)) = n + 1 /\ DOMAIN decided(scored) = 1 .. n + 1
        /\ decided(scored)[n + 1] = VerifyClaim(claim.kind, scored)
        /\ \A i \in 1 .. n : decided(scored)[i] = q.verdicts[i]
    BY <1>3, <1>6
  <1> HIDE DEF decided
  <1>8. /\ new(scored).scored = scored /\ new(scored).verdicts = decided(scored)
        /\ new(scored).pc = q.pc /\ new(scored).input = q.input
        /\ new(scored).stream = q.stream /\ new(scored).semantic = q.semantic
        /\ new(scored).context = q.context /\ new(scored).claims = q.claims
        /\ new(scored).shown = q.shown /\ new(scored).truncated = q.truncated
        /\ new(scored).response = q.response
    BY <1>1 DEF RequestOK, RequestState
  <1> HIDE DEF new
  <1>9. RequestInv(new(scored), model)
    <2>1. TextsInv(new(scored)) /\ ShownInv(new(scored), model) /\ ClaimsInv(new(scored))
      BY <1>1, <1>8 DEF RequestInv, TextsInv, ShownInv, ClaimsInv
    <2>2. EarlyInv(new(scored)) /\ ResponseInv(new(scored))
      BY <1>1, <1>8 DEF RequestInv, EarlyInv, ResponseInv, Early
    <2>3. ScoresInv(new(scored))
      <3> SUFFICES ASSUME NEW i \in DOMAIN scored, scored[i].label # "MISSING_CHUNK"
                   PROVE  scored[i].passage \in Range(q.context)
        BY <1>8 DEF ScoresInv
      <3> QED BY <1>5 DEF Resolve, Range
    <2>4. VerdictInv(new(scored))
      <3>1. n + 1 <= Len(q.claims)
        BY <1>1, <1>3
      <3>2. Follows(q.claims[n + 1].kind, scored, decided(scored)[n + 1])
        BY <1>6, <1>7 DEF claim
      <3>3. \A i \in 1 .. n + 1 :
              decided(scored)[i].status = "REFUSAL" <=> q.claims[i].kind = "refusal"
        <4>1. \A i \in 1 .. n :
                q.verdicts[i].status = "REFUSAL" <=> q.claims[i].kind = "refusal"
          BY <1>1, <1>3 DEF RequestInv, VerdictInv
        <4>2. decided(scored)[n + 1].status = "REFUSAL" <=> q.claims[n + 1].kind = "refusal"
          BY <3>2 DEF Follows
        <4> QED BY <1>3, <1>7, <4>1, <4>2
      <3> QED BY <1>7, <1>8, <3>1, <3>2, <3>3 DEF VerdictInv
    <2> QED BY <2>1, <2>2, <2>3, <2>4 DEF RequestInv
  <1> QED BY <1>1, <1>2, <1>9, BecomeInv

LEMMA AssembleInv ==
  ASSUME IInv, TypeOK', NEW r \in Requests, Assemble(r)
  PROVE  IInv'
  <1> DEFINE q    == req[r]
             fact == q.input \in Statements
             new  == [q EXCEPT
               !.pc = IF ~q.stream THEN "closed" ELSE IF fact THEN "report" ELSE "verdict",
               !.response = IF fact THEN AssembleFactCheck(q.verdicts[1])
                                    ELSE AssembleAnswer(q.verdicts)]
  <1>1. /\ RequestOK(q) /\ RequestInv(q, model) /\ q.pc = "verify"
        /\ Len(q.verdicts) = Len(q.claims) /\ Become(r, new) /\ UNCHANGED <<model, cache>>
    BY RequestsOK DEF IInv, RequestsInv, Assemble
  <1> HIDE DEF q
  <1>2. /\ new.pc \notin Early \cup {"verify"}
        /\ new.response = IF fact THEN AssembleFactCheck(q.verdicts[1])
                                  ELSE AssembleAnswer(q.verdicts)
        /\ new.scored = q.scored /\ new.verdicts = q.verdicts /\ new.input = q.input
        /\ new.stream = q.stream /\ new.semantic = q.semantic
        /\ new.context = q.context /\ new.claims = q.claims
        /\ new.shown = q.shown /\ new.truncated = q.truncated
    BY <1>1 DEF RequestOK, RequestState, Early
  <1> HIDE DEF new
  <1>3. TextsInv(new) /\ ShownInv(new, model) /\ ScoresInv(new) /\ VerdictInv(new)
    BY <1>1, <1>2 DEF RequestInv, TextsInv, ShownInv, ScoresInv, VerdictInv
  <1>4. EarlyInv(new) /\ ClaimsInv(new) /\ ResponseInv(new)
    BY <1>1, <1>2 DEF RequestInv, EarlyInv, ClaimsInv, ResponseInv, Early
  <1> QED BY <1>1, <1>3, <1>4, BecomeInv DEF RequestInv
-----------------------------------------------------------------------------
(* Every step keeps the invariant: one step per action.                    *)
LEMMA InvStep == IInv /\ [Next]_vars => IInv'
  <1> SUFFICES ASSUME IInv, [Next]_vars PROVE IInv'
    OBVIOUS
  <1>0. /\ TypeOK /\ TypeOK'
        /\ \A r \in Requests : RequestOK(req[r]) /\ RequestInv(req[r], model)
    BY TypeStep, RequestsOK DEF IInv, RequestsInv
  <1>1. ASSUME NEW r \in Requests, Ask(r) PROVE IInv'
    <2>1. PICK i \in Inputs, s \in BOOLEAN :
            Become(r, [Idle EXCEPT !.pc = "semantic", !.input = i, !.stream = s])
      BY <1>1 DEF Ask
    <2> DEFINE new == [Idle EXCEPT !.pc = "semantic", !.input = i, !.stream = s]
    <2>2. TextsInv(new) /\ ShownInv(new, model) /\ new.claims \in ClaimLists
      BY DEF Idle, TextsInv, Distinct, ShownInv, ClaimLists
    <2>3. RequestInv(new, model)
      BY <2>2, Unverified DEF Idle, Early
    <2> QED BY <1>0, <1>1, <2>1, <2>3, BecomeInv DEF Ask
  <1>2. ASSUME NEW r \in Requests, SearchSemantic(r) PROVE IInv'
    <2>1. PICK hits \in SearchResults :
            Become(r, [req[r] EXCEPT !.pc = "keyword", !.semantic = hits])
      BY <1>2 DEF SearchSemantic
    <2> DEFINE new == [req[r] EXCEPT !.pc = "keyword", !.semantic = hits]
    <2>2. /\ new.pc = "keyword" /\ new.semantic = hits /\ new.input = req[r].input
          /\ new.stream = req[r].stream /\ new.context = req[r].context
          /\ new.claims = req[r].claims /\ new.shown = req[r].shown
          /\ new.truncated = req[r].truncated /\ new.scored = req[r].scored
          /\ new.verdicts = req[r].verdicts /\ new.response = req[r].response
      BY <1>0 DEF RequestOK, RequestState
    <2>3. RequestInv(new, model)
      <3> HIDE DEF new
      <3>1. req[r].pc \in Early /\ new.pc \notin {"verify", "lookup", "call"}
        BY <1>2, <2>2 DEF SearchSemantic, Early
      <3> QED BY <1>0, <2>2, <3>1, SearchIs, Unmoved
    <2> QED BY <1>0, <1>2, <2>1, <2>3, BecomeInv DEF SearchSemantic
  <1>3. ASSUME NEW r \in Requests, Retry(r) PROVE IInv'
    <2>1. RequestInv([req[r] EXCEPT !.attempt = req[r].attempt + 1], model)
      BY <1>0, StaysPut
    <2>2. /\ Become(r, [req[r] EXCEPT !.attempt = req[r].attempt + 1])
          /\ UNCHANGED <<model, cache>>
      BY <1>3 DEF Retry
    <2> QED
      <3> DEFINE new == [req[r] EXCEPT !.attempt = req[r].attempt + 1]
      <3> HIDE DEF new
      <3>1. RequestInv(new, model) /\ Become(r, new)
        BY <2>1, <2>2 DEF new
      <3> QED BY <1>0, <2>2, <3>1, BecomeInv
  <1>4. ASSUME NEW r \in Requests, Token(r) PROVE IInv'
    <2>1. RequestInv([req[r] EXCEPT !.sent = Send(r, "token")], model)
      BY <1>0, StaysPut
    <2> QED BY <1>0, <1>4, <2>1, BecomeInv DEF Token
  <1>5. ASSUME NEW r \in Requests, Report(r) PROVE IInv'
    <2>1. PICK p \in {"verdict", "finish", "closed"}, f \in Frames :
            Become(r, [req[r] EXCEPT !.pc = p, !.sent = Send(r, f)])
      BY <1>5 DEF Report, Frames
    <2>2. RequestInv([req[r] EXCEPT !.pc = p, !.sent = Send(r, f)], model)
      BY <1>0, MovesOn DEF Early
    <2> QED BY <1>0, <1>5, <2>1, <2>2, BecomeInv DEF Report
  <1>6. ASSUME NEW r \in Requests, Fail(r) PROVE IInv'
    <2>1. RequestInv([req[r] EXCEPT !.pc = "closed", !.sent = Send(r, "error")], model)
      BY <1>0, MovesOn DEF Early
    <2> QED BY <1>0, <1>6, <2>1, BecomeInv DEF Fail
  <1>7. ASSUME NEW r \in Requests, ClientLeaves(r) PROVE IInv'
    <2>1. RequestInv([req[r] EXCEPT !.pc = "closed"], model)
      BY <1>0, MovesOn DEF Early
    <2> QED BY <1>0, <1>7, <2>1, BecomeInv DEF ClientLeaves
  <1>8. ASSUME NEW r \in Requests, Forget(r) PROVE IInv'
    BY <1>0, <1>8, IdleInv, BecomeInv DEF Forget
  <1>9. CASE Redeploy
    BY <1>0, <1>9, IdleInv DEF Redeploy, IInv, RequestsInv, CacheInv
  <1>10. CASE UNCHANGED vars
    BY <1>0, <1>10 DEF vars, IInv, RequestsInv, CacheInv
  <1> QED BY <1>0, <1>1, <1>2, <1>3, <1>4, <1>5, <1>6, <1>7, <1>8, <1>9, <1>10, KeywordInv,
            LookupInv, GenerateInv, EndOfStreamInv, VerifyInv, AssembleInv DEF Next

LEMMA InvCorrect == Spec => []IInv
  <1>1. Init => IInv
    <2> SUFFICES ASSUME Init PROVE IInv
      OBVIOUS
    <2>1. TypeOK
      BY IdleOK DEF Init, TypeOK, RequestOK
    <2>2. RequestsInv /\ CacheInv
      BY IdleInv DEF Init, RequestsInv, CacheInv
    <2> QED BY <2>1, <2>2 DEF IInv
  <1> QED BY <1>1, InvStep, PTL DEF Spec
-----------------------------------------------------------------------------
(* A context never holds two texts of one chunk, whatever is written to    *)
(* the indexes between the two searches (hybrid_retriever.py:67-76).       *)
THEOREM OneTextOfAChunk == Spec => []OneTextPerChunk
  <1>1. IInv => OneTextPerChunk
    BY DEF IInv, RequestsInv, RequestInv, TextsInv, OneTextPerChunk
  <1> QED BY <1>1, InvCorrect, PTL

(* SUPPORTED is said exactly on an unflagged entailment at the threshold,  *)
(* then CONTRADICTED exactly on a contradiction, with the score that       *)
(* decided, for any list of citations and any scores (verify_claim).       *)
THEOREM VerdictsFollow == Spec => []VerdictFollowsEvidence
  <1>1. IInv => VerdictFollowsEvidence
    BY DEF IInv, RequestsInv, RequestInv, VerdictInv, VerdictFollowsEvidence
  <1> QED BY <1>1, InvCorrect, PTL

(* The claims of an answer were generated for its question, by the model   *)
(* in use, from its set of chunks: the key of the cache does what it is    *)
(* for, across concurrent requests and restarts.                           *)
THEOREM GeneratedForThis == Spec => []GeneratedForThisContext
  <1>1. IInv => GeneratedForThisContext
    BY DEF IInv, RequestsInv, RequestInv, ShownInv, GeneratedForThisContext
  <1> QED BY <1>1, InvCorrect, PTL

(* What a response rests on.                                               *)
LEMMA ResponseEarned ==
  ASSUME NEW q, NEW m, RequestOK(q), RequestInv(q, m), q.response # NoResponse
  PROVE  /\ q.response.state = "ok" =>
              IF q.input \in Statements THEN Confirmed(q) ELSE Answered(q)
         /\ \A i \in q.response.answer : q.verdicts[i].status # "CONTRADICTED"
         /\ q.response.state = "contradicted" => Supporting(q.scored) = {}
  <1>1. /\ q.claims \in Seq(Claim) /\ q.verdicts \in Seq(Verdict) /\ q.truncated \in BOOLEAN
        /\ Len(q.verdicts) = Len(q.claims)
    BY DEF RequestOK, RequestState, ClaimLists, VerdictLists, RequestInv, ResponseInv
  <1>2. CASE q.input \in Statements
    <2>1. q.claims = <<StatementClaim(q.context)>> /\ Len(q.verdicts) = 1
      BY <1>1, <1>2 DEF RequestInv, ClaimsInv
    <2>2. q.response = AssembleFactCheck(q.verdicts[1])
      BY <1>2 DEF RequestInv, ResponseInv
    <2>3. Follows("assertion", q.scored, q.verdicts[1])
      BY <2>1 DEF RequestInv, VerdictInv, StatementClaim
    <2>4. /\ q.response.answer = {}
          /\ q.response.state = "ok" => q.verdicts[1].status = "SUPPORTED"
          /\ q.response.state = "contradicted" => q.verdicts[1].status = "CONTRADICTED"
      BY <2>2 DEF AssembleFactCheck
    <2>5. q.verdicts[1].status = "SUPPORTED" => Supporting(q.scored) # {}
      BY <2>3 DEF Follows
    <2>6. q.verdicts[1].status = "CONTRADICTED" => Supporting(q.scored) = {}
      BY <2>3 DEF Follows
    <2>7. \A i \in Supporting(q.scored) : q.scored[i].passage \in Range(q.context)
      BY DEF RequestInv, ScoresInv, Supporting
    <2>8. Supporting(q.scored) # {} => Confirmed(q)
      BY <2>7 DEF Confirmed
    <2> QED BY <1>2, <2>4, <2>5, <2>6, <2>8
  <1>3. CASE q.input \notin Statements
    <2>1. q.response = AssembleAnswer(q.verdicts)
      BY <1>3 DEF RequestInv, ResponseInv
    <2>2. \A i \in q.response.answer : q.verdicts[i].status # "CONTRADICTED"
      BY <2>1 DEF AssembleAnswer, With
    <2>3. q.response.state # "contradicted"
      BY <2>1 DEF AssembleAnswer
    <2>4. ASSUME q.response.state = "ok" PROVE Answered(q)
      <3>1. PICK i \in DOMAIN q.verdicts : q.verdicts[i].status \in {"SUPPORTED", "UNSUPPORTED"}
        BY <2>1, <2>4 DEF AssembleAnswer, With
      <3>2. i \in DOMAIN q.claims /\ q.claims[i] \in Claim
        BY <1>1
      <3>3. q.claims[i].kind # "refusal"
        BY <3>1 DEF RequestInv, VerdictInv
      <3>4. q.claims[i].kind = "assertion"
        BY <3>2, <3>3 DEF Claim
      <3>5. q.truncated # TRUE
        <4>1. q.claims # <<>>
          BY <3>2
        <4> QED BY <4>1 DEF RequestInv, ClaimsInv
      <3>6. ~q.truncated
        BY <1>1, <3>5, Zenon
      <3>7. \E c \in DOMAIN q.claims : /\ q.claims[c].kind = "assertion"
                                      /\ q.verdicts[c].status # "CONTRADICTED"
        BY <3>1, <3>2, <3>4
      <3> QED BY <3>6, <3>7, Zenon DEF Answered
    <2> QED BY <1>3, <2>2, <2>3, <2>4
  <1> QED BY <1>2, <1>3

(* An answer says ok only if it is earned, whatever failed or was cut      *)
(* short on the way, and no contradicted claim is part of it.              *)
THEOREM AnswersAreEarned == Spec => []AnswerIsEarned
  <1>1. ASSUME IInv PROVE AnswerIsEarned
    BY <1>1, RequestsOK, ResponseEarned DEF IInv, RequestsInv, AnswerIsEarned
  <1> QED BY <1>1, InvCorrect, PTL
-----------------------------------------------------------------------------
(* The frames of a stream.                                                 *)
Ordered(sent) ==
  \A i, j \in DOMAIN sent : i < j => \/ FrameRank[sent[i]] < FrameRank[sent[j]]
                                     \/ sent[i] = "token" /\ sent[j] = "token"

(* What FramesInOrder asks of one request.                                 *)
InOrder(q) ==
  /\ Ordered(q.sent)
  /\ "done" \in Range(q.sent) => "verification" \in Range(q.sent)
  /\ "verification" \in Range(q.sent) =>
       "retrieval" \in Range(q.sent) /\ q.response # NoResponse
  /\ q.input \in Statements => "token" \notin Range(q.sent)
  /\ q.response # NoResponse => "error" \notin Range(q.sent)

(* What has been sent when a request is at a step.                         *)
SoFar(q) ==
  /\ q.stream = FALSE => q.sent = <<>>
  /\ q.pc \in {"idle", "semantic", "keyword", "lookup", "call", "report"} => q.sent = <<>>
  /\ q.pc = "verify" /\ q.input \in Statements => q.sent = <<>>
  /\ q.pc \in {"tokens", "verify", "verdict"} => Range(q.sent) \subseteq {"retrieval", "token"}
  /\ q.pc = "finish" => Range(q.sent) \subseteq {"retrieval", "token", "verification"}
  /\ \/ q.pc \in {"tokens", "verdict", "finish"}
     \/ q.pc = "verify" /\ q.input \notin Statements /\ q.stream = TRUE
     => "retrieval" \in Range(q.sent)
  /\ q.pc = "finish" => "verification" \in Range(q.sent)
  /\ q.pc \in {"report", "verdict", "finish"} => q.stream = TRUE /\ q.response # NoResponse

FramesInv == \A r \in Requests : InOrder(req[r]) /\ SoFar(req[r])

(* Appending a frame that ranks above those sent keeps them in order.      *)
LEMMA AppendFrame ==
  ASSUME NEW s \in Seq(Frames), NEW f \in Frames, Ordered(s),
         \A g \in Range(s) : FrameRank[g] < FrameRank[f] \/ (g = "token" /\ f = "token")
  PROVE  Ordered(Append(s, f)) /\ Range(Append(s, f)) = Range(s) \cup {f}
  <1> DEFINE t == Append(s, f)
             n == Len(s)
  <1>1. /\ n \in Nat /\ DOMAIN s = 1 .. n /\ DOMAIN t = 1 .. n + 1
        /\ t[n + 1] = f /\ \A i \in 1 .. n : t[i] = s[i]
    OBVIOUS
  <1> HIDE DEF t, n
  <1>2. Ordered(t)
    <2> SUFFICES ASSUME NEW i \in 1 .. n + 1, NEW j \in 1 .. n + 1, i < j
                 PROVE  FrameRank[t[i]] < FrameRank[t[j]] \/ (t[i] = "token" /\ t[j] = "token")
      BY <1>1 DEF Ordered
    <2>1. i \in 1 .. n /\ t[i] = s[i]
      BY <1>1
    <2>2. CASE j = n + 1
      BY <1>1, <2>1, <2>2 DEF Range
    <2>3. CASE j # n + 1
      <3>1. j \in 1 .. n /\ t[j] = s[j]
        BY <1>1, <2>3
      <3> QED BY <1>1, <2>1, <3>1 DEF Ordered
    <2> QED BY <2>2, <2>3
  <1>3. Range(t) = Range(s) \cup {f}
    BY <1>1 DEF Range
  <1> QED BY <1>2, <1>3 DEF t

LEMMA Ranking ==
  /\ FrameRank["retrieval"] = 1 /\ FrameRank["token"] = 2 /\ FrameRank["verification"] = 3
  /\ FrameRank["done"] = 4 /\ FrameRank["error"] = 4
  BY DEF FrameRank, Frames

LEMMA NothingSent ==
  ASSUME NEW q, q.sent = <<>>
  PROVE  Range(q.sent) = {} /\ InOrder(q)
  BY DEF Ordered, Range, InOrder

(* A step that sends nothing and makes no response leaves the frames.      *)
LEMMA Silent ==
  ASSUME NEW q, NEW new, InOrder(q), SoFar(q),
         new.sent = q.sent, new.input = q.input, new.stream = q.stream,
         new.response = q.response,
         \/ new.pc = q.pc
         \/ new.pc = "closed"
         \/ new.pc \in {"semantic", "keyword", "lookup", "call"} /\ q.sent = <<>>
         \/ new.pc = "verify" /\ (q.pc = "tokens" \/ (q.sent = <<>> /\ q.stream = FALSE))
         \/ new.pc = "verify" /\ q.sent = <<>> /\ q.input \in Statements,
         q.pc = "tokens" => q.input \notin Statements
  PROVE  InOrder(new) /\ SoFar(new)
  <1>1. InOrder(new)
    BY DEF InOrder
  <1>2. q.sent = <<>> => Range(q.sent) = {}
    BY NothingSent
  <1> QED BY <1>1, <1>2 DEF SoFar

LEMMA BecomeFramed ==
  ASSUME TypeOK, FramesInv, NEW r \in Requests, NEW new, Become(r, new),
         InOrder(new), SoFar(new)
  PROVE  FramesInv'
  <1>1. \A o \in Requests : req'[o] = IF o = r THEN new ELSE req[o]
    BY DEF Become, TypeOK
  <1> QED BY <1>1 DEF FramesInv

(* What sending a frame makes of what was sent.                            *)
LEMMA SendIs ==
  ASSUME TypeOK, NEW r \in Requests, NEW f \in Frames
  PROVE  /\ req[r].stream = TRUE => Send(r, f) = Append(req[r].sent, f)
         /\ req[r].stream = FALSE => Send(r, f) = req[r].sent
         /\ req[r].sent \in Seq(Frames) /\ req[r].stream \in BOOLEAN
  BY DEF TypeOK, RequestState, Send, FrameLists

(* A frame that ranks above those sent.                                    *)
LEMMA FrameSent ==
  ASSUME TypeOK, NEW r \in Requests, InOrder(req[r]), req[r].stream = TRUE,
         NEW f \in Frames, NEW new,
         new.sent = Send(r, f), new.input = req[r].input, new.response = req[r].response,
         \A g \in Range(req[r].sent) : FrameRank[g] < FrameRank[f] \/ (g = "token" /\ f = "token"),
         f = "done" => "verification" \in Range(req[r].sent),
         f = "verification" => "retrieval" \in Range(req[r].sent) /\ req[r].response # NoResponse,
         f = "token" => req[r].input \notin Statements,
         f = "error" => req[r].response = NoResponse
  PROVE  InOrder(new) /\ Range(new.sent) = Range(req[r].sent) \cup {f}
  <1>1. new.sent = Append(req[r].sent, f) /\ req[r].sent \in Seq(Frames)
    BY SendIs
  <1>2. Ordered(new.sent) /\ Range(new.sent) = Range(req[r].sent) \cup {f}
    BY <1>1, AppendFrame DEF InOrder
  <1> QED BY <1>2 DEF InOrder

LEMMA FramesStep == IInv /\ FramesInv /\ [Next]_vars => FramesInv'
  <1> SUFFICES ASSUME IInv, FramesInv, [Next]_vars PROVE FramesInv'
    OBVIOUS
  <1>0. /\ TypeOK
        /\ \A r \in Requests : /\ RequestOK(req[r]) /\ RequestInv(req[r], model)
                               /\ InOrder(req[r]) /\ SoFar(req[r])
                               /\ req[r].stream \in BOOLEAN
                               /\ req[r].pc \in {"lookup", "call"} => req[r].stream = FALSE
                               /\ req[r].pc \in Early \cup {"verify"} =>
                                    req[r].response = NoResponse
                               /\ req[r].pc \in {"lookup", "call", "tokens"} =>
                                    req[r].input \notin Statements
    <2>1. \A r \in Requests : RequestOK(req[r]) /\ RequestInv(req[r], model)
      BY RequestsOK DEF IInv, RequestsInv
    <2>2. \A r \in Requests : /\ req[r].stream \in BOOLEAN
                              /\ req[r].pc \in {"lookup", "call", "tokens"} =>
                                   req[r].input \notin Statements
      BY <2>1, QueryAssumption DEF RequestOK, RequestState
    <2>3. \A r \in Requests : /\ req[r].pc \in {"lookup", "call"} => req[r].stream = FALSE
                              /\ req[r].pc \in Early \cup {"verify"} =>
                                   req[r].response = NoResponse
      BY <2>1 DEF RequestInv, EarlyInv
    <2> QED BY <2>1, <2>2, <2>3 DEF IInv, FramesInv
  <1>20. ASSUME NEW r \in Requests, NEW new, Become(r, new),
               new.sent = req[r].sent, new.input = req[r].input,
               new.stream = req[r].stream, new.response = req[r].response,
               \/ new.pc = req[r].pc
               \/ new.pc = "closed"
               \/ new.pc \in {"keyword", "call"} /\ req[r].sent = <<>>
               \/ new.pc = "verify" /\ (req[r].pc = "tokens"
                                         \/ (req[r].sent = <<>> /\ req[r].stream = FALSE))
        PROVE  FramesInv'
    <2>1. InOrder(new) /\ SoFar(new)
      BY <1>0, <1>20, Silent
    <2> QED BY <1>0, <1>20, <2>1, BecomeFramed
  <1>1. ASSUME NEW r \in Requests, Ask(r) PROVE FramesInv'
    <2>1. PICK i \in Inputs, s \in BOOLEAN :
            Become(r, [Idle EXCEPT !.pc = "semantic", !.input = i, !.stream = s])
      BY <1>1 DEF Ask
    <2> DEFINE new == [Idle EXCEPT !.pc = "semantic", !.input = i, !.stream = s]
    <2>2. new.sent = <<>> /\ new.pc = "semantic"
      BY DEF Idle
    <2> HIDE DEF new
    <2>3. InOrder(new) /\ SoFar(new)
      BY <2>2, NothingSent DEF SoFar
    <2> QED BY <1>0, <2>1, <2>3, BecomeFramed DEF new
  <1>2. ASSUME NEW r \in Requests, SearchSemantic(r) PROVE FramesInv'
    <2>1. PICK hits \in SearchResults :
            Become(r, [req[r] EXCEPT !.pc = "keyword", !.semantic = hits])
      BY <1>2 DEF SearchSemantic
    <2> DEFINE new == [req[r] EXCEPT !.pc = "keyword", !.semantic = hits]
    <2>2. /\ new.pc = "keyword" /\ new.sent = req[r].sent /\ new.input = req[r].input
          /\ new.stream = req[r].stream /\ new.response = req[r].response
          /\ req[r].sent = <<>> /\ req[r].pc = "semantic"
      BY <1>0, <1>2 DEF RequestOK, RequestState, SearchSemantic, SoFar
    <2> HIDE DEF new
    <2>3. InOrder(new) /\ SoFar(new)
      BY <1>0, <2>2, Silent
    <2> QED BY <1>0, <2>1, <2>3, BecomeFramed DEF new
  <1>3. ASSUME NEW r \in Requests, SearchKeyword(r) PROVE FramesInv'
    <2> DEFINE q == req[r]
               new(context) ==
                 IF q.input \in Statements
                   THEN [q EXCEPT !.pc = "verify", !.semantic = {}, !.context = context,
                                  !.claims = <<StatementClaim(context)>>]
                 ELSE IF q.stream
                   THEN [q EXCEPT !.pc = "tokens", !.semantic = {}, !.context = context,
                                  !.sent = Send(r, "retrieval")]
                 ELSE [q EXCEPT !.pc = "lookup", !.semantic = {}, !.context = context]
    <2>1. PICK context : Become(r, new(context))
      BY <1>3 DEF SearchKeyword
    <2>2. q.pc = "keyword" /\ q.sent = <<>> /\ Range(q.sent) = {}
      BY <1>0, <1>3, NothingSent DEF SearchKeyword, SoFar
    <2>3. /\ new(context).input = q.input /\ new(context).stream = q.stream
          /\ new(context).response = q.response
          /\ new(context).pc = IF q.input \in Statements THEN "verify"
                               ELSE IF q.stream THEN "tokens" ELSE "lookup"
          /\ new(context).sent = IF q.input \notin Statements /\ q.stream
                                   THEN Send(r, "retrieval") ELSE q.sent
      BY <1>0 DEF RequestOK, RequestState
    <2> HIDE DEF new
    <2>4. CASE q.input \notin Statements /\ q.stream
      <3>0. q.stream = TRUE /\ new(context).sent = Send(r, "retrieval")
        BY <1>0, <2>3, <2>4
      <3>1. /\ "retrieval" \in Frames /\ "retrieval" \notin {"done", "verification", "token", "error"}
            /\ \A g \in Range(q.sent) : FrameRank[g] < FrameRank["retrieval"]
        BY <2>2 DEF Frames
      <3> HIDE DEF q
      <3>5. /\ InOrder(req[r]) /\ req[r].stream = TRUE /\ TypeOK
            /\ new(context).input = req[r].input /\ new(context).response = req[r].response
            /\ \A g \in Range(req[r].sent) : FrameRank[g] < FrameRank["retrieval"]
            /\ Range(req[r].sent) = {}
        BY <1>0, <2>2, <2>3, <3>0, <3>1 DEF q
      <3>6. /\ InOrder(new(context))
            /\ Range(new(context).sent) = Range(req[r].sent) \cup {"retrieval"}
        BY <3>0, <3>1, <3>5, FrameSent
      <3>7. Range(new(context).sent) = {"retrieval"}
        BY <3>5, <3>6
      <3>2. SoFar(new(context))
        BY <2>3, <2>4, <3>0, <3>7 DEF SoFar
      <3> QED BY <1>0, <2>1, <3>6, <3>2, BecomeFramed
    <2>5. CASE ~(q.input \notin Statements /\ q.stream)
      <3>1. InOrder(new(context)) /\ SoFar(new(context))
        BY <1>0, <2>2, <2>3, <2>5, Silent
      <3> QED BY <1>0, <2>1, <3>1, BecomeFramed
    <2> QED BY <2>4, <2>5
  <1>4. ASSUME NEW r \in Requests, Lookup(r) PROVE FramesInv'
    <2>1. req[r].sent = <<>> /\ req[r].stream = FALSE
      BY <1>0, <1>4 DEF Lookup, SoFar
    <2>2. ASSUME NEW l, NEW h,
                 Become(r, [req[r] EXCEPT !.pc = "verify", !.claims = l, !.shown = h])
          PROVE  FramesInv'
      <3> DEFINE new == [req[r] EXCEPT !.pc = "verify", !.claims = l, !.shown = h]
      <3>1. /\ new.pc = "verify" /\ new.sent = req[r].sent /\ new.input = req[r].input
            /\ new.stream = req[r].stream /\ new.response = req[r].response
        BY <1>0 DEF RequestOK, RequestState
      <3>2. Become(r, new)
        BY <2>2
      <3> HIDE DEF new
      <3> QED BY <1>20, <2>1, <3>1, <3>2
    <2>3. ASSUME NEW pc \in {"call", "closed"}, Become(r, [req[r] EXCEPT !.pc = pc])
          PROVE  FramesInv'
      <3> DEFINE new == [req[r] EXCEPT !.pc = pc]
      <3>1. /\ new.pc = pc /\ new.sent = req[r].sent /\ new.input = req[r].input
            /\ new.stream = req[r].stream /\ new.response = req[r].response
        BY <1>0 DEF RequestOK, RequestState
      <3>2. Become(r, new)
        BY <2>3
      <3> HIDE DEF new
      <3> QED BY <1>20, <2>1, <3>1, <3>2
    <2> QED BY <1>4, <2>2, <2>3 DEF Lookup
  <1>5. ASSUME NEW r \in Requests, Generate(r) PROVE FramesInv'
    <2>1. PICK claims :
            \/ Become(r, [req[r] EXCEPT !.pc = "closed"])
            \/ Become(r, [req[r] EXCEPT !.pc = "verify", !.claims = claims, !.shown = Shown(r)])
      BY <1>5, GenerateStep
    <2>2. req[r].sent = <<>> /\ req[r].stream = FALSE
      BY <1>0, <1>5 DEF Generate, SoFar
    <2>3. ASSUME NEW new \in {[req[r] EXCEPT !.pc = "closed"],
                              [req[r] EXCEPT !.pc = "verify", !.claims = claims,
                                             !.shown = Shown(r)]}
          PROVE  /\ new.pc \in {"closed", "verify"} /\ new.sent = req[r].sent
                 /\ new.input = req[r].input /\ new.stream = req[r].stream
                 /\ new.response = req[r].response
      BY <1>0 DEF RequestOK, RequestState
    <2>4. PICK new : /\ Become(r, new)
                     /\ new.pc \in {"closed", "verify"} /\ new.sent = req[r].sent
                     /\ new.input = req[r].input /\ new.stream = req[r].stream
                     /\ new.response = req[r].response
      BY <2>1, <2>3
    <2> QED BY <1>20, <2>2, <2>4
  <1>6. ASSUME NEW r \in Requests, EndOfStream(r) PROVE FramesInv'
    <2>1. req[r].pc = "tokens"
      BY <1>6 DEF EndOfStream
    <2>2. ASSUME NEW l, Become(r, [req[r] EXCEPT !.pc = "verify", !.claims = l,
                                                !.shown = Shown(r)])
          PROVE  FramesInv'
      <3> DEFINE new == [req[r] EXCEPT !.pc = "verify", !.claims = l, !.shown = Shown(r)]
      <3>1. /\ new.pc = "verify" /\ new.sent = req[r].sent /\ new.input = req[r].input
            /\ new.stream = req[r].stream /\ new.response = req[r].response
        BY <1>0 DEF RequestOK, RequestState
      <3>2. Become(r, new)
        BY <2>2
      <3> HIDE DEF new
      <3> QED BY <1>20, <2>1, <3>1, <3>2
    <2>3. CASE Become(r, [req[r] EXCEPT !.pc = "verify", !.truncated = TRUE, !.shown = Shown(r)])
      <3> DEFINE new == [req[r] EXCEPT !.pc = "verify", !.truncated = TRUE, !.shown = Shown(r)]
      <3>1. /\ new.pc = "verify" /\ new.sent = req[r].sent /\ new.input = req[r].input
            /\ new.stream = req[r].stream /\ new.response = req[r].response
        BY <1>0 DEF RequestOK, RequestState
      <3>2. Become(r, new)
        BY <2>3
      <3> HIDE DEF new
      <3> QED BY <1>20, <2>1, <3>1, <3>2
    <2> QED BY <1>6, <2>2, <2>3 DEF EndOfStream
  <1>7. ASSUME NEW r \in Requests, Retry(r) PROVE FramesInv'
    <2> DEFINE new == [req[r] EXCEPT !.attempt = req[r].attempt + 1]
    <2>1. /\ new.pc = req[r].pc /\ new.sent = req[r].sent /\ new.input = req[r].input
          /\ new.stream = req[r].stream /\ new.response = req[r].response
      BY <1>0 DEF RequestOK, RequestState
    <2>2. Become(r, new)
      BY <1>7 DEF Retry
    <2> HIDE DEF new
    <2> QED BY <1>20, <2>1, <2>2
  <1>8. ASSUME NEW r \in Requests, ClientLeaves(r) PROVE FramesInv'
    <2> DEFINE new == [req[r] EXCEPT !.pc = "closed"]
    <2>1. /\ new.pc = "closed" /\ new.sent = req[r].sent /\ new.input = req[r].input
          /\ new.stream = req[r].stream /\ new.response = req[r].response
      BY <1>0 DEF RequestOK, RequestState
    <2>2. Become(r, new)
      BY <1>8 DEF ClientLeaves
    <2> HIDE DEF new
    <2> QED BY <1>20, <2>1, <2>2
  <1>9. ASSUME NEW r \in Requests, Verify(r) PROVE FramesInv'
    <2>1. PICK d, v : Become(r, [req[r] EXCEPT !.scored = d, !.verdicts = v])
      BY <1>9 DEF Verify
    <2> DEFINE new == [req[r] EXCEPT !.scored = d, !.verdicts = v]
    <2>2. /\ new.pc = req[r].pc /\ new.sent = req[r].sent /\ new.input = req[r].input
          /\ new.stream = req[r].stream /\ new.response = req[r].response
      BY <1>0 DEF RequestOK, RequestState
    <2>3. Become(r, new)
      BY <2>1
    <2> HIDE DEF new
    <2> QED BY <1>20, <2>2, <2>3
  <1>10. ASSUME NEW r \in Requests, Token(r) PROVE FramesInv'
    <2> DEFINE new == [req[r] EXCEPT !.sent = Send(r, "token")]
    <2>1. /\ new.pc = req[r].pc /\ new.sent = Send(r, "token") /\ new.input = req[r].input
          /\ new.stream = req[r].stream /\ new.response = req[r].response
      BY <1>0 DEF RequestOK, RequestState
    <2>2. Become(r, new) /\ req[r].pc = "tokens"
      BY <1>10 DEF Token
    <2> HIDE DEF new
    <2>3. /\ req[r].stream = TRUE \/ req[r].sent = <<>>
          /\ "retrieval" \in Range(req[r].sent)
          /\ Range(req[r].sent) \subseteq {"retrieval", "token"}
      BY <1>0, <2>2 DEF SoFar
    <2>4. req[r].stream = TRUE
      BY <2>3, NothingSent
    <2>5. \A g \in Range(req[r].sent) : FrameRank[g] < FrameRank["token"] \/ g = "token"
      BY <2>3, Ranking
    <2>6. InOrder(new) /\ Range(new.sent) = Range(req[r].sent) \cup {"token"}
      BY <1>0, <2>1, <2>2, <2>4, <2>5, FrameSent DEF Frames
    <2>7. SoFar(new)
      BY <2>1, <2>2, <2>3, <2>4, <2>6 DEF SoFar
    <2> QED BY <1>0, <2>2, <2>6, <2>7, BecomeFramed
  <1>11. ASSUME NEW r \in Requests, Fail(r) PROVE FramesInv'
    <2> DEFINE new == [req[r] EXCEPT !.pc = "closed", !.sent = Send(r, "error")]
    <2>1. /\ new.pc = "closed" /\ new.sent = Send(r, "error") /\ new.input = req[r].input
          /\ new.stream = req[r].stream /\ new.response = req[r].response
      BY <1>0 DEF RequestOK, RequestState
    <2>2. Become(r, new) /\ req[r].pc \in {"semantic", "keyword", "call", "tokens", "verify"}
      BY <1>11 DEF Fail
    <2> HIDE DEF new
    <2>3. CASE req[r].stream = FALSE
      BY <1>0, <1>20, <2>1, <2>2, <2>3, SendIs DEF Frames
    <2>4. CASE req[r].stream = TRUE
      <3>1. Range(req[r].sent) \subseteq {"retrieval", "token"}
        BY <1>0, <2>2, NothingSent DEF SoFar
      <3>2. \A g \in Range(req[r].sent) : FrameRank[g] < FrameRank["error"]
        BY <3>1, Ranking
      <3>3. req[r].response = NoResponse
        BY <1>0, <2>2 DEF Early
      <3>4. InOrder(new)
        BY <1>0, <2>1, <2>4, <3>2, <3>3, FrameSent DEF Frames
      <3>5. SoFar(new)
        BY <2>1, <2>4 DEF SoFar
      <3> QED BY <1>0, <2>2, <3>4, <3>5, BecomeFramed
    <2> QED BY <1>0, <2>3, <2>4
  <1>12. ASSUME NEW r \in Requests, Assemble(r) PROVE FramesInv'
    <2> DEFINE answer == IF req[r].input \in Statements
                           THEN AssembleFactCheck(req[r].verdicts[1])
                           ELSE AssembleAnswer(req[r].verdicts)
               next == IF ~req[r].stream THEN "closed"
                       ELSE IF req[r].input \in Statements THEN "report" ELSE "verdict"
               new == [req[r] EXCEPT !.pc = next, !.response = answer]
    <2>1. Become(r, new) /\ req[r].pc = "verify"
      BY <1>12 DEF Assemble
    <2>2. answer # NoResponse
      <3>1. ASSUME NEW v PROVE AssembleFactCheck(v) # NoResponse
        <4>1. AssembleFactCheck(v).state # "none"
          BY DEF AssembleFactCheck
        <4> QED BY <4>1 DEF NoResponse
      <3>2. ASSUME NEW v PROVE AssembleAnswer(v) # NoResponse
        <4>1. AssembleAnswer(v).state # "none"
          BY DEF AssembleAnswer
        <4> QED BY <4>1 DEF NoResponse
      <3> QED BY <3>1, <3>2
    <2> HIDE DEF answer
    <2>3. /\ new.pc = next /\ new.sent = req[r].sent /\ new.input = req[r].input
          /\ new.stream = req[r].stream /\ new.response = answer
      BY <1>0 DEF RequestOK, RequestState
    <2> HIDE DEF new
    <2>4. /\ Range(req[r].sent) \subseteq {"retrieval", "token"}
          /\ req[r].input \in Statements => req[r].sent = <<>>
          /\ req[r].stream = FALSE => req[r].sent = <<>>
          /\ req[r].input \notin Statements /\ req[r].stream = TRUE =>
               "retrieval" \in Range(req[r].sent)
      BY <1>0, <2>1 DEF SoFar
    <2>5. InOrder(new)
      <3>1. Ordered(req[r].sent) /\ (req[r].input \in Statements => "token" \notin Range(req[r].sent))
        BY <1>0 DEF InOrder
      <3>2. {"done", "verification", "error"} \cap Range(req[r].sent) = {}
        BY <2>4
      <3> QED BY <2>3, <3>1, <3>2 DEF InOrder
    <2>6. SoFar(new)
      <3>1. CASE req[r].stream = FALSE
        BY <2>3, <2>4, <3>1 DEF SoFar
      <3>2. CASE req[r].stream = TRUE /\ req[r].input \in Statements
        BY <2>2, <2>3, <2>4, <3>2 DEF SoFar
      <3>3. CASE req[r].stream = TRUE /\ req[r].input \notin Statements
        BY <2>2, <2>3, <2>4, <3>3 DEF SoFar
      <3> QED BY <1>0, <3>1, <3>2, <3>3
    <2> QED BY <1>0, <2>1, <2>5, <2>6, BecomeFramed
  <1>13. ASSUME NEW r \in Requests, Report(r) PROVE FramesInv'
    <2>1. ASSUME NEW f \in {"retrieval", "verification", "done"}, NEW next,
                 Become(r, [req[r] EXCEPT !.pc = next, !.sent = Send(r, f)]),
                 \/ f = "retrieval" /\ req[r].pc = "report" /\ next = "verdict"
                 \/ f = "verification" /\ req[r].pc = "verdict" /\ next = "finish"
                 \/ f = "done" /\ req[r].pc = "finish" /\ next = "closed"
          PROVE  FramesInv'
      <3> DEFINE new == [req[r] EXCEPT !.pc = next, !.sent = Send(r, f)]
      <3>1. /\ new.pc = next /\ new.sent = Send(r, f) /\ new.input = req[r].input
            /\ new.stream = req[r].stream /\ new.response = req[r].response
        BY <1>0 DEF RequestOK, RequestState
      <3>2. Become(r, new)
        BY <2>1
      <3> HIDE DEF new
      <3>3. req[r].stream = TRUE /\ req[r].response # NoResponse
        BY <1>0, <2>1 DEF SoFar
      <3>4. /\ req[r].pc = "report" => Range(req[r].sent) = {}
            /\ req[r].pc = "verdict" => /\ Range(req[r].sent) \subseteq {"retrieval", "token"}
                                        /\ "retrieval" \in Range(req[r].sent)
            /\ req[r].pc = "finish" =>
                 /\ Range(req[r].sent) \subseteq {"retrieval", "token", "verification"}
                 /\ {"retrieval", "verification"} \subseteq Range(req[r].sent)
        BY <1>0, NothingSent DEF SoFar
      <3>5. \A g \in Range(req[r].sent) : FrameRank[g] < FrameRank[f]
        BY <2>1, <3>4, Ranking
      <3>6. f \in Frames /\ f \notin {"token", "error"}
        BY DEF Frames
      <3>7. /\ f = "done" => "verification" \in Range(req[r].sent)
            /\ f = "verification" => "retrieval" \in Range(req[r].sent)
        BY <2>1, <3>4
      <3>8. InOrder(new) /\ Range(new.sent) = Range(req[r].sent) \cup {f}
        BY <1>0, <3>1, <3>3, <3>5, <3>6, <3>7, FrameSent
      <3>9. SoFar(new)
        BY <2>1, <3>1, <3>3, <3>4, <3>8 DEF SoFar
      <3> QED BY <1>0, <3>2, <3>8, <3>9, BecomeFramed
    <2> QED BY <1>13, <2>1 DEF Report
  <1>14. ASSUME NEW r \in Requests, Forget(r) PROVE FramesInv'
    <2>1. Idle.sent = <<>> /\ Idle.pc = "idle"
      BY DEF Idle
    <2>2. InOrder(Idle) /\ SoFar(Idle)
      BY <2>1, NothingSent DEF SoFar
    <2> QED BY <1>0, <1>14, <2>2, BecomeFramed DEF Forget
  <1>15. CASE Redeploy
    <2>1. Idle.sent = <<>> /\ Idle.pc = "idle"
      BY DEF Idle
    <2>2. InOrder(Idle) /\ SoFar(Idle)
      BY <2>1, NothingSent DEF SoFar
    <2> QED BY <1>15, <2>2 DEF Redeploy, FramesInv
  <1>16. CASE UNCHANGED vars
    BY <1>16 DEF vars, FramesInv
  <1> QED BY <1>1, <1>2, <1>3, <1>4, <1>5, <1>6, <1>7, <1>8, <1>9, <1>10, <1>11,
             <1>12, <1>13, <1>14, <1>15, <1>16 DEF Next

(* Nothing has been sent at first.                                         *)
LEMMA FramesInit == Init => FramesInv
  <1>1. Idle.sent = <<>> /\ Idle.pc = "idle"
    BY DEF Idle
  <1>2. InOrder(Idle) /\ SoFar(Idle)
    BY <1>1, NothingSent DEF SoFar
  <1> QED BY <1>2 DEF Init, FramesInv

(* Whatever fails and wherever, the frames of a stream come in the order   *)
(* query_service.py yields them in, and an error ends them.                *)
THEOREM FramesComeInOrder == Spec => []FramesInOrder
  <1>1. FramesInv => FramesInOrder
    BY DEF FramesInv, InOrder, Ordered, FramesInOrder
  <1> QED BY <1>1, InvCorrect, FramesInit, FramesStep, PTL DEF Spec
=============================================================================
