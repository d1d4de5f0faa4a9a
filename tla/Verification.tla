---------------------------- MODULE Verification ----------------------------
(***************************************************************************)
(* The decision procedure for one claim (domain/verification.py), over the *)
(* scores its citations got.  A score is a whole number of the smallest    *)
(* step the caller distinguishes, so 0 .. MaxScore stands for [0, 1].      *)
(* What a pair of texts scores is the model's business, not this module's: *)
(* every answer is possible for every pair.                                *)
(***************************************************************************)
EXTENDS Integers, Sequences, FiniteSetsExt

CONSTANTS
  MaxScore,   \* the score 1.0
  Threshold,  \* claim_verification_threshold
  Passages,   \* the texts a citation can resolve to
  NoPassage   \* a tag that resolves to nothing

ASSUME ScoreAssumption == MaxScore \in Nat /\ Threshold \in Nat
ASSUME PassageAssumption == NoPassage \notin Passages
-----------------------------------------------------------------------------
Scores  == 0 .. MaxScore
Answers == [label : {"entailment", "neutral", "contradiction"}, score : Scores]

Entails(a) == a.label = "entailment"

\* The whole premise is asked first; only a long one that does not entail is
\* asked again window by window, and only an entailing window replaces it.
Score(whole, long, windows) ==
  LET entailing == {w \in windows : Entails(w)}
  IN IF Entails(whole) \/ ~long \/ entailing = {}
       THEN whole
       ELSE [label |-> "entailment", score |-> Max({w.score : w \in entailing})]

\* What `score` can return: the windows of a premise are some set of texts.
ScoreResults ==
  {Score(whole, long, windows) : whole \in Answers, long \in BOOLEAN,
                                 windows \in SUBSET Answers}

Scored == [label : {"entailment", "neutral", "contradiction", "MISSING_CHUNK"},
           score : Scores, flagged : BOOLEAN, passage : Passages \cup {NoPassage}]

\* One cited tag, resolved to p and scored.  The composition screen runs on
\* entailments only.
CitationResults(p) ==
  IF p = NoPassage
    THEN {[label |-> "MISSING_CHUNK", score |-> 0, flagged |-> FALSE, passage |-> p]}
    ELSE UNION {{[label |-> a.label, score |-> a.score, flagged |-> f, passage |-> p] :
                    f \in IF Entails(a) THEN BOOLEAN ELSE {FALSE}} : a \in ScoreResults}
-----------------------------------------------------------------------------
\* Mutant: a flagged entailment still races.
EntailmentRank_Flagged(s) == IF s.label # "entailment" THEN -1 ELSE s.score

\* The key of the best-evidence race.
EntailmentRank(s) == IF s.label # "entailment" \/ s.flagged THEN -1 ELSE s.score

Ranks(scored)  == [i \in DOMAIN scored |-> EntailmentRank(scored[i])]
Values(scored) == [i \in DOMAIN scored |-> scored[i].score]

\* The first position of a largest key, which is what max(..., key=...) returns.
FirstMax(key, among) ==
  CHOOSE i \in among : /\ \A j \in among : key[j] <= key[i]
                       /\ \A j \in among : key[j] = key[i] => i <= j

NoScore == -1

Statuses == {"SUPPORTED", "CONTRADICTED", "UNSUPPORTED", "REFUSAL"}
Reasons  == {"none", "uncited", "contradicts", "rejected",
             "not_found", "below_threshold", "none_entails"}

Verdict == [status : Statuses, score : Scores \cup {NoScore}, reason : Reasons]

\* The four outcomes of a claim that was scored, in the order they are tried.
Judge(scored) ==
  LET best     == scored[FirstMax(Ranks(scored), DOMAIN scored)]
      refuting == {i \in DOMAIN scored : scored[i].label = "contradiction"}
      flagged  == {i \in DOMAIN scored : scored[i].flagged}
      missing  == {i \in DOMAIN scored : scored[i].passage = NoPassage}
  IN IF EntailmentRank(best) >= Threshold
       THEN [status |-> "SUPPORTED", score |-> best.score, reason |-> "none"]
     ELSE IF refuting # {}
       THEN [status |-> "CONTRADICTED",
             score  |-> scored[FirstMax(Values(scored), refuting)].score,
             reason |-> "contradicts"]
     ELSE IF flagged # {} /\ EntailmentRank(best) < 0
       THEN [status |-> "UNSUPPORTED",
             score  |-> scored[FirstMax(Values(scored), flagged)].score,
             reason |-> "rejected"]
     ELSE [status |-> "UNSUPPORTED",
           score  |-> best.score,
           reason |-> IF missing # {} /\ missing = DOMAIN scored THEN "not_found"
                      ELSE IF Entails(best) THEN "below_threshold"
                      ELSE "none_entails"]

\* A refusal and an uncited assertion are decided without scoring anything.
VerifyClaim(kind, scored) ==
  IF kind = "refusal"
    THEN [status |-> "REFUSAL", score |-> NoScore, reason |-> "none"]
  ELSE IF scored = <<>>
    THEN [status |-> "UNSUPPORTED", score |-> NoScore, reason |-> "uncited"]
  ELSE Judge(scored)
=============================================================================
