------------------------------ MODULE Evaluation ------------------------------
(***************************************************************************)
(* The faithfulness evaluation: eval/run_faithfulness_eval.py asks the     *)
(* query pipeline the questions of two golden sets, and trap_scoring.py    *)
(* counts the adversarial ones whose bait was asserted.  All questions     *)
(* take the generating route; what a response claims, and with which       *)
(* verdicts, is free.  A claim's text is the patterns of the traps that    *)
(* its words match, those that only its citation tags match, and whether   *)
(* it carries a negation marker.                                           *)
(***************************************************************************)
EXTENDS Naturals, Sequences, FiniteSets, SequencesExt, FiniteSetsExt

CONSTANTS
  AdversarialSet, \* the ids of adversarial_set.jsonl in file order
  RetrievalSet,   \* the ids of retrieval_set.jsonl in file order
  Groups,         \* Groups[id]: the alternatives of the item's trap, each a set of patterns
  Responses,      \* the sets of verdicts a response may hold
  Limits,         \* the values of --limit
  MaxRate,        \* --max-false-support, as <<numerator, denominator>>
  NoFile          \* no records have been written

\* The questions of both sets, in the order they are asked.
Questions == AdversarialSet \o RetrievalSet

Items == Range(Questions)

\* An id names one question.
ASSUME EvaluationAssumption ==
  /\ AdversarialSet \in Seq(Items) /\ RetrievalSet \in Seq(Items)
  /\ IsInjective(Questions)
  /\ Groups \in [Items -> SUBSET SUBSET UNION UNION {Groups[i] : i \in Items}]
  /\ \A i \in Items : {} \notin Groups[i]
  /\ Limits \subseteq Nat /\ MaxRate \in Nat \X (Nat \ {0})

VARIABLES
  stage,   \* where main() is: "idle", "asking", "reported", "rescoring", "rescored"
  todo,    \* the places in Questions of the items still to be asked
  items,   \* adversarial_items: the traps report() is given
  records, \* one record per item asked
  file,    \* the records of a run, as --out left them
  printed, \* what report() returned and the exit code; <<>> before
  said,    \* history: the verdicts of each item asked, or "error"
  written  \* history: the rates printed by the run that wrote the file

evalVars == <<stage, todo, items, records, file, printed, said, written>>
-----------------------------------------------------------------------------
(* trap_scoring.py *)

\* Mutant: tags are left in the claim, so a trap's digit matches [C1].
AssertsTrap_Tagged(text, groups) ==
  ~text.negated /\ \E group \in groups : group \subseteq text.words \cup text.tags

\* Tags are stripped; a denial asserts nothing; one alternative must match in full.
AssertsTrap(text, groups) == ~text.negated /\ \E group \in groups : group \subseteq text.words

ItemAssertsTrap(record) == \E text \in record.supported : AssertsTrap(text, Groups[record.id])

\* D4.  A record from before there were refusals says so by its other fields.
BaitRejected(record) ==
  /\ ~ItemAssertsTrap(record)
  /\ IF record.old THEN record.state = "insufficient_evidence" \/ record.rejected # {}
                   ELSE record.refusals # {}

Expected(id) == IF id \in Range(AdversarialSet) THEN "insufficient_evidence" ELSE "ok"

Answered(recs, expected) == {r \in recs : r.state # "error" /\ Expected(r.id) = expected}

\* score(): the records it takes, and those of them each metric counts.
Scorable(recs, given) ==
  {r \in Answered(recs, "insufficient_evidence") : r.id \in given /\ Groups[r.id] # {}}
D1(recs, given)  == {r \in Scorable(recs, given) : ItemAssertsTrap(r)}
Old(recs, given) == {r \in Scorable(recs, given) : r.state = "ok"}
D4(recs, given)  == {r \in Scorable(recs, given) : BaitRejected(r)}
-----------------------------------------------------------------------------
(* run_faithfulness_eval.py *)

With(verdicts, statuses) == {v.text : v \in {w \in verdicts : w.status \in statuses}}

\* What evaluate() keeps of a response: assemble_response's state, _split_verdicts.
Answer(id, verdicts) ==
  [id |-> id, old |-> FALSE,
   state |-> IF With(verdicts, {"SUPPORTED", "UNSUPPORTED"}) # {} THEN "ok"
             ELSE "insufficient_evidence",
   supported |-> With(verdicts, {"SUPPORTED"}),
   rejected  |-> With(verdicts, {"UNSUPPORTED", "CONTRADICTED"}),
   refusals  |-> With(verdicts, {"REFUSAL"})]

\* An exception is recorded, not raised.
Failure(id) ==
  [id |-> id, old |-> FALSE, state |-> "error",
   supported |-> {}, rejected |-> {}, refusals |-> {}]

\* A record of an earlier version: refusals were rejected claims, and the state
\* was decided by supported claims alone.
Archived(id, verdicts) ==
  [id |-> id, old |-> TRUE,
   state |-> IF With(verdicts, {"SUPPORTED"}) # {} THEN "ok" ELSE "insufficient_evidence",
   supported |-> With(verdicts, {"SUPPORTED"}),
   rejected  |-> With(verdicts, {"UNSUPPORTED", "CONTRADICTED", "REFUSAL"}),
   refusals  |-> {}]

Rate(hits, all) == IF all = {} THEN <<0, 1>> ELSE <<Cardinality(hits), Cardinality(all)>>

\* report(): D1 once a trap was scored, else the share of adversarial items answered;
\* and the share of answerable items refused.
Report(recs, given) ==
  LET reject == Answered(recs, "insufficient_evidence")
      answer == Answered(recs, "ok")
  IN [support   |-> IF Scorable(recs, given) # {}
                    THEN Rate(D1(recs, given), Scorable(recs, given))
                    ELSE Rate({r \in reject : r.state = "ok"}, reject),
      rejection |-> Rate({r \in answer : r.state = "insufficient_evidence"}, answer)]

Above(rate, bound) == rate[1] * bound[2] > bound[1] * rate[2]

\* load(...)[: limit]
Load(places, ids, limit) ==
  LET wanted == {n \in places : Questions[n] \in ids}
  IN {n \in wanted : Cardinality({m \in wanted : m <= n}) <= limit}

EvalInit ==
  /\ stage = "idle" /\ todo = {} /\ items = {} /\ records = {}
  /\ file \in {NoFile} \cup {{Archived(id, vs)} : id \in Items, vs \in Responses}
  /\ printed = <<>> /\ written = <<>>
  /\ said = [id \in Items |-> {}]

\* main(): the sets are loaded.
Begin(sets, ids, limit) ==
  /\ stage = "idle" /\ file = NoFile /\ written = <<>>
  /\ LET adversarial == IF "adversarial" \in sets
                        THEN Load(DOMAIN AdversarialSet, ids, limit) ELSE {}
         retrieval   == IF "retrieval" \in sets
                        THEN Load(DOMAIN Questions \ DOMAIN AdversarialSet, ids, limit) ELSE {}
     IN /\ todo' = adversarial \cup retrieval
        /\ items' = {Questions[n] : n \in adversarial}
  /\ stage' = "asking"
  /\ UNCHANGED <<records, file, printed, said, written>>

\* The next question is asked: an answer, or an error.
Ask ==
  /\ stage = "asking" /\ todo # {}
  /\ todo' = todo \ {Min(todo)}
  /\ LET id == Questions[Min(todo)]
     IN \/ \E vs \in Responses :
             /\ records' = records \cup {Answer(id, vs)}
             /\ said' = [said EXCEPT ![id] = vs]
        \/ /\ records' = records \cup {Failure(id)}
           /\ UNCHANGED said
  /\ UNCHANGED <<stage, items, file, printed, written>>

\* --rescore: the records of a file, and the whole adversarial set.
Rescore ==
  /\ stage \in {"idle", "reported"} /\ file # NoFile
  /\ stage' = "rescoring"
  /\ records' = file
  /\ items' = Range(AdversarialSet)
  /\ UNCHANGED <<todo, file, printed, said, written>>

\* The report is printed, the records are written, the gate decides.
Finish ==
  /\ \/ stage = "asking" /\ todo = {}
     \/ stage = "rescoring"
  /\ LET rates == Report(records, items)
     IN /\ printed' = [rates |-> rates, exit |-> IF Above(rates.support, MaxRate) THEN 1 ELSE 0]
        /\ \/ stage = "asking" /\ file' = records /\ written' = rates
           \/ UNCHANGED <<file, written>>
  /\ stage' = IF stage = "asking" THEN "reported" ELSE "rescored"
  /\ UNCHANGED <<todo, items, records, said>>

EvalNext ==
  \/ \E sets \in SUBSET {"adversarial", "retrieval"} \ {{}}, ids \in SUBSET Items, limit \in Limits :
       Begin(sets, ids, limit)
  \/ Ask \/ Rescore \/ Finish

EvalSpec == EvalInit /\ [][EvalNext]_evalVars
-----------------------------------------------------------------------------
\* An item's supported claims assert its bait: every pattern of one alternative is
\* found in the words of a claim that does not deny them.
Baited(id) ==
  \E v \in said[id] : /\ v.status = "SUPPORTED" /\ ~v.text.negated
                      /\ \E group \in Groups[id] : \A p \in group : p \in v.text.words

\* The gate and the metrics agree with what was said (trap_scoring.py:3-13, 145-147,
\* run_faithfulness_eval.py:168-177): with no tolerance a scored item that was baited fails the run
\* and one that was not does not; the metric D1 replaced counted every item D1
\* counts, and none is both baited and credited with having declined; a file
\* rescored gives the rates of the run that wrote it, whichever items that run took.
GradesHold ==
  /\ stage \in {"reported", "rescored"} =>
       /\ D1(records, items) \subseteq Old(records, items) \ D4(records, items)
       /\ \A r \in Scorable(records, items) : ~r.old => (r \in D1(records, items) <=> Baited(r.id))
       /\ MaxRate[1] = 0 /\ Scorable(records, items) # {} =>
            (printed.exit = 0 <=> D1(records, items) = {})
  /\ stage = "rescored" /\ written # <<>> => printed.rates = written

\* What the docstrings of item_asserts_trap and bait_rejected take for granted: a claim
\* that was rejected has been caught, and an item credited with declining its bait
\* does not show it (trap_scoring.py:108-109, 116).  Not so since unsupported claims
\* are part of the answer; no run checks it.
DeclinedIsUnseen ==
  \A r \in D4(records, items) :
    \A text \in With(said[r.id], {"SUPPORTED", "UNSUPPORTED"}) : ~AssertsTrap(text, Groups[r.id])
=============================================================================
