------------------------------- MODULE MCInputs -------------------------------
(* Inputs of bounded size: pages of a few operations, lines of a few words, premises *)
(* of a few sentences, evaluations of three items. *)
EXTENDS Extraction, Evaluation

Op(x, y, words) == [x |-> x, y |-> y, words |-> words]

Caption == Op(1, 2, <<"caption">>)

\* Three columns of which two make a table, text above the caption, the echo, blanks.
Geometry ==
  [most |-> 7, ops |-> {Caption, Op(1, 1, <<"other">>), Op(0, 0, <<"other">>), Op(1, 3, <<>>)}
                         \cup {Op(x, 3, <<"other">>) : x \in {1, 2, 3}}]

\* Two columns whose cells speak of the hypothesis.
Wording ==
  [most |-> 5, ops |-> {Caption} \cup
     {Op(x, 3, words) : x \in {1, 3}, words \in
        {<<"subject", "verb">>, <<"predicate">>, <<"subject">>, <<"verb", "predicate", "stop">>,
         <<"identity", "predicate">>}}]

MCDrawings == {Geometry, Wording}

\* "the", "firmware", "find", "office", "microchip", "non-volatile", "config", "single,"
MCVocabulary ==
  {<<"the">>, <<"fi", "rm", "ware">>, <<"fi", "nd">>, <<"o", "ff", "ice">>,
   <<"micro", "chip">>, <<"non", "hyphen", "vola", "tile">>, <<"con", "fi", "g">>,
   <<"single", "comma">>}

MCDictionary ==
  {<<"the">>, <<"fi", "rm", "ware">>, <<"fi", "nd">>, <<"o", "ff", "ice">>,
   <<"micro", "chip">>, <<"micro">>, <<"chip">>, <<"non">>, <<"vola", "tile">>,
   <<"con">>, <<"fi", "g">>, <<"single">>}

MCExceptions == {<<"con", "fi", "g">>}

\* They satisfy what the theorem about lines asks of words.
ASSUME MCVocabularyAssumption == ClearVocabulary(MCVocabulary)

MCReach == [verb |-> 3, object |-> 2, copula |-> 1, head |-> 1]
-----------------------------------------------------------------------------
\* An adversarial item with a trap and one without, and an answerable one.
CONSTANTS trapped, untrapped, easy

MCAdversarialSet == <<trapped, untrapped>>
MCRetrievalSet   == <<easy>>
MCGroups == [i \in {trapped, untrapped, easy} |->
               IF i = trapped THEN {{"thing", "digit"}, {"phrase"}} ELSE {}]

\* The bait, a claim near it whose tag is a digit, and the bait denied.
Bait   == [words |-> {"thing", "digit"}, tags |-> {"digit"}, negated |-> FALSE]
Near   == [words |-> {"thing"}, tags |-> {"digit"}, negated |-> FALSE]
Denial == [words |-> {"thing", "digit"}, tags |-> {"digit"}, negated |-> TRUE]

Claimed(status, text) == [status |-> status, text |-> text]

\* Every response of one claim at most, and those of a refusal beside an answer.
MCResponses ==
  {{}}
  \cup {{Claimed(s, t)} : s \in {"SUPPORTED", "UNSUPPORTED", "CONTRADICTED", "REFUSAL"},
                         t \in {Bait, Near, Denial}}
  \cup {{Claimed(s, t), Claimed("REFUSAL", Denial)} :
           s \in {"SUPPORTED", "UNSUPPORTED"}, t \in {Bait, Near}}

MCMaxRate == <<0, 1>>

\* A behaviour reads a document or runs an evaluation.
InputsInit == Init /\ EvalInit

InputsNext ==
  \/ stage = "idle" /\ file = NoFile /\ Next /\ UNCHANGED evalVars
  \/ subject = "premise" /\ units = <<>> /\ EvalNext /\ UNCHANGED vars

InputsSpec == InputsInit /\ [][InputsNext]_<<vars, evalVars>>
=============================================================================
