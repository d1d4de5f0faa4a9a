-------------------------- MODULE TextNormalization --------------------------
(***************************************************************************)
(* domain/text_normalization.py: the repair of what the extractor makes of *)
(* a typeset page.  A text is a sequence of fragments, which are runs of   *)
(* letters, and of marks:                                                  *)
(*   FI       the codepoint of the ligature "fi"                           *)
(*   E0       the codepoint that means "ff" in one font and "fi" in another*)
(*   " ", newline, hyphen (a real one), comma (any punctuation)            *)
(*   break    a hyphen at the end of a line                                *)
(***************************************************************************)
EXTENDS Naturals, Sequences, SequencesExt, FiniteSetsExt

CONSTANTS
  Dictionary, \* _english_words: the words as sequences of fragments; {} without a list
  Exceptions  \* _LIGATURE_FUSION_EXCEPTIONS
-----------------------------------------------------------------------------
Ligatures == {"FI", "E0"}
White     == {" ", "newline", "break"}

\* What ends a token, in which ligatures still are codepoints, and what ends a run of letters.
Stops == White \cup {"hyphen", "comma"}
Marks == Ligatures \cup Stops

IsLetters(c) == c \notin Marks

\* The longest run up to, or from, a place that none of these ends.
RunBefore(text, i, stops) ==
  LET from == Min({l \in 1 .. i : \A m \in l .. i - 1 : text[m] \notin stops})
  IN SubSeq(text, from, i - 1)

RunFrom(text, i, stops) ==
  LET to == Max({r \in i - 1 .. Len(text) : \A m \in i .. r : text[m] \notin stops})
  IN SubSeq(text, i, to)

Replaced(text, mark, letters) ==
  [i \in DOMAIN text |-> IF text[i] = mark THEN letters ELSE text[i]]

\* _expand_pua: the majority reading, for looking words up.
Expanded(text) == Replaced(Replaced(text, "FI", "fi"), "E0", "ff")

Insert(text, places, mark) ==
  FlattenSeq([i \in DOMAIN text |-> IF i \in places THEN <<mark, text[i]>> ELSE <<text[i]>>])

\* A space is missing before the ligature at i: punctuation says so, or the dictionary.
SpaceDropped(text, i) ==
  LET head == Expanded(RunBefore(text, i, Stops))
      tail == Expanded(RunFrom(text, i, Stops))
  IN /\ text[i] \in Ligatures /\ i > 1
     /\ \/ text[i - 1] = "comma"
        \/ /\ IsLetters(text[i - 1])
           /\ head \o tail \notin Dictionary \cup Exceptions
           /\ head \in Dictionary /\ tail \in Dictionary

RepairLigatureSpaces(text) == Insert(text, {i \in DOMAIN text : SpaceDropped(text, i)}, " ")

\* The reading of an ambiguous codepoint: the first that makes its token a word.
Resolved(text, i) ==
  LET token == RunBefore(text, i, Stops) \o RunFrom(text, i, Stops)
      makes(letters) == Replaced(token, "E0", letters) \in Dictionary
  IN IF ~makes("ff") /\ makes("fi") THEN "fi" ELSE "ff"

ExpandLigatures(text) ==
  LET certain == Replaced(text, "FI", "fi")
  IN [i \in DOMAIN certain |-> IF certain[i] = "E0" THEN Resolved(certain, i) ELSE certain[i]]

\* The breaks the expression matches: between letters, left to right, and none whose left
\* part was the right part of a match.
Matches(text) ==
  LET between(i) == /\ text[i] = "break" /\ 1 < i /\ i < Len(text)
                    /\ IsLetters(text[i - 1]) /\ IsLetters(text[i + 1])
      head(i)    == RunBefore(text, i, Marks)
      match[i \in DOMAIN text] ==
        /\ between(i)
        /\ LET before == i - Len(head(i)) - 1
           IN before = 0 \/ ~match[before]
  IN {i \in DOMAIN text : match[i]}

\* dehyphenate: a joined word if there is one, or if the first part is none either.
Dehyphenate(text) ==
  LET kept(i) == LET head == RunBefore(text, i, Marks)
                     tail == RunFrom(text, i + 1, Marks)
                 IN /\ Dictionary # {} /\ head \o tail \notin Dictionary
                    /\ head \in Dictionary
      matches == Matches(text)
  IN FlattenSeq([i \in DOMAIN text |->
       IF i \notin matches THEN <<text[i]>> ELSE IF kept(i) THEN <<"hyphen">> ELSE <<>>])

\* Mutant: line breaks are repaired while ligatures still are codepoints.
NormalizeLigatures_BreaksFirst(text) == ExpandLigatures(RepairLigatureSpaces(Dehyphenate(text)))

\* normalize_ligatures: spaces while codepoints mark where words began, breaks once
\* every ligature is letters.
NormalizeLigatures(text) == Dehyphenate(ExpandLigatures(RepairLigatureSpaces(text)))
-----------------------------------------------------------------------------
(* What the typesetter and the extractor do to words *)

\* A printed word: its letters, whether the space before it was dropped (one before a
\* ligature may be), the fragment after which the line broke (0: none), and whether
\* the font is the one where E0 means "fi".
Begins(p) == p.word[1] \in {"fi", "ff"}

Letter(p, c) == IF c = "fi" THEN (IF p.heading THEN "E0" ELSE "FI")
                ELSE IF c = "ff" THEN "E0" ELSE c

\* A line breaks within a word with a hyphen, or at the word's own.
Glyphs(p) ==
  FlattenSeq([i \in DOMAIN p.word |->
    IF i # p.broken THEN <<Letter(p, p.word[i])>>
    ELSE IF p.word[i] = "hyphen" THEN <<"break">> ELSE <<Letter(p, p.word[i]), "break">>])

Extracted(printed) ==
  FlattenSeq([i \in DOMAIN printed |->
    IF i = 1 \/ printed[i].dropped THEN Glyphs(printed[i]) ELSE <<" ">> \o Glyphs(printed[i])])

Meant(printed) ==
  FlattenSeq([i \in DOMAIN printed |->
    IF i = 1 THEN printed[i].word ELSE <<" ">> \o printed[i].word])

\* A word on one line, in the dictionary, in the font whose reading is the majority's.
Plain(p) == p.broken = 0 /\ ~p.heading /\ p.word \in Dictionary

\* A space that only the dictionary can tell was there.
Guessed(printed, i) ==
  i \in DOMAIN printed /\ printed[i].dropped /\ Last(printed[i - 1].word) # "comma"

\* The dictionary sees what stands on one line, in the majority's reading.  It can tell one
\* lost space between two plain words; the other font in a whole word that is
\* listed; the break of a word that is listed or does not begin with a word.
Recoverable(printed) ==
  \A i \in DOMAIN printed :
    LET p      == printed[i]
        listed == p.word \in Dictionary
    IN /\ Guessed(printed, i) => /\ Plain(p) /\ Plain(printed[i - 1])
                                 /\ ~Guessed(printed, i - 1)
       /\ p.heading => p.broken = 0 /\ listed
       /\ p.broken # 0 /\ SubSeq(p.word, 1, p.broken) \in Dictionary => listed

\* What was printed is what is indexed: ligatures, spaces and line breaks are restored to the
\* words that were meant (text_normalization.py:130-162, 192-266, 269-298).
WordsRestored(printed) ==
  Recoverable(printed) => NormalizeLigatures(Extracted(printed)) = Meant(printed)
-----------------------------------------------------------------------------
(* The words whose repair no line can lead astray *)

\* The runs of letters of a text, and the parts of a word that a line may hold.
Runs(text) ==
  {RunBefore(text, i, Stops) \o RunFrom(text, i, Stops) :
     i \in {j \in DOMAIN text : IsLetters(text[j])}}

Parts(word) == {SubSeq(word, 1, i) : i \in DOMAIN word} \cup
               {SubSeq(word, i, Len(word)) : i \in DOMAIN word}

Misread(text) == Replaced(text, "fi", "ff")

\* Read as two words at k.
Splits(run, k) == /\ run[k] \in {"fi", "ff"}
                  /\ SubSeq(run, 1, k - 1) \in Dictionary
                  /\ SubSeq(run, k, Len(run)) \in Dictionary

OneWord(run) == \/ run \in Dictionary \cup Exceptions
                \/ \A k \in 2 .. Len(run) : ~Splits(run, k)

\* Letters, with hyphens between letters, and punctuation at the end.
WellSpelled(word) ==
  /\ word \in Seq(STRING) /\ word # <<>>
  /\ \A i \in DOMAIN word :
       \/ IsLetters(word[i])
       \/ word[i] = "comma" /\ i = Len(word)
       \/ /\ word[i] = "hyphen" /\ 1 < i /\ i < Len(word)
          /\ IsLetters(word[i - 1]) /\ IsLetters(word[i + 1])

\* No part of it on a line is two words or another word in the other font; in that
\* font, it is neither.
ClearFonts(word) ==
  /\ \A part \in Parts(word) : \A run \in Runs(part) :
       /\ OneWord(run)
       /\ Replaced(run, "ff", "fi") \in Dictionary => run \in Dictionary
  /\ word \in Dictionary /\ Contains(word, "fi") =>
       ~Contains(word, "ff") /\ Misread(word) \notin Dictionary /\ OneWord(Misread(word))

\* Before its hyphen stands a word that does not make another with what follows; after
\* it none that a break could cut off.
ClearBreaks(word) ==
  \A i \in DOMAIN word : word[i] = "hyphen" =>
    LET head == RunBefore(word, i, Stops)
        tail == RunFrom(word, i + 1, Stops)
    IN /\ head \in Dictionary /\ head \o tail \notin Dictionary
       /\ \A k \in 1 .. Len(tail) - 1 : SubSeq(tail, 1, k) \in Dictionary => tail \in Dictionary

\* Two listed words that lost their space are not one, nor two others, and the lost space
\* was not between two ligatures.
ClearPair(first, second) ==
  LET run == first \o second
  IN /\ Last(first) \notin {"fi", "ff"}
     /\ run \notin Dictionary \cup Exceptions
     /\ \A k \in 2 .. Len(run) : Splits(run, k) => k = Len(first) + 1

ClearVocabulary(words) ==
  /\ \A entry \in Dictionary : \A i \in DOMAIN entry : IsLetters(entry[i])
  /\ \A word \in words : WellSpelled(word) /\ ClearFonts(word) /\ ClearBreaks(word)
  /\ \A first, second \in words \cap Dictionary :
       second[1] \in {"fi", "ff"} => ClearPair(first, second)
=============================================================================
