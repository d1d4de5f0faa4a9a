------------------------------ MODULE Extraction ------------------------------
(***************************************************************************)
(* A document on its way to the verifier: pages are read operation by      *)
(* operation and chunked, lines are restored, premises are read in windows *)
(* and screened.  Each behaviour takes one of these as far as its bound;   *)
(* what the code makes of it is computed at every step.                    *)
(***************************************************************************)
EXTENDS Tables, TextNormalization, Premises

CONSTANTS
  Drawings,   \* the kinds of page: which operations there may be, and how many
  Vocabulary, \* the words a line may print
  Lengths,    \* the lengths a sentence may have
  MaxWords,   \* bound: words of a line
  MaxUnits    \* bound: sentences of a premise

ASSUME ExtractionAssumption ==
  /\ \A d \in Drawings : d.ops \subseteq Operation
  /\ Lengths \subseteq Nat
  /\ MaxWords \in Nat /\ MaxUnits \in Nat

VARIABLES
  subject, \* what is being read
  drawing, \* the kind of page
  page,    \* its operations so far
  line,    \* the printed words so far
  units    \* the sentence lengths so far

vars == <<subject, drawing, page, line, units>>

Init ==
  /\ subject \in {"page", "line", "premise"}
  /\ drawing \in Drawings
  /\ subject # "page" => drawing = CHOOSE d \in Drawings : TRUE
  /\ page = <<>> /\ line = <<>> /\ units = <<>>

\* The visitor is called.
ShowOp ==
  /\ subject = "page" /\ Len(page) < drawing.most
  /\ \E op \in drawing.ops : page' = Append(page, op)
  /\ UNCHANGED <<subject, drawing, line, units>>

\* A word is printed: a ligature may lose its space, a long word its line.
PrintWord ==
  /\ subject = "line" /\ Len(line) < MaxWords
  /\ \E p \in [word : Vocabulary, dropped : BOOLEAN, broken : 0 .. 3, heading : BOOLEAN] :
       /\ p.dropped => line # <<>> /\ Begins(p)
       /\ p.heading => Contains(p.word, "fi")
       /\ p.broken < Len(p.word)
       /\ p.broken # 0 => p.word[p.broken + 1] \notin {"hyphen", "comma"}
       /\ line' = Append(line, p)
  /\ UNCHANGED <<subject, drawing, page, units>>

\* A premise gets another sentence.
AddUnit ==
  /\ subject = "premise" /\ Len(units) < MaxUnits
  /\ \E n \in Lengths : units' = Append(units, n)
  /\ UNCHANGED <<subject, drawing, page, line>>

Next == ShowOp \/ PrintWord \/ AddUnit

Spec == Init /\ [][Next]_vars
-----------------------------------------------------------------------------
\* Nothing a page says is lost on the way to the chunks, or said there twice
\* (tables.py:101-107, reader.py:46-60).
NothingLost == PageKept(page)

\* In a linearised row the screen never binds a subject of one column to a predicate of
\* the other (conflation.py:136-142).
CellsApart ==
  \A chunk \in RowChunks(page) :
    LET text == Normalized(chunk)
    IN \A f \in Findings(chunk, "identity") :
         page[text[f[1]].op].x = page[text[f[3]].op].x

\* A line is restored to the words it was printed from, whatever the fonts, the lost spaces
\* and the line breaks made of it (text_normalization.py:269-298).
Restored == WordsRestored(line)

\* A long premise is read in full by its windows (verification.py:110-122).
PremiseCovered == UnitsCovered(units)
=============================================================================
