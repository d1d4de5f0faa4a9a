------------------------------- MODULE Premises -------------------------------
(***************************************************************************)
(* What the verifier reads of a premise: the windows a long one is retried *)
(* in (domain/verification.py) and the screen that keeps composition from  *)
(* passing as identity (domain/conflation.py).                             *)
(*                                                                         *)
(* For the windows a premise is the lengths of its sentence units; for the *)
(* screen it is words, named for what the screen's patterns see in them:   *)
(*   subject, predicate  of the hypothesis                                 *)
(*   verb                a relation of composition                         *)
(*   identity            a copula with its article                         *)
(*   stop, "|", bullet, newline   what may end a segment                   *)
(***************************************************************************)
EXTENDS Naturals, Sequences, SequencesExt, FiniteSetsExt

CONSTANTS
  WindowChars,  \* _WINDOW_CHARS
  WindowStride, \* _WINDOW_STRIDE
  Reach         \* how many words the patterns' gaps span, by the gap's name

ASSUME PremiseAssumption ==
  /\ WindowChars \in Nat /\ WindowStride \in Nat \ {0}
  /\ Reach \in [{"verb", "object", "copula", "head"} -> Nat]
-----------------------------------------------------------------------------
\* The length of units a .. b joined by spaces.
Joined(units, a, b) == FoldLeft(LAMBDA sum, n : sum + n, b - a, SubSeq(units, a, b))

\* The units of the window that starts at unit a: one at least, then as many as fit.
Window(units, a) ==
  a .. Max({b \in a .. Len(units) : b = a \/ Joined(units, a, b) <= WindowChars})

\* Mutant: the last start is left to the window before it.
WindowStarts_ButLast(units) ==
  {a \in 1 .. Len(units) - WindowStride : (a - 1) % WindowStride = 0} \cup {1}

WindowStarts(units) == {a \in 1 .. Len(units) : (a - 1) % WindowStride = 0}

\* _windows, as the units each is made of.
Windows(units) == {Window(units, a) : a \in WindowStarts(units)}
-----------------------------------------------------------------------------
\* _normalize collapses white space, newlines with it.
Normalized(premise) ==
  FlattenSeq([i \in DOMAIN premise |->
    IF premise[i].word = "newline" THEN <<>> ELSE <<premise[i]>>])

\* Mutant: the columns of a linearised row are not told apart.
Ends_NoPipe(premise, i) ==
  \/ premise[i].word = "stop"
  \/ i < Len(premise) /\ premise[i + 1].word = "bullet"

\* _SEGMENT_SPLIT: a segment ends at a full stop, at a bar, before a bullet.
Ends(premise, i) ==
  \/ premise[i].word \in {"stop", "|"}
  \/ i < Len(premise) /\ premise[i + 1].word = "bullet"

\* Three words of one segment, in this order and this close.
Pattern(premise, first, second, third, gap1, gap2) ==
  LET at(word) == {i \in DOMAIN premise : premise[i].word = word}
  IN {p \in at(first) \X at(second) \X at(third) :
        /\ p[1] < p[2] /\ p[2] - p[1] - 1 <= Reach[gap1]
        /\ p[2] < p[3] /\ p[3] - p[2] - 1 <= Reach[gap2]
        /\ \A m \in p[1] .. p[3] - 1 : ~Ends(premise, m)}

AssertsIdentity(premise) ==
  Pattern(premise, "subject", "identity", "predicate", "copula", "head") # {}

\* detect_composition_mismatch: the places a finding may bind in the normalised premise.
\* A hypothesis that states no identity, or whose predicate is itself a composition,
\* is no concern of the screen's; one segment that asserts the identity clears all.
Findings(premise, hypothesis) ==
  LET text == Normalized(premise)
  IN IF hypothesis # "identity" \/ AssertsIdentity(text) THEN {}
     ELSE Pattern(text, "subject", "verb", "predicate", "verb", "object")
-----------------------------------------------------------------------------
\* While any WindowStride neighbours fit a window, every unit is in one: no sentence of a
\* long premise is out of the narrowed retry's sight (verification.py:119-122).
UnitsCovered(units) ==
  (\A a \in 1 .. Len(units), b \in 1 .. Len(units) :
     a <= b /\ b < a + WindowStride => Joined(units, a, b) <= WindowChars)
  => \A u \in DOMAIN units : \E w \in Windows(units) : u \in w
=============================================================================
