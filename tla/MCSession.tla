------------------------------ MODULE MCSession ------------------------------
(* Model-checking instance of Session.                                     *)
EXTENDS Session, TLC

MCSymmetry == Permutations(Tabs) \cup Permutations(Calls)
=============================================================================
