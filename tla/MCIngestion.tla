----------------------------- MODULE MCIngestion -----------------------------
(* Small instances of Ingestion for TLC. *)
EXTENDS Ingestion, TLC

CONSTANTS long, short, empty

\* A PDF of two chunks, one of one chunk, and one without any text.
MCChunkCount == [c \in Contents |-> CASE c = long -> 2 [] c = short -> 1 [] c = empty -> 0]

MCSymmetry == Permutations(Jobs)
=============================================================================
