------------------------------ MODULE MCServing ------------------------------
(* Two requests that arrive while a model is preloaded, or could not be. *)
EXTENDS Serving

CONSTANTS r1, r2

\* The fact route takes every loader and no generation: it is the other's company.
MCRoutes == [r \in Requests |-> IF r = r1 THEN {"answer", "stream"} ELSE {"fact"}]
=============================================================================
