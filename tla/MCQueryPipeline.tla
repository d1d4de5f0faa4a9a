--------------------------- MODULE MCQueryPipeline ---------------------------
(* Two chunks, one of which has had two texts that rank on either side of the
   other chunk, and every shape of citation list that matters. *)
EXTENDS QueryPipeline, TLC

CONSTANTS a, b

MCPassages == {[chunk |-> a, version |-> 0], [chunk |-> a, version |-> 1],
               [chunk |-> b, version |-> 0]}

MCVersions == {0, 1}

MCRelevance ==
  [i \in Questions \cup Statements |->
    [p \in MCPassages |-> IF p.chunk = b THEN 1 ELSE IF p.version = 0 THEN 2 ELSE 0]]

Assertion(tags) == [kind |-> "assertion", citations |-> tags]
Refusal(tags)   == [kind |-> "refusal", citations |-> tags]

\* A claim with two citations before an uncited one; a tag that names nothing, a
\* refusal that cites and a claim with one citation.
MCGenerations ==
  {<<Assertion(<<1, 2>>), Assertion(<<>>)>>,
   <<Assertion(<<3>>), Refusal(<<2>>), Assertion(<<1>>)>>}

\* Bound: requests overlap where they share something, the cache.  While one is
\* outside generate_claims the others are idle or inside it, and they are idle
\* once it has a verdict: searching, verifying and reporting touch nothing shared.
Overlap ==
  \A r \in Requests : \A o \in Requests \ {r} :
    /\ req[r].pc \notin {"idle", "lookup", "call"} => req[o].pc \in {"idle", "lookup", "call"}
    /\ req[r].verdicts # <<>> => req[o].pc = "idle"

Symmetry == Permutations(Requests)
=============================================================================
