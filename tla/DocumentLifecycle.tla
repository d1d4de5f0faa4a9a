-------------------------- MODULE DocumentLifecycle --------------------------
(***************************************************************************)
(* What a caller of POST /ingest and GET /ingest/{document_id} may rely    *)
(* on, without the steps that bring it about: a document is absent,        *)
(* pending, indexed or failed, it is searchable or not, and it becomes and *)
(* stays indexed only while it is searchable.                              *)
(***************************************************************************)
CONSTANT Files

VARIABLES
  status,     \* what the poll reports, "absent" for a 404
  searchable  \* whether all the document's chunks are in both indexes

vars == <<status, searchable>>

Init ==
  /\ status = [f \in Files |-> "absent"]
  /\ searchable = [f \in Files |-> TRUE]

\* An upload is accepted, or a new version of a document is recorded.
Accept(f) ==
  /\ status' = [status EXCEPT ![f] = "pending"]
  /\ UNCHANGED searchable

\* Chunks are replaced or written to an index. It never costs an indexed
\* document its place in the search results.
Write ==
  /\ searchable' \in [Files -> BOOLEAN]
  /\ \A f \in Files : status[f] = "indexed" => searchable'[f]
  /\ UNCHANGED status

Publish(f) ==
  /\ status[f] # "absent"
  /\ searchable[f]
  /\ status' = [status EXCEPT ![f] = "indexed"]
  /\ UNCHANGED searchable

Fail(f) ==
  /\ status[f] # "absent"
  /\ status' = [status EXCEPT ![f] = "failed"]
  /\ UNCHANGED searchable

Next == Write \/ \E f \in Files : Accept(f) \/ Publish(f) \/ Fail(f)

Spec == Init /\ [][Next]_vars
=============================================================================
