--------------------------- MODULE MCQueryStream ---------------------------
(* Two questions on one page that may be left and opened again. *)
EXTENDS QueryStream
=============================================================================
