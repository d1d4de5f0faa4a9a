--------------------------- MODULE MCUploadPolling ---------------------------
(* Small instances of UploadPolling for TLC. *)
EXTENDS UploadPolling, TLC

MCSymmetry == Permutations(Slots)
=============================================================================
