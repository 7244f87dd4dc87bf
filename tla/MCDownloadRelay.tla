--------------------------- MODULE MCDownloadRelay ---------------------------
(* DownloadRelay with interchangeable transfers. *)
EXTENDS DownloadRelay, TLC

Symmetry == Permutations(Transfers)
=============================================================================
