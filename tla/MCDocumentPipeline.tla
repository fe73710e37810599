------------------------ MODULE MCDocumentPipeline ------------------------
(***************************************************************************)
(* Instances of DocumentPipeline for TLC.                                  *)
(***************************************************************************)
EXTENDS DocumentPipeline, TLC

CONSTANTS d1, d2, j1, j2, j3, c1, c2

\* Jobs and clients are interchangeable in every safety run.
Symmetry == Permutations(Jobs) \cup Permutations(Clients)

=============================================================================
