--------------------------- MODULE MCStateVersions ---------------------------
(***************************************************************************)
(* Instances of StateVersions for TLC.                                     *)
(***************************************************************************)
EXTENDS StateVersions, TLC

CONSTANTS d1, d2, e1, e2, w1, w2, w3

\* Documents, edits and writers are interchangeable in the safety runs.
Symmetry == Permutations(Docs) \cup Permutations(Edits) \cup Permutations(Writers)

=============================================================================
