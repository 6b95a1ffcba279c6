---------------------------- MODULE MCRevisions ----------------------------
(* Small instances of Revisions.                                             *)
EXTENDS Revisions, TLC

\* Nothing tells two tabs, two ids, or two contents fit for the site, apart.
Symmetry == Permutations(Client) \cup Permutations(RowId) \cup Permutations(Freezable)
=============================================================================
