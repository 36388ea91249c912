------------------------------- MODULE MCRuns -------------------------------
(* Small instances of Runs.                                                *)
EXTENDS Runs, TLC

Symmetry == Permutations(Reports)
=============================================================================
