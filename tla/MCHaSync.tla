------------------------------ MODULE MCHaSync ------------------------------
(* Names for the nodes of HaSync, and their symmetry. *)
EXTENDS HaSync, TLC

CONSTANTS a, b

MCNodes == {a, b}

\* The nodes are interchangeable; used by safety runs only.
NodeSymmetry == Permutations(MCNodes)
=============================================================================
