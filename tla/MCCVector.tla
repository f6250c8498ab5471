------------------------------- MODULE MCCVector -------------------------------
(* The values of the compressed vector are interchangeable. *)
EXTENDS CVector

Symmetry == Permutations(Values)
===============================================================================
