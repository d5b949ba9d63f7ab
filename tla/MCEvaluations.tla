--------------------------- MODULE MCEvaluations ---------------------------
(***************************************************************************)
(* Small instances of Evaluations.                                         *)
(***************************************************************************)
EXTENDS Evaluations, TLC

\* The reviews are interchangeable.
Interchangeable == Permutations(Reviews)
=============================================================================
