---------------------------- MODULE MCValidation ----------------------------
(***************************************************************************)
(* Instances of Validation for TLC.                                        *)
(***************************************************************************)
EXTENDS ValidationHistory

\* The pool workers are interchangeable.
Symmetry == Permutations(Worker)
=============================================================================
