-------------------------- MODULE MCProgressStream --------------------------
(***************************************************************************)
(* Instances of ProgressStream for TLC.                                    *)
(***************************************************************************)
EXTENDS ProgressStream, TLC

\* Nothing tells one worker from another.
Symmetry == Permutations(Workers)
=============================================================================
