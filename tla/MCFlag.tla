------------------------------- MODULE MCFlag -------------------------------
(***************************************************************************)
(* Symmetry for model-checking FeatureFlag: the names passed as --actor    *)
(* and --approved-by are interchangeable, and so are the gates.            *)
(***************************************************************************)
EXTENDS FeatureFlag, TLC

NameSymmetry == Permutations(People) \cup Permutations(Gates)
=============================================================================
