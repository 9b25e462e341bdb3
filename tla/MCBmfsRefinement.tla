------------------------- MODULE MCBmfsRefinement ---------------------------
(* BmfsRefinement for TLC.                                                 *)
EXTENDS BmfsRefinement, TLC

MCLens == {1, 2}
MCOffsets == {1}
MCFlags == {{}, {"CREAT", "TRUNC"}, {"CREAT", "EXCL"}, {"CREAT", "APPEND"}}

Symmetry == Permutations(Names)

(* No action reads ret, and ImplementsAbsFs constrains it step by step.    *)
View == <<disk, data, dir, dir_loaded, files>>
=============================================================================
