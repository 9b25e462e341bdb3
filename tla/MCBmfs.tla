------------------------------- MODULE MCBmfs -------------------------------
(* Bmfs for TLC.                                                           *)
EXTENDS Bmfs, TLC

MCLens == 0 .. 2
MCOffsets == {-1, 0, 1}
MCFlags == {{}, {"CREAT"}, {"CREAT", "EXCL"}, {"TRUNC"}, {"APPEND"}, {"CREAT", "APPEND"}}

Symmetry == Permutations(Names)

(* No action reads ret.  The properties that do are about a step, except   *)
(* for a conjunct of TypeOK, which BmfsTypeOK proves.                      *)
View == <<disk, data, dir, dir_loaded, files>>
=============================================================================
