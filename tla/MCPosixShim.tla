---------------------------- MODULE MCPosixShim -----------------------------
(* PosixShim for TLC: an array of no pieces, and one with an empty piece   *)
(* between two others.                                                     *)
EXTENDS PosixShim

MCIovs == {<<>>, <<1, 0, 2>>}
=============================================================================
