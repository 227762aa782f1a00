------------------------- MODULE MCSourceResources -------------------------
(***************************************************************************)
(* Small instances of SourceResources for TLC.                             *)
(***************************************************************************)
EXTENDS SourceResources, TLC

TokenSymmetry == Permutations(Tokens)
=============================================================================
