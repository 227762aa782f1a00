---------------------------- MODULE MCPalaceRuns ----------------------------
(***************************************************************************)
(* Small instances of PalaceRuns for TLC.                                  *)
(***************************************************************************)
EXTENDS PalaceRuns
=============================================================================
