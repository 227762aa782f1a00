---------------------------- MODULE MCIngestJobs ----------------------------
(***************************************************************************)
(* Small instances of IngestJobs for TLC.                                  *)
(***************************************************************************)
EXTENDS IngestJobs, TLC

JobSymmetry == Permutations(Jobs)
=============================================================================
