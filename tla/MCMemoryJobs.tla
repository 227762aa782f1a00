---------------------------- MODULE MCMemoryJobs ----------------------------
(***************************************************************************)
(* Small instances of MemoryJobs for TLC.                                  *)
(***************************************************************************)
EXTENDS MemoryJobs, TLC

\* Every key carries the same body, so that all of them compete for one hash.
OneBody == [k \in Keys |-> CHOOSE b \in Contents : TRUE]

KeySymmetry == Permutations(Keys)
=============================================================================
