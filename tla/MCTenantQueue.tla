---------------------------- MODULE MCTenantQueue ----------------------------
(***************************************************************************)
(* Small instances of TenantQueue for TLC.                                 *)
(***************************************************************************)
EXTENDS TenantQueue

\* Every deleter deletes the row of the same enqueuer.
OneItem == [d \in Deleters |-> CHOOSE e \in Enqueuers : TRUE]

\* The deletions arrive at one API process; everybody else has a process of its own.
DeletersTogether == [p \in Procs |-> IF p \in Deleters THEN "api" ELSE p]
=============================================================================
