--------------------------- MODULE MCMediaFairness ---------------------------
(* Two tenants: one has several media jobs, the other one. *)
EXTENDS MediaFairness

CONSTANTS a1, a2, b1, ta, tb

TwoTenants == [j \in Jobs |-> IF j = b1 THEN tb ELSE ta]
=============================================================================
