--------------------------- MODULE MCHermesOutbox ---------------------------
(***************************************************************************)
(* A small instance of HermesOutbox for TLC.  The profile has one record   *)
(* of a first session; two writes compete for the quota of a second one,   *)
(* and one has the key of the record.                                      *)
(***************************************************************************)
EXTENDS HermesOutbox, TLC

CONSTANTS w1, w2, w3, k1, k2, k3, s1, s2

OldKey == w1 :> k1 @@ w2 :> k2 @@ w3 :> k3
OldSession == w1 :> s1 @@ w2 :> s1 @@ w3 :> s2
OldRecord == {<<[key |-> k3, session |-> s2, delivered |-> FALSE]>>}
=============================================================================
