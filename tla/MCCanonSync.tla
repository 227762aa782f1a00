---------------------------- MODULE MCCanonSync ----------------------------
(* Two files of one name in two directories, and one of another name.      *)
EXTENDS CanonSync
CONSTANTS s1, s2, p1, p2, p3
MCSlugOf == [f \in Paths |-> IF f = p3 THEN s2 ELSE s1]
=============================================================================
