---------------------------- MODULE MCQueryCache ----------------------------
(* Instances of QueryCache for TLC. *)
EXTENDS QueryCache, TLC

CONSTANTS r1, r2, r3, i1, i2

\* Two requests on one instance, one on the other.
TwoAndOne == r1 :> i1 @@ r2 :> i1 @@ r3 :> i2
=============================================================================
