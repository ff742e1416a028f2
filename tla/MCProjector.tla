----------------------------- MODULE MCProjector -----------------------------
(* Instances of Projector for TLC. *)
EXTENDS Projector, TLC

DaemonsInterchangeable == Permutations(Projectors)

DistinctKeys == [c \in Coins |-> c]
=============================================================================
