------------------------------ MODULE MCAgent -------------------------------
(* Instances of Agent for TLC: the ids are interchangeable.                *)
EXTENDS Agent, TLC

IdSymmetry == Permutations(Ids)
=============================================================================
