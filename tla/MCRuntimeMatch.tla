---------------------------- MODULE MCRuntimeMatch ----------------------------
(* Instances of RuntimeMatch for TLC. *)
EXTENDS RuntimeMatch, TLC

(* People, CPU seats and commandIds are interchangeable. *)
Names == Permutations(Humans) \cup Permutations(Bots) \cup Permutations(CommandIds)
=============================================================================
