------------------------------ MODULE MCDurability ------------------------------
(* A small instance of Durability for TLC. *)
EXTENDS Durability, TLC

Identifiers == Permutations(Rooms) \cup Permutations(Matches)
=============================================================================
