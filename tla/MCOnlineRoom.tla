---------------------------- MODULE MCOnlineRoom ----------------------------
(* Instances of OnlineRoom for TLC. *)
EXTENDS OnlineRoom, TLC

(* Identifiers drawn at random are interchangeable, and so are the names     *)
(* people type, as long as none of them is the name of a CPU.                *)
Ids == Permutations(RoomIds) \cup Permutations(Participants)
         \cup Permutations(SessionIds) \cup Permutations(MatchIds)
IdsAndNames == Ids \cup Permutations(HumanNames)
=============================================================================
