---------------------------- MODULE MCRealtimeDb ----------------------------
(* Instances of RealtimeDb for TLC. *)
EXTENDS RealtimeDb, TLC

CONSTANTS room, users     \* two locations

\* Two messages in one room.
OneRoom == [k \in Keys |-> room]

\* The first key lies under the room, the others elsewhere.
TwoRooms == [k \in Keys |-> IF k = 1 THEN room ELSE users]

\* Nothing tells clients apart, nor registrations.
ModelSymmetry == Permutations(Clients) \cup Permutations(Observers)
=============================================================================
