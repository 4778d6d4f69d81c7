---------------------------- MODULE MCRoomSocket ----------------------------
(* A hook that is given two rooms in turn. *)
EXTENDS RoomSocket

CONSTANTS a, b

TwoTargets == {a, b}
=============================================================================
