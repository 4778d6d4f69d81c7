--------------------------- MODULE MCRoomControl ---------------------------
(* Small instances of RoomControl: two polls, with or without a Q&A, and one *)
(* or two request slots of which one may be served without Redis.            *)
EXTENDS RoomControl

CONSTANTS a, b, q, r1, r2

TwoPolls      == {a, b}
TwoPollsAndQa == {a, b, q}
OneRequest    == {r1}
TwoRequests   == {r1, r2}
NoSlot        == {}
Slot1         == {r1}

AllActs        == PollActs \cup PatchActs
MoveActs       == {"start", "stop", "lock", "unlock", "reset"}
OnlyStart      == {"start"}
SequentialActs == PollActs \cup {"patch_active"}
=============================================================================
