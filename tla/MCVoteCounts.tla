--------------------------- MODULE MCVoteCounts ---------------------------
(* Small instances of VoteCounts: one or two participants, up to two request *)
(* slots of which the second may be served without Redis, and the flush      *)
(* loops of two API processes.                                               *)
EXTENDS VoteCounts

CONSTANTS ann, bob, r1, r2

TwoVoters   == {ann, bob}
OneRequest  == {r1}
TwoRequests == {r1, r2}
NoSlot      == {}
Slot2       == {r2}
=============================================================================
