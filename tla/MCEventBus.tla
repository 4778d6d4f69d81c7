----------------------------- MODULE MCEventBus -----------------------------
(* Two processes, of which one may have to do without Redis, and two clients *)
(* of one room.                                                              *)
EXTENDS EventBus

CONSTANTS p1, p2, c1, c2

BothProcs   == {p1, p2}
LastProc    == {p2}
BothClients == {c1, c2}
Everybody   == {BothClients}
=============================================================================
