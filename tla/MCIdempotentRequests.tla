------------------------ MODULE MCIdempotentRequests ------------------------
(* Deliveries of one request through three slots, one of them without Redis. *)
EXTENDS IdempotentRequests

CONSTANTS d1, d2, d3

ThreeSlots == {d1, d2, d3}
LastSlot   == {d3}
=============================================================================
