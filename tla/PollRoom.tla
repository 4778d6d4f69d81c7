------------------------------ MODULE PollRoom ------------------------------
(* What the poll control endpoint promises to the hosts of one room: every    *)
(* action is one atomic move of the room's status board, taken from the       *)
(* action table of poll_service, and a start hands the single active slot     *)
(* over from the running interaction to the started one in the same move.     *)
(* RoomControl is the code's concurrent implementation of these moves.        *)

CONSTANT Interactions

VARIABLE status

Statuses == {"idle", "active", "locked", "stopped"}

(* The slot is free for i: no other interaction of the room is active. *)
SlotFree(i) == \A j \in Interactions \ {i} : status[j] # "active"

Init == /\ status \in [Interactions -> Statuses]
        /\ \A i, j \in Interactions :
              status[i] = "active" /\ status[j] = "active" => i = j

(* start: the interaction that holds the slot is stopped in the same move. *)
Start(i) ==
    /\ status[i] \in {"idle", "stopped"}
    /\ status' = [j \in Interactions |->
                    IF j = i THEN "active"
                    ELSE IF status[j] = "active" THEN "stopped" ELSE status[j]]

Move(i, from, to) == status[i] \in from /\ status' = [status EXCEPT ![i] = to]

Lock(i)   == Move(i, {"active"}, "locked")
Unlock(i) == SlotFree(i) /\ Move(i, {"locked"}, "active")
Stop(i)   == Move(i, {"active", "locked"}, "stopped")
Reset(i)  == Move(i, {"active", "locked", "stopped"}, "idle")

Next == \E i \in Interactions :
            Start(i) \/ Lock(i) \/ Unlock(i) \/ Stop(i) \/ Reset(i)

Spec == Init /\ [][Next]_status
=============================================================================
